--------------------------- MODULE KioskLoopProof ---------------------------
(***************************************************************************)
(* Proofs about the kiosk loop, for every number of sets, revisions,       *)
(* adverse events and limits.                                              *)
(*                                                                         *)
(* Most of the invariant speaks of the kiosk's memory alone.  That part is *)
(* Sound(m), a predicate of any memory m, so that each handler has one     *)
(* lemma: from a sound memory to a sound memory.                           *)
(***************************************************************************)
EXTENDS KioskLoop, TLAPS

\* A decoder that is done holds one of the firmware's screens; nothing is fed to an empty one.
BuiltinHeld(m) ==
    m.dec.doc = "builtin" => m.frame = Builtin \/ (m.frame = Black /\ ~m.decoding)

\* While a document of the server is decoded, frame_t must not be drawn.
NotWhileDecoding(m) == m.decoding /\ m.dec.doc = "server" => ~m.frameValid

\* FrameDrawable, BadgeShown, ParkedOnSeen and SessionOwned, of any memory.
Drawable(m) == m.frameValid /\ m.frame.s # NoSet => m.open /\ m.set = m.frame.s
Shown(m) == m.frameValid => m.screen = m.frame /\ (m.offline \/ m.version => m.badge)
Parked(m) ==
    m.state = "poll" /\ m.url.kind = "frame" /\ m.url.rev > 0 /\ ~m.tested
        => m.screen.kind = "frame" /\ m.screen.rev = m.url.rev
Owned(m) ==
    /\ m.decoding /\ m.dec.ok => m.writing
    /\ m.writing => ~m.open /\ m.set = NoSet

\* All that does not depend on what is polled.
Steady(m) == m \in Memory /\ BuiltinHeld(m) /\ NotWhileDecoding(m) /\ Drawable(m) /\ Shown(m) /\ Owned(m)

Sound(m) == Steady(m) /\ Parked(m) /\ (m.state = "poll" => m.url.kind # "none")

\* A 200 body streams into the decoder just while rsp_decoding is set.
Streams == http.phase = "body" /\ http.sink = "frame" /\ http.answer.status = 200

\* The next URL of an answer asks for what comes after the frame that it is sent with.
Follows(a) == a.next.kind = "frame" => a.next.rev = a.rev

KInv ==
    /\ TypeOK /\ Sound(w)
    /\ CallbackInState /\ PairingDurable
    /\ Streams => w.decoding
    /\ Follows(http.answer)
    /\ http.sink = "reg" => http.url.kind = "register" /\ http.answer.next = NoUrl

-----------------------------------------------------------------------------
(* Handlers. *)

USE BoundsAssumption, LimitsAssumption

LEMMA Pieces ==
    /\ NoUrl \in Urls /\ ConfigUrl \in Urls /\ RegisterUrl \in Urls /\ BadUrl \in Urls
    /\ Black \in Pictures /\ Builtin \in Pictures
    /\ FreshDecoder \in Decoders /\ DoneBuiltin \in Decoders
    /\ NoConfig \in Configs /\ NoAnswer \in Answers /\ Idle \in Requests
BY DEF NoUrl, ConfigUrl, RegisterUrl, BadUrl, NoRev, Urls, SetIds, Black, Builtin, Pictures, FreshDecoder,
       DoneBuiltin, Decoders, NoConfig, Configs, NoAnswer, Answer, Answers, Idle, Requests

\* What handlers leave as it was.
SameScreen(m, n) == n.frameValid = m.frameValid /\ n.frame = m.frame /\ n.screen = m.screen /\ n.tested = m.tested
SameStore(m, n) == n.dec = m.dec /\ n.writing = m.writing /\ n.open = m.open /\ n.set = m.set
SameRequest(m, n) == n.state = m.state /\ n.active = m.active /\ n.decoding = m.decoding

\* A URL that does not ask to be parked.
Fresh(u) == u.kind # "none" /\ ~(u.rev > 0)

\* A memory with the same screen and store is sound if it is parked nowhere new.
LEMMA SoundCarries ==
    ASSUME NEW m, Sound(m), NEW n, n \in Memory, SameScreen(m, n), SameStore(m, n), Shown(n),
           n.decoding => m.decoding,
           n.state = "poll" => (m.state = "poll" /\ n.url = m.url) \/ Fresh(n.url)
    PROVE  Sound(n)
BY DEF Sound, Steady, SameScreen, SameStore, BuiltinHeld, NotWhileDecoding, Drawable, Parked, Owned, Fresh

LEMMA ShowBuiltinSteady ==
    ASSUME NEW m, m \in Memory, Owned(m)
    PROVE  LET n == ShowBuiltin(m) IN
           /\ Steady(n) /\ n.screen = Builtin
           /\ SameRequest(m, n) /\ n.url = m.url /\ n.cfg = m.cfg /\ n.tested = m.tested
<1> DEFINE n == ShowBuiltin(m)
<1>1. n = [m EXCEPT !.dec = DoneBuiltin, !.frame = Builtin, !.frameValid = TRUE,
                    !.screen = Builtin, !.badge = m.offline \/ m.version]
    BY DEF ShowBuiltin, RenderNow, Memory
<1>2. n \in Memory
    BY <1>1, Pieces DEF Memory
<1>3. BuiltinHeld(n) /\ NotWhileDecoding(n) /\ Drawable(n) /\ Shown(n) /\ Owned(n)
    BY <1>1 DEF Memory, DoneBuiltin, Builtin, BuiltinHeld, NotWhileDecoding, Drawable, Shown, Owned
<1>4. n.screen = Builtin /\ SameRequest(m, n) /\ n.url = m.url /\ n.cfg = m.cfg /\ n.tested = m.tested
    BY <1>1 DEF Memory, SameRequest
<1> QED
    BY <1>2, <1>3, <1>4 DEF Steady

LEMMA SteadyMemory == ASSUME NEW m, Sound(m) PROVE m \in Memory /\ Steady(m) /\ Owned(m) /\ Shown(m)
BY DEF Sound, Steady

\* A redraw of what is on the screen.
LEMMA RedrawSame ==
    ASSUME NEW m, m \in Memory, m.frame = m.screen
    PROVE  LET n == RenderNow(m) IN
           /\ n \in Memory /\ Shown(n)
           /\ SameScreen(m, n) /\ SameStore(m, n) /\ SameRequest(m, n) /\ n.url = m.url /\ n.cfg = m.cfg
<1> DEFINE n == RenderNow(m)
<1>1. n = [m EXCEPT !.screen = m.frame, !.badge = m.offline \/ m.version]
    BY DEF RenderNow
<1>2. n \in Memory
    BY <1>1 DEF Memory
<1>3. SameScreen(m, n) /\ SameStore(m, n) /\ SameRequest(m, n) /\ n.url = m.url /\ n.cfg = m.cfg
    BY <1>1 DEF Memory, SameScreen, SameStore, SameRequest
<1>4. Shown(n)
    BY <1>1 DEF Memory, Shown
<1> QED
    BY <1>2, <1>3, <1>4

\* The two memories differ at most in counters, the network check and the badge.
Alike(m, n) == SameScreen(m, n) /\ SameStore(m, n) /\ SameRequest(m, n) /\ n.url = m.url /\ n.cfg = m.cfg

LEMMA AlikeSound ==
    ASSUME NEW m, Sound(m), NEW n, n \in Memory, Alike(m, n), Shown(n)
    PROVE  Sound(n)
BY SoundCarries DEF Alike, SameRequest, Sound

\* The back-off counts, and may raise the badge: its redraw shows what is shown already.
LEMMA EnterBackoffSound ==
    ASSUME NEW m, Sound(m)
    PROVE  Sound(EnterBackoff(m)) /\ Alike(m, EnterBackoff(m))
<1> DEFINE k == CapAt(m.failures + 1, OFFLINE_AFTER_FAILURES)
           counted == [m EXCEPT !.failures = k]
           o == [counted EXCEPT !.offline = TRUE]
           n == EnterBackoff(m)
<1>0. m \in Memory /\ Shown(m)
    BY SteadyMemory
<1>1. k \in 0 .. OFFLINE_AFTER_FAILURES
    BY <1>0 DEF Memory, CapAt
<1>2. counted \in Memory /\ Alike(m, counted) /\ Shown(counted)
    BY <1>0, <1>1 DEF Memory, Alike, SameScreen, SameStore, SameRequest, Shown
<1>3. CASE n = counted
    BY <1>2, <1>3, AlikeSound
<1>4. CASE counted.frameValid /\ n = RenderNow(o)
  <2>1. m.screen = m.frame
    BY <1>4, <1>0 DEF Shown, Memory
  <2>2. o \in Memory /\ Alike(m, o) /\ o.frame = o.screen
    BY <1>0, <1>1, <2>1 DEF Memory, Alike, SameScreen, SameStore, SameRequest
  <2>3. n \in Memory /\ Alike(o, n) /\ Shown(n)
    BY <1>4, <2>2, RedrawSame DEF Alike
  <2>4. Alike(m, n)
    BY <2>2, <2>3 DEF Alike, SameScreen, SameStore, SameRequest
  <2> QED
    BY <2>3, <2>4, AlikeSound
<1>5. n = counted \/ (counted.frameValid /\ n = RenderNow(o))
    BY Zenon DEF EnterBackoff
<1> QED
    BY <1>3, <1>4, <1>5

AtUrl(m, u) == [m EXCEPT !.url = u]

LEMMA AtUrlSound ==
    ASSUME NEW m, Sound(m), NEW u \in Urls, Fresh(u)
    PROVE  LET n == AtUrl(m, u) IN
           Sound(n) /\ SameScreen(m, n) /\ SameStore(m, n) /\ SameRequest(m, n) /\ n.cfg = m.cfg
<1> DEFINE n == AtUrl(m, u)
<1>1. m \in Memory /\ Shown(m)
    BY SteadyMemory
<1>2. /\ n \in Memory /\ n.url = u /\ Shown(n)
      /\ SameScreen(m, n) /\ SameStore(m, n) /\ SameRequest(m, n) /\ n.cfg = m.cfg
    BY <1>1 DEF AtUrl, Memory, Shown, SameScreen, SameStore, SameRequest
<1> QED
    BY <1>2, SoundCarries DEF SameRequest

LEMMA ConfigFresh == ConfigUrl \in Urls /\ Fresh(ConfigUrl)
BY Pieces DEF ConfigUrl, NoRev, Fresh

LEMMA ResumeUrlDoes ==
    ASSUME NEW m \in Memory
    PROVE  \E u \in Urls : Fresh(u) /\ ResumeUrl(m) = AtUrl(m, u)
<1> DEFINE u == IF m.cfg.url # NoUrl THEN m.cfg.url ELSE m.url
           r == [u EXCEPT !.rev = 0]
<1>1. u \in Urls
    BY DEF Memory, Configs
<1>2. CASE u # NoUrl /\ (u.s = NoSet \/ m.open)
  <2>1. r \in Urls /\ Fresh(r)
    BY <1>1, <1>2 DEF Urls, Revs, Fresh
  <2>2. ResumeUrl(m) = AtUrl(m, r)
    BY <1>2 DEF ResumeUrl, AtUrl
  <2> HIDE DEF r
  <2> QED
    BY <2>1, <2>2
<1>3. CASE ~(u # NoUrl /\ (u.s = NoSet \/ m.open))
  <2>1. ResumeUrl(m) = AtUrl(m, ConfigUrl)
    BY <1>3 DEF ResumeUrl, AtUrl
  <2> QED
    BY <2>1, ConfigFresh
<1> QED
    BY <1>2, <1>3

LEMMA StartPollStateSound ==
    ASSUME NEW m, Sound(m)
    PROVE  LET n == StartPollState(m) IN
           Sound(n) /\ n.state = "poll" /\ n.active = m.active /\ n.decoding = m.decoding /\ n.cfg = m.cfg
                    /\ n.screen = m.screen
<1> DEFINE b == [m EXCEPT !.url = NoUrl]
           n == StartPollState(m)
<1>0. m \in Memory /\ Shown(m)
    BY SteadyMemory
<1>1. b \in Memory
    BY <1>0, Pieces DEF Memory
<1>2. PICK u \in Urls : Fresh(u) /\ ResumeUrl(b) = AtUrl(b, u)
    BY <1>1, ResumeUrlDoes
<1>3. n = [[b EXCEPT !.url = u] EXCEPT !.state = "poll"]
    BY <1>2 DEF StartPollState, AtUrl
<1>4. /\ n \in Memory /\ n.state = "poll" /\ n.url = u /\ Shown(n)
      /\ SameScreen(m, n) /\ SameStore(m, n) /\ n.active = m.active /\ n.decoding = m.decoding /\ n.cfg = m.cfg
    BY <1>0, <1>3 DEF Memory, Shown, SameScreen, SameStore
<1>5. Sound(n)
    BY <1>2, <1>4, SoundCarries
<1> QED
    BY <1>4, <1>5 DEF SameScreen

\* Where a screen of the firmware may be drawn: nothing is polled that waits for another one.
Unparked(m) == m.state = "poll" => Fresh(m.url)

LEMMA SteadyUnparked == ASSUME NEW m, Steady(m), Unparked(m) PROVE Sound(m)
BY DEF Sound, Unparked, Fresh, Parked

\* Only a screen of the firmware's own replaces the picture.
OwnScreens(m, n) == n.screen = m.screen \/ n.screen = Builtin

LEMMA ShowBuiltinSound ==
    ASSUME NEW m, Sound(m), Unparked(m)
    PROVE  LET n == ShowBuiltin(m) IN
           Sound(n) /\ OwnScreens(m, n) /\ SameRequest(m, n) /\ n.url = m.url /\ n.cfg = m.cfg
<1> DEFINE n == ShowBuiltin(m)
<1>1. m \in Memory /\ Owned(m)
    BY SteadyMemory
<1>2. Steady(n) /\ n.screen = Builtin /\ SameRequest(m, n) /\ n.url = m.url /\ n.cfg = m.cfg
    BY <1>1, ShowBuiltinSteady
<1>3. Unparked(n)
    BY <1>2 DEF Unparked, SameRequest
<1> HIDE DEF n
<1> QED
    BY <1>2, <1>3, SteadyUnparked DEF OwnScreens, n

\* A screen of the firmware's own in a state that polls nothing.
LEMMA ShowBuiltinIn ==
    ASSUME NEW m, m \in Memory, Owned(m), NEW s \in {"provision", "register", "halt"}
    PROVE  LET n == [ShowBuiltin(m) EXCEPT !.state = s] IN
           /\ Sound(n) /\ n.state = s /\ n.active = m.active /\ n.decoding = m.decoding /\ n.cfg = m.cfg
           /\ n.screen = Builtin
<1> DEFINE b == ShowBuiltin(m)
           n == [b EXCEPT !.state = s]
<1>1. Steady(b) /\ b.screen = Builtin /\ SameRequest(m, b) /\ b.cfg = m.cfg
    BY ShowBuiltinSteady
<1> HIDE DEF b
<1>2. b \in Memory
    BY <1>1 DEF Steady
<1>3. /\ n \in Memory /\ n.state = s /\ n.active = b.active /\ n.decoding = b.decoding /\ n.cfg = b.cfg
      /\ n.offline = b.offline /\ n.version = b.version /\ n.badge = b.badge
      /\ SameScreen(b, n) /\ SameStore(b, n)
    BY <1>2 DEF Memory, SameScreen, SameStore
<1> HIDE DEF n
<1>4. Steady(n)
    BY <1>1, <1>3 DEF Steady, SameScreen, SameStore, BuiltinHeld, NotWhileDecoding, Drawable, Shown, Owned
<1>5. Sound(n)
    BY <1>3, <1>4, SteadyUnparked DEF Unparked
<1> QED
    BY <1>1, <1>3, <1>5 DEF SameScreen, SameRequest, n, b

-----------------------------------------------------------------------------
(* The answer to a frame request. *)

\* Opening the write session empties the store, but nothing can be drawn from it then.
LEMMA DefsBeginSound ==
    ASSUME NEW m, Sound(m), m.decoding, m.dec.doc # "builtin"
    PROVE  LET n == DefsBegin(m) IN
           Sound(n) /\ SameRequest(m, n) /\ n.url = m.url /\ n.cfg = m.cfg /\ n.screen = m.screen
<1> DEFINE n == DefsBegin(m)
<1>1. m \in Memory /\ Owned(m)
    BY SteadyMemory
<1>2. m.dec.doc = "server" /\ ~m.frameValid
    BY <1>1 DEF Memory, Decoders, Sound, Steady, NotWhileDecoding
<1>3. /\ n \in Memory /\ SameScreen(m, n) /\ SameRequest(m, n) /\ n.url = m.url /\ n.cfg = m.cfg
      /\ n.dec.doc = m.dec.doc /\ n.writing
      /\ n.open = (m.open /\ m.writing) /\ n.set = IF m.writing THEN m.set ELSE NoSet
    <2>1. CASE m.writing
      <3> DEFINE d == [m.dec EXCEPT !.begun = TRUE, !.ok = FALSE]
      <3>1. d \in Decoders /\ d.doc = m.dec.doc
          BY <1>1 DEF Memory, Decoders
      <3>2. n = [m EXCEPT !.dec = d]
          BY <1>1, <2>1 DEF DefsBegin, Memory
      <3> HIDE DEF d
      <3> QED
          BY <1>1, <2>1, <3>1, <3>2 DEF Memory, SameScreen, SameRequest
    <2>2. CASE ~m.writing
      <3> DEFINE d == [m.dec EXCEPT !.begun = TRUE, !.ok = TRUE]
      <3>1. d \in Decoders /\ d.doc = m.dec.doc
          BY <1>1 DEF Memory, Decoders
      <3>2. n = [m EXCEPT !.dec = d, !.writing = TRUE, !.open = FALSE, !.set = NoSet]
          BY <1>1, <2>2 DEF DefsBegin, Memory
      <3> HIDE DEF d
      <3> QED
          BY <1>1, <2>2, <3>1, <3>2 DEF Memory, SetIds, SameScreen, SameRequest
    <2> QED
        BY <2>1, <2>2
<1> HIDE DEF n
<1>4. BuiltinHeld(n) /\ NotWhileDecoding(n) /\ Drawable(n) /\ Shown(n) /\ Owned(n)
    BY <1>1, <1>2, <1>3 DEF SameScreen, BuiltinHeld, NotWhileDecoding, Drawable, Shown, Owned
<1>5. Parked(n) /\ (n.state = "poll" => n.url.kind # "none")
    BY <1>3 DEF Sound, Parked, SameScreen, SameRequest
<1> QED
    BY <1>3, <1>4, <1>5 DEF Sound, Steady, SameScreen, n

LEMMA FrameOnStatusSound ==
    ASSUME NEW m, NEW a, Sound(m)
    PROVE  LET n == FrameOnStatus(m, a) IN
           /\ Sound(n) /\ n.state = m.state /\ n.active = m.active /\ n.cfg = m.cfg /\ n.screen = m.screen
           /\ n.decoding <=> a.status = 200
<1> DEFINE n == FrameOnStatus(m, a)
<1>0. m \in Memory /\ Owned(m) /\ Shown(m)
    BY SteadyMemory
<1>1. CASE a.status = 200
  <2>1. n = [m EXCEPT !.decoding = TRUE, !.dec = FreshDecoder, !.frame = Black, !.frameValid = FALSE]
      BY <1>1 DEF FrameOnStatus
  <2>2. /\ n \in Memory /\ n.decoding = TRUE /\ n.dec = FreshDecoder /\ ~n.frameValid
        /\ n.state = m.state /\ n.active = m.active /\ n.cfg = m.cfg /\ n.screen = m.screen /\ n.url = m.url
        /\ n.tested = m.tested /\ n.writing = m.writing /\ n.open = m.open /\ n.set = m.set
      BY <1>0, <2>1, Pieces DEF Memory
  <2>3. BuiltinHeld(n) /\ NotWhileDecoding(n) /\ Drawable(n) /\ Shown(n) /\ Owned(n)
      BY <1>0, <2>2 DEF FreshDecoder, BuiltinHeld, NotWhileDecoding, Drawable, Shown, Owned
  <2>4. Parked(n) /\ (n.state = "poll" => n.url.kind # "none")
      BY <2>2 DEF Sound, Parked
  <2> QED
      BY <1>1, <2>2, <2>3, <2>4 DEF Sound, Steady
<1>2. CASE a.status # 200
  <2>1. n = [m EXCEPT !.decoding = FALSE]
      BY <1>2 DEF FrameOnStatus
  <2>2. /\ n \in Memory /\ n.decoding = FALSE /\ SameScreen(m, n) /\ SameStore(m, n) /\ Shown(n)
        /\ n.state = m.state /\ n.active = m.active /\ n.cfg = m.cfg /\ n.url = m.url
      BY <1>0, <2>1 DEF Memory, SameScreen, SameStore, Shown
  <2>3. Sound(n)
      BY <2>2, SoundCarries
  <2> HIDE DEF n
  <2> QED
      BY <1>2, <2>2, <2>3 DEF SameScreen, n
<1> QED
    BY <1>1, <1>2

\* Finish, after which rsp_decoding is cleared.
Closed(m, a, whole) == [Finish(m, a, whole).m EXCEPT !.decoding = FALSE]

\* What Finish leaves alone.
Undrawn(m, n) ==
    /\ n.state = m.state /\ n.active = m.active /\ n.url = m.url /\ n.cfg = m.cfg /\ n.dec = m.dec
    /\ n.screen = m.screen /\ n.badge = m.badge /\ n.frameValid = m.frameValid /\ n.tested = m.tested
    /\ n.offline = m.offline /\ n.version = m.version

\* The status, and what becomes of the store, by the way the decoder ends.
LEMMA FinishCases ==
    ASSUME NEW m, m \in Memory, NEW a \in Answers, NEW whole
    PROVE  LET f == Finish(m, a, whole) IN
           \/ m.dec.doc = "builtin" /\ f.st = "ok" /\ f.m = m
           \/ m.dec.doc # "builtin" /\ f.st # "ok" /\ f.m = m
           \/ m.dec.doc # "builtin" /\ f.st # "ok" /\ f.m = [m EXCEPT !.writing = FALSE]
           \/ /\ m.dec.doc # "builtin" /\ f.m = [m EXCEPT !.frame = Picture(a.s, a.rev)]
              /\ f.st = "ok" => SetReady(m, a.s)
           \/ /\ m.dec.doc # "builtin"
              /\ f.m = [[m EXCEPT !.writing = FALSE, !.open = TRUE, !.set = a.s] EXCEPT !.frame = Picture(a.s, a.rev)]
<1> QED
    BY Zenon DEF Finish

LEMMA FinishSound ==
    ASSUME NEW m, Sound(m), m.decoding, NEW a \in Answers, NEW whole
    PROVE  LET n == Closed(m, a, whole)
               f == n.frame
           IN /\ Sound(n) /\ n.decoding = FALSE /\ Undrawn(m, n)
              /\ Finish(m, a, whole).st = "ok" =>
                     /\ f = Builtin \/ f = Picture(a.s, a.rev)
                     /\ f.s # NoSet => n.open /\ n.set = f.s
<1> DEFINE d == Finish(m, a, whole)
           n == Closed(m, a, whole)
           p == Picture(a.s, a.rev)
           drawn == /\ n.frame = Builtin \/ n.frame = p
                    /\ n.frame.s # NoSet => n.open /\ n.set = n.frame.s
<1> SUFFICES Sound(n) /\ n.decoding = FALSE /\ Undrawn(m, n) /\ (d.st = "ok" => drawn)
    OBVIOUS
<1>1. m \in Memory /\ Owned(m)
    BY SteadyMemory
<1>2. p \in Pictures /\ p.s = a.s /\ a.s \in SetIds
    BY DEF Picture, Pictures, Answers
<1>d. \/ m.dec.doc = "builtin" /\ d.st = "ok" /\ d.m = m
      \/ m.dec.doc # "builtin" /\ d.st # "ok" /\ d.m = m
      \/ m.dec.doc # "builtin" /\ d.st # "ok" /\ d.m = [m EXCEPT !.writing = FALSE]
      \/ /\ m.dec.doc # "builtin" /\ d.m = [m EXCEPT !.frame = p]
         /\ d.st = "ok" => SetReady(m, a.s)
      \/ /\ m.dec.doc # "builtin"
         /\ d.m = [[m EXCEPT !.writing = FALSE, !.open = TRUE, !.set = a.s] EXCEPT !.frame = p]
    BY <1>1, FinishCases
<1>n. n = [d.m EXCEPT !.decoding = FALSE]
    BY DEF Closed
<1> HIDE DEF d, n, p
<1>3. CASE m.dec.doc = "builtin" /\ d.m = m
  <2>1. n = [m EXCEPT !.decoding = FALSE]
      BY <1>3, <1>n
  <2>2. n \in Memory /\ n.decoding = FALSE /\ Undrawn(m, n) /\ SameScreen(m, n) /\ SameStore(m, n)
      BY <1>1, <2>1 DEF Memory, Undrawn, SameScreen, SameStore
  <2>3. Shown(n) /\ n.state = m.state /\ n.url = m.url
      BY <2>2, SteadyMemory DEF Undrawn, Shown, SameScreen
  <2>5. Sound(n)
      BY <2>2, <2>3, SoundCarries
  <2>4. n.frame = Builtin /\ n.frame.s = NoSet
      BY <1>3, <2>2 DEF Sound, Steady, BuiltinHeld, SameScreen, Builtin
  <2> QED
      BY <2>2, <2>4, <2>5
<1>4. ASSUME m.dec.doc # "builtin", n \in Memory, n.decoding = FALSE, Undrawn(m, n), Owned(n)
      PROVE  Sound(n)
  <2>1. ~m.frameValid
      BY <1>1, <1>4 DEF Memory, Decoders, Sound, Steady, NotWhileDecoding
  <2>2. BuiltinHeld(n) /\ NotWhileDecoding(n) /\ Drawable(n) /\ Shown(n)
      BY <1>4, <2>1 DEF Undrawn, BuiltinHeld, NotWhileDecoding, Drawable, Shown
  <2>3. Parked(n) /\ (n.state = "poll" => n.url.kind # "none")
      BY <1>4 DEF Sound, Parked, Undrawn
  <2> QED
      BY <1>4, <2>2, <2>3 DEF Sound, Steady
<1>5. CASE m.dec.doc # "builtin" /\ d.st # "ok" /\ d.m = m
  <2>1. n = [m EXCEPT !.decoding = FALSE]
      BY <1>5, <1>n
  <2>2. n \in Memory /\ n.decoding = FALSE /\ Undrawn(m, n) /\ Owned(n)
      BY <1>1, <2>1 DEF Memory, Undrawn, Owned
  <2> QED
      BY <1>4, <1>5, <2>2
<1>6. CASE m.dec.doc # "builtin" /\ d.st # "ok" /\ d.m = [m EXCEPT !.writing = FALSE]
  <2>1. n = [[m EXCEPT !.writing = FALSE] EXCEPT !.decoding = FALSE]
      BY <1>6, <1>n
  <2>2. n \in Memory /\ n.decoding = FALSE /\ Undrawn(m, n) /\ Owned(n)
      BY <1>1, <2>1 DEF Memory, Undrawn, Owned
  <2> QED
      BY <1>4, <1>6, <2>2
<1>7. CASE /\ m.dec.doc # "builtin" /\ d.m = [m EXCEPT !.frame = p]
           /\ d.st = "ok" => SetReady(m, a.s)
  <2>1. n = [[m EXCEPT !.frame = p] EXCEPT !.decoding = FALSE]
      BY <1>7, <1>n
  <2>2. /\ n \in Memory /\ n.decoding = FALSE /\ Undrawn(m, n) /\ Owned(n)
        /\ n.frame = p /\ n.open = m.open /\ n.set = m.set
      BY <1>1, <1>2, <2>1 DEF Memory, Undrawn, Owned
  <2>3. Sound(n)
      BY <1>4, <1>7, <2>2
  <2>4. d.st = "ok" => n.frame = p /\ (n.frame.s # NoSet => n.open /\ n.set = n.frame.s)
      BY <1>2, <1>7, <2>2 DEF SetReady
  <2> QED
      BY <2>2, <2>3, <2>4
<1>8. CASE /\ m.dec.doc # "builtin"
           /\ d.m = [[m EXCEPT !.writing = FALSE, !.open = TRUE, !.set = a.s] EXCEPT !.frame = p]
  <2>1. n = [[[m EXCEPT !.writing = FALSE, !.open = TRUE, !.set = a.s] EXCEPT !.frame = p] EXCEPT !.decoding = FALSE]
      BY <1>8, <1>n
  <2>2. /\ n \in Memory /\ n.decoding = FALSE /\ Undrawn(m, n) /\ Owned(n)
        /\ n.frame = p /\ n.open = TRUE /\ n.set = a.s
      BY <1>1, <1>2, <2>1 DEF Memory, Undrawn, Owned
  <2>3. Sound(n)
      BY <1>4, <1>8, <2>2
  <2>4. n.frame = p /\ n.open /\ n.set = n.frame.s
      BY <1>2, <2>2
  <2> QED
      BY <2>2, <2>3, <2>4
<1> QED
    BY <1>3, <1>5, <1>6, <1>7, <1>8, <1>d

LEMMA ShortCounts ==
    ASSUME NEW m, m \in Memory
    PROVE  CapAt(m.timeouts + 1, WEDGE_TIMEOUTS) \in 0 .. WEDGE_TIMEOUTS
BY DEF Memory, CapAt

\* A request that ended without a complete answer draws at most a screen of the firmware's own.
LEMMA FrameFailedSound ==
    ASSUME NEW m, Sound(m), NEW a \in Answers, NEW whole, NEW err
    PROVE  LET n == FrameFailed(m, a, whole, err) IN
           Sound(n) /\ OwnScreens(m, n) /\ n.state = m.state /\ n.active = FALSE /\ n.decoding = FALSE /\ n.cfg = m.cfg
<1> DEFINE k == IF err = "timeout" THEN CapAt(m.timeouts + 1, WEDGE_TIMEOUTS) ELSE 0
           stopped == [m EXCEPT !.active = FALSE, !.timeouts = k]
           closed == IF m.decoding THEN Closed(stopped, a, whole) ELSE stopped
           backed == EnterBackoff(closed)
           moved == AtUrl(backed, ConfigUrl)
           n == FrameFailed(m, a, whole, err)
<1>1. m \in Memory /\ Shown(m)
    BY SteadyMemory
<1>2. k \in 0 .. WEDGE_TIMEOUTS
    BY <1>1, ShortCounts
<1>n. \/ n = backed \/ n = moved \/ n = ShowBuiltin(moved)
    BY Zenon DEF FrameFailed, Closed, AtUrl
<1> HIDE DEF k
<1>3. /\ stopped \in Memory /\ stopped.active = FALSE /\ stopped.decoding = m.decoding /\ stopped.state = m.state
      /\ stopped.url = m.url /\ stopped.cfg = m.cfg /\ SameScreen(m, stopped) /\ SameStore(m, stopped) /\ Shown(stopped)
    BY <1>1, <1>2 DEF Memory, SameScreen, SameStore, Shown
<1> HIDE DEF stopped
<1>4. Sound(stopped)
    BY <1>3, SoundCarries
<1>5. /\ Sound(closed) /\ closed.decoding = FALSE /\ closed.active = FALSE
      /\ closed.state = m.state /\ closed.cfg = m.cfg /\ closed.screen = m.screen
  <2>1. CASE m.decoding
    <3>1. closed = Closed(stopped, a, whole)
        BY <2>1
    <3>2. Sound(closed) /\ closed.decoding = FALSE /\ Undrawn(stopped, closed)
        BY <1>3, <1>4, <2>1, <3>1, FinishSound
    <3> QED
        BY <1>3, <3>2 DEF Undrawn, SameScreen
  <2>2. CASE ~m.decoding
    <3>1. closed = stopped /\ m.decoding = FALSE
        BY <1>1, <2>2 DEF Memory
    <3> QED
        BY <1>3, <1>4, <3>1 DEF SameScreen
  <2> QED
      BY <2>1, <2>2
<1> HIDE DEF closed
<1>6. /\ Sound(backed) /\ backed.decoding = FALSE /\ backed.active = FALSE
      /\ backed.state = m.state /\ backed.cfg = m.cfg /\ backed.screen = m.screen
    BY <1>5, EnterBackoffSound DEF Alike, SameRequest, SameScreen
<1> HIDE DEF backed
<1>7. /\ Sound(moved) /\ moved.decoding = FALSE /\ moved.active = FALSE
      /\ moved.state = m.state /\ moved.cfg = m.cfg /\ moved.screen = m.screen
    BY <1>6, ConfigFresh, AtUrlSound DEF SameRequest, SameScreen
<1>8. Unparked(moved)
    BY <1>6, SteadyMemory, ConfigFresh DEF AtUrl, Memory, Unparked
<1> HIDE DEF moved
<1>9. CASE n = ShowBuiltin(moved)
    BY <1>7, <1>8, <1>9, ShowBuiltinSound DEF OwnScreens, SameRequest
<1> QED
    BY <1>n, <1>6, <1>7, <1>9 DEF OwnScreens

\* A complete answer takes the offline badge down.
LEMMA AnsweredSound ==
    ASSUME NEW m, Sound(m)
    PROVE  LET n == Answered(m) IN
           /\ Sound(n) /\ SameScreen(m, n) /\ SameStore(m, n) /\ n.url = m.url /\ n.cfg = m.cfg
           /\ n.state = m.state /\ n.active = FALSE /\ n.decoding = m.decoding
<1> DEFINE c == [m EXCEPT !.active = FALSE, !.failures = 0, !.timeouts = 0, !.netWaiting = FALSE]
           up == [c EXCEPT !.offline = FALSE]
           n == Answered(m)
           Like(x) == /\ SameScreen(m, x) /\ SameStore(m, x) /\ x.url = m.url /\ x.cfg = m.cfg
                      /\ x.state = m.state /\ x.active = FALSE /\ x.decoding = m.decoding
<1>1. m \in Memory /\ Shown(m)
    BY SteadyMemory
<1>z. 0 \in 0 .. OFFLINE_AFTER_FAILURES /\ 0 \in 0 .. WEDGE_TIMEOUTS
    OBVIOUS
<1>a. c \in Memory
    BY <1>1, <1>z DEF Memory
<1>b. up \in Memory
    BY <1>1, <1>z DEF Memory
<1>2. c \in Memory /\ Like(c) /\ Shown(c) /\ c.frameValid = m.frameValid /\ c.frame = m.frame /\ c.screen = m.screen
    BY <1>1, <1>a DEF Memory, SameScreen, SameStore, Shown
<1>3. up \in Memory /\ Like(up) /\ Shown(up) /\ up.frameValid = m.frameValid /\ up.frame = m.frame /\ up.screen = m.screen
    BY <1>1, <1>b DEF Memory, SameScreen, SameStore, Shown
<1>4. n = c \/ n = up \/ (up.frameValid /\ n = RenderNow(up))
    BY Zenon DEF Answered
<1> HIDE DEF c, up
<1>5. n \in Memory /\ Like(n) /\ Shown(n)
  <2>1. CASE up.frameValid /\ n = RenderNow(up)
    <3>1. up.frame = up.screen
        BY <1>1, <1>3, <2>1 DEF Shown
    <3>2. n \in Memory /\ Shown(n) /\ SameScreen(up, n) /\ SameStore(up, n) /\ SameRequest(up, n)
          /\ n.url = up.url /\ n.cfg = up.cfg
        BY <1>3, <2>1, <3>1, RedrawSame
    <3> QED
        BY <1>3, <3>2 DEF SameScreen, SameStore, SameRequest
  <2> QED
      BY <1>2, <1>3, <1>4, <2>1
<1> HIDE DEF n
<1>6. n.decoding = m.decoding /\ n.state = m.state /\ n.url = m.url
    BY <1>5
<1>7. Sound(n)
    BY <1>5, <1>6, SoundCarries
<1> QED
    BY <1>5, <1>7 DEF n

LEMMA OnNotFoundSound ==
    ASSUME NEW m, Sound(m)
    PROVE  LET n == OnNotFound(m) IN
           Sound(n) /\ OwnScreens(m, n) /\ n.active = m.active /\ n.decoding = m.decoding
<1> DEFINE again == [m EXCEPT !.config404s = 0, !.url = ConfigUrl]
           counted == [m EXCEPT !.config404s = @ + 1]
           lost == [m EXCEPT !.config404s = 0, !.cfg = Unregistered(m.cfg)]
           n == OnNotFound(m)
<1>1. m \in Memory /\ Shown(m)
    BY SteadyMemory
<1>2. \/ n = again
      \/ m.config404s + 1 < CONFIG_404S /\ n = counted
      \/ n = [ShowBuiltin(lost) EXCEPT !.state = "register"]
    BY Zenon DEF OnNotFound
<1>3. 0 \in 0 .. CONFIG_404S - 1
    OBVIOUS
<1>4. Unregistered(m.cfg) \in Configs
    BY <1>1, Pieces DEF Memory, Configs, SetIds, Unregistered
<1>5. CASE n = again
  <2>1. /\ again \in Memory /\ again.url = ConfigUrl /\ Shown(again) /\ SameScreen(m, again) /\ SameStore(m, again)
        /\ again.active = m.active /\ again.decoding = m.decoding /\ again.state = m.state
      BY <1>1, <1>3, Pieces DEF Memory, Shown, SameScreen, SameStore
  <2> HIDE DEF again
  <2>2. Sound(again)
      BY <2>1, ConfigFresh, SoundCarries
  <2> QED
      BY <1>5, <2>1, <2>2 DEF OwnScreens, SameScreen
<1>6. CASE m.config404s + 1 < CONFIG_404S /\ n = counted
  <2>0. m.config404s + 1 \in 0 .. CONFIG_404S - 1
      BY <1>1, <1>6 DEF Memory
  <2>1. /\ counted \in Memory /\ counted.url = m.url /\ Shown(counted) /\ SameScreen(m, counted) /\ SameStore(m, counted)
        /\ counted.active = m.active /\ counted.decoding = m.decoding /\ counted.state = m.state
      BY <1>1, <2>0 DEF Memory, Shown, SameScreen, SameStore
  <2> HIDE DEF counted
  <2>2. Sound(counted)
      BY <2>1, SoundCarries
  <2> QED
      BY <1>6, <2>1, <2>2 DEF OwnScreens, SameScreen
<1>7. CASE n = [ShowBuiltin(lost) EXCEPT !.state = "register"]
  <2>1. lost \in Memory /\ Owned(lost) /\ lost.active = m.active /\ lost.decoding = m.decoding
      BY <1>1, <1>3, <1>4, SteadyMemory DEF Memory, Owned
  <2> HIDE DEF lost, n
  <2>2. Sound(n) /\ n.active = lost.active /\ n.decoding = lost.decoding /\ n.screen = Builtin
      BY <1>7, <2>1, ShowBuiltinIn
  <2> QED
      BY <2>1, <2>2 DEF OwnScreens, n
<1> QED
    BY <1>2, <1>5, <1>6, <1>7

\* A frame that was decoded whole is drawn; only then may a URL park at its revision.
LEMMA OnFrameSound ==
    ASSUME NEW m, Sound(m), m.decoding, NEW a \in Answers, Follows(a)
    PROVE  LET n == OnFrame(m, a) IN
           /\ Sound(n) /\ n.active = m.active /\ n.decoding = FALSE
           /\ OwnScreens(m, n) \/ n.screen = Picture(a.s, a.rev)
<1> DEFINE d == Finish(m, a, TRUE)
           c == Closed(m, a, TRUE)
           next == IF c.frame.kind = "frame" /\ a.next # NoUrl THEN a.next ELSE ConfigUrl
           drawn == RenderNow([c EXCEPT !.frameValid = TRUE, !.version = FALSE, !.tested = FALSE])
           n == OnFrame(m, a)
<1>1. /\ Sound(c) /\ c.decoding = FALSE /\ Undrawn(m, c)
      /\ d.st = "ok" => /\ c.frame = Builtin \/ c.frame = Picture(a.s, a.rev)
                        /\ c.frame.s # NoSet => c.open /\ c.set = c.frame.s
    BY FinishSound
<1>2. \/ d.st = "ok" /\ n = PersistNextUrl([drawn EXCEPT !.url = next], next, c.frame.s)
      \/ n = AtUrl(c, ConfigUrl)
      \/ n = EnterBackoff([c EXCEPT !.version = TRUE]) /\ d.st # "ok" /\ m.dec.doc # "builtin"
      \/ n = EnterBackoff(c)
  <2>1. d.st = "version" => m.dec.doc # "builtin"
      BY Zenon DEF Finish
  <2> QED
      BY <2>1, Zenon DEF OnFrame, Closed, AtUrl
<1> HIDE DEF d, c
<1>3. c \in Memory /\ Owned(c) /\ c.active = m.active /\ c.screen = m.screen
    BY <1>1, SteadyMemory DEF Undrawn
<1>4. CASE n = EnterBackoff(c)
    BY <1>1, <1>3, <1>4, EnterBackoffSound DEF Alike, SameScreen, SameRequest, OwnScreens
<1>5. CASE n = AtUrl(c, ConfigUrl)
    BY <1>1, <1>3, <1>5, AtUrlSound, ConfigFresh DEF SameScreen, SameRequest, OwnScreens
<1>6. CASE n = EnterBackoff([c EXCEPT !.version = TRUE]) /\ m.dec.doc # "builtin"
  <2> DEFINE v == [c EXCEPT !.version = TRUE]
  <2>1. ~c.frameValid
      BY <1>1, <1>6, SteadyMemory DEF Undrawn, Memory, Decoders, Sound, Steady, NotWhileDecoding
  <2>2. v \in Memory /\ Alike(c, v) /\ Shown(v)
      BY <1>3, <2>1 DEF Memory, Alike, SameScreen, SameStore, SameRequest, Shown
  <2>3. n = EnterBackoff(v)
      BY <1>6
  <2> HIDE DEF v, n
  <2>4. Sound(v)
      BY <1>1, <2>2, AlikeSound
  <2>5. Sound(n) /\ Alike(v, n)
      BY <2>3, <2>4, EnterBackoffSound
  <2> QED
      BY <1>1, <1>3, <2>2, <2>5 DEF Alike, SameScreen, SameRequest, OwnScreens, n
<1>7. CASE d.st = "ok" /\ n = PersistNextUrl([drawn EXCEPT !.url = next], next, c.frame.s)
  <2> DEFINE e == [drawn EXCEPT !.url = next]
             f == [e.cfg EXCEPT !.url = next, !.sid = c.frame.s]
  <2>1. next \in Urls /\ next.kind # "none"
      BY Pieces, ConfigFresh DEF Answers, Urls, Fresh
  <2>2. next.kind = "frame" => c.frame = Picture(a.s, a.rev) /\ next.rev = a.rev
      BY <1>1, <1>7, ConfigFresh DEF Follows, Builtin, ConfigUrl
  <2> HIDE DEF next
  <2>3. drawn = [c EXCEPT !.frameValid = TRUE, !.version = FALSE, !.tested = FALSE,
                          !.screen = c.frame, !.badge = c.offline]
      BY <1>3 DEF RenderNow, Memory
  <2> HIDE DEF drawn
  <2>4. /\ e \in Memory /\ e.frameValid = TRUE /\ e.version = FALSE /\ e.screen = c.frame /\ e.frame = c.frame
        /\ e.badge = c.offline /\ e.offline = c.offline /\ e.url = next /\ e.cfg = c.cfg /\ SameStore(c, e) /\ SameRequest(c, e)
      BY <1>3, <2>1, <2>3 DEF Memory, SameStore, SameRequest
  <2> HIDE DEF e
  <2>5. f \in Configs
      BY <1>3, <2>1, <2>4 DEF Memory, Configs, Pictures
  <2>6. n = e \/ n = [e EXCEPT !.cfg = f]
      BY <1>7, <2>4, Zenon DEF PersistNextUrl, e
  <2> HIDE DEF f
  <2>7. /\ n \in Memory /\ SameScreen(e, n) /\ SameStore(e, n) /\ SameRequest(e, n) /\ n.url = e.url
        /\ n.offline = e.offline /\ n.version = e.version /\ n.badge = e.badge
      BY <2>4, <2>5, <2>6 DEF Memory, SameScreen, SameStore, SameRequest
  <2> HIDE DEF n
  <2>8. BuiltinHeld(n) /\ NotWhileDecoding(n) /\ Drawable(n) /\ Shown(n) /\ Owned(n)
      BY <1>1, <1>7, <2>4, <2>7 DEF Sound, Steady, BuiltinHeld, NotWhileDecoding, Drawable, Shown, Owned,
         SameScreen, SameStore, SameRequest
  <2>9. Parked(n) /\ n.url.kind # "none"
      BY <2>1, <2>2, <2>4, <2>7 DEF Parked, Picture, SameScreen
  <2>10. Sound(n)
      BY <2>7, <2>8, <2>9 DEF Sound, Steady
  <2>11. n.screen = c.frame /\ n.active = m.active /\ n.decoding = FALSE
      BY <1>1, <1>3, <2>4, <2>7 DEF SameScreen, SameRequest
  <2> QED
      BY <1>1, <1>7, <2>10, <2>11 DEF OwnScreens, n
<1> QED
    BY <1>2, <1>4, <1>5, <1>6, <1>7

\* The screen shows the frame of answer a.
Drawn(n, a) == a.status = 200 /\ n.screen = Picture(a.s, a.rev)

LEMMA FrameCompleteSound ==
    ASSUME NEW m, Sound(m), NEW a \in Answers, Follows(a), m.decoding <=> a.status = 200
    PROVE  LET n == FrameComplete(m, a) IN
           /\ Sound(n) /\ n.active = FALSE /\ n.decoding = FALSE
           /\ OwnScreens(m, n) \/ Drawn(n, a)
<1> DEFINE b == Answered(m)
           n == FrameComplete(m, a)
<1> SUFFICES /\ Sound(n) /\ n.active = FALSE /\ n.decoding = FALSE
             /\ OwnScreens(m, n) \/ Drawn(n, a)
    OBVIOUS
<1>0. Sound(b) /\ b.screen = m.screen /\ b.active = FALSE /\ b.decoding = m.decoding
    BY AnsweredSound DEF SameScreen
<1>1. /\ Sound(b) /\ b.screen = m.screen /\ b.active = FALSE
      /\ a.status = 200 => b.decoding = TRUE
      /\ a.status # 200 => b.decoding = FALSE
  <2>1. m.decoding \in BOOLEAN
      BY SteadyMemory DEF Memory
  <2> QED
      BY <1>0, <2>1
<1>2. \/ n = b /\ a.status = 304
      \/ n = OnNotFound(b) /\ a.status = 404
      \/ n = OnFrame(b, a) /\ a.status = 200
      \/ n = EnterBackoff(b) /\ a.status # 200
    BY SMT DEF FrameComplete
<1> HIDE DEF b, n
<1>3. CASE n = b /\ a.status = 304
    BY <1>1, <1>3 DEF OwnScreens
<1>4. CASE n = OnNotFound(b) /\ a.status = 404
  <2>1. Sound(n) /\ OwnScreens(b, n) /\ n.active = FALSE /\ n.decoding = FALSE
      BY <1>1, <1>4, OnNotFoundSound
  <2> QED
      BY <1>1, <2>1 DEF OwnScreens
<1>5. CASE n = OnFrame(b, a) /\ a.status = 200
  <2>1. /\ Sound(n) /\ n.active = FALSE /\ n.decoding = FALSE
        /\ OwnScreens(b, n) \/ n.screen = Picture(a.s, a.rev)
    <3>1. Sound(b) /\ b.decoding /\ b.active = FALSE
        BY <1>1, <1>5
    <3>2. LET x == OnFrame(b, a) IN
          /\ Sound(x) /\ x.active = b.active /\ x.decoding = FALSE
          /\ OwnScreens(b, x) \/ x.screen = Picture(a.s, a.rev)
        BY <3>1, OnFrameSound, Zenon
    <3> QED
        BY <1>5, <3>1, <3>2
  <2> QED
      BY <1>1, <1>5, <2>1 DEF OwnScreens, Drawn
<1>6. CASE n = EnterBackoff(b) /\ a.status # 200
  <2>1. Sound(n) /\ Alike(b, n)
      BY <1>1, <1>6, EnterBackoffSound
  <2> QED
      BY <1>1, <1>6, <2>1 DEF Alike, SameScreen, SameRequest, OwnScreens
<1> QED
    BY <1>2, <1>3, <1>4, <1>5, <1>6

\* The answer to a registration asks for /config next.
LEMMA RegCompleteSound ==
    ASSUME NEW m, Sound(m), NEW a, a.next = NoUrl
    PROVE  LET n == RegComplete(m, a) IN
           Sound(n) /\ n.active = FALSE /\ n.decoding = m.decoding /\ n.screen = m.screen
<1> DEFINE b == [m EXCEPT !.active = FALSE]
           c == [Unregistered(m.cfg) EXCEPT !.token = TRUE]
           r == [b EXCEPT !.cfg = c, !.failures = 0, !.url = ConfigUrl, !.state = "poll"]
           n == RegComplete(m, a)
<1>1. m \in Memory /\ Shown(m)
    BY SteadyMemory
<1>2. n = EnterBackoff(b) \/ n = r
    BY Zenon DEF RegComplete
<1>3. b \in Memory /\ b.active = FALSE /\ b.decoding = m.decoding /\ b.state = m.state /\ b.url = m.url
      /\ SameScreen(m, b) /\ SameStore(m, b) /\ Shown(b)
    BY <1>1 DEF Memory, SameScreen, SameStore, Shown
<1>4. c \in Configs
    BY <1>1, Pieces DEF Memory, Configs, SetIds, Unregistered
<1>5. 0 \in 0 .. OFFLINE_AFTER_FAILURES
    OBVIOUS
<1> HIDE DEF b, c
<1>6. Sound(b)
    BY <1>3, SoundCarries
<1>7. CASE n = EnterBackoff(b)
    BY <1>3, <1>6, <1>7, EnterBackoffSound DEF Alike, SameRequest, SameScreen
<1>8. CASE n = r
  <2>1. /\ r \in Memory /\ r.active = FALSE /\ r.decoding = b.decoding /\ r.url = ConfigUrl
        /\ SameScreen(b, r) /\ SameStore(b, r) /\ Shown(r)
      BY <1>3, <1>4, <1>5, Pieces DEF Memory, SameScreen, SameStore, Shown
  <2> HIDE DEF r
  <2>2. Sound(r)
      BY <1>6, <2>1, SoundCarries, ConfigFresh
  <2> QED
      BY <1>3, <1>8, <2>1, <2>2 DEF SameScreen
<1> QED
    BY <1>2, <1>7, <1>8

-----------------------------------------------------------------------------
(* Around the requests. *)

LEMMA DiagnoseSound ==
    ASSUME NEW m, Sound(m)
    PROVE  LET n == Diagnose(m) IN Sound(n) /\ SameRequest(m, n) /\ n.cfg = m.cfg /\ OwnScreens(m, n)
<1> DEFINE b == ShowBuiltin(m)
           c == [b EXCEPT !.frameValid = FALSE]
           n == Diagnose(m)
<1>1. m \in Memory /\ Owned(m)
    BY SteadyMemory
<1>2. Steady(b) /\ b.screen = Builtin /\ SameRequest(m, b) /\ b.cfg = m.cfg
    BY <1>1, ShowBuiltinSteady
<1>3. b \in Memory
    BY <1>2 DEF Steady
<1> HIDE DEF b
<1>4. c \in Memory
    BY <1>3 DEF Memory
<1>5. PICK u \in Urls : Fresh(u) /\ ResumeUrl(c) = AtUrl(c, u)
    BY <1>4, ResumeUrlDoes
<1>6. n = [[[b EXCEPT !.frameValid = FALSE] EXCEPT !.url = u] EXCEPT !.ap = TRUE]
    BY <1>5, Zenon DEF Diagnose, AtUrl, b
<1>7. /\ n \in Memory /\ n.frameValid = FALSE /\ n.url = u /\ n.frame = b.frame /\ n.screen = b.screen
      /\ SameStore(b, n) /\ SameRequest(b, n) /\ n.cfg = b.cfg
    BY <1>3, <1>6 DEF Memory, SameStore, SameRequest
<1> HIDE DEF n
<1>8. Steady(n)
    BY <1>2, <1>7 DEF Steady, BuiltinHeld, NotWhileDecoding, Drawable, Shown, Owned, SameStore, SameRequest
<1>9. Sound(n)
    BY <1>5, <1>7, <1>8, SteadyUnparked DEF Unparked
<1> QED
    BY <1>2, <1>7, <1>9 DEF SameRequest, OwnScreens, n

LEMMA NetcheckSound ==
    ASSUME NEW m, Sound(m), NEW link, NEW busy, NEW ask, NEW v
    PROVE  LET n == Netcheck(m, link, busy, ask, v) IN
           Sound(n) /\ SameRequest(m, n) /\ n.cfg = m.cfg /\ OwnScreens(m, n)
<1> DEFINE down == IF m.ap /\ m.failures = 0 /\ ~busy THEN [m EXCEPT !.ap = FALSE] ELSE m
           asked == IF ask /\ m.failures >= OFFLINE_AFTER_FAILURES /\ link
                    THEN [down EXCEPT !.netWaiting = TRUE] ELSE down
           told == [asked EXCEPT !.netWaiting = FALSE]
           n == Netcheck(m, link, busy, ask, v)
           Like(x) == x \in Memory /\ Alike(m, x) /\ Shown(x)
<1> SUFFICES Sound(n) /\ SameRequest(m, n) /\ n.cfg = m.cfg /\ OwnScreens(m, n)
    OBVIOUS
<1>1. m \in Memory /\ Shown(m)
    BY SteadyMemory
<1>2. n = asked \/ n = told \/ n = Diagnose(told)
    BY Zenon DEF Netcheck
<1>d. down = m \/ down = [m EXCEPT !.ap = FALSE]
    OBVIOUS
<1> HIDE DEF down
<1>3. Like(down) /\ down.offline = m.offline /\ down.version = m.version /\ down.badge = m.badge
    BY <1>1, <1>d DEF Memory, Alike, SameScreen, SameStore, SameRequest, Shown
<1>a. asked = down \/ asked = [down EXCEPT !.netWaiting = TRUE]
    OBVIOUS
<1> HIDE DEF asked
<1>4. Like(asked) /\ asked.offline = m.offline /\ asked.version = m.version /\ asked.badge = m.badge
    BY <1>3, <1>a DEF Memory, Alike, SameScreen, SameStore, SameRequest, Shown
<1>5. Like(told)
    BY <1>4 DEF Memory, Alike, SameScreen, SameStore, SameRequest, Shown
<1> HIDE DEF told, n
<1>6. Sound(asked) /\ Sound(told)
    BY <1>4, <1>5, AlikeSound
<1>7. CASE n = Diagnose(told)
  <2>1. Sound(n) /\ SameRequest(told, n) /\ n.cfg = told.cfg /\ OwnScreens(told, n)
      BY <1>6, <1>7, DiagnoseSound
  <2> QED
      BY <1>5, <2>1 DEF Alike, SameRequest, SameScreen, OwnScreens
<1> QED
    BY <1>2, <1>4, <1>5, <1>6, <1>7 DEF Alike, SameScreen, OwnScreens

LEMMA BootSound ==
    ASSUME NEW c \in Configs, NEW f \in SetIds
    PROVE  LET n == Boot(c, f) IN
           Sound(n) /\ n.active = FALSE /\ n.decoding = FALSE /\ n.state = "boot" /\ n.cfg = c
<1> DEFINE n == Boot(c, f)
<1>1. 0 \in 0 .. OFFLINE_AFTER_FAILURES /\ 0 \in 0 .. WEDGE_TIMEOUTS /\ 0 \in 0 .. CONFIG_404S - 1
    OBVIOUS
<1>2. n \in Memory
    BY <1>1, Pieces DEF Boot, Memory
<1>3. /\ n.active = FALSE /\ n.decoding = FALSE /\ n.state = "boot" /\ n.cfg = c /\ n.frame = Black
      /\ n.frameValid = FALSE /\ n.writing = FALSE
    BY DEF Boot
<1> HIDE DEF n
<1>4. Sound(n)
    BY <1>2, <1>3 DEF Sound, Steady, BuiltinHeld, NotWhileDecoding, Drawable, Shown, Owned, Parked
<1> QED
    BY <1>3, <1>4 DEF n

LEMMA RestartSound ==
    ASSUME NEW m, Sound(m), NEW c \in Configs
    PROVE  LET n == Restart([m EXCEPT !.cfg = c]) IN
           Sound(n) /\ n.active = FALSE /\ n.decoding = FALSE /\ n.state = "boot" /\ n.cfg = c /\ n.screen = m.screen
<1> DEFINE n == Restart([m EXCEPT !.cfg = c])
<1>1. m \in Memory /\ Shown(m)
    BY SteadyMemory
<1>2. 0 \in 0 .. OFFLINE_AFTER_FAILURES
    OBVIOUS
<1>3. /\ n \in Memory /\ n.active = FALSE /\ n.decoding = FALSE /\ n.state = "boot" /\ n.cfg = c
      /\ SameScreen(m, n) /\ SameStore(m, n) /\ Shown(n)
    BY <1>1, <1>2 DEF Restart, Memory, SameScreen, SameStore, Shown
<1> HIDE DEF n
<1>4. Sound(n)
    BY <1>3, SoundCarries
<1> QED
    BY <1>3, <1>4 DEF SameScreen, n

LEMMA WifiLostSound ==
    ASSUME NEW m, Sound(m), NEW d \in {m, [m EXCEPT !.decoding = FALSE]}
    PROVE  LET n == WifiLost(d) IN
           Sound(n) /\ n.active = FALSE /\ n.decoding = d.decoding /\ n.state = "wifi_wait" /\ n.cfg = m.cfg
                    /\ n.screen = m.screen
<1> DEFINE n == WifiLost(d)
<1>1. m \in Memory /\ Shown(m)
    BY SteadyMemory
<1>2. /\ n \in Memory /\ n.active = FALSE /\ n.decoding = d.decoding /\ (d.decoding => m.decoding) /\ n.state = "wifi_wait"
      /\ n.cfg = m.cfg /\ SameScreen(m, n) /\ SameStore(m, n) /\ Shown(n)
    BY <1>1 DEF WifiLost, Memory, SameScreen, SameStore, Shown
<1> HIDE DEF n
<1>3. Sound(n)
    BY <1>2, SoundCarries
<1> QED
    BY <1>2, <1>3 DEF SameScreen, n

LEMMA BadUrlFallbackSound ==
    ASSUME NEW m, Sound(m)
    PROVE  LET n == BadUrlFallback(m) IN
           Sound(n) /\ n.active = m.active /\ n.decoding = m.decoding /\ n.cfg = m.cfg /\ OwnScreens(m, n)
<1> DEFINE b == AtUrl(m, ConfigUrl)
           n == BadUrlFallback(m)
<1>1. n = EnterBackoff(b) \/ n = [ShowBuiltin(m) EXCEPT !.state = "halt"]
    BY Zenon DEF BadUrlFallback, AtUrl
<1>2. Sound(b) /\ SameScreen(m, b) /\ SameRequest(m, b) /\ b.cfg = m.cfg
    BY ConfigFresh, AtUrlSound
<1>3. m \in Memory /\ Owned(m)
    BY SteadyMemory
<1> HIDE DEF b, n
<1>4. CASE n = EnterBackoff(b)
  <2>1. Sound(n) /\ Alike(b, n)
      BY <1>2, <1>4, EnterBackoffSound
  <2> QED
      BY <1>2, <2>1 DEF Alike, SameScreen, SameRequest, OwnScreens, n
<1>5. CASE n = [ShowBuiltin(m) EXCEPT !.state = "halt"]
    BY <1>3, <1>5, ShowBuiltinIn DEF OwnScreens, n
<1> QED
    BY <1>1, <1>4, <1>5

-----------------------------------------------------------------------------
(* Steps. *)

\* The types of everything but the kiosk's memory, its flash and its request.
Outside ==
    /\ wifi \in BOOLEAN /\ sv \in [set : Sets, rev : 1 .. MaxRev, knows : BOOLEAN]
    /\ wedges \in 0 .. WEDGE_REBOOT_LIMIT /\ faults \in 0 .. MaxFaults

\* What NeverHalfDrawn says of a step.
Draws ==
    w'.screen # w.screen =>
         \/ w'.screen = Builtin
         \/ w'.state = "boot"
         \/ /\ http.answer.status = 200 /\ http.fed = 2
            /\ w'.screen = Picture(http.answer.s, http.answer.rev)

LEMMA FaultTyped == ASSUME NEW f, Outside, Fault(f) PROVE faults' \in 0 .. MaxFaults
BY DEF Outside, Fault

LEMMA NoFaultTyped == ASSUME Outside, NoFault PROVE faults' \in 0 .. MaxFaults
BY DEF Outside, NoFault

LEMMA OutsideTyped == KInv => Outside
BY DEF KInv, TypeOK, Outside

\* A step that leaves the request alone.
LEMMA StepKeepsRequest ==
    ASSUME KInv, Outside', Sound(w'), saved' \in Configs, w'.cfg.token = saved'.token, http' = http,
           w'.active = w.active, w'.decoding = w.decoding, w.active => w'.state = w.state
    PROVE  KInv'
<1>1. TypeOK'
    BY DEF KInv, TypeOK, Outside, Sound, Steady
<1>2. CallbackInState'
    BY DEF KInv, CallbackInState
<1>3. PairingDurable' /\ (Streams' => w'.decoding) /\ Follows(http'.answer)
      /\ (http'.sink = "reg" => http'.url.kind = "register" /\ http'.answer.next = NoUrl)
    BY DEF KInv, PairingDurable, Streams
<1> QED
    BY <1>1, <1>2, <1>3 DEF KInv

\* A step after which there is no request.
LEMMA StepEndsRequest ==
    ASSUME Outside', Sound(w'), saved' \in Configs, w'.cfg.token = saved'.token, http' = Idle,
           w'.active = FALSE, w'.decoding = FALSE
    PROVE  KInv'
<1>1. TypeOK'
    BY Pieces DEF TypeOK, Outside, Sound, Steady
<1>2. http'.phase = "idle" /\ http'.sink = "frame" /\ http'.answer = NoAnswer /\ NoAnswer.next = NoUrl
    BY DEF Idle, NoAnswer, Answer
<1>3. CallbackInState' /\ PairingDurable' /\ ~Streams'
    BY <1>2 DEF CallbackInState, PairingDurable, Streams
<1>4. Follows(http'.answer)
    BY <1>2 DEF Follows, NoUrl
<1> QED
    BY <1>1, <1>2, <1>3, <1>4 DEF KInv

\* A step that starts a request.
LEMMA StepSends ==
    ASSUME NEW sink \in {"frame", "reg"}, NEW u \in Urls, sink = "reg" => u.kind = "register",
           Outside', Sound(w'), saved' \in Configs, w'.cfg.token = saved'.token, http' = Sent(sink, u),
           w'.active = TRUE, w'.decoding = FALSE, w'.state = IF sink = "reg" THEN "register" ELSE "poll"
    PROVE  KInv'
<1>1. /\ http' \in Requests /\ http'.phase = "sent" /\ http'.sink = sink /\ http'.url = u
      /\ http'.answer = NoAnswer /\ NoAnswer.next = NoUrl
    BY Pieces DEF Sent, Requests, NoAnswer, Answer
<1>2. TypeOK'
    BY <1>1 DEF TypeOK, Outside, Sound, Steady
<1>3. CallbackInState' /\ PairingDurable' /\ ~Streams'
    BY <1>1 DEF CallbackInState, PairingDurable, Streams
<1>4. Follows(http'.answer)
    BY <1>1 DEF Follows, NoUrl
<1> QED
    BY <1>1, <1>2, <1>3, <1>4 DEF KInv

LEMMA InitKInv == Init => KInv
<1> SUFFICES ASSUME Init PROVE KInv
    OBVIOUS
<1>1. NoSet \in SetIds /\ NoConfig \in Configs
    BY Pieces DEF SetIds
<1>2. Sound(w) /\ w.active = FALSE /\ w.decoding = FALSE /\ w.cfg = NoConfig
    BY <1>1, BootSound DEF Init
<1>3. TypeOK
  <2>1. sv \in [set : Sets, rev : 1 .. MaxRev, knows : BOOLEAN]
    <3>1. PICK s \in [set : Sets, rev : {1}, knows : {FALSE}] : sv = s
        BY DEF Init
    <3>2. sv = [set |-> s.set, rev |-> 1, knows |-> FALSE] /\ s.set \in Sets
        BY <3>1
    <3> QED
        BY <3>2
  <2>2. 0 \in 0 .. WEDGE_REBOOT_LIMIT /\ 0 \in 0 .. MaxFaults
      OBVIOUS
  <2> QED
      BY <1>1, <1>2, <2>1, <2>2, Pieces DEF Init, TypeOK, Sound, Steady
<1>4. http.phase = "idle" /\ http.sink = "frame" /\ http.answer.next = NoUrl
    BY DEF Init, Idle, NoAnswer, Answer
<1>5. CallbackInState /\ PairingDurable /\ ~Streams
    BY <1>2, <1>4 DEF Init, CallbackInState, PairingDurable, Streams
<1>6. Follows(http.answer)
    BY <1>4 DEF Follows, NoUrl
<1> QED
    BY <1>2, <1>3, <1>4, <1>5, <1>6 DEF KInv

LEMMA ApSound ==
    ASSUME NEW m, Sound(m), NEW x \in BOOLEAN
    PROVE  LET n == [m EXCEPT !.ap = x] IN Sound(n) /\ Alike(m, n)
<1> DEFINE n == [m EXCEPT !.ap = x]
<1>1. m \in Memory /\ Shown(m)
    BY SteadyMemory
<1>2. n \in Memory /\ Alike(m, n) /\ Shown(n)
    BY <1>1 DEF Memory, Alike, SameScreen, SameStore, SameRequest, Shown
<1> HIDE DEF n
<1>3. Sound(n)
    BY <1>2, AlikeSound
<1> QED
    BY <1>2, <1>3 DEF n

\* What the invariant says of the memory in a state that has no request of its own.
LEMMA Unasked ==
    ASSUME KInv
    PROVE  /\ Sound(w) /\ w \in Memory /\ Owned(w) /\ saved \in Configs /\ w.cfg.token = saved.token
           /\ w.state \notin {"register", "poll"} => w.active = FALSE
           /\ w.active = FALSE => w.decoding = FALSE
           /\ w.state # "poll" => w.decoding = FALSE
<1>1. Sound(w) /\ w \in Memory /\ Owned(w) /\ saved \in Configs /\ w.cfg.token = saved.token
    BY SteadyMemory DEF KInv, TypeOK, PairingDurable
<1>2. w.active \in BOOLEAN /\ w.decoding \in BOOLEAN
    BY <1>1 DEF Memory
<1> QED
    BY <1>1, <1>2 DEF KInv, CallbackInState

LEMMA PollBootStep == ASSUME KInv, PollBoot PROVE KInv' /\ Draws
<1>1. Outside'
    BY OutsideTyped, NoFaultTyped DEF PollBoot, Outside
<1>2. CASE w' = [w EXCEPT !.state = "wifi_wait"]
  <2>1. /\ w' \in Memory /\ SameScreen(w, w') /\ SameStore(w, w') /\ Shown(w') /\ w'.state = "wifi_wait"
        /\ w'.active = w.active /\ w'.decoding = w.decoding /\ w'.cfg = w.cfg
      BY <1>2, Unasked, SteadyMemory DEF Memory, SameScreen, SameStore, Shown
  <2>2. Sound(w')
      BY <2>1, Unasked, SoundCarries
  <2>3. KInv'
      BY <1>1, <2>1, <2>2, Unasked, StepKeepsRequest DEF PollBoot
  <2> QED
      BY <2>1, <2>3 DEF Draws, SameScreen
<1>3. CASE w' = [ShowBuiltin(w) EXCEPT !.state = "provision"]
  <2>1. /\ Sound(w') /\ w'.screen = Builtin
        /\ w'.active = w.active /\ w'.decoding = w.decoding /\ w'.cfg = w.cfg
      BY <1>3, Unasked, ShowBuiltinIn
  <2>2. KInv'
      BY <1>1, <2>1, Unasked, StepKeepsRequest DEF PollBoot
  <2> QED
      BY <2>1, <2>2 DEF Draws
<1> QED
    BY <1>2, <1>3 DEF PollBoot

LEMMA PollWifiWaitStep == ASSUME KInv, PollWifiWait PROVE KInv' /\ Draws
<1>1. Outside'
    BY OutsideTyped, NoFaultTyped DEF PollWifiWait, Outside
<1>2. w.active = FALSE /\ w.state = "wifi_wait"
    BY Unasked DEF PollWifiWait
<1> DEFINE Good == Sound(w') /\ w'.active = w.active /\ w'.decoding = w.decoding /\ w'.cfg = w.cfg /\ OwnScreens(w, w')
<1>3. ASSUME NEW x \in BOOLEAN, w' = ShowBuiltin([w EXCEPT !.ap = x]) PROVE Good
  <2> DEFINE m == [w EXCEPT !.ap = x]
  <2>1. Sound(m) /\ Alike(w, m)
      BY Unasked, ApSound
  <2>2. w' = ShowBuiltin(m)
      BY <1>3
  <2> HIDE DEF m
  <2>3. Unparked(m)
      BY <1>2, <2>1 DEF Unparked, Alike, SameRequest
  <2>4. Sound(w') /\ OwnScreens(m, w') /\ SameRequest(m, w') /\ w'.cfg = m.cfg
      BY <2>1, <2>2, <2>3, ShowBuiltinSound
  <2> QED
      BY <2>1, <2>4 DEF Alike, SameRequest, SameScreen, OwnScreens
<1>4. ASSUME \/ w' = StartPollState([w EXCEPT !.ap = FALSE])
             \/ w' = [ShowBuiltin([w EXCEPT !.ap = FALSE]) EXCEPT !.state = "register"]
      PROVE  Good
  <2> DEFINE m == [w EXCEPT !.ap = FALSE]
  <2>1. Sound(m) /\ Alike(w, m)
      BY Unasked, ApSound
  <2>2. w' = StartPollState(m) \/ w' = [ShowBuiltin(m) EXCEPT !.state = "register"]
      BY <1>4
  <2> HIDE DEF m
  <2>3. m \in Memory /\ Owned(m)
      BY <2>1, SteadyMemory
  <2>4. Sound(w') /\ w'.active = m.active /\ w'.decoding = m.decoding /\ w'.cfg = m.cfg /\ OwnScreens(m, w')
    <3>1. CASE w' = StartPollState(m)
        BY <2>1, <3>1, StartPollStateSound DEF OwnScreens
    <3>2. CASE w' = [ShowBuiltin(m) EXCEPT !.state = "register"]
        BY <2>3, <3>2, ShowBuiltinIn DEF OwnScreens
    <3> QED
        BY <2>2, <3>1, <3>2
  <2> QED
      BY <2>1, <2>4 DEF Alike, SameRequest, SameScreen, OwnScreens
<1>5. Good
  <2>1. \/ \E x \in {w.ap, TRUE} : w' = ShowBuiltin([w EXCEPT !.ap = x])
        \/ w' = StartPollState([w EXCEPT !.ap = FALSE])
        \/ w' = [ShowBuiltin([w EXCEPT !.ap = FALSE]) EXCEPT !.state = "register"]
    <3>1. CASE ~wifi
        BY <3>1, Zenon DEF PollWifiWait
    <3>2. CASE wifi
      <4> DEFINE m == [w EXCEPT !.ap = FALSE]
      <4>1. w' = IF m.cfg.token THEN StartPollState(m) ELSE [ShowBuiltin(m) EXCEPT !.state = "register"]
          BY <3>2, Zenon DEF PollWifiWait
      <4> QED
          BY <4>1, Zenon
    <3> QED
        BY <3>1, <3>2
  <2>2. {w.ap, TRUE} \subseteq BOOLEAN
      BY Unasked DEF Memory
  <2> QED
      BY <1>3, <1>4, <2>1, <2>2
<1>6. KInv'
    BY <1>1, <1>2, <1>5, Unasked, StepKeepsRequest DEF PollWifiWait
<1> QED
    BY <1>5, <1>6 DEF Draws, OwnScreens

LEMMA PollRegisterStep == ASSUME KInv, PollRegister PROVE KInv' /\ Draws
<1>1. Outside'
    BY OutsideTyped, NoFaultTyped, FaultTyped DEF PollRegister, Outside
<1>2. w.state = "register" /\ w.decoding = FALSE /\ saved' = saved
    BY Unasked DEF PollRegister
<1>3. CASE w' = WifiLost(w) /\ http' = Idle
  <2>1. Sound(w') /\ w'.active = FALSE /\ w'.decoding = w.decoding /\ w'.cfg = w.cfg /\ w'.screen = w.screen
      BY <1>3, Unasked, WifiLostSound
  <2>2. KInv'
      BY <1>1, <1>2, <1>3, <2>1, Unasked, StepEndsRequest
  <2> QED
      BY <2>1, <2>2 DEF Draws
<1>4. CASE UNCHANGED <<w, http>>
  <2>1. KInv'
      BY <1>1, <1>2, <1>4, Unasked, StepKeepsRequest
  <2> QED
      BY <1>4, <2>1 DEF Draws
<1>5. CASE w' = [w EXCEPT !.active = TRUE] /\ http' = Sent("reg", RegisterUrl)
  <2>1. /\ w' \in Memory /\ SameScreen(w, w') /\ SameStore(w, w') /\ Shown(w') /\ w'.state = w.state /\ w'.url = w.url
        /\ w'.active = TRUE /\ w'.decoding = w.decoding /\ w'.cfg = w.cfg /\ w'.screen = w.screen
      BY <1>5, Unasked, SteadyMemory DEF Memory, SameScreen, SameStore, Shown
  <2>2. Sound(w')
      BY <2>1, Unasked, SoundCarries
  <2>3. RegisterUrl \in Urls /\ RegisterUrl.kind = "register"
      BY Pieces DEF RegisterUrl
  <2>4. KInv'
      BY <1>1, <1>2, <1>5, <2>1, <2>2, <2>3, Unasked, StepSends
  <2> QED
      BY <2>1, <2>4 DEF Draws
<1>6. CASE w' = [ShowBuiltin(w) EXCEPT !.state = "halt"] /\ ~w.active /\ UNCHANGED http
  <2>1. Sound(w') /\ w'.active = w.active /\ w'.decoding = w.decoding /\ w'.cfg = w.cfg /\ w'.screen = Builtin
      BY <1>6, Unasked, ShowBuiltinIn
  <2>2. KInv'
      BY <1>1, <1>2, <1>6, <2>1, Unasked, StepKeepsRequest
  <2> QED
      BY <2>1, <2>2 DEF Draws
<1>7. CASE w' = EnterBackoff(w) /\ UNCHANGED http
  <2>1. Sound(w') /\ Alike(w, w')
      BY <1>7, Unasked, EnterBackoffSound
  <2>2. KInv'
      BY <1>1, <1>2, <1>7, <2>1, Unasked, StepKeepsRequest DEF Alike, SameRequest
  <2> QED
      BY <2>1, <2>2 DEF Draws, Alike, SameScreen
<1> QED
    BY <1>3, <1>4, <1>5, <1>6, <1>7, Zenon DEF PollRegister

LEMMA PollRestStep ==
    ASSUME KInv, NEW m, Sound(m), SameRequest(w, m), m.cfg = w.cfg, OwnScreens(w, m), w.state = "poll",
           PollRest(m), Outside', UNCHANGED saved
    PROVE  KInv' /\ Draws
<1>1. CASE ~m.active
  <2>0. m.active = FALSE /\ m.decoding = FALSE
      BY <1>1, Unasked DEF SameRequest, Memory
  <2>1. CASE w' = WifiLost(m) /\ UNCHANGED http
    <3>1. Sound(w') /\ w'.active = FALSE /\ w'.decoding = m.decoding /\ w'.cfg = m.cfg /\ w'.screen = m.screen
        BY <2>1, WifiLostSound
    <3>2. KInv'
        BY <2>0, <2>1, <3>1, Unasked, StepKeepsRequest DEF SameRequest
    <3> QED
        BY <3>1, <3>2 DEF Draws, OwnScreens
  <2>2. CASE w' = [m EXCEPT !.active = TRUE] /\ http' = Sent("frame", m.url)
    <3>1. /\ w' \in Memory /\ SameScreen(m, w') /\ SameStore(m, w') /\ Shown(w') /\ w'.state = m.state /\ w'.url = m.url
          /\ w'.active = TRUE /\ w'.decoding = m.decoding /\ w'.cfg = m.cfg /\ w'.screen = m.screen
      <4>1. m \in Memory /\ Shown(m)
          BY SteadyMemory
      <4> QED
          BY <2>2, <4>1 DEF Memory, SameScreen, SameStore, Shown
    <3>2. Sound(w')
        BY <3>1, SoundCarries
    <3>3. m.url \in Urls
        BY SteadyMemory DEF Memory
    <3>4. KInv'
        BY <2>0, <2>2, <3>1, <3>2, <3>3, Unasked, StepSends DEF SameRequest
    <3> QED
        BY <3>1, <3>4 DEF Draws, OwnScreens
  <2>3. CASE w' = BadUrlFallback(m) /\ UNCHANGED http
    <3>1. Sound(w') /\ w'.active = m.active /\ w'.decoding = m.decoding /\ w'.cfg = m.cfg /\ OwnScreens(m, w')
        BY <2>3, BadUrlFallbackSound
    <3>2. KInv'
      <4>1. w'.active = w.active /\ w'.decoding = w.decoding /\ ~w.active /\ w'.cfg = w.cfg
          BY <1>1, <3>1 DEF SameRequest
      <4> QED
          BY <2>3, <3>1, <4>1, Unasked, StepKeepsRequest
    <3> QED
        BY <3>1, <3>2 DEF Draws, OwnScreens
  <2> QED
      BY <1>1, <2>1, <2>2, <2>3, Zenon DEF PollRest
<1>2. CASE m.active
  <2>1. CASE w' = WifiLost([m EXCEPT !.decoding = FALSE]) /\ http' = Idle
    <3> DEFINE d == [m EXCEPT !.decoding = FALSE]
    <3>1. d \in {m, [m EXCEPT !.decoding = FALSE]} /\ d.decoding = FALSE
        BY SteadyMemory DEF Memory
    <3>2. w' = WifiLost(d)
        BY <2>1
    <3> HIDE DEF d
    <3>3. Sound(w') /\ w'.active = FALSE /\ w'.decoding = FALSE /\ w'.cfg = m.cfg /\ w'.screen = m.screen
        BY <3>1, <3>2, WifiLostSound
    <3>4. KInv'
        BY <2>1, <3>3, Unasked, StepEndsRequest
    <3> QED
        BY <3>3, <3>4 DEF Draws, OwnScreens
  <2>2. CASE w' = m /\ UNCHANGED http
    <3>1. KInv'
        BY <2>2, Unasked, StepKeepsRequest DEF SameRequest
    <3> QED
        BY <2>2, <3>1 DEF Draws, OwnScreens
  <2> QED
      BY <1>2, <2>1, <2>2, Zenon DEF PollRest
<1> QED
    BY <1>1, <1>2

LEMMA PollPollStep == ASSUME KInv, PollPoll PROVE KInv' /\ Draws
<1>1. Outside' /\ saved' = saved /\ w.state = "poll"
    BY OutsideTyped, NoFaultTyped, FaultTyped DEF PollPoll, Outside
<1>2. PICK busy \in BOOLEAN, ask \in BOOLEAN, v \in {"pending", "online", "offline"} :
         \/ PollRest(Netcheck(w, wifi, busy, ask, v))
         \/ w' = EnterBackoff(Netcheck(w, wifi, busy, ask, v)) /\ UNCHANGED http
    BY Zenon DEF PollPoll
<1> DEFINE m == Netcheck(w, wifi, busy, ask, v)
<1>3. Sound(m) /\ SameRequest(w, m) /\ m.cfg = w.cfg /\ OwnScreens(w, m)
    BY Unasked, NetcheckSound
<1>4. PollRest(m) \/ (w' = EnterBackoff(m) /\ UNCHANGED http)
    BY <1>2
<1> HIDE DEF m
<1>5. CASE PollRest(m)
    BY <1>1, <1>3, <1>5, PollRestStep
<1>6. CASE w' = EnterBackoff(m) /\ UNCHANGED http
  <2>1. Sound(w') /\ Alike(m, w')
      BY <1>3, <1>6, EnterBackoffSound
  <2>2. KInv'
      BY <1>1, <1>3, <1>6, <2>1, Unasked, StepKeepsRequest DEF Alike, SameRequest
  <2> QED
      BY <1>3, <2>1, <2>2 DEF Draws, Alike, SameScreen, OwnScreens
<1> QED
    BY <1>4, <1>5, <1>6

-----------------------------------------------------------------------------
(* Answers. *)

LEMMA ServerUrls == Outside => NextUrl \in Urls /\ NextUrl.kind = "frame" /\ NextUrl.rev = sv.rev /\ sv.rev \in Revs \cup {NoRev}
BY DEF Outside, NextUrl, FrameUrl, Urls, SetIds, Revs

LEMMA FrameAnswerTyped ==
    ASSUME Outside, NEW d \in BOOLEAN, NEW n \in {NextUrl, BadUrl}, NEW f \in {"ok", "badjson", "short", "version", "toomany"}
    PROVE  Frame200(d, n, f) \in Answers /\ Follows(Frame200(d, n, f))
<1>1. n \in Urls /\ (n.kind = "frame" => n.rev = sv.rev) /\ sv.rev \in Revs \cup {NoRev}
    BY ServerUrls, Pieces DEF BadUrl
<1>2. sv.set \in SetIds
    BY DEF Outside, SetIds
<1>3. Frame200(d, n, f) = [status |-> 200, s |-> sv.set, rev |-> sv.rev, defs |-> d, next |-> n, form |-> f]
    BY DEF Frame200, Answer
<1> QED
    BY <1>1, <1>2, <1>3 DEF Answers, Follows

\* An answer without a frame.
Plain(c, f) == Answer(c, NoSet, NoRev, FALSE, NoUrl, f)

LEMMA PlainAnswerTyped ==
    ASSUME NEW c \in {200, 404, 304, 500}, NEW f \in {"ok", "short"}
    PROVE  Plain(c, f) \in Answers /\ Follows(Plain(c, f)) /\ Plain(c, f).next = NoUrl
<1> DEFINE a == Plain(c, f)
<1>1. a = [status |-> c, s |-> NoSet, rev |-> NoRev, defs |-> FALSE, next |-> NoUrl, form |-> f]
    BY DEF Plain, Answer
<1>2. NoUrl.kind = "none"
    BY DEF NoUrl
<1> HIDE DEF a
<1>3. a \in Answers /\ Follows(a) /\ a.next = NoUrl
    BY <1>1, <1>2, Pieces DEF Answers, Follows, SetIds
<1> QED
    BY <1>3 DEF a

LEMMA NoIdAnswerTyped ==
    ASSUME Outside
    PROVE  LET a == Answer(200, NoSet, sv.rev, TRUE, NextUrl, "ok") IN a \in Answers /\ Follows(a)
<1> DEFINE a == Answer(200, NoSet, sv.rev, TRUE, NextUrl, "ok")
<1>1. a = [status |-> 200, s |-> NoSet, rev |-> sv.rev, defs |-> TRUE, next |-> NextUrl, form |-> "ok"]
    BY DEF Answer
<1> HIDE DEF a
<1>2. a \in Answers /\ Follows(a)
    BY <1>1, ServerUrls DEF Answers, Follows, SetIds
<1> QED
    BY <1>2 DEF a

\* What the server says is well formed, and a registration is answered without a URL.
LEMMA GoodAnswerTyped ==
    ASSUME Outside, NEW u
    PROVE  LET a == GoodAnswer(u) IN
           a \in Answers /\ Follows(a) /\ (u.kind = "register" => a.next = NoUrl)
<1> DEFINE a == GoodAnswer(u)
<1>1. \/ a = Plain(200, "ok") \/ a = Plain(404, "ok") \/ a = Plain(304, "ok")
      \/ u.kind # "register" /\ a = Frame200(u.s # sv.set, NextUrl, "ok")
  <2>1. CASE u.kind = "register"
      BY <2>1 DEF GoodAnswer, Plain
  <2>2. CASE u.kind # "register" /\ ~sv.knows
    <3>1. a = Plain(404, "ok")
        BY <2>2 DEF GoodAnswer, Plain
    <3> QED
        BY <3>1, Zenon
  <2>3. CASE u.kind # "register" /\ sv.knows
    <3>1. CASE u.kind = "frame" /\ u.rev = sv.rev
      <4>1. a = Plain(304, "ok")
          BY <2>3, <3>1 DEF GoodAnswer, Plain
      <4> QED
          BY <4>1, Zenon
    <3>2. CASE ~(u.kind = "frame" /\ u.rev = sv.rev)
      <4>1. a = Frame200(u.s # sv.set, NextUrl, "ok")
          BY <2>3, <3>2 DEF GoodAnswer
      <4> QED
          BY <2>3, <4>1, Zenon
    <3> QED
        BY <3>1, <3>2
  <2> QED
      BY <2>1, <2>2, <2>3
<1> HIDE DEF a
<1>2. CASE a = Plain(200, "ok") \/ a = Plain(404, "ok") \/ a = Plain(304, "ok")
    BY <1>2, PlainAnswerTyped DEF a
<1>3. CASE u.kind # "register" /\ a = Frame200(u.s # sv.set, NextUrl, "ok")
  <2> DEFINE d == u.s # sv.set
  <2>1. d \in BOOLEAN /\ a = Frame200(d, NextUrl, "ok")
      BY <1>3
  <2> HIDE DEF d
  <2> QED
      BY <1>3, <2>1, FrameAnswerTyped DEF a
<1> QED
    BY <1>1, <1>2, <1>3

LEMMA BadAnswersTyped ==
    ASSUME Outside, NEW u, NEW a \in BadAnswers(u)
    PROVE  a \in Answers /\ Follows(a) /\ (u.kind = "register" => a.next = NoUrl)
<1>1. CASE u.kind = "register"
  <2>1. a = Plain(500, "ok") \/ a = Plain(200, "short")
      BY <1>1 DEF BadAnswers, Plain
  <2> QED
      BY <2>1, PlainAnswerTyped
<1>2. CASE u.kind # "register"
  <2> DEFINE d == u.s # sv.set
  <2>1. \/ a = Plain(500, "ok") \/ a = Plain(404, "ok")
        \/ \E f \in {"badjson", "short", "version", "toomany"} : a = Frame200(d, NextUrl, f)
        \/ a = Frame200(d, BadUrl, "ok")
        \/ a = Frame200(FALSE, NextUrl, "ok")
        \/ a = Answer(200, NoSet, sv.rev, TRUE, NextUrl, "ok")
      BY <1>2 DEF BadAnswers, Plain
  <2>2. d \in BOOLEAN
      OBVIOUS
  <2> HIDE DEF d
  <2>3. CASE a = Plain(500, "ok") \/ a = Plain(404, "ok")
      BY <2>3, PlainAnswerTyped
  <2>4. CASE \E f \in {"badjson", "short", "version", "toomany"} : a = Frame200(d, NextUrl, f)
      BY <1>2, <2>2, <2>4, FrameAnswerTyped
  <2>5. CASE a = Frame200(d, BadUrl, "ok")
      BY <1>2, <2>2, <2>5, FrameAnswerTyped
  <2>6. CASE a = Frame200(FALSE, NextUrl, "ok")
      BY <1>2, <2>6, FrameAnswerTyped
  <2>7. CASE a = Answer(200, NoSet, sv.rev, TRUE, NextUrl, "ok")
      BY <1>2, <2>7, NoIdAnswerTyped
  <2> QED
      BY <2>1, <2>3, <2>4, <2>5, <2>6, <2>7
<1> QED
    BY <1>1, <1>2

LEMMA HearStep ==
    ASSUME KInv, NEW a \in Answers, Follows(a), http.url.kind = "register" => a.next = NoUrl, Hear(a), Outside'
    PROVE  KInv' /\ Draws
<1>1. /\ http \in Requests /\ http.phase = "sent" /\ saved' = saved
      /\ http'.phase = "body" /\ http'.sink = http.sink /\ http'.url = http.url /\ http'.answer = a /\ http' \in Requests
    BY DEF Hear, KInv, TypeOK, Requests
<1>2. /\ Sound(w') /\ w'.state = w.state /\ w'.active = w.active /\ w'.cfg = w.cfg /\ w'.screen = w.screen
      /\ http.sink = "frame" => (w'.decoding <=> a.status = 200)
      /\ http.sink # "frame" => w'.decoding = w.decoding
  <2>1. CASE http.sink = "frame"
    <3>1. w' = FrameOnStatus(w, a)
        BY <2>1 DEF Hear
    <3>2. /\ Sound(w') /\ w'.state = w.state /\ w'.active = w.active /\ w'.cfg = w.cfg /\ w'.screen = w.screen
          /\ w'.decoding <=> a.status = 200
      <4>1. Sound(w)
          BY Unasked
      <4> DEFINE n == FrameOnStatus(w, a)
      <4>2. Sound(n) /\ n.state = w.state /\ n.active = w.active /\ n.cfg = w.cfg /\ n.screen = w.screen
          BY <4>1, FrameOnStatusSound
      <4>3. n.decoding <=> a.status = 200
          BY <4>1, FrameOnStatusSound
      <4> HIDE DEF n
      <4> QED
          BY <3>1, <4>2, <4>3 DEF n
    <3> QED
        BY <2>1, <3>2
  <2>2. CASE http.sink # "frame"
      BY <2>2, Unasked DEF Hear
  <2> QED
      BY <2>1, <2>2
<1>3. TypeOK'
    BY <1>1, <1>2, Unasked DEF TypeOK, Outside, Sound, Steady
<1>4. w.decoding = FALSE
    BY <1>1, Unasked DEF KInv, CallbackInState, Memory
<1>5. CallbackInState' /\ (Streams' => w'.decoding)
    BY <1>1, <1>2, <1>4 DEF KInv, CallbackInState, Streams
<1>6. PairingDurable' /\ Follows(http'.answer)
      /\ (http'.sink = "reg" => http'.url.kind = "register" /\ http'.answer.next = NoUrl)
    BY <1>1, <1>2, Unasked DEF KInv, PairingDurable
<1>7. KInv'
    BY <1>2, <1>3, <1>5, <1>6 DEF KInv
<1> QED
    BY <1>2, <1>7 DEF Draws

LEMMA ReplyStep == ASSUME KInv, Reply PROVE KInv' /\ Draws
<1>1. Outside'
  <2>1. sv' \in [set : Sets, rev : 1 .. MaxRev, knows : BOOLEAN]
      BY OutsideTyped DEF Reply, Outside
  <2> QED
      BY <2>1, OutsideTyped, NoFaultTyped DEF Reply, Hear, Outside
<1> DEFINE a == GoodAnswer(http.url)
<1>2. Hear(a)
    BY DEF Reply
<1>3. a \in Answers /\ Follows(a) /\ (http.url.kind = "register" => a.next = NoUrl)
    BY OutsideTyped, GoodAnswerTyped
<1> HIDE DEF a
<1> QED
    BY <1>1, <1>2, <1>3, HearStep

LEMMA BadReplyStep == ASSUME KInv, BadReply PROVE KInv' /\ Draws
<1>1. PICK a \in BadAnswers(http.url) : Hear(a)
    BY DEF BadReply
<1>2. faults' \in 0 .. MaxFaults
    BY OutsideTyped DEF Outside, BadReply
<1>3. Outside'
    BY <1>1, <1>2, OutsideTyped DEF BadReply, Hear, Outside
<1>4. a \in Answers /\ Follows(a) /\ (http.url.kind = "register" => a.next = NoUrl)
    BY OutsideTyped, BadAnswersTyped
<1> QED
    BY <1>1, <1>3, <1>4, HearStep

\* The end of a request without an answer, and perhaps the reset of a wedged radio.
LEMMA FailedStep ==
    ASSUME KInv, NEW m, Sound(m), m.cfg = w.cfg, m.screen = w.screen, m.decoding => w.decoding,
           NEW err, Failed(err, m), sv' = sv, faults' \in 0 .. MaxFaults
    PROVE  KInv' /\ Draws
<1> DEFINE n == IF http.sink = "frame" THEN FrameFailed(m, http.answer, http.fed = 2, err)
                ELSE EnterBackoff([m EXCEPT !.active = FALSE])
           wedged == http.sink = "frame" /\ n.timeouts >= WEDGE_TIMEOUTS /\ wifi /\ wedges < WEDGE_REBOOT_LIMIT
<1>0. w \in Memory /\ http \in Requests /\ http.answer \in Answers /\ Outside
    BY Unasked, OutsideTyped DEF KInv, TypeOK, Requests
<1>1. Sound(n) /\ OwnScreens(m, n) /\ n.active = FALSE /\ n.decoding = FALSE /\ n.cfg = m.cfg
  <2>1. CASE http.sink = "frame"
    <3> DEFINE f == FrameFailed(m, http.answer, http.fed = 2, err)
    <3>1. Sound(f) /\ OwnScreens(m, f) /\ f.active = FALSE /\ f.decoding = FALSE /\ f.cfg = m.cfg
      <4> DEFINE ans == http.answer
                 whole == http.fed = 2
      <4>1. ans \in Answers
          BY <1>0
      <4> HIDE DEF ans, whole
      <4>2. LET x == FrameFailed(m, ans, whole, err) IN
            Sound(x) /\ OwnScreens(m, x) /\ x.state = m.state /\ x.active = FALSE /\ x.decoding = FALSE /\ x.cfg = m.cfg
          BY <4>1, FrameFailedSound, Zenon
      <4> QED
          BY <4>2, Zenon DEF ans, whole
    <3>2. n = f
        BY <2>1
    <3> HIDE DEF f, n
    <3> QED
        BY <3>1, <3>2
  <2>2. CASE http.sink # "frame"
    <3> DEFINE b == [m EXCEPT !.active = FALSE]
    <3>1. m \in Memory /\ Shown(m)
        BY SteadyMemory
    <3>2. m.decoding = FALSE
        BY <2>2, <3>1 DEF KInv, CallbackInState, Memory
    <3>3. b \in Memory /\ b.active = FALSE /\ b.decoding = FALSE /\ b.state = m.state /\ b.url = m.url
          /\ b.cfg = m.cfg /\ SameScreen(m, b) /\ SameStore(m, b) /\ Shown(b)
        BY <3>1, <3>2 DEF Memory, SameScreen, SameStore, Shown
    <3>4. n = EnterBackoff(b)
        BY <2>2
    <3> HIDE DEF b, n
    <3>5. Sound(b)
        BY <3>3, SoundCarries
    <3>6. Sound(n) /\ Alike(b, n)
        BY <3>4, <3>5, EnterBackoffSound
    <3> QED
        BY <3>3, <3>6 DEF Alike, SameRequest, SameScreen, OwnScreens
  <2> QED
      BY <2>1, <2>2
<1>2. \/ Reset(n, saved) /\ wedges' = wedges + 1 /\ wedges < WEDGE_REBOOT_LIMIT
      \/ w' = n /\ http' = Idle /\ UNCHANGED <<saved, wifi, wedges>>
    BY Zenon DEF Failed
<1> HIDE DEF n
<1>3. CASE Reset(n, saved) /\ wedges' = wedges + 1 /\ wedges < WEDGE_REBOOT_LIMIT
  <2>1. n.set \in SetIds /\ saved \in Configs
      BY <1>1, Unasked, SteadyMemory DEF Memory
  <2>2. w' = Boot(saved, n.set) /\ saved' = saved /\ http' = Idle /\ wifi' = FALSE
      BY <1>3 DEF Reset
  <2>3. Sound(w') /\ w'.active = FALSE /\ w'.decoding = FALSE /\ w'.state = "boot" /\ w'.cfg = saved
      BY <2>1, <2>2, BootSound
  <2>4. Outside'
    <3>1. wedges' \in 0 .. WEDGE_REBOOT_LIMIT
        BY <1>0, <1>3 DEF Outside
    <3>2. sv' \in [set : Sets, rev : 1 .. MaxRev, knows : BOOLEAN] /\ wifi' \in BOOLEAN
        BY <1>0, <2>2 DEF Outside
    <3> QED
        BY <3>1, <3>2 DEF Outside
  <2>5. KInv'
      BY <2>1, <2>2, <2>3, <2>4, StepEndsRequest
  <2> QED
      BY <2>3, <2>5 DEF Draws
<1>4. CASE w' = n /\ http' = Idle /\ UNCHANGED <<saved, wifi, wedges>>
  <2>1. Outside'
      BY <1>0, <1>4 DEF Outside
  <2>2. KInv'
      BY <1>1, <1>4, <2>1, Unasked, StepEndsRequest
  <2> QED
      BY <1>1, <1>4, <2>2 DEF Draws, OwnScreens
<1> QED
    BY <1>2, <1>3, <1>4

LEMMA CutStep == ASSUME KInv, Timeout \/ ConnLost \/ Redirect PROVE KInv' /\ Draws
<1>1. faults' \in 0 .. MaxFaults /\ sv' = sv
    BY OutsideTyped, FaultTyped DEF Timeout, ConnLost, Redirect
<1>2. \E err \in {"timeout", "closed", "url"} : Failed(err, w)
    BY DEF Timeout, ConnLost, Redirect
<1> QED
    BY <1>1, <1>2, Unasked, FailedStep

LEMMA DeliverStep == ASSUME KInv, Deliver PROVE KInv' /\ Draws
<1> DEFINE a == http.answer
           tail == http.fed = 1
           refused == w.decoding /\ FeedFails(w, a, tail)
<1>0. /\ w \in Memory /\ http \in Requests /\ Outside /\ faults' \in 0 .. MaxFaults /\ sv' = sv
      /\ http.phase = "body" /\ http.sink = "frame" /\ http.answer.status = 200 /\ http.fed < 2
    BY Unasked, OutsideTyped, NoFaultTyped DEF KInv, TypeOK, Deliver
<1>1. w.decoding
    BY <1>0 DEF KInv, Streams
<1>2. \/ Failed("aborted", [w EXCEPT !.decoding = FALSE])
      \/ /\ ~refused /\ (w' = DefsBegin(w) \/ w' = w)
         /\ http' = [http EXCEPT !.fed = @ + 1]
         /\ UNCHANGED <<saved, wifi, wedges>>
    BY Zenon DEF Deliver
<1>3. CASE Failed("aborted", [w EXCEPT !.decoding = FALSE])
  <2> DEFINE m == [w EXCEPT !.decoding = FALSE]
  <2>1. /\ m \in Memory /\ m.decoding = FALSE /\ m.state = w.state /\ m.url = w.url /\ m.cfg = w.cfg
        /\ m.screen = w.screen /\ SameScreen(w, m) /\ SameStore(w, m) /\ Shown(m)
      BY <1>0, Unasked, SteadyMemory DEF Memory, SameScreen, SameStore, Shown
  <2>2. Failed("aborted", m)
      BY <1>3
  <2> HIDE DEF m
  <2>3. Sound(m)
      BY <2>1, Unasked, SoundCarries
  <2> QED
      BY <1>0, <2>1, <2>2, <2>3, FailedStep
<1>4. CASE /\ ~refused /\ (w' = DefsBegin(w) \/ w' = w)
           /\ http' = [http EXCEPT !.fed = @ + 1]
           /\ UNCHANGED <<saved, wifi, wedges>>
  <2>1. w.dec.doc # "builtin"
      BY <1>1, <1>4 DEF FeedFails
  <2>2. Sound(w') /\ SameRequest(w, w') /\ w'.cfg = w.cfg /\ w'.screen = w.screen
    <3>1. CASE w' = DefsBegin(w)
        BY <1>1, <2>1, <3>1, Unasked, DefsBeginSound
    <3>2. CASE w' = w
        BY <3>2, Unasked DEF SameRequest
    <3> QED
        BY <1>4, <3>1, <3>2
  <2>3. /\ http' \in Requests /\ http'.phase = http.phase /\ http'.sink = http.sink /\ http'.url = http.url
        /\ http'.answer = http.answer
      BY <1>0, <1>4 DEF Requests
  <2>4. Outside'
      BY <1>0, <1>4 DEF Outside
  <2>5. TypeOK'
      BY <1>4, <2>2, <2>3, <2>4, Unasked DEF TypeOK, Outside, Sound, Steady
  <2>6. CallbackInState' /\ PairingDurable' /\ (Streams' => w'.decoding)
      BY <1>1, <1>4, <2>2, <2>3, Unasked DEF KInv, CallbackInState, PairingDurable, SameRequest, Streams
  <2>7. Follows(http'.answer) /\ (http'.sink = "reg" => http'.url.kind = "register" /\ http'.answer.next = NoUrl)
      BY <2>3 DEF KInv
  <2>8. KInv'
      BY <2>2, <2>5, <2>6, <2>7 DEF KInv
  <2> QED
      BY <2>2, <2>8 DEF Draws
<1> QED
    BY <1>2, <1>3, <1>4

LEMMA CompleteStep == ASSUME KInv, Complete PROVE KInv' /\ Draws
<1> DEFINE a == http.answer
<1>0. /\ w \in Memory /\ http \in Requests /\ a \in Answers /\ Outside /\ faults' \in 0 .. MaxFaults /\ sv' = sv
      /\ wifi' = wifi /\ http.phase = "body" /\ http' = Idle /\ wedges' \in 0 .. WEDGE_REBOOT_LIMIT
      /\ http.sink = "frame" /\ a.status = 200 => http.fed = 2
      /\ SavedWith(w, w')
    BY Unasked, OutsideTyped, NoFaultTyped DEF KInv, TypeOK, Complete, Requests, Outside
<1>1. /\ Sound(w') /\ w'.active = FALSE /\ w'.decoding = FALSE
      /\ OwnScreens(w, w') \/ (http.sink = "frame" /\ Drawn(w', a))
  <2>1. CASE http.sink = "frame"
    <3>1. w' = FrameComplete(w, a)
        BY <2>1 DEF Complete
    <3>2. w.decoding <=> a.status = 200
        BY <1>0, <2>1 DEF KInv, CallbackInState, Streams, Memory
    <3>3. Follows(a)
        BY DEF KInv
    <3> DEFINE n == FrameComplete(w, a)
    <3>4. /\ Sound(n) /\ n.active = FALSE /\ n.decoding = FALSE
          /\ OwnScreens(w, n) \/ Drawn(n, a)
      <4>1. Sound(w) /\ a \in Answers
          BY <1>0, Unasked
      <4> QED
          BY <3>2, <3>3, <4>1, FrameCompleteSound
    <3> HIDE DEF n
    <3> QED
        BY <2>1, <3>1, <3>4 DEF n
  <2>2. CASE http.sink # "frame"
    <3>1. w' = RegComplete(w, a)
        BY <2>2 DEF Complete
    <3>2. w.decoding = FALSE /\ a.next = NoUrl
        BY <1>0, <2>2 DEF KInv, CallbackInState, Memory, Requests
    <3> DEFINE n == RegComplete(w, a)
    <3>3. Sound(n) /\ n.active = FALSE /\ n.decoding = w.decoding /\ n.screen = w.screen
        BY <3>2, Unasked, RegCompleteSound
    <3> HIDE DEF n
    <3> QED
        BY <3>1, <3>2, <3>3 DEF OwnScreens, n
  <2> QED
      BY <2>1, <2>2
<1>2. saved' \in Configs /\ w'.cfg.token = saved'.token
    BY <1>0, <1>1, Unasked, SteadyMemory DEF SavedWith, Memory
<1>3. Outside'
    BY <1>0 DEF Outside
<1>4. KInv'
    BY <1>0, <1>1, <1>2, <1>3, StepEndsRequest
<1>5. Draws
    BY <1>0, <1>1 DEF Draws, OwnScreens, Drawn
<1> QED
    BY <1>4, <1>5

-----------------------------------------------------------------------------
(* Around the kiosk. *)

LEMMA PowerCycleStep == ASSUME KInv, PowerCycle PROVE KInv' /\ Draws
<1>1. PICK tls \in BOOLEAN : Reset(w, [saved EXCEPT !.base = tls])
    BY Unasked DEF PowerCycle, Configs
<1>2. w.set \in SetIds /\ [saved EXCEPT !.base = tls] \in Configs
    BY Unasked DEF Memory, Configs
<1> DEFINE c == [saved EXCEPT !.base = tls]
<1>3. w' = Boot(c, w.set) /\ saved' = c /\ http' = Idle /\ wifi' = FALSE
    BY <1>1 DEF Reset
<1> HIDE DEF c
<1>4. Sound(w') /\ w'.active = FALSE /\ w'.decoding = FALSE /\ w'.state = "boot" /\ w'.cfg = c /\ c \in Configs
    BY <1>2, <1>3, BootSound DEF c
<1>5. Outside'
  <2>1. faults' \in 0 .. MaxFaults /\ wedges' \in 0 .. WEDGE_REBOOT_LIMIT
      BY OutsideTyped, FaultTyped DEF PowerCycle
  <2>2. sv' \in [set : Sets, rev : 1 .. MaxRev, knows : BOOLEAN] /\ wifi' \in BOOLEAN
      BY <1>3, OutsideTyped DEF PowerCycle, Outside
  <2> QED
      BY <2>1, <2>2 DEF Outside
<1>6. KInv'
    BY <1>3, <1>4, <1>5, StepEndsRequest
<1> QED
    BY <1>4, <1>6 DEF Draws

LEMMA PortalStep == ASSUME KInv, Portal PROVE KInv' /\ Draws
<1>1. PICK d \in {w.cfg, Unregistered(w.cfg)} : Reset(w, [d EXCEPT !.net = TRUE])
    BY DEF Portal
<1>2. d \in Configs
    BY Unasked, Pieces DEF Memory, Configs, SetIds, Unregistered
<1> DEFINE c == [d EXCEPT !.net = TRUE]
<1>3. w.set \in SetIds /\ c \in Configs
    BY <1>2, Unasked DEF Memory, Configs
<1>4. w' = Boot(c, w.set) /\ saved' = c /\ http' = Idle /\ wifi' = FALSE
    BY <1>1 DEF Reset
<1> HIDE DEF c
<1>5. Sound(w') /\ w'.active = FALSE /\ w'.decoding = FALSE /\ w'.state = "boot" /\ w'.cfg = c
    BY <1>3, <1>4, BootSound
<1>6. Outside'
  <2>1. faults' \in 0 .. MaxFaults /\ UNCHANGED <<sv, wedges>>
      BY OutsideTyped, FaultTyped, NoFaultTyped DEF Portal
  <2> QED
      BY <1>4, <2>1, OutsideTyped DEF Outside
<1>7. KInv'
    BY <1>3, <1>4, <1>5, <1>6, StepEndsRequest
<1> QED
    BY <1>5, <1>7 DEF Draws

LEMMA ConsoleRestartStep == ASSUME KInv, ConsoleRestart PROVE KInv' /\ Draws
<1>1. PICK c \in {w.cfg, Unregistered(w.cfg)} : w' = Restart([w EXCEPT !.cfg = c]) /\ saved' = c
    BY DEF ConsoleRestart
<1>2. c \in Configs
    BY Unasked, Pieces DEF Memory, Configs, SetIds, Unregistered
<1>3. Sound(w') /\ w'.active = FALSE /\ w'.decoding = FALSE /\ w'.cfg = c /\ w'.screen = w.screen
    BY <1>1, <1>2, Unasked, RestartSound
<1>4. Outside'
    BY OutsideTyped, FaultTyped DEF ConsoleRestart, Outside
<1>5. KInv'
    BY <1>1, <1>2, <1>3, <1>4, StepEndsRequest DEF ConsoleRestart
<1> QED
    BY <1>3, <1>5 DEF Draws

LEMMA ConsoleScreenStep == ASSUME KInv, ConsoleScreen PROVE KInv' /\ Draws
<1> DEFINE b == ShowBuiltin(w)
<1>1. Steady(b) /\ b.screen = Builtin /\ SameRequest(w, b) /\ b.url = w.url /\ b.cfg = w.cfg
    BY Unasked, ShowBuiltinSteady
<1>2. w' = [b EXCEPT !.tested = TRUE]
    BY DEF ConsoleScreen
<1> HIDE DEF b
<1>3. b \in Memory
    BY <1>1 DEF Steady
<1>4. /\ w' \in Memory /\ SameStore(b, w') /\ SameRequest(b, w') /\ w'.url = b.url /\ w'.cfg = b.cfg /\ w'.tested = TRUE
      /\ w'.frame = b.frame /\ w'.screen = b.screen /\ w'.frameValid = b.frameValid
      /\ w'.offline = b.offline /\ w'.version = b.version /\ w'.badge = b.badge
    BY <1>2, <1>3 DEF Memory, SameStore, SameRequest
<1>5. Steady(w')
    BY <1>1, <1>4 DEF Steady, SameStore, SameRequest, BuiltinHeld, NotWhileDecoding, Drawable, Shown, Owned
<1>6. Sound(w')
    BY <1>1, <1>4, <1>5, Unasked DEF Sound, Parked, SameRequest
<1>7. Outside' /\ saved' = saved /\ http' = http
    BY OutsideTyped, FaultTyped DEF ConsoleScreen, Outside
<1>8. KInv'
    BY <1>1, <1>4, <1>6, <1>7, Unasked, StepKeepsRequest DEF SameRequest
<1> QED
    BY <1>1, <1>4, <1>8 DEF Draws

\* Steps that leave the kiosk's memory and its request alone.
LEMMA OtherStep ==
    ASSUME KInv, WifiUp \/ WifiDown \/ SaveConfig \/ NewRevision \/ Forget \/ PollHalt \/ UNCHANGED vars
    PROVE  KInv' /\ Draws
<1>1. w' = w /\ http' = http /\ (saved' = saved \/ saved' = w.cfg)
    BY DEF WifiUp, WifiDown, SaveConfig, NewRevision, Forget, PollHalt, vars
<1>2. Outside'
  <2>1. faults' \in 0 .. MaxFaults
      BY OutsideTyped, FaultTyped, NoFaultTyped
      DEF WifiUp, WifiDown, SaveConfig, NewRevision, Forget, PollHalt, vars, Outside
  <2>2. wifi' \in BOOLEAN /\ wedges' \in 0 .. WEDGE_REBOOT_LIMIT
      BY OutsideTyped DEF WifiUp, WifiDown, SaveConfig, NewRevision, Forget, PollHalt, vars, Outside
  <2>3. sv' \in [set : Sets, rev : 1 .. MaxRev, knows : BOOLEAN]
    <3>1. CASE NewRevision
      <4>1. PICK s \in Sets : sv' = [sv EXCEPT !.rev = @ + 1, !.set = s]
          BY <3>1 DEF NewRevision
      <4>2. sv \in [set : Sets, rev : 1 .. MaxRev, knows : BOOLEAN]
          BY OutsideTyped DEF Outside
      <4>3. sv.rev + 1 \in 1 .. MaxRev
        <5>1. sv.rev < MaxRev
            BY <3>1 DEF NewRevision
        <5>2. sv.rev \in 1 .. MaxRev
            BY <4>2
        <5> QED
            BY <5>1, <5>2
      <4> DEFINE r == sv.rev + 1
      <4>4. sv' = [sv EXCEPT !.rev = r, !.set = s]
          BY <4>1
      <4> HIDE DEF r
      <4> QED
          BY <4>2, <4>3, <4>4 DEF r
    <3>2. CASE Forget
        BY <3>2, OutsideTyped DEF Forget, Outside
    <3>3. CASE sv' = sv
        BY <3>3, OutsideTyped DEF Outside
    <3> QED
        BY <3>1, <3>2, <3>3 DEF WifiUp, WifiDown, SaveConfig, PollHalt, vars
  <2> QED
      BY <2>1, <2>2, <2>3 DEF Outside
<1>3. saved' \in Configs /\ w'.cfg.token = saved'.token
    BY <1>1, Unasked DEF Memory
<1>4. KInv'
    BY <1>1, <1>2, <1>3, Unasked, StepKeepsRequest
<1> QED
    BY <1>1, <1>4 DEF Draws

-----------------------------------------------------------------------------
(* Theorems. *)

LEMMA NextStep == KInv /\ [Next]_vars => KInv' /\ Draws
<1> SUFFICES ASSUME KInv, [Next]_vars PROVE KInv' /\ Draws
    OBVIOUS
<1>1. CASE Kiosk
    BY <1>1, PollBootStep, PollWifiWaitStep, PollRegisterStep, PollPollStep, DeliverStep, CompleteStep, OtherStep DEF Kiosk
<1>2. CASE World
    BY <1>2, ReplyStep, PortalStep, OtherStep DEF World
<1>3. CASE Adverse
    BY <1>3, BadReplyStep, CutStep, PowerCycleStep, ConsoleRestartStep, ConsoleScreenStep, OtherStep DEF Adverse
<1>4. CASE SaveConfig \/ NewRevision \/ UNCHANGED vars
    BY <1>4, OtherStep
<1> QED
    BY <1>1, <1>2, <1>3, <1>4 DEF Next

\* The invariant holds of every state the kiosk can be in.
THEOREM KioskInvariant == Spec => []KInv
<1> QED
    BY InitKInv, NextStep, PTL DEF Spec

\* Type correctness: every handler and callback leaves every field in its range, and a poll has a URL.
THEOREM KioskTypes == Spec => []TypeOK
<1>1. KInv => TypeOK
    BY DEF KInv
<1> QED
    BY <1>1, KioskInvariant, PTL

(* A frame that may be drawn again still has its static set in the store (frame_valid, kiosk_loop.c). *)
THEOREM FrameIsDrawable == Spec => []FrameDrawable
<1>1. KInv => FrameDrawable
    BY DEF KInv, Sound, Steady, Drawable, FrameDrawable
<1> QED
    BY <1>1, KioskInvariant, PTL

(* A callback of the HTTP client finds the loop in the state that made the request. *)
THEOREM CallbacksInState == Spec => []CallbackInState
<1>1. KInv => CallbackInState
    BY DEF KInv
<1> QED
    BY <1>1, KioskInvariant, PTL

(* While frame_t can be drawn it is on the screen, with the badge when there is something to say. *)
THEOREM BadgeIsShown == Spec => []BadgeShown
<1>1. KInv => BadgeShown
    BY DEF KInv, Sound, Steady, Shown, BadgeShown
<1> QED
    BY <1>1, KioskInvariant, PTL

(* The kiosk parks only at the revision that is on its screen (resume_url, frame_on_complete). *)
THEOREM ParkedIsSeen == Spec => []ParkedOnSeen
<1>1. KInv => ParkedOnSeen
    BY DEF KInv, Sound, Parked, ParkedOnSeen
<1> QED
    BY <1>1, KioskInvariant, PTL

(* The decoder that believes it has the write session has it, and a set half written is not open. *)
THEOREM SessionIsOwned == Spec => []SessionOwned
<1>1. KInv => SessionOwned
    BY DEF KInv, Sound, Steady, Owned, SessionOwned
<1> QED
    BY <1>1, KioskInvariant, PTL

(* A registration and its loss are in flash as soon as they are in memory (config_save). *)
THEOREM PairingIsDurable == Spec => []PairingDurable
<1>1. KInv => PairingDurable
    BY DEF KInv
<1> QED
    BY <1>1, KioskInvariant, PTL

(* Only the firmware's own pictures and frames decoded whole ever reach the screen. *)
THEOREM NeverDrawsHalf == Spec => NeverHalfDrawn
<1>1. KInv /\ [Next]_vars =>
        [w'.screen # w.screen =>
            \/ w'.screen = Builtin
            \/ w'.state = "boot"
            \/ /\ http.answer.status = 200 /\ http.fed = 2
               /\ w'.screen = Picture(http.answer.s, http.answer.rev)]_vars
    BY NextStep DEF Draws
<1> QED
    BY <1>1, KioskInvariant, PTL DEF Spec, NeverHalfDrawn
=============================================================================
