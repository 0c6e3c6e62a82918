----------------------------- MODULE KioskLoop ------------------------------
(***************************************************************************)
(* The device state machine of src/src/pico/kiosk_loop.c together with     *)
(* what its handlers call: the life cycle of the frame decoder             *)
(* (frame_decoder_init/feed/finish in frame.c), the write session of the   *)
(* geometry store (geom_flash.c) and the saved configuration.  Around it:  *)
(* the HTTP client as its callbacks show it, the radio link, power, and a  *)
(* kiosk server that sends new revisions and new static sets.              *)
(*                                                                         *)
(* The main loop is single threaded; an action is one call that it makes   *)
(* (one callback of http_poll, one kiosk_loop_poll, one console command).  *)
(* The handlers are written as functions from the kiosk's memory to the    *)
(* kiosk's memory so that a handler that calls another one reads as such.  *)
(* Times are not modelled: every delay is finite, so a request may start   *)
(* whenever none is active.                                                *)
(***************************************************************************)
EXTENDS Integers, FiniteSets

CONSTANTS
    Sets,             \* ids of static sets
    NoSet,            \* no static id
    MaxRev,           \* bound: revisions the server publishes
    Faults,           \* which of the adverse events below may happen
    MaxFaults,        \* bound: how many of them
    OFFLINE_AFTER_FAILURES,
    CONFIG_404S,      \* 404s from /config before the kiosk registers again
    WEDGE_TIMEOUTS,
    WEDGE_REBOOT_LIMIT

ASSUME BoundsAssumption == MaxRev \in Nat \ {0} /\ MaxFaults \in Nat
ASSUME LimitsAssumption ==
    /\ OFFLINE_AFTER_FAILURES \in Nat \ {0} /\ CONFIG_404S \in Nat \ {0}
    /\ WEDGE_TIMEOUTS \in Nat \ {0} /\ WEDGE_REBOOT_LIMIT \in Nat
ASSUME NoSetAssumption == NoSet \notin Sets

VARIABLES
    w,        \* the kiosk's memory: see Memory
    saved,    \* the configuration in flash
    http,     \* the request the HTTP client is busy with
    wifi,     \* the station link is up
    sv,       \* the server: current set and revision, whether it knows the kiosk's token
    wedges,   \* watchdog scratch 0: resets by wedge_check since something last answered
    faults    \* adverse events so far

vars == <<w, saved, http, wifi, sv, wedges, faults>>

-----------------------------------------------------------------------------
(***************************************************************************)
(* URLs.  A frame URL carries the static set the kiosk is assumed to have  *)
(* (s=) and the revision it shows (rev=).  rev=0 asks for the current      *)
(* frame at once.                                                          *)
(***************************************************************************)
NoRev == -1
Revs == 0 .. MaxRev
NoUrl == [kind |-> "none", s |-> NoSet, rev |-> NoRev]
ConfigUrl == [kind |-> "config", s |-> NoSet, rev |-> NoRev]
RegisterUrl == [kind |-> "register", s |-> NoSet, rev |-> NoRev]
FrameUrl(s, r) == [kind |-> "frame", s |-> s, rev |-> r]
\* https without TLS in the build, or text that does not parse as a URL.
BadUrl == [kind |-> "bad", s |-> NoSet, rev |-> NoRev]

StripRev(u) == [u EXCEPT !.rev = NoRev]

\* What is drawn: nothing yet, one of the firmware's own screens, or a frame of the server.
Black == [kind |-> "black", s |-> NoSet, rev |-> NoRev]
Builtin == [kind |-> "builtin", s |-> NoSet, rev |-> NoRev]
Picture(s, r) == [kind |-> "frame", s |-> s, rev |-> r]

(***************************************************************************)
(* The decoder: which document it is fed, how far it is, whether it opened *)
(* a write session (geom_begun, geom_ok).                                  *)
(***************************************************************************)
FreshDecoder == [doc |-> "server", begun |-> FALSE, ok |-> FALSE]
DoneBuiltin == [doc |-> "builtin", begun |-> FALSE, ok |-> FALSE]

\* net: a network is stored; base: this build can fetch the server's URLs (no https without TLS).
NoConfig == [net |-> FALSE, base |-> TRUE, token |-> FALSE, url |-> NoUrl, sid |-> NoSet]
Unregistered(c) == [c EXCEPT !.token = FALSE, !.url = NoUrl, !.sid = NoSet]
Fetchable(m, u) == u.kind # "bad" /\ (u.kind \in {"config", "register"} => m.cfg.base)

\* Memory after a reset, with configuration c and static set f in flash (kiosk_loop_init).
Boot(c, f) ==
    [state |-> "boot", url |-> NoUrl, active |-> FALSE, decoding |-> FALSE,
     failures |-> 0, timeouts |-> 0, frameValid |-> FALSE, offline |-> FALSE, version |-> FALSE,
     netWaiting |-> FALSE, ap |-> FALSE, config404s |-> 0, cfg |-> c,
     dec |-> DoneBuiltin, frame |-> Black, screen |-> Black, badge |-> FALSE,
     tested |-> FALSE, writing |-> FALSE, open |-> c.sid # NoSet /\ c.sid = f, set |-> f]

-----------------------------------------------------------------------------
(***************************************************************************)
(* Handlers.                                                               *)
(***************************************************************************)
RenderNow(m) == [m EXCEPT !.screen = m.frame, !.badge = m.offline \/ m.version]

\* kiosk_show_builtin re-initialises the decoder, whatever it was in the middle of.
ShowBuiltin(m) == RenderNow([m EXCEPT !.dec = DoneBuiltin, !.frame = Builtin, !.frameValid = TRUE])

CapAt(n, max) == IF n > max THEN max ELSE n

\* Mutant: the badge waits for the next frame.
EnterBackoffSilent(m) ==
    LET n == [m EXCEPT !.failures = CapAt(m.failures + 1, OFFLINE_AFTER_FAILURES)] IN
    IF n.failures >= OFFLINE_AFTER_FAILURES /\ n.frameValid THEN [n EXCEPT !.offline = TRUE] ELSE n

EnterBackoff(m) ==
    LET n == [m EXCEPT !.failures = CapAt(m.failures + 1, OFFLINE_AFTER_FAILURES)] IN
    IF n.failures >= OFFLINE_AFTER_FAILURES /\ ~n.offline /\ n.frameValid
    THEN RenderNow([n EXCEPT !.offline = TRUE]) ELSE n

ResumeUrl(m) ==
    LET u == IF m.cfg.url # NoUrl THEN m.cfg.url ELSE m.url IN
    [m EXCEPT !.url = IF u # NoUrl /\ (u.s = NoSet \/ m.open) THEN [u EXCEPT !.rev = 0] ELSE ConfigUrl]

PersistNextUrl(m, u, s) ==
    IF StripRev(u) = StripRev(m.cfg.url) /\ s = m.cfg.sid THEN m
    ELSE [m EXCEPT !.cfg.url = u, !.cfg.sid = s]

\* Mutant: resumes at the revision that was saved.
StartPollStateAtRev(m) ==
    [m EXCEPT !.url = IF m.cfg.url # NoUrl /\ m.open THEN m.cfg.url ELSE ConfigUrl, !.state = "poll"]

StartPollState(m) ==
    [ResumeUrl([m EXCEPT !.url = NoUrl]) EXCEPT !.state = "poll"]

\* The answer to a request: form tells what is wrong with a 200 body, if anything.
Answer(st, s, r, d, n, f) ==
    [status |-> st, s |-> s, rev |-> r, defs |-> d, next |-> n, form |-> f]
NoAnswer == Answer(0, NoSet, NoRev, FALSE, NoUrl, "ok")

\* Mutant: frame_valid survives the start of the next frame.
FrameOnStatusKeepsValid(m, a) ==
    IF a.status = 200 THEN [m EXCEPT !.decoding = TRUE, !.dec = FreshDecoder, !.frame = Black]
    ELSE [m EXCEPT !.decoding = FALSE]

FrameOnStatus(m, a) ==
    IF a.status = 200
    THEN [m EXCEPT !.decoding = TRUE, !.dec = FreshDecoder, !.frame = Black, !.frameValid = FALSE]
    ELSE [m EXCEPT !.decoding = FALSE]

\* Mutant: the old set stays open while the new one is written.
DefsBeginLeavesOpen(m) ==
    IF m.writing THEN [m EXCEPT !.dec.begun = TRUE, !.dec.ok = FALSE]
    ELSE [m EXCEPT !.dec.begun = TRUE, !.dec.ok = TRUE, !.writing = TRUE]

\* The head of the body: up to the start of the static definitions, if it has them.
DefsBegin(m) ==
    IF m.writing THEN [m EXCEPT !.dec.begun = TRUE, !.dec.ok = FALSE]
    ELSE [m EXCEPT !.dec.begun = TRUE, !.dec.ok = TRUE, !.writing = TRUE, !.open = FALSE, !.set = NoSet]

\* A decoder that is done takes no more text.
FeedFails(m, a, tail) == m.dec.doc = "builtin" \/ (tail /\ a.form = "badjson")

\* Mutant: any open set will do.
SetReadyAny(m, s) == s = NoSet \/ m.open

SetReady(m, s) == s = NoSet \/ (m.open /\ m.set = s)

(***************************************************************************)
(* frame_decoder_finish: the status, and what happens to a write session.  *)
(* whole: the document arrived completely.                                 *)
(***************************************************************************)
Finish(m, a, whole) ==
    LET aborted == IF m.dec.begun /\ m.dec.ok THEN [m EXCEPT !.writing = FALSE] ELSE m
        committed == [m EXCEPT !.writing = FALSE, !.open = TRUE, !.set = a.s]
        static(n) == IF ~SetReady(n, a.s) THEN "static_missing"
                     ELSE IF a.form = "toomany" THEN "too_many_ops" ELSE "ok"
    IN
    IF m.dec.doc = "builtin" THEN [st |-> "ok", m |-> m]
    ELSE IF ~whole \/ a.form = "short" THEN [st |-> "json", m |-> aborted]
    ELSE IF a.form = "version" THEN [st |-> "version", m |-> aborted]
    ELSE IF ~m.dec.begun THEN [st |-> static(m), m |-> [m EXCEPT !.frame = Picture(a.s, a.rev)]]
    ELSE IF ~m.dec.ok \/ a.s = NoSet THEN [st |-> "static_store", m |-> aborted]
    ELSE [st |-> static(committed), m |-> [committed EXCEPT !.frame = Picture(a.s, a.rev)]]

\* The end of a request that got no complete answer.
FrameFailed(m, a, whole, err) ==
    LET stopped == [m EXCEPT !.active = FALSE, !.timeouts =
                       IF err = "timeout" THEN CapAt(m.timeouts + 1, WEDGE_TIMEOUTS) ELSE 0]
        closed == IF m.decoding THEN [Finish(stopped, a, whole).m EXCEPT !.decoding = FALSE] ELSE stopped
        backed == EnterBackoff(closed)
    IN IF err # "url" THEN backed
       ELSE IF m.cfg.base THEN [backed EXCEPT !.url = ConfigUrl]
       ELSE ShowBuiltin([backed EXCEPT !.url = ConfigUrl])

\* Any complete answer ends the offline state.
Answered(m) ==
    LET n == [m EXCEPT !.active = FALSE, !.failures = 0, !.timeouts = 0, !.netWaiting = FALSE] IN
    IF ~n.offline THEN n
    ELSE LET up == [n EXCEPT !.offline = FALSE] IN IF up.frameValid THEN RenderNow(up) ELSE up

OnNotFound(m) ==
    IF m.url # ConfigUrl THEN [m EXCEPT !.config404s = 0, !.url = ConfigUrl]
    ELSE IF m.config404s + 1 < CONFIG_404S THEN [m EXCEPT !.config404s = @ + 1]
    ELSE [ShowBuiltin([m EXCEPT !.config404s = 0, !.cfg = Unregistered(m.cfg)]) EXCEPT !.state = "register"]

OnFrame(m, a) ==
    LET d == Finish(m, a, TRUE)
        n == [d.m EXCEPT !.decoding = FALSE]
        next == IF n.frame.kind = "frame" /\ a.next # NoUrl THEN a.next ELSE ConfigUrl
        drawn == RenderNow([n EXCEPT !.frameValid = TRUE, !.version = FALSE, !.tested = FALSE])
    IN
    CASE d.st = "ok" -> PersistNextUrl([drawn EXCEPT !.url = next], next, n.frame.s)
      [] d.st = "static_missing" -> [n EXCEPT !.url = ConfigUrl]
      [] d.st = "version" -> EnterBackoff([n EXCEPT !.version = TRUE])
      [] OTHER -> EnterBackoff(n)

FrameComplete(m, a) ==
    LET n == Answered(m) IN
    CASE a.status = 304 -> n
      [] a.status = 404 -> OnNotFound(n)
      [] a.status = 200 -> OnFrame(n, a)
      [] OTHER -> EnterBackoff(n)

RegComplete(m, a) ==
    LET n == [m EXCEPT !.active = FALSE] IN
    IF a.status # 200 \/ a.form # "ok" THEN EnterBackoff(n)
    ELSE [n EXCEPT !.cfg = [Unregistered(m.cfg) EXCEPT !.token = TRUE], !.failures = 0,
                   !.url = IF a.next # NoUrl THEN a.next ELSE ConfigUrl, !.state = "poll"]

\* A network without a way out: say so, ask for the frame again, offer the setup AP.
Diagnose(m) == [ResumeUrl([ShowBuiltin(m) EXCEPT !.frameValid = FALSE]) EXCEPT !.ap = TRUE]

(***************************************************************************)
(* netcheck_poll.  busy: someone is on the setup portal; ask: the check is *)
(* due; v: the verdict the radio has for us.                               *)
(***************************************************************************)
Netcheck(m, link, busy, ask, v) ==
    LET apDown == IF m.ap /\ m.failures = 0 /\ ~busy THEN [m EXCEPT !.ap = FALSE] ELSE m
        asked == IF ask /\ m.failures >= OFFLINE_AFTER_FAILURES /\ link
                 THEN [apDown EXCEPT !.netWaiting = TRUE] ELSE apDown
    IN
    IF ~asked.netWaiting \/ v = "pending" THEN asked
    ELSE IF v = "online" THEN [asked EXCEPT !.netWaiting = FALSE]
    ELSE Diagnose([asked EXCEPT !.netWaiting = FALSE])

\* Mutant: the request is cancelled, request_active forgotten.
RestartKeepsActive(m) ==
    [m EXCEPT !.ap = FALSE, !.netWaiting = FALSE, !.decoding = FALSE, !.failures = 0,
              !.offline = FALSE, !.version = FALSE, !.state = "boot"]

\* kiosk_loop_restart, after a change of configuration or a modem reset.
Restart(m) ==
    [m EXCEPT !.ap = FALSE, !.netWaiting = FALSE, !.active = FALSE, !.decoding = FALSE, !.failures = 0,
              !.offline = FALSE, !.version = FALSE, !.state = "boot"]

-----------------------------------------------------------------------------
(***************************************************************************)
(* The HTTP client between http_get and on_complete.  fed counts the parts *)
(* of a 200 body that were delivered: head, then tail.                     *)
(***************************************************************************)
Idle == [phase |-> "idle", sink |-> "frame", url |-> NoUrl, answer |-> NoAnswer, fed |-> 0]
Sent(sink, u) == [phase |-> "sent", sink |-> sink, url |-> u, answer |-> NoAnswer, fed |-> 0]

Fault(f) == f \in Faults /\ faults < MaxFaults /\ faults' = faults + 1
NoFault == UNCHANGED faults

Init ==
    /\ saved = NoConfig
    /\ w = Boot(NoConfig, NoSet)
    /\ http = Idle
    /\ wifi = FALSE
    /\ sv \in [set : Sets, rev : {1}, knows : {FALSE}]
    /\ wedges = 0
    /\ faults = 0

Reset(n, c) ==
    /\ w' = Boot(c, n.set)
    /\ saved' = c
    /\ http' = Idle
    /\ wifi' = FALSE

\* Mutant: config_mark_dirty instead of config_save.
SavedLater(m, n) == UNCHANGED saved

\* A handler that ends in config_save writes everything at once.
SavedWith(m, n) == saved' = IF n.cfg.token # m.cfg.token THEN n.cfg ELSE saved

\* KS_BOOT: without a stored network, the setup AP and its screen, until the portal saves one.
PollBoot ==
    /\ w.state = "boot"
    /\ w' = IF w.cfg.net THEN [w EXCEPT !.state = "wifi_wait"]
            ELSE [ShowBuiltin(w) EXCEPT !.state = "provision"]
    /\ NoFault /\ UNCHANGED <<saved, http, wifi, sv, wedges>>

(***************************************************************************)
(* KS_WIFI_WAIT: the search draws its screen, raises the setup AP when it  *)
(* has been fruitless for long, and hands over once the link is up.        *)
(***************************************************************************)
PollWifiWait ==
    /\ w.state = "wifi_wait"
    /\ \/ ~wifi /\ \E raise \in {w.ap, TRUE} : w' = ShowBuiltin([w EXCEPT !.ap = raise])
       \/ wifi /\ w' = LET m == [w EXCEPT !.ap = FALSE] IN
                        IF m.cfg.token THEN StartPollState(m)
                        ELSE [ShowBuiltin(m) EXCEPT !.state = "register"]
    /\ NoFault /\ UNCHANGED <<saved, http, wifi, sv, wedges>>

WifiLost(m) == [m EXCEPT !.active = FALSE, !.state = "wifi_wait"]

PollRegister ==
    /\ w.state = "register"
    /\ \/ ~wifi /\ w' = WifiLost(w) /\ http' = Idle /\ NoFault
       \/ wifi /\ w.active /\ UNCHANGED <<w, http>> /\ NoFault
       \/ /\ wifi /\ ~w.active /\ Fetchable(w, RegisterUrl)
          /\ w' = [w EXCEPT !.active = TRUE] /\ http' = Sent("reg", RegisterUrl) /\ NoFault
       \/ /\ wifi /\ ~w.active /\ ~Fetchable(w, RegisterUrl)
          /\ w' = [ShowBuiltin(w) EXCEPT !.state = "halt"] /\ NoFault /\ UNCHANGED http
       \/ wifi /\ ~w.active /\ Fault("nostart") /\ w' = EnterBackoff(w) /\ UNCHANGED http
    /\ UNCHANGED <<saved, wifi, sv, wedges>>

\* http_get refuses the URL: fall back to /config once, then halt on a screen that says why.
BadUrlFallback(m) ==
    IF m.url # ConfigUrl THEN EnterBackoff([m EXCEPT !.url = ConfigUrl])
    ELSE [ShowBuiltin(m) EXCEPT !.state = "halt"]

\* KS_POLL after netcheck_poll left the memory as m.
PollRest(m) ==
    \/ ~wifi /\ m.active /\ w' = WifiLost([m EXCEPT !.decoding = FALSE]) /\ http' = Idle
    \/ ~wifi /\ ~m.active /\ w' = WifiLost(m) /\ UNCHANGED http
    \/ wifi /\ m.active /\ w' = m /\ UNCHANGED http
    \/ wifi /\ ~m.active /\ Fetchable(m, m.url) /\ w' = [m EXCEPT !.active = TRUE] /\ http' = Sent("frame", m.url)
    \/ wifi /\ ~m.active /\ ~Fetchable(m, m.url) /\ w' = BadUrlFallback(m) /\ UNCHANGED http

\* KS_HALT: until someone reboots the kiosk or uses its console.
PollHalt == w.state = "halt" /\ UNCHANGED vars

PollPoll ==
    /\ w.state = "poll"
    /\ \E busy, ask \in BOOLEAN, v \in {"pending", "online", "offline"} :
         LET m == Netcheck(w, wifi, busy, ask, v) IN
         \/ v # "offline" /\ NoFault /\ PollRest(m)
         \/ v = "offline" /\ Fault("netcheck") /\ PollRest(m)
         \/ v = "pending" /\ wifi /\ ~m.active /\ Fault("nostart") /\ w' = EnterBackoff(m) /\ UNCHANGED http
    /\ UNCHANGED <<saved, wifi, sv, wedges>>

-----------------------------------------------------------------------------
(***************************************************************************)
(* The server, and what the client hears of it.                            *)
(***************************************************************************)
NextUrl == FrameUrl(sv.set, sv.rev)
Frame200(withDefs, next, form) == Answer(200, sv.set, sv.rev, withDefs, next, form)

\* What a working server says to u.  (A request for the revision it has is held, then gets a 304.)
GoodAnswer(u) ==
    CASE u.kind = "register" -> Answer(200, NoSet, NoRev, FALSE, NoUrl, "ok")
      [] u.kind # "register" /\ ~sv.knows -> Answer(404, NoSet, NoRev, FALSE, NoUrl, "ok")
      [] u.kind = "frame" /\ u.rev = sv.rev /\ sv.knows -> Answer(304, NoSet, NoRev, FALSE, NoUrl, "ok")
      [] OTHER -> Frame200(u.s # sv.set, NextUrl, "ok")

BadAnswers(u) ==
    IF u.kind = "register"
    THEN {Answer(500, NoSet, NoRev, FALSE, NoUrl, "ok") : x \in Faults \cap {"status500"}}
         \cup {Answer(200, NoSet, NoRev, FALSE, NoUrl, f) : f \in Faults \cap {"short"}}
    ELSE
    {Answer(500, NoSet, NoRev, FALSE, NoUrl, "ok") : x \in Faults \cap {"status500"}}
    \cup {Answer(404, NoSet, NoRev, FALSE, NoUrl, "ok") : x \in Faults \cap {"notfound"}}
    \cup {Frame200(u.s # sv.set, NextUrl, f) : f \in Faults \cap {"badjson", "short", "version", "toomany"}}
    \cup {Frame200(u.s # sv.set, BadUrl, "ok") : x \in Faults \cap {"badnext"}}
    \cup {Frame200(FALSE, NextUrl, "ok") : x \in Faults \cap {"nodefs"}}
    \cup {Answer(200, NoSet, sv.rev, TRUE, NextUrl, "ok") : x \in Faults \cap {"noid"}}

\* on_status of either sink.
Hear(a) ==
    /\ http.phase = "sent"
    /\ http' = [http EXCEPT !.phase = "body", !.answer = a]
    /\ w' = IF http.sink = "frame" THEN FrameOnStatus(w, a) ELSE w
    /\ UNCHANGED <<saved, wifi, wedges>>

Reply ==
    /\ Hear(GoodAnswer(http.url))
    /\ sv' = IF http.url.kind = "register" THEN [sv EXCEPT !.knows = TRUE] ELSE sv
    /\ NoFault

BadReply ==
    /\ http.phase = "sent"
    /\ \E a \in BadAnswers(http.url) : Hear(a)
    /\ faults < MaxFaults /\ faults' = faults + 1
    /\ UNCHANGED sv

\* on_complete with an error, then wedge_check; a reset starts over from flash.
Failed(err, m) ==
    LET n == IF http.sink = "frame" THEN FrameFailed(m, http.answer, http.fed = 2, err)
             ELSE EnterBackoff([m EXCEPT !.active = FALSE])
        wedged == http.sink = "frame" /\ n.timeouts >= WEDGE_TIMEOUTS /\ wifi /\ wedges < WEDGE_REBOOT_LIMIT
    IN IF wedged THEN Reset(n, saved) /\ wedges' = wedges + 1
       ELSE w' = n /\ http' = Idle /\ UNCHANGED <<saved, wifi, wedges>>

\* on_body of a 200 for the frame sink; a part the decoder refuses aborts the request.
Deliver ==
    /\ http.phase = "body" /\ http.sink = "frame" /\ http.answer.status = 200 /\ http.fed < 2
    /\ LET a == http.answer
           tail == http.fed = 1
           refused == w.decoding /\ FeedFails(w, a, tail)
       IN IF refused THEN Failed("aborted", [w EXCEPT !.decoding = FALSE])
          ELSE /\ w' = IF w.decoding /\ ~tail /\ a.defs THEN DefsBegin(w) ELSE w
               /\ http' = [http EXCEPT !.fed = @ + 1]
               /\ UNCHANGED <<saved, wifi, wedges>>
    /\ NoFault /\ UNCHANGED sv

Complete ==
    /\ http.phase = "body"
    /\ http.sink = "frame" /\ http.answer.status = 200 => http.fed = 2
    /\ LET n == IF http.sink = "frame" THEN FrameComplete(w, http.answer) ELSE RegComplete(w, http.answer)
       IN w' = n /\ SavedWith(w, n)
    /\ http' = Idle
    /\ wedges' = IF http.sink = "frame" THEN 0 ELSE wedges
    /\ NoFault /\ UNCHANGED <<wifi, sv>>

\* No byte for too long, the connection lost, a redirect nowhere.
Timeout == http.phase # "idle" /\ Fault("timeout") /\ Failed("timeout", w) /\ UNCHANGED sv
ConnLost == http.phase # "idle" /\ Fault("closed") /\ Failed("closed", w) /\ UNCHANGED sv
Redirect == http.phase = "sent" /\ Fault("redirect") /\ Failed("url", w) /\ UNCHANGED sv

-----------------------------------------------------------------------------
(***************************************************************************)
(* Around the kiosk.                                                       *)
(***************************************************************************)
WifiUp == ~wifi /\ wifi' = TRUE /\ NoFault /\ UNCHANGED <<w, saved, http, sv, wedges>>
WifiDown == wifi /\ wifi' = FALSE /\ Fault("wifi") /\ UNCHANGED <<w, saved, http, sv, wedges>>

\* config_poll, two seconds after config_mark_dirty.
SaveConfig ==
    /\ saved # w.cfg
    /\ saved' = w.cfg
    /\ NoFault /\ UNCHANGED <<w, http, wifi, sv, wedges>>

\* Power fails and comes back; a reflashed build may lack, or have, TLS.
PowerCycle ==
    /\ Fault("power")
    /\ \E tls \in {saved.base} \cup (IF "notls" \in Faults THEN BOOLEAN ELSE {}) :
         Reset(w, [saved EXCEPT !.base = tls])
    /\ wedges' = 0 /\ UNCHANGED sv

\* The portal saves a network, and perhaps another server, and reboots.
Portal ==
    /\ \/ w.state = "provision" /\ NoFault
       \/ w.ap /\ Fault("portal")
    /\ \E c \in {w.cfg, Unregistered(w.cfg)} : Reset(w, [c EXCEPT !.net = TRUE])
    /\ UNCHANGED <<sv, wedges>>

\* The console changes the configuration: wifi and forget, or reset and server, which unregister.
ConsoleRestart ==
    /\ Fault("restart")
    /\ \E c \in {w.cfg, Unregistered(w.cfg)} :
         w' = Restart([w EXCEPT !.cfg = c]) /\ saved' = c
    /\ http' = Idle
    /\ UNCHANGED <<wifi, sv, wedges>>

\* The console draws a test screen.  (tested is history: one was drawn since the last frame.)
ConsoleScreen ==
    /\ Fault("console")
    /\ w' = [ShowBuiltin(w) EXCEPT !.tested = TRUE]
    /\ UNCHANGED <<saved, http, wifi, sv, wedges>>

NewRevision ==
    /\ sv.rev < MaxRev
    /\ \E s \in Sets : /\ s # sv.set => "newset" \in Faults
                       /\ sv' = [sv EXCEPT !.rev = @ + 1, !.set = s]
    /\ NoFault /\ UNCHANGED <<w, saved, http, wifi, wedges>>

\* The server's registry is reset.
Forget ==
    /\ sv.knows /\ Fault("forget")
    /\ sv' = [sv EXCEPT !.knows = FALSE]
    /\ UNCHANGED <<w, saved, http, wifi, wedges>>

Kiosk == PollBoot \/ PollWifiWait \/ PollRegister \/ PollPoll \/ PollHalt \/ Deliver \/ Complete
World == WifiUp \/ Reply \/ Portal
Adverse == \/ BadReply \/ Timeout \/ ConnLost \/ Redirect \/ WifiDown \/ PowerCycle
           \/ ConsoleRestart \/ ConsoleScreen \/ Forget

Next == Kiosk \/ World \/ SaveConfig \/ NewRevision \/ Adverse

Spec == Init /\ [][Next]_vars

(***************************************************************************)
(* Fairness.  The main loop runs for ever, so a pass that would change     *)
(* something is made, and what has arrived is handed to its callback; the  *)
(* station driver joins, someone fills in the setup portal, and the server *)
(* answers whatever it is asked.  Adverse events owe nothing.              *)
(***************************************************************************)
Fairness ==
    /\ WF_vars(PollBoot) /\ WF_vars(PollWifiWait)
    /\ WF_vars(PollRegister /\ NoFault) /\ WF_vars(PollPoll /\ NoFault)
    /\ WF_vars(Deliver) /\ WF_vars(Complete)
    /\ WF_vars(WifiUp) /\ WF_vars(Reply) /\ WF_vars(Portal /\ NoFault)

FairSpec == Spec /\ Fairness

-----------------------------------------------------------------------------
SetIds == Sets \cup {NoSet}
Urls == {NoUrl} \cup [kind : {"config", "register", "frame", "bad"}, s : SetIds, rev : Revs \cup {NoRev}]
Pictures == [kind : {"black", "builtin", "frame"}, s : SetIds, rev : Revs \cup {NoRev}]
Configs == [net : BOOLEAN, base : BOOLEAN, token : BOOLEAN, url : Urls, sid : SetIds]
Decoders == [doc : {"server", "builtin"}, begun : BOOLEAN, ok : BOOLEAN]
Answers == [status : {0, 200, 304, 404, 500}, s : SetIds, rev : Revs \cup {NoRev}, defs : BOOLEAN, next : Urls,
            form : {"ok", "badjson", "short", "version", "toomany"}]

Memory ==
    [state : {"boot", "provision", "wifi_wait", "register", "poll", "halt"}, url : Urls,
     active : BOOLEAN, decoding : BOOLEAN, failures : 0 .. OFFLINE_AFTER_FAILURES, timeouts : 0 .. WEDGE_TIMEOUTS,
     frameValid : BOOLEAN, offline : BOOLEAN, version : BOOLEAN, netWaiting : BOOLEAN, ap : BOOLEAN,
     config404s : 0 .. CONFIG_404S - 1, cfg : Configs, dec : Decoders, frame : Pictures, screen : Pictures,
     badge : BOOLEAN, tested : BOOLEAN, writing : BOOLEAN, open : BOOLEAN, set : SetIds]
Requests == [phase : {"idle", "sent", "body"}, sink : {"frame", "reg"}, url : Urls, answer : Answers, fed : 0 .. 2]

(***************************************************************************)
(* Type correctness, including that a poll always has a URL to ask.        *)
(***************************************************************************)
TypeOK ==
    /\ w \in Memory /\ saved \in Configs /\ http \in Requests
    /\ wifi \in BOOLEAN /\ sv \in [set : Sets, rev : 1 .. MaxRev, knows : BOOLEAN]
    /\ wedges \in 0 .. WEDGE_REBOOT_LIMIT /\ faults \in 0 .. MaxFaults
    /\ w.state = "poll" => w.url.kind # "none"

(***************************************************************************)
(* A frame that may be drawn again, for the offline badge, still has the   *)
(* static set it names: the store was neither emptied nor filled with      *)
(* another set since it was decoded (frame_valid guards render_frame_now). *)
(***************************************************************************)
FrameDrawable ==
    w.frameValid /\ w.frame.s # NoSet => w.open /\ w.set = w.frame.s

(***************************************************************************)
(* A callback finds the loop in the state that made the request: no        *)
(* request outlives the state that sent it, request_active mirrors the     *)
(* client, and rsp_decoding is only set while a 200 body streams.          *)
(***************************************************************************)
CallbackInState ==
    /\ w.active <=> http.phase # "idle"
    /\ w.active => w.state = IF http.sink = "reg" THEN "register" ELSE "poll"
    /\ w.decoding => http.phase = "body" /\ http.sink = "frame" /\ http.answer.status = 200

(***************************************************************************)
(* While frame_t can be drawn it is what the screen shows, and the badge   *)
(* is on whenever the kiosk thinks itself offline or shown a version it    *)
(* cannot draw.                                                            *)
(***************************************************************************)
BadgeShown ==
    w.frameValid => w.screen = w.frame /\ (w.offline \/ w.version => w.badge)

(***************************************************************************)
(* The kiosk asks to be parked at a revision only when that revision is on *)
(* the screen: at any other the server would keep a wrong screen up until  *)
(* something changed (the rev=0 of resume_url).  A test screen drawn from  *)
(* the console is the exception the code makes.                            *)
(***************************************************************************)
ParkedOnSeen ==
    w.state = "poll" /\ w.url.kind = "frame" /\ w.url.rev > 0 /\ ~w.tested
        => w.screen.kind = "frame" /\ w.screen.rev = w.url.rev

(***************************************************************************)
(* A decoder that believes it has the store's write session has it, and    *)
(* nothing can be drawn from the half-written set.                         *)
(***************************************************************************)
SessionOwned ==
    /\ w.decoding /\ w.dec.ok => w.writing
    /\ w.writing => ~w.open /\ w.set = NoSet

(***************************************************************************)
(* Whether the kiosk is paired is the same in memory and in flash at every *)
(* moment the power could fail: config_save, not config_mark_dirty, ends a *)
(* registration and its loss.                                              *)
(***************************************************************************)
PairingDurable == w.cfg.token = saved.token

(***************************************************************************)
(* Until the next reset the screen only ever changes to one of the         *)
(* firmware's own pictures or to the frame of an answer whose whole body   *)
(* was just decoded: no failure, cut or badge draws half a frame or brings *)
(* an older one back.                                                      *)
(***************************************************************************)
NeverHalfDrawn ==
    [][w'.screen # w.screen =>
         \/ w'.screen = Builtin
         \/ w'.state = "boot"
         \/ /\ http.answer.status = 200 /\ http.fed = 2
            /\ w'.screen = Picture(http.answer.s, http.answer.rev)]_vars

(***************************************************************************)
(* Once adverse events stop, the screen comes to show the server's current *)
(* frame, without a badge, for good; unless the store's write session was  *)
(* left open by a decoder that was abandoned in the middle of a set, or    *)
(* the loop halted on a server this build cannot fetch, or a test screen   *)
(* of the console is still up.                                             *)
(***************************************************************************)
OnAir == w.screen = Picture(sv.set, sv.rev) /\ ~w.badge /\ w.state = "poll"
Leaked == w.writing /\ ~(w.decoding /\ w.dec.ok)
Recovers == <>[](OnAir \/ Leaked \/ w.tested \/ w.state = "halt")
=============================================================================
