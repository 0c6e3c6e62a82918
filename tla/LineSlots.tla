----------------------------- MODULE LineSlots ------------------------------
(***************************************************************************)
(* The line slots of core 1 (src/src/pico/scanout_hstx.c).                 *)
(*                                                                         *)
(* Two DMA channels take turns at feeding the HSTX one scanline each.  The *)
(* end of a line starts the other channel at once and raises an interrupt, *)
(* which gives the channel that ended the line after the one now shown.    *)
(* The main loop of core 1 builds lines ahead of the beam into slots:      *)
(*                                                                         *)
(*    FREE --build--> READY --interrupt--> POSTED --interrupt--> FREE      *)
(*                                                                         *)
(* and a READY line the beam has passed goes back to FREE.  The interrupt  *)
(* may strike between any two steps of the loop, but for the sweep, which  *)
(* runs with interrupts off.                                               *)
(*                                                                         *)
(* The pace of core 1 is a parameter: one round of the loop sees at most   *)
(* one line end, except that Slack times a frame it may see one more.      *)
(***************************************************************************)
EXTENDS Integers

CONSTANTS
    LINE_SLOTS,  \* lines that can be built ahead of the beam
    VFront,      \* blank scanlines before the vertical sync, ...
    VSync,       \* ... scanlines with it, ...
    VBack,       \* ... blank scanlines after it,
    VActive,     \* and scanlines with pixels
    Slack        \* line times that core 1 may lose in a frame

ASSUME SlotsAssumption == LINE_SLOTS \in Nat \ {0}
ASSUME TimingAssumption ==
    /\ VFront \in Nat \ {0, 1} /\ VSync \in Nat \ {0} /\ VBack \in Nat /\ VActive \in Nat \ {0}
    /\ Slack \in Nat

SlotIds == 0 .. LINE_SLOTS - 1
Channels == {0, 1}
VBlank == VFront + VSync + VBack
VTotal == VBlank + VActive
Scanlines == 0 .. VTotal - 1

Nothing == -1

VARIABLES
    g_state,   \* FREE, READY or POSTED
    g_y,       \* the line a slot was built for
    words,     \* g_words: the line whose pixels a slot has, Nothing while it is written
    g_next,    \* the scanline the next interrupt posts
    g_pong,    \* which channel the next interrupt is about
    g_posted,  \* the slot a channel was given
    feed,      \* what the read address of a channel points at
    pc,        \* where the loop of core 1 is
    seen,      \* its copy of g_next
    want,      \* the line it builds
    slot,      \* the slot it builds it in
    playing,   \* the channel that feeds the HSTX
    raised,    \* the interrupt of the other one is pending
    beam,      \* the scanline on the wire
    lag,       \* line ends seen in this round of the loop
    spent      \* line times lost in this frame

slots == <<g_state, g_y, words>>
dma == <<g_next, g_pong, g_posted, feed>>
loop == <<pc, seen, want, slot>>
wire == <<playing, raised, beam>>
pace == <<lag, spent>>
slotsVars == <<slots, dma, loop, wire, pace>>

Fixed(kind) == [kind |-> kind, slot |-> Nothing]
Line(s) == [kind |-> "line", slot |-> s]
Feeds == {Fixed(kind) : kind \in {"vsync", "blank", "black"}} \cup {Line(s) : s \in SlotIds}

-----------------------------------------------------------------------------
(* scanout_init: both channels are loaded with a blank line. *)

SlotsInit ==
    /\ g_state = [s \in SlotIds |-> "FREE"]
    /\ g_y = [s \in SlotIds |-> 0]
    /\ words = [s \in SlotIds |-> Nothing]
    /\ g_next = 2 /\ g_pong = 0
    /\ g_posted = [c \in Channels |-> Nothing]
    /\ feed = [c \in Channels |-> Fixed("blank")]
    /\ pc = "top" /\ seen = 0 /\ want = Nothing /\ slot = Nothing
    /\ playing = 0 /\ raised = FALSE /\ beam = 0
    /\ lag = 0 /\ spent = 0

Succ(v) == IF v + 1 >= VTotal THEN 0 ELSE v + 1

-----------------------------------------------------------------------------
(***************************************************************************)
(* The hardware.  A line ends and the other channel starts by itself; its  *)
(* interrupt is served before the next one ends.                           *)
(***************************************************************************)
LineEnds ==
    /\ ~raised
    /\ lag = 0 \/ spent < Slack
    /\ playing' = 1 - playing /\ raised' = TRUE /\ beam' = Succ(beam)
    /\ lag' = 1
    /\ spent' = IF beam' = 0 THEN 0 ELSE IF lag = 0 THEN spent ELSE spent + 1
    /\ UNCHANGED <<slots, dma, loop>>

-----------------------------------------------------------------------------
(* dma_irq *)

\* Mutant: the slot given to the other channel is freed, not the one that ended.
FreedOther(c) ==
    IF g_posted[1 - c] = Nothing THEN g_state ELSE [g_state EXCEPT ![g_posted[1 - c]] = "FREE"]

\* The slots' states once the line that channel c was given has been sent.
Freed(c) ==
    IF g_posted[c] = Nothing THEN g_state ELSE [g_state EXCEPT ![g_posted[c]] = "FREE"]

\* Mutant: any built line will do.
IsDueAny(state, s, v) == state[s] = "READY"

IsDue(state, s, v) == state[s] = "READY" /\ g_y[s] = v - VBlank

\* Channel c, with the line it ended already freed, is given scanline g_next.
Post(c) ==
    LET state == Freed(c)
        due == {s \in SlotIds : IsDue(state, s, g_next)}
    IN  \/ /\ g_next < VBlank
           /\ feed' = [feed EXCEPT ![c] = Fixed(IF g_next \in VFront .. VFront + VSync - 1
                                                THEN "vsync" ELSE "blank")]
           /\ g_posted' = [g_posted EXCEPT ![c] = Nothing]
           /\ g_state' = state
        \/ /\ g_next >= VBlank /\ due = {}
           /\ feed' = [feed EXCEPT ![c] = Fixed("black")]
           /\ g_posted' = [g_posted EXCEPT ![c] = Nothing]
           /\ g_state' = state
        \/ /\ g_next >= VBlank
           /\ \E s \in due :
                /\ \A other \in due : s <= other
                /\ feed' = [feed EXCEPT ![c] = Line(s)]
                /\ g_posted' = [g_posted EXCEPT ![c] = s]
                /\ g_state' = [state EXCEPT ![s] = "POSTED"]

Irq ==
    /\ raised
    /\ Post(g_pong)
    /\ g_pong' = 1 - g_pong
    /\ g_next' = Succ(g_next)
    /\ raised' = FALSE
    /\ UNCHANGED <<g_y, words, loop, playing, beam, pace>>

-----------------------------------------------------------------------------
(* core1_main *)

ReadNext ==
    /\ pc = "top"
    /\ seen' = g_next /\ pc' = "sweep"
    /\ UNCHANGED <<slots, dma, want, slot, wire, pace>>

Stale(s) == (g_y[s] + VBlank + VTotal - seen) % VTotal >= LINE_SLOTS

\* Lines built for a scanline the beam has passed are freed, with interrupts off.
Sweep ==
    /\ pc = "sweep"
    /\ g_state' = [s \in SlotIds |-> IF g_state[s] = "READY" /\ Stale(s) THEN "FREE" ELSE g_state[s]]
    /\ pc' = "scan"
    /\ UNCHANGED <<g_y, words, dma, seen, want, slot, wire, pace>>

\* Mutant: a line that a channel was given is taken for missing.
HeldReady(y) == \E s \in SlotIds : g_state[s] = "READY" /\ g_y[s] = y

Held(y) == \E s \in SlotIds : g_state[s] # "FREE" /\ g_y[s] = y

Ahead(a) == (seen + a) % VTotal

\* How far ahead of the beam the lines are that no slot has.
Missing == {a \in 0 .. LINE_SLOTS - 1 : Ahead(a) >= VBlank /\ ~Held(Ahead(a) - VBlank)}

RoundOver == pc' = "top" /\ lag' = 0 /\ seen' = 0

\* Everything ahead of the beam is built.
AllBuilt ==
    /\ pc = "scan" /\ Missing = {}
    /\ RoundOver
    /\ UNCHANGED <<slots, dma, want, slot, wire, spent>>

Scan ==
    /\ pc = "scan"
    /\ \E a \in Missing :
         /\ \A other \in Missing : a <= other
         /\ want' = Ahead(a) - VBlank
    /\ pc' = "pick"
    /\ UNCHANGED <<slots, dma, seen, slot, wire, pace>>

Free == {s \in SlotIds : g_state[s] = "FREE"}

NoSlot ==
    /\ pc = "pick" /\ Free = {}
    /\ want' = Nothing
    /\ RoundOver
    /\ UNCHANGED <<slots, dma, slot, wire, spent>>

\* build_line starts to write the slot, ...
Pick ==
    /\ pc = "pick"
    /\ \E s \in Free :
         /\ \A other \in Free : s <= other
         /\ slot' = s
         /\ words' = [words EXCEPT ![s] = Nothing]
    /\ pc' = "build"
    /\ UNCHANGED <<g_state, g_y, dma, seen, want, wire, pace>>

\* ... and makes it READY last.
Built ==
    /\ pc = "build"
    /\ words' = [words EXCEPT ![slot] = want]
    /\ g_y' = [g_y EXCEPT ![slot] = want]
    /\ g_state' = [g_state EXCEPT ![slot] = "READY"]
    /\ want' = Nothing /\ slot' = Nothing
    /\ RoundOver
    /\ UNCHANGED <<dma, wire, spent>>

Core1 == ReadNext \/ Sweep \/ AllBuilt \/ Scan \/ NoSlot \/ Pick \/ Built

SlotsNext == LineEnds \/ Irq \/ Core1

SlotsSpec == SlotsInit /\ [][SlotsNext]_slotsVars

-----------------------------------------------------------------------------
SlotsTypeOK ==
    /\ g_state \in [SlotIds -> {"FREE", "READY", "POSTED"}]
    /\ g_y \in [SlotIds -> 0 .. VActive - 1]
    /\ words \in [SlotIds -> {Nothing} \cup 0 .. VActive - 1]
    /\ g_next \in Scanlines /\ g_pong \in Channels
    /\ g_posted \in [Channels -> {Nothing} \cup SlotIds]
    /\ feed \in [Channels -> Feeds]
    /\ pc \in {"top", "sweep", "scan", "pick", "build"} /\ seen \in Scanlines
    /\ want \in {Nothing} \cup 0 .. VActive - 1 /\ slot \in {Nothing} \cup SlotIds
    /\ playing \in Channels /\ raised \in BOOLEAN /\ beam \in Scanlines
    /\ lag \in {0, 1} /\ spent \in 0 .. Slack

\* What channel c sends if it is due at scanline v: the sync, a blank line, line v or black.
Suits(c, v) ==
    CASE feed[c].kind = "vsync" -> v \in VFront .. VFront + VSync - 1
      [] feed[c].kind = "blank" -> v < VBlank /\ v \notin VFront .. VFront + VSync - 1
      [] feed[c].kind = "black" -> v >= VBlank
      [] OTHER -> v >= VBlank /\ words[feed[c].slot] = v - VBlank

(***************************************************************************)
(* The beam never shows another line than its own, nor one that is being   *)
(* built: what the playing channel sends, and what the other one has been  *)
(* given to send next, is the line due there, whole, or black.             *)
(***************************************************************************)
BeamShowsItsLine ==
    /\ Suits(playing, beam)
    /\ ~raised => Suits(1 - playing, Succ(beam))

(***************************************************************************)
(* No slot is lost between the interrupt and the loop: a slot is POSTED    *)
(* exactly while one channel sends it, and the one being built is FREE.    *)
(***************************************************************************)
SlotsHeld ==
    /\ \A s \in SlotIds : g_state[s] = "POSTED" <=> \E c \in Channels : feed[c] = Line(s)
    /\ feed[0] # feed[1] \/ feed[0].kind # "line"
    /\ pc = "build" => g_state[slot] = "FREE"

(***************************************************************************)
(* A core 1 that loses no more than Slack line times in a frame is never   *)
(* late: no line is sent black because it was not built in time.           *)
(***************************************************************************)
OnTime == \A c \in Channels : feed[c].kind # "black"
=============================================================================
