---------------------------- MODULE LinkFraming -----------------------------
(***************************************************************************)
(* Framing on the UART between the kiosk and its modem, from the kiosk to  *)
(* the modem: the transmit ring and its DMA (src/src/pico/modem_link.c),   *)
(* the wire, and the parser of the modem's receive task                    *)
(* (src/modem/main/link.c, the same machine as parse_byte).                *)
(*                                                                         *)
(*    frame == A5 5A | head: type, length | payload | CRC                  *)
(*                                                                         *)
(* Bytes are symbols: a head is two of them, a CRC one.  The CRC is ideal: *)
(* it fits the head and payload it was computed from and no others.  What  *)
(* a symbol reads as where another was expected is any value it could      *)
(* have.  The wire may damage, lose or invent symbols, MaxDamage times,    *)
(* and the modem may restart.                                              *)
(***************************************************************************)
EXTENDS Integers, Sequences, SequencesExt

CONSTANTS
    TX_RING_BYTES,  \* symbols in the transmit ring
    MAX_PAYLOAD,    \* symbols in the longest payload
    Payloads,       \* the payloads sent, sequences over {"A5", "data"}
    MaxFrames,      \* frames sent
    MaxDamage       \* symbols damaged, lost or invented, and restarts

ASSUME PayloadAssumption ==
    /\ MAX_PAYLOAD \in Nat
    /\ \A p \in Payloads : p \in Seq({"A5", "data"}) /\ Len(p) <= MAX_PAYLOAD

HDR_BYTES == 4
CRC_BYTES == 1
FRAME_MAX == HDR_BYTES + MAX_PAYLOAD + CRC_BYTES
ASSUME RingAssumption == TX_RING_BYTES \in Nat /\ TX_RING_BYTES >= FRAME_MAX

VARIABLES
    tx_ring, tx_head, tx_tail, tx_inflight,  \* as in modem_link.c
    moved,    \* symbols of tx_inflight the DMA has moved
    st,       \* the parser's state
    got,      \* the head and payload symbols it has collected
    plen,     \* the length it read
    queued,   \* history: every symbol pushed
    frames,   \* history: frames queued
    delivered, \* history: numbers of the frames the parser delivered
    wire,     \* history: symbols sent
    damage,   \* history: times the wire did harm
    calm,     \* history: symbols received since, up to FRAME_MAX
    owed      \* history: the frame that began to arrive after FRAME_MAX calm symbols

ring == <<tx_ring, tx_head, tx_tail, tx_inflight, moved>>
parser == <<st, got, plen>>
history == <<queued, frames, delivered, wire, damage, calm, owed>>
linkVars == <<ring, parser, history>>

\* v is a frame's number or a length, body what a CRC was computed from.
Symbol(kind, v, body) == [kind |-> kind, v |-> v, body |-> body]
Plain(kind) == Symbol(kind, 0, <<>>)
Noise == Plain("noise")

Covered(n, p) ==
    <<Symbol("type", n, <<>>), Symbol("len", Len(p), <<>>)>> \o [i \in 1 .. Len(p) |-> Plain(p[i])]

\* The symbols of frame number n with payload p: the CRC covers its head and payload.
Encoded(n, p) == <<Plain("A5"), Plain("5A")>> \o Covered(n, p) \o <<Symbol("crc", n, Covered(n, p))>>

LinkInit ==
    /\ tx_ring = [i \in 0 .. TX_RING_BYTES - 1 |-> Noise]
    /\ tx_head = 0 /\ tx_tail = 0 /\ tx_inflight = 0 /\ moved = 0
    /\ st = "sync0" /\ got = <<>> /\ plen = 0
    /\ queued = <<>> /\ frames = 0 /\ delivered = <<>> /\ wire = 0
    /\ damage = 0 /\ calm = FRAME_MAX /\ owed = 0

-----------------------------------------------------------------------------
(* The kiosk's end. *)

Busy == moved < tx_inflight

\* Mutant: a transfer is retired while it is still running.
RetiredEarly == tx_tail + tx_inflight

\* The tail once finished transfers are retired.
Retired == IF Busy THEN tx_tail ELSE tx_tail + tx_inflight

\* The DMA takes one contiguous run.
Run(tail, avail) ==
    LET room == TX_RING_BYTES - (tail % TX_RING_BYTES) IN IF avail < room THEN avail ELSE room

\* tx_kick, with the head at h.
Kick(h) ==
    /\ tx_tail' = Retired
    /\ IF Busy THEN UNCHANGED <<tx_inflight, moved>>
       ELSE tx_inflight' = Run(Retired, h - Retired) /\ moved' = 0

\* modem_link_send2: refused when the whole frame does not fit.
Send ==
    /\ frames < MaxFrames
    /\ \E p \in Payloads :
         LET f == Encoded(frames + 1, p) IN
         /\ TX_RING_BYTES - (tx_head - Retired) >= Len(f)
         /\ tx_ring' = [i \in DOMAIN tx_ring |->
                          IF \E k \in 1 .. Len(f) : (tx_head + k - 1) % TX_RING_BYTES = i
                          THEN f[CHOOSE k \in 1 .. Len(f) : (tx_head + k - 1) % TX_RING_BYTES = i]
                          ELSE tx_ring[i]]
         /\ tx_head' = tx_head + Len(f)
         /\ queued' = queued \o f
    /\ Kick(tx_head')
    /\ frames' = frames + 1
    /\ UNCHANGED <<parser, delivered, wire, damage, calm, owed>>

\* modem_link_poll.
Poll ==
    /\ ~Busy /\ tx_head > tx_tail
    /\ Kick(tx_head)
    /\ UNCHANGED <<tx_ring, tx_head, parser, history>>

-----------------------------------------------------------------------------
(* The modem's parser, one operator a state.  Each says what symbol b may make of it. *)

Parser(s, g, n) == st' = s /\ got' = g /\ plen' = n

MayBe(b, kind) == b.kind = kind \/ b.kind = "noise" \/ (kind = "A5" /\ b.kind \in {"crc", "len"})
Surely(b, kind) == b.kind = kind

OnSync0(b) ==
    \/ MayBe(b, "A5") /\ Parser("sync1", <<>>, 0)
    \/ ~Surely(b, "A5") /\ Parser("sync0", <<>>, 0)

\* Stay armed on the second of two A5.
OnSync1(b) ==
    \/ MayBe(b, "5A") /\ Parser("head", <<>>, 0)
    \/ MayBe(b, "A5") /\ Parser("sync1", <<>>, 0)
    \/ ~Surely(b, "5A") /\ ~Surely(b, "A5") /\ Parser("sync0", <<>>, 0)

\* Mutant: any length is believed.
LengthsAll(b) == IF b.kind = "len" THEN {b.v} ELSE 0 .. 2 * FRAME_MAX

\* The lengths that symbol b may be read as; all that are too long are alike.
Lengths(b) == IF b.kind = "len" THEN {b.v} ELSE 0 .. MAX_PAYLOAD + 1

OnHead(b) ==
    IF Len(got) < 1 THEN Parser("head", Append(got, b), 0)
    ELSE \E n \in Lengths(b) :
           IF n = MAX_PAYLOAD + 1 THEN Parser("sync0", <<>>, 0)
           ELSE Parser(IF n > 0 THEN "payload" ELSE "crc", Append(got, b), n)

OnPayload(b) ==
    LET g == Append(got, b) IN Parser(IF Len(g) < 2 + plen THEN "payload" ELSE "crc", g, plen)

Fits(b) == b.kind = "crc" /\ got = b.body

Parse(b) ==
    \/ st = "sync0" /\ OnSync0(b)
    \/ st = "sync1" /\ OnSync1(b)
    \/ st = "head" /\ OnHead(b)
    \/ st = "payload" /\ OnPayload(b)
    \/ st = "crc" /\ Parser("sync0", <<>>, 0)

Delivers(b) == st = "crc" /\ Fits(b)

-----------------------------------------------------------------------------
(* The wire. *)

Starts(k) == \* the number of the frame whose first symbol is the k-th sent, or 0
    IF k + 2 <= Len(queued) /\ queued[k].kind = "A5" /\ queued[k + 1].kind = "5A" THEN queued[k + 2].v ELSE 0

\* What the DMA reads next: it does not wrap its read address.
OnWire ==
    LET i == (tx_tail % TX_RING_BYTES) + moved IN IF i < TX_RING_BYTES THEN tx_ring[i] ELSE Noise

DmaMoves == Busy /\ moved' = moved + 1 /\ wire' = wire + 1

\* A symbol arrives as it was sent.
Arrives ==
    /\ DmaMoves
    /\ Parse(OnWire)
    /\ delivered' = IF Delivers(OnWire) THEN Append(delivered, OnWire.v) ELSE delivered
    /\ calm' = IF calm < FRAME_MAX THEN calm + 1 ELSE calm
    /\ owed' = IF Starts(wire + 1) > 0 /\ calm >= FRAME_MAX THEN Starts(wire + 1) ELSE owed
    /\ UNCHANGED <<tx_ring, tx_head, tx_tail, tx_inflight, queued, frames, damage>>

\* It arrives as something else, or not at all, ...
Harmed ==
    /\ damage < MaxDamage
    /\ DmaMoves
    /\ Parse(Noise) \/ UNCHANGED parser
    /\ damage' = damage + 1 /\ calm' = 0 /\ owed' = 0
    /\ UNCHANGED <<tx_ring, tx_head, tx_tail, tx_inflight, queued, frames, delivered>>

\* ... or one arrives that nobody sent, or the modem restarts.
Disturbed ==
    /\ damage < MaxDamage
    /\ Parse(Noise) \/ Parser("sync0", <<>>, 0)
    /\ damage' = damage + 1 /\ calm' = 0 /\ owed' = 0
    /\ UNCHANGED <<ring, queued, frames, delivered, wire>>

LinkNext == Send \/ Poll \/ Arrives \/ Harmed \/ Disturbed

LinkSpec == LinkInit /\ [][LinkNext]_linkVars

-----------------------------------------------------------------------------
(***************************************************************************)
(* The ring between the sender and the DMA: what the DMA still has to send *)
(* is what was queued, in that order, across wraps, partial transfers and  *)
(* frames pushed while one is under way: nothing is sent twice, skipped or *)
(* overwritten, and no transfer runs past the end of the ring.             *)
(***************************************************************************)
WireIsQueue ==
    /\ tx_tail + moved = wire /\ tx_head = Len(queued)
    /\ (tx_tail % TX_RING_BYTES) + tx_inflight <= TX_RING_BYTES
    /\ \A k \in wire + 1 .. Len(queued) : tx_ring[(k - 1) % TX_RING_BYTES] = queued[k]

(***************************************************************************)
(* A frame that begins more than the longest frame after the last harm is  *)
(* delivered: a damaged length swallows what follows it, but never longer  *)
(* than that, and the hunt for the next sync cannot miss it.               *)
(***************************************************************************)
LossIsBounded ==
    owed > 0 /\ (wire = Len(queued) \/ Starts(wire + 1) > 0) => Contains(delivered, owed)
=============================================================================
