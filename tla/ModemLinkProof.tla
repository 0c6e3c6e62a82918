--------------------------- MODULE ModemLinkProof ---------------------------
(***************************************************************************)
(* The link to the modem, proved for every value of the constants: its     *)
(* framing (LinkFraming), and HTTP over it (ModemHttp).  The two models    *)
(* share no state: ModemHttp takes from the framing that a frame arrives   *)
(* whole and in order, or not at all.                                      *)
(***************************************************************************)
EXTENDS LinkFraming, ModemHttp, WellFoundedInduction, TLAPS

-----------------------------------------------------------------------------
(***************************************************************************)
(* Framing: the DMA sends what was queued, and damage on the wire costs at *)
(* most the frames that begin within the longest frame of it.              *)
(***************************************************************************)
Kinds == {"A5", "5A", "data", "type", "len", "crc", "noise"}
Flat == [kind : Kinds, v : Nat, body : {<<>>}]
Symbols == Flat \cup [kind : {"crc"}, v : Nat, body : Seq(Flat)]

-----------------------------------------------------------------------------
(***************************************************************************)
(* The invariant: the kiosk's end.                                         *)
(***************************************************************************)
LinkTypes ==
    /\ tx_ring \in [0 .. TX_RING_BYTES - 1 -> Symbols]
    /\ tx_head \in Nat /\ tx_tail \in Nat /\ tx_inflight \in Nat /\ moved \in Nat /\ wire \in Nat
    /\ queued \in Seq(Symbols) /\ frames \in Nat
    /\ calm \in 0 .. FRAME_MAX /\ owed \in Nat /\ delivered \in Seq(Nat)

\* A running transfer is the oldest part of what is queued, and the ring holds the rest.
Transfer ==
    /\ moved <= tx_inflight /\ tx_tail + tx_inflight <= tx_head
    /\ tx_head - tx_tail <= TX_RING_BYTES
    /\ WireIsQueue

-----------------------------------------------------------------------------
(***************************************************************************)
(* What is queued is frame after frame.                                    *)
(***************************************************************************)
Boundary(b) == b = Len(queued) \/ Starts(b + 1) > 0

\* Frame number n with payload p is queued behind the first b symbols.
FrameAt(b, n, p) ==
    /\ b + Len(Encoded(n, p)) <= Len(queued)
    /\ \A j \in 1 .. Len(Encoded(n, p)) : queued[b + j] = Encoded(n, p)[j]
    /\ Boundary(b + Len(Encoded(n, p)))

\* The second half of a sync is found nowhere else.
Framed ==
    /\ Boundary(0)
    /\ \A b \in 0 .. Len(queued) - 1 :
         Starts(b + 1) > 0 => /\ Starts(b + 1) \in 1 .. frames
                             /\ \E p \in Payloads : FrameAt(b, Starts(b + 1), p)
    /\ \A k \in 1 .. Len(queued) : queued[k].kind = "5A" => k > 1 /\ Starts(k - 1) > 0
    /\ \A k \in 1 .. Len(queued) : /\ queued[k].kind = "len" => queued[k].v <= MAX_PAYLOAD
                                  /\ queued[k].kind # "noise"

\* Symbol wire + 1 is in frame n, not its first.
Within(b, n, p) == FrameAt(b, n, p) /\ b < wire /\ wire < b + Len(Encoded(n, p))

Placed ==
    Boundary(wire) \/ \E b \in 0 .. wire, n \in 1 .. frames, p \in Payloads : Within(b, n, p)

-----------------------------------------------------------------------------
(***************************************************************************)
(* The modem's parser: it hunts for a sync, follows the frame that is      *)
(* arriving, or swallows a bounded number of symbols after damage.         *)
(***************************************************************************)
ParserTypes ==
    /\ got \in Seq(Symbols) /\ plen \in 0 .. MAX_PAYLOAD
    /\ \/ st \in {"sync0", "sync1"}
       \/ st = "head" /\ Len(got) <= 1
       \/ st = "payload" /\ 2 <= Len(got) /\ Len(got) < 2 + plen
       \/ st = "crc"

Hunting == st \in {"sync0", "sync1"}

\* Symbols the parser may still take before it hunts again.
Remaining ==
    IF st = "head" THEN 3 - Len(got) + MAX_PAYLOAD
    ELSE IF st = "payload" THEN 3 + plen - Len(got)
    ELSE 1

Swallowing == ~Hunting /\ calm + Remaining <= MAX_PAYLOAD + 3

\* Where the first j symbols of frame n with payload p leave the parser.
Step(j, n, p) ==
    IF j = 1 THEN st = "sync1"
    ELSE /\ Len(got) = j - 2
         /\ \A i \in 1 .. j - 2 : got[i] = Encoded(n, p)[i + 2]
         /\ st = IF j < 4 THEN "head" ELSE IF j < 4 + Len(p) THEN "payload" ELSE "crc"
         /\ j >= 4 => plen = Len(p)

Aligned(b, n, p) == Step(wire - b, n, p)

Following == \E b \in 0 .. wire, n \in 1 .. frames, p \in Payloads : Within(b, n, p) /\ Aligned(b, n, p)

Tracks == Hunting \/ Swallowing \/ Following

\* A frame that is owed is under way and followed, or delivered.
Owes ==
    owed > 0 =>
        /\ calm = FRAME_MAX
        /\ \/ Boundary(wire) /\ Hunting /\ Contains(delivered, owed)
           \/ \E b \in 0 .. wire, p \in Payloads : Within(b, owed, p) /\ Aligned(b, owed, p)

LinkInv == LinkTypes /\ Transfer /\ Framed /\ Placed /\ ParserTypes /\ Tracks /\ Owes

-----------------------------------------------------------------------------
(***************************************************************************)
(* Ring positions: two that are less than a ring apart differ, and a run   *)
(* that does not wrap is contiguous.                                       *)
(***************************************************************************)
LEMMA Multiple ==
    ASSUME NEW N \in Nat \ {0}, NEW q \in Int, q >= 1
    PROVE  N * q >= N
OBVIOUS

LEMMA Divides ==
    ASSUME NEW N \in Nat \ {0}, NEW a \in Nat
    PROVE  /\ a % N \in 0 .. N - 1 /\ a \div N \in Nat
           /\ a = N * (a \div N) + (a % N)
OBVIOUS

LEMMA Remainder ==
    ASSUME NEW N \in Nat \ {0}, NEW q \in Int, NEW d \in Int, d = N * q, -N < d, d < N
    PROVE  q = 0
<1>1. CASE q >= 1
  BY <1>1, Multiple
<1>2. CASE q <= -1
  <2>1. -q \in Int /\ -q >= 1 /\ N * (-q) = -d
    BY <1>2
  <2>2. N * (-q) >= N
    BY <2>1, Multiple
  <2> QED  BY <2>1, <2>2
<1> QED  BY <1>1, <1>2

LEMMA Distinct ==
    ASSUME NEW N \in Nat \ {0}, NEW a \in Nat, NEW b \in Nat, a < b, b < a + N
    PROVE  a % N # b % N
<1> DEFINE qa == a \div N
           qb == b \div N
           ra == a % N
           rb == b % N
<1>1. /\ a = N * qa + ra /\ b = N * qb + rb
      /\ qa \in Int /\ qb \in Int /\ ra \in Int /\ rb \in Int
  BY Divides
<1> HIDE DEF qa, qb, ra, rb
<1>2. SUFFICES ASSUME ra = rb PROVE FALSE
  BY DEF ra, rb
<1> DEFINE q == qb - qa
<1>3. q \in Int /\ b - a = N * q
  BY <1>1, <1>2
<1> HIDE DEF q
<1>4. q = 0
  BY <1>3, Remainder
<1> QED  BY <1>3, <1>4

LEMMA Contiguous ==
    ASSUME NEW N \in Nat \ {0}, NEW a \in Nat, NEW m \in Nat, (a % N) + m < N
    PROVE  (a + m) % N = (a % N) + m
<1>1. SUFFICES ASSUME NEW b \in Nat, b = a + m PROVE b % N = (a % N) + m
  OBVIOUS
<1> DEFINE qa == a \div N
           qc == b \div N
           ra == a % N
           rc == b % N
<1>2. /\ a = N * qa + ra /\ qa \in Int /\ ra \in 0 .. N - 1
      /\ b = N * qc + rc /\ qc \in Int /\ rc \in 0 .. N - 1
  BY Divides
<1>3. ra + m < N
  OBVIOUS
<1> HIDE DEF qa, qc, ra, rc
<1> DEFINE q == qc - qa
           e == ra + m - rc
<1>4. q \in Int /\ e \in Int /\ e = N * q /\ -N < e /\ e < N
  BY <1>1, <1>2, <1>3
<1> HIDE DEF q, e
<1>5. q = 0
  BY <1>4, Remainder
<1>6. rc = ra + m
  BY <1>2, <1>4, <1>5 DEF e
<1> QED  BY <1>6 DEF rc, ra

-----------------------------------------------------------------------------
(***************************************************************************)
(* Frames.                                                                 *)
(***************************************************************************)
LEMMA Joined ==
    ASSUME NEW S, NEW s \in Seq(S), NEW r \in Seq(S)
    PROVE  /\ s \o r \in Seq(S) /\ Len(s \o r) = Len(s) + Len(r)
           /\ Len(s) \in Nat /\ Len(r) \in Nat
           /\ \A i \in 1 .. Len(s) : (s \o r)[i] = s[i]
           /\ \A i \in 1 .. Len(r) : (s \o r)[Len(s) + i] = r[i]
OBVIOUS

LEMMA SymbolIsFlat ==
    ASSUME NEW kind \in Kinds, NEW v \in Nat
    PROVE  Symbol(kind, v, <<>>) \in Flat
BY DEF Symbol, Flat

LEMMA PlainIsFlat ==
    ASSUME NEW kind \in Kinds
    PROVE  Plain(kind) \in Flat
BY SymbolIsFlat DEF Plain

LEMMA PayloadForm ==
    ASSUME NEW p \in Payloads
    PROVE  /\ Len(p) \in Nat /\ Len(p) <= MAX_PAYLOAD
           /\ \A i \in 1 .. Len(p) : p[i] \in {"A5", "data"}
BY PayloadAssumption

LEMMA BodyForm ==
    ASSUME NEW n \in Nat, NEW p \in Payloads
    PROVE  /\ Covered(n, p) \in Seq(Flat) /\ Len(Covered(n, p)) = 2 + Len(p)
           /\ Covered(n, p)[1] = Symbol("type", n, <<>>)
           /\ Covered(n, p)[2] = Symbol("len", Len(p), <<>>)
           /\ \A i \in 3 .. 2 + Len(p) : Covered(n, p)[i] = Plain(p[i - 2])
<1> DEFINE hd == <<Symbol("type", n, <<>>), Symbol("len", Len(p), <<>>)>>
           pl == [i \in 1 .. Len(p) |-> Plain(p[i])]
<1>1. Len(p) \in Nat /\ \A i \in 1 .. Len(p) : p[i] \in {"A5", "data"}
  BY PayloadForm
<1>2. hd \in Seq(Flat) /\ Len(hd) = 2 /\ hd[1] = Symbol("type", n, <<>>) /\ hd[2] = Symbol("len", Len(p), <<>>)
  <2>1. Symbol("type", n, <<>>) \in Flat /\ Symbol("len", Len(p), <<>>) \in Flat
    BY <1>1, SymbolIsFlat DEF Kinds
  <2> QED  BY <2>1
<1>3. pl \in Seq(Flat) /\ Len(pl) = Len(p) /\ \A i \in 1 .. Len(p) : pl[i] = Plain(p[i])
  <2>1. \A i \in 1 .. Len(p) : Plain(p[i]) \in Flat
    BY <1>1, PlainIsFlat DEF Kinds
  <2> QED  BY <1>1, <2>1
<1>4. Covered(n, p) = hd \o pl
  BY DEF Covered
<1> HIDE DEF hd, pl
<1>5. /\ Covered(n, p) \in Seq(Flat) /\ Len(Covered(n, p)) = 2 + Len(p)
      /\ \A i \in 1 .. 2 : Covered(n, p)[i] = hd[i]
      /\ \A i \in 1 .. Len(p) : Covered(n, p)[2 + i] = pl[i]
  <2>1. hd \in Seq(Flat) /\ pl \in Seq(Flat)
    BY <1>2, <1>3
  <2>2. /\ hd \o pl \in Seq(Flat) /\ Len(hd \o pl) = Len(hd) + Len(pl)
        /\ \A i \in 1 .. Len(hd) : (hd \o pl)[i] = hd[i]
        /\ \A i \in 1 .. Len(pl) : (hd \o pl)[Len(hd) + i] = pl[i]
    BY <2>1, Joined
  <2> QED  BY <1>2, <1>3, <1>4, <2>2
<1>6. ASSUME NEW i \in 3 .. 2 + Len(p) PROVE Covered(n, p)[i] = Plain(p[i - 2])
  <2>1. i - 2 \in 1 .. Len(p) /\ 2 + (i - 2) = i
    BY <1>1
  <2>2. Covered(n, p)[2 + (i - 2)] = pl[i - 2]
    BY <1>5, <2>1
  <2> QED  BY <1>3, <2>1, <2>2
<1> QED  BY <1>2, <1>5, <1>6

LEMMA FrameForm ==
    ASSUME NEW n \in Nat, NEW p \in Payloads
    PROVE  /\ Encoded(n, p) \in Seq(Symbols) /\ Len(Encoded(n, p)) = 5 + Len(p)
           /\ Encoded(n, p)[1] = Plain("A5") /\ Encoded(n, p)[2] = Plain("5A")
           /\ \A i \in 1 .. 2 + Len(p) : Encoded(n, p)[i + 2] = Covered(n, p)[i]
           /\ Encoded(n, p)[5 + Len(p)] = Symbol("crc", n, Covered(n, p))
<1> DEFINE sync == <<Plain("A5"), Plain("5A")>>
           body == Covered(n, p)
           end == <<Symbol("crc", n, body)>>
<1>1. Len(p) \in Nat
  BY PayloadForm
<1>2. body \in Seq(Flat) /\ Len(body) = 2 + Len(p)
  BY BodyForm
<1>3. sync \in Seq(Symbols) /\ Len(sync) = 2 /\ sync[1] = Plain("A5") /\ sync[2] = Plain("5A")
  <2>1. Plain("A5") \in Symbols /\ Plain("5A") \in Symbols
    BY PlainIsFlat DEF Kinds, Symbols
  <2> QED  BY <2>1
<1>4. end \in Seq(Symbols) /\ Len(end) = 1 /\ end[1] = Symbol("crc", n, body)
  <2>1. Symbol("crc", n, body) \in Symbols
    BY <1>2 DEF Symbols, Symbol
  <2> QED  BY <2>1
<1>5. body \in Seq(Symbols)
  BY <1>2 DEF Symbols
<1>6. Encoded(n, p) = sync \o body \o end
  BY DEF Encoded
<1> HIDE DEF sync, body, end
<1>7. /\ sync \o body \in Seq(Symbols) /\ Len(sync \o body) = 4 + Len(p)
      /\ \A i \in 1 .. 2 : (sync \o body)[i] = sync[i]
      /\ \A i \in 1 .. 2 + Len(p) : (sync \o body)[2 + i] = body[i]
  <2>1. 2 + (2 + Len(p)) = 4 + Len(p)
    BY <1>1
  <2>2. sync \in Seq(Symbols)
    BY <1>3
  <2>3. /\ sync \o body \in Seq(Symbols) /\ Len(sync \o body) = Len(sync) + Len(body)
        /\ \A i \in 1 .. Len(sync) : (sync \o body)[i] = sync[i]
        /\ \A i \in 1 .. Len(body) : (sync \o body)[Len(sync) + i] = body[i]
    BY <1>5, <2>2, Joined
  <2> QED  BY <1>2, <1>3, <2>1, <2>3
<1>8. /\ Encoded(n, p) \in Seq(Symbols) /\ Len(Encoded(n, p)) = 5 + Len(p)
      /\ \A i \in 1 .. 4 + Len(p) : Encoded(n, p)[i] = (sync \o body)[i]
      /\ Encoded(n, p)[5 + Len(p)] = end[1]
  <2> DEFINE front == sync \o body
  <2>1. front \in Seq(Symbols) /\ Len(front) = 4 + Len(p) /\ Encoded(n, p) = front \o end
    BY <1>6, <1>7
  <2> HIDE DEF front
  <2>2. front \in Seq(Symbols) /\ end \in Seq(Symbols)
    BY <1>4, <2>1
  <2>3. /\ front \o end \in Seq(Symbols) /\ Len(front \o end) = Len(front) + Len(end)
        /\ \A i \in 1 .. Len(front) : (front \o end)[i] = front[i]
        /\ \A i \in 1 .. Len(end) : (front \o end)[Len(front) + i] = end[i]
    BY <2>2, Joined
  <2>4. Len(front) + 1 = 5 + Len(p) /\ 1 \in 1 .. Len(end)
    BY <1>1, <1>4, <2>1
  <2>5. (front \o end)[5 + Len(p)] = end[1]
    BY <2>3, <2>4
  <2>6. Len(front \o end) = 5 + Len(p)
    BY <1>4, <2>3, <2>4
  <2>7. \A i \in 1 .. 4 + Len(p) : (front \o end)[i] = front[i]
    BY <2>1, <2>3
  <2> QED  BY <2>1, <2>3, <2>5, <2>6, <2>7 DEF front
<1>9. ASSUME NEW i \in 1 .. 2 + Len(p) PROVE Encoded(n, p)[i + 2] = body[i]
  <2>1. i + 2 \in 1 .. 4 + Len(p) /\ 2 + i = i + 2
    BY <1>1
  <2>2. (sync \o body)[2 + i] = body[i]
    BY <1>7
  <2> QED  BY <1>8, <2>1, <2>2
<1>10. Encoded(n, p)[1] = sync[1] /\ Encoded(n, p)[2] = sync[2]
  <2>1. 1 \in 1 .. 2 /\ 2 \in 1 .. 2 /\ 1 \in 1 .. 4 + Len(p) /\ 2 \in 1 .. 4 + Len(p)
    BY <1>1
  <2> QED  BY <1>7, <1>8, <2>1
<1> QED  BY <1>3, <1>4, <1>8, <1>9, <1>10 DEF body

\* What a parser can tell of the symbols of a frame.
LEMMA FrameKinds ==
    ASSUME NEW n \in Nat, NEW p \in Payloads, NEW f, f = Encoded(n, p)
    PROVE  /\ f[1].kind = "A5" /\ f[2].kind = "5A"
           /\ f[3].kind = "type" /\ f[3].v = n
           /\ f[4].kind = "len" /\ f[4].v = Len(p)
           /\ \A j \in 5 .. 4 + Len(p) : f[j].kind \in {"A5", "data"}
           /\ f[5 + Len(p)].kind = "crc" /\ f[5 + Len(p)].v = n /\ f[5 + Len(p)].body = Covered(n, p)
<1>1. Len(p) \in Nat /\ \A i \in 1 .. Len(p) : p[i] \in {"A5", "data"}
  BY PayloadForm
<1>2. /\ f[1] = Plain("A5") /\ f[2] = Plain("5A")
      /\ f[5 + Len(p)] = Symbol("crc", n, Covered(n, p))
  BY FrameForm
<1>3. f[3] = Symbol("type", n, <<>>)
  <2>1. f[1 + 2] = Covered(n, p)[1]
    BY <1>1, FrameForm
  <2> QED  BY <2>1, BodyForm
<1>4. f[4] = Symbol("len", Len(p), <<>>)
  <2>1. f[2 + 2] = Covered(n, p)[2]
    BY <1>1, FrameForm
  <2> QED  BY <2>1, BodyForm
<1>5. ASSUME NEW j \in 5 .. 4 + Len(p) PROVE f[j].kind \in {"A5", "data"}
  <2>1. j - 2 \in 3 .. 2 + Len(p) /\ j - 2 + 2 = j /\ j - 4 \in 1 .. Len(p) /\ j - 2 - 2 = j - 4
    BY <1>1
  <2>2. f[j] = Covered(n, p)[j - 2]
    <3>1. f[j - 2 + 2] = Covered(n, p)[j - 2]
      BY <2>1, FrameForm
    <3> QED  BY <2>1, <3>1
  <2>3. Covered(n, p)[j - 2] = Plain(p[j - 4])
    BY <2>1, BodyForm
  <2>4. f[j].kind = p[j - 4]
    BY <2>2, <2>3 DEF Plain, Symbol
  <2> QED  BY <1>1, <2>1, <2>4
<1> QED  BY <1>2, <1>3, <1>4, <1>5 DEF Plain, Symbol

-----------------------------------------------------------------------------
(***************************************************************************)
(* The ring and its DMA.                                                   *)
(***************************************************************************)
LEMMA RingSize == TX_RING_BYTES \in Nat \ {0} /\ MAX_PAYLOAD \in Nat
<1>1. MAX_PAYLOAD \in Nat /\ TX_RING_BYTES \in Nat /\ TX_RING_BYTES >= FRAME_MAX
  BY RingAssumption, PayloadAssumption
<1>2. FRAME_MAX = 5 + MAX_PAYLOAD
  BY <1>1 DEF FRAME_MAX, HDR_BYTES, CRC_BYTES
<1> QED  BY <1>1, <1>2

\* The positions alone, without what the ring holds.
Positions ==
    /\ tx_head \in Nat /\ tx_tail \in Nat /\ tx_inflight \in Nat /\ moved \in Nat /\ wire \in Nat
    /\ moved <= tx_inflight /\ tx_tail + tx_inflight <= tx_head
    /\ tx_head - tx_tail <= TX_RING_BYTES
    /\ tx_tail + moved = wire
    /\ (tx_tail % TX_RING_BYTES) + tx_inflight <= TX_RING_BYTES

LEMMA RetiredIsBehind ==
    ASSUME Positions
    PROVE  /\ Retired \in Nat /\ Retired <= wire /\ wire <= tx_head
           /\ ~Busy => Retired = wire
           /\ Busy => Retired = tx_tail
BY DEF Positions, Retired, Busy

LEMMA KickKeeps ==
    ASSUME Positions, NEW h \in Nat, tx_head <= h, h - Retired <= TX_RING_BYTES, Kick(h),
           tx_head' = h, wire' = wire
    PROVE  Positions'
<1>1. CASE Busy
  <2>1. tx_tail' = tx_tail /\ tx_inflight' = tx_inflight /\ moved' = moved /\ Retired = tx_tail
    BY <1>1 DEF Kick, Retired
  <2> QED  BY <2>1 DEF Positions
<1>2. CASE ~Busy
  <2>1. Retired = wire /\ wire <= tx_head
    BY <1>2, RetiredIsBehind
  <2>2. tx_tail' = wire /\ moved' = 0 /\ tx_inflight' = Run(wire, h - wire)
    BY <1>2, <2>1 DEF Kick
  <2> DEFINE w == wire % TX_RING_BYTES
  <2>3. wire \in Nat /\ w \in 0 .. TX_RING_BYTES - 1
    BY RingSize, Divides DEF Positions
  <2>4. /\ tx_inflight' = IF h - wire < TX_RING_BYTES - w THEN h - wire ELSE TX_RING_BYTES - w
        /\ tx_tail' % TX_RING_BYTES = w
    BY <2>2 DEF Run
  <2> HIDE DEF w
  <2>5. h - wire \in Nat /\ h - wire <= TX_RING_BYTES /\ TX_RING_BYTES \in Nat
    BY <2>1, <2>3, RingSize DEF Positions
  <2>6. /\ tx_inflight' \in Nat /\ tx_inflight' <= h - wire /\ w + tx_inflight' <= TX_RING_BYTES
    BY <2>3, <2>4, <2>5
  <2> QED  BY <2>2, <2>3, <2>4, <2>5, <2>6 DEF Positions
<1> QED  BY <1>1, <1>2

LEMMA TransferIs ==
    ASSUME LinkTypes
    PROVE  Transfer <=> /\ Positions /\ tx_head = Len(queued)
                        /\ \A k \in wire + 1 .. Len(queued) :
                             tx_ring[(k - 1) % TX_RING_BYTES] = queued[k]
BY DEF LinkTypes, Transfer, Positions, WireIsQueue

(* The DMA reads the oldest symbol not yet sent. *)
LEMMA ReadsOldest ==
    ASSUME LinkTypes, Transfer, Busy
    PROVE  /\ wire + 1 \in 1 .. Len(queued) /\ OnWire = queued[wire + 1]
           /\ queued[wire + 1] \in Symbols
<1> DEFINE o == tx_tail % TX_RING_BYTES
<1>1. /\ o \in 0 .. TX_RING_BYTES - 1 /\ o + tx_inflight <= TX_RING_BYTES /\ TX_RING_BYTES \in Nat
  BY RingSize, Divides DEF LinkTypes, Transfer, WireIsQueue
<1>2. /\ moved < tx_inflight /\ tx_tail + tx_inflight <= tx_head /\ tx_tail + moved = wire
      /\ tx_head = Len(queued)
      /\ \A k \in wire + 1 .. Len(queued) : tx_ring[(k - 1) % TX_RING_BYTES] = queued[k]
  BY DEF Transfer, WireIsQueue, Busy
<1>3. tx_tail \in Nat /\ tx_inflight \in Nat /\ moved \in Nat /\ wire \in Nat /\ Len(queued) \in Nat
  BY DEF LinkTypes
<1>4. o + moved < TX_RING_BYTES
  <2> HIDE DEF o
  <2> QED  BY <1>1, <1>2, <1>3
<1>5. OnWire = tx_ring[o + moved]
  BY <1>4 DEF OnWire
<1>6. (tx_tail + moved) % TX_RING_BYTES = o + moved
  BY <1>3, <1>4, RingSize, Contiguous
<1>7. wire + 1 \in wire + 1 .. Len(queued) /\ wire + 1 - 1 = wire /\ wire + 1 \in 1 .. Len(queued)
  BY <1>2, <1>3
<1>8. tx_ring[wire % TX_RING_BYTES] = queued[wire + 1]
  <2>1. \A k \in wire + 1 .. Len(queued) : tx_ring[(k - 1) % TX_RING_BYTES] = queued[k]
    BY <1>2
  <2> DEFINE k == wire + 1
  <2>2. k \in wire + 1 .. Len(queued) /\ k - 1 = wire
    BY <1>3, <1>7
  <2> HIDE DEF k
  <2>3. tx_ring[(k - 1) % TX_RING_BYTES] = queued[k]
    BY <2>1, <2>2
  <2>4. tx_ring[wire % TX_RING_BYTES] = queued[k]
    BY <2>2, <2>3
  <2> QED  BY <2>4 DEF k
<1>9. queued[wire + 1] \in Symbols
  BY <1>7 DEF LinkTypes
<1> QED  BY <1>2, <1>5, <1>6, <1>7, <1>8, <1>9

(* A frame pushed at the head does not reach what is not yet sent. *)
LEMMA PushedRing ==
    ASSUME LinkTypes, Transfer, NEW f \in Seq(Symbols),
           TX_RING_BYTES - (tx_head - Retired) >= Len(f),
           tx_ring' = [i \in DOMAIN tx_ring |->
                         IF \E k \in 1 .. Len(f) : (tx_head + k - 1) % TX_RING_BYTES = i
                         THEN f[CHOOSE k \in 1 .. Len(f) : (tx_head + k - 1) % TX_RING_BYTES = i]
                         ELSE tx_ring[i]],
           queued' = queued \o f, wire' = wire
    PROVE  /\ tx_ring' \in [0 .. TX_RING_BYTES - 1 -> Symbols]
           /\ \A k \in wire + 1 .. Len(queued') : tx_ring'[(k - 1) % TX_RING_BYTES] = queued'[k]
<1> DEFINE N == TX_RING_BYTES
           Slot(k) == (tx_head + k - 1) % N
           Hit(i) == \E k \in 1 .. Len(f) : Slot(k) = i
           Which(i) == CHOOSE k \in 1 .. Len(f) : Slot(k) = i
<1>1. N \in Nat \ {0}
  BY RingSize
<1>2. /\ tx_head \in Nat /\ wire \in Nat /\ Retired \in Nat /\ Len(f) \in Nat /\ Len(queued) = tx_head
      /\ Retired <= wire /\ wire <= tx_head /\ tx_head + Len(f) <= Retired + N
      /\ \A k \in wire + 1 .. Len(queued) : tx_ring[(k - 1) % N] = queued[k]
  <2>1. Positions /\ Len(queued) = tx_head
        /\ \A k \in wire + 1 .. Len(queued) : tx_ring[(k - 1) % N] = queued[k]
    BY TransferIs
  <2>2. Retired \in Nat /\ Retired <= wire /\ wire <= tx_head
    BY <2>1, RetiredIsBehind
  <2>3. Len(f) \in Nat
    OBVIOUS
  <2> QED  BY <1>1, <2>1, <2>2, <2>3 DEF LinkTypes
<1>3. \A i \in 0 .. N - 1 : tx_ring'[i] = IF Hit(i) THEN f[Which(i)] ELSE tx_ring[i]
  BY DEF LinkTypes
<1>4. tx_ring \in [0 .. N - 1 -> Symbols]
  BY DEF LinkTypes
<1>5. \A i : Hit(i) => Which(i) \in 1 .. Len(f) /\ Slot(Which(i)) = i
  OBVIOUS
<1>6. \A k \in 1 .. Len(f) : f[k] \in Symbols
  OBVIOUS
<1>7. tx_ring' \in [0 .. N - 1 -> Symbols]
  <2>1. \A i \in 0 .. N - 1 : tx_ring'[i] \in Symbols
    <3> HIDE DEF Hit, Which
    <3> QED  BY <1>3, <1>4, <1>5, <1>6
  <2>2. tx_ring' = [i \in 0 .. N - 1 |-> tx_ring'[i]]
    BY <1>4
  <2> QED  BY <2>1, <2>2
<1>8. /\ queued' \in Seq(Symbols) /\ Len(queued') = tx_head + Len(f)
      /\ \A k \in 1 .. tx_head : queued'[k] = queued[k]
      /\ \A k \in 1 .. Len(f) : queued'[tx_head + k] = f[k]
  <2>1. queued \in Seq(Symbols) /\ f \in Seq(Symbols)
    BY DEF LinkTypes
  <2>2. /\ queued \o f \in Seq(Symbols) /\ Len(queued \o f) = Len(queued) + Len(f)
        /\ \A k \in 1 .. Len(queued) : (queued \o f)[k] = queued[k]
        /\ \A k \in 1 .. Len(f) : (queued \o f)[Len(queued) + k] = f[k]
    BY <2>1, Joined
  <2> QED  BY <1>2, <2>2
<1>9. \A j, k \in 1 .. Len(f) : Slot(j) = Slot(k) => j = k
  <2>1. ASSUME NEW j \in 1 .. Len(f), NEW k \in 1 .. Len(f), j < k PROVE Slot(j) # Slot(k)
    <3>1. /\ tx_head + j - 1 \in Nat /\ tx_head + k - 1 \in Nat
          /\ tx_head + j - 1 < tx_head + k - 1 /\ tx_head + k - 1 < tx_head + j - 1 + N
      BY <1>1, <1>2, <2>1
    <3> QED  BY <1>1, <3>1, Distinct
  <2> HIDE DEF Slot
  <2> QED  BY <2>1, <1>2
<1>10. ASSUME NEW k \in wire + 1 .. Len(queued') PROVE tx_ring'[(k - 1) % N] = queued'[k]
  <2>1. k \in Nat /\ k - 1 \in Nat /\ wire + 1 <= k /\ k <= tx_head + Len(f)
    BY <1>2, <1>8
  <2>2. (k - 1) % N \in 0 .. N - 1
    BY <1>1, <2>1, Divides
  <2>3. CASE k <= tx_head
    <3>1. ~Hit((k - 1) % N)
      <4> SUFFICES ASSUME NEW j \in 1 .. Len(f) PROVE Slot(j) # (k - 1) % N
        OBVIOUS
      <4>1. tx_head + j - 1 \in Nat /\ k - 1 < tx_head + j - 1 /\ tx_head + j - 1 < k - 1 + N
        BY <1>1, <1>2, <2>1, <2>3
      <4> QED  BY <1>1, <2>1, <4>1, Distinct
    <3>2. k \in wire + 1 .. Len(queued) /\ k \in 1 .. tx_head
      BY <1>2, <2>1, <2>3
    <3> HIDE DEF Hit, Which
    <3>3. tx_ring'[(k - 1) % N] = tx_ring[(k - 1) % N]
      BY <1>3, <2>2, <3>1
    <3>4. queued'[k] = queued[k]
      BY <1>8, <3>2
    <3>5. tx_ring[(k - 1) % N] = queued[k]
      BY <1>2, <3>2
    <3> QED  BY <3>3, <3>4, <3>5
  <2>4. CASE k > tx_head
    <3> DEFINE j == k - tx_head
    <3>1. j \in 1 .. Len(f) /\ tx_head + j = k
      BY <1>2, <2>1, <2>4
    <3>2. Slot(j) = (k - 1) % N
      <4>1. tx_head + j - 1 = k - 1
        BY <1>2, <2>1
      <4> QED  BY <4>1
    <3>3. Hit((k - 1) % N)
      BY <3>1, <3>2
    <3>4. Which((k - 1) % N) = j
      <4>1. Which((k - 1) % N) \in 1 .. Len(f) /\ Slot(Which((k - 1) % N)) = (k - 1) % N
        BY <1>5, <3>3
      <4> HIDE DEF Which, Slot
      <4> QED  BY <1>9, <3>1, <3>2, <4>1
    <3> HIDE DEF Hit, Which, j, Slot
    <3>5. tx_ring'[(k - 1) % N] = f[j]
      BY <1>3, <2>2, <3>3, <3>4
    <3>6. queued'[tx_head + j] = f[j]
      <4>1. j \in 1 .. Len(f)
        BY <3>1
      <4> QED  BY <1>2, <1>8, <4>1
    <3> QED  BY <3>1, <3>5, <3>6
  <2> QED  BY <1>2, <2>1, <2>3, <2>4
<1> QED  BY <1>7, <1>10

-----------------------------------------------------------------------------
(***************************************************************************)
(* The frames in the queue.                                                *)
(***************************************************************************)
LEMMA QueueTypes ==
    ASSUME LinkTypes
    PROVE  /\ queued \in Seq(Symbols) /\ Len(queued) \in Nat /\ frames \in Nat /\ wire \in Nat
           /\ \A k \in 1 .. Len(queued) : queued[k] \in Symbols
           /\ \A k \in 1 .. Len(queued) : queued[k].v \in Nat
<1>1. \A x \in Symbols : x.v \in Nat
  BY DEF Symbols, Flat
<1> QED  BY <1>1 DEF LinkTypes

\* The symbols of a queued frame.
LEMMA FrameSymbols ==
    ASSUME NEW b \in Nat, NEW n \in Nat, NEW p \in Payloads, FrameAt(b, n, p)
    PROVE  /\ Len(p) \in Nat /\ Len(p) <= MAX_PAYLOAD /\ Len(Encoded(n, p)) = 5 + Len(p)
           /\ b + 5 + Len(p) <= Len(queued) /\ Boundary(b + 5 + Len(p))
           /\ \A j \in 1 .. 5 + Len(p) : queued[b + j] = Encoded(n, p)[j]
           /\ queued[b + 1].kind = "A5" /\ queued[b + 2].kind = "5A"
           /\ queued[b + 3].kind = "type" /\ queued[b + 3].v = n
           /\ queued[b + 4].kind = "len" /\ queued[b + 4].v = Len(p)
           /\ \A j \in 5 .. 4 + Len(p) : queued[b + j].kind \in {"A5", "data"}
           /\ queued[b + 5 + Len(p)].kind = "crc" /\ queued[b + 5 + Len(p)].v = n
           /\ queued[b + 5 + Len(p)].body = Covered(n, p)
<1>1. Len(p) \in Nat /\ Len(p) <= MAX_PAYLOAD /\ Len(Encoded(n, p)) = 5 + Len(p)
  BY PayloadForm, FrameForm
<1>2. b + (5 + Len(p)) = b + 5 + Len(p)
  BY <1>1
<1>3. /\ b + 5 + Len(p) <= Len(queued) /\ Boundary(b + 5 + Len(p))
      /\ \A j \in 1 .. 5 + Len(p) : queued[b + j] = Encoded(n, p)[j]
  BY <1>1, <1>2 DEF FrameAt
<1> DEFINE f == Encoded(n, p)
<1>4. /\ f[1].kind = "A5" /\ f[2].kind = "5A"
      /\ f[3].kind = "type" /\ f[3].v = n
      /\ f[4].kind = "len" /\ f[4].v = Len(p)
      /\ \A j \in 5 .. 4 + Len(p) : f[j].kind \in {"A5", "data"}
      /\ f[5 + Len(p)].kind = "crc" /\ f[5 + Len(p)].v = n /\ f[5 + Len(p)].body = Covered(n, p)
  BY FrameKinds
<1>5. \A j \in 1 .. 5 + Len(p) : queued[b + j] = f[j]
  BY <1>3
<1> HIDE DEF f
<1>6. queued[b + 1] = f[1] /\ queued[b + 2] = f[2] /\ queued[b + 3] = f[3] /\ queued[b + 4] = f[4]
  BY <1>1, <1>5
<1>7. queued[b + 5 + Len(p)] = f[5 + Len(p)]
  <2>1. queued[b + (5 + Len(p))] = f[5 + Len(p)]
    BY <1>1, <1>5
  <2> QED  BY <1>2, <2>1
<1>8. \A j \in 5 .. 4 + Len(p) : queued[b + j].kind \in {"A5", "data"}
  BY <1>1, <1>4, <1>5
<1>9. \A j \in 1 .. 5 + Len(p) : queued[b + j] = Encoded(n, p)[j]
  BY <1>3
<1> QED  BY <1>1, <1>3, <1>4, <1>6, <1>7, <1>8, <1>9

\* A frame starts where its first symbol is, and none starts inside it.
LEMMA FrameStarts ==
    ASSUME queued \in Seq(Symbols), NEW b \in Nat, NEW n \in Nat, NEW p \in Payloads, FrameAt(b, n, p)
    PROVE  /\ Starts(b + 1) = n
           /\ \A j \in 1 .. 4 + Len(p) : Starts(b + j + 1) = 0
<1>1. /\ Len(p) \in Nat /\ b + 5 + Len(p) <= Len(queued)
      /\ queued[b + 1].kind = "A5" /\ queued[b + 2].kind = "5A"
      /\ queued[b + 3].kind = "type" /\ queued[b + 3].v = n
      /\ queued[b + 4].kind = "len"
      /\ \A j \in 5 .. 4 + Len(p) : queued[b + j].kind \in {"A5", "data"}
      /\ queued[b + 5 + Len(p)].kind = "crc"
  BY FrameSymbols
<1>2. Starts(b + 1) = n
  <2>1. b + 1 + 2 = b + 3 /\ b + 1 + 1 = b + 2 /\ b + 3 <= Len(queued)
    <3>1. Len(queued) \in Nat
      OBVIOUS
    <3> QED  BY <1>1, <3>1
  <2> QED  BY <1>1, <2>1 DEF Starts
<1>3. ASSUME NEW j \in 1 .. 4 + Len(p) PROVE Starts(b + j + 1) = 0
  <2>1. /\ j \in Nat /\ b + j + 1 + 1 = b + j + 2 /\ b + j + 1 = b + (j + 1)
        /\ b + j + 2 = b + (j + 2)
    BY <1>1
  <2>2. CASE j = 4 + Len(p)
    <3>1. b + j + 1 = b + 5 + Len(p)
      BY <1>1, <2>2
    <3> QED  BY <1>1, <3>1 DEF Starts
  <2>3. CASE j = 3 + Len(p)
    <3>1. b + j + 1 + 1 = b + 5 + Len(p)
      BY <1>1, <2>3
    <3> QED  BY <1>1, <3>1 DEF Starts
  <2>4. CASE j < 3 + Len(p)
    <3>1. queued[b + j + 2].kind # "5A"
      <4>1. CASE j = 1
        BY <1>1, <4>1
      <4>2. CASE j = 2
        BY <1>1, <4>2
      <4>3. CASE j > 2
        <5>1. j + 2 \in 5 .. 4 + Len(p)
          BY <1>1, <2>4, <4>3
        <5> QED  BY <1>1, <2>1, <5>1
      <4> QED  BY <2>1, <4>1, <4>2, <4>3
    <3> QED  BY <2>1, <3>1 DEF Starts
  <2> QED  BY <1>1, <2>2, <2>3, <2>4
<1> QED  BY <1>2, <1>3

StartFacts ==
    \A b \in Nat, n \in Nat, p \in Payloads :
      FrameAt(b, n, p) => Starts(b + 1) = n /\ \A j \in 1 .. 4 + Len(p) : Starts(b + j + 1) = 0

LEMMA StartsKnown == queued \in Seq(Symbols) => StartFacts
BY FrameStarts DEF StartFacts

LEMMA SameQueue ==
    ASSUME queued' = queued
    PROVE  /\ \A k : Starts(k)' = Starts(k)
           /\ \A b : Boundary(b)' <=> Boundary(b)
           /\ \A b, n, p : FrameAt(b, n, p)' <=> FrameAt(b, n, p)
           /\ frames' = frames => (Framed' <=> Framed)
BY DEF Starts, Boundary, FrameAt, Framed

\* A frame more behind the others.
Pushes(p) == queued' = queued \o Encoded(frames + 1, p) /\ frames' = frames + 1

LEMMA PushedSymbols ==
    ASSUME LinkTypes, NEW p \in Payloads, Pushes(p)
    PROVE  /\ queued' \in Seq(Symbols) /\ Len(queued') = Len(queued) + 5 + Len(p)
           /\ Len(p) \in Nat /\ Len(p) <= MAX_PAYLOAD
           /\ \A k \in 1 .. Len(queued) : queued'[k] = queued[k]
           /\ \A j \in 1 .. 5 + Len(p) : queued'[Len(queued) + j] = Encoded(frames + 1, p)[j]
<1>1. frames + 1 \in Nat
  BY QueueTypes
<1> DEFINE f == Encoded(frames + 1, p)
<1>2. f \in Seq(Symbols) /\ Len(f) = 5 + Len(p) /\ Len(p) \in Nat /\ Len(p) <= MAX_PAYLOAD
  BY <1>1, FrameForm, PayloadForm
<1>3. queued' = queued \o f /\ queued \in Seq(Symbols) /\ Len(queued) \in Nat
  BY QueueTypes DEF Pushes
<1> HIDE DEF f
<1>4. /\ queued \o f \in Seq(Symbols) /\ Len(queued \o f) = Len(queued) + Len(f)
      /\ \A k \in 1 .. Len(queued) : (queued \o f)[k] = queued[k]
      /\ \A k \in 1 .. Len(f) : (queued \o f)[Len(queued) + k] = f[k]
  <2>1. queued \in Seq(Symbols) /\ f \in Seq(Symbols)
    BY <1>2, <1>3
  <2> QED  BY <2>1, Joined
<1>5. Len(queued') = Len(queued) + 5 + Len(p)
  BY <1>2, <1>3, <1>4
<1> QED  BY <1>2, <1>3, <1>4, <1>5 DEF f

LEMMA PushedStarts ==
    ASSUME LinkTypes, Framed, NEW p \in Payloads, Pushes(p),
           NEW H \in Nat, H = Len(queued), NEW F \in Nat, F = frames + 1
    PROVE  /\ \A b \in 0 .. H - 1 : Starts(b + 1)' = Starts(b + 1)
           /\ Starts(H + 1)' = F
           /\ \A j \in 1 .. 4 + Len(p) : Starts(H + j + 1)' = 0
           /\ \A b \in 0 .. H : Boundary(b) => Boundary(b)'
           /\ \A b \in Nat, n \in Nat, q \in Payloads : FrameAt(b, n, q) => FrameAt(b, n, q)'
           /\ FrameAt(H, F, p)'
<1>1. /\ frames' = F /\ Len(p) \in Nat /\ F > 0
      /\ Len(queued') = H + 5 + Len(p)
      /\ \A k \in 1 .. H : queued'[k] = queued[k]
      /\ \A j \in 1 .. 5 + Len(p) : queued'[H + j] = Encoded(F, p)[j]
  <2>1. frames' = frames + 1 /\ frames \in Nat
    BY QueueTypes DEF Pushes
  <2>2. /\ Len(queued') = Len(queued) + 5 + Len(p) /\ Len(p) \in Nat
        /\ \A k \in 1 .. Len(queued) : queued'[k] = queued[k]
        /\ \A j \in 1 .. 5 + Len(p) : queued'[Len(queued) + j] = Encoded(frames + 1, p)[j]
    BY PushedSymbols
  <2>3. Len(queued') = H + 5 + Len(p) /\ \A k \in 1 .. H : queued'[k] = queued[k]
    BY <2>2
  <2>4. \A j \in 1 .. 5 + Len(p) : queued'[H + j] = Encoded(F, p)[j]
    BY <2>2, Zenon
  <2> QED  BY <2>1, <2>2, <2>3, <2>4
<1>2. ASSUME NEW b \in 0 .. H - 1 PROVE Starts(b + 1)' = Starts(b + 1)
  <2> DEFINE k == b + 1
  <2>1. k \in 1 .. H
    OBVIOUS
  <2> HIDE DEF k
  <2>2. CASE k + 2 <= H
    <3>1. queued'[k] = queued[k] /\ queued'[k + 1] = queued[k + 1] /\ queued'[k + 2] = queued[k + 2]
      BY <1>1, <2>1, <2>2
    <3>2. k + 2 <= Len(queued')
      BY <1>1, <2>1, <2>2
    <3> QED  BY <2>2, <3>1, <3>2 DEF Starts, k
  <2>3. CASE k + 1 = H
    <3>1. queued'[k + 1] = queued[k + 1] /\ ~(k + 2 <= H) /\ k + 1 \in 1 .. H /\ k + 1 - 1 = k
      BY <1>1, <2>1, <2>3
    <3>2. queued[k + 1].kind # "5A"
      <4> SUFFICES ASSUME queued[k + 1].kind = "5A" PROVE FALSE
        OBVIOUS
      <4>1. \A m \in 1 .. H : queued[m].kind = "5A" => Starts(m - 1) > 0
        BY DEF Framed
      <4> DEFINE m == k + 1
      <4>2. m \in 1 .. H /\ queued[m].kind = "5A" /\ ~(m - 1 + 2 <= H)
        BY <2>1, <3>1
      <4> HIDE DEF m
      <4>3. Starts(m - 1) > 0
        BY <4>1, <4>2
      <4> QED  BY <4>2, <4>3 DEF Starts
    <3> QED  BY <3>1, <3>2 DEF Starts, k
  <2>4. CASE k = H
    <3>1. queued'[k + 1].kind # "5A" /\ ~(k + 2 <= H)
      <4>1. queued'[H + 1] = Encoded(F, p)[1] /\ Encoded(F, p)[1].kind = "A5"
        <5>1. 1 \in 1 .. 5 + Len(p)
          BY <1>1
        <5> QED  BY <1>1, <5>1, FrameKinds
      <4> QED  BY <2>4, <4>1
    <3> QED  BY <3>1 DEF Starts, k
  <2> QED  BY <2>1, <2>2, <2>3, <2>4
<1>3. ASSUME NEW b \in 0 .. H, Boundary(b), Starts(H + 1)' > 0 PROVE Boundary(b)'
  <2>1. CASE b = H
    BY <1>3, <2>1 DEF Boundary
  <2>2. CASE b # H
    <3>1. b \in 0 .. H - 1 /\ Starts(b + 1) > 0
      BY <1>3, <2>2 DEF Boundary
    <3> QED  BY <1>2, <3>1 DEF Boundary
  <2> QED  BY <2>1, <2>2
<1>4. FrameAt(H, F, p)'
  <2>1. Len(Encoded(F, p)) = 5 + Len(p)
    BY <1>1, FrameForm
  <2>2. H + Len(Encoded(F, p)) = Len(queued')
    <3>1. H + (5 + Len(p)) = H + 5 + Len(p)
      BY <1>1
    <3> QED  BY <1>1, <2>1, <3>1, Zenon
  <2>3. \A j \in 1 .. Len(Encoded(F, p)) : queued'[H + j] = Encoded(F, p)[j]
    BY <1>1, <2>1
  <2> QED  BY <1>1, <2>2, <2>3 DEF FrameAt, Boundary
<1>5. Starts(H + 1)' = F /\ \A j \in 1 .. 4 + Len(p) : Starts(H + j + 1)' = 0
  <2>1. (queued \in Seq(Symbols))' => StartFacts'
    BY StartsKnown, PTL
  <2>2. StartFacts'
    BY <2>1, PushedSymbols
  <2> QED  BY <1>4, <2>2 DEF StartFacts
<1>6. \A b \in 0 .. H : Boundary(b) => Boundary(b)'
  BY <1>1, <1>3, <1>5
<1>7. ASSUME NEW b \in Nat, NEW n \in Nat, NEW q \in Payloads, FrameAt(b, n, q)
      PROVE  FrameAt(b, n, q)'
  <2> DEFINE e == b + Len(Encoded(n, q))
  <2>1. /\ Len(Encoded(n, q)) \in Nat /\ e \in 0 .. H /\ Boundary(e)
        /\ \A j \in 1 .. Len(Encoded(n, q)) : queued[b + j] = Encoded(n, q)[j]
    <3>1. Len(Encoded(n, q)) \in Nat
      BY FrameForm, PayloadForm
    <3> QED  BY <1>7, <3>1 DEF FrameAt
  <2>2. e <= Len(queued') /\ Boundary(e)'
    BY <1>1, <1>6, <2>1
  <2>3. \A j \in 1 .. Len(Encoded(n, q)) : queued'[b + j] = Encoded(n, q)[j]
    <3> SUFFICES ASSUME NEW j \in 1 .. Len(Encoded(n, q)) PROVE queued'[b + j] = Encoded(n, q)[j]
      OBVIOUS
    <3>1. b + j \in 1 .. H
      BY <2>1
    <3> QED  BY <1>1, <2>1, <3>1
  <2> QED  BY <2>2, <2>3 DEF FrameAt
<1> QED  BY <1>2, <1>4, <1>5, <1>6, <1>7

\* Of a frame's symbols only the second can be read as the second half of a sync.
LEMMA OnlyOneSync ==
    ASSUME NEW n \in Nat, NEW p \in Payloads, NEW j \in 1 .. 5 + Len(p)
    PROVE  /\ Encoded(n, p)[j].kind = "5A" => j = 2
           /\ Encoded(n, p)[j].kind = "len" => Encoded(n, p)[j].v <= MAX_PAYLOAD
           /\ Encoded(n, p)[j].kind # "noise"
<1> DEFINE f == Encoded(n, p)
<1>1. /\ f[1].kind = "A5"
      /\ f[3].kind = "type" /\ f[4].kind = "len" /\ f[4].v = Len(p) /\ f[2].kind = "5A"
      /\ \A i \in 5 .. 4 + Len(p) : f[i].kind \in {"A5", "data"}
      /\ f[5 + Len(p)].kind = "crc"
  BY FrameKinds
<1>2. Len(p) \in Nat /\ Len(p) <= MAX_PAYLOAD
  BY PayloadForm
<1> HIDE DEF f
<1>3. j = 1 \/ j = 2 \/ j = 3 \/ j = 4 \/ j \in 5 .. 4 + Len(p) \/ j = 5 + Len(p)
  BY <1>2
<1>4. /\ f[j].kind = "5A" => j = 2
      /\ f[j].kind = "len" => f[j].v <= MAX_PAYLOAD
      /\ f[j].kind # "noise"
  BY <1>1, <1>2, <1>3
<1> QED  BY <1>4 DEF f

LEMMA PushedFramed ==
    ASSUME LinkTypes, Framed, NEW p \in Payloads, Pushes(p)
    PROVE  Framed'
<1>1. SUFFICES ASSUME NEW H \in Nat, H = Len(queued), NEW F \in Nat, F = frames + 1 PROVE Framed'
  BY QueueTypes
<1>2. /\ \A b \in 0 .. H - 1 : Starts(b + 1)' = Starts(b + 1)
      /\ Starts(H + 1)' = F
      /\ \A j \in 1 .. 4 + Len(p) : Starts(H + j + 1)' = 0
      /\ \A b \in 0 .. H : Boundary(b) => Boundary(b)'
      /\ \A b \in Nat, n \in Nat, q \in Payloads : FrameAt(b, n, q) => FrameAt(b, n, q)'
      /\ FrameAt(H, F, p)'
  BY <1>1, PushedStarts
<1>3. /\ Len(queued') = H + 5 + Len(p) /\ Len(p) \in Nat
      /\ \A k \in 1 .. H : queued'[k] = queued[k]
  BY <1>1, PushedSymbols
<1>4. \A j \in 1 .. 5 + Len(p) : queued'[H + j] = Encoded(F, p)[j]
  BY <1>1, PushedSymbols, Zenon
<1>5. frames' = F /\ frames \in Nat /\ F > 0
  BY <1>1, QueueTypes DEF Pushes
<1>6. Boundary(0)'
  BY <1>2 DEF Framed
<1>7. ASSUME NEW b \in 0 .. Len(queued') - 1, Starts(b + 1)' > 0
      PROVE  Starts(b + 1)' \in 1 .. frames' /\ \E q \in Payloads : FrameAt(b, Starts(b + 1), q)'
  <2>1. CASE b < H
    <3>1. b \in 0 .. H - 1
      BY <2>1
    <3>2. Starts(b + 1)' = Starts(b + 1)
      BY <1>2, <3>1
    <3>3. Starts(b + 1) \in 1 .. frames /\ \E q \in Payloads : FrameAt(b, Starts(b + 1), q)
      BY <1>1, <1>7, <3>1, <3>2 DEF Framed
    <3>4. SUFFICES ASSUME NEW n \in Nat, n = Starts(b + 1)
                   PROVE  Starts(b + 1)' \in 1 .. frames' /\ \E q \in Payloads : FrameAt(b, Starts(b + 1), q)'
      BY <3>3
    <3>5. PICK q \in Payloads : FrameAt(b, n, q)
      BY <3>3, <3>4
    <3>6. FrameAt(b, n, q)'
      BY <1>2, <3>5
    <3>7. Starts(b + 1)' = n
      BY <3>2, <3>4
    <3>8. FrameAt(b, Starts(b + 1), q)'
      BY <3>6, <3>7 DEF FrameAt
    <3> QED  BY <1>1, <1>5, <3>2, <3>3, <3>8
  <2>2. CASE b = H
    <3>1. Starts(b + 1)' = F
      BY <1>2, <2>2
    <3>2. FrameAt(b, F, p)'
      BY <1>2, <2>2
    <3>3. FrameAt(b, Starts(b + 1), p)'
      BY <3>1, <3>2 DEF FrameAt
    <3> QED  BY <1>5, <3>1, <3>3
  <2>3. CASE b > H
    <3> DEFINE j == b - H
    <3>1. j \in 1 .. 4 + Len(p) /\ H + j + 1 = b + 1
      BY <1>3, <2>3
    <3> HIDE DEF j
    <3>2. Starts(H + j + 1)' = 0
      BY <1>2, <3>1
    <3>3. Starts(b + 1)' = 0
      BY <3>1, <3>2
    <3> QED  BY <1>7, <3>3
  <2> QED  BY <2>1, <2>2, <2>3
<1>8. ASSUME NEW k \in 1 .. Len(queued')
      PROVE  /\ queued'[k].kind = "5A" => k > 1 /\ Starts(k - 1)' > 0
             /\ queued'[k].kind = "len" => queued'[k].v <= MAX_PAYLOAD
             /\ queued'[k].kind # "noise"
  <2>1. CASE k <= H
    <3>1. k \in 1 .. H /\ queued'[k] = queued[k]
      BY <1>3, <2>1
    <3>2. queued[k].kind # "noise" /\ (queued[k].kind = "len" => queued[k].v <= MAX_PAYLOAD)
      BY <1>1, <3>1 DEF Framed
    <3>3. ASSUME queued[k].kind = "5A" PROVE k > 1 /\ Starts(k - 1)' > 0
      <4>1. k > 1 /\ Starts(k - 1) > 0
        BY <1>1, <3>1, <3>3 DEF Framed
      <4> DEFINE b == k - 2
      <4>2. b \in 0 .. H - 1 /\ b + 1 = k - 1
        BY <3>1, <4>1
      <4> HIDE DEF b
      <4>3. Starts(b + 1)' = Starts(b + 1)
        BY <1>2, <4>2
      <4>4. Starts(k - 1)' = Starts(k - 1)
        BY <4>2, <4>3
      <4> QED  BY <4>1, <4>4
    <3> QED  BY <3>1, <3>2, <3>3
  <2>2. CASE k > H
    <3> DEFINE j == k - H
    <3>1. j \in 1 .. 5 + Len(p) /\ H + j = k /\ j - 1 + H = k - 1
      BY <1>3, <2>2
    <3> HIDE DEF j
    <3>2. queued'[H + j] = Encoded(F, p)[j]
      BY <1>4, <3>1
    <3>3. queued'[k] = Encoded(F, p)[j]
      BY <3>1, <3>2
    <3>4. ASSUME j = 2 PROVE k > 1 /\ Starts(k - 1)' > 0
      <4>1. k - 1 = H + 1 /\ k > 1
        BY <3>1, <3>4
      <4>2. Starts(k - 1)' = F
        BY <1>2, <4>1
      <4> QED  BY <1>5, <4>1, <4>2
    <3> QED  BY <3>1, <3>3, <3>4, OnlyOneSync
  <2> QED  BY <2>1, <2>2
<1> QED  BY <1>6, <1>7, <1>8 DEF Framed

-----------------------------------------------------------------------------
(***************************************************************************)
(* The kiosk's steps.                                                      *)
(***************************************************************************)
LEMMA InitLinkInv == LinkInit => LinkInv
<1> SUFFICES ASSUME LinkInit PROVE LinkInv
  OBVIOUS
<1> USE RingSize
<1>1. Noise \in Symbols
  BY PlainIsFlat DEF Noise, Kinds, Symbols
<1>2. FRAME_MAX = 5 + MAX_PAYLOAD
  BY DEF FRAME_MAX, HDR_BYTES, CRC_BYTES
<1>3. <<>> \in Seq(Symbols) /\ Len(<<>>) = 0 /\ <<>> \in Seq(Nat)
  OBVIOUS
<1>4. LinkTypes
  BY <1>1, <1>2, <1>3 DEF LinkInit, LinkTypes
<1>5. 0 % TX_RING_BYTES = 0
  <2>1. 0 % TX_RING_BYTES \in 0 .. TX_RING_BYTES - 1 /\ (0 % TX_RING_BYTES) < TX_RING_BYTES
    BY Divides
  <2>2. 0 = TX_RING_BYTES * (0 \div TX_RING_BYTES) + (0 % TX_RING_BYTES)
        /\ 0 \div TX_RING_BYTES \in Nat
    BY Divides
  <2> DEFINE q == 0 \div TX_RING_BYTES
             e == 0 % TX_RING_BYTES
  <2>3. 0 = TX_RING_BYTES * q + e /\ q \in Nat /\ e \in Nat
    BY <2>1, <2>2
  <2> HIDE DEF q, e
  <2>4. TX_RING_BYTES * q \in Nat
    BY <2>3
  <2>5. e = 0
    BY <2>3, <2>4
  <2> QED  BY <2>5 DEF e
<1>6. Transfer
  BY <1>3, <1>5 DEF LinkInit, Transfer, WireIsQueue
<1>7. Boundary(0) /\ Boundary(wire)
  BY <1>3 DEF LinkInit, Boundary
<1>8. Framed
  BY <1>3, <1>7 DEF LinkInit, Framed
<1>9. Placed /\ ParserTypes /\ Tracks /\ Owes
  BY <1>3, <1>7 DEF LinkInit, Placed, ParserTypes, Tracks, Hunting, Owes
<1> QED  BY <1>4, <1>6, <1>8, <1>9 DEF LinkInv

\* Queueing a frame moves no other frame and is nothing to the parser.
LEMMA PushedTracks ==
    ASSUME LinkInv, NEW p \in Payloads, Pushes(p),
           wire' = wire, st' = st, got' = got, plen' = plen, calm' = calm, owed' = owed, delivered' = delivered
    PROVE  Placed' /\ ParserTypes' /\ Tracks' /\ Owes'
<1>1. SUFFICES ASSUME NEW H \in Nat, H = Len(queued), NEW F \in Nat, F = frames + 1,
                      NEW w \in Nat, w = wire
               PROVE  Placed' /\ ParserTypes' /\ Tracks' /\ Owes'
  BY QueueTypes DEF LinkInv
<1>2. /\ \A b \in 0 .. H : Boundary(b) => Boundary(b)'
      /\ \A b \in Nat, n \in Nat, q \in Payloads : FrameAt(b, n, q) => FrameAt(b, n, q)'
  BY <1>1, PushedStarts DEF LinkInv
<1>3. w <= H /\ frames \in Nat /\ frames' = F /\ owed \in Nat
  <2>1. wire <= tx_head /\ tx_head = Len(queued)
    BY TransferIs, RetiredIsBehind DEF LinkInv
  <2> QED  BY <1>1, <2>1, QueueTypes DEF LinkInv, LinkTypes, Pushes
<1>4. Boundary(wire) => Boundary(wire)'
  <2>1. Boundary(w) => Boundary(w)'
    BY <1>2, <1>3
  <2> QED  BY <1>1, <2>1 DEF Boundary
<1>5. \A b \in 0 .. w, n \in Nat, q \in Payloads : Within(b, n, q) => Within(b, n, q)'
  BY <1>1, <1>2 DEF Within
<1>6. \A b, n, q : Aligned(b, n, q)' <=> Aligned(b, n, q)
  BY DEF Aligned, Step
<1>7. Placed'
  <2>1. CASE Boundary(wire)
    BY <1>4, <2>1 DEF Placed
  <2>2. CASE ~Boundary(wire)
    <3>1. PICK b \in 0 .. w, n \in 1 .. frames, q \in Payloads : Within(b, n, q)
      BY <1>1, <2>2 DEF LinkInv, Placed
    <3>2. n \in 1 .. F /\ Within(b, n, q)'
      BY <1>1, <1>3, <1>5, <3>1
    <3> QED  BY <1>1, <1>3, <3>2 DEF Placed
  <2> QED  BY <2>1, <2>2
<1>8. ParserTypes'
  BY DEF LinkInv, ParserTypes
<1>9. Tracks'
  <2>1. CASE Hunting \/ Swallowing
    BY <2>1 DEF Tracks, Hunting, Swallowing, Remaining
  <2>2. CASE Following
    <3>1. PICK b \in 0 .. w, n \in 1 .. frames, q \in Payloads : Within(b, n, q) /\ Aligned(b, n, q)
      BY <1>1, <2>2 DEF Following
    <3>2. n \in 1 .. F /\ Within(b, n, q)' /\ Aligned(b, n, q)'
      BY <1>1, <1>3, <1>5, <1>6, <3>1
    <3> QED  BY <1>1, <1>3, <3>2 DEF Tracks, Following
  <2> QED  BY <2>1, <2>2 DEF LinkInv, Tracks
<1>10. Owes'
  <2> SUFFICES ASSUME owed' > 0
               PROVE  /\ calm' = FRAME_MAX
                      /\ \/ Boundary(wire)' /\ Hunting' /\ Contains(delivered, owed)'
                         \/ \E b \in 0 .. wire', q \in Payloads : Within(b, owed, q)' /\ Aligned(b, owed, q)'
    BY DEF Owes
  <2>1. /\ calm = FRAME_MAX
        /\ \/ Boundary(wire) /\ Hunting /\ Contains(delivered, owed)
           \/ \E b \in 0 .. wire, q \in Payloads : Within(b, owed, q) /\ Aligned(b, owed, q)
    BY DEF LinkInv, Owes
  <2>2. CASE Boundary(wire) /\ Hunting /\ Contains(delivered, owed)
    BY <1>4, <2>1, <2>2 DEF Hunting, Contains
  <2>3. CASE \E b \in 0 .. wire, q \in Payloads : Within(b, owed, q) /\ Aligned(b, owed, q)
    <3>1. PICK b \in 0 .. w, q \in Payloads : Within(b, owed, q) /\ Aligned(b, owed, q)
      BY <1>1, <2>3
    <3>2. SUFFICES ASSUME NEW n \in Nat, n = owed
                   PROVE  Within(b, owed, q)' /\ Aligned(b, owed, q)'
      BY <1>1, <1>3, <2>1, <3>1
    <3>3. Within(b, n, q)' /\ Aligned(b, n, q)'
      BY <1>5, <1>6, <3>1, <3>2
    <3>4. owed' = n
      BY <3>2
    <3> QED  BY <3>3, <3>4 DEF Within, FrameAt, Aligned, Step
  <2> QED  BY <2>1, <2>2, <2>3
<1> QED  BY <1>7, <1>8, <1>9, <1>10

LEMMA SendKeeps ==
    ASSUME LinkInv, Send
    PROVE  LinkInv'
<1>1. PICK p \in Payloads :
         LET f == Encoded(frames + 1, p) IN
         /\ TX_RING_BYTES - (tx_head - Retired) >= Len(f)
         /\ tx_ring' = [i \in DOMAIN tx_ring |->
                          IF \E k \in 1 .. Len(f) : (tx_head + k - 1) % TX_RING_BYTES = i
                          THEN f[CHOOSE k \in 1 .. Len(f) : (tx_head + k - 1) % TX_RING_BYTES = i]
                          ELSE tx_ring[i]]
         /\ tx_head' = tx_head + Len(f)
         /\ queued' = queued \o f
  BY DEF Send
<1>2. /\ Kick(tx_head') /\ frames' = frames + 1
      /\ st' = st /\ got' = got /\ plen' = plen
      /\ delivered' = delivered /\ wire' = wire /\ damage' = damage /\ calm' = calm /\ owed' = owed
  BY DEF Send, parser
<1>3. Pushes(p)
  BY <1>1, <1>2 DEF Pushes
<1> DEFINE f == Encoded(frames + 1, p)
<1>4. f \in Seq(Symbols) /\ Len(f) \in Nat
  <2>1. frames + 1 \in Nat
    BY QueueTypes DEF LinkInv
  <2>2. f \in Seq(Symbols)
    BY <2>1, FrameForm
  <2> HIDE DEF f
  <2> QED  BY <2>2
<1>5. Positions /\ tx_head = Len(queued)
  BY TransferIs DEF LinkInv
<1>6. /\ tx_ring' \in [0 .. TX_RING_BYTES - 1 -> Symbols]
      /\ \A k \in wire + 1 .. Len(queued') : tx_ring'[(k - 1) % TX_RING_BYTES] = queued'[k]
  <2> HIDE DEF f
  <2>1. /\ TX_RING_BYTES - (tx_head - Retired) >= Len(f)
        /\ tx_ring' = [i \in DOMAIN tx_ring |->
                          IF \E k \in 1 .. Len(f) : (tx_head + k - 1) % TX_RING_BYTES = i
                          THEN f[CHOOSE k \in 1 .. Len(f) : (tx_head + k - 1) % TX_RING_BYTES = i]
                          ELSE tx_ring[i]]
        /\ queued' = queued \o f
    BY <1>1 DEF f
  <2> QED  BY <1>2, <1>4, <2>1, PushedRing DEF LinkInv
<1>7. Positions'
  <2> DEFINE h == tx_head'
  <2>1. Retired \in Nat /\ tx_head \in Nat
    BY <1>5, RetiredIsBehind DEF Positions
  <2>2. /\ h = tx_head + Len(f) /\ TX_RING_BYTES - (tx_head - Retired) >= Len(f)
    BY <1>1
  <2> HIDE DEF f
  <2>3. h \in Nat /\ tx_head <= h /\ h - Retired <= TX_RING_BYTES
    BY <1>4, <2>1, <2>2, RingSize
  <2> QED  BY <1>2, <1>5, <2>3, KickKeeps
<1>8. /\ queued' \in Seq(Symbols) /\ Len(queued') = tx_head'
  BY <1>1, <1>3, <1>4, <1>5, PushedSymbols, FrameForm, PayloadForm, QueueTypes DEF LinkInv, Positions
<1>9. LinkTypes'
  BY <1>2, <1>6, <1>7, <1>8 DEF LinkInv, LinkTypes, Positions
<1>10. Transfer'
  BY <1>2, <1>6, <1>7, <1>8 DEF Transfer, Positions, WireIsQueue
<1>11. Framed' /\ Placed' /\ ParserTypes' /\ Tracks' /\ Owes'
  BY <1>2, <1>3, PushedFramed, PushedTracks DEF LinkInv
<1> QED  BY <1>9, <1>10, <1>11 DEF LinkInv

\* What leaves the queue, the wire and the parser alone.
LEMMA SameTracks ==
    ASSUME queued' = queued, frames' = frames, wire' = wire, st' = st, got' = got, plen' = plen,
           calm' = calm, owed' = owed, delivered' = delivered
    PROVE  Placed /\ ParserTypes /\ Tracks /\ Owes => Placed' /\ ParserTypes' /\ Tracks' /\ Owes'
<1>1. \A b, n, p : Within(b, n, p)' <=> Within(b, n, p)
  BY SameQueue DEF Within
<1>2. Boundary(wire)' <=> Boundary(wire)
  BY DEF Boundary, Starts
<1>3. \A b, n, p : Aligned(b, n, p)' <=> Aligned(b, n, p)
  BY DEF Aligned, Step
<1>4. Placed => Placed'
  BY <1>1, <1>2 DEF Placed
<1>5. ParserTypes => ParserTypes'
  BY DEF ParserTypes
<1>6. Tracks => Tracks'
  <2>1. Hunting \/ Swallowing => Hunting' \/ Swallowing'
    BY DEF Hunting, Swallowing, Remaining
  <2>2. Following => Following'
    BY <1>1, <1>3 DEF Following
  <2> QED  BY <2>1, <2>2 DEF Tracks
<1>7. Owes => Owes'
  <2>1. \A b, p : Within(b, owed, p)' <=> Within(b, owed, p)
    BY DEF Within, FrameAt, Boundary, Starts
  <2>2. \A b, p : Aligned(b, owed, p)' <=> Aligned(b, owed, p)
    BY DEF Aligned, Step
  <2> QED  BY <1>2, <2>1, <2>2 DEF Owes, Hunting, Contains
<1> QED  BY <1>4, <1>5, <1>6, <1>7

LEMMA PollKeeps ==
    ASSUME LinkInv, Poll
    PROVE  LinkInv'
<1>1. /\ tx_ring' = tx_ring /\ tx_head' = tx_head /\ Kick(tx_head)
      /\ queued' = queued /\ frames' = frames /\ wire' = wire /\ st' = st /\ got' = got /\ plen' = plen
      /\ calm' = calm /\ owed' = owed /\ delivered' = delivered
  BY DEF Poll, parser, history
<1>2. Positions /\ tx_head = Len(queued)
      /\ \A k \in wire + 1 .. Len(queued) : tx_ring[(k - 1) % TX_RING_BYTES] = queued[k]
  BY TransferIs DEF LinkInv
<1>3. Positions'
  <2>1. ~Busy /\ Retired = wire /\ wire \in Nat /\ wire <= tx_head
    BY <1>2, RetiredIsBehind DEF Poll, Positions
  <2>2. tx_head - Retired <= TX_RING_BYTES
    BY <1>2, <2>1, RingSize DEF Positions
  <2> QED  BY <1>1, <1>2, <2>2, KickKeeps DEF Positions
<1>4. LinkTypes'
  BY <1>1, <1>3 DEF LinkInv, LinkTypes, Positions
<1>5. Transfer'
  BY <1>1, <1>2, <1>3 DEF Transfer, Positions, WireIsQueue
<1>6. Framed'
  BY <1>1, SameQueue DEF LinkInv
<1>7. Placed' /\ ParserTypes' /\ Tracks' /\ Owes'
  BY <1>1, SameTracks DEF LinkInv
<1> QED  BY <1>4, <1>5, <1>6, <1>7 DEF LinkInv

-----------------------------------------------------------------------------
(***************************************************************************)
(* The modem's steps.                                                      *)
(***************************************************************************)
LEMMA Appended ==
    ASSUME NEW g \in Seq(Symbols), NEW x \in Symbols
    PROVE  /\ Append(g, x) \in Seq(Symbols) /\ Len(Append(g, x)) = Len(g) + 1 /\ Len(g) \in Nat
           /\ \A i \in 1 .. Len(g) : Append(g, x)[i] = g[i]
           /\ Append(g, x)[Len(g) + 1] = x
OBVIOUS

\* Whatever symbol arrives, the parser's state stays sound.
LEMMA ParseTypes ==
    ASSUME ParserTypes, NEW x \in Symbols, x.kind = "len" => x.v <= MAX_PAYLOAD, Parse(x)
    PROVE  ParserTypes'
<1> USE RingSize
<1>1. got \in Seq(Symbols) /\ plen \in 0 .. MAX_PAYLOAD /\ Len(got) \in Nat /\ <<>> \in Seq(Symbols)
      /\ Len(<<>>) = 0
  BY DEF ParserTypes
<1>2. /\ Append(got, x) \in Seq(Symbols) /\ Len(Append(got, x)) = Len(got) + 1
  BY <1>1, Appended
<1>3. CASE st = "sync0" /\ OnSync0(x)
  <2>1. st' \in {"sync0", "sync1"} /\ got' = <<>> /\ plen' = 0
    BY <1>3 DEF OnSync0, Parser
  <2> QED  BY <1>1, <2>1 DEF ParserTypes
<1>4. CASE st = "sync1" /\ OnSync1(x)
  <2>1. st' \in {"sync0", "sync1", "head"} /\ got' = <<>> /\ plen' = 0
    BY <1>4 DEF OnSync1, Parser
  <2> QED  BY <1>1, <2>1 DEF ParserTypes
<1>5. CASE st = "head" /\ OnHead(x)
  <2>1. Len(got) <= 1
    BY <1>5 DEF ParserTypes
  <2>2. CASE Len(got) < 1
    BY <1>1, <1>2, <1>5, <2>2 DEF OnHead, Parser, ParserTypes
  <2>3. CASE ~(Len(got) < 1)
    <3>1. PICK n \in Lengths(x) :
            IF n = MAX_PAYLOAD + 1 THEN Parser("sync0", <<>>, 0)
            ELSE Parser(IF n > 0 THEN "payload" ELSE "crc", Append(got, x), n)
      BY <1>5, <2>3 DEF OnHead
    <3>2. n \in 0 .. MAX_PAYLOAD + 1
      <4>1. x.v \in Nat
        BY DEF Symbols, Flat
      <4> QED  BY <3>1, <4>1 DEF Lengths
    <3>3. CASE n = MAX_PAYLOAD + 1
      <4>1. st' = "sync0" /\ got' = <<>> /\ plen' = 0
        BY <3>1, <3>3 DEF Parser
      <4> QED  BY <1>1, <4>1 DEF ParserTypes
    <3>4. CASE n # MAX_PAYLOAD + 1
      <4>1. st' = (IF n > 0 THEN "payload" ELSE "crc") /\ got' = Append(got, x) /\ plen' = n
        BY <3>1, <3>4 DEF Parser
      <4>2. n \in 0 .. MAX_PAYLOAD /\ Len(got) = 1
        <5>1. n \in 0 .. MAX_PAYLOAD
          BY <3>2, <3>4
        <5>2. Len(got) = 1
          <6> DEFINE g == Len(got)
          <6>1. g \in Nat /\ g <= 1 /\ ~(g < 1)
            BY <1>1, <2>1, <2>3
          <6> HIDE DEF g
          <6>2. g = 1
            BY <6>1
          <6> QED  BY <6>2 DEF g
        <5> QED  BY <5>1, <5>2
      <4> QED  BY <1>2, <4>1, <4>2 DEF ParserTypes
    <3> QED  BY <3>3, <3>4
  <2> QED  BY <2>2, <2>3
<1>6. CASE st = "payload" /\ OnPayload(x)
  <2>1. 2 <= Len(got) /\ Len(got) < 2 + plen
    BY <1>6 DEF ParserTypes
  <2>2. st' = (IF Len(Append(got, x)) < 2 + plen THEN "payload" ELSE "crc")
        /\ got' = Append(got, x) /\ plen' = plen
    BY <1>6 DEF OnPayload, Parser
  <2> QED  BY <1>1, <1>2, <2>1, <2>2 DEF ParserTypes
<1>7. CASE st = "crc" /\ Parser("sync0", <<>>, 0)
  BY <1>1, <1>7 DEF Parser, ParserTypes
<1> QED  BY <1>3, <1>4, <1>5, <1>6, <1>7 DEF Parse

\* The longest the parser can be lost: a head just begun.
LEMMA RemainingBounded ==
    ASSUME ParserTypes
    PROVE  Remaining \in Nat /\ (~Hunting => Remaining <= MAX_PAYLOAD + 3 /\ Remaining >= 1)
BY RingSize DEF ParserTypes, Remaining, Hunting

\* Each symbol brings a parser that is swallowing closer to its next hunt.
LEMMA SwallowsOne ==
    ASSUME ParserTypes, ~Hunting, NEW x \in Symbols, x.kind = "len" => x.v <= MAX_PAYLOAD, Parse(x)
    PROVE  Hunting' \/ Remaining' <= Remaining - 1
<1> USE RingSize
<1>1. got \in Seq(Symbols) /\ plen \in 0 .. MAX_PAYLOAD /\ Len(got) \in Nat
  BY DEF ParserTypes
<1>2. Len(Append(got, x)) = Len(got) + 1
  BY <1>1, Appended
<1>3. CASE st = "head" /\ OnHead(x)
  <2>1. Len(got) <= 1 /\ Remaining = 3 - Len(got) + MAX_PAYLOAD
    BY <1>3 DEF ParserTypes, Remaining
  <2>2. CASE Len(got) < 1
    <3>1. st' = "head" /\ got' = Append(got, x)
      BY <1>3, <2>2 DEF OnHead, Parser
    <3>2. Remaining' = 3 - (Len(got) + 1) + MAX_PAYLOAD
      BY <1>2, <3>1 DEF Remaining
    <3> QED  BY <1>1, <2>1, <3>2
  <2>3. CASE ~(Len(got) < 1)
    <3>1. PICK n \in Lengths(x) :
            IF n = MAX_PAYLOAD + 1 THEN Parser("sync0", <<>>, 0)
            ELSE Parser(IF n > 0 THEN "payload" ELSE "crc", Append(got, x), n)
      BY <1>3, <2>3 DEF OnHead
    <3>2. n \in 0 .. MAX_PAYLOAD + 1
      <4>1. x.v \in Nat
        BY DEF Symbols, Flat
      <4> QED  BY <3>1, <4>1 DEF Lengths
    <3>3. CASE n = MAX_PAYLOAD + 1
      BY <3>1, <3>3 DEF Parser, Hunting
    <3>4. CASE n # MAX_PAYLOAD + 1
      <4>1. st' = (IF n > 0 THEN "payload" ELSE "crc") /\ Len(got') = Len(got) + 1 /\ plen' = n
        BY <1>2, <3>1, <3>4 DEF Parser
      <4>2. Remaining' = IF n > 0 THEN 3 + n - (Len(got) + 1) ELSE 1
        BY <4>1 DEF Remaining
      <4> QED  BY <1>1, <2>1, <2>3, <3>2, <3>4, <4>2
    <3> QED  BY <3>3, <3>4
  <2> QED  BY <2>2, <2>3
<1>4. CASE st = "payload" /\ OnPayload(x)
  <2>1. 2 <= Len(got) /\ Len(got) < 2 + plen /\ Remaining = 3 + plen - Len(got)
    BY <1>4 DEF ParserTypes, Remaining
  <2>2. st' = (IF Len(got) + 1 < 2 + plen THEN "payload" ELSE "crc")
        /\ Len(got') = Len(got) + 1 /\ plen' = plen
    BY <1>2, <1>4 DEF OnPayload, Parser
  <2>3. Remaining' = IF Len(got) + 1 < 2 + plen THEN 3 + plen - (Len(got) + 1) ELSE 1
    BY <2>2 DEF Remaining
  <2> QED  BY <1>1, <2>1, <2>3
<1>5. CASE st = "crc" /\ Parser("sync0", <<>>, 0)
  BY <1>5 DEF Parser, Hunting
<1> QED  BY <1>3, <1>4, <1>5 DEF Parse, Hunting

\* After damage the parser hunts, or swallows no more than a frame less its sync.
LEMMA DamageKeeps ==
    ASSUME LinkInv, Harmed \/ Disturbed
    PROVE  ParserTypes' /\ Tracks' /\ Owes'
<1>1. calm' = 0 /\ owed' = 0
  BY DEF Harmed, Disturbed
<1>2. ParserTypes'
  <2>1. Noise \in Symbols /\ Noise.kind = "noise"
    BY PlainIsFlat DEF Noise, Kinds, Symbols, Plain, Symbol
  <2>2. Parse(Noise) \/ UNCHANGED parser \/ Parser("sync0", <<>>, 0)
    BY DEF Harmed, Disturbed
  <2>3. CASE Parse(Noise)
    BY <2>1, <2>3, ParseTypes DEF LinkInv
  <2>4. CASE UNCHANGED parser
    BY <2>4 DEF LinkInv, ParserTypes, parser
  <2>5. CASE Parser("sync0", <<>>, 0)
    BY <2>5, RingSize DEF Parser, ParserTypes
  <2> QED  BY <2>2, <2>3, <2>4, <2>5
<1>3. Remaining' \in Nat /\ (~Hunting' => Remaining' <= MAX_PAYLOAD + 3)
  <2>1. ParserTypes => Remaining \in Nat /\ (~Hunting => Remaining <= MAX_PAYLOAD + 3)
    BY RemainingBounded
  <2>2. ParserTypes' => Remaining' \in Nat /\ (~Hunting' => Remaining' <= MAX_PAYLOAD + 3)
    BY RingSize DEF ParserTypes, Remaining, Hunting
  <2> QED  BY <1>2, <2>2
<1>4. Tracks'
  BY <1>1, <1>3 DEF Tracks, Swallowing
<1>5. Owes'
  BY <1>1 DEF Owes
<1> QED  BY <1>2, <1>4, <1>5

(* A parser that is in step with a frame stays in step, ...                *)
LEMMA StepOn ==
    ASSUME ParserTypes, NEW n \in Nat, NEW p \in Payloads, NEW j \in 1 .. 3 + Len(p), Step(j, n, p),
           NEW x \in Symbols, x = Encoded(n, p)[j + 1], Parse(x)
    PROVE  Step(j + 1, n, p)'
<1> USE RingSize
<1>1. got \in Seq(Symbols) /\ Len(p) \in Nat /\ Len(p) <= MAX_PAYLOAD
  BY PayloadForm DEF ParserTypes
<1> DEFINE f == Encoded(n, p)
           g == Append(got, x)
<1>2. /\ f[2].kind = "5A" /\ f[4].kind = "len" /\ f[4].v = Len(p)
  BY FrameKinds
<1>3. /\ Len(g) = Len(got) + 1 /\ Len(got) \in Nat
      /\ \A i \in 1 .. Len(got) : g[i] = got[i]
      /\ g[Len(got) + 1] = x
  BY <1>1, Appended
<1>4. CASE j = 1
  <2>1. st = "sync1" /\ x.kind = "5A"
    BY <1>2, <1>4 DEF Step
  <2>2. OnSync1(x)
    BY <2>1 DEF Parse
  <2>3. st' = "head" /\ got' = <<>>
    BY <2>1, <2>2 DEF OnSync1, MayBe, Surely, Parser
  <2>4. Len(got') = 0
    BY <2>3
  <2> QED  BY <1>4, <2>3, <2>4 DEF Step
<1>5. ASSUME j # 1 PROVE /\ Len(got) = j - 2
                         /\ \A i \in 1 .. j - 2 : got[i] = f[i + 2]
                         /\ st = IF j < 4 THEN "head" ELSE IF j < 4 + Len(p) THEN "payload" ELSE "crc"
                         /\ j >= 4 => plen = Len(p)
  BY <1>5 DEF Step
<1>6. ASSUME j # 1 PROVE Len(g) = j + 1 - 2 /\ \A i \in 1 .. j + 1 - 2 : g[i] = f[i + 2]
  <2>1. Len(g) = j + 1 - 2
    BY <1>3, <1>5, <1>6
  <2>2. ASSUME NEW i \in 1 .. j + 1 - 2 PROVE g[i] = f[i + 2]
    <3>1. CASE i <= j - 2
      <4>1. i \in 1 .. j - 2 /\ i \in 1 .. Len(got)
        BY <1>5, <1>6, <3>1
      <4> QED  BY <1>3, <1>5, <1>6, <4>1
    <3>2. CASE i = j - 1
      <4>1. i = Len(got) + 1 /\ i + 2 = j + 1
        BY <1>3, <1>5, <1>6, <3>2
      <4> QED  BY <1>3, <4>1
    <3>3. i <= j - 2 \/ i = j - 1
      <4>1. j \in Nat /\ i \in Nat /\ i <= j - 1
        BY <1>1
      <4> QED  BY <4>1
    <3> QED  BY <3>1, <3>2, <3>3, Zenon
  <2> QED  BY <2>1, <2>2
<1>7. CASE j = 2
  <2>1. st = "head" /\ Len(got) < 1
    BY <1>5, <1>7
  <2>2. OnHead(x)
    BY <2>1 DEF Parse
  <2>3. st' = "head" /\ got' = g
    BY <2>1, <2>2 DEF OnHead, Parser
  <2> HIDE DEF f, g
  <2> QED  BY <1>6, <1>7, <2>3 DEF Step, f
<1>8. CASE j = 3
  <2>1. st = "head" /\ ~(Len(got) < 1)
    <3>1. j # 1 /\ j < 4 /\ j - 2 = 1
      BY <1>8
    <3>2. st = "head" /\ Len(got) = j - 2
      BY <1>5, <3>1
    <3> QED  BY <1>3, <3>1, <3>2
  <2>2. OnHead(x)
    BY <2>1 DEF Parse
  <2>3. x.kind = "len" /\ x.v = Len(p)
    BY <1>2, <1>8
  <2>4. Lengths(x) = {Len(p)}
    BY <2>3 DEF Lengths
  <2>5. Len(p) # MAX_PAYLOAD + 1
    BY <1>1
  <2>6. Parser(IF Len(p) > 0 THEN "payload" ELSE "crc", g, Len(p))
    BY <2>1, <2>2, <2>4, <2>5 DEF OnHead
  <2>7. st' = (IF Len(p) > 0 THEN "payload" ELSE "crc") /\ got' = g /\ plen' = Len(p)
    BY <2>6 DEF Parser
  <2>8. Len(p) > 0 <=> j + 1 < 4 + Len(p)
    BY <1>1, <1>8
  <2> HIDE DEF f, g
  <2> QED  BY <1>6, <1>8, <2>7, <2>8 DEF Step, f
<1>9. CASE j >= 4
  <2>1. st = "payload" /\ plen = Len(p) /\ Len(g) = j - 1
    BY <1>1, <1>5, <1>6, <1>9
  <2>2. OnPayload(x)
    BY <2>1 DEF Parse
  <2>3. st' = (IF Len(g) < 2 + plen THEN "payload" ELSE "crc") /\ got' = g /\ plen' = plen
    BY <2>2 DEF OnPayload, Parser
  <2>4. Len(g) < 2 + plen <=> j + 1 < 4 + Len(p)
    BY <1>1, <2>1
  <2> HIDE DEF f, g
  <2> QED  BY <1>6, <1>9, <2>1, <2>3, <2>4 DEF Step, f
<1> QED  BY <1>4, <1>7, <1>8, <1>9

(* ... and takes its last symbol for what it is.                           *)
LEMMA StepEnds ==
    ASSUME ParserTypes, NEW n \in Nat, NEW p \in Payloads, Step(4 + Len(p), n, p),
           NEW x \in Symbols, x = Encoded(n, p)[5 + Len(p)], Parse(x)
    PROVE  Hunting' /\ Delivers(x) /\ x.v = n
<1>1. got \in Seq(Symbols) /\ Len(p) \in Nat
  BY PayloadForm DEF ParserTypes
<1>2. /\ x.kind = "crc" /\ x.v = n /\ x.body = Covered(n, p)
  <2> DEFINE f == Encoded(n, p)
  <2>1. f[5 + Len(p)].kind = "crc" /\ f[5 + Len(p)].v = n /\ f[5 + Len(p)].body = Covered(n, p)
    BY FrameKinds
  <2>2. x = f[5 + Len(p)]
    OBVIOUS
  <2> QED  BY <2>1, <2>2
<1>3. /\ st = "crc" /\ Len(got) = 2 + Len(p)
      /\ \A i \in 1 .. 2 + Len(p) : got[i] = Encoded(n, p)[i + 2]
  <2>1. 4 + Len(p) # 1 /\ 4 + Len(p) - 2 = 2 + Len(p) /\ ~(4 + Len(p) < 4) /\ ~(4 + Len(p) < 4 + Len(p))
    BY <1>1
  <2> QED  BY <2>1 DEF Step
<1>4. got = Covered(n, p)
  <2>1. Covered(n, p) \in Seq(Flat) /\ Len(Covered(n, p)) = 2 + Len(p)
    BY BodyForm
  <2>2. \A i \in 1 .. 2 + Len(p) : got[i] = Covered(n, p)[i]
    BY <1>3, FrameForm
  <2> DEFINE body == Covered(n, p)
  <2>3. body \in Seq(Flat) /\ Len(body) = Len(got) /\ \A i \in 1 .. Len(got) : got[i] = body[i]
    BY <1>3, <2>1, <2>2
  <2> HIDE DEF body
  <2>4. got = body
    BY <1>1, <2>3
  <2> QED  BY <2>4 DEF body
<1>5. Parser("sync0", <<>>, 0)
  BY <1>3 DEF Parse
<1> QED  BY <1>2, <1>3, <1>4, <1>5 DEF Hunting, Delivers, Fits, Parser

-----------------------------------------------------------------------------
(***************************************************************************)
(* A symbol arrives.                                                       *)
(***************************************************************************)
LEMMA Arrival ==
    ASSUME LinkInv, Arrives, NEW w \in Nat, w = wire
    PROVE  /\ w + 1 \in 1 .. Len(queued) /\ queued[w + 1] \in Symbols
           /\ OnWire = queued[w + 1] /\ Parse(queued[w + 1])
           /\ queued[w + 1].kind = "len" => queued[w + 1].v <= MAX_PAYLOAD
           /\ queued[w + 1].kind # "noise"
           /\ delivered' = IF Delivers(queued[w + 1]) THEN Append(delivered, queued[w + 1].v) ELSE delivered
           /\ calm' = IF calm < FRAME_MAX THEN calm + 1 ELSE calm
           /\ owed' = IF Starts(w + 1) > 0 /\ calm >= FRAME_MAX THEN Starts(w + 1) ELSE owed
           /\ wire' = w + 1 /\ queued' = queued /\ frames' = frames
<1>1. Busy /\ wire' = w + 1 /\ queued' = queued /\ frames' = frames
  BY DEF Arrives, DmaMoves
<1>2. w + 1 \in 1 .. Len(queued) /\ queued[w + 1] \in Symbols /\ OnWire = queued[w + 1]
  BY <1>1, ReadsOldest DEF LinkInv
<1>3. /\ Parse(OnWire)
      /\ delivered' = IF Delivers(OnWire) THEN Append(delivered, OnWire.v) ELSE delivered
      /\ calm' = IF calm < FRAME_MAX THEN calm + 1 ELSE calm
      /\ owed' = IF Starts(w + 1) > 0 /\ calm >= FRAME_MAX THEN Starts(w + 1) ELSE owed
  BY DEF Arrives
<1>4. queued[w + 1].kind # "noise" /\ (queued[w + 1].kind = "len" => queued[w + 1].v <= MAX_PAYLOAD)
  BY <1>2 DEF LinkInv, Framed
<1> QED  BY <1>1, <1>2, <1>3, <1>4

\* Symbol w + 1 begins a frame or belongs to one.
LEMMA InAFrame ==
    ASSUME LinkInv, Busy, NEW w \in Nat, w = wire
    PROVE  \/ /\ Boundary(w) /\ Starts(w + 1) \in 1 .. frames
              /\ \E p \in Payloads : FrameAt(w, Starts(w + 1), p)
           \/ \E b \in 0 .. w, n \in 1 .. frames, p \in Payloads : Within(b, n, p)
<1>1. w + 1 \in 1 .. Len(queued) /\ Len(queued) \in Nat
  BY ReadsOldest, QueueTypes DEF LinkInv
<1>2. CASE Boundary(w)
  <2>1. w \in 0 .. Len(queued) - 1 /\ Starts(w + 1) > 0
    BY <1>1, <1>2 DEF Boundary
  <2> QED  BY <1>2, <2>1 DEF LinkInv, Framed
<1>3. CASE ~Boundary(w)
  BY <1>3 DEF LinkInv, Placed
<1> QED  BY <1>2, <1>3

\* No frame begins within another, and the queue does not end there.
LEMMA NoStartWithin ==
    ASSUME LinkInv, NEW w \in Nat, w = wire,
           NEW b \in 0 .. w, NEW n \in Nat, NEW p \in Payloads, Within(b, n, p)
    PROVE  ~(Starts(w + 1) > 0) /\ w < Len(queued)
<1>1. /\ FrameAt(b, n, p) /\ b \in Nat /\ b < w /\ w < b + Len(Encoded(n, p))
      /\ queued \in Seq(Symbols) /\ Len(queued) \in Nat
  BY QueueTypes DEF Within, LinkInv
<1>2. Len(p) \in Nat /\ Len(Encoded(n, p)) = 5 + Len(p) /\ b + 5 + Len(p) <= Len(queued)
  BY <1>1, FrameSymbols
<1>3. \A j \in 1 .. 4 + Len(p) : Starts(b + j + 1) = 0
  BY <1>1, FrameStarts
<1> DEFINE j == w - b
<1>4. j \in 1 .. 4 + Len(p) /\ b + j + 1 = w + 1
  BY <1>1, <1>2
<1> HIDE DEF j
<1>5. Starts(b + j + 1) = 0
  BY <1>3, <1>4
<1> QED  BY <1>1, <1>2, <1>4, <1>5

\* The j-th symbol of the frame is behind the parser, the next one arrives.
LEMMA FollowsOn ==
    ASSUME LinkInv, Arrives, NEW w \in Nat, w = wire,
           NEW b \in 0 .. w, NEW n \in 1 .. frames, NEW p \in Payloads, Within(b, n, p), Aligned(b, n, p)
    PROVE  \/ Within(b, n, p)' /\ Aligned(b, n, p)'
           \/ /\ Boundary(w + 1) /\ Hunting'
              /\ delivered' = Append(delivered, n)
<1>1. /\ FrameAt(b, n, p) /\ n \in Nat /\ b \in Nat /\ b < w /\ w < b + Len(Encoded(n, p))
      /\ w \in Nat /\ frames \in Nat
  BY QueueTypes DEF Within, LinkInv
<1>2. /\ Len(p) \in Nat /\ Len(Encoded(n, p)) = 5 + Len(p) /\ Boundary(b + 5 + Len(p))
      /\ \A i \in 1 .. 5 + Len(p) : queued[b + i] = Encoded(n, p)[i]
  <2>1. Len(p) \in Nat /\ Len(Encoded(n, p)) = 5 + Len(p)
    BY <1>1, FrameSymbols
  <2>2. Boundary(b + 5 + Len(p))
    <3>1. b + Len(Encoded(n, p)) = b + 5 + Len(p)
      BY <1>1, <2>1
    <3>2. Boundary(b + Len(Encoded(n, p)))
      BY <1>1 DEF FrameAt
    <3> QED  BY <3>1, <3>2
  <2>3. \A i \in 1 .. 5 + Len(p) : queued[b + i] = Encoded(n, p)[i]
    BY <1>1, <2>1 DEF FrameAt
  <2> QED  BY <2>1, <2>2, <2>3
<1> DEFINE j == w - b
           x == queued[w + 1]
<1>3. j \in 1 .. 4 + Len(p) /\ b + (j + 1) = w + 1 /\ j + 1 \in 1 .. 5 + Len(p)
  BY <1>1, <1>2
<1>4. Step(j, n, p)
  BY DEF Aligned
<1>5. /\ x \in Symbols /\ Parse(x) /\ wire' = w + 1 /\ queued' = queued
      /\ delivered' = IF Delivers(x) THEN Append(delivered, x.v) ELSE delivered
  BY Arrival
<1>6. ParserTypes
  BY DEF LinkInv
<1>7. x = Encoded(n, p)[j + 1]
  <2> HIDE DEF j
  <2>1. queued[b + (j + 1)] = Encoded(n, p)[j + 1]
    BY <1>2, <1>3
  <2> QED  BY <1>3, <2>1
<1>8. w + 1 - b = j + 1
  BY <1>1
<1> HIDE DEF j, x
<1>9. CASE j = 4 + Len(p)
  <2>1. j + 1 = 5 + Len(p) /\ b + 5 + Len(p) = w + 1
    BY <1>1, <1>2, <1>3, <1>9
  <2>2. Hunting' /\ Delivers(x) /\ x.v = n
    BY <1>1, <1>4, <1>5, <1>6, <1>7, <1>9, <2>1, StepEnds
  <2> QED  BY <1>2, <1>5, <2>1, <2>2
<1>10. CASE j \in 1 .. 3 + Len(p)
  <2>1. Step(j + 1, n, p)'
    BY <1>1, <1>4, <1>5, <1>6, <1>7, <1>10, StepOn
  <2>2. wire' - b = j + 1
    BY <1>5, <1>8
  <2>3. Aligned(b, n, p)'
    BY <2>1, <2>2 DEF Aligned, Step
  <2>4. FrameAt(b, n, p)'
    BY <1>1, <1>5, SameQueue
  <2>5. b < w + 1 /\ w + 1 < b + Len(Encoded(n, p))
    BY <1>1, <1>2, <1>3, <1>10
  <2> QED  BY <1>5, <2>3, <2>4, <2>5 DEF Within
<1>11. j = 4 + Len(p) \/ j \in 1 .. 3 + Len(p)
  BY <1>2, <1>3
<1> QED  BY <1>9, <1>10, <1>11

\* A hunting parser finds every sync, and nothing but a sync.
LEMMA HuntsOn ==
    ASSUME LinkInv, Arrives, Hunting, NEW w \in Nat, w = wire
    PROVE  /\ Hunting' \/ Following'
           /\ Starts(w + 1) > 0 => st' = "sync1"
<1> DEFINE x == queued[w + 1]
<1>1. /\ w + 1 \in 1 .. Len(queued) /\ x \in Symbols /\ Parse(x) /\ x.kind # "noise"
      /\ wire' = w + 1 /\ queued' = queued /\ frames' = frames
  BY Arrival
<1>2. Starts(w + 1) > 0 => x.kind = "A5"
  BY DEF Starts
<1>3. CASE st = "sync0"
  <2>1. OnSync0(x)
    BY <1>1, <1>3 DEF Parse
  <2>2. st' \in {"sync0", "sync1"} /\ (x.kind = "A5" => st' = "sync1")
    BY <2>1 DEF OnSync0, Parser, Surely
  <2> QED  BY <1>2, <2>2 DEF Hunting
<1>4. CASE st = "sync1" /\ x.kind # "5A"
  <2>1. OnSync1(x)
    BY <1>1, <1>4 DEF Parse
  <2>2. st' \in {"sync0", "sync1"} /\ (x.kind = "A5" => st' = "sync1")
    BY <1>1, <1>4, <2>1 DEF OnSync1, Parser, Surely, MayBe
  <2> QED  BY <1>2, <2>2 DEF Hunting
<1>5. CASE st = "sync1" /\ x.kind = "5A"
  <2>1. w + 1 > 1 /\ Starts(w + 1 - 1) > 0
    BY <1>1, <1>5 DEF LinkInv, Framed
  <2> DEFINE b == w - 1
  <2>2. b \in Nat /\ b \in 0 .. w /\ b + 1 = w /\ w + 1 - 1 = w /\ Len(queued) \in Nat
        /\ b \in 0 .. Len(queued) - 1 /\ w - b = 1
    BY <1>1, <2>1, QueueTypes DEF LinkInv
  <2> HIDE DEF b
  <2>3. Starts(b + 1) > 0
    BY <2>1, <2>2
  <2>4. Starts(b + 1) \in 1 .. frames /\ \E p \in Payloads : FrameAt(b, Starts(b + 1), p)
    BY <2>2, <2>3 DEF LinkInv, Framed
  <2>5. PICK n \in 1 .. frames, p \in Payloads : FrameAt(b, n, p)
    BY <2>4
  <2>6. n \in Nat /\ frames \in Nat
    BY QueueTypes DEF LinkInv
  <2>7. Len(Encoded(n, p)) = 5 + Len(p) /\ Len(p) \in Nat
    BY <2>6, FrameForm, PayloadForm
  <2>8. Within(b, n, p)
    <3>1. b < w /\ w < b + Len(Encoded(n, p))
      BY <2>2, <2>7
    <3> QED  BY <2>5, <3>1 DEF Within
  <2>9. Aligned(b, n, p)
    BY <1>5, <2>2 DEF Aligned, Step
  <2>10. (Within(b, n, p)' /\ Aligned(b, n, p)') \/ Hunting'
    BY <2>2, <2>8, <2>9, FollowsOn
  <2>11. b \in 0 .. w + 1
    BY <2>2
  <2>12. Within(b, n, p)' /\ Aligned(b, n, p)' => Following'
    BY <1>1, <2>11 DEF Following
  <2>13. ~(Starts(w + 1) > 0)
    BY <1>2, <1>5
  <2> QED  BY <2>10, <2>12, <2>13
<1> QED  BY <1>3, <1>4, <1>5 DEF Hunting

LEMMA MovesTransfer ==
    ASSUME LinkTypes, Transfer, DmaMoves, UNCHANGED <<tx_ring, tx_head, tx_tail, tx_inflight, queued>>
    PROVE  Transfer'
<1>1. moved' = moved + 1 /\ wire' = wire + 1 /\ moved + 1 <= tx_inflight /\ moved \in Nat /\ wire \in Nat
  BY DEF DmaMoves, Busy, LinkTypes
<1>2. tx_tail' + moved' = wire'
  BY <1>1 DEF Transfer, WireIsQueue, LinkTypes
<1>3. \A k \in wire' + 1 .. Len(queued') : tx_ring'[(k - 1) % TX_RING_BYTES] = queued'[k]
  <2>1. Len(queued) \in Nat
    BY DEF LinkTypes
  <2>2. SUFFICES ASSUME NEW k \in wire + 1 + 1 .. Len(queued)
                 PROVE  tx_ring[(k - 1) % TX_RING_BYTES] = queued[k]
    BY <1>1
  <2>3. k \in wire + 1 .. Len(queued)
    BY <1>1, <2>1
  <2> QED  BY <2>3 DEF Transfer, WireIsQueue
<1> QED  BY <1>1, <1>2, <1>3 DEF Transfer, WireIsQueue

LEMMA MovesPlaced ==
    ASSUME LinkInv, DmaMoves, queued' = queued, frames' = frames
    PROVE  Placed'
<1>1. SUFFICES ASSUME NEW w \in Nat, w = wire PROVE Placed'
  BY QueueTypes DEF LinkInv
<1>2. wire' = w + 1 /\ queued' = queued /\ frames' = frames /\ Busy
  BY <1>1 DEF DmaMoves
<1>3. frames \in Nat
  BY QueueTypes DEF LinkInv
<1>4. ASSUME NEW b \in 0 .. w, NEW n \in 1 .. frames, NEW p \in Payloads, FrameAt(b, n, p),
             w < b + Len(Encoded(n, p))
      PROVE  Placed'
  <2>1. n \in Nat /\ b \in Nat
    BY <1>3
  <2>2. Len(p) \in Nat /\ Len(Encoded(n, p)) = 5 + Len(p)
    BY <2>1, FrameForm, PayloadForm
  <2>3. CASE w + 1 < b + Len(Encoded(n, p))
    <3>1. b < w + 1 /\ b \in 0 .. w + 1
      OBVIOUS
    <3>2. FrameAt(b, n, p)'
      BY <1>2, <1>4, SameQueue
    <3>3. Within(b, n, p)'
      BY <1>2, <2>3, <3>1, <3>2 DEF Within
    <3> QED  BY <1>2, <3>1, <3>3 DEF Placed
  <2>4. CASE w + 1 = b + Len(Encoded(n, p))
    <3>1. Boundary(b + Len(Encoded(n, p)))
      BY <1>4 DEF FrameAt
    <3>2. Boundary(w + 1)
      BY <2>4, <3>1
    <3>3. Boundary(wire)'
      BY <1>2, <3>2 DEF Boundary, Starts
    <3> QED  BY <3>3 DEF Placed
  <2> QED  BY <1>4, <2>1, <2>2, <2>3, <2>4
<1>5. CASE Boundary(w) /\ Starts(w + 1) \in 1 .. frames /\ \E p \in Payloads : FrameAt(w, Starts(w + 1), p)
  <2>1. PICK n \in 1 .. frames, p \in Payloads : FrameAt(w, n, p)
    BY <1>5
  <2>2. n \in Nat /\ w \in 0 .. w
    BY <1>3
  <2>3. Len(p) \in Nat /\ Len(Encoded(n, p)) = 5 + Len(p)
    BY <2>2, FrameForm, PayloadForm
  <2>4. w < w + Len(Encoded(n, p))
    BY <2>3
  <2> QED  BY <1>4, <2>1, <2>2, <2>4
<1>6. CASE \E b \in 0 .. w, n \in 1 .. frames, p \in Payloads : Within(b, n, p)
  BY <1>1, <1>4, <1>6 DEF Within
<1> QED  BY <1>1, <1>2, <1>5, <1>6, InAFrame

LEMMA ArrivesTracks ==
    ASSUME LinkInv, Arrives
    PROVE  Tracks'
<1> USE RingSize
<1>1. SUFFICES ASSUME NEW w \in Nat, w = wire PROVE Tracks'
  BY QueueTypes DEF LinkInv
<1> DEFINE x == queued[w + 1]
<1>2. /\ x \in Symbols /\ Parse(x)
      /\ x.kind = "len" => x.v <= MAX_PAYLOAD
      /\ calm' = IF calm < FRAME_MAX THEN calm + 1 ELSE calm
      /\ wire' = w + 1 /\ queued' = queued /\ frames' = frames
  BY <1>1, Arrival
<1>3. ParserTypes /\ calm \in Nat /\ FRAME_MAX = MAX_PAYLOAD + 5
  BY DEF LinkInv, LinkTypes, FRAME_MAX, HDR_BYTES, CRC_BYTES
<1>4. CASE Hunting
  BY <1>1, <1>4, HuntsOn DEF Tracks
<1>5. CASE Swallowing
  <2>1. ~Hunting /\ calm + Remaining <= MAX_PAYLOAD + 3
    BY <1>5 DEF Swallowing
  <2>2. Remaining \in Nat /\ Remaining >= 1
    BY <1>3, <2>1, RemainingBounded
  <2>3. calm' = calm + 1
    BY <1>2, <1>3, <2>1, <2>2
  <2> HIDE DEF x
  <2>4. Hunting' \/ Remaining' <= Remaining - 1
    BY <1>2, <1>3, <2>1, SwallowsOne
  <2>5. Remaining' \in Nat
    <3>1. ParserTypes'
      BY <1>2, <1>3, ParseTypes
    <3>2. ParserTypes' => Remaining' \in Nat
      BY DEF ParserTypes, Remaining
    <3> QED  BY <3>1, <3>2
  <2>6. CASE Remaining' <= Remaining - 1
    <3> DEFINE r == Remaining
               r1 == Remaining'
               q == calm
    <3>1. /\ r \in Nat /\ r1 \in Nat /\ q \in Nat /\ r1 <= r - 1 /\ q + r <= MAX_PAYLOAD + 3
          /\ MAX_PAYLOAD \in Nat
      BY <1>3, <2>1, <2>2, <2>5, <2>6
    <3> HIDE DEF r, r1, q
    <3>2. q + 1 + r1 <= MAX_PAYLOAD + 3
      BY <3>1
    <3>3. calm' + Remaining' <= MAX_PAYLOAD + 3
      BY <2>3, <3>2 DEF q, r1
    <3> QED  BY <3>3 DEF Tracks, Swallowing
  <2> QED  BY <2>4, <2>6 DEF Tracks
<1>6. CASE Following
  <2>1. PICK b \in 0 .. w, n \in 1 .. frames, p \in Payloads : Within(b, n, p) /\ Aligned(b, n, p)
    BY <1>1, <1>6 DEF Following
  <2>2. (Within(b, n, p)' /\ Aligned(b, n, p)') \/ Hunting'
    BY <1>1, <2>1, FollowsOn
  <2>3. b \in 0 .. w + 1
    OBVIOUS
  <2>4. Within(b, n, p)' /\ Aligned(b, n, p)' => Following'
    BY <1>2, <2>3 DEF Following
  <2> QED  BY <2>2, <2>4 DEF Tracks
<1> QED  BY <1>4, <1>5, <1>6 DEF LinkInv, Tracks

\* Past the longest frame of calm a frame that begins finds the parser hunting.
LEMMA CalmHunts ==
    ASSUME LinkInv, calm >= FRAME_MAX, NEW w \in Nat, w = wire, Starts(w + 1) > 0
    PROVE  Hunting
<1> USE RingSize
<1>1. ParserTypes /\ calm \in Nat /\ FRAME_MAX = MAX_PAYLOAD + 5
  BY DEF LinkInv, LinkTypes, FRAME_MAX, HDR_BYTES, CRC_BYTES
<1>2. ~Swallowing
  <2> SUFFICES ASSUME ~Hunting, calm + Remaining <= MAX_PAYLOAD + 3 PROVE FALSE
    BY DEF Swallowing
  <2>1. Remaining \in Nat /\ Remaining >= 1
    BY <1>1, RemainingBounded
  <2> QED  BY <1>1, <2>1
<1>3. ~Following
  <2> SUFFICES ASSUME NEW b \in 0 .. w, NEW n \in 1 .. frames, NEW p \in Payloads, Within(b, n, p)
               PROVE  FALSE
    BY DEF Following
  <2>1. ~(Starts(w + 1) > 0)
    BY NoStartWithin
  <2> QED  BY <2>1
<1> QED  BY <1>2, <1>3 DEF LinkInv, Tracks

LEMMA ArrivesOwes ==
    ASSUME LinkInv, Arrives
    PROVE  Owes'
<1> USE RingSize
<1>1. SUFFICES ASSUME NEW w \in Nat, w = wire PROVE Owes'
  BY QueueTypes DEF LinkInv
<1>2. /\ w + 1 \in 1 .. Len(queued)
      /\ calm' = IF calm < FRAME_MAX THEN calm + 1 ELSE calm
      /\ owed' = IF Starts(w + 1) > 0 /\ calm >= FRAME_MAX THEN Starts(w + 1) ELSE owed
      /\ wire' = w + 1 /\ queued' = queued /\ frames' = frames
  BY <1>1, Arrival
<1>3. /\ calm \in 0 .. FRAME_MAX /\ FRAME_MAX \in Nat /\ owed \in Nat /\ frames \in Nat
      /\ Len(queued) \in Nat /\ delivered \in Seq(Nat)
  BY QueueTypes DEF LinkInv, LinkTypes, FRAME_MAX, HDR_BYTES, CRC_BYTES
<1>4. CASE Starts(w + 1) > 0 /\ calm >= FRAME_MAX
  <2>1. PICK n \in 1 .. frames, p \in Payloads : n = Starts(w + 1) /\ FrameAt(w, n, p)
    <3>1. w \in 0 .. Len(queued) - 1
      BY <1>2, <1>3
    <3> QED  BY <1>4, <3>1 DEF LinkInv, Framed
  <2>2. n \in Nat /\ w \in 0 .. w + 1 /\ w + 1 - w = 1 /\ w < w + 1
    BY <1>3
  <2>3. owed' = n /\ calm' = FRAME_MAX
    BY <1>2, <1>3, <1>4, <2>1
  <2>4. st' = "sync1"
    BY <1>1, <1>4, CalmHunts, HuntsOn
  <2>5. Within(w, n, p)'
    <3>1. FrameAt(w, n, p)'
      BY <1>2, <2>1, SameQueue
    <3>2. w + 1 < w + Len(Encoded(n, p))
      <4>1. Len(Encoded(n, p)) = 5 + Len(p) /\ Len(p) \in Nat
        BY <2>2, FrameForm, PayloadForm
      <4> QED  BY <4>1
    <3> QED  BY <1>2, <2>2, <3>1, <3>2 DEF Within
  <2>6. Aligned(w, n, p)'
    BY <1>2, <2>2, <2>4 DEF Aligned, Step
  <2>7. Within(w, owed, p)' /\ Aligned(w, owed, p)'
    BY <2>3, <2>5, <2>6 DEF Within, FrameAt, Aligned, Step
  <2> QED  BY <1>2, <2>2, <2>3, <2>7 DEF Owes
<1>5. CASE ~(Starts(w + 1) > 0 /\ calm >= FRAME_MAX)
  <2>1. owed' = owed
    BY <1>2, <1>5
  <2> SUFFICES ASSUME owed > 0 PROVE Owes'
    BY <2>1 DEF Owes
  <2>2. /\ calm = FRAME_MAX
        /\ \/ Boundary(wire) /\ Hunting /\ Contains(delivered, owed)
           \/ \E b \in 0 .. wire, p \in Payloads : Within(b, owed, p) /\ Aligned(b, owed, p)
    BY DEF LinkInv, Owes
  <2>3. ~(Starts(w + 1) > 0) /\ calm' = FRAME_MAX
    BY <1>2, <1>3, <1>5, <2>2
  <2>4. ~Boundary(wire)
    BY <1>1, <1>2, <1>3, <2>3 DEF Boundary
  <2>5. PICK b \in 0 .. w, p \in Payloads : Within(b, owed, p) /\ Aligned(b, owed, p)
    BY <1>1, <2>2, <2>4
  <2>6. SUFFICES ASSUME NEW n \in Nat, n = owed PROVE Owes'
    BY <1>3
  <2>7. Within(b, n, p) /\ Aligned(b, n, p)
    BY <2>5, <2>6
  <2>8. n \in 1 .. frames
    <3>1. FrameAt(b, n, p) /\ b < w /\ b \in Nat /\ queued \in Seq(Symbols)
      BY <1>1, <2>7, QueueTypes DEF Within, LinkInv
    <3>2. Starts(b + 1) = n
      BY <3>1, FrameStarts
    <3>3. b \in 0 .. Len(queued) - 1
      BY <1>2, <1>3, <3>1
    <3>4. Starts(b + 1) > 0
      BY <2>6, <3>2
    <3> QED  BY <3>2, <3>3, <3>4 DEF LinkInv, Framed
  <2>9. \/ Within(b, n, p)' /\ Aligned(b, n, p)'
        \/ Boundary(w + 1) /\ Hunting' /\ delivered' = Append(delivered, n)
    BY <1>1, <2>7, <2>8, FollowsOn
  <2>10. CASE Within(b, n, p)' /\ Aligned(b, n, p)'
    <3>1. owed' = n /\ b \in 0 .. w + 1
      BY <2>1, <2>6
    <3>2. Within(b, owed, p)' /\ Aligned(b, owed, p)'
      BY <2>10, <3>1 DEF Within, FrameAt, Aligned, Step
    <3> QED  BY <1>2, <2>3, <3>1, <3>2 DEF Owes
  <2>11. CASE Boundary(w + 1) /\ Hunting' /\ delivered' = Append(delivered, n)
    <3>1. Contains(delivered, owed)'
      <4>1. Len(delivered') = Len(delivered) + 1 /\ Len(delivered) \in Nat /\ delivered'[Len(delivered) + 1] = n
        BY <1>3, <2>11
      <4>2. owed' = n
        BY <2>1, <2>6
      <4> QED  BY <4>1, <4>2 DEF Contains
    <3>2. Boundary(wire)'
      BY <1>2, <2>11 DEF Boundary, Starts
    <3> QED  BY <2>3, <2>11, <3>1, <3>2 DEF Owes
  <2> QED  BY <2>9, <2>10, <2>11
<1> QED  BY <1>4, <1>5

LEMMA ArrivesKeeps ==
    ASSUME LinkInv, Arrives
    PROVE  LinkInv'
<1> USE RingSize
<1>1. SUFFICES ASSUME NEW w \in Nat, w = wire PROVE LinkInv'
  BY QueueTypes DEF LinkInv
<1> DEFINE x == queued[w + 1]
<1>2. /\ x \in Symbols /\ x.v \in Nat
      /\ Parse(x)
      /\ x.kind = "len" => x.v <= MAX_PAYLOAD
      /\ delivered' = IF Delivers(x) THEN Append(delivered, x.v) ELSE delivered
      /\ calm' = IF calm < FRAME_MAX THEN calm + 1 ELSE calm
      /\ owed' = IF Starts(w + 1) > 0 /\ calm >= FRAME_MAX THEN Starts(w + 1) ELSE owed
      /\ wire' = w + 1 /\ queued' = queued /\ frames' = frames
  BY <1>1, Arrival, QueueTypes DEF LinkInv
<1>3. /\ calm \in 0 .. FRAME_MAX /\ FRAME_MAX \in Nat /\ owed \in Nat /\ frames \in Nat
      /\ Len(queued) \in Nat /\ delivered \in Seq(Nat)
  BY QueueTypes DEF LinkInv, LinkTypes, FRAME_MAX, HDR_BYTES, CRC_BYTES
<1>4. DmaMoves /\ UNCHANGED <<tx_ring, tx_head, tx_tail, tx_inflight>>
  BY DEF Arrives
<1>5. LinkTypes'
  <2>1. calm' \in 0 .. FRAME_MAX
    BY <1>2, <1>3
  <2>2. owed' \in Nat
    <3>1. w \in 0 .. Len(queued) - 1
      BY <1>1, <1>3, Arrival
    <3>2. Starts(w + 1) > 0 => Starts(w + 1) \in 1 .. frames
      BY <3>1 DEF LinkInv, Framed
    <3> QED  BY <1>2, <1>3, <3>2
  <2>3. delivered' \in Seq(Nat)
    <3> HIDE DEF x
    <3>1. Append(delivered, x.v) \in Seq(Nat)
      BY <1>2, <1>3
    <3> QED  BY <1>2, <1>3, <3>1
  <2>4. moved' \in Nat /\ wire' \in Nat
    BY <1>2, <1>4 DEF DmaMoves, LinkInv, LinkTypes
  <2> HIDE DEF x
  <2> QED  BY <1>2, <1>4, <2>1, <2>2, <2>3, <2>4 DEF LinkInv, LinkTypes
<1>6. Transfer'
  BY <1>2, <1>4, MovesTransfer DEF LinkInv
<1>7. Framed'
  BY <1>2, SameQueue DEF LinkInv
<1>8. Placed'
  BY <1>2, <1>4, MovesPlaced
<1>9. ParserTypes'
  <2> HIDE DEF x
  <2> QED  BY <1>2, ParseTypes DEF LinkInv
<1> QED  BY <1>5, <1>6, <1>7, <1>8, <1>9, ArrivesTracks, ArrivesOwes DEF LinkInv

LEMMA HarmedKeeps ==
    ASSUME LinkInv, Harmed
    PROVE  LinkInv'
<1>1. /\ DmaMoves /\ calm' = 0 /\ owed' = 0
      /\ UNCHANGED <<tx_ring, tx_head, tx_tail, tx_inflight, queued, frames, delivered>>
  BY DEF Harmed
<1>2. LinkTypes'
  <2>1. moved' \in Nat /\ wire' \in Nat
    BY <1>1 DEF DmaMoves, LinkInv, LinkTypes
  <2>2. calm' \in 0 .. FRAME_MAX
    BY <1>1, RingSize DEF FRAME_MAX, HDR_BYTES, CRC_BYTES
  <2> QED  BY <1>1, <2>1, <2>2 DEF LinkInv, LinkTypes
<1>3. Transfer'
  BY <1>1, MovesTransfer DEF LinkInv
<1>4. Framed'
  BY <1>1, SameQueue DEF LinkInv
<1>5. Placed'
  BY <1>1, MovesPlaced
<1> QED  BY <1>2, <1>3, <1>4, <1>5, DamageKeeps DEF LinkInv

LEMMA DisturbedKeeps ==
    ASSUME LinkInv, Disturbed
    PROVE  LinkInv'
<1>1. /\ calm' = 0 /\ owed' = 0
      /\ UNCHANGED <<tx_ring, tx_head, tx_tail, tx_inflight, moved, queued, frames, delivered, wire>>
  BY DEF Disturbed, ring
<1>2. LinkTypes'
  <2>1. calm' \in 0 .. FRAME_MAX
    BY <1>1, RingSize DEF FRAME_MAX, HDR_BYTES, CRC_BYTES
  <2> QED  BY <1>1, <2>1 DEF LinkInv, LinkTypes
<1>3. Transfer'
  BY <1>1 DEF LinkInv, Transfer, WireIsQueue
<1>4. Framed'
  BY <1>1, SameQueue DEF LinkInv
<1>5. Placed'
  <2>1. \A b, n, p : Within(b, n, p)' <=> Within(b, n, p)
    BY <1>1, SameQueue DEF Within
  <2> QED  BY <1>1, <2>1 DEF LinkInv, Placed, Boundary, Starts
<1> QED  BY <1>2, <1>3, <1>4, <1>5, DamageKeeps DEF LinkInv

LEMMA StutterKeeps ==
    ASSUME LinkInv, UNCHANGED linkVars
    PROVE  LinkInv'
<1>1. /\ UNCHANGED <<tx_ring, tx_head, tx_tail, tx_inflight, moved>>
      /\ UNCHANGED <<st, got, plen>>
      /\ UNCHANGED <<queued, frames, delivered, wire, damage, calm, owed>>
  BY DEF linkVars, ring, parser, history
<1>2. LinkTypes' /\ Transfer'
  BY <1>1 DEF LinkInv, LinkTypes, Transfer, WireIsQueue
<1>3. Framed'
  BY <1>1, SameQueue DEF LinkInv
<1>4. Placed' /\ ParserTypes' /\ Tracks' /\ Owes'
  BY <1>1, SameTracks DEF LinkInv
<1> QED  BY <1>2, <1>3, <1>4 DEF LinkInv

-----------------------------------------------------------------------------
(***************************************************************************)
(* Every reachable state of the link: the transfer under way is the oldest *)
(* part of the queue, the queue is frame after frame, and the parser hunts *)
(* for a sync, follows the frame on the wire, or swallows no more symbols  *)
(* than are left of the longest frame since the last harm (tx_kick,        *)
(* modem_link_send2 and parse_byte).                                       *)
(***************************************************************************)
THEOREM LinkInvariant == LinkSpec => []LinkInv
<1>1. LinkInit => LinkInv
  BY InitLinkInv
<1>2. LinkInv /\ [LinkNext]_linkVars => LinkInv'
  BY SendKeeps, PollKeeps, ArrivesKeeps, HarmedKeeps, DisturbedKeeps, StutterKeeps DEF LinkNext
<1> QED  BY <1>1, <1>2, PTL DEF LinkSpec

(***************************************************************************)
(* The DMA sends what modem_link_send2 queued, in that order and once,     *)
(* however the ring wraps, and no transfer runs past its end.              *)
(***************************************************************************)
THEOREM SentAsQueued == LinkSpec => []WireIsQueue
<1>1. LinkInv => WireIsQueue
  BY DEF LinkInv, Transfer
<1> QED  BY <1>1, LinkInvariant, PTL

(***************************************************************************)
(* Whatever the wire does, a frame that begins after the longest frame of  *)
(* calm is delivered: parse_byte is never lost for longer than that.       *)
(***************************************************************************)
THEOREM LossEnds == LinkSpec => []LossIsBounded
<1>1. ASSUME LinkInv PROVE LossIsBounded
  <2>1. SUFFICES ASSUME owed > 0, wire = Len(queued) \/ Starts(wire + 1) > 0,
                        NEW w \in Nat, w = wire
                 PROVE  Contains(delivered, owed)
    BY <1>1, QueueTypes DEF LossIsBounded, LinkInv
  <2>2. \/ Boundary(wire) /\ Hunting /\ Contains(delivered, owed)
        \/ \E b \in 0 .. w, p \in Payloads : Within(b, owed, p)
    BY <1>1, <2>1 DEF LinkInv, Owes
  <2>3. ASSUME NEW b \in 0 .. w, NEW p \in Payloads, Within(b, owed, p) PROVE FALSE
    <3>1. owed \in Nat /\ Len(queued) \in Nat
      BY <1>1, QueueTypes DEF LinkInv, LinkTypes
    <3>2. ~(Starts(w + 1) > 0) /\ w < Len(queued)
      BY <1>1, <2>1, <2>3, <3>1, NoStartWithin
    <3> QED  BY <2>1, <3>1, <3>2
  <2> QED  BY <2>2, <2>3
<1>2. LinkInv => LossIsBounded
  BY <1>1
<1> QED  BY <1>2, LinkInvariant, PTL

-----------------------------------------------------------------------------
(***************************************************************************)
(* HTTP over the link: a request's window adds up, and its answer arrives  *)
(* whole and in order unless a frame was lost.                             *)
(***************************************************************************)
AnyFrames == [what : {"get", "credit", "cancel", "status", "body", "done", "hello", "up"},
              id : Nat, from : Nat, n : Nat, err : Errors]

IsAnswer(m) == m.what \in {"status", "body", "done"}

(***************************************************************************)
(* The invariant of ModemHttp.                                             *)
(***************************************************************************)
ModemFrames ==
    {m \in AnyFrames : m.what \in {"get", "credit", "cancel"} /\ m.id \in Nat \ {0}}
HostFrames ==
    {m \in AnyFrames : m.what \in {"status", "body", "done", "hello", "up"} /\ (IsAnswer(m) => m.id \in Nat \ {0})}

Tasks == [pc : {"idle", "head", "body", "read", "store"}, id : Nat, size : Nat, sent : Nat, want : Nat, n : Nat, seen : Nat]
Hearings == [status : BOOLEAN, next : Nat, size : Nat, foreign : BOOLEAN, result : Errors, ends : Nat]

HttpTypes ==
    /\ c \in [id : Nat, active : BOOLEAN, unacked : Nat, up : BOOLEAN]
    /\ toModem \in Seq(ModemFrames) /\ toHost \in Seq(HostFrames)
    /\ req_q \in Seq(Nat \ {0}) /\ Len(req_q) <= 1
    /\ t \in Tasks
    /\ credit \in Nat /\ slip \in Nat
    /\ cancelled \in BOOLEAN /\ joined \in BOOLEAN /\ lost \in BOOLEAN
    /\ heard \in Hearings

\* What the request task's locals are, at each place of run().
Locals ==
    /\ t.id = 0 <=> t.pc = "idle"
    /\ t.sent <= t.size
    /\ t.pc \in {"idle", "head"} => t.sent = 0
    /\ t.pc = "read" => t.want <= credit
    /\ t.pc = "store" => t.n \in 1 .. t.size - t.sent /\ t.n <= t.seen /\ t.seen <= credit

Waits(id) ==
    \/ \E i \in 1 .. Len(toModem) : toModem[i].what = "get" /\ toModem[i].id = id
    \/ \E i \in 1 .. Len(req_q) : req_q[i] = id

\* A request is in one place, and no other has its name.
OnePlace ==
    /\ t.id <= c.id
    /\ \A i \in 1 .. Len(toModem) : toModem[i].id <= c.id
    /\ \A i \in 1 .. Len(toHost) : IsAnswer(toHost[i]) => toHost[i].id <= c.id
    /\ \A i \in 1 .. Len(req_q) : req_q[i] <= c.id
    /\ \A i, j \in 1 .. Len(toModem) :
         toModem[i].what = "get" /\ toModem[j].what = "get" /\ toModem[i].id = toModem[j].id => i = j
    /\ \A i \in 1 .. Len(toModem), j \in 1 .. Len(req_q) : toModem[i].what = "get" => toModem[i].id # req_q[j]
    /\ ~Waits(t.id)

\* Nothing is said of a request before the modem has begun it.
Unbegun ==
    \A id \in Nat : Waits(id) =>
        /\ \A j \in 1 .. Len(toHost) : IsAnswer(toHost[j]) => toHost[j].id # id
        /\ \A i \in 1 .. Len(toModem) : toModem[i].what = "credit" => toModem[i].id # id
        /\ c.id = id => c.unacked = 0
        /\ c.id = id /\ c.active => ~heard.status /\ heard.next = 0

\* The window of the request that runs: with the modem, on the link, not granted back, granted, slipped.
Window ==
    credit + Units(toHost, "body", t.id) + (IF c.id = t.id THEN c.unacked ELSE 0)
        + Units(toModem, "credit", t.id) + slip

Balanced ==
    /\ t.pc # "idle" => Window <= HTTP_WINDOW
    /\ t.pc # "idle" /\ c.active /\ c.id = t.id => Window = HTTP_WINDOW
    /\ \A id \in Nat : Units(toHost, "body", id) <= HTTP_WINDOW

\* Before frame j of q the sink has been told of the answer's head.
Introduced(q, h, id, j) == h.status \/ \E l \in 1 .. j - 1 : q[l].id = id /\ q[l].what = "status"

\* Before frame j of q the sink has been given all units before n, and not one more.
Reaches(q, h, id, j, n) ==
    /\ h.next = n \/ \E l \in 1 .. j - 1 : q[l].id = id /\ q[l].what = "body" /\ q[l].from + q[l].n = n
    /\ h.next <= n
    /\ \A l \in 1 .. j - 1 : q[l].id = id /\ q[l].what = "body" => q[l].from + q[l].n <= n

\* What the sink has heard (h), the frames of its answer under way, and the task tk tell one answer of that size.
Told(q, h, id, size) ==
    /\ h.status => h.size = size
    /\ \A j \in 1 .. Len(q) : q[j].id = id =>
         /\ q[j].what = "status" =>
              /\ q[j].n = size /\ ~h.status /\ h.next = 0
              /\ \A l \in 1 .. j - 1 : ~(IsAnswer(q[l]) /\ q[l].id = id)
         /\ q[j].what = "body" => q[j].n > 0 /\ Introduced(q, h, id, j) /\ Reaches(q, h, id, j, q[j].from)
         /\ q[j].what = "done" => \A l \in j + 1 .. Len(q) : ~(IsAnswer(q[l]) /\ q[l].id = id)
         /\ q[j].what = "done" /\ q[j].err = "ok" => Introduced(q, h, id, j) /\ Reaches(q, h, id, j, size)

\* The task goes on where the frames under way leave off.
GoesOn(q, h, id, size, tk) ==
    /\ \A j \in 1 .. Len(q) : q[j].what = "done" => q[j].id # id
    /\ tk.pc = "head" => ~h.status /\ h.next = 0 /\ \A j \in 1 .. Len(q) : IsAnswer(q[j]) => q[j].id # id
    /\ tk.pc # "head" => tk.size = size /\ Introduced(q, h, id, Len(q) + 1) /\ Reaches(q, h, id, Len(q) + 1, tk.sent)

OneAnswer ==
    c.active /\ ~lost =>
        \E size \in Nat :
            /\ Told(toHost, heard, c.id, size)
            /\ t.id = c.id => GoesOn(toHost, heard, c.id, size, t)

Unended == c.active => heard.result = "none" /\ c.id # 0

HttpInv == HttpTypes /\ Locals /\ OnePlace /\ Unbegun /\ Balanced /\ OneAnswer /\ Unended /\ OwnAnswer

-----------------------------------------------------------------------------
(* Sums over the frames of a channel. *)

LEMMA LeastNumber ==
    ASSUME NEW S \in SUBSET Nat, S # {}
    PROVE  \E m \in S : \A n \in S : m <= n
<1> DEFINE R == {p \in Nat \X Nat : p[1] < p[2]}
<1>1. IsWellFoundedOn(R, Nat)
  BY NatLessThanWellFounded, Zenon DEF OpToRel
<1>2. PICK m \in S : \A n \in S : ~ (<<n, m>> \in R)
  <2> HIDE DEF R
  <2> QED  BY <1>1, WFMin
<1>3. \A n \in S : m <= n
  <2> SUFFICES ASSUME NEW n \in S, n < m PROVE FALSE
    OBVIOUS
  <2>1. <<n, m>> \in R
    OBVIOUS
  <2> QED  BY <1>2, <2>1
<1> QED  BY <1>3

\* Induction up to n, over a set that holds 0 and with every number the next.
LEMMA Climb ==
    ASSUME NEW S, NEW n \in Nat, 0 \in S, \A k \in 0 .. n - 1 : k \in S => k + 1 \in S
    PROVE  \A k \in 0 .. n : k \in S
<1> SUFFICES ASSUME NEW k \in 0 .. n, k \notin S PROVE FALSE
  OBVIOUS
<1> DEFINE T == {j \in 0 .. n : j \notin S}
<1>1. T \in SUBSET Nat /\ T # {}
  OBVIOUS
<1>2. PICK m \in T : \A j \in T : m <= j
  <2> HIDE DEF T
  <2> QED  BY <1>1, LeastNumber
<1>3. m \in 1 .. n /\ m \notin S
  BY <1>2
<1>4. m - 1 \notin T
  BY <1>2, <1>3
<1>5. m - 1 \in 0 .. n - 1 /\ m - 1 \in S
  BY <1>3, <1>4
<1>6. (m - 1) + 1 \in S
  BY <1>5
<1> QED  BY <1>3, <1>6

Counted(ch) == ch \in Seq(AnyFrames)

\* s is what Units adds up, frame by frame.
Sums(s, ch, what, id) ==
    /\ s \in [0 .. Len(ch) -> Nat] /\ s[0] = 0
    /\ \A k \in 1 .. Len(ch) : s[k] = s[k - 1] + Part(ch[k], what, id)

LEMMA PartNat ==
    ASSUME NEW ch, Counted(ch), NEW what, NEW id, NEW k \in 1 .. Len(ch)
    PROVE  Part(ch[k], what, id) \in Nat
<1>1. ch[k] \in AnyFrames
  BY DEF Counted
<1>2. ch[k].n \in Nat
  BY <1>1 DEF AnyFrames
<1> QED  BY <1>2 DEF Part

LEMMA SumsExist ==
    ASSUME NEW ch, Counted(ch), NEW what, NEW id
    PROVE  \E s : Sums(s, ch, what, id)
<1> DEFINE P(k) == Part(ch[k], what, id)
           S == {m \in 0 .. Len(ch) : \E s \in [0 .. m -> Nat] : s[0] = 0 /\ \A k \in 1 .. m : s[k] = s[k - 1] + P(k)}
<1>1. Len(ch) \in Nat /\ \A k \in 1 .. Len(ch) : P(k) \in Nat
  <2>1. Len(ch) \in Nat
    BY DEF Counted
  <2>2. ASSUME NEW k \in 1 .. Len(ch) PROVE P(k) \in Nat
    BY PartNat
  <2> QED  BY <2>1, <2>2
<1> HIDE DEF P
<1>2. 0 \in S
  <2>1. [j \in {0} |-> 0] \in [0 .. 0 -> Nat] /\ 0 \in 0 .. Len(ch)
    BY <1>1
  <2>2. [j \in {0} |-> 0][0] = 0 /\ 1 .. 0 = {}
    OBVIOUS
  <2> QED  BY <2>1, <2>2
<1>3. ASSUME NEW m \in 0 .. Len(ch) - 1, m \in S PROVE m + 1 \in S
  <2>1. PICK s \in [0 .. m -> Nat] : s[0] = 0 /\ \A k \in 1 .. m : s[k] = s[k - 1] + P(k)
    BY <1>3
  <2> DEFINE r == [j \in 0 .. m + 1 |-> IF j <= m THEN s[j] ELSE s[m] + P(m + 1)]
  <2>2. m \in Nat /\ m + 1 \in 1 .. Len(ch) /\ P(m + 1) \in Nat
    BY <1>1
  <2>3. r \in [0 .. m + 1 -> Nat]
    BY <2>1, <2>2
  <2>4. r[0] = 0
    BY <2>1, <2>2
  <2>5. ASSUME NEW k \in 1 .. m + 1 PROVE r[k] = r[k - 1] + P(k)
    <3>1. CASE k <= m
      BY <2>1, <2>2, <3>1
    <3>2. CASE k = m + 1
      BY <2>1, <2>2, <3>2
    <3> QED  BY <2>2, <3>1, <3>2
  <2> HIDE DEF r
  <2>6. m + 1 \in 0 .. Len(ch) /\ \E x \in [0 .. m + 1 -> Nat] : x[0] = 0 /\ \A k \in 1 .. m + 1 : x[k] = x[k - 1] + P(k)
    <3>1. m + 1 \in 0 .. Len(ch)
      BY <1>1, <2>2
    <3> QED  BY <2>3, <2>4, <2>5, <3>1
  <2> QED  BY <2>6
<1> HIDE DEF S
<1>4. Len(ch) \in S
  <2>1. \A m \in 0 .. Len(ch) - 1 : m \in S => m + 1 \in S
    BY <1>3
  <2>2. \A k \in 0 .. Len(ch) : k \in S
    BY <1>1, <1>2, <2>1, Climb
  <2> QED  BY <1>1, <2>2
<1> QED  BY <1>4 DEF S, P, Sums

\* Two sums that grow alike and begin alike are alike.
LEMMA SumsAgree ==
    ASSUME NEW n \in Nat, NEW s, NEW r, s[0] = r[0],
           \A k \in 1 .. n : s[k - 1] = r[k - 1] => s[k] = r[k]
    PROVE  \A k \in 0 .. n : s[k] = r[k]
<1> DEFINE S == {k \in 0 .. n : s[k] = r[k]}
<1>1. 0 \in S
  OBVIOUS
<1>2. ASSUME NEW k \in 0 .. n - 1, k \in S PROVE k + 1 \in S
  <2>1. k + 1 \in 1 .. n /\ (k + 1) - 1 = k
    OBVIOUS
  <2>2. s[k + 1] = r[k + 1]
    BY <1>2, <2>1
  <2> QED  BY <2>1, <2>2
<1> HIDE DEF S
<1>3. \A k \in 0 .. n : k \in S
  BY <1>1, <1>2, Climb
<1> QED  BY <1>3 DEF S

LEMMA UnitsSum ==
    ASSUME NEW ch, Counted(ch), NEW what, NEW id
    PROVE  \E s : Sums(s, ch, what, id) /\ Units(ch, what, id) = s[Len(ch)]
<1>1. PICK s : Sums(s, ch, what, id)
  BY SumsExist
<1> DEFINE F(g) == [k \in 0 .. Len(ch) |-> IF k = 0 THEN 0 ELSE g[k - 1] + Part(ch[k], what, id)]
           g == CHOOSE g : g = F(g)
<1>2. Units(ch, what, id) = g[Len(ch)]
  BY DEF Units
<1>3. Len(ch) \in Nat
  BY DEF Counted
<1>4. s = F(s)
  BY <1>1, <1>3 DEF Sums
<1>5. g = F(g)
  BY <1>4
<1> HIDE DEF g
<1>6. g[0] = s[0]
  BY <1>1, <1>3, <1>5 DEF Sums
<1>7. ASSUME NEW k \in 1 .. Len(ch), g[k - 1] = s[k - 1] PROVE g[k] = s[k]
  <2>1. g[k] = g[k - 1] + Part(ch[k], what, id)
    <3>1. k \in 0 .. Len(ch) /\ k # 0
      BY <1>3
    <3> QED  BY <1>5, <3>1
  <2> QED  BY <1>1, <1>7, <2>1 DEF Sums
<1> HIDE DEF F
<1>8. \A k \in 0 .. Len(ch) : g[k] = s[k]
  BY <1>3, <1>6, <1>7, SumsAgree
<1> QED  BY <1>1, <1>2, <1>3, <1>8

\* Whatever adds up frame by frame is what Units adds up.
LEMMA UnitsIs ==
    ASSUME NEW ch, Counted(ch), NEW what, NEW id, NEW r, Sums(r, ch, what, id)
    PROVE  Units(ch, what, id) = r[Len(ch)]
<1>1. PICK s : Sums(s, ch, what, id) /\ Units(ch, what, id) = s[Len(ch)]
  BY UnitsSum
<1>2. Len(ch) \in Nat
  BY DEF Counted
<1>3. \A k \in 0 .. Len(ch) : s[k] = r[k]
  <2>1. s[0] = r[0]
    BY <1>1 DEF Sums
  <2>2. \A k \in 1 .. Len(ch) : s[k - 1] = r[k - 1] => s[k] = r[k]
    BY <1>1 DEF Sums
  <2> QED  BY <1>2, <2>1, <2>2, SumsAgree
<1> QED  BY <1>1, <1>2, <1>3

LEMMA UnitsNat ==
    ASSUME NEW ch, Counted(ch), NEW what, NEW id
    PROVE  Units(ch, what, id) \in Nat
<1>1. PICK s : Sums(s, ch, what, id) /\ Units(ch, what, id) = s[Len(ch)]
  BY UnitsSum
<1> QED  BY <1>1 DEF Sums, Counted

\* Of what no frame is about there is none.
LEMMA UnitsNone ==
    ASSUME NEW ch, Counted(ch), NEW what, NEW id, \A k \in 1 .. Len(ch) : ch[k].what = what => ch[k].id # id
    PROVE  Units(ch, what, id) = 0
<1> DEFINE r == [k \in 0 .. Len(ch) |-> 0]
<1>1. Sums(r, ch, what, id)
  BY DEF Sums, Part, Counted
<1>2. r[Len(ch)] = 0
  BY DEF Counted
<1> HIDE DEF r
<1> QED  BY <1>1, <1>2, UnitsIs

LEMMA UnitsAppend ==
    ASSUME NEW ch, NEW m, Counted(ch), Counted(Append(ch, m)), NEW what, NEW id
    PROVE  Units(Append(ch, m), what, id) = Units(ch, what, id) + Part(m, what, id)
<1>1. PICK s : Sums(s, Append(ch, m), what, id) /\ Units(Append(ch, m), what, id) = s[Len(Append(ch, m))]
  BY UnitsSum
<1>2. /\ Len(ch) \in Nat /\ Len(Append(ch, m)) = Len(ch) + 1
      /\ \A k \in 1 .. Len(ch) : Append(ch, m)[k] = ch[k]
      /\ Append(ch, m)[Len(ch) + 1] = m
  BY DEF Counted
<1> DEFINE r == [k \in 0 .. Len(ch) |-> s[k]]
<1>3. Sums(r, ch, what, id)
  BY <1>1, <1>2 DEF Sums
<1>4. r[Len(ch)] = s[Len(ch)]
  BY <1>2
<1> HIDE DEF r
<1>5. s[Len(ch) + 1] = s[Len(ch)] + Part(m, what, id)
  BY <1>1, <1>2 DEF Sums
<1>6. Units(ch, what, id) = s[Len(ch)]
  BY <1>3, <1>4, UnitsIs
<1> QED  BY <1>1, <1>2, <1>5, <1>6

LEMMA UnitsTail ==
    ASSUME NEW ch, Counted(ch), ch # <<>>, NEW what, NEW id
    PROVE  /\ Counted(Tail(ch))
           /\ Units(ch, what, id) = Part(Head(ch), what, id) + Units(Tail(ch), what, id)
<1>1. Counted(Tail(ch)) /\ Len(ch) \in Nat /\ Len(Tail(ch)) = Len(ch) - 1 /\ Head(ch) = ch[1] /\ Len(ch) > 0
  BY DEF Counted
<1>2. \A k \in 1 .. Len(ch) - 1 : Tail(ch)[k] = ch[k + 1]
  BY <1>1 DEF Counted
<1>3. PICK s : Sums(s, Tail(ch), what, id) /\ Units(Tail(ch), what, id) = s[Len(Tail(ch))]
  BY <1>1, UnitsSum
<1> DEFINE p == Part(ch[1], what, id)
           r == [k \in 0 .. Len(ch) |-> IF k = 0 THEN 0 ELSE p + s[k - 1]]
<1>4. p \in Nat
  <2>1. 1 \in 1 .. Len(ch)
    BY <1>1
  <2> QED  BY <2>1, PartNat
<1> HIDE DEF p
<1>5. Sums(r, ch, what, id)
  <2>1. r \in [0 .. Len(ch) -> Nat] /\ r[0] = 0
    BY <1>1, <1>3, <1>4 DEF Sums
  <2>2. ASSUME NEW k \in 1 .. Len(ch) PROVE r[k] = r[k - 1] + Part(ch[k], what, id)
    <3>1. CASE k = 1
      BY <1>1, <1>3, <1>4, <3>1 DEF Sums, p
    <3>2. CASE k > 1
      <4>1. k - 1 \in 1 .. Len(Tail(ch)) /\ Tail(ch)[k - 1] = ch[k]
        BY <1>1, <1>2, <3>2
      <4>2. s[k - 1] = s[k - 1 - 1] + Part(ch[k], what, id) /\ s[k - 1 - 1] \in Nat
        <5>1. s[k - 1] = s[k - 1 - 1] + Part(Tail(ch)[k - 1], what, id)
          BY <1>3, <4>1 DEF Sums
        <5>2. k - 1 - 1 \in 0 .. Len(Tail(ch))
          BY <1>1, <3>2
        <5> QED  BY <1>3, <4>1, <5>1, <5>2 DEF Sums
      <4>3. Part(ch[k], what, id) \in Nat
        BY PartNat
      <4> HIDE DEF p
      <4> QED  BY <1>1, <1>4, <3>2, <4>2, <4>3
    <3> QED  BY <1>1, <3>1, <3>2
  <2> QED  BY <2>1, <2>2 DEF Sums
<1>6. r[Len(ch)] = p + s[Len(ch) - 1]
  BY <1>1
<1> HIDE DEF r
<1> QED  BY <1>1, <1>3, <1>5, <1>6, UnitsIs DEF p

-----------------------------------------------------------------------------
(* Queues of frames. *)

LEMMA Queues ==
    ASSUME NEW p \in Seq(ModemFrames), NEW q \in Seq(HostFrames)
    PROVE  Counted(p) /\ Counted(q)
BY DEF Counted, ModemFrames, HostFrames

LEMMA Queued ==
    ASSUME HttpTypes
    PROVE  Counted(toModem) /\ Counted(toHost)
BY Queues DEF HttpTypes

LEMMA HostFrame ==
    ASSUME NEW q \in Seq(HostFrames), NEW j \in 1 .. Len(q)
    PROVE  q[j] \in HostFrames /\ q[j].id \in Nat /\ q[j].n \in Nat /\ q[j].from \in Nat
<1>1. q[j] \in HostFrames
  OBVIOUS
<1> QED  BY <1>1 DEF HostFrames, AnyFrames

LEMMA ModemFrame ==
    ASSUME NEW q \in Seq(ModemFrames), NEW j \in 1 .. Len(q)
    PROVE  q[j] \in ModemFrames /\ q[j].id \in Nat \ {0} /\ q[j].n \in Nat
<1>1. q[j] \in ModemFrames
  OBVIOUS
<1> QED  BY <1>1 DEF ModemFrames, AnyFrames

LEMMA Shifted ==
    ASSUME NEW F, NEW q \in Seq(F), q # <<>>
    PROVE  /\ Tail(q) \in Seq(F) /\ Len(q) \in Nat /\ Len(q) > 0 /\ Len(Tail(q)) = Len(q) - 1
           /\ Head(q) = q[1] /\ q[1] \in F
           /\ \A j \in 1 .. Len(q) - 1 : Tail(q)[j] = q[j + 1] /\ j + 1 \in 1 .. Len(q)
OBVIOUS

LEMMA Grown ==
    ASSUME NEW F, NEW q \in Seq(F), NEW m \in F
    PROVE  /\ Append(q, m) \in Seq(F) /\ Len(q) \in Nat /\ Len(Append(q, m)) = Len(q) + 1
           /\ \A j \in 1 .. Len(q) : Append(q, m)[j] = q[j] /\ j \in 1 .. Len(Append(q, m))
           /\ Append(q, m)[Len(q) + 1] = m
OBVIOUS

-----------------------------------------------------------------------------
(* What the sink has heard and the frames under way, taken at one end and added to at the other. *)

\* The sink takes the first frame.
TakesIn(q, h, id, h2) ==
    /\ h2.status = (h.status \/ (q[1].id = id /\ q[1].what = "status"))
    /\ h2.size = (IF q[1].id = id /\ q[1].what = "status" THEN q[1].n ELSE h.size)
    /\ h2.next = (IF q[1].id = id /\ q[1].what = "body" THEN q[1].from + q[1].n ELSE h.next)

LEMMA IntroducedTail ==
    ASSUME NEW q \in Seq(HostFrames), q # <<>>, NEW h, NEW h2, NEW id, TakesIn(q, h, id, h2),
           NEW j \in 1 .. Len(q), Introduced(q, h, id, j + 1)
    PROVE  Introduced(Tail(q), h2, id, j)
<1>1. Len(q) \in Nat /\ Len(Tail(q)) = Len(q) - 1 /\ \A k \in 1 .. Len(q) - 1 : Tail(q)[k] = q[k + 1]
  BY Shifted
<1>2. CASE h.status
  BY <1>2 DEF Introduced, TakesIn
<1>3. ASSUME NEW l \in 1 .. j, q[l].id = id, q[l].what = "status" PROVE Introduced(Tail(q), h2, id, j)
  <2>1. CASE l = 1
    BY <1>3, <2>1 DEF Introduced, TakesIn
  <2>2. CASE l # 1
    <3>1. l - 1 \in 1 .. j - 1 /\ l - 1 \in 1 .. Len(q) - 1 /\ Tail(q)[l - 1] = q[l]
      BY <1>1, <2>2
    <3> QED  BY <1>3, <3>1 DEF Introduced
  <2> QED  BY <2>1, <2>2
<1>4. (j + 1) - 1 = j
  BY <1>1
<1> QED  BY <1>2, <1>3, <1>4 DEF Introduced

LEMMA ReachesTail ==
    ASSUME NEW q \in Seq(HostFrames), q # <<>>, NEW h \in Hearings, NEW h2 \in Hearings, NEW id, TakesIn(q, h, id, h2),
           q[1].id = id /\ q[1].what = "body" => q[1].n > 0 /\ h.next = q[1].from,
           NEW n \in Nat, NEW j \in 1 .. Len(q), Reaches(q, h, id, j + 1, n)
    PROVE  Reaches(Tail(q), h2, id, j, n)
<1>1. Len(q) \in Nat /\ Len(Tail(q)) = Len(q) - 1 /\ \A k \in 1 .. Len(q) - 1 : Tail(q)[k] = q[k + 1]
  BY Shifted
<1>2. h.next \in Nat /\ h2.next \in Nat /\ q[1].from \in Nat /\ q[1].n \in Nat /\ 1 \in 1 .. j
  <2>1. 1 \in 1 .. Len(q) /\ 1 \in 1 .. j
    BY <1>1
  <2> QED  BY <2>1, HostFrame DEF Hearings
<1>3. (j + 1) - 1 = j
  BY <1>1
<1>4. h2.next <= n
  BY <1>2, <1>3 DEF Reaches, TakesIn
<1>5. ASSUME NEW l \in 1 .. j - 1, Tail(q)[l].id = id, Tail(q)[l].what = "body"
      PROVE  Tail(q)[l].from + Tail(q)[l].n <= n
  <2>1. l + 1 \in 1 .. j /\ Tail(q)[l] = q[l + 1]
    BY <1>1
  <2> QED  BY <1>3, <1>5, <2>1 DEF Reaches
<1>6. h2.next = n \/ \E l \in 1 .. j - 1 : Tail(q)[l].id = id /\ Tail(q)[l].what = "body" /\ Tail(q)[l].from + Tail(q)[l].n = n
  <2>1. CASE h.next = n
    BY <1>2, <1>3, <2>1 DEF Reaches, TakesIn
  <2>2. ASSUME NEW l \in 1 .. j, q[l].id = id, q[l].what = "body", q[l].from + q[l].n = n
        PROVE  h2.next = n \/ \E k \in 1 .. j - 1 : Tail(q)[k].id = id /\ Tail(q)[k].what = "body" /\ Tail(q)[k].from + Tail(q)[k].n = n
    <3>1. CASE l = 1
      BY <2>2, <3>1 DEF TakesIn
    <3>2. CASE l # 1
      <4>1. l - 1 \in 1 .. j - 1 /\ l - 1 \in 1 .. Len(q) - 1 /\ Tail(q)[l - 1] = q[l]
        BY <1>1, <3>2
      <4>2. Tail(q)[l - 1].id = id /\ Tail(q)[l - 1].what = "body" /\ Tail(q)[l - 1].from + Tail(q)[l - 1].n = n
        BY <2>2, <4>1
      <4> QED  BY <4>1, <4>2
    <3> QED  BY <3>1, <3>2
  <2> QED  BY <1>3, <2>1, <2>2 DEF Reaches
<1> QED  BY <1>4, <1>5, <1>6 DEF Reaches

LEMMA ToldTail ==
    ASSUME NEW q \in Seq(HostFrames), q # <<>>, NEW h \in Hearings, NEW h2 \in Hearings, NEW id \in Nat, NEW size \in Nat, NEW tk \in Tasks,
           Told(q, h, id, size), TakesIn(q, h, id, h2), ~(q[1].id = id /\ q[1].what = "done")
    PROVE  /\ Told(Tail(q), h2, id, size)
           /\ GoesOn(q, h, id, size, tk) => GoesOn(Tail(q), h2, id, size, tk)
<1>1. /\ Len(q) \in Nat /\ Len(Tail(q)) = Len(q) - 1 /\ 1 \in 1 .. Len(q)
      /\ \A k \in 1 .. Len(q) - 1 : Tail(q)[k] = q[k + 1] /\ k + 1 \in 1 .. Len(q)
  BY Shifted
<1>2. q[1].id = id /\ q[1].what = "body" => q[1].n > 0 /\ h.next = q[1].from
  <2>1. q[1].id = id /\ q[1].what = "body" => q[1].n > 0 /\ Reaches(q, h, id, 1, q[1].from)
    BY <1>1 DEF Told
  <2>2. \A l \in 1 .. 1 - 1 : FALSE
    OBVIOUS
  <2> QED  BY <2>1, <2>2 DEF Reaches
<1>3. h2.status => h2.size = size
  BY <1>1 DEF Told, TakesIn
<1>4. ASSUME NEW j \in 1 .. Len(Tail(q)), Tail(q)[j].id = id
      PROVE  /\ Tail(q)[j].what = "status" =>
                  /\ Tail(q)[j].n = size /\ ~h2.status /\ h2.next = 0
                  /\ \A l \in 1 .. j - 1 : ~(IsAnswer(Tail(q)[l]) /\ Tail(q)[l].id = id)
             /\ Tail(q)[j].what = "body" =>
                  Tail(q)[j].n > 0 /\ Introduced(Tail(q), h2, id, j) /\ Reaches(Tail(q), h2, id, j, Tail(q)[j].from)
             /\ Tail(q)[j].what = "done" => \A l \in j + 1 .. Len(Tail(q)) : ~(IsAnswer(Tail(q)[l]) /\ Tail(q)[l].id = id)
             /\ Tail(q)[j].what = "done" /\ Tail(q)[j].err = "ok" =>
                  Introduced(Tail(q), h2, id, j) /\ Reaches(Tail(q), h2, id, j, size)
  <2>1. Tail(q)[j] = q[j + 1] /\ j + 1 \in 1 .. Len(q) /\ j \in 1 .. Len(q) /\ (j + 1) - 1 = j
    BY <1>1
  <2>2. q[j + 1].id = id
    BY <1>4, <2>1
  <2>3. CASE q[j + 1].what = "status"
    <3>1. q[j + 1].n = size /\ ~h.status /\ h.next = 0 /\ \A l \in 1 .. j : ~(IsAnswer(q[l]) /\ q[l].id = id)
      BY <2>1, <2>2, <2>3 DEF Told
    <3>2. 1 \in 1 .. j /\ \A l \in 1 .. j - 1 : l + 1 \in 1 .. j /\ Tail(q)[l] = q[l + 1]
      BY <1>1
    <3>3. ~(IsAnswer(q[1]) /\ q[1].id = id)
      BY <3>1, <3>2
    <3>4. ~h2.status /\ h2.next = 0
      BY <3>1, <3>3 DEF TakesIn, IsAnswer
    <3>5. \A l \in 1 .. j - 1 : ~(IsAnswer(Tail(q)[l]) /\ Tail(q)[l].id = id)
      BY <3>1, <3>2
    <3> QED  BY <2>1, <2>3, <3>1, <3>4, <3>5
  <2>4. CASE q[j + 1].what = "body"
    <3>1. q[j + 1].n > 0 /\ Introduced(q, h, id, j + 1) /\ Reaches(q, h, id, j + 1, q[j + 1].from)
      BY <2>1, <2>2, <2>4 DEF Told
    <3>2. q[j + 1].from \in Nat
      BY <2>1, HostFrame
    <3>3. Introduced(Tail(q), h2, id, j) /\ Reaches(Tail(q), h2, id, j, q[j + 1].from)
      BY <1>2, <2>1, <3>1, <3>2, IntroducedTail, ReachesTail
    <3> QED  BY <2>1, <2>4, <3>1, <3>3
  <2>5. CASE q[j + 1].what = "done"
    <3>1. \A l \in j + 2 .. Len(q) : ~(IsAnswer(q[l]) /\ q[l].id = id)
      <4>1. (j + 1) + 1 = j + 2
        BY <1>1
      <4> QED  BY <2>1, <2>2, <2>5, <4>1 DEF Told
    <3>2. \A l \in j + 1 .. Len(Tail(q)) : ~(IsAnswer(Tail(q)[l]) /\ Tail(q)[l].id = id)
      <4>1. \A l \in j + 1 .. Len(Tail(q)) : l + 1 \in j + 2 .. Len(q) /\ Tail(q)[l] = q[l + 1]
        BY <1>1
      <4> QED  BY <3>1, <4>1
    <3>3. q[j + 1].err = "ok" => Introduced(q, h, id, j + 1) /\ Reaches(q, h, id, j + 1, size)
      BY <2>1, <2>2, <2>5 DEF Told
    <3>4. q[j + 1].err = "ok" => Introduced(Tail(q), h2, id, j) /\ Reaches(Tail(q), h2, id, j, size)
      BY <1>2, <2>1, <3>3, IntroducedTail, ReachesTail
    <3> QED  BY <2>1, <2>5, <3>2, <3>4
  <2> QED  BY <2>1, <2>3, <2>4, <2>5
<1>5. ASSUME GoesOn(q, h, id, size, tk) PROVE GoesOn(Tail(q), h2, id, size, tk)
  <2>1. \A j \in 1 .. Len(Tail(q)) : Tail(q)[j].what = "done" => Tail(q)[j].id # id
    BY <1>1, <1>5 DEF GoesOn
  <2>2. tk.pc = "head" => ~h2.status /\ h2.next = 0 /\ \A j \in 1 .. Len(Tail(q)) : IsAnswer(Tail(q)[j]) => Tail(q)[j].id # id
    <3> SUFFICES ASSUME tk.pc = "head" PROVE ~h2.status /\ h2.next = 0 /\ \A j \in 1 .. Len(Tail(q)) : IsAnswer(Tail(q)[j]) => Tail(q)[j].id # id
      OBVIOUS
    <3>1. ~h.status /\ h.next = 0 /\ \A j \in 1 .. Len(q) : IsAnswer(q[j]) => q[j].id # id
      BY <1>5 DEF GoesOn
    <3>2. IsAnswer(q[1]) => q[1].id # id
      BY <1>1, <3>1
    <3>3. \A j \in 1 .. Len(Tail(q)) : IsAnswer(Tail(q)[j]) => Tail(q)[j].id # id
      BY <1>1, <3>1
    <3> QED  BY <3>1, <3>2, <3>3 DEF TakesIn, IsAnswer
  <2>3. tk.pc # "head" => tk.size = size /\ Introduced(Tail(q), h2, id, Len(Tail(q)) + 1) /\ Reaches(Tail(q), h2, id, Len(Tail(q)) + 1, tk.sent)
    <3> SUFFICES ASSUME tk.pc # "head"
                 PROVE  tk.size = size /\ Introduced(Tail(q), h2, id, Len(Tail(q)) + 1) /\ Reaches(Tail(q), h2, id, Len(Tail(q)) + 1, tk.sent)
      OBVIOUS
    <3>1. tk.size = size /\ Introduced(q, h, id, Len(q) + 1) /\ Reaches(q, h, id, Len(q) + 1, tk.sent)
      BY <1>5 DEF GoesOn
    <3>2. tk.sent \in Nat /\ Len(Tail(q)) + 1 = Len(q) /\ Len(q) \in 1 .. Len(q)
      BY <1>1, <1>5 DEF Tasks
    <3>3. Introduced(Tail(q), h2, id, Len(q)) /\ Reaches(Tail(q), h2, id, Len(q), tk.sent)
      BY <1>2, <3>1, <3>2, IntroducedTail, ReachesTail
    <3> QED  BY <3>1, <3>2, <3>3
  <2> QED  BY <2>1, <2>2, <2>3 DEF GoesOn
<1> QED  BY <1>3, <1>4, <1>5 DEF Told

LEMMA BeforeAppend ==
    ASSUME NEW q \in Seq(HostFrames), NEW m \in HostFrames, NEW h, NEW id, NEW n, NEW j \in 1 .. Len(q) + 1
    PROVE  /\ Introduced(Append(q, m), h, id, j) <=> Introduced(q, h, id, j)
           /\ Reaches(Append(q, m), h, id, j, n) <=> Reaches(q, h, id, j, n)
<1>1. \A l \in 1 .. j - 1 : Append(q, m)[l] = q[l]
  BY Grown
<1> QED  BY <1>1 DEF Introduced, Reaches

LEMMA BehindAppend ==
    ASSUME NEW q \in Seq(HostFrames), NEW m \in HostFrames, NEW h \in Hearings, NEW id, NEW n \in Nat
    PROVE  /\ Introduced(q, h, id, Len(q) + 1) \/ (m.id = id /\ m.what = "status") =>
                Introduced(Append(q, m), h, id, Len(q) + 2)
           /\ ~(m.id = id /\ m.what = "body") /\ Reaches(q, h, id, Len(q) + 1, n) =>
                Reaches(Append(q, m), h, id, Len(q) + 2, n)
           /\ m.id = id /\ m.what = "body" /\ m.n > 0 /\ Reaches(q, h, id, Len(q) + 1, m.from) /\ n = m.from + m.n =>
                Reaches(Append(q, m), h, id, Len(q) + 2, n)
<1> DEFINE a == Append(q, m)
<1>1. /\ Len(q) \in Nat /\ \A l \in 1 .. Len(q) : a[l] = q[l] /\ l \in 1 .. Len(q) + 1
      /\ a[Len(q) + 1] = m /\ (Len(q) + 2) - 1 = Len(q) + 1 /\ (Len(q) + 1) - 1 = Len(q) /\ Len(q) + 1 \in 1 .. Len(q) + 1
  BY Grown
<1>2. \A l \in 1 .. Len(q) + 1 : l \in 1 .. Len(q) \/ l = Len(q) + 1
  BY <1>1
<1>3. \A l \in 1 .. Len(q) : q[l].from + q[l].n \in Nat
  <2>1. ASSUME NEW l \in 1 .. Len(q) PROVE q[l].from + q[l].n \in Nat
    BY HostFrame
  <2> QED  BY <2>1
<1>4. m.from \in Nat /\ m.n \in Nat /\ h.next \in Nat
  BY DEF HostFrames, AnyFrames, Hearings
<1> HIDE DEF a
<1>5. Introduced(q, h, id, Len(q) + 1) \/ (m.id = id /\ m.what = "status") => Introduced(a, h, id, Len(q) + 2)
  BY <1>1 DEF Introduced
<1>6. ASSUME ~(m.id = id /\ m.what = "body"), Reaches(q, h, id, Len(q) + 1, n) PROVE Reaches(a, h, id, Len(q) + 2, n)
  <2>1. h.next = n \/ \E l \in 1 .. Len(q) + 1 : a[l].id = id /\ a[l].what = "body" /\ a[l].from + a[l].n = n
    BY <1>1, <1>6 DEF Reaches
  <2>2. \A l \in 1 .. Len(q) + 1 : a[l].id = id /\ a[l].what = "body" => a[l].from + a[l].n <= n
    BY <1>1, <1>2, <1>6 DEF Reaches
  <2> QED  BY <1>1, <1>6, <2>1, <2>2 DEF Reaches
<1>7. ASSUME m.id = id, m.what = "body", m.n > 0, Reaches(q, h, id, Len(q) + 1, m.from), n = m.from + m.n
      PROVE  Reaches(a, h, id, Len(q) + 2, n)
  <2>1. \E l \in 1 .. Len(q) + 1 : a[l].id = id /\ a[l].what = "body" /\ a[l].from + a[l].n = n
    BY <1>1, <1>7
  <2>2. h.next <= n
    BY <1>4, <1>7 DEF Reaches
  <2>3. \A l \in 1 .. Len(q) : q[l].id = id /\ q[l].what = "body" => q[l].from + q[l].n <= m.from
    BY <1>1, <1>7 DEF Reaches
  <2>4. ASSUME NEW l \in 1 .. Len(q) + 1, a[l].id = id, a[l].what = "body" PROVE a[l].from + a[l].n <= n
    <3>1. CASE l = Len(q) + 1
      BY <1>1, <1>4, <1>7, <3>1
    <3>2. CASE l \in 1 .. Len(q)
      <4>1. a[l] = q[l] /\ q[l].from + q[l].n \in Nat /\ q[l].from + q[l].n <= m.from
        BY <1>1, <1>3, <2>3, <2>4, <3>2
      <4> QED  BY <1>4, <1>7, <4>1
    <3> QED  BY <1>2, <3>1, <3>2
  <2> QED  BY <1>1, <2>1, <2>2, <2>4 DEF Reaches
<1> QED  BY <1>5, <1>6, <1>7 DEF a

\* A frame of another request, or one that is no answer, changes nothing; ...
LEMMA ToldAppendOther ==
    ASSUME NEW q \in Seq(HostFrames), NEW m \in HostFrames, NEW h \in Hearings, NEW id \in Nat, NEW size \in Nat, NEW tk \in Tasks,
           Told(q, h, id, size), ~(IsAnswer(m) /\ m.id = id)
    PROVE  /\ Told(Append(q, m), h, id, size)
           /\ GoesOn(q, h, id, size, tk) => GoesOn(Append(q, m), h, id, size, tk)
<1> DEFINE a == Append(q, m)
<1>1. /\ Len(q) \in Nat /\ Len(a) = Len(q) + 1 /\ \A l \in 1 .. Len(q) : a[l] = q[l] /\ l \in 1 .. Len(q) + 1
      /\ a[Len(q) + 1] = m
  BY Grown
<1>2. \A l \in 1 .. Len(q) + 1 : l \in 1 .. Len(q) \/ l = Len(q) + 1
  BY <1>1
<1>3. \A j \in 1 .. Len(q), n \in Nat :
         (Introduced(a, h, id, j) <=> Introduced(q, h, id, j)) /\ (Reaches(a, h, id, j, n) <=> Reaches(q, h, id, j, n))
  <2>1. \A j \in 1 .. Len(q) : j \in 1 .. Len(q) + 1
    BY <1>1
  <2> QED  BY <2>1, BeforeAppend
<1>4. \A j \in 1 .. Len(q) : q[j].from \in Nat
  <2>1. ASSUME NEW j \in 1 .. Len(q) PROVE q[j].from \in Nat
    BY HostFrame
  <2> QED  BY <2>1
<1> HIDE DEF a
<1>5. ASSUME NEW j \in 1 .. Len(a), a[j].id = id
      PROVE  /\ a[j].what = "status" =>
                  /\ a[j].n = size /\ ~h.status /\ h.next = 0
                  /\ \A l \in 1 .. j - 1 : ~(IsAnswer(a[l]) /\ a[l].id = id)
             /\ a[j].what = "body" => a[j].n > 0 /\ Introduced(a, h, id, j) /\ Reaches(a, h, id, j, a[j].from)
             /\ a[j].what = "done" => \A l \in j + 1 .. Len(a) : ~(IsAnswer(a[l]) /\ a[l].id = id)
             /\ a[j].what = "done" /\ a[j].err = "ok" => Introduced(a, h, id, j) /\ Reaches(a, h, id, j, size)
  <2>1. CASE j = Len(q) + 1
    BY <1>1, <1>5, <2>1 DEF IsAnswer
  <2>2. CASE j \in 1 .. Len(q)
    <3>1. a[j] = q[j] /\ q[j].id = id
      BY <1>1, <1>5, <2>2
    <3>2. \A l \in 1 .. j - 1 : a[l] = q[l]
      BY <1>1, <2>2
    <3>3. \A l \in j + 1 .. Len(a) : (l \in j + 1 .. Len(q) /\ a[l] = q[l]) \/ a[l] = m
      BY <1>1, <2>2
    <3>4. q[j].what = "status" => q[j].n = size /\ ~h.status /\ h.next = 0 /\ \A l \in 1 .. j - 1 : ~(IsAnswer(q[l]) /\ q[l].id = id)
      BY <2>2, <3>1 DEF Told
    <3>5. q[j].what = "body" => q[j].n > 0 /\ Introduced(q, h, id, j) /\ Reaches(q, h, id, j, q[j].from)
      BY <2>2, <3>1 DEF Told
    <3>6. q[j].what = "done" => \A l \in j + 1 .. Len(q) : ~(IsAnswer(q[l]) /\ q[l].id = id)
      BY <2>2, <3>1 DEF Told
    <3>7. q[j].what = "done" /\ q[j].err = "ok" => Introduced(q, h, id, j) /\ Reaches(q, h, id, j, size)
      BY <2>2, <3>1 DEF Told
    <3>8. q[j].what = "done" => \A l \in j + 1 .. Len(a) : ~(IsAnswer(a[l]) /\ a[l].id = id)
      BY <3>3, <3>6
    <3> QED  BY <1>3, <1>4, <2>2, <3>1, <3>2, <3>4, <3>5, <3>7, <3>8
  <2> QED  BY <1>1, <1>2, <2>1, <2>2
<1>6. ASSUME GoesOn(q, h, id, size, tk) PROVE GoesOn(a, h, id, size, tk)
  <2>1. \A j \in 1 .. Len(a) : a[j].what = "done" => a[j].id # id
    BY <1>1, <1>2, <1>6 DEF GoesOn, IsAnswer
  <2>2. tk.pc = "head" => ~h.status /\ h.next = 0 /\ \A j \in 1 .. Len(a) : IsAnswer(a[j]) => a[j].id # id
    BY <1>1, <1>2, <1>6 DEF GoesOn
  <2>3. tk.pc # "head" => tk.size = size /\ Introduced(a, h, id, Len(a) + 1) /\ Reaches(a, h, id, Len(a) + 1, tk.sent)
    <3>1. tk.sent \in Nat /\ Len(a) + 1 = Len(q) + 2 /\ ~(m.id = id /\ m.what = "body")
      BY <1>1, <1>6 DEF Tasks, IsAnswer
    <3>2. tk.pc # "head" => tk.size = size /\ Introduced(q, h, id, Len(q) + 1) /\ Reaches(q, h, id, Len(q) + 1, tk.sent)
      BY <1>6 DEF GoesOn
    <3> QED  BY <3>1, <3>2, BehindAppend DEF a
  <2> QED  BY <2>1, <2>2, <2>3 DEF GoesOn
<1>7. Told(a, h, id, size)
  BY <1>5 DEF Told
<1> QED  BY <1>6, <1>7 DEF a

\* ... one of this answer must be what comes next.
LEMMA ToldAppendMine ==
    ASSUME NEW q \in Seq(HostFrames), NEW m \in HostFrames, NEW h \in Hearings, NEW id \in Nat, NEW size \in Nat,
           Told(q, h, id, size), m.id = id, IsAnswer(m),
           \A j \in 1 .. Len(q) : q[j].what = "done" => q[j].id # id,
           m.what = "status" => /\ m.n = size /\ ~h.status /\ h.next = 0
                                /\ \A j \in 1 .. Len(q) : IsAnswer(q[j]) => q[j].id # id,
           m.what = "body" => m.n > 0 /\ Introduced(q, h, id, Len(q) + 1) /\ Reaches(q, h, id, Len(q) + 1, m.from),
           m.what = "done" /\ m.err = "ok" => Introduced(q, h, id, Len(q) + 1) /\ Reaches(q, h, id, Len(q) + 1, size)
    PROVE  Told(Append(q, m), h, id, size)
<1> DEFINE a == Append(q, m)
<1>1. /\ Len(q) \in Nat /\ Len(a) = Len(q) + 1 /\ \A l \in 1 .. Len(q) : a[l] = q[l] /\ l \in 1 .. Len(q) + 1
      /\ a[Len(q) + 1] = m
  BY Grown
<1>2. \A l \in 1 .. Len(q) + 1 : l \in 1 .. Len(q) \/ l = Len(q) + 1
  BY <1>1
<1>3. \A j \in 1 .. Len(q) + 1, n \in Nat :
         (Introduced(a, h, id, j) <=> Introduced(q, h, id, j)) /\ (Reaches(a, h, id, j, n) <=> Reaches(q, h, id, j, n))
  BY BeforeAppend
<1>4. m.from \in Nat /\ \A j \in 1 .. Len(q) : q[j].from \in Nat
  <2>1. ASSUME NEW j \in 1 .. Len(q) PROVE q[j].from \in Nat
    BY HostFrame
  <2> QED  BY <2>1 DEF HostFrames, AnyFrames
<1> HIDE DEF a
<1>5. ASSUME NEW j \in 1 .. Len(a), a[j].id = id
      PROVE  /\ a[j].what = "status" =>
                  /\ a[j].n = size /\ ~h.status /\ h.next = 0
                  /\ \A l \in 1 .. j - 1 : ~(IsAnswer(a[l]) /\ a[l].id = id)
             /\ a[j].what = "body" => a[j].n > 0 /\ Introduced(a, h, id, j) /\ Reaches(a, h, id, j, a[j].from)
             /\ a[j].what = "done" => \A l \in j + 1 .. Len(a) : ~(IsAnswer(a[l]) /\ a[l].id = id)
             /\ a[j].what = "done" /\ a[j].err = "ok" => Introduced(a, h, id, j) /\ Reaches(a, h, id, j, size)
  <2>1. CASE j = Len(q) + 1
    <3>1. a[j] = m /\ j \in 1 .. Len(q) + 1 /\ \A l \in 1 .. j - 1 : l \in 1 .. Len(q) /\ a[l] = q[l]
      BY <1>1, <2>1
    <3>2. \A l \in j + 1 .. Len(a) : FALSE
      BY <1>1, <2>1
    <3>3. m.what = "status" => \A l \in 1 .. j - 1 : ~(IsAnswer(a[l]) /\ a[l].id = id)
      BY <3>1
    <3>4. m.what = "body" => Introduced(a, h, id, j) /\ Reaches(a, h, id, j, m.from)
      BY <1>3, <1>4, <2>1, <3>1
    <3>5. m.what = "done" /\ m.err = "ok" => Introduced(a, h, id, j) /\ Reaches(a, h, id, j, size)
      BY <1>3, <2>1, <3>1
    <3> QED  BY <3>1, <3>2, <3>3, <3>4, <3>5
  <2>2. CASE j \in 1 .. Len(q)
    <3>1. a[j] = q[j] /\ q[j].id = id /\ j \in 1 .. Len(q) + 1
      BY <1>1, <1>5, <2>2
    <3>2. \A l \in 1 .. j - 1 : a[l] = q[l]
      BY <1>1, <2>2
    <3>3. q[j].what = "status" => q[j].n = size /\ ~h.status /\ h.next = 0 /\ \A l \in 1 .. j - 1 : ~(IsAnswer(q[l]) /\ q[l].id = id)
      BY <2>2, <3>1 DEF Told
    <3>4. q[j].what = "body" => q[j].n > 0 /\ Introduced(q, h, id, j) /\ Reaches(q, h, id, j, q[j].from)
      BY <2>2, <3>1 DEF Told
    <3>5. q[j].what # "done"
      BY <2>2, <3>1
    <3>6. q[j].what = "body" => Introduced(a, h, id, j) /\ Reaches(a, h, id, j, q[j].from)
      BY <1>3, <1>4, <2>2, <3>1, <3>4
    <3>7. q[j].what = "status" => \A l \in 1 .. j - 1 : ~(IsAnswer(a[l]) /\ a[l].id = id)
      BY <3>2, <3>3
    <3> QED  BY <3>1, <3>3, <3>4, <3>5, <3>6, <3>7
  <2> QED  BY <1>1, <1>2, <2>1, <2>2
<1>6. h.status => h.size = size
  BY DEF Told
<1>7. Told(a, h, id, size)
  BY <1>5, <1>6 DEF Told
<1> QED  BY <1>7 DEF a

\* Before anything is said of it an answer may have any size.
LEMMA ToldNothing ==
    ASSUME NEW q \in Seq(HostFrames), NEW h, NEW id, NEW size, ~h.status,
           \A j \in 1 .. Len(q) : IsAnswer(q[j]) => q[j].id # id
    PROVE  Told(q, h, id, size)
BY DEF Told, IsAnswer

-----------------------------------------------------------------------------
(* Places. *)

HttpPlaces == OnePlace /\ Unbegun

\* Steps of the kiosk move no request, and send credit only of one that has begun.
LEMMA KioskPlaces ==
    ASSUME HttpTypes, HttpPlaces, UNCHANGED <<req_q, t>>, c'.id = c.id,
           toHost' = toHost \/ (toHost # <<>> /\ toHost' = Tail(toHost)),
           \/ toModem' = toModem
           \/ \E m \in ModemFrames : /\ m.what \in {"credit", "cancel"} /\ m.id = c.id
                                     /\ m.what = "credit" => ~Waits(c.id)
                                     /\ toModem' = Append(toModem, m),
           Waits(c.id) => c'.unacked = c.unacked /\ (c'.active => c.active /\ heard' = heard)
    PROVE  HttpPlaces' /\ \A id : Waits(id)' <=> Waits(id)
<1>1. toModem \in Seq(ModemFrames) /\ toHost \in Seq(HostFrames) /\ c.id \in Nat
  BY DEF HttpTypes
<1>2. \A j \in 1 .. Len(toHost') : \E l \in 1 .. Len(toHost) : toHost'[j] = toHost[l]
  <2>1. CASE toHost' = toHost
    BY <2>1
  <2>2. CASE toHost # <<>> /\ toHost' = Tail(toHost)
    BY <1>1, <2>2, Shifted
  <2> QED  BY <2>1, <2>2
<1>3. /\ \A i \in 1 .. Len(toModem) : i \in 1 .. Len(toModem') /\ toModem'[i] = toModem[i]
      /\ \A i \in 1 .. Len(toModem') :
           \/ i \in 1 .. Len(toModem) /\ toModem'[i] = toModem[i]
           \/ /\ toModem'[i].what \in {"credit", "cancel"} /\ toModem'[i].id = c.id
              /\ toModem'[i].what = "credit" => ~Waits(c.id)
  <2>1. CASE toModem' = toModem
    BY <2>1
  <2>2. ASSUME NEW m \in ModemFrames, m.what \in {"credit", "cancel"}, m.id = c.id, m.what = "credit" => ~Waits(c.id),
               toModem' = Append(toModem, m)
        PROVE  <1>3!1 /\ <1>3!2
    <3>1. Len(toModem) \in Nat /\ Len(toModem') = Len(toModem) + 1 /\ toModem'[Len(toModem) + 1] = m
          /\ \A i \in 1 .. Len(toModem) : toModem'[i] = toModem[i] /\ i \in 1 .. Len(toModem')
      BY <1>1, <2>2, Grown
    <3>2. \A i \in 1 .. Len(toModem') : i \in 1 .. Len(toModem) \/ i = Len(toModem) + 1
      BY <3>1
    <3> QED  BY <2>2, <3>1, <3>2
  <2> QED  BY <2>1, <2>2
<1>4. \A id : Waits(id)' <=> Waits(id)
  <2>1. ASSUME NEW id, Waits(id) PROVE Waits(id)'
    BY <1>3, <2>1 DEF Waits
  <2>2. ASSUME NEW id, Waits(id)' PROVE Waits(id)
    BY <1>3, <2>2 DEF Waits
  <2> QED  BY <2>1, <2>2
<1>5. OnePlace'
  <2>1. t'.id <= c'.id /\ ~Waits(t.id)'
    BY <1>4 DEF HttpPlaces, OnePlace
  <2>2. \A i \in 1 .. Len(toModem') : toModem'[i].id <= c'.id
    BY <1>1, <1>3 DEF HttpPlaces, OnePlace
  <2>3. \A i \in 1 .. Len(toHost') : IsAnswer(toHost'[i]) => toHost'[i].id <= c'.id
    BY <1>2 DEF HttpPlaces, OnePlace
  <2>4. \A i, j \in 1 .. Len(toModem') :
          toModem'[i].what = "get" /\ toModem'[j].what = "get" /\ toModem'[i].id = toModem'[j].id => i = j
    BY <1>3 DEF HttpPlaces, OnePlace
  <2>5. \A i \in 1 .. Len(toModem'), j \in 1 .. Len(req_q) : toModem'[i].what = "get" => toModem'[i].id # req_q[j]
    BY <1>3 DEF HttpPlaces, OnePlace
  <2>6. \A i \in 1 .. Len(req_q) : req_q[i] <= c.id
    BY DEF HttpPlaces, OnePlace
  <2> QED  BY <2>1, <2>2, <2>3, <2>4, <2>5, <2>6 DEF OnePlace, Waits
<1>6. Unbegun'
  <2> SUFFICES ASSUME NEW id \in Nat, Waits(id)
               PROVE  /\ \A j \in 1 .. Len(toHost') : IsAnswer(toHost'[j]) => toHost'[j].id # id
                      /\ \A i \in 1 .. Len(toModem') : toModem'[i].what = "credit" => toModem'[i].id # id
                      /\ c'.id = id => c'.unacked = 0
                      /\ c'.id = id /\ c'.active => ~heard'.status /\ heard'.next = 0
    BY <1>4 DEF Unbegun, IsAnswer
  <2>1. /\ \A j \in 1 .. Len(toHost) : IsAnswer(toHost[j]) => toHost[j].id # id
        /\ \A i \in 1 .. Len(toModem) : toModem[i].what = "credit" => toModem[i].id # id
        /\ c.id = id => c.unacked = 0
        /\ c.id = id /\ c.active => ~heard.status /\ heard.next = 0
    BY DEF HttpPlaces, Unbegun
  <2> QED  BY <1>2, <1>3, <2>1
<1> QED  BY <1>4, <1>5, <1>6 DEF HttpPlaces

-----------------------------------------------------------------------------
(* The window. *)

\* The parts that Window adds up.
LEMMA WindowParts ==
    ASSUME HttpTypes
    PROVE  \A id : /\ Units(toHost, "body", id) \in Nat /\ Units(toModem, "credit", id) \in Nat
                   /\ (IF c.id = id THEN c.unacked ELSE 0) \in Nat
<1>1. c.unacked \in Nat
  BY DEF HttpTypes
<1> QED  BY <1>1, Queued, UnitsNat

\* A step that leaves the modem alone, takes at most one frame, and sends at most a cancel.
LEMMA DropBalanced ==
    ASSUME HttpTypes, HttpTypes', Balanced, UNCHANGED <<t, credit, slip>>, c'.id = c.id, c'.unacked = c.unacked,
           toModem' = toModem \/ toModem' = Append(toModem, Cancel(c.id)),
           \/ toHost' = toHost /\ (c'.active => c.active)
           \/ /\ toHost # <<>> /\ toHost' = Tail(toHost)
              /\ c'.active => c.active /\ (Head(toHost).what = "body" => Head(toHost).id # c.id)
    PROVE  Balanced'
<1>0. Counted(toModem) /\ Counted(toHost) /\ Counted(toModem') /\ Counted(toHost')
  <2>1. toModem \in Seq(ModemFrames) /\ toHost \in Seq(HostFrames)
    BY DEF HttpTypes
  <2>2. toModem' \in Seq(ModemFrames) /\ toHost' \in Seq(HostFrames)
    BY DEF HttpTypes
  <2> QED  BY <2>1, <2>2, Queues
<1> USE <1>0
<1>1. \A id : Units(toModem', "credit", id) = Units(toModem, "credit", id)
  <2>1. CASE toModem' = toModem
    BY <2>1
  <2>2. CASE toModem' = Append(toModem, Cancel(c.id))
    <3>1. \A id : Part(Cancel(c.id), "credit", id) = 0
      BY DEF Part, Cancel, Frame
    <3>2. Counted(Append(toModem, Cancel(c.id)))
      BY <2>2
    <3> QED  BY <2>2, <3>1, <3>2, UnitsAppend, WindowParts
  <2> QED  BY <2>1, <2>2
<1>2. /\ \A id : Units(toHost', "body", id) <= Units(toHost, "body", id)
      /\ c'.active => c.active /\ Units(toHost', "body", c.id) = Units(toHost, "body", c.id)
  <2>1. CASE toHost' = toHost /\ (c'.active => c.active)
    BY <2>1, WindowParts
  <2>2. CASE /\ toHost # <<>> /\ toHost' = Tail(toHost)
             /\ c'.active => c.active /\ (Head(toHost).what = "body" => Head(toHost).id # c.id)
    <3>1. \A id : Units(toHost, "body", id) = Part(Head(toHost), "body", id) + Units(Tail(toHost), "body", id)
      BY <2>2, UnitsTail
    <3>2. \A id : Part(Head(toHost), "body", id) \in Nat
      <4>1. 1 \in 1 .. Len(toHost) /\ Head(toHost) = toHost[1]
        BY <2>2 DEF Counted
      <4> QED  BY <4>1, PartNat
    <3>3. c'.active => Part(Head(toHost), "body", c.id) = 0
      BY <2>2 DEF Part
    <3>4. \A id : Units(toHost', "body", id) \in Nat
      BY UnitsNat
    <3> QED  BY <2>2, <3>1, <3>2, <3>3, <3>4
  <2> QED  BY <2>1, <2>2
<1>3. \A id : Units(toHost', "body", id) \in Nat
  BY UnitsNat
<1>4. credit \in Nat /\ slip \in Nat /\ HTTP_WINDOW \in Nat
  BY WindowAssumption DEF HttpTypes
<1>5. t.pc # "idle" => Window' <= HTTP_WINDOW
  <2>1. Window' <= Window /\ Window \in Nat /\ Window' \in Nat
    <3> DEFINE b1 == Units(toHost, "body", t.id)
               b2 == Units(toHost', "body", t.id)
               k1 == Units(toModem, "credit", t.id)
               u1 == IF c.id = t.id THEN c.unacked ELSE 0
    <3>1. b1 \in Nat /\ b2 \in Nat /\ k1 \in Nat /\ u1 \in Nat /\ b2 <= b1
      BY <1>2, <1>3, WindowParts
    <3>2. Window = credit + b1 + u1 + k1 + slip /\ Window' = credit + b2 + u1 + k1 + slip
      BY <1>1 DEF Window
    <3> HIDE DEF b1, b2, k1, u1
    <3> QED  BY <1>4, <3>1, <3>2
  <2> QED  BY <1>4, <2>1 DEF Balanced
<1>6. t.pc # "idle" /\ c'.active /\ c'.id = t.id => Window' = HTTP_WINDOW
  <2>1. c'.active /\ c'.id = t.id => Window' = Window
    BY <1>1, <1>2 DEF Window
  <2> QED  BY <1>2, <2>1 DEF Balanced
<1>7. \A id \in Nat : Units(toHost', "body", id) <= HTTP_WINDOW
  BY <1>2, <1>3, <1>4, WindowParts DEF Balanced
<1> QED  BY <1>5, <1>6, <1>7 DEF Balanced

\* Units delivered to the sink and granted back stay in the window.
LEMMA GrantBalanced ==
    ASSUME HttpTypes, HttpTypes', Balanced, UNCHANGED <<t, credit, slip>>, c.active, c'.id = c.id, NEW n \in Nat,
           \/ n = 0 /\ toHost' = toHost
           \/ /\ toHost # <<>> /\ toHost' = Tail(toHost)
              /\ Head(toHost).what = "body" /\ Head(toHost).id = c.id /\ Head(toHost).n = n,
           \/ toModem' = toModem /\ c'.unacked = c.unacked + n
           \/ toModem' = Append(toModem, Credit(c.id, c.unacked + n)) /\ c'.unacked = 0
    PROVE  Balanced'
<1>0. Counted(toModem) /\ Counted(toHost) /\ Counted(toModem') /\ Counted(toHost')
  <2>1. toModem \in Seq(ModemFrames) /\ toHost \in Seq(HostFrames)
    BY DEF HttpTypes
  <2>2. toModem' \in Seq(ModemFrames) /\ toHost' \in Seq(HostFrames)
    BY DEF HttpTypes
  <2> QED  BY <2>1, <2>2, Queues
<1>1. \A id : Units(toHost, "body", id) = Units(toHost', "body", id) + (IF id = c.id THEN n ELSE 0)
  <2>1. \A id : Units(toHost', "body", id) \in Nat
    BY <1>0, UnitsNat
  <2>2. CASE n = 0 /\ toHost' = toHost
    <3>1. \A id : Units(toHost', "body", id) = Units(toHost, "body", id)
      BY <2>2
    <3> QED  BY <2>1, <2>2, <3>1
  <2>3. CASE /\ toHost # <<>> /\ toHost' = Tail(toHost)
             /\ Head(toHost).what = "body" /\ Head(toHost).id = c.id /\ Head(toHost).n = n
    <3>1. \A id : Units(toHost, "body", id) = Part(Head(toHost), "body", id) + Units(Tail(toHost), "body", id)
      BY <1>0, <2>3, UnitsTail
    <3>2. \A id : Part(Head(toHost), "body", id) = IF id = c.id THEN n ELSE 0
      BY <2>3 DEF Part
    <3> QED  BY <2>1, <2>3, <3>1, <3>2
  <2> QED  BY <2>2, <2>3
<1>2. \A id : Units(toModem', "credit", id) + (IF c'.id = id THEN c'.unacked ELSE 0)
              = Units(toModem, "credit", id) + (IF c.id = id THEN c.unacked + n ELSE 0)
  <2>1. CASE toModem' = toModem /\ c'.unacked = c.unacked + n
    BY <2>1
  <2>2. CASE toModem' = Append(toModem, Credit(c.id, c.unacked + n)) /\ c'.unacked = 0
    <3>1. \A id : Part(Credit(c.id, c.unacked + n), "credit", id) = IF id = c.id THEN c.unacked + n ELSE 0
      BY DEF Part, Credit, Frame
    <3>2. \A id : Units(toModem', "credit", id) = Units(toModem, "credit", id) + Part(Credit(c.id, c.unacked + n), "credit", id)
      BY <1>0, <2>2, UnitsAppend
    <3>3. \A id : Units(toModem', "credit", id) \in Nat /\ Units(toModem, "credit", id) \in Nat
      BY <1>0, UnitsNat
    <3>4. c.unacked + n \in Nat
      BY DEF HttpTypes
    <3> HIDE DEF HttpTypes
    <3> QED  BY <2>2, <3>1, <3>2, <3>3, <3>4
  <2> QED  BY <2>1, <2>2
<1>3. \A id : /\ Units(toHost', "body", id) \in Nat /\ Units(toModem', "credit", id) \in Nat
              /\ Units(toHost, "body", id) \in Nat /\ Units(toModem, "credit", id) \in Nat
  BY <1>0, UnitsNat
<1>4. credit \in Nat /\ slip \in Nat /\ HTTP_WINDOW \in Nat /\ c.unacked \in Nat /\ c'.unacked \in Nat
  BY WindowAssumption DEF HttpTypes
<1>5. Window' = Window
  <2> DEFINE b1 == Units(toHost, "body", t.id)
             b2 == Units(toHost', "body", t.id)
             k1 == Units(toModem, "credit", t.id)
             k2 == Units(toModem', "credit", t.id)
  <2>1. Window = credit + b1 + (IF c.id = t.id THEN c.unacked ELSE 0) + k1 + slip
    BY DEF Window
  <2>2. Window' = credit + b2 + (IF c'.id = t.id THEN c'.unacked ELSE 0) + k2 + slip
    BY DEF Window
  <2>3. /\ b1 \in Nat /\ b2 \in Nat /\ k1 \in Nat /\ k2 \in Nat /\ b1 = b2 + (IF t.id = c.id THEN n ELSE 0)
        /\ k2 + (IF c'.id = t.id THEN c'.unacked ELSE 0) = k1 + (IF c.id = t.id THEN c.unacked + n ELSE 0)
    BY <1>1, <1>2, <1>3
  <2> HIDE DEF b1, b2, k1, k2
  <2>4. CASE t.id = c.id
    <3>1. Window = credit + b1 + c.unacked + k1 + slip /\ Window' = credit + b2 + c'.unacked + k2 + slip
      BY <2>1, <2>2, <2>4
    <3>2. b1 = b2 + n /\ k2 + c'.unacked = k1 + (c.unacked + n)
      BY <2>3, <2>4
    <3>3. b1 \in Nat /\ b2 \in Nat /\ k1 \in Nat /\ k2 \in Nat
      BY <2>3
    <3>4. credit + b1 + c.unacked + k1 + slip = credit + b2 + c'.unacked + k2 + slip
      <4> DEFINE u1 == c.unacked
                 u2 == c'.unacked
      <4>1. u1 \in Nat /\ u2 \in Nat /\ k2 + u2 = k1 + (u1 + n) /\ b1 = b2 + n
        BY <1>4, <3>2
      <4>2. b1 \in Nat /\ b2 \in Nat /\ k1 \in Nat /\ k2 \in Nat /\ credit \in Nat /\ slip \in Nat
        BY <1>4, <3>3
      <4> HIDE DEF u1, u2
      <4>3. credit + b1 + u1 + k1 + slip = credit + b2 + u2 + k2 + slip
        BY <4>1, <4>2
      <4> QED  BY <4>3 DEF u1, u2
    <3> QED  BY <3>1, <3>4
  <2>5. CASE t.id # c.id
    BY <1>4, <2>1, <2>2, <2>3, <2>5
  <2> QED  BY <2>4, <2>5
<1>6. \A id \in Nat : Units(toHost', "body", id) <= HTTP_WINDOW
  <2>1. \A id : Units(toHost', "body", id) <= Units(toHost, "body", id)
    BY <1>1, <1>3
  <2> QED  BY <1>3, <1>4, <2>1 DEF Balanced
<1>7. t'.pc # "idle" => Window' <= HTTP_WINDOW
  BY <1>5 DEF Balanced
<1>8. t'.pc # "idle" /\ c'.active /\ c'.id = t'.id => Window' = HTTP_WINDOW
  BY <1>5 DEF Balanced
<1> QED  BY <1>6, <1>7, <1>8 DEF Balanced

-----------------------------------------------------------------------------
(* The kiosk. *)

\* What the frames and the sink tell stays told while neither changes.
LEMMA StoryKept ==
    ASSUME OneAnswer, UNCHANGED <<t, lost, toHost>>, c'.id = c.id, c'.active => c.active,
           c'.active => heard'.status = heard.status /\ heard'.size = heard.size /\ heard'.next = heard.next
    PROVE  OneAnswer'
<1> SUFFICES ASSUME c'.active, ~lost
             PROVE  \E size \in Nat : /\ Told(toHost', heard', c'.id, size)
                                      /\ t'.id = c'.id => GoesOn(toHost', heard', c'.id, size, t')
  BY DEF OneAnswer
<1>1. PICK size \in Nat : Told(toHost, heard, c.id, size) /\ (t.id = c.id => GoesOn(toHost, heard, c.id, size, t))
  BY DEF OneAnswer
<1>2. \A j, n : (Introduced(toHost, heard', c.id, j) <=> Introduced(toHost, heard, c.id, j))
                /\ (Reaches(toHost, heard', c.id, j, n) <=> Reaches(toHost, heard, c.id, j, n))
  BY DEF Introduced, Reaches
<1>3. Told(toHost, heard', c.id, size)
  BY <1>1, <1>2 DEF Told
<1>4. t.id = c.id => GoesOn(toHost, heard', c.id, size, t)
  BY <1>1, <1>2 DEF GoesOn
<1> QED  BY <1>3, <1>4

LEMMA KioskSends ==
    ASSUME HttpTypes, c.id # 0, NEW n \in Nat
    PROVE  Cancel(c.id) \in ModemFrames /\ Credit(c.id, n) \in ModemFrames
           /\ Cancel(c.id).what = "cancel" /\ Credit(c.id, n).what = "credit" /\ Cancel(c.id).id = c.id /\ Credit(c.id, n).id = c.id
<1>1. c.id \in Nat
  BY DEF HttpTypes
<1> QED  BY <1>1 DEF Cancel, Credit, Frame, ModemFrames, AnyFrames, Errors

LEMMA GetKeeps ==
    ASSUME HttpInv, HttpGet
    PROVE  HttpInv'
<1> DEFINE id == c.id + 1
<1>1. /\ HttpTypes /\ Locals /\ HttpPlaces /\ Balanced /\ toHost = <<>> /\ ~c.active /\ id \in Nat \ {0} /\ c.id \in Nat /\ c.id < id
      /\ UNCHANGED <<toHost, modem, slip, lost>> /\ heard' = NothingHeard
  BY DEF HttpInv, HttpPlaces, HttpGet, HttpTypes
<1>2. \/ toModem' = Append(toModem, Get(id)) /\ c' = [c EXCEPT !.id = id, !.active = TRUE, !.unacked = 0]
      \/ toModem' = toModem /\ c' = [c EXCEPT !.id = id]
  BY DEF HttpGet, Sent, NotSent
<1>3. Get(id) \in ModemFrames /\ Get(id).what = "get" /\ Get(id).id = id
  BY <1>1, WindowAssumption DEF Get, Frame, ModemFrames, AnyFrames, Errors
<1>4. NothingHeard \in Hearings
  BY DEF NothingHeard, Hearings, Errors
<1>5. c'.id = id /\ c' \in [id : Nat, active : BOOLEAN, unacked : Nat, up : BOOLEAN]
      /\ (c'.active => c'.unacked = 0 /\ toModem' = Append(toModem, Get(id))) /\ (~c'.active => toModem' = toModem)
  <2>1. c \in [id : Nat, active : BOOLEAN, unacked : Nat, up : BOOLEAN]
    BY <1>1 DEF HttpTypes
  <2> HIDE DEF id
  <2>2. CASE toModem' = Append(toModem, Get(id)) /\ c' = [c EXCEPT !.id = id, !.active = TRUE, !.unacked = 0]
    <3>1. c'.id = id /\ c'.active /\ c'.unacked = 0 /\ c' \in [id : Nat, active : BOOLEAN, unacked : Nat, up : BOOLEAN]
      BY <1>1, <2>1, <2>2
    <3> QED  BY <2>2, <3>1
  <2>3. CASE toModem' = toModem /\ c' = [c EXCEPT !.id = id]
    <3>1. c'.id = id /\ ~c'.active /\ c' \in [id : Nat, active : BOOLEAN, unacked : Nat, up : BOOLEAN]
      BY <1>1, <2>1, <2>3
    <3> QED  BY <2>3, <3>1
  <2> QED  BY <1>2, <2>2, <2>3
<1> HIDE DEF id
<1>6. HttpTypes'
  <2>1. toModem' \in Seq(ModemFrames)
    <3>1. toModem \in Seq(ModemFrames)
      BY <1>1 DEF HttpTypes
    <3>2. Append(toModem, Get(id)) \in Seq(ModemFrames)
      BY <1>3, <3>1, Grown
    <3> QED  BY <1>2, <3>1, <3>2
  <2> QED  BY <1>1, <1>4, <1>5, <2>1 DEF HttpTypes, modem
<1>7. /\ \A i \in 1 .. Len(toModem) : i \in 1 .. Len(toModem') /\ toModem'[i] = toModem[i]
      /\ \A i \in 1 .. Len(toModem') :
           \/ i \in 1 .. Len(toModem) /\ toModem'[i] = toModem[i]
           \/ i = Len(toModem) + 1 /\ toModem'[i] = Get(id) /\ c'.active
  <2>1. CASE toModem' = toModem
    BY <2>1
  <2>2. CASE toModem' = Append(toModem, Get(id)) /\ c'.active
    <3>1. Len(toModem) \in Nat /\ Len(toModem') = Len(toModem) + 1 /\ toModem'[Len(toModem) + 1] = Get(id)
          /\ \A i \in 1 .. Len(toModem) : toModem'[i] = toModem[i] /\ i \in 1 .. Len(toModem')
      BY <1>1, <1>3, <2>2, Grown DEF HttpTypes
    <3>2. \A i \in 1 .. Len(toModem') : i \in 1 .. Len(toModem) \/ i = Len(toModem) + 1
      BY <3>1
    <3> QED  BY <2>2, <3>1, <3>2
  <2> QED  BY <1>5, <2>1, <2>2
<1>8. \A x : Waits(x)' => Waits(x) \/ (x = id /\ c'.active)
  BY <1>1, <1>3, <1>7 DEF Waits, modem
<1>9. \A x : Waits(x) => x <= c.id /\ x \in Nat
  <2>1. \A i \in 1 .. Len(toModem) : toModem[i].id \in Nat
    <3>1. ASSUME NEW i \in 1 .. Len(toModem) PROVE toModem[i].id \in Nat
      BY <1>1, ModemFrame DEF HttpTypes
    <3> QED  BY <3>1
  <2>2. \A i \in 1 .. Len(req_q) : req_q[i] \in Nat
    BY <1>1 DEF HttpTypes
  <2> QED  BY <1>1, <2>1, <2>2 DEF Waits, HttpPlaces, OnePlace
<1>10. t.id \in Nat /\ t.id <= c.id /\ t.id # id
  BY <1>1 DEF HttpPlaces, OnePlace, HttpTypes, Tasks
<1>11. OnePlace'
  <2>1. t'.id <= c'.id
    BY <1>1, <1>5, <1>10 DEF modem
  <2>2. \A i \in 1 .. Len(toModem) : toModem[i].id <= c.id /\ toModem[i].id \in Nat
    <3>1. ASSUME NEW i \in 1 .. Len(toModem) PROVE toModem[i].id \in Nat
      BY <1>1, ModemFrame DEF HttpTypes
    <3> QED  BY <1>1, <3>1 DEF HttpPlaces, OnePlace
  <2>3. \A i \in 1 .. Len(toModem') : toModem'[i].id <= c'.id
    BY <1>1, <1>3, <1>5, <1>7, <2>2
  <2>4. \A i, j \in 1 .. Len(toModem') :
          toModem'[i].what = "get" /\ toModem'[j].what = "get" /\ toModem'[i].id = toModem'[j].id => i = j
    <3> SUFFICES ASSUME NEW i \in 1 .. Len(toModem'), NEW j \in 1 .. Len(toModem'),
                        toModem'[i].what = "get", toModem'[j].what = "get", toModem'[i].id = toModem'[j].id
                 PROVE  i = j
      OBVIOUS
    <3>1. CASE i \in 1 .. Len(toModem) /\ j \in 1 .. Len(toModem)
      BY <1>1, <1>7, <3>1 DEF HttpPlaces, OnePlace
    <3>2. CASE ~(i \in 1 .. Len(toModem)) /\ j \in 1 .. Len(toModem)
      BY <1>1, <1>3, <1>7, <2>2, <3>2
    <3>3. CASE i \in 1 .. Len(toModem) /\ ~(j \in 1 .. Len(toModem))
      BY <1>1, <1>3, <1>7, <2>2, <3>3
    <3>4. CASE ~(i \in 1 .. Len(toModem)) /\ ~(j \in 1 .. Len(toModem))
      BY <1>7, <3>4
    <3> QED  BY <3>1, <3>2, <3>3, <3>4
  <2>5. \A i \in 1 .. Len(toModem'), j \in 1 .. Len(req_q) : toModem'[i].what = "get" => toModem'[i].id # req_q[j]
    <3>1. \A j \in 1 .. Len(req_q) : req_q[j] # id
      <4>1. \A j \in 1 .. Len(req_q) : req_q[j] \in Nat /\ req_q[j] <= c.id
        BY <1>1 DEF HttpPlaces, OnePlace, HttpTypes
      <4> QED  BY <1>1, <4>1
    <3> QED  BY <1>1, <1>3, <1>7, <3>1 DEF HttpPlaces, OnePlace
  <2>6. \A i \in 1 .. Len(req_q) : req_q[i] <= c'.id
    <3>1. \A j \in 1 .. Len(req_q) : req_q[j] \in Nat /\ req_q[j] <= c.id
      BY <1>1 DEF HttpPlaces, OnePlace, HttpTypes
    <3> QED  BY <1>1, <1>5, <3>1
  <2>7. ~Waits(t.id)'
    BY <1>1, <1>8, <1>10 DEF HttpPlaces, OnePlace, modem
  <2>8. \A i \in 1 .. Len(toHost') : IsAnswer(toHost'[i]) => toHost'[i].id <= c'.id
    BY <1>1
  <2> QED  BY <1>1, <2>1, <2>3, <2>4, <2>5, <2>6, <2>7, <2>8 DEF OnePlace, Waits, modem
<1>12. Unbegun'
  <2> SUFFICES ASSUME NEW x \in Nat, Waits(x)'
               PROVE  /\ \A j \in 1 .. Len(toHost') : IsAnswer(toHost'[j]) => toHost'[j].id # x
                      /\ \A i \in 1 .. Len(toModem') : toModem'[i].what = "credit" => toModem'[i].id # x
                      /\ c'.id = x => c'.unacked = 0
                      /\ c'.id = x /\ c'.active => ~heard'.status /\ heard'.next = 0
    BY DEF Unbegun, IsAnswer
  <2>1. ~heard'.status /\ heard'.next = 0
    BY <1>1 DEF NothingHeard
  <2>2. \A j \in 1 .. Len(toHost') : FALSE
    BY <1>1
  <2>3. CASE x = id /\ c'.active
    <3>1. \A i \in 1 .. Len(toModem) : toModem[i].id # id
      <4>1. ASSUME NEW i \in 1 .. Len(toModem) PROVE toModem[i].id \in Nat
        BY <1>1, ModemFrame DEF HttpTypes
      <4> QED  BY <1>1, <4>1 DEF HttpPlaces, OnePlace
    <3> QED  BY <1>3, <1>5, <1>7, <2>1, <2>2, <2>3, <3>1
  <2>4. CASE Waits(x)
    <3>1. x # id
      BY <1>1, <1>9, <2>4
    <3>2. \A i \in 1 .. Len(toModem) : toModem[i].what = "credit" => toModem[i].id # x
      BY <1>1, <2>4 DEF HttpPlaces, Unbegun
    <3> QED  BY <1>3, <1>5, <1>7, <2>1, <2>2, <3>1, <3>2
  <2> QED  BY <1>8, <2>3, <2>4
<1>13. Balanced'
  <2>1. \A x : Units(toModem', "credit", x) = Units(toModem, "credit", x)
    <3>1. CASE toModem' = Append(toModem, Get(id))
      <4>1. Counted(toModem) /\ Counted(Append(toModem, Get(id)))
        <5>1. Append(toModem, Get(id)) \in Seq(ModemFrames)
          BY <1>1, <1>3, Grown DEF HttpTypes
        <5> QED  BY <1>1, <5>1, Queues DEF HttpTypes
      <4>2. \A x : Part(Get(id), "credit", x) = 0
        BY <1>3 DEF Part
      <4> QED  BY <1>1, <3>1, <4>1, <4>2, UnitsAppend, WindowParts
    <3> QED  BY <1>2, <3>1
  <2>2. t.pc # "idle" => Window' <= HTTP_WINDOW
    <3> DEFINE b == Units(toHost, "body", t.id)
               k == Units(toModem, "credit", t.id)
               u == IF c.id = t.id THEN c.unacked ELSE 0
    <3>1. b \in Nat /\ k \in Nat /\ u \in Nat /\ credit \in Nat /\ slip \in Nat /\ HTTP_WINDOW \in Nat
      BY <1>1, WindowParts, WindowAssumption DEF HttpTypes
    <3>2. Window = credit + b + u + k + slip
      BY DEF Window
    <3>3. Window' = credit + b + 0 + k + slip
      BY <1>1, <1>5, <1>10, <2>1 DEF Window, modem
    <3>4. t.pc # "idle" => Window <= HTTP_WINDOW
      BY <1>1 DEF Balanced
    <3> HIDE DEF b, k, u
    <3> QED  BY <3>1, <3>2, <3>3, <3>4
  <2>3. \A x \in Nat : Units(toHost', "body", x) <= HTTP_WINDOW
    BY <1>1 DEF Balanced
  <2>4. c'.id # t'.id /\ t' = t
    BY <1>1, <1>5, <1>10 DEF modem
  <2> QED  BY <2>2, <2>3, <2>4 DEF Balanced
<1>14. OneAnswer'
  <2>1. Told(toHost', heard', c'.id, 0)
    <3>1. ~heard'.status
      BY <1>1 DEF NothingHeard
    <3>2. \A j \in 1 .. Len(toHost') : IsAnswer(toHost'[j]) => toHost'[j].id # c'.id
      BY <1>1
    <3>3. toHost' \in Seq(HostFrames)
      BY <1>1
    <3> QED  BY <3>1, <3>2, <3>3, ToldNothing
  <2>2. t'.id # c'.id
    BY <1>1, <1>5, <1>10 DEF modem
  <2> QED  BY <2>1, <2>2 DEF OneAnswer
<1>15. Locals' /\ Unended' /\ OwnAnswer'
  <2>1. Locals'
    BY <1>1 DEF Locals, modem
  <2>2. Unended' /\ OwnAnswer'
    BY <1>1, <1>5 DEF Unended, OwnAnswer, NothingHeard
  <2> QED  BY <2>1, <2>2
<1> QED  BY <1>6, <1>11, <1>12, <1>13, <1>14, <1>15 DEF HttpInv

\* What the kiosk's other steps leave alone.
LEMMA KioskTypes ==
    ASSUME HttpTypes, UNCHANGED <<modem, slip>>, lost' \in BOOLEAN,
           c' \in [id : Nat, active : BOOLEAN, unacked : Nat, up : BOOLEAN], heard' \in Hearings,
           toHost' = toHost \/ (toHost # <<>> /\ toHost' = Tail(toHost)),
           \/ toModem' = toModem
           \/ \E m \in ModemFrames : toModem' = Append(toModem, m)
    PROVE  HttpTypes'
<1>1. toModem' \in Seq(ModemFrames)
  <2>1. toModem \in Seq(ModemFrames)
    BY DEF HttpTypes
  <2> QED  BY <2>1, Grown
<1>2. toHost' \in Seq(HostFrames)
  <2>1. toHost \in Seq(HostFrames)
    BY DEF HttpTypes
  <2> QED  BY <2>1, Shifted
<1> QED  BY <1>1, <1>2 DEF HttpTypes, modem

\* A step by which the request ends, or which finds it ended, with no word to the modem but a cancel.
LEMMA EndKeeps ==
    ASSUME HttpInv, UNCHANGED <<modem, slip, lost>>, c.id # 0 \/ toModem' = toModem,
           c' \in [id : Nat, active : BOOLEAN, unacked : Nat, up : BOOLEAN], c'.id = c.id, c'.unacked = c.unacked, ~c'.active,
           toHost' = toHost \/ (toHost # <<>> /\ toHost' = Tail(toHost)),
           toModem' = toModem \/ toModem' = Append(toModem, Cancel(c.id)),
           heard' \in Hearings, OwnAnswer'
    PROVE  HttpInv'
<1>1. HttpTypes /\ HttpPlaces /\ Balanced
  BY DEF HttpInv, HttpPlaces
<1>2. toModem' = toModem \/ \E m \in ModemFrames : m.what = "cancel" /\ m.id = c.id /\ toModem' = Append(toModem, m)
  BY <1>1, KioskSends
<1>3. lost' \in BOOLEAN
  BY <1>1 DEF HttpTypes
<1>4. HttpTypes'
  BY <1>1, <1>2, <1>3, KioskTypes
<1>5. HttpPlaces'
  BY <1>1, <1>2, KioskPlaces DEF modem
<1>6. Balanced'
  BY <1>1, <1>4, DropBalanced DEF modem
<1>7. Locals' /\ OneAnswer' /\ Unended'
  BY DEF HttpInv, Locals, OneAnswer, Unended, modem
<1> QED  BY <1>4, <1>5, <1>6, <1>7 DEF HttpInv, HttpPlaces

LEMMA CancelKeeps ==
    ASSUME HttpInv, HttpCancel
    PROVE  HttpInv'
<1>1. HttpTypes /\ c.active /\ c.id # 0
  BY DEF HttpInv, HttpCancel, Unended
<1>2. UNCHANGED <<toHost, modem, heard, slip, lost>> /\ c' = [c EXCEPT !.active = FALSE]
      /\ (toModem' = toModem \/ toModem' = Append(toModem, Cancel(c.id)))
  BY DEF HttpCancel, Sent, NotSent
<1>3. /\ c' \in [id : Nat, active : BOOLEAN, unacked : Nat, up : BOOLEAN] /\ c'.id = c.id /\ c'.unacked = c.unacked /\ ~c'.active
      /\ heard' \in Hearings
  BY <1>1, <1>2 DEF HttpTypes
<1>4. OwnAnswer'
  BY <1>1, <1>2, <1>3 DEF HttpInv, OwnAnswer
<1> QED  BY <1>1, <1>2, <1>3, <1>4, EndKeeps

\* A request that ends is told so once.
LEMMA Finishing ==
    ASSUME HttpInv, NEW k, NEW err \in Errors, k = [c EXCEPT !.up = FALSE] \/ k = c,
           NEW h \in Hearings, h.ends = heard.ends, h.result = heard.result, h.foreign => lost,
           h.status = heard.status /\ h.size = heard.size /\ (c.active \/ h.next = heard.next),
           err = "ok" /\ c.active /\ ~lost => h.status /\ h.next = h.size,
           c' = Finish(h, k, err).c, heard' = Finish(h, k, err).heard, lost' = lost
    PROVE  /\ c' \in [id : Nat, active : BOOLEAN, unacked : Nat, up : BOOLEAN] /\ c'.id = c.id /\ c'.unacked = c.unacked
           /\ ~c'.active /\ heard' \in Hearings /\ OwnAnswer'
<1>1. c \in [id : Nat, active : BOOLEAN, unacked : Nat, up : BOOLEAN] /\ OwnAnswer
  BY DEF HttpInv, HttpTypes
<1>2. k \in [id : Nat, active : BOOLEAN, unacked : Nat, up : BOOLEAN] /\ k.id = c.id /\ k.unacked = c.unacked /\ k.active = c.active
  BY <1>1
<1>3. CASE c.active
  <2>1. c' = [k EXCEPT !.active = FALSE] /\ heard' = [h EXCEPT !.result = err, !.ends = @ + 1]
    BY <1>2, <1>3 DEF Finish
  <2>2. c' \in [id : Nat, active : BOOLEAN, unacked : Nat, up : BOOLEAN] /\ c'.id = c.id /\ c'.unacked = c.unacked /\ ~c'.active
    BY <1>2, <2>1
  <2>3. /\ heard' \in Hearings /\ heard'.ends = h.ends + 1 /\ heard'.result = err /\ heard'.foreign = h.foreign
        /\ heard'.status = h.status /\ heard'.next = h.next /\ heard'.size = h.size
    <3>1. h.ends + 1 \in Nat /\ heard' = [h EXCEPT !.result = err, !.ends = h.ends + 1]
      BY <2>1 DEF Hearings
    <3>2. h \in [status : BOOLEAN, next : Nat, size : Nat, foreign : BOOLEAN, result : Errors, ends : Nat]
      BY DEF Hearings
    <3> DEFINE e == h.ends + 1
    <3> HIDE DEF e
    <3>3. heard' = [h EXCEPT !.result = err, !.ends = e] /\ e \in Nat
      BY <3>1 DEF e
    <3>4. heard' \in [status : BOOLEAN, next : Nat, size : Nat, foreign : BOOLEAN, result : Errors, ends : Nat]
      BY <3>2, <3>3
    <3>5. /\ heard'.ends = e /\ heard'.result = err /\ heard'.foreign = h.foreign
          /\ heard'.status = h.status /\ heard'.next = h.next /\ heard'.size = h.size
      BY <3>2, <3>3
    <3> QED  BY <3>4, <3>5 DEF e, Hearings
  <2>4. h.ends = 0
    BY <1>1, <1>3 DEF OwnAnswer
  <2> QED  BY <1>1, <1>3, <2>2, <2>3, <2>4 DEF OwnAnswer
<1>4. CASE ~c.active
  <2>1. c' = k /\ heard' = h
    BY <1>2, <1>4 DEF Finish
  <2>2. h.ends <= 1
    BY <1>1 DEF OwnAnswer
  <2> QED  BY <1>1, <1>2, <1>4, <2>1, <2>2 DEF OwnAnswer
<1> QED  BY <1>3, <1>4

LEMMA DeadlineKeeps ==
    ASSUME HttpInv, HttpPollDeadline
    PROVE  HttpInv'
<1>1. HttpTypes /\ c.active /\ c.id # 0
  BY DEF HttpInv, HttpPollDeadline, Unended
<1>2. UNCHANGED <<toHost, modem, slip, lost>> /\ (toModem' = toModem \/ toModem' = Append(toModem, Cancel(c.id)))
      /\ c' = Finish(heard, c, "timeout").c /\ heard' = Finish(heard, c, "timeout").heard
  BY DEF HttpPollDeadline, Sent, NotSent, Finishes
<1>3. heard \in Hearings /\ (heard.foreign => lost) /\ "timeout" \in Errors
  BY DEF HttpInv, HttpTypes, OwnAnswer, Errors
<1>4. /\ c' \in [id : Nat, active : BOOLEAN, unacked : Nat, up : BOOLEAN] /\ c'.id = c.id /\ c'.unacked = c.unacked /\ ~c'.active
      /\ heard' \in Hearings /\ OwnAnswer'
  BY <1>2, <1>3, Finishing
<1> QED  BY <1>1, <1>2, <1>4, EndKeeps

\* A top-up is sent only for a request that has begun.
LEMMA PollGrantKeeps ==
    ASSUME HttpInv, HttpPollGrant
    PROVE  HttpInv'
<1>1. /\ HttpTypes /\ HttpPlaces /\ Balanced /\ c.active /\ c.id # 0 /\ c.unacked \in Nat /\ c.unacked > 0
      /\ c \in [id : Nat, active : BOOLEAN, unacked : Nat, up : BOOLEAN]
      /\ UNCHANGED <<toHost, modem, heard, slip, lost>>
  BY WindowAssumption DEF HttpInv, HttpPlaces, HttpPollGrant, Unended, HttpTypes
<1>2. \/ toModem' = Append(toModem, Credit(c.id, c.unacked)) /\ c' = [c EXCEPT !.unacked = 0]
      \/ toModem' = toModem /\ c' = c
  BY DEF HttpPollGrant, GrantFlush, Sent, NotSent
<1>3. c' \in [id : Nat, active : BOOLEAN, unacked : Nat, up : BOOLEAN] /\ c'.id = c.id /\ c'.active
      /\ ((toModem' = toModem /\ c'.unacked = c.unacked + 0) \/ (toModem' = Append(toModem, Credit(c.id, c.unacked + 0)) /\ c'.unacked = 0))
  <2>1. CASE toModem' = toModem /\ c' = c
    <3>1. c'.unacked = c.unacked + 0 /\ c'.id = c.id /\ c'.active
      BY <1>1, <2>1
    <3>2. c' \in [id : Nat, active : BOOLEAN, unacked : Nat, up : BOOLEAN]
      BY <1>1, <2>1
    <3> QED  BY <2>1, <3>1, <3>2
  <2>2. CASE toModem' = Append(toModem, Credit(c.id, c.unacked)) /\ c' = [c EXCEPT !.unacked = 0]
    <3>1. c' \in [id : Nat, active : BOOLEAN, unacked : Nat, up : BOOLEAN] /\ c'.id = c.id /\ c'.active /\ c'.unacked = 0
      BY <1>1, <2>2
    <3>2. c.unacked + 0 = c.unacked
      BY <1>1
    <3> QED  BY <2>2, <3>1, <3>2
  <2> QED  BY <1>2, <2>1, <2>2
<1>4. ~Waits(c.id)
  BY <1>1 DEF HttpPlaces, Unbegun
<1>5. toModem' = toModem \/ \E m \in ModemFrames : m.what \in {"credit", "cancel"} /\ m.id = c.id /\ toModem' = Append(toModem, m)
  BY <1>1, <1>2, KioskSends
<1>6. HttpTypes'
  <2>1. lost' \in BOOLEAN /\ heard' \in Hearings
    BY <1>1 DEF HttpTypes
  <2> QED  BY <1>1, <1>3, <1>5, <2>1, KioskTypes
<1>7. HttpPlaces'
  BY <1>1, <1>3, <1>4, <1>5, KioskPlaces DEF modem
<1>8. Balanced'
  <2>1. 0 \in Nat /\ UNCHANGED <<t, credit, slip>>
    BY <1>1 DEF modem
  <2> QED  BY <1>1, <1>3, <1>6, <2>1, GrantBalanced
<1>9. OneAnswer'
  BY <1>1, <1>3, StoryKept DEF HttpInv, modem
<1>10. Locals' /\ Unended' /\ OwnAnswer'
  BY <1>1, <1>3 DEF HttpInv, Locals, Unended, OwnAnswer, modem
<1> QED  BY <1>6, <1>7, <1>8, <1>9, <1>10 DEF HttpInv, HttpPlaces

-----------------------------------------------------------------------------
(* What the kiosk receives. *)

\* The next frame, when it is about the request.
LEMMA NextFrame ==
    ASSUME HttpInv, toHost # <<>>, c.active, ~lost, Head(toHost).id = c.id
    PROVE  /\ Head(toHost).what = "status" => ~heard.status
           /\ Head(toHost).what = "body" => Head(toHost).n > 0 /\ heard.next = Head(toHost).from
           /\ Head(toHost).what = "done" /\ Head(toHost).err = "ok" => heard.status /\ heard.next = heard.size
<1>1. toHost \in Seq(HostFrames) /\ 1 \in 1 .. Len(toHost) /\ Head(toHost) = toHost[1] /\ \A l \in 1 .. 1 - 1 : FALSE
  BY Shifted DEF HttpInv, HttpTypes
<1>2. PICK size \in Nat : Told(toHost, heard, c.id, size)
  BY DEF HttpInv, OneAnswer
<1>3. \A n : Reaches(toHost, heard, c.id, 1, n) => heard.next = n
  BY <1>1 DEF Reaches
<1>4. Introduced(toHost, heard, c.id, 1) => heard.status
  BY <1>1 DEF Introduced
<1> QED  BY <1>1, <1>2, <1>3, <1>4 DEF Told

\* The first frame is taken: the sink hears of it if it is about the request.
LEMMA TakeKeeps ==
    ASSUME HttpInv, toHost # <<>>, toHost' = Tail(toHost), UNCHANGED <<t, lost>>, c'.id = c.id, c'.active => c.active,
           c'.active => /\ ~(Head(toHost).id = c.id /\ Head(toHost).what = "done")
                        /\ TakesIn(toHost, heard, c.id, heard'),
           heard' \in Hearings
    PROVE  OneAnswer'
<1> SUFFICES ASSUME c'.active, ~lost
             PROVE  \E size \in Nat : /\ Told(toHost', heard', c'.id, size)
                                      /\ t'.id = c'.id => GoesOn(toHost', heard', c'.id, size, t')
  BY DEF OneAnswer
<1>1. toHost \in Seq(HostFrames) /\ Head(toHost) = toHost[1] /\ heard \in Hearings /\ t \in Tasks /\ c.id \in Nat
  BY Shifted DEF HttpInv, HttpTypes
<1>2. PICK size \in Nat : Told(toHost, heard, c.id, size) /\ (t.id = c.id => GoesOn(toHost, heard, c.id, size, t))
  BY DEF HttpInv, OneAnswer
<1>3. Told(Tail(toHost), heard', c.id, size) /\ (GoesOn(toHost, heard, c.id, size, t) => GoesOn(Tail(toHost), heard', c.id, size, t))
  <2> DEFINE h2 == heard'
  <2>1. h2 \in Hearings /\ TakesIn(toHost, heard, c.id, h2)
    OBVIOUS
  <2> HIDE DEF h2
  <2>2. Told(Tail(toHost), h2, c.id, size) /\ (GoesOn(toHost, heard, c.id, size, t) => GoesOn(Tail(toHost), h2, c.id, size, t))
    BY <1>1, <1>2, <2>1, ToldTail
  <2> QED  BY <2>2 DEF h2
<1> QED  BY <1>2, <1>3

\* A frame is taken that brings no units: the request goes on, or there is none.
LEMMA HeardKeeps ==
    ASSUME HttpInv, toHost # <<>>, toHost' = Tail(toHost), UNCHANGED <<modem, slip, lost, toModem>>,
           c' \in [id : Nat, active : BOOLEAN, unacked : Nat, up : BOOLEAN],
           c'.id = c.id, c'.unacked = c.unacked, c'.active = c.active,
           heard' = heard \/ (IsAnswer(Head(toHost)) /\ Head(toHost).id = c.id), heard' \in Hearings,
           c.active => /\ Head(toHost).what = "body" => Head(toHost).id # c.id
                       /\ ~(Head(toHost).id = c.id /\ Head(toHost).what = "done")
                       /\ TakesIn(toHost, heard, c.id, heard'),
           OwnAnswer', Unended'
    PROVE  HttpInv'
<1>1. HttpTypes /\ HttpPlaces /\ Balanced /\ 1 \in 1 .. Len(toHost) /\ Head(toHost) = toHost[1]
  <2>1. toHost \in Seq(HostFrames)
    BY DEF HttpInv, HttpTypes
  <2> QED  BY <2>1, Shifted DEF HttpInv, HttpPlaces
<1>2. HttpTypes'
  <2>1. lost' \in BOOLEAN
    BY <1>1 DEF HttpTypes
  <2> QED  BY <1>1, <2>1, KioskTypes
<1>3. Waits(c.id) => heard' = heard
  <2>1. c.id \in Nat
    BY <1>1 DEF HttpTypes
  <2> QED  BY <1>1, <2>1 DEF HttpPlaces, Unbegun
<1>4. HttpPlaces'
  BY <1>1, <1>3, KioskPlaces DEF modem
<1>5. Balanced'
  BY <1>1, <1>2, DropBalanced DEF modem
<1>6. OneAnswer'
  BY <1>1, TakeKeeps DEF modem
<1>7. Locals'
  BY DEF HttpInv, Locals, modem
<1> QED  BY <1>2, <1>4, <1>5, <1>6, <1>7 DEF HttpInv, HttpPlaces

LEMMA OnBodyKeeps ==
    ASSUME HttpInv, toHost # <<>>, toHost' = Tail(toHost), UNCHANGED <<modem, slip, lost>>,
           Head(toHost).what = "body", IsReply(Head(toHost)), OnBody(Head(toHost))
    PROVE  HttpInv'
<1> DEFINE m == Head(toHost)
           h == [heard EXCEPT !.next = m.from + m.n, !.foreign = @ \/ m.id # c.id \/ m.from # heard.next]
<1>1. /\ HttpTypes /\ HttpPlaces /\ Balanced /\ OwnAnswer /\ c.active /\ c.id # 0 /\ c.id \in Nat /\ m.id = c.id /\ heard \in Hearings
      /\ c \in [id : Nat, active : BOOLEAN, unacked : Nat, up : BOOLEAN] /\ toHost \in Seq(HostFrames)
      /\ heard.result = "none"
  BY DEF HttpInv, HttpPlaces, Unended, IsReply, HttpTypes
<1>2. /\ m = toHost[1] /\ 1 \in 1 .. Len(toHost) /\ m.what = "body" /\ m.from \in Nat /\ m.n \in Nat /\ IsAnswer(m)
  <2>1. m = toHost[1] /\ 1 \in 1 .. Len(toHost)
    BY <1>1, Shifted
  <2> QED  BY <1>1, <2>1, HostFrame DEF IsAnswer
<1>3. ~lost => m.from = heard.next /\ m.n > 0
  BY <1>1, NextFrame
<1>4. /\ h \in Hearings /\ h.next = m.from + m.n /\ h.status = heard.status /\ h.size = heard.size /\ h.ends = heard.ends
      /\ h.result = heard.result /\ (h.foreign => lost)
  <2> DEFINE e == m.from + m.n
             f == heard.foreign \/ m.id # c.id \/ m.from # heard.next
  <2>1. e \in Nat /\ f \in BOOLEAN /\ (f => lost)
    BY <1>1, <1>2, <1>3 DEF OwnAnswer
  <2>2. h = [heard EXCEPT !.next = e, !.foreign = f]
    OBVIOUS
  <2> HIDE DEF e, f, h
  <2>3. h \in Hearings /\ h.foreign = f /\ h.next = e /\ h.status = heard.status /\ h.size = heard.size /\ h.ends = heard.ends
        /\ h.result = heard.result
    BY <1>1, <2>1, <2>2 DEF Hearings
  <2> QED  BY <2>1, <2>3 DEF e
<1>5. \/ Grant([c EXCEPT !.unacked = @ + m.n]) /\ heard' = h
      \/ /\ toModem' = toModem \/ toModem' = Append(toModem, Cancel(c.id))
         /\ c' = Finish(h, c, "aborted").c /\ heard' = Finish(h, c, "aborted").heard
  BY DEF OnBody, Sent, NotSent
<1>6. CASE Grant([c EXCEPT !.unacked = @ + m.n]) /\ heard' = h
  <2> DEFINE n == m.n
             k == [c EXCEPT !.unacked = c.unacked + n]
  <2> HIDE DEF h, n
  <2>1. n \in Nat /\ c.unacked + n \in Nat
    BY <1>1, <1>2 DEF n
  <2>2. k.id = c.id /\ k.active /\ k.unacked = c.unacked + n /\ k \in [id : Nat, active : BOOLEAN, unacked : Nat, up : BOOLEAN]
    BY <1>1, <2>1
  <2>3. \/ toModem' = Append(toModem, Credit(k.id, k.unacked)) /\ c' = [k EXCEPT !.unacked = 0]
        \/ toModem' = toModem /\ c' = k
    <3>1. Grant(k)
      BY <1>6 DEF n
    <3> HIDE DEF k
    <3> QED  BY <3>1 DEF Grant, GrantFlush, Sent, NotSent
  <2> HIDE DEF k
  <2>4. /\ c' \in [id : Nat, active : BOOLEAN, unacked : Nat, up : BOOLEAN] /\ c'.id = c.id /\ c'.active
        /\ \/ toModem' = toModem /\ c'.unacked = c.unacked + n
           \/ toModem' = Append(toModem, Credit(c.id, c.unacked + n)) /\ c'.unacked = 0
    <3>1. CASE toModem' = Append(toModem, Credit(k.id, k.unacked)) /\ c' = [k EXCEPT !.unacked = 0]
      <4>1. c' \in [id : Nat, active : BOOLEAN, unacked : Nat, up : BOOLEAN] /\ c'.id = c.id /\ c'.active /\ c'.unacked = 0
        BY <2>2, <3>1
      <4>2. toModem' = Append(toModem, Credit(c.id, c.unacked + n))
        BY <2>2, <3>1
      <4> QED  BY <4>1, <4>2
    <3>2. CASE toModem' = toModem /\ c' = k
      BY <2>2, <3>2
    <3> QED  BY <2>3, <3>1, <3>2
  <2>5. ~Waits(c.id)
    BY <1>1, <1>2 DEF HttpPlaces, Unbegun
  <2>6. toModem' = toModem \/ \E x \in ModemFrames : x.what \in {"credit", "cancel"} /\ x.id = c.id /\ toModem' = Append(toModem, x)
    BY <1>1, <2>1, <2>4, KioskSends
  <2>7. HttpTypes'
    <3>1. lost' \in BOOLEAN /\ heard' \in Hearings
      BY <1>1, <1>4, <1>6 DEF HttpTypes
    <3> QED  BY <1>1, <2>4, <2>6, <3>1, KioskTypes
  <2>8. HttpPlaces'
    BY <1>1, <2>4, <2>5, <2>6, KioskPlaces DEF modem
  <2>9. Balanced'
    <3>1. UNCHANGED <<t, credit, slip>>
      BY DEF modem
    <3>2. Head(toHost).n = n
      BY DEF n
    <3> QED  BY <1>1, <1>2, <2>1, <2>4, <2>7, <3>1, <3>2, GrantBalanced
  <2>10. OneAnswer'
    <3>1. TakesIn(toHost, heard, c.id, heard') /\ heard' \in Hearings
      BY <1>1, <1>2, <1>4, <1>6 DEF TakesIn, Hearings
    <3> QED  BY <1>1, <1>2, <2>4, <3>1, TakeKeeps DEF modem
  <2>11. Locals' /\ Unended' /\ OwnAnswer'
    <3>1. Locals'
      BY DEF HttpInv, Locals, modem
    <3>2. Unended'
      BY <1>1, <1>4, <1>6, <2>4 DEF Unended
    <3>3. OwnAnswer'
      BY <1>1, <1>4, <1>6, <2>4 DEF OwnAnswer
    <3> QED  BY <3>1, <3>2, <3>3
  <2> QED  BY <2>7, <2>8, <2>9, <2>10, <2>11 DEF HttpInv, HttpPlaces
<1>7. CASE /\ toModem' = toModem \/ toModem' = Append(toModem, Cancel(c.id))
           /\ c' = Finish(h, c, "aborted").c /\ heard' = Finish(h, c, "aborted").heard
  <2> HIDE DEF h
  <2>1. "aborted" \in Errors /\ "aborted" # "ok"
    BY DEF Errors
  <2>2. /\ c' \in [id : Nat, active : BOOLEAN, unacked : Nat, up : BOOLEAN] /\ c'.id = c.id /\ c'.unacked = c.unacked /\ ~c'.active
        /\ heard' \in Hearings /\ OwnAnswer'
    BY <1>1, <1>4, <1>7, <2>1, Finishing
  <2> QED  BY <1>1, <1>7, <2>2, EndKeeps
<1> QED  BY <1>5, <1>6, <1>7

LEMMA OnMessageKeeps ==
    ASSUME HttpInv, OnMessage
    PROVE  HttpInv'
<1> DEFINE m == Head(toHost)
<1>1. toHost # <<>> /\ toHost' = Tail(toHost) /\ UNCHANGED <<modem, slip, lost>>
  BY DEF OnMessage
<1>2. /\ HttpTypes /\ OwnAnswer /\ Unended /\ heard \in Hearings /\ toHost \in Seq(HostFrames)
      /\ c \in [id : Nat, active : BOOLEAN, unacked : Nat, up : BOOLEAN]
  BY DEF HttpInv, HttpTypes
<1>3. m = toHost[1] /\ 1 \in 1 .. Len(toHost) /\ m \in AnyFrames
  <2>1. m = toHost[1] /\ 1 \in 1 .. Len(toHost)
    BY <1>1, <1>2, Shifted
  <2> QED  BY <1>2, <2>1, HostFrame DEF HostFrames
<1>4. CASE m.what \in {"status", "body", "done"} /\ ~IsReply(m) /\ UNCHANGED toModem /\ UNCHANGED host
  <2>1. c' = c /\ heard' = heard /\ UNCHANGED <<modem, slip, lost, toModem>>
    BY <1>1, <1>4 DEF host
  <2>2. c.active => m.id # c.id
    BY <1>4 DEF IsReply
  <2>3. c.active => TakesIn(toHost, heard, c.id, heard')
    BY <1>2, <1>3, <2>1, <2>2 DEF TakesIn, Hearings
  <2>4. OwnAnswer' /\ Unended'
    BY <1>2, <1>1, <2>1 DEF OwnAnswer, Unended
  <2> QED  BY <1>1, <1>2, <2>1, <2>2, <2>3, <2>4, HeardKeeps
<1>5. CASE /\ m.what = "status" /\ IsReply(m) /\ UNCHANGED toModem /\ UNCHANGED c
           /\ heard' = [heard EXCEPT !.status = TRUE, !.size = m.n, !.foreign = @ \/ m.id # c.id \/ heard.status]
  <2>1. c.active /\ m.id = c.id /\ m.n \in Nat
    BY <1>2, <1>3, <1>5, HostFrame DEF IsReply
  <2>2. ~lost => ~heard.status
    BY <1>1, <1>5, <2>1, NextFrame
  <2> DEFINE f == heard.foreign \/ m.id # c.id \/ heard.status
  <2>3. f \in BOOLEAN /\ (f => lost)
    BY <1>2, <2>1, <2>2 DEF OwnAnswer
  <2>4. heard' = [heard EXCEPT !.status = TRUE, !.size = m.n, !.foreign = f]
    BY <1>5
  <2> HIDE DEF f
  <2>5. /\ heard' \in Hearings /\ heard'.status /\ heard'.size = m.n /\ heard'.foreign = f /\ heard'.next = heard.next
        /\ heard'.ends = heard.ends /\ heard'.result = heard.result
    BY <1>2, <2>1, <2>3, <2>4 DEF Hearings
  <2>6. TakesIn(toHost, heard, c.id, heard')
    BY <1>3, <1>5, <2>1, <2>5 DEF TakesIn
  <2>7. OwnAnswer' /\ Unended'
    BY <1>1, <1>2, <1>5, <2>1, <2>3, <2>5 DEF OwnAnswer, Unended
  <2>8. IsAnswer(m) /\ UNCHANGED <<modem, slip, lost, toModem>>
    BY <1>1, <1>5 DEF IsAnswer
  <2> QED  BY <1>1, <1>2, <1>5, <2>1, <2>5, <2>6, <2>7, <2>8, HeardKeeps
<1>6. CASE m.what = "body" /\ IsReply(m) /\ OnBody(m)
  BY <1>1, <1>6, OnBodyKeeps
<1>7. CASE m.what = "done" /\ IsReply(m) /\ UNCHANGED toModem /\ Finishes(c, m.err)
  <2>1. c.active /\ m.id = c.id /\ m.err \in Errors
    BY <1>3, <1>7 DEF IsReply, AnyFrames
  <2>2. m.err = "ok" /\ ~lost => heard.status /\ heard.next = heard.size
    BY <1>1, <1>7, <2>1, NextFrame
  <2>3. c' = Finish(heard, c, m.err).c /\ heard' = Finish(heard, c, m.err).heard
    BY <1>7 DEF Finishes
  <2>4. /\ c' \in [id : Nat, active : BOOLEAN, unacked : Nat, up : BOOLEAN] /\ c'.id = c.id /\ c'.unacked = c.unacked /\ ~c'.active
        /\ heard' \in Hearings /\ OwnAnswer'
    <3>1. heard.foreign => lost
      BY <1>2 DEF OwnAnswer
    <3>2. lost' = lost
      BY <1>1
    <3> HIDE DEF m
    <3> QED  BY <1>2, <2>1, <2>2, <2>3, <3>1, <3>2, Finishing
  <2> QED  BY <1>1, <1>7, <2>4, EndKeeps
<1>8. CASE m.what = "hello" /\ UNCHANGED toModem /\ Finishes([c EXCEPT !.up = FALSE], "closed")
  <2> DEFINE k == [c EXCEPT !.up = FALSE]
  <2>1. c' = Finish(heard, k, "closed").c /\ heard' = Finish(heard, k, "closed").heard
    BY <1>8 DEF Finishes
  <2>2. /\ c' \in [id : Nat, active : BOOLEAN, unacked : Nat, up : BOOLEAN] /\ c'.id = c.id /\ c'.unacked = c.unacked /\ ~c'.active
        /\ heard' \in Hearings /\ OwnAnswer'
    <3>1. (heard.foreign => lost) /\ "closed" \in Errors /\ "closed" # "ok"
      BY <1>2 DEF OwnAnswer, Errors
    <3>2. lost' = lost /\ k = [c EXCEPT !.up = FALSE]
      BY <1>1
    <3> HIDE DEF k
    <3> QED  BY <1>2, <2>1, <3>1, <3>2, Finishing
  <2> QED  BY <1>1, <1>8, <2>2, EndKeeps
<1>9. CASE m.what = "up" /\ UNCHANGED toModem /\ c' = [c EXCEPT !.up = TRUE] /\ UNCHANGED heard
  <2>1. /\ c' \in [id : Nat, active : BOOLEAN, unacked : Nat, up : BOOLEAN] /\ c'.id = c.id /\ c'.unacked = c.unacked
        /\ c'.active = c.active
    BY <1>2, <1>9
  <2>2. OwnAnswer' /\ Unended' /\ UNCHANGED <<modem, slip, lost, toModem>>
    BY <1>1, <1>2, <1>9, <2>1 DEF OwnAnswer, Unended
  <2>3. TakesIn(toHost, heard, c.id, heard')
    BY <1>2, <1>3, <1>9 DEF TakesIn, Hearings
  <2> QED  BY <1>1, <1>2, <1>9, <2>1, <2>2, <2>3, HeardKeeps
<1> QED  BY <1>4, <1>5, <1>6, <1>7, <1>8, <1>9 DEF OnMessage

-----------------------------------------------------------------------------
(* The modem's receive task. *)

\* The window stays what it is while no units arrive or leave.
LEMMA SameWindow ==
    ASSUME HttpTypes, HttpTypes', Balanced, c' = c, t'.pc # "idle" => t.pc # "idle" /\ t'.id = t.id,
           \A id : Units(toHost', "body", id) = Units(toHost, "body", id),
           t'.pc # "idle" => credit' + Units(toModem', "credit", t.id) + slip' = credit + Units(toModem, "credit", t.id) + slip
    PROVE  Balanced'
<1>1. \A id \in Nat : Units(toHost', "body", id) <= HTTP_WINDOW
  BY DEF Balanced
<1>2. ASSUME t'.pc # "idle" PROVE Window' = Window
  <2> DEFINE b == Units(toHost, "body", t.id)
             k1 == Units(toModem, "credit", t.id)
             k2 == Units(toModem', "credit", t.id)
             u == IF c.id = t.id THEN c.unacked ELSE 0
  <2>1. Window = credit + b + u + k1 + slip
    BY DEF Window
  <2>2. Window' = credit' + b + u + k2 + slip'
    BY <1>2 DEF Window
  <2>3. credit' + k2 + slip' = credit + k1 + slip
    BY <1>2
  <2>4. b \in Nat /\ k1 \in Nat /\ u \in Nat /\ k2 \in Nat
    <3>1. toModem' \in Seq(ModemFrames) /\ toHost' \in Seq(HostFrames)
      BY DEF HttpTypes
    <3>2. Counted(toModem')
      BY <3>1, Queues
    <3>3. k2 \in Nat
      BY <3>2, UnitsNat
    <3> QED  BY <3>3, WindowParts
  <2>5. credit \in Nat /\ slip \in Nat /\ credit' \in Nat /\ slip' \in Nat
    BY DEF HttpTypes
  <2> HIDE DEF b, k1, k2, u
  <2>6. credit' + b + u + k2 + slip' = credit + b + u + k1 + slip
    <3> DEFINE e == credit'
               s == slip'
    <3>1. e \in Nat /\ s \in Nat /\ e + k2 + s = credit + k1 + slip
      BY <2>3, <2>5
    <3> HIDE DEF e, s
    <3>2. e + b + u + k2 + s = credit + b + u + k1 + slip
      BY <2>4, <2>5, <3>1
    <3> QED  BY <3>2 DEF e, s
  <2> QED  BY <2>1, <2>2, <2>6
<1>3. t'.pc # "idle" => Window' <= HTTP_WINDOW
  BY <1>2 DEF Balanced
<1>4. t'.pc # "idle" /\ c'.active /\ c'.id = t'.id => Window' = HTTP_WINDOW
  BY <1>2 DEF Balanced
<1> QED  BY <1>1, <1>3, <1>4 DEF Balanced

\* A frame that brings no units joins the queue to the kiosk.
LEMMA NoUnits ==
    ASSUME NEW q \in Seq(HostFrames), NEW m \in HostFrames, m.what # "body"
    PROVE  \A id : Units(Append(q, m), "body", id) = Units(q, "body", id)
<1>1. Counted(q) /\ Counted(Append(q, m))
  <2>1. Append(q, m) \in Seq(HostFrames) /\ <<>> \in Seq(ModemFrames)
    BY Grown
  <2> QED  BY <2>1, Queues
<1>2. \A id : Part(m, "body", id) = 0
  BY DEF Part
<1>3. \A id : Units(q, "body", id) \in Nat
  BY <1>1, UnitsNat
<1> QED  BY <1>1, <1>2, <1>3, UnitsAppend

\* The frame the modem takes leaves the queue, and a request it asks for is in no other place.
LEMMA Received ==
    ASSUME HttpTypes, HttpPlaces, toModem # <<>>, toModem' = Tail(toModem)
    PROVE  /\ Head(toModem) = toModem[1] /\ 1 \in 1 .. Len(toModem) /\ Head(toModem) \in ModemFrames /\ Head(toModem).id \in Nat \ {0}
           /\ toModem' \in Seq(ModemFrames)
           /\ \A i \in 1 .. Len(toModem') : i + 1 \in 1 .. Len(toModem) /\ i + 1 # 1 /\ toModem'[i] = toModem[i + 1]
           /\ Head(toModem).what = "get" =>
                /\ Waits(Head(toModem).id) /\ t.id # Head(toModem).id
                /\ \A i \in 1 .. Len(toModem') : toModem'[i].what = "get" => toModem'[i].id # Head(toModem).id
                /\ \A j \in 1 .. Len(req_q) : req_q[j] # Head(toModem).id
           /\ \A id : Units(toModem, "credit", id) = Part(Head(toModem), "credit", id) + Units(toModem', "credit", id)
<1>1. /\ toModem \in Seq(ModemFrames) /\ Head(toModem) = toModem[1] /\ 1 \in 1 .. Len(toModem) /\ toModem' \in Seq(ModemFrames)
      /\ \A i \in 1 .. Len(toModem') : i + 1 \in 1 .. Len(toModem) /\ i + 1 # 1 /\ toModem'[i] = toModem[i + 1]
  <2>1. toModem \in Seq(ModemFrames)
    BY DEF HttpTypes
  <2> QED  BY <2>1, Shifted
<1>2. Head(toModem) \in ModemFrames /\ Head(toModem).id \in Nat \ {0}
  BY <1>1, ModemFrame
<1>3. ASSUME Head(toModem).what = "get"
      PROVE  /\ Waits(Head(toModem).id) /\ t.id # Head(toModem).id
             /\ \A i \in 1 .. Len(toModem') : toModem'[i].what = "get" => toModem'[i].id # Head(toModem).id
             /\ \A j \in 1 .. Len(req_q) : req_q[j] # Head(toModem).id
  <2>1. Waits(Head(toModem).id)
    BY <1>1, <1>3 DEF Waits
  <2>2. t.id # Head(toModem).id
    BY <2>1 DEF HttpPlaces, OnePlace
  <2>3. \A i \in 1 .. Len(toModem') : toModem'[i].what = "get" => toModem'[i].id # Head(toModem).id
    BY <1>1, <1>3 DEF HttpPlaces, OnePlace
  <2>4. \A j \in 1 .. Len(req_q) : req_q[j] # Head(toModem).id
    BY <1>1, <1>3 DEF HttpPlaces, OnePlace
  <2> QED  BY <2>1, <2>2, <2>3, <2>4
<1>4. \A id : Units(toModem, "credit", id) = Part(Head(toModem), "credit", id) + Units(toModem', "credit", id)
  BY Queued, UnitsTail
<1> QED  BY <1>1, <1>2, <1>3, <1>4

\* A frame is taken off the queue: nothing else has to have happened.
LEMMA ReceivedPlaces ==
    ASSUME HttpTypes, HttpPlaces, toModem # <<>>, toModem' = Tail(toModem), UNCHANGED <<c, heard, toHost, req_q, t>>
    PROVE  HttpPlaces'
<1>1. \A i \in 1 .. Len(toModem') : i + 1 \in 1 .. Len(toModem) /\ toModem'[i] = toModem[i + 1] /\ i \in Nat
  BY Received
<1>2. \A x : Waits(x)' => Waits(x)
  BY <1>1 DEF Waits
<1>3. OnePlace'
  <2>1. \A i \in 1 .. Len(toModem') : toModem'[i].id <= c'.id
    BY <1>1 DEF HttpPlaces, OnePlace
  <2>2. \A i, j \in 1 .. Len(toModem') :
          toModem'[i].what = "get" /\ toModem'[j].what = "get" /\ toModem'[i].id = toModem'[j].id => i = j
    <3> SUFFICES ASSUME NEW i \in 1 .. Len(toModem'), NEW j \in 1 .. Len(toModem'),
                        toModem'[i].what = "get", toModem'[j].what = "get", toModem'[i].id = toModem'[j].id
                 PROVE  i = j
      OBVIOUS
    <3>1. i + 1 = j + 1
      BY <1>1 DEF HttpPlaces, OnePlace
    <3> QED  BY <1>1, <3>1
  <2>3. \A i \in 1 .. Len(toModem'), j \in 1 .. Len(req_q) : toModem'[i].what = "get" => toModem'[i].id # req_q[j]
    BY <1>1 DEF HttpPlaces, OnePlace
  <2>4. ~Waits(t.id)' /\ t'.id <= c'.id
    BY <1>2 DEF HttpPlaces, OnePlace
  <2>5. /\ \A i \in 1 .. Len(toHost') : IsAnswer(toHost'[i]) => toHost'[i].id <= c'.id
        /\ \A i \in 1 .. Len(req_q') : req_q'[i] <= c'.id
    BY DEF HttpPlaces, OnePlace
  <2> QED  BY <2>1, <2>2, <2>3, <2>4, <2>5 DEF OnePlace, Waits
<1>4. Unbegun'
  <2> SUFFICES ASSUME NEW x \in Nat, Waits(x)
               PROVE  /\ \A j \in 1 .. Len(toHost') : IsAnswer(toHost'[j]) => toHost'[j].id # x
                      /\ \A i \in 1 .. Len(toModem') : toModem'[i].what = "credit" => toModem'[i].id # x
                      /\ c'.id = x => c'.unacked = 0
                      /\ c'.id = x /\ c'.active => ~heard'.status /\ heard'.next = 0
    BY <1>2 DEF Unbegun, IsAnswer
  <2> QED  BY <1>1 DEF HttpPlaces, Unbegun
<1> QED  BY <1>3, <1>4 DEF HttpPlaces

LEMMA RxGetKeeps ==
    ASSUME HttpInv, toModem # <<>>, toModem' = Tail(toModem), RxGet(Head(toModem)), UNCHANGED <<host, t, joined, slip, lost>>
    PROVE  HttpInv'
<1> DEFINE m == Head(toModem)
           id == m.id
<1>1. /\ HttpTypes /\ HttpPlaces /\ Balanced /\ toModem \in Seq(ModemFrames) /\ toHost \in Seq(HostFrames)
      /\ UNCHANGED <<c, heard, t, joined, slip, lost, credit, cancelled>> /\ m.what = "get"
  BY DEF HttpInv, HttpPlaces, HttpTypes, RxGet, host
<1>2. /\ id \in Nat \ {0} /\ m \in ModemFrames /\ toModem' \in Seq(ModemFrames) /\ Waits(id) /\ t.id # id
      /\ m = toModem[1] /\ 1 \in 1 .. Len(toModem)
      /\ \A i \in 1 .. Len(toModem') : i + 1 \in 1 .. Len(toModem) /\ toModem'[i] = toModem[i + 1] /\ i \in Nat
      /\ \A i \in 1 .. Len(toModem') : toModem'[i].what = "get" => toModem'[i].id # id
      /\ \A j \in 1 .. Len(req_q) : req_q[j] # id
  BY <1>1, Received
<1>3. \A x : Units(toModem', "credit", x) = Units(toModem, "credit", x)
  <2>1. \A x : Part(m, "credit", x) = 0
    BY <1>1 DEF Part
  <2>2. \A x : Units(toModem', "credit", x) \in Nat
    <3>1. Counted(toModem')
      BY <1>1, <1>2, Queues
    <3> QED  BY <3>1, UnitsNat
  <2> QED  BY <1>1, <2>1, <2>2, Received
<1>4. \/ req_q' = req_q /\ \E err \in {"connect", "busy"} : toHost' = Append(toHost, Done(id, err))
      \/ Len(req_q) # 1 /\ req_q' = Append(req_q, id) /\ toHost' = toHost
  BY DEF RxGet, QueueFull
<1> HIDE DEF m, id
<1>5. Locals' /\ Unended' /\ OwnAnswer'
  BY <1>1 DEF HttpInv, Locals, Unended, OwnAnswer
<1>6. id <= c.id
  BY <1>1, <1>2 DEF HttpPlaces, OnePlace, id
<1>7. ASSUME NEW err \in {"connect", "busy"}, req_q' = req_q, toHost' = Append(toHost, Done(id, err))
      PROVE  HttpInv'
  <2> DEFINE f == Done(id, err)
  <2>1. f \in HostFrames /\ f.what = "done" /\ f.id = id /\ f.err # "ok" /\ IsAnswer(f)
    BY <1>2 DEF Done, Frame, HostFrames, AnyFrames, Errors, IsAnswer
  <2> HIDE DEF f
  <2>2. /\ toHost' = Append(toHost, f) /\ toHost' \in Seq(HostFrames)
        /\ \A j \in 1 .. Len(toHost') : toHost'[j] = f \/ (j \in 1 .. Len(toHost) /\ toHost'[j] = toHost[j])
    <3>1. toHost' = Append(toHost, f)
      BY <1>7 DEF f
    <3> QED  BY <1>1, <2>1, <3>1, Grown
  <2>3. HttpTypes'
    BY <1>1, <1>2, <1>7, <2>2 DEF HttpTypes
  <2>4. \A x : Waits(x)' => Waits(x) /\ x # id
    BY <1>2, <1>7 DEF Waits
  <2>5. OnePlace'
    <3>1. \A i \in 1 .. Len(toModem') : toModem'[i].id <= c'.id
      BY <1>1, <1>2 DEF HttpPlaces, OnePlace
    <3>2. \A i, j \in 1 .. Len(toModem') :
            toModem'[i].what = "get" /\ toModem'[j].what = "get" /\ toModem'[i].id = toModem'[j].id => i = j
      <4> SUFFICES ASSUME NEW i \in 1 .. Len(toModem'), NEW j \in 1 .. Len(toModem'),
                          toModem'[i].what = "get", toModem'[j].what = "get", toModem'[i].id = toModem'[j].id
                   PROVE  i = j
        OBVIOUS
      <4>1. i + 1 = j + 1
        BY <1>1, <1>2 DEF HttpPlaces, OnePlace
      <4> QED  BY <1>2, <4>1
    <3>3. \A i \in 1 .. Len(toModem'), j \in 1 .. Len(req_q) : toModem'[i].what = "get" => toModem'[i].id # req_q[j]
      BY <1>1, <1>2 DEF HttpPlaces, OnePlace
    <3>4. ~Waits(t.id)' /\ t'.id <= c'.id
      BY <1>1, <2>4 DEF HttpPlaces, OnePlace
    <3>5. \A i \in 1 .. Len(toHost') : IsAnswer(toHost'[i]) => toHost'[i].id <= c'.id
      BY <1>1, <1>6, <2>1, <2>2 DEF HttpPlaces, OnePlace
    <3>6. \A i \in 1 .. Len(req_q') : req_q'[i] <= c'.id
      BY <1>1, <1>7 DEF HttpPlaces, OnePlace
    <3> QED  BY <1>1, <1>7, <3>1, <3>2, <3>3, <3>4, <3>5, <3>6 DEF OnePlace, Waits
  <2>6. Unbegun'
    <3> SUFFICES ASSUME NEW x \in Nat, Waits(x), x # id
                 PROVE  /\ \A j \in 1 .. Len(toHost') : IsAnswer(toHost'[j]) => toHost'[j].id # x
                        /\ \A i \in 1 .. Len(toModem') : toModem'[i].what = "credit" => toModem'[i].id # x
                        /\ c'.id = x => c'.unacked = 0
                        /\ c'.id = x /\ c'.active => ~heard'.status /\ heard'.next = 0
      BY <2>4 DEF Unbegun, IsAnswer
    <3>1. \A j \in 1 .. Len(toHost') : IsAnswer(toHost'[j]) => toHost'[j].id # x
      BY <1>1, <2>1, <2>2 DEF HttpPlaces, Unbegun
    <3>2. \A i \in 1 .. Len(toModem') : toModem'[i].what = "credit" => toModem'[i].id # x
      BY <1>1, <1>2 DEF HttpPlaces, Unbegun
    <3>3. /\ c'.id = x => c'.unacked = 0
          /\ c'.id = x /\ c'.active => ~heard'.status /\ heard'.next = 0
      BY <1>1 DEF HttpPlaces, Unbegun
    <3> QED  BY <3>1, <3>2, <3>3
  <2>7. Balanced'
    <3>1. \A x : Units(toHost', "body", x) = Units(toHost, "body", x)
      BY <1>1, <2>1, <2>2, NoUnits
    <3> QED  BY <1>1, <1>3, <2>3, <3>1, SameWindow
  <2>8. OneAnswer'
    <3> SUFFICES ASSUME c.active, ~lost
                 PROVE  \E size \in Nat : /\ Told(toHost', heard', c'.id, size)
                                          /\ t'.id = c'.id => GoesOn(toHost', heard', c'.id, size, t')
      BY <1>1 DEF OneAnswer
    <3>1. PICK size \in Nat : Told(toHost, heard, c.id, size) /\ (t.id = c.id => GoesOn(toHost, heard, c.id, size, t))
      BY DEF HttpInv, OneAnswer
    <3>2. heard \in Hearings /\ c.id \in Nat /\ t \in Tasks
      BY <1>1 DEF HttpTypes
    <3>3. CASE id # c.id
      <4>1. Told(Append(toHost, f), heard, c.id, size) /\ (t.id = c.id => GoesOn(Append(toHost, f), heard, c.id, size, t))
        BY <1>1, <2>1, <3>1, <3>2, <3>3, ToldAppendOther
      <4> QED  BY <1>1, <2>2, <4>1
    <3>4. CASE id = c.id
      <4>1. \A j \in 1 .. Len(toHost) : toHost[j].what = "done" => toHost[j].id # c.id
        BY <1>1, <1>2, <3>2, <3>4 DEF HttpPlaces, Unbegun, IsAnswer
      <4>2. Told(Append(toHost, f), heard, c.id, size)
        BY <1>1, <2>1, <3>1, <3>2, <3>4, <4>1, ToldAppendMine
      <4> QED  BY <1>1, <1>2, <2>2, <3>4, <4>2
    <3> QED  BY <3>3, <3>4
  <2> QED  BY <1>5, <2>3, <2>5, <2>6, <2>7, <2>8 DEF HttpInv
<1>8. ASSUME Len(req_q) # 1, req_q' = Append(req_q, id), toHost' = toHost
      PROVE  HttpInv'
  <2>1. req_q = <<>> /\ req_q' = <<id>>
    <3>1. req_q \in Seq(Nat \ {0}) /\ Len(req_q) \in Nat /\ Len(req_q) <= 1
      BY <1>1 DEF HttpTypes
    <3>2. Len(req_q) = 0
      <4> DEFINE n == Len(req_q)
      <4>1. n \in Nat /\ n <= 1 /\ n # 1
        BY <1>8, <3>1
      <4> HIDE DEF n
      <4>2. n = 0
        BY <4>1
      <4> QED  BY <4>2 DEF n
    <3>3. req_q = <<>>
      BY <3>1, <3>2
    <3> QED  BY <1>8, <3>3
  <2>2. HttpTypes'
    BY <1>1, <1>2, <1>8, <2>1 DEF HttpTypes
  <2>3. \A x : Waits(x)' => Waits(x)
    <3>1. \A i \in 1 .. Len(req_q') : req_q'[i] = id
      BY <2>1
    <3> QED  BY <1>2, <3>1 DEF Waits
  <2>4. OnePlace'
    <3>1. \A i \in 1 .. Len(toModem') : toModem'[i].id <= c'.id
      BY <1>1, <1>2 DEF HttpPlaces, OnePlace
    <3>2. \A i, j \in 1 .. Len(toModem') :
            toModem'[i].what = "get" /\ toModem'[j].what = "get" /\ toModem'[i].id = toModem'[j].id => i = j
      <4> SUFFICES ASSUME NEW i \in 1 .. Len(toModem'), NEW j \in 1 .. Len(toModem'),
                          toModem'[i].what = "get", toModem'[j].what = "get", toModem'[i].id = toModem'[j].id
                   PROVE  i = j
        OBVIOUS
      <4>1. i + 1 = j + 1
        BY <1>1, <1>2 DEF HttpPlaces, OnePlace
      <4> QED  BY <1>2, <4>1
    <3>3. \A j \in 1 .. Len(req_q') : req_q'[j] = id
      BY <2>1
    <3>4. \A i \in 1 .. Len(toModem'), j \in 1 .. Len(req_q') : toModem'[i].what = "get" => toModem'[i].id # req_q'[j]
      BY <1>2, <3>3
    <3>5. ~Waits(t.id)' /\ t'.id <= c'.id
      BY <1>1, <2>3 DEF HttpPlaces, OnePlace
    <3>6. /\ \A i \in 1 .. Len(toHost') : IsAnswer(toHost'[i]) => toHost'[i].id <= c'.id
          /\ \A i \in 1 .. Len(req_q') : req_q'[i] <= c'.id
      BY <1>1, <1>6, <1>8, <3>3 DEF HttpPlaces, OnePlace
    <3> QED  BY <1>1, <3>1, <3>2, <3>4, <3>5, <3>6 DEF OnePlace, Waits
  <2>5. Unbegun'
    <3> SUFFICES ASSUME NEW x \in Nat, Waits(x)
                 PROVE  /\ \A j \in 1 .. Len(toHost') : IsAnswer(toHost'[j]) => toHost'[j].id # x
                        /\ \A i \in 1 .. Len(toModem') : toModem'[i].what = "credit" => toModem'[i].id # x
                        /\ c'.id = x => c'.unacked = 0
                        /\ c'.id = x /\ c'.active => ~heard'.status /\ heard'.next = 0
      BY <2>3 DEF Unbegun, IsAnswer
    <3> QED  BY <1>1, <1>2, <1>8 DEF HttpPlaces, Unbegun
  <2>6. Balanced'
    BY <1>1, <1>3, <1>8, <2>2, SameWindow
  <2>7. OneAnswer'
    BY <1>1, <1>8, StoryKept DEF HttpInv
  <2> QED  BY <1>5, <2>2, <2>4, <2>5, <2>6, <2>7 DEF HttpInv
<1> QED  BY <1>4, <1>7, <1>8

LEMMA ReceivesKeeps ==
    ASSUME HttpInv, ModemReceives
    PROVE  HttpInv'
<1> DEFINE m == Head(toModem)
<1>1. /\ HttpTypes /\ HttpPlaces /\ Balanced /\ toModem # <<>> /\ toModem' = Tail(toModem) /\ UNCHANGED <<host, t, joined, slip, lost>>
  BY DEF HttpInv, HttpPlaces, ModemReceives
<1>2. CASE RxGet(m)
  BY <1>1, <1>2, RxGetKeeps
<1>3. ASSUME RxCredit(m) \/ RxCancel(m)
      PROVE  HttpInv'
  <2>1. UNCHANGED <<c, heard, toHost, req_q, t, joined, slip, lost>> /\ m \in ModemFrames /\ m.n \in Nat /\ toModem' \in Seq(ModemFrames)
        /\ m.id \in Nat
    BY <1>1, <1>3, Received DEF RxCredit, RxCancel, host, ModemFrames, AnyFrames
  <2>2. /\ credit' = IF m.what = "credit" /\ Running(m.id) THEN credit + m.n ELSE credit
        /\ cancelled' \in BOOLEAN
    BY <1>1, <1>3 DEF RxCredit, RxCancel, HttpTypes
  <2>3. credit' \in Nat /\ credit \in Nat /\ credit <= credit' /\ slip \in Nat
    BY <1>1, <2>1, <2>2 DEF HttpTypes
  <2>4. HttpTypes'
    BY <1>1, <2>1, <2>2, <2>3 DEF HttpTypes
  <2>5. HttpPlaces'
    BY <1>1, <2>1, ReceivedPlaces
  <2>6. Balanced'
    <3>1. \A x : Units(toModem, "credit", x) = Part(m, "credit", x) + Units(toModem', "credit", x)
      BY <1>1, Received
    <3>2. \A x : Units(toModem', "credit", x) \in Nat
      <4>1. Counted(toModem')
        BY <1>1, <2>1, Queues DEF HttpTypes
      <4> QED  BY <4>1, UnitsNat
    <3> DEFINE k1 == Units(toModem, "credit", t.id)
               k2 == Units(toModem', "credit", t.id)
    <3>3. k1 = Part(m, "credit", t.id) + k2 /\ k2 \in Nat
      BY <3>1, <3>2
    <3> HIDE DEF k1, k2
    <3>4. t.pc # "idle" => credit' + k2 = credit + k1
      BY <2>1, <2>2, <2>3, <3>3 DEF Part, Running
    <3>5. t.pc # "idle" => credit' + k2 + slip = credit + k1 + slip
      BY <3>4
    <3>6. \A x : Units(toHost', "body", x) = Units(toHost, "body", x)
      BY <2>1
    <3> QED  BY <1>1, <2>1, <2>4, <3>5, <3>6, SameWindow DEF k1, k2
  <2>7. OneAnswer'
    BY <2>1, StoryKept DEF HttpInv
  <2>8. Locals'
    <3>1. t.want \in Nat /\ t.seen \in Nat
      BY <1>1 DEF HttpTypes, Tasks
    <3> QED  BY <2>1, <2>3, <3>1 DEF HttpInv, Locals
  <2>9. Unended' /\ OwnAnswer'
    BY <2>1 DEF HttpInv, Unended, OwnAnswer
  <2> QED  BY <2>4, <2>5, <2>6, <2>7, <2>8, <2>9 DEF HttpInv, HttpPlaces
<1> QED  BY <1>2, <1>3 DEF ModemReceives

-----------------------------------------------------------------------------
(* The modem's request task. *)

\* The task moves no request, and speaks only of its own.
LEMMA TaskPlaces ==
    ASSUME HttpTypes, HttpPlaces, UNCHANGED <<c, heard, toModem, req_q>>, t'.id = t.id \/ t'.id = 0,
           \A j \in 1 .. Len(toHost') : IsAnswer(toHost'[j]) =>
               toHost'[j].id = t.id \/ \E l \in 1 .. Len(toHost) : toHost'[j] = toHost[l]
    PROVE  HttpPlaces'
<1>1. c.id \in Nat /\ toModem \in Seq(ModemFrames) /\ req_q \in Seq(Nat \ {0})
  BY DEF HttpTypes
<1>2. ~Waits(0)
  <2>1. \A i \in 1 .. Len(toModem) : toModem[i].id # 0
    <3>1. ASSUME NEW i \in 1 .. Len(toModem) PROVE toModem[i].id # 0
      BY <1>1, ModemFrame
    <3> QED  BY <3>1
  <2>2. \A i \in 1 .. Len(req_q) : req_q[i] # 0
    BY <1>1
  <2> QED  BY <2>1, <2>2 DEF Waits
<1>3. \A x : Waits(x)' <=> Waits(x)
  BY DEF Waits
<1>4. OnePlace'
  <2>1. t'.id <= c'.id /\ ~Waits(t'.id)
    BY <1>1, <1>2 DEF HttpPlaces, OnePlace
  <2>2. \A j \in 1 .. Len(toHost') : IsAnswer(toHost'[j]) => toHost'[j].id <= c'.id
    BY DEF HttpPlaces, OnePlace
  <2> QED  BY <2>1, <2>2 DEF HttpPlaces, OnePlace, Waits
<1>5. Unbegun'
  <2> SUFFICES ASSUME NEW x \in Nat, Waits(x)
               PROVE  /\ \A j \in 1 .. Len(toHost') : IsAnswer(toHost'[j]) => toHost'[j].id # x
                      /\ \A i \in 1 .. Len(toModem') : toModem'[i].what = "credit" => toModem'[i].id # x
                      /\ c'.id = x => c'.unacked = 0
                      /\ c'.id = x /\ c'.active => ~heard'.status /\ heard'.next = 0
    BY <1>3 DEF Unbegun, IsAnswer
  <2>1. x # t.id
    BY DEF HttpPlaces, OnePlace
  <2> QED  BY <2>1 DEF HttpPlaces, Unbegun
<1> QED  BY <1>4, <1>5 DEF HttpPlaces

LEMMA StartKeeps ==
    ASSUME HttpInv, TaskStart
    PROVE  HttpInv'
<1> DEFINE id == Head(req_q)
<1>1. /\ HttpTypes /\ HttpPlaces /\ Balanced /\ t.pc = "idle" /\ req_q \in Seq(Nat \ {0}) /\ Len(req_q) = 1
      /\ UNCHANGED <<c, heard, toModem, toHost, joined, lost>> /\ req_q' = <<>>
      /\ credit' = HTTP_WINDOW /\ cancelled' = FALSE /\ slip' = 0
  <2>1. req_q \in Seq(Nat \ {0}) /\ Len(req_q) <= 1 /\ req_q # <<>>
    BY DEF HttpInv, HttpTypes, TaskStart
  <2>2. Len(req_q) = 1 /\ Tail(req_q) \in Seq(Nat \ {0}) /\ Len(Tail(req_q)) = 0
    <3> DEFINE F == Nat \ {0}
    <3>1. req_q \in Seq(F)
      BY <2>1
    <3> HIDE DEF F
    <3>2. Tail(req_q) \in Seq(F) /\ Len(req_q) \in Nat /\ Len(req_q) > 0 /\ Len(Tail(req_q)) = Len(req_q) - 1
      BY <2>1, <3>1, Shifted
    <3> QED  BY <2>1, <3>2 DEF F
  <2>3. Tail(req_q) = <<>>
    <3> DEFINE q == Tail(req_q)
    <3>1. q \in Seq(Nat \ {0}) /\ Len(q) = 0
      BY <2>2
    <3> HIDE DEF q
    <3>2. q = <<>>
      BY <3>1
    <3> QED  BY <3>2 DEF q
  <2> QED  BY <2>1, <2>2, <2>3 DEF HttpInv, HttpPlaces, TaskStart, host
<1>2. id \in Nat \ {0} /\ id = req_q[1] /\ 1 \in 1 .. Len(req_q) /\ \A j \in 1 .. Len(req_q) : j = 1
  BY <1>1
<1>3. t' = [Idle EXCEPT !.pc = "head", !.id = id]
  BY DEF TaskStart
<1> HIDE DEF id
<1>4. t' \in Tasks /\ t'.pc = "head" /\ t'.id = id /\ t'.sent = 0 /\ t'.size = 0
  BY <1>2, <1>3 DEF Idle, Tasks
<1>5. Waits(id) /\ id <= c.id /\ \A i \in 1 .. Len(toModem) : toModem[i].what = "get" => toModem[i].id # id
  BY <1>1, <1>2 DEF Waits, HttpPlaces, OnePlace
<1>6. /\ \A j \in 1 .. Len(toHost) : IsAnswer(toHost[j]) => toHost[j].id # id
      /\ \A i \in 1 .. Len(toModem) : toModem[i].what = "credit" => toModem[i].id # id
      /\ c.id = id => c.unacked = 0
      /\ c.id = id /\ c.active => ~heard.status /\ heard.next = 0
  BY <1>1, <1>2, <1>5 DEF HttpPlaces, Unbegun
<1>7. \A x : Waits(x)' => Waits(x) /\ x # id
  BY <1>1, <1>5 DEF Waits
<1>8. HttpTypes'
  <2>1. <<>> \in Seq(Nat \ {0}) /\ Len(<<>>) <= 1
    OBVIOUS
  <2> QED  BY <1>1, <1>4, <2>1, WindowAssumption DEF HttpTypes
<1>9. Locals'
  BY <1>2, <1>4 DEF Locals
<1>10. OnePlace'
  <2>1. \A j \in 1 .. Len(req_q') : FALSE
    BY <1>1
  <2>2. t'.id <= c'.id /\ ~Waits(t.id)'
    BY <1>1, <1>4, <1>5, <1>7 DEF Waits
  <2> QED  BY <1>1, <2>1, <2>2 DEF HttpPlaces, OnePlace, Waits
<1>11. Unbegun'
  <2> SUFFICES ASSUME NEW x \in Nat, Waits(x)
               PROVE  /\ \A j \in 1 .. Len(toHost') : IsAnswer(toHost'[j]) => toHost'[j].id # x
                      /\ \A i \in 1 .. Len(toModem') : toModem'[i].what = "credit" => toModem'[i].id # x
                      /\ c'.id = x => c'.unacked = 0
                      /\ c'.id = x /\ c'.active => ~heard'.status /\ heard'.next = 0
    BY <1>7 DEF Unbegun, IsAnswer
  <2> QED  BY <1>1 DEF HttpPlaces, Unbegun
<1>12. Balanced'
  <2>1. Counted(toModem) /\ Counted(toHost)
    BY <1>1, Queued
  <2>2. Units(toHost, "body", id) = 0
    <3>1. \A k \in 1 .. Len(toHost) : toHost[k].what = "body" => toHost[k].id # id
      BY <1>6 DEF IsAnswer
    <3> QED  BY <2>1, <3>1, UnitsNone
  <2>3. Units(toModem, "credit", id) = 0
    BY <1>6, <2>1, UnitsNone
  <2>4. Window' = HTTP_WINDOW + Units(toHost, "body", id) + (IF c.id = id THEN c.unacked ELSE 0) + Units(toModem, "credit", id) + 0
    BY <1>1, <1>4 DEF Window
  <2>5. Window' = HTTP_WINDOW
    BY <1>6, <2>2, <2>3, <2>4, WindowAssumption
  <2>6. \A x \in Nat : Units(toHost', "body", x) <= HTTP_WINDOW
    BY <1>1 DEF Balanced
  <2> QED  BY <2>5, <2>6, WindowAssumption DEF Balanced
<1>13. OneAnswer'
  <2> SUFFICES ASSUME c.active, ~lost
               PROVE  \E size \in Nat : /\ Told(toHost', heard', c'.id, size)
                                        /\ t'.id = c'.id => GoesOn(toHost', heard', c'.id, size, t')
    BY <1>1 DEF OneAnswer
  <2>1. PICK size \in Nat : Told(toHost, heard, c.id, size)
    BY DEF HttpInv, OneAnswer
  <2>2. t'.id = c.id => GoesOn(toHost, heard, c.id, size, t')
    BY <1>4, <1>6 DEF GoesOn, IsAnswer
  <2> QED  BY <1>1, <2>1, <2>2
<1>14. Unended' /\ OwnAnswer'
  BY <1>1 DEF HttpInv, Unended, OwnAnswer
<1> QED  BY <1>8, <1>9, <1>10, <1>11, <1>12, <1>13, <1>14 DEF HttpInv

\* A run ends with one "done"; with "ok" only when nothing of the body is missing.
LEMMA EndsRunKeeps ==
    ASSUME HttpInv, t.pc # "idle", NEW err \in Errors, EndsRun(err), err = "ok" => t.pc # "head" /\ t.size = 0
    PROVE  HttpInv'
<1> DEFINE f == Done(t.id, err)
<1>1. /\ HttpTypes /\ HttpPlaces /\ Balanced /\ toHost \in Seq(HostFrames) /\ t \in Tasks /\ heard \in Hearings /\ c.id \in Nat
      /\ UNCHANGED <<c, heard, toModem, req_q, joined, lost, credit, cancelled, slip>> /\ t' = Idle /\ toHost' = Append(toHost, f)
  BY DEF HttpInv, HttpPlaces, HttpTypes, EndsRun, Task, host
<1>2. t.id \in Nat \ {0}
  BY <1>1 DEF HttpInv, Locals, Tasks
<1>3. f \in HostFrames /\ f.what = "done" /\ f.id = t.id /\ f.err = err /\ IsAnswer(f)
  BY <1>2 DEF Done, Frame, HostFrames, AnyFrames, IsAnswer
<1>4. t' \in Tasks /\ t'.id = 0 /\ t'.pc = "idle" /\ t'.sent = 0 /\ t'.size = 0
  BY <1>1 DEF Idle, Tasks
<1> HIDE DEF f
<1>5. /\ toHost' \in Seq(HostFrames)
      /\ \A j \in 1 .. Len(toHost') : toHost'[j].id = t.id \/ \E l \in 1 .. Len(toHost) : toHost'[j] = toHost[l]
  <2>1. /\ Append(toHost, f) \in Seq(HostFrames) /\ Len(toHost) \in Nat /\ Len(toHost') = Len(toHost) + 1
        /\ \A l \in 1 .. Len(toHost) : toHost'[l] = toHost[l]
        /\ toHost'[Len(toHost) + 1] = f
    BY <1>1, <1>3, Grown
  <2> QED  BY <1>1, <1>3, <2>1
<1>6. HttpTypes'
  BY <1>1, <1>4, <1>5 DEF HttpTypes
<1>7. HttpPlaces'
  BY <1>1, <1>4, <1>5, TaskPlaces
<1>8. Balanced'
  <2>1. \A x : Units(toHost', "body", x) = Units(toHost, "body", x)
    BY <1>1, <1>3, NoUnits
  <2> QED  BY <1>1, <1>4, <1>6, <2>1, SameWindow
<1>9. OneAnswer'
  <2> SUFFICES ASSUME c.active, ~lost
               PROVE  \E size \in Nat : /\ Told(toHost', heard', c'.id, size)
                                        /\ t'.id = c'.id => GoesOn(toHost', heard', c'.id, size, t')
    BY <1>1 DEF OneAnswer
  <2>1. PICK size \in Nat : Told(toHost, heard, c.id, size) /\ (t.id = c.id => GoesOn(toHost, heard, c.id, size, t))
    BY DEF HttpInv, OneAnswer
  <2>2. t'.id # c'.id
    BY <1>1, <1>4 DEF HttpInv, Unended
  <2>3. CASE t.id # c.id
    <3>1. Told(Append(toHost, f), heard, c.id, size)
      BY <1>1, <1>3, <2>1, <2>3, ToldAppendOther
    <3> QED  BY <1>1, <2>2, <3>1
  <2>4. CASE t.id = c.id
    <3>1. GoesOn(toHost, heard, c.id, size, t)
      BY <2>1, <2>4
    <3>2. \A j \in 1 .. Len(toHost) : toHost[j].what = "done" => toHost[j].id # c.id
      BY <3>1 DEF GoesOn
    <3>3. err = "ok" => Introduced(toHost, heard, c.id, Len(toHost) + 1) /\ Reaches(toHost, heard, c.id, Len(toHost) + 1, size)
      <4>1. err = "ok" => t.sent = size
        <5>1. t.sent <= t.size /\ t.sent \in Nat
          BY <1>1 DEF HttpInv, Locals, Tasks
        <5>2. err = "ok" => t.size = size
          BY <3>1 DEF GoesOn
        <5> QED  BY <5>1, <5>2
      <4> QED  BY <3>1, <4>1 DEF GoesOn
    <3>4. Told(Append(toHost, f), heard, c.id, size)
      BY <1>1, <1>3, <2>1, <2>4, <3>2, <3>3, ToldAppendMine
    <3> QED  BY <1>1, <2>2, <3>4
  <2> QED  BY <2>3, <2>4
<1>10. Locals' /\ Unended' /\ OwnAnswer'
  BY <1>1, <1>4 DEF HttpInv, Locals, Unended, OwnAnswer
<1> QED  BY <1>6, <1>7, <1>8, <1>9, <1>10 DEF HttpInv, HttpPlaces

\* Steps of the read loop that the kiosk does not see.
LEMMA ReadLoopKeeps ==
    ASSUME HttpInv, UNCHANGED <<c, heard, toModem, toHost, req_q, joined, lost, credit, cancelled, slip>>,
           t' \in Tasks, t'.id = t.id, t'.size = t.size, t'.sent = t.sent,
           ~(t.pc \in {"idle", "head"}), ~(t'.pc \in {"idle", "head"}), Locals'
    PROVE  HttpInv'
<1>1. HttpTypes /\ HttpPlaces /\ Balanced
  BY DEF HttpInv, HttpPlaces
<1>2. HttpTypes'
  BY <1>1 DEF HttpTypes
<1>3. HttpPlaces'
  BY <1>1, TaskPlaces
<1>4. Balanced'
  BY <1>1, <1>2, SameWindow
<1>5. OneAnswer'
  <2> SUFFICES ASSUME c.active, ~lost
               PROVE  \E size \in Nat : /\ Told(toHost', heard', c'.id, size)
                                        /\ t'.id = c'.id => GoesOn(toHost', heard', c'.id, size, t')
    BY DEF OneAnswer
  <2>1. PICK size \in Nat : Told(toHost, heard, c.id, size) /\ (t.id = c.id => GoesOn(toHost, heard, c.id, size, t))
    BY DEF HttpInv, OneAnswer
  <2>2. GoesOn(toHost, heard, c.id, size, t) => GoesOn(toHost, heard, c.id, size, t')
    BY DEF GoesOn
  <2> QED  BY <2>1, <2>2
<1>6. Unended' /\ OwnAnswer'
  BY DEF HttpInv, Unended, OwnAnswer
<1> QED  BY <1>2, <1>3, <1>4, <1>5, <1>6 DEF HttpInv, HttpPlaces

LEMMA WantsKeeps ==
    ASSUME HttpInv, BodyWants
    PROVE  HttpInv'
<1>1. /\ t \in Tasks /\ credit \in Nat /\ t.pc = "body" /\ credit > 0 /\ t' = [t EXCEPT !.pc = "read", !.want = Want]
      /\ UNCHANGED <<c, heard, toModem, toHost, req_q, joined, lost, credit, cancelled, slip>>
  BY DEF HttpInv, HttpTypes, BodyWants, Task, host
<1>2. Want \in Nat /\ Want <= credit
  BY <1>1, WindowAssumption DEF Want, LeastOf
<1>3. t' \in Tasks /\ t'.id = t.id /\ t'.size = t.size /\ t'.sent = t.sent /\ t'.pc = "read" /\ t'.want = Want
  BY <1>1, <1>2 DEF Tasks
<1>4. Locals'
  BY <1>1, <1>2, <1>3 DEF HttpInv, Locals
<1> QED  BY <1>1, <1>3, <1>4, ReadLoopKeeps

LEMMA ReadsKeep ==
    ASSUME HttpInv, ReadSome \/ ReadNothing
    PROVE  HttpInv'
<1>1. t \in Tasks /\ credit \in Nat /\ t.pc = "read"
      /\ UNCHANGED <<c, heard, toModem, toHost, req_q, joined, lost, credit, cancelled, slip>>
  BY DEF HttpInv, HttpTypes, ReadSome, ReadNothing, Task, host
<1>2. /\ t.want \in Nat /\ t.size \in Nat /\ t.sent \in Nat /\ t.sent <= t.size /\ t.want <= credit /\ t.id # 0
  BY <1>1 DEF HttpInv, Locals, Tasks
<1>3. CASE ReadSome
  <2>1. PICK n \in 1 .. LeastOf(t.want, t.size - t.sent) : t' = [t EXCEPT !.pc = "store", !.n = n, !.want = 0, !.seen = credit]
    BY <1>3 DEF ReadSome
  <2>2. n \in Nat /\ n \in 1 .. t.size - t.sent /\ n <= credit
    BY <1>1, <1>2, <2>1 DEF LeastOf
  <2>3. /\ t' \in Tasks /\ t'.id = t.id /\ t'.size = t.size /\ t'.sent = t.sent /\ t'.pc = "store" /\ t'.n = n /\ t'.seen = credit
    BY <1>1, <2>1, <2>2 DEF Tasks
  <2>4. Locals'
    BY <1>1, <1>2, <2>2, <2>3 DEF Locals
  <2> QED  BY <1>1, <2>3, <2>4, ReadLoopKeeps
<1>4. CASE ReadNothing
  <2>1. t' = [t EXCEPT !.pc = "body", !.want = 0]
    BY <1>4 DEF ReadNothing
  <2>2. t' \in Tasks /\ t'.id = t.id /\ t'.size = t.size /\ t'.sent = t.sent /\ t'.pc = "body"
    BY <1>1, <2>1 DEF Tasks
  <2>3. Locals'
    BY <1>1, <1>2, <2>2 DEF Locals
  <2> QED  BY <1>1, <2>2, <2>3, ReadLoopKeeps
<1> QED  BY <1>3, <1>4

\* The head says how long the body is that follows.
LEMMA HeadKeeps ==
    ASSUME HttpInv, HeadArrives
    PROVE  HttpInv'
<1>1. /\ HttpTypes /\ HttpPlaces /\ Balanced /\ toHost \in Seq(HostFrames) /\ t \in Tasks /\ heard \in Hearings /\ c.id \in Nat
      /\ UNCHANGED <<c, heard, toModem, req_q, joined, lost, credit, cancelled, slip>> /\ t.pc = "head"
  BY DEF HttpInv, HttpPlaces, HttpTypes, HeadArrives, Task, host
<1>2. PICK n \in 0 .. MaxBody : /\ t' = [t EXCEPT !.pc = "body", !.size = n]
                                /\ toHost' = Append(toHost, [Status(t.id) EXCEPT !.n = n])
  BY DEF HeadArrives
<1> DEFINE f == [Status(t.id) EXCEPT !.n = n]
<1>3. n \in Nat
  BY BoundsAssumption
<1>4. t.id \in Nat \ {0} /\ t.sent = 0
  BY <1>1 DEF HttpInv, Locals, Tasks
<1>5. f \in HostFrames /\ f.what = "status" /\ f.id = t.id /\ f.n = n /\ IsAnswer(f) /\ toHost' = Append(toHost, f)
  BY <1>2, <1>3, <1>4 DEF Status, Frame, HostFrames, AnyFrames, IsAnswer, Errors
<1>6. t' \in Tasks /\ t'.id = t.id /\ t'.pc = "body" /\ t'.sent = 0 /\ t'.size = n
  BY <1>1, <1>2, <1>3, <1>4 DEF Tasks
<1> HIDE DEF f
<1>7. /\ toHost' \in Seq(HostFrames) /\ Len(toHost) \in Nat /\ Len(toHost') = Len(toHost) + 1
      /\ \A j \in 1 .. Len(toHost') : toHost'[j] = f \/ (j \in 1 .. Len(toHost) /\ toHost'[j] = toHost[j])
  <2>1. /\ Append(toHost, f) \in Seq(HostFrames) /\ Len(toHost) \in Nat /\ Len(toHost') = Len(toHost) + 1
        /\ \A l \in 1 .. Len(toHost) : toHost'[l] = toHost[l]
        /\ toHost'[Len(toHost) + 1] = f
    BY <1>1, <1>5, Grown
  <2> QED  BY <1>5, <2>1
<1>8. HttpTypes'
  BY <1>1, <1>6, <1>7 DEF HttpTypes
<1>9. HttpPlaces'
  BY <1>1, <1>5, <1>6, <1>7, TaskPlaces
<1>10. Balanced'
  <2>1. \A x : Units(toHost', "body", x) = Units(toHost, "body", x)
    BY <1>1, <1>5, NoUnits
  <2> QED  BY <1>1, <1>6, <1>8, <2>1, SameWindow
<1>11. OneAnswer'
  <2> SUFFICES ASSUME c.active, ~lost
               PROVE  \E size \in Nat : /\ Told(toHost', heard', c'.id, size)
                                        /\ t'.id = c'.id => GoesOn(toHost', heard', c'.id, size, t')
    BY <1>1 DEF OneAnswer
  <2>1. PICK size \in Nat : Told(toHost, heard, c.id, size) /\ (t.id = c.id => GoesOn(toHost, heard, c.id, size, t))
    BY DEF HttpInv, OneAnswer
  <2>2. CASE t.id # c.id
    <3>1. Told(Append(toHost, f), heard, c.id, size)
      BY <1>1, <1>5, <2>1, <2>2, ToldAppendOther
    <3> QED  BY <1>1, <1>5, <1>6, <2>2, <3>1
  <2>3. CASE t.id = c.id
    <3>1. ~heard.status /\ heard.next = 0 /\ \A j \in 1 .. Len(toHost) : IsAnswer(toHost[j]) => toHost[j].id # c.id
      BY <1>1, <2>1, <2>3 DEF GoesOn
    <3>2. Told(toHost, heard, c.id, n)
      BY <3>1 DEF Told, IsAnswer
    <3>3. \A j \in 1 .. Len(toHost) : toHost[j].what = "done" => toHost[j].id # c.id
      BY <3>1 DEF IsAnswer
    <3>4. Told(Append(toHost, f), heard, c.id, n)
      BY <1>1, <1>3, <1>5, <2>3, <3>1, <3>2, <3>3, ToldAppendMine
    <3>5. Introduced(toHost', heard, c.id, Len(toHost') + 1) /\ Reaches(toHost', heard, c.id, Len(toHost') + 1, 0)
      <4>1. Len(toHost') + 1 = Len(toHost) + 2 /\ (Len(toHost) + 1) - 1 = Len(toHost)
        BY <1>7
      <4>2. Reaches(toHost, heard, c.id, Len(toHost) + 1, 0)
        BY <3>1, <4>1 DEF Reaches, IsAnswer
      <4>3. Introduced(Append(toHost, f), heard, c.id, Len(toHost) + 2)
            /\ Reaches(Append(toHost, f), heard, c.id, Len(toHost) + 2, 0)
        BY <1>1, <1>5, <2>3, <4>2, BehindAppend
      <4> QED  BY <1>5, <4>1, <4>3
    <3>6. \A j \in 1 .. Len(toHost') : toHost'[j].what = "done" => toHost'[j].id # c.id
      BY <1>5, <1>7, <3>3
    <3>7. GoesOn(toHost', heard, c.id, n, t')
      BY <1>6, <3>5, <3>6 DEF GoesOn
    <3> QED  BY <1>1, <1>3, <1>5, <3>4, <3>7
  <2> QED  BY <2>2, <2>3
<1>12. Locals' /\ Unended' /\ OwnAnswer'
  BY <1>1, <1>3, <1>4, <1>6 DEF HttpInv, Locals, Unended, OwnAnswer
<1> QED  BY <1>8, <1>9, <1>10, <1>11, <1>12 DEF HttpInv, HttpPlaces

\* Units go out: they leave the credit for the link, whatever the load before the store saw of it.
LEMMA SendsKeeps ==
    ASSUME HttpInv, BodySends
    PROVE  HttpInv'
<1> DEFINE n == t.n
           sent == t.sent + n
           f == Body(t.id, t.sent, n)
           g == Done(t.id, "ok")
           q == Append(toHost, f)
           tk == [t EXCEPT !.pc = "body", !.sent = sent, !.n = 0, !.seen = 0]
<1>1. /\ HttpTypes /\ HttpPlaces /\ Balanced /\ toHost \in Seq(HostFrames) /\ t \in Tasks /\ heard \in Hearings /\ c.id \in Nat
      /\ UNCHANGED <<c, heard, toModem, req_q, joined, lost, cancelled>> /\ t.pc = "store"
      /\ credit' = t.seen - n /\ slip' = slip + (credit - t.seen) /\ credit \in Nat /\ slip \in Nat
      /\ (IF sent = t.size THEN t' = Idle /\ toHost' = Append(q, g) ELSE t' = tk /\ toHost' = q)
  BY DEF HttpInv, HttpPlaces, HttpTypes, BodySends, Task, host
<1>2. /\ t.id \in Nat \ {0} /\ n \in Nat /\ n > 0 /\ t.sent \in Nat /\ t.size \in Nat /\ t.seen \in Nat
      /\ n <= t.seen /\ t.seen <= credit /\ sent <= t.size /\ sent \in Nat
  BY <1>1 DEF HttpInv, Locals, Tasks
<1>3. f \in HostFrames /\ f.what = "body" /\ f.id = t.id /\ f.n = n /\ f.from = t.sent /\ IsAnswer(f)
  BY <1>2 DEF Body, Frame, HostFrames, AnyFrames, IsAnswer, Errors
<1>4. g \in HostFrames /\ g.what = "done" /\ g.id = t.id /\ IsAnswer(g)
  BY <1>2 DEF Done, Frame, HostFrames, AnyFrames, IsAnswer, Errors
<1>5. tk \in Tasks /\ tk.id = t.id /\ tk.pc = "body" /\ tk.sent = sent /\ tk.size = t.size
  BY <1>1, <1>2 DEF Tasks
<1>6. Idle \in Tasks /\ Idle.id = 0 /\ Idle.pc = "idle" /\ Idle.sent = 0 /\ Idle.size = 0
  BY DEF Idle, Tasks
<1>7. f.from + f.n = sent
  BY <1>3
<1> HIDE DEF n, sent, f, g, q, tk
<1>8. /\ q \in Seq(HostFrames) /\ Len(toHost) \in Nat /\ Len(q) = Len(toHost) + 1
      /\ \A j \in 1 .. Len(q) : q[j] = f \/ (j \in 1 .. Len(toHost) /\ q[j] = toHost[j])
  <2>1. /\ q \in Seq(HostFrames) /\ Len(toHost) \in Nat /\ Len(q) = Len(toHost) + 1
        /\ \A l \in 1 .. Len(toHost) : q[l] = toHost[l]
        /\ q[Len(toHost) + 1] = f
    BY <1>1, <1>3, Grown DEF q
  <2> QED  BY <2>1
<1>9. /\ toHost' \in Seq(HostFrames) /\ t' \in Tasks /\ (t'.id = t.id \/ t'.id = 0)
      /\ \A j \in 1 .. Len(toHost') : toHost'[j].id = t.id \/ \E l \in 1 .. Len(toHost) : toHost'[j] = toHost[l]
      /\ \A x : Units(toHost', "body", x) = Units(q, "body", x)
  <2>1. CASE sent = t.size
    <3>1. toHost' = Append(q, g) /\ t' = Idle
      BY <1>1, <2>1
    <3>2. /\ toHost' \in Seq(HostFrames) /\ Len(q) \in Nat /\ Len(toHost') = Len(q) + 1
          /\ \A l \in 1 .. Len(q) : toHost'[l] = q[l]
          /\ toHost'[Len(q) + 1] = g
      BY <1>4, <1>8, <3>1, Grown
    <3>3. \A j \in 1 .. Len(toHost') : j \in 1 .. Len(q) \/ j = Len(q) + 1
      BY <3>2
    <3>4. \A j \in 1 .. Len(toHost') : toHost'[j].id = t.id \/ \E l \in 1 .. Len(toHost) : toHost'[j] = toHost[l]
      BY <1>3, <1>4, <1>8, <3>2, <3>3
    <3>5. \A x : Units(toHost', "body", x) = Units(q, "body", x)
      BY <1>4, <1>8, <3>1, NoUnits
    <3> QED  BY <1>6, <3>1, <3>2, <3>4, <3>5
  <2>2. CASE sent # t.size
    BY <1>1, <1>3, <1>5, <1>8, <2>2
  <2> QED  BY <2>1, <2>2
<1>10. HttpTypes'
  <2>1. credit' \in Nat /\ slip' \in Nat
    BY <1>1, <1>2
  <2> QED  BY <1>1, <1>9, <2>1 DEF HttpTypes
<1>11. HttpPlaces'
  BY <1>1, <1>9, TaskPlaces
<1>12. Balanced'
  <2>1. \A x : Units(q, "body", x) = Units(toHost, "body", x) + (IF x = t.id THEN n ELSE 0)
    <3>1. Counted(toHost) /\ Counted(q)
      BY <1>1, <1>8, Queues DEF HttpTypes
    <3>2. \A x : Units(q, "body", x) = Units(toHost, "body", x) + Part(f, "body", x)
      BY <3>1, UnitsAppend DEF q
    <3>3. \A x : Part(f, "body", x) = IF x = t.id THEN n ELSE 0
      BY <1>3 DEF Part
    <3> QED  BY <3>2, <3>3
  <2> DEFINE b == Units(toHost, "body", t.id)
             k == Units(toModem, "credit", t.id)
             u == IF c.id = t.id THEN c.unacked ELSE 0
  <2>2. b \in Nat /\ k \in Nat /\ u \in Nat /\ Window = credit + b + u + k + slip /\ Window <= HTTP_WINDOW /\ HTTP_WINDOW \in Nat
    BY <1>1, WindowParts, WindowAssumption DEF Window, Balanced
  <2>3. t'.pc # "idle" => t' = tk
    BY <1>1, <1>6
  <2>4. t'.pc # "idle" => Window' = (t.seen - n) + (b + n) + u + k + (slip + (credit - t.seen))
    BY <1>1, <1>5, <1>9, <2>1, <2>3 DEF Window
  <2>5. b + n <= HTTP_WINDOW
    <3> DEFINE s == t.seen
    <3>1. s \in Nat /\ n \in Nat /\ credit \in Nat /\ n <= s /\ s <= credit /\ slip \in Nat /\ b \in Nat /\ k \in Nat /\ u \in Nat
          /\ credit + b + u + k + slip <= HTTP_WINDOW /\ HTTP_WINDOW \in Nat
      BY <1>1, <1>2, <2>2
    <3> HIDE DEF s, b, k, u
    <3> QED  BY <3>1
  <2>6. t'.pc # "idle" => Window' = Window
    <3> DEFINE s == t.seen
               w == Window
    <3>1. s \in Nat /\ n \in Nat /\ credit \in Nat /\ slip \in Nat /\ b \in Nat /\ k \in Nat /\ u \in Nat
          /\ w = credit + b + u + k + slip
      BY <1>1, <1>2, <2>2
    <3> HIDE DEF s, b, k, u, w
    <3>2. (s - n) + (b + n) + u + k + (slip + (credit - s)) = w
      BY <3>1
    <3> QED  BY <2>4, <3>2 DEF s, w
  <2>7. \A x \in Nat : Units(toHost', "body", x) <= HTTP_WINDOW
    <3> SUFFICES ASSUME NEW x \in Nat PROVE Units(toHost', "body", x) <= HTTP_WINDOW
      OBVIOUS
    <3>1. CASE x = t.id
      BY <1>9, <2>1, <2>5, <3>1
    <3>2. CASE x # t.id
      <4>1. Units(toHost', "body", x) = Units(toHost, "body", x) + 0 /\ Units(toHost, "body", x) \in Nat
        BY <1>1, <1>9, <2>1, <3>2, WindowParts
      <4> QED  BY <1>1, <4>1 DEF Balanced
    <3> QED  BY <3>1, <3>2
  <2>8. t'.pc # "idle" => Window' <= HTTP_WINDOW
    BY <2>2, <2>6
  <2>9. t'.pc # "idle" /\ c'.active /\ c'.id = t'.id => Window' = HTTP_WINDOW
    BY <1>1, <1>5, <2>3, <2>6 DEF Balanced
  <2> QED  BY <2>7, <2>8, <2>9 DEF Balanced
<1>13. OneAnswer'
  <2> SUFFICES ASSUME c.active, ~lost
               PROVE  \E size \in Nat : /\ Told(toHost', heard', c'.id, size)
                                        /\ t'.id = c'.id => GoesOn(toHost', heard', c'.id, size, t')
    BY <1>1 DEF OneAnswer
  <2>1. PICK size \in Nat : Told(toHost, heard, c.id, size) /\ (t.id = c.id => GoesOn(toHost, heard, c.id, size, t))
    BY DEF HttpInv, OneAnswer
  <2>2. c.id # 0
    BY DEF HttpInv, Unended
  <2>3. CASE t.id # c.id
    <3>1. Told(q, heard, c.id, size)
      BY <1>1, <1>3, <2>1, <2>3, ToldAppendOther DEF q
    <3>2. Told(Append(q, g), heard, c.id, size)
      BY <1>1, <1>4, <1>8, <2>3, <3>1, ToldAppendOther
    <3>3. t'.id # c.id
      BY <1>9, <2>2, <2>3
    <3> QED  BY <1>1, <3>1, <3>2, <3>3
  <2>4. CASE t.id = c.id
    <3>1. /\ \A j \in 1 .. Len(toHost) : toHost[j].what = "done" => toHost[j].id # c.id
          /\ t.size = size /\ Introduced(toHost, heard, c.id, Len(toHost) + 1) /\ Reaches(toHost, heard, c.id, Len(toHost) + 1, t.sent)
      BY <1>1, <2>1, <2>4 DEF GoesOn
    <3>2. Told(q, heard, c.id, size)
      BY <1>1, <1>2, <1>3, <2>1, <2>4, <3>1, ToldAppendMine DEF q
    <3>3. Introduced(q, heard, c.id, Len(q) + 1) /\ Reaches(q, heard, c.id, Len(q) + 1, sent)
      <4>1. Len(q) + 1 = Len(toHost) + 2
        BY <1>8
      <4>2. Introduced(q, heard, c.id, Len(toHost) + 2) /\ Reaches(q, heard, c.id, Len(toHost) + 2, sent)
        BY <1>1, <1>2, <1>3, <1>7, <2>4, <3>1, BehindAppend DEF q
      <4> QED  BY <4>1, <4>2
    <3>4. \A j \in 1 .. Len(q) : q[j].what = "done" => q[j].id # c.id
      BY <1>3, <1>8, <3>1
    <3>5. GoesOn(q, heard, c.id, size, tk)
      BY <1>5, <3>1, <3>3, <3>4 DEF GoesOn
    <3>6. sent = t.size => Told(Append(q, g), heard, c.id, size)
      BY <1>1, <1>4, <1>8, <2>4, <3>1, <3>2, <3>3, <3>4, ToldAppendMine
    <3> QED  BY <1>1, <1>6, <2>2, <3>2, <3>5, <3>6
  <2> QED  BY <2>3, <2>4
<1>14. Locals'
  <2>1. CASE sent = t.size
    BY <1>1, <1>6, <2>1 DEF Locals
  <2>2. CASE sent # t.size
    BY <1>1, <1>2, <1>5, <2>2 DEF Locals
  <2> QED  BY <2>1, <2>2
<1>15. Unended' /\ OwnAnswer'
  BY <1>1 DEF HttpInv, Unended, OwnAnswer
<1> QED  BY <1>10, <1>11, <1>12, <1>13, <1>14, <1>15 DEF HttpInv, HttpPlaces

LEMMA TaskKeeps ==
    ASSUME HttpInv, HttpTask
    PROVE  HttpInv'
<1>1. "failed" \in Errors /\ "aborted" \in Errors /\ "ok" \in Errors /\ "failed" # "ok" /\ "aborted" # "ok"
  BY DEF Errors
<1>2. CASE TaskStart
  BY <1>2, StartKeeps
<1>3. CASE HeadFails \/ BodyDeadline \/ ReadFails
  <2>1. t.pc # "idle" /\ EndsRun("failed")
    BY <1>3 DEF HeadFails, BodyDeadline, ReadFails
  <2> QED  BY <1>1, <2>1, EndsRunKeeps
<1>4. CASE HeadCancelled \/ BodyCancelled
  <2>1. t.pc # "idle" /\ EndsRun("aborted")
    BY <1>4 DEF HeadCancelled, BodyCancelled
  <2> QED  BY <1>1, <2>1, EndsRunKeeps
<1>5. CASE ReadEmptyBody
  <2>1. t.pc # "idle" /\ t.pc # "head" /\ t.size = 0 /\ EndsRun("ok")
    BY <1>5 DEF ReadEmptyBody
  <2> QED  BY <1>1, <2>1, EndsRunKeeps
<1>6. CASE HeadArrives
  BY <1>6, HeadKeeps
<1>7. CASE BodyWants
  BY <1>7, WantsKeeps
<1>8. CASE ReadSome \/ ReadNothing
  BY <1>8, ReadsKeep
<1>9. CASE BodySends
  BY <1>9, SendsKeeps
<1> QED  BY <1>2, <1>3, <1>4, <1>5, <1>6, <1>7, <1>8, <1>9 DEF HttpTask

-----------------------------------------------------------------------------
(* The link and the modem's life. *)

\* A frame that tells nothing of any request joins the queue to the kiosk.
LEMMA NewsKeeps ==
    ASSUME HttpTypes, OneAnswer, NEW m \in HostFrames, ~IsAnswer(m), toHost' = Append(toHost, m), UNCHANGED <<c, heard, lost>>,
           t' = t \/ (c.active => t'.id # c.id)
    PROVE  OneAnswer' /\ \A j \in 1 .. Len(toHost') : IsAnswer(toHost'[j]) => \E l \in 1 .. Len(toHost) : toHost'[j] = toHost[l]
<1>1. toHost \in Seq(HostFrames) /\ heard \in Hearings /\ c.id \in Nat /\ t \in Tasks
  BY DEF HttpTypes
<1>2. \A j \in 1 .. Len(toHost') : IsAnswer(toHost'[j]) => \E l \in 1 .. Len(toHost) : toHost'[j] = toHost[l]
  <2>1. /\ Len(toHost) \in Nat /\ Len(toHost') = Len(toHost) + 1
        /\ \A l \in 1 .. Len(toHost) : toHost'[l] = toHost[l]
        /\ toHost'[Len(toHost) + 1] = m
    BY <1>1, Grown
  <2>2. \A j \in 1 .. Len(toHost') : j \in 1 .. Len(toHost) \/ j = Len(toHost) + 1
    BY <2>1
  <2> QED  BY <2>1, <2>2
<1>3. OneAnswer'
  <2> SUFFICES ASSUME c.active, ~lost
               PROVE  \E size \in Nat : /\ Told(toHost', heard', c'.id, size)
                                        /\ t'.id = c'.id => GoesOn(toHost', heard', c'.id, size, t')
    BY DEF OneAnswer
  <2>1. PICK size \in Nat : Told(toHost, heard, c.id, size) /\ (t.id = c.id => GoesOn(toHost, heard, c.id, size, t))
    BY DEF OneAnswer
  <2>2. /\ Told(Append(toHost, m), heard, c.id, size)
        /\ GoesOn(toHost, heard, c.id, size, t) => GoesOn(Append(toHost, m), heard, c.id, size, t)
    BY <1>1, <2>1, ToldAppendOther
  <2>3. CASE t' = t
    BY <2>1, <2>2, <2>3
  <2>4. CASE t'.id # c.id
    BY <2>2, <2>4
  <2> QED  BY <2>3, <2>4
<1> QED  BY <1>2, <1>3

LEMMA LoseToModemKeeps ==
    ASSUME HttpInv, LoseToModem
    PROVE  HttpInv'
<1> DEFINE m == Head(toModem)
<1>1. /\ HttpTypes /\ HttpPlaces /\ Balanced /\ toModem # <<>> /\ toModem' = Tail(toModem)
      /\ UNCHANGED <<c, heard, toHost, req_q, t, credit, cancelled, joined, lost>>
      /\ slip' = (IF m.what = "credit" /\ Running(m.id) THEN slip + m.n ELSE slip)
  BY DEF HttpInv, HttpPlaces, LoseToModem, host, modem
<1>2. m \in ModemFrames /\ m.n \in Nat /\ toModem' \in Seq(ModemFrames)
  BY <1>1, Received DEF ModemFrames, AnyFrames
<1>3. slip' \in Nat /\ slip \in Nat /\ credit \in Nat
  BY <1>1, <1>2 DEF HttpTypes
<1>4. HttpTypes'
  BY <1>1, <1>2, <1>3 DEF HttpTypes
<1>5. HttpPlaces'
  BY <1>1, ReceivedPlaces
<1>6. Balanced'
  <2>1. \A x : Units(toModem, "credit", x) = Part(m, "credit", x) + Units(toModem', "credit", x)
    BY <1>1, Received
  <2>2. \A x : Units(toModem', "credit", x) \in Nat
    <3>1. Counted(toModem')
      BY <1>1, <1>2, Queues DEF HttpTypes
    <3> QED  BY <3>1, UnitsNat
  <2> DEFINE k1 == Units(toModem, "credit", t.id)
             k2 == Units(toModem', "credit", t.id)
  <2>3. k1 = Part(m, "credit", t.id) + k2 /\ k2 \in Nat
    BY <2>1, <2>2
  <2> HIDE DEF k1, k2
  <2>4. t.pc # "idle" => credit + k2 + slip' = credit + k1 + slip
    <3>1. CASE m.what = "credit" /\ m.id = t.id
      BY <1>1, <1>2, <1>3, <2>3, <3>1 DEF Part, Running
    <3>2. CASE ~(m.what = "credit" /\ m.id = t.id)
      BY <1>1, <1>2, <1>3, <2>3, <3>2 DEF Part, Running
    <3> QED  BY <3>1, <3>2
  <2>5. \A x : Units(toHost', "body", x) = Units(toHost, "body", x)
    BY <1>1
  <2> QED  BY <1>1, <1>4, <2>4, <2>5, SameWindow DEF k1, k2
<1>7. OneAnswer'
  BY <1>1, StoryKept DEF HttpInv
<1>8. Locals' /\ Unended' /\ OwnAnswer'
  BY <1>1 DEF HttpInv, Locals, Unended, OwnAnswer
<1> QED  BY <1>4, <1>5, <1>6, <1>7, <1>8 DEF HttpInv, HttpPlaces

LEMMA LoseToHostKeeps ==
    ASSUME HttpInv, LoseToHost
    PROVE  HttpInv'
<1> DEFINE m == Head(toHost)
<1>1. /\ HttpTypes /\ HttpPlaces /\ Balanced /\ toHost # <<>> /\ toHost' = Tail(toHost) /\ toHost \in Seq(HostFrames) /\ lost' = TRUE
      /\ UNCHANGED <<c, heard, toModem, req_q, t, credit, cancelled, joined>>
      /\ slip' = (IF m.what = "body" /\ Running(m.id) THEN slip + m.n ELSE slip)
  BY DEF HttpInv, HttpPlaces, HttpTypes, LoseToHost, host, modem
<1>2. m.n \in Nat /\ toHost' \in Seq(HostFrames) /\ m = toHost[1] /\ 1 \in 1 .. Len(toHost)
  <2>1. toHost' \in Seq(HostFrames) /\ m = toHost[1] /\ 1 \in 1 .. Len(toHost)
    BY <1>1, Shifted
  <2> QED  BY <1>1, <2>1, HostFrame
<1>3. slip' \in Nat /\ slip \in Nat /\ credit \in Nat
  BY <1>1, <1>2 DEF HttpTypes
<1>4. HttpTypes'
  BY <1>1, <1>2, <1>3 DEF HttpTypes
<1>5. HttpPlaces'
  <2>1. UNCHANGED <<req_q, t>> /\ c'.id = c.id /\ toModem' = toModem
        /\ c'.unacked = c.unacked /\ (c'.active => c.active /\ heard' = heard)
    BY <1>1
  <2> QED  BY <1>1, <2>1, KioskPlaces
<1>6. Balanced'
  <2>1. /\ \A x : Units(toHost, "body", x) = Part(m, "body", x) + Units(toHost', "body", x)
        /\ \A x : Units(toHost', "body", x) \in Nat /\ Part(m, "body", x) \in Nat
    <3>1. Counted(toHost) /\ Counted(toHost')
      BY <1>1, <1>2, Queues DEF HttpTypes
    <3>2. \A x : Units(toHost, "body", x) = Part(m, "body", x) + Units(toHost', "body", x)
      BY <1>1, <3>1, UnitsTail
    <3>3. \A x : Units(toHost', "body", x) \in Nat
      BY <3>1, UnitsNat
    <3>4. \A x : Part(m, "body", x) \in Nat
      BY <1>2 DEF Part
    <3> QED  BY <3>2, <3>3, <3>4
  <2> DEFINE b1 == Units(toHost, "body", t.id)
             b2 == Units(toHost', "body", t.id)
             k == Units(toModem, "credit", t.id)
             u == IF c.id = t.id THEN c.unacked ELSE 0
             p == Part(m, "body", t.id)
  <2>2. b1 = p + b2 /\ b2 \in Nat /\ p \in Nat /\ k \in Nat /\ u \in Nat
    BY <1>1, <2>1, WindowParts
  <2>3. Window = credit + b1 + u + k + slip /\ Window' = credit + b2 + u + k + slip'
    BY <1>1 DEF Window
  <2>4. t.pc # "idle" => slip' = slip + p
    BY <1>1, <1>2, <1>3 DEF Part, Running
  <2>5. t.pc # "idle" => Window' = Window
    <3> DEFINE s == slip'
    <3>1. t.pc # "idle" => s = slip + p
      BY <2>4
    <3> HIDE DEF b1, b2, k, u, p, s
    <3>2. t.pc # "idle" => credit + b2 + u + k + s = credit + b1 + u + k + slip
      BY <1>3, <2>2, <3>1
    <3> QED  BY <2>3, <3>2 DEF s
  <2>6. \A x \in Nat : Units(toHost', "body", x) <= HTTP_WINDOW
    <3> SUFFICES ASSUME NEW x \in Nat PROVE Units(toHost', "body", x) <= HTTP_WINDOW
      OBVIOUS
    <3>1. Units(toHost, "body", x) <= HTTP_WINDOW /\ HTTP_WINDOW \in Nat
      BY <1>1, WindowAssumption DEF Balanced
    <3> QED  BY <2>1, <3>1
  <2>7. t'.pc # "idle" => Window' <= HTTP_WINDOW
    BY <1>1, <2>5 DEF Balanced
  <2>8. t'.pc # "idle" /\ c'.active /\ c'.id = t'.id => Window' = HTTP_WINDOW
    BY <1>1, <2>5 DEF Balanced
  <2> QED  BY <2>6, <2>7, <2>8 DEF Balanced
<1>7. OneAnswer'
  BY <1>1 DEF OneAnswer
<1>8. Locals' /\ Unended' /\ OwnAnswer'
  BY <1>1 DEF HttpInv, Locals, Unended, OwnAnswer
<1> QED  BY <1>4, <1>5, <1>6, <1>7, <1>8 DEF HttpInv, HttpPlaces

LEMMA RestartKeeps ==
    ASSUME HttpInv, ModemRestart
    PROVE  HttpInv'
<1>1. /\ HttpTypes /\ HttpPlaces /\ Balanced /\ toHost \in Seq(HostFrames) /\ c.id \in Nat
      /\ UNCHANGED <<c, heard, lost>> /\ req_q' = <<>> /\ t' = Idle /\ credit' = 0 /\ cancelled' = FALSE /\ joined' = FALSE
      /\ toModem' = <<>> /\ slip' = 0 /\ toHost' = Append(toHost, Hello)
  BY DEF HttpInv, HttpPlaces, HttpTypes, ModemRestart, host
<1>2. Hello \in HostFrames /\ Hello.what = "hello" /\ ~IsAnswer(Hello)
  BY DEF Hello, Frame, HostFrames, AnyFrames, IsAnswer, Errors
<1>3. t' \in Tasks /\ t'.id = 0 /\ t'.pc = "idle" /\ t'.sent = 0 /\ t'.size = 0
  BY <1>1 DEF Idle, Tasks
<1>4. HttpTypes'
  <2>1. <<>> \in Seq(Nat \ {0}) /\ Len(<<>>) <= 1 /\ <<>> \in Seq(ModemFrames)
    OBVIOUS
  <2>2. toHost' \in Seq(HostFrames)
    BY <1>1, <1>2, Grown
  <2> QED  BY <1>1, <1>3, <2>1, <2>2 DEF HttpTypes
<1>5. OneAnswer' /\ \A j \in 1 .. Len(toHost') : IsAnswer(toHost'[j]) => \E l \in 1 .. Len(toHost) : toHost'[j] = toHost[l]
  <2>1. c.active => t'.id # c.id
    BY <1>3 DEF HttpInv, Unended
  <2> QED  BY <1>1, <1>2, <2>1, NewsKeeps DEF HttpInv
<1>6. HttpPlaces'
  <2>1. (\A i \in 1 .. Len(toModem') : FALSE) /\ (\A i \in 1 .. Len(req_q') : FALSE)
    BY <1>1
  <2>2. \A j \in 1 .. Len(toHost') : IsAnswer(toHost'[j]) => toHost'[j].id <= c'.id
    BY <1>1, <1>5 DEF HttpPlaces, OnePlace
  <2>3. t'.id <= c'.id
    BY <1>1, <1>3
  <2> QED  BY <2>1, <2>2, <2>3 DEF HttpPlaces, OnePlace, Unbegun, Waits
<1>7. Balanced'
  <2>1. \A x : Units(toHost', "body", x) = Units(toHost, "body", x)
    BY <1>1, <1>2, NoUnits
  <2> QED  BY <1>1, <1>3, <1>4, <2>1, SameWindow
<1>8. Locals' /\ Unended' /\ OwnAnswer'
  BY <1>1, <1>3 DEF HttpInv, Locals, Unended, OwnAnswer
<1> QED  BY <1>4, <1>5, <1>6, <1>7, <1>8 DEF HttpInv, HttpPlaces

LEMMA RejoinKeeps ==
    ASSUME HttpInv, Rejoin
    PROVE  HttpInv'
<1>1. /\ HttpTypes /\ HttpPlaces /\ Balanced /\ toHost \in Seq(HostFrames) /\ joined' = TRUE
      /\ UNCHANGED <<c, heard, toModem, req_q, t, credit, cancelled, slip, lost>> /\ toHost' = Append(toHost, Up)
  BY DEF HttpInv, HttpPlaces, HttpTypes, Rejoin, host
<1>2. Up \in HostFrames /\ Up.what = "up" /\ ~IsAnswer(Up)
  BY DEF Up, Frame, HostFrames, AnyFrames, IsAnswer, Errors
<1>3. HttpTypes'
  <2>1. toHost' \in Seq(HostFrames)
    BY <1>1, <1>2, Grown
  <2> QED  BY <1>1, <2>1 DEF HttpTypes
<1>4. OneAnswer' /\ \A j \in 1 .. Len(toHost') : IsAnswer(toHost'[j]) => \E l \in 1 .. Len(toHost) : toHost'[j] = toHost[l]
  BY <1>1, <1>2, NewsKeeps DEF HttpInv
<1>5. HttpPlaces'
  BY <1>1, <1>4, TaskPlaces
<1>6. Balanced'
  <2>1. \A x : Units(toHost', "body", x) = Units(toHost, "body", x)
    BY <1>1, <1>2, NoUnits
  <2> QED  BY <1>1, <1>3, <2>1, SameWindow
<1>7. Locals' /\ Unended' /\ OwnAnswer'
  BY <1>1 DEF HttpInv, Locals, Unended, OwnAnswer
<1> QED  BY <1>3, <1>4, <1>5, <1>6, <1>7 DEF HttpInv, HttpPlaces

-----------------------------------------------------------------------------
LEMMA HttpInit ==
    ASSUME Init
    PROVE  HttpInv
<1>1. /\ c = [id |-> 0, active |-> FALSE, unacked |-> 0, up |-> TRUE] /\ toModem = <<>> /\ toHost = <<>> /\ req_q = <<>>
      /\ t = Idle /\ credit = 0 /\ cancelled = FALSE /\ joined = TRUE /\ heard = NothingHeard /\ slip = 0 /\ lost = FALSE
  BY DEF Init
<1>2. t \in Tasks /\ t.id = 0 /\ t.pc = "idle" /\ t.sent = 0 /\ t.size = 0
  BY <1>1 DEF Idle, Tasks
<1>3. heard \in Hearings
  BY <1>1 DEF NothingHeard, Hearings, Errors
<1>4. toModem \in Seq(ModemFrames) /\ toHost \in Seq(HostFrames) /\ req_q \in Seq(Nat \ {0}) /\ Len(req_q) <= 1
  BY <1>1
<1>5. HttpTypes
  BY <1>1, <1>2, <1>3, <1>4 DEF HttpTypes
<1>6. (\A i \in 1 .. Len(toModem) : FALSE) /\ (\A i \in 1 .. Len(req_q) : FALSE) /\ (\A i \in 1 .. Len(toHost) : FALSE)
  BY <1>1
<1>7. OnePlace /\ Unbegun
  BY <1>1, <1>2, <1>6 DEF OnePlace, Unbegun, Waits
<1>8. Balanced
  <2>1. Counted(toHost)
    BY <1>4, Queues
  <2>2. ASSUME NEW id PROVE Units(toHost, "body", id) = 0
    <3>1. \A k \in 1 .. Len(toHost) : toHost[k].what = "body" => toHost[k].id # id
      BY <1>6
    <3> QED  BY <2>1, <3>1, UnitsNone
  <2> QED  BY <1>2, <2>2, WindowAssumption DEF Balanced
<1>9. Locals /\ OneAnswer /\ Unended /\ OwnAnswer
  BY <1>1, <1>2 DEF Locals, OneAnswer, Unended, OwnAnswer, NothingHeard
<1> QED  BY <1>5, <1>7, <1>8, <1>9 DEF HttpInv

(***************************************************************************)
(* The invariant: a request is in one place and nothing is said of it      *)
(* before it begins, the window adds up, and what the sink has heard, the  *)
(* frames under way and the request task tell one answer of one size.      *)
(***************************************************************************)
THEOREM HttpInvariant == Spec => []HttpInv
<1>1. Init => HttpInv
  BY HttpInit
<1>2. HttpInv /\ [Next]_vars => HttpInv'
  <2> SUFFICES ASSUME HttpInv, [Next]_vars PROVE HttpInv'
    OBVIOUS
  <2>1. CASE Kiosk
    <3>1. CASE HttpPollIdle
      BY <3>1 DEF HttpPollIdle, vars, HttpInv, HttpTypes, Locals, OnePlace, Unbegun, Waits, Balanced, Window, OneAnswer, Unended, OwnAnswer, IsAnswer
    <3> QED  BY <2>1, <3>1, GetKeeps, CancelKeeps, PollGrantKeeps, DeadlineKeeps, OnMessageKeeps DEF Kiosk
  <2>2. CASE ModemReceives
    BY <2>2, ReceivesKeeps
  <2>3. CASE HttpTask
    BY <2>3, TaskKeeps
  <2>4. CASE Around
    BY <2>4, LoseToModemKeeps, LoseToHostKeeps, RestartKeeps, RejoinKeeps DEF Around
  <2>5. CASE UNCHANGED vars
    BY <2>5 DEF vars, HttpInv, HttpTypes, Locals, OnePlace, Unbegun, Waits, Balanced, Window, OneAnswer, Unended, OwnAnswer, IsAnswer
  <2> QED  BY <2>1, <2>2, <2>3, <2>4, <2>5 DEF Next
<1> QED  BY <1>1, <1>2, PTL DEF Spec

(***************************************************************************)
(* Credit is neither made nor forgotten, whatever is lost, cancelled,      *)
(* restarted or preempted: the modem never has more of a response under    *)
(* way than the window it was given.                                       *)
(***************************************************************************)
THEOREM WindowKept == Spec => []Conserved
<1>1. HttpInv => Conserved
  <2> SUFFICES ASSUME HttpInv PROVE Conserved
    OBVIOUS
  <2>2. ASSUME c.active, Running(c.id)
        PROVE  credit + Units(toHost, "body", c.id) + c.unacked + Units(toModem, "credit", c.id) + slip = HTTP_WINDOW
    <3>1. t.id = c.id /\ t.pc # "idle"
      BY <2>2 DEF Running
    <3> QED  BY <2>2, <3>1 DEF HttpInv, Balanced, Window
  <2>3. \A id \in Ids : Units(toHost, "body", id) <= HTTP_WINDOW
    <3>1. Ids \subseteq Nat
      BY BoundsAssumption DEF Ids
    <3> QED  BY <3>1 DEF HttpInv, Balanced
  <2> QED  BY <2>2, <2>3 DEF Conserved
<1> QED  BY <1>1, HttpInvariant, PTL

(***************************************************************************)
(* What the sink hears is the answer to its own request, whole and in      *)
(* order unless a frame was lost, and it hears one end.                    *)
(***************************************************************************)
THEOREM SinkHearsItsOwn == Spec => []OwnAnswer
<1>1. HttpInv => OwnAnswer
  BY DEF HttpInv
<1> QED  BY <1>1, HttpInvariant, PTL
=============================================================================
