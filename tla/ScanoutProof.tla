---------------------------- MODULE ScanoutProof ----------------------------
(***************************************************************************)
(* Proofs about the scanout.  For every pool size and line count: the ring *)
(* allocator alone, then the two cores at it.  For every number of slots   *)
(* and every timing: the line slots of core 1 under the beam.  The two do  *)
(* not share a variable; a slot is filled from the pool by CleanRead.      *)
(***************************************************************************)
EXTENDS LinePoolScan, LineSlots, FiniteSetTheorems, WellFoundedInduction, TLAPS

\* j and k have bytes, k follows j in ring order, and no line with bytes lies between them.
Adjacent(c, j, k) ==
    /\ j \in HasBytes(len) /\ k \in HasBytes(len) /\ Before(c, j, k)
    /\ \A i \in HasBytes(len) : ~(Before(c, j, i) /\ Before(c, i, k))

\* k is above the wrap: in the part of the ring that runs from the tail to the end of the pool.
High(k) == tail <= off[k]

\* Every live range lies between the tail and the head, around the end of the pool if need be.
InRing ==
    \A k \in HasBytes(len) :
        IF tail <= head THEN tail <= off[k] /\ EndOf(k) <= head
        ELSE \/ tail <= off[k] /\ EndOf(k) <= Size
             \/ EndOf(k) <= head

\* Ring order is offset order, with the high part before the low part.
InOrder ==
    \A j, k \in HasBytes(len) :
        Before(y, j, k) => \/ High(j) /\ ~High(k)
                           \/ (High(j) <=> High(k)) /\ EndOf(j) <= off[k]

\* No gaps: the first live line starts at the tail, ...
FirstAtTail ==
    \A k \in HasBytes(len) :
        (\A j \in HasBytes(len) : ~Before(y, j, k)) => off[k] = tail

\* ... the next one where its predecessor ends, or at 0 after padding, ...
Packed ==
    \A j, k \in HasBytes(len) :
        Adjacent(y, j, k) => \/ off[k] = EndOf(j)
                             \/ off[k] = 0 /\ ~High(k) /\ High(j)

\* ... and the last one ends at the head unless the head has just wrapped.
LastAtHead ==
    \A k \in HasBytes(len) :
        (\A j \in HasBytes(len) : ~Before(y, k, j)) => EndOf(k) = head \/ (head = 0 /\ High(k))

\* The outstanding allocation is the free range at the head.
AllocAtHead ==
    cap > 0 => /\ at = head /\ at + cap <= Size
               /\ head < tail => at + cap < tail
               /\ live = 0 => tail = 0

Count == /\ live = RingDist(tail, head)
         /\ HasBytes(len) = {} => tail = head

IInv == TypeOK /\ InRing /\ InOrder /\ FirstAtTail /\ Packed /\ LastAtHead /\ AllocAtHead /\ Count

-----------------------------------------------------------------------------
(***************************************************************************)
(* Lemmas on the order of the lines.                                       *)
(***************************************************************************)
LEMMA LeastElement ==
    ASSUME NEW S \in SUBSET Nat, S # {}
    PROVE  \E m \in S : \A n \in S : m <= n
<1> DEFINE R == {p \in Nat \X Nat : p[1] < p[2]}
<1>1. IsWellFoundedOn(R, Nat)
  BY NatLessThanWellFounded, Zenon DEF OpToRel
<1>2. PICK m \in S : \A n \in S : ~ (<<n, m>> \in R)
  <2> HIDE DEF R
  <2> QED  BY <1>1, WFMin
<1>3. \A n \in S : m <= n
  <2> SUFFICES ASSUME NEW n \in S, n < m PROVE FALSE
    OBVIOUS
  <2>1. <<n, m>> \in R
    OBVIOUS
  <2> QED  BY <1>2, <2>1
<1> QED  BY <1>3

LEMMA FirstExists ==
    ASSUME NEW c \in Nat, NEW S \in SUBSET Ys, S # {}
    PROVE  \E i \in S : \A j \in S \ {i} : Before(c, i, j)
<1> USE LinesAssumption DEF Ys
<1> DEFINE Old == {k \in S : k >= c}
<1>0. S \in SUBSET Nat  OBVIOUS
<1>1. CASE Old # {}
  <2>1. PICK i \in Old : \A n \in Old : i <= n
    BY <1>1, <1>0, LeastElement
  <2>2. \A j \in S \ {i} : Before(c, i, j)
    BY <1>0, <2>1 DEF Before
  <2> QED  BY <2>1, <2>2
<1>2. CASE Old = {}
  <2>1. PICK i \in S : \A n \in S : i <= n
    BY <1>0, LeastElement
  <2>2. \A j \in S \ {i} : Before(c, i, j)
    BY <1>0, <1>2, <2>1 DEF Before
  <2> QED  BY <2>1, <2>2
<1> QED  BY <1>1, <1>2

LEMMA NextLiveIsFirst ==
    ASSUME NEW k \in Ys, NEW ln, HasBytes(ln) # {}
    PROVE  /\ NextLive(k, ln) \in HasBytes(ln)
           /\ \A j \in HasBytes(ln) \ {NextLive(k, ln)} : Before(k + 1, NextLive(k, ln), j)
<1>1. k + 1 \in Nat /\ HasBytes(ln) \in SUBSET Ys
  BY LinesAssumption DEF HasBytes, Ys
<1>2. \E i \in HasBytes(ln) : \A j \in HasBytes(ln) \ {i} : Before(k + 1, i, j)
  BY <1>1, FirstExists
<1> QED  BY <1>2 DEF NextLive

(* Moving the replacement point from line c to the next keeps the order of *)
(* the other lines and sends line c from the front to the back.            *)
LEMMA Rotate ==
    ASSUME NEW c \in Ys, NEW d, d = IF c + 1 = Lines THEN 0 ELSE c + 1,
           NEW j \in Ys, NEW k \in Ys
    PROVE  /\ Before(d, j, k) <=> Before(c + 1, j, k)
           /\ j # c /\ k # c => (Before(d, j, k) <=> Before(c, j, k))
           /\ j # c => Before(d, j, c) /\ ~Before(d, c, j) /\ Before(c, c, j) /\ ~Before(c, j, c)
           /\ ~Before(d, j, j)
           /\ j # k => (Before(d, j, k) <=> ~Before(d, k, j))
BY LinesAssumption DEF Ys, Before

-----------------------------------------------------------------------------
(***************************************************************************)
(* Replacing line y by a record of n bytes at the head (n = 0: by a        *)
(* duplicate): what Commit, EncodeFail, Discard and AllocFail share.       *)
(***************************************************************************)
Ring == /\ head \in 0 .. Size /\ tail \in 0 .. Size /\ live \in 0 .. Size
        /\ off \in [Ys -> 0 .. Size - 1] /\ len \in [Ys -> 0 .. MaxLen]
        /\ y \in Ys
        /\ InRing /\ InOrder /\ FirstAtTail /\ Packed /\ LastAtHead /\ Count

Replaced(n) ==
    /\ off' \in [Ys -> 0 .. Size - 1] /\ len' \in [Ys -> 0 .. MaxLen]
    /\ \A k \in Ys \ {y} : off'[k] = off[k] /\ len'[k] = len[k]
    /\ len'[y] = n
    /\ n > 0 => /\ off'[y] = head /\ head + n <= Size
                /\ head < tail => head + n < tail
    /\ head' = head + n
    /\ NextLine
    /\ FreeOld(y, tail, IF n = 0 THEN live ELSE RingDist(tail, head + n))

LEMMA OldIsFirst ==
    ASSUME Ring, len[y] # 0
    PROVE  off[y] = tail
<1>1. y \in HasBytes(len)
  BY MaxLenAssumption DEF Ring, HasBytes
<1>2. \A j \in HasBytes(len) : ~Before(y, j, y)
  BY LinesAssumption DEF Ring, HasBytes, Before, Ys
<1> QED  BY <1>1, <1>2 DEF Ring, FirstAtTail

(* Where the tail ends up: at the first line that is left. *)
LEMMA NewTail ==
    ASSUME Ring, NEW n \in 0 .. MaxLen, Replaced(n), len[y] # 0, HasBytes(len') # {},
           NEW N, N = NextLive(y, len')
    PROVE  /\ N \in HasBytes(len')
           /\ \A j \in HasBytes(len') \ {N} : Before(y', N, j)
           /\ tail' = off'[N]
           /\ N = y => HasBytes(len') = {y}
<1>1. y \in Ys /\ y' \in Ys /\ y' = IF y + 1 = Lines THEN 0 ELSE y + 1
  BY LinesAssumption DEF Ring, Replaced, NextLine, Ys
<1>2. /\ N \in HasBytes(len')
      /\ \A j \in HasBytes(len') \ {N} : Before(y + 1, N, j)
  BY <1>1, NextLiveIsFirst
<1>3. N \in Ys /\ HasBytes(len') \subseteq Ys
  BY <1>2 DEF HasBytes
<1>4. \A j \in HasBytes(len') \ {N} : Before(y', N, j)
  BY <1>1, <1>2, <1>3, Rotate
<1>5. N = y => HasBytes(len') = {y}
  <2>1. \A j \in Ys : j # y => ~Before(y', y, j)
    BY <1>1, Rotate
  <2>2. ASSUME N = y, NEW j \in HasBytes(len'), j # y PROVE FALSE
    BY <1>3, <1>4, <2>1, <2>2
  <2> QED  BY <1>2, <2>2
<1>6. tail' = IF off'[N] < off[y] + len[y] THEN off'[N] ELSE off[y] + len[y]
  BY OldIsFirst DEF Replaced, FreeOld, TailAfter
<1>7. \A j \in Ys \ {y} : j \in HasBytes(len) <=> j \in HasBytes(len')
  BY DEF Replaced, HasBytes
<1>8. y \in HasBytes(len)
  BY MaxLenAssumption DEF Ring, HasBytes
<1>9. CASE N = y
  <2>1. HasBytes(len) = {y}
    BY <1>5, <1>7, <1>8, <1>9 DEF HasBytes
  <2>2. \A j \in HasBytes(len) : ~Before(y, y, j)
    BY <2>1, <1>1, LinesAssumption DEF Before, Ys
  <2>3. EndOf(y) = head \/ head = 0
    BY <2>2, <1>8 DEF Ring, LastAtHead
  <2>4. off'[y] = head
    BY <1>2, <1>9 DEF Replaced, HasBytes
  <2> QED  BY <1>2, <1>4, <1>5, <1>6, <1>9, <2>3, <2>4, SizeAssumption, MaxLenAssumption DEF Ring, EndOf
<1>10. CASE N # y
  <2>1. N \in HasBytes(len) /\ off'[N] = off[N]
    BY <1>2, <1>3, <1>7, <1>10 DEF Replaced
  <2>2. Before(y, y, N)
    BY <1>1, <1>3, <1>10, Rotate
  <2>3. \A i \in HasBytes(len) : ~(Before(y, y, i) /\ Before(y, i, N))
    <3> SUFFICES ASSUME NEW i \in HasBytes(len), Before(y, y, i), Before(y, i, N) PROVE FALSE
      OBVIOUS
    <3>1. i \in Ys /\ i # y /\ i # N
      BY <1>1, <1>3, LinesAssumption DEF HasBytes, Before, Ys
    <3>2. Before(y', N, i)
      BY <3>1, <1>4, <1>7
    <3> QED  BY <3>1, <3>2, <1>1, <1>3, <1>10, Rotate
  <2>4. Adjacent(y, y, N)
    BY <1>8, <2>1, <2>2, <2>3 DEF Adjacent
  <2>5. off[N] = EndOf(y) \/ off[N] = 0
    BY <1>8, <2>1, <2>4 DEF Ring, Packed
  <2>6. off[N] \in Nat /\ EndOf(y) \in Nat /\ EndOf(y) > 0
    BY <1>1, <1>3, <1>8, SizeAssumption, MaxLenAssumption DEF Ring, EndOf, HasBytes
  <2> QED  BY <1>2, <1>4, <1>5, <1>6, <1>10, <2>1, <2>5, <2>6 DEF EndOf
<1> QED  BY <1>9, <1>10

(***************************************************************************)
(* The ring after a replacement, conjunct by conjunct.  Kept says what a   *)
(* line other than y keeps; Tail says which way the tail went.             *)
(***************************************************************************)
LEMMA RingDistType ==
    ASSUME NEW a \in 0 .. Size, NEW b \in 0 .. Size
    PROVE  RingDist(a, b) \in 0 .. Size /\ RingDist(a, a) = 0
BY SizeAssumption DEF RingDist

LEMMA ReplacedTypes ==
    ASSUME Ring, NEW n \in 0 .. MaxLen, Replaced(n)
    PROVE  /\ head' \in 0 .. Size /\ tail' \in 0 .. Size /\ live' \in 0 .. Size
           /\ y' \in Ys
           /\ Count'
<1> USE SizeAssumption, MaxLenAssumption
<1>1. y \in Ys /\ y' \in Ys
  BY LinesAssumption DEF Ring, Replaced, NextLine, Ys
<1>2. head' \in 0 .. Size
  BY DEF Ring, Replaced
<1>3. CASE len[y] = 0
  <2>1. tail' = tail /\ live' = IF n = 0 THEN live ELSE RingDist(tail, head + n)
    BY <1>3 DEF Replaced, FreeOld
  <2>2. live' = RingDist(tail', head')
    BY <2>1 DEF Ring, Count, Replaced
  <2>3. RingDist(tail', head') \in 0 .. Size
    BY <1>2, <2>1, RingDistType DEF Ring
  <2>4. HasBytes(len') = {} => tail' = head'
    <3> SUFFICES ASSUME HasBytes(len') = {} PROVE tail' = head'
      OBVIOUS
    <3>1. n = 0
      BY <1>1 DEF Replaced, HasBytes
    <3>2. HasBytes(len) = {}
      BY <1>1, <1>3 DEF Ring, Replaced, HasBytes
    <3> QED  BY <2>1, <3>1, <3>2 DEF Ring, Count, Replaced
  <2> QED  BY <1>1, <1>2, <2>1, <2>2, <2>3, <2>4 DEF Ring, Count
<1>4. CASE len[y] # 0
  <2>1. live' = RingDist(tail', head')
    BY <1>4 DEF Replaced, FreeOld
  <2>2. CASE HasBytes(len') = {}
    <3>1. tail' = head'
      BY <1>4, <2>2, OldIsFirst DEF Replaced, FreeOld, TailAfter
    <3>2. RingDist(tail', head') = 0
      BY <1>2, <3>1, RingDistType
    <3> QED  BY <1>1, <1>2, <2>1, <3>1, <3>2 DEF Count
  <2>3. CASE HasBytes(len') # {}
    <3>1. PICK N : N \in HasBytes(len') /\ tail' = off'[N]
      BY <1>4, <2>3, NewTail
    <3>2. tail' \in 0 .. Size
      BY <3>1 DEF Replaced, HasBytes
    <3>3. RingDist(tail', head') \in 0 .. Size
      BY <1>2, <3>2, RingDistType
    <3> QED  BY <1>1, <1>2, <2>1, <2>3, <3>2, <3>3 DEF Count
  <2> QED  BY <2>2, <2>3
<1> QED  BY <1>3, <1>4

(* How the new tail divides the lines.  *)
Divided ==
    /\ \A k \in HasBytes(len') \ {y} :
          /\ k \in HasBytes(len) /\ k \in Ys
          /\ off'[k] = off[k] /\ len'[k] = len[k] /\ len[k] > 0
    /\ len[y] = 0 => tail' = tail
    /\ len[y] # 0 /\ HasBytes(len') # {} =>
          \E N \in HasBytes(len') :
              /\ tail' = off'[N]
              /\ \A j \in HasBytes(len') \ {N} : Before(y', N, j)
              /\ N = y => HasBytes(len') = {y}

LEMMA ReplacedDivided ==
    ASSUME Ring, NEW n \in 0 .. MaxLen, Replaced(n)
    PROVE  Divided
<1>1. \A k \in HasBytes(len') \ {y} :
          /\ k \in HasBytes(len) /\ k \in Ys
          /\ off'[k] = off[k] /\ len'[k] = len[k] /\ len[k] > 0
  BY DEF Ring, Replaced, HasBytes
<1>2. len[y] = 0 => tail' = tail
  BY DEF Replaced, FreeOld
<1>3. ASSUME len[y] # 0, HasBytes(len') # {}
      PROVE  \E N \in HasBytes(len') :
              /\ tail' = off'[N]
              /\ \A j \in HasBytes(len') \ {N} : Before(y', N, j)
              /\ N = y => HasBytes(len') = {y}
  BY <1>3, NewTail
<1> QED  BY <1>1, <1>2, <1>3 DEF Divided

(* The lines that keep their bytes, and what the move of the tail means to *)
(* them: either every line stays on its side of the wrap, or the high part *)
(* is used up and the ring unwraps.                                        *)
Others == HasBytes(len') \ {y}

Moved ==
    \/ /\ tail <= tail' /\ (tail <= head => tail' <= head)
       /\ \A k \in Others : tail' <= off[k] <=> High(k)
    \/ /\ head < tail /\ tail' <= head
       /\ \A k \in Others : ~High(k) /\ tail' <= off[k]

LEMMA OthersKept ==
    ASSUME Ring, NEW n \in 0 .. MaxLen, Replaced(n), NEW k \in Others
    PROVE  /\ k \in HasBytes(len) /\ k \in Ys /\ k # y
           /\ off'[k] = off[k] /\ len'[k] = len[k]
           /\ off[k] \in Nat /\ len[k] \in Nat /\ len[k] > 0
           /\ EndOf(k) \in Nat /\ off[k] < EndOf(k)
           /\ EndOf(k)' = EndOf(k)
<1>1. k \in HasBytes(len) /\ k \in Ys /\ off'[k] = off[k] /\ len'[k] = len[k] /\ len[k] > 0
  BY ReplacedDivided DEF Divided, Others
<1>2. off[k] \in Nat /\ len[k] \in Nat
  BY <1>1, SizeAssumption, MaxLenAssumption DEF Ring
<1> QED  BY <1>1, <1>2 DEF EndOf, Others

LEMMA TailMoves ==
    ASSUME Ring, NEW n \in 0 .. MaxLen, Replaced(n), Others # {}
    PROVE  Moved
<1> USE SizeAssumption, MaxLenAssumption
<1>1. \A k \in Others :
         /\ k \in HasBytes(len) /\ k \in Ys /\ k # y
         /\ off'[k] = off[k] /\ off[k] \in Nat /\ EndOf(k) \in Nat /\ off[k] < EndOf(k)
  BY OthersKept
<1>2. tail \in Nat /\ head \in Nat /\ y \in Ys
  BY DEF Ring
<1>3. CASE len[y] = 0
  <2>1. tail' = tail
    BY <1>3, ReplacedDivided DEF Divided
  <2> QED  BY <2>1, <1>2 DEF Moved, High
<1>4. CASE len[y] # 0
  <2>1. HasBytes(len') # {} /\ HasBytes(len') # {y}
    BY DEF Others
  <2>2. PICK N \in Others : tail' = off'[N] /\ \A j \in Others \ {N} : Before(y', N, j)
    BY <1>4, <2>1, ReplacedDivided DEF Divided, Others
  <2>3. tail' = off[N] /\ tail' \in Nat
    BY <1>1, <2>2
  <2>4. \A k \in Others \ {N} : \/ High(N) /\ ~High(k)
                                \/ (High(N) <=> High(k)) /\ EndOf(N) <= off[k]
    <3> SUFFICES ASSUME NEW k \in Others \ {N}
                 PROVE  \/ High(N) /\ ~High(k)
                        \/ (High(N) <=> High(k)) /\ EndOf(N) <= off[k]
      OBVIOUS
    <3>1. Before(y, N, k)
      BY <1>1, <1>2, <2>2, Rotate DEF Replaced, NextLine
    <3> QED  BY <1>1, <3>1 DEF Ring, InOrder
  <2>5. CASE High(N)
    <3>1. tail <= tail'
      BY <2>3, <2>5 DEF High
    <3>2. tail <= head => tail' <= head
      <4> SUFFICES ASSUME tail <= head PROVE off[N] <= head
        BY <2>3
      <4>1. EndOf(N) <= head
        BY <1>1 DEF Ring, InRing
      <4> QED  BY <1>1, <1>2, <4>1
    <3>3. ASSUME NEW k \in Others PROVE tail' <= off[k] <=> High(k)
      <4>1. CASE k = N
        BY <2>3, <2>5, <4>1
      <4>2. CASE k # N
        <5>1. \/ ~High(k)
              \/ High(k) /\ EndOf(N) <= off[k]
          BY <2>4, <2>5, <4>2
        <5> QED  BY <5>1, <1>1, <1>2, <2>3, <3>1 DEF High
      <4> QED  BY <4>1, <4>2
    <3> QED  BY <3>1, <3>2, <3>3 DEF Moved
  <2>6. CASE ~High(N)
    <3>1. head < tail /\ EndOf(N) <= head
      BY <1>1, <1>2, <2>6 DEF High, Ring, InRing
    <3>2. tail' <= head
      BY <1>1, <1>2, <2>3, <3>1
    <3>3. ASSUME NEW k \in Others PROVE ~High(k) /\ tail' <= off[k]
      <4>1. CASE k = N
        BY <2>3, <2>6, <4>1
      <4>2. CASE k # N
        <5>1. ~High(k) /\ EndOf(N) <= off[k]
          BY <2>4, <2>6, <4>2
        <5> QED  BY <5>1, <1>1, <2>3
      <4> QED  BY <4>1, <4>2
    <3> QED  BY <3>1, <3>2, <3>3 DEF Moved
  <2> QED  BY <2>5, <2>6
<1> QED  BY <1>3, <1>4

(* With no other line left, the ring holds the new line alone. *)
LEMMA AloneAtTail ==
    ASSUME Ring, NEW n \in 1 .. MaxLen, Replaced(n), Others = {}
    PROVE  tail' = head /\ HasBytes(len') = {y}
<1> USE SizeAssumption, MaxLenAssumption
<1>1. y \in HasBytes(len')
  BY DEF Ring, Replaced, HasBytes
<1>2. HasBytes(len') = {y}
  BY <1>1 DEF Others
<1>3. off'[y] = head
  BY DEF Replaced
<1>4. CASE len[y] = 0
  <2>1. HasBytes(len) = {}
    <3> SUFFICES ASSUME NEW k \in HasBytes(len) PROVE FALSE
      OBVIOUS
    <3>1. k \in Ys /\ len[k] > 0
      BY DEF HasBytes
    <3>2. k # y
      BY <1>4, <3>1
    <3>3. k \in HasBytes(len')
      BY <3>1, <3>2 DEF Replaced, HasBytes
    <3> QED  BY <1>2, <3>2, <3>3
  <2>2. tail = head
    BY <2>1 DEF Ring, Count
  <2> QED  BY <1>2, <1>4, <2>2, ReplacedDivided DEF Divided
<1>5. CASE len[y] # 0
  BY <1>2, <1>3, <1>5, ReplacedDivided DEF Divided
<1> QED  BY <1>4, <1>5

(* The new line sits at the old head; it is above the wrap when the ring was not wrapped. *)
LEMMA NewLine ==
    ASSUME Ring, NEW n \in 0 .. MaxLen, Replaced(n)
    PROVE  /\ head' = head + n /\ head \in Nat /\ tail \in Nat /\ tail' \in Nat /\ n \in Nat
           /\ y \in Ys /\ y' \in Ys
           /\ y \in HasBytes(len') <=> n > 0
           /\ n > 0 => off'[y] = head /\ len'[y] = n
           /\ head < tail => head + n < tail
<1> USE SizeAssumption, MaxLenAssumption
<1>1. tail' \in Nat /\ y' \in Ys
  BY ReplacedTypes
<1>2. y \in HasBytes(len') <=> n > 0
  BY DEF Ring, Replaced, HasBytes
<1> QED  BY <1>1, <1>2 DEF Ring, Replaced

LEMMA ReplacedInRing ==
    ASSUME Ring, NEW n \in 0 .. MaxLen, Replaced(n)
    PROVE  InRing'
<1>1. SUFFICES ASSUME NEW k \in HasBytes(len')
               PROVE  IF tail' <= head' THEN tail' <= off'[k] /\ EndOf(k)' <= head'
                      ELSE \/ tail' <= off'[k] /\ EndOf(k)' <= Size
                           \/ EndOf(k)' <= head'
  BY DEF InRing
<1>2. CASE Others = {}
  <2>1. k = y /\ n > 0 /\ n \in 1 .. MaxLen
    BY <1>2, NewLine DEF Others
  <2>2. tail' = head /\ off'[k] = head /\ EndOf(k)' = head + n
    BY <1>2, <2>1, AloneAtTail, NewLine DEF EndOf
  <2> QED  BY <2>1, <2>2, NewLine
<1>3. CASE Others # {}
  <2>1. Moved
    BY <1>3, TailMoves
  <2>2. CASE k = y
    <3>1. off'[k] = head /\ EndOf(k)' = head + n
      BY <2>2, NewLine DEF EndOf
    <3>2. \/ tail <= tail' /\ (tail <= head => tail' <= head)
          \/ head < tail /\ tail' <= head
      BY <2>1 DEF Moved
    <3> QED  BY <3>1, <3>2, NewLine
  <2>3. CASE k # y
    <3>1. k \in Others
      BY <2>3 DEF Others
    <3>2. /\ k \in HasBytes(len) /\ off'[k] = off[k] /\ EndOf(k)' = EndOf(k)
          /\ off[k] \in Nat /\ EndOf(k) \in Nat
      BY <3>1, OthersKept
    <3>3. IF tail <= head THEN tail <= off[k] /\ EndOf(k) <= head
          ELSE \/ tail <= off[k] /\ EndOf(k) <= Size
               \/ EndOf(k) <= head
      BY <3>2 DEF Ring, InRing
    <3>4. \/ /\ tail <= tail' /\ (tail <= head => tail' <= head)
             /\ tail' <= off[k] <=> tail <= off[k]
          \/ /\ head < tail /\ tail' <= head
             /\ ~(tail <= off[k]) /\ tail' <= off[k]
      BY <2>1, <3>1 DEF Moved, High
    <3> QED  BY <3>2, <3>3, <3>4, NewLine, SizeAssumption
  <2> QED  BY <2>2, <2>3
<1> QED  BY <1>2, <1>3

LEMMA ReplacedInOrder ==
    ASSUME Ring, NEW n \in 0 .. MaxLen, Replaced(n)
    PROVE  InOrder'
<1>1. SUFFICES ASSUME NEW j \in HasBytes(len'), NEW k \in HasBytes(len'), Before(y', j, k)
               PROVE  \/ High(j)' /\ ~High(k)'
                      \/ (High(j)' <=> High(k)') /\ EndOf(j)' <= off'[k]
  BY DEF InOrder
<1>2. j \in Ys /\ k \in Ys /\ y \in Ys /\ NextLine
  BY NewLine DEF HasBytes, Replaced
<1>3. j \in Others
  BY <1>1, <1>2, Rotate DEF Others, NextLine
<1>4. Moved
  BY <1>3, TailMoves
<1>5. /\ j \in HasBytes(len) /\ off'[j] = off[j] /\ EndOf(j)' = EndOf(j)
      /\ off[j] \in Nat /\ EndOf(j) \in Nat /\ off[j] < EndOf(j)
  BY <1>3, OthersKept
<1>6. IF tail <= head THEN tail <= off[j] /\ EndOf(j) <= head
      ELSE tail <= off[j] \/ EndOf(j) <= head
  BY <1>5 DEF Ring, InRing
<1>7. High(j)' <=> tail' <= off[j]
  BY <1>5 DEF High
<1>8. CASE k = y
  <2>1. off'[k] = head /\ (High(k)' <=> tail' <= head)
    BY <1>8, NewLine DEF High
  <2>2. \/ /\ tail <= tail' /\ (tail <= head => tail' <= head)
           /\ tail' <= off[j] <=> tail <= off[j]
        \/ /\ head < tail /\ tail' <= head
           /\ ~(tail <= off[j]) /\ tail' <= off[j]
    BY <1>3, <1>4 DEF Moved, High
  <2> QED  BY <1>5, <1>6, <1>7, <2>1, <2>2, NewLine
<1>9. CASE k # y
  <2>1. k \in Others
    BY <1>9 DEF Others
  <2>2. k \in HasBytes(len) /\ off'[k] = off[k]
    BY <2>1, OthersKept
  <2>3. Before(y, j, k)
    BY <1>1, <1>2, <1>3, <1>9, Rotate DEF Others, NextLine
  <2>4. \/ High(j) /\ ~High(k)
        \/ (High(j) <=> High(k)) /\ EndOf(j) <= off[k]
    BY <1>5, <2>2, <2>3 DEF Ring, InOrder
  <2>5. \/ (High(j)' <=> High(j)) /\ (High(k)' <=> High(k))
        \/ ~High(j) /\ ~High(k) /\ High(j)' /\ High(k)'
    <3>1. High(k)' <=> tail' <= off[k]
      BY <2>2 DEF High
    <3> QED  BY <1>3, <1>4, <1>7, <2>1, <3>1 DEF Moved
  <2> QED  BY <1>5, <2>2, <2>4, <2>5
<1> QED  BY <1>8, <1>9

(* The order of the lines that stay does not change. *)
LEMMA OthersOrder ==
    ASSUME Ring, NEW n \in 0 .. MaxLen, Replaced(n), NEW k \in Others
    PROVE  /\ \A j \in Others : /\ Before(y', j, k) <=> Before(y, j, k)
                               /\ Before(y', k, j) <=> Before(y, k, j)
           /\ ~Before(y, k, y) /\ Before(y', k, y) /\ ~Before(y', y, k)
           /\ \A j \in HasBytes(len) : j # y => j \in Others
<1>1. Others \subseteq Ys /\ k # y /\ \A j \in Others : j # y
  BY DEF Others, HasBytes
<1>2. y \in Ys /\ NextLine
  BY NewLine DEF Replaced
<1>3. /\ \A j \in Others : /\ Before(y', j, k) <=> Before(y, j, k)
                          /\ Before(y', k, j) <=> Before(y, k, j)
      /\ ~Before(y, k, y) /\ Before(y', k, y) /\ ~Before(y', y, k)
  BY <1>1, <1>2, Rotate DEF NextLine
<1>4. \A j \in HasBytes(len) : j # y => j \in Others
  BY DEF Others, HasBytes, Replaced
<1> QED  BY <1>3, <1>4

LEMMA ReplacedFirstAtTail ==
    ASSUME Ring, NEW n \in 0 .. MaxLen, Replaced(n)
    PROVE  FirstAtTail'
<1>1. SUFFICES ASSUME NEW k \in HasBytes(len'),
                      \A j \in HasBytes(len') : ~Before(y', j, k)
               PROVE  off'[k] = tail'
  BY DEF FirstAtTail
<1>2. CASE k = y
  <2>1. Others = {}
    BY <1>1, <1>2, OthersOrder DEF Others
  <2>2. n > 0 /\ n \in 1 .. MaxLen
    BY <1>2, NewLine
  <2> QED  BY <1>2, <2>1, <2>2, AloneAtTail, NewLine
<1>3. CASE k # y
  <2>1. k \in Others
    BY <1>3 DEF Others
  <2>2. CASE len[y] # 0
    <3>1. PICK N \in HasBytes(len') :
             /\ tail' = off'[N]
             /\ \A j \in HasBytes(len') \ {N} : Before(y', N, j)
      BY <2>2, ReplacedDivided DEF Divided
    <3>2. N = k
      BY <1>1, <3>1
    <3> QED  BY <3>1, <3>2
  <2>3. CASE len[y] = 0
    <3>1. tail' = tail /\ off'[k] = off[k] /\ k \in HasBytes(len)
      BY <2>1, <2>3, ReplacedDivided, OthersKept DEF Divided
    <3>2. \A j \in HasBytes(len) : ~Before(y, j, k)
      <4> SUFFICES ASSUME NEW j \in HasBytes(len) PROVE ~Before(y, j, k)
        OBVIOUS
      <4>1. j # y
        BY <2>3 DEF HasBytes
      <4>2. j \in Others
        BY <4>1, <2>1, OthersOrder
      <4> QED  BY <1>1, <2>1, <4>2, OthersOrder DEF Others
    <3> QED  BY <3>1, <3>2 DEF Ring, FirstAtTail
  <2> QED  BY <2>2, <2>3
<1> QED  BY <1>2, <1>3

LEMMA ReplacedPacked ==
    ASSUME Ring, NEW n \in 0 .. MaxLen, Replaced(n)
    PROVE  Packed'
<1>1. SUFFICES ASSUME NEW j \in HasBytes(len'), NEW k \in HasBytes(len'), Before(y', j, k),
                      \A i \in HasBytes(len') : ~(Before(y', j, i) /\ Before(y', i, k))
               PROVE  \/ off'[k] = off'[j] + len'[j]
                      \/ off'[k] = 0 /\ ~(tail' <= off'[k]) /\ tail' <= off'[j]
  BY DEF Packed, Adjacent, EndOf, High
<1>2. j \in Others
  <2>1. j # y
    <3> SUFFICES ASSUME j = y PROVE FALSE
      OBVIOUS
    <3>1. ~Before(y', y, y) /\ \A i \in Others : ~Before(y', y, i)
      BY NewLine, Rotate, OthersOrder DEF Replaced, NextLine
    <3> QED  BY <1>1, <3>1 DEF Others
  <2> QED  BY <2>1 DEF Others
<1>3. Moved
  BY <1>2, TailMoves
<1>4. /\ j \in HasBytes(len) /\ off'[j] = off[j] /\ len'[j] = len[j] /\ j # y
      /\ off[j] \in Nat /\ len[j] \in Nat /\ len[j] > 0 /\ EndOf(j) = off[j] + len[j]
  BY <1>2, OthersKept DEF EndOf
<1>5. CASE k = y
  <2>1. \A i \in HasBytes(len) : ~Before(y, j, i)
    <3> SUFFICES ASSUME NEW i \in HasBytes(len), Before(y, j, i) PROVE FALSE
      OBVIOUS
    <3>1. i # y
      BY <1>2, OthersOrder
    <3>2. i \in Others
      BY <1>2, <3>1, OthersOrder
    <3>3. Before(y', j, i) /\ Before(y', i, y)
      BY <1>2, <3>2, OthersOrder
    <3> QED  BY <1>1, <1>5, <3>2, <3>3 DEF Others
  <2>2. EndOf(j) = head \/ (head = 0 /\ High(j))
    BY <1>4, <2>1 DEF Ring, LastAtHead
  <2>3. off'[k] = head
    BY <1>5, NewLine
  <2>4. CASE EndOf(j) = head
    BY <1>4, <2>3, <2>4
  <2>5. CASE head = 0 /\ High(j) /\ EndOf(j) # head
    <3>1. tail <= tail' /\ tail' <= off[j]
      BY <1>2, <1>3, <2>5 DEF Moved
    <3>2. ~(tail <= head)
      <4> SUFFICES ASSUME tail <= head PROVE FALSE
        OBVIOUS
      <4>1. EndOf(j) <= head
        BY <1>4 DEF Ring, InRing
      <4> QED  BY <1>4, <2>5, <4>1
    <3> QED  BY <1>4, <2>3, <2>5, <3>1, <3>2, NewLine
  <2> QED  BY <2>2, <2>4, <2>5
<1>6. CASE k # y
  <2>1. k \in Others
    BY <1>6 DEF Others
  <2>2. k \in HasBytes(len) /\ off'[k] = off[k]
    BY <2>1, OthersKept
  <2>3. \A i \in HasBytes(len) : ~(Before(y, j, i) /\ Before(y, i, k))
    <3> SUFFICES ASSUME NEW i \in HasBytes(len), Before(y, j, i), Before(y, i, k) PROVE FALSE
      OBVIOUS
    <3>1. i # y
      BY <1>2, OthersOrder
    <3>2. i \in Others
      BY <2>1, <3>1, OthersOrder
    <3>3. Before(y', j, i) /\ Before(y', i, k)
      BY <1>2, <2>1, <3>2, OthersOrder
    <3> QED  BY <1>1, <3>2, <3>3 DEF Others
  <2>4. Before(y, j, k)
    <3>1. j \in Ys /\ k \in Ys /\ j # y /\ k # y /\ y \in Ys /\ NextLine
      BY <1>2, <2>1, OthersKept, NewLine DEF Replaced
    <3>2. Before(y', j, k) <=> Before(y, j, k)
      BY <3>1, Rotate DEF NextLine
    <3> QED  BY <1>1, <3>2
  <2>5. off[k] = EndOf(j) \/ (off[k] = 0 /\ ~High(k) /\ High(j))
    BY <1>4, <2>2, <2>3, <2>4 DEF Adjacent, Ring, Packed
  <2>6. High(j) => /\ tail' <= off[j] <=> High(j)
                   /\ tail' <= off[k] <=> High(k)
    BY <1>2, <1>3, <2>1 DEF Moved
  <2> QED  BY <1>4, <2>2, <2>5, <2>6
<1> QED  BY <1>5, <1>6

LEMMA ReplacedLastAtHead ==
    ASSUME Ring, NEW n \in 0 .. MaxLen, Replaced(n)
    PROVE  LastAtHead'
<1>1. SUFFICES ASSUME NEW k \in HasBytes(len'),
                      \A j \in HasBytes(len') : ~Before(y', k, j)
               PROVE  off'[k] + len'[k] = head' \/ (head' = 0 /\ tail' <= off'[k])
  BY DEF LastAtHead, EndOf, High
<1>2. CASE k = y
  BY <1>2, NewLine
<1>3. CASE k # y
  <2>1. k \in Others
    BY <1>3 DEF Others
  <2>2. n = 0 /\ head' = head
    BY <1>1, <2>1, OthersOrder, NewLine
  <2>3. k \in HasBytes(len) /\ off'[k] = off[k] /\ len'[k] = len[k]
    BY <2>1, OthersKept
  <2>4. \A j \in HasBytes(len) : ~Before(y, k, j)
    BY <1>1, <2>1, OthersOrder DEF Others
  <2>5. off[k] + len[k] = head \/ (head = 0 /\ High(k))
    BY <2>3, <2>4 DEF Ring, LastAtHead, EndOf
  <2>6. High(k) => tail' <= off[k]
    BY <2>1, TailMoves DEF Moved
  <2> QED  BY <2>2, <2>3, <2>5, <2>6
<1> QED  BY <1>2, <1>3

LEMMA ReplacedKeeps ==
    ASSUME Ring, NEW n \in 0 .. MaxLen, Replaced(n)
    PROVE  Ring'
BY ReplacedTypes, ReplacedInRing, ReplacedInOrder, ReplacedFirstAtTail, ReplacedPacked,
   ReplacedLastAtHead DEF Ring, Replaced

-----------------------------------------------------------------------------
(***************************************************************************)
(* The steps.                                                              *)
(***************************************************************************)
LEMMA EmptyRing ==
    ASSUME Ring
    PROVE  live = 0 <=> HasBytes(len) = {}
<1> USE SizeAssumption
<1>1. ASSUME HasBytes(len) = {} PROVE live = 0
  BY <1>1, RingDistType DEF Ring, Count
<1>2. ASSUME live = 0, HasBytes(len) # {} PROVE FALSE
  <2>1. y \in Nat /\ HasBytes(len) \in SUBSET Ys
    BY LinesAssumption DEF Ring, Ys, HasBytes
  <2>2. PICK i \in HasBytes(len) : \A j \in HasBytes(len) \ {i} : Before(y, i, j)
    BY <1>2, <2>1, FirstExists
  <2>3. \A j \in HasBytes(len) : ~Before(y, j, i)
    BY <2>1, <2>2, LinesAssumption DEF Before, Ys
  <2>4. off[i] = tail
    BY <2>3 DEF Ring, FirstAtTail
  <2>5. off[i] \in 0 .. Size - 1 /\ len[i] \in Nat /\ len[i] > 0
    BY MaxLenAssumption DEF Ring, HasBytes
  <2>6. tail = head
    BY <1>2, <2>4, <2>5 DEF Ring, Count, RingDist
  <2> QED  BY <2>4, <2>5, <2>6 DEF Ring, InRing, EndOf
<1> QED  BY <1>1, <1>2

LEMMA IInvRing ==
    IInv <=> /\ Ring /\ AllocAtHead
             /\ dup \in [Ys -> BOOLEAN] /\ at \in 0 .. Size - 1 /\ cap \in 0 .. MaxLen
BY DEF IInv, Ring, TypeOK

LEMMA InitIInv == Init => IInv
<1> SUFFICES ASSUME Init PROVE IInv
  OBVIOUS
<1> USE SizeAssumption, LinesAssumption, MaxLenAssumption DEF Init
<1>1. TypeOK
  BY DEF TypeOK, Ys
<1>2. HasBytes(len) = {}
  BY DEF HasBytes
<1>3. Count
  BY DEF Count, RingDist
<1> QED  BY <1>1, <1>2, <1>3 DEF IInv, InRing, InOrder, FirstAtTail, Packed, Adjacent, LastAtHead, AllocAtHead

\* What a duplicate line shares, whatever made the line fail.
LEMMA DupStep ==
    ASSUME Ring, CommitDup(tail), head' = head
    PROVE  Replaced(0)
BY SizeAssumption, MaxLenAssumption DEF Ring, CommitDup, Replaced

LEMMA CommitStep ==
    ASSUME IInv, NEW n \in 1 .. MaxLen, Commit(n)
    PROVE  IInv'
<1> USE SizeAssumption, MaxLenAssumption
<1>1. Ring /\ AllocAtHead /\ dup \in [Ys -> BOOLEAN] /\ cap \in Nat /\ at \in 0 .. Size - 1
  BY IInvRing
<1>2. at = head /\ head + n <= Size /\ (head < tail => head + n < tail)
  BY <1>1 DEF AllocAtHead, Commit, Ring
<1>3. /\ off' \in [Ys -> 0 .. Size - 1] /\ len' \in [Ys -> 0 .. MaxLen]
      /\ \A k \in Ys \ {y} : off'[k] = off[k] /\ len'[k] = len[k]
      /\ len'[y] = n /\ off'[y] = head
  BY <1>1, <1>2 DEF Commit, Ring
<1>4. Replaced(n)
  BY <1>2, <1>3 DEF Replaced, Commit
<1>5. Ring'
  BY <1>1, <1>4, ReplacedKeeps
<1>6. at' = 0 /\ cap' = 0 /\ dup' \in [Ys -> BOOLEAN]
  BY <1>1 DEF Commit
<1> QED  BY <1>5, <1>6 DEF IInv, Ring, TypeOK, AllocAtHead

LEMMA DiscardStep ==
    ASSUME IInv, Discard \/ EncodeFail
    PROVE  IInv'
<1> USE SizeAssumption, MaxLenAssumption
<1>1. Ring /\ dup \in [Ys -> BOOLEAN] /\ at \in 0 .. Size - 1
  BY IInvRing
<1>2. Ring'
  BY <1>1, DupStep, ReplacedKeeps DEF Discard, EncodeFail
<1>3. at' \in 0 .. Size - 1 /\ cap' = 0
  BY <1>1 DEF Discard, EncodeFail
<1>4. dup' \in [Ys -> BOOLEAN]
  <2>1. dup' = [dup EXCEPT ![y] = TRUE]
    BY DEF Discard, EncodeFail, CommitDup
  <2> QED  BY <1>1, <2>1
<1> QED  BY <1>2, <1>3, <1>4 DEF IInv, Ring, TypeOK, AllocAtHead

LEMMA AllocFailStep ==
    ASSUME IInv, NEW m \in 1 .. MaxLen, AllocFail(m)
    PROVE  IInv'
<1> USE SizeAssumption, MaxLenAssumption
<1>1. Ring /\ dup \in [Ys -> BOOLEAN] /\ at \in 0 .. Size - 1
  BY IInvRing
<1>2. at' \in 0 .. Size - 1 /\ cap' = 0 /\ CommitDup(StartTail) /\ head' = StartHead
  BY <1>1 DEF AllocFail
<1>3. dup' \in [Ys -> BOOLEAN]
  <2>1. dup' = [dup EXCEPT ![y] = TRUE]
    BY <1>2 DEF CommitDup
  <2> QED  BY <1>1, <2>1
<1>4. Ring'
  <2>1. CASE live # 0
    BY <1>1, <1>2, <2>1, DupStep, ReplacedKeeps DEF StartHead, StartTail
  <2>2. CASE live = 0
    <3>1. HasBytes(len) = {} /\ y \in Ys
      BY <1>1, <2>2, EmptyRing DEF Ring
    <3>2. len' = [len EXCEPT ![y] = 0] /\ off' = [off EXCEPT ![y] = 0]
      BY <1>2 DEF CommitDup
    <3>3. len[y] = 0
      BY <1>1, <3>1 DEF Ring, HasBytes
    <3>4. HasBytes(len') = {}
      BY <1>1, <3>1, <3>2 DEF Ring, HasBytes
    <3>5. head' = 0 /\ tail' = 0 /\ live' = 0
      BY <1>2, <2>2, <3>3 DEF CommitDup, FreeOld, StartHead, StartTail
    <3>6. y' \in Ys
      BY <1>2, <3>1, LinesAssumption DEF CommitDup, NextLine, Ys
    <3>7. off' \in [Ys -> 0 .. Size - 1] /\ len' \in [Ys -> 0 .. MaxLen]
      BY <1>1, <3>2 DEF Ring
    <3>8. Count'
      <4>1. RingDist(tail', head') = 0
        BY <3>5, RingDistType
      <4> QED  BY <3>5, <4>1 DEF Count
    <3>9. InRing' /\ InOrder' /\ FirstAtTail' /\ Packed' /\ LastAtHead'
      BY <3>4 DEF InRing, InOrder, FirstAtTail, Packed, LastAtHead
    <3> QED  BY <3>5, <3>6, <3>7, <3>8, <3>9 DEF Ring
  <2> QED  BY <2>1, <2>2
<1> QED  BY <1>2, <1>3, <1>4 DEF IInv, Ring, TypeOK, AllocAtHead

LEMMA AllocStep ==
    ASSUME IInv, NEW m \in 1 .. MaxLen, Alloc(m)
    PROVE  IInv'
<1> USE SizeAssumption, MaxLenAssumption
<1>1. Ring /\ dup \in [Ys -> BOOLEAN] /\ head \in Nat /\ tail \in Nat /\ live \in Nat
  BY IInvRing DEF Ring
<1> DEFINE p == Place(StartHead, StartTail, m)
<1>2. /\ p # NoRoom /\ at' = p /\ head' = p /\ cap' = m /\ tail' = StartTail
      /\ live' = IF p = StartHead THEN live ELSE live + Size - head
      /\ off' = off /\ len' = len /\ dup' = dup /\ y' = y
  BY DEF Alloc
<1>3. live = RingDist(tail, head) /\ tail <= Size /\ head <= Size
  BY <1>1 DEF Ring, Count
<1>4. HasBytes(len') = HasBytes(len) /\ \A k : off'[k] = off[k] /\ len'[k] = len[k]
  BY <1>2
<1>5. CASE live = 0
  <2>1. HasBytes(len) = {}
    BY <1>1, <1>5, EmptyRing
  <2>2. m < Size /\ p = 0
    BY <1>2, <1>5 DEF Place, NoRoom, StartHead, StartTail
  <2>3. head' = 0 /\ tail' = 0 /\ live' = 0
    BY <1>2, <1>5, <2>2 DEF StartHead, StartTail
  <2>4. InRing' /\ InOrder' /\ FirstAtTail' /\ Packed' /\ LastAtHead'
    BY <1>4, <2>1 DEF InRing, InOrder, FirstAtTail, Packed, LastAtHead
  <2>5. AllocAtHead'
    BY <1>2, <2>2, <2>3 DEF AllocAtHead
  <2>6. Count'
    <3>1. RingDist(tail', head') = 0
      BY <2>3, RingDistType
    <3> QED  BY <2>3, <3>1 DEF Count
  <2>7. TypeOK'
    BY <1>1, <1>2, <2>2, <2>3 DEF TypeOK, Ring
  <2> QED  BY <2>4, <2>5, <2>6, <2>7 DEF IInv
<1>6. CASE live # 0
  <2>1. HasBytes(len) # {} /\ tail' = tail /\ StartHead = head /\ StartTail = tail
    BY <1>1, <1>2, <1>6, EmptyRing DEF StartTail, StartHead
  <2>2. CASE p = head
    <3>1. head + m <= Size /\ (head < tail => head + m < tail)
      BY <1>1, <1>2, <1>3, <2>1, <2>2 DEF Place, NoRoom
    <3>2. head' = head /\ live' = live
      BY <1>2, <2>1, <2>2
    <3>3. Ring'
      BY <1>1, <1>2, <1>4, <2>1, <3>2
         DEF Ring, InRing, InOrder, FirstAtTail, Packed, Adjacent, LastAtHead, Count, EndOf, High, HasBytes
    <3>4. AllocAtHead'
      BY <1>2, <1>6, <2>1, <3>1, <3>2, <2>2 DEF AllocAtHead
    <3>5. at' \in 0 .. Size - 1 /\ cap' \in 0 .. MaxLen
      BY <1>1, <1>2, <2>2, <3>1
    <3> QED  BY <1>1, <1>2, <3>3, <3>4, <3>5 DEF IInv, Ring, TypeOK
  <2>3. CASE p # head
    <3>1. p = 0 /\ tail <= head /\ m < tail
      BY <1>1, <1>2, <2>1, <2>3 DEF Place, NoRoom
    <3>2. head' = 0 /\ live' = live + Size - head /\ at' = 0
      BY <1>2, <2>1, <2>3, <3>1
    <3>3. live' = Size - tail /\ live' \in 1 .. Size /\ live' = RingDist(tail', head')
      BY <1>1, <1>3, <1>6, <2>1, <3>1, <3>2 DEF RingDist
    <3>4. \A k \in HasBytes(len) : tail <= off[k] /\ EndOf(k) <= Size
      <4> SUFFICES ASSUME NEW k \in HasBytes(len) PROVE tail <= off[k] /\ EndOf(k) <= Size
        OBVIOUS
      <4>1. tail <= off[k] /\ EndOf(k) <= head
        BY <1>1, <3>1 DEF Ring, InRing
      <4>2. EndOf(k) \in Int
        BY <1>1 DEF Ring, EndOf, HasBytes
      <4> QED  BY <1>1, <1>3, <4>1, <4>2
    <3>5. InRing'
      BY <1>1, <1>2, <2>1, <3>1, <3>2, <3>4 DEF InRing, EndOf
    <3>6. InOrder' /\ FirstAtTail' /\ Packed'
      BY <1>1, <1>2, <2>1 DEF Ring, InOrder, FirstAtTail, Packed, Adjacent, High, EndOf, HasBytes
    <3>7. LastAtHead'
      BY <1>2, <2>1, <3>2, <3>4 DEF LastAtHead, High, EndOf
    <3>8. AllocAtHead'
      BY <1>1, <1>2, <1>3, <2>1, <3>1, <3>2, <3>3 DEF AllocAtHead
    <3>9. Count'
      BY <1>4, <2>1, <3>3 DEF Count
    <3>10. TypeOK'
      BY <1>1, <1>2, <2>1, <3>2, <3>3 DEF TypeOK, Ring
    <3> QED  BY <3>5, <3>6, <3>7, <3>8, <3>9, <3>10 DEF IInv
  <2> QED  BY <2>2, <2>3
<1> QED  BY <1>5, <1>6

LEMMA NextIInv == IInv /\ [Next]_vars => IInv'
<1> SUFFICES ASSUME IInv, [Next]_vars PROVE IInv'
  OBVIOUS
<1>1. ASSUME NEW m \in 1 .. MaxLen, Alloc(m) PROVE IInv'
  BY <1>1, AllocStep
<1>2. ASSUME NEW m \in 1 .. MaxLen, AllocFail(m) PROVE IInv'
  BY <1>2, AllocFailStep
<1>3. ASSUME NEW m \in 1 .. MaxLen, Commit(m) PROVE IInv'
  BY <1>3, CommitStep
<1>4. CASE EncodeFail
  BY <1>4, DiscardStep
<1>5. CASE Discard
  BY <1>5, DiscardStep
<1>6. CASE UNCHANGED vars
  BY <1>6 DEF vars, IInv, TypeOK, InRing, InOrder, FirstAtTail, Packed, Adjacent, LastAtHead,
     AllocAtHead, Count, EndOf, High, HasBytes, RingDist
<1> QED  BY <1>1, <1>2, <1>3, <1>4, <1>5, <1>6 DEF Next

LEMMA ShapeDisjoint == IInv => LinesDisjoint
<1> USE SizeAssumption, MaxLenAssumption
<1> SUFFICES ASSUME IInv PROVE LinesDisjoint
  OBVIOUS
<1>1. /\ head \in 0 .. Size /\ tail \in 0 .. Size /\ y \in Ys
      /\ InRing /\ InOrder /\ AllocAtHead /\ at \in Nat /\ cap \in Nat
  BY DEF IInv, TypeOK
<1>2. \A k \in HasBytes(len) : k \in Ys /\ off[k] \in Nat /\ len[k] \in Nat /\ len[k] > 0
                            /\ EndOf(k) = off[k] + len[k]
  BY DEF IInv, TypeOK, HasBytes, EndOf
<1>3. \A k \in HasBytes(len) : IF tail <= head THEN tail <= off[k] /\ EndOf(k) <= head
                            ELSE \/ tail <= off[k] /\ EndOf(k) <= Size
                                 \/ EndOf(k) <= head
  BY <1>1 DEF InRing
<1>4. \A k \in HasBytes(len) : EndOf(k) <= Size
  BY <1>1, <1>2, <1>3
<1>5. ASSUME NEW j \in HasBytes(len), NEW k \in HasBytes(len), Before(y, j, k)
      PROVE  Apart(off[j], len[j], off[k], len[k])
  <2>1. \/ tail <= off[j] /\ ~(tail <= off[k])
        \/ EndOf(j) <= off[k]
    BY <1>1, <1>5 DEF InOrder, High
  <2>2. CASE tail <= off[j] /\ ~(tail <= off[k])
    <3>1. EndOf(k) <= head /\ head < tail
      BY <1>1, <1>2, <1>3, <2>2
    <3> QED  BY <1>1, <1>2, <2>2, <3>1 DEF Apart
  <2> QED  BY <1>2, <2>1, <2>2 DEF Apart
<1>6. ASSUME NEW j \in HasBytes(len), NEW k \in HasBytes(len), j # k
      PROVE  Apart(off[j], len[j], off[k], len[k])
  <2>1. Before(y, j, k) \/ Before(y, k, j)
    BY <1>1, <1>2, <1>6, LinesAssumption DEF Before, Ys
  <2> QED  BY <1>5, <2>1 DEF Apart
<1>7. ASSUME cap > 0, NEW k \in HasBytes(len)
      PROVE  Apart(off[k], len[k], at, cap)
  <2>1. at = head /\ (head < tail => at + cap < tail)
    BY <1>1, <1>7 DEF AllocAtHead
  <2> QED  BY <1>1, <1>2, <1>3, <2>1 DEF Apart
<1>8. cap > 0 => at + cap <= Size
  BY <1>1 DEF AllocAtHead
<1> QED  BY <1>4, <1>6, <1>7, <1>8 DEF LinesDisjoint

-----------------------------------------------------------------------------
(***************************************************************************)
(* The theorems.                                                           *)
(***************************************************************************)

(* The ring keeps its shape: ranges packed from the tail to the head in    *)
(* the order in which their lines will be replaced.                        *)
THEOREM RingShape == Spec => []IInv
<1>1. Init => IInv
  BY InitIInv
<1>2. IInv /\ [Next]_vars => IInv'
  BY NextIInv
<1> QED  BY <1>1, <1>2, PTL DEF Spec

(* Every field stays in its range: no offset, count or capacity of the     *)
(* allocator ever exceeds the pool.                                        *)
THEOREM TypesOK == Spec => []TypeOK
<1>1. IInv => TypeOK
  BY DEF IInv
<1> QED  BY <1>1, RingShape, PTL

(* No two lines share a byte, no line leaves the pool and the range given  *)
(* out for the next line is free (linepool_alloc, linepool_commit).        *)
THEOREM NoOverlap == Spec => []LinesDisjoint
BY ShapeDisjoint, RingShape, PTL

(* Every free is an in-order free: the fallback search of free_old, which  *)
(* could leave unreachable bytes behind the tail, is dead code here.       *)
THEOREM FreesInOrder == Spec => []OldLineAtTail
<1>1. IInv => OldLineAtTail
  BY IInvRing, OldIsFirst DEF OldLineAtTail
<1> QED  BY <1>1, RingShape, PTL

(* The cached live count is the ring distance, and zero exactly when no    *)
(* line has bytes, so the restart at offset 0 never lands on a live line.  *)
THEOREM LiveCounted == Spec => []LiveCount
<1>1. IInv => LiveCount
  BY IInvRing, EmptyRing DEF LiveCount, Ring, Count
<1> QED  BY <1>1, RingShape, PTL

-----------------------------------------------------------------------------
(***************************************************************************)
(* No space leaks.  A byte of the ring between the tail and the head is a  *)
(* line's, or padding, and padding is less than a longest line from the    *)
(* end of the pool: what a refusal leaves over can be counted.             *)
(***************************************************************************)
InLive(b) == IF tail <= head THEN tail <= b /\ b < head ELSE tail <= b \/ b < head

LineHas(k, b) == k \in HasBytes(len) /\ off[k] <= b /\ b < EndOf(k)

Covered(b) == InLive(b) => (\E k \in Ys : LineHas(k, b)) \/ b > Size - MaxLen

NoLeak == \A b \in 0 .. Size - 1 : Covered(b)

LEMMA ReplacedCovers ==
    ASSUME Ring, NEW n \in 0 .. MaxLen, Replaced(n), NEW b \in 0 .. Size - 1, Covered(b)
    PROVE  Covered(b)'
<1> USE SizeAssumption, MaxLenAssumption
<1>1. tail \in Nat /\ head \in Nat /\ y \in Ys /\ head' = head + n /\ (head < tail /\ n > 0 => head + n < tail)
  BY DEF Ring, Replaced
<1>2. \A k \in Ys : off[k] \in Nat /\ len[k] \in Nat /\ off'[k] \in Nat /\ len'[k] \in Nat
  BY DEF Ring, Replaced
<1> SUFFICES ASSUME InLive(b)', ~(b > Size - MaxLen) PROVE \E k \in Ys : LineHas(k, b)'
  BY DEF Covered
<1>3. CASE n > 0 /\ head <= b /\ b < head + n
  <2>1. PICK k \in Ys : k = y
    BY <1>1
  <2>2. LineHas(k, b)'
    BY <1>1, <1>2, <1>3, <2>1 DEF Replaced, LineHas, HasBytes, EndOf
  <2> QED  BY <2>2
<1>4. ASSUME NEW k \in Ys, k # y, LineHas(k, b) PROVE LineHas(k, b)'
  BY <1>4 DEF Replaced, LineHas, HasBytes, EndOf
<1>5. ASSUME InLive(b), ~LineHas(y, b) PROVE \E k \in Ys : LineHas(k, b)'
  BY <1>4, <1>5 DEF Covered
<1>6. CASE ~(n > 0 /\ head <= b /\ b < head + n) /\ len[y] = 0
  <2>1. tail' = tail
    BY <1>6 DEF Replaced, FreeOld
  <2>2. InLive(b)
    BY <1>1, <1>6, <2>1 DEF InLive
  <2>3. ~LineHas(y, b)
    BY <1>1, <1>6 DEF LineHas, HasBytes
  <2> QED  BY <1>5, <2>2, <2>3
<1>7. CASE ~(n > 0 /\ head <= b /\ b < head + n) /\ len[y] # 0
  <2>1. HasBytes(len') # {}
    <3> SUFFICES ASSUME HasBytes(len') = {} PROVE FALSE
      OBVIOUS
    <3>1. tail' = head'
      BY <1>7, OldIsFirst DEF Replaced, FreeOld, TailAfter
    <3> QED  BY <1>1, <3>1 DEF InLive
  <2>2. PICK N \in HasBytes(len') : tail' = off'[N] /\ (N = y => HasBytes(len') = {y})
    BY <1>7, <2>1, ReplacedDivided DEF Divided
  <2>3. N # y
    <3> SUFFICES ASSUME N = y PROVE FALSE
      OBVIOUS
    <3>1. n > 0 /\ tail' = head
      BY <1>1, <1>2, <2>2 DEF Replaced, HasBytes
    <3> QED  BY <1>1, <1>7, <3>1 DEF InLive
  <2>4. N \in Others
    BY <2>3 DEF Others
  <2>5. /\ N \in HasBytes(len) /\ N \in Ys /\ off'[N] = off[N]
        /\ off[N] \in Nat /\ EndOf(N) \in Nat /\ off[N] < EndOf(N)
    BY <2>4, OthersKept
  <2>6. IF tail <= head THEN tail <= off[N] /\ EndOf(N) <= head
        ELSE tail <= off[N] \/ EndOf(N) <= head
    BY <2>5 DEF Ring, InRing
  <2>7. off[y] = tail /\ y \in HasBytes(len) /\ EndOf(y) \in Nat
    BY <1>1, <1>2, <1>7, OldIsFirst DEF HasBytes, EndOf
  <2>8. Before(y, y, N)
    BY <1>1, <2>3, <2>5, Rotate, LinesAssumption DEF Ys, Before
  <2>9. ~(tail <= off[N]) \/ EndOf(y) <= off[N]
    BY <2>5, <2>7, <2>8 DEF Ring, InOrder, High
  <2>10. InLive(b)
    BY <1>1, <1>7, <2>2, <2>5, <2>6 DEF InLive
  <2>11. ~LineHas(y, b)
    BY <1>1, <1>7, <2>2, <2>5, <2>6, <2>7, <2>9 DEF InLive, LineHas
  <2> QED  BY <1>5, <2>10, <2>11
<1> QED  BY <1>3, <1>6, <1>7

LEMMA InitNoLeak == Init => NoLeak
BY DEF Init, NoLeak, Covered, InLive

LEMMA NextNoLeak ==
    ASSUME IInv, NoLeak, [Next]_vars
    PROVE  NoLeak'
<1> USE SizeAssumption, MaxLenAssumption
<1>1. /\ Ring /\ AllocAtHead /\ head \in 0 .. Size /\ tail \in 0 .. Size
      /\ cap \in Nat /\ at \in Nat /\ live = RingDist(tail, head)
  BY IInvRing DEF Ring, Count
<1>2. ASSUME NEW n \in 0 .. MaxLen, Replaced(n) PROVE NoLeak'
  BY <1>1, <1>2, ReplacedCovers DEF NoLeak
<1>3. ASSUME NEW m \in 1 .. MaxLen, Alloc(m) PROVE NoLeak'
  <2> DEFINE p == Place(StartHead, StartTail, m)
  <2>1. p # NoRoom /\ head' = p /\ tail' = StartTail /\ off' = off /\ len' = len
    BY <1>3 DEF Alloc
  <2>2. CASE live = 0
    <3>1. head' = 0 /\ tail' = 0
      BY <2>1, <2>2 DEF Place, NoRoom, StartHead, StartTail
    <3> QED  BY <3>1 DEF NoLeak, Covered, InLive
  <2>3. CASE live # 0 /\ p = head
    <3>1. head' = head /\ tail' = tail
      BY <2>1, <2>3 DEF StartTail
    <3> QED  BY <2>1, <3>1 DEF NoLeak, Covered, InLive, LineHas, HasBytes, EndOf
  <2>4. CASE live # 0 /\ p # head
    <3>1. tail' = tail /\ StartHead = head /\ StartTail = tail
      BY <2>1, <2>4 DEF StartTail, StartHead
    <3>2. head' = 0 /\ tail <= head /\ head + m > Size
      BY <1>1, <2>1, <2>4, <3>1 DEF Place, NoRoom
    <3> SUFFICES ASSUME NEW b \in 0 .. Size - 1 PROVE Covered(b)'
      BY DEF NoLeak
    <3>3. Covered(b)
      BY DEF NoLeak
    <3>4. CASE b >= head
      BY <1>1, <3>2, <3>4 DEF Covered
    <3>5. CASE b < head
      <4>1. (\E k \in Ys : LineHas(k, b)') <=> (\E k \in Ys : LineHas(k, b))
        BY <2>1 DEF LineHas, HasBytes, EndOf
      <4>2. InLive(b)' => InLive(b)
        BY <1>1, <3>1, <3>2, <3>5 DEF InLive
      <4> QED  BY <3>3, <4>1, <4>2 DEF Covered
    <3> QED  BY <1>1, <3>4, <3>5
  <2> QED  BY <2>2, <2>3, <2>4
<1>4. ASSUME NEW m \in 1 .. MaxLen, AllocFail(m) PROVE NoLeak'
  <2>1. CASE live # 0
    <3>1. CommitDup(tail) /\ head' = head
      BY <1>4, <2>1 DEF AllocFail, StartHead, StartTail
    <3> QED  BY <1>1, <1>2, <3>1, DupStep
  <2>2. CASE live = 0
    <3>1. len[y] = 0
      BY <1>1, <2>2, EmptyRing DEF Ring, HasBytes
    <3>2. head' = 0 /\ tail' = 0
      BY <1>4, <2>2, <3>1 DEF AllocFail, CommitDup, FreeOld, StartHead, StartTail
    <3> QED  BY <3>2 DEF NoLeak, Covered, InLive
  <2> QED  BY <2>1, <2>2
<1>5. ASSUME NEW n \in 1 .. MaxLen, Commit(n) PROVE NoLeak'
  <2>1. at = head /\ head + n <= Size /\ (head < tail => head + n < tail)
    BY <1>1, <1>5 DEF AllocAtHead, Commit
  <2>2. /\ off' \in [Ys -> 0 .. Size - 1] /\ len' \in [Ys -> 0 .. MaxLen]
        /\ \A k \in Ys \ {y} : off'[k] = off[k] /\ len'[k] = len[k]
        /\ len'[y] = n /\ off'[y] = head
    BY <1>1, <1>5, <2>1, IInvRing DEF Commit, Ring
  <2>3. Replaced(n)
    BY <1>5, <2>1, <2>2 DEF Replaced, Commit
  <2> QED  BY <1>2, <2>3
<1>6. CASE EncodeFail \/ Discard
  <2>1. CommitDup(tail) /\ head' = head
    BY <1>6 DEF EncodeFail, Discard
  <2> QED  BY <1>1, <1>2, <2>1, DupStep
<1>7. CASE UNCHANGED vars
  BY <1>7 DEF vars, NoLeak, Covered, InLive, LineHas, HasBytes, EndOf
<1> QED  BY <1>3, <1>4, <1>5, <1>6, <1>7 DEF Next

LEMMA IntervalSize ==
    ASSUME NEW a \in Int, NEW b \in Int, a <= b
    PROVE  IsFiniteSet(a .. b - 1) /\ Cardinality(a .. b - 1) = b - a
<1>1. b - 1 \in Int
  OBVIOUS
<1>2. /\ IsFiniteSet(a .. b - 1)
      /\ Cardinality(a .. b - 1) = IF a > b - 1 THEN 0 ELSE b - 1 - a + 1
  BY <1>1, FS_Interval, Zenon
<1> QED  BY <1>2

LEMMA CountedUp ==
    ASSUME NEW F \in SUBSET Int, IsFiniteSet(F), NEW a \in Nat, Cardinality(F) <= a,
           \A b \in 0 .. Size - 1 : b \in UsedBytes \/ b \in F \/ b > Size - MaxLen
    PROVE  Cardinality(UsedBytes) > Size - a - MaxLen
<1> USE SizeAssumption, MaxLenAssumption
<1> DEFINE P == Size - MaxLen + 1 .. Size - 1
           All == 0 .. Size - 1
<1>1. IsFiniteSet(P) /\ Cardinality(P) = MaxLen - 1
  BY FS_Interval
<1>2. IsFiniteSet(All) /\ Cardinality(All) = Size
  BY FS_Interval
<1>3. UsedBytes \subseteq All
  BY DEF UsedBytes
<1>4. IsFiniteSet(UsedBytes)
  BY <1>2, <1>3, FS_Subset
<1>5. IsFiniteSet(F \cup P) /\ Cardinality(F \cup P) <= Cardinality(F) + Cardinality(P)
  <2>1. /\ IsFiniteSet(F \cup P)
        /\ Cardinality(F \cup P) = Cardinality(F) + Cardinality(P) - Cardinality(F \cap P)
    BY <1>1, FS_Union, Zenon
  <2>2. IsFiniteSet(F \cap P)
    BY <1>1, FS_Subset
  <2>3. Cardinality(F) \in Nat /\ Cardinality(P) \in Nat /\ Cardinality(F \cap P) \in Nat
    BY <1>1, <2>2, FS_CardinalityType
  <2> QED  BY <2>1, <2>3
<1>6. /\ IsFiniteSet(UsedBytes \cup (F \cup P))
      /\ Cardinality(UsedBytes \cup (F \cup P)) <= Cardinality(UsedBytes) + Cardinality(F \cup P)
  <2>1. /\ IsFiniteSet(UsedBytes \cup (F \cup P))
        /\ Cardinality(UsedBytes \cup (F \cup P))
             = Cardinality(UsedBytes) + Cardinality(F \cup P) - Cardinality(UsedBytes \cap (F \cup P))
    BY <1>4, <1>5, FS_Union, Zenon
  <2>2. IsFiniteSet(UsedBytes \cap (F \cup P))
    BY <1>4, FS_Subset
  <2>3. /\ Cardinality(UsedBytes) \in Nat /\ Cardinality(F \cup P) \in Nat
        /\ Cardinality(UsedBytes \cap (F \cup P)) \in Nat
    BY <1>4, <1>5, <2>2, FS_CardinalityType
  <2> QED  BY <2>1, <2>3
<1>7. All \subseteq UsedBytes \cup (F \cup P)
  <2> SUFFICES ASSUME NEW b \in All PROVE b \in UsedBytes \cup (F \cup P)
    OBVIOUS
  <2>1. b > Size - MaxLen => b \in P
    OBVIOUS
  <2> QED  BY <2>1
<1>8. Size <= Cardinality(UsedBytes \cup (F \cup P))
  BY <1>2, <1>6, <1>7, FS_Subset
<1>9. /\ Cardinality(UsedBytes) \in Nat /\ Cardinality(F \cup P) \in Nat /\ Cardinality(F) \in Nat
      /\ Cardinality(UsedBytes \cup (F \cup P)) \in Nat
  BY <1>4, <1>5, <1>6, FS_CardinalityType
<1> HIDE DEF P, All
<1> QED  BY <1>1, <1>5, <1>6, <1>8, <1>9

LEMMA RefusedFull ==
    ASSUME IInv, NoLeak, NEW m \in 1 .. MaxLen, AllocFail(m)
    PROVE  Cardinality(UsedBytes) > Size - m - MaxLen
<1> USE SizeAssumption, MaxLenAssumption
<1>1. Ring /\ head \in 0 .. Size /\ tail \in 0 .. Size /\ live = RingDist(tail, head)
  BY IInvRing DEF Ring, Count
<1>2. Place(StartHead, StartTail, m) = NoRoom
  BY DEF AllocFail
<1>3. ASSUME NEW b \in 0 .. Size - 1, InLive(b) PROVE b \in UsedBytes \/ b > Size - MaxLen
  BY <1>3 DEF NoLeak, Covered, LineHas, UsedBytes
<1>4. CASE live = 0
  <2>1. m >= Size
    BY <1>2, <1>4 DEF Place, NoRoom, StartHead, StartTail
  <2>2. IsFiniteSet({}) /\ Cardinality({}) = 0
    BY FS_EmptySet
  <2>3. IsFiniteSet(0 .. Size - 1) /\ Cardinality(0 .. Size - 1) = Size
    BY FS_Interval
  <2> QED  BY <2>1, <2>3, CountedUp
<1>5. CASE live # 0 /\ head < tail
  <2>1. tail - head <= m
    BY <1>1, <1>2, <1>5 DEF Place, NoRoom, StartHead, StartTail, RingDist
  <2> DEFINE F == head .. tail - 1
  <2>2. IsFiniteSet(F) /\ Cardinality(F) <= m
    BY <1>1, <1>5, <2>1, IntervalSize
  <2>3. \A b \in 0 .. Size - 1 : b \in UsedBytes \/ b \in F \/ b > Size - MaxLen
    BY <1>1, <1>3, <1>5 DEF InLive
  <2>4. F \in SUBSET Int
    OBVIOUS
  <2> HIDE DEF F
  <2> QED  BY <2>2, <2>3, <2>4, CountedUp
<1>6. CASE live # 0 /\ tail <= head
  <2>1. \/ m >= Size - (head - tail)
        \/ head + m > Size /\ m >= tail
    BY <1>1, <1>2, <1>6 DEF Place, NoRoom, StartHead, StartTail, RingDist
  <2>2. \A b \in 0 .. Size - 1 : b \in UsedBytes \/ b < tail \/ b >= head \/ b > Size - MaxLen
    BY <1>1, <1>3, <1>6 DEF InLive
  <2>3. IsFiniteSet(0 .. tail - 1) /\ Cardinality(0 .. tail - 1) = tail
    BY <1>1, IntervalSize
  <2>4. CASE m >= Size - (head - tail)
    <3> DEFINE F == (0 .. tail - 1) \cup (head .. Size - 1)
    <3>1. IsFiniteSet(head .. Size - 1) /\ Cardinality(head .. Size - 1) = Size - head
      BY <1>1, FS_Interval
    <3>2. IsFiniteSet(F) /\ Cardinality(F) <= m
      <4>1. IsFiniteSet(F) /\ Cardinality(F) = tail + (Size - head) - Cardinality((0 .. tail - 1) \cap (head .. Size - 1))
        BY <2>3, <3>1, FS_Union
      <4>2. Cardinality((0 .. tail - 1) \cap (head .. Size - 1)) \in Nat
        BY <2>3, FS_Subset, FS_CardinalityType
      <4> HIDE DEF F
      <4> QED  BY <1>1, <2>4, <4>1, <4>2
    <3>3. \A b \in 0 .. Size - 1 : b \in UsedBytes \/ b \in F \/ b > Size - MaxLen
      BY <1>1, <2>2
    <3>4. F \in SUBSET Int
      OBVIOUS
    <3> HIDE DEF F
    <3> QED  BY <3>2, <3>3, <3>4, CountedUp
  <2>5. CASE head + m > Size /\ m >= tail
    <3> DEFINE F == 0 .. tail - 1
    <3>1. \A b \in 0 .. Size - 1 : b \in UsedBytes \/ b \in F \/ b > Size - MaxLen
      BY <1>1, <2>2, <2>5
    <3>2. F \in SUBSET Int /\ IsFiniteSet(F) /\ Cardinality(F) <= m
      BY <1>1, <2>3, <2>5
    <3> HIDE DEF F
    <3> QED  BY <3>1, <3>2, CountedUp
  <2> QED  BY <2>1, <2>4, <2>5
<1> QED  BY <1>1, <1>4, <1>5, <1>6

(* Padding and refusals never add up to lost space: a line is refused only *)
(* when published lines hold all bytes but its own length and a longest    *)
(* line's (linepool_alloc's two tests, free_old's skip of the padding).    *)
THEOREM RefusesOnlyWhenFull == Spec => RefusedOnlyWhenFull
<1>1. Init => IInv /\ NoLeak
  BY InitIInv, InitNoLeak
<1>2. IInv /\ NoLeak /\ [Next]_vars => (IInv /\ NoLeak)'
  BY NextIInv, NextNoLeak
<1>3. IInv /\ NoLeak => [\A m \in 1 .. MaxLen : AllocFail(m) => Cardinality(UsedBytes) > Size - m - MaxLen]_vars
  BY RefusedFull
<1> QED  BY <1>1, <1>2, <1>3, PTL DEF Spec, RefusedOnlyWhenFull

-----------------------------------------------------------------------------
(***************************************************************************)
(* The two cores: the renderer's steps are steps of the ring allocator,    *)
(* and what core 1 reads is whole although nothing locks the records.      *)
(***************************************************************************)
Records == [off : 0 .. Size - 1, len : 0 .. MaxLen, dup : BOOLEAN]

\* The record of line k as the ring keeps it.
Booked(k) == [off |-> off[k], len |-> len[k], dup |-> dup[k]]

ScanTypes ==
    /\ pub \in [Ys -> Records]
    /\ guard \in [off : 0 .. Size - 1, len : 0 .. MaxLen]
    /\ wpc \in {"idle", "len", "off", "fill", "store"}
    /\ size \in 0 .. MaxLen /\ sample \in 0 .. MaxLen
    /\ rpc \in {"idle", "load", "guard", "guarded", "read"}
    /\ ry \in Ys /\ r \in Records
    /\ missing \subseteq {"off", "len"} /\ moved \in BOOLEAN

\* Core 0 holds an allocation from its first look at the guard to the release.
Reserved ==
    /\ wpc = "idle" => cap = 0
    /\ wpc \in {"len", "off", "fill"} => cap > 0
    /\ size <= cap
    /\ wpc # "store" => size = 0 /\ todo = <<>>

\* How far the stores of a duplicate have come, ...
DupStage(p) ==
    \/ todo = DupStores /\ p = Booked(y)
    \/ todo = <<Store("len", 0), Store("off", 0)>> /\ p.dup
    \/ todo = <<Store("off", 0)>> /\ p.dup /\ p.len = 0
    \/ todo = <<>> /\ p = DupRecord

\* ... and those of a line of n bytes.
LineStage(p, o, n) ==
    \/ todo = LineStores(o, n) /\ p = Booked(y)
    \/ todo = <<Store("len", n), Store("dup", FALSE)>> /\ p.off = o
    \/ todo = <<Store("dup", FALSE)>> /\ p.off = o /\ p.len = n
    \/ todo = <<>> /\ p = [off |-> o, len |-> n, dup |-> FALSE]

\* The published records are the ring's, but for the line whose record is being stored.
Published ==
    /\ \A k \in Ys : k # y \/ wpc # "store" => pub[k] = Booked(k)
    /\ wpc = "store" /\ size = 0 => DupStage(pub[y])
    /\ wpc = "store" /\ size > 0 => LineStage(pub[y], at, size)

\* In whatever order its fields are stored, a record that is no duplicate has pixels.
Spans == \A k \in Ys : pub[k].dup \/ pub[k].len > 0

\* What core 1 has loaded of a record that core 0 has let alone since is the record.
Loaded ==
    /\ r.dup \/ r.len > 0
    /\ rpc \in {"guard", "guarded", "read"} => missing = {}
    /\ rpc # "idle" /\ ~moved =>
         /\ wpc = "store" /\ y = ry => Len(todo) = 3
         /\ "off" \notin missing => r.off = off[ry]
         /\ "len" \notin missing => r.len = len[ry] /\ r.dup = dup[ry]

ScanInv == IInv /\ ScanTypes /\ Reserved /\ Published /\ Spans /\ Loaded

-----------------------------------------------------------------------------
(***************************************************************************)
(* Core 0's steps.                                                         *)
(***************************************************************************)
LEMMA RingTypes ==
    ASSUME IInv
    PROVE  /\ off \in [Ys -> 0 .. Size - 1] /\ len \in [Ys -> 0 .. MaxLen] /\ dup \in [Ys -> BOOLEAN]
           /\ y \in Ys /\ at \in 0 .. Size - 1 /\ cap \in 0 .. MaxLen
           /\ \A k \in Ys : Booked(k) \in Records
<1>1. /\ off \in [Ys -> 0 .. Size - 1] /\ len \in [Ys -> 0 .. MaxLen] /\ dup \in [Ys -> BOOLEAN]
      /\ y \in Ys /\ at \in 0 .. Size - 1 /\ cap \in 0 .. MaxLen
  BY DEF IInv, TypeOK
<1>2. ASSUME NEW k \in Ys PROVE Booked(k) \in Records
  <2>1. off[k] \in 0 .. Size - 1 /\ len[k] \in 0 .. MaxLen /\ dup[k] \in BOOLEAN
    BY <1>1
  <2> QED  BY <2>1 DEF Booked, Records
<1> QED  BY <1>1, <1>2

LEMMA FirstOfThree ==
    ASSUME NEW a, NEW b, NEW c
    PROVE  Len(<<a, b, c>>) = 3 /\ Head(<<a, b, c>>) = a /\ Tail(<<a, b, c>>) = <<b, c>>
OBVIOUS

LEMMA FirstOfTwo ==
    ASSUME NEW a, NEW b
    PROVE  Len(<<a, b>>) = 2 /\ Head(<<a, b>>) = a /\ Tail(<<a, b>>) = <<b>>
OBVIOUS

LEMMA FirstOfOne ==
    ASSUME NEW a
    PROVE  Len(<<a>>) = 1 /\ Head(<<a>>) = a /\ Tail(<<a>>) = <<>>
OBVIOUS

LEMMA InitScanInv == ScanInit => ScanInv
<1> SUFFICES ASSUME ScanInit PROVE ScanInv
  OBVIOUS
<1> USE SizeAssumption, LinesAssumption, MaxLenAssumption
<1>1. IInv
  BY InitIInv DEF ScanInit
<1>2. DupRecord \in Records
  BY DEF DupRecord, Records
<1>3. \A k \in Ys : Booked(k) = DupRecord
  BY DEF ScanInit, Init, Booked, DupRecord
<1>4. 0 \in Ys
  BY DEF Ys
<1>5. ScanTypes
  BY <1>2, <1>4 DEF ScanInit, ScanTypes
<1>6. Reserved
  BY DEF ScanInit, Init, Reserved
<1>7. Published
  BY <1>3 DEF ScanInit, Published
<1>8. Spans /\ Loaded
  BY DEF ScanInit, Spans, Loaded, DupRecord
<1> QED  BY <1>1, <1>5, <1>6, <1>7, <1>8 DEF ScanInv

LEMMA ReserveKeeps ==
    ASSUME ScanInv, IInv', Reserve
    PROVE  ScanInv'
<1>1. PICK m \in 1 .. MaxLen : Alloc(m)
  BY DEF Reserve
<1>2. off' = off /\ len' = len /\ dup' = dup /\ y' = y /\ cap' = m
  BY <1>1 DEF Alloc
<1>3. /\ pub' = pub /\ guard' = guard /\ todo' = todo /\ size' = size /\ sample' = sample
      /\ rpc' = rpc /\ ry' = ry /\ r' = r /\ missing' = missing /\ moved' = moved
      /\ wpc = "idle" /\ wpc' = "len"
  BY DEF Reserve, shared, reader
<1>4. ScanTypes'
  BY <1>3 DEF ScanInv, ScanTypes
<1>5. Reserved'
  BY <1>2, <1>3, MaxLenAssumption DEF ScanInv, Reserved
<1>6. Published'
  BY <1>2, <1>3 DEF ScanInv, Published, Booked
<1>7. Spans' /\ Loaded'
  BY <1>2, <1>3 DEF ScanInv, Spans, Loaded
<1> QED  BY <1>4, <1>5, <1>6, <1>7 DEF ScanInv

LEMMA SampleKeeps ==
    ASSUME ScanInv, IInv', SampleLen \/ SampleOff
    PROVE  ScanInv'
<1>1. /\ off' = off /\ len' = len /\ dup' = dup /\ y' = y /\ cap' = cap /\ at' = at
      /\ pub' = pub /\ guard' = guard /\ todo' = todo /\ size' = size
      /\ rpc' = rpc /\ ry' = ry /\ r' = r /\ missing' = missing /\ moved' = moved
      /\ wpc \in {"len", "off"} /\ wpc' \in {"len", "off", "fill"}
  BY DEF SampleLen, SampleOff, vars, shared, reader
<1>2. sample' \in 0 .. MaxLen
  BY MaxLenAssumption DEF SampleLen, SampleOff, ScanInv, ScanTypes
<1>3. ScanTypes'
  BY <1>1, <1>2 DEF ScanInv, ScanTypes
<1>4. Reserved'
  BY <1>1 DEF ScanInv, Reserved
<1>5. Published'
  BY <1>1 DEF ScanInv, Published, Booked
<1>6. Spans' /\ Loaded'
  BY <1>1 DEF ScanInv, Spans, Loaded
<1> QED  BY <1>3, <1>4, <1>5, <1>6 DEF ScanInv

\* From here on the record of line y is being stored: all three stores are still to come.
LEMMA BeginStores ==
    ASSUME ScanInv, IInv', Filled \/ GiveUp
    PROVE  ScanInv'
<1>1. /\ off' = off /\ len' = len /\ dup' = dup /\ y' = y /\ cap' = cap /\ at' = at
      /\ pub' = pub /\ guard' = guard /\ sample' = sample
      /\ rpc' = rpc /\ ry' = ry /\ r' = r /\ missing' = missing /\ moved' = moved
      /\ wpc \in {"idle", "fill"} /\ wpc' = "store"
  BY DEF Filled, GiveUp, vars, shared, reader
<1>2. cap \in 0 .. MaxLen /\ y \in Ys
  BY RingTypes DEF ScanInv
<1>3. /\ size' \in 0 .. MaxLen /\ size' <= cap
      /\ \/ size' = 0 /\ todo' = DupStores
         \/ size' > 0 /\ todo' = LineStores(at, size')
  BY <1>2, MaxLenAssumption DEF Filled, GiveUp
<1>4. Len(todo') = 3
  <2>1. Len(DupStores) = 3
    BY FirstOfThree, Zenon DEF DupStores
  <2>2. Len(LineStores(at, size')) = 3
    BY FirstOfThree, Zenon DEF LineStores
  <2> QED  BY <1>3, <2>1, <2>2, Zenon
<1>5. \A k \in Ys : pub[k] = Booked(k)
  BY <1>1 DEF ScanInv, Published
<1>6. ScanTypes'
  BY <1>1, <1>3 DEF ScanInv, ScanTypes
<1>7. Reserved'
  BY <1>1, <1>3 DEF ScanInv, Reserved
<1>8. \A k \in Ys : Booked(k)' = Booked(k)
  BY <1>1 DEF Booked
<1>9. Published'
  <2>1. \A k \in Ys : pub'[k] = Booked(k)'
    BY <1>1, <1>5, <1>8
  <2>2. size' = 0 => DupStage(pub[y])'
    BY <1>1, <1>2, <1>3, <2>1 DEF DupStage
  <2>3. size' > 0 => LineStage(pub[y], at, size)'
    <3>1. ASSUME size' > 0 PROVE todo' = LineStores(at, size')
      BY <1>3, <3>1
    <3>2. pub'[y'] = Booked(y)'
      BY <1>1, <1>2, <2>1
    <3> QED  BY <1>1, <3>1, <3>2, Zenon DEF LineStage
  <2> QED  BY <2>1, <2>2, <2>3 DEF Published
<1>10. Spans' /\ Loaded'
  BY <1>1, <1>4 DEF ScanInv, Spans, Loaded
<1> QED  BY <1>6, <1>7, <1>9, <1>10 DEF ScanInv

(* One field of the record is stored. *)
LEMMA StoreOne ==
    ASSUME StoreField, NEW f, NEW v, Head(todo) = Store(f, v)
    PROVE  pub' = [pub EXCEPT ![y] = [pub[y] EXCEPT ![f] = v]]
<1>1. Store(f, v).field = f /\ Store(f, v).value = v
  BY Zenon DEF Store
<1>2. pub' = [pub EXCEPT ![y] = [pub[y] EXCEPT ![Head(todo).field] = Head(todo).value]]
  BY DEF StoreField
<1> QED  BY <1>1, <1>2, Zenon

LEMMA Stored ==
    ASSUME ScanInv, StoreField, NEW f, NEW v, Head(todo) = Store(f, v)
    PROVE  pub'[y] = [pub[y] EXCEPT ![f] = v]
<1>1. pub' = [pub EXCEPT ![y] = [pub[y] EXCEPT ![f] = v]]
  BY StoreOne, Zenon
<1>2. y \in DOMAIN pub
  <2>1. y \in Ys
    BY RingTypes DEF ScanInv
  <2> QED  BY <2>1 DEF ScanInv, ScanTypes
<1> DEFINE q == [pub[y] EXCEPT ![f] = v]
<1>3. pub' = [pub EXCEPT ![y] = q]
  BY <1>1
<1> HIDE DEF q
<1>4. pub'[y] = q
  BY <1>2, <1>3
<1> QED  BY <1>4 DEF q

LEMMA DupStores1 ==
    ASSUME ScanInv, StoreField, size = 0
    PROVE  /\ pub'[y] \in Records
           /\ pub'[y].dup \/ pub'[y].len > 0
           /\ \/ todo' = <<Store("len", 0), Store("off", 0)>> /\ pub'[y].dup
              \/ todo' = <<Store("off", 0)>> /\ pub'[y].dup /\ pub'[y].len = 0
              \/ todo' = <<>> /\ pub'[y] = DupRecord
<1>1. pub[y] \in Records
  <2>1. y \in Ys
    BY RingTypes DEF ScanInv
  <2> QED  BY <2>1 DEF ScanInv, ScanTypes
<1>2. 0 \in 0 .. Size - 1 /\ 0 \in 0 .. MaxLen /\ TRUE \in BOOLEAN
  BY SizeAssumption, MaxLenAssumption
<1>3. todo' = Tail(todo) /\ todo # <<>>
  BY DEF StoreField
<1>4. DupStage(pub[y])
  BY DEF ScanInv, Published, StoreField
<1>5. CASE todo = DupStores
  <2>1. Head(todo) = Store("dup", TRUE) /\ Tail(todo) = <<Store("len", 0), Store("off", 0)>>
    BY <1>5, FirstOfThree, Zenon DEF DupStores
  <2>2. pub'[y] = [pub[y] EXCEPT !["dup"] = TRUE]
    BY <2>1, Stored, Zenon
  <2>3. pub'[y] \in Records /\ pub'[y].dup = TRUE
    BY <1>1, <1>2, <2>2 DEF Records
  <2> QED  BY <1>3, <2>1, <2>3, Zenon
<1>6. CASE todo = <<Store("len", 0), Store("off", 0)>> /\ pub[y].dup
  <2>1. Head(todo) = Store("len", 0) /\ Tail(todo) = <<Store("off", 0)>>
    BY <1>6, FirstOfTwo, Zenon
  <2>2. pub'[y] = [pub[y] EXCEPT !["len"] = 0]
    BY <2>1, Stored, Zenon
  <2>3. pub'[y] \in Records /\ pub'[y].len = 0 /\ pub'[y].dup = pub[y].dup
    BY <1>1, <1>2, <2>2 DEF Records
  <2> QED  BY <1>3, <1>6, <2>1, <2>3, Zenon
<1>7. CASE todo = <<Store("off", 0)>> /\ pub[y].dup /\ pub[y].len = 0
  <2>1. Head(todo) = Store("off", 0) /\ Tail(todo) = <<>>
    BY <1>7, FirstOfOne, Zenon
  <2>2. pub'[y] = [pub[y] EXCEPT !["off"] = 0]
    BY <2>1, Stored, Zenon
  <2>3. pub'[y] \in Records /\ pub'[y].off = 0 /\ pub'[y].len = pub[y].len /\ pub'[y].dup = pub[y].dup
    BY <1>1, <1>2, <2>2 DEF Records
  <2>4. pub'[y].dup = TRUE
    BY <1>7, <2>3 DEF Records
  <2>5. pub'[y] = DupRecord
    BY <1>7, <2>3, <2>4 DEF Records, DupRecord
  <2> QED  BY <1>3, <2>1, <2>3, <2>4, <2>5, Zenon
<1> QED  BY <1>3, <1>4, <1>5, <1>6, <1>7, Zenon DEF DupStage

LEMMA LineStores1 ==
    ASSUME ScanInv, StoreField, size > 0
    PROVE  /\ pub'[y] \in Records
           /\ pub'[y].dup \/ pub'[y].len > 0
           /\ \/ todo' = <<Store("len", size), Store("dup", FALSE)>> /\ pub'[y].off = at
              \/ todo' = <<Store("dup", FALSE)>> /\ pub'[y].off = at /\ pub'[y].len = size
              \/ todo' = <<>> /\ pub'[y] = [off |-> at, len |-> size, dup |-> FALSE]
<1>1. pub[y] \in Records /\ (pub[y].dup \/ pub[y].len > 0)
  <2>1. y \in Ys
    BY RingTypes DEF ScanInv
  <2> QED  BY <2>1 DEF ScanInv, ScanTypes, Spans
<1>2. at \in 0 .. Size - 1 /\ size \in 0 .. MaxLen /\ FALSE \in BOOLEAN
  BY RingTypes DEF ScanInv, ScanTypes
<1>3. todo' = Tail(todo) /\ todo # <<>>
  BY DEF StoreField
<1>4. LineStage(pub[y], at, size)
  BY DEF ScanInv, Published, StoreField
<1>5. CASE todo = LineStores(at, size)
  <2>1. Head(todo) = Store("off", at) /\ Tail(todo) = <<Store("len", size), Store("dup", FALSE)>>
    BY <1>5, FirstOfThree, Zenon DEF LineStores
  <2>2. pub'[y] = [pub[y] EXCEPT !["off"] = at]
    BY <2>1, Stored, Zenon
  <2>3. pub'[y] \in Records /\ pub'[y].off = at /\ pub'[y].len = pub[y].len /\ pub'[y].dup = pub[y].dup
    BY <1>1, <1>2, <2>2 DEF Records
  <2> QED  BY <1>1, <1>3, <2>1, <2>3, Zenon
<1>6. CASE todo = <<Store("len", size), Store("dup", FALSE)>> /\ pub[y].off = at
  <2>1. Head(todo) = Store("len", size) /\ Tail(todo) = <<Store("dup", FALSE)>>
    BY <1>6, FirstOfTwo, Zenon
  <2>2. pub'[y] = [pub[y] EXCEPT !["len"] = size]
    BY <2>1, Stored, Zenon
  <2>3. pub'[y] \in Records /\ pub'[y].len = size /\ pub'[y].off = pub[y].off
    BY <1>1, <1>2, <2>2 DEF Records
  <2>4. pub'[y].len > 0
    BY <2>3
  <2> QED  BY <1>3, <1>6, <2>1, <2>3, <2>4, Zenon
<1>7. CASE todo = <<Store("dup", FALSE)>> /\ pub[y].off = at /\ pub[y].len = size
  <2>1. Head(todo) = Store("dup", FALSE) /\ Tail(todo) = <<>>
    BY <1>7, FirstOfOne, Zenon
  <2>2. pub'[y] = [pub[y] EXCEPT !["dup"] = FALSE]
    BY <2>1, Stored, Zenon
  <2>3. pub'[y] \in Records /\ pub'[y].off = at /\ pub'[y].len = size /\ pub'[y].dup = FALSE
    BY <1>1, <1>2, <1>7, <2>2 DEF Records
  <2>4. pub'[y].len > 0
    BY <2>3
  <2>5. pub'[y] = [off |-> at, len |-> size, dup |-> FALSE]
    BY <2>3 DEF Records
  <2> QED  BY <1>3, <2>1, <2>3, <2>4, <2>5, Zenon
<1> QED  BY <1>3, <1>4, <1>5, <1>6, <1>7, Zenon DEF LineStage

LEMMA StoreFieldKeeps ==
    ASSUME ScanInv, IInv', StoreField
    PROVE  ScanInv'
<1>1. /\ off' = off /\ len' = len /\ dup' = dup /\ y' = y /\ cap' = cap /\ at' = at
      /\ guard' = guard /\ wpc' = wpc /\ size' = size /\ sample' = sample
      /\ rpc' = rpc /\ ry' = ry /\ r' = r /\ missing' = missing
      /\ moved' = (moved \/ (rpc # "idle" /\ ry = y))
      /\ wpc = "store"
  BY DEF StoreField, vars
<1>2. size \in 0 .. MaxLen /\ y \in Ys
  BY RingTypes DEF ScanInv, ScanTypes
<1>3. size = 0 \/ size > 0
  BY <1>2
<1>4. pub'[y] \in Records /\ (pub'[y].dup \/ pub'[y].len > 0)
  BY <1>3, DupStores1, LineStores1
<1>5. pub \in [Ys -> Records] /\ moved \in BOOLEAN
  BY DEF ScanInv, ScanTypes
<1>6. \A k \in Ys : k # y => pub'[k] = pub[k]
  BY <1>2, <1>5 DEF StoreField
<1>7. pub' \in [Ys -> Records]
  <2>1. \A k \in Ys : pub'[k] \in Records
    BY <1>4, <1>5, <1>6
  <2>2. pub' = [k \in Ys |-> pub'[k]]
    BY <1>5 DEF StoreField
  <2> QED  BY <2>1, <2>2
<1>8. ScanTypes'
  <2>1. moved' \in BOOLEAN
    BY <1>1, <1>5
  <2> QED  BY <1>1, <1>7, <2>1 DEF ScanInv, ScanTypes
<1>9. Reserved'
  BY <1>1 DEF ScanInv, Reserved
<1>10. Published'
  <2>1. \A k \in Ys : k # y \/ wpc' # "store" => pub'[k] = Booked(k)'
    BY <1>1, <1>6 DEF ScanInv, Published, Booked
  <2>2. size = 0 => DupStage(pub[y])'
    BY <1>1, DupStores1, Zenon DEF DupStage
  <2>3. size > 0 => LineStage(pub[y], at, size)'
    BY <1>1, LineStores1, Zenon DEF LineStage
  <2> QED  BY <1>1, <2>1, <2>2, <2>3 DEF Published
<1>11. Spans'
  BY <1>4, <1>6 DEF ScanInv, Spans
<1>12. Loaded'
  BY <1>1 DEF ScanInv, Loaded
<1> QED  BY <1>8, <1>9, <1>10, <1>11, <1>12 DEF ScanInv

(* With the record out, the ring's books say the same: what Commit and the *)
(* ways to a duplicate have in common.                                     *)
LEMMA ReleaseBooks ==
    ASSUME ScanInv, Release
    PROVE  /\ \A k \in Ys : k # y => off'[k] = off[k] /\ len'[k] = len[k] /\ dup'[k] = dup[k]
           /\ off'[y] = pub[y].off /\ len'[y] = pub[y].len /\ dup'[y] = pub[y].dup
           /\ cap' = 0
<1>1. /\ off \in [Ys -> 0 .. Size - 1] /\ len \in [Ys -> 0 .. MaxLen] /\ dup \in [Ys -> BOOLEAN]
      /\ y \in Ys
  BY RingTypes DEF ScanInv
<1>2. size \in 0 .. MaxLen /\ todo = <<>> /\ wpc = "store"
  BY DEF ScanInv, ScanTypes, Release
<1>3. CASE size > 0
  <2>1. /\ off' = [off EXCEPT ![y] = at] /\ len' = [len EXCEPT ![y] = size]
        /\ dup' = [dup EXCEPT ![y] = FALSE] /\ cap' = 0
    BY <1>2, <1>3 DEF Release, Commit
  <2>2. pub[y] = [off |-> at, len |-> size, dup |-> FALSE]
    <3>1. LineStage(pub[y], at, size)
      BY <1>2, <1>3 DEF ScanInv, Published
    <3>2. LineStores(at, size) # <<>>
      BY FirstOfThree, Zenon DEF LineStores
    <3>3. <<Store("len", size), Store("dup", FALSE)>> # <<>>
      BY Zenon
    <3>4. <<Store("dup", FALSE)>> # <<>>
      BY Zenon
    <3> QED  BY <1>2, <3>1, <3>2, <3>3, <3>4, Zenon DEF LineStage
  <2> QED  BY <1>1, <2>1, <2>2
<1>4. CASE size = 0
  <2>1. /\ off' = [off EXCEPT ![y] = 0] /\ len' = [len EXCEPT ![y] = 0]
        /\ dup' = [dup EXCEPT ![y] = TRUE] /\ cap' = 0
    BY <1>2, <1>4 DEF Release, Discard, EncodeFail, AllocFail, CommitDup
  <2>2. pub[y] = DupRecord
    <3>1. DupStage(pub[y])
      BY <1>2, <1>4 DEF ScanInv, Published
    <3>2. DupStores # <<>>
      BY FirstOfThree, Zenon DEF DupStores
    <3>3. <<Store("len", 0), Store("off", 0)>> # <<>>
      BY Zenon
    <3>4. <<Store("off", 0)>> # <<>>
      BY Zenon
    <3> QED  BY <1>2, <3>1, <3>2, <3>3, <3>4, Zenon DEF DupStage
  <2> QED  BY <1>1, <2>1, <2>2 DEF DupRecord
<1> QED  BY <1>2, <1>3, <1>4

LEMMA ReleaseKeeps ==
    ASSUME ScanInv, IInv', Release
    PROVE  ScanInv'
<1>1. /\ pub' = pub /\ guard' = guard /\ todo' = todo /\ sample' = sample
      /\ rpc' = rpc /\ ry' = ry /\ r' = r /\ missing' = missing /\ moved' = moved
      /\ wpc = "store" /\ wpc' = "idle" /\ todo = <<>> /\ size' = 0
  BY DEF Release, shared, reader
<1>2. /\ \A k \in Ys : k # y => off'[k] = off[k] /\ len'[k] = len[k] /\ dup'[k] = dup[k]
      /\ off'[y] = pub[y].off /\ len'[y] = pub[y].len /\ dup'[y] = pub[y].dup
      /\ cap' = 0
  BY ReleaseBooks
<1>3. y \in Ys /\ pub \in [Ys -> Records] /\ ry \in Ys
  BY RingTypes DEF ScanInv, ScanTypes
<1>4. ScanTypes'
  BY <1>1, MaxLenAssumption DEF ScanInv, ScanTypes
<1>5. Reserved'
  BY <1>1, <1>2 DEF Reserved
<1>6. Published'
  <2>1. ASSUME NEW k \in Ys PROVE pub'[k] = Booked(k)'
    <3>1. CASE k # y
      BY <1>1, <1>2, <3>1 DEF ScanInv, Published, Booked
    <3>2. CASE k = y
      <4>1. pub[y] \in Records
        BY <1>3
      <4> QED  BY <1>1, <1>2, <3>2, <4>1 DEF Records, Booked
    <3> QED  BY <3>1, <3>2
  <2> QED  BY <1>1, <2>1 DEF Published
<1>7. Spans'
  BY <1>1 DEF ScanInv, Spans
<1>8. Loaded'
  <2>1. rpc # "idle" /\ ~moved => ry # y
    BY <1>1 DEF ScanInv, Loaded
  <2> QED  BY <1>1, <1>2, <1>3, <2>1 DEF ScanInv, Loaded
<1> QED  BY <1>4, <1>5, <1>6, <1>7, <1>8 DEF ScanInv

-----------------------------------------------------------------------------
(***************************************************************************)
(* Core 1's steps: the ring and core 0's variables stay as they are.       *)
(***************************************************************************)
LEMMA ReaderLeaves ==
    ASSUME ScanInv, Reader
    PROVE  /\ off' = off /\ len' = len /\ dup' = dup /\ y' = y /\ cap' = cap /\ at' = at
           /\ wpc' = wpc /\ todo' = todo /\ size' = size /\ sample' = sample /\ pub' = pub
           /\ vars' = vars
           /\ Reserved' /\ Published' /\ Spans'
<1>1. /\ off' = off /\ len' = len /\ dup' = dup /\ y' = y /\ cap' = cap /\ at' = at
      /\ wpc' = wpc /\ todo' = todo /\ size' = size /\ sample' = sample /\ pub' = pub
      /\ vars' = vars
  BY DEF Reader, Want, LoadWord, GuardOff, GuardLen, ReadDone, vars, shared, writer
<1>2. Reserved'
  BY <1>1 DEF ScanInv, Reserved
<1>3. Published'
  BY <1>1 DEF ScanInv, Published, Booked, DupStage, LineStage
<1>4. Spans'
  BY <1>1 DEF ScanInv, Spans
<1> QED  BY <1>1, <1>2, <1>3, <1>4

LEMMA StartKeeps ==
    ASSUME ScanInv, NEW k \in Ys, StartLoad(k), Reader, r' \in Records, r'.dup \/ r'.len > 0,
           guard' \in [off : 0 .. Size - 1, len : 0 .. MaxLen]
    PROVE  ScanTypes' /\ Loaded'
<1>1. /\ wpc' = wpc /\ todo' = todo /\ size' = size /\ sample' = sample /\ pub' = pub /\ y' = y
  BY ReaderLeaves
<1>2. ry' = k /\ missing' = {"off", "len"} /\ rpc' = "load" /\ moved' = (wpc = "store" /\ y = k)
  BY DEF StartLoad
<1>3. moved' \in BOOLEAN /\ (~moved' => ~(wpc = "store" /\ y = k))
  BY <1>2
<1>4. ScanTypes'
  BY <1>1, <1>2, <1>3 DEF ScanInv, ScanTypes
<1>5. Loaded'
  BY <1>1, <1>2, <1>3 DEF Loaded
<1> QED  BY <1>4, <1>5

LEMMA WantKeeps ==
    ASSUME ScanInv, Want
    PROVE  ScanTypes' /\ Loaded'
<1>1. PICK k \in Ys : StartLoad(k)
  BY DEF Want
<1>2. r' = r /\ guard' = guard
  BY DEF Want, shared
<1>3. r' \in Records /\ (r'.dup \/ r'.len > 0) /\ guard' \in [off : 0 .. Size - 1, len : 0 .. MaxLen]
  BY <1>2 DEF ScanInv, ScanTypes, Loaded
<1> QED  BY <1>1, <1>3, StartKeeps DEF Reader

LEMMA LoadWordKeeps ==
    ASSUME ScanInv, LoadWord
    PROVE  ScanTypes' /\ Loaded'
<1>1. PICK word \in missing :
         /\ r' = IF word = "off" THEN [r EXCEPT !.off = pub[ry].off]
                 ELSE [r EXCEPT !.len = pub[ry].len, !.dup = pub[ry].dup]
         /\ missing' = missing \ {word}
         /\ rpc' = IF missing = {word} THEN "guard" ELSE "load"
  BY DEF LoadWord
<1>2. /\ off' = off /\ len' = len /\ dup' = dup /\ y' = y
      /\ wpc' = wpc /\ todo' = todo /\ size' = size /\ sample' = sample /\ pub' = pub
  BY ReaderLeaves DEF Reader
<1>3. guard' = guard /\ ry' = ry /\ moved' = moved /\ rpc = "load"
  BY DEF LoadWord, shared
<1>4. /\ pub[ry] \in Records /\ (pub[ry].dup \/ pub[ry].len > 0)
      /\ r \in Records /\ (r.dup \/ r.len > 0)
      /\ missing \subseteq {"off", "len"}
  BY DEF ScanInv, ScanTypes, Spans, Loaded
<1>5. ~moved => pub[ry].off = off[ry] /\ pub[ry].len = len[ry] /\ pub[ry].dup = dup[ry]
  <2>1. ASSUME ~moved PROVE pub[ry] = Booked(ry)
    <3>1. CASE ry # y \/ wpc # "store"
      BY <3>1 DEF ScanInv, ScanTypes, Published
    <3>2. CASE ry = y /\ wpc = "store"
      <4>1. Len(todo) = 3
        BY <1>3, <2>1, <3>2 DEF ScanInv, Loaded
      <4>2. size = 0 \/ size > 0
        BY DEF ScanInv, ScanTypes
      <4>3. todo # <<>> /\ todo # <<Store("off", 0)>> /\ todo # <<Store("dup", FALSE)>>
            /\ todo # <<Store("len", 0), Store("off", 0)>>
            /\ todo # <<Store("len", size), Store("dup", FALSE)>>
        <5>1. Len(<<Store("off", 0)>>) = 1 /\ Len(<<Store("dup", FALSE)>>) = 1
          BY FirstOfOne, Zenon
        <5>2. Len(<<Store("len", 0), Store("off", 0)>>) = 2
          BY FirstOfTwo, Zenon
        <5>3. Len(<<Store("len", size), Store("dup", FALSE)>>) = 2
          BY FirstOfTwo, Zenon
        <5>4. todo # <<>> /\ Len(todo) # 1 /\ Len(todo) # 2
          BY <4>1
        <5> QED  BY <5>1, <5>2, <5>3, <5>4, Zenon
      <4>4. size = 0 => DupStage(pub[y])
        BY <3>2 DEF ScanInv, Published
      <4>5. size > 0 => LineStage(pub[y], at, size)
        BY <3>2 DEF ScanInv, Published
      <4> QED  BY <3>2, <4>2, <4>3, <4>4, <4>5, Zenon DEF DupStage, LineStage
    <3> QED  BY <3>1, <3>2
  <2> QED  BY <2>1 DEF Booked
<1>6. CASE word = "off"
  <2>1. r' \in Records /\ r'.off = pub[ry].off /\ r'.len = r.len /\ r'.dup = r.dup
    BY <1>1, <1>4, <1>6 DEF Records
  <2>2. missing' = missing \ {"off"} /\ (rpc' = "guard" => missing' = {})
        /\ rpc' \in {"guard", "load"}
    BY <1>1, <1>6
  <2>3. ScanTypes'
    BY <1>2, <1>3, <2>1, <2>2 DEF ScanInv, ScanTypes
  <2> QED  BY <1>2, <1>3, <1>4, <1>5, <2>1, <2>2, <2>3 DEF ScanInv, Loaded
<1>7. CASE word = "len"
  <2>1. r' \in Records /\ r'.off = r.off /\ r'.len = pub[ry].len /\ r'.dup = pub[ry].dup
    BY <1>1, <1>4, <1>7 DEF Records
  <2>2. missing' = missing \ {"len"} /\ (rpc' = "guard" => missing' = {})
        /\ rpc' \in {"guard", "load"}
    BY <1>1, <1>7
  <2>3. ScanTypes'
    BY <1>2, <1>3, <2>1, <2>2 DEF ScanInv, ScanTypes
  <2> QED  BY <1>2, <1>3, <1>4, <1>5, <2>1, <2>2, <2>3 DEF ScanInv, Loaded
<1> QED  BY <1>4, <1>6, <1>7

LEMMA GuardKeeps ==
    ASSUME ScanInv, GuardOff \/ GuardLen
    PROVE  ScanTypes' /\ Loaded'
<1>1. /\ off' = off /\ len' = len /\ dup' = dup /\ y' = y
      /\ wpc' = wpc /\ todo' = todo /\ size' = size /\ sample' = sample /\ pub' = pub
  BY ReaderLeaves DEF Reader
<1>2. /\ ry' = ry /\ moved' = moved /\ r' = r /\ missing' = missing
      /\ rpc \in {"guard", "guarded"} /\ rpc' \in {"guarded", "read"}
  BY DEF GuardOff, GuardLen
<1>3. guard' \in [off : 0 .. Size - 1, len : 0 .. MaxLen]
  <2>1. r.off \in 0 .. Size - 1 /\ r.len \in 0 .. MaxLen /\ guard \in [off : 0 .. Size - 1, len : 0 .. MaxLen]
    BY DEF ScanInv, ScanTypes, Records
  <2> QED  BY <2>1 DEF GuardOff, GuardLen
<1>4. ScanTypes'
  BY <1>1, <1>2, <1>3 DEF ScanInv, ScanTypes
<1>5. Loaded'
  BY <1>1, <1>2 DEF ScanInv, Loaded
<1> QED  BY <1>4, <1>5

LEMMA ReadDoneKeeps ==
    ASSUME ScanInv, ReadDone
    PROVE  ScanTypes' /\ Loaded'
<1>1. r' = DupRecord /\ guard' = [guard EXCEPT !.len = 0]
  BY DEF ReadDone
<1>2. r' \in Records /\ r'.dup /\ guard' \in [off : 0 .. Size - 1, len : 0 .. MaxLen]
  BY <1>1, SizeAssumption, MaxLenAssumption DEF DupRecord, Records, ScanInv, ScanTypes
<1>3. CASE r.dup /\ ry > 0
  <2>1. ry - 1 \in Ys
    BY <1>3, LinesAssumption DEF ScanInv, ScanTypes, Ys
  <2>2. StartLoad(ry - 1)
    BY <1>3 DEF ReadDone
  <2> QED  BY <1>2, <2>1, <2>2, StartKeeps DEF Reader
<1>4. CASE ~(r.dup /\ ry > 0)
  <2>1. rpc' = "idle" /\ ry' = 0 /\ moved' = FALSE /\ missing' = missing
    BY <1>4 DEF ReadDone
  <2>2. /\ wpc' = wpc /\ todo' = todo /\ size' = size /\ sample' = sample /\ pub' = pub
    BY ReaderLeaves DEF Reader
  <2>3. 0 \in Ys
    BY LinesAssumption DEF Ys
  <2>4. ScanTypes'
    BY <1>2, <2>1, <2>2, <2>3 DEF ScanInv, ScanTypes
  <2>5. Loaded'
    BY <1>2, <2>1 DEF Loaded
  <2> QED  BY <2>4, <2>5
<1> QED  BY <1>3, <1>4

-----------------------------------------------------------------------------
LEMMA PoolStep ==
    ASSUME ScanInv, [ScanNext]_scanVars
    PROVE  [Next]_vars
<1>1. CASE Reserve
  BY <1>1 DEF Reserve, Next
<1>2. CASE Release
  <2>1. size \in 0 .. MaxLen
    BY DEF ScanInv, ScanTypes
  <2>2. CASE size > 0
    <3>1. Commit(size) /\ size \in 1 .. MaxLen
      BY <1>2, <2>1, <2>2 DEF Release
    <3> QED  BY <3>1 DEF Next
  <2>3. CASE size = 0
    BY <1>2, <2>3 DEF Release, Next
  <2> QED  BY <2>1, <2>2, <2>3
<1>3. CASE SampleLen \/ SampleOff \/ Filled \/ GiveUp \/ StoreField
  BY <1>3 DEF SampleLen, SampleOff, Filled, GiveUp, StoreField
<1>4. CASE Reader
  BY <1>4, ReaderLeaves
<1>5. CASE UNCHANGED scanVars
  BY <1>5 DEF scanVars
<1> QED  BY <1>1, <1>2, <1>3, <1>4, <1>5 DEF ScanNext, Writer

LEMMA NextScanInv == ScanInv /\ [ScanNext]_scanVars => ScanInv'
<1> SUFFICES ASSUME ScanInv, [ScanNext]_scanVars PROVE ScanInv'
  OBVIOUS
<1>1. IInv'
  BY PoolStep, NextIInv DEF ScanInv
<1>2. CASE Writer
  BY <1>1, <1>2, ReserveKeeps, SampleKeeps, BeginStores, StoreFieldKeeps, ReleaseKeeps DEF Writer
<1>3. CASE Reader
  <2>1. ScanTypes' /\ Loaded'
    BY <1>3, WantKeeps, LoadWordKeeps, GuardKeeps, ReadDoneKeeps DEF Reader
  <2>2. Reserved' /\ Published' /\ Spans'
    BY <1>3, ReaderLeaves
  <2> QED  BY <1>1, <2>1, <2>2 DEF ScanInv
<1>4. CASE UNCHANGED scanVars
  <2>1. /\ off' = off /\ len' = len /\ dup' = dup /\ y' = y /\ cap' = cap /\ at' = at
        /\ wpc' = wpc /\ todo' = todo /\ size' = size /\ sample' = sample /\ pub' = pub
        /\ guard' = guard /\ rpc' = rpc /\ ry' = ry /\ r' = r /\ missing' = missing /\ moved' = moved
    BY <1>4 DEF scanVars, vars, shared, writer, reader
  <2>2. ScanTypes' /\ Reserved' /\ Spans' /\ Loaded'
    BY <2>1 DEF ScanInv, ScanTypes, Reserved, Spans, Loaded
  <2>3. Published'
    BY <2>1 DEF ScanInv, Published, Booked, DupStage, LineStage
  <2> QED  BY <1>1, <2>2, <2>3 DEF ScanInv
<1> QED  BY <1>2, <1>3, <1>4 DEF ScanNext

-----------------------------------------------------------------------------
(***************************************************************************)
(* The theorems.                                                           *)
(***************************************************************************)

(* What the two cores keep between any two of their loads and stores: the  *)
(* ring's books, the record half stored, and the record half loaded.       *)
THEOREM ScanShape == ScanSpec => []ScanInv
<1>1. ScanInit => ScanInv
  BY InitScanInv
<1>2. ScanInv /\ [ScanNext]_scanVars => ScanInv'
  BY NextScanInv
<1> QED  BY <1>1, <1>2, PTL DEF ScanSpec

(* With a second core reading and every store on its own, core 0 is still  *)
(* the ring allocator (linepool_alloc, linepool_commit): each step of the  *)
(* two is a step of LinePool or leaves its variables alone, so all that is *)
(* proved of the ring holds here.                                          *)
THEOREM ScanIsPool == ScanSpec => Spec
<1>1. ScanInit => Init
  BY DEF ScanInit
<1>2. ScanInv /\ [ScanNext]_scanVars => [Next]_vars
  BY PoolStep
<1> QED  BY <1>1, <1>2, ScanShape, PTL DEF ScanSpec, Spec

(* No two lines share a byte while core 1 looks on.                        *)
THEOREM ScanDisjoint == ScanSpec => []LinesDisjoint
BY ScanIsPool, NoOverlap, PTL

(* Every free on core 0 stays an in-order free.                            *)
THEOREM ScanFreesInOrder == ScanSpec => []OldLineAtTail
BY ScanIsPool, FreesInOrder, PTL

(* No space leaks with the guard of core 1 delaying the releases either.   *)
THEOREM ScanRefusesOnlyWhenFull == ScanSpec => RefusedOnlyWhenFull
BY ScanIsPool, RefusesOnlyWhenFull

(* However the loads of build_line fall between the stores of              *)
(* linepool_commit, a record taken for pixels has some.                    *)
THEOREM TornIsWhole == ScanSpec => []SpansOrDup
<1>1. ScanInv => SpansOrDup
  BY DEF ScanInv, Loaded, SpansOrDup, Reading
<1> QED  BY <1>1, ScanShape, PTL

(* A line core 0 has not touched since core 1 began to load it is read as  *)
(* it was committed, and no allocation is filled over it.                  *)
THEOREM ReadsClean == ScanSpec => []CleanRead
<1>1. ASSUME ScanInv, LinesDisjoint PROVE CleanRead
  <2> SUFFICES ASSUME Reading, ~moved
               PROVE  /\ r.off = off[ry] /\ r.len = len[ry]
                      /\ wpc = "fill" => Apart(at, cap, r.off, r.len)
    BY DEF CleanRead
  <2>1. r.off = off[ry] /\ r.len = len[ry] /\ r.len > 0 /\ ry \in Ys
    BY <1>1 DEF ScanInv, ScanTypes, Loaded, Reading
  <2>2. ASSUME wpc = "fill" PROVE Apart(at, cap, r.off, r.len)
    <3>1. cap > 0 /\ ry \in HasBytes(len)
      BY <1>1, <2>1, <2>2 DEF ScanInv, Reserved, HasBytes
    <3>2. Apart(off[ry], len[ry], at, cap)
      BY <1>1, <3>1 DEF LinesDisjoint
    <3> QED  BY <2>1, <3>2 DEF Apart
  <2> QED  BY <2>1, <2>2
<1>2. ScanInv => LinesDisjoint
  BY ShapeDisjoint DEF ScanInv
<1> QED  BY <1>1, <1>2, ScanShape, PTL

-----------------------------------------------------------------------------
(***************************************************************************)
(* The line slots under the beam.                                          *)
(***************************************************************************)
\* The interrupt posts the scanline after the one that the hardware will turn to by itself, ...
InStep == g_next = IF raised THEN Succ(beam) ELSE Succ(Succ(beam))

\* ... into the channel that has ended or, while none has, the one that will end next.
RightChannel == g_pong = IF raised THEN 1 - playing ELSE playing

\* The bookkeeping of the interrupt and the read addresses name the same slots.
BookedAsFed == \A c \in Channels : g_posted[c] = feed[c].slot

\* A READY slot is whole, and its pixels are those of the line it is marked with.
ReadyIsWhole == \A s \in SlotIds : g_state[s] = "READY" => words[s] = g_y[s]

\* The loop builds one line, in one slot.
Building ==
    /\ pc \in {"pick", "build"} => want \in 0 .. VActive - 1
    /\ pc = "build" => slot \in SlotIds

SInv ==
    /\ SlotsTypeOK /\ BeamShowsItsLine /\ SlotsHeld
    /\ InStep /\ RightChannel /\ BookedAsFed /\ ReadyIsWhole /\ Building

USE SlotsAssumption, TimingAssumption

LEMMA Sizes ==
    /\ VBlank \in Nat /\ VTotal \in Nat /\ VTotal = VBlank + VActive /\ VActive > 0
    /\ VFront >= 2 /\ VFront + VSync <= VBlank /\ VTotal >= 4
BY DEF VBlank, VTotal

LEMMA SuccType == ASSUME NEW v \in Scanlines PROVE Succ(v) \in Scanlines
BY Sizes DEF Scanlines, Succ

LEMMA Initially == SlotsInit => SInv
<1> SUFFICES ASSUME SlotsInit PROVE SInv
    OBVIOUS
<1>1. SlotsTypeOK
  <2>1. Fixed("blank") \in Feeds
    BY DEF Feeds
  <2>2. feed \in [Channels -> Feeds]
    BY <2>1 DEF SlotsInit
  <2>3. 0 \in Scanlines /\ 2 \in Scanlines /\ 0 \in 0 .. VActive - 1 /\ 0 \in 0 .. Slack
    BY Sizes DEF Scanlines
  <2> QED
    BY <2>2, <2>3 DEF SlotsInit, SlotsTypeOK, Channels
<1>2. Succ(0) = 1 /\ Succ(1) = 2
    BY Sizes DEF Succ
<1>3. \A c \in Channels : feed[c] = Fixed("blank")
    BY DEF SlotsInit
<1>4. Suits(0, 0) /\ Suits(1, 1)
    BY <1>3, Sizes DEF Suits, Fixed, Channels
<1>5. BeamShowsItsLine
    BY <1>2, <1>4 DEF BeamShowsItsLine, SlotsInit
<1>6. SlotsHeld
    BY <1>3 DEF SlotsHeld, SlotsInit, Fixed, Line, Channels
<1>7. InStep /\ RightChannel
    BY <1>2 DEF InStep, RightChannel, SlotsInit
<1>8. BookedAsFed /\ ReadyIsWhole /\ Building
    BY <1>3 DEF BookedAsFed, ReadyIsWhole, Building, SlotsInit, Fixed, Nothing, Channels, SlotIds
<1> QED
    BY <1>1, <1>5, <1>6, <1>7, <1>8 DEF SInv

LEMMA LineEndsKeeps == SInv /\ LineEnds => SInv'
<1> SUFFICES ASSUME SInv, LineEnds PROVE SInv'
    OBVIOUS
<1> USE DEF SInv
<1>0. UNCHANGED <<g_state, g_y, words, g_next, g_pong, g_posted, feed, pc, seen, want, slot>>
    BY DEF LineEnds, slots, dma, loop
<1>1. beam \in Scanlines /\ beam' = Succ(beam) /\ beam' \in Scanlines /\ playing \in {0, 1}
    BY SuccType DEF LineEnds, SlotsTypeOK, Channels
<1>2. SlotsTypeOK'
    BY <1>0, <1>1, Sizes DEF LineEnds, SlotsTypeOK, Channels
<1>3. playing' = 1 - playing /\ raised' = TRUE /\ ~raised
    BY DEF LineEnds
<1>4. BeamShowsItsLine'
    BY <1>0, <1>1, <1>3 DEF BeamShowsItsLine, Suits
<1>5. SlotsHeld' /\ BookedAsFed' /\ ReadyIsWhole' /\ Building'
    BY <1>0 DEF SlotsHeld, BookedAsFed, ReadyIsWhole, Building
<1>6. InStep' /\ RightChannel'
    BY <1>0, <1>1, <1>3 DEF InStep, RightChannel
<1> QED
    BY <1>2, <1>4, <1>5, <1>6

-----------------------------------------------------------------------------
(* The interrupt. *)

\* Freeing the line that ended leaves exactly the other channel's slot posted.
LEMMA FreedStates ==
    ASSUME SInv, NEW c \in Channels
    PROVE  /\ Freed(c) \in [SlotIds -> {"FREE", "READY", "POSTED"}]
           /\ \A s \in SlotIds : Freed(c)[s] = "POSTED" <=> feed[1 - c] = Line(s)
           /\ \A s \in SlotIds : Freed(c)[s] = "READY" <=> g_state[s] = "READY"
           /\ \A s \in SlotIds : g_state[s] = "FREE" => Freed(c)[s] = "FREE"
<1>1. /\ g_posted[c] \in {Nothing} \cup SlotIds
      /\ g_state \in [SlotIds -> {"FREE", "READY", "POSTED"}]
      /\ feed[c] \in Feeds /\ feed[1 - c] \in Feeds
      /\ c \in {0, 1} /\ 1 - c \in Channels
    BY DEF SInv, SlotsTypeOK, Channels
<1>2. \A s \in SlotIds : g_state[s] = "POSTED" <=> feed[c] = Line(s) \/ feed[1 - c] = Line(s)
    BY <1>1 DEF SInv, SlotsHeld, Channels
<1>3. feed[c] # feed[1 - c] \/ feed[c].kind # "line"
    BY <1>1 DEF SInv, SlotsHeld, Channels
<1>4. \A s \in SlotIds : feed[c] = Line(s) <=> g_posted[c] = s
  <2>1. g_posted[c] = feed[c].slot
    BY DEF SInv, BookedAsFed
  <2>2. CASE \E kind \in {"vsync", "blank", "black"} : feed[c] = Fixed(kind)
    BY <2>1, <2>2 DEF Fixed, Line, Nothing, SlotIds
  <2>3. CASE \E t \in SlotIds : feed[c] = Line(t)
    BY <2>1, <2>3 DEF Line
  <2> QED
    BY <1>1, <2>2, <2>3 DEF Feeds
<1>5. \A s \in SlotIds : Freed(c)[s] = IF g_posted[c] = s THEN "FREE" ELSE g_state[s]
    BY <1>1 DEF Freed, Nothing, SlotIds
<1>6. Freed(c) \in [SlotIds -> {"FREE", "READY", "POSTED"}]
    BY <1>1 DEF Freed
<1>7. ASSUME NEW s \in SlotIds
      PROVE  /\ Freed(c)[s] = "POSTED" <=> feed[1 - c] = Line(s)
             /\ Freed(c)[s] = "READY" <=> g_state[s] = "READY"
             /\ g_state[s] = "FREE" => Freed(c)[s] = "FREE"
  <2>1. CASE g_posted[c] = s
    <3>1. feed[c] = Line(s) /\ g_state[s] = "POSTED" /\ Freed(c)[s] = "FREE"
        BY <2>1, <1>2, <1>4, <1>5
    <3>2. feed[1 - c] # Line(s)
        BY <3>1, <1>3 DEF Line
    <3> QED
        BY <3>1, <3>2
  <2>2. CASE g_posted[c] # s
    BY <2>2, <1>2, <1>4, <1>5
  <2> QED
    BY <2>1, <2>2
<1> QED
    BY <1>6, <1>7

LEMMA IrqKeeps == SInv /\ Irq => SInv'
<1> SUFFICES ASSUME SInv, Irq PROVE SInv'
    OBVIOUS
<1> DEFINE c == g_pong
           other == 1 - g_pong
           \* What the channel is given: a fixed line or a READY slot.
           Given(f) ==
               /\ feed' = [feed EXCEPT ![c] = f] /\ g_posted' = [g_posted EXCEPT ![c] = f.slot]
               /\ \/ f.kind # "line" /\ g_state' = Freed(c)
                  \/ /\ f = Line(f.slot) /\ f.slot \in SlotIds /\ Freed(c)[f.slot] = "READY"
                     /\ g_state' = [Freed(c) EXCEPT ![f.slot] = "POSTED"]
               /\ CASE f.kind = "vsync" -> g_next \in VFront .. VFront + VSync - 1
                    [] f.kind = "blank" -> g_next < VBlank /\ g_next \notin VFront .. VFront + VSync - 1
                    [] f.kind = "black" -> g_next >= VBlank
                    [] OTHER -> g_next >= VBlank /\ g_y[f.slot] = g_next - VBlank
<1>0. UNCHANGED <<g_y, words, pc, seen, want, slot, playing, beam, lag, spent>>
    BY DEF Irq, loop, pace
<1>1. /\ raised /\ raised' = FALSE /\ g_pong' = other /\ g_next' = Succ(g_next)
      /\ c \in {0, 1} /\ other \in {0, 1} /\ c # other /\ playing = other /\ 1 - playing = c
    BY DEF Irq, SInv, RightChannel, SlotsTypeOK, Channels
<1>2. g_next = Succ(beam) /\ beam \in Scanlines /\ g_next \in Scanlines /\ Succ(g_next) \in Scanlines
    BY <1>1, SuccType DEF SInv, InStep, SlotsTypeOK
<1>3. /\ Freed(c) \in [SlotIds -> {"FREE", "READY", "POSTED"}]
      /\ \A s \in SlotIds : Freed(c)[s] = "POSTED" <=> feed[other] = Line(s)
      /\ \A s \in SlotIds : Freed(c)[s] = "READY" <=> g_state[s] = "READY"
      /\ \A s \in SlotIds : g_state[s] = "FREE" => Freed(c)[s] = "FREE"
    BY <1>1, FreedStates DEF Channels
<1>4. \E f \in Feeds : Given(f)
  <2>1. CASE g_next < VBlank /\ g_next \in VFront .. VFront + VSync - 1
            /\ feed' = [feed EXCEPT ![c] = Fixed("vsync")]
            /\ g_posted' = [g_posted EXCEPT ![c] = Nothing] /\ g_state' = Freed(c)
    <3>1. Fixed("vsync") \in Feeds /\ Fixed("vsync").kind = "vsync" /\ Fixed("vsync").slot = Nothing
        BY DEF Feeds, Fixed
    <3> HIDE DEF c, other
    <3> QED
        BY <2>1, <3>1
  <2>2. CASE g_next < VBlank /\ g_next \notin VFront .. VFront + VSync - 1
            /\ feed' = [feed EXCEPT ![c] = Fixed("blank")]
            /\ g_posted' = [g_posted EXCEPT ![c] = Nothing] /\ g_state' = Freed(c)
    <3>1. Fixed("blank") \in Feeds /\ Fixed("blank").kind = "blank" /\ Fixed("blank").slot = Nothing
        BY DEF Feeds, Fixed
    <3> HIDE DEF c, other
    <3> QED
        BY <2>2, <3>1
  <2>3. CASE g_next >= VBlank /\ feed' = [feed EXCEPT ![c] = Fixed("black")]
            /\ g_posted' = [g_posted EXCEPT ![c] = Nothing] /\ g_state' = Freed(c)
    <3>1. Fixed("black") \in Feeds /\ Fixed("black").kind = "black" /\ Fixed("black").slot = Nothing
        BY DEF Feeds, Fixed
    <3> HIDE DEF c, other
    <3> QED
        BY <2>3, <3>1
  <2>4. ASSUME NEW s \in SlotIds, IsDue(Freed(c), s, g_next), g_next >= VBlank,
               feed' = [feed EXCEPT ![c] = Line(s)], g_posted' = [g_posted EXCEPT ![c] = s],
               g_state' = [Freed(c) EXCEPT ![s] = "POSTED"]
        PROVE \E f \in Feeds : Given(f)
    <3>1. Line(s) \in Feeds /\ Line(s).kind = "line" /\ Line(s).slot = s
        BY DEF Feeds, Line
    <3>2. Freed(c)[s] = "READY" /\ g_y[s] = g_next - VBlank
        BY <2>4 DEF IsDue
    <3> HIDE DEF c, other
    <3> QED
        BY <2>4, <3>1, <3>2
  <2> QED
    BY <2>1, <2>2, <2>3, <2>4 DEF Irq, Post
<1>5. PICK f \in Feeds : Given(f)
    BY <1>4
<1> HIDE DEF c, other
<1>6. /\ feed \in [Channels -> Feeds] /\ g_posted \in [Channels -> {Nothing} \cup SlotIds]
      /\ c \in Channels /\ other \in Channels /\ Channels = {c, other}
    BY <1>1 DEF SInv, SlotsTypeOK, Channels
<1>7. feed'[c] = f /\ feed'[other] = feed[other] /\ g_posted'[c] = f.slot /\ g_posted'[other] = g_posted[other]
    BY <1>1, <1>5, <1>6
<1>8. f.slot \in {Nothing} \cup SlotIds
    BY DEF Feeds, Fixed, Line
<1>9. SlotsTypeOK'
  <2>1. g_state' \in [SlotIds -> {"FREE", "READY", "POSTED"}]
    BY <1>3, <1>5
  <2>2. feed' \in [Channels -> Feeds]
    BY <1>5, <1>6
  <2>4. g_posted' \in [Channels -> {Nothing} \cup SlotIds]
    BY <1>5, <1>6, <1>8
  <2>3. g_next' \in Scanlines /\ g_pong' \in Channels /\ raised' \in BOOLEAN
    BY <1>1, <1>2 DEF Channels
  <2>5. SlotsTypeOK
    BY DEF SInv
  <2> QED
    BY <1>0, <2>1, <2>2, <2>3, <2>4, <2>5, SMTT(30) DEF SlotsTypeOK
<1>10. BeamShowsItsLine'
  <2>1. Suits(playing, beam)
    BY DEF SInv, BeamShowsItsLine
  <2>2. Suits(playing, beam)'
    BY <2>1, <1>0, <1>1, <1>7 DEF Suits
  <2>3. f.kind = "line" => words[f.slot] = g_y[f.slot]
    BY <1>3, <1>5 DEF SInv, ReadyIsWhole, Line
  <2>4. f.kind \in {"vsync", "blank", "black", "line"}
    BY DEF Feeds, Fixed, Line
  <2>5. Suits(1 - playing, Succ(beam))'
    BY <2>3, <2>4, <1>0, <1>1, <1>2, <1>5, <1>7 DEF Suits
  <2> QED
    BY <2>2, <2>5 DEF BeamShowsItsLine
<1>11. SlotsHeld'
  <2>1. f.kind # "line" => \A s \in SlotIds : f # Line(s)
    BY DEF Line
  <2>2. ASSUME NEW s \in SlotIds
        PROVE  g_state'[s] = "POSTED" <=> f = Line(s) \/ feed[other] = Line(s)
    <3>1. CASE f.kind # "line"
        BY <3>1, <2>1, <1>3, <1>5
    <3>2. CASE f.kind = "line"
      <4>1. f = Line(f.slot) /\ g_state'[s] = IF s = f.slot THEN "POSTED" ELSE Freed(c)[s]
        BY <3>2, <1>3, <1>5
      <4>2. f = Line(s) <=> s = f.slot
        BY <4>1 DEF Line
      <4> QED
        BY <4>1, <4>2, <1>3
    <3> QED
        BY <3>1, <3>2
  <2>3. \A s \in SlotIds : g_state'[s] = "POSTED" <=> \E d \in Channels : feed'[d] = Line(s)
    BY <2>2, <1>6, <1>7
  <2>4. f # feed[other] \/ f.kind # "line"
    BY <1>3, <1>5 DEF Line
  <2>5. feed'[0] # feed'[1] \/ feed'[0].kind # "line"
    BY <2>4, <1>1, <1>7
  <2>6. pc' = "build" => g_state'[slot'] = "FREE"
    <3>1. pc = "build" => slot \in SlotIds /\ Freed(c)[slot] = "FREE"
        BY <1>3 DEF SInv, SlotsHeld, Building
    <3> QED
        BY <3>1, <1>0, <1>3, <1>5
  <2> QED
    BY <2>3, <2>5, <2>6 DEF SlotsHeld
<1>12. InStep' /\ RightChannel'
    BY <1>0, <1>1, <1>2 DEF InStep, RightChannel
<1>13. BookedAsFed'
    BY <1>6, <1>7 DEF SInv, BookedAsFed
<1>14. ReadyIsWhole'
  <2>1. \A s \in SlotIds : g_state'[s] = "READY" => g_state[s] = "READY"
    BY <1>3, <1>5
  <2> QED
    BY <2>1, <1>0 DEF SInv, ReadyIsWhole
<1>15. Building'
    BY <1>0 DEF SInv, Building
<1> QED
    BY <1>9, <1>10, <1>11, <1>12, <1>13, <1>14, <1>15 DEF SInv

-----------------------------------------------------------------------------
(* The loop of core 1.  It leaves the channels and the wire alone. *)

LEMMA SameChannels ==
    ASSUME SInv, UNCHANGED dma, UNCHANGED wire,
           \A s \in SlotIds : g_state[s] = "POSTED" => words'[s] = words[s]
    PROVE  BeamShowsItsLine' /\ InStep' /\ RightChannel' /\ BookedAsFed'
<1>0. UNCHANGED <<g_next, g_pong, g_posted, feed, playing, raised, beam>>
    BY DEF dma, wire
<1>1. ASSUME NEW c \in Channels, feed[c].kind \notin {"vsync", "blank", "black"}
      PROVE  words'[feed[c].slot] = words[feed[c].slot]
  <2>1. PICK s \in SlotIds : feed[c] = Line(s)
    BY <1>1 DEF SInv, SlotsTypeOK, Feeds, Fixed
  <2>2. g_state[s] = "POSTED" /\ feed[c].slot = s
    BY <2>1 DEF SInv, SlotsHeld, Line
  <2> QED
    BY <2>2
<1>2. ASSUME NEW c \in Channels, NEW v, Suits(c, v) PROVE Suits(c, v)'
    BY <1>0, <1>1, <1>2 DEF Suits
<1>3. playing \in Channels /\ 1 - playing \in Channels
    BY DEF SInv, SlotsTypeOK, Channels
<1>4. BeamShowsItsLine'
  <2>1. Suits(playing, beam) /\ (~raised => Suits(1 - playing, Succ(beam)))
    BY DEF SInv, BeamShowsItsLine
  <2>2. Suits(playing, beam)'
    BY <2>1, <1>0, <1>1, <1>3 DEF Suits
  <2>3. ~raised => Suits(1 - playing, Succ(beam))'
    BY <2>1, <1>0, <1>1, <1>3 DEF Suits, Succ
  <2> QED
    BY <2>2, <2>3, <1>0 DEF BeamShowsItsLine
<1> QED
    BY <1>0, <1>4 DEF SInv, InStep, RightChannel, BookedAsFed

LEMMA QuietKeeps ==
    SInv /\ (ReadNext \/ AllBuilt \/ NoSlot) => SInv'
<1> SUFFICES ASSUME SInv, ReadNext \/ AllBuilt \/ NoSlot PROVE SInv'
    OBVIOUS
<1>1. UNCHANGED dma /\ UNCHANGED wire /\ UNCHANGED <<g_state, g_y, words, spent>>
    BY DEF ReadNext, AllBuilt, NoSlot, RoundOver, slots, pace
<1>2. /\ pc' \in {"top", "sweep"} /\ seen' \in Scanlines /\ slot' = slot
      /\ want' \in {want, Nothing} /\ lag' \in {lag, 0}
    BY Sizes DEF ReadNext, AllBuilt, NoSlot, RoundOver, SInv, SlotsTypeOK, Scanlines, pace
<1>3. SlotsTypeOK'
    BY <1>1, <1>2 DEF SInv, SlotsTypeOK, dma, wire
<1>4. SlotsHeld' /\ ReadyIsWhole' /\ Building'
    BY <1>1, <1>2 DEF SInv, SlotsHeld, ReadyIsWhole, Building, dma
<1>5. BeamShowsItsLine' /\ InStep' /\ RightChannel' /\ BookedAsFed'
    BY <1>1, SameChannels
<1> QED
    BY <1>3, <1>4, <1>5 DEF SInv

LEMMA SweepKeeps == SInv /\ Sweep => SInv'
<1> SUFFICES ASSUME SInv, Sweep PROVE SInv'
    OBVIOUS
<1>1. /\ UNCHANGED dma /\ UNCHANGED wire /\ UNCHANGED <<g_y, words, seen, want, slot, lag, spent>>
      /\ pc' = "scan"
    BY DEF Sweep, pace
<1>2. /\ g_state' \in [SlotIds -> {"FREE", "READY", "POSTED"}]
      /\ \A s \in SlotIds : g_state'[s] = "POSTED" <=> g_state[s] = "POSTED"
      /\ \A s \in SlotIds : g_state'[s] = "READY" => g_state[s] = "READY"
    BY DEF Sweep, SInv, SlotsTypeOK
<1>3. SlotsTypeOK'
    BY <1>1, <1>2 DEF SInv, SlotsTypeOK, dma, wire
<1>4. SlotsHeld' /\ ReadyIsWhole' /\ Building'
    BY <1>1, <1>2 DEF SInv, SlotsHeld, ReadyIsWhole, Building, dma
<1>5. BeamShowsItsLine' /\ InStep' /\ RightChannel' /\ BookedAsFed'
    BY <1>1, SameChannels
<1> QED
    BY <1>3, <1>4, <1>5 DEF SInv

\* The sum of a scanline and a distance, modulo the length of the frame, is a scanline.
LEMMA AheadType == ASSUME SInv, NEW a \in Missing PROVE Ahead(a) - VBlank \in 0 .. VActive - 1
<1>1. seen \in Nat /\ a \in Nat /\ Ahead(a) >= VBlank
    BY Sizes DEF SInv, SlotsTypeOK, Scanlines, Missing
<1>2. ASSUME NEW n \in Nat, NEW m \in Nat \ {0} PROVE n % m \in 0 .. m - 1
    BY <1>2
<1>3. Ahead(a) \in 0 .. VTotal - 1
  <2>1. seen + a \in Nat /\ VTotal \in Nat \ {0}
    BY <1>1, Sizes
  <2> QED
    BY <2>1, <1>2 DEF Ahead
<1> QED
    BY <1>1, <1>3, Sizes

LEMMA ScanKeeps == SInv /\ Scan => SInv'
<1> SUFFICES ASSUME SInv, Scan PROVE SInv'
    OBVIOUS
<1>1. /\ UNCHANGED dma /\ UNCHANGED wire
      /\ UNCHANGED <<g_state, g_y, words, seen, slot, lag, spent>> /\ pc' = "pick"
    BY DEF Scan, slots, pace
<1>2. want' \in 0 .. VActive - 1
    BY AheadType DEF Scan
<1>3. SlotsTypeOK'
    BY <1>1, <1>2 DEF SInv, SlotsTypeOK, dma, wire
<1>4. SlotsHeld' /\ ReadyIsWhole' /\ Building'
    BY <1>1, <1>2 DEF SInv, SlotsHeld, ReadyIsWhole, Building, dma
<1>5. BeamShowsItsLine' /\ InStep' /\ RightChannel' /\ BookedAsFed'
    BY <1>1, SameChannels
<1> QED
    BY <1>3, <1>4, <1>5 DEF SInv

LEMMA PickKeeps == SInv /\ Pick => SInv'
<1> SUFFICES ASSUME SInv, Pick PROVE SInv'
    OBVIOUS
<1>1. /\ UNCHANGED dma /\ UNCHANGED wire
      /\ UNCHANGED <<g_state, g_y, seen, want, lag, spent>> /\ pc = "pick" /\ pc' = "build"
    BY DEF Pick, pace
<1>2. /\ slot' \in SlotIds /\ g_state[slot'] = "FREE"
      /\ words' = [words EXCEPT ![slot'] = Nothing]
    BY DEF Pick, Free
<1>3. words' \in [SlotIds -> {Nothing} \cup 0 .. VActive - 1]
    BY <1>2 DEF SInv, SlotsTypeOK
<1>4. SlotsTypeOK'
    BY <1>1, <1>2, <1>3 DEF SInv, SlotsTypeOK, dma, wire
<1>5. \A s \in SlotIds : g_state[s] # "FREE" => words'[s] = words[s]
    BY <1>2 DEF SInv, SlotsTypeOK
<1>6. SlotsHeld' /\ Building'
    BY <1>1, <1>2 DEF SInv, SlotsHeld, Building, dma
<1>7. ReadyIsWhole'
    BY <1>1, <1>5 DEF SInv, ReadyIsWhole
<1>8. BeamShowsItsLine' /\ InStep' /\ RightChannel' /\ BookedAsFed'
    BY <1>1, <1>5, SameChannels
<1> QED
    BY <1>4, <1>6, <1>7, <1>8 DEF SInv

LEMMA BuiltKeeps == SInv /\ Built => SInv'
<1> SUFFICES ASSUME SInv, Built PROVE SInv'
    OBVIOUS
<1>1. /\ UNCHANGED dma /\ UNCHANGED wire /\ spent' = spent /\ pc = "build" /\ pc' = "top"
      /\ want' = Nothing /\ slot' = Nothing /\ lag' = 0 /\ seen' = 0
    BY DEF Built, RoundOver
<1>2. slot \in SlotIds /\ want \in 0 .. VActive - 1 /\ g_state[slot] = "FREE"
    BY <1>1 DEF SInv, Building, SlotsHeld
<1>3. /\ g_state' = [g_state EXCEPT ![slot] = "READY"] /\ g_y' = [g_y EXCEPT ![slot] = want]
      /\ words' = [words EXCEPT ![slot] = want]
    BY DEF Built
<1>4. SlotsTypeOK'
  <2>1. /\ g_state' \in [SlotIds -> {"FREE", "READY", "POSTED"}] /\ g_y' \in [SlotIds -> 0 .. VActive - 1]
        /\ words' \in [SlotIds -> {Nothing} \cup 0 .. VActive - 1]
    BY <1>2, <1>3 DEF SInv, SlotsTypeOK
  <2>2. 0 \in Scanlines
    BY Sizes DEF Scanlines
  <2> QED
    BY <1>1, <2>1, <2>2 DEF SInv, SlotsTypeOK, dma, wire
<1>5. \A s \in SlotIds : s # slot => g_state'[s] = g_state[s] /\ g_y'[s] = g_y[s] /\ words'[s] = words[s]
    BY <1>3 DEF SInv, SlotsTypeOK
<1>6. g_state'[slot] = "READY" /\ g_y'[slot] = want /\ words'[slot] = want
    BY <1>2, <1>3 DEF SInv, SlotsTypeOK
<1>7. SlotsHeld' /\ Building'
    BY <1>1, <1>2, <1>5, <1>6 DEF SInv, SlotsHeld, Building, dma
<1>8. ReadyIsWhole'
    BY <1>5, <1>6 DEF SInv, ReadyIsWhole
<1>9. BeamShowsItsLine' /\ InStep' /\ RightChannel' /\ BookedAsFed'
    BY <1>1, <1>2, <1>5, SameChannels
<1> QED
    BY <1>4, <1>7, <1>8, <1>9 DEF SInv

-----------------------------------------------------------------------------
(***************************************************************************)
(* The invariant: interrupt, channels and beam stay in step, and the slots *)
(* of the two cores' parts never overlap.                                  *)
(***************************************************************************)
THEOREM InStepAlways == SlotsSpec => []SInv
<1>1. SlotsInit => SInv
    BY Initially
<1>2. SInv /\ [SlotsNext]_slotsVars => SInv'
  <2> SUFFICES ASSUME SInv, [SlotsNext]_slotsVars PROVE SInv'
    OBVIOUS
  <2>1. CASE LineEnds
    BY <2>1, LineEndsKeeps
  <2>2. CASE Irq
    BY <2>2, IrqKeeps
  <2>3. CASE ReadNext \/ AllBuilt \/ NoSlot
    BY <2>3, QuietKeeps
  <2>4. CASE Sweep
    BY <2>4, SweepKeeps
  <2>5. CASE Scan
    BY <2>5, ScanKeeps
  <2>6. CASE Pick
    BY <2>6, PickKeeps
  <2>7. CASE Built
    BY <2>7, BuiltKeeps
  <2>8. CASE UNCHANGED slotsVars
    BY <2>8 DEF SInv, slotsVars, slots, dma, loop, wire, pace, SlotsTypeOK, BeamShowsItsLine, Suits, SlotsHeld,
                InStep, RightChannel, BookedAsFed, ReadyIsWhole, Building
  <2> QED
    BY <2>1, <2>2, <2>3, <2>4, <2>5, <2>6, <2>7, <2>8 DEF SlotsNext, Core1
<1> QED
    BY <1>1, <1>2, PTL DEF SlotsSpec

(***************************************************************************)
(* No tearing, and no line on another's place: whatever the number of      *)
(* slots, the timing and the pace of core 1, the beam shows the line that  *)
(* is due, whole, or black.                                                *)
(***************************************************************************)
THEOREM NoTearing == SlotsSpec => []BeamShowsItsLine
BY InStepAlways, PTL DEF SInv

(***************************************************************************)
(* No slot is lost: it is POSTED exactly while one channel sends it.       *)
(***************************************************************************)
THEOREM NoSlotLost == SlotsSpec => []SlotsHeld
BY InStepAlways, PTL DEF SInv
-----------------------------------------------------------------------------
(***************************************************************************)
(* Core 1 in time.  The lead of the built lines over the beam is never     *)
(* less than Lead: a round of the loop that sees one line end builds one   *)
(* line, a line time lost costs one of the lead, and one more when the     *)
(* round then builds a line that is already past.  Eight slots bear two    *)
(* losses a frame, and the blanking makes up for them.                     *)
(***************************************************************************)
EnoughSlots ==
    /\ LINE_SLOTS >= 2 * Slack + 4
    /\ VBlank >= LINE_SLOTS - 1 /\ VTotal >= 2 * LINE_SLOTS - 1

\* Scanlines from a to the next b.
Off(a, b) == IF b >= a THEN b - a ELSE b + VTotal - a

Active == VBlank .. VTotal - 1
LineOf(s) == g_y[s] + VBlank
Ready(x) == \E s \in SlotIds : g_state[s] = "READY" /\ LineOf(s) = x

\* Scanlines posted since the loop read g_next, and how many there will be with the pending interrupt.
Due == IF raised THEN 1 ELSE 0
InRound == pc # "top"
Passed == IF InRound THEN Off(seen, g_next) ELSE 0
Behind == Passed + Due

Lead == LINE_SLOTS - 4 - 2 * spent + (IF lag = 0 \/ (InRound /\ Behind >= 3) THEN 1 ELSE 0)

\* Behind the line of a pending interrupt, the next Lead lines are built.
Leads == \A x \in Active : Off(g_next, x) < Lead + Due => Ready(x)

\* As many line ends as the losses explain, a frame begun in between included.
Late(n) == n <= 2 + spent \/ (n <= 2 + Slack + spent /\ beam <= spent)

RoundIsShort == InRound => (lag = 0 => Behind <= 1) /\ Late(Behind)

\* A slot that is posted has one of the last two lines.
Marked == \A s \in SlotIds : g_state[s] = "POSTED" => g_y[s] = words[s] /\ Off(LineOf(s), g_next) \in {1, 2}

OneEach == \A s, t \in SlotIds : s # t /\ g_state[s] # "FREE" /\ g_state[t] # "FREE" => g_y[s] # g_y[t]

\* Scanline x is ahead, within the reach of the slots, and all before it are built.
InTurn(x) ==
    /\ Off(g_next, x) + Passed < LINE_SLOTS
    /\ \A z \in Active : Off(g_next, z) < Off(g_next, x) => Ready(z)

\* Scanline x was past when its line was built, by no more than the losses explain.
Gone(x) ==
    /\ Off(x, g_next) > Passed
    /\ \/ Off(x, g_next) + Due <= 2 + lag + spent
       \/ Off(x, g_next) + Due <= 2 + lag + Slack + spent /\ beam <= spent + lag

\* Lines are built in turn; one that was past is swept in the next round.
ReadyInTurn ==
    \A s \in SlotIds : g_state[s] = "READY" => InTurn(LineOf(s)) \/ (pc \in {"top", "sweep"} /\ Gone(LineOf(s)))

Wanted ==
    pc \in {"pick", "build"} =>
        /\ ~Held(want)
        /\ \/ InTurn(want + VBlank)
           \/ Behind >= 3 /\ Off(want + VBlank, g_next) \in 1 .. Passed

TInv == Leads /\ RoundIsShort /\ Marked /\ OneEach /\ ReadyInTurn /\ Wanted /\ OnTime

-----------------------------------------------------------------------------
(* Distances around the frame. *)

LEMMA OffType ==
    ASSUME NEW a \in Scanlines, NEW b \in Scanlines
    PROVE  /\ Off(a, b) \in 0 .. VTotal - 1
           /\ Off(a, b) = 0 <=> a = b
           /\ a # b => Off(a, b) + Off(b, a) = VTotal
BY Sizes DEF Off, Scanlines

LEMMA OffNext ==
    ASSUME NEW a \in Scanlines, NEW b \in Scanlines
    PROVE  /\ a # b => Off(Succ(a), b) = Off(a, b) - 1
           /\ Off(Succ(a), a) = VTotal - 1
           /\ Off(a, b) # VTotal - 1 => Off(a, Succ(b)) = Off(a, b) + 1
BY Sizes DEF Off, Scanlines, Succ

LEMMA OffSum ==
    ASSUME NEW a \in Scanlines, NEW b \in Scanlines, NEW c \in Scanlines
    PROVE  Off(a, c) = IF Off(a, b) + Off(b, c) < VTotal THEN Off(a, b) + Off(b, c) ELSE Off(a, b) + Off(b, c) - VTotal
BY Sizes DEF Off, Scanlines

LEMMA Mod ==
    ASSUME NEW n \in Nat, NEW m \in Nat \ {0}, n < 2 * m
    PROVE  n % m = IF n < m THEN n ELSE n - m
OBVIOUS

LEMMA Reach ==
    ASSUME EnoughSlots
    PROVE  /\ LINE_SLOTS \in Nat /\ LINE_SLOTS >= 4 /\ VTotal \in Nat /\ VBlank \in Nat /\ Slack \in Nat
           /\ LINE_SLOTS >= 2 * Slack + 4 /\ VBlank >= LINE_SLOTS - 1 /\ VTotal >= 2 * LINE_SLOTS - 1
           /\ VTotal > VBlank /\ Active \subseteq Scanlines
BY Sizes DEF EnoughSlots, Active, Scanlines

LEMMA InFrame ==
    ASSUME SInv, EnoughSlots
    PROVE  /\ g_next \in Scanlines /\ beam \in Scanlines /\ seen \in Scanlines
           /\ \A s \in SlotIds : LineOf(s) \in Active /\ LineOf(s) \in Scanlines
           /\ \A s \in SlotIds : g_y[s] \in Nat /\ g_state[s] \in {"FREE", "READY", "POSTED"}
           /\ lag \in {0, 1} /\ spent \in Nat /\ spent <= Slack /\ Due \in {0, 1} /\ raised \in BOOLEAN
           /\ Off(beam, g_next) = 2 - Due
           /\ Passed \in Nat /\ Behind \in Nat /\ Behind = Passed + Due
           /\ Lead \in Nat /\ Lead <= LINE_SLOTS - 3 - 2 * spent /\ Lead >= LINE_SLOTS - 4 - 2 * spent
           /\ pc \in {"pick", "build"} => want \in Nat /\ want + VBlank \in Active /\ want + VBlank \in Scanlines
<1> USE Reach
<1>1. /\ g_next \in Scanlines /\ beam \in Scanlines /\ seen \in Scanlines
      /\ lag \in {0, 1} /\ spent \in Nat /\ spent <= Slack /\ raised \in BOOLEAN
  BY DEF SInv, SlotsTypeOK
<1>2. /\ \A s \in SlotIds : g_y[s] \in 0 .. VActive - 1
      /\ \A s \in SlotIds : g_state[s] \in {"FREE", "READY", "POSTED"}
  BY DEF SInv, SlotsTypeOK
<1>3. \A s \in SlotIds : LineOf(s) \in Active /\ g_y[s] \in Nat
  BY <1>2, Sizes DEF LineOf, Active
<1>4. Due \in {0, 1}
  BY DEF Due
<1>5. Off(beam, g_next) = 2 - Due
  BY <1>1, Sizes DEF SInv, InStep, Off, Succ, Scanlines, Due
<1>6. Passed \in Nat
  BY <1>1, OffType DEF Passed
<1>7. Behind \in Nat /\ Behind = Passed + Due
  BY <1>4, <1>6 DEF Behind
<1>8. Lead \in Nat /\ Lead <= LINE_SLOTS - 3 - 2 * spent /\ Lead >= LINE_SLOTS - 4 - 2 * spent
  BY <1>1 DEF Lead
<1>9. pc \in {"pick", "build"} => want \in Nat /\ want + VBlank \in Active
  BY Sizes DEF SInv, Building, Active
<1> QED  BY <1>1, <1>2, <1>3, <1>4, <1>5, <1>6, <1>7, <1>8, <1>9

LEMMA OfLine ==
    ASSUME SInv, EnoughSlots, NEW s \in SlotIds
    PROVE  /\ \A t \in SlotIds : LineOf(s) = LineOf(t) <=> g_y[s] = g_y[t]
           /\ \A w \in Nat : LineOf(s) = w + VBlank <=> g_y[s] = w
<1>1. /\ VBlank \in Nat
      /\ \A t \in SlotIds : g_y[t] \in Nat
  BY InFrame, Reach
<1> QED  BY <1>1 DEF LineOf

\* A round sees fewer line ends than there are slots.
LEMMA RoundBound ==
    ASSUME SInv, EnoughSlots, RoundIsShort, InRound
    PROVE  Behind <= LINE_SLOTS - 2
BY Reach, InFrame DEF RoundIsShort, Late

\* Near the top of a frame no line is due soon.
LEMMA Blanking ==
    ASSUME SInv, EnoughSlots, beam <= spent, NEW x \in Active
    PROVE  Off(g_next, x) >= LINE_SLOTS - 3 - spent + Due
<1>1. /\ beam \in Nat /\ g_next \in Nat /\ g_next < VTotal /\ Due \in {0, 1} /\ spent \in Nat /\ spent <= Slack
      /\ Off(beam, g_next) = 2 - Due
  BY InFrame, Reach DEF Scanlines
<1>2. g_next = beam + 2 - Due
  BY <1>1, Reach DEF Off
<1> QED  BY <1>1, <1>2, Reach DEF Active, Off

LEMMA TimelyInit == SlotsInit /\ EnoughSlots => TInv
<1> SUFFICES ASSUME SlotsInit, EnoughSlots PROVE TInv
  OBVIOUS
<1>1. SInv
  BY Initially
<1>2. /\ g_state = [s \in SlotIds |-> "FREE"] /\ pc = "top" /\ beam = 0 /\ spent = 0 /\ ~raised
      /\ feed = [c \in Channels |-> Fixed("blank")]
  BY DEF SlotsInit
<1>3. Leads
  <2> SUFFICES ASSUME NEW x \in Active, Off(g_next, x) < Lead + Due PROVE FALSE
    BY DEF Leads
  <2>1. Off(g_next, x) >= LINE_SLOTS - 3 - spent + Due
    BY <1>1, <1>2, Blanking
  <2> QED  BY <1>1, <1>2, <2>1, InFrame, Reach, OffType
<1>4. OnTime
  BY <1>2 DEF OnTime, Fixed
<1> QED  BY <1>2, <1>3, <1>4 DEF TInv, RoundIsShort, InRound, Marked, OneEach, ReadyInTurn, Wanted

LEMMA TimelyLineEnds == SInv /\ EnoughSlots /\ TInv /\ LineEnds => TInv'
<1> SUFFICES ASSUME SInv, EnoughSlots, TInv, LineEnds PROVE TInv'
  OBVIOUS
<1>1. UNCHANGED <<g_state, g_y, words, g_next, g_pong, g_posted, feed, pc, seen, want, slot>>
  BY DEF LineEnds, slots, dma, loop
<1>2. /\ ~raised /\ raised' /\ lag' = 1 /\ beam' = Succ(beam)
      /\ lag = 0 \/ spent < Slack
      /\ spent' = IF beam' = 0 THEN 0 ELSE IF lag = 0 THEN spent ELSE spent + 1
  BY DEF LineEnds
<1>3. SInv'
  BY LineEndsKeeps
<1>4. Due = 0 /\ Due' = 1 /\ Passed' = Passed /\ Behind' = Behind + 1 /\ InRound' = InRound
  <2>1. Passed' = Passed /\ InRound' = InRound
    BY <1>1 DEF Passed, InRound, Off
  <2>2. Due = 0 /\ Due' = 1
    BY <1>2 DEF Due
  <2> QED  BY <2>1, <2>2, InFrame DEF Behind
<1>5. \A x : Ready(x)' = Ready(x)
  BY <1>1 DEF Ready, LineOf
<1>6. Behind = Passed /\ Passed \in Nat /\ spent \in Nat /\ spent <= Slack /\ lag \in {0, 1}
      /\ beam \in Nat /\ beam < VTotal
  BY <1>4, InFrame, Reach DEF Scanlines
<1>7. beam' = IF beam = VTotal - 1 THEN 0 ELSE beam + 1
  BY <1>2, <1>6, Reach DEF Succ
<1>8. Leads'
  <2>0. SUFFICES ASSUME NEW x \in Active, (Off(g_next, x) < Lead + Due)' PROVE Ready(x)
    BY <1>5 DEF Leads, Active, VTotal, VBlank
  <2>1. CASE beam' = 0
    <3>1. spent' = 0
      BY <1>2, <2>1
    <3>2. g_next = 1 /\ Off(g_next, x)' = Off(1, x)
      <4>1. g_next \in Nat /\ g_next < VTotal /\ Off(beam, g_next) = 2 /\ beam = VTotal - 1
        BY <1>4, <1>6, <1>7, <2>1, InFrame, Reach DEF Scanlines
      <4>2. g_next = 1
        BY <4>1, Reach DEF Off
      <4> QED  BY <1>1, <4>2
    <3>3. (Lead <= LINE_SLOTS - 3)' /\ Lead' \in Int
      BY <3>1, Reach DEF Lead
    <3>4. Off(1, x) >= LINE_SLOTS - 2 /\ Off(1, x) \in Int
      BY Reach DEF Off, Active
    <3> QED  BY <1>4, <2>0, <3>1, <3>2, <3>3, <3>4, Reach
  <2>2. CASE beam' # 0
    <3>1. Lead' < Lead
      <4>1. CASE lag = 0
        <5>1. ~(InRound' /\ Behind' >= 3)
          BY <1>4, <1>6, <4>1 DEF TInv, RoundIsShort
        <5> QED  BY <1>2, <1>6, <2>2, <4>1, <5>1, Reach DEF Lead
      <4>2. CASE lag # 0
        BY <1>2, <1>6, <2>2, <4>2, Reach DEF Lead
      <4> QED  BY <4>1, <4>2
    <3>2. Off(g_next, x)' = Off(g_next, x) /\ Off(g_next, x) \in Int /\ Lead \in Nat /\ Lead' \in Int
      BY <1>1, <1>2, <1>6, <2>2, InFrame, Reach, OffType DEF Off, Lead
    <3>3. Off(g_next, x) <= Lead'
      BY <1>4, <2>0, <3>2
    <3>4. Off(g_next, x) < Lead
      BY <3>1, <3>2, <3>3
    <3>5. Off(g_next, x) < Lead + Due
      BY <1>4, <3>2, <3>4
    <3> QED  BY <2>0, <3>5 DEF TInv, Leads
  <2> QED  BY <2>1, <2>2
<1>9. RoundIsShort'
  BY <1>2, <1>4, <1>6, <1>7, Reach DEF TInv, RoundIsShort, Late
<1>10. Marked' /\ OneEach' /\ OnTime'
  BY <1>1 DEF TInv, Marked, OneEach, OnTime, LineOf, Off
<1>11. \A x : InTurn(x)' <=> InTurn(x)
  BY <1>1, <1>4, <1>5 DEF InTurn, Off, Active, VTotal, VBlank
<1>12. ASSUME NEW x \in Scanlines, Gone(x) PROVE Gone(x)'
  <2>1. Off(x, g_next)' = Off(x, g_next) /\ Off(x, g_next) \in Nat
    BY <1>1, InFrame, OffType DEF Off
  <2> QED  BY <1>2, <1>4, <1>6, <1>7, <1>12, <2>1, Reach DEF Gone
<1>13. ReadyInTurn'
  BY <1>1, <1>11, <1>12, InFrame DEF TInv, ReadyInTurn, LineOf
<1>14. Wanted'
  BY <1>1, <1>4, <1>6, <1>11, InFrame DEF TInv, Wanted, Held, Off
<1> QED  BY <1>8, <1>9, <1>10, <1>13, <1>14 DEF TInv
(* What the interrupt does to the slots of a core 1 in time. *)
LEMMA IrqPosts ==
    ASSUME SInv, EnoughSlots, TInv, Irq
    PROVE  /\ \A s \in SlotIds : g_state'[s] = "READY" <=> g_state[s] = "READY" /\ LineOf(s) # g_next
           /\ \A s \in SlotIds : g_state'[s] = "POSTED" =>
                \/ g_state[s] = "POSTED" /\ feed[1 - g_pong] = Line(s)
                \/ g_state[s] = "READY" /\ LineOf(s) = g_next
           /\ \A s \in SlotIds : g_state'[s] # "FREE" => g_state[s] # "FREE"
           /\ OnTime'
<1> DEFINE c == g_pong
           due == {s \in SlotIds : IsDue(Freed(c), s, g_next)}
<1>1. /\ c \in Channels /\ feed \in [Channels -> Feeds] /\ raised /\ g_next \in Scanlines
      /\ g_state \in [SlotIds -> {"FREE", "READY", "POSTED"}]
  BY DEF SInv, SlotsTypeOK, Irq
<1>2. /\ Freed(c) \in [SlotIds -> {"FREE", "READY", "POSTED"}]
      /\ \A s \in SlotIds : Freed(c)[s] = "POSTED" <=> feed[1 - c] = Line(s)
      /\ \A s \in SlotIds : Freed(c)[s] = "READY" <=> g_state[s] = "READY"
      /\ \A s \in SlotIds : g_state[s] = "FREE" => Freed(c)[s] = "FREE"
  BY <1>1, FreedStates
<1>3. \A s \in SlotIds : Freed(c)[s] = "POSTED" => g_state[s] = "POSTED"
  BY <1>1, <1>2
<1>4. \A s \in SlotIds : s \in due <=> g_state[s] = "READY" /\ LineOf(s) = g_next
  <2> SUFFICES ASSUME NEW s \in SlotIds PROVE s \in due <=> g_state[s] = "READY" /\ LineOf(s) = g_next
    OBVIOUS
  <2>1. g_y[s] = g_next - VBlank <=> LineOf(s) = g_next
    BY <1>1, InFrame, Reach DEF LineOf, Scanlines
  <2> QED  BY <1>2, <2>1 DEF IsDue
<1>5. g_next >= VBlank => due # {}
  <2> SUFFICES ASSUME g_next >= VBlank PROVE due # {}
    OBVIOUS
  <2>1. g_next \in Active
    BY <1>1, Reach DEF Active, Scanlines
  <2>2. Off(g_next, g_next) = 0 /\ Due = 1 /\ Lead \in Nat
    BY <1>1, InFrame, OffType DEF Due
  <2>3. Ready(g_next)
    BY <2>1, <2>2 DEF TInv, Leads
  <2> QED  BY <1>4, <2>3 DEF Ready
<1>6. \A s \in SlotIds : g_state[s] = "READY" => LineOf(s) >= VBlank
  BY InFrame, Reach DEF Active
<1>7. CASE g_next < VBlank /\ g_state' = Freed(c)
           /\ \E kind \in {"vsync", "blank"} : feed' = [feed EXCEPT ![c] = Fixed(kind)]
  <2>1. OnTime'
    BY <1>1, <1>7 DEF TInv, OnTime, Fixed
  <2>2. \A s \in SlotIds : g_state[s] = "READY" => LineOf(s) # g_next
    BY <1>1, <1>6, <1>7, InFrame, Reach DEF Scanlines, Active
  <2> HIDE DEF due
  <2> QED  BY <1>1, <1>2, <1>3, <1>7, <2>1, <2>2
<1>8. ASSUME NEW s \in due, feed' = [feed EXCEPT ![c] = Line(s)], g_state' = [Freed(c) EXCEPT ![s] = "POSTED"]
      PROVE  /\ \A t \in SlotIds : g_state'[t] = "READY" <=> g_state[t] = "READY" /\ LineOf(t) # g_next
             /\ \A t \in SlotIds : g_state'[t] = "POSTED" =>
                  \/ g_state[t] = "POSTED" /\ feed[1 - g_pong] = Line(t)
                  \/ g_state[t] = "READY" /\ LineOf(t) = g_next
             /\ \A t \in SlotIds : g_state'[t] # "FREE" => g_state[t] # "FREE"
             /\ OnTime'
  <2>1. s \in SlotIds /\ g_state[s] = "READY" /\ LineOf(s) = g_next
    BY <1>4, <1>8
  <2>2. OnTime'
    BY <1>1, <1>8 DEF TInv, OnTime, Line
  <2>3. \A t \in SlotIds : t # s /\ g_state[t] = "READY" => LineOf(t) # g_next
    <3>0. SUFFICES ASSUME NEW t \in SlotIds, t # s, g_state[t] = "READY", LineOf(t) = g_next PROVE FALSE
      OBVIOUS
    <3>1. g_y[t] = g_y[s]
      BY <2>1, <3>0, OfLine
    <3> QED  BY <2>1, <3>0, <3>1 DEF TInv, OneEach
  <2>4. \A t \in SlotIds : g_state'[t] = IF t = s THEN "POSTED" ELSE Freed(c)[t]
    BY <1>2, <1>8
  <2> HIDE DEF due
  <2> QED  BY <1>1, <1>2, <1>3, <2>1, <2>2, <2>3, <2>4
<1>9. Post(c)
  BY DEF Irq
<1> QED  BY <1>5, <1>7, <1>8, <1>9 DEF Post

LEMMA TimelyIrq == SInv /\ EnoughSlots /\ TInv /\ Irq => TInv'
<1> SUFFICES ASSUME SInv, EnoughSlots, TInv, Irq PROVE TInv'
  OBVIOUS
<1>1. UNCHANGED <<g_y, words, pc, seen, want, slot, playing, beam, lag, spent>>
  BY DEF Irq, loop, pace
<1>2. raised /\ ~raised' /\ g_next' = Succ(g_next) /\ 1 - g_pong = playing /\ g_next = Succ(beam)
  BY DEF Irq, SInv, RightChannel, InStep, SlotsTypeOK, Channels
<1>3. /\ \A s \in SlotIds : g_state'[s] = "READY" <=> g_state[s] = "READY" /\ LineOf(s) # g_next
      /\ \A s \in SlotIds : g_state'[s] = "POSTED" =>
           \/ g_state[s] = "POSTED" /\ feed[playing] = Line(s)
           \/ g_state[s] = "READY" /\ LineOf(s) = g_next
      /\ \A s \in SlotIds : g_state'[s] # "FREE" => g_state[s] # "FREE"
      /\ OnTime'
  BY <1>2, IrqPosts
<1>4. /\ g_next \in Scanlines /\ seen \in Scanlines /\ beam \in Scanlines
      /\ \A s \in SlotIds : LineOf(s) \in Scanlines /\ LineOf(s)' = LineOf(s)
      /\ Passed \in Nat /\ Lead \in Nat /\ Lead <= LINE_SLOTS - 3 - 2 * spent /\ spent \in Nat
  BY <1>1, InFrame DEF LineOf
<1>5. Due = 1 /\ Due' = 0 /\ Behind = Passed + 1
  BY <1>2, InFrame DEF Due
<1>6. InRound' = InRound /\ Passed' = IF InRound THEN Passed + 1 ELSE 0
  <2>1. CASE ~InRound
    BY <1>1, <2>1 DEF InRound, Passed
  <2>2. CASE InRound
    <3>1. Passed = Off(seen, g_next) /\ Passed < VTotal - 1
      BY <1>5, <2>2, RoundBound, Reach, <1>4 DEF TInv, Passed
    <3>2. Off(seen, Succ(g_next)) = Off(seen, g_next) + 1
      BY <1>4, <3>1, OffNext
    <3> QED  BY <1>1, <1>2, <2>2, <3>1, <3>2 DEF InRound, Passed
  <2> QED  BY <2>1, <2>2
<1>7. InRound => Behind' = Behind
  BY <1>4, <1>5, <1>6 DEF Behind
<1>8. Lead' = Lead
  BY <1>1, <1>6, <1>7 DEF Lead
\* The distances to the next scanline to be posted.
<1>9. \A x \in Scanlines : x # g_next => Off(g_next', x) = Off(g_next, x) - 1 /\ Off(g_next, x) \in Nat \ {0}
  BY <1>2, <1>4, OffNext, OffType
<1>10. \A x \in Scanlines : Off(x, g_next) # VTotal - 1 => Off(x, g_next') = Off(x, g_next) + 1
  BY <1>2, <1>4, OffNext
<1>11. Off(g_next', g_next) = VTotal - 1 /\ Off(g_next, g_next) = 0
  BY <1>2, <1>4, OffNext, OffType
<1>12. ASSUME NEW x, x # g_next, Ready(x) PROVE Ready(x)'
  BY <1>3, <1>4, <1>12 DEF Ready
<1>13. Leads'
  <2> SUFFICES ASSUME NEW x \in Active, Off(g_next', x) < Lead PROVE Ready(x)'
    BY <1>4, <1>5, <1>8 DEF Leads, Active, VTotal, VBlank
  <2>1. x \in Scanlines
    BY Reach
  <2>2. x # g_next
    BY <1>4, <1>11, Reach
  <2>3. Off(g_next, x) < Lead + Due
    BY <1>4, <1>5, <1>9, <2>1, <2>2
  <2> QED  BY <1>12, <2>2, <2>3 DEF TInv, Leads
<1>14. RoundIsShort'
  BY <1>1, <1>6, <1>7 DEF TInv, RoundIsShort, Late
<1>15. Marked'
  <2> SUFFICES ASSUME NEW s \in SlotIds, g_state'[s] = "POSTED"
               PROVE  g_y[s] = words[s] /\ Off(LineOf(s), g_next') \in {1, 2}
    BY <1>1, <1>4 DEF Marked
  <2>1. CASE g_state[s] = "POSTED" /\ feed[playing] = Line(s)
    <3>1. g_y[s] = words[s]
      BY <2>1 DEF TInv, Marked
    <3>2. words[s] = beam - VBlank
      BY <2>1 DEF SInv, BeamShowsItsLine, Suits, Line
    <3>3. LineOf(s) = beam
      BY <1>4, <3>1, <3>2, InFrame, Reach DEF LineOf, Scanlines
    <3>4. Off(beam, beam) = 0
      BY <1>4, OffType
    <3>5. Off(beam, g_next) = 1
      BY <1>5, InFrame
    <3> QED  BY <1>4, <1>10, <3>1, <3>3, <3>5, Reach
  <2>2. CASE g_state[s] = "READY" /\ LineOf(s) = g_next
    <3>1. g_y[s] = words[s]
      BY <2>2 DEF SInv, ReadyIsWhole
    <3> QED  BY <1>4, <1>10, <1>11, <2>2, <3>1, Reach
  <2> QED  BY <1>3, <2>1, <2>2
<1>16. OneEach'
  BY <1>1, <1>3 DEF TInv, OneEach
<1>17. ASSUME NEW x \in Scanlines, x # g_next, InTurn(x) PROVE InTurn(x)'
  <2>1. Off(g_next', x) = Off(g_next, x) - 1 /\ Off(g_next, x) \in Nat \ {0}
    BY <1>9, <1>17
  <2>2. Off(g_next', x) + Passed' < LINE_SLOTS
    BY <1>4, <1>6, <1>17, <2>1, Reach DEF InTurn
  <2>3. ASSUME NEW z \in Active, Off(g_next', z) < Off(g_next', x) PROVE Ready(z)'
    <3>1. z \in Scanlines /\ z # g_next
      <4>1. z \in Scanlines
        BY Reach
      <4>2. Off(g_next', x) < VTotal - 1
        BY <1>17, <2>1, <1>4, OffType, Reach
      <4> QED  BY <1>11, <2>1, <2>3, <4>1, <4>2, Reach
    <3>2. Off(g_next, z) < Off(g_next, x)
      BY <1>9, <2>1, <2>3, <3>1
    <3> QED  BY <1>12, <1>17, <3>1, <3>2 DEF InTurn
  <2> QED  BY <2>2, <2>3 DEF InTurn, Active, VTotal, VBlank
<1>18. ASSUME NEW x \in Scanlines, Gone(x), pc \in {"top", "sweep"} PROVE Gone(x)'
  <2>1. Off(x, g_next) \in Nat /\ Off(x, g_next) <= LINE_SLOTS
    BY <1>4, <1>5, <1>18, OffType, InFrame, Reach DEF Gone
  <2>2. Off(x, g_next') = Off(x, g_next) + 1
    BY <1>10, <1>18, <2>1, Reach
  <2>3. Off(x, g_next') + 0 = Off(x, g_next) + Due
    BY <1>5, <2>1, <2>2
  <2>4. Passed' < Off(x, g_next')
    BY <1>4, <1>6, <1>18, <2>1, <2>2 DEF Gone
  <2> QED  BY <1>1, <1>5, <1>18, <2>1, <2>2, <2>3, <2>4 DEF Gone
<1>19. ReadyInTurn'
  <2> SUFFICES ASSUME NEW s \in SlotIds, g_state'[s] = "READY"
               PROVE  InTurn(LineOf(s))' \/ (pc \in {"top", "sweep"} /\ Gone(LineOf(s))')
    BY <1>1 DEF ReadyInTurn
  <2>1. g_state[s] = "READY" /\ LineOf(s) # g_next /\ LineOf(s) \in Scanlines /\ LineOf(s)' = LineOf(s)
    BY <1>3, <1>4
  <2> DEFINE x == LineOf(s)
  <2>2. InTurn(x) \/ (pc \in {"top", "sweep"} /\ Gone(x))
    BY <2>1 DEF TInv, ReadyInTurn
  <2>3. InTurn(x) => InTurn(LineOf(s))'
    <3> PICK z : z = LineOf(s)
      OBVIOUS
    <3>1. InTurn(z) => InTurn(z)'
      BY <1>17, <2>1
    <3>2. InTurn(LineOf(s))' <=> InTurn(z)'
      BY <2>1 DEF InTurn
    <3> QED  BY <3>1, <3>2
  <2>4. Gone(x) /\ pc \in {"top", "sweep"} => Gone(LineOf(s))'
    <3> PICK z : z = LineOf(s)
      OBVIOUS
    <3>1. Gone(z) /\ pc \in {"top", "sweep"} => Gone(z)'
      BY <1>18, <2>1
    <3>2. Gone(LineOf(s))' <=> Gone(z)'
      BY <2>1 DEF Gone
    <3> QED  BY <3>1, <3>2
  <2> QED  BY <2>2, <2>3, <2>4
<1>20. Wanted'
  <2> SUFFICES ASSUME pc \in {"pick", "build"}
               PROVE  /\ ~Held(want)'
                      /\ \/ InTurn(want + VBlank)'
                         \/ Behind' >= 3 /\ Off(want + VBlank, g_next') \in 1 .. Passed'
    BY <1>1 DEF Wanted, VBlank
  <2>1. InRound /\ want' = want /\ want + VBlank \in Active /\ want + VBlank \in Scanlines /\ want \in Nat
    BY <1>1, InFrame DEF InRound
  <2>2. ~Held(want) /\ ~Held(want)'
    BY <1>1, <1>3 DEF TInv, Wanted, Held
  <2>3. CASE InTurn(want + VBlank)
    <3>1. want + VBlank # g_next
      <4> SUFFICES ASSUME want + VBlank = g_next PROVE FALSE
        OBVIOUS
      <4>1. Ready(g_next)
        BY <1>4, <1>5, <1>11, <2>1 DEF TInv, Leads
      <4>2. PICK s \in SlotIds : g_state[s] = "READY" /\ LineOf(s) = want + VBlank
        BY <4>1 DEF Ready
      <4>3. g_y[s] = want
        BY <2>1, <4>2, OfLine
      <4> QED  BY <2>2, <4>2, <4>3 DEF Held
    <3> PICK z : z = want + VBlank
      OBVIOUS
    <3>2. InTurn(z)'
      BY <1>17, <2>1, <2>3, <3>1
    <3>3. InTurn(want + VBlank)' <=> InTurn(z)'
      BY <2>1 DEF InTurn, VBlank
    <3> QED  BY <2>2, <3>2, <3>3
  <2>4. CASE Behind >= 3 /\ Off(want + VBlank, g_next) \in 1 .. Passed
    <3>1. Off(want + VBlank, g_next) # VTotal - 1
      BY <1>4, <1>5, <2>1, <2>4, RoundBound, Reach DEF TInv
    <3>2. Off(want + VBlank, g_next') = Off(want + VBlank, g_next) + 1
      BY <1>10, <2>1, <3>1
    <3> QED  BY <1>4, <1>6, <1>7, <2>1, <2>2, <2>4, <3>2
  <2> QED  BY <2>3, <2>4 DEF TInv, Wanted
<1> QED  BY <1>3, <1>13, <1>14, <1>15, <1>16, <1>19, <1>20 DEF TInv
-----------------------------------------------------------------------------
(* Where the loop looks: the scanlines ahead of its copy of g_next. *)

LEMMA OffSame ==
    ASSUME NEW a \in Scanlines, NEW b \in Scanlines, NEW c \in Scanlines
    PROVE  /\ Off(a, c) = Off(b, c) => a = b
           /\ Off(c, a) = Off(c, b) => a = b
BY Sizes DEF Off, Scanlines

LEMMA AheadIs ==
    ASSUME SInv, EnoughSlots
    PROVE  /\ \A a \in 0 .. LINE_SLOTS - 1 : Ahead(a) \in Scanlines /\ Off(seen, Ahead(a)) = a
           /\ \A x \in Scanlines : Ahead(Off(seen, x)) = x
           /\ \A s \in SlotIds : Stale(s) <=> Off(seen, LineOf(s)) >= LINE_SLOTS
<1>1. /\ seen \in Nat /\ seen < VTotal /\ VTotal \in Nat \ {0} /\ VTotal >= LINE_SLOTS /\ LINE_SLOTS \in Nat
      /\ VBlank \in Nat
  BY InFrame, Reach DEF Scanlines
<1>2. ASSUME NEW a \in 0 .. VTotal - 1
      PROVE  Ahead(a) = IF seen + a < VTotal THEN seen + a ELSE seen + a - VTotal
  <2> DEFINE n == seen + a
  <2>1. n \in Nat /\ n < 2 * VTotal
    BY <1>1
  <2> HIDE DEF n
  <2>2. n % VTotal = IF n < VTotal THEN n ELSE n - VTotal
    BY <1>1, <2>1, Mod
  <2>3. Ahead(a) = n % VTotal
    BY DEF Ahead, n
  <2> QED  BY <1>1, <2>1, <2>2, <2>3 DEF n
<1>3. \A a \in 0 .. LINE_SLOTS - 1 : Ahead(a) \in Scanlines /\ Off(seen, Ahead(a)) = a
  BY <1>1, <1>2 DEF Scanlines, Off
<1>4. ASSUME NEW x \in Scanlines PROVE Ahead(Off(seen, x)) = x
  <2>1. Off(seen, x) \in 0 .. VTotal - 1
    BY <1>1, OffType DEF Scanlines
  <2>2. Ahead(Off(seen, x)) = IF seen + Off(seen, x) < VTotal THEN seen + Off(seen, x) ELSE seen + Off(seen, x) - VTotal
    BY <1>2, <2>1
  <2> QED  BY <1>1, <2>2 DEF Scanlines, Off
<1>5. ASSUME NEW s \in SlotIds PROVE Stale(s) <=> Off(seen, LineOf(s)) >= LINE_SLOTS
  <2>1. LineOf(s) \in Nat /\ LineOf(s) < VTotal
    BY <1>1, InFrame DEF Scanlines
  <2>2. g_y[s] \in Nat /\ LineOf(s) = g_y[s] + VBlank
    BY InFrame DEF LineOf
  <2>3. (LineOf(s) + VTotal - seen) % VTotal = Off(seen, LineOf(s))
    <3> DEFINE n == LineOf(s) + VTotal - seen
    <3>1. n \in Nat /\ n < 2 * VTotal
      BY <1>1, <2>1
    <3>2. Off(seen, LineOf(s)) = IF n < VTotal THEN n ELSE n - VTotal
      BY <1>1, <2>1 DEF Off
    <3> HIDE DEF n
    <3>3. n % VTotal = IF n < VTotal THEN n ELSE n - VTotal
      BY <1>1, <3>1, Mod
    <3> QED  BY <3>2, <3>3 DEF n
  <2> QED  BY <2>2, <2>3 DEF Stale
<1> QED  BY <1>3, <1>4, <1>5

\* From the loop's copy of g_next to what is still ahead.
LEMMA FromSeen ==
    ASSUME SInv, EnoughSlots, InRound, NEW x \in Scanlines
    PROVE  /\ Passed = Off(seen, g_next) /\ Off(seen, x) \in Nat /\ Off(g_next, x) \in Nat
           /\ Passed + Off(g_next, x) < VTotal => Off(seen, x) = Passed + Off(g_next, x)
           /\ Passed + Off(g_next, x) >= VTotal => Off(seen, x) = Passed + Off(g_next, x) - VTotal
<1>1. g_next \in Scanlines /\ seen \in Scanlines
  BY InFrame
<1>2. Passed = Off(seen, g_next)
  BY DEF Passed
<1>3. Off(seen, x) \in Nat /\ Off(g_next, x) \in Nat /\ Passed \in Nat /\ VTotal \in Nat
  BY <1>1, <1>2, OffType, Reach
<1> QED  BY <1>1, <1>2, <1>3, OffSum

LEMMA SameRound ==
    ASSUME UNCHANGED <<g_next, raised, seen, lag, spent>>, InRound' = InRound
    PROVE  Passed' = Passed /\ Due' = Due /\ Behind' = Behind /\ Lead' = Lead
<1>1. Passed' = Passed /\ Due' = Due
  BY DEF Passed, Due, Off
<1>2. Behind' = Behind
  BY <1>1 DEF Behind
<1> QED  BY <1>1, <1>2 DEF Lead

LEMMA NewRound ==
    ASSUME SInv, UNCHANGED <<g_next, raised, spent>>, RoundOver
    PROVE  ~InRound' /\ Passed' = 0 /\ Due' = Due /\ Behind' = Due /\ Lead' = LINE_SLOTS - 3 - 2 * spent
<1>1. ~InRound' /\ Passed' = 0 /\ Due' = Due /\ Due \in {0, 1} /\ lag' = 0
  BY DEF Passed, Due, InRound, RoundOver
<1>2. Behind' = Due
  BY <1>1 DEF Behind
<1>3. spent \in Nat /\ LINE_SLOTS \in Nat
  BY Sizes DEF SInv, SlotsTypeOK
<1> QED  BY <1>1, <1>2, <1>3 DEF Lead

LEMMA TimelyReadNext == SInv /\ EnoughSlots /\ TInv /\ ReadNext => TInv'
<1> SUFFICES ASSUME SInv, EnoughSlots, TInv, ReadNext PROVE TInv'
  OBVIOUS
<1>1. /\ UNCHANGED <<g_state, g_y, words, g_next, feed, raised, beam, lag, spent, want, slot>>
      /\ pc = "top" /\ pc' = "sweep" /\ seen' = g_next
  BY DEF ReadNext, slots, dma, wire, pace
<1>2. /\ g_next \in Scanlines /\ Due \in {0, 1} /\ lag \in {0, 1} /\ spent \in Nat
  BY InFrame
<1>3. Passed = 0 /\ ~InRound /\ InRound' /\ Behind = Due
  BY <1>1, <1>2 DEF Passed, InRound, Behind
<1>4. Passed' = 0 /\ Due' = Due /\ Behind' = Due
  <2>1. Off(g_next, g_next) = 0
    BY <1>2, OffType
  <2>2. Passed' = 0
    BY <1>1, <1>3, <2>1 DEF Passed, Off, VTotal, VBlank
  <2>3. Due' = Due
    BY <1>1 DEF Due
  <2> QED  BY <1>2, <2>2, <2>3 DEF Behind
<1>5. Lead' = Lead
  BY <1>1, <1>2, <1>3, <1>4 DEF Lead
<1>6. \A x : Ready(x)' = Ready(x)
  BY <1>1 DEF Ready, LineOf
<1>7. Leads'
  BY <1>1, <1>4, <1>5, <1>6 DEF TInv, Leads, Off, Active, VTotal, VBlank
<1>8. RoundIsShort'
  BY <1>1, <1>2, <1>4 DEF RoundIsShort, Late
<1>9. Marked' /\ OneEach' /\ OnTime'
  BY <1>1 DEF TInv, Marked, OneEach, OnTime, LineOf, Off
<1>10. \A x : InTurn(x)' = InTurn(x)
  BY <1>1, <1>3, <1>4, <1>6 DEF InTurn, Off, Active, VTotal, VBlank
<1>11. \A x : Gone(x)' = Gone(x)
  BY <1>1, <1>3, <1>4 DEF Gone, Off
<1>12. ReadyInTurn'
  BY <1>1, <1>10, <1>11 DEF TInv, ReadyInTurn, LineOf
<1> QED  BY <1>1, <1>7, <1>8, <1>9, <1>12 DEF TInv, Wanted
LEMMA TimelySweep == SInv /\ EnoughSlots /\ TInv /\ Sweep => TInv'
<1> SUFFICES ASSUME SInv, EnoughSlots, TInv, Sweep PROVE TInv'
  OBVIOUS
<1>1. /\ UNCHANGED <<g_y, words, g_next, feed, raised, beam, lag, spent, seen, want, slot>>
      /\ pc = "sweep" /\ pc' = "scan" /\ InRound /\ InRound' = InRound
      /\ g_state' = [s \in SlotIds |-> IF g_state[s] = "READY" /\ Stale(s) THEN "FREE" ELSE g_state[s]]
  BY DEF Sweep, dma, wire, pace, InRound
<1>2. /\ \A s \in SlotIds : g_state'[s] = "READY" <=> g_state[s] = "READY" /\ ~Stale(s)
      /\ \A s \in SlotIds : g_state'[s] = "POSTED" <=> g_state[s] = "POSTED"
      /\ \A s \in SlotIds : g_state'[s] # "FREE" => g_state[s] # "FREE"
  BY <1>1
<1>3. /\ Passed' = Passed /\ Due' = Due /\ Behind' = Behind /\ Lead' = Lead
      /\ Lead \in Nat /\ Lead <= LINE_SLOTS - 3 /\ Due \in {0, 1} /\ Passed \in Nat
      /\ g_next \in Scanlines /\ lag \in {0, 1} /\ spent \in Nat /\ spent <= Slack
  BY <1>1, SameRound, InFrame, Reach
<1>4. ASSUME NEW x \in Scanlines, InTurn(x) PROVE Off(seen, x) < LINE_SLOTS
  BY <1>1, <1>3, <1>4, FromSeen, Reach DEF InTurn
<1>5. ASSUME NEW x \in Scanlines, Gone(x) PROVE Off(seen, x) >= LINE_SLOTS /\ Off(g_next, x) >= LINE_SLOTS
  <2>1. Off(x, g_next) \in Nat /\ Off(x, g_next) > Passed /\ Off(x, g_next) <= LINE_SLOTS - 1
    BY <1>3, <1>5, OffType, Reach DEF Gone
  <2>2. x # g_next
    BY <1>3, <2>1, OffType
  <2>3. Off(g_next, x) = VTotal - Off(x, g_next)
    BY <1>3, <2>1, <2>2, OffType, Reach
  <2> QED  BY <1>1, <1>3, <2>1, <2>3, FromSeen, Reach
<1>6. ASSUME NEW s \in SlotIds, g_state[s] = "READY", Off(g_next, LineOf(s)) < LINE_SLOTS PROVE ~Stale(s)
  <2>1. LineOf(s) \in Scanlines
    BY InFrame
  <2>2. InTurn(LineOf(s))
    BY <1>3, <1>5, <1>6, <2>1, OffType, Reach DEF TInv, ReadyInTurn
  <2> QED  BY <1>1, <1>4, <2>1, <2>2, AheadIs, FromSeen, Reach
<1>7. ASSUME NEW x, Ready(x), Off(g_next, x) < LINE_SLOTS PROVE Ready(x)'
  BY <1>1, <1>2, <1>6, <1>7 DEF Ready, LineOf
<1>8. Leads'
  <2> SUFFICES ASSUME NEW x \in Active, Off(g_next, x) < Lead + Due PROVE Ready(x)'
    BY <1>1, <1>3 DEF Leads, Off, Active, VTotal, VBlank
  <2>1. Off(g_next, x) < LINE_SLOTS
    BY <1>3, OffType, Reach
  <2> QED  BY <1>7, <2>1 DEF TInv, Leads
<1>9. RoundIsShort'
  BY <1>1, <1>3 DEF TInv, RoundIsShort, Late
<1>10. Marked' /\ OneEach' /\ OnTime'
  BY <1>1, <1>2 DEF TInv, Marked, OneEach, OnTime, LineOf, Off
<1>11. ASSUME NEW x \in Scanlines, InTurn(x) PROVE InTurn(x)'
  <2>1. Off(g_next, x) \in Nat /\ Off(g_next, x) < LINE_SLOTS
    BY <1>3, <1>11, OffType, Reach DEF InTurn
  <2>2. ASSUME NEW z \in Active, Off(g_next, z) < Off(g_next, x) PROVE Ready(z)'
    <3>1. Off(g_next, z) < LINE_SLOTS
      BY <1>3, <2>1, <2>2, OffType, Reach
    <3> QED  BY <1>7, <1>11, <2>2, <3>1 DEF InTurn
  <2> QED  BY <1>1, <1>3, <1>11, <2>2 DEF InTurn, Off, Active, VTotal, VBlank
<1>12. ReadyInTurn'
  <2> SUFFICES ASSUME NEW s \in SlotIds, g_state'[s] = "READY" PROVE InTurn(LineOf(s))'
    BY DEF ReadyInTurn
  <2>1. g_state[s] = "READY" /\ ~Stale(s) /\ LineOf(s) \in Scanlines /\ LineOf(s)' = LineOf(s)
    BY <1>1, <1>2, InFrame DEF LineOf
  <2>2. ~Gone(LineOf(s))
    BY <1>1, <1>5, <2>1, AheadIs
  <2>3. InTurn(LineOf(s))
    BY <2>1, <2>2 DEF TInv, ReadyInTurn
  <2> PICK z : z = LineOf(s)
    OBVIOUS
  <2>4. InTurn(z)'
    BY <1>11, <2>1, <2>3
  <2>5. InTurn(LineOf(s))' <=> InTurn(z)'
    BY <2>1 DEF InTurn
  <2> QED  BY <2>4, <2>5
<1> QED  BY <1>1, <1>8, <1>9, <1>10, <1>12 DEF TInv, Wanted

\* A line that a channel sends, or is to send next, is in a slot.
LEMMA OnWire ==
    ASSUME SInv, EnoughSlots, TInv, NEW c \in Channels, NEW x \in Active, Suits(c, x)
    PROVE  Held(x - VBlank)
<1>1. x >= VBlank /\ feed[c] \in Feeds
  BY DEF Active, SInv, SlotsTypeOK
<1>2. feed[c].kind \notin {"vsync", "blank", "black"}
  <2>1. x \notin VFront .. VFront + VSync - 1 /\ ~(x < VBlank)
    BY Sizes DEF Active, VBlank
  <2>2. feed[c].kind # "black"
    BY DEF TInv, OnTime
  <2> QED  BY <2>1, <2>2 DEF Suits
<1>3. PICK s \in SlotIds : feed[c] = Line(s)
  BY <1>1, <1>2 DEF Feeds, Fixed
<1>4. words[s] = x - VBlank
  BY <1>2, <1>3 DEF Suits, Line
<1>5. g_state[s] = "POSTED"
  BY <1>3 DEF SInv, SlotsHeld
<1> QED  BY <1>4, <1>5 DEF TInv, Marked, Held

\* A built line ahead of the beam is READY.
LEMMA HeldAhead ==
    ASSUME SInv, EnoughSlots, TInv, NEW z \in Active, Held(z - VBlank), Off(g_next, z) < LINE_SLOTS
    PROVE  Ready(z)
<1>1. PICK s \in SlotIds : g_state[s] # "FREE" /\ g_y[s] = z - VBlank
  BY DEF Held
<1>2. LineOf(s) = z /\ z \in Scanlines
  BY <1>1, Reach DEF LineOf, Active
<1>3. g_state[s] # "POSTED"
  <2> SUFFICES ASSUME g_state[s] = "POSTED" PROVE FALSE
    OBVIOUS
  <2>1. Off(z, g_next) \in {1, 2}
    BY <1>2 DEF TInv, Marked
  <2>2. z # g_next
    BY <1>2, <2>1, InFrame, OffType
  <2>3. Off(g_next, z) = VTotal - Off(z, g_next)
    BY <1>2, <2>1, <2>2, InFrame, OffType, Reach
  <2> QED  BY <2>1, <2>3, Reach
<1> QED  BY <1>1, <1>2, <1>3, InFrame DEF Ready
\* After the sweep every READY line is in turn.
LEMMA SweptInTurn ==
    ASSUME TInv, pc \in {"scan", "pick", "build"}, NEW s \in SlotIds, g_state[s] = "READY"
    PROVE  InTurn(LineOf(s))
BY DEF TInv, ReadyInTurn

LEMMA TimelyScan == SInv /\ EnoughSlots /\ TInv /\ Scan => TInv'
<1> SUFFICES ASSUME SInv, EnoughSlots, TInv, Scan PROVE TInv'
  OBVIOUS
<1>1. /\ UNCHANGED <<g_state, g_y, words, g_next, feed, raised, beam, lag, spent, seen, slot>>
      /\ pc = "scan" /\ pc' = "pick" /\ InRound /\ InRound' = InRound
  BY DEF Scan, slots, dma, wire, pace, InRound
<1>2. PICK a \in Missing : (\A other \in Missing : a <= other) /\ want' = Ahead(a) - VBlank
  BY DEF Scan
<1>3. PICK x : x = Ahead(a)
  OBVIOUS
<1>4. /\ a \in 0 .. LINE_SLOTS - 1 /\ x >= VBlank /\ ~Held(x - VBlank)
      /\ x \in Scanlines /\ Off(seen, x) = a
      /\ want' = x - VBlank
  BY <1>2, <1>3, AheadIs DEF Missing
<1>5. x \in Active /\ want' + VBlank = x
  BY <1>4, Reach DEF Active, Scanlines
<1>6. ASSUME NEW z \in Active, Off(seen, z) < a PROVE Held(z - VBlank)
  <2>1. z \in Scanlines /\ z >= VBlank
    BY Reach DEF Active
  <2>2. Off(seen, z) \in Nat
    BY <1>1, <2>1, FromSeen
  <2>3. Off(seen, z) \in 0 .. LINE_SLOTS - 1
    BY <1>4, <1>6, <2>2
  <2>4. Off(seen, z) \notin Missing
    BY <1>2, <1>4, <1>6, <2>2
  <2>5. Ahead(Off(seen, z)) = z
    BY <2>1, AheadIs
  <2> QED  BY <2>1, <2>3, <2>4, <2>5 DEF Missing
<1>7. /\ Passed = Off(seen, g_next) /\ Passed \in Nat /\ Off(g_next, x) \in Nat /\ Off(g_next, x) < VTotal
      /\ g_next \in Scanlines /\ beam \in Scanlines
      /\ VTotal \in Nat /\ LINE_SLOTS \in Nat /\ VTotal >= LINE_SLOTS + 3 /\ Due \in {0, 1} /\ Behind = Passed + Due
  <2>1. VTotal >= LINE_SLOTS + 3
    BY Reach
  <2> QED  BY <1>1, <1>4, <2>1, FromSeen, InFrame, Reach, OffType
<1>8. ASSUME a >= Passed PROVE InTurn(x)
  <2>1. Off(g_next, x) = a - Passed
    BY <1>1, <1>4, <1>7, <1>8, FromSeen
  <2>2. ASSUME NEW z \in Active, Off(g_next, z) < Off(g_next, x) PROVE Ready(z)
    <3>1. z \in Scanlines /\ Off(g_next, z) \in Nat
      BY <1>7, OffType, Reach
    <3>2. Off(seen, z) = Passed + Off(g_next, z)
      BY <1>1, <1>4, <1>7, <2>1, <2>2, <3>1, FromSeen
    <3>3. Off(seen, z) < a /\ Off(g_next, z) < LINE_SLOTS
      BY <1>4, <1>7, <1>8, <2>1, <2>2, <3>1, <3>2
    <3> QED  BY <1>6, <3>3, HeldAhead
  <2> QED  BY <1>4, <1>7, <2>1, <2>2 DEF InTurn
<1>9. ASSUME a < Passed PROVE Behind >= 3 /\ Off(x, g_next) \in 1 .. Passed
  <2>1. Off(g_next, x) = a + VTotal - Passed
    BY <1>1, <1>4, <1>7, <1>9, FromSeen
  <2>2. x # g_next
    BY <1>4, <1>7, <1>9, OffType
  <2>3. Off(x, g_next) = Passed - a
    BY <1>4, <1>7, <2>1, <2>2, OffType
  <2>4. Behind >= 3
    <3> SUFFICES ASSUME Behind < 3 PROVE FALSE
      BY <1>7
    <3>1. playing \in Channels /\ 1 - playing \in Channels
      BY DEF SInv, SlotsTypeOK, Channels
    <3>2. Off(beam, g_next) = 2 - Due
      BY InFrame
    <3>3. CASE x = beam
      <4>1. Suits(playing, x)
        BY <3>3 DEF SInv, BeamShowsItsLine
      <4> QED  BY <1>4, <1>5, <3>1, <4>1, OnWire
    <3>4. CASE x = Succ(beam) /\ ~raised
      <4>1. Suits(1 - playing, x)
        BY <3>4 DEF SInv, BeamShowsItsLine
      <4> QED  BY <1>4, <1>5, <3>1, <4>1, OnWire
    <3>5. CASE raised
      <4>1. Due = 1
        BY <3>5 DEF Due
      <4>2. Off(x, g_next) = 1 /\ Off(beam, g_next) = 1
        BY <1>4, <1>7, <1>9, <2>3, <3>2, <4>1
      <4>3. x = beam
        BY <1>4, <1>7, <4>2, OffSame
      <4> QED  BY <3>3, <4>3
    <3>6. CASE ~raised
      <4>1. Due = 0
        BY <3>6 DEF Due
      <4>2. Off(x, g_next) \in {1, 2} /\ Off(beam, g_next) = 2
        BY <1>4, <1>7, <1>9, <2>3, <3>2, <4>1
      <4>3. CASE Off(x, g_next) = 2
        <5>1. x = beam
          BY <1>4, <1>7, <4>2, <4>3, OffSame
        <5> QED  BY <3>3, <5>1
      <4>4. CASE Off(x, g_next) = 1
        <5>1. beam # g_next
          BY <1>7, <4>2, OffType
        <5>2. Off(Succ(beam), g_next) = 1
          BY <1>7, <4>2, <5>1, OffNext
        <5>3. Succ(beam) \in Scanlines
          BY <1>7, Reach DEF Succ, Scanlines
        <5>4. x = Succ(beam)
          BY <1>4, <1>7, <4>4, <5>2, <5>3, OffSame
        <5> QED  BY <3>4, <3>6, <5>4
      <4> QED  BY <4>2, <4>3, <4>4
    <3> QED  BY <3>5, <3>6
  <2> QED  BY <1>4, <1>7, <1>9, <2>3, <2>4
<1>10. InTurn(x) \/ (Behind >= 3 /\ Off(x, g_next) \in 1 .. Passed)
  BY <1>4, <1>7, <1>8, <1>9
<1>11. Passed' = Passed /\ Due' = Due /\ Behind' = Behind /\ Lead' = Lead
  BY <1>1, SameRound
<1>12. \A z : Ready(z)' = Ready(z)
  BY <1>1 DEF Ready, LineOf
<1>13. \A z : InTurn(z)' = InTurn(z)
  BY <1>1, <1>11, <1>12 DEF InTurn, Off, Active, VTotal, VBlank
<1>14. Leads'
  BY <1>1, <1>11, <1>12 DEF TInv, Leads, Off, Active, VTotal, VBlank
<1>15. RoundIsShort'
  BY <1>1, <1>11 DEF TInv, RoundIsShort, Late
<1>16. Marked' /\ OneEach' /\ OnTime'
  BY <1>1 DEF TInv, Marked, OneEach, OnTime, LineOf, Off
<1>17. ReadyInTurn'
  BY <1>1, <1>13, SweptInTurn DEF ReadyInTurn, LineOf
<1>18. Wanted'
  <2>1. ~Held(want)'
    BY <1>1, <1>4 DEF Held
  <2>2. InTurn(want + VBlank)' <=> InTurn(x)'
    BY <1>5 DEF InTurn
  <2>3. Off(want + VBlank, g_next)' = Off(x, g_next)
    BY <1>1, <1>5 DEF Off
  <2> QED  BY <1>10, <1>11, <1>13, <2>1, <2>2, <2>3 DEF Wanted
<1> QED  BY <1>14, <1>15, <1>16, <1>17, <1>18 DEF TInv

LEMMA TimelyPick == SInv /\ EnoughSlots /\ TInv /\ Pick => TInv'
<1> SUFFICES ASSUME SInv, EnoughSlots, TInv, Pick PROVE TInv'
  OBVIOUS
<1>1. /\ UNCHANGED <<g_state, g_y, g_next, feed, raised, beam, lag, spent, seen, want>>
      /\ pc = "pick" /\ pc' = "build" /\ InRound /\ InRound' = InRound
  BY DEF Pick, dma, wire, pace, InRound
<1>2. \A s \in SlotIds : g_state[s] = "POSTED" => words'[s] = words[s]
  BY DEF Pick, Free, SInv, SlotsTypeOK
<1>3. Passed' = Passed /\ Due' = Due /\ Behind' = Behind /\ Lead' = Lead
  BY <1>1, SameRound
<1>4. \A z : Ready(z)' = Ready(z)
  BY <1>1 DEF Ready, LineOf
<1>5. \A z : InTurn(z)' = InTurn(z)
  BY <1>1, <1>3, <1>4 DEF InTurn, Off, Active, VTotal, VBlank
<1>6. Leads'
  BY <1>1, <1>3, <1>4 DEF TInv, Leads, Off, Active, VTotal, VBlank
<1>7. RoundIsShort'
  BY <1>1, <1>3 DEF TInv, RoundIsShort, Late
<1>8. Marked' /\ OneEach' /\ OnTime'
  BY <1>1, <1>2 DEF TInv, Marked, OneEach, OnTime, LineOf, Off
<1>9. ReadyInTurn'
  BY <1>1, <1>5, SweptInTurn DEF ReadyInTurn, LineOf
<1>10. Wanted'
  <2>1. Held(want)' = Held(want) /\ Off(want + VBlank, g_next)' = Off(want + VBlank, g_next)
    BY <1>1 DEF Held, Off
  <2> PICK x : x = want + VBlank
    OBVIOUS
  <2>2. InTurn(want + VBlank)' <=> InTurn(x)'
    BY <1>1 DEF InTurn, VBlank
  <2> QED  BY <1>1, <1>3, <1>5, <2>1, <2>2 DEF TInv, Wanted
<1> QED  BY <1>6, <1>7, <1>8, <1>9, <1>10 DEF TInv
\* What a round that ends leaves as it is.
LEMMA RoundEnds ==
    ASSUME SInv, EnoughSlots, TInv, RoundOver, UNCHANGED <<g_next, g_posted, feed, raised, beam, spent>>,
           pc \in {"scan", "pick", "build"}
    PROVE  /\ RoundIsShort' /\ OnTime' /\ Wanted'
           /\ (\A z : Ready(z) => Ready(z)') => \A z \in Scanlines : InTurn(z) => InTurn(z)'
<1>1. ~InRound' /\ Passed' = 0 /\ Passed \in Nat /\ pc' = "top"
  BY NewRound, InFrame DEF RoundOver
<1>2. ASSUME \A z : Ready(z) => Ready(z)', NEW x \in Scanlines, InTurn(x) PROVE InTurn(x)'
  <2>1. Off(g_next, x) + 0 < LINE_SLOTS
    <3>1. Off(g_next, x) + Passed < LINE_SLOTS
      BY <1>2 DEF InTurn
    <3> QED  BY <1>1, <3>1, InFrame, OffType, Reach
  <2> QED  BY <1>1, <1>2, <2>1 DEF InTurn, Off, Active, VTotal, VBlank
<1> QED  BY <1>1, <1>2 DEF RoundIsShort, Wanted, TInv, OnTime

LEMMA TimelyAllBuilt == SInv /\ EnoughSlots /\ TInv /\ AllBuilt => TInv'
<1> SUFFICES ASSUME SInv, EnoughSlots, TInv, AllBuilt PROVE TInv'
  OBVIOUS
<1>1. /\ UNCHANGED <<g_state, g_y, words, g_next, g_posted, feed, raised, beam, spent>>
      /\ pc = "scan" /\ InRound /\ RoundOver /\ Missing = {}
  BY DEF AllBuilt, slots, dma, wire, InRound
<1>2. /\ Due' = Due /\ Lead' = LINE_SLOTS - 3 - 2 * spent /\ Due \in {0, 1} /\ spent \in Nat /\ LINE_SLOTS \in Nat
      /\ Passed \in Nat /\ Behind = Passed + Due /\ g_next \in Scanlines
  BY <1>1, NewRound, InFrame, Reach
<1>3. \A z : Ready(z)' = Ready(z)
  BY <1>1 DEF Ready, LineOf
<1>4. Leads'
  <2>0. SUFFICES ASSUME NEW x \in Active, Off(g_next, x) < LINE_SLOTS - 3 - 2 * spent + Due PROVE Ready(x)
    BY <1>1, <1>2, <1>3 DEF Leads, Off, Active, VTotal, VBlank
  <2>1. x \in Scanlines /\ x >= VBlank /\ Off(g_next, x) \in Nat
    BY <1>2, OffType, Reach DEF Active
  <2>2. ~(beam <= spent)
    BY <1>2, <2>0, <2>1, Blanking
  <2>3. Behind <= 2 + spent
    BY <1>1, <2>2 DEF TInv, RoundIsShort, Late
  <2>4. Passed + Off(g_next, x) < LINE_SLOTS /\ Off(g_next, x) < LINE_SLOTS
    BY <1>2, <2>0, <2>1, <2>3
  <2>5. Off(seen, x) \in 0 .. LINE_SLOTS - 1
    BY <1>1, <1>2, <2>1, <2>4, FromSeen, Reach
  <2>6. Held(x - VBlank)
    BY <1>1, <2>1, <2>5, AheadIs DEF Missing
  <2> QED  BY <2>4, <2>6, HeldAhead
<1>5. Marked' /\ OneEach'
  BY <1>1 DEF TInv, Marked, OneEach, LineOf, Off
<1>6. RoundIsShort' /\ OnTime' /\ Wanted' /\ \A z \in Scanlines : InTurn(z) => InTurn(z)'
  BY <1>1, <1>3, RoundEnds
<1>7. ReadyInTurn'
  BY <1>1, <1>6, InFrame, SweptInTurn DEF ReadyInTurn, LineOf
<1> QED  BY <1>4, <1>5, <1>6, <1>7 DEF TInv

\* With every slot taken, the lines built reach as far as the slots do.
LEMMA AllTaken ==
    ASSUME SInv, EnoughSlots, TInv, pc = "pick", Free = {}, InTurn(want + VBlank)
    PROVE  Off(g_next, want + VBlank) >= LINE_SLOTS - 2
<1> DEFINE a == Off(g_next, want + VBlank)
           place == [s \in SlotIds |-> IF g_state[s] = "READY" THEN Off(g_next, LineOf(s)) + 2
                                                              ELSE Off(LineOf(s), g_next) - 1]
<1>1. /\ want \in Nat /\ want + VBlank \in Active /\ want + VBlank \in Scanlines /\ g_next \in Scanlines
      /\ \A s \in SlotIds : LineOf(s) \in Active /\ LineOf(s) \in Scanlines
      /\ \A s \in SlotIds : g_state[s] = "READY" \/ g_state[s] = "POSTED"
      /\ VTotal \in Nat /\ LINE_SLOTS \in Nat /\ LINE_SLOTS >= 4
  BY InFrame, Reach DEF Free
<1>2. a \in Nat
  BY <1>1, OffType
<1>3. ~Held(want)
  BY DEF TInv, Wanted
<1>4. ASSUME NEW s \in SlotIds, g_state[s] = "READY" PROVE place[s] \in 2 .. a + 1
  <2>1. Off(g_next, LineOf(s)) \in Nat /\ LineOf(s) # want + VBlank
    BY <1>1, <1>3, <1>4, OffType, OfLine DEF Held
  <2>2. Off(g_next, LineOf(s)) # a
    BY <1>1, <2>1, OffSame
  <2>3. ~(a < Off(g_next, LineOf(s)))
    <3> SUFFICES ASSUME a < Off(g_next, LineOf(s)) PROVE FALSE
      OBVIOUS
    <3>1. Ready(want + VBlank)
      BY <1>1, <1>4, SweptInTurn DEF InTurn
    <3> QED  BY <1>1, <1>3, <3>1, OfLine DEF Ready, Held
  <2> QED  BY <1>2, <1>4, <2>1, <2>2, <2>3
<1>5. ASSUME NEW s \in SlotIds, g_state[s] = "POSTED" PROVE place[s] \in {0, 1}
  BY <1>5 DEF TInv, Marked
<1>6. place \in [SlotIds -> 0 .. a + 1]
  BY <1>1, <1>2, <1>4, <1>5
<1>7. ASSUME NEW s \in SlotIds, NEW t \in SlotIds, s # t PROVE place[s] # place[t]
  <2>1. LineOf(s) # LineOf(t)
    BY <1>1, <1>7, OfLine DEF TInv, OneEach
  <2>2. /\ Off(g_next, LineOf(s)) # Off(g_next, LineOf(t))
        /\ Off(LineOf(s), g_next) # Off(LineOf(t), g_next)
    BY <1>1, <2>1, OffSame
  <2>3. /\ Off(g_next, LineOf(s)) \in Nat /\ Off(g_next, LineOf(t)) \in Nat
        /\ Off(LineOf(s), g_next) \in Nat /\ Off(LineOf(t), g_next) \in Nat
    BY <1>1, OffType
  <2>4. CASE g_state[s] = g_state[t]
    BY <1>1, <2>2, <2>3, <2>4
  <2>5. CASE g_state[s] # g_state[t]
    BY <1>1, <1>2, <1>4, <1>5, <2>5
  <2> QED  BY <2>4, <2>5
<1>8. /\ IsFiniteSet(SlotIds) /\ Cardinality(SlotIds) = LINE_SLOTS
      /\ IsFiniteSet(0 .. a + 1) /\ Cardinality(0 .. a + 1) = a + 2
  <2> HIDE DEF a
  <2>1. /\ IsFiniteSet(0 .. LINE_SLOTS - 1)
        /\ Cardinality(0 .. LINE_SLOTS - 1) = IF 0 > LINE_SLOTS - 1 THEN 0 ELSE LINE_SLOTS - 1 - 0 + 1
    BY <1>1, FS_Interval
  <2>2. /\ IsFiniteSet(0 .. a + 1)
        /\ Cardinality(0 .. a + 1) = IF 0 > a + 1 THEN 0 ELSE a + 1 - 0 + 1
    BY <1>2, FS_Interval
  <2> QED  BY <1>1, <1>2, <2>1, <2>2 DEF SlotIds
<1> HIDE DEF place, a
<1>9. Cardinality(SlotIds) <= Cardinality(0 .. a + 1)
  <2> SUFFICES ASSUME Cardinality(0 .. a + 1) < Cardinality(SlotIds) PROVE FALSE
    BY <1>1, <1>2, <1>8
  <2> DEFINE T == 0 .. a + 1
  <2> HIDE DEF T
  <2>1. IsFiniteSet(T) /\ Cardinality(T) < Cardinality(SlotIds) /\ place \in [SlotIds -> T]
    BY <1>6, <1>8 DEF T
  <2>2. \E s, t \in SlotIds : s # t /\ place[s] = place[t]
    BY <1>8, <2>1, FS_PigeonHole
  <2> QED  BY <1>7, <2>2
<1> QED  BY <1>1, <1>2, <1>8, <1>9 DEF a
LEMMA TimelyNoSlot == SInv /\ EnoughSlots /\ TInv /\ NoSlot => TInv'
<1> SUFFICES ASSUME SInv, EnoughSlots, TInv, NoSlot PROVE TInv'
  OBVIOUS
<1>1. /\ UNCHANGED <<g_state, g_y, words, g_next, g_posted, feed, raised, beam, spent>>
      /\ pc = "pick" /\ InRound /\ RoundOver /\ Free = {}
  BY DEF NoSlot, slots, dma, wire, InRound
<1>2. /\ Due' = Due /\ Lead' = LINE_SLOTS - 3 - 2 * spent /\ Due \in {0, 1} /\ spent \in Nat /\ LINE_SLOTS \in Nat
      /\ g_next \in Scanlines
  BY <1>1, NewRound, InFrame, Reach
<1>3. \A z : Ready(z)' = Ready(z)
  BY <1>1 DEF Ready, LineOf
<1>4. Leads'
  <2>0. SUFFICES ASSUME NEW x \in Active, Off(g_next, x) < LINE_SLOTS - 3 - 2 * spent + Due PROVE Ready(x)
    BY <1>1, <1>2, <1>3 DEF Leads, Off, Active, VTotal, VBlank
  <2>1. Off(g_next, x) \in Nat
    BY <1>2, OffType, Reach
  <2>2. CASE InTurn(want + VBlank)
    <3>1. Off(g_next, want + VBlank) >= LINE_SLOTS - 2 /\ Off(g_next, want + VBlank) \in Nat
      BY <1>1, <1>2, <2>2, AllTaken, InFrame, OffType
    <3>2. Off(g_next, x) < Off(g_next, want + VBlank)
      BY <1>2, <2>0, <2>1, <3>1
    <3> QED  BY <2>2, <3>2 DEF InTurn
  <2>3. CASE Behind >= 3
    <3>1. Lead = LINE_SLOTS - 3 - 2 * spent
      BY <1>1, <1>2, <2>3 DEF Lead
    <3> QED  BY <2>0, <3>1 DEF TInv, Leads
  <2> QED  BY <1>1, <2>2, <2>3 DEF TInv, Wanted
<1>5. Marked' /\ OneEach'
  BY <1>1 DEF TInv, Marked, OneEach, LineOf, Off
<1>6. RoundIsShort' /\ OnTime' /\ Wanted' /\ \A z \in Scanlines : InTurn(z) => InTurn(z)'
  BY <1>1, <1>3, RoundEnds
<1>7. ReadyInTurn'
  BY <1>1, <1>6, InFrame, SweptInTurn DEF ReadyInTurn, LineOf
<1> QED  BY <1>4, <1>5, <1>6, <1>7 DEF TInv

LEMMA TimelyBuilt == SInv /\ EnoughSlots /\ TInv /\ Built => TInv'
<1> SUFFICES ASSUME SInv, EnoughSlots, TInv, Built PROVE TInv'
  OBVIOUS
<1>1. /\ UNCHANGED <<g_next, g_posted, feed, raised, beam, spent>>
      /\ pc = "build" /\ InRound /\ RoundOver
  BY DEF Built, dma, wire, InRound
<1>2. /\ Due' = Due /\ Passed' = 0 /\ Lead' = LINE_SLOTS - 3 - 2 * spent /\ Due \in {0, 1} /\ spent \in Nat
      /\ LINE_SLOTS \in Nat /\ g_next \in Scanlines /\ Passed \in Nat /\ Behind = Passed + Due
      /\ Lead >= LINE_SLOTS - 4 - 2 * spent /\ Lead \in Nat
      /\ want \in Nat /\ want + VBlank \in Active /\ want + VBlank \in Scanlines
  BY <1>1, NewRound, InFrame, Reach
<1>3. slot \in SlotIds /\ g_state[slot] = "FREE"
  BY <1>1 DEF SInv, Building, SlotsHeld
<1> PICK new \in SlotIds, line \in Scanlines : new = slot /\ line = want + VBlank
  BY <1>2, <1>3
<1>0. line \in Active /\ g_state[new] = "FREE" /\ \A s \in SlotIds : LineOf(s) = line => g_y[s] = want
  BY <1>2, <1>3, OfLine
<1>4. \A s \in SlotIds : /\ g_state'[s] = IF s = new THEN "READY" ELSE g_state[s]
                         /\ g_y'[s] = IF s = new THEN want ELSE g_y[s]
                         /\ words'[s] = IF s = new THEN want ELSE words[s]
  BY <1>3 DEF Built, SInv, SlotsTypeOK
<1>5. \A s \in SlotIds : LineOf(s)' = IF s = new THEN line ELSE LineOf(s)
  BY <1>4, <1>2 DEF LineOf, VBlank
<1>6. /\ \A z : Ready(z) => Ready(z)'
      /\ Ready(line)'
  <2>1. \A z : Ready(z) => Ready(z)'
    BY <1>0, <1>4, <1>5 DEF Ready
  <2>2. g_state'[new] = "READY" /\ LineOf(new)' = line
    BY <1>4, <1>5
  <2>3. Ready(line)'
    BY <2>2 DEF Ready
  <2> QED  BY <2>1, <2>3
<1>7. ~Held(want)
  BY <1>1 DEF TInv, Wanted
<1>8. Leads'
  <2>0. SUFFICES ASSUME NEW x \in Active, Off(g_next, x) < LINE_SLOTS - 3 - 2 * spent + Due PROVE Ready(x)'
    BY <1>1, <1>2 DEF Leads, Off, Active, VTotal, VBlank
  <2>1. Off(g_next, x) \in Nat /\ x \in Scanlines
    <3>1. x \in Scanlines
      BY Reach
    <3> QED  BY <1>2, <3>1, OffType
  <2>2. CASE InTurn(line)
    <3>1. ~Ready(line)
      BY <1>0, <1>7 DEF Ready, Held
    <3>2. Off(g_next, line) \in Nat
      BY <1>2, OffType
    <3>3. Off(g_next, line) >= Lead + Due
      BY <1>2, <3>1, <3>2 DEF TInv, Leads
    <3>4. CASE Off(g_next, x) < Off(g_next, line)
      BY <1>6, <2>2, <3>4 DEF InTurn
    <3>5. CASE Off(g_next, x) = Off(g_next, line)
      <4>1. x = line
        BY <1>2, <2>1, <3>5, OffSame
      <4> QED  BY <1>6, <4>1
    <3> QED  BY <1>2, <2>0, <2>1, <3>2, <3>3, <3>4, <3>5
  <2>3. CASE Behind >= 3
    <3>1. Lead = LINE_SLOTS - 3 - 2 * spent
      BY <1>1, <1>2, <2>3 DEF Lead
    <3> QED  BY <1>6, <2>0, <3>1 DEF TInv, Leads
  <2> QED  BY <1>1, <2>2, <2>3 DEF TInv, Wanted
<1>9. Marked'
  BY <1>0, <1>1, <1>4, <1>5 DEF TInv, Marked, Off, VTotal, VBlank
<1>10. OneEach'
  BY <1>0, <1>4, <1>7 DEF TInv, OneEach, Held
<1>11. RoundIsShort' /\ OnTime' /\ Wanted' /\ \A z \in Scanlines : InTurn(z) => InTurn(z)'
  BY <1>1, <1>6, RoundEnds
<1>12. InTurn(line) => InTurn(LineOf(new))'
  <2>1. InTurn(line) => InTurn(line)'
    BY <1>11
  <2>2. LineOf(new)' = line
    BY <1>5
  <2>3. InTurn(LineOf(new))' <=> InTurn(line)'
    BY <2>2 DEF InTurn
  <2> QED  BY <2>1, <2>3
<1>13. ASSUME Behind >= 3, Off(line, g_next) \in 1 .. Passed PROVE Gone(LineOf(new))'
  <2>1. LineOf(new)' = line
    BY <1>5
  <2>2. Off(line, g_next)' = Off(line, g_next) /\ Off(line, g_next) \in Nat
    BY <1>1, <1>2, OffType DEF Off, VBlank, VTotal
  <2>3. Off(line, g_next) > 0 /\ Off(line, g_next) + Due <= Behind
    BY <1>2, <1>13
  <2>4. Late(Behind) /\ lag' = 0 /\ Slack \in Nat
    BY <1>1, Reach DEF TInv, RoundIsShort, RoundOver
  <2>5. \/ Off(line, g_next) + Due <= 2 + 0 + spent
        \/ Off(line, g_next) + Due <= 2 + 0 + Slack + spent /\ beam <= spent + 0
    BY <1>2, <2>2, <2>3, <2>4, InFrame DEF Late, Scanlines
  <2> QED  BY <1>1, <1>2, <2>1, <2>2, <2>3, <2>4, <2>5 DEF Gone
<1>14. ReadyInTurn'
  <2> SUFFICES ASSUME NEW s \in SlotIds, g_state'[s] = "READY"
               PROVE  InTurn(LineOf(s))' \/ Gone(LineOf(s))'
    BY <1>1 DEF ReadyInTurn, RoundOver
  <2>1. CASE s = new
    <3>1. InTurn(line) \/ (Behind >= 3 /\ Off(line, g_next) \in 1 .. Passed)
      BY <1>1 DEF TInv, Wanted
    <3>2. InTurn(LineOf(new))' \/ Gone(LineOf(new))'
      BY <1>12, <1>13, <3>1
    <3> QED  BY <2>1, <3>2
  <2>2. CASE s # new
    <3>1. g_state[s] = "READY" /\ LineOf(s)' = LineOf(s) /\ LineOf(s) \in Scanlines
      BY <1>4, <1>5, <2>2, InFrame
    <3>2. InTurn(LineOf(s))
      BY <1>1, <3>1, SweptInTurn
    <3> PICK x : x = LineOf(s)
      OBVIOUS
    <3>3. InTurn(x)'
      BY <1>11, <3>1, <3>2
    <3>4. InTurn(LineOf(s))' <=> InTurn(x)'
      BY <3>1 DEF InTurn
    <3> QED  BY <3>3, <3>4
  <2> QED  BY <2>1, <2>2
<1> QED  BY <1>8, <1>9, <1>10, <1>11, <1>14 DEF TInv

LEMMA TimelyStays == SInv /\ EnoughSlots /\ TInv /\ [SlotsNext]_slotsVars => TInv'
<1> SUFFICES ASSUME SInv, EnoughSlots, TInv, [SlotsNext]_slotsVars PROVE TInv'
  OBVIOUS
<1>1. CASE UNCHANGED slotsVars
  BY <1>1 DEF TInv, Leads, RoundIsShort, Marked, OneEach, ReadyInTurn, Wanted, OnTime, Late, Behind, Passed, Due,
              InRound, Lead, Ready, LineOf, Off, Active, InTurn, Gone, Held, VBlank, VTotal, slotsVars, slots, dma,
              loop, wire, pace
<1> QED  BY <1>1, TimelyLineEnds, TimelyIrq, TimelyReadNext, TimelySweep, TimelyAllBuilt, TimelyScan, TimelyNoSlot,
            TimelyPick, TimelyBuilt DEF SlotsNext, Core1

(***************************************************************************)
(* With slots enough for the line times it may lose, core 1 is never late: *)
(* the interrupt always finds the line due next built, and sends no line   *)
(* black.                                                                  *)
(***************************************************************************)
THEOREM InTime ==
    ASSUME EnoughSlots
    PROVE  SlotsSpec => []OnTime
<1>1. SlotsInit => TInv
  BY TimelyInit
<1>2. SInv /\ TInv /\ [SlotsNext]_slotsVars => TInv'
  BY TimelyStays
<1>3. TInv => OnTime
  BY DEF TInv
<1>4. SlotsSpec => []SInv
  BY InStepAlways
<1> QED  BY <1>1, <1>2, <1>3, <1>4, PTL DEF SlotsSpec
=============================================================================
