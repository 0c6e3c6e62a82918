------------------------------ MODULE LinePool ------------------------------
(***************************************************************************)
(* The ring allocator of src/src/common/linepool.c, as the renderer drives *)
(* it (line_sink in src/src/pico/kiosk_loop.c, blank_pool in               *)
(* src/src/pico/main.c).                                                   *)
(*                                                                         *)
(* One byte pool holds the run-length bytes of every line on the screen.   *)
(* The renderer replaces the lines in ascending order, frame after frame;  *)
(* for each it reserves a contiguous range, copies the encoded bytes into  *)
(* it and commits, which frees the bytes the line had before.  A line that *)
(* does not fit is committed as a duplicate of the line above it.          *)
(*                                                                         *)
(* The bytes themselves are not modelled here: a line is the range of the  *)
(* pool it occupies.  The other core, which reads the pool while this one  *)
(* writes it, is in LinePoolScan.                                          *)
(***************************************************************************)
EXTENDS Integers, FiniteSets

CONSTANTS
    Size,    \* bytes in the pool
    Lines,   \* lines of the video mode
    MaxLen   \* largest encoded line (LINE_MAX_BYTES)

ASSUME SizeAssumption == Size \in Nat \ {0}
ASSUME LinesAssumption == Lines \in Nat \ {0}
ASSUME MaxLenAssumption == MaxLen \in Nat \ {0}

VARIABLES
    head,   \* next write offset
    tail,   \* oldest live byte
    live,   \* the C field live: bytes between tail and head
    off,    \* line[k].off
    len,    \* line[k].len, 0 for a line without bytes
    dup,    \* line[k].flags = LINE_FLAG_DUP_PREV
    y,      \* the line the renderer replaces next
    at,     \* offset of the outstanding allocation
    cap     \* its length; 0 when none is outstanding

vars == <<head, tail, live, off, len, dup, y, at, cap>>

Ys == 0 .. Lines - 1

HasBytes(ln) == {k \in Ys : ln[k] > 0}

RingDist(from, to) == IF to >= from THEN to - from ELSE to + Size - from

(***************************************************************************)
(* Line order in the ring when c is the next line to be replaced: the old  *)
(* lines c, c+1, ... first, then the new lines 0 .. c-1.                   *)
(***************************************************************************)
Before(c, j, k) == \/ j >= c /\ k < c
                   \/ j >= c /\ k >= c /\ j < k
                   \/ j < c /\ k < c /\ j < k

-----------------------------------------------------------------------------
(***************************************************************************)
(* Allocation.  h and t are head and tail after the restart of an empty    *)
(* ring.  NoRoom stands for the NULL result.                               *)
(***************************************************************************)
NoRoom == -1

\* Mutant: the unused byte that tells a full ring from an empty one is given away.
PlaceFills(h, t, m) ==
    IF m > Size - live THEN NoRoom
    ELSE IF h < t THEN IF h + m <= t THEN h ELSE NoRoom
    ELSE IF h + m <= Size THEN h
    ELSE IF m <= t THEN 0 ELSE NoRoom

Place(h, t, m) ==
    IF m >= Size - live THEN NoRoom
    ELSE IF h < t THEN IF h + m < t THEN h ELSE NoRoom
    ELSE IF h + m <= Size THEN h
    ELSE IF m < t THEN 0 ELSE NoRoom

\* An empty ring starts over at offset 0.
StartHead == IF live = 0 THEN 0 ELSE head
StartTail == IF live = 0 THEN 0 ELSE tail

\* Start of the live line that follows line k in ring order; k itself is the last candidate.
NextLive(k, ln) == CHOOSE i \in HasBytes(ln) :
                       \A j \in HasBytes(ln) \ {i} : Before(k + 1, i, j)

\* The live offset farthest behind the head, or the head when nothing is live.
OldestLiveOff(of, ln, h) ==
    CHOOSE o \in {of[k] : k \in HasBytes(ln)} \cup {h} :
        \A k \in HasBytes(ln) : RingDist(of[k], h) <= RingDist(o, h)

\* Mutant: the padding behind a wrap is not skipped.
TailAfterNoSkip(k, t) ==
    IF HasBytes(len') = {} THEN head' ELSE t

\* Where the tail goes when the freed range ended at t: onto the next live line if the
\* writer wrapped in between (the rest of the ring was padding), to the head if none is left.
TailAfter(k, t) ==
    IF HasBytes(len') = {} THEN head'
    ELSE IF off'[NextLive(k, len')] < t THEN off'[NextLive(k, len')] ELSE t

\* Releases the range line k had before, now that its new record is in place.  t0 is the tail
\* and liveNow the live count at that point.
FreeOld(k, t0, liveNow) ==
    /\ tail' = IF len[k] = 0 THEN t0
               ELSE IF off[k] = t0 THEN TailAfter(k, off[k] + len[k])
               ELSE OldestLiveOff(off', len', head')
    /\ live' = IF len[k] = 0 THEN liveNow ELSE RingDist(tail', head')

NextLine == y' = IF y + 1 = Lines THEN 0 ELSE y + 1

\* Mutant: the duplicate line's old bytes are not released.
CommitDupLeak(t0) ==
    /\ dup' = [dup EXCEPT ![y] = TRUE]
    /\ len' = [len EXCEPT ![y] = 0]
    /\ off' = [off EXCEPT ![y] = 0]
    /\ tail' = t0
    /\ live' = live
    /\ NextLine

\* linepool_commit_dup: the line loses its bytes and repeats the one above.
CommitDup(t0) ==
    /\ dup' = [dup EXCEPT ![y] = TRUE]
    /\ len' = [len EXCEPT ![y] = 0]
    /\ off' = [off EXCEPT ![y] = 0]
    /\ FreeOld(y, t0, live)
    /\ NextLine

-----------------------------------------------------------------------------
(***************************************************************************)
(* linepool_init leaves every line a duplicate and the ring empty.         *)
(***************************************************************************)
Init ==
    /\ head = 0 /\ tail = 0 /\ live = 0
    /\ off = [k \in Ys |-> 0]
    /\ len = [k \in Ys |-> 0]
    /\ dup = [k \in Ys |-> TRUE]
    /\ y = 0
    /\ at = 0 /\ cap = 0

\* linepool_alloc finds room: at the head, or at 0 after padding the end of the ring.
Alloc(m) ==
    LET p == Place(StartHead, StartTail, m) IN
    /\ cap = 0
    /\ p # NoRoom
    /\ at' = p
    /\ cap' = m
    /\ head' = p
    /\ tail' = StartTail
    /\ live' = IF p = StartHead THEN live ELSE live + Size - head
    /\ UNCHANGED <<off, len, dup, y>>

\* linepool_alloc returns NULL and the caller publishes a duplicate line.
AllocFail(m) ==
    /\ cap = 0
    /\ Place(StartHead, StartTail, m) = NoRoom
    /\ head' = StartHead
    /\ CommitDup(StartTail)
    /\ UNCHANGED <<at, cap>>

\* The encoder could not express the line at all: no allocation, a duplicate line.
EncodeFail ==
    /\ cap = 0
    /\ head' = head
    /\ CommitDup(tail)
    /\ UNCHANGED <<at, cap>>

\* linepool_commit with the n bytes that were copied into the allocation.
Commit(n) ==
    /\ cap > 0 /\ n <= cap
    /\ off' = [off EXCEPT ![y] = at]
    /\ len' = [len EXCEPT ![y] = n]
    /\ dup' = [dup EXCEPT ![y] = FALSE]
    /\ head' = at + n
    /\ FreeOld(y, tail, RingDist(tail, at + n))
    /\ NextLine
    /\ at' = 0 /\ cap' = 0

\* blank_pool: the line did not encode into its allocation, which is dropped.
Discard ==
    /\ cap > 0
    /\ head' = head
    /\ CommitDup(tail)
    /\ at' = 0 /\ cap' = 0

Next ==
    \/ \E m \in 1 .. MaxLen : Alloc(m) \/ AllocFail(m) \/ Commit(m)
    \/ EncodeFail
    \/ Discard

Spec == Init /\ [][Next]_vars

-----------------------------------------------------------------------------
TypeOK ==
    /\ head \in 0 .. Size
    /\ tail \in 0 .. Size
    /\ live \in 0 .. Size
    /\ off \in [Ys -> 0 .. Size - 1]
    /\ len \in [Ys -> 0 .. MaxLen]
    /\ dup \in [Ys -> BOOLEAN]
    /\ y \in Ys
    /\ at \in 0 .. Size - 1
    /\ cap \in 0 .. MaxLen

EndOf(k) == off[k] + len[k]
Apart(a, la, b, lb) == a + la <= b \/ b + lb <= a

(***************************************************************************)
(* No byte of the pool belongs to two lines, nothing lies outside it, and  *)
(* the range handed out for the line being written holds no byte of a      *)
(* published line: the copy into it changes nothing that is on the screen. *)
(***************************************************************************)
LinesDisjoint ==
    /\ \A k \in HasBytes(len) : EndOf(k) <= Size
    /\ \A j, k \in HasBytes(len) : j # k => Apart(off[j], len[j], off[k], len[k])
    /\ cap > 0 => /\ at + cap <= Size
                  /\ \A k \in HasBytes(len) : Apart(off[k], len[k], at, cap)

(***************************************************************************)
(* The line about to be replaced, if it has bytes, starts at the tail: the *)
(* renderer's ascending order makes every free an in-order free, and the   *)
(* search for the oldest line (oldest_live_off) is never needed.           *)
(***************************************************************************)
OldLineAtTail == len[y] # 0 => off[y] = tail

(***************************************************************************)
(* The cached count agrees with the pointers, and the ring is empty when   *)
(* it says so: restarting at offset 0 then cannot land on a live line.     *)
(***************************************************************************)
LiveCount ==
    /\ live = RingDist(tail, head)
    /\ live = 0 => HasBytes(len) = {}

(***************************************************************************)
(* No space leaks.  Padding and out-of-order frees never add up: a line of *)
(* m bytes is refused only when published lines hold all but m + MaxLen of *)
(* the pool's bytes, so a frame that leaves that much room always fits.    *)
(***************************************************************************)
UsedBytes == {b \in 0 .. Size - 1 : \E k \in HasBytes(len) : off[k] <= b /\ b < EndOf(k)}

RefusedOnlyWhenFull ==
    [][\A m \in 1 .. MaxLen :
          AllocFail(m) => Cardinality(UsedBytes) > Size - m - MaxLen]_vars
=============================================================================
