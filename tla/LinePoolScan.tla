---------------------------- MODULE LinePoolScan -----------------------------
(***************************************************************************)
(* The line pool between its two cores: the renderer on core 0 commits     *)
(* lines (LinePool) while the scanout on core 1 reads whatever line the    *)
(* beam needs next (build_line in src/src/pico/scanout_hstx.c, the reader  *)
(* half of src/src/common/linepool.h).                                     *)
(*                                                                         *)
(* The ring's own variables are core 0's bookkeeping.  What the cores      *)
(* share is the published records, stored field by field and loaded as two *)
(* words, and the reader guard.  There is no lock: every load and store of *)
(* a shared word is a step of its own.  A line of core 0 goes through      *)
(*                                                                         *)
(*    idle -> len -> off -> fill -> stores of the record -> idle           *)
(*                                                                         *)
(* (the two samples of guard_wait, the copy, the publication), a read of   *)
(* core 1 through                                                          *)
(*                                                                         *)
(*    idle -> load the two words -> guard off -> guard len -> read -> idle *)
(*                                                                         *)
(* starting over one line up while the record is a duplicate.              *)
(***************************************************************************)
EXTENDS LinePool, Sequences

VARIABLES
    pub,      \* lp->line: the records as core 1 sees them
    guard,    \* reader_off and reader_len
    wpc,      \* where core 0 is
    todo,     \* the stores of the record that are still to be made
    size,     \* bytes the encoder produced
    sample,   \* reader_len as guard_wait loaded it
    rpc,      \* where core 1 is
    ry,       \* the line it is reading
    r,        \* its copy of the record
    missing,  \* the words of the record it has not loaded yet
    moved     \* history: line ry was touched since the first of these loads

shared == <<pub, guard>>
writer == <<wpc, todo, size, sample>>
reader == <<rpc, ry, r, missing, moved>>
scanVars == <<vars, shared, writer, reader>>

DupRecord == [off |-> 0, len |-> 0, dup |-> TRUE]

ScanInit ==
    /\ Init
    /\ pub = [k \in Ys |-> DupRecord]
    /\ guard = [off |-> 0, len |-> 0]
    /\ wpc = "idle" /\ todo = <<>> /\ size = 0 /\ sample = 0
    /\ rpc = "idle" /\ ry = 0 /\ r = DupRecord /\ missing = {} /\ moved = FALSE

-----------------------------------------------------------------------------
(***************************************************************************)
(* Core 0.  The stores of a record, in program order.                      *)
(***************************************************************************)
Store(field, value) == [field |-> field, value |-> value]

\* Mutant: the length is cleared before the line is marked a duplicate.
DupStoresLenFirst == <<Store("len", 0), Store("dup", TRUE), Store("off", 0)>>

DupStores == <<Store("dup", TRUE), Store("len", 0), Store("off", 0)>>

LineStores(o, n) == <<Store("off", o), Store("len", n), Store("dup", FALSE)>>

\* linepool_alloc, up to its call of guard_wait.
Reserve ==
    /\ wpc = "idle"
    /\ \E m \in 1 .. MaxLen : Alloc(m)
    /\ wpc' = "len"
    /\ UNCHANGED <<shared, todo, size, sample, reader>>

\* guard_wait: load reader_len, then reader_off, until the two say the range is free.
SampleLen ==
    /\ wpc = "len"
    /\ sample' = guard.len
    /\ wpc' = IF guard.len = 0 THEN "fill" ELSE "off"
    /\ UNCHANGED <<vars, shared, todo, size, reader>>

SampleOff ==
    /\ wpc = "off"
    /\ wpc' = IF Apart(at, cap, guard.off, sample) THEN "fill" ELSE "len"
    /\ sample' = 0
    /\ UNCHANGED <<vars, shared, todo, size, reader>>

\* The copy of the encoded bytes is over; the record is stored next.  A line of blank_pool may
\* turn out not to encode into what it reserved.
Filled ==
    /\ wpc = "fill"
    /\ \/ \E n \in 1 .. cap : size' = n /\ todo' = LineStores(at, n)
       \/ size' = 0 /\ todo' = DupStores
    /\ wpc' = "store"
    /\ UNCHANGED <<vars, shared, sample, reader>>

\* No room, or no encoding: the line becomes a duplicate without an allocation.
GiveUp ==
    /\ wpc = "idle"
    /\ size' = 0 /\ todo' = DupStores
    /\ wpc' = "store"
    /\ UNCHANGED <<vars, shared, sample, reader>>

StoreField ==
    /\ wpc = "store" /\ todo # <<>>
    /\ pub' = [pub EXCEPT ![y] = [@ EXCEPT ![Head(todo).field] = Head(todo).value]]
    /\ todo' = Tail(todo)
    /\ moved' = (moved \/ (rpc # "idle" /\ ry = y))
    /\ UNCHANGED <<vars, guard, wpc, size, sample, rpc, ry, r, missing>>

\* The record is out: the old bytes are released and the next line is up.
Release ==
    /\ wpc = "store" /\ todo = <<>>
    /\ \/ size > 0 /\ Commit(size)
       \/ size = 0 /\ cap > 0 /\ Discard
       \/ size = 0 /\ cap = 0 /\ (EncodeFail \/ \E m \in 1 .. MaxLen : AllocFail(m))
    /\ wpc' = "idle" /\ size' = 0
    /\ UNCHANGED <<shared, todo, sample, reader>>

Writer == Reserve \/ SampleLen \/ SampleOff \/ Filled \/ GiveUp \/ StoreField \/ Release

-----------------------------------------------------------------------------
(***************************************************************************)
(* Core 1.                                                                 *)
(***************************************************************************)
StartLoad(k) ==
    /\ ry' = k /\ missing' = {"off", "len"} /\ rpc' = "load"
    /\ moved' = (wpc = "store" /\ y = k)

\* The beam needs line k.
Want ==
    /\ rpc = "idle"
    /\ \E k \in Ys : StartLoad(k)
    /\ UNCHANGED <<vars, shared, writer, r>>

\* One word of the record: off, or len and flags together.  The compiler picks the order.
LoadWord ==
    /\ rpc = "load"
    /\ \E word \in missing :
         /\ r' = IF word = "off" THEN [r EXCEPT !.off = pub[ry].off]
                 ELSE [r EXCEPT !.len = pub[ry].len, !.dup = pub[ry].dup]
         /\ missing' = missing \ {word}
         /\ rpc' = IF missing = {word} THEN "guard" ELSE "load"
    /\ UNCHANGED <<vars, shared, writer, ry, moved>>

GuardOff ==
    /\ rpc = "guard"
    /\ guard' = [guard EXCEPT !.off = r.off]
    /\ rpc' = "guarded"
    /\ UNCHANGED <<vars, pub, writer, ry, r, missing, moved>>

GuardLen ==
    /\ rpc = "guarded"
    /\ guard' = [guard EXCEPT !.len = r.len]
    /\ rpc' = "read"
    /\ UNCHANGED <<vars, pub, writer, ry, r, missing, moved>>

\* linepool_reader_done; a duplicate is looked up one line higher, line 0 shows black.
ReadDone ==
    /\ rpc = "read"
    /\ guard' = [guard EXCEPT !.len = 0]
    /\ r' = DupRecord
    /\ IF r.dup /\ ry > 0 THEN StartLoad(ry - 1)
       ELSE rpc' = "idle" /\ ry' = 0 /\ moved' = FALSE /\ UNCHANGED missing
    /\ UNCHANGED <<vars, pub, writer>>

Reader == Want \/ LoadWord \/ GuardOff \/ GuardLen \/ ReadDone

ScanNext == Writer \/ Reader

ScanSpec == ScanInit /\ [][ScanNext]_scanVars

-----------------------------------------------------------------------------
(***************************************************************************)
(* Types, and that between two lines the published records are the ones    *)
(* the allocator keeps its books by.                                       *)
(***************************************************************************)
ScanTypeOK ==
    /\ TypeOK
    /\ pub \in [Ys -> [off : 0 .. Size - 1, len : 0 .. MaxLen, dup : BOOLEAN]]
    /\ guard \in [off : 0 .. Size - 1, len : 0 .. MaxLen]
    /\ wpc \in {"idle", "len", "off", "fill", "store"} /\ Len(todo) <= 3 /\ size \in 0 .. cap
    /\ sample \in 0 .. MaxLen
    /\ rpc \in {"idle", "load", "guard", "guarded", "read"} /\ ry \in Ys
    /\ r \in [off : 0 .. Size - 1, len : 0 .. MaxLen, dup : BOOLEAN]
    /\ missing \subseteq {"off", "len"} /\ moved \in BOOLEAN
    /\ wpc # "store" => \A k \in Ys : pub[k] = [off |-> off[k], len |-> len[k], dup |-> dup[k]]

Reading == rpc = "read" /\ ~r.dup

(***************************************************************************)
(* "A DUP flag is always seen before the len it belongs to" (linepool.c):  *)
(* a record taken for a line of pixels has pixels, however its two words   *)
(* were torn.                                                              *)
(***************************************************************************)
SpansOrDup == Reading => r.len > 0

(***************************************************************************)
(* A line that is not being replaced reads clean: as long as core 0 has    *)
(* not been at the record since core 1 began to load it, the copy is the   *)
(* record, and nothing is written over the bytes core 1 reads.             *)
(***************************************************************************)
CleanRead ==
    Reading /\ ~moved =>
        /\ r.off = off[ry] /\ r.len = len[ry]
        /\ wpc = "fill" => Apart(at, cap, r.off, r.len)
=============================================================================
