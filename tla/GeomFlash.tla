------------------------------ MODULE GeomFlash ------------------------------
(***************************************************************************)
(* The geometry cache in flash (src/src/common/geom_flash.c with the write *)
(* half of geom_common.c): a static set streams into NOR flash while the   *)
(* power may fail between any two flash operations.                        *)
(*                                                                         *)
(* The region is a row of pages.  Two header pages, each in a sector of    *)
(* its own, stand for the 25 that hold magic, id, CRC (page 0, with the    *)
(* first slice of the index) and the rest of the index (page 1).  Data     *)
(* pages hold units of record bytes.  A call of the store changes its RAM  *)
(* at once and leaves the flash operations it makes in todo; they are      *)
(* carried out one by one before the next call.  Erasing a sector or a     *)
(* block and programming a page are atomic.                                *)
(***************************************************************************)
EXTENDS Integers, Sequences, FiniteSets

CONSTANTS
    Ids,          \* ids of static sets
    NoId,         \* the empty id
    Defs,         \* ids of the definitions of a set
    Payloads,     \* what a definition may look like
    ShortSizes,   \* sizes of a circle's or a group's record, its trailer included, in units
    MaxVertices,  \* bound: vertices of a polygon
    MaxRecords,   \* bound: records fed into one transfer
    Modes,        \* output resolutions
    RegionPages,  \* pages of the region
    BlockPages,   \* pages erased together
    PageUnits     \* units in a page

HdrPages == 2
DataMax == (RegionPages - HdrPages) * PageUnits

ASSUME RegionAssumption == RegionPages \in Nat /\ RegionPages > HdrPages
ASSUME BlockAssumption == BlockPages \in Nat \ {0} /\ PageUnits \in Nat \ {0}
\* 28 and 16 .. 144 bytes: a circle or a group fits in the write-combining buffer.
ASSUME SizesAssumption == ShortSizes \subseteq 1 .. PageUnits
ASSUME IdsAssumption == NoId \notin Ids \cup Modes \cup Defs
ASSUME BoundsAssumption == MaxVertices \in Nat /\ MaxRecords \in Nat

VARIABLES
    flash,   \* content of each page: a sequence, empty when erased
    todo,    \* flash operations the current call still makes
    g,       \* geom_store_t and flash_impl_t
    fed      \* records fed into the current transfer

vars == <<flash, todo, g, fed>>

Pages == 0 .. RegionPages - 1
DataPages == HdrPages .. RegionPages - 1
Absent == 0
EmptyIndex == [d \in Defs |-> Absent]

Erase(S) == [op |-> "erase", pages |-> S, data |-> <<>>]
Program(p, c) == [op |-> "program", pages |-> {p}, data |-> c]

\* A record is data units (here k = 1, 2, ... of definition i as v draws it) and, last, a trailer
\* that counts them all.
Unit(i, n, v, k) == [def |-> i, n |-> n, v |-> v, k |-> k]
Data(i, v, k) == Unit(i, 0, v, k)
Trailer(i, n, v) == Unit(i, n, v, n)
RecordUnits(i, n, v) == [k \in 1 .. n |-> IF k < n THEN Data(i, v, k) ELSE Trailer(i, n, v)]

-----------------------------------------------------------------------------
(***************************************************************************)
(* Reading the region.                                                     *)
(***************************************************************************)
\* Unit j of the data area as the XIP window shows it; erased flash reads as NoUnit.
NoUnit == Unit(NoId, 0, 0, 0)
DataUnit(f, j) ==
    LET page == f[HdrPages + (j - 1) \div PageUnits]
        slot == 1 + ((j - 1) % PageUnits)
    IN IF slot <= Len(page) THEN page[slot] ELSE NoUnit
DataUnits(f, n) == [j \in 1 .. n |-> DataUnit(f, j)]

Written(f) == f[0] # <<>>
Header(f) == f[0][1]
IndexOf(f) == IF f[1] = <<>> THEN EmptyIndex ELSE f[1][1]

\* The CRC stands for the units it was computed over.
CrcMatches(f) == DataUnits(f, Len(Header(f).crc)) = Header(f).crc

NoRecord == [n |-> 0, v |-> 0]
Broken == [n |-> -1, v |-> 0]

\* geom_store_get: the trailer at position off of the units us is one of i, and its data precede it.
IsRecord(i, off, us) ==
    /\ off \in 1 .. Len(us)
    /\ us[off].def = i /\ us[off].n \in 1 .. off
    /\ \A k \in 1 .. us[off].n - 1 : us[off - us[off].n + k] = Data(i, us[off].v, k)

RecordAt(i, off, us) ==
    IF off = Absent THEN NoRecord
    ELSE IF IsRecord(i, off, us) THEN [n |-> us[off].n, v |-> us[off].v] ELSE Broken

Records(index, us) == [i \in Defs |-> RecordAt(i, index[i], us)]

Nothing == [id |-> NoId, wh |-> NoId, recs |-> [i \in Defs |-> NoRecord]]

\* The set a restart would find (load_header, the CRC included).
Found(f) ==
    IF ~Written(f) THEN Nothing
    ELSE IF ~CrcMatches(f) THEN Nothing
    ELSE LET h == Header(f) IN
         [id |-> h.id, wh |-> h.wh, recs |-> Records(IndexOf(f), DataUnits(f, Len(h.crc)))]
Stored == Found(flash)

\* The set being received: what the index built in RAM names.
Draft ==
    IF ~g.writing THEN Nothing
    ELSE [id |-> g.wrId, wh |-> g.res, recs |-> Records(g.wrIndex, g.crc)]

-----------------------------------------------------------------------------
(***************************************************************************)
(* The store in RAM.  crc is the running CRC, so its length is also        *)
(* data_len and the write cursor; wbuf is the write-combining buffer, rec  *)
(* the polygon under way.                                                  *)
(***************************************************************************)
NoPoly == [def |-> NoId, v |-> 0, k |-> 0, failed |-> FALSE]
Poly(i, v, k, failed) == [def |-> i, v |-> v, k |-> k, failed |-> failed]

Ram(mode) ==
    [res |-> mode, present |-> FALSE, open |-> FALSE, id |-> NoId, wh |-> NoId, crcState |-> 0,
     writing |-> FALSE, wrId |-> NoId, wrIndex |-> EmptyIndex, dropped |-> 0,
     rec |-> NoPoly, wbuf |-> <<>>,
     page |-> <<>>, pageOff |-> 0, erasedUpto |-> 0, crc |-> <<>>, committing |-> FALSE]

EndWrite(s) == [s EXCEPT !.writing = FALSE, !.wrIndex = EmptyIndex, !.committing = FALSE,
                         !.rec = NoPoly, !.wbuf = <<>>]

Init ==
    /\ flash = [p \in Pages |-> <<>>]
    /\ todo = <<>>
    /\ g \in {Ram(m) : m \in Modes}
    /\ fed = 0

\* Mutant: what the last transfer erased counts as erased.
BeginRamKeepsErased(s, id) ==
    [s EXCEPT !.wrIndex = EmptyIndex, !.dropped = 0, !.wrId = id, !.writing = TRUE,
              !.rec = NoPoly, !.wbuf = <<>>,
              !.present = FALSE, !.open = FALSE,
              !.pageOff = HdrPages, !.page = <<>>, !.crc = <<>>,
              !.erasedUpto = IF s.erasedUpto = 0 THEN HdrPages ELSE s.erasedUpto]

BeginRam(s, id) ==
    [s EXCEPT !.wrIndex = EmptyIndex, !.dropped = 0, !.wrId = id, !.writing = TRUE,
              !.rec = NoPoly, !.wbuf = <<>>,
              !.present = FALSE, !.open = FALSE,
              !.pageOff = HdrPages, !.page = <<>>, !.crc = <<>>, !.erasedUpto = HdrPages]

\* Mutant: the sector with the magic goes last.
EraseHeaderLast == <<Erase({1}), Erase({0})>>

EraseHeader == <<Erase({0}), Erase({1})>>

\* geom_store_begin; the decoder may not know the id yet.
Begin(id) ==
    /\ todo = <<>> /\ ~g.writing
    /\ g' = BeginRam(g, id)
    /\ todo' = EraseHeader
    /\ fed' = 0
    /\ UNCHANGED flash

\* A call of the store may be made that needs a transfer under way.
Receiving == todo = <<>> /\ g.writing /\ ~g.committing

SetId(id) ==
    /\ Receiving
    /\ g' = [g EXCEPT !.wrId = id]
    /\ UNCHANGED <<flash, todo, fed>>

\* ensure_erased: block by block up to the page that is programmed next.
NextBlockEnd(p) == LET b == (p \div BlockPages + 1) * BlockPages IN
                   IF b > RegionPages THEN RegionPages ELSE b

\* flush_page: the flash operations, and the store after them.
FlushOps(s) ==
    (IF s.erasedUpto < s.pageOff + 1 THEN <<Erase(s.erasedUpto .. NextBlockEnd(s.erasedUpto) - 1)>> ELSE <<>>)
    \o <<Program(s.pageOff, s.page)>>

FlushRam(s) ==
    [s EXCEPT !.erasedUpto = IF @ < s.pageOff + 1 THEN NextBlockEnd(@) ELSE @,
              !.pageOff = @ + 1, !.page = <<>>]

\* flash_append of at most a page of units: the page they fill is flushed, the rest starts the next.
Fits(s, us) == Len(s.crc) + Len(us) <= DataMax
Filled(s, us) == [s EXCEPT !.page = SubSeq(s.page \o us, 1, PageUnits)]

AppendOps(s, us) == IF Len(s.page \o us) < PageUnits THEN <<>> ELSE FlushOps(Filled(s, us))

AppendRam(s, us) ==
    LET all == s.page \o us IN
    IF Len(all) < PageUnits THEN [s EXCEPT !.page = all, !.crc = @ \o us, !.wbuf = <<>>]
    ELSE [FlushRam(Filled(s, us)) EXCEPT !.page = SubSeq(all, PageUnits + 1, Len(all)),
                                         !.crc = @ \o us, !.wbuf = <<>>]

\* put, once the units it takes have filled the write-combining buffer, and finish_record, which
\* flushes it: the chunk goes to flash, or is refused whole and what went before stays.
Flush(us, taken, refused) ==
    \/ Fits(g, us) /\ g' = taken /\ todo' = AppendOps(g, us)
    \/ ~Fits(g, us) /\ g' = refused /\ UNCHANGED todo

\* A record that did not fit is dropped and the transfer goes on.
Dropped == [g EXCEPT !.dropped = @ + 1, !.rec = NoPoly, !.wbuf = <<>>]

\* finish_record, us being the last units of a record of i, its trailer included.
FinishRecord(i, us) ==
    Flush(us, [AppendRam(g, us) EXCEPT !.rec = NoPoly, !.wrIndex = [@ EXCEPT ![i] = Len(g.crc) + Len(us)]],
          Dropped)

\* geom_store_add_circle, geom_store_add_group.
AddShort(i, n, v) ==
    /\ Receiving /\ g.rec = NoPoly /\ fed < MaxRecords
    /\ FinishRecord(i, RecordUnits(i, n, v))
    /\ fed' = fed + 1
    /\ UNCHANGED flash

BeginPoly(i, v) ==
    /\ Receiving /\ g.rec = NoPoly /\ fed < MaxRecords
    /\ g' = [g EXCEPT !.rec = Poly(i, v, 0, FALSE)]
    /\ fed' = fed + 1
    /\ UNCHANGED <<flash, todo>>

\* geom_store_add_vertex; a contour's marker is part of the unit.
AddVertex ==
    /\ Receiving /\ g.rec # NoPoly /\ ~g.rec.failed /\ g.rec.k < MaxVertices
    /\ LET k == g.rec.k + 1
           us == Append(g.wbuf, Data(g.rec.def, g.rec.v, k))
           rec == Poly(g.rec.def, g.rec.v, k, FALSE)
       IN \/ /\ Len(us) < PageUnits
             /\ g' = [g EXCEPT !.wbuf = us, !.rec = rec]
             /\ UNCHANGED todo
          \/ /\ Len(us) = PageUnits
             /\ Flush(us, [AppendRam(g, us) EXCEPT !.rec = rec],
                      [g EXCEPT !.wbuf = <<>>, !.rec = [@ EXCEPT !.failed = TRUE]])
    /\ UNCHANGED <<flash, fed>>

\* geom_store_end_poly.
EndPoly ==
    /\ Receiving /\ g.rec # NoPoly
    /\ \/ g.rec.failed /\ g' = Dropped /\ UNCHANGED todo
       \/ /\ ~g.rec.failed
          /\ FinishRecord(g.rec.def, Append(g.wbuf, Trailer(g.rec.def, g.rec.k + 1, g.rec.v)))
    /\ UNCHANGED <<flash, fed>>

HeaderPage0(s) == <<[id |-> s.wrId, wh |-> s.res, crc |-> s.crc]>>

\* Mutant: the header is programmed from its first page on.
HeaderOpsMagicFirst(s) == <<Program(0, HeaderPage0(s)), Program(1, <<s.wrIndex>>)>>

HeaderOps(s) == <<Program(1, <<s.wrIndex>>), Program(0, HeaderPage0(s))>>

LastPageOps(s) == IF s.page = <<>> THEN <<>> ELSE FlushOps(s)

\* geom_store_commit; a set without an id, or one whose polygon was not finished, is given up.
Commit ==
    /\ Receiving
    /\ IF g.wrId = NoId \/ g.rec # NoPoly THEN g' = EndWrite(g) /\ UNCHANGED todo
       ELSE /\ todo' = LastPageOps(g) \o HeaderOps(g)
            /\ g' = [IF g.page = <<>> THEN g ELSE FlushRam(g) EXCEPT !.committing = TRUE]
    /\ UNCHANGED <<flash, fed>>

\* The end of geom_store_commit, once the header is programmed.
Committed ==
    /\ todo = <<>> /\ g.committing
    /\ g' = EndWrite([g EXCEPT !.present = TRUE, !.open = TRUE, !.id = g.wrId, !.wh = g.res, !.crcState = 1])
    /\ UNCHANGED <<flash, todo, fed>>

Abort ==
    /\ Receiving
    /\ g' = EndWrite(g)
    /\ UNCHANGED <<flash, todo, fed>>

\* load_header: the data CRC is checked once per boot.
LoadHeader(s) ==
    IF ~Written(flash) THEN s
    ELSE LET h == Header(flash)
             state == IF s.crcState # 0 THEN s.crcState ELSE IF CrcMatches(flash) THEN 1 ELSE 2
         IN IF state # 1 THEN [s EXCEPT !.crcState = state]
            ELSE [s EXCEPT !.crcState = state, !.present = TRUE, !.id = h.id, !.wh = h.wh]

\* Mutant: a set for another resolution opens too.
OpensAnyMode(s, id) == s.present /\ s.id = id

Opens(s, id) == s.present /\ s.id = id /\ s.wh = s.res

\* geom_store_open.
Open(id) ==
    /\ todo = <<>> /\ ~g.committing
    /\ g' = IF g.writing THEN [g EXCEPT !.open = FALSE]
            ELSE LET s == IF g.present THEN g ELSE LoadHeader(g) IN [s EXCEPT !.open = Opens(s, id)]
    /\ UNCHANGED <<flash, todo, fed>>

\* One sector or block erase, or one page program.  Programming only clears bits: what was not
\* erased first does not read back.
FlashOp ==
    /\ todo # <<>>
    /\ LET o == Head(todo) IN
       flash' = [p \in Pages |->
                   IF p \notin o.pages THEN flash[p]
                   ELSE IF o.op = "erase" THEN <<>>
                   ELSE IF flash[p] = <<>> THEN o.data ELSE <<NoUnit>>]
    /\ todo' = Tail(todo)
    /\ UNCHANGED <<g, fed>>

\* The power fails; the video mode may be another one afterwards.
PowerCut ==
    /\ todo' = <<>> /\ fed' = 0
    /\ \E m \in Modes : g' = Ram(m)
    /\ UNCHANGED flash

Next ==
    \/ \E id \in Ids \cup {NoId} : Begin(id)
    \/ \E id \in Ids : SetId(id) \/ Open(id)
    \/ \E i \in Defs, v \in Payloads : BeginPoly(i, v) \/ \E n \in ShortSizes : AddShort(i, n, v)
    \/ AddVertex \/ EndPoly
    \/ Commit \/ Committed \/ Abort \/ FlashOp \/ PowerCut

Spec == Init /\ [][Next]_vars

-----------------------------------------------------------------------------
(***************************************************************************)
(* Types, and that the cursors agree: page buffer, page offset and running *)
(* CRC count the same bytes, all of them inside the region.                *)
(***************************************************************************)
TypeOK ==
    /\ DOMAIN flash = Pages
    /\ \A k \in 1 .. Len(todo) : todo[k].pages \subseteq Pages
    /\ g.res \in Modes /\ g.wrId \in Ids \cup {NoId} /\ g.id \in Ids \cup {NoId}
    /\ g.crcState \in 0 .. 2
    /\ g.writing =>
         /\ Len(g.crc) <= DataMax
         /\ g.committing \/ (g.pageOff - HdrPages) * PageUnits + Len(g.page) = Len(g.crc)
         /\ g.erasedUpto \in HdrPages .. RegionPages
         /\ \A i \in Defs : g.wrIndex[i] \in 0 .. Len(g.crc)
    /\ g.committing => g.writing
    /\ fed \in 0 .. MaxRecords

(***************************************************************************)
(* No page is programmed twice between erases, whatever transfers were     *)
(* aborted or cut before: lazily erasing the region block by block leaves  *)
(* no page behind.                                                         *)
(***************************************************************************)
ErasedFirst ==
    todo # <<>> /\ Head(todo).op = "program" => \A p \in Head(todo).pages : flash[p] = <<>>

(***************************************************************************)
(* The magic vouches for everything: whenever a header is found in flash,  *)
(* the data is what its CRC was computed over, the index is there, and     *)
(* every entry leads to the record it names ("a crash during the write     *)
(* cannot leave a header whose magic is valid but whose index is not",     *)
(* geom_flash.c).                                                          *)
(***************************************************************************)
MagicLast ==
    Written(flash) =>
        /\ CrcMatches(flash) /\ flash[1] # <<>>
        /\ \A i \in Defs : Stored.recs[i] # Broken

(***************************************************************************)
(* What the renderer may read is the set it asked for: an open store shows *)
(* the set in flash, under its id, at the resolution the kiosk renders.    *)
(***************************************************************************)
OpenIsStored ==
    g.open => ~g.writing /\ Stored # Nothing /\ Stored.id = g.id /\ Stored.wh = g.res

(***************************************************************************)
(* The cache keeps its promise (GeomCache): whenever the power fails, the  *)
(* flash holds the old set, no set, or all that the new one's transfer     *)
(* indexed, and the old one is gone before the new one's first record.     *)
(***************************************************************************)
Recs == [Defs -> [n : Nat \ {0}, v : Payloads] \cup {NoRecord}]
Cache == INSTANCE GeomCache WITH
    SetsOfRecords <- [id : Ids \cup {NoId}, wh : Modes, recs : Recs],
    stored <- Stored, draft <- Draft
AllOrNothing == Cache!CacheSpec
=============================================================================
