--------------------------- MODULE GeomFlashProof ---------------------------
(***************************************************************************)
(* What holds of the geometry cache for every region, block and page size, *)
(* every number of records and every order of calls, flash operations and  *)
(* power cuts: no page is programmed twice, the magic vouches for a whole  *)
(* set, an open store shows the set in flash, and the cache implements     *)
(* GeomCache, which keeps one whole set or none.                           *)
(***************************************************************************)
EXTENDS GeomFlash, SequenceTheorems, TLAPS

-----------------------------------------------------------------------------
(***************************************************************************)
(* The inductive invariant.  First the types.                              *)
(***************************************************************************)
Units == [def : Defs, n : Nat, v : Payloads, k : Nat]
Polys == [def : Defs \cup {NoId}, v : Payloads \cup {0}, k : Nat, failed : BOOLEAN]
RamSet ==
    [res : Modes, present : BOOLEAN, open : BOOLEAN, id : Ids \cup {NoId},
     wh : Modes \cup {NoId}, crcState : 0 .. 2, writing : BOOLEAN, wrId : Ids \cup {NoId},
     wrIndex : [Defs -> Nat], dropped : Nat, rec : Polys, wbuf : Seq(Units),
     page : Seq(Units), pageOff : 0 .. RegionPages, erasedUpto : 0 .. RegionPages,
     crc : Seq(Units), committing : BOOLEAN]

\* The units that page q of the data area holds begin after unit Base(q) of the data.
Base(q) == (q - HdrPages) * PageUnits

\* c holds what the data that s has counted say page q holds.
PageHolds(s, q, c) ==
    \A k \in 1 .. PageUnits :
        Base(q) + k <= Len(s.crc) => k <= Len(c) /\ c[k] = s.crc[Base(q) + k]

\* The pages below n are programmed, and those from n on, as far as s has erased, are blank.
Settled(s, f, n) == \A q \in HdrPages .. n - 1 : PageHolds(s, q, f[q])
Blank(s, f, n) == \A q \in n .. s.erasedUpto - 1 : f[q] = <<>>

\* The cursors agree, and the page buffer holds the data after the last page flushed.
Streamed(s) ==
    /\ HdrPages <= s.pageOff /\ s.pageOff <= s.erasedUpto
    /\ Len(s.page) < PageUnits /\ Len(s.crc) <= DataMax
    /\ IF s.committing THEN s.page = <<>> /\ Len(s.crc) <= Base(s.pageOff)
       ELSE Len(s.crc) = Base(s.pageOff) + Len(s.page)
    /\ \A k \in 1 .. Len(s.page) : s.page[k] = s.crc[Base(s.pageOff) + k]

\* Every entry of an index leads to a record.
Indexed(index, us) == \A i \in Defs : index[i] # Absent => IsRecord(i, index[i], us)

\* What has been put of the polygon under way ends the data, the write-combining buffer last.
EndsWith(us, r) ==
    r.k <= Len(us) /\ \A m \in 1 .. r.k : us[Len(us) - r.k + m] = Data(r.def, r.v, m)
Drawn(s) ==
    /\ s.rec = NoPoly => s.wbuf = <<>>
    /\ s.rec # NoPoly => s.rec.def \in Defs /\ s.rec.v \in Payloads
    /\ s.rec.failed => s.wbuf = <<>>
    /\ ~s.rec.failed => Len(s.wbuf) < PageUnits /\ EndsWith(s.crc \o s.wbuf, s.rec)

HeaderBlank(f) == f[0] = <<>> /\ f[1] = <<>>
HeaderWritten(s, f) == f[0] = HeaderPage0(s) /\ f[1] = <<s.wrIndex>>

\* The flash operations that are left, and how far the region is.
HeaderLeft(s) == IF s.committing THEN HeaderOps(s) ELSE <<>>
PageLeft(s) == s.pageOff - 1
EraseLeft(s) == Erase(PageLeft(s) .. s.erasedUpto - 1)

Wiping(s, f, ops) == ops = EraseHeader /\ ~s.committing
HalfWiped(s, f, ops) == ops = <<Erase({1})>> /\ ~s.committing /\ f[0] = <<>>
Erasing(s, f, ops) ==
    /\ HdrPages <= PageLeft(s) /\ HeaderBlank(f) /\ Settled(s, f, PageLeft(s))
    /\ \E c : /\ ops = <<EraseLeft(s), Program(PageLeft(s), c)>> \o HeaderLeft(s)
              /\ PageHolds(s, PageLeft(s), c)
Programming(s, f, ops) ==
    /\ HdrPages <= PageLeft(s) /\ HeaderBlank(f) /\ Settled(s, f, PageLeft(s)) /\ Blank(s, f, PageLeft(s))
    /\ \E c : /\ ops = <<Program(PageLeft(s), c)>> \o HeaderLeft(s)
              /\ PageHolds(s, PageLeft(s), c)
Resting(s, f, ops) == ops = <<>> /\ ~s.committing /\ HeaderBlank(f)
Heading(s, f, ops) == ops = HeaderOps(s) /\ s.committing /\ HeaderBlank(f)
Closing(s, f, ops) == ops = <<Program(0, HeaderPage0(s))>> /\ s.committing /\ f[0] = <<>> /\ f[1] = <<s.wrIndex>>
Closed(s, f, ops) == ops = <<>> /\ s.committing /\ HeaderWritten(s, f)

Phase(s, f, ops) ==
    \/ Erasing(s, f, ops) \/ Programming(s, f, ops)
    \/ /\ Settled(s, f, s.pageOff) /\ Blank(s, f, s.pageOff)
       /\ \/ Wiping(s, f, ops) \/ HalfWiped(s, f, ops) \/ Resting(s, f, ops)
          \/ Heading(s, f, ops) \/ Closing(s, f, ops) \/ Closed(s, f, ops)

\* A header in flash vouches for all of a set.
Vouched(f) ==
    Written(f) =>
        /\ Header(f) \in [id : Ids, wh : Modes, crc : Seq(Units)]
        /\ CrcMatches(f)
        /\ f[1] # <<>> /\ f[1][1] \in [Defs -> Nat] /\ Indexed(f[1][1], Header(f).crc)

\* What the store believes to be in flash is there.
Presented(s, f) ==
    /\ s.present => ~s.writing /\ Written(f) /\ Header(f).id = s.id /\ Header(f).wh = s.wh
    /\ s.open => s.present /\ s.wh = s.res

Receives(s, f, ops) ==
    /\ Streamed(s) /\ Indexed(s.wrIndex, s.crc) /\ Drawn(s) /\ Phase(s, f, ops)
    /\ s.committing => s.wrId # NoId

GInv ==
    /\ g \in RamSet /\ DOMAIN flash = Pages /\ flash = [p \in Pages |-> flash[p]] /\ fed \in Nat
    /\ Vouched(flash) /\ Presented(g, flash)
    /\ g.writing => Receives(g, flash, todo)
    /\ ~g.writing => todo = <<>> /\ ~g.committing
-----------------------------------------------------------------------------
(***************************************************************************)
(* Pages and units.                                                        *)
(***************************************************************************)
\* Base counts whole pages.
LEMMA BaseInt == ASSUME NEW q \in Int PROVE Base(q) \in Int /\ Base(q + 1) = Base(q) + PageUnits
BY BlockAssumption DEF Base, HdrPages

\* The pages of the data area do not overlap.
LEMMA BaseApart ==
    ASSUME NEW p \in Int, NEW q \in Int, p < q
    PROVE  Base(p) + PageUnits <= Base(q)
BY BlockAssumption DEF Base, HdrPages

LEMMA BaseOrder ==
    ASSUME NEW p \in Int, NEW q \in Int, Base(p) < Base(q)
    PROVE  p < q
<1>1. CASE q < p
  BY <1>1, BaseApart, BaseInt, BlockAssumption
<1>2. CASE q = p
  BY <1>2, BaseInt
<1> QED
  BY <1>1, <1>2

LEMMA BaseEnds == Base(HdrPages) = 0 /\ Base(RegionPages) = DataMax /\ DataMax \in Nat
<1>1. Base(HdrPages) = 0
  BY BlockAssumption DEF Base, HdrPages
<1>2. RegionPages - HdrPages \in Nat
  BY RegionAssumption DEF HdrPages
<1>3. (RegionPages - HdrPages) * PageUnits \in Nat
  BY <1>2, BlockAssumption
<1> QED
  BY <1>1, <1>3 DEF Base, DataMax

\* Every unit of the data has a page and a place on it (DataUnit).
LEMMA Address ==
    ASSUME NEW j \in Nat \ {0}
    PROVE  LET q == HdrPages + (j - 1) \div PageUnits
               k == 1 + ((j - 1) % PageUnits)
           IN q \in Int /\ HdrPages <= q /\ k \in 1 .. PageUnits /\ j = Base(q) + k
BY BlockAssumption DEF Base, HdrPages

\* A block ends past any page in it, and inside the region (ensure_erased).
LEMMA BlockEnd ==
    ASSUME NEW p \in HdrPages .. RegionPages - 1
    PROVE  NextBlockEnd(p) \in p + 1 .. RegionPages
<1> DEFINE b == (p \div BlockPages + 1) * BlockPages
<1>1. p \in Int /\ p + 1 <= RegionPages /\ RegionPages \in Int /\ 0 <= p
  BY RegionAssumption DEF HdrPages
<1>2. b \in Int /\ p + 1 <= b
  BY <1>1, BlockAssumption
<1> QED
  BY <1>1, <1>2 DEF NextBlockEnd

-----------------------------------------------------------------------------
(***************************************************************************)
(* Sequences of flash operations.                                          *)
(***************************************************************************)
LEMMA Concat0 ==
    ASSUME NEW a, NEW b
    PROVE  <<>> \o <<a, b>> = <<a, b>> /\ <<a, b>> \o <<>> = <<a, b>>
           /\ <<>> \o <<a>> = <<a>> /\ <<a>> \o <<>> = <<a>>
<1>1. PICK S : a \in S /\ b \in S
  <2>1. a \in {a, b} /\ b \in {a, b}
    OBVIOUS
  <2> HIDE <2>1
  <2> QED BY <2>1
<1>2. <<a, b>> \in Seq(S) /\ <<a>> \in Seq(S) BY <1>1
<1> QED BY <1>2

LEMMA Concat11 == ASSUME NEW a, NEW b PROVE <<a>> \o <<b>> = <<a, b>>
<1>1. PICK S : a \in S /\ b \in S
  <2>1. a \in {a, b} /\ b \in {a, b}
    OBVIOUS
  <2> HIDE <2>1
  <2> QED BY <2>1
<1>2. <<a>> \in Seq(S) /\ <<b>> \in Seq(S) /\ <<a, b>> \in Seq(S) BY <1>1
<1>3. <<a>> \o <<b>> \in Seq(S) /\ Len(<<a>> \o <<b>>) = 2 BY <1>2
<1>4. \A i \in 1 .. 2 : (<<a>> \o <<b>>)[i] = <<a, b>>[i] BY <1>2
<1> HIDE <1>1, <1>2
<1>5. Len(<<a, b>>) = 2 OBVIOUS
<1> QED BY <1>2, <1>3, <1>4, <1>5, SeqEqual

LEMMA Concat12 == ASSUME NEW a, NEW b, NEW c PROVE <<a>> \o <<b, c>> = <<a, b, c>>
<1>1. PICK S : a \in S /\ b \in S /\ c \in S
  <2>1. a \in {a, b, c} /\ b \in {a, b, c} /\ c \in {a, b, c}
    OBVIOUS
  <2> HIDE <2>1
  <2> QED BY <2>1
<1>2. <<a>> \in Seq(S) /\ <<b, c>> \in Seq(S) /\ <<a, b, c>> \in Seq(S) BY <1>1
<1>3. <<a>> \o <<b, c>> \in Seq(S) /\ Len(<<a>> \o <<b, c>>) = 3 BY <1>2
<1>4. \A i \in 1 .. 3 : (<<a>> \o <<b, c>>)[i] = <<a, b, c>>[i] BY <1>2
<1>5. Len(<<a, b, c>>) = 3 OBVIOUS
<1> HIDE <1>1, <1>2
<1> QED BY <1>2, <1>3, <1>4, <1>5, SeqEqual

LEMMA Concat22 == ASSUME NEW a, NEW b, NEW c, NEW d PROVE <<a, b>> \o <<c, d>> = <<a, b, c, d>>
<1>1. PICK S : a \in S /\ b \in S /\ c \in S /\ d \in S
  <2>1. a \in {a, b, c, d} /\ b \in {a, b, c, d} /\ c \in {a, b, c, d} /\ d \in {a, b, c, d}
    OBVIOUS
  <2> HIDE <2>1
  <2> QED BY <2>1
<1>2. <<a, b>> \in Seq(S) /\ <<c, d>> \in Seq(S) /\ <<a, b, c, d>> \in Seq(S) BY <1>1
<1>3. <<a, b>> \o <<c, d>> \in Seq(S) /\ Len(<<a, b>> \o <<c, d>>) = 4 BY <1>2
<1>4. \A i \in 1 .. 4 : (<<a, b>> \o <<c, d>>)[i] = <<a, b, c, d>>[i] BY <1>2
<1>5. Len(<<a, b, c, d>>) = 4 OBVIOUS
<1> HIDE <1>1, <1>2
<1> QED BY <1>2, <1>3, <1>4, <1>5, SeqEqual
-----------------------------------------------------------------------------
(***************************************************************************)
(* Records.                                                                *)
(***************************************************************************)
LEMMA AppendedUnits ==
    ASSUME NEW us \in Seq(Units), NEW vs \in Seq(Units)
    PROVE  /\ us \o vs \in Seq(Units) /\ Len(us \o vs) = Len(us) + Len(vs)
           /\ \A k \in 1 .. Len(us) : (us \o vs)[k] = us[k]
           /\ \A k \in 1 .. Len(vs) : (us \o vs)[Len(us) + k] = vs[k]
<1> HIDE DEF Units
<1> QED OBVIOUS

\* A record stays one when units are appended after it.
LEMMA RecordStays ==
    ASSUME NEW us \in Seq(Units), NEW vs \in Seq(Units), NEW i, NEW off, IsRecord(i, off, us)
    PROVE  IsRecord(i, off, us \o vs)
<1>1. off \in 1 .. Len(us) /\ (us \o vs)[off] = us[off] /\ off \in 1 .. Len(us \o vs)
  BY AppendedUnits DEF IsRecord
<1>2. us[off].n \in 1 .. off /\ us[off].def = i
  BY DEF IsRecord
<1>3. ASSUME NEW k \in 1 .. us[off].n - 1
      PROVE  (us \o vs)[off - us[off].n + k] = Data(i, us[off].v, k)
  <2>1. off - us[off].n + k \in 1 .. Len(us)
    BY <1>1, <1>2
  <2> QED
    BY <2>1, AppendedUnits DEF IsRecord
<1> QED
  BY <1>1, <1>2, <1>3 DEF IsRecord

LEMMA IndexStays ==
    ASSUME NEW us \in Seq(Units), NEW vs \in Seq(Units), NEW index, Indexed(index, us)
    PROVE  Indexed(index, us \o vs)
BY RecordStays DEF Indexed

\* What an index in order names is a set of records.
LEMMA RecordsAreRecs ==
    ASSUME NEW us \in Seq(Units), NEW index \in [Defs -> Nat], Indexed(index, us)
    PROVE  Records(index, us) \in Recs /\ \A i \in Defs : Records(index, us)[i] # Broken
<1>1. ASSUME NEW i \in Defs
      PROVE  /\ RecordAt(i, index[i], us) \in [n : Nat \ {0}, v : Payloads] \cup {NoRecord}
             /\ RecordAt(i, index[i], us) # Broken
  <2>1. CASE index[i] = Absent
    BY <2>1 DEF RecordAt, NoRecord, Broken
  <2>2. CASE index[i] # Absent
    <3>1. IsRecord(i, index[i], us)
      BY <2>2 DEF Indexed
    <3>2. RecordAt(i, index[i], us) = [n |-> us[index[i]].n, v |-> us[index[i]].v]
      BY <2>2, <3>1 DEF RecordAt
    <3>3. us[index[i]] \in Units /\ us[index[i]].n \in Nat \ {0}
      BY <3>1 DEF IsRecord
    <3>4. us[index[i]].v \in Payloads
      BY <3>3 DEF Units
    <3> QED
      BY <3>2, <3>3, <3>4 DEF Broken
  <2> QED
    BY <2>1, <2>2
<1> QED
  BY <1>1 DEF Records, Recs

-----------------------------------------------------------------------------
(***************************************************************************)
(* Appending a chunk (flash_append).                                       *)
(***************************************************************************)
LEMMA FlushFields ==
    ASSUME NEW s \in RamSet
    PROVE  LET t == FlushRam(s) IN
           /\ t.res = s.res /\ t.present = s.present /\ t.open = s.open /\ t.id = s.id /\ t.wh = s.wh
           /\ t.crcState = s.crcState /\ t.writing = s.writing /\ t.wrId = s.wrId
           /\ t.wrIndex = s.wrIndex /\ t.dropped = s.dropped /\ t.rec = s.rec /\ t.wbuf = s.wbuf
           /\ t.crc = s.crc /\ t.committing = s.committing
           /\ t.page = <<>> /\ t.pageOff = s.pageOff + 1
           /\ t.erasedUpto = IF s.erasedUpto < s.pageOff + 1 THEN NextBlockEnd(s.erasedUpto) ELSE s.erasedUpto
BY DEF FlushRam, RamSet

\* A page is flushed inside the region: the page programmed is erased by then, one block at most.
LEMMA FlushInRegion ==
    ASSUME NEW s \in RamSet, HdrPages <= s.pageOff, s.pageOff <= s.erasedUpto, s.pageOff < RegionPages,
           NEW t, t = FlushRam(s)
    PROVE  /\ t.pageOff \in 1 .. RegionPages /\ t.erasedUpto \in 0 .. RegionPages
           /\ HdrPages < t.pageOff /\ t.pageOff <= t.erasedUpto
           /\ \/ /\ s.erasedUpto = s.pageOff
                 /\ FlushOps(s) = <<Erase(s.pageOff .. t.erasedUpto - 1), Program(s.pageOff, s.page)>>
              \/ /\ s.pageOff < s.erasedUpto /\ t.erasedUpto = s.erasedUpto
                 /\ FlushOps(s) = <<Program(s.pageOff, s.page)>>
<1>1. s.pageOff \in Nat /\ s.erasedUpto \in 0 .. RegionPages
  BY DEF RamSet
<1>2. s.pageOff \in HdrPages .. RegionPages - 1
  BY <1>1, RegionAssumption DEF HdrPages
<1>3. t.pageOff = s.pageOff + 1
      /\ t.erasedUpto = IF s.erasedUpto < s.pageOff + 1 THEN NextBlockEnd(s.erasedUpto) ELSE s.erasedUpto
  BY FlushFields
<1>4. CASE s.erasedUpto < s.pageOff + 1
  <2>1. s.erasedUpto = s.pageOff
    BY <1>4, <1>1, <1>2
  <2>2. t.erasedUpto = NextBlockEnd(s.pageOff) /\ t.erasedUpto \in s.pageOff + 1 .. RegionPages
    BY <1>3, <1>4, <2>1, <1>2, BlockEnd
  <2>3. FlushOps(s) = <<Erase(s.pageOff .. t.erasedUpto - 1)>> \o <<Program(s.pageOff, s.page)>>
    BY <1>4, <2>1, <2>2 DEF FlushOps
  <2>4. FlushOps(s) = <<Erase(s.pageOff .. t.erasedUpto - 1), Program(s.pageOff, s.page)>>
    BY <2>3, Concat11
  <2>5. t.pageOff \in 1 .. RegionPages /\ t.erasedUpto \in 0 .. RegionPages
        /\ HdrPages < t.pageOff /\ t.pageOff <= t.erasedUpto
    BY <1>2, <1>3, <2>2, RegionAssumption DEF HdrPages
  <2> QED
    BY <2>1, <2>4, <2>5
<1>5. CASE ~(s.erasedUpto < s.pageOff + 1)
  <2>1. FlushOps(s) = <<>> \o <<Program(s.pageOff, s.page)>>
    BY <1>5 DEF FlushOps
  <2>2. <<>> \o <<Program(s.pageOff, s.page)>> = <<Program(s.pageOff, s.page)>>
    BY Concat0
  <2> QED
    BY <2>1, <2>2, <1>1, <1>2, <1>3, <1>5, RegionAssumption DEF HdrPages
<1> QED
  BY <1>4, <1>5

LEMMA AppendFields ==
    ASSUME NEW s \in RamSet, NEW us \in Seq(Units)
    PROVE  LET t == AppendRam(s, us)
               all == s.page \o us
           IN /\ t.res = s.res /\ t.present = s.present /\ t.open = s.open /\ t.id = s.id /\ t.wh = s.wh
              /\ t.crcState = s.crcState /\ t.writing = s.writing /\ t.wrId = s.wrId
              /\ t.wrIndex = s.wrIndex /\ t.dropped = s.dropped /\ t.rec = s.rec
              /\ t.committing = s.committing /\ t.wbuf = <<>> /\ t.crc = s.crc \o us
              /\ Len(all) < PageUnits => t.page = all /\ t.pageOff = s.pageOff /\ t.erasedUpto = s.erasedUpto
              /\ ~(Len(all) < PageUnits) =>
                   /\ t.page = SubSeq(all, PageUnits + 1, Len(all))
                   /\ t.pageOff = FlushRam(Filled(s, us)).pageOff
                   /\ t.erasedUpto = FlushRam(Filled(s, us)).erasedUpto
BY DEF AppendRam, FlushRam, Filled, RamSet

\* What is held of the pages below Base(n) >= Len(crc) stays so while the data only grow.
LEMMA SettledStays ==
    ASSUME NEW s \in RamSet, NEW us \in Seq(Units), NEW t, t.crc = s.crc \o us,
           NEW f, NEW n \in Int, Base(n) <= Len(s.crc), Settled(s, f, n)
    PROVE  Settled(t, f, n)
<1>1. s.crc \in Seq(Units)
  BY DEF RamSet
<1> SUFFICES ASSUME NEW q \in HdrPages .. n - 1, NEW k \in 1 .. PageUnits, Base(q) + k <= Len(t.crc)
             PROVE  k <= Len(f[q]) /\ f[q][k] = t.crc[Base(q) + k]
  BY DEF Settled, PageHolds
<1>2. q \in Int /\ q < n /\ HdrPages <= q
  BY DEF HdrPages
<1>3. Base(q) + PageUnits <= Base(n) /\ Base(q) \in Int /\ Base(n) \in Int
  BY <1>2, BaseApart, BaseInt
<1>4. 0 <= Base(q)
  BY <1>2, BaseEnds, BaseApart, BaseInt, BlockAssumption DEF HdrPages
<1>5. Base(q) + k \in 1 .. Len(s.crc)
  BY <1>1, <1>3, <1>4, BlockAssumption
<1>6. t.crc[Base(q) + k] = s.crc[Base(q) + k]
  BY <1>1, <1>5, AppendedUnits
<1> QED
  BY <1>5, <1>6 DEF Settled, PageHolds

\* A chunk that fits keeps the cursors in step; the page it fills is the one to program next.
LEMMA AppendKeeps ==
    ASSUME NEW s \in RamSet, NEW us \in Seq(Units), Len(us) <= PageUnits, Fits(s, us),
           Streamed(s), ~s.committing,
           NEW f, HeaderBlank(f), Settled(s, f, s.pageOff), Blank(s, f, s.pageOff),
           NEW t, t.page = AppendRam(s, us).page, t.pageOff = AppendRam(s, us).pageOff,
           t.erasedUpto = AppendRam(s, us).erasedUpto, t.crc = AppendRam(s, us).crc, ~t.committing
    PROVE  /\ Streamed(t) /\ Phase(t, f, AppendOps(s, us))
           /\ t.page \in Seq(Units) /\ t.crc \in Seq(Units)
           /\ t.pageOff \in 0 .. RegionPages /\ t.erasedUpto \in 0 .. RegionPages
<1> DEFINE all == s.page \o us
<1>1. s.page \in Seq(Units) /\ s.crc \in Seq(Units) /\ s.pageOff \in 0 .. RegionPages
      /\ s.erasedUpto \in 0 .. RegionPages /\ HdrPages \in Int
      /\ s.pageOff \in Int /\ s.erasedUpto \in Int
  BY RegionAssumption DEF RamSet, HdrPages
<1>2. t.crc = s.crc \o us
  BY AppendFields
<1>3. all \in Seq(Units) /\ Len(all) = Len(s.page) + Len(us)
      /\ t.crc \in Seq(Units) /\ Len(t.crc) = Len(s.crc) + Len(us)
  BY <1>1, <1>2, AppendedUnits
<1>4. Len(s.crc) = Base(s.pageOff) + Len(s.page) /\ Len(s.page) < PageUnits
      /\ HdrPages <= s.pageOff /\ s.pageOff <= s.erasedUpto
  BY DEF Streamed
<1>5. Base(s.pageOff) \in Int /\ Len(s.page) \in Nat /\ Len(us) \in Nat /\ Len(s.crc) \in Nat
      /\ PageUnits \in Nat \ {0}
  <2>1. Base(s.pageOff) \in Int
    BY <1>1, BaseInt
  <2>2. Len(s.page) \in Nat /\ Len(us) \in Nat /\ Len(s.crc) \in Nat
    BY <1>1, LenProperties
  <2> QED
    BY <2>1, <2>2, BlockAssumption
<1>6. 0 <= Base(s.pageOff)
  <2>1. CASE s.pageOff = HdrPages
    BY <2>1, BaseEnds
  <2>2. CASE HdrPages < s.pageOff
    BY <2>2, <1>1, <1>5, BaseEnds, BaseApart
  <2> QED
    BY <2>1, <2>2, <1>1, <1>4
<1>7. Len(t.crc) <= DataMax
  BY <1>3 DEF Fits
<1>8. \A k \in 1 .. Len(all) : all[k] = t.crc[Base(s.pageOff) + k]
  <2> SUFFICES ASSUME NEW k \in 1 .. Len(all) PROVE all[k] = t.crc[Base(s.pageOff) + k]
    OBVIOUS
  <2> HIDE DEF all
  <2>1. CASE k <= Len(s.page)
    <3>1. k \in 1 .. Len(s.page) /\ Base(s.pageOff) + k \in 1 .. Len(s.crc)
      BY <2>1, <1>3, <1>4, <1>5, <1>6
    <3>2. all[k] = s.page[k]
      BY <3>1, <1>1, AppendedUnits DEF all
    <3>3. t.crc[Base(s.pageOff) + k] = s.crc[Base(s.pageOff) + k]
      BY <3>1, <1>1, <1>2, AppendedUnits
    <3> QED
      BY <3>1, <3>2, <3>3 DEF Streamed
  <2>2. CASE ~(k <= Len(s.page))
    <3> DEFINE j == k - Len(s.page)
    <3>1. j \in 1 .. Len(us) /\ Len(s.page) + j = k /\ Len(s.crc) + j = Base(s.pageOff) + k
      BY <2>2, <1>3, <1>4, <1>5
    <3> HIDE DEF j
    <3>2. all[Len(s.page) + j] = us[j]
      BY <3>1, <1>1, AppendedUnits DEF all
    <3>3. t.crc[Len(s.crc) + j] = us[j]
      BY <3>1, <1>1, <1>2, AppendedUnits
    <3> QED
      BY <3>1, <3>2, <3>3
  <2> QED
    BY <2>1, <2>2
<1> HIDE DEF all
<1>9. Settled(t, f, s.pageOff)
  <2>1. Base(s.pageOff) <= Len(s.crc)
    BY <1>4, <1>5
  <2> QED
    BY <2>1, SettledStays, <1>1, <1>2
<1>10. CASE Len(all) < PageUnits
  <2>1. t.page = all /\ t.pageOff = s.pageOff /\ t.erasedUpto = s.erasedUpto
    BY <1>10, AppendFields DEF all
  <2>2. AppendOps(s, us) = <<>>
    BY <1>10 DEF AppendOps, all
  <2>3. Len(t.crc) = Base(t.pageOff) + Len(t.page)
    BY <2>1, <1>3, <1>4, <1>5
  <2>4. Streamed(t)
    BY <2>1, <2>3, <1>4, <1>7, <1>8, <1>10 DEF Streamed
  <2>5. Settled(t, f, t.pageOff) /\ Blank(t, f, t.pageOff)
    BY <2>1, <1>9 DEF Blank
  <2>6. Resting(t, f, AppendOps(s, us))
    BY <2>2 DEF Resting
  <2> QED
    BY <2>1, <2>4, <2>5, <2>6, <1>1, <1>3 DEF Phase
<1>11. CASE ~(Len(all) < PageUnits)
  <2> DEFINE c == SubSeq(all, 1, PageUnits)
             rest == SubSeq(all, PageUnits + 1, Len(all))
             w == Filled(s, us)
  <2>1. c \in Seq(Units) /\ Len(c) = PageUnits /\ \A k \in 1 .. PageUnits : c[k] = all[k]
    BY <1>3, <1>5, <1>11, SubSeqProperties
  <2>2. rest \in Seq(Units) /\ Len(rest) = Len(all) - PageUnits
        /\ \A k \in 1 .. Len(rest) : rest[k] = all[PageUnits + k]
    BY <1>3, <1>5, <1>11, SubSeqProperties
  <2> HIDE DEF rest, c
  <2>3. w \in RamSet /\ w.page = c /\ w.pageOff = s.pageOff /\ w.erasedUpto = s.erasedUpto
    BY <2>1 DEF Filled, RamSet, c, all
  <2>4. AppendOps(s, us) = FlushOps(w)
    BY <1>11 DEF AppendOps, all
  <2>5. t.page = rest /\ t.pageOff = FlushRam(w).pageOff /\ t.erasedUpto = FlushRam(w).erasedUpto
    BY <1>11, AppendFields DEF all, rest
  <2> HIDE DEF w
  <2>6. s.pageOff < RegionPages
    <3>1. Base(s.pageOff) < DataMax
      BY <1>3, <1>4, <1>5, <1>7, <1>11, BaseEnds
    <3> QED
      BY <3>1, <1>1, BaseEnds, BaseOrder, RegionAssumption
  <2>7. /\ t.pageOff \in 1 .. RegionPages /\ t.erasedUpto \in 0 .. RegionPages
        /\ HdrPages < t.pageOff /\ t.pageOff <= t.erasedUpto
        /\ \/ /\ s.erasedUpto = s.pageOff
              /\ FlushOps(w) = <<Erase(s.pageOff .. t.erasedUpto - 1), Program(s.pageOff, c)>>
           \/ /\ s.pageOff < s.erasedUpto /\ t.erasedUpto = s.erasedUpto
              /\ FlushOps(w) = <<Program(s.pageOff, c)>>
    <3> DEFINE z == FlushRam(w)
    <3>1. /\ z.pageOff \in 1 .. RegionPages /\ z.erasedUpto \in 0 .. RegionPages
          /\ HdrPages < z.pageOff /\ z.pageOff <= z.erasedUpto
          /\ \/ /\ w.erasedUpto = w.pageOff
                /\ FlushOps(w) = <<Erase(w.pageOff .. z.erasedUpto - 1), Program(w.pageOff, w.page)>>
             \/ /\ w.pageOff < w.erasedUpto /\ z.erasedUpto = w.erasedUpto
                /\ FlushOps(w) = <<Program(w.pageOff, w.page)>>
      <4>1. HdrPages <= w.pageOff /\ w.pageOff <= w.erasedUpto /\ w.pageOff < RegionPages
        BY <2>3, <2>6, <1>4
      <4> HIDE DEF z
      <4>2. z = FlushRam(w)
        BY DEF z
      <4> QED
        BY <4>1, <4>2, <2>3, FlushInRegion
    <3> HIDE DEF z
    <3>2. t.pageOff = z.pageOff /\ t.erasedUpto = z.erasedUpto
      BY <2>5 DEF z
    <3> QED
      BY <3>1, <3>2, <2>3
  <2>8. t.pageOff = s.pageOff + 1 /\ PageLeft(t) = s.pageOff
    <3>1. FlushRam(w).pageOff = w.pageOff + 1
      BY <2>3, FlushFields
    <3> QED
      BY <3>1, <2>3, <2>5, <1>1 DEF PageLeft
  <2>9. Base(t.pageOff) = Base(s.pageOff) + PageUnits
    BY <2>8, <1>1, BaseInt
  <2>10. Len(t.crc) = Base(t.pageOff) + Len(t.page) /\ Len(t.page) < PageUnits
    <3>1. Len(t.page) = Len(s.page) + Len(us) - PageUnits
      BY <2>2, <2>5, <1>3, <1>5
    <3>2. Len(t.crc) = Base(s.pageOff) + Len(s.page) + Len(us)
      BY <1>3, <1>4
    <3> QED
      <4>1. Len(t.page) < PageUnits /\ Len(t.page) \in Int
        BY <3>1, <1>4, <1>5
      <4>2. Len(t.crc) = Base(s.pageOff) + PageUnits + Len(t.page)
        BY <3>1, <3>2, <1>5
      <4> QED
        BY <4>1, <4>2, <2>9
  <2>11. \A k \in 1 .. Len(t.page) : t.page[k] = t.crc[Base(t.pageOff) + k]
    <3> SUFFICES ASSUME NEW k \in 1 .. Len(rest) PROVE rest[k] = t.crc[Base(t.pageOff) + k]
      BY <2>5
    <3>1. PageUnits + k \in 1 .. Len(all) /\ Base(t.pageOff) + k = Base(s.pageOff) + (PageUnits + k)
      BY <2>2, <2>9, <1>3, <1>5
    <3> QED
      BY <3>1, <2>2, <1>8
  <2>12. Streamed(t)
    BY <2>7, <2>10, <2>11, <1>1, <1>7 DEF Streamed
  <2>13. PageHolds(t, PageLeft(t), c)
    <3> SUFFICES ASSUME NEW k \in 1 .. PageUnits PROVE k <= Len(c) /\ c[k] = t.crc[Base(s.pageOff) + k]
      BY <2>8 DEF PageHolds
    <3>1. k \in 1 .. Len(all)
      BY <1>3, <1>5, <1>11
    <3> QED
      BY <3>1, <2>1, <1>8
  <2>14. HeaderLeft(t) = <<>> /\ Settled(t, f, PageLeft(t)) /\ HdrPages <= PageLeft(t)
    BY <2>8, <1>4, <1>9 DEF HeaderLeft
  <2>15. CASE /\ s.erasedUpto = s.pageOff
              /\ FlushOps(w) = <<Erase(s.pageOff .. t.erasedUpto - 1), Program(s.pageOff, c)>>
    <3>1. AppendOps(s, us) = <<EraseLeft(t), Program(PageLeft(t), c)>> \o HeaderLeft(t)
      BY <2>15, <2>4, <2>8, <2>14, Concat0 DEF EraseLeft
    <3>2. Erasing(t, f, AppendOps(s, us))
      BY <3>1, <2>13, <2>14 DEF Erasing
    <3> QED
      BY <3>2, <2>12, <2>2, <2>5, <2>7, <1>3 DEF Phase
  <2>16. CASE /\ s.pageOff < s.erasedUpto /\ t.erasedUpto = s.erasedUpto
              /\ FlushOps(w) = <<Program(s.pageOff, c)>>
    <3>1. AppendOps(s, us) = <<Program(PageLeft(t), c)>> \o HeaderLeft(t)
      BY <2>16, <2>4, <2>8, <2>14, Concat0
    <3>2. Blank(t, f, PageLeft(t))
      BY <2>16, <2>8 DEF Blank
    <3>3. Programming(t, f, AppendOps(s, us))
      BY <3>1, <3>2, <2>13, <2>14 DEF Programming
    <3> QED
      BY <3>3, <2>12, <2>2, <2>5, <2>7, <1>3 DEF Phase
  <2> QED
    BY <2>7, <2>15, <2>16
<1> QED
  BY <1>10, <1>11

\* The last page of a set is flushed part full, and the header follows.
LEMMA CommitKeeps ==
    ASSUME NEW s \in RamSet, Streamed(s), ~s.committing,
           NEW f, HeaderBlank(f), Settled(s, f, s.pageOff), Blank(s, f, s.pageOff),
           NEW t, t.page = <<>>, t.crc = s.crc, t.wrIndex = s.wrIndex, t.wrId = s.wrId, t.res = s.res,
           t.committing,
           IF s.page = <<>> THEN t.pageOff = s.pageOff /\ t.erasedUpto = s.erasedUpto
           ELSE t.pageOff = FlushRam(s).pageOff /\ t.erasedUpto = FlushRam(s).erasedUpto
    PROVE  /\ Streamed(t) /\ Phase(t, f, LastPageOps(s) \o HeaderOps(s))
           /\ t.pageOff \in 0 .. RegionPages /\ t.erasedUpto \in 0 .. RegionPages
<1>1. s.page \in Seq(Units) /\ s.crc \in Seq(Units) /\ s.pageOff \in 0 .. RegionPages
      /\ s.erasedUpto \in 0 .. RegionPages /\ HdrPages \in Int
      /\ s.pageOff \in Int /\ s.erasedUpto \in Int
  BY RegionAssumption DEF RamSet, HdrPages
<1>2. Len(s.crc) = Base(s.pageOff) + Len(s.page) /\ Len(s.page) < PageUnits
      /\ HdrPages <= s.pageOff /\ s.pageOff <= s.erasedUpto /\ Len(s.crc) <= DataMax
      /\ \A k \in 1 .. Len(s.page) : s.page[k] = s.crc[Base(s.pageOff) + k]
  BY DEF Streamed
<1>3. HeaderOps(t) = HeaderOps(s)
  BY DEF HeaderOps, HeaderPage0
<1>4. Base(s.pageOff) \in Int
  BY <1>1, BaseInt
<1>5. CASE s.page = <<>>
  <2>1. Len(s.page) = 0 /\ t.pageOff = s.pageOff /\ t.erasedUpto = s.erasedUpto
    BY <1>5
  <2>2. LastPageOps(s) \o HeaderOps(s) = HeaderOps(t)
    BY <1>3, <1>5, Concat0 DEF LastPageOps, HeaderOps
  <2>3. Len(t.crc) <= Base(t.pageOff)
    BY <2>1, <1>2, <1>4
  <2>4. Streamed(t)
    BY <2>1, <2>3, <1>1, <1>2, BlockAssumption DEF Streamed
  <2>5. Settled(t, f, t.pageOff) /\ Blank(t, f, t.pageOff)
    BY <2>1 DEF Settled, Blank, PageHolds
  <2>6. Heading(t, f, LastPageOps(s) \o HeaderOps(s))
    BY <2>2 DEF Heading
  <2> QED
    BY <2>1, <2>4, <2>5, <2>6, <1>1 DEF Phase
<1>6. CASE s.page # <<>>
  <2> DEFINE z == FlushRam(s)
  <2>1. Len(s.page) \in Nat \ {0}
    BY <1>1, <1>6, EmptySeq, LenProperties
  <2>2. s.pageOff < RegionPages
    <3>1. Base(s.pageOff) < DataMax
      BY <2>1, <1>2, <1>4, BaseEnds
    <3> QED
      BY <3>1, <1>1, BaseEnds, BaseOrder, RegionAssumption
  <2>3. t.pageOff = z.pageOff /\ t.erasedUpto = z.erasedUpto /\ z = FlushRam(s)
    BY <1>6
  <2> HIDE DEF z
  <2>4. /\ z.pageOff \in 1 .. RegionPages /\ z.erasedUpto \in 0 .. RegionPages
        /\ HdrPages < z.pageOff /\ z.pageOff <= z.erasedUpto
        /\ \/ /\ s.erasedUpto = s.pageOff
              /\ FlushOps(s) = <<Erase(s.pageOff .. z.erasedUpto - 1), Program(s.pageOff, s.page)>>
           \/ /\ s.pageOff < s.erasedUpto /\ z.erasedUpto = s.erasedUpto
              /\ FlushOps(s) = <<Program(s.pageOff, s.page)>>
    BY <2>2, <2>3, <1>2, FlushInRegion
  <2>5. t.pageOff = s.pageOff + 1 /\ PageLeft(t) = s.pageOff
    <3>1. z.pageOff = s.pageOff + 1
      BY <2>3, FlushFields
    <3> QED
      BY <3>1, <2>3, <1>1 DEF PageLeft
  <2>6. Base(t.pageOff) = Base(s.pageOff) + PageUnits
    BY <2>5, <1>1, BaseInt
  <2>7. Len(t.crc) <= Base(t.pageOff)
    BY <2>1, <2>6, <1>2, <1>4, BlockAssumption
  <2>8. Streamed(t)
    <3>1. Len(t.page) = 0
      OBVIOUS
    <3>2. t.pageOff \in Int /\ HdrPages <= t.pageOff /\ t.pageOff <= t.erasedUpto
      BY <2>3, <2>4, <2>5, <1>1
    <3> QED
      BY <3>1, <3>2, <2>7, <1>2, BlockAssumption DEF Streamed
  <2>9. PageHolds(t, PageLeft(t), s.page)
    <3> SUFFICES ASSUME NEW k \in 1 .. PageUnits, Base(s.pageOff) + k <= Len(s.crc)
                 PROVE  k <= Len(s.page) /\ s.page[k] = s.crc[Base(s.pageOff) + k]
      BY <2>5 DEF PageHolds
    <3>1. k \in 1 .. Len(s.page)
      BY <2>1, <1>2, <1>4
    <3> QED
      BY <3>1, <1>2
  <2>10. HeaderLeft(t) = HeaderOps(s) /\ Settled(t, f, PageLeft(t)) /\ HdrPages <= PageLeft(t)
         /\ LastPageOps(s) = FlushOps(s)
    BY <2>5, <1>2, <1>3, <1>6 DEF HeaderLeft, Settled, PageHolds, LastPageOps
  <2>11. CASE /\ s.erasedUpto = s.pageOff
              /\ FlushOps(s) = <<Erase(s.pageOff .. z.erasedUpto - 1), Program(s.pageOff, s.page)>>
    <3>1. LastPageOps(s) \o HeaderOps(s) = <<EraseLeft(t), Program(PageLeft(t), s.page)>> \o HeaderLeft(t)
      BY <2>3, <2>5, <2>10, <2>11 DEF EraseLeft
    <3>2. Erasing(t, f, LastPageOps(s) \o HeaderOps(s))
      BY <3>1, <2>9, <2>10 DEF Erasing
    <3> QED
      BY <3>2, <2>3, <2>4, <2>8 DEF Phase
  <2>12. CASE /\ s.pageOff < s.erasedUpto /\ z.erasedUpto = s.erasedUpto
              /\ FlushOps(s) = <<Program(s.pageOff, s.page)>>
    <3>1. LastPageOps(s) \o HeaderOps(s) = <<Program(PageLeft(t), s.page)>> \o HeaderLeft(t)
      BY <2>5, <2>10, <2>12
    <3>2. Blank(t, f, PageLeft(t))
      BY <2>3, <2>5, <2>12 DEF Blank
    <3>3. Programming(t, f, LastPageOps(s) \o HeaderOps(s))
      BY <3>1, <3>2, <2>9, <2>10 DEF Programming
    <3> QED
      BY <3>3, <2>3, <2>4, <2>8 DEF Phase
  <2> QED
    BY <2>4, <2>11, <2>12
<1> QED
  BY <1>5, <1>6

-----------------------------------------------------------------------------
(***************************************************************************)
(* One flash operation.                                                    *)
(***************************************************************************)
LEMMA HeadTail1 ==
    ASSUME NEW a, NEW r, r = <<>> \/ \E c, d : r = <<c, d>>
    PROVE  <<a>> \o r # <<>> /\ Head(<<a>> \o r) = a /\ Tail(<<a>> \o r) = r
<1>1. CASE r = <<>>
  <2>1. <<a>> \o r = <<a>>
    BY <1>1, Concat0
  <2> QED
    BY <2>1, <1>1
<1>2. CASE \E c, d : r = <<c, d>>
  <2>1. PICK c, d : r = <<c, d>>
    BY <1>2
  <2>2. <<a>> \o r = <<a, c, d>>
    BY <2>1, Concat12
  <2>3. Tail(<<a, c, d>>) = <<c, d>> /\ Head(<<a, c, d>>) = a /\ <<a, c, d>> # <<>>
    OBVIOUS
  <2> QED
    BY <2>1, <2>2, <2>3
<1> QED
  BY <1>1, <1>2

LEMMA HeadTail2 ==
    ASSUME NEW a, NEW b, NEW r, r = <<>> \/ \E c, d : r = <<c, d>>
    PROVE  <<a, b>> \o r # <<>> /\ Head(<<a, b>> \o r) = a /\ Tail(<<a, b>> \o r) = <<b>> \o r
<1>1. CASE r = <<>>
  <2>1. <<a, b>> \o r = <<a, b>> /\ <<b>> \o r = <<b>>
    BY <1>1, Concat0
  <2> QED
    BY <2>1, <1>1
<1>2. CASE \E c, d : r = <<c, d>>
  <2>1. PICK c, d : r = <<c, d>>
    BY <1>2
  <2>2. <<a, b>> \o r = <<a, b, c, d>> /\ <<b>> \o r = <<b, c, d>>
    BY <2>1, Concat12, Concat22
  <2>3. Tail(<<a, b, c, d>>) = <<b, c, d>> /\ Head(<<a, b, c, d>>) = a /\ <<a, b, c, d>> # <<>>
    OBVIOUS
  <2> QED
    BY <2>2, <2>3
<1> QED
  BY <1>1, <1>2

LEMMA HeaderLeftShape ==
    ASSUME NEW s
    PROVE  HeaderLeft(s) = <<>> \/ \E c, d : HeaderLeft(s) = <<c, d>>
BY DEF HeaderLeft, HeaderOps

\* Only the data pages count for what was written and what is blank.
LEMMA DataPagesOnly ==
    ASSUME NEW s \in RamSet, Streamed(s), NEW f, NEW h, NEW n, n = s.pageOff \/ n = PageLeft(s),
           HdrPages <= n, \A q \in DataPages : h[q] = f[q]
    PROVE  /\ Settled(s, f, n) => Settled(s, h, n)
           /\ Blank(s, f, n) => Blank(s, h, n)
<1>1. s.pageOff \in Int /\ s.erasedUpto \in Int /\ RegionPages \in Int /\ s.erasedUpto <= RegionPages
      /\ s.pageOff <= s.erasedUpto
  BY RegionAssumption DEF RamSet, Streamed
<1>2. n \in Int /\ n <= RegionPages
  BY <1>1 DEF PageLeft
<1>3. \A q \in HdrPages .. n - 1 : h[q] = f[q]
  BY <1>2, <1>1 DEF DataPages, HdrPages
<1>4. \A q \in n .. s.erasedUpto - 1 : h[q] = f[q]
  BY <1>2, <1>1 DEF DataPages, HdrPages
<1> QED
  BY <1>3, <1>4 DEF Settled, Blank

\* What FlashOp leaves of page p.
PageAfter(f, o, p) ==
    IF p \notin o.pages THEN f[p]
    ELSE IF o.op = "erase" THEN <<>>
    ELSE IF f[p] = <<>> THEN o.data ELSE <<NoUnit>>

\* A page that is programmed is blank, and lies in the region.
LEMMA OpOnBlank ==
    ASSUME NEW s \in RamSet, NEW f, NEW ops, Streamed(s), Phase(s, f, ops), ops # <<>>
    PROVE  /\ Head(ops).pages \subseteq Pages
           /\ Head(ops).op = "program" => \A p \in Head(ops).pages : f[p] = <<>>
<1>1. s.pageOff \in Int /\ s.erasedUpto \in Int /\ RegionPages \in Int /\ s.erasedUpto <= RegionPages
      /\ s.pageOff <= s.erasedUpto /\ PageLeft(s) \in Int /\ PageLeft(s) < RegionPages
  BY RegionAssumption DEF RamSet, Streamed, PageLeft
<1>2. 0 \in Pages /\ 1 \in Pages
  BY RegionAssumption DEF Pages, HdrPages
<1>3. CASE Wiping(s, f, ops) \/ HalfWiped(s, f, ops)
  <2>1. Head(ops) = Erase({0}) \/ Head(ops) = Erase({1})
    BY <1>3 DEF Wiping, HalfWiped, EraseHeader
  <2> QED
    BY <2>1, <1>2 DEF Erase
<1>4. CASE Heading(s, f, ops) \/ Closing(s, f, ops)
  <2>1. \/ Head(ops) = Program(1, <<s.wrIndex>>) /\ f[1] = <<>>
        \/ Head(ops) = Program(0, HeaderPage0(s)) /\ f[0] = <<>>
    BY <1>4 DEF Heading, Closing, HeaderOps, HeaderBlank
  <2> QED
    BY <2>1, <1>2 DEF Program
<1>5. CASE Erasing(s, f, ops)
  <2>1. HdrPages <= PageLeft(s) /\ Head(ops) = EraseLeft(s)
    BY <1>5, HeadTail2, HeaderLeftShape DEF Erasing
  <2> QED
    BY <2>1, <1>1 DEF EraseLeft, Erase, Pages, HdrPages
<1>6. CASE Programming(s, f, ops)
  <2>1. PICK c : ops = <<Program(PageLeft(s), c)>> \o HeaderLeft(s)
    BY <1>6 DEF Programming
  <2>2. Head(ops) = Program(PageLeft(s), c)
    BY <2>1, HeadTail1, HeaderLeftShape
  <2>3. f[PageLeft(s)] = <<>>
    <3>1. PageLeft(s) \in PageLeft(s) .. s.erasedUpto - 1
      BY <1>1 DEF PageLeft
    <3> QED
      BY <3>1, <1>6 DEF Programming, Blank
  <2>4. PageLeft(s) \in Pages
    BY <1>6, <1>1 DEF Programming, Pages, HdrPages
  <2> QED
    BY <2>2, <2>3, <2>4 DEF Program
<1>7. CASE Resting(s, f, ops) \/ Closed(s, f, ops)
  BY <1>7 DEF Resting, Closed
<1> QED
  BY <1>3, <1>4, <1>5, <1>6, <1>7 DEF Phase

\* Once all pages are programmed, the data area reads as the data that were counted.
LEMMA ReadsBack ==
    ASSUME NEW s \in RamSet, Streamed(s), s.committing, NEW f, Settled(s, f, s.pageOff)
    PROVE  DataUnits(f, Len(s.crc)) = s.crc
<1>1. s.crc \in Seq(Units) /\ s.pageOff \in Int
  BY RegionAssumption DEF RamSet
<1>2. Len(s.crc) \in Nat /\ Len(s.crc) <= Base(s.pageOff) /\ Base(s.pageOff) \in Int
  BY <1>1, BaseInt, LenProperties DEF Streamed
<1>3. ASSUME NEW j \in 1 .. Len(s.crc)
      PROVE  DataUnit(f, j) = s.crc[j]
  <2> DEFINE q == HdrPages + (j - 1) \div PageUnits
             k == 1 + ((j - 1) % PageUnits)
  <2>1. j \in Nat \ {0}
    BY <1>2
  <2>2. q \in Int /\ HdrPages <= q /\ k \in 1 .. PageUnits /\ j = Base(q) + k
    BY <2>1, Address
  <2>3. DataUnit(f, j) = IF k <= Len(f[q]) THEN f[q][k] ELSE NoUnit
    BY DEF DataUnit
  <2> HIDE DEF q, k
  <2>4. Base(q) \in Int /\ Base(q) < Base(s.pageOff)
    <3>1. Base(q) \in Int
      BY <2>2, BaseInt
    <3> QED
      BY <3>1, <2>2, <1>2, BlockAssumption
  <2>5. q < s.pageOff
    BY <2>2, <2>4, <1>1, BaseOrder
  <2>6. q \in HdrPages .. s.pageOff - 1
    BY <2>2, <2>5, <1>1 DEF HdrPages
  <2>7. k <= Len(f[q]) /\ f[q][k] = s.crc[j]
    BY <2>2, <2>6 DEF Settled, PageHolds
  <2> QED
    BY <2>3, <2>7
<1>4. s.crc = [j \in 1 .. Len(s.crc) |-> s.crc[j]]
  BY <1>1
<1> QED
  BY <1>3, <1>4 DEF DataUnits

\* A flash operation takes a transfer to the next phase, and a header it writes vouches for the set.
LEMMA PhaseSteps ==
    ASSUME NEW s \in RamSet, Streamed(s), Indexed(s.wrIndex, s.crc), s.committing => s.wrId # NoId,
           NEW f, Vouched(f), NEW ops, Phase(s, f, ops), ops # <<>>,
           NEW h, h = [p \in Pages |-> PageAfter(f, Head(ops), p)]
    PROVE  /\ Phase(s, h, Tail(ops)) /\ Vouched(h)
           /\ h[0] = <<>> \/ (f[0] = <<>> /\ HeaderWritten(s, h))
<1> DEFINE o == Head(ops)
<1>1. s.pageOff \in Int /\ s.erasedUpto \in Int /\ RegionPages \in Int /\ s.erasedUpto <= RegionPages
      /\ s.pageOff <= s.erasedUpto /\ PageLeft(s) \in Int /\ PageLeft(s) < RegionPages
      /\ HdrPages <= s.pageOff /\ HdrPages \in Int
  BY RegionAssumption DEF RamSet, Streamed, PageLeft, HdrPages
<1>2. 0 \in Pages /\ 1 \in Pages /\ DataPages \subseteq Pages /\ 0 \notin DataPages /\ 1 \notin DataPages
  BY RegionAssumption DEF Pages, HdrPages, DataPages
<1>3. \A p \in Pages : h[p] = PageAfter(f, o, p)
  OBVIOUS
<1> HIDE DEF o
<1>4. ASSUME NEW p \in {0, 1}, o.pages = {p}
      PROVE  \A n \in {s.pageOff, PageLeft(s)} : HdrPages <= n =>
               (Settled(s, f, n) => Settled(s, h, n)) /\ (Blank(s, f, n) => Blank(s, h, n))
  <2>1. \A q \in DataPages : h[q] = f[q]
    BY <1>2, <1>3, <1>4 DEF PageAfter
  <2> QED
    BY <2>1, DataPagesOnly
<1> DEFINE Still == Settled(s, f, s.pageOff) /\ Blank(s, f, s.pageOff)
<1>5. ASSUME NEW p \in {0, 1}, o.pages = {p}, Still
      PROVE  Settled(s, h, s.pageOff) /\ Blank(s, h, s.pageOff)
  BY <1>1, <1>4, <1>5
<1>6. CASE Still /\ Wiping(s, f, ops)
  <2>1. o = Erase({0}) /\ Tail(ops) = <<Erase({1})>>
    BY <1>6 DEF Wiping, EraseHeader, o
  <2>2. h[0] = <<>> /\ o.pages = {0}
    BY <2>1, <1>2, <1>3 DEF PageAfter, Erase
  <2>3. HalfWiped(s, h, Tail(ops))
    BY <2>1, <2>2, <1>6 DEF HalfWiped, Wiping
  <2> QED
    BY <2>2, <2>3, <1>5, <1>6 DEF Phase, Vouched, Written
<1>7. CASE Still /\ HalfWiped(s, f, ops)
  <2>1. o = Erase({1}) /\ Tail(ops) = <<>>
    BY <1>7 DEF HalfWiped, o
  <2>2. h[0] = <<>> /\ h[1] = <<>> /\ o.pages = {1}
    BY <2>1, <1>2, <1>3, <1>7 DEF PageAfter, Erase, HalfWiped
  <2>3. Resting(s, h, Tail(ops))
    BY <2>1, <2>2, <1>7 DEF HalfWiped, Resting, HeaderBlank
  <2> QED
    BY <2>2, <2>3, <1>5, <1>7 DEF Phase, Vouched, Written
<1>8. CASE Still /\ Heading(s, f, ops)
  <2>1. o = Program(1, <<s.wrIndex>>) /\ Tail(ops) = <<Program(0, HeaderPage0(s))>>
    BY <1>8 DEF Heading, HeaderOps, o
  <2>2. h[0] = <<>> /\ h[1] = <<s.wrIndex>> /\ o.pages = {1}
    BY <2>1, <1>2, <1>3, <1>8 DEF PageAfter, Program, Heading, HeaderBlank
  <2>3. Closing(s, h, Tail(ops))
    BY <2>1, <2>2, <1>8 DEF Heading, Closing
  <2> QED
    BY <2>2, <2>3, <1>5, <1>8 DEF Phase, Vouched, Written
<1>9. CASE Still /\ Closing(s, f, ops)
  <2>1. o = Program(0, HeaderPage0(s)) /\ Tail(ops) = <<>>
    BY <1>9 DEF Closing, o
  <2>2. h[0] = HeaderPage0(s) /\ h[1] = <<s.wrIndex>> /\ o.pages = {0}
    BY <2>1, <1>2, <1>3, <1>9 DEF PageAfter, Program, Closing
  <2>3. Closed(s, h, Tail(ops))
    BY <2>1, <2>2, <1>9 DEF Closing, Closed, HeaderWritten
  <2>4. Settled(s, h, s.pageOff) /\ Blank(s, h, s.pageOff)
    BY <2>2, <1>5, <1>9
  <2>5. DataUnits(h, Len(s.crc)) = s.crc
    BY <2>4, <1>9, ReadsBack DEF Closing
  <2>6. Header(h) = [id |-> s.wrId, wh |-> s.res, crc |-> s.crc]
    BY <2>2 DEF Header, HeaderPage0
  <2>7. Header(h) \in [id : Ids, wh : Modes, crc : Seq(Units)] /\ Header(h).crc = s.crc
    <3>1. s.wrId \in Ids /\ s.res \in Modes /\ s.crc \in Seq(Units)
      BY <1>9 DEF RamSet, Closing
    <3> QED
      BY <3>1, <2>6
  <2>8. s.wrIndex \in [Defs -> Nat] /\ h[1] # <<>> /\ h[1][1] = s.wrIndex
    <3>1. s.wrIndex \in [Defs -> Nat]
      BY DEF RamSet
    <3>2. h[1] # <<>> /\ h[1][1] = s.wrIndex
      BY <2>2
    <3> QED
      BY <3>1, <3>2
  <2>9. Vouched(h)
    BY <2>5, <2>7, <2>8 DEF Vouched, CrcMatches
  <2> QED
    BY <2>3, <2>4, <2>9, <1>9 DEF Phase, Closing, Closed
<1>10. CASE Erasing(s, f, ops)
  <2>1. PICK c : /\ ops = <<EraseLeft(s), Program(PageLeft(s), c)>> \o HeaderLeft(s)
                 /\ PageHolds(s, PageLeft(s), c)
    BY <1>10 DEF Erasing
  <2>2. o = EraseLeft(s) /\ Tail(ops) = <<Program(PageLeft(s), c)>> \o HeaderLeft(s)
    BY <2>1, HeadTail2, HeaderLeftShape DEF o
  <2>3. HdrPages <= PageLeft(s) /\ HeaderBlank(f) /\ Settled(s, f, PageLeft(s))
    BY <1>10 DEF Erasing
  <2>4. \A q \in PageLeft(s) .. s.erasedUpto - 1 : h[q] = <<>>
    <3> SUFFICES ASSUME NEW q \in PageLeft(s) .. s.erasedUpto - 1 PROVE h[q] = <<>>
      OBVIOUS
    <3>1. q \in Pages /\ q \in o.pages /\ o.op = "erase"
      BY <2>2, <2>3, <1>1 DEF EraseLeft, Erase, Pages, HdrPages
    <3> QED
      BY <3>1, <1>3 DEF PageAfter
  <2>5. \A q \in Pages : q < PageLeft(s) => h[q] = f[q]
    <3> SUFFICES ASSUME NEW q \in Pages, q < PageLeft(s) PROVE h[q] = f[q]
      OBVIOUS
    <3>1. q \notin o.pages
      BY <2>2, <1>1 DEF EraseLeft, Erase, Pages
    <3> QED
      BY <3>1, <1>3 DEF PageAfter
  <2>6. Settled(s, h, PageLeft(s)) /\ Blank(s, h, PageLeft(s)) /\ HeaderBlank(h)
    <3>1. HeaderBlank(h)
      BY <2>3, <2>5, <1>1, <1>2 DEF HeaderBlank, HdrPages
    <3>2. Settled(s, h, PageLeft(s))
      <4> SUFFICES ASSUME NEW q \in HdrPages .. PageLeft(s) - 1 PROVE PageHolds(s, q, h[q])
        BY DEF Settled
      <4>1. q \in Pages /\ q < PageLeft(s)
        BY <1>1 DEF Pages, HdrPages
      <4> QED
        BY <4>1, <2>3, <2>5 DEF Settled
    <3> QED
      BY <3>1, <3>2, <2>4 DEF Blank
  <2>7. Programming(s, h, Tail(ops))
    BY <2>1, <2>2, <2>3, <2>6 DEF Programming
  <2> QED
    BY <2>6, <2>7 DEF Phase, Vouched, Written, HeaderBlank
<1>11. CASE Programming(s, f, ops)
  <2>1. PICK c : ops = <<Program(PageLeft(s), c)>> \o HeaderLeft(s) /\ PageHolds(s, PageLeft(s), c)
    BY <1>11 DEF Programming
  <2>2. o = Program(PageLeft(s), c) /\ Tail(ops) = HeaderLeft(s)
    BY <2>1, HeadTail1, HeaderLeftShape DEF o
  <2>3. HdrPages <= PageLeft(s) /\ HeaderBlank(f) /\ Settled(s, f, PageLeft(s)) /\ Blank(s, f, PageLeft(s))
    BY <1>11 DEF Programming
  <2>4. h[PageLeft(s)] = c
    <3>1. f[PageLeft(s)] = <<>> /\ PageLeft(s) \in Pages
      BY <2>3, <1>1 DEF Blank, Pages, HdrPages, PageLeft
    <3> QED
      BY <3>1, <2>2, <1>3 DEF PageAfter, Program
  <2>5. \A q \in Pages : q # PageLeft(s) => h[q] = f[q]
    BY <2>2, <1>3 DEF PageAfter, Program
  <2>6. HeaderBlank(h)
    BY <2>3, <2>5, <1>1, <1>2 DEF HeaderBlank, HdrPages
  <2>7. Settled(s, h, s.pageOff)
    <3> SUFFICES ASSUME NEW q \in HdrPages .. s.pageOff - 1 PROVE PageHolds(s, q, h[q])
      BY DEF Settled
    <3>1. CASE q = PageLeft(s)
      BY <3>1, <2>1, <2>4
    <3>2. CASE q # PageLeft(s)
      <4>1. q \in HdrPages .. PageLeft(s) - 1 /\ q \in Pages
        BY <3>2, <1>1 DEF PageLeft, Pages, HdrPages
      <4> QED
        BY <4>1, <3>2, <2>3, <2>5 DEF Settled
    <3> QED
      BY <3>1, <3>2
  <2>8. Blank(s, h, s.pageOff)
    <3> SUFFICES ASSUME NEW q \in s.pageOff .. s.erasedUpto - 1 PROVE h[q] = <<>>
      BY DEF Blank
    <3>1. q \in PageLeft(s) .. s.erasedUpto - 1 /\ q \in Pages /\ q # PageLeft(s)
      BY <1>1 DEF PageLeft, Pages, HdrPages
    <3> QED
      BY <3>1, <2>3, <2>5 DEF Blank
  <2>9. Resting(s, h, Tail(ops)) \/ Heading(s, h, Tail(ops))
    BY <2>2, <2>6 DEF Resting, Heading, HeaderLeft
  <2> QED
    BY <2>6, <2>7, <2>8, <2>9 DEF Phase, Vouched, Written, HeaderBlank
<1>12. CASE Resting(s, f, ops) \/ Closed(s, f, ops)
  BY <1>12 DEF Resting, Closed
<1> QED
  BY <1>6, <1>7, <1>8, <1>9, <1>10, <1>11, <1>12 DEF Phase

-----------------------------------------------------------------------------
(***************************************************************************)
(* Every step preserves the invariant.                                     *)
(***************************************************************************)
LEMMA AtRest ==
    ASSUME NEW s, NEW f, Phase(s, f, <<>>)
    PROVE  /\ Settled(s, f, s.pageOff) /\ Blank(s, f, s.pageOff)
           /\ ~s.committing => HeaderBlank(f)
           /\ s.committing => HeaderWritten(s, f)
<1>1. ~Erasing(s, f, <<>>)
  <2> SUFFICES ASSUME Erasing(s, f, <<>>) PROVE FALSE
    OBVIOUS
  <2> DEFINE a == EraseLeft(s)
  <2>1. PICK c : <<>> = <<a, Program(PageLeft(s), c)>> \o HeaderLeft(s)
    BY DEF Erasing
  <2> HIDE DEF a
  <2>2. <<a, Program(PageLeft(s), c)>> \o HeaderLeft(s) # <<>>
    BY HeadTail2, HeaderLeftShape
  <2> QED
    BY <2>1, <2>2
<1>2. ~Programming(s, f, <<>>)
  BY HeadTail1, HeaderLeftShape DEF Programming
<1>3. ~Wiping(s, f, <<>>) /\ ~HalfWiped(s, f, <<>>) /\ ~Closing(s, f, <<>>)
  BY DEF Wiping, HalfWiped, Closing, EraseHeader
<1>4. ~Heading(s, f, <<>>)
  BY DEF Heading, HeaderOps
<1> QED
  BY <1>1, <1>2, <1>3, <1>4 DEF Phase, Resting, Closed

\* A step that leaves the pages alone leaves them as they were.
LEMMA RestAgain ==
    ASSUME NEW s, NEW t, NEW f, Streamed(s), Phase(s, f, <<>>), ~s.committing, ~t.committing,
           t.crc = s.crc, t.page = s.page, t.pageOff = s.pageOff, t.erasedUpto = s.erasedUpto
    PROVE  Streamed(t) /\ Phase(t, f, <<>>)
<1>1. Settled(s, f, s.pageOff) /\ Blank(s, f, s.pageOff) /\ HeaderBlank(f)
  BY AtRest
<1>2. Settled(t, f, t.pageOff) /\ Blank(t, f, t.pageOff)
  BY <1>1 DEF Settled, Blank, PageHolds
<1>3. Resting(t, f, <<>>)
  BY <1>1 DEF Resting
<1>4. Streamed(t)
  BY DEF Streamed
<1> QED
  BY <1>2, <1>3, <1>4 DEF Phase

LEMMA FreshDrawn == ASSUME NEW s \in RamSet, s.rec.k = 0, ~s.rec.failed, s.wbuf = <<>>,
                           s.rec # NoPoly => s.rec.def \in Defs /\ s.rec.v \in Payloads
                    PROVE  Drawn(s)
<1>1. Len(s.wbuf) = 0 /\ Len(s.crc \o s.wbuf) \in Nat
  BY LenProperties DEF RamSet
<1>2. EndsWith(s.crc \o s.wbuf, s.rec)
  BY <1>1 DEF EndsWith
<1> QED
  BY <1>1, <1>2, BlockAssumption DEF Drawn

LEMMA NoPolyDrawn == ASSUME NEW s \in RamSet, s.rec = NoPoly, s.wbuf = <<>> PROVE Drawn(s)
<1>1. s.rec.k = 0 /\ ~s.rec.failed
  BY DEF NoPoly
<1> QED
  BY <1>1, FreshDrawn

LEMMA InitInv == Init => GInv
<1> SUFFICES ASSUME Init PROVE GInv
  OBVIOUS
<1>1. PICK m \in Modes : g = Ram(m)
  BY DEF Init
<1>2. EmptyIndex \in [Defs -> Nat] /\ <<>> \in Seq(Units)
  BY DEF EmptyIndex, Absent
<1>3. NoPoly \in Polys
  BY DEF NoPoly, Polys
<1>4. 0 \in 0 .. RegionPages /\ 0 \in 0 .. 2
  BY RegionAssumption
<1>5. g \in RamSet
  BY <1>1, <1>2, <1>3, <1>4 DEF Ram, RamSet
<1>6. flash[0] = <<>>
  BY RegionAssumption DEF Init, Pages, HdrPages
<1>7. Vouched(flash) /\ Presented(g, flash)
  BY <1>1, <1>6 DEF Vouched, Presented, Written, Ram
<1>8. ~g.writing /\ ~g.committing /\ todo = <<>> /\ DOMAIN flash = Pages
      /\ flash = [p \in Pages |-> flash[p]] /\ fed \in Nat
  BY <1>1 DEF Ram, Init
<1> QED
  BY <1>5, <1>7, <1>8 DEF GInv

LEMMA PowerCutInv == GInv /\ PowerCut => GInv'
<1> SUFFICES ASSUME GInv, PowerCut PROVE GInv'
  OBVIOUS
<1>1. PICK m \in Modes : g' = Ram(m)
  BY DEF PowerCut
<1>2. EmptyIndex \in [Defs -> Nat] /\ <<>> \in Seq(Units)
  BY DEF EmptyIndex, Absent
<1>3. NoPoly \in Polys
  BY DEF NoPoly, Polys
<1>4. 0 \in 0 .. RegionPages /\ 0 \in 0 .. 2
  BY RegionAssumption
<1>5. g' \in RamSet
  BY <1>1, <1>2, <1>3, <1>4 DEF Ram, RamSet
<1>6. flash' = flash /\ todo' = <<>> /\ fed' = 0
  BY DEF PowerCut
<1>7. Vouched(flash') /\ Presented(g', flash')
  BY <1>1, <1>6 DEF GInv, Presented, Ram
<1>8. ~g'.writing /\ ~g'.committing
  BY <1>1 DEF Ram
<1> QED
  BY <1>5, <1>6, <1>7, <1>8 DEF GInv

LEMMA FlashOpInv == GInv /\ FlashOp => GInv'
<1> SUFFICES ASSUME GInv, FlashOp PROVE GInv'
  OBVIOUS
<1>1. g.writing /\ todo # <<>>
  BY DEF GInv, FlashOp
<1>2. g \in RamSet /\ Streamed(g) /\ Indexed(g.wrIndex, g.crc) /\ (g.committing => g.wrId # NoId)
      /\ Vouched(flash) /\ Phase(g, flash, todo) /\ Drawn(g)
  BY <1>1 DEF GInv, Receives
<1>3. flash' = [p \in Pages |-> PageAfter(flash, Head(todo), p)] /\ todo' = Tail(todo) /\ g' = g /\ fed' = fed
  BY DEF FlashOp, PageAfter
<1>4. Phase(g, flash', todo') /\ Vouched(flash')
  BY <1>1, <1>2, <1>3, PhaseSteps
<1>5. Receives(g', flash', todo')
  BY <1>2, <1>3, <1>4 DEF Receives
<1>6. Presented(g', flash')
  BY <1>1, <1>3 DEF GInv, Presented
<1>7. DOMAIN flash' = Pages /\ flash' = [p \in Pages |-> flash'[p]]
  BY <1>3
<1> QED
  BY <1>1, <1>2, <1>3, <1>4, <1>5, <1>6, <1>7 DEF GInv

LEMMA BeginInv == ASSUME GInv, NEW id \in Ids \cup {NoId}, Begin(id) PROVE GInv'
<1>1. ~g.writing /\ ~g.committing /\ g \in RamSet /\ Vouched(flash)
  BY DEF GInv, Begin
<1>2. g' = BeginRam(g, id) /\ todo' = EraseHeader /\ fed' = 0 /\ flash' = flash
  BY DEF Begin
<1>3. /\ g'.res = g.res /\ ~g'.present /\ ~g'.open /\ g'.id = g.id /\ g'.wh = g.wh
      /\ g'.crcState = g.crcState /\ g'.writing /\ g'.wrId = id /\ g'.wrIndex = EmptyIndex
      /\ g'.dropped = 0 /\ g'.rec = NoPoly /\ g'.wbuf = <<>> /\ g'.page = <<>>
      /\ g'.pageOff = HdrPages /\ g'.erasedUpto = HdrPages /\ g'.crc = <<>> /\ ~g'.committing
  BY <1>1, <1>2 DEF BeginRam, RamSet
<1>4. EmptyIndex \in [Defs -> Nat] /\ <<>> \in Seq(Units) /\ NoPoly \in Polys
      /\ HdrPages \in 0 .. RegionPages
  BY RegionAssumption DEF EmptyIndex, Absent, NoPoly, Polys, HdrPages
<1>5. g' \in RamSet
  BY <1>1, <1>2, <1>4 DEF BeginRam, RamSet
<1>6. Streamed(g')
  <2>1. Len(<<>>) = 0
    OBVIOUS
  <2> QED
    BY <2>1, <1>3, BaseEnds, BlockAssumption DEF Streamed, HdrPages
<1>7. Phase(g', flash', todo')
  <2>1. Settled(g', flash', g'.pageOff) /\ Blank(g', flash', g'.pageOff)
    BY <1>3 DEF Settled, Blank, HdrPages
  <2>2. Wiping(g', flash', todo')
    BY <1>2, <1>3 DEF Wiping
  <2> QED
    BY <2>1, <2>2 DEF Phase
<1>8. Indexed(g'.wrIndex, g'.crc)
  BY <1>3 DEF Indexed, EmptyIndex
<1>9. Receives(g', flash', todo')
  <2>1. Drawn(g')
    BY <1>3, <1>5, NoPolyDrawn
  <2> QED
    BY <2>1, <1>3, <1>6, <1>7, <1>8 DEF Receives
<1> QED
  BY <1>1, <1>2, <1>3, <1>5, <1>9 DEF GInv, Presented

\* Giving the transfer up, or finishing it.
LEMMA EndWriteRam ==
    ASSUME NEW s \in RamSet, NEW t, t = EndWrite(s)
    PROVE  /\ t \in RamSet /\ ~t.writing /\ ~t.committing
           /\ t.present = s.present /\ t.open = s.open /\ t.id = s.id /\ t.wh = s.wh /\ t.res = s.res
<1>1. EmptyIndex \in [Defs -> Nat] /\ <<>> \in Seq(Units) /\ NoPoly \in Polys
  BY DEF EmptyIndex, Absent, NoPoly, Polys
<1> QED
  BY <1>1 DEF EndWrite, RamSet

LEMMA AbortInv == GInv /\ Abort => GInv'
<1> SUFFICES ASSUME GInv, Abort PROVE GInv'
  OBVIOUS
<1>1. g' = EndWrite(g) /\ todo' = <<>> /\ flash' = flash /\ fed' = fed
  BY DEF Abort, Receiving
<1>2. g' \in RamSet /\ ~g'.writing /\ ~g'.committing /\ g'.present = g.present /\ g'.open = g.open
      /\ g'.id = g.id /\ g'.wh = g.wh /\ g'.res = g.res
  BY <1>1, EndWriteRam DEF GInv
<1> QED
  BY <1>1, <1>2 DEF GInv, Presented

LEMMA ReceivingRests ==
    ASSUME GInv, Receiving
    PROVE  /\ g \in RamSet /\ todo = <<>> /\ g.writing /\ ~g.committing /\ fed \in Nat
           /\ ~g.present /\ ~g.open
           /\ Streamed(g) /\ Indexed(g.wrIndex, g.crc) /\ Drawn(g) /\ Phase(g, flash, <<>>)
           /\ Settled(g, flash, g.pageOff) /\ Blank(g, flash, g.pageOff) /\ HeaderBlank(flash)
           /\ Vouched(flash) /\ DOMAIN flash = Pages /\ flash = [p \in Pages |-> flash[p]]
<1>1. todo = <<>> /\ g.writing /\ ~g.committing
  BY DEF Receiving
<1>2. Receives(g, flash, <<>>)
  BY <1>1 DEF GInv
<1>3. Settled(g, flash, g.pageOff) /\ Blank(g, flash, g.pageOff) /\ HeaderBlank(flash)
  BY <1>1, <1>2, AtRest DEF Receives
<1> QED
  BY <1>1, <1>2, <1>3 DEF GInv, Receives, Presented

\* While a transfer goes on, only the received part of the invariant has to be shown.
LEMMA StillReceiving ==
    ASSUME GInv, Receiving, g' \in RamSet, flash' = flash, fed' \in Nat,
           g'.writing, ~g'.present, ~g'.open, Receives(g', flash, todo')
    PROVE  GInv'
BY ReceivingRests DEF GInv, Presented

LEMMA SetIdInv == ASSUME GInv, NEW id \in Ids, SetId(id) PROVE GInv'
<1>1. Receiving /\ g' = [g EXCEPT !.wrId = id] /\ flash' = flash /\ todo' = todo /\ fed' = fed
  BY DEF SetId
<1>2. g \in RamSet /\ todo = <<>> /\ g.writing /\ ~g.committing /\ fed \in Nat /\ ~g.present /\ ~g.open
      /\ Streamed(g) /\ Indexed(g.wrIndex, g.crc) /\ Drawn(g) /\ Phase(g, flash, <<>>)
  BY <1>1, ReceivingRests
<1>3. g' \in RamSet
  BY <1>1, <1>2 DEF RamSet
<1>4. /\ g'.writing /\ ~g'.present /\ ~g'.open /\ ~g'.committing /\ g'.crc = g.crc /\ g'.page = g.page
      /\ g'.pageOff = g.pageOff /\ g'.erasedUpto = g.erasedUpto /\ g'.wrIndex = g.wrIndex
      /\ g'.rec = g.rec /\ g'.wbuf = g.wbuf
  BY <1>1, <1>2 DEF RamSet
<1>5. Streamed(g') /\ Phase(g', flash, todo')
  BY <1>1, <1>2, <1>4, RestAgain
<1>6. Drawn(g')
  BY <1>2, <1>4 DEF Drawn
<1>7. Receives(g', flash, todo')
  BY <1>2, <1>4, <1>5, <1>6 DEF Receives
<1> QED
  BY <1>1, <1>2, <1>3, <1>4, <1>7, StillReceiving

LEMMA CommitInv == GInv /\ Commit => GInv'
<1> SUFFICES ASSUME GInv, Commit PROVE GInv'
  OBVIOUS
<1>1. Receiving /\ flash' = flash /\ fed' = fed
  BY DEF Commit
<1>2. g \in RamSet /\ todo = <<>> /\ g.writing /\ ~g.committing /\ fed \in Nat /\ ~g.present /\ ~g.open
      /\ Streamed(g) /\ Indexed(g.wrIndex, g.crc) /\ Drawn(g)
      /\ Settled(g, flash, g.pageOff) /\ Blank(g, flash, g.pageOff) /\ HeaderBlank(flash)
  BY <1>1, ReceivingRests
<1>3. CASE g.wrId = NoId \/ g.rec # NoPoly
  <2>1. g' = EndWrite(g) /\ todo' = <<>>
    BY <1>2, <1>3 DEF Commit
  <2>2. g' \in RamSet /\ ~g'.writing /\ ~g'.committing /\ g'.present = g.present /\ g'.open = g.open
        /\ g'.id = g.id /\ g'.wh = g.wh /\ g'.res = g.res
    BY <2>1, <1>2, EndWriteRam
  <2> QED
    BY <2>1, <2>2, <1>1 DEF GInv, Presented
<1>4. CASE g.wrId # NoId /\ g.rec = NoPoly
  <2> DEFINE z == IF g.page = <<>> THEN g ELSE FlushRam(g)
  <2>1. todo' = LastPageOps(g) \o HeaderOps(g) /\ g' = [z EXCEPT !.committing = TRUE]
    BY <1>4 DEF Commit
  <2>2. /\ z.res = g.res /\ z.present = g.present /\ z.open = g.open /\ z.id = g.id /\ z.wh = g.wh
        /\ z.crcState = g.crcState /\ z.writing = g.writing /\ z.wrId = g.wrId
        /\ z.wrIndex = g.wrIndex /\ z.dropped = g.dropped /\ z.rec = g.rec /\ z.wbuf = g.wbuf
        /\ z.crc = g.crc /\ z.page = <<>>
    <3>1. CASE g.page = <<>>
      BY <3>1
    <3>2. CASE g.page # <<>>
      BY <3>2, <1>2, FlushFields
    <3> QED
      BY <3>1, <3>2
  <2>3. IF g.page = <<>> THEN z.pageOff = g.pageOff /\ z.erasedUpto = g.erasedUpto
        ELSE z.pageOff = FlushRam(g).pageOff /\ z.erasedUpto = FlushRam(g).erasedUpto
    OBVIOUS
  <2>4. DOMAIN z = DOMAIN g
    BY DEF FlushRam
  <2> HIDE DEF z
  <2>5. /\ g'.res = g.res /\ g'.present = g.present /\ g'.open = g.open /\ g'.id = g.id /\ g'.wh = g.wh
        /\ g'.crcState = g.crcState /\ g'.writing = g.writing /\ g'.wrId = g.wrId
        /\ g'.wrIndex = g.wrIndex /\ g'.dropped = g.dropped /\ g'.rec = g.rec /\ g'.wbuf = g.wbuf
        /\ g'.crc = g.crc /\ g'.page = <<>> /\ g'.committing
        /\ g'.pageOff = z.pageOff /\ g'.erasedUpto = z.erasedUpto
    <3>1. DOMAIN z = {"res", "present", "open", "id", "wh", "crcState", "writing", "wrId", "wrIndex",
                      "dropped", "rec", "wbuf", "page", "pageOff", "erasedUpto", "crc", "committing"}
      BY <2>4, <1>2 DEF RamSet
    <3> QED
      BY <3>1, <2>1, <2>2
  <2>6. Streamed(g') /\ Phase(g', flash, todo')
        /\ g'.pageOff \in 0 .. RegionPages /\ g'.erasedUpto \in 0 .. RegionPages
    BY <2>1, <2>3, <2>5, <1>2, CommitKeeps
  <2>7. g' \in RamSet
    <3>1. z.pageOff \in 0 .. RegionPages /\ z.erasedUpto \in 0 .. RegionPages
      BY <2>5, <2>6
    <3>2. CASE g.page = <<>>
      BY <3>2, <2>1, <1>2 DEF z, RamSet
    <3>3. CASE g.page # <<>>
      <4>1. z = FlushRam(g)
        BY <3>3 DEF z
      <4>2. z \in RamSet
        <5>1. <<>> \in Seq(Units)
          OBVIOUS
        <5> QED
          BY <4>1, <5>1, <3>1, <1>2 DEF FlushRam, RamSet
      <4> QED
        BY <4>2, <2>1 DEF RamSet
    <3> QED
      BY <3>2, <3>3
  <2>8. Drawn(g') /\ Indexed(g'.wrIndex, g'.crc)
    BY <2>5, <1>2 DEF Drawn
  <2>9. Receives(g', flash, todo')
    BY <2>5, <2>6, <2>8, <1>4 DEF Receives
  <2> QED
    BY <2>5, <2>7, <2>9, <1>1, <1>2, StillReceiving
<1> QED
  BY <1>3, <1>4

LEMMA CommittedInv == GInv /\ Committed => GInv'
<1> SUFFICES ASSUME GInv, Committed PROVE GInv'
  OBVIOUS
<1> DEFINE w == [g EXCEPT !.present = TRUE, !.open = TRUE, !.id = g.wrId, !.wh = g.res, !.crcState = 1]
<1>1. g' = EndWrite(w) /\ todo = <<>> /\ todo' = <<>> /\ flash' = flash /\ fed' = fed /\ g.committing
  BY DEF Committed
<1>2. g \in RamSet /\ g.writing /\ Receives(g, flash, <<>>)
  BY <1>1 DEF GInv
<1>3. HeaderWritten(g, flash)
  BY <1>1, <1>2, AtRest DEF Receives
<1>4. w \in RamSet /\ w.present /\ w.open /\ w.id = g.wrId /\ w.wh = g.res /\ w.res = g.res
  <2>1. w.present /\ w.open /\ w.id = g.wrId /\ w.wh = g.res /\ w.res = g.res
    BY <1>2 DEF RamSet
  <2>2. 1 \in 0 .. 2 /\ g.wrId \in Ids \cup {NoId} /\ g.res \in Modes \cup {NoId}
    BY <1>2 DEF RamSet
  <2>3. w \in RamSet
    BY <2>2, <1>2 DEF RamSet
  <2> QED
    BY <2>1, <2>3
<1> HIDE DEF w
<1>5. /\ g' \in RamSet /\ ~g'.writing /\ ~g'.committing
      /\ g'.present /\ g'.open /\ g'.id = g.wrId /\ g'.wh = g.res /\ g'.res = g.res
  BY <1>1, <1>4, EndWriteRam
<1>6. Written(flash) /\ Header(flash).id = g.wrId /\ Header(flash).wh = g.res
  BY <1>3 DEF HeaderWritten, HeaderPage0, Written, Header
<1> QED
  BY <1>1, <1>5, <1>6 DEF GInv, Presented

LEMMA OpenInv == ASSUME GInv, NEW id \in Ids, Open(id) PROVE GInv'
<1>1. todo = <<>> /\ todo' = <<>> /\ flash' = flash /\ fed' = fed /\ ~g.committing /\ g \in RamSet
  BY DEF Open, GInv
<1>2. CASE g.writing
  <2>1. Receiving
    BY <1>1, <1>2 DEF Receiving
  <2>2. Streamed(g) /\ Indexed(g.wrIndex, g.crc) /\ Drawn(g) /\ Phase(g, flash, <<>>)
        /\ fed \in Nat /\ ~g.present
    BY <2>1, ReceivingRests
  <2>3. g' = [g EXCEPT !.open = FALSE]
    BY <1>2 DEF Open
  <2>4. g' \in RamSet
    BY <2>3, <1>1 DEF RamSet
  <2>5. /\ g'.writing = g.writing /\ g'.present = g.present /\ ~g'.open
        /\ g'.committing = g.committing /\ g'.crc = g.crc
        /\ g'.page = g.page /\ g'.wrIndex = g.wrIndex /\ g'.rec = g.rec /\ g'.wbuf = g.wbuf
        /\ g'.pageOff = g.pageOff /\ g'.erasedUpto = g.erasedUpto
    BY <2>3, <1>1 DEF RamSet
  <2>6. Streamed(g') /\ Phase(g', flash, <<>>)
    BY <2>2, <2>5, <1>1, RestAgain
  <2>7. Drawn(g')
    BY <2>2, <2>5 DEF Drawn
  <2>8. Receives(g', flash, todo')
    BY <2>2, <2>5, <2>6, <2>7, <1>1 DEF Receives
  <2> QED
    BY <2>1, <2>2, <2>4, <2>5, <2>8, <1>1, <1>2, StillReceiving
<1>3. CASE ~g.writing
  <2> DEFINE s == IF g.present THEN g ELSE LoadHeader(g)
             opens == Opens(s, id)
  <2>1. g' = [s EXCEPT !.open = opens]
    BY <1>3 DEF Open
  <2>2. s \in RamSet /\ ~s.writing /\ ~s.committing
        /\ (s.present => Written(flash) /\ Header(flash).id = s.id /\ Header(flash).wh = s.wh)
    <3>1. CASE g.present
      BY <3>1, <1>1, <1>3 DEF GInv, Presented
    <3>2. CASE ~g.present /\ ~Written(flash)
      <4>1. s = g
        BY <3>2 DEF LoadHeader
      <4> QED
        BY <3>2, <4>1, <1>1, <1>3
    <3>3. CASE ~g.present /\ Written(flash)
      <4> DEFINE h == Header(flash)
                 state == IF g.crcState # 0 THEN g.crcState ELSE IF CrcMatches(flash) THEN 1 ELSE 2
      <4>1. s = IF state # 1 THEN [g EXCEPT !.crcState = state]
                ELSE [g EXCEPT !.crcState = state, !.present = TRUE, !.id = h.id, !.wh = h.wh]
        BY <3>3 DEF LoadHeader
      <4>2. h.id \in Ids /\ h.wh \in Modes
        BY <3>3 DEF GInv, Vouched
      <4>3. state \in 0 .. 2
        <5>1. g.crcState \in 0 .. 2
          BY <1>1 DEF RamSet
        <5> QED
          BY <5>1
      <4> HIDE DEF state, h, s
      <4>4. CASE state # 1
        <5>1. s = [g EXCEPT !.crcState = state]
          BY <4>1, <4>4
        <5>2. s \in RamSet
          BY <5>1, <4>3, <1>1 DEF RamSet
        <5>3. s.writing = g.writing /\ s.committing = g.committing /\ s.present = g.present
          BY <5>1, <1>1 DEF RamSet
        <5> QED
          BY <5>2, <5>3, <3>3, <1>1, <1>3
      <4>5. CASE state = 1
        <5>1. s = [g EXCEPT !.crcState = state, !.present = TRUE, !.id = h.id, !.wh = h.wh]
          BY <4>1, <4>5
        <5>2. s \in RamSet
          BY <5>1, <4>2, <4>3, <1>1 DEF RamSet
        <5>3. s.writing = g.writing /\ s.committing = g.committing /\ s.id = h.id /\ s.wh = h.wh
          BY <5>1, <1>1 DEF RamSet
        <5> QED
          BY <5>2, <5>3, <3>3, <1>1, <1>3 DEF h
      <4> QED
        BY <4>4, <4>5
    <3> QED
      BY <3>1, <3>2, <3>3
  <2>3. opens \in BOOLEAN /\ (opens => s.present /\ s.wh = s.res)
    <3>1. s.present \in BOOLEAN
      BY <2>2 DEF RamSet
    <3> QED
      BY <3>1 DEF Opens
  <2> HIDE DEF s, opens
  <2>4. g' \in RamSet
    BY <2>1, <2>2, <2>3 DEF RamSet
  <2>5. /\ g'.writing = s.writing /\ g'.committing = s.committing /\ g'.present = s.present
        /\ g'.id = s.id /\ g'.wh = s.wh /\ g'.res = s.res /\ g'.open = opens
    BY <2>1, <2>2 DEF RamSet
  <2>6. Presented(g', flash')
    BY <2>2, <2>3, <2>5, <1>1 DEF Presented
  <2> QED
    BY <2>2, <2>4, <2>5, <2>6, <1>1 DEF GInv
<1> QED
  BY <1>2, <1>3

\* A chunk appended leaves a store as it should be.
LEMMA AppendInRam ==
    ASSUME GInv, Receiving, NEW us \in Seq(Units), Len(us) <= PageUnits, Fits(g, us)
    PROVE  AppendRam(g, us) \in RamSet
<1> DEFINE a == AppendRam(g, us)
           all == g.page \o us
<1>1. g \in RamSet /\ ~g.committing /\ Streamed(g) /\ HeaderBlank(flash)
      /\ Settled(g, flash, g.pageOff) /\ Blank(g, flash, g.pageOff)
  BY ReceivingRests
<1>2. ~a.committing
  BY <1>1, AppendFields
<1>3. a.page \in Seq(Units) /\ a.crc \in Seq(Units)
      /\ a.pageOff \in 0 .. RegionPages /\ a.erasedUpto \in 0 .. RegionPages
  <2> HIDE DEF a
  <2>1. a = AppendRam(g, us)
    BY DEF a
  <2> QED
    BY <2>1, <1>1, <1>2, AppendKeeps
<1>4. <<>> \in Seq(Units) /\ g.crc \o us \in Seq(Units)
  BY <1>1 DEF RamSet
<1>5. CASE Len(all) < PageUnits
  <2>1. a = [g EXCEPT !.page = all, !.crc = g.crc \o us, !.wbuf = <<>>]
    BY <1>5 DEF AppendRam
  <2>2. all \in Seq(Units)
    BY <1>1 DEF RamSet
  <2> HIDE DEF a, all
  <2> QED
    BY <2>1, <2>2, <1>1, <1>4 DEF RamSet, a
<1>6. CASE ~(Len(all) < PageUnits)
  <2> DEFINE z == FlushRam(Filled(g, us))
             rest == SubSeq(all, PageUnits + 1, Len(all))
  <2>1. a = [z EXCEPT !.page = rest, !.crc = z.crc \o us, !.wbuf = <<>>]
    BY <1>6 DEF AppendRam
  <2>2. a.pageOff = z.pageOff /\ a.erasedUpto = z.erasedUpto /\ a.page = rest
    BY <1>1, <1>6, AppendFields
  <2>3. z.pageOff \in 0 .. RegionPages /\ z.erasedUpto \in 0 .. RegionPages /\ rest \in Seq(Units)
    BY <2>2, <1>3
  <2> DEFINE e == z.erasedUpto
             n == z.pageOff
  <2>4. z = [g EXCEPT !.page = <<>>, !.pageOff = n, !.erasedUpto = e]
    BY <1>1 DEF FlushRam, Filled, RamSet
  <2>5. z \in RamSet /\ z.crc = g.crc
    <3> HIDE DEF z, rest, n, e
    <3>1. n \in 0 .. RegionPages /\ e \in 0 .. RegionPages
      BY <2>3 DEF n, e
    <3> QED
      BY <2>4, <3>1, <1>1, <1>4 DEF RamSet
  <2> DEFINE c == z.crc \o us
  <2>6. a = [z EXCEPT !.page = rest, !.crc = c, !.wbuf = <<>>] /\ c \in Seq(Units)
    BY <2>1, <2>5, <1>4
  <2> HIDE DEF a, z, rest, c
  <2>7. a \in RamSet
    BY <2>3, <2>5, <2>6, <1>4 DEF RamSet
  <2> QED
    BY <2>7 DEF a
<1> QED
  BY <1>5, <1>6

\* A record finished is indexed, or dropped.
LEMMA FinishInv ==
    ASSUME GInv, Receiving, NEW i \in Defs, NEW us \in Seq(Units), Len(us) <= PageUnits,
           IsRecord(i, Len(g.crc) + Len(us), g.crc \o us),
           FinishRecord(i, us), flash' = flash, fed' \in Nat
    PROVE  GInv'
<1>1. g \in RamSet /\ todo = <<>> /\ g.writing /\ ~g.committing /\ ~g.present /\ ~g.open
      /\ Streamed(g) /\ Indexed(g.wrIndex, g.crc) /\ Phase(g, flash, <<>>)
      /\ Settled(g, flash, g.pageOff) /\ Blank(g, flash, g.pageOff) /\ HeaderBlank(flash)
  BY ReceivingRests
<1>2. NoPoly \in Polys /\ <<>> \in Seq(Units)
  BY DEF NoPoly, Polys
<1>3. CASE Fits(g, us)
  <2> DEFINE a == AppendRam(g, us)
             off == Len(g.crc) + Len(us)
             index == [g.wrIndex EXCEPT ![i] = off]
  <2>1. todo' = AppendOps(g, us)
    BY <1>3 DEF FinishRecord, Flush
  <2>2. a \in RamSet
    BY <1>3, AppendInRam
  <2>3. a.wrIndex = g.wrIndex /\ a.crc = g.crc \o us /\ a.writing = g.writing /\ a.present = g.present
        /\ a.open = g.open /\ a.committing = g.committing /\ a.wbuf = <<>> /\ a.wrId = g.wrId
    BY <1>1, AppendFields
  <2>4. g' = [a EXCEPT !.rec = NoPoly, !.wrIndex = index]
    BY <1>3, <2>3 DEF FinishRecord, Flush
  <2>5. g.wrIndex \in [Defs -> Nat] /\ off \in Nat
    BY <1>1 DEF RamSet
  <2>6. index \in [Defs -> Nat]
    BY <2>5
  <2> HIDE DEF a, index
  <2>7. g' \in RamSet
    BY <2>2, <2>4, <2>6, <1>2 DEF RamSet
  <2>8. /\ g'.page = a.page /\ g'.pageOff = a.pageOff /\ g'.erasedUpto = a.erasedUpto /\ g'.crc = a.crc
        /\ g'.wrIndex = index /\ g'.rec = NoPoly /\ g'.wbuf = a.wbuf /\ g'.writing = a.writing
        /\ g'.present = a.present /\ g'.open = a.open /\ g'.committing = a.committing
    BY <2>2, <2>4 DEF RamSet
  <2>9. Streamed(g') /\ Phase(g', flash, todo')
    <3>1. g'.page = AppendRam(g, us).page /\ g'.pageOff = AppendRam(g, us).pageOff
          /\ g'.erasedUpto = AppendRam(g, us).erasedUpto /\ g'.crc = AppendRam(g, us).crc
          /\ ~g'.committing
      BY <2>3, <2>8, <1>1 DEF a
    <3> QED
      BY <3>1, <2>1, <1>1, <1>3, AppendKeeps
  <2>10. Indexed(g'.wrIndex, g'.crc)
    <3> SUFFICES ASSUME NEW j \in Defs, index[j] # Absent PROVE IsRecord(j, index[j], g.crc \o us)
      BY <2>3, <2>8 DEF Indexed
    <3>1. CASE j = i
      BY <3>1, <2>5 DEF index
    <3>2. CASE j # i
      <4>1. index[j] = g.wrIndex[j]
        BY <3>2, <2>5 DEF index
      <4>2. g.crc \in Seq(Units)
        BY <1>1 DEF RamSet
      <4>3. Indexed(g.wrIndex, g.crc \o us)
        BY <4>2, <1>1, IndexStays
      <4> QED
        BY <4>1, <4>3 DEF Indexed
    <3> QED
      BY <3>1, <3>2
  <2>11. Drawn(g')
    BY <2>3, <2>7, <2>8, NoPolyDrawn
  <2>12. Receives(g', flash, todo')
    BY <2>3, <2>8, <2>9, <2>10, <2>11, <1>1 DEF Receives
  <2> QED
    BY <2>3, <2>7, <2>8, <2>12, <1>1, StillReceiving
<1>4. CASE ~Fits(g, us)
  <2>1. g' = [g EXCEPT !.dropped = @ + 1, !.rec = NoPoly, !.wbuf = <<>>] /\ todo' = <<>>
    BY <1>1, <1>4 DEF FinishRecord, Flush, Dropped
  <2>2. g' \in RamSet
    <3> DEFINE d == g.dropped + 1
    <3>1. d \in Nat
      BY <1>1 DEF RamSet
    <3>2. g' = [g EXCEPT !.dropped = d, !.rec = NoPoly, !.wbuf = <<>>]
      BY <2>1
    <3> HIDE DEF d
    <3> QED
      BY <3>1, <3>2, <1>1, <1>2 DEF RamSet
  <2>3. /\ g'.page = g.page /\ g'.pageOff = g.pageOff /\ g'.erasedUpto = g.erasedUpto /\ g'.crc = g.crc
        /\ g'.wrIndex = g.wrIndex /\ g'.rec = NoPoly /\ g'.wbuf = <<>> /\ g'.writing = g.writing
        /\ g'.present = g.present /\ g'.open = g.open /\ g'.committing = g.committing
    BY <2>1, <1>1 DEF RamSet
  <2>4. Streamed(g') /\ Phase(g', flash, <<>>)
    BY <2>3, <1>1, RestAgain
  <2>5. Drawn(g')
    BY <2>2, <2>3, NoPolyDrawn
  <2>6. Receives(g', flash, todo')
    BY <2>1, <2>3, <2>4, <2>5, <1>1 DEF Receives
  <2> QED
    BY <2>2, <2>3, <2>6, <1>1, StillReceiving
<1> QED
  BY <1>3, <1>4

LEMMA AddShortInv ==
    ASSUME GInv, NEW i \in Defs, NEW n \in ShortSizes, NEW v \in Payloads, AddShort(i, n, v)
    PROVE  GInv'
<1> DEFINE us == RecordUnits(i, n, v)
<1>1. Receiving /\ FinishRecord(i, us) /\ flash' = flash /\ fed' = fed + 1
  BY DEF AddShort
<1>2. g.crc \in Seq(Units) /\ fed \in Nat
  BY DEF GInv, RamSet
<1>3. n \in 1 .. PageUnits /\ n \in Nat
  BY SizesAssumption, BlockAssumption
<1>4. \A k \in 1 .. n : us[k] = IF k < n THEN Data(i, v, k) ELSE Trailer(i, n, v)
  BY DEF RecordUnits
<1>5. us \in Seq(Units) /\ Len(us) = n
  <2>1. \A k \in 1 .. n : Data(i, v, k) \in Units /\ Trailer(i, n, v) \in Units
    BY <1>3 DEF Data, Trailer, Unit, Units
  <2>2. \A k \in 1 .. n : (IF k < n THEN Data(i, v, k) ELSE Trailer(i, n, v)) \in Units
    BY <2>1
  <2> QED
    BY <2>2, <1>3 DEF RecordUnits
<1> HIDE DEF us
<1>6. IsRecord(i, Len(g.crc) + Len(us), g.crc \o us)
  <2> DEFINE all == g.crc \o us
             off == Len(g.crc) + n
  <2>1. all \in Seq(Units) /\ Len(all) = off /\ \A k \in 1 .. n : all[Len(g.crc) + k] = us[k]
    BY <1>2, <1>5, AppendedUnits
  <2>2. Len(g.crc) \in Nat
    BY <1>2
  <2>3. all[off] = Trailer(i, n, v)
    <3>1. n \in 1 .. n /\ ~(n < n)
      BY <1>3
    <3> QED
      BY <3>1, <2>1, <1>4
  <2>4. all[off].def = i /\ all[off].n = n /\ all[off].v = v
    BY <2>3 DEF Trailer, Unit
  <2> HIDE DEF all
  <2>5. off \in 1 .. Len(all) /\ n \in 1 .. off
    BY <2>1, <2>2, <1>3
  <2>6. \A k \in 1 .. n - 1 : all[off - n + k] = Data(i, v, k)
    <3> SUFFICES ASSUME NEW k \in 1 .. n - 1 PROVE all[off - n + k] = Data(i, v, k)
      OBVIOUS
    <3>1. k \in 1 .. n /\ k < n /\ off - n + k = Len(g.crc) + k
      BY <2>2, <1>3
    <3> QED
      BY <3>1, <2>1, <1>4
  <2>7. IsRecord(i, off, all)
    BY <2>4, <2>5, <2>6 DEF IsRecord
  <2> QED
    BY <2>7, <1>5 DEF all
<1> QED
  BY <1>1, <1>2, <1>3, <1>5, <1>6, FinishInv

LEMMA BeginPolyInv == ASSUME GInv, NEW i \in Defs, NEW v \in Payloads, BeginPoly(i, v) PROVE GInv'
<1>1. Receiving /\ g.rec = NoPoly /\ g' = [g EXCEPT !.rec = Poly(i, v, 0, FALSE)]
      /\ flash' = flash /\ todo' = todo /\ fed' = fed + 1
  BY DEF BeginPoly
<1>2. g \in RamSet /\ todo = <<>> /\ g.writing /\ ~g.committing /\ fed \in Nat /\ ~g.present /\ ~g.open
      /\ Streamed(g) /\ Indexed(g.wrIndex, g.crc) /\ Drawn(g) /\ Phase(g, flash, <<>>)
  BY <1>1, ReceivingRests
<1>3. Poly(i, v, 0, FALSE) \in Polys
  BY DEF Poly, Polys
<1>4. g' \in RamSet
  BY <1>1, <1>2, <1>3 DEF RamSet
<1>5. /\ g'.writing /\ ~g'.present /\ ~g'.open /\ ~g'.committing /\ g'.crc = g.crc /\ g'.page = g.page
      /\ g'.pageOff = g.pageOff /\ g'.erasedUpto = g.erasedUpto /\ g'.wrIndex = g.wrIndex
      /\ g'.rec = Poly(i, v, 0, FALSE) /\ g'.wbuf = g.wbuf
  BY <1>1, <1>2 DEF RamSet
<1>6. Streamed(g') /\ Phase(g', flash, todo')
  BY <1>1, <1>2, <1>5, RestAgain
<1>7. Drawn(g')
  <2>1. g'.rec.def \in Defs /\ g'.rec.v \in Payloads /\ g'.rec.k = 0 /\ g'.wbuf = <<>>
    BY <1>1, <1>2, <1>5 DEF Drawn, Poly
  <2>2. ~g'.rec.failed
    BY <1>5 DEF Poly
  <2> QED
    BY <2>1, <2>2, <1>4, FreshDrawn
<1>8. Receives(g', flash, todo')
  BY <1>2, <1>5, <1>6, <1>7 DEF Receives
<1> QED
  BY <1>1, <1>2, <1>4, <1>5, <1>8, StillReceiving

\* One more unit in the write-combining buffer.
LEMMA PutUnit ==
    ASSUME NEW crc \in Seq(Units), NEW wbuf \in Seq(Units), NEW d \in Units
    PROVE  /\ Append(wbuf, d) \in Seq(Units) /\ Len(Append(wbuf, d)) = Len(wbuf) + 1
           /\ crc \o Append(wbuf, d) = Append(crc \o wbuf, d)
<1> HIDE DEF Units
<1>1. Append(wbuf, d) \in Seq(Units) /\ Len(Append(wbuf, d)) = Len(wbuf) + 1
  OBVIOUS
<1> DEFINE s == crc \o Append(wbuf, d)
           t == Append(crc \o wbuf, d)
<1>2. s \in Seq(Units) /\ t \in Seq(Units) /\ Len(s) = Len(t)
  OBVIOUS
<1>3. \A j \in 1 .. Len(s) : s[j] = t[j]
  OBVIOUS
<1> HIDE DEF s, t
<1>4. s = t
  BY <1>2, <1>3, SeqEqual
<1> QED
  BY <1>1, <1>4 DEF s, t

\* With one more unit, the polygon's units still end the data; with the trailer, they are a record.
LEMMA EndsOn ==
    ASSUME NEW us \in Seq(Units), NEW i \in Defs, NEW v \in Payloads, NEW k \in Nat,
           EndsWith(us, Poly(i, v, k, FALSE))
    PROVE  /\ EndsWith(Append(us, Data(i, v, k + 1)), Poly(i, v, k + 1, FALSE))
           /\ IsRecord(i, Len(us) + 1, Append(us, Trailer(i, k + 1, v)))
<1>1. k <= Len(us) /\ Len(us) \in Nat /\ \A m \in 1 .. k : us[Len(us) - k + m] = Data(i, v, m)
  BY LenProperties DEF EndsWith, Poly
<1>2. ASSUME NEW d \in Units
      PROVE  /\ Len(Append(us, d)) = Len(us) + 1 /\ Append(us, d)[Len(us) + 1] = d
             /\ \A m \in 1 .. k : Append(us, d)[Len(us) - k + m] = Data(i, v, m)
  <2>1. Len(Append(us, d)) = Len(us) + 1 /\ Append(us, d)[Len(us) + 1] = d
        /\ \A j \in 1 .. Len(us) : Append(us, d)[j] = us[j]
    <3> HIDE DEF Units
    <3> QED OBVIOUS
  <2>2. \A m \in 1 .. k : Len(us) - k + m \in 1 .. Len(us)
    BY <1>1
  <2> QED
    BY <2>1, <2>2, <1>1
<1>3. EndsWith(Append(us, Data(i, v, k + 1)), Poly(i, v, k + 1, FALSE))
  <2> DEFINE d == Data(i, v, k + 1)
             all == Append(us, d)
  <2>1. d \in Units
    BY DEF Data, Unit, Units
  <2> HIDE DEF d
  <2>2. /\ Len(all) = Len(us) + 1 /\ all[Len(us) + 1] = d
        /\ \A m \in 1 .. k : all[Len(us) - k + m] = Data(i, v, m)
    BY <2>1, <1>2
  <2> HIDE DEF all
  <2>3. ASSUME NEW m \in 1 .. k + 1 PROVE all[Len(all) - (k + 1) + m] = Data(i, v, m)
    <3>1. CASE m = k + 1
      <4>1. Len(all) - (k + 1) + m = Len(us) + 1
        BY <3>1, <2>2, <1>1
      <4> QED
        BY <4>1, <3>1, <2>2 DEF d
    <3>2. CASE m # k + 1
      <4>1. m \in 1 .. k /\ Len(all) - (k + 1) + m = Len(us) - k + m
        BY <3>2, <2>2, <1>1
      <4> QED
        BY <4>1, <2>2
    <3> QED
      BY <3>1, <3>2
  <2>4. k + 1 <= Len(all)
    BY <2>2, <1>1
  <2>5. EndsWith(all, Poly(i, v, k + 1, FALSE))
    BY <2>3, <2>4 DEF EndsWith, Poly
  <2> QED
    BY <2>5 DEF all, d
<1>4. IsRecord(i, Len(us) + 1, Append(us, Trailer(i, k + 1, v)))
  <2> DEFINE d == Trailer(i, k + 1, v)
             all == Append(us, d)
  <2>1. d \in Units /\ d.def = i /\ d.n = k + 1 /\ d.v = v
    BY DEF Trailer, Unit, Units
  <2> HIDE DEF d
  <2>2. /\ Len(all) = Len(us) + 1 /\ all[Len(us) + 1] = d
        /\ \A m \in 1 .. k : all[Len(us) - k + m] = Data(i, v, m)
    BY <2>1, <1>2
  <2> HIDE DEF all
  <2>3. \A m \in 1 .. k + 1 - 1 : all[Len(us) + 1 - (k + 1) + m] = Data(i, v, m)
    <3>1. k + 1 - 1 = k /\ \A m \in Int : Len(us) + 1 - (k + 1) + m = Len(us) - k + m
      BY <1>1
    <3> QED
      BY <3>1, <2>2
  <2>4. Len(us) + 1 \in 1 .. Len(all) /\ k + 1 \in 1 .. Len(us) + 1
    BY <2>2, <1>1
  <2>5. IsRecord(i, Len(us) + 1, all)
    <3> DEFINE off == Len(us) + 1
               n == k + 1
    <3>1. all[off].def = i /\ all[off].n = n /\ all[off].v = v
      BY <2>1, <2>2
    <3>2. off \in 1 .. Len(all) /\ n \in 1 .. off
          /\ \A m \in 1 .. n - 1 : all[off - n + m] = Data(i, v, m)
      BY <2>3, <2>4
    <3> HIDE DEF off, n
    <3>3. IsRecord(i, off, all)
      BY <3>1, <3>2 DEF IsRecord
    <3> QED
      BY <3>3 DEF off
  <2> QED
    BY <2>5 DEF all, d
<1> QED
  BY <1>3, <1>4

LEMMA AddVertexInv == GInv /\ AddVertex => GInv'
<1> SUFFICES ASSUME GInv, AddVertex PROVE GInv'
  OBVIOUS
<1> DEFINE k == g.rec.k + 1
           d == Data(g.rec.def, g.rec.v, k)
           us == Append(g.wbuf, d)
           rec == Poly(g.rec.def, g.rec.v, k, FALSE)
<1>1. /\ Receiving /\ g.rec # NoPoly /\ ~g.rec.failed /\ flash' = flash /\ fed' = fed
      /\ \/ Len(us) < PageUnits /\ g' = [g EXCEPT !.wbuf = us, !.rec = rec] /\ todo' = todo
         \/ /\ Len(us) = PageUnits
            /\ Flush(us, [AppendRam(g, us) EXCEPT !.rec = rec],
                     [g EXCEPT !.wbuf = <<>>, !.rec = [@ EXCEPT !.failed = TRUE]])
  BY DEF AddVertex
<1>2. g \in RamSet /\ todo = <<>> /\ g.writing /\ ~g.committing /\ fed \in Nat /\ ~g.present /\ ~g.open
      /\ Streamed(g) /\ Indexed(g.wrIndex, g.crc) /\ Drawn(g) /\ Phase(g, flash, <<>>)
      /\ Settled(g, flash, g.pageOff) /\ Blank(g, flash, g.pageOff) /\ HeaderBlank(flash)
  BY <1>1, ReceivingRests
<1>3. g.rec.def \in Defs /\ g.rec.v \in Payloads
  BY <1>1, <1>2 DEF Drawn
<1>4. g.crc \in Seq(Units) /\ g.wbuf \in Seq(Units) /\ g.rec \in Polys /\ k \in Nat
  BY <1>2 DEF RamSet, Polys
<1>5. d \in Units /\ rec \in Polys
  BY <1>3, <1>4 DEF Data, Unit, Units, Poly, Polys
<1>6. us \in Seq(Units) /\ <<>> \in Seq(Units)
  BY <1>4, <1>5, PutUnit
<1>10. ASSUME NEW t, t.rec = rec, t.crc \o t.wbuf = g.crc \o us, Len(t.wbuf) < PageUnits
       PROVE  Drawn(t)
  <2>1. g.rec = Poly(g.rec.def, g.rec.v, g.rec.k, FALSE)
    BY <1>1, <1>4 DEF Poly, Polys
  <2>2. EndsWith(g.crc \o g.wbuf, g.rec)
    BY <1>1, <1>2 DEF Drawn
  <2>3. g.crc \o g.wbuf \in Seq(Units) /\ g.rec.k \in Nat
    BY <1>4, AppendedUnits DEF Polys
  <2>4. EndsWith(Append(g.crc \o g.wbuf, d), rec)
    <3> HIDE DEF us
    <3> QED
      BY <2>1, <2>2, <2>3, <1>3, EndsOn
  <2>5. EndsWith(t.crc \o t.wbuf, rec)
    BY <2>4, <1>4, <1>5, <1>10, PutUnit
  <2>6. rec.def \in Defs /\ rec.v \in Payloads /\ ~rec.failed
    BY <1>3 DEF Poly
  <2>7. rec # NoPoly
    <3> HIDE DEF rec
    <3> QED
      BY <2>6, IdsAssumption DEF NoPoly
  <2> QED
    BY <2>5, <2>6, <2>7, <1>10 DEF Drawn
<1>7. CASE Len(us) < PageUnits /\ g' = [g EXCEPT !.wbuf = us, !.rec = rec] /\ todo' = todo
  <2> HIDE DEF us, rec
  <2>1. g' \in RamSet
    BY <1>2, <1>5, <1>6, <1>7 DEF RamSet
  <2>2. /\ g'.page = g.page /\ g'.pageOff = g.pageOff /\ g'.erasedUpto = g.erasedUpto /\ g'.crc = g.crc
        /\ g'.wrIndex = g.wrIndex /\ g'.rec = rec /\ g'.wbuf = us /\ g'.writing = g.writing
        /\ g'.present = g.present /\ g'.open = g.open /\ g'.committing = g.committing
    BY <1>2, <1>7 DEF RamSet
  <2>3. Streamed(g') /\ Phase(g', flash, todo')
    BY <2>2, <1>2, <1>7, RestAgain
  <2>4. Drawn(g')
    <3>1. g'.crc \o g'.wbuf = g.crc \o us /\ g'.rec = rec
      BY <2>2
    <3>2. g'.crc \in Seq(Units) /\ g'.wbuf \in Seq(Units) /\ Len(g'.wbuf) < PageUnits
      BY <2>2, <1>4, <1>6, <1>7
    <3> QED
      BY <3>1, <3>2, <1>10
  <2>5. Receives(g', flash, todo')
    BY <2>2, <2>3, <2>4, <1>2 DEF Receives
  <2> QED
    BY <2>1, <2>2, <2>5, <1>1, <1>2, StillReceiving
<1>8. CASE /\ Len(us) = PageUnits /\ Fits(g, us)
           /\ g' = [AppendRam(g, us) EXCEPT !.rec = rec] /\ todo' = AppendOps(g, us)
  <2> HIDE DEF us, rec
  <2> DEFINE a == AppendRam(g, us)
  <2>1. a \in RamSet
    BY <1>1, <1>6, <1>8, AppendInRam
  <2>2. a.wrIndex = g.wrIndex /\ a.crc = g.crc \o us /\ a.writing = g.writing /\ a.present = g.present
        /\ a.open = g.open /\ a.committing = g.committing /\ a.wbuf = <<>>
    BY <1>2, <1>6, AppendFields
  <2>3. g' = [a EXCEPT !.rec = rec]
    BY <1>8
  <2> HIDE DEF a
  <2>4. g' \in RamSet
    BY <2>1, <2>3, <1>5 DEF RamSet
  <2>5. /\ g'.page = a.page /\ g'.pageOff = a.pageOff /\ g'.erasedUpto = a.erasedUpto /\ g'.crc = a.crc
        /\ g'.wrIndex = a.wrIndex /\ g'.rec = rec /\ g'.wbuf = a.wbuf /\ g'.writing = a.writing
        /\ g'.present = a.present /\ g'.open = a.open /\ g'.committing = a.committing
    BY <2>1, <2>3 DEF RamSet
  <2>6. Streamed(g') /\ Phase(g', flash, todo')
    <3>1. g'.page = AppendRam(g, us).page /\ g'.pageOff = AppendRam(g, us).pageOff
          /\ g'.erasedUpto = AppendRam(g, us).erasedUpto /\ g'.crc = AppendRam(g, us).crc
          /\ ~g'.committing
      BY <2>2, <2>5, <1>2 DEF a
    <3>2. Len(us) <= PageUnits
      BY <1>8, BlockAssumption
    <3> QED
      BY <3>1, <3>2, <1>2, <1>6, <1>8, AppendKeeps
  <2>7. Indexed(g'.wrIndex, g'.crc)
    BY <2>2, <2>5, <1>2, <1>4, <1>6, IndexStays
  <2>8. Drawn(g')
    <3>1. g'.crc \in Seq(Units) /\ g'.wbuf = <<>> /\ g'.crc = g.crc \o us
      BY <2>2, <2>4, <2>5 DEF RamSet
    <3>2. g'.crc \o g'.wbuf = g'.crc
      BY <3>1
    <3>3. g'.crc \o g'.wbuf = g.crc \o us /\ g'.rec = rec
      BY <3>1, <3>2, <2>5
    <3>4. Len(g'.wbuf) < PageUnits
      BY <3>1, BlockAssumption
    <3> QED
      BY <3>3, <3>4, <1>10
  <2>9. Receives(g', flash, todo')
    BY <2>2, <2>5, <2>6, <2>7, <2>8, <1>2 DEF Receives
  <2> QED
    BY <2>2, <2>4, <2>5, <2>9, <1>1, <1>2, StillReceiving
<1>9. CASE g' = [g EXCEPT !.wbuf = <<>>, !.rec = [@ EXCEPT !.failed = TRUE]] /\ todo' = todo
  <2> DEFINE r == [g.rec EXCEPT !.failed = TRUE]
  <2>1. r \in Polys /\ r.failed /\ r.def = g.rec.def /\ r.v = g.rec.v
    BY <1>4 DEF Polys
  <2>2. g' = [g EXCEPT !.wbuf = <<>>, !.rec = r]
    BY <1>9
  <2> HIDE DEF r
  <2>3. g' \in RamSet
    BY <2>1, <2>2, <1>2, <1>6 DEF RamSet
  <2>4. /\ g'.page = g.page /\ g'.pageOff = g.pageOff /\ g'.erasedUpto = g.erasedUpto /\ g'.crc = g.crc
        /\ g'.wrIndex = g.wrIndex /\ g'.rec = r /\ g'.wbuf = <<>> /\ g'.writing = g.writing
        /\ g'.present = g.present /\ g'.open = g.open /\ g'.committing = g.committing
    BY <2>2, <1>2 DEF RamSet
  <2>5. Streamed(g') /\ Phase(g', flash, todo')
    BY <2>4, <1>2, <1>9, RestAgain
  <2>6. Drawn(g')
    BY <2>1, <2>4, <1>3 DEF Drawn
  <2>7. Receives(g', flash, todo')
    BY <2>4, <2>5, <2>6, <1>2 DEF Receives
  <2> QED
    BY <2>3, <2>4, <2>7, <1>1, <1>2, StillReceiving
<1> QED
  BY <1>1, <1>7, <1>8, <1>9 DEF Flush

LEMMA EndPolyInv == GInv /\ EndPoly => GInv'
<1> SUFFICES ASSUME GInv, EndPoly PROVE GInv'
  OBVIOUS
<1> DEFINE n == g.rec.k + 1
           i == g.rec.def
           d == Trailer(i, n, g.rec.v)
           us == Append(g.wbuf, d)
<1>1. Receiving /\ g.rec # NoPoly /\ flash' = flash /\ fed' = fed
      /\ \/ g.rec.failed /\ g' = Dropped /\ todo' = todo
         \/ ~g.rec.failed /\ FinishRecord(i, us)
  BY DEF EndPoly
<1>2. g \in RamSet /\ todo = <<>> /\ g.writing /\ ~g.committing /\ fed \in Nat /\ ~g.present /\ ~g.open
      /\ Streamed(g) /\ Indexed(g.wrIndex, g.crc) /\ Drawn(g) /\ Phase(g, flash, <<>>)
  BY <1>1, ReceivingRests
<1>3. i \in Defs /\ g.rec.v \in Payloads
  BY <1>1, <1>2 DEF Drawn
<1>4. g.crc \in Seq(Units) /\ g.wbuf \in Seq(Units) /\ g.rec.k \in Nat /\ n \in Nat \ {0}
  BY <1>2 DEF RamSet, Polys
<1>5. CASE g.rec.failed /\ g' = Dropped /\ todo' = todo
  <2> DEFINE e == g.dropped + 1
  <2>1. e \in Nat /\ NoPoly \in Polys /\ <<>> \in Seq(Units)
    BY <1>2 DEF RamSet, NoPoly, Polys
  <2>2. g' = [g EXCEPT !.dropped = e, !.rec = NoPoly, !.wbuf = <<>>]
    BY <1>5 DEF Dropped
  <2> HIDE DEF e
  <2>3. g' \in RamSet
    BY <2>1, <2>2, <1>2 DEF RamSet
  <2>4. /\ g'.page = g.page /\ g'.pageOff = g.pageOff /\ g'.erasedUpto = g.erasedUpto /\ g'.crc = g.crc
        /\ g'.wrIndex = g.wrIndex /\ g'.rec = NoPoly /\ g'.wbuf = <<>> /\ g'.writing = g.writing
        /\ g'.present = g.present /\ g'.open = g.open /\ g'.committing = g.committing
    BY <2>2, <1>2 DEF RamSet
  <2>5. Streamed(g') /\ Phase(g', flash, todo')
    BY <2>4, <1>2, <1>5, RestAgain
  <2>6. Drawn(g')
    BY <2>3, <2>4, NoPolyDrawn
  <2>7. Receives(g', flash, todo')
    BY <2>4, <2>5, <2>6, <1>2 DEF Receives
  <2> QED
    BY <2>3, <2>4, <2>7, <1>1, <1>2, StillReceiving
<1>6. CASE ~g.rec.failed /\ FinishRecord(i, us)
  <2>1. d \in Units
    BY <1>3, <1>4 DEF Trailer, Unit, Units
  <2> DEFINE all == g.crc \o g.wbuf
  <2>2. g.rec = Poly(i, g.rec.v, g.rec.k, FALSE)
    <3>1. g.rec \in Polys
      BY <1>2 DEF RamSet
    <3> QED
      BY <3>1, <1>6 DEF Poly, Polys
  <2>3. EndsWith(all, g.rec) /\ Len(g.wbuf) < PageUnits
    BY <1>6, <1>2 DEF Drawn
  <2>4. all \in Seq(Units) /\ Len(all) = Len(g.crc) + Len(g.wbuf)
    BY <1>4, AppendedUnits
  <2>5. IsRecord(i, Len(all) + 1, Append(all, d))
    <3> HIDE DEF all, us
    <3> QED
      BY <2>2, <2>3, <2>4, <1>3, <1>4, EndsOn
  <2>6. us \in Seq(Units) /\ Len(us) = Len(g.wbuf) + 1 /\ g.crc \o us = Append(all, d)
    <3> HIDE DEF d
    <3> QED
      BY <2>1, <1>4, PutUnit
  <2> HIDE DEF us, all
  <2>7. Len(g.crc) \in Nat /\ Len(g.wbuf) \in Nat
    BY <1>4, LenProperties
  <2>8. Len(g.crc) + Len(us) = Len(all) + 1 /\ Len(us) <= PageUnits
    <3>1. Len(us) <= PageUnits
      BY <2>3, <2>6, <2>7, BlockAssumption
    <3>2. Len(g.crc) + Len(us) = Len(all) + 1
      <4> DEFINE a == Len(g.crc)
                 b == Len(g.wbuf)
                 x == Len(us)
                 y == Len(all)
      <4>1. a \in Nat /\ b \in Nat /\ x = b + 1 /\ y = a + b
        BY <2>4, <2>6, <2>7
      <4> HIDE DEF a, b, x, y
      <4>2. a + x = y + 1
        BY <4>1
      <4> QED
        BY <4>2 DEF a, x, y
    <3> QED
      BY <3>1, <3>2
  <2>9. IsRecord(i, Len(g.crc) + Len(us), g.crc \o us)
    BY <2>5, <2>6, <2>8
  <2> QED
    BY <2>6, <2>8, <2>9, <1>1, <1>2, <1>3, <1>6, FinishInv
<1> QED
  BY <1>1, <1>5, <1>6

-----------------------------------------------------------------------------
(***************************************************************************)
(* The theorems.                                                           *)
(***************************************************************************)
LEMMA NextInv == GInv /\ [Next]_vars => GInv'
<1> SUFFICES ASSUME GInv, [Next]_vars PROVE GInv'
  OBVIOUS
<1>1. CASE UNCHANGED vars
  <2>1. flash' = flash /\ todo' = todo /\ g' = g /\ fed' = fed
    BY <1>1 DEF vars
  <2> QED
    BY <2>1 DEF GInv, Receives, Phase, Erasing, Programming, Wiping, HalfWiped, Resting, Heading,
                Closing, Closed, HeaderWritten
<1>2. CASE \E id \in Ids \cup {NoId} : Begin(id)
  BY <1>2, BeginInv
<1>3. CASE \E id \in Ids : SetId(id) \/ Open(id)
  BY <1>3, SetIdInv, OpenInv
<1>4. CASE \E i \in Defs, v \in Payloads : BeginPoly(i, v) \/ \E n \in ShortSizes : AddShort(i, n, v)
  BY <1>4, BeginPolyInv, AddShortInv
<1>5. CASE AddVertex \/ EndPoly \/ Commit \/ Committed \/ Abort \/ FlashOp \/ PowerCut
  BY <1>5, AddVertexInv, EndPolyInv, CommitInv, CommittedInv, AbortInv, FlashOpInv, PowerCutInv
<1> QED
  BY <1>1, <1>2, <1>3, <1>4, <1>5 DEF Next

\* The inductive invariant holds in every reachable state.
THEOREM GeomInvariant == Spec => []GInv
<1> QED
  BY InitInv, NextInv, PTL DEF Spec

\* No page is programmed twice between erases (flush_page, geom_store_commit), whatever transfers
\* were given up or cut before.
THEOREM ErasesFirst == Spec => []ErasedFirst
<1>1. GInv => ErasedFirst
  <2> SUFFICES ASSUME GInv, todo # <<>>, Head(todo).op = "program"
               PROVE  \A p \in Head(todo).pages : flash[p] = <<>>
    BY DEF ErasedFirst
  <2>1. g \in RamSet /\ Streamed(g) /\ Phase(g, flash, todo)
    BY DEF GInv, Receives
  <2> QED
    BY <2>1, OpOnBlank
<1> QED
  BY <1>1, GeomInvariant, PTL

\* Nothing outside the region is erased or programmed (ensure_erased, flush_page): the cursors stop
\* where it ends.
InRegion == todo # <<>> => Head(todo).pages \subseteq Pages

\* Every flash operation stays inside the region.
THEOREM StaysInRegion == Spec => []InRegion
<1>1. GInv => InRegion
  <2> SUFFICES ASSUME GInv, todo # <<>> PROVE Head(todo).pages \subseteq Pages
    BY DEF InRegion
  <2>1. g \in RamSet /\ Streamed(g) /\ Phase(g, flash, todo)
    BY DEF GInv, Receives
  <2> QED
    BY <2>1, OpOnBlank
<1> QED
  BY <1>1, GeomInvariant, PTL

\* A header in flash says what a restart finds: the records its index names.
LEMMA FoundIs ==
    ASSUME NEW f, Vouched(f), Written(f)
    PROVE  /\ CrcMatches(f) /\ f[1] # <<>>
           /\ Found(f) = [id |-> Header(f).id, wh |-> Header(f).wh, recs |-> Records(f[1][1], Header(f).crc)]
           /\ Found(f).id = Header(f).id /\ Found(f).wh = Header(f).wh /\ Found(f).wh \in Modes
           /\ Found(f).recs \in Recs /\ \A i \in Defs : Found(f).recs[i] # Broken
<1> DEFINE h == Header(f)
<1>1. h \in [id : Ids, wh : Modes, crc : Seq(Units)] /\ CrcMatches(f) /\ f[1] # <<>>
      /\ f[1][1] \in [Defs -> Nat] /\ Indexed(f[1][1], h.crc)
  BY DEF Vouched
<1>2. h.crc \in Seq(Units) /\ h.wh \in Modes
  BY <1>1
<1>3. Records(f[1][1], h.crc) \in Recs /\ \A i \in Defs : Records(f[1][1], h.crc)[i] # Broken
  BY <1>1, <1>2, RecordsAreRecs
<1>4. Found(f) = [id |-> h.id, wh |-> h.wh, recs |-> Records(f[1][1], h.crc)]
  BY <1>1 DEF Found, IndexOf, CrcMatches
<1> QED
  BY <1>1, <1>2, <1>3, <1>4

LEMMA NothingFound == ASSUME NEW f, f[0] = <<>> PROVE Found(f) = Nothing
BY DEF Found, Written

\* The magic vouches for all of a set (geom_store_commit programs it last).
THEOREM MagicIsLast == Spec => []MagicLast
<1>1. GInv => MagicLast
  BY FoundIs DEF GInv, MagicLast, Stored
<1> QED
  BY <1>1, GeomInvariant, PTL

\* An open store shows the set in flash, under its id and at the resolution rendered (load_header,
\* geom_store_open), though the CRC is checked once per boot.
THEOREM OpenShowsStored == Spec => []OpenIsStored
<1>1. GInv => OpenIsStored
  <2> SUFFICES ASSUME GInv, g.open
               PROVE  ~g.writing /\ Stored # Nothing /\ Stored.id = g.id /\ Stored.wh = g.res
    BY DEF OpenIsStored
  <2>1. ~g.writing /\ Written(flash) /\ Header(flash).id = g.id /\ Header(flash).wh = g.wh
        /\ g.wh = g.res /\ Vouched(flash)
    BY DEF GInv, Presented
  <2>2. Stored.id = g.id /\ Stored.wh = g.res /\ Stored.wh \in Modes
    BY <2>1, FoundIs DEF Stored
  <2>3. Nothing.wh \notin Modes
    BY IdsAssumption DEF Nothing
  <2> QED
    BY <2>1, <2>2, <2>3
<1> QED
  BY <1>1, GeomInvariant, PTL

-----------------------------------------------------------------------------
(***************************************************************************)
(* The cache keeps its promise: GeomFlash implements GeomCache.            *)
(***************************************************************************)
WholeSets == [id : Ids \cup {NoId}, wh : Modes, recs : Recs]

\* The set that s receives.
DraftOf(s) ==
    IF ~s.writing THEN Nothing
    ELSE [id |-> s.wrId, wh |-> s.res, recs |-> Records(s.wrIndex, s.crc)]

LEMMA DraftIs ==
    ASSUME NEW s \in RamSet, s.writing => Indexed(s.wrIndex, s.crc)
    PROVE  /\ s.writing => DraftOf(s) \in WholeSets /\ DraftOf(s) # Nothing
           /\ ~s.writing => DraftOf(s) = Nothing
<1>1. CASE s.writing
  <2>1. s.wrId \in Ids \cup {NoId} /\ s.res \in Modes /\ s.crc \in Seq(Units) /\ s.wrIndex \in [Defs -> Nat]
    BY DEF RamSet
  <2>2. Records(s.wrIndex, s.crc) \in Recs
    BY <2>1, <1>1, RecordsAreRecs
  <2>3. DraftOf(s) = [id |-> s.wrId, wh |-> s.res, recs |-> Records(s.wrIndex, s.crc)]
    BY <1>1 DEF DraftOf
  <2>4. DraftOf(s) \in WholeSets
    BY <2>1, <2>2, <2>3 DEF WholeSets
  <2>5. DraftOf(s).wh = s.res /\ Nothing.wh = NoId
    BY <2>3 DEF Nothing
  <2> QED
    BY <1>1, <2>1, <2>4, <2>5, IdsAssumption
<1>2. CASE ~s.writing
  BY <1>2 DEF DraftOf
<1> QED
  BY <1>1, <1>2

\* A call that leaves the flash alone starts a transfer, takes something into one, or ends one.
LEMMA CallMaps ==
    ASSUME GInv, GInv', flash' = flash, ~g.writing \/ Receiving \/ ~g'.writing
    PROVE  Cache!CacheNext
<1>1. Stored' = Stored
  BY DEF Stored
<1>2. Draft = DraftOf(g) /\ Draft' = DraftOf(g')
  BY DEF Draft, DraftOf
<1>3. /\ g.writing => Draft # Nothing
      /\ ~g.writing => Draft = Nothing
  BY <1>2, DraftIs DEF GInv, Receives
<1>4. /\ g'.writing => Draft' \in WholeSets
      /\ ~g'.writing => Draft' = Nothing
  BY <1>2, DraftIs DEF GInv, Receives
<1>5. CASE ~g'.writing
  BY <1>1, <1>4, <1>5 DEF Cache!CacheNext, Cache!End
<1>6. CASE g'.writing /\ ~g.writing
  BY <1>1, <1>3, <1>4, <1>6 DEF Cache!CacheNext, Cache!Start, WholeSets
<1>7. CASE g'.writing /\ g.writing /\ Receiving
  <2>1. Stored = Nothing
    BY <1>7, ReceivingRests, NothingFound DEF Stored, HeaderBlank
  <2> QED
    BY <2>1, <1>1, <1>3, <1>4, <1>7 DEF Cache!CacheNext, Cache!Take, WholeSets
<1> QED
  BY <1>5, <1>6, <1>7

\* Of the flash operations, only those on the first header page show: its erase and, last of all,
\* its program.
LEMMA FlashOpMaps == ASSUME GInv, FlashOp PROVE Cache!CacheNext
<1>1. g.writing /\ todo # <<>>
  BY DEF GInv, FlashOp
<1>2. g \in RamSet /\ Streamed(g) /\ Indexed(g.wrIndex, g.crc) /\ (g.committing => g.wrId # NoId)
      /\ Vouched(flash) /\ Phase(g, flash, todo)
  BY <1>1 DEF GInv, Receives
<1>3. flash' = [p \in Pages |-> PageAfter(flash, Head(todo), p)] /\ g' = g
  BY DEF FlashOp, PageAfter
<1>4. Vouched(flash') /\ (flash'[0] = <<>> \/ (flash[0] = <<>> /\ HeaderWritten(g, flash')))
  BY <1>1, <1>2, <1>3, PhaseSteps
<1>5. Draft = DraftOf(g) /\ Draft' = Draft /\ Draft # Nothing
  <2>1. DraftOf(g) # Nothing
    BY <1>1, <1>2, DraftIs
  <2> QED
    BY <2>1, <1>3 DEF Draft, DraftOf
<1>6. Stored = Found(flash) /\ Stored' = Found(flash')
  BY DEF Stored
<1>7. CASE flash'[0] = <<>>
  BY <1>7, <1>5, <1>6, NothingFound DEF Cache!CacheNext, Cache!Discard
<1>8. CASE flash[0] = <<>> /\ HeaderWritten(g, flash')
  <2>1. flash'[0] = HeaderPage0(g) /\ flash'[1] = <<g.wrIndex>>
    BY <1>8 DEF HeaderWritten
  <2>2. Written(flash') /\ Header(flash') = [id |-> g.wrId, wh |-> g.res, crc |-> g.crc]
        /\ flash'[1][1] = g.wrIndex
    BY <2>1 DEF Written, Header, HeaderPage0
  <2>3. Found(flash') = [id |-> Header(flash').id, wh |-> Header(flash').wh,
                         recs |-> Records(flash'[1][1], Header(flash').crc)]
    BY <2>2, <1>4, FoundIs
  <2>4. Found(flash') = DraftOf(g)
    BY <2>2, <2>3, <1>1 DEF DraftOf
  <2>5. Stored = Nothing
    BY <1>8, <1>6, NothingFound
  <2> QED
    BY <2>4, <2>5, <1>5, <1>6 DEF Cache!CacheNext, Cache!Publish
<1> QED
  BY <1>4, <1>7, <1>8

LEMMA StepMaps == ASSUME GInv, GInv', [Next]_vars PROVE [Cache!CacheNext]_(Cache!cacheVars)
<1>1. CASE UNCHANGED vars
  <2>1. Stored' = Stored /\ Draft' = Draft
    BY <1>1 DEF vars, Stored, Draft
  <2> QED
    BY <2>1 DEF Cache!cacheVars
<1>2. CASE \E id \in Ids \cup {NoId} : Begin(id)
  <2>1. flash' = flash /\ ~g.writing
    BY <1>2 DEF Begin
  <2> QED
    BY <2>1, CallMaps
<1>3. CASE \E id \in Ids : SetId(id) \/ Open(id)
  <2>1. flash' = flash /\ (~g.writing \/ Receiving)
    BY <1>3 DEF SetId, Open, Receiving
  <2> QED
    BY <2>1, CallMaps
<1>4. CASE \E i \in Defs, v \in Payloads : BeginPoly(i, v) \/ \E n \in ShortSizes : AddShort(i, n, v)
  <2>1. flash' = flash /\ Receiving
    BY <1>4 DEF BeginPoly, AddShort
  <2> QED
    BY <2>1, CallMaps
<1>5. CASE AddVertex \/ EndPoly \/ Commit \/ Abort
  <2>1. flash' = flash /\ Receiving
    BY <1>5 DEF AddVertex, EndPoly, Commit, Abort
  <2> QED
    BY <2>1, CallMaps
<1>6. CASE Committed
  <2>1. flash' = flash /\ todo' = <<>> /\ g \in RamSet
    BY <1>6 DEF Committed, GInv
  <2>2. ~g'.writing
    BY <2>1, <1>6 DEF Committed, EndWrite, RamSet
  <2> QED
    BY <2>1, <2>2, CallMaps
<1>7. CASE PowerCut
  <2>1. flash' = flash /\ ~g'.writing
    BY <1>7 DEF PowerCut, Ram
  <2> QED
    BY <2>1, CallMaps
<1>8. CASE FlashOp
  BY <1>8, FlashOpMaps
<1> QED
  BY <1>1, <1>2, <1>3, <1>4, <1>5, <1>6, <1>7, <1>8 DEF Next

\* Whenever the power fails, the flash holds the old set, no set, or all that the new one's transfer
\* indexed, and the old one is gone before the new one's first record (geom_flash.c,
\* docs/ARCHITECTURE.md "Flash plan").
THEOREM KeepsPromise == Spec => AllOrNothing
<1>1. Init => Cache!CacheInit
  <2> SUFFICES ASSUME Init PROVE Cache!CacheInit
    OBVIOUS
  <2>1. ~g.writing /\ flash[0] = <<>>
    BY RegionAssumption DEF Init, Ram, Pages, HdrPages
  <2> QED
    BY <2>1, NothingFound DEF Cache!CacheInit, Stored, Draft
<1>2. GInv /\ GInv' /\ [Next]_vars => [Cache!CacheNext]_(Cache!cacheVars)
  BY StepMaps
<1> QED
  BY <1>1, <1>2, GeomInvariant, PTL DEF Spec, AllOrNothing, Cache!CacheSpec

\* When geom_store_commit may commit, nothing is left in the write-combining buffer: its flush has
\* nothing to do, and no byte of a record is missing from the set (put, finish_record).
BufferEmpty == g.writing /\ g.rec = NoPoly => g.wbuf = <<>>

\* The write-combining buffer is empty whenever no polygon is under way.
THEOREM CommitsAll == Spec => []BufferEmpty
<1>1. GInv => BufferEmpty
  BY DEF GInv, Receives, Drawn, BufferEmpty
<1> QED
  BY <1>1, GeomInvariant, PTL
=============================================================================
