---------------------------- MODULE DecoderProof ----------------------------
(***************************************************************************)
(* Proofs about the frame decoder and the screen, for every size of the    *)
(* palette, the blend cache, the arena, the op table and the screen, and   *)
(* about the tokenizer whose events the decoder takes, for every text and  *)
(* every size of its buffers.                                              *)
(*                                                                         *)
(* One fact carries both halves: an entry that was once found for a colour *)
(* has that colour, or it is of a full palette, which no longer changes    *)
(* (Settled).  On it rest the entries of the frame, those of the blend     *)
(* cache and so the pixels.  That an upload leaves the published lines     *)
(* alone is a matter of which table they name: outside a render all name   *)
(* the one new lines are packed against, and use only what it holds.       *)
(*                                                                         *)
(* For the tokenizer, JInv bounds what is open and kept, and says that     *)
(* where the next step counts in a container or names one by a key, it is  *)
(* there.  That the buffers' ends do not show rests on two lemmas: pieces  *)
(* told one by one are told as one (TellTwice), and a key cut while it     *)
(* comes in is the key cut when it is there (CutTwice).                    *)
(***************************************************************************)
EXTENDS FrameShow, JsonStream, FiniteSetTheorems, SequenceTheorems, WellFoundedInduction, TLAPS

Palettes == [rgb : Seq(Nat), dirty : Nat, cache : Seq([bg : Nat, fg : Nat, idx : Nat]), reset : BOOLEAN]

\* i is the entry of c: it has that colour, or that of the nearest entry of a full palette.
Settled(p, i, c) ==
    /\ i \in DOMAIN p.rgb
    /\ \/ p.rgb[i] = c
       \/ /\ Len(p.rgb) = PALETTE_SIZE
          /\ \E n \in DOMAIN p.rgb : IsNearest(p.rgb, c, n) /\ p.rgb[i] = p.rgb[n]

\* What the ring remembers of two entries is the entry of the colour halfway between them.
Remembers(p) ==
    \A k \in DOMAIN p.cache :
        /\ p.cache[k].bg \in DOMAIN p.rgb /\ p.cache[k].fg \in DOMAIN p.rgb
        /\ Settled(p, p.cache[k].idx, Halfway(p, p.cache[k].bg, p.cache[k].fg))

PaletteOK(p) ==
    /\ p \in Palettes
    /\ Len(p.rgb) <= PALETTE_SIZE /\ p.dirty <= Len(p.rgb)
    /\ p.reset => p.dirty = 0
    /\ Remembers(p)

-----------------------------------------------------------------------------
ScreenTypes ==
    /\ shown \in [table : {0, 1}, tables : [{0, 1} -> [Indices -> Nat]]]
    /\ lines \in [Lines -> [table : {0, 1}, px : SUBSET (Indices \X Nat)]]

\* What has been uploaded is in the table new lines are packed against.
InTable == ~pal.reset => \A i \in 1 .. pal.dirty : shown.tables[shown.table][i] = pal.rgb[i]

\* A line packed against it uses nothing else.
OfTable ==
    ~pal.reset => \A y \in Lines : lines[y].table = shown.table => \A px \in lines[y].px : px[1] <= pal.dirty

NamesTable(y) == lines[y].px = {} \/ lines[y].table = shown.table

\* Lines that name the other table are those a render has not come to.
OneTable ==
    /\ dec.doing # "render" => \A y \in Lines : NamesTable(y)
    /\ dec.doing = "render" => /\ ~pal.reset /\ kiosk.line \in Lines
                               /\ \A y \in Lines : y < kiosk.line => NamesTable(y)

Screen == ScreenTypes /\ InTable /\ OfTable /\ OneTable /\ LinesKeepColours

-----------------------------------------------------------------------------
OpRecords == [k : {"op"}, cidx : Nat, str : Nat] \cup [k : {"use"}, def : Defs, paint : Nat]

OpMembers == [k : {"op"}, colour : Nat, text : Seq(Nat)] \cup [k : {"use"}, def : Defs, paint : Nat]

FrameTypes ==
    frame \in [ops : Seq(OpRecords), arena : Seq(Nat), paints : Seq(Nat), bg : Nat,
               sid : Ids \cup {NoId}, droppedOps : Nat, droppedDefs : Nat, truncated : BOOLEAN]

MemberOf(kind) ==
    CASE kind = "version" -> BOOLEAN
      [] kind = "bg" -> [colour : Nat, paints : Nat]
      [] kind \in {"op", "broken"} -> OpMembers
      [] kind = "paint" -> Nat
      [] kind = "id" -> Ids
      [] kind = "defs" -> {TRUE}
      [] kind = "def" -> [def : Defs, fits : BOOLEAN]

SentTypes ==
    /\ sent.n \in Nat /\ sent.last \in Kinds \cup {"none"}
    /\ sent = [n |-> sent.n, last |-> sent.last, of |-> sent.of]
    /\ sent.of = [kind \in Kinds |-> sent.of[kind]]
    /\ \A kind \in Kinds : sent.of[kind] \in Seq(MemberOf(kind))

DecTypes ==
    /\ dec \in [doing : {"idle", "decode", "render"}, version : {"none", "good", "bad"}, sbUsed : BOOLEAN,
                begun : BOOLEAN, stored : BOOLEAN, overflow : BOOLEAN]
    /\ kiosk \in [valid : BOOLEAN, badge : BOOLEAN, line : Nat]
    /\ docs \in Nat

StoreTypes ==
    store \in [open : Ids \cup {NoId}, has : SUBSET Defs, writing : BOOLEAN, wrId : Ids \cup {NoId}, wrHas : SUBSET Defs]

\* A document is being read, or its frame is valid; never both.
Phases ==
    /\ dec.doing = "decode" => ~kiosk.valid
    /\ dec.doing = "render" => kiosk.valid

InUse == dec.doing = "decode" \/ kiosk.valid

-----------------------------------------------------------------------------
\* What an accepted frame says of the document holds from its first member on.
VersionKept ==
    /\ sent.n = 0 => Sent("version") = <<>>
    /\ dec.version = "good" => Sent("version") = <<TRUE>>

BgKept ==
    /\ frame.bg \in DOMAIN pal.rgb
    /\ dec.sbUsed => Sent("paint") # <<>>
    /\ (\A n \in DOMAIN Sent("bg") : Sent("bg")[n].paints = 0) =>
         Settled(pal, frame.bg, IF Sent("bg") = <<>> THEN AppBg ELSE Sent("bg")[Len(Sent("bg"))].colour)

PaintsKept ==
    /\ Len(frame.paints) = Len(Sent("paint"))
    /\ \A n \in DOMAIN frame.paints : Settled(pal, frame.paints[n], Sent("paint")[n])

\* The text at an op's str, as long as the arena is only appended to.
TextKept(arena, where, t, cut) ==
    /\ where \in 1 .. Len(arena) /\ where + arena[where] <= Len(arena)
    /\ arena[where] <= Len(t) /\ \A i \in 1 .. arena[where] : arena[where + i] = t[i]
    /\ arena[where] < Len(t) => cut

OpKept(p, f, op, it) ==
    /\ op.k = it.k
    /\ op.k = "op" => /\ Settled(p, op.cidx, it.colour)
                      /\ it.text = NoText <=> op.str = 0
                      /\ op.str # 0 => TextKept(f.arena, op.str, it.text, f.truncated)
    /\ op.k = "use" => op.def = it.def /\ op.paint = it.paint

OpsKept ==
    /\ Len(frame.ops) + frame.droppedOps = Len(Sent("op")) + Len(Sent("broken"))
    /\ Len(frame.ops) <= Len(Sent("op"))
    /\ \A i \in DOMAIN frame.ops : frame.ops[i].k = "op" => frame.ops[i].cidx \in DOMAIN pal.rgb
    /\ Len(frame.ops) = Len(Sent("op")) => \A i \in DOMAIN frame.ops : OpKept(pal, frame, frame.ops[i], Sent("op")[i])

\* The definitions of the document, those that were whole, and the numbers of the others.
DefsSent == {Sent("def")[n].def : n \in DOMAIN Sent("def")}
WholeSent == {Sent("def")[n].def : n \in {m \in DOMAIN Sent("def") : Sent("def")[m].fits}}
Misfits == {n \in DOMAIN Sent("def") : ~Sent("def")[n].fits}

\* The set being written while a document is read.
SetKept ==
    /\ Sent("id") = IF frame.sid = NoId THEN <<>> ELSE <<frame.sid>>
    /\ dec.begun <=> Sent("defs") # <<>>
    /\ sent.last \in {"defs", "def"} => dec.begun
    /\ ~dec.begun => Sent("def") = <<>> /\ ~dec.stored /\ frame.droppedDefs = 0
    /\ dec.doing = "decode" /\ dec.stored =>
         /\ store.wrId = frame.sid
         /\ WholeSent \subseteq store.wrHas /\ store.wrHas \subseteq DefsSent
         /\ frame.droppedDefs = Cardinality(Misfits)

Document == VersionKept /\ BgKept /\ PaintsKept /\ OpsKept /\ SetKept

\* The accepted set.
SetAccepted == kiosk.valid => dec.version = "good" /\ StaticAsSent

IInv ==
    /\ PaletteOK(pal) /\ Screen
    /\ FrameTypes /\ SentTypes /\ DecTypes /\ StoreTypes /\ Phases
    /\ InUse => Document
    /\ SetAccepted

-----------------------------------------------------------------------------
(* The palette. *)

LEMMA LeastElement ==
    ASSUME NEW S \in SUBSET Nat, S # {}
    PROVE  \E m \in S : \A n \in S : m <= n
<1> DEFINE R == {p \in Nat \X Nat : p[1] < p[2]}
<1>1. IsWellFoundedOn(R, Nat)
  BY NatLessThanWellFounded, Zenon DEF OpToRel
<1>2. PICK m \in S : \A n \in S : ~ (<<n, m>> \in R)
  <2> HIDE DEF R
  <2> QED  BY <1>1, WFMin
<1>3. \A n \in S : m <= n
  <2> SUFFICES ASSUME NEW n \in S, n < m PROVE FALSE
    OBVIOUS
  <2>1. <<n, m>> \in R
    OBVIOUS
  <2> QED  BY <1>2, <2>1
<1> QED  BY <1>3

\* A palette that is not empty has a nearest entry for every colour, ...
LEMMA SomeNearest ==
    ASSUME NEW rgb \in Seq(Nat), rgb # <<>>, NEW c \in Nat
    PROVE  \E i \in DOMAIN rgb : IsNearest(rgb, c, i)
<1> DEFINE D == {Distance(c, rgb[i]) : i \in DOMAIN rgb}
<1>1. D \in SUBSET Nat /\ D # {}
  <2>1. \A i \in DOMAIN rgb : rgb[i] \in Nat
    OBVIOUS
  <2>2. 1 \in DOMAIN rgb
    OBVIOUS
  <2> QED  BY <2>1, <2>2 DEF Distance
<1>2. PICK m \in D : \A n \in D : m <= n
  <2> HIDE DEF D
  <2> QED  BY <1>1, LeastElement
<1> DEFINE S == {i \in DOMAIN rgb : Distance(c, rgb[i]) = m}
<1>3. S \in SUBSET Nat /\ S # {}
  BY <1>2
<1>4. PICK i \in S : \A j \in S : i <= j
  <2> HIDE DEF S
  <2> QED  BY <1>3, LeastElement
<1>5. ASSUME NEW j \in DOMAIN rgb
      PROVE  \/ Distance(c, rgb[i]) < Distance(c, rgb[j])
             \/ Distance(c, rgb[i]) = Distance(c, rgb[j]) /\ i <= j
  <2>1. Distance(c, rgb[j]) \in D /\ m \in Nat /\ Distance(c, rgb[j]) \in Nat
    BY <1>1
  <2>2. m <= Distance(c, rgb[j]) /\ Distance(c, rgb[i]) = m
    BY <1>2, <1>4, <2>1
  <2>3. Distance(c, rgb[j]) = m => i <= j
    BY <1>4
  <2> HIDE DEF D, S
  <2> QED  BY <2>1, <2>2, <2>3
<1> QED  BY <1>4, <1>5 DEF IsNearest

\* ... and only one.
LEMMA OneNearest ==
    ASSUME NEW rgb \in Seq(Nat), NEW c \in Nat, NEW i \in DOMAIN rgb, NEW j \in DOMAIN rgb,
           IsNearest(rgb, c, i), IsNearest(rgb, c, j)
    PROVE  i = j
<1>1. i \in Nat /\ j \in Nat /\ rgb[i] \in Nat /\ rgb[j] \in Nat
  OBVIOUS
<1>2. Distance(c, rgb[i]) \in Nat /\ Distance(c, rgb[j]) \in Nat
  BY <1>1 DEF Distance
<1>3. \/ Distance(c, rgb[i]) < Distance(c, rgb[j])
      \/ Distance(c, rgb[i]) = Distance(c, rgb[j]) /\ i <= j
  BY DEF IsNearest
<1>4. \/ Distance(c, rgb[j]) < Distance(c, rgb[i])
      \/ Distance(c, rgb[j]) = Distance(c, rgb[i]) /\ j <= i
  BY DEF IsNearest
<1> QED  BY <1>1, <1>2, <1>3, <1>4

LEMMA NearestIs ==
    ASSUME NEW p \in Palettes, p.rgb # <<>>, NEW c \in Nat
    PROVE  Nearest(p, c) \in DOMAIN p.rgb /\ IsNearest(p.rgb, c, Nearest(p, c))
<1>1. \E i \in DOMAIN p.rgb : IsNearest(p.rgb, c, i)
  BY SomeNearest DEF Palettes
<1> QED  BY <1>1 DEF Nearest

\* What is in the palette is found.
LEMMA NearestPresent ==
    ASSUME NEW p \in Palettes, NEW c \in Nat, Present(p, c)
    PROVE  p.rgb[Nearest(p, c)] = c
<1>1. PICK i \in DOMAIN p.rgb : p.rgb[i] = c
  BY DEF Present
<1>2. p.rgb # <<>> /\ p.rgb \in Seq(Nat)
  BY <1>1 DEF Palettes
<1>3. Nearest(p, c) \in DOMAIN p.rgb /\ IsNearest(p.rgb, c, Nearest(p, c))
  BY <1>2, NearestIs
<1> QED  BY <1>1, <1>2, <1>3 DEF IsNearest, Distance

\* A palette only grows, and a full one not even that.
Grows(p, q) ==
    /\ Len(p.rgb) <= Len(q.rgb)
    /\ \A i \in DOMAIN p.rgb : q.rgb[i] = p.rgb[i]
    /\ Len(p.rgb) = PALETTE_SIZE => q.rgb = p.rgb
    /\ q.dirty = p.dirty /\ q.reset = p.reset

LEMMA StaysSettled ==
    ASSUME NEW p \in Palettes, NEW q \in Palettes, Grows(p, q), NEW i, NEW c, Settled(p, i, c)
    PROVE  Settled(q, i, c)
<1>1. i \in DOMAIN q.rgb /\ q.rgb[i] = p.rgb[i]
  BY DEF Palettes, Grows, Settled
<1>2. CASE p.rgb[i] = c
  BY <1>1, <1>2 DEF Settled
<1>3. CASE p.rgb[i] # c
  <2>1. Len(p.rgb) = PALETTE_SIZE /\ q.rgb = p.rgb
    BY <1>3 DEF Settled, Grows
  <2> QED  BY <1>1, <1>3, <2>1 DEF Settled
<1> QED  BY <1>2, <1>3

\* What is settled shows what the nearest of all entries would.
LEMMA SettledMeant ==
    ASSUME NEW p \in Palettes, NEW i, NEW c \in Nat, Settled(p, i, c)
    PROVE  p.rgb[i] = Meant(p, c)
<1>1. CASE p.rgb[i] = c
  <2>1. Present(p, c)
    BY <1>1 DEF Settled, Present
  <2> QED  BY <1>1, <2>1, NearestPresent DEF Meant
<1>2. CASE p.rgb[i] # c
  <2>1. PICK n \in DOMAIN p.rgb : IsNearest(p.rgb, c, n) /\ p.rgb[i] = p.rgb[n]
    BY <1>2 DEF Settled
  <2>2. p.rgb # <<>> /\ p.rgb \in Seq(Nat)
    BY <2>1 DEF Palettes
  <2>3. Nearest(p, c) = n
    BY <2>1, <2>2, NearestIs, OneNearest
  <2> QED  BY <2>1, <2>3 DEF Meant
<1> QED  BY <1>1, <1>2

LEMMA HalfwayNat ==
    ASSUME NEW p \in Palettes, NEW i \in DOMAIN p.rgb, NEW j \in DOMAIN p.rgb
    PROVE  Halfway(p, i, j) \in Nat
<1>1. p.rgb[i] \in Nat /\ p.rgb[j] \in Nat
  BY DEF Palettes
<1> QED  BY <1>1 DEF Halfway

LEMMA StillRemembers ==
    ASSUME NEW p, PaletteOK(p), NEW q \in Palettes, Grows(p, q), q.cache = p.cache
    PROVE  Remembers(q)
<1> SUFFICES ASSUME NEW k \in DOMAIN p.cache
             PROVE  /\ p.cache[k].bg \in DOMAIN q.rgb /\ p.cache[k].fg \in DOMAIN q.rgb
                    /\ Settled(q, p.cache[k].idx, Halfway(q, p.cache[k].bg, p.cache[k].fg))
  BY DEF Remembers
<1> DEFINE b == p.cache[k].bg
<1> DEFINE f == p.cache[k].fg
<1>1. b \in DOMAIN p.rgb /\ f \in DOMAIN p.rgb /\ Settled(p, p.cache[k].idx, Halfway(p, b, f))
  BY DEF PaletteOK, Remembers
<1>2. b \in DOMAIN q.rgb /\ f \in DOMAIN q.rgb /\ Halfway(q, b, f) = Halfway(p, b, f)
  <2>1. p.rgb \in Seq(Nat) /\ q.rgb \in Seq(Nat)
    BY DEF PaletteOK, Palettes
  <2>2. /\ b \in DOMAIN q.rgb /\ q.rgb[b] = p.rgb[b]
        /\ f \in DOMAIN q.rgb /\ q.rgb[f] = p.rgb[f]
    BY <1>1, <2>1 DEF Grows
  <2> QED  BY <2>2 DEF Halfway
<1> HIDE DEF b, f
<1>3. Settled(q, p.cache[k].idx, Halfway(p, b, f))
  BY <1>1, StaysSettled DEF PaletteOK
<1> QED  BY <1>2, <1>3 DEF b, f

LEMMA Added ==
    ASSUME NEW p, PaletteOK(p), NEW c \in Nat
    PROVE  LET q == palette_add(p, c)
           IN  /\ PaletteOK(q) /\ Grows(p, q) /\ q.cache = p.cache
               /\ Settled(q, Nearest(q, c), c)
<1> DEFINE q == palette_add(p, c)
<1>0. /\ p \in Palettes /\ p.rgb \in Seq(Nat) /\ Len(p.rgb) \in Nat
      /\ Len(p.rgb) <= PALETTE_SIZE /\ PALETTE_SIZE \in Nat \ {0}
  BY PaletteAssumption DEF PaletteOK, Palettes
<1>1. CASE Present(p, c) \/ Len(p.rgb) = PALETTE_SIZE
  <2>1. q = p
    BY <1>1 DEF palette_add
  <2>2. Grows(p, p)
    BY <1>0 DEF Grows
  <2>3. p.rgb # <<>>
    BY <1>0, <1>1 DEF Present
  <2>4. Nearest(p, c) \in DOMAIN p.rgb /\ IsNearest(p.rgb, c, Nearest(p, c))
    BY <1>0, <2>3, NearestIs
  <2>5. Present(p, c) => p.rgb[Nearest(p, c)] = c
    BY <1>0, NearestPresent
  <2>6. Settled(p, Nearest(p, c), c)
    BY <1>1, <2>4, <2>5 DEF Settled
  <2> QED  BY <2>1, <2>2, <2>6
<1>2. CASE ~Present(p, c) /\ Len(p.rgb) # PALETTE_SIZE
  <2>1. q = [p EXCEPT !.rgb = Append(@, c)]
    BY <1>2 DEF palette_add
  <2>2. /\ q \in Palettes /\ q.rgb = Append(p.rgb, c)
        /\ q.cache = p.cache /\ q.dirty = p.dirty /\ q.reset = p.reset
    <3>1. Append(p.rgb, c) \in Seq(Nat)
      BY <1>0
    <3> QED  BY <1>0, <2>1, <3>1 DEF Palettes
  <2>3. Len(q.rgb) = Len(p.rgb) + 1 /\ Len(q.rgb) <= PALETTE_SIZE
    BY <1>0, <1>2, <2>2
  <2>4. Grows(p, q)
    BY <1>0, <1>2, <2>2, <2>3 DEF Grows
  <2> HIDE DEF q
  <2>5. Remembers(q)
    BY <2>2, <2>4, StillRemembers
  <2>6. PaletteOK(q)
    BY <2>2, <2>3, <2>5, <1>0 DEF PaletteOK, Palettes
  <2>7. Present(q, c)
    <3>1. Len(q.rgb) \in DOMAIN q.rgb /\ q.rgb[Len(q.rgb)] = c
      BY <1>0, <2>2
    <3> QED  BY <3>1 DEF Present
  <2>8. q.rgb[Nearest(q, c)] = c
    BY <2>2, <2>7, NearestPresent
  <2>9. Nearest(q, c) \in DOMAIN q.rgb
    <3>1. q.rgb # <<>>
      BY <1>0, <2>2
    <3> QED  BY <2>2, <3>1, NearestIs
  <2> QED  BY <2>2, <2>4, <2>6, <2>8, <2>9 DEF Settled, q
<1> QED  BY <1>1, <1>2

LEMMA IndexNat == \A s \in Seq(Nat) : \A i \in DOMAIN s : i \in Nat
OBVIOUS

\* A pixel blended over another gets the entry of the colour between them.
LEMMA Blended ==
    ASSUME NEW p, PaletteOK(p), NEW bg \in DOMAIN p.rgb, NEW fg \in DOMAIN p.rgb
    PROVE  LET b == palette_blend(p, bg, fg)
           IN  /\ PaletteOK(b.pal) /\ Grows(p, b.pal)
               /\ Settled(b.pal, b.idx, Halfway(p, bg, fg))
<1> DEFINE mixed == Halfway(p, bg, fg)
           hits == {k \in DOMAIN p.cache : p.cache[k].bg = bg /\ p.cache[k].fg = fg}
           b == palette_blend(p, bg, fg)
<1>0. /\ p \in Palettes /\ p.rgb \in Seq(Nat) /\ Len(p.rgb) \in Nat
      /\ p.cache \in Seq([bg : Nat, fg : Nat, idx : Nat])
  BY DEF PaletteOK, Palettes
<1>1. Grows(p, p) /\ mixed \in Nat
  BY <1>0, HalfwayNat DEF Grows
<1>2. CASE bg = fg
  <2>1. b = [pal |-> p, idx |-> bg]
    BY <1>2 DEF palette_blend
  <2>2. p.rgb[bg] \in Nat
    BY <1>0
  <2>3. mixed = p.rgb[bg]
    <3>1. \A n \in Nat : (n + n + 1) \div 2 = n
      OBVIOUS
    <3> QED  BY <1>2, <2>2, <3>1 DEF Halfway
  <2> QED  BY <1>1, <2>1, <2>3 DEF Settled
<1>3. CASE bg # fg /\ hits # {}
  <2> DEFINE k == CHOOSE k \in hits : TRUE
  <2>1. k \in hits
    BY <1>3
  <2>2. b = [pal |-> p, idx |-> p.cache[k].idx]
    BY <1>3 DEF palette_blend
  <2>3. Settled(p, p.cache[k].idx, mixed)
    BY <2>1 DEF PaletteOK, Remembers
  <2> QED  BY <1>1, <2>2, <2>3
<1>4. CASE bg # fg /\ hits = {}
  <2> DEFINE q == palette_add(p, mixed)
             e == [bg |-> bg, fg |-> fg, idx |-> Nearest(q, mixed)]
             seen == Append(p.cache, e)
             kept == IF Len(seen) > PALETTE_BLEND_CACHE THEN Tail(seen) ELSE seen
  <2>1. b = [pal |-> [q EXCEPT !.cache = kept], idx |-> Nearest(q, mixed)]
    BY <1>4 DEF palette_blend
  <2>2. /\ PaletteOK(q) /\ Grows(p, q) /\ q.cache = p.cache
        /\ Settled(q, Nearest(q, mixed), mixed)
    BY <1>1, Added
  <2> HIDE DEF mixed
  <2>3. bg \in DOMAIN q.rgb /\ fg \in DOMAIN q.rgb /\ Halfway(q, bg, fg) = mixed
    <3>1. q.rgb \in Seq(Nat)
      BY <2>2 DEF PaletteOK, Palettes
    <3>2. /\ bg \in DOMAIN q.rgb /\ q.rgb[bg] = p.rgb[bg]
          /\ fg \in DOMAIN q.rgb /\ q.rgb[fg] = p.rgb[fg]
      BY <1>0, <2>2, <3>1 DEF Grows
    <3> QED  BY <3>2 DEF Halfway, mixed
  <2>4. e \in [bg : Nat, fg : Nat, idx : Nat]
    <3>1. q.rgb \in Seq(Nat) /\ Nearest(q, mixed) \in DOMAIN q.rgb
      BY <2>2 DEF PaletteOK, Palettes, Settled
    <3>2. bg \in Nat /\ fg \in Nat /\ Nearest(q, mixed) \in Nat
      BY <1>0, <3>1, IndexNat, Zenon
    <3> QED  BY <3>2, Zenon
  <2> HIDE DEF q
  <2> HIDE DEF e
  <2>5. /\ seen \in Seq([bg : Nat, fg : Nat, idx : Nat])
        /\ \A k \in DOMAIN seen : seen[k] = e \/ \E m \in DOMAIN p.cache : seen[k] = p.cache[m]
    <3>1. /\ seen \in Seq([bg : Nat, fg : Nat, idx : Nat]) /\ Len(seen) = Len(p.cache) + 1
          /\ \A k \in 1 .. Len(p.cache) : seen[k] = p.cache[k]
          /\ seen[Len(p.cache) + 1] = e
      BY <1>0, <2>4, AppendProperties
    <3> HIDE DEF seen
    <3>2. DOMAIN seen = 1 .. Len(p.cache) + 1 /\ DOMAIN p.cache = 1 .. Len(p.cache) /\ Len(p.cache) \in Nat
      BY <1>0, <3>1
    <3>3. ASSUME NEW k \in DOMAIN seen
          PROVE  seen[k] = e \/ \E m \in DOMAIN p.cache : seen[k] = p.cache[m]
      <4>1. k \in 1 .. Len(p.cache) \/ k = Len(p.cache) + 1
        BY <3>2
      <4> QED  BY <3>1, <3>2, <4>1
    <3> QED  BY <3>1, <3>3
  <2>6. /\ kept \in Seq([bg : Nat, fg : Nat, idx : Nat])
        /\ \A k \in DOMAIN kept : \E m \in DOMAIN seen : kept[k] = seen[m]
    <3> HIDE DEF seen
    <3>1. CASE Len(seen) > PALETTE_BLEND_CACHE
      <4>1. kept = Tail(seen) /\ seen # <<>>
        <5>1. seen # <<>>
          BY <3>1, PaletteAssumption
        <5> QED  BY <3>1, <5>1
      <4>2. /\ Tail(seen) \in Seq([bg : Nat, fg : Nat, idx : Nat])
            /\ Len(Tail(seen)) = Len(seen) - 1
            /\ \A k \in 1 .. Len(Tail(seen)) : Tail(seen)[k] = seen[k + 1]
        BY <2>5, <4>1, HeadTailProperties
      <4>3. ASSUME NEW k \in 1 .. Len(Tail(seen))
            PROVE  k + 1 \in DOMAIN seen /\ Tail(seen)[k] = seen[k + 1]
        <5>1. DOMAIN seen = 1 .. Len(seen) /\ Len(seen) \in Nat
          BY <2>5
        <5>2. k + 1 \in 1 .. Len(seen)
          BY <4>2, <5>1
        <5> QED  BY <4>2, <5>1, <5>2
      <4>4. DOMAIN Tail(seen) = 1 .. Len(Tail(seen))
        BY <4>2
      <4> QED  BY <4>1, <4>2, <4>3, <4>4
    <3>2. CASE ~(Len(seen) > PALETTE_BLEND_CACHE)
      <4>1. kept = seen
        BY <3>2
      <4> QED  BY <2>5, <4>1
    <3> QED  BY <3>1, <3>2
  <2> DEFINE z == [q EXCEPT !.cache = kept]
  <2> HIDE DEF kept
  <2>7. /\ z \in Palettes /\ z.rgb = q.rgb /\ z.cache = kept
        /\ z.dirty = q.dirty /\ z.reset = q.reset
    BY <2>2, <2>6 DEF PaletteOK, Palettes
  <2> HIDE DEF z
  <2>8. Grows(q, z)
    BY <2>2, <2>7 DEF Grows, PaletteOK, Palettes
  <2>9. \A n \in DOMAIN q.rgb, m \in DOMAIN q.rgb : Halfway(z, n, m) = Halfway(q, n, m)
    BY <2>7 DEF Halfway
  <2>10. Remembers(z)
    <3> SUFFICES ASSUME NEW k \in DOMAIN kept
                 PROVE  /\ kept[k].bg \in DOMAIN z.rgb /\ kept[k].fg \in DOMAIN z.rgb
                        /\ Settled(z, kept[k].idx, Halfway(z, kept[k].bg, kept[k].fg))
      BY <2>7 DEF Remembers
    <3>1. kept[k] = e \/ \E m \in DOMAIN q.cache : kept[k] = q.cache[m]
      BY <2>2, <2>5, <2>6
    <3>2. CASE kept[k] = e
      <4>1. kept[k].bg = bg /\ kept[k].fg = fg /\ kept[k].idx = Nearest(q, mixed)
        BY <3>2 DEF e
      <4> QED  BY <2>2, <2>3, <2>7, <2>8, <2>9, <4>1, StaysSettled DEF PaletteOK
    <3>3. CASE \E m \in DOMAIN q.cache : kept[k] = q.cache[m]
      <4>1. PICK m \in DOMAIN q.cache : kept[k] = q.cache[m]
        BY <3>3
      <4>2. /\ kept[k].bg \in DOMAIN q.rgb /\ kept[k].fg \in DOMAIN q.rgb
            /\ Settled(q, kept[k].idx, Halfway(q, kept[k].bg, kept[k].fg))
        BY <2>2, <4>1 DEF PaletteOK, Remembers
      <4> QED  BY <2>2, <2>7, <2>8, <2>9, <4>2, StaysSettled DEF PaletteOK
    <3> QED  BY <3>1, <3>2, <3>3
  <2>11. PaletteOK(z)
    BY <2>2, <2>7, <2>10 DEF PaletteOK
  <2>12. Grows(p, z)
    BY <1>0, <2>2, <2>7, <2>8 DEF Grows, PaletteOK, Palettes
  <2>13. Settled(z, Nearest(q, mixed), mixed)
    BY <2>2, <2>7, <2>8, StaysSettled DEF PaletteOK
  <2>14. b.pal = z /\ b.idx = Nearest(q, mixed)
    BY <2>1 DEF z
  <2> QED  BY <2>11, <2>12, <2>13, <2>14 DEF mixed
<1> QED  BY <1>2, <1>3, <1>4

-----------------------------------------------------------------------------
(* The screen. *)

\* A line whose pixels are all entries of the palette p, each with its colour.
Packed(p, px) == px \subseteq Indices \X Nat /\ \A e \in px : e[1] \in DOMAIN p.rgb /\ e[2] = p.rgb[e[1]]

\* An upload puts every entry into the table and leaves the published lines their colours.
LEMMA UploadKeeps ==
    ASSUME ScreenTypes, InTable, OfTable, LinesKeepColours, PaletteOK(pal),
           NEW p, PaletteOK(p), Grows(pal, p), p.reset => \A y \in Lines : NamesTable(y),
           shown' = scanout_upload_palette(shown, p)
    PROVE  /\ shown' \in [table : {0, 1}, tables : [{0, 1} -> [Indices -> Nat]]]
           /\ ~p.reset => shown'.table = shown.table
           /\ \A i \in DOMAIN p.rgb : shown'.tables[shown'.table][i] = p.rgb[i]
           /\ \A y \in Lines : \A px \in lines[y].px : shown'.tables[lines[y].table][px[1]] = px[2]
           /\ \A y \in Lines : lines[y].table = shown'.table => \A px \in lines[y].px : px[1] <= Len(p.rgb)
<1> DEFINE t == IF p.reset THEN 1 - shown.table ELSE shown.table
           from == IF p.reset THEN 0 ELSE p.dirty
           row == [i \in Indices |-> IF i > from /\ i <= Len(p.rgb) THEN p.rgb[i] ELSE shown.tables[t][i]]
<1>1. /\ p.rgb \in Seq(Nat) /\ Len(p.rgb) \in Nat /\ DOMAIN p.rgb = 1 .. Len(p.rgb) /\ Len(p.rgb) <= PALETTE_SIZE
      /\ pal.rgb \in Seq(Nat) /\ DOMAIN pal.rgb = 1 .. Len(pal.rgb) /\ Len(pal.rgb) \in Nat
      /\ p.dirty \in Nat /\ pal.dirty \in Nat /\ pal.dirty <= Len(pal.rgb) /\ p.dirty = pal.dirty /\ p.reset = pal.reset
      /\ p.reset \in BOOLEAN /\ PALETTE_SIZE \in Nat
  BY PaletteAssumption DEF PaletteOK, Palettes, Grows
<1>2. /\ shown.table \in {0, 1} /\ t \in {0, 1} /\ from \in Nat
      /\ \A u \in {0, 1} : shown.tables[u] \in [Indices -> Nat]
  BY <1>1 DEF ScreenTypes
<1>3. shown' = [table |-> t, tables |-> [shown.tables EXCEPT ![t] = row]]
  BY DEF scanout_upload_palette
<1>4. row \in [Indices -> Nat]
  <2>1. \A i \in Indices : shown.tables[t][i] \in Nat
    BY <1>2
  <2>2. \A i \in Indices : i > from /\ i <= Len(p.rgb) => p.rgb[i] \in Nat
    BY <1>1, <1>2 DEF Indices
  <2> QED  BY <2>1, <2>2
<1>5. /\ shown'.table = t /\ shown'.tables = [shown.tables EXCEPT ![t] = row]
      /\ DOMAIN shown.tables = {0, 1}
  BY <1>3 DEF ScreenTypes
<1>6. shown'.tables[t] = row /\ \A u \in {0, 1} : u # t => shown'.tables[u] = shown.tables[u]
  BY <1>2, <1>5
<1>7. shown' \in [table : {0, 1}, tables : [{0, 1} -> [Indices -> Nat]]]
  BY <1>2, <1>3, <1>4, <1>5 DEF ScreenTypes
<1>8. \A i \in DOMAIN p.rgb : i \in Indices /\ row[i] = p.rgb[i]
  <2> SUFFICES ASSUME NEW i \in DOMAIN p.rgb PROVE i \in Indices /\ row[i] = p.rgb[i]
    OBVIOUS
  <2>1. i \in Indices /\ i \in Nat /\ i >= 1 /\ i <= Len(p.rgb)
    BY <1>1 DEF Indices
  <2>2. CASE i > from
    BY <2>1, <2>2
  <2>3. CASE ~(i > from)
    <3>1. ~p.reset /\ i \in 1 .. pal.dirty /\ t = shown.table
      BY <1>1, <1>2, <2>1, <2>3
    <3>2. shown.tables[t][i] = pal.rgb[i] /\ i \in DOMAIN pal.rgb
      BY <1>1, <3>1 DEF InTable
    <3>3. pal.rgb[i] = p.rgb[i]
      BY <3>2 DEF Grows
    <3> QED  BY <2>1, <2>3, <3>2, <3>3
  <2> QED  BY <2>2, <2>3
<1>9. ASSUME NEW y \in Lines, NEW px \in lines[y].px
      PROVE  /\ shown'.tables[lines[y].table][px[1]] = px[2]
             /\ lines[y].table = t => px[1] <= Len(p.rgb)
  <2>1. px[1] \in Indices /\ lines[y].table \in {0, 1} /\ shown.tables[lines[y].table][px[1]] = px[2]
    BY DEF ScreenTypes, LinesKeepColours
  <2>2. CASE lines[y].table # t
    BY <1>6, <2>1, <2>2
  <2>3. CASE lines[y].table = t
    <3>1. ~p.reset
      <4> SUFFICES ASSUME p.reset PROVE FALSE
        OBVIOUS
      <4>1. lines[y].table = shown.table
        BY DEF NamesTable
      <4> QED  BY <1>2, <2>3, <4>1
    <3>2. t = shown.table /\ from = pal.dirty /\ px[1] <= pal.dirty
      BY <1>1, <2>3, <3>1 DEF OfTable
    <3>3. px[1] \in Nat /\ ~(px[1] > from)
      BY <1>1, <2>1, <3>2 DEF Indices
    <3>4. row[px[1]] = shown.tables[t][px[1]]
      BY <2>1, <3>3
    <3>5. Len(pal.rgb) <= Len(p.rgb)
      BY DEF Grows
    <3> QED  BY <1>1, <1>6, <2>1, <2>3, <3>2, <3>3, <3>4, <3>5
  <2> QED  BY <2>2, <2>3
<1> HIDE DEF t, row, from
<1>10. t = shown.table \/ p.reset
  BY DEF t
<1> QED  BY <1>5, <1>6, <1>7, <1>8, <1>9, <1>10

LEMMA UploadedOK ==
    ASSUME NEW p, PaletteOK(p)
    PROVE  LET u == Uploaded(p)
           IN  /\ PaletteOK(u) /\ u.rgb = p.rgb /\ u.dirty = Len(p.rgb) /\ ~u.reset
               /\ \A i, c : Settled(p, i, c) => Settled(u, i, c)
<1> DEFINE u == Uploaded(p)
<1>1. p \in Palettes /\ p.rgb \in Seq(Nat) /\ Len(p.rgb) \in Nat
  BY DEF PaletteOK, Palettes
<1>2. /\ u \in Palettes /\ u.rgb = p.rgb /\ u.dirty = Len(p.rgb) /\ u.reset = FALSE /\ u.cache = p.cache
  BY <1>1 DEF Palettes, Uploaded
<1> HIDE DEF u
<1>3. \A i, c : Settled(p, i, c) => Settled(u, i, c)
  BY <1>2 DEF Settled
<1>4. \A i, j : Halfway(u, i, j) = Halfway(p, i, j)
  BY <1>2 DEF Halfway
<1>5. Remembers(u)
  BY <1>2, <1>3, <1>4 DEF PaletteOK, Remembers
<1>6. PaletteOK(u)
  BY <1>1, <1>2, <1>5 DEF PaletteOK
<1> QED  BY <1>2, <1>3, <1>6 DEF u

\* Away from a render only the palette changes: it grows, or it starts a new generation.
LEMMA ScreenStays ==
    ASSUME Screen, PaletteOK(pal), PaletteOK(pal'), ~pal'.reset => Grows(pal, pal'),
           UNCHANGED <<shown, lines>>, dec.doing # "render", dec'.doing # "render"
    PROVE  Screen'
<1>1. ScreenTypes' /\ LinesKeepColours'
  BY DEF Screen, ScreenTypes, LinesKeepColours
<1>2. OneTable'
  BY DEF Screen, OneTable, NamesTable
<1>3. ASSUME ~pal'.reset
      PROVE  /\ ~pal.reset /\ pal'.dirty = pal.dirty
             /\ \A i \in 1 .. pal.dirty : pal'.rgb[i] = pal.rgb[i]
  <2>1. pal.rgb \in Seq(Nat) /\ pal.dirty \in Nat /\ pal.dirty <= Len(pal.rgb)
    BY DEF PaletteOK, Palettes
  <2>2. \A i \in 1 .. pal.dirty : i \in DOMAIN pal.rgb
    BY <2>1
  <2> QED  BY <1>3, <2>2 DEF Grows
<1>4. InTable'
  BY <1>3 DEF Screen, InTable
<1>5. OfTable'
  BY <1>3 DEF Screen, OfTable
<1> QED  BY <1>1, <1>2, <1>4, <1>5 DEF Screen

\* What was settled stays settled.
Carries(p, q) ==
    /\ \A i \in DOMAIN p.rgb : i \in DOMAIN q.rgb
    /\ \A i, c : Settled(p, i, c) => Settled(q, i, c)

LEMMA GrowsCarries ==
    ASSUME NEW p \in Palettes, NEW q \in Palettes, Grows(p, q)
    PROVE  Carries(p, q)
<1>1. \A i \in DOMAIN p.rgb : i \in DOMAIN q.rgb
  BY DEF Palettes, Grows
<1> QED  BY <1>1, StaysSettled DEF Carries

LEMMA GrowsOn ==
    ASSUME NEW p \in Palettes, NEW q \in Palettes, NEW u \in Palettes, Grows(p, q), Grows(q, u)
    PROVE  Grows(p, u)
<1>1. /\ p.rgb \in Seq(Nat) /\ q.rgb \in Seq(Nat) /\ u.rgb \in Seq(Nat)
      /\ Len(p.rgb) \in Nat /\ Len(q.rgb) \in Nat /\ Len(u.rgb) \in Nat
  BY DEF Palettes
<1>2. \A i \in DOMAIN p.rgb : i \in DOMAIN q.rgb /\ u.rgb[i] = p.rgb[i]
  BY <1>1 DEF Grows
<1>3. Len(p.rgb) <= Len(u.rgb) /\ (Len(p.rgb) = PALETTE_SIZE => u.rgb = p.rgb)
  BY <1>1 DEF Grows
<1> QED  BY <1>2, <1>3 DEF Grows

LEMMA CarriesOn ==
    ASSUME NEW p, NEW q, NEW u, Carries(p, q), Carries(q, u)
    PROVE  Carries(p, u)
BY DEF Carries

\* What draw_op and line_sink make of a line.
LEMMA DrawnEntry ==
    ASSUME FrameTypes, BgKept, PaintsKept, OpsKept, NEW y \in Lines
    PROVE  Drawn(y) \in DOMAIN pal.rgb
<1>0. y \in Nat /\ y >= 1
  BY LimitsAssumption DEF Lines
<1>1. CASE y > Len(frame.ops)
  BY <1>1 DEF Drawn, BgKept
<1>2. CASE ~(y > Len(frame.ops))
  <2>1. frame.ops \in Seq(OpRecords) /\ y \in DOMAIN frame.ops
    BY <1>0, <1>2 DEF FrameTypes
  <2>2. frame.ops[y].k = "op" => frame.ops[y].cidx \in DOMAIN pal.rgb
    BY <2>1 DEF OpsKept
  <2>3. \A n \in DOMAIN frame.paints : frame.paints[n] \in DOMAIN pal.rgb
    BY DEF PaintsKept, Settled
  <2>4. frame.bg \in DOMAIN pal.rgb
    BY DEF BgKept
  <2> QED  BY <1>2, <2>2, <2>3, <2>4 DEF Drawn
<1> QED  BY <1>1, <1>2

LEMMA RenderBeginScreen ==
    ASSUME Screen, PaletteOK(pal), DecTypes, NEW badge \in BOOLEAN, RenderBegin(badge)
    PROVE  PaletteOK(pal') /\ Carries(pal, pal') /\ Screen'
<1> DEFINE p == IF badge THEN palette_add(pal, Dark) ELSE pal
<1>1. /\ shown' = scanout_upload_palette(shown, p) /\ pal' = Uploaded(p)
      /\ lines' = lines /\ dec.doing = "idle"
  BY DEF RenderBegin
<1>2. dec'.doing = "render" /\ kiosk'.line = 1
  BY DEF RenderBegin, DecTypes
<1>3. Dark \in Nat /\ 1 \in Lines
  BY ColoursAssumption, LimitsAssumption DEF Lines
<1>4. PaletteOK(p) /\ Grows(pal, p)
  <2>1. pal \in Palettes /\ pal.rgb \in Seq(Nat)
    BY DEF PaletteOK, Palettes
  <2>2. Grows(pal, pal)
    BY <2>1 DEF Grows
  <2> QED  BY <1>3, <2>2, Added
<1> HIDE DEF p
<1>5. /\ PaletteOK(pal') /\ pal'.rgb = p.rgb /\ pal'.dirty = Len(p.rgb) /\ ~pal'.reset
      /\ \A i, c : Settled(p, i, c) => Settled(pal', i, c)
  BY <1>1, <1>4, UploadedOK
<1>6. Carries(pal, pal')
  <2>1. Carries(pal, p)
    BY <1>4, GrowsCarries DEF PaletteOK
  <2> QED  BY <1>5, <2>1 DEF Carries
<1>7. \A y \in Lines : NamesTable(y)
  BY <1>1 DEF Screen, OneTable
<1>8. /\ shown' \in [table : {0, 1}, tables : [{0, 1} -> [Indices -> Nat]]]
      /\ \A i \in DOMAIN p.rgb : shown'.tables[shown'.table][i] = p.rgb[i]
      /\ \A y \in Lines : \A px \in lines[y].px : shown'.tables[lines[y].table][px[1]] = px[2]
      /\ \A y \in Lines : lines[y].table = shown'.table => \A px \in lines[y].px : px[1] <= Len(p.rgb)
  BY <1>1, <1>4, <1>7, UploadKeeps DEF Screen
<1>9. InTable'
  <2>1. p.rgb \in Seq(Nat)
    BY <1>4 DEF PaletteOK, Palettes
  <2> QED  BY <1>5, <1>8, <2>1 DEF InTable
<1>10. OneTable'
  BY <1>2, <1>3, <1>5 DEF OneTable, NamesTable, Lines
<1>11. ScreenTypes' /\ OfTable' /\ LinesKeepColours'
  BY <1>1, <1>5, <1>8 DEF Screen, ScreenTypes, OfTable, LinesKeepColours
<1> QED  BY <1>5, <1>6, <1>9, <1>10, <1>11 DEF Screen

\* The pixels of a line are entries of the palette it leaves, and have their colours.
LEMMA LinePixels ==
    ASSUME PaletteOK(pal), FrameTypes, BgKept, PaintsKept, OpsKept, kiosk.line \in Lines
    PROVE  LET fg == Drawn(kiosk.line)
               edge == palette_blend(pal, frame.bg, fg)
               badged == kiosk.badge /\ kiosk.line = LastLine
               dark == Nearest(pal, Dark)
               over == IF badged THEN palette_blend(edge.pal, fg, dark) ELSE [pal |-> edge.pal, idx |-> fg]
               last == over.pal
               want == {<<frame.bg, last.rgb[frame.bg]>>, <<fg, last.rgb[fg]>>,
                        <<edge.idx, Meant(last, Halfway(pal, frame.bg, fg))>>}
                       \cup IF badged THEN {<<over.idx, Meant(last, Halfway(last, fg, dark))>>} ELSE {}
           IN  PaletteOK(last) /\ Grows(pal, last) /\ Packed(last, want)
<1> DEFINE fg == Drawn(kiosk.line)
           edge == palette_blend(pal, frame.bg, fg)
           badged == kiosk.badge /\ kiosk.line = LastLine
           dark == Nearest(pal, Dark)
           over == IF badged THEN palette_blend(edge.pal, fg, dark) ELSE [pal |-> edge.pal, idx |-> fg]
           last == over.pal
           mixed == Halfway(pal, frame.bg, fg)
           shade == Halfway(last, fg, dark)
           first == {<<frame.bg, last.rgb[frame.bg]>>, <<fg, last.rgb[fg]>>, <<edge.idx, Meant(last, mixed)>>}
           second == IF badged THEN {<<over.idx, Meant(last, shade)>>} ELSE {}
<1>1. pal \in Palettes /\ frame.bg \in DOMAIN pal.rgb /\ fg \in DOMAIN pal.rgb /\ mixed \in Nat
  <2>1. pal \in Palettes /\ frame.bg \in DOMAIN pal.rgb /\ fg \in DOMAIN pal.rgb
    BY DrawnEntry DEF PaletteOK, BgKept
  <2> QED  BY <2>1, HalfwayNat
<1>2. dark \in DOMAIN pal.rgb
  <2>1. Dark \in Nat /\ pal.rgb # <<>>
    BY <1>1, ColoursAssumption
  <2> QED  BY <1>1, <2>1, NearestIs
<1>3. PaletteOK(edge.pal) /\ Grows(pal, edge.pal) /\ Settled(edge.pal, edge.idx, mixed)
  BY <1>1, Blended
<1> HIDE DEF fg, dark, edge, mixed, badged
<1>4. /\ frame.bg \in DOMAIN edge.pal.rgb /\ fg \in DOMAIN edge.pal.rgb /\ dark \in DOMAIN edge.pal.rgb
      /\ edge.pal \in Palettes
  BY <1>1, <1>2, <1>3, GrowsCarries DEF PaletteOK, Carries
<1>5. /\ PaletteOK(last) /\ Grows(edge.pal, last)
      /\ badged => Settled(last, over.idx, Halfway(edge.pal, fg, dark))
  <2>1. CASE badged
    <3>1. over = palette_blend(edge.pal, fg, dark)
      BY <2>1
    <3> QED  BY <1>3, <1>4, <3>1, Blended
  <2>2. CASE ~badged
    <3>1. last = edge.pal
      BY <2>2
    <3>2. Grows(edge.pal, edge.pal)
      BY <1>4 DEF Grows, Palettes
    <3> QED  BY <1>3, <2>2, <3>1, <3>2
  <2> QED  BY <2>1, <2>2
<1> HIDE DEF over
<1>6. last \in Palettes /\ last.rgb \in Seq(Nat) /\ Len(last.rgb) \in Nat /\ Len(last.rgb) <= PALETTE_SIZE
  BY <1>5 DEF PaletteOK, Palettes
<1>7. Grows(pal, last)
  BY <1>1, <1>3, <1>4, <1>5, <1>6, GrowsOn
<1>8. frame.bg \in DOMAIN last.rgb /\ fg \in DOMAIN last.rgb /\ dark \in DOMAIN last.rgb
  BY <1>4, <1>5, <1>6, GrowsCarries DEF Carries
<1>9. edge.idx \in DOMAIN last.rgb /\ last.rgb[edge.idx] = Meant(last, mixed)
  <2>1. Settled(last, edge.idx, mixed)
    BY <1>3, <1>4, <1>5, <1>6, StaysSettled
  <2> QED  BY <1>1, <1>6, <2>1, SettledMeant DEF Settled
<1>10. ASSUME badged
       PROVE  over.idx \in DOMAIN last.rgb /\ last.rgb[over.idx] = Meant(last, shade)
  <2>1. shade = Halfway(edge.pal, fg, dark) /\ shade \in Nat
    <3>1. last.rgb[fg] = edge.pal.rgb[fg] /\ last.rgb[dark] = edge.pal.rgb[dark]
      BY <1>4, <1>5 DEF Grows
    <3> QED  BY <1>6, <1>8, <3>1, HalfwayNat DEF Halfway
  <2> HIDE DEF shade
  <2>2. Settled(last, over.idx, shade)
    BY <1>5, <1>10, <2>1
  <2> QED  BY <1>6, <2>1, <2>2, SettledMeant DEF Settled
<1>11. \A i \in DOMAIN last.rgb : <<i, last.rgb[i]>> \in Indices \X Nat
  <2> SUFFICES ASSUME NEW i \in DOMAIN last.rgb PROVE i \in Indices /\ last.rgb[i] \in Nat
    OBVIOUS
  <2> QED  BY <1>6, PaletteAssumption DEF Indices
<1> HIDE DEF last, shade
<1>12. Packed(last, first)
  BY <1>8, <1>9, <1>11 DEF Packed
<1>13. Packed(last, second)
  BY <1>10, <1>11 DEF Packed
<1>14. Packed(last, first \cup second)
  BY <1>12, <1>13 DEF Packed
<1> QED  BY <1>5, <1>7, <1>14 DEF fg, edge, badged, dark, over, last, mixed, shade

LEMMA RenderLineScreen ==
    ASSUME Screen, PaletteOK(pal), DecTypes, FrameTypes, BgKept, PaintsKept, OpsKept, RenderLine
    PROVE  PaletteOK(pal') /\ Carries(pal, pal') /\ Screen'
<1>1. dec.doing = "render" /\ kiosk.line \in Lines /\ ~pal.reset
  BY DEF RenderLine, Screen, OneTable
<1>2. PICK last, want :
        /\ PaletteOK(last) /\ Grows(pal, last) /\ Packed(last, want)
        /\ shown' = EncodeTables(shown, last) /\ pal' = Uploaded(last)
        /\ lines' = [lines EXCEPT ![kiosk.line] = [table |-> shown'.table, px |-> want]]
  <2>1. LET fg == Drawn(kiosk.line)
            edge == palette_blend(pal, frame.bg, fg)
            badged == kiosk.badge /\ kiosk.line = LastLine
            dark == Nearest(pal, Dark)
            over == IF badged THEN palette_blend(edge.pal, fg, dark) ELSE [pal |-> edge.pal, idx |-> fg]
            last == over.pal
            want == {<<frame.bg, last.rgb[frame.bg]>>, <<fg, last.rgb[fg]>>,
                     <<edge.idx, Meant(last, Halfway(pal, frame.bg, fg))>>}
                    \cup IF badged THEN {<<over.idx, Meant(last, Halfway(last, fg, dark))>>} ELSE {}
        IN  PaletteOK(last) /\ Grows(pal, last) /\ Packed(last, want)
    BY <1>1, LinePixels
  <2> QED  BY <2>1, Zenon DEF RenderLine
<1>3. /\ dec'.doing = IF kiosk.line = LastLine THEN "idle" ELSE "render"
      /\ kiosk'.line = IF kiosk.line = LastLine THEN 1 ELSE kiosk.line + 1
  BY DEF RenderLine, DecTypes
<1>4. ~last.reset /\ last \in Palettes /\ last.rgb \in Seq(Nat) /\ Len(last.rgb) \in Nat /\ DOMAIN last.rgb = 1 .. Len(last.rgb)
  BY <1>1, <1>2 DEF Grows, PaletteOK, Palettes
<1>5. /\ shown' \in [table : {0, 1}, tables : [{0, 1} -> [Indices -> Nat]]]
      /\ shown'.table = shown.table
      /\ \A i \in DOMAIN last.rgb : shown'.tables[shown'.table][i] = last.rgb[i]
      /\ \A y \in Lines : \A px \in lines[y].px : shown'.tables[lines[y].table][px[1]] = px[2]
      /\ \A y \in Lines : lines[y].table = shown'.table => \A px \in lines[y].px : px[1] <= Len(last.rgb)
  BY <1>2, <1>4, UploadKeeps DEF Screen, EncodeTables
<1>6. /\ PaletteOK(pal') /\ pal'.rgb = last.rgb /\ pal'.dirty = Len(last.rgb) /\ ~pal'.reset
      /\ \A i, c : Settled(last, i, c) => Settled(pal', i, c)
  BY <1>2, UploadedOK
<1>7. Carries(pal, pal')
  <2>1. Carries(pal, last)
    BY <1>2, <1>4, GrowsCarries DEF PaletteOK
  <2> QED  BY <1>6, <2>1 DEF Carries
<1>8. /\ lines'[kiosk.line] = [table |-> shown.table, px |-> want]
      /\ \A y \in Lines : y # kiosk.line => lines'[y] = lines[y]
      /\ DOMAIN lines = Lines
  BY <1>1, <1>2, <1>5 DEF Screen, ScreenTypes
<1>9. ScreenTypes'
  <2>1. [table |-> shown.table, px |-> want] \in [table : {0, 1}, px : SUBSET (Indices \X Nat)]
    BY <1>2 DEF Packed, Screen, ScreenTypes
  <2> QED  BY <1>2, <1>5, <2>1 DEF Screen, ScreenTypes
<1>10. InTable'
  BY <1>4, <1>5, <1>6 DEF InTable
<1>11. OfTable'
  <2>1. \A px \in want : px[1] <= Len(last.rgb)
    BY <1>2, <1>4 DEF Packed
  <2>2. ASSUME NEW y \in Lines, lines'[y].table = shown'.table, NEW px \in lines'[y].px
        PROVE  px[1] <= Len(last.rgb)
    <3>1. CASE y = kiosk.line
      BY <1>8, <2>1, <2>2, <3>1
    <3>2. CASE y # kiosk.line
      BY <1>5, <1>8, <2>2, <3>2
    <3> QED  BY <3>1, <3>2
  <2> QED  BY <1>6, <2>2 DEF OfTable
<1>12. LinesKeepColours'
  <2> SUFFICES ASSUME NEW y \in Lines, NEW px \in lines'[y].px
               PROVE  shown'.tables[lines'[y].table][px[1]] = px[2]
    BY DEF LinesKeepColours
  <2>1. CASE y = kiosk.line
    BY <1>2, <1>5, <1>8, <2>1 DEF Packed
  <2>2. CASE y # kiosk.line
    BY <1>5, <1>8, <2>2
  <2> QED  BY <2>1, <2>2
<1>13. OneTable'
  <2>1. ASSUME NEW y \in Lines, y <= kiosk.line
        PROVE  NamesTable(y)'
    <3>1. CASE y = kiosk.line
      BY <1>5, <1>8, <3>1 DEF NamesTable
    <3>2. CASE y # kiosk.line
      <4>1. y < kiosk.line
        BY <1>1, <2>1, <3>2 DEF Lines
      <4> QED  BY <1>1, <1>5, <1>8, <3>2, <4>1 DEF Screen, OneTable, NamesTable
    <3> QED  BY <3>1, <3>2
  <2>2. CASE kiosk.line = LastLine
    <3>1. \A y \in Lines : y <= kiosk.line
      BY <2>2, LimitsAssumption DEF Lines
    <3> QED  BY <1>3, <2>1, <2>2, <3>1 DEF OneTable
  <2>3. CASE kiosk.line # LastLine
    <3>1. kiosk'.line \in Lines /\ \A y \in Lines : y < kiosk'.line => y <= kiosk.line
      BY <1>1, <1>3, <2>3, LimitsAssumption DEF Lines
    <3> QED  BY <1>3, <1>6, <2>1, <2>3, <3>1 DEF OneTable
  <2> QED  BY <2>2, <2>3
<1> QED  BY <1>6, <1>7, <1>9, <1>10, <1>11, <1>12, <1>13 DEF Screen

-----------------------------------------------------------------------------
(* The document. *)

LEMMA SentSeqs ==
    ASSUME SentTypes
    PROVE  /\ Sent("version") \in Seq(BOOLEAN) /\ Sent("bg") \in Seq([colour : Nat, paints : Nat])
           /\ Sent("op") \in Seq(OpMembers) /\ Sent("broken") \in Seq(OpMembers) /\ Sent("paint") \in Seq(Nat)
           /\ Sent("id") \in Seq(Ids) /\ Sent("defs") \in Seq({TRUE}) /\ Sent("def") \in Seq([def : Defs, fits : BOOLEAN])
<1>1. \A kind \in Kinds : Sent(kind) \in Seq(MemberOf(kind))
  BY DEF SentTypes, Sent
<1>2. Sent("version") \in Seq(BOOLEAN) /\ Sent("bg") \in Seq([colour : Nat, paints : Nat])
  BY <1>1 DEF Kinds, MemberOf
<1>3. Sent("op") \in Seq(OpMembers) /\ Sent("broken") \in Seq(OpMembers) /\ Sent("paint") \in Seq(Nat)
  BY <1>1 DEF Kinds, MemberOf
<1>4. Sent("id") \in Seq(Ids) /\ Sent("defs") \in Seq({TRUE}) /\ Sent("def") \in Seq([def : Defs, fits : BOOLEAN])
  BY <1>1 DEF Kinds, MemberOf
<1> QED  BY <1>2, <1>3, <1>4

\* A member is added to those of its kind.
LEMMA Taken ==
    ASSUME SentTypes, NEW kind \in Kinds, NEW it \in MemberOf(kind), Take(kind, it)
    PROVE  /\ SentTypes' /\ sent'.n # 0 /\ sent'.last = kind
           /\ Sent(kind)' = Append(Sent(kind), it)
           /\ \A k \in Kinds : k # kind => Sent(k)' = Sent(k)
<1>1. sent' = [n |-> sent.n + 1, last |-> kind, of |-> [sent.of EXCEPT ![kind] = Append(@, it)]]
  BY DEF Take
<1>2. /\ DOMAIN sent.of = Kinds /\ sent.n \in Nat
      /\ \A k \in Kinds : sent.of[k] \in Seq(MemberOf(k))
  BY DEF SentTypes
<1>3. sent'.n = sent.n + 1 /\ sent'.last = kind /\ sent'.of = [sent.of EXCEPT ![kind] = Append(@, it)]
  BY <1>1
<1>4. /\ sent'.of[kind] = Append(sent.of[kind], it) /\ DOMAIN sent'.of = Kinds
      /\ \A k \in Kinds : k # kind => sent'.of[k] = sent.of[k]
  BY <1>2, <1>3
<1>5. Append(sent.of[kind], it) \in Seq(MemberOf(kind))
  BY <1>2, AppendProperties
<1>6. \A k \in Kinds : sent'.of[k] \in Seq(MemberOf(k))
  BY <1>2, <1>4, <1>5
<1>7. sent'.of = [k \in Kinds |-> sent'.of[k]]
  BY <1>3, <1>4
<1>8. sent' = [n |-> sent'.n, last |-> sent'.last, of |-> sent'.of]
  BY <1>1
<1>9. SentTypes'
  BY <1>2, <1>3, <1>6, <1>7, <1>8 DEF SentTypes
<1> QED  BY <1>2, <1>3, <1>4, <1>9 DEF Sent

LEMMA NothingTyped ==
    ASSUME sent' = NothingSent
    PROVE  SentTypes' /\ sent'.n = 0 /\ sent'.last = "none" /\ \A k \in Kinds : Sent(k)' = <<>>
<1>1. \A k \in Kinds : <<>> \in Seq(MemberOf(k))
  OBVIOUS
<1> QED  BY <1>1 DEF NothingSent, SentTypes, Sent

LEMMA VersionStays ==
    ASSUME VersionKept, sent'.n # 0, Sent("version")' = Sent("version"), dec'.version = dec.version
    PROVE  VersionKept'
BY DEF VersionKept

LEMMA BgStays ==
    ASSUME BgKept, Carries(pal, pal'), frame'.bg = frame.bg, dec'.sbUsed = dec.sbUsed,
           Sent("bg")' = Sent("bg"), Sent("paint")' = Sent("paint")
    PROVE  BgKept'
BY DEF BgKept, Carries

LEMMA PaintsStay ==
    ASSUME PaintsKept, Carries(pal, pal'), frame'.paints = frame.paints, Sent("paint")' = Sent("paint")
    PROVE  PaintsKept'
BY DEF PaintsKept, Carries

LEMMA OpsStay ==
    ASSUME OpsKept, Carries(pal, pal'), frame'.ops = frame.ops, frame'.arena = frame.arena,
           frame'.truncated = frame.truncated, frame'.droppedOps = frame.droppedOps,
           Sent("op")' = Sent("op"), Sent("broken")' = Sent("broken")
    PROVE  OpsKept'
<1>1. ASSUME NEW op, NEW it, OpKept(pal, frame, op, it) PROVE OpKept(pal', frame', op, it)
  BY <1>1 DEF OpKept, Carries
<1>2. \A i \in DOMAIN frame.ops : frame.ops[i].k = "op" => frame.ops[i].cidx \in DOMAIN pal'.rgb
  BY DEF OpsKept, Carries
<1> QED  BY <1>1, <1>2 DEF OpsKept

LEMMA SetStays ==
    ASSUME SetKept, frame'.sid = frame.sid, frame'.droppedDefs = frame.droppedDefs, store' = store,
           dec'.begun = dec.begun, dec'.stored = dec.stored, dec'.doing = "decode" => dec.doing = "decode",
           sent'.last = sent.last \/ sent'.last \notin {"defs", "def"},
           Sent("id")' = Sent("id"), Sent("defs")' = Sent("defs"), Sent("def")' = Sent("def")
    PROVE  SetKept'
<1>1. WholeSent' = WholeSent /\ DefsSent' = DefsSent /\ Misfits' = Misfits
  BY DEF WholeSent, DefsSent, Misfits
<1> QED  BY <1>1 DEF SetKept

-----------------------------------------------------------------------------
(* The members, one by one. *)

\* The decoder after a member: only what the member says of it has changed.
DecRecords ==
    [doing : {"idle", "decode", "render"}, version : {"none", "good", "bad"}, sbUsed : BOOLEAN,
     begun : BOOLEAN, stored : BOOLEAN, overflow : BOOLEAN]

LEMMA MemberKeeps ==
    ASSUME IInv, dec.doing = "decode", dec' \in DecRecords, dec'.doing = "decode",
           UNCHANGED <<shown, lines, kiosk, docs>>,
           PaletteOK(pal'), Grows(pal, pal'), FrameTypes', SentTypes', StoreTypes', Document'
    PROVE  IInv'
<1>1. Screen'
  BY ScreenStays DEF IInv
<1>2. DecTypes' /\ Phases' /\ SetAccepted'
  BY DEF IInv, DecTypes, Phases, SetAccepted, DecRecords
<1> QED  BY <1>1, <1>2 DEF IInv

LEMMA SamePalette ==
    ASSUME PaletteOK(pal), pal' = pal
    PROVE  PaletteOK(pal') /\ Grows(pal, pal') /\ Carries(pal, pal')
<1>1. pal \in Palettes /\ Len(pal.rgb) \in Nat
  BY DEF PaletteOK, Palettes
<1> QED  BY <1>1 DEF Grows, Carries

LEMMA NewColour ==
    ASSUME PaletteOK(pal), NEW c \in Nat, pal' = palette_add(pal, c)
    PROVE  /\ PaletteOK(pal') /\ Grows(pal, pal') /\ Carries(pal, pal')
           /\ Settled(pal', Nearest(pal', c), c) /\ Nearest(pal', c) \in Nat
<1>1. PaletteOK(pal') /\ Grows(pal, pal') /\ Settled(pal', Nearest(pal', c), c)
  BY Added
<1>2. Carries(pal, pal')
  BY <1>1, GrowsCarries DEF PaletteOK
<1>3. Nearest(pal', c) \in DOMAIN pal'.rgb /\ pal'.rgb \in Seq(Nat)
  BY <1>1 DEF Settled, PaletteOK, Palettes
<1> QED  BY <1>1, <1>2, <1>3, IndexNat

LEMMA InDecode ==
    ASSUME IInv, dec.doing = "decode"
    PROVE  /\ PaletteOK(pal) /\ Screen /\ FrameTypes /\ SentTypes /\ DecTypes /\ StoreTypes /\ Phases
           /\ VersionKept /\ BgKept /\ PaintsKept /\ OpsKept /\ SetKept
           /\ dec \in DecRecords
BY DEF IInv, InUse, Document, DecTypes, DecRecords

LEMMA TakeVersionKeeps ==
    ASSUME IInv, NEW ok \in BOOLEAN, TakeVersion(ok)
    PROVE  IInv'
<1>1. /\ sent.n = 0 /\ Take("version", ok) /\ UNCHANGED <<pal, frame, store>>
      /\ dec' = [dec EXCEPT !.version = IF ok THEN "good" ELSE "bad"]
  BY DEF TakeVersion
<1>2. dec.doing = "decode" /\ UNCHANGED <<shown, lines, kiosk, docs>>
  BY <1>1 DEF Take
<1> USE <1>2, InDecode
<1>3. /\ SentTypes' /\ sent'.n # 0 /\ sent'.last = "version" /\ Sent("version")' = Append(Sent("version"), ok)
      /\ \A k \in Kinds : k # "version" => Sent(k)' = Sent(k)
  BY <1>1, Taken DEF Kinds, MemberOf
<1>4. /\ dec' \in DecRecords /\ dec'.doing = "decode" /\ dec'.version = (IF ok THEN "good" ELSE "bad")
      /\ dec'.sbUsed = dec.sbUsed /\ dec'.begun = dec.begun /\ dec'.stored = dec.stored
  BY <1>1 DEF DecRecords
<1>5. PaletteOK(pal') /\ Grows(pal, pal') /\ Carries(pal, pal')
  BY <1>1, SamePalette
<1>6. VersionKept'
  <2>1. CASE ok = TRUE
    <3>1. Sent("version")' = Append(<<>>, TRUE)
      BY <1>1, <1>3, <2>1 DEF VersionKept
    <3>2. Append(<<>>, TRUE) = <<TRUE>>
      OBVIOUS
    <3> QED  BY <1>3, <3>1, <3>2, Zenon DEF VersionKept
  <2>2. CASE ok = FALSE
    <3>1. dec'.version = "bad"
      BY <1>4, <2>2
    <3> QED  BY <1>3, <3>1 DEF VersionKept
  <2> QED  BY <2>1, <2>2
<1>7. BgKept' /\ PaintsKept' /\ OpsKept' /\ SetKept'
  BY <1>1, <1>3, <1>4, <1>5, BgStays, PaintsStay, OpsStay, SetStays DEF Kinds
<1> QED  BY <1>1, <1>3, <1>4, <1>5, <1>6, <1>7, MemberKeeps DEF Document, FrameTypes, StoreTypes

LEMMA TakeBgKeeps ==
    ASSUME IInv, NEW c \in Bgs, TakeBg(c)
    PROVE  IInv'
<1> DEFINE it == [colour |-> c, paints |-> Len(Sent("paint"))]
<1>1. Take("bg", it) /\ dec' = [dec EXCEPT !.sbUsed = FALSE] /\ store' = store
  BY DEF TakeBg
<1>2. dec.doing = "decode" /\ UNCHANGED <<shown, lines, kiosk, docs>>
  BY <1>1 DEF Take
<1> USE <1>2, InDecode
<1>3. c \in Nat /\ it \in MemberOf("bg") /\ "bg" \in Kinds
  BY SentSeqs, ColoursAssumption DEF MemberOf, Kinds
<1>4. /\ SentTypes' /\ sent'.n # 0 /\ sent'.last = "bg" /\ Sent("bg")' = Append(Sent("bg"), it)
      /\ \A k \in Kinds : k # "bg" => Sent(k)' = Sent(k)
  BY <1>1, <1>3, Taken
<1>5. /\ dec' \in DecRecords /\ dec'.doing = "decode" /\ dec'.version = dec.version
      /\ ~dec'.sbUsed /\ dec'.begun = dec.begun /\ dec'.stored = dec.stored
  BY <1>1 DEF DecRecords
<1>6. /\ Sent("bg")' # <<>> /\ Sent("bg")'[Len(Sent("bg")')] = it
      /\ Len(Sent("bg")') \in DOMAIN Sent("bg")'
  BY <1>4, SentSeqs
<1>7. /\ PaletteOK(pal') /\ Grows(pal, pal') /\ Carries(pal, pal') /\ FrameTypes' /\ BgKept'
      /\ frame'.ops = frame.ops /\ frame'.arena = frame.arena /\ frame'.truncated = frame.truncated
      /\ frame'.droppedOps = frame.droppedOps /\ frame'.droppedDefs = frame.droppedDefs
      /\ frame'.sid = frame.sid /\ frame'.paints = frame.paints
  <2>1. CASE dec.sbUsed
    <3>1. UNCHANGED <<pal, frame>>
      BY <2>1 DEF TakeBg
    <3>2. it.paints # 0
      BY <2>1, SentSeqs DEF BgKept
    <3>3. BgKept'
      BY <1>5, <1>6, <3>1, <3>2 DEF BgKept
    <3> QED  BY <3>1, <3>3, SamePalette DEF FrameTypes
  <2>2. CASE ~dec.sbUsed
    <3>1. pal' = palette_add(pal, c) /\ frame' = [frame EXCEPT !.bg = Nearest(pal', c)]
      BY <2>2 DEF TakeBg
    <3>2. /\ PaletteOK(pal') /\ Grows(pal, pal') /\ Carries(pal, pal')
          /\ Settled(pal', Nearest(pal', c), c) /\ Nearest(pal', c) \in Nat
      BY <1>3, <3>1, NewColour
    <3>3. /\ frame'.ops = frame.ops /\ frame'.arena = frame.arena /\ frame'.truncated = frame.truncated
          /\ frame'.droppedOps = frame.droppedOps /\ frame'.droppedDefs = frame.droppedDefs
          /\ frame'.sid = frame.sid /\ frame'.paints = frame.paints /\ frame'.bg = Nearest(pal', c)
          /\ FrameTypes'
      BY <3>1, <3>2 DEF FrameTypes
    <3>4. BgKept'
      BY <1>5, <1>6, <3>2, <3>3 DEF BgKept, Settled
    <3> QED  BY <3>2, <3>3, <3>4
  <2> QED  BY <2>1, <2>2
<1>8. VersionKept' /\ PaintsKept' /\ OpsKept' /\ SetKept'
  BY <1>1, <1>4, <1>5, <1>7, VersionStays, PaintsStay, OpsStay, SetStays DEF Kinds
<1> QED  BY <1>1, <1>4, <1>5, <1>7, <1>8, MemberKeeps DEF Document, StoreTypes

LEMMA TakePaintKeeps ==
    ASSUME IInv, NEW c \in Fills, TakePaint(c)
    PROVE  IInv'
<1>1. /\ Take("paint", c) /\ dec' = [dec EXCEPT !.sbUsed = TRUE] /\ store' = store
      /\ pal' = palette_add(pal, c) /\ frame' = [frame EXCEPT !.paints = Append(@, Nearest(pal', c))]
  BY DEF TakePaint
<1>2. dec.doing = "decode" /\ UNCHANGED <<shown, lines, kiosk, docs>>
  BY <1>1 DEF Take
<1> USE <1>2, InDecode
<1>3. c \in Nat /\ c \in MemberOf("paint") /\ "paint" \in Kinds
  BY ColoursAssumption DEF MemberOf, Kinds
<1>4. /\ SentTypes' /\ sent'.n # 0 /\ sent'.last = "paint" /\ Sent("paint")' = Append(Sent("paint"), c)
      /\ \A k \in Kinds : k # "paint" => Sent(k)' = Sent(k)
  BY <1>1, <1>3, Taken
<1>5. /\ dec' \in DecRecords /\ dec'.doing = "decode" /\ dec'.version = dec.version
      /\ dec'.begun = dec.begun /\ dec'.stored = dec.stored
  BY <1>1 DEF DecRecords
<1>6. /\ PaletteOK(pal') /\ Grows(pal, pal') /\ Carries(pal, pal')
      /\ Settled(pal', Nearest(pal', c), c) /\ Nearest(pal', c) \in Nat
  BY <1>1, <1>3, NewColour
<1>7. /\ frame'.ops = frame.ops /\ frame'.arena = frame.arena /\ frame'.truncated = frame.truncated
      /\ frame'.droppedOps = frame.droppedOps /\ frame'.droppedDefs = frame.droppedDefs
      /\ frame'.sid = frame.sid /\ frame'.bg = frame.bg
      /\ frame'.paints = Append(frame.paints, Nearest(pal', c)) /\ FrameTypes'
  <2>1. frame.paints \in Seq(Nat)
    BY DEF FrameTypes
  <2>2. Append(frame.paints, Nearest(pal', c)) \in Seq(Nat)
    BY <1>6, <2>1
  <2> QED  BY <1>1, <2>2 DEF FrameTypes
<1>8. BgKept'
  <2>1. Sent("paint")' # <<>> /\ Sent("bg")' = Sent("bg")
    BY <1>4, SentSeqs DEF Kinds
  <2> QED  BY <1>6, <1>7, <2>1 DEF BgKept, Carries
<1>9. PaintsKept'
  <2>1. frame.paints \in Seq(Nat) /\ Sent("paint") \in Seq(Nat) /\ Len(frame.paints) = Len(Sent("paint"))
    BY SentSeqs DEF FrameTypes, PaintsKept
  <2>2. ASSUME NEW n \in DOMAIN frame'.paints
        PROVE  Settled(pal', frame'.paints[n], Sent("paint")'[n])
    <3>1. CASE n \in DOMAIN frame.paints
      <4>1. frame'.paints[n] = frame.paints[n] /\ Sent("paint")'[n] = Sent("paint")[n]
        BY <1>4, <1>7, <2>1, <3>1
      <4> QED  BY <1>6, <3>1, <4>1 DEF PaintsKept, Carries
    <3>2. CASE n \notin DOMAIN frame.paints
      <4>1. n = Len(frame.paints) + 1
        BY <1>7, <2>1, <3>2
      <4> QED  BY <1>4, <1>6, <1>7, <2>1, <4>1
    <3> QED  BY <3>1, <3>2
  <2>3. Len(frame'.paints) = Len(Sent("paint")')
    BY <1>4, <1>7, <2>1
  <2> QED  BY <2>2, <2>3 DEF PaintsKept
<1>10. VersionKept' /\ OpsKept' /\ SetKept'
  BY <1>1, <1>4, <1>5, <1>6, <1>7, VersionStays, OpsStay, SetStays DEF Kinds
<1> QED  BY <1>1, <1>4, <1>5, <1>6, <1>7, <1>8, <1>9, <1>10, MemberKeeps DEF Document, StoreTypes

-----------------------------------------------------------------------------
(* Ops and their texts. *)

\* The arena is only appended to.
Extends(arena, z) == Len(arena) <= Len(z) /\ \A i \in 1 .. Len(arena) : z[i] = arena[i]

LEMMA TextStays ==
    ASSUME NEW arena \in Seq(Nat), NEW z \in Seq(Nat), Extends(arena, z), NEW t \in Seq(Nat),
           NEW where \in Nat, NEW cut \in BOOLEAN, NEW cut2 \in BOOLEAN, cut => cut2, TextKept(arena, where, t, cut)
    PROVE  TextKept(z, where, t, cut2)
<1>1. where \in 1 .. Len(arena) /\ where + arena[where] <= Len(arena) /\ arena[where] \in Nat /\ z[where] = arena[where]
  BY DEF TextKept, Extends
<1>2. \A i \in 1 .. arena[where] : z[where + i] = arena[where + i]
  BY <1>1 DEF Extends
<1>3. where \in 1 .. Len(z) /\ where + z[where] <= Len(z)
  BY <1>1 DEF Extends
<1> QED  BY <1>1, <1>2, <1>3 DEF TextKept

\* A text is staged whole, or cut where the arena ends.
LEMMA StagedText ==
    ASSUME NEW arena \in Seq(Nat), NEW t \in Seq(Nat), Len(arena) < ARENA_CAP,
           NEW cut \in BOOLEAN, Len(Staged(arena, t)) <= Len(arena) + Len(t) => cut
    PROVE  /\ Staged(arena, t) \in Seq(Nat) /\ Extends(arena, Staged(arena, t))
           /\ TextKept(Staged(arena, t), Len(arena) + 1, t, cut)
<1> DEFINE room == ARENA_CAP - Len(arena) - 1
           n == IF Len(t) < room THEN Len(t) ELSE room
           kept == SubSeq(t, 1, n)
           z == Staged(arena, t)
<1>1. room \in Nat /\ n \in Nat /\ n <= Len(t) /\ Len(arena) \in Nat /\ Len(t) \in Nat
  BY LimitsAssumption
<1> HIDE DEF n
<1>2. kept \in Seq(Nat) /\ Len(kept) = n /\ \A i \in 1 .. n : kept[i] = t[i]
  BY <1>1
<1>3. z = Append(arena, Len(kept)) \o kept
  BY DEF Staged, n
<1> HIDE DEF kept, z
<1> DEFINE head == Append(arena, Len(kept))
<1>4. /\ head \in Seq(Nat) /\ Len(head) = Len(arena) + 1 /\ head[Len(arena) + 1] = n
      /\ \A i \in 1 .. Len(arena) : head[i] = arena[i]
  BY <1>1, <1>2
<1> HIDE DEF head
<1>5. /\ z \in Seq(Nat) /\ Len(z) = Len(arena) + 1 + n
      /\ \A i \in 1 .. Len(arena) + 1 : z[i] = head[i]
      /\ \A i \in 1 .. n : z[Len(arena) + 1 + i] = kept[i]
  <2>1. /\ z = head \o kept /\ head \o kept \in Seq(Nat) /\ Len(head \o kept) = Len(head) + Len(kept)
        /\ \A i \in 1 .. Len(head) + Len(kept) :
             (head \o kept)[i] = IF i <= Len(head) THEN head[i] ELSE kept[i - Len(head)]
    BY <1>2, <1>3, <1>4, ConcatProperties DEF head
  <2>2. \A i \in 1 .. Len(arena) + 1 : z[i] = head[i]
    BY <1>1, <1>2, <1>4, <2>1
  <2>3. ASSUME NEW i \in 1 .. n PROVE z[Len(arena) + 1 + i] = kept[i]
    <3> DEFINE j == Len(arena) + 1 + i
    <3>1. j \in 1 .. Len(head) + Len(kept) /\ ~(j <= Len(head)) /\ j - Len(head) = i
      BY <1>1, <1>2, <1>4
    <3> HIDE DEF j
    <3>2. z[j] = kept[i]
      BY <2>1, <3>1
    <3> QED  BY <3>2 DEF j
  <2> QED  BY <1>1, <1>2, <1>4, <2>1, <2>2, <2>3
<1>6. Extends(arena, z)
  BY <1>1, <1>4, <1>5 DEF Extends
<1>7. z[Len(arena) + 1] = n
  BY <1>1, <1>4, <1>5
<1>8. n < Len(t) => cut
  BY <1>1, <1>5 DEF z
<1>9. TextKept(z, Len(arena) + 1, t, cut)
  <2>1. Len(arena) + 1 \in 1 .. Len(z) /\ Len(arena) + 1 + n <= Len(z)
    BY <1>1, <1>5
  <2>2. \A i \in 1 .. n : z[Len(arena) + 1 + i] = t[i]
    BY <1>2, <1>5
  <2> QED  BY <1>1, <1>7, <1>8, <2>1, <2>2 DEF TextKept
<1> QED  BY <1>5, <1>6, <1>9 DEF z

\* Every op is taken or counted: ops taken, dropped, whole and broken.
LEMMA OpCounts ==
    ASSUME Len(frame.ops) \in Nat, frame.droppedOps \in Nat, Len(Sent("op")) \in Nat, Len(Sent("broken")) \in Nat,
           Len(frame'.ops) \in Nat, frame'.droppedOps \in Nat, Len(Sent("op")') \in Nat, Len(Sent("broken")') \in Nat,
           Len(frame.ops) + frame.droppedOps = Len(Sent("op")) + Len(Sent("broken")),
           Len(frame.ops) <= Len(Sent("op")),
           \/ /\ Len(frame'.ops) = Len(frame.ops) + 1 /\ frame'.droppedOps = frame.droppedOps
              /\ Len(Sent("op")') = Len(Sent("op")) + 1 /\ Len(Sent("broken")') = Len(Sent("broken"))
           \/ /\ Len(frame'.ops) = Len(frame.ops) /\ frame'.droppedOps = frame.droppedOps + 1
              /\ Len(Sent("op")') = Len(Sent("op")) + 1 /\ Len(Sent("broken")') = Len(Sent("broken"))
           \/ /\ Len(frame'.ops) = Len(frame.ops) /\ frame'.droppedOps = frame.droppedOps + 1
              /\ Len(Sent("op")') = Len(Sent("op")) /\ Len(Sent("broken")') = Len(Sent("broken")) + 1
    PROVE  /\ Len(frame'.ops) + frame'.droppedOps = Len(Sent("op")') + Len(Sent("broken")')
           /\ Len(frame'.ops) <= Len(Sent("op")')
<1> DEFINE o == Len(frame.ops)
           d == frame.droppedOps
           w == Len(Sent("op"))
           b == Len(Sent("broken"))
           o2 == Len(frame'.ops)
           d2 == frame'.droppedOps
           w2 == Len(Sent("op")')
           b2 == Len(Sent("broken")')
<1>1. /\ o \in Nat /\ d \in Nat /\ w \in Nat /\ b \in Nat /\ o + d = w + b /\ o <= w
      /\ o2 \in Nat /\ d2 \in Nat /\ w2 \in Nat /\ b2 \in Nat
      /\ \/ o2 = o + 1 /\ d2 = d /\ w2 = w + 1 /\ b2 = b
         \/ o2 = o /\ d2 = d + 1 /\ w2 = w + 1 /\ b2 = b
         \/ o2 = o /\ d2 = d + 1 /\ w2 = w /\ b2 = b + 1
  OBVIOUS
<1> HIDE DEF o, d, w, b, o2, d2, w2, b2
<1>2. o2 + d2 = w2 + b2 /\ o2 <= w2
  BY <1>1
<1> QED  BY <1>2 DEF o, d, w, b, o2, d2, w2, b2

\* What holds of an op goes on holding of it.
LEMMA OpStays ==
    ASSUME NEW op \in OpRecords, NEW it \in OpMembers, OpKept(pal, frame, op, it), Carries(pal, pal'),
           frame.arena \in Seq(Nat), frame'.arena \in Seq(Nat), Extends(frame.arena, frame'.arena),
           frame.truncated \in BOOLEAN, frame'.truncated \in BOOLEAN, frame.truncated => frame'.truncated
    PROVE  OpKept(pal', frame', op, it)
<1>1. op.k = it.k /\ (op.k = "use" => op.def = it.def /\ op.paint = it.paint)
  BY DEF OpKept
<1>2. ASSUME op.k = "op"
      PROVE  /\ Settled(pal', op.cidx, it.colour)
             /\ it.text = NoText <=> op.str = 0
             /\ op.str # 0 => TextKept(frame'.arena, op.str, it.text, frame'.truncated)
  <2>1. it.text \in Seq(Nat) /\ op.str \in Nat
    BY <1>1, <1>2 DEF OpRecords, OpMembers
  <2>2. Settled(pal, op.cidx, it.colour) /\ (it.text = NoText <=> op.str = 0)
    BY <1>2 DEF OpKept
  <2>3. op.str # 0 => TextKept(frame.arena, op.str, it.text, frame.truncated)
    BY <1>2 DEF OpKept
  <2> QED  BY <2>1, <2>2, <2>3, TextStays DEF Carries
<1> QED  BY <1>1, <1>2 DEF OpKept

\* An op that was taken ...
LEMMA OpAdded ==
    ASSUME OpsKept, FrameTypes, SentTypes, NEW op \in OpRecords, NEW it \in OpMembers, Carries(pal, pal'),
           frame'.ops = Append(frame.ops, op), frame'.droppedOps = frame.droppedOps,
           frame'.arena \in Seq(Nat), Extends(frame.arena, frame'.arena),
           frame'.truncated \in BOOLEAN, frame.truncated => frame'.truncated,
           Sent("op")' = Append(Sent("op"), it), Sent("broken")' = Sent("broken"), OpKept(pal', frame', op, it)
    PROVE  OpsKept'
<1>1. /\ frame.ops \in Seq(OpRecords) /\ frame.arena \in Seq(Nat) /\ frame.truncated \in BOOLEAN
      /\ frame.droppedOps \in Nat /\ Sent("op") \in Seq(OpMembers) /\ Sent("broken") \in Seq(OpMembers)
  BY SentSeqs DEF FrameTypes
<1> DEFINE a == Len(frame.ops)
           b == Len(Sent("op"))
<1>2. /\ a \in Nat /\ b \in Nat /\ Len(Sent("broken")) \in Nat
      /\ Len(frame'.ops) = a + 1 /\ Len(Sent("op")') = b + 1
      /\ DOMAIN frame.ops = 1 .. a /\ DOMAIN frame'.ops = 1 .. a + 1
      /\ \A i \in 1 .. a : frame'.ops[i] = frame.ops[i]
      /\ frame'.ops[a + 1] = op
      /\ \A i \in 1 .. b : Sent("op")'[i] = Sent("op")[i]
      /\ Sent("op")'[b + 1] = it
  BY <1>1
<1>3. a + frame.droppedOps = b + Len(Sent("broken")) /\ a <= b
  BY DEF OpsKept
<1>4. \A i \in DOMAIN frame'.ops : frame'.ops[i].k = "op" => frame'.ops[i].cidx \in DOMAIN pal'.rgb
  <2>1. op.k = "op" => op.cidx \in DOMAIN pal'.rgb
    BY DEF OpKept, Settled
  <2>2. \A i \in 1 .. a : frame.ops[i].k = "op" => frame.ops[i].cidx \in DOMAIN pal'.rgb
    BY <1>2 DEF OpsKept, Carries
  <2>3. \A i \in DOMAIN frame'.ops : i \in 1 .. a \/ i = a + 1
    BY <1>2
  <2> QED  BY <1>2, <2>1, <2>2, <2>3
<1>5. ASSUME a + 1 = b + 1, NEW i \in DOMAIN frame'.ops
      PROVE  OpKept(pal', frame', frame'.ops[i], Sent("op")'[i])
  <2>1. CASE i = a + 1
    <3>1. frame'.ops[i] = op /\ Sent("op")'[i] = it
      BY <1>2, <1>5, <2>1
    <3> QED  BY <3>1 DEF OpKept
  <2>2. CASE i \in 1 .. a
    <3>1. OpKept(pal, frame, frame.ops[i], Sent("op")[i]) /\ frame.ops[i] \in OpRecords /\ Sent("op")[i] \in OpMembers
      BY <1>1, <1>2, <1>5, <2>2 DEF OpsKept
    <3>2. OpKept(pal, frame, frame.ops[i], Sent("op")[i]) => frame'.ops[i] = frame.ops[i] /\ Sent("op")'[i] = Sent("op")[i]
      BY <1>2, <1>5, <2>2
    <3> DEFINE o == frame.ops[i]
               m == Sent("op")[i]
    <3>3. \A x \in OpRecords, w \in OpMembers : OpKept(pal, frame, x, w) => OpKept(pal', frame', x, w)
      BY <1>1, OpStays
    <3> QED  BY <3>1, <3>2, <3>3 DEF OpKept
  <2> QED  BY <1>2, <2>1, <2>2
<1>6. Len(frame'.ops) = Len(Sent("op")') => \A i \in DOMAIN frame'.ops : OpKept(pal', frame', frame'.ops[i], Sent("op")'[i])
  BY <1>2, <1>5
<1>7. /\ Len(frame'.ops) + frame'.droppedOps = Len(Sent("op")') + Len(Sent("broken")')
      /\ Len(frame'.ops) <= Len(Sent("op")')
  <2>1. /\ Len(Sent("broken")') = Len(Sent("broken")) /\ a + 1 \in Nat /\ b + 1 \in Nat
        /\ frame'.droppedOps \in Nat
    BY <1>1, <1>2
  <2> QED  BY <1>1, <1>2, <1>3, <2>1, OpCounts, Zenon
<1> HIDE DEF a, b
<1> QED  BY <1>4, <1>6, <1>7 DEF OpsKept

\* ... and one that was dropped, for itself or for want of room.
LEMMA OpDropped ==
    ASSUME OpsKept, FrameTypes, SentTypes, Carries(pal, pal'), NEW it \in OpMembers, NEW kind \in {"op", "broken"},
           frame'.ops = frame.ops, frame'.droppedOps = frame.droppedOps + 1, frame'.arena = frame.arena,
           frame'.truncated \in BOOLEAN, frame.truncated => frame'.truncated,
           Sent(kind)' = Append(Sent(kind), it), \A k \in Kinds : k # kind => Sent(k)' = Sent(k)
    PROVE  OpsKept'
<1>1. /\ frame.ops \in Seq(OpRecords) /\ frame.arena \in Seq(Nat) /\ frame.truncated \in BOOLEAN
      /\ frame.droppedOps \in Nat /\ Sent("op") \in Seq(OpMembers) /\ Sent("broken") \in Seq(OpMembers)
  BY SentSeqs DEF FrameTypes
<1>2. Len(frame.ops) \in Nat /\ Len(Sent("op")) \in Nat /\ Len(Sent("broken")) \in Nat /\ Extends(frame.arena, frame.arena)
  BY <1>1 DEF Extends
<1>3. \A i \in DOMAIN frame.ops : frame.ops[i].k = "op" => frame.ops[i].cidx \in DOMAIN pal'.rgb
  BY DEF OpsKept, Carries
<1>6. Len(frame.ops) + frame.droppedOps = Len(Sent("op")) + Len(Sent("broken")) /\ Len(frame.ops) <= Len(Sent("op"))
  BY DEF OpsKept
<1>7. frame'.droppedOps \in Nat /\ Len(Sent("op")) + 1 \in Nat /\ Len(Sent("broken")) + 1 \in Nat
  BY <1>1, <1>2
<1>4. CASE kind = "op"
  <2>1. Len(Sent("op")') = Len(Sent("op")) + 1 /\ Sent("broken")' = Sent("broken")
    BY <1>1, <1>4 DEF Kinds
  <2>2. Len(frame'.ops) + frame'.droppedOps = Len(Sent("op")') + Len(Sent("broken")')
    BY <1>1, <1>2, <1>6, <1>7, <2>1, OpCounts, Zenon
  <2>3. Len(frame'.ops) <= Len(Sent("op")')
    BY <1>1, <1>2, <1>6, <1>7, <2>1, OpCounts, Zenon
  <2>4. Len(frame'.ops) # Len(Sent("op")')
    BY <1>2, <1>6, <2>1
  <2> QED  BY <1>3, <2>2, <2>3, <2>4 DEF OpsKept
<1>5. CASE kind = "broken"
  <2>1. Len(Sent("broken")') = Len(Sent("broken")) + 1 /\ Sent("op")' = Sent("op")
    BY <1>1, <1>5 DEF Kinds
  <2>2. \A x \in OpRecords, w \in OpMembers : OpKept(pal, frame, x, w) => OpKept(pal', frame', x, w)
    BY <1>1, <1>2, OpStays
  <2>3. ASSUME Len(frame.ops) = Len(Sent("op")), NEW i \in DOMAIN frame.ops
        PROVE  OpKept(pal', frame', frame.ops[i], Sent("op")[i])
    <3>1. OpKept(pal, frame, frame.ops[i], Sent("op")[i]) /\ frame.ops[i] \in OpRecords /\ Sent("op")[i] \in OpMembers
      BY <1>1, <2>3 DEF OpsKept
    <3> QED  BY <2>1, <2>2, <3>1 DEF OpKept
  <2>4. Len(frame.ops) = Len(Sent("op")) => \A i \in DOMAIN frame'.ops : OpKept(pal', frame', frame.ops[i], Sent("op")[i])
    BY <2>3
  <2>5. Len(frame'.ops) + frame'.droppedOps = Len(Sent("op")') + Len(Sent("broken")')
    BY <1>1, <1>2, <1>6, <1>7, <2>1, OpCounts, Zenon
  <2> QED  BY <1>2, <1>3, <2>1, <2>4, <2>5 DEF OpsKept
<1> QED  BY <1>4, <1>5

LEMMA TakeOpKeeps ==
    ASSUME IInv, NEW e \in Ops, TakeOp(e.colour, e.text, e.ok)
    PROVE  IInv'
<1> DEFINE c == e.colour
           t == e.text
           arena == frame.arena
           texted == t # NoText
           noRoom == texted /\ Len(arena) >= ARENA_CAP
           staged == IF texted /\ ~noRoom THEN Staged(arena, t) ELSE arena
           parsed == e.ok /\ ~noRoom
           full == Len(frame.ops) >= KIOSK_MAX_OPS
           op == [k |-> "op", cidx |-> Nearest(pal', c), str |-> IF texted THEN Len(arena) + 1 ELSE 0]
           tooLong == texted /\ ~noRoom /\ Len(staged) <= Len(arena) + Len(t)
           cut == [frame EXCEPT !.truncated = @ \/ tooLong]
           kind == IF e.ok THEN "op" ELSE "broken"
           it == Op(c, t)
<1>0. c \in Nat /\ t \in Seq(Nat) /\ e.ok \in BOOLEAN
  BY ColoursAssumption
<1>1. /\ Take(kind, it)
      /\ pal' = IF parsed THEN palette_add(pal, c) ELSE pal
      /\ dec' = [dec EXCEPT !.overflow = @ \/ (parsed /\ full)]
      /\ frame' = IF parsed /\ ~full
                  THEN [cut EXCEPT !.ops = Append(@, op), !.arena = staged]
                  ELSE [cut EXCEPT !.arena = RolledBack(arena), !.droppedOps = @ + 1]
      /\ store' = store
  BY Zenon DEF TakeOp
<1>2. dec.doing = "decode" /\ UNCHANGED <<shown, lines, kiosk, docs>>
  BY <1>1 DEF Take
<1> USE <1>2, InDecode
<1>3. kind \in {"op", "broken"} /\ kind \in Kinds /\ it \in OpMembers /\ it \in MemberOf(kind)
  <2>1. it \in OpMembers
    BY <1>0 DEF Op, OpMembers
  <2> QED  BY <2>1 DEF MemberOf, Kinds
<1>4. /\ SentTypes' /\ sent'.n # 0 /\ sent'.last = kind /\ Sent(kind)' = Append(Sent(kind), it)
      /\ \A k \in Kinds : k # kind => Sent(k)' = Sent(k)
  BY <1>1, <1>3, Taken
<1>5. /\ dec' \in DecRecords /\ dec'.doing = "decode" /\ dec'.version = dec.version
      /\ dec'.begun = dec.begun /\ dec'.stored = dec.stored /\ dec'.sbUsed = dec.sbUsed
  BY <1>1 DEF DecRecords
<1>6. /\ arena \in Seq(Nat) /\ Len(arena) \in Nat /\ frame.ops \in Seq(OpRecords) /\ frame.truncated \in BOOLEAN
      /\ frame.droppedOps \in Nat
  BY DEF FrameTypes
<1>7. /\ PaletteOK(pal') /\ Grows(pal, pal') /\ Carries(pal, pal')
      /\ parsed => Settled(pal', Nearest(pal', c), c) /\ Nearest(pal', c) \in Nat
  <2>1. CASE parsed
    BY <1>0, <1>1, <2>1, NewColour
  <2>2. CASE ~parsed
    BY <1>1, <2>2, SamePalette
  <2> QED  BY <2>1, <2>2
<1>8. /\ cut \in [ops : Seq(OpRecords), arena : Seq(Nat), paints : Seq(Nat), bg : Nat,
                  sid : Ids \cup {NoId}, droppedOps : Nat, droppedDefs : Nat, truncated : BOOLEAN]
      /\ cut.ops = frame.ops /\ cut.arena = arena /\ cut.paints = frame.paints /\ cut.bg = frame.bg
      /\ cut.sid = frame.sid /\ cut.droppedOps = frame.droppedOps /\ cut.droppedDefs = frame.droppedDefs
      /\ cut.truncated \in BOOLEAN /\ (frame.truncated => cut.truncated) /\ (tooLong => cut.truncated)
  <2>1. (frame.truncated \/ tooLong) \in BOOLEAN
    OBVIOUS
  <2> HIDE DEF tooLong
  <2>2. cut.truncated = (frame.truncated \/ tooLong)
    BY DEF FrameTypes
  <2> QED  BY <2>1, <2>2 DEF FrameTypes
<1>9. /\ staged \in Seq(Nat) /\ Extends(arena, staged)
      /\ texted /\ ~noRoom => TextKept(staged, Len(arena) + 1, t, cut.truncated)
  <2>1. CASE texted /\ ~noRoom
    <3>1. Len(arena) < ARENA_CAP /\ staged = Staged(arena, t)
      BY <1>6, <2>1, LimitsAssumption
    <3>2. Len(Staged(arena, t)) <= Len(arena) + Len(t) => cut.truncated
      BY <1>8, <2>1, <3>1
    <3> HIDE DEF cut
    <3> QED  BY <1>0, <1>6, <1>8, <2>1, <3>1, <3>2, StagedText
  <2>2. CASE ~(texted /\ ~noRoom)
    <3>1. staged = arena /\ Extends(arena, arena)
      BY <1>6, <2>2 DEF Extends
    <3> QED  BY <1>6, <2>2, <3>1
  <2> QED  BY <2>1, <2>2
<1> HIDE DEF cut, staged, tooLong
<1>10. CASE parsed /\ ~full
  <2>1. frame' = [cut EXCEPT !.ops = Append(@, op), !.arena = staged]
    BY <1>1, <1>10
  <2>2. op \in OpRecords /\ kind = "op"
    BY <1>6, <1>7, <1>10 DEF OpRecords
  <2> HIDE DEF op
  <2>3. /\ FrameTypes' /\ frame'.ops = Append(frame.ops, op) /\ frame'.arena = staged
        /\ frame'.truncated = cut.truncated /\ frame'.droppedOps = frame.droppedOps
        /\ frame'.paints = frame.paints /\ frame'.bg = frame.bg
        /\ frame'.sid = frame.sid /\ frame'.droppedDefs = frame.droppedDefs
    <3>1. Append(frame.ops, op) \in Seq(OpRecords)
      BY <1>6, <2>2
    <3> QED  BY <1>8, <1>9, <2>1, <3>1 DEF FrameTypes
  <2>4. OpKept(pal', frame', op, it)
    <3>1. /\ op.k = "op" /\ it.k = "op" /\ it.colour = c /\ it.text = t
          /\ op.cidx = Nearest(pal', c) /\ op.str = IF texted THEN Len(arena) + 1 ELSE 0
      BY DEF Op, op
    <3>2. Settled(pal', op.cidx, it.colour)
      BY <1>7, <1>10, <3>1
    <3>3. it.text = NoText <=> op.str = 0
      BY <1>6, <3>1
    <3>4. op.str # 0 => TextKept(frame'.arena, op.str, it.text, frame'.truncated)
      BY <1>9, <1>10, <2>3, <3>1
    <3> QED  BY <3>1, <3>2, <3>3, <3>4 DEF OpKept
  <2>5. Sent("op")' = Append(Sent("op"), it) /\ Sent("broken")' = Sent("broken")
    BY <1>4, <2>2 DEF Kinds
  <2> HIDE DEF it, kind
  <2>6. OpsKept'
    BY <1>3, <1>7, <1>8, <1>9, <2>2, <2>3, <2>4, <2>5, OpAdded
  <2>7. VersionKept' /\ BgKept' /\ PaintsKept' /\ SetKept'
    BY <1>1, <1>3, <1>4, <1>5, <1>7, <2>3, VersionStays, BgStays, PaintsStay, SetStays DEF Kinds
  <2> QED  BY <1>1, <1>4, <1>5, <1>7, <2>3, <2>6, <2>7, MemberKeeps DEF Document, StoreTypes
<1>11. CASE ~(parsed /\ ~full)
  <2>1. frame' = [cut EXCEPT !.arena = RolledBack(arena), !.droppedOps = @ + 1]
    BY <1>1, <1>11
  <2>2. /\ FrameTypes' /\ frame'.ops = frame.ops /\ frame'.arena = arena
        /\ frame'.truncated = cut.truncated /\ frame'.droppedOps = frame.droppedOps + 1
        /\ frame'.paints = frame.paints /\ frame'.bg = frame.bg
        /\ frame'.sid = frame.sid /\ frame'.droppedDefs = frame.droppedDefs
    <3>1. cut.droppedOps + 1 \in Nat /\ RolledBack(arena) = arena
      BY <1>6, <1>8 DEF RolledBack
    <3> DEFINE more == cut.droppedOps + 1
    <3> HIDE DEF more
    <3>2. frame' = [cut EXCEPT !.arena = arena, !.droppedOps = more]
      BY <2>1, <3>1 DEF more
    <3>3. more \in Nat /\ arena \in Seq(Nat) /\ more = frame.droppedOps + 1
      BY <1>6, <1>8, <3>1 DEF more
    <3> QED  BY <1>6, <1>8, <3>2, <3>3 DEF FrameTypes
  <2> HIDE DEF it, kind
  <2>3. OpsKept'
    BY <1>3, <1>4, <1>7, <1>8, <2>2, OpDropped
  <2>4. VersionKept' /\ BgKept' /\ PaintsKept' /\ SetKept'
    BY <1>1, <1>3, <1>4, <1>5, <1>7, <2>2, VersionStays, BgStays, PaintsStay, SetStays DEF Kinds
  <2> QED  BY <1>1, <1>4, <1>5, <1>7, <2>2, <2>3, <2>4, MemberKeeps DEF Document, StoreTypes
<1> QED  BY <1>10, <1>11

LEMMA TakeUseKeeps ==
    ASSUME IInv, NEW d \in Defs, TakeUse(d, 1)
    PROVE  IInv'
<1> DEFINE use == Use(d, 1)
<1>1. /\ Take("op", use) /\ UNCHANGED <<pal, store>>
      /\ \E full \in BOOLEAN :
           /\ dec' = [dec EXCEPT !.overflow = @ \/ full]
           /\ frame' = IF full THEN [frame EXCEPT !.droppedOps = @ + 1]
                       ELSE [frame EXCEPT !.ops = Append(@, [k |-> "use", def |-> d, paint |-> 1])]
  BY DEF TakeUse
<1>2. dec.doing = "decode" /\ UNCHANGED <<shown, lines, kiosk, docs>>
  BY <1>1 DEF Take
<1> USE <1>2, InDecode
<1>3. use \in OpMembers /\ use \in OpRecords /\ use \in MemberOf("op") /\ "op" \in Kinds
  BY DEF MemberOf, Kinds, Use, OpMembers, OpRecords
<1>4. /\ SentTypes' /\ sent'.n # 0 /\ sent'.last = "op" /\ Sent("op")' = Append(Sent("op"), use)
      /\ \A k \in Kinds : k # "op" => Sent(k)' = Sent(k)
  BY <1>1, <1>3, Taken
<1>5. /\ dec' \in DecRecords /\ dec'.doing = "decode" /\ dec'.version = dec.version
      /\ dec'.begun = dec.begun /\ dec'.stored = dec.stored /\ dec'.sbUsed = dec.sbUsed
  BY <1>1 DEF DecRecords
<1>6. PaletteOK(pal') /\ Grows(pal, pal') /\ Carries(pal, pal')
  BY <1>1, SamePalette
<1>7. /\ frame.arena \in Seq(Nat) /\ frame.ops \in Seq(OpRecords) /\ frame.truncated \in BOOLEAN /\ frame.droppedOps \in Nat
      /\ Extends(frame.arena, frame.arena)
  BY DEF FrameTypes, Extends
<1>8. /\ FrameTypes' /\ frame'.arena = frame.arena /\ frame'.truncated = frame.truncated
      /\ frame'.paints = frame.paints /\ frame'.bg = frame.bg
      /\ frame'.sid = frame.sid /\ frame'.droppedDefs = frame.droppedDefs
      /\ \/ frame'.ops = frame.ops /\ frame'.droppedOps = frame.droppedOps + 1
         \/ frame'.ops = Append(frame.ops, use) /\ frame'.droppedOps = frame.droppedOps
  <2>1. use = [k |-> "use", def |-> d, paint |-> 1] /\ Append(frame.ops, use) \in Seq(OpRecords)
    BY <1>3, <1>7 DEF Use
  <2> HIDE DEF use
  <2>2. CASE frame' = [frame EXCEPT !.droppedOps = @ + 1]
    BY <1>7, <2>2 DEF FrameTypes
  <2>3. CASE frame' = [frame EXCEPT !.ops = Append(@, use)]
    BY <1>7, <2>1, <2>3 DEF FrameTypes
  <2> QED  BY <1>1, <2>1, <2>2, <2>3
<1>9. OpKept(pal', frame', use, use)
  BY DEF OpKept, Use
<1>10. OpsKept'
  <2> HIDE DEF use
  <2>1. Sent("broken")' = Sent("broken")
    BY <1>4 DEF Kinds
  <2>2. CASE frame'.ops = frame.ops /\ frame'.droppedOps = frame.droppedOps + 1
    BY <1>3, <1>4, <1>6, <1>7, <1>8, <2>2, OpDropped
  <2>3. CASE frame'.ops = Append(frame.ops, use) /\ frame'.droppedOps = frame.droppedOps
    BY <1>3, <1>4, <1>6, <1>7, <1>8, <1>9, <2>1, <2>3, OpAdded
  <2> QED  BY <1>8, <2>2, <2>3
<1>11. VersionKept' /\ BgKept' /\ PaintsKept' /\ SetKept'
  BY <1>1, <1>4, <1>5, <1>6, <1>8, VersionStays, BgStays, PaintsStay, SetStays DEF Kinds
<1> QED  BY <1>1, <1>4, <1>5, <1>6, <1>8, <1>10, <1>11, MemberKeeps DEF Document, StoreTypes

-----------------------------------------------------------------------------
(* The static set. *)

LEMMA TakeIdKeeps ==
    ASSUME IInv, NEW i \in Ids, TakeId(i)
    PROVE  IInv'
<1>1. /\ Sent("id") = <<>> /\ Take("id", i) /\ frame' = [frame EXCEPT !.sid = i]
      /\ store' = (IF dec.stored THEN [store EXCEPT !.wrId = i] ELSE store)
      /\ UNCHANGED <<pal, dec>>
  BY DEF TakeId
<1>2. dec.doing = "decode" /\ UNCHANGED <<shown, lines, kiosk, docs>>
  BY <1>1 DEF Take
<1> USE <1>2, InDecode
<1>3. i \in MemberOf("id") /\ "id" \in Kinds /\ i # NoId
  BY NoIdAssumption DEF MemberOf, Kinds
<1>4. /\ SentTypes' /\ sent'.n # 0 /\ sent'.last = "id" /\ Sent("id")' = Append(Sent("id"), i)
      /\ \A k \in Kinds : k # "id" => Sent(k)' = Sent(k)
  BY <1>1, <1>3, Taken
<1>5. PaletteOK(pal') /\ Grows(pal, pal') /\ Carries(pal, pal')
  BY <1>1, SamePalette
<1>6. /\ FrameTypes' /\ frame'.sid = i /\ frame'.ops = frame.ops /\ frame'.arena = frame.arena
      /\ frame'.truncated = frame.truncated /\ frame'.paints = frame.paints /\ frame'.bg = frame.bg
      /\ frame'.droppedOps = frame.droppedOps /\ frame'.droppedDefs = frame.droppedDefs
  BY <1>1 DEF FrameTypes
<1>7. /\ StoreTypes' /\ store'.wrHas = store.wrHas
      /\ dec.stored => store'.wrId = i
  BY <1>1 DEF StoreTypes
<1>8. /\ Sent("def")' = Sent("def") /\ Sent("defs")' = Sent("defs")
      /\ WholeSent' = WholeSent /\ DefsSent' = DefsSent /\ Misfits' = Misfits
  BY <1>4 DEF Kinds, WholeSent, DefsSent, Misfits
<1>9. SetKept'
  <2>1. Sent("id")' = <<i>>
    <3>1. Sent("id")' = Append(<<>>, i)
      BY <1>1, <1>4
    <3>2. Append(<<>>, i) = <<i>>
      OBVIOUS
    <3> QED  BY <3>1, <3>2, Zenon
  <2> QED  BY <1>1, <1>3, <1>4, <1>6, <1>7, <1>8, <2>1 DEF SetKept
<1>10. VersionKept' /\ BgKept' /\ PaintsKept' /\ OpsKept'
  BY <1>1, <1>4, <1>5, <1>6, VersionStays, BgStays, PaintsStay, OpsStay DEF Kinds
<1> QED  BY <1>1, <1>4, <1>5, <1>6, <1>7, <1>9, <1>10, MemberKeeps DEF Document

LEMMA TakeDefsKeeps ==
    ASSUME IInv, TakeDefs
    PROVE  IInv'
<1>1. /\ Take("defs", TRUE) /\ UNCHANGED <<pal, frame>>
      /\ dec' = (IF dec.begun THEN dec ELSE [dec EXCEPT !.begun = TRUE, !.stored = ~store.writing])
      /\ store' = IF dec.begun \/ store.writing THEN store
                  ELSE [open |-> NoId, has |-> {}, writing |-> TRUE, wrId |-> frame.sid, wrHas |-> {}]
  BY DEF TakeDefs
<1>2. dec.doing = "decode" /\ UNCHANGED <<shown, lines, kiosk, docs>>
  BY <1>1 DEF Take
<1> USE <1>2, InDecode
<1>3. TRUE \in MemberOf("defs") /\ "defs" \in Kinds
  BY DEF MemberOf, Kinds
<1>4. /\ SentTypes' /\ sent'.n # 0 /\ sent'.last = "defs" /\ Sent("defs")' = Append(Sent("defs"), TRUE)
      /\ \A k \in Kinds : k # "defs" => Sent(k)' = Sent(k)
  BY <1>1, <1>3, Taken
<1>5. PaletteOK(pal') /\ Grows(pal, pal') /\ Carries(pal, pal')
  BY <1>1, SamePalette
<1>6. /\ dec' \in DecRecords /\ dec'.doing = "decode" /\ dec'.version = dec.version /\ dec'.sbUsed = dec.sbUsed
      /\ dec'.begun /\ (dec.begun => dec'.stored = dec.stored)
      /\ (~dec.begun => dec'.stored = ~store.writing)
  <2>1. store.writing \in BOOLEAN
    BY DEF StoreTypes
  <2>2. CASE dec.begun
    BY <1>1, <2>2
  <2>3. CASE ~dec.begun
    BY <1>1, <2>1, <2>3 DEF DecRecords
  <2> QED  BY <2>2, <2>3
<1>7. StoreTypes'
  <2>1. frame.sid \in Ids \cup {NoId}
    BY DEF FrameTypes
  <2>2. CASE dec.begun \/ store.writing
    BY <1>1, <2>2 DEF StoreTypes
  <2>3. CASE ~(dec.begun \/ store.writing)
    BY <1>1, <2>1, <2>3 DEF StoreTypes
  <2> QED  BY <2>2, <2>3
<1>8. /\ Sent("def")' = Sent("def") /\ Sent("id")' = Sent("id") /\ Sent("defs")' # <<>>
      /\ WholeSent' = WholeSent /\ DefsSent' = DefsSent /\ Misfits' = Misfits
  BY <1>4, SentSeqs DEF Kinds, WholeSent, DefsSent, Misfits
<1>9. SetKept'
  <2>1. ASSUME dec'.stored
        PROVE  /\ store'.wrId = frame.sid
               /\ WholeSent \subseteq store'.wrHas /\ store'.wrHas \subseteq DefsSent
               /\ frame.droppedDefs = Cardinality(Misfits)
    <3>1. CASE dec.begun
      BY <1>1, <1>6, <2>1, <3>1 DEF SetKept
    <3>2. CASE ~dec.begun
      <4>1. store'.wrId = frame.sid /\ store'.wrHas = {}
        BY <1>1, <1>6, <2>1, <3>2
      <4>2. Sent("def") = <<>> /\ frame.droppedDefs = 0
        BY <3>2 DEF SetKept
      <4>3. WholeSent = {} /\ DefsSent = {} /\ Misfits = {}
        BY <4>2 DEF WholeSent, DefsSent, Misfits
      <4> QED  BY <4>1, <4>2, <4>3, FS_EmptySet
    <3> QED  BY <3>1, <3>2
  <2> QED  BY <1>1, <1>4, <1>6, <1>8, <2>1 DEF SetKept
<1>10. VersionKept' /\ BgKept' /\ PaintsKept' /\ OpsKept'
  BY <1>1, <1>4, <1>5, <1>6, VersionStays, BgStays, PaintsStay, OpsStay DEF Kinds
<1> QED  BY <1>1, <1>4, <1>5, <1>6, <1>7, <1>9, <1>10, MemberKeeps DEF Document, FrameTypes

\* One more definition, whole or not.
LEMMA OneMoreDef ==
    ASSUME SentTypes, NEW d \in Defs, NEW fits \in BOOLEAN, Sent("def")' = Append(Sent("def"), [def |-> d, fits |-> fits])
    PROVE  /\ DefsSent' = DefsSent \cup {d}
           /\ WholeSent' = IF fits THEN WholeSent \cup {d} ELSE WholeSent
           /\ Cardinality(Misfits) \in Nat
           /\ Cardinality(Misfits)' = IF fits THEN Cardinality(Misfits) ELSE Cardinality(Misfits) + 1
<1> DEFINE old == Sent("def")
           n == Len(old)
           e == [def |-> d, fits |-> fits]
           new == Sent("def")'
<1>1. /\ old \in Seq([def : Defs, fits : BOOLEAN]) /\ e \in [def : Defs, fits : BOOLEAN]
      /\ e.def = d /\ e.fits = fits
  BY SentSeqs
<1>2. /\ n \in Nat /\ DOMAIN old = 1 .. n /\ DOMAIN new = 1 .. n + 1
      /\ \A k \in 1 .. n : new[k] = old[k]
      /\ new[n + 1] = e
  BY <1>1
<1>3. \A k \in 1 .. n + 1 : k \in 1 .. n \/ k = n + 1
  BY <1>2
<1>4. \A k \in 1 .. n : k \in 1 .. n + 1 /\ k # n + 1
  BY <1>2
<1>5. n + 1 \in 1 .. n + 1 /\ n + 1 \notin 1 .. n
  BY <1>2
<1> HIDE DEF e, n
<1>6. DefsSent' = DefsSent \cup {d}
  BY <1>1, <1>2, <1>3, <1>4, <1>5 DEF DefsSent
<1>7. WholeSent' = IF fits THEN WholeSent \cup {d} ELSE WholeSent
  <2>1. WholeSent' = {new[k].def : k \in {m \in 1 .. n + 1 : new[m].fits}}
    BY <1>2 DEF WholeSent
  <2>2. WholeSent = {old[k].def : k \in {m \in 1 .. n : old[m].fits}}
    BY <1>2 DEF WholeSent
  <2>3. CASE fits
    <3>1. {m \in 1 .. n + 1 : new[m].fits} = {m \in 1 .. n : old[m].fits} \cup {n + 1}
      BY <1>1, <1>2, <1>3, <1>4, <1>5, <2>3
    <3> QED  BY <1>1, <1>2, <1>4, <2>1, <2>2, <2>3, <3>1
  <2>4. CASE ~fits
    <3>1. {m \in 1 .. n + 1 : new[m].fits} = {m \in 1 .. n : old[m].fits}
      BY <1>1, <1>2, <1>3, <1>4, <1>5, <2>4
    <3> QED  BY <1>2, <2>1, <2>2, <2>4, <3>1
  <2> QED  BY <2>3, <2>4
<1>8. Misfits = {m \in 1 .. n : ~old[m].fits} /\ Misfits' = {m \in 1 .. n + 1 : ~new[m].fits}
  BY <1>2 DEF Misfits
<1>9. IsFiniteSet(Misfits) /\ Cardinality(Misfits) \in Nat
  <2>1. IsFiniteSet(1 .. n) /\ Misfits \subseteq 1 .. n
    BY <1>2, <1>8, FS_Interval
  <2> QED  BY <2>1, FS_Subset, FS_CardinalityType
<1>10. CASE fits
  <2>1. Misfits' = Misfits
    BY <1>1, <1>2, <1>3, <1>4, <1>8, <1>10
  <2> QED  BY <1>6, <1>7, <1>9, <1>10, <2>1
<1>11. CASE ~fits
  <2>1. Misfits' = Misfits \cup {n + 1} /\ n + 1 \notin Misfits
    BY <1>1, <1>2, <1>3, <1>4, <1>5, <1>8, <1>11
  <2>2. Cardinality(Misfits)' = Cardinality(Misfits) + 1
    BY <1>9, <2>1, FS_AddElement
  <2> QED  BY <1>6, <1>7, <1>9, <1>11, <2>2
<1> QED  BY <1>10, <1>11

LEMMA TakeDefKeeps ==
    ASSUME IInv, NEW d \in Defs, NEW fits \in BOOLEAN, TakeDef(d, fits)
    PROVE  IInv'
<1> DEFINE it == [def |-> d, fits |-> fits]
<1>1. /\ sent.last \in {"defs", "def"} /\ Take("def", it) /\ UNCHANGED <<pal, dec>>
      /\ IF ~dec.stored THEN UNCHANGED <<frame, store>>
         ELSE /\ frame' = IF fits THEN frame ELSE [frame EXCEPT !.droppedDefs = @ + 1]
              /\ \E kept \in IF fits THEN {{d}} ELSE {{}, {d}} :
                     store' = [store EXCEPT !.wrHas = @ \cup kept]
  BY DEF TakeDef
<1>2. dec.doing = "decode" /\ UNCHANGED <<shown, lines, kiosk, docs>>
  BY <1>1 DEF Take
<1> USE <1>2, InDecode
<1>3. it \in MemberOf("def") /\ "def" \in Kinds
  BY DEF MemberOf, Kinds
<1>4. /\ SentTypes' /\ sent'.n # 0 /\ sent'.last = "def" /\ Sent("def")' = Append(Sent("def"), it)
      /\ \A k \in Kinds : k # "def" => Sent(k)' = Sent(k)
  BY <1>1, <1>3, Taken
<1>5. PaletteOK(pal') /\ Grows(pal, pal') /\ Carries(pal, pal')
  BY <1>1, SamePalette
<1>6. /\ DefsSent' = DefsSent \cup {d}
      /\ WholeSent' = (IF fits THEN WholeSent \cup {d} ELSE WholeSent)
      /\ Cardinality(Misfits) \in Nat
      /\ Cardinality(Misfits)' = IF fits THEN Cardinality(Misfits) ELSE Cardinality(Misfits) + 1
  BY <1>4, OneMoreDef
<1>7. frame.droppedDefs \in Nat /\ dec.begun
  BY <1>1 DEF FrameTypes, SetKept
<1>8. /\ FrameTypes' /\ frame'.sid = frame.sid /\ frame'.ops = frame.ops /\ frame'.arena = frame.arena
      /\ frame'.truncated = frame.truncated /\ frame'.paints = frame.paints /\ frame'.bg = frame.bg
      /\ frame'.droppedOps = frame.droppedOps
      /\ dec.stored => frame'.droppedDefs = IF fits THEN frame.droppedDefs ELSE frame.droppedDefs + 1
  <2>1. CASE frame' = frame
    <3>1. dec.stored /\ ~fits => FALSE
      <4> SUFFICES ASSUME dec.stored, ~fits PROVE FALSE
        OBVIOUS
      <4>1. frame' = [frame EXCEPT !.droppedDefs = @ + 1]
        BY <1>1
      <4>2. frame'.droppedDefs = frame.droppedDefs + 1
        BY <4>1 DEF FrameTypes
      <4> QED  BY <1>7, <2>1, <4>2
    <3> QED  BY <2>1, <3>1 DEF FrameTypes
  <2>2. CASE ~fits /\ frame' = [frame EXCEPT !.droppedDefs = @ + 1]
    <3> DEFINE more == frame.droppedDefs + 1
    <3>1. more \in Nat
      BY <1>7
    <3>2. frame' = [frame EXCEPT !.droppedDefs = more]
      BY <2>2
    <3> HIDE DEF more
    <3>3. /\ FrameTypes' /\ frame'.sid = frame.sid /\ frame'.ops = frame.ops /\ frame'.arena = frame.arena
          /\ frame'.truncated = frame.truncated /\ frame'.paints = frame.paints /\ frame'.bg = frame.bg
          /\ frame'.droppedOps = frame.droppedOps /\ frame'.droppedDefs = more
      BY <3>1, <3>2 DEF FrameTypes
    <3> QED  BY <2>2, <3>3 DEF more
  <2> QED  BY <1>1, <2>1, <2>2
<1>9. /\ StoreTypes' /\ store'.wrId = store.wrId
      /\ dec.stored => \E kept \in IF fits THEN {{d}} ELSE {{}, {d}} : store'.wrHas = store.wrHas \cup kept
  <2>1. CASE ~dec.stored
    BY <1>1, <2>1 DEF StoreTypes
  <2>2. CASE dec.stored
    <3>1. PICK kept \in IF fits THEN {{d}} ELSE {{}, {d}} : store' = [store EXCEPT !.wrHas = @ \cup kept]
      BY <1>1, <2>2
    <3>2. kept \subseteq Defs
      OBVIOUS
    <3>3. StoreTypes' /\ store'.wrId = store.wrId /\ store'.wrHas = store.wrHas \cup kept
      BY <3>1, <3>2 DEF StoreTypes
    <3> QED  BY <3>3
  <2> QED  BY <2>1, <2>2
<1>10. /\ Sent("id")' = Sent("id") /\ Sent("defs")' = Sent("defs")
  BY <1>4 DEF Kinds
<1>11. SetKept'
  <2>1. ASSUME dec.stored
        PROVE  /\ store'.wrId = frame'.sid
               /\ WholeSent' \subseteq store'.wrHas /\ store'.wrHas \subseteq DefsSent'
               /\ frame'.droppedDefs = Cardinality(Misfits)'
    <3>1. /\ store.wrId = frame.sid /\ frame.droppedDefs = Cardinality(Misfits)
          /\ WholeSent \subseteq store.wrHas /\ store.wrHas \subseteq DefsSent
      BY <2>1 DEF SetKept
    <3>2. PICK kept \in IF fits THEN {{d}} ELSE {{}, {d}} : store'.wrHas = store.wrHas \cup kept
      BY <1>9, <2>1
    <3>3. WholeSent' \subseteq store'.wrHas /\ store'.wrHas \subseteq DefsSent'
      BY <1>6, <3>1, <3>2
    <3>4. frame'.droppedDefs = Cardinality(Misfits)'
      BY <1>6, <1>8, <2>1, <3>1
    <3> QED  BY <1>8, <1>9, <3>1, <3>3, <3>4
  <2> HIDE DEF it
  <2>2. dec'.begun /\ (dec'.begun <=> Sent("defs")' # <<>>)
    BY <1>1, <1>7, <1>10 DEF SetKept
  <2>3. Sent("id")' = IF frame'.sid = NoId THEN <<>> ELSE <<frame'.sid>>
    BY <1>8, <1>10 DEF SetKept
  <2>4. dec'.stored = dec.stored
    BY <1>1
  <2> QED  BY <2>1, <2>2, <2>3, <2>4 DEF SetKept
<1>12. VersionKept' /\ BgKept' /\ PaintsKept' /\ OpsKept'
  BY <1>1, <1>4, <1>5, <1>8, VersionStays, BgStays, PaintsStay, OpsStay DEF Kinds
<1> QED  BY <1>1, <1>4, <1>5, <1>8, <1>9, <1>11, <1>12, MemberKeeps DEF Document

-----------------------------------------------------------------------------
(* The other steps. *)

LEMMA EmptyFrameTyped ==
    ASSUME NEW bg \in Nat, frame' = EmptyFrame(bg)
    PROVE  FrameTypes'
<1>1. <<>> \in Seq(OpRecords) /\ <<>> \in Seq(Nat)
  OBVIOUS
<1> QED  BY <1>1 DEF EmptyFrame, FrameTypes

LEMMA DecoderInitKeeps ==
    ASSUME IInv, DecoderInit
    PROVE  IInv'
<1> DEFINE p == IF Len(pal.rgb) > PALETTE_RESET_THRESHOLD THEN palette_reset(pal) ELSE pal
<1>1. /\ dec.doing = "idle" /\ docs' = docs + 1 /\ pal' = palette_add(p, AppBg)
      /\ frame' = EmptyFrame(Nearest(pal', AppBg)) /\ dec' = [NoDocument EXCEPT !.doing = "decode"]
      /\ sent' = NothingSent /\ kiosk' = [kiosk EXCEPT !.valid = FALSE] /\ UNCHANGED <<shown, lines, store>>
  BY DEF DecoderInit
<1>2. /\ PaletteOK(pal) /\ Screen /\ DecTypes /\ StoreTypes
  BY DEF IInv
<1>3. PaletteOK(p) /\ (~p.reset => p = pal)
  <2>1. CASE Len(pal.rgb) > PALETTE_RESET_THRESHOLD
    <3>1. p = EmptyPalette
      BY <2>1 DEF palette_reset
    <3>2. EmptyPalette \in Palettes
      BY DEF EmptyPalette, Palettes
    <3>3. Remembers(EmptyPalette)
      BY DEF EmptyPalette, Remembers
    <3>4. Len(EmptyPalette.rgb) = 0 /\ EmptyPalette.dirty = 0 /\ EmptyPalette.reset = TRUE
      BY DEF EmptyPalette
    <3> QED  BY <3>1, <3>2, <3>3, <3>4, PaletteAssumption DEF PaletteOK
  <2>2. CASE ~(Len(pal.rgb) > PALETTE_RESET_THRESHOLD)
    BY <1>2, <2>2
  <2> QED  BY <2>1, <2>2
<1> HIDE DEF p
<1>4. AppBg \in Nat
  BY ColoursAssumption
<1> DEFINE bg == Nearest(pal', AppBg)
<1>5. PaletteOK(pal') /\ Grows(p, pal') /\ Settled(pal', bg, AppBg)
  BY <1>1, <1>3, <1>4, Added
<1>6. bg \in DOMAIN pal'.rgb /\ bg \in Nat
  BY <1>5, IndexNat DEF Settled, PaletteOK, Palettes
<1> HIDE DEF bg
<1>7. ~pal'.reset => Grows(pal, pal')
  BY <1>3, <1>5 DEF Grows
<1>8. /\ dec'.doing = "decode" /\ dec'.version = "none" /\ ~dec'.sbUsed /\ ~dec'.begun /\ ~dec'.stored
      /\ DecTypes' /\ kiosk'.valid = FALSE
  <2>1. docs + 1 \in Nat
    BY <1>2 DEF DecTypes
  <2> HIDE DEF bg
  <2> QED  BY <1>1, <1>2, <2>1 DEF NoDocument, DecTypes
<1>9. Screen'
  BY <1>1, <1>2, <1>5, <1>7, <1>8, ScreenStays
<1>10. SentTypes' /\ sent'.n = 0 /\ sent'.last = "none" /\ \A k \in Kinds : Sent(k)' = <<>>
  BY <1>1, NothingTyped
<1>11. frame' = EmptyFrame(bg)
  BY <1>1 DEF bg
<1>12. FrameTypes'
  BY <1>6, <1>11, EmptyFrameTyped
<1>13. /\ frame'.ops = <<>> /\ frame'.paints = <<>> /\ frame'.bg = bg /\ frame'.sid = NoId
       /\ frame'.droppedOps = 0 /\ frame'.droppedDefs = 0
  BY <1>11 DEF EmptyFrame
<1>14. VersionKept'
  BY <1>8, <1>10 DEF VersionKept, Kinds
<1>15. BgKept'
  BY <1>5, <1>6, <1>8, <1>10, <1>13 DEF BgKept, Kinds, bg
<1>16. PaintsKept' /\ OpsKept'
  BY <1>10, <1>13 DEF PaintsKept, OpsKept, Kinds
<1>17. SetKept'
  BY <1>8, <1>10, <1>13 DEF SetKept, Kinds
<1>18. StoreTypes' /\ Phases' /\ SetAccepted'
  BY <1>1, <1>2, <1>8 DEF StoreTypes, Phases, SetAccepted
<1> QED  BY <1>5, <1>8, <1>9, <1>10, <1>12, <1>14, <1>15, <1>16, <1>17, <1>18 DEF IInv, Document

\* A document that is given up, or rejected, leaves the palette, the screen and an older set behind.
LEMMA Forgotten ==
    ASSUME IInv, dec.doing = "decode", Forget, UNCHANGED <<pal, shown, lines, kiosk, docs>>, StoreTypes'
    PROVE  IInv'
<1> USE InDecode
<1>1. dec' = NoDocument /\ frame' = EmptyFrame(1) /\ sent' = NothingSent
  BY DEF Forget
<1>2. dec'.doing = "idle" /\ DecTypes' /\ ~kiosk'.valid
  BY <1>1 DEF NoDocument, DecTypes, Phases
<1>3. PaletteOK(pal') /\ Grows(pal, pal')
  BY SamePalette
<1>4. Screen'
  BY <1>2, <1>3, ScreenStays
<1>5. FrameTypes' /\ SentTypes'
  BY <1>1, EmptyFrameTyped, NothingTyped
<1>6. Phases' /\ SetAccepted' /\ ~InUse'
  BY <1>2 DEF Phases, SetAccepted, InUse
<1> QED  BY <1>2, <1>3, <1>4, <1>5, <1>6 DEF IInv

LEMMA GiveUpKeeps ==
    ASSUME IInv, GiveUp
    PROVE  IInv'
<1>1. dec.doing = "decode" /\ Forget /\ UNCHANGED <<pal, shown, lines, store, kiosk, docs>>
  BY DEF GiveUp
<1>2. StoreTypes'
  BY <1>1 DEF IInv, StoreTypes
<1> QED  BY <1>1, <1>2, Forgotten

\* What frame_decoder_finish returns: a good status only for a whole document with its set open.
LEMMA FinishedOK ==
    ASSUME SetKept, StoreTypes, dec.doing = "decode", NEW broken \in BOOLEAN
    PROVE  LET end == Finished(broken)
           IN  /\ end.store \in [open : Ids \cup {NoId}, has : SUBSET Defs, writing : BOOLEAN,
                                 wrId : Ids \cup {NoId}, wrHas : SUBSET Defs]
               /\ end.status = "ok" =>
                    /\ dec.version = "good" /\ (frame.sid = NoId \/ end.store.open = frame.sid)
                    /\ dec.begun => /\ dec.stored /\ store.wrId # NoId
                                    /\ end.store.open = store.wrId /\ end.store.has = store.wrHas
<1> DEFINE aborted == IF dec.stored THEN [store EXCEPT !.writing = FALSE, !.wrId = NoId, !.wrHas = {}] ELSE store
           committed == [aborted EXCEPT !.open = store.wrId, !.has = store.wrHas]
           stored == IF dec.begun THEN committed ELSE store
           end == Finished(broken)
           Stores == [open : Ids \cup {NoId}, has : SUBSET Defs, writing : BOOLEAN,
                      wrId : Ids \cup {NoId}, wrHas : SUBSET Defs]
<1>1. store \in Stores
  BY DEF StoreTypes
<1>2. aborted \in Stores
  <2>1. [store EXCEPT !.writing = FALSE, !.wrId = NoId, !.wrHas = {}] \in Stores
    BY <1>1
  <2> QED  BY <1>1, <2>1
<1>3. committed \in Stores /\ committed.open = store.wrId /\ committed.has = store.wrHas
  <2> HIDE DEF aborted
  <2> QED  BY <1>1, <1>2
<1>4. stored \in Stores
  <2> HIDE DEF committed
  <2> QED  BY <1>1, <1>3
<1> DEFINE late == dec.version = "good" /\ dec.begun /\ (~dec.stored \/ store.wrId = NoId)
           okStatus == IF ~StaticReady(stored, frame.sid) THEN "missing"
                       ELSE IF dec.overflow THEN "too many" ELSE "ok"
<1>5. end = CASE broken -> [status |-> "json", store |-> aborted]
            [] ~broken /\ dec.version # "good" -> [status |-> "version", store |-> aborted]
            [] ~broken /\ late -> [status |-> "store", store |-> aborted]
            [] OTHER -> [status |-> okStatus, store |-> stored]
  BY DEF Finished
<1> HIDE DEF aborted, stored, okStatus, late, Stores, end
<1>6. CASE broken
  BY <1>2, <1>5, <1>6 DEF end, Stores
<1>7. CASE ~broken /\ dec.version # "good"
  BY <1>2, <1>5, <1>7 DEF end, Stores
<1>8. CASE ~broken /\ dec.version = "good" /\ late
  <2>1. end = [status |-> "store", store |-> aborted]
    BY <1>5, <1>8
  <2> QED  BY <1>2, <2>1 DEF end, Stores
<1>9. CASE ~broken /\ dec.version = "good" /\ ~late
  <2>1. end = [status |-> okStatus, store |-> stored]
    BY <1>5, <1>9
  <2>2. okStatus = "ok" => StaticReady(stored, frame.sid)
    BY DEF okStatus
  <2>3. dec.begun => dec.stored /\ store.wrId # NoId /\ stored = committed
    BY <1>9 DEF late, stored
  <2>4. end.store = stored /\ end.status = okStatus
    BY <2>1
  <2> QED  BY <1>3, <1>4, <1>9, <2>2, <2>3, <2>4 DEF StaticReady, end, Stores
<1> QED  BY <1>6, <1>7, <1>8, <1>9

LEMMA FinishKeeps ==
    ASSUME IInv, NEW broken \in BOOLEAN, Finish(broken)
    PROVE  IInv'
<1> DEFINE end == Finished(broken)
<1>1. /\ dec.doing = "decode" /\ store' = end.store /\ UNCHANGED <<pal, shown, lines, docs>>
      /\ IF end.status = "ok"
         THEN /\ dec' = [dec EXCEPT !.doing = "idle"] /\ kiosk' = [kiosk EXCEPT !.valid = TRUE]
              /\ UNCHANGED <<frame, sent>>
         ELSE Forget /\ UNCHANGED kiosk
  BY DEF Finish
<1> USE InDecode, <1>1
<1>2. /\ end.store \in [open : Ids \cup {NoId}, has : SUBSET Defs, writing : BOOLEAN,
                        wrId : Ids \cup {NoId}, wrHas : SUBSET Defs]
      /\ end.status = "ok" =>
           /\ dec.version = "good" /\ (frame.sid = NoId \/ end.store.open = frame.sid)
           /\ dec.begun => /\ dec.stored /\ store.wrId # NoId
                           /\ end.store.open = store.wrId /\ end.store.has = store.wrHas
  BY FinishedOK
<1> HIDE DEF end
<1>3. StoreTypes'
  BY <1>2 DEF StoreTypes
<1>4. CASE end.status # "ok"
  BY <1>3, <1>4, Forgotten
<1>5. CASE end.status = "ok"
  <2>1. /\ dec' = [dec EXCEPT !.doing = "idle"] /\ kiosk' = [kiosk EXCEPT !.valid = TRUE]
        /\ UNCHANGED <<frame, sent>>
    BY <1>5
  <2>2. /\ dec'.doing = "idle" /\ dec'.version = dec.version /\ dec'.sbUsed = dec.sbUsed
        /\ dec'.begun = dec.begun /\ dec'.stored = dec.stored /\ DecTypes'
    BY <2>1 DEF DecTypes
  <2>3. PaletteOK(pal') /\ Grows(pal, pal') /\ Carries(pal, pal')
    BY SamePalette
  <2>4. Screen'
    BY <2>2, <2>3, ScreenStays
  <2>5. \A k : Sent(k)' = Sent(k)
    BY <2>1 DEF Sent
  <2>6. VersionKept' /\ BgKept' /\ PaintsKept' /\ OpsKept'
    <3>1. VersionKept'
      BY <2>1, <2>2, <2>5 DEF VersionKept
    <3> QED  BY <2>1, <2>2, <2>3, <2>5, <3>1, BgStays, PaintsStay, OpsStay
  <2>7. SetKept'
    BY <2>1, <2>2, <2>5 DEF SetKept
  <2>8. StaticAsSent'
    <3>1. Sent("id") # <<>> => frame.sid # NoId /\ Sent("id") = <<frame.sid>>
      BY DEF SetKept
    <3>2. Sent("id") # <<>> => store'.open = Sent("id")[1]
      BY <1>2, <1>5, <3>1
    <3>3. ASSUME Sent("defs") # <<>>
          PROVE  /\ store'.open # NoId /\ WholeSent \subseteq store'.has /\ store'.has \subseteq DefsSent
                 /\ frame.droppedDefs = Cardinality(Misfits)
      <4>1. dec.begun
        BY <3>3 DEF SetKept
      <4> QED  BY <1>2, <1>5, <4>1 DEF SetKept
    <3> QED  BY <2>1, <2>5, <3>2, <3>3 DEF StaticAsSent, WholeSent, DefsSent, Misfits
  <2>9. SetAccepted' /\ Phases'
    BY <1>2, <1>5, <2>2, <2>8 DEF SetAccepted, Phases
  <2>10. FrameTypes' /\ SentTypes'
    BY <2>1 DEF FrameTypes, SentTypes
  <2> QED  BY <1>3, <2>2, <2>3, <2>4, <2>6, <2>7, <2>9, <2>10 DEF IInv, Document
<1> QED  BY <1>4, <1>5

\* A render draws what it was given: the frame, its document and its set are as they were.
LEMMA Redrawn ==
    ASSUME IInv, kiosk.valid, PaletteOK(pal'), Carries(pal, pal'), Screen', DecTypes',
           UNCHANGED <<frame, store, sent, docs>>, kiosk'.valid = kiosk.valid, dec'.doing # "decode",
           dec'.version = dec.version, dec'.sbUsed = dec.sbUsed, dec'.begun = dec.begun, dec'.stored = dec.stored
    PROVE  IInv'
<1>1. /\ FrameTypes /\ SentTypes /\ StoreTypes /\ SetAccepted
      /\ VersionKept /\ BgKept /\ PaintsKept /\ OpsKept /\ SetKept
  BY DEF IInv, InUse, Document
<1>2. \A k : Sent(k)' = Sent(k)
  BY DEF Sent
<1>3. VersionKept' /\ SetKept'
  BY <1>1, <1>2, SetStays DEF VersionKept
<1>4. BgKept' /\ PaintsKept' /\ OpsKept'
  BY <1>1, <1>2, BgStays, PaintsStay, OpsStay
<1>5. FrameTypes' /\ SentTypes' /\ StoreTypes' /\ Phases'
  BY <1>1 DEF FrameTypes, SentTypes, StoreTypes, Phases
<1>6. SetAccepted'
  BY <1>1, <1>2 DEF SetAccepted, StaticAsSent
<1> QED  BY <1>3, <1>4, <1>5, <1>6 DEF IInv, Document

LEMMA RenderBeginKeeps ==
    ASSUME IInv, NEW badge \in BOOLEAN, RenderBegin(badge)
    PROVE  IInv'
<1>1. PaletteOK(pal') /\ Carries(pal, pal') /\ Screen'
  BY RenderBeginScreen DEF IInv
<1>2. /\ kiosk.valid /\ UNCHANGED <<frame, store, sent, docs>> /\ dec' = [dec EXCEPT !.doing = "render"]
      /\ kiosk' = [kiosk EXCEPT !.badge = badge, !.line = 1]
  BY DEF RenderBegin
<1>3. /\ kiosk'.valid = kiosk.valid /\ dec'.doing = "render" /\ DecTypes'
      /\ dec'.version = dec.version /\ dec'.sbUsed = dec.sbUsed /\ dec'.begun = dec.begun /\ dec'.stored = dec.stored
  BY <1>2 DEF IInv, DecTypes
<1> QED  BY <1>1, <1>2, <1>3, Redrawn

LEMMA RenderLineKeeps ==
    ASSUME IInv, RenderLine
    PROVE  IInv'
<1>1. /\ dec.doing = "render" /\ UNCHANGED <<frame, store, sent, docs>>
      /\ dec' = [dec EXCEPT !.doing = IF kiosk.line = LastLine THEN "idle" ELSE "render"]
      /\ kiosk' = [kiosk EXCEPT !.line = IF kiosk.line = LastLine THEN 1 ELSE kiosk.line + 1]
  BY DEF RenderLine
<1>2. kiosk.valid /\ BgKept /\ PaintsKept /\ OpsKept
  BY <1>1 DEF IInv, Phases, InUse, Document
<1>3. PaletteOK(pal') /\ Carries(pal, pal') /\ Screen'
  BY <1>2, RenderLineScreen DEF IInv
<1> DEFINE next == IF kiosk.line = LastLine THEN 1 ELSE kiosk.line + 1
           then == IF kiosk.line = LastLine THEN "idle" ELSE "render"
<1>4. next \in Nat /\ then \in {"idle", "render"}
  BY DEF IInv, DecTypes
<1>5. dec' = [dec EXCEPT !.doing = then] /\ kiosk' = [kiosk EXCEPT !.line = next]
  BY <1>1
<1> HIDE DEF next, then
<1>6. /\ kiosk'.valid = kiosk.valid /\ dec'.doing = then /\ DecTypes'
      /\ dec'.version = dec.version /\ dec'.sbUsed = dec.sbUsed /\ dec'.begun = dec.begun /\ dec'.stored = dec.stored
  BY <1>1, <1>4, <1>5 DEF IInv, DecTypes
<1>7. dec'.doing # "decode"
  BY <1>4, <1>6
<1> QED  BY <1>1, <1>2, <1>3, <1>6, <1>7, Redrawn

LEMMA StutterKeeps ==
    ASSUME IInv, UNCHANGED vars
    PROVE  IInv'
<1>1. /\ PaletteOK(pal') /\ ScreenTypes' /\ InTable' /\ OfTable' /\ OneTable' /\ LinesKeepColours'
  BY DEF vars, IInv, Screen, ScreenTypes, InTable, OfTable, OneTable, NamesTable, LinesKeepColours
<1>2. \A k : Sent(k)' = Sent(k)
  BY DEF vars, Sent
<1>3. /\ FrameTypes' /\ SentTypes' /\ DecTypes' /\ StoreTypes' /\ Phases'
  BY DEF vars, IInv, FrameTypes, SentTypes, DecTypes, StoreTypes, Phases
<1>4. SetAccepted'
  BY <1>2 DEF vars, IInv, SetAccepted, StaticAsSent
<1>5. ASSUME InUse' PROVE Document'
  <2>1. VersionKept /\ BgKept /\ PaintsKept /\ OpsKept /\ SetKept /\ Carries(pal, pal') /\ UNCHANGED vars
    BY <1>5, SamePalette DEF IInv, InUse, Document, vars
  <2>2. VersionKept' /\ SetKept'
    BY <1>2, <2>1, SetStays DEF VersionKept, vars
  <2> QED  BY <1>2, <2>1, <2>2, BgStays, PaintsStay, OpsStay DEF Document, vars
<1> QED  BY <1>1, <1>3, <1>4, <1>5 DEF IInv, Screen

LEMMA InitKept == Init => IInv
<1> SUFFICES ASSUME Init PROVE IInv
  OBVIOUS
<1>1. PaletteOK(pal)
  <2>1. pal = [rgb |-> <<>>, dirty |-> 0, cache |-> <<>>, reset |-> FALSE]
    BY DEF Init, EmptyPalette
  <2>2. pal \in Palettes
    BY <2>1 DEF Palettes
  <2> QED  BY <2>1, <2>2, PaletteAssumption DEF PaletteOK, Remembers
<1>2. Screen
  <2>1. /\ shown.table = 0 /\ pal.dirty = 0 /\ dec.doing = "idle" /\ \A y \in Lines : lines[y].px = {}
    BY DEF Init, EmptyPalette, NoDocument, Nothing
  <2>2. ScreenTypes
    <3>1. [i \in Indices |-> 0] \in [Indices -> Nat]
      OBVIOUS
    <3>2. Nothing \in [table : {0, 1}, px : SUBSET (Indices \X Nat)]
      BY DEF Nothing
    <3> QED  BY <3>1, <3>2 DEF Init, ScreenTypes
  <2>3. InTable /\ OfTable /\ OneTable /\ LinesKeepColours
    BY <2>1 DEF InTable, OfTable, OneTable, NamesTable, LinesKeepColours
  <2> QED  BY <2>2, <2>3 DEF Screen
<1>3. FrameTypes
  <2>1. <<>> \in Seq(OpRecords) /\ <<>> \in Seq(Nat)
    OBVIOUS
  <2> QED  BY <2>1 DEF Init, EmptyFrame, FrameTypes
<1>4. SentTypes
  <2>1. \A k \in Kinds : <<>> \in Seq(MemberOf(k))
    OBVIOUS
  <2> QED  BY <2>1 DEF Init, NothingSent, SentTypes
<1>5. DecTypes /\ StoreTypes /\ Phases /\ ~InUse /\ SetAccepted
  BY DEF Init, NoDocument, DecTypes, StoreTypes, Phases, InUse, SetAccepted
<1> QED  BY <1>1, <1>2, <1>3, <1>4, <1>5 DEF IInv

LEMMA NextKeeps == IInv /\ [Next]_vars => IInv'
<1> SUFFICES ASSUME IInv, [Next]_vars PROVE IInv'
  OBVIOUS
<1>1. CASE DecoderInit
  BY <1>1, DecoderInitKeeps
<1>2. CASE Member
  <2>1. ASSUME NEW it \in Ops, TakeOp(it.colour, it.text, it.ok) PROVE IInv'
    <3>1. it.colour \in Nat /\ it.text \in Seq(Nat) /\ it.ok \in BOOLEAN
      BY ColoursAssumption
    <3> QED  BY <2>1, <3>1, TakeOpKeeps
  <2> QED  BY <1>2, <2>1, TakeVersionKeeps, TakeBgKeeps, TakePaintKeeps, TakeUseKeeps, TakeIdKeeps,
              TakeDefsKeeps, TakeDefKeeps DEF Member
<1>3. CASE \E broken \in BOOLEAN : Finish(broken)
  BY <1>3, FinishKeeps
<1>4. CASE GiveUp
  BY <1>4, GiveUpKeeps
<1>5. CASE \E badge \in BOOLEAN : RenderBegin(badge)
  BY <1>5, RenderBeginKeeps
<1>6. CASE RenderLine
  BY <1>6, RenderLineKeeps
<1>7. CASE UNCHANGED vars
  BY <1>7, StutterKeeps
<1> QED  BY <1>1, <1>2, <1>3, <1>4, <1>5, <1>6, <1>7 DEF Next

-----------------------------------------------------------------------------
(* What it says of an accepted frame. *)

LEMMA CutOut ==
    ASSUME NEW s \in Seq(Nat), NEW a \in Nat \ {0}, NEW b \in Nat, NEW n \in Nat, b = a + n - 1, b <= Len(s)
    PROVE  /\ SubSeq(s, a, b) \in Seq(Nat) /\ Len(SubSeq(s, a, b)) = n
           /\ \A i \in 1 .. n : SubSeq(s, a, b)[i] = s[a + i - 1]
<1>1. Len(s) \in Nat /\ \A i \in 1 .. Len(s) : s[i] \in Nat
  OBVIOUS
<1>2. \A i \in a .. b : s[i] \in Nat
  BY <1>1
<1>3. /\ SubSeq(s, a, b) \in Seq(Nat) /\ Len(SubSeq(s, a, b)) = IF a <= b THEN b - a + 1 ELSE 0
      /\ \A i \in 1 .. b - a + 1 : SubSeq(s, a, b)[i] = s[a + i - 1]
  BY <1>2, SubSeqProperties
<1>4. b - a + 1 = n /\ (IF a <= b THEN b - a + 1 ELSE 0) = n
  OBVIOUS
<1> QED  BY <1>3, <1>4

\* The text a renderer reads is the one sent, or as much of it as was kept.
LEMMA TextRead ==
    ASSUME NEW arena \in Seq(Nat), NEW t \in Seq(Nat), NEW where \in Nat, NEW cut \in BOOLEAN, TextKept(arena, where, t, cut)
    PROVE  Prefix(TextAt(arena, where), t) /\ (TextAt(arena, where) # t => cut)
<1> DEFINE n == arena[where]
           kept == TextAt(arena, where)
<1>1. /\ where \in 1 .. Len(arena) /\ n \in Nat /\ where + n <= Len(arena) /\ n <= Len(t)
      /\ \A i \in 1 .. n : arena[where + i] = t[i]
      /\ n < Len(t) => cut
  BY DEF TextKept
<1> HIDE DEF n
<1>2. kept = SubSeq(arena, where + 1, where + n)
  <2>1. where + arena[where] <= Len(arena) /\ where <= Len(arena)
    BY <1>1 DEF n
  <2>2. ~(where > Len(arena) \/ where + arena[where] > Len(arena))
    BY <1>1, <2>1 DEF n
  <2> QED  BY <2>2, Zenon DEF TextAt, n
<1>3. kept \in Seq(Nat) /\ Len(kept) = n /\ \A i \in 1 .. n : kept[i] = t[i]
  <2>1. where + 1 \in Nat \ {0} /\ where + n \in Nat /\ where + n = where + 1 + n - 1
    BY <1>1
  <2>2. /\ SubSeq(arena, where + 1, where + n) \in Seq(Nat) /\ Len(SubSeq(arena, where + 1, where + n)) = n
        /\ \A i \in 1 .. n : SubSeq(arena, where + 1, where + n)[i] = arena[where + 1 + i - 1]
    BY <1>1, <2>1, CutOut
  <2>3. \A i \in 1 .. n : where + 1 + i - 1 = where + i
    BY <1>1
  <2> QED  BY <1>1, <1>2, <2>2, <2>3
<1> HIDE DEF kept
<1>4. kept = SubSeq(t, 1, n)
  <2>1. SubSeq(t, 1, n) \in Seq(Nat) /\ Len(SubSeq(t, 1, n)) = n /\ \A i \in 1 .. n : SubSeq(t, 1, n)[i] = t[i]
    <3>1. 1 \in Nat \ {0} /\ n = 1 + n - 1 /\ \A i \in 1 .. n : 1 + i - 1 = i
      BY <1>1
    <3>2. /\ SubSeq(t, 1, n) \in Seq(Nat) /\ Len(SubSeq(t, 1, n)) = n
          /\ \A i \in 1 .. n : SubSeq(t, 1, n)[i] = t[1 + i - 1]
      BY <1>1, <3>1, CutOut
    <3> QED  BY <3>1, <3>2
  <2> QED  BY <1>3, <2>1, SeqEqual
<1>5. n = Len(t) => kept = t
  BY <1>1, <1>3, SeqEqual
<1>6. n < Len(t) \/ n = Len(t)
  BY <1>1
<1> QED  BY <1>1, <1>3, <1>4, <1>5, <1>6 DEF Prefix, kept

LEMMA OpShown ==
    ASSUME PaletteOK(pal), FrameTypes, NEW op \in OpRecords, NEW it \in OpMembers, OpKept(pal, frame, op, it)
    PROVE  OpAsSent(op, it)
<1>1. pal \in Palettes /\ frame.arena \in Seq(Nat) /\ frame.truncated \in BOOLEAN
  BY DEF PaletteOK, FrameTypes
<1>2. CASE op.k = "op"
  <2>1. /\ it.k = "op" /\ Settled(pal, op.cidx, it.colour) /\ (it.text = NoText <=> op.str = 0)
        /\ op.str # 0 => TextKept(frame.arena, op.str, it.text, frame.truncated)
    BY <1>2 DEF OpKept
  <2>2. op.str \in Nat /\ it.colour \in Nat /\ it.text \in Seq(Nat)
    BY <1>2, <2>1 DEF OpRecords, OpMembers
  <2>3. Stands(op.cidx, it.colour)
    BY <1>1, <2>1, <2>2, SettledMeant DEF Stands
  <2>4. op.str # 0 => /\ Prefix(TextAt(frame.arena, op.str), it.text)
                      /\ TextAt(frame.arena, op.str) # it.text => frame.truncated
    BY <1>1, <2>1, <2>2, TextRead
  <2> QED  BY <1>2, <2>1, <2>3, <2>4 DEF OpAsSent
<1>3. CASE op.k # "op"
  BY <1>3 DEF OpKept, OpAsSent
<1> QED  BY <1>2, <1>3

LEMMA DocumentShown ==
    ASSUME IInv
    PROVE  AcceptedAsSent
<1> SUFFICES ASSUME kiosk.valid
             PROVE  Sent("version") = <<TRUE>> /\ OpsAsSent /\ BgAsSent /\ PaintsAsSent /\ StaticAsSent
  BY DEF AcceptedAsSent
<1>1. /\ PaletteOK(pal) /\ pal \in Palettes /\ FrameTypes /\ SentTypes
      /\ VersionKept /\ BgKept /\ PaintsKept /\ OpsKept
      /\ dec.version = "good" /\ StaticAsSent
  BY DEF IInv, InUse, Document, SetAccepted, PaletteOK
<1>2. Sent("version") = <<TRUE>>
  BY <1>1 DEF VersionKept
<1>3. OpsAsSent
  <2>1. /\ Len(frame.ops) + frame.droppedOps = Len(Sent("op")) + Len(Sent("broken"))
        /\ frame.ops \in Seq(OpRecords) /\ frame.droppedOps \in Nat
        /\ Sent("op") \in Seq(OpMembers) /\ Len(Sent("op")) \in Nat /\ Len(Sent("broken")) \in Nat
    BY <1>1, SentSeqs DEF OpsKept, FrameTypes
  <2>2. ASSUME frame.droppedOps = Len(Sent("broken")), NEW i \in DOMAIN frame.ops
        PROVE  OpAsSent(frame.ops[i], Sent("op")[i])
    <3>1. Len(frame.ops) \in Nat /\ Len(frame.ops) = Len(Sent("op"))
      BY <2>1, <2>2
    <3>2. frame.ops[i] \in OpRecords /\ Sent("op")[i] \in OpMembers
      BY <2>1, <3>1
    <3>3. OpKept(pal, frame, frame.ops[i], Sent("op")[i])
      BY <1>1, <3>1 DEF OpsKept
    <3> QED  BY <1>1, <3>2, <3>3, OpShown
  <2> QED  BY <2>1, <2>2 DEF OpsAsSent
<1>4. BgAsSent
  <2> DEFINE c == IF Sent("bg") = <<>> THEN AppBg ELSE Sent("bg")[Len(Sent("bg"))].colour
  <2>1. c \in Nat
    <3>1. CASE Sent("bg") = <<>>
      BY <3>1, ColoursAssumption
    <3>2. CASE Sent("bg") # <<>>
      <4>1. Sent("bg") \in Seq([colour : Nat, paints : Nat])
        BY <1>1, SentSeqs
      <4>2. Sent("bg")[Len(Sent("bg"))] \in [colour : Nat, paints : Nat]
        <5> DEFINE bgs == Sent("bg")
        <5>1. bgs \in Seq([colour : Nat, paints : Nat]) /\ bgs # <<>>
          BY <3>2, <4>1
        <5> HIDE DEF bgs, c
        <5>2. Len(bgs) \in 1 .. Len(bgs)
          BY <5>1
        <5>3. bgs[Len(bgs)] \in [colour : Nat, paints : Nat]
          BY <5>1, <5>2, ElementOfSeq
        <5> QED  BY <5>3 DEF bgs
      <4> QED  BY <3>2, <4>2
    <3> QED  BY <3>1, <3>2
  <2>2. (\A n \in DOMAIN Sent("bg") : Sent("bg")[n].paints = 0) => Settled(pal, frame.bg, c)
    BY <1>1 DEF BgKept
  <2>3. BgAsSent <=> ((\A n \in DOMAIN Sent("bg") : Sent("bg")[n].paints = 0) => Stands(frame.bg, c))
    BY DEF BgAsSent
  <2> HIDE DEF c
  <2> QED  BY <1>1, <2>1, <2>2, <2>3, SettledMeant DEF Stands
<1>5. PaintsAsSent
  <2>1. ASSUME NEW n \in DOMAIN frame.paints
        PROVE  Stands(frame.paints[n], Sent("paint")[n])
    <3>1. frame.paints \in Seq(Nat) /\ Sent("paint") \in Seq(Nat) /\ Len(frame.paints) = Len(Sent("paint"))
      BY <1>1, SentSeqs DEF FrameTypes, PaintsKept
    <3>2. Settled(pal, frame.paints[n], Sent("paint")[n]) /\ Sent("paint")[n] \in Nat
      BY <1>1, <3>1 DEF PaintsKept
    <3> QED  BY <1>1, <3>2, SettledMeant DEF Stands
  <2> QED  BY <1>1, <2>1 DEF PaintsAsSent, PaintsKept
<1> QED  BY <1>1, <1>2, <1>3, <1>4, <1>5

-----------------------------------------------------------------------------
\* In every state the palette, the screen, the frame and the document so far are as IInv says.
THEOREM FrameInvariant == Spec => []IInv
BY InitKept, NextKeeps, PTL DEF Spec

\* A published line keeps its colours while it may be on screen, whatever the palette does since.
THEOREM ColoursKept == Spec => []LinesKeepColours
<1>1. IInv => LinesKeepColours
  BY DEF IInv, Screen
<1> QED  BY <1>1, FrameInvariant, PTL

\* A frame the kiosk may draw, or draw again, is the document that was accepted.
THEOREM AcceptedKept == Spec => []AcceptedAsSent
<1>1. IInv => AcceptedAsSent
  BY DocumentShown
<1> QED  BY <1>1, FrameInvariant, PTL
-----------------------------------------------------------------------------
(* The tokenizer.  What its parser is made of. *)

Marks == (UNION {k.symbols : k \in Corpora}) \union {"FFFD", "pair", "uC"} \union {"B" \o s : s \in {"Q", "B", "n"}}
Slots == [kind : {"obj", "arr"}, index : Nat, key : Seq(Marks)]
Names == {"string", "key", "number", "literal", "obj_start", "arr_start", "obj_end", "arr_end"}
Events == [ev : Names, path : Seq(Slots), data : Seq(Marks), final : BOOLEAN]
Parsers == [st : States, stack : Seq(Slots), inKey : BOOLEAN, keybuf : Seq(Marks), num : Seq(Marks),
            sub : 0 .. 7, pending : BOOLEAN, told : Seq(Events)]

Within(p) ==
    /\ Len(p.stack) <= JSON_MAX_DEPTH /\ Len(p.keybuf) <= JSON_KEY_MAX
    /\ p.st = "number" => Len(p.num) <= JSON_NUM_MAX
    /\ p.st \in {"arr_first", "after"} => p.stack # <<>>
    /\ p.st \in {"obj_first", "obj_key", "colon"} \/ (p.inKey /\ p.st \in {"string", "escape", "uhex"}) =>
         p.stack # <<>> /\ Last(p.stack).kind = "obj"

Scans ==
    /\ run \in Nat /\ at \in Nat /\ run <= at /\ at <= Len(text)
    /\ run > 0 => js.st = "string" /\ ~js.pending

JInv == corpus \in Corpora /\ text \in Seq(Marks) /\ Scans /\ js \in Parsers /\ Within(js)

LEMMA FrontLast ==
    ASSUME NEW S, NEW s \in Seq(S), s # <<>>
    PROVE  /\ Front(s) \in Seq(S) /\ Len(Front(s)) = Len(s) - 1 /\ Last(s) \in S
<1>1. Len(s) \in Nat \ {0}
  BY EmptySeq
<1>2. Last(s) \in S
  BY <1>1 DEF Last
<1>3. Front(s) \in Seq(S) /\ Len(Front(s)) = Len(s) - 1
  <2> PICK n \in Nat : n = Len(s) - 1
    BY <1>1
  <2>1. \A i \in 1 .. n : s[i] \in S
    BY <1>1, ElementOfSeq
  <2>2. SubSeq(s, 1, n) \in Seq(S) /\ Len(SubSeq(s, 1, n)) = n
    BY <2>1, SubSeqProperties
  <2> QED  BY <2>2 DEF Front
<1> QED  BY <1>2, <1>3

LEMMA AppendIs ==
    ASSUME NEW S, NEW s \in Seq(S), NEW e \in S
    PROVE  Append(s, e) \in Seq(S) /\ Len(Append(s, e)) = Len(s) + 1
BY AppendProperties

LEMMA OneMore ==
    ASSUME NEW n \in Nat, NEW m \in Nat, ~(n >= m)
    PROVE  n + 1 <= m
OBVIOUS

LEMMA FrontLastAppend ==
    ASSUME NEW S, NEW s \in Seq(S), NEW e \in S
    PROVE  Append(s, e) # <<>> /\ Front(Append(s, e)) = s /\ Last(Append(s, e)) = e
<1>1. Len(Append(s, e)) = Len(s) + 1 /\ Append(s, e)[Len(s) + 1] = e /\ Append(s, e) \in Seq(S)
  OBVIOUS
<1>2. SubSeq(Append(s, e), 1, Len(s)) = s
  OBVIOUS
<1> QED  BY <1>1, <1>2 DEF Front, Last

LEMMA ConcatAssoc ==
    ASSUME NEW S, NEW a \in Seq(S), NEW b \in Seq(S), NEW c \in Seq(S)
    PROVE  (a \o b) \o c = a \o (b \o c) /\ a \o b \in Seq(S)
OBVIOUS

LEMMA TellIs ==
    ASSUME NEW told, NEW e \in Events
    PROVE  Tell(told, e) =
             IF told # <<>> /\ Last(told).ev = "string" /\ ~Last(told).final /\ e.ev = "string"
                /\ e.path = Last(told).path
             THEN Append(Front(told), [ev |-> e.ev, path |-> e.path, data |-> Last(told).data \o e.data,
                                       final |-> e.final])
             ELSE Append(told, e)
<1>1. e = [ev |-> e.ev, path |-> e.path, data |-> e.data, final |-> e.final]
  BY DEF Events
<1>2. ASSUME NEW x
      PROVE  [e EXCEPT !.data = x] = [ev |-> e.ev, path |-> e.path, data |-> x, final |-> e.final]
  BY <1>1
<1> QED  BY <1>2 DEF Tell

LEMMA TellType ==
    ASSUME NEW told \in Seq(Events), NEW e \in Events
    PROVE  Tell(told, e) \in Seq(Events)
<1> DEFINE joins == told # <<>> /\ Last(told).ev = "string" /\ ~Last(told).final /\ e.ev = "string"
                    /\ e.path = Last(told).path
<1>1. CASE joins
  <2>1. Front(told) \in Seq(Events) /\ Last(told) \in Events
    BY <1>1, FrontLast
  <2>2. Last(told).data \o e.data \in Seq(Marks)
    BY <2>1 DEF Events
  <2>3. [ev |-> e.ev, path |-> e.path, data |-> Last(told).data \o e.data, final |-> e.final] \in Events
    BY <2>2 DEF Events
  <2>4. Tell(told, e) = Append(Front(told), [ev |-> e.ev, path |-> e.path, data |-> Last(told).data \o e.data,
                                             final |-> e.final])
    BY <1>1, TellIs
  <2> QED  BY <2>1, <2>3, <2>4, AppendProperties
<1>2. CASE ~joins
  <2>1. Tell(told, e) = Append(told, e)
    BY <1>2, TellIs
  <2> QED  BY <2>1, AppendProperties
<1> QED  BY <1>1, <1>2

Piece(path, x, f) == [ev |-> "string", path |-> path, data |-> x, final |-> f]

LEMMA TellPiece ==
    ASSUME NEW told, NEW path \in Seq(Slots), NEW x \in Seq(Marks), NEW f \in BOOLEAN
    PROVE  /\ Piece(path, x, f) \in Events
           /\ Tell(told, Piece(path, x, f)) =
                IF told # <<>> /\ Last(told).ev = "string" /\ ~Last(told).final /\ path = Last(told).path
                THEN Append(Front(told), Piece(path, Last(told).data \o x, f))
                ELSE Append(told, Piece(path, x, f))
<1>1. Piece(path, x, f) \in Events
  BY DEF Piece, Events, Names
<1>2. /\ Piece(path, x, f).ev = "string" /\ Piece(path, x, f).path = path /\ Piece(path, x, f).data = x
      /\ Piece(path, x, f).final = f
  BY DEF Piece
<1> QED  BY <1>1, <1>2, TellIs DEF Piece

\* Two pieces of a string are told as their concatenation is.
LEMMA TellTwice ==
    ASSUME NEW told \in Seq(Events), NEW path \in Seq(Slots), NEW a \in Seq(Marks), NEW b \in Seq(Marks),
           NEW f \in BOOLEAN
    PROVE  Tell(Tell(told, Piece(path, a, FALSE)), Piece(path, b, f)) = Tell(told, Piece(path, a \o b, f))
<1>0. a \o b \in Seq(Marks)
  OBVIOUS
<1>1. ASSUME NEW l \in Seq(Marks) PROVE (l \o a) \o b = l \o (a \o b)
  BY ConcatAssoc
<1>2. ASSUME NEW s \in Seq(Events), NEW x \in Seq(Marks)
      PROVE  Tell(Append(s, Piece(path, x, FALSE)), Piece(path, b, f)) = Append(s, Piece(path, x \o b, f))
  <2> PICK t : t = Append(s, Piece(path, x, FALSE))
    OBVIOUS
  <2>1. t # <<>> /\ Front(t) = s /\ Last(t) = Piece(path, x, FALSE)
    BY TellPiece, FrontLastAppend
  <2>2. Last(t).ev = "string" /\ ~Last(t).final /\ Last(t).path = path /\ Last(t).data = x
    BY <2>1 DEF Piece
  <2>3. Tell(t, Piece(path, b, f)) = Append(Front(t), Piece(path, Last(t).data \o b, f))
    BY <2>1, <2>2, TellPiece
  <2> QED  BY <2>1, <2>2, <2>3
<1> DEFINE joins == told # <<>> /\ Last(told).ev = "string" /\ ~Last(told).final /\ path = Last(told).path
<1>3. CASE joins
  <2>1. Front(told) \in Seq(Events) /\ Last(told) \in Events
    BY <1>3, FrontLast
  <2> PICK l \in Seq(Marks) : l = Last(told).data
    BY <2>1 DEF Events
  <2>2. l \o a \in Seq(Marks)
    OBVIOUS
  <2>3. Tell(told, Piece(path, a, FALSE)) = Append(Front(told), Piece(path, l \o a, FALSE))
    BY <1>3, TellPiece
  <2>4. Tell(told, Piece(path, a \o b, f)) = Append(Front(told), Piece(path, l \o (a \o b), f))
    BY <1>0, <1>3, TellPiece
  <2>5. (l \o a) \o b = l \o (a \o b)
    BY <1>1
  <2>6. Tell(Append(Front(told), Piece(path, l \o a, FALSE)), Piece(path, b, f))
          = Append(Front(told), Piece(path, (l \o a) \o b, f))
    BY <1>2, <2>1, <2>2
  <2> QED  BY <2>3, <2>4, <2>5, <2>6
<1>4. CASE ~joins
  <2>1. Tell(told, Piece(path, a, FALSE)) = Append(told, Piece(path, a, FALSE))
    BY <1>4, TellPiece
  <2>2. Tell(told, Piece(path, a \o b, f)) = Append(told, Piece(path, a \o b, f))
    BY <1>0, <1>4, TellPiece
  <2> QED  BY <1>2, <2>1, <2>2
<1> QED  BY <1>3, <1>4

LEMMA CutIs ==
    ASSUME NEW s \in Seq(Marks)
    PROVE  /\ Cut(s) \in Seq(Marks) /\ Len(Cut(s)) = IF Len(s) < JSON_KEY_MAX THEN Len(s) ELSE JSON_KEY_MAX
           /\ \A i \in 1 .. Len(Cut(s)) : Cut(s)[i] = s[i]
           /\ Len(s) \in Nat /\ JSON_KEY_MAX \in Nat
BY JsonAssumption DEF Cut

\* A key that is cut while it comes in is the key cut when it is there.
LEMMA CutAgain ==
    ASSUME NEW s \in Seq(Marks), NEW b \in Seq(Marks)
    PROVE  Cut(Cut(s) \o b) = Cut(s \o b)
<1> PICK t \in Seq(Marks) : t = Cut(s)
  BY CutIs
<1>1. /\ Len(t) = IF Len(s) < JSON_KEY_MAX THEN Len(s) ELSE JSON_KEY_MAX
      /\ \A i \in 1 .. Len(t) : t[i] = s[i]
      /\ Len(s) \in Nat /\ JSON_KEY_MAX \in Nat /\ Len(b) \in Nat /\ Len(t) \in Nat
  BY CutIs
<1>2. /\ s \o b \in Seq(Marks) /\ Len(s \o b) = Len(s) + Len(b)
      /\ \A i \in 1 .. Len(s) + Len(b) : (s \o b)[i] = IF i <= Len(s) THEN s[i] ELSE b[i - Len(s)]
  BY ConcatProperties
<1>3. /\ t \o b \in Seq(Marks) /\ Len(t \o b) = Len(t) + Len(b)
      /\ \A i \in 1 .. Len(t) + Len(b) : (t \o b)[i] = IF i <= Len(t) THEN t[i] ELSE b[i - Len(t)]
  BY ConcatProperties
<1> PICK u \in Seq(Marks), v \in Seq(Marks) : u = s \o b /\ v = t \o b
  BY <1>2, <1>3
<1>4. /\ Cut(u) \in Seq(Marks) /\ Len(Cut(u)) = IF Len(u) < JSON_KEY_MAX THEN Len(u) ELSE JSON_KEY_MAX
      /\ \A i \in 1 .. Len(Cut(u)) : Cut(u)[i] = u[i]
  BY CutIs
<1>5. /\ Cut(v) \in Seq(Marks) /\ Len(Cut(v)) = IF Len(v) < JSON_KEY_MAX THEN Len(v) ELSE JSON_KEY_MAX
      /\ \A i \in 1 .. Len(Cut(v)) : Cut(v)[i] = v[i]
  BY CutIs
<1>6. Len(u) = Len(s) + Len(b) /\ Len(v) = Len(t) + Len(b)
  BY <1>2, <1>3
<1>7. Len(Cut(v)) = Len(Cut(u))
  BY <1>1, <1>4, <1>5, <1>6
<1>8. ASSUME NEW i \in 1 .. Len(Cut(u)) PROVE Cut(v)[i] = Cut(u)[i]
  <2>1. i \in Nat \ {0} /\ i <= JSON_KEY_MAX /\ i <= Len(s) + Len(b)
    BY <1>1, <1>4, <1>6
  <2>2. Cut(v)[i] = v[i] /\ Cut(u)[i] = u[i]
    BY <1>4, <1>5, <1>7
  <2>3. u[i] = IF i <= Len(s) THEN s[i] ELSE b[i - Len(s)]
    BY <1>1, <1>2, <2>1
  <2>4. CASE Len(s) < JSON_KEY_MAX
    <3>1. v[i] = IF i <= Len(s) THEN t[i] ELSE b[i - Len(s)]
      BY <1>1, <1>3, <2>1, <2>4
    <3> QED  BY <1>1, <2>1, <2>2, <2>3, <2>4, <3>1
  <2>5. CASE ~(Len(s) < JSON_KEY_MAX)
    <3>1. v[i] = t[i] /\ t[i] = s[i] /\ i <= Len(s)
      BY <1>1, <1>3, <2>1, <2>5
    <3> QED  BY <2>2, <2>3, <3>1
  <2> QED  BY <2>4, <2>5
<1>9. Cut(v) = Cut(u)
  BY <1>4, <1>5, <1>7, <1>8, SeqEqual
<1> QED  BY <1>9

LEMMA CutTwice ==
    ASSUME NEW k \in Seq(Marks), NEW a \in Seq(Marks), NEW b \in Seq(Marks)
    PROVE  Cut(Cut(k \o a) \o b) = Cut(k \o (a \o b))
<1>1. k \o a \in Seq(Marks) /\ k \o (a \o b) = (k \o a) \o b
  BY ConcatAssoc
<1> QED  BY <1>1, CutAgain
-----------------------------------------------------------------------------
(* What its steps make of a parser. *)

Lens(p) == Len(p.stack) <= JSON_MAX_DEPTH /\ Len(p.keybuf) <= JSON_KEY_MAX

\* Told more, with perhaps more in its key.
Alike(p, q) ==
    /\ q \in Parsers /\ q.st = p.st /\ q.stack = p.stack /\ q.inKey = p.inKey /\ q.num = p.num
    /\ Len(p.keybuf) <= JSON_KEY_MAX => Len(q.keybuf) <= JSON_KEY_MAX

LEMMA AlikeWithin ==
    ASSUME NEW p, NEW q, Alike(p, q), Within(p)
    PROVE  Within(q) /\ Lens(q)
BY DEF Alike, Within, Lens

LEMMA AlikeTwice ==
    ASSUME NEW p, NEW q, NEW r, Alike(p, q), Alike(q, r)
    PROVE  Alike(p, r)
BY DEF Alike

LEMMA EmitIs ==
    ASSUME NEW p \in Parsers, NEW ev \in Names, NEW data \in Seq(Marks), NEW f \in BOOLEAN
    PROVE  Alike(p, Emit(p, ev, data, f)) /\ Emit(p, ev, data, f).pending = p.pending
<1> PICK e : e = [ev |-> ev, path |-> p.stack, data |-> data, final |-> f]
  OBVIOUS
<1>1. e \in Events
  BY DEF Events, Parsers
<1>2. Tell(p.told, e) \in Seq(Events)
  BY <1>1, TellType DEF Parsers
<1> PICK t \in Seq(Events) : t = Tell(p.told, e)
  BY <1>2
<1>3. Emit(p, ev, data, f) = [p EXCEPT !.told = t]
  BY DEF Emit
<1> QED  BY <1>3 DEF Alike, Parsers

LEMMA BytesIs ==
    ASSUME NEW p \in Parsers, NEW b \in Seq(Marks)
    PROVE  Alike(p, EmitBytes(p, b)) /\ EmitBytes(p, b).pending = p.pending
<1>1. CASE p.inKey
  <2>1. p.keybuf \o b \in Seq(Marks)
    BY DEF Parsers
  <2>2. Cut(p.keybuf \o b) \in Seq(Marks) /\ Len(Cut(p.keybuf \o b)) <= JSON_KEY_MAX
    <3> PICK k \in Seq(Marks) : k = p.keybuf \o b
      BY <2>1
    <3>1. /\ Cut(k) \in Seq(Marks) /\ Len(Cut(k)) = IF Len(k) < JSON_KEY_MAX THEN Len(k) ELSE JSON_KEY_MAX
          /\ Len(k) \in Nat /\ JSON_KEY_MAX \in Nat
      BY CutIs
    <3>2. Len(Cut(k)) <= JSON_KEY_MAX
      BY <3>1
    <3> QED  BY <3>1, <3>2
  <2>3. EmitBytes(p, b) = [p EXCEPT !.keybuf = Cut(p.keybuf \o b)]
    BY <1>1 DEF EmitBytes
  <2> QED  BY <2>2, <2>3 DEF Alike, Parsers
<1>2. CASE ~p.inKey
  BY <1>2, EmitIs DEF EmitBytes, Names
<1> QED  BY <1>1, <1>2

LEMMA FlushIs ==
    ASSUME NEW p \in Parsers
    PROVE  Alike(p, Flush(p)) /\ ~Flush(p).pending /\ (~p.pending => Flush(p) = p)
<1>1. CASE p.pending
  <2> PICK q : q = [p EXCEPT !.pending = FALSE]
    OBVIOUS
  <2>1. Alike(p, q) /\ ~q.pending
    BY DEF Alike, Parsers
  <2>2. <<"FFFD">> \in Seq(Marks)
    BY DEF Marks
  <2>3. Alike(q, EmitBytes(q, <<"FFFD">>)) /\ ~EmitBytes(q, <<"FFFD">>).pending
    BY <2>1, <2>2, BytesIs DEF Alike
  <2>4. Flush(p) = EmitBytes(q, <<"FFFD">>)
    BY <1>1 DEF Flush
  <2> QED  BY <1>1, <2>1, <2>3, <2>4, AlikeTwice
<1>2. CASE ~p.pending
  BY <1>2 DEF Flush, Alike
<1> QED  BY <1>1, <1>2

LEMMA FailIs ==
    ASSUME NEW p \in Parsers, Lens(p)
    PROVE  Fail(p) \in Parsers /\ Within(Fail(p)) /\ Fail(p).st = "error"
BY DEF Fail, Parsers, Within, Lens, States

LEMMA DoneIs ==
    ASSUME NEW p \in Parsers, Lens(p)
    PROVE  ValueDone(p) \in Parsers /\ Within(ValueDone(p)) /\ ValueDone(p).st \in {"done", "after"}
BY DEF ValueDone, Parsers, Within, Lens, States

\* What is told with the value that it completes.
LEMMA ToldIs ==
    ASSUME NEW p \in Parsers, Lens(p), NEW ev \in Names, NEW data \in Seq(Marks), NEW f \in BOOLEAN
    PROVE  LET q == ValueDone(Emit(p, ev, data, f)) IN q \in Parsers /\ Within(q) /\ q.st \in {"done", "after"}
<1> PICK q : q = Emit(p, ev, data, f)
  OBVIOUS
<1>1. Alike(p, q)
  BY EmitIs
<1>2. q \in Parsers /\ Lens(q)
  BY <1>1 DEF Alike, Lens
<1> QED  BY <1>2, DoneIs

LEMMA PushIs ==
    ASSUME NEW p \in Parsers, Lens(p), NEW kind \in {"obj", "arr"}
    PROVE  Push(p, kind) \in Parsers /\ Within(Push(p, kind)) /\ Push(p, kind).st # "string"
<1>1. CASE Len(p.stack) >= JSON_MAX_DEPTH
  BY <1>1, FailIs DEF Push
<1>2. CASE ~(Len(p.stack) >= JSON_MAX_DEPTH)
  <2> PICK ev \in Names, st \in States : /\ ev = IF kind = "obj" THEN "obj_start" ELSE "arr_start"
                                         /\ st = IF kind = "obj" THEN "obj_first" ELSE "arr_first"
    BY DEF Names, States
  <2> PICK q : q = Emit(p, ev, <<>>, TRUE)
    OBVIOUS
  <2>1. Alike(p, q)
    <3>1. <<>> \in Seq(Marks)
      OBVIOUS
    <3> QED  BY <3>1, EmitIs
  <2> PICK slot : slot = [kind |-> kind, index |-> 0, key |-> <<>>]
    OBVIOUS
  <2>2. slot \in Slots /\ slot.kind = kind
    BY DEF Slots
  <2>3. q.stack = p.stack /\ q.stack \in Seq(Slots) /\ Len(q.stack) \in Nat
    <3>1. q.stack = p.stack /\ q.stack \in Seq(Slots)
      BY <2>1 DEF Alike, Parsers
    <3> QED  BY <3>1, LenProperties
  <2> PICK stack : stack = Append(q.stack, slot)
    OBVIOUS
  <2>4. stack \in Seq(Slots) /\ Len(stack) = Len(q.stack) + 1 /\ stack # <<>> /\ Last(stack) = slot
    <3> PICK old \in Seq(Slots) : old = q.stack
      BY <2>3
    <3>1. Append(old, slot) \in Seq(Slots) /\ Len(Append(old, slot)) = Len(old) + 1
      BY <2>2, AppendIs
    <3>2. Append(old, slot) # <<>> /\ Last(Append(old, slot)) = slot
      BY <2>2, FrontLastAppend
    <3> QED  BY <3>1, <3>2
  <2>5. Push(p, kind) = [q EXCEPT !.stack = stack, !.st = st]
    BY <1>2 DEF Push
  <2>6. Push(p, kind) \in Parsers
    BY <2>1, <2>4, <2>5 DEF Alike, Parsers
  <2>7. Len(stack) <= JSON_MAX_DEPTH
    <3> PICK n \in Nat : n = Len(q.stack)
      BY <2>3
    <3>1. JSON_MAX_DEPTH \in Nat /\ ~(n >= JSON_MAX_DEPTH)
      BY <1>2, <2>3, JsonAssumption
    <3>2. n + 1 <= JSON_MAX_DEPTH
      BY <3>1, OneMore
    <3> QED  BY <2>4, <3>2
  <2>8. Push(p, kind).stack = stack /\ Push(p, kind).st = st /\ Push(p, kind).keybuf = q.keybuf
    BY <2>1, <2>5 DEF Alike, Parsers
  <2>9. st \in {"obj_first", "arr_first"} /\ (st = "obj_first" => kind = "obj")
    OBVIOUS
  <2> QED  BY <2>1, <2>2, <2>4, <2>6, <2>7, <2>8, <2>9 DEF Within, Lens, Alike
<1> QED  BY <1>1, <1>2

LEMMA PopIs ==
    ASSUME NEW p \in Parsers, Lens(p), NEW kind \in {"obj", "arr"}
    PROVE  Pop(p, kind) \in Parsers /\ Within(Pop(p, kind)) /\ Pop(p, kind).st # "string"
<1>1. CASE p.stack = <<>> \/ Last(p.stack).kind # kind
  BY <1>1, FailIs DEF Pop
<1>2. CASE ~(p.stack = <<>> \/ Last(p.stack).kind # kind)
  <2> PICK q : q = [p EXCEPT !.stack = Front(@)]
    OBVIOUS
  <2>1. Front(p.stack) \in Seq(Slots) /\ Len(Front(p.stack)) <= Len(p.stack)
    <3>1. p.stack \in Seq(Slots) /\ Len(p.stack) \in Nat
      BY DEF Parsers
    <3> QED  BY <1>2, <3>1, FrontLast
  <2>2. q \in Parsers /\ Lens(q)
    <3>1. p.stack \in Seq(Slots)
      BY DEF Parsers
    <3>2. Len(p.stack) \in Nat /\ Len(Front(p.stack)) \in Nat /\ JSON_MAX_DEPTH \in Nat
      BY <2>1, <3>1, LenProperties, JsonAssumption
    <3> PICK front \in Seq(Slots) : front = Front(p.stack)
      BY <2>1
    <3>3. q = [p EXCEPT !.stack = front]
      OBVIOUS
    <3>4. q \in Parsers /\ q.stack = front /\ q.keybuf = p.keybuf
      BY <3>3 DEF Parsers
    <3>5. Len(front) <= JSON_MAX_DEPTH
      BY <2>1, <3>2 DEF Lens
    <3> QED  BY <3>4, <3>5 DEF Lens
  <2> PICK ev \in Names : ev = IF kind = "obj" THEN "obj_end" ELSE "arr_end"
    BY DEF Names
  <2>3. Pop(p, kind) = ValueDone(Emit(q, ev, <<>>, TRUE))
    BY <1>2 DEF Pop
  <2>4. <<>> \in Seq(Marks)
    OBVIOUS
  <2> QED  BY <2>2, <2>3, <2>4, ToldIs
<1> QED  BY <1>1, <1>2

LEMMA BeginIs ==
    ASSUME NEW p \in Parsers, Lens(p), NEW s \in Marks
    PROVE  BeginValue(p, s) \in Parsers /\ Within(BeginValue(p, s))
<1>n. <<s>> \in Seq(Marks) /\ Len(<<s>>) = 1
  OBVIOUS
<1> PICK num \in Seq(Marks) : num = <<s>> /\ Len(num) = 1
  BY <1>n
<1>0. /\ \A w \in Literals : w[1] \in {"t", "f", "n"}
      /\ 1 <= JSON_NUM_MAX
  BY JsonAssumption DEF Literals
<1>1. CASE s = "{"
  <2>1. BeginValue(p, s) = Push(p, "obj")
    BY <1>0, <1>1 DEF BeginValue
  <2> QED  BY <2>1, PushIs
<1>2. CASE s = "["
  <2>1. BeginValue(p, s) = Push(p, "arr")
    BY <1>0, <1>2 DEF BeginValue
  <2> QED  BY <2>1, PushIs
<1>3. CASE s = "Q"
  <2>1. BeginValue(p, s) = [p EXCEPT !.inKey = FALSE, !.st = "string"]
    BY <1>0, <1>3 DEF BeginValue
  <2> QED  BY <2>1 DEF Parsers, Within, Lens, States
<1>4. ASSUME NEW t \in 0 .. 7, NEW q, q = [p EXCEPT !.st = "number", !.num = num, !.sub = t]
      PROVE  q \in Parsers /\ Within(q)
  <2>1. q \in Parsers
    BY <1>4 DEF Parsers, States
  <2>2. q.st = "number" /\ q.num = num /\ q.stack = p.stack /\ q.keybuf = p.keybuf
    BY <1>4 DEF Parsers
  <2> QED  BY <1>0, <2>1, <2>2 DEF Within, Lens
<1>5. ASSUME NEW q, q = [p EXCEPT !.st = "literal", !.num = num]
      PROVE  q \in Parsers /\ Within(q)
  <2>1. q \in Parsers
    BY <1>5 DEF Parsers, States
  <2>2. q.st = "literal" /\ q.stack = p.stack /\ q.keybuf = p.keybuf
    BY <1>5 DEF Parsers
  <2> QED  BY <2>1, <2>2 DEF Within, Lens
<1>6. CASE s \notin {"{", "[", "Q"}
  <2>1. CASE \E w \in Literals : w[1] = s
    <3>1. BeginValue(p, s) = [p EXCEPT !.st = "literal", !.num = num]
      BY <1>0, <1>6, <2>1 DEF BeginValue
    <3> QED  BY <1>5, <3>1
  <2>2. CASE ~(\E w \in Literals : w[1] = s) /\ s \in {"-", "0", "1"}
    <3> PICK t \in 0 .. 7 : t = CASE s = "-" -> 0 [] s = "0" -> 1 [] OTHER -> 2
      BY <2>2
    <3>1. BeginValue(p, s) = [p EXCEPT !.st = "number", !.num = num, !.sub = t]
      BY <1>6, <2>2 DEF BeginValue
    <3> QED  BY <1>4, <3>1
  <2>3. CASE ~(\E w \in Literals : w[1] = s) /\ s \notin {"-", "0", "1"}
    <3>1. BeginValue(p, s) = Fail(p)
      BY <1>6, <2>3 DEF BeginValue
    <3> QED  BY <3>1, FailIs
  <2> QED  BY <2>1, <2>2, <2>3
<1> QED  BY <1>1, <1>2, <1>3, <1>6
LEMMA TopIs ==
    ASSUME NEW s \in Seq(Slots), s # <<>>, NEW slot \in Slots
    PROVE  LET t == [s EXCEPT ![Len(s)] = slot]
           IN  t \in Seq(Slots) /\ Len(t) = Len(s) /\ t # <<>> /\ Last(t) = slot
<1> PICK n \in Nat \ {0} : n = Len(s)
  BY EmptySeq, LenProperties
<1> PICK t : t = [s EXCEPT ![n] = slot]
  OBVIOUS
<1>1. t \in Seq(Slots) /\ Len(t) = n /\ t[n] = slot
  BY ExceptSeq
<1>2. t # <<>> /\ Last(t) = slot
  BY <1>1 DEF Last
<1> QED  BY <1>1, <1>2

LEMMA KeyEndsIs ==
    ASSUME NEW p \in Parsers, Lens(p), p.stack # <<>>, Last(p.stack).kind = "obj"
    PROVE  KeyEnds(p) \in Parsers /\ Within(KeyEnds(p)) /\ KeyEnds(p).st = "colon"
<1>1. p.stack \in Seq(Slots) /\ p.keybuf \in Seq(Marks)
  BY DEF Parsers
<1> PICK top : top = p.stack[Len(p.stack)]
  OBVIOUS
<1>2. top = Last(p.stack) /\ top \in Slots
  BY <1>1, FrontLast DEF Last
<1> PICK slot : slot = [top EXCEPT !.key = p.keybuf]
  OBVIOUS
<1>3. slot \in Slots /\ slot.kind = "obj"
  BY <1>1, <1>2 DEF Slots
<1> PICK stack : stack = [p.stack EXCEPT ![Len(p.stack)] = slot]
  OBVIOUS
<1>4. stack \in Seq(Slots) /\ Len(stack) = Len(p.stack) /\ stack # <<>> /\ Last(stack) = slot
  BY <1>1, <1>3, TopIs
<1> PICK q : q = [p EXCEPT !.stack[Len(p.stack)].key = p.keybuf, !.inKey = FALSE]
  OBVIOUS
<1>5. q = [p EXCEPT !.stack = stack, !.inKey = FALSE]
  OBVIOUS
<1>6. q \in Parsers /\ q.stack = stack /\ q.keybuf = p.keybuf
  BY <1>4, <1>5 DEF Parsers
<1> PICK r : r = Emit(q, "key", p.keybuf, TRUE)
  OBVIOUS
<1>7. Alike(q, r)
  BY <1>1, <1>6, EmitIs DEF Names
<1>8. KeyEnds(p) = [r EXCEPT !.st = "colon"]
  BY DEF KeyEnds
<1>9. KeyEnds(p) \in Parsers
  BY <1>7, <1>8 DEF Alike, Parsers, States
<1>10. /\ KeyEnds(p).st = "colon" /\ KeyEnds(p).stack = stack
       /\ KeyEnds(p).keybuf = r.keybuf /\ KeyEnds(p).num = r.num
  BY <1>6, <1>7, <1>8 DEF Alike, Parsers
<1>11. Len(r.keybuf) <= JSON_KEY_MAX
  BY <1>6, <1>7 DEF Alike, Lens
<1> QED  BY <1>3, <1>4, <1>9, <1>10, <1>11 DEF Within, Lens

LEMMA NumberIs ==
    ASSUME NEW p \in Parsers, Lens(p)
    PROVE  EndNumber(p) \in Parsers /\ Within(EndNumber(p)) /\ EndNumber(p).st \in {"done", "after", "error"}
<1>1. p.num \in Seq(Marks) /\ "number" \in Names
  BY DEF Parsers, Names
<1>2. CASE p.sub \in {1, 2, 4, 7}
  BY <1>1, <1>2, ToldIs DEF EndNumber
<1>3. CASE p.sub \notin {1, 2, 4, 7}
  BY <1>3, FailIs DEF EndNumber
<1> QED  BY <1>2, <1>3
-----------------------------------------------------------------------------
(* What every step leaves. *)

LEMMA SymIs ==
    ASSUME JInv, Unread
    PROVE  sym \in Marks /\ <<sym>> \in Seq(Marks) /\ at + 1 \in Nat /\ at + 1 <= Len(text)
<1>1. at \in Nat /\ text \in Seq(Marks) /\ Len(text) \in Nat
  BY DEF JInv, Scans
<1>2. at + 1 \in 1 .. Len(text)
  BY <1>1 DEF Unread
<1>3. sym \in Marks
  BY <1>1, <1>2, ElementOfSeq DEF sym
<1> QED  BY <1>1, <1>2, <1>3

\* The last k of the first n symbols of a text.
LEMMA Slice ==
    ASSUME NEW t \in Seq(Marks), NEW n \in Nat, NEW k \in Nat, k <= n, n <= Len(t)
    PROVE  /\ SubSeq(t, n - k + 1, n) \in Seq(Marks) /\ Len(SubSeq(t, n - k + 1, n)) = k
           /\ \A i \in 1 .. k : SubSeq(t, n - k + 1, n)[i] = t[n - k + i]
<1> PICK m \in Int : m = n - k + 1
  OBVIOUS
<1>1. Len(t) \in Nat /\ n - m + 1 = k /\ 1 <= m /\ (m <= n \/ k = 0)
  OBVIOUS
<1>2. \A i \in m .. n : t[i] \in Marks
  BY <1>1, ElementOfSeq
<1>3. /\ SubSeq(t, m, n) \in Seq(Marks)
      /\ Len(SubSeq(t, m, n)) = IF m <= n THEN n - m + 1 ELSE 0
      /\ \A i \in 1 .. n - m + 1 : SubSeq(t, m, n)[i] = t[m + i - 1]
  BY <1>2, SubSeqProperties
<1>4. \A i \in 1 .. k : m + i - 1 = n - k + i
  OBVIOUS
<1>5. Len(SubSeq(t, m, n)) = k
  BY <1>1, <1>3
<1> QED  BY <1>1, <1>3, <1>4, <1>5

\* It does not change when the text grows.
LEMMA SliceStays ==
    ASSUME NEW t \in Seq(Marks), NEW u \in Seq(Marks), NEW n \in Nat, NEW k \in Nat, k <= n,
           n <= Len(t), n <= Len(u), \A i \in 1 .. n : u[i] = t[i]
    PROVE  SubSeq(u, n - k + 1, n) = SubSeq(t, n - k + 1, n)
<1> PICK a \in Seq(Marks), b \in Seq(Marks) : a = SubSeq(t, n - k + 1, n) /\ b = SubSeq(u, n - k + 1, n)
  BY Slice
<1>1. Len(a) = k /\ \A i \in 1 .. k : a[i] = t[n - k + i]
  BY Slice
<1>2. Len(b) = k /\ \A i \in 1 .. k : b[i] = u[n - k + i]
  BY Slice
<1>3. \A i \in 1 .. k : n - k + i \in 1 .. n
  OBVIOUS
<1>4. \A i \in 1 .. k : b[i] = a[i]
  BY <1>1, <1>2, <1>3
<1>5. Len(b) = Len(a) /\ \A i \in 1 .. Len(b) : b[i] = a[i]
  BY <1>1, <1>2, <1>4
<1> QED  BY <1>5, SeqEqual

\* One symbol more of it.
LEMMA SliceMore ==
    ASSUME NEW t \in Seq(Marks), NEW n \in Nat, NEW k \in Nat, k <= n, n + 1 <= Len(t)
    PROVE  SubSeq(t, n - k + 1, n + 1) = SubSeq(t, n - k + 1, n) \o <<t[n + 1]>>
<1>1. Len(t) \in Nat /\ n + 1 \in 1 .. Len(t) /\ n <= Len(t)
  OBVIOUS
<1> PICK j \in Nat, l \in Nat, m \in Int : j = n + 1 /\ l = k + 1 /\ m = n - k
  OBVIOUS
<1>2. l <= j /\ j <= Len(t) /\ j - l = m
  OBVIOUS
<1>3. PICK x \in Marks : x = t[j]
  BY <1>1, ElementOfSeq
<1>4. PICK e \in Seq(Marks) : e = <<x>> /\ Len(e) = 1 /\ e[1] = x
  <2>1. <<x>> \in Seq(Marks) /\ Len(<<x>>) = 1 /\ <<x>>[1] = x
    OBVIOUS
  <2> QED  BY <2>1
<1>5. PICK a \in Seq(Marks) : a = SubSeq(t, m + 1, n) /\ Len(a) = k /\ \A i \in 1 .. k : a[i] = t[m + i]
  <2>1. /\ SubSeq(t, n - k + 1, n) \in Seq(Marks) /\ Len(SubSeq(t, n - k + 1, n)) = k
        /\ \A i \in 1 .. k : SubSeq(t, n - k + 1, n)[i] = t[n - k + i]
    BY <1>1, Slice
  <2> QED  BY <2>1
<1>6. PICK b \in Seq(Marks) : b = SubSeq(t, m + 1, j) /\ Len(b) = l /\ \A i \in 1 .. l : b[i] = t[m + i]
  <2>1. /\ SubSeq(t, j - l + 1, j) \in Seq(Marks) /\ Len(SubSeq(t, j - l + 1, j)) = l
        /\ \A i \in 1 .. l : SubSeq(t, j - l + 1, j)[i] = t[j - l + i]
    BY <1>2, Slice
  <2> PICK z \in Seq(Marks) : z = SubSeq(t, j - l + 1, j) /\ Len(z) = l /\ \A i \in 1 .. l : z[i] = t[j - l + i]
    BY <2>1
  <2>2. z = SubSeq(t, m + 1, j)
    BY <1>2
  <2>3. \A i \in 1 .. l : z[i] = t[m + i]
    BY <1>2
  <2> QED  BY <2>2, <2>3
<1>7. PICK c \in Seq(Marks) : c = a \o e /\ Len(c) = l /\ \A i \in 1 .. l : c[i] = IF i <= k THEN a[i] ELSE e[i - k]
  <2>1. /\ a \o e \in Seq(Marks) /\ Len(a \o e) = Len(a) + Len(e)
        /\ \A i \in 1 .. Len(a) + Len(e) : (a \o e)[i] = IF i <= Len(a) THEN a[i] ELSE e[i - Len(a)]
    BY ConcatProperties
  <2>2. Len(a) = k /\ Len(a) + Len(e) = l
    BY <1>4, <1>5
  <2> QED  BY <2>1, <2>2
<1>8. ASSUME NEW i \in 1 .. l PROVE b[i] = c[i]
  <2>1. CASE i = l
    <3>1. ~(i <= k) /\ i - k = 1 /\ m + i = j
      BY <2>1
    <3>2. c[i] = e[i - k] /\ b[i] = t[m + i]
      BY <1>6, <1>7, <3>1
    <3> QED  BY <1>3, <1>4, <3>1, <3>2
  <2>2. CASE i # l
    <3>1. i \in 1 .. k /\ i <= k
      BY <2>2
    <3> QED  BY <1>5, <1>6, <1>7, <3>1
  <2> QED  BY <2>1, <2>2
<1>9. b = c
  <2>1. Len(b) = Len(c) /\ \A i \in 1 .. Len(b) : b[i] = c[i]
    BY <1>6, <1>7, <1>8
  <2> QED  BY <2>1, SeqEqual
<1> QED  BY <1>3, <1>4, <1>5, <1>6, <1>7, <1>9

LEMMA ScannedIs ==
    ASSUME JInv
    PROVE  Scanned \in Seq(Marks) /\ (run = 0 => Scanned = <<>>)
<1>1. at \in Nat /\ run \in Nat /\ run <= at /\ text \in Seq(Marks) /\ Len(text) \in Nat /\ at <= Len(text)
  BY DEF JInv, Scans
<1>3. SubSeq(text, at - run + 1, at) \in Seq(Marks)
  BY <1>1, Slice
<1>4. run = 0 => SubSeq(text, at - run + 1, at) = <<>>
  BY <1>1
<1> QED  BY <1>3, <1>4 DEF Scanned

LEMMA DeliveredIs ==
    ASSUME JInv, NEW p \in Parsers
    PROVE  Alike(p, Delivered(p)) /\ Delivered(p).pending = p.pending
<1>1. CASE run = 0
  BY <1>1 DEF Delivered, Alike
<1>2. CASE run # 0
  BY <1>2, ScannedIs, BytesIs DEF Delivered
<1> QED  BY <1>1, <1>2

LEMMA Stays ==
    ASSUME JInv, corpus' = corpus, text' = text, run' = 0, at' \in Nat, at' <= Len(text),
           js' \in Parsers, Within(js')
    PROVE  JInv'
BY DEF JInv, Scans

\* Outside of a string nothing is scanned.
LEMMA Rests ==
    ASSUME JInv, Unread, js.st # "string", NEW p, p \in Parsers, Within(p), Consume(p), UNCHANGED run, Keep
    PROVE  JInv'
<1>1. run = 0
  BY DEF JInv, Scans
<1>2. js' = p /\ at' = at + 1 /\ run' = 0 /\ corpus' = corpus /\ text' = text
  BY <1>1 DEF Consume, Keep
<1> QED  BY <1>2, SymIs, Stays

LEMMA LensIs ==
    ASSUME JInv
    PROVE  js \in Parsers /\ Lens(js) /\ Within(js)
BY DEF JInv, Within, Lens
LEMMA FlushedIs ==
    ASSUME JInv
    PROVE  /\ Flush(js) \in Parsers /\ Lens(Flush(js)) /\ ~Flush(js).pending
           /\ Alike(js, Flush(js)) /\ (run > 0 => Flush(js) = js)
<1>1. js \in Parsers /\ Lens(js) /\ (run > 0 => ~js.pending)
  BY LensIs DEF JInv, Scans
<1>2. Alike(js, Flush(js)) /\ ~Flush(js).pending /\ (~js.pending => Flush(js) = js)
  BY <1>1, FlushIs
<1> QED  BY <1>1, <1>2 DEF Alike, Lens

LEMMA StringPlainStays ==
    ASSUME JInv, StringPlain
    PROVE  JInv'
<1>1. /\ js' = Flush(js) /\ at' = at + 1 /\ run' = run + 1 /\ corpus' = corpus /\ text' = text
      /\ Unread /\ js.st = "string"
  BY DEF StringPlain, In, Consume, Keep
<1>2. js' \in Parsers /\ Within(js') /\ js'.st = "string" /\ ~js'.pending
  BY <1>1, FlushedIs, LensIs, AlikeWithin DEF Alike
<1>3. at + 1 \in Nat /\ at + 1 <= Len(text) /\ run + 1 \in Nat /\ run + 1 <= at + 1
  BY <1>1, SymIs DEF JInv, Scans
<1> QED  BY <1>1, <1>2, <1>3 DEF JInv, Scans

LEMMA StringClosesStays ==
    ASSUME JInv, StringCloses
    PROVE  JInv'
<1> PICK p : p = Flush(js)
  OBVIOUS
<1>1. /\ js' = IF js.inKey THEN KeyEnds(Delivered(p)) ELSE ValueDone(Emit(p, "string", Scanned, TRUE))
      /\ at' = at + 1 /\ run' = 0 /\ corpus' = corpus /\ text' = text
      /\ Unread /\ js.st = "string"
  BY DEF StringCloses, In, Consume, Keep
<1>2. p \in Parsers /\ Lens(p) /\ Alike(js, p) /\ Scanned \in Seq(Marks) /\ "string" \in Names
  BY FlushedIs, ScannedIs DEF Names
<1>3. js' \in Parsers /\ Within(js')
  <2>1. CASE js.inKey
    <3> PICK q : q = Delivered(p)
      OBVIOUS
    <3>1. Alike(js, q)
      BY <1>2, DeliveredIs, AlikeTwice
    <3>2. q \in Parsers /\ Lens(q) /\ q.stack # <<>> /\ Last(q.stack).kind = "obj"
      BY <1>1, <2>1, <3>1, LensIs, AlikeWithin DEF Alike, Within
    <3> QED  BY <1>1, <2>1, <3>2, KeyEndsIs
  <2>2. CASE ~js.inKey
    BY <1>1, <1>2, <2>2, ToldIs
  <2> QED  BY <2>1, <2>2
<1> QED  BY <1>1, <1>3, SymIs, Stays

LEMMA StringEscapeStays ==
    ASSUME JInv, StringEscape
    PROVE  JInv'
<1> PICK p : p = Delivered(js)
  OBVIOUS
<1>1. /\ js' = [p EXCEPT !.st = "escape"]
      /\ at' = at + 1 /\ run' = 0 /\ corpus' = corpus /\ text' = text
      /\ Unread /\ js.st = "string"
  BY DEF StringEscape, In, Consume, Keep
<1>2. p \in Parsers /\ Within(p) /\ Lens(p) /\ p.st = "string"
  BY <1>1, LensIs, DeliveredIs, AlikeWithin DEF Alike
<1>3. js' \in Parsers
  BY <1>1, <1>2 DEF Parsers, States
<1>4. js'.st = "escape" /\ js'.stack = p.stack /\ js'.keybuf = p.keybuf /\ js'.inKey = p.inKey
  BY <1>1, <1>2 DEF Parsers
<1>5. Within(js')
  BY <1>2, <1>4 DEF Within
<1> QED  BY <1>1, <1>3, <1>5, SymIs, Stays

LEMMA StringControlStays ==
    ASSUME JInv, StringControl
    PROVE  JInv'
<1> PICK p : p = Delivered(Flush(js))
  OBVIOUS
<1>1. /\ js' = Fail(p)
      /\ at' = at + 1 /\ run' = 0 /\ corpus' = corpus /\ text' = text
      /\ Unread /\ js.st = "string"
  BY DEF StringControl, In, Consume, Keep
<1>2. p \in Parsers /\ Lens(p)
  BY FlushedIs, DeliveredIs DEF Alike, Lens
<1> QED  BY <1>1, <1>2, FailIs, SymIs, Stays

LEMMA ChunkEndsStays ==
    ASSUME JInv, ChunkEnds
    PROVE  JInv'
<1>1. js' = Delivered(js) /\ at' = at /\ run' = 0 /\ corpus' = corpus /\ text' = text
  BY DEF ChunkEnds, Keep
<1>2. js' \in Parsers /\ Within(js')
  BY <1>1, LensIs, DeliveredIs, AlikeWithin DEF Alike
<1>3. at \in Nat /\ at <= Len(text)
  BY DEF JInv, Scans
<1> QED  BY <1>1, <1>2, <1>3, Stays

LEMMA EscapeStays ==
    ASSUME JInv, Escape
    PROVE  JInv'
<1> PICK p : p = CASE sym = "u" -> [js EXCEPT !.st = "uhex"]
                   [] sym \in {"Q", "B", "n"} -> [EmitBytes(Flush(js), <<"B" \o sym>>) EXCEPT !.st = "string"]
                   [] OTHER -> Fail(js)
  OBVIOUS
<1>1. Consume(p) /\ UNCHANGED run /\ Keep /\ Unread /\ js.st = "escape"
  BY DEF Escape, In
<1>2. js \in Parsers /\ Lens(js) /\ Within(js)
  BY LensIs
<1>3. CASE sym = "u"
  <2>1. p = [js EXCEPT !.st = "uhex"]
    BY <1>3
  <2>2. p \in Parsers
    BY <1>2, <2>1 DEF Parsers, States
  <2>3. p.st = "uhex" /\ p.stack = js.stack /\ p.keybuf = js.keybuf /\ p.inKey = js.inKey
    BY <1>2, <2>1 DEF Parsers
  <2>4. Within(p)
    BY <1>1, <1>2, <2>3 DEF Within
  <2> QED  BY <1>1, <2>2, <2>4, Rests
<1>4. CASE sym # "u" /\ sym \in {"Q", "B", "n"}
  <2> PICK b : b = "B" \o sym
    OBVIOUS
  <2>1. b \in Marks
    BY <1>4 DEF Marks
  <2>2. <<b>> \in Seq(Marks)
    BY <2>1
  <2> PICK q : q = EmitBytes(Flush(js), <<b>>)
    OBVIOUS
  <2>3. p = [q EXCEPT !.st = "string"]
    BY <1>4
  <2>4. Alike(js, q)
    BY <2>2, FlushedIs, BytesIs, AlikeTwice
  <2>5. q \in Parsers /\ Within(q) /\ q.st = "escape"
    BY <1>1, <1>2, <2>4, AlikeWithin DEF Alike
  <2>6. p \in Parsers
    BY <2>3, <2>5 DEF Parsers, States
  <2>7. p.st = "string" /\ p.stack = q.stack /\ p.keybuf = q.keybuf /\ p.inKey = q.inKey
    BY <2>3, <2>5 DEF Parsers
  <2>8. Within(p)
    BY <2>5, <2>7 DEF Within
  <2> QED  BY <1>1, <2>6, <2>8, Rests
<1>5. CASE sym # "u" /\ sym \notin {"Q", "B", "n"}
  <2>1. p = Fail(js)
    BY <1>5
  <2> QED  BY <1>1, <1>2, <2>1, FailIs, Rests
<1> QED  BY <1>3, <1>4, <1>5

LEMMA EndUescapeIs ==
    ASSUME JInv
    PROVE  Alike(js, EndUescape(js))
<1>0. js \in Parsers
  BY LensIs
<1>1. <<"pair">> \in Seq(Marks) /\ <<"FFFD">> \in Seq(Marks) /\ <<"uC">> \in Seq(Marks)
  BY DEF Marks
<1>2. Alike(js, Flush(js))
  BY FlushedIs
<1>3. CASE js.pending /\ sym = "L"
  <2> PICK q : q = [js EXCEPT !.pending = FALSE]
    OBVIOUS
  <2>1. Alike(js, q)
    BY <1>0 DEF Alike, Parsers
  <2>2. EndUescape(js) = EmitBytes(q, <<"pair">>)
    BY <1>3 DEF EndUescape
  <2>3. q \in Parsers
    BY <2>1 DEF Alike
  <2> QED  BY <1>1, <2>1, <2>2, <2>3, BytesIs, AlikeTwice
<1>4. CASE ~js.pending /\ sym = "L"
  <2>1. EndUescape(js) = EmitBytes(js, <<"FFFD">>)
    BY <1>4 DEF EndUescape
  <2> QED  BY <1>0, <1>1, <2>1, BytesIs
<1>5. CASE sym = "H"
  <2> PICK q : q = Flush(js)
    OBVIOUS
  <2>1. EndUescape(js) = [q EXCEPT !.pending = TRUE]
    BY <1>5 DEF EndUescape
  <2>2. Alike(q, [q EXCEPT !.pending = TRUE])
    BY <1>2 DEF Alike, Parsers
  <2> QED  BY <1>2, <2>1, <2>2, AlikeTwice
<1>6. CASE sym \notin {"H", "L"}
  <2>1. EndUescape(js) = EmitBytes(Flush(js), <<"uC">>)
    BY <1>6 DEF EndUescape
  <2>2. Flush(js) \in Parsers
    BY <1>2 DEF Alike
  <2> QED  BY <1>1, <1>2, <2>1, <2>2, BytesIs, AlikeTwice
<1> QED  BY <1>3, <1>4, <1>5, <1>6

LEMMA HexStays ==
    ASSUME JInv, Hex
    PROVE  JInv'
<1> PICK q : q = EndUescape(js)
  OBVIOUS
<1> PICK p : p = IF sym \in {"H", "L", "C"} THEN [q EXCEPT !.st = "string"] ELSE Fail(js)
  OBVIOUS
<1>1. Consume(p) /\ UNCHANGED run /\ Keep /\ Unread /\ js.st = "uhex"
  BY DEF Hex, In
<1>2. js \in Parsers /\ Lens(js) /\ Within(js)
  BY LensIs
<1>3. CASE sym \in {"H", "L", "C"}
  <2>1. q \in Parsers /\ Within(q) /\ q.st = "uhex"
    BY <1>1, <1>2, EndUescapeIs, AlikeWithin DEF Alike
  <2>2. p = [q EXCEPT !.st = "string"]
    BY <1>3
  <2>3. p \in Parsers
    BY <2>1, <2>2 DEF Parsers, States
  <2>4. p.st = "string" /\ p.stack = q.stack /\ p.keybuf = q.keybuf /\ p.inKey = q.inKey
    BY <2>1, <2>2 DEF Parsers
  <2>5. Within(p)
    BY <2>1, <2>4 DEF Within
  <2> QED  BY <1>1, <2>3, <2>5, Rests
<1>4. CASE sym \notin {"H", "L", "C"}
  BY <1>1, <1>2, <1>4, FailIs, Rests
<1> QED  BY <1>3, <1>4
LEMMA NumberStays ==
    ASSUME JInv, Number
    PROVE  JInv'
<1>1. Unread /\ js.st = "number" /\ UNCHANGED run /\ Keep
  BY DEF Number, In
<1>2. js \in Parsers /\ Lens(js) /\ Within(js) /\ run = 0
  BY <1>1, LensIs DEF JInv, Scans
<1>3. ASSUME NEW t \in Continues,
             Consume(IF Len(js.num) >= JSON_NUM_MAX THEN Fail(js)
                     ELSE [js EXCEPT !.num = Append(@, sym), !.sub = t[3]])
      PROVE  JInv'
  <2>1. CASE Len(js.num) >= JSON_NUM_MAX
    BY <1>1, <1>2, <1>3, <2>1, FailIs, Rests
  <2>2. CASE ~(Len(js.num) >= JSON_NUM_MAX)
    <3>1. t[3] \in 0 .. 7
      BY DEF Continues
    <3>2. sym \in Marks /\ js.num \in Seq(Marks)
      BY <1>1, <1>2, SymIs DEF Parsers
    <3>3. Append(js.num, sym) \in Seq(Marks) /\ Len(Append(js.num, sym)) = Len(js.num) + 1 /\ Len(js.num) \in Nat
      BY <3>2, AppendIs, LenProperties
    <3>4. Len(Append(js.num, sym)) <= JSON_NUM_MAX
      BY <2>2, <3>3, OneMore, JsonAssumption
    <3> PICK num \in Seq(Marks) : num = Append(js.num, sym)
      BY <3>3
    <3> PICK p : p = [js EXCEPT !.num = num, !.sub = t[3]]
      OBVIOUS
    <3>5. p \in Parsers
      BY <1>2, <3>1 DEF Parsers
    <3>6. p.st = "number" /\ p.num = num /\ p.stack = js.stack /\ p.keybuf = js.keybuf
      BY <1>1, <1>2 DEF Parsers
    <3>7. Within(p)
      BY <1>2, <3>4, <3>6 DEF Within, Lens
    <3>8. Consume(p)
      BY <1>3, <2>2
    <3> QED  BY <1>1, <3>5, <3>7, <3>8, Rests
  <2> QED  BY <2>1, <2>2
<1>4. ASSUME js' = IF js.sub = 1 /\ sym \in {"0", "1"} THEN Fail(js) ELSE EndNumber(js), UNCHANGED at
      PROVE  JInv'
  <2>1. js' \in Parsers /\ Within(js')
    BY <1>2, <1>4, FailIs, NumberIs
  <2>2. at' \in Nat /\ at' <= Len(text) /\ run' = 0 /\ corpus' = corpus /\ text' = text
    BY <1>1, <1>2, <1>4 DEF JInv, Scans, Keep
  <2> QED  BY <2>1, <2>2, Stays
<1> QED  BY <1>3, <1>4 DEF Number

LEMMA LiteralStays ==
    ASSUME JInv, Literal
    PROVE  JInv'
<1> PICK got : got = Append(js.num, sym)
  OBVIOUS
<1>1. /\ Unread /\ js.st = "literal" /\ UNCHANGED run /\ Keep
      /\ Consume(IF got \in Literals THEN ValueDone(Emit(js, "literal", got, TRUE))
                 ELSE IF \E w \in Literals : IsPrefix(got, w) THEN [js EXCEPT !.num = got]
                 ELSE Fail(js))
  BY DEF Literal, In
<1>2. js \in Parsers /\ Lens(js) /\ Within(js)
  BY LensIs
<1>3. got \in Seq(Marks)
  BY <1>1, <1>2, SymIs, AppendIs DEF Parsers
<1>4. CASE got \in Literals
  <2> PICK p : p = ValueDone(Emit(js, "literal", got, TRUE))
    OBVIOUS
  <2>1. p \in Parsers /\ Within(p)
    BY <1>2, <1>3, ToldIs DEF Names
  <2> QED  BY <1>1, <1>4, <2>1, Rests
<1>5. CASE got \notin Literals /\ \E w \in Literals : IsPrefix(got, w)
  <2> PICK p : p = [js EXCEPT !.num = got]
    OBVIOUS
  <2>1. p \in Parsers
    BY <1>2, <1>3 DEF Parsers
  <2>2. p.st = "literal" /\ p.stack = js.stack /\ p.keybuf = js.keybuf
    BY <1>1, <1>2 DEF Parsers
  <2>3. Within(p)
    BY <1>2, <2>2 DEF Within, Lens
  <2>4. Consume(p)
    BY <1>1, <1>5
  <2> QED  BY <1>1, <2>1, <2>3, <2>4, Rests
<1>6. CASE got \notin Literals /\ ~(\E w \in Literals : IsPrefix(got, w))
  <2>1. Consume(Fail(js))
    BY <1>1, <1>6
  <2> QED  BY <1>1, <1>2, <2>1, FailIs, Rests
<1> QED  BY <1>4, <1>5, <1>6

LEMMA BoundariesStay ==
    ASSUME JInv, Space \/ Value \/ Key \/ Colon \/ Close \/ Neither
    PROVE  JInv'
<1>1. js \in Parsers /\ Lens(js) /\ Within(js)
  BY LensIs
<1>2. CASE Space
  <2>1. Unread /\ js.st # "string" /\ Consume(js) /\ UNCHANGED run /\ Keep
    BY <1>2 DEF Space, In, Boundaries
  <2> QED  BY <1>1, <2>1, Rests
<1>3. CASE Value
  <2>1. Unread /\ js.st # "string" /\ Consume(BeginValue(js, sym)) /\ UNCHANGED run /\ Keep
    BY <1>3 DEF Value, In
  <2> QED  BY <1>1, <2>1, SymIs, BeginIs, Rests
<1>4. CASE Key
  <2> PICK p : p = IF sym = "Q" THEN BeginKey(js) ELSE Fail(js)
    OBVIOUS
  <2>1. Unread /\ js.st \in {"obj_first", "obj_key"} /\ Consume(p) /\ UNCHANGED run /\ Keep
    BY <1>4 DEF Key, In
  <2>2. p \in Parsers /\ Within(p)
    <3>1. CASE sym = "Q"
      <4>1. p = [js EXCEPT !.inKey = TRUE, !.keybuf = <<>>, !.st = "string"]
        BY <3>1 DEF BeginKey
      <4>2. p \in Parsers
        <5>1. <<>> \in Seq(Marks)
          OBVIOUS
        <5> QED  BY <1>1, <4>1, <5>1 DEF Parsers, States
      <4>3. p.st = "string" /\ p.stack = js.stack /\ p.keybuf = <<>>
        BY <1>1, <4>1 DEF Parsers
      <4>4. Len(<<>>) = 0 /\ 0 <= JSON_KEY_MAX
        BY JsonAssumption
      <4> QED  BY <1>1, <2>1, <4>2, <4>3, <4>4 DEF Within, Lens
    <3>2. CASE sym # "Q"
      BY <1>1, <3>2, FailIs
    <3> QED  BY <3>1, <3>2
  <2> QED  BY <2>1, <2>2, Rests
<1>5. CASE Colon
  <2> PICK p : p = IF sym = ":" THEN [js EXCEPT !.st = "value"] ELSE Fail(js)
    OBVIOUS
  <2>1. Unread /\ js.st = "colon" /\ Consume(p) /\ UNCHANGED run /\ Keep
    BY <1>5 DEF Colon, In
  <2>2. p \in Parsers /\ Within(p)
    <3>1. CASE sym = ":"
      BY <1>1, <3>1 DEF Parsers, States, Within, Lens
    <3>2. CASE sym # ":"
      BY <1>1, <3>2, FailIs
    <3> QED  BY <3>1, <3>2
  <2> QED  BY <2>1, <2>2, Rests
<1>6. CASE Close
  <2>1. /\ Unread /\ js.st # "string" /\ Consume(Pop(js, IF sym = "]" THEN "arr" ELSE "obj"))
        /\ UNCHANGED run /\ Keep
    BY <1>6 DEF Close, In
  <2> QED  BY <1>1, <2>1, PopIs, Rests
<1>7. CASE Neither
  <2>1. Unread /\ js.st # "string" /\ Consume(Fail(js)) /\ UNCHANGED run /\ Keep
    BY <1>7 DEF Neither, In
  <2> QED  BY <1>1, <2>1, FailIs, Rests
<1> QED  BY <1>2, <1>3, <1>4, <1>5, <1>6, <1>7

LEMMA CommaStays ==
    ASSUME JInv, Comma
    PROVE  JInv'
<1> PICK top, st : top = js.stack[Len(js.stack)] /\ st = IF Last(js.stack).kind = "obj" THEN "obj_key" ELSE "value"
  OBVIOUS
<1>1. /\ Unread /\ js.st = "after" /\ UNCHANGED run /\ Keep
      /\ Consume([js EXCEPT !.stack[Len(js.stack)].index = @ + 1, !.st = st])
  BY DEF Comma, In
<1>2. js \in Parsers /\ Lens(js) /\ js.stack # <<>> /\ js.stack \in Seq(Slots)
  BY <1>1, LensIs DEF Within, Parsers
<1>3. top = Last(js.stack) /\ top \in Slots
  BY <1>2, FrontLast DEF Last
<1> PICK slot : slot = [top EXCEPT !.index = @ + 1]
  OBVIOUS
<1>4. slot \in Slots /\ slot.kind = top.kind
  BY <1>3 DEF Slots
<1> PICK stack : stack = [js.stack EXCEPT ![Len(js.stack)] = slot]
  OBVIOUS
<1>5. stack \in Seq(Slots) /\ Len(stack) = Len(js.stack) /\ stack # <<>> /\ Last(stack) = slot
  BY <1>2, <1>4, TopIs
<1> PICK p : p = [js EXCEPT !.stack = stack, !.st = st]
  OBVIOUS
<1>6. Consume(p)
  <2>1. [js EXCEPT !.stack[Len(js.stack)].index = @ + 1, !.st = st] = p
    OBVIOUS
  <2> QED  BY <1>1, <2>1
<1>7. p \in Parsers
  BY <1>2, <1>5 DEF Parsers, States
<1>8. p.st = st /\ p.stack = stack /\ p.keybuf = js.keybuf
  BY <1>2 DEF Parsers
<1>9. st \in {"obj_key", "value"} /\ (st = "obj_key" => top.kind = "obj")
  BY <1>3
<1>10. Within(p)
  BY <1>2, <1>4, <1>5, <1>8, <1>9 DEF Within, Lens
<1> QED  BY <1>1, <1>6, <1>7, <1>10, Rests

LEMMA FinishTextStays ==
    ASSUME JInv, FinishText
    PROVE  JInv'
<1> PICK p : p = IF js.st = "number" /\ js.stack = <<>> THEN EndNumber(js) ELSE js
  OBVIOUS
<1>1. js' = (IF p.st = "done" THEN p ELSE Fail(p)) /\ UNCHANGED <<corpus, text, at, run>> /\ run = 0
  BY DEF FinishText
<1>2. p \in Parsers /\ Within(p) /\ Lens(p)
  BY LensIs, NumberIs DEF Within, Lens
<1>3. js' \in Parsers /\ Within(js')
  BY <1>1, <1>2, FailIs
<1>4. at' \in Nat /\ at' <= Len(text) /\ run' = 0 /\ corpus' = corpus /\ text' = text
  BY <1>1 DEF JInv, Scans
<1> QED  BY <1>3, <1>4, Stays

LEMMA ArriveStays ==
    ASSUME JInv, NEW s \in corpus.symbols, Arrive(s)
    PROVE  JInv' /\ Scanned' = Scanned
<1>1. text' = Append(text, s) /\ UNCHANGED <<corpus, at, run, js>>
  BY DEF Arrive
<1>2. s \in Marks /\ text \in Seq(Marks)
  BY DEF JInv, Marks
<1>3. text' \in Seq(Marks) /\ Len(text') = Len(text) + 1 /\ Len(text) \in Nat
  BY <1>1, <1>2, AppendIs, LenProperties
<1>4. at \in Nat /\ run \in Nat /\ run <= at /\ at <= Len(text)
  BY DEF JInv, Scans
<1>5. at' <= Len(text')
  BY <1>1, <1>3, <1>4
<1>6. JInv'
  BY <1>1, <1>3, <1>5 DEF JInv, Scans
<1>7. Scanned' = Scanned
  <2>1. \A i \in 1 .. Len(text) : Append(text, s)[i] = text[i]
    BY <1>2, AppendProperties
  <2> PICK u \in Seq(Marks) : u = text'
    BY <1>3
  <2>2. at <= Len(u) /\ \A i \in 1 .. at : u[i] = text[i]
    BY <1>1, <1>3, <1>4, <2>1
  <2>3. SubSeq(u, at - run + 1, at) = SubSeq(text, at - run + 1, at)
    BY <1>2, <1>4, <2>2, SliceStays
  <2>4. Scanned' = SubSeq(text', at' - run' + 1, at')
    BY DEF Scanned
  <2> QED  BY <1>1, <2>3, <2>4 DEF Scanned
<1> QED  BY <1>6, <1>7

LEMMA JStep == ASSUME JInv, [TextNext]_textVars PROVE JInv'
<1>1. CASE \E s \in corpus.symbols : Arrive(s)
  BY <1>1, ArriveStays
<1>2. CASE StringPlain
  BY <1>2, StringPlainStays
<1>3. CASE StringCloses
  BY <1>3, StringClosesStays
<1>4. CASE StringEscape
  BY <1>4, StringEscapeStays
<1>5. CASE StringControl
  BY <1>5, StringControlStays
<1>6. CASE ChunkEnds
  BY <1>6, ChunkEndsStays
<1>7. CASE Escape
  BY <1>7, EscapeStays
<1>8. CASE Hex
  BY <1>8, HexStays
<1>9. CASE Number
  BY <1>9, NumberStays
<1>10. CASE Literal
  BY <1>10, LiteralStays
<1>11. CASE Space \/ Value \/ Key \/ Colon \/ Close \/ Neither
  BY <1>11, BoundariesStay
<1>12. CASE Comma
  BY <1>12, CommaStays
<1>13. CASE FinishText
  BY <1>13, FinishTextStays
<1>14. CASE UNCHANGED textVars
  BY <1>14 DEF JInv, Scans, textVars
<1> QED  BY <1>1, <1>2, <1>3, <1>4, <1>5, <1>6, <1>7, <1>8, <1>9, <1>10, <1>11, <1>12, <1>13, <1>14
    DEF TextNext

LEMMA JStart == ASSUME TextInit PROVE JInv
<1>1. <<>> \in Seq(Marks) /\ <<>> \in Seq(Slots) /\ <<>> \in Seq(Events) /\ Len(<<>>) = 0
  OBVIOUS
<1>2. 0 <= JSON_MAX_DEPTH /\ 0 <= JSON_KEY_MAX
  BY JsonAssumption
<1>3. js \in Parsers /\ Within(js)
  BY <1>1, <1>2 DEF TextInit, Parsers, Within, States
<1> QED  BY <1>1, <1>3 DEF TextInit, JInv, Scans
-----------------------------------------------------------------------------
(* The buffers of the network and what the callback hears. *)

LEMMA EmitTwice ==
    ASSUME NEW p \in Parsers, NEW a \in Seq(Marks), NEW b \in Seq(Marks), NEW f \in BOOLEAN
    PROVE  Emit(Emit(p, "string", a, FALSE), "string", b, f) = Emit(p, "string", a \o b, f)
<1>1. p.told \in Seq(Events) /\ p.stack \in Seq(Slots)
  BY DEF Parsers
<1> PICK t : t = Tell(p.told, Piece(p.stack, a, FALSE))
  OBVIOUS
<1> PICK q : q = [p EXCEPT !.told = t]
  OBVIOUS
<1>2. Emit(p, "string", a, FALSE) = q
  BY DEF Emit, Piece
<1>3. q.told = t /\ q.stack = p.stack
  BY DEF Parsers
<1> PICK u : u = Tell(t, Piece(p.stack, b, f))
  OBVIOUS
<1>4. Emit(q, "string", b, f) = [q EXCEPT !.told = u]
  BY <1>3 DEF Emit, Piece
<1>5. u = Tell(p.told, Piece(p.stack, a \o b, f))
  BY <1>1, TellTwice
<1>6. Emit(p, "string", a \o b, f) = [p EXCEPT !.told = u]
  BY <1>5 DEF Emit, Piece
<1>7. [q EXCEPT !.told = u] = [p EXCEPT !.told = u]
  BY DEF Parsers
<1> QED  BY <1>2, <1>4, <1>6, <1>7

LEMMA BytesTwice ==
    ASSUME NEW p \in Parsers, NEW a \in Seq(Marks), NEW b \in Seq(Marks)
    PROVE  EmitBytes(EmitBytes(p, a), b) = EmitBytes(p, a \o b)
<1>1. CASE p.inKey
  <2> PICK k : k = Cut(p.keybuf \o a)
    OBVIOUS
  <2> PICK q : q = [p EXCEPT !.keybuf = k]
    OBVIOUS
  <2>1. EmitBytes(p, a) = q
    BY <1>1 DEF EmitBytes
  <2>2. q.keybuf = k /\ q.inKey = p.inKey
    BY DEF Parsers
  <2>3. EmitBytes(q, b) = [q EXCEPT !.keybuf = Cut(k \o b)]
    BY <1>1, <2>2 DEF EmitBytes
  <2>4. Cut(k \o b) = Cut(p.keybuf \o (a \o b))
    BY CutTwice DEF Parsers
  <2> PICK l : l = Cut(k \o b)
    OBVIOUS
  <2>5. EmitBytes(p, a \o b) = [p EXCEPT !.keybuf = l]
    BY <1>1, <2>4 DEF EmitBytes
  <2>6. [q EXCEPT !.keybuf = l] = [p EXCEPT !.keybuf = l]
    BY DEF Parsers
  <2> QED  BY <2>1, <2>3, <2>5, <2>6
<1>2. CASE ~p.inKey
  <2> PICK q : q = Emit(p, "string", a, FALSE)
    OBVIOUS
  <2>1. ~q.inKey
    <3>1. Alike(p, q)
      BY EmitIs DEF Names
    <3> QED  BY <1>2, <3>1 DEF Alike
  <2>2. EmitBytes(p, a) = q /\ EmitBytes(p, a \o b) = Emit(p, "string", a \o b, FALSE)
    BY <1>2 DEF EmitBytes
  <2>3. EmitBytes(q, b) = Emit(q, "string", b, FALSE)
    BY <2>1 DEF EmitBytes
  <2>4. Emit(q, "string", b, FALSE) = Emit(p, "string", a \o b, FALSE)
    BY EmitTwice
  <2> QED  BY <2>2, <2>3, <2>4
<1> QED  BY <1>1, <1>2

LEMMA HeardIs ==
    ASSUME JInv
    PROVE  /\ Heard \in Parsers /\ Alike(js, Heard) /\ Heard.inKey = js.inKey
           /\ Flush(Heard) = Delivered(Flush(js))
<1>1. Heard \in Parsers /\ Alike(js, Heard) /\ Heard.inKey = js.inKey /\ Heard.pending = js.pending
  BY LensIs, DeliveredIs DEF Heard, Alike
<1>2. CASE run = 0
  BY <1>1, <1>2 DEF Heard, Delivered
<1>3. CASE run # 0
  <2>1. run > 0 /\ ~js.pending
    BY <1>3 DEF JInv, Scans
  <2>2. Flush(js) = js /\ Flush(Heard) = Heard
    BY <1>1, <2>1, FlushedIs, FlushIs
  <2> QED  BY <1>1, <2>2 DEF Heard
<1> QED  BY <1>1, <1>2, <1>3

LEMMA DeliveredMore ==
    ASSUME JInv, NEW p \in Parsers, NEW b \in Seq(Marks)
    PROVE  EmitBytes(Delivered(p), b) = EmitBytes(p, Scanned \o b)
<1>1. CASE run = 0
  <2>1. Scanned = <<>> /\ <<>> \o b = b
    BY <1>1, ScannedIs
  <2> QED  BY <1>1, <2>1 DEF Delivered
<1>2. CASE run # 0
  BY <1>2, ScannedIs, BytesTwice DEF Delivered
<1> QED  BY <1>1, <1>2

LEMMA ScanMore ==
    ASSUME JInv, StringPlain
    PROVE  Scanned' = Scanned \o <<sym>>
<1>1. /\ at' = at + 1 /\ run' = run + 1 /\ text' = text /\ Unread
  BY DEF StringPlain, In, Consume, Keep
<1>2. /\ at \in Nat /\ run \in Nat /\ run <= at /\ text \in Seq(Marks) /\ Len(text) \in Nat
      /\ at + 1 <= Len(text) /\ sym \in Marks
  BY <1>1, SymIs DEF JInv, Scans
<1>3. SubSeq(text, at - run + 1, at + 1) = Scanned \o <<sym>>
  BY <1>2, SliceMore DEF Scanned, sym
<1>4. Scanned' = SubSeq(text', at' - run' + 1, at')
  BY DEF Scanned
<1>5. at' - run' + 1 = at - run + 1
  BY <1>1, <1>2
<1> QED  BY <1>1, <1>3, <1>4, <1>5

LEMMA Unseen ==
    ASSUME JInv, TextNext, js.st = "string", result' = result
    PROVE  Heard' = IF at' = at THEN Heard ELSE StringReads(Heard, sym)
<1>1. /\ Heard \in Parsers /\ Alike(js, Heard) /\ Heard.inKey = js.inKey
      /\ Flush(Heard) = Delivered(Flush(js)) /\ Flush(js) \in Parsers
      /\ at \in Nat /\ at + 1 # at /\ js \in Parsers
  BY HeardIs, FlushedIs, LensIs DEF JInv, Scans
<1>2. CASE \E s \in corpus.symbols : Arrive(s)
  <2>1. Scanned' = Scanned /\ at' = at /\ js' = js /\ run' = run
    BY <1>2, ArriveStays DEF Arrive
  <2> QED  BY <2>1 DEF Heard, Delivered
<1>3. CASE StringPlain
  <2>1. /\ js' = Flush(js) /\ at' = at + 1 /\ run' = run + 1 /\ run + 1 # 0 /\ Unread
        /\ sym \notin {"Q", "B", "ctl"}
    BY <1>3 DEF StringPlain, In, Consume, JInv, Scans
  <2>2. Heard' = EmitBytes(Flush(js), Scanned \o <<sym>>)
    BY <1>3, <2>1, ScanMore DEF Heard, Delivered
  <2>3. StringReads(Heard, sym) = EmitBytes(Flush(Heard), <<sym>>)
    BY <2>1 DEF StringReads
  <2>4. EmitBytes(Delivered(Flush(js)), <<sym>>) = EmitBytes(Flush(js), Scanned \o <<sym>>)
    BY <1>1, <2>1, SymIs, DeliveredMore
  <2> QED  BY <1>1, <2>1, <2>2, <2>3, <2>4
<1>4. CASE StringCloses
  <2>1. /\ js' = IF js.inKey THEN KeyEnds(Delivered(Flush(js)))
                 ELSE ValueDone(Emit(Flush(js), "string", Scanned, TRUE))
        /\ at' = at + 1 /\ run' = 0 /\ sym = "Q"
    BY <1>4 DEF StringCloses, Consume
  <2>2. Heard' = js'
    BY <2>1 DEF Heard, Delivered
  <2>3. CASE js.inKey
    <3>1. StringReads(Heard, sym) = KeyEnds(Flush(Heard))
      BY <1>1, <2>1, <2>3 DEF StringReads
    <3> QED  BY <1>1, <2>1, <2>2, <2>3, <3>1
  <2>4. CASE ~js.inKey
    <3>1. StringReads(Heard, sym) = ValueDone(Emit(Flush(Heard), "string", <<>>, TRUE))
      BY <1>1, <2>1, <2>4 DEF StringReads
    <3> PICK p \in Parsers : p = Flush(js)
      BY <1>1
    <3>2. ~p.inKey
      BY <2>4, FlushedIs DEF Alike
    <3>3. Emit(Delivered(p), "string", <<>>, TRUE) = Emit(p, "string", Scanned, TRUE)
      <4>1. CASE run = 0
        BY <4>1, ScannedIs DEF Delivered
      <4>2. CASE run # 0
        <5>1. Delivered(p) = Emit(p, "string", Scanned, FALSE)
          BY <3>2, <4>2 DEF Delivered, EmitBytes
        <5>2. Scanned \in Seq(Marks) /\ <<>> \in Seq(Marks) /\ Scanned \o <<>> = Scanned
          BY ScannedIs
        <5> QED  BY <5>1, <5>2, EmitTwice
      <4> QED  BY <4>1, <4>2
    <3> QED  BY <1>1, <2>1, <2>2, <2>4, <3>1, <3>3
  <2> QED  BY <2>3, <2>4
<1>5. CASE StringEscape
  <2>1. js' = [Heard EXCEPT !.st = "escape"] /\ at' = at + 1 /\ run' = 0 /\ sym = "B"
    BY <1>5 DEF StringEscape, Consume, Heard
  <2>2. Heard' = js'
    BY <2>1 DEF Heard, Delivered
  <2>3. StringReads(Heard, sym) = [Heard EXCEPT !.st = "escape"]
    BY <2>1 DEF StringReads
  <2> QED  BY <1>1, <2>1, <2>2, <2>3
<1>6. CASE StringControl
  <2>1. js' = Fail(Delivered(Flush(js))) /\ at' = at + 1 /\ run' = 0 /\ sym = "ctl"
    BY <1>6 DEF StringControl, Consume
  <2>2. Heard' = js'
    BY <2>1 DEF Heard, Delivered
  <2>3. StringReads(Heard, sym) = Fail(Flush(Heard))
    BY <2>1 DEF StringReads
  <2> QED  BY <1>1, <2>1, <2>2, <2>3
<1>7. CASE ChunkEnds
  <2>1. js' = Heard /\ at' = at /\ run' = 0
    BY <1>7 DEF ChunkEnds, Heard
  <2> QED  BY <2>1 DEF Heard, Delivered
<1>8. ASSUME Escape \/ Hex \/ Number \/ Literal \/ Space \/ Value \/ Key \/ Colon \/ Comma \/ Close \/ Neither
      PROVE  FALSE
  BY <1>8 DEF Escape, Hex, Number, Literal, Space, Value, Key, Colon, Comma, Close, Neither, In, Boundaries
<1>9. ASSUME FinishText PROVE FALSE
  BY <1>9 DEF FinishText
<1> QED  BY <1>2, <1>3, <1>4, <1>5, <1>6, <1>7, <1>8, <1>9 DEF TextNext

\* The parser stays within its stack, its key buffer and its number buffer, and a step that counts in
\* the container on top of the stack, or that reads or ends a key, finds one, an object for a key
\* (push, pop, emit_bytes, number_step and the uses of [depth - 1] in json_stream_feed), for every text.
THEOREM ParserStaysWithin == TextSpec => []InItsBuffers
<1>1. TextInit => JInv
  BY JStart
<1>2. JInv /\ [TextNext]_textVars => JInv'
  BY JStep
<1>3. JInv => InItsBuffers
  BY DEF JInv, Within, InItsBuffers
<1> QED  BY <1>1, <1>2, <1>3, PTL DEF TextSpec

\* Where the network's buffers end within a string or a key does not show in what the callback hears
\* (the run flush at the end of json_stream_feed), for every text and every cutting of it.
THEOREM CutsDoNotShow == TextSpec => CutsUnseen
<1>1. TextInit => JInv
  BY JStart
<1>2. JInv /\ [TextNext]_textVars => JInv'
  BY JStep
<1>3. ASSUME JInv, [TextNext]_textVars
      PROVE  [js.st = "string" /\ result' = result =>
                Heard' = IF at' = at THEN Heard ELSE StringReads(Heard, sym)]_textVars
  BY <1>3, Unseen
<1> QED  BY <1>1, <1>2, <1>3, PTL DEF TextSpec, CutsUnseen
=============================================================================
