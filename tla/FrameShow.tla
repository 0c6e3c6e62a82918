------------------------------ MODULE FrameShow ------------------------------
(***************************************************************************)
(* From a frame document to the colours on the screen: the streaming frame *)
(* decoder (src/src/common/frame.c), the palette it fills (palette.c), the *)
(* two colour tables of the HSTX scanout (scanout_hstx.c) and the kiosk's  *)
(* render (kiosk_loop.c), on core 0.                                       *)
(*                                                                         *)
(* A document arrives as members, one step each, in any order, and may be  *)
(* cut or broken after any of them.  A colour is a number, so that halfway *)
(* between two colours and the nearest of several are arithmetic.  An op   *)
(* is drawn on one line, with one blended edge against the background.     *)
(***************************************************************************)
EXTENDS Integers, Sequences, FiniteSets

CONSTANTS
    Bgs, Fills,          \* colours of a background, of a paint
    Ops,                 \* ops with a colour: rectangles, texts, broken ones
    AppBg,               \* background of a document that names none
    Dark,                \* colour of the kiosk's own badge
    Ids, NoId,           \* ids of static sets
    Defs,                \* ids of the definitions of a set
    PALETTE_SIZE, PALETTE_RESET_THRESHOLD, PALETTE_BLEND_CACHE,
    ARENA_CAP,           \* cells of the string arena
    KIOSK_MAX_OPS,
    LastLine,            \* lines of the screen: 1 .. LastLine
    MaxMembers           \* bound: the most members of each document in turn

ASSUME PaletteAssumption ==
    PALETTE_SIZE \in Nat \ {0} /\ PALETTE_RESET_THRESHOLD \in Nat /\ PALETTE_BLEND_CACHE \in Nat
ASSUME ColoursAssumption ==
    /\ Bgs \cup Fills \cup {AppBg, Dark} \subseteq Nat
    /\ Ops \subseteq [colour : Nat, text : Seq(Nat), ok : BOOLEAN]
ASSUME LimitsAssumption == ARENA_CAP \in Nat /\ KIOSK_MAX_OPS \in Nat /\ LastLine \in Nat \ {0}
ASSUME NoIdAssumption == NoId \notin Ids

VARIABLES
    pal,      \* palette_t: rgb, dirty, cache; reset = a generation not uploaded yet
    shown,    \* the two colour tables and the one new lines are packed against
    lines,    \* published lines: a table and pixels, each an index and the colour meant
    frame,    \* frame_t
    dec,      \* frame_decoder_t: what it is doing, what it staged
    store,    \* the geometry store: the open set and the one being written
    sent,     \* the members of the document so far: how many, the kind of the last, each kind in order
    kiosk,    \* frame_valid, the badge, the next line to draw
    docs      \* documents so far

vars == <<pal, shown, lines, frame, dec, store, sent, kiosk, docs>>

Lines == 1 .. LastLine
Indices == 1 .. PALETTE_SIZE
NoText == <<>>
Nothing == [table |-> 0, px |-> {}]   \* a line not drawn, or a copy of the one above

-----------------------------------------------------------------------------
(***************************************************************************)
(* The palette.                                                            *)
(***************************************************************************)
Distance(a, b) == IF a < b THEN b - a ELSE a - b
Present(p, c) == \E i \in DOMAIN p.rgb : p.rgb[i] = c

\* The entry for c: its own, or the first of the nearest ones.
IsNearest(rgb, c, i) ==
    \A j \in DOMAIN rgb :
        \/ Distance(c, rgb[i]) < Distance(c, rgb[j])
        \/ Distance(c, rgb[i]) = Distance(c, rgb[j]) /\ i <= j

Nearest(p, c) == CHOOSE i \in DOMAIN p.rgb : IsNearest(p.rgb, c, i)

EmptyPalette == [rgb |-> <<>>, dirty |-> 0, cache |-> <<>>, reset |-> TRUE]

palette_reset(p) == EmptyPalette

palette_add(p, c) ==
    IF Present(p, c) \/ Len(p.rgb) = PALETTE_SIZE THEN p
    ELSE [p EXCEPT !.rgb = Append(@, c)]

Halfway(p, bg, fg) == (p.rgb[bg] + p.rgb[fg] + 1) \div 2

\* The palette and the entry after a pixel of fg is blended over bg.  The ring
\* of remembered blends forgets the oldest.
palette_blend(p, bg, fg) ==
    LET hits == {k \in DOMAIN p.cache : p.cache[k].bg = bg /\ p.cache[k].fg = fg}
        mixed == Halfway(p, bg, fg)
        q == palette_add(p, mixed)
        seen == Append(p.cache, [bg |-> bg, fg |-> fg, idx |-> Nearest(q, mixed)])
    IN  IF bg = fg THEN [pal |-> p, idx |-> bg]
        ELSE IF hits # {} THEN [pal |-> p, idx |-> p.cache[CHOOSE k \in hits : TRUE].idx]
        ELSE [pal |-> [q EXCEPT !.cache =
                          IF Len(seen) > PALETTE_BLEND_CACHE THEN Tail(seen) ELSE seen],
              idx |-> Nearest(q, mixed)]

-----------------------------------------------------------------------------
(***************************************************************************)
(* The colour tables.                                                      *)
(***************************************************************************)
\* Mutant: a reset palette is written over the table the old lines still use.
UploadInPlace(s, p) ==
    LET from == IF p.reset THEN 0 ELSE p.dirty
    IN  [s EXCEPT !.tables[s.table] =
            [i \in Indices |-> IF i > from /\ i <= Len(p.rgb) THEN p.rgb[i] ELSE @[i]]]

scanout_upload_palette(s, p) ==
    LET t == IF p.reset THEN 1 - s.table ELSE s.table
        from == IF p.reset THEN 0 ELSE p.dirty
    IN  [table |-> t,
         tables |-> [s.tables EXCEPT ![t] =
            [i \in Indices |-> IF i > from /\ i <= Len(p.rgb) THEN p.rgb[i] ELSE @[i]]]]

Uploaded(p) == [p EXCEPT !.dirty = Len(p.rgb), !.reset = FALSE]

-----------------------------------------------------------------------------
(***************************************************************************)
(* The members of a document.                                              *)
(***************************************************************************)
Op(c, t) == [k |-> "op", colour |-> c, text |-> t]
Use(d, n) == [k |-> "use", def |-> d, paint |-> n]

\* "broken" is an op that is dropped for itself.
Kinds == {"version", "bg", "op", "broken", "paint", "id", "defs", "def"}
NothingSent == [n |-> 0, last |-> "none", of |-> [kind \in Kinds |-> <<>>]]
Sent(kind) == sent.of[kind]

Take(kind, it) ==
    /\ dec.doing = "decode"
    /\ sent.n < MaxMembers[docs]
    /\ sent' = [n |-> sent.n + 1, last |-> kind, of |-> [sent.of EXCEPT ![kind] = Append(@, it)]]
    /\ UNCHANGED <<shown, lines, kiosk, docs>>

\* A frame of a document not read yet; the op table and the arena start empty.
EmptyFrame(bg) ==
    [ops |-> <<>>, arena |-> <<>>, paints |-> <<>>, bg |-> bg, sid |-> NoId,
     droppedOps |-> 0, droppedDefs |-> 0, truncated |-> FALSE]

NoDocument ==
    [doing |-> "idle", version |-> "none", sbUsed |-> FALSE, begun |-> FALSE, stored |-> FALSE,
     overflow |-> FALSE]

\* frame_decoder_init, for a 200 or a built-in frame.
DecoderInit ==
    /\ dec.doing = "idle"
    /\ docs < Len(MaxMembers) /\ docs' = docs + 1
    /\ LET p == IF Len(pal.rgb) > PALETTE_RESET_THRESHOLD THEN palette_reset(pal) ELSE pal
       IN  /\ pal' = palette_add(p, AppBg)
           /\ frame' = EmptyFrame(Nearest(pal', AppBg))
    /\ dec' = [NoDocument EXCEPT !.doing = "decode"]
    /\ sent' = NothingSent
    /\ kiosk' = [kiosk EXCEPT !.valid = FALSE]
    /\ UNCHANGED <<shown, lines, store>>

\* The version comes first or not at all.
TakeVersion(ok) ==
    /\ sent.n = 0
    /\ Take("version", ok)
    /\ dec' = [dec EXCEPT !.version = IF ok THEN "good" ELSE "bad"]
    /\ UNCHANGED <<pal, frame, store>>

\* The value is staged where a paint's fill is staged: behind one it is
\* appended to, it does not parse.
TakeBg(c) ==
    /\ Take("bg", [colour |-> c, paints |-> Len(Sent("paint"))])
    /\ dec' = [dec EXCEPT !.sbUsed = FALSE]
    /\ IF dec.sbUsed THEN UNCHANGED <<pal, frame>>
       ELSE /\ pal' = palette_add(pal, c)
            /\ frame' = [frame EXCEPT !.bg = Nearest(pal', c)]
    /\ UNCHANGED store

TakePaint(c) ==
    /\ Take("paint", c)
    /\ dec' = [dec EXCEPT !.sbUsed = TRUE]
    /\ pal' = palette_add(pal, c)
    /\ frame' = [frame EXCEPT !.paints = Append(@, Nearest(pal', c))]
    /\ UNCHANGED store

-----------------------------------------------------------------------------
(***************************************************************************)
(* Ops and the string arena.                                               *)
(***************************************************************************)
\* The arena once a text is staged: a length and as many characters as fit.
Staged(arena, t) ==
    LET room == ARENA_CAP - Len(arena) - 1
        kept == SubSeq(t, 1, IF Len(t) < room THEN Len(t) ELSE room)
    IN  Append(arena, Len(kept)) \o kept

\* The text a renderer reads at an op's str, if it lies in the arena.
TextAt(arena, at) ==
    IF at > Len(arena) \/ at + arena[at] > Len(arena) THEN NoText
    ELSE SubSeq(arena, at + 1, at + arena[at])

\* Mutant: a dropped op clears the arena, with the texts of the ops before it.
ClearArena(arena) == <<>>

\* What a dropped op staged is taken back.
RolledBack(arena) == arena

\* op_begin .. op_end: the text is staged as it streams in, before the op is
\* known to be good.  An op is dropped for itself, for want of room for a length
\* in the arena, or because the table is full.
TakeOp(c, t, ok) ==
    LET arena == frame.arena
        texted == t # NoText
        noRoom == texted /\ Len(arena) >= ARENA_CAP
        staged == IF texted /\ ~noRoom THEN Staged(arena, t) ELSE arena
        parsed == ok /\ ~noRoom
        full == Len(frame.ops) >= KIOSK_MAX_OPS
        op == [k |-> "op", cidx |-> Nearest(pal', c), str |-> IF texted THEN Len(arena) + 1 ELSE 0]
        cut == [frame EXCEPT !.truncated = @ \/ (texted /\ ~noRoom /\ Len(staged) <= Len(arena) + Len(t))]
    IN  /\ Take(IF ok THEN "op" ELSE "broken", Op(c, t))
        /\ pal' = IF parsed THEN palette_add(pal, c) ELSE pal
        /\ dec' = [dec EXCEPT !.overflow = @ \/ (parsed /\ full)]
        /\ frame' = IF parsed /\ ~full
                    THEN [cut EXCEPT !.ops = Append(@, op), !.arena = staged]
                    ELSE [cut EXCEPT !.arena = RolledBack(arena), !.droppedOps = @ + 1]
        /\ UNCHANGED store

TakeUse(d, n) ==
    LET full == Len(frame.ops) >= KIOSK_MAX_OPS
    IN  /\ Take("op", Use(d, n))
        /\ dec' = [dec EXCEPT !.overflow = @ \/ full]
        /\ frame' = IF full THEN [frame EXCEPT !.droppedOps = @ + 1]
                    ELSE [frame EXCEPT !.ops = Append(@, [k |-> "use", def |-> d, paint |-> n])]
        /\ UNCHANGED <<pal, store>>

-----------------------------------------------------------------------------
(***************************************************************************)
(* The static set.                                                         *)
(***************************************************************************)
\* The id may come before the definitions or after them.
TakeId(i) ==
    /\ Sent("id") = <<>>
    /\ Take("id", i)
    /\ frame' = [frame EXCEPT !.sid = i]
    /\ store' = IF dec.stored THEN [store EXCEPT !.wrId = i] ELSE store
    /\ UNCHANGED <<pal, dec>>

\* defs_begin.  The open set is gone from here on; a second object adds to the
\* first.  A session that an earlier document left open is not taken over.
TakeDefs ==
    /\ Take("defs", TRUE)
    /\ dec' = IF dec.begun THEN dec ELSE [dec EXCEPT !.begun = TRUE, !.stored = ~store.writing]
    /\ store' = IF dec.begun \/ store.writing THEN store
                ELSE [open |-> NoId, has |-> {}, writing |-> TRUE, wrId |-> frame.sid, wrHas |-> {}]
    /\ UNCHANGED <<pal, frame>>

\* def_end.  A definition the recorder, the store or its own syntax refuses is
\* counted; a polygon may have been stored although its replay failed.
TakeDef(d, fits) ==
    /\ sent.last \in {"defs", "def"}
    /\ Take("def", [def |-> d, fits |-> fits])
    /\ IF ~dec.stored THEN UNCHANGED <<frame, store>>
       ELSE /\ frame' = IF fits THEN frame ELSE [frame EXCEPT !.droppedDefs = @ + 1]
            /\ \E kept \in IF fits THEN {{d}} ELSE {{}, {d}} :
                   store' = [store EXCEPT !.wrHas = @ \cup kept]
    /\ UNCHANGED <<pal, dec>>

-----------------------------------------------------------------------------
(***************************************************************************)
(* The end of a document.                                                  *)
(***************************************************************************)
\* The set the frame names is the one the store has open.
StaticReady(s, i) == i = NoId \/ s.open = i

\* frame_decoder_finish: the status, and what becomes of a write session.
Finished(broken) ==
    LET aborted == IF dec.stored THEN [store EXCEPT !.writing = FALSE, !.wrId = NoId, !.wrHas = {}] ELSE store
        committed == [aborted EXCEPT !.open = store.wrId, !.has = store.wrHas]
        stored == IF dec.begun THEN committed ELSE store
    IN  CASE broken -> [status |-> "json", store |-> aborted]
          [] ~broken /\ dec.version # "good" -> [status |-> "version", store |-> aborted]
          [] ~broken /\ dec.version = "good" /\ dec.begun /\ (~dec.stored \/ store.wrId = NoId)
                 -> [status |-> "store", store |-> aborted]
          [] OTHER -> [status |-> IF ~StaticReady(stored, frame.sid) THEN "missing"
                                  ELSE IF dec.overflow THEN "too many" ELSE "ok",
                       store |-> stored]

\* What a rejected document left in frame_t and in the decoder is never looked
\* at: the next document clears it, and until then the frame is not valid.
Forget ==
    /\ dec' = NoDocument
    /\ frame' = EmptyFrame(1)
    /\ sent' = NothingSent

Finish(broken) ==
    LET end == Finished(broken)
    IN  /\ dec.doing = "decode"
        /\ store' = end.store
        /\ IF end.status = "ok"
           THEN /\ dec' = [dec EXCEPT !.doing = "idle"]
                /\ kiosk' = [kiosk EXCEPT !.valid = TRUE]
                /\ UNCHANGED <<frame, sent>>
           ELSE Forget /\ UNCHANGED kiosk
        /\ UNCHANGED <<pal, shown, lines, docs>>

\* The text did not parse: the request is given up and, with the decoder no
\* longer marked active, frame_decoder_finish never called; or a built-in frame
\* takes the decoder over in the middle of a body.
GiveUp ==
    /\ dec.doing = "decode"
    /\ Forget
    /\ UNCHANGED <<pal, shown, lines, store, kiosk, docs>>

-----------------------------------------------------------------------------
(***************************************************************************)
(* Drawing.                                                                *)
(***************************************************************************)
\* render_frame_now, up to the first band: for a frame just accepted or, at any
\* time while it is valid, for a badge that comes or goes.
RenderBegin(badge) ==
    /\ dec.doing = "idle" /\ kiosk.valid
    /\ LET p == IF badge THEN palette_add(pal, Dark) ELSE pal
       IN  /\ shown' = scanout_upload_palette(shown, p)
           /\ pal' = Uploaded(p)
    /\ dec' = [dec EXCEPT !.doing = "render"]
    /\ kiosk' = [kiosk EXCEPT !.badge = badge, !.line = 1]
    /\ UNCHANGED <<lines, frame, store, sent, docs>>

\* draw_op: the entry op y is drawn with, if it is drawn.
Drawn(y) ==
    IF y > Len(frame.ops) THEN frame.bg
    ELSE LET op == frame.ops[y] IN
         IF op.k = "op" THEN op.cidx
         ELSE IF op.def \in store.has /\ op.paint \in DOMAIN frame.paints THEN frame.paints[op.paint]
         ELSE frame.bg

\* The colour the screen should show for c, all entries considered.
Meant(p, c) == p.rgb[Nearest(p, c)]

\* scanout_encode_line: colours added while drawing are uploaded first.
EncodeTables(s, p) == scanout_upload_palette(s, p)

\* One line through the band and line_sink.  The badge blends over the last one.
\* That the line pool has room for the line is LinePool's concern.
RenderLine ==
    LET y == kiosk.line
        fg == Drawn(y)
        edge == palette_blend(pal, frame.bg, fg)
        badged == kiosk.badge /\ y = LastLine
        dark == Nearest(pal, Dark)
        over == IF badged THEN palette_blend(edge.pal, fg, dark) ELSE [pal |-> edge.pal, idx |-> fg]
        last == over.pal
        want == {<<frame.bg, last.rgb[frame.bg]>>, <<fg, last.rgb[fg]>>,
                 <<edge.idx, Meant(last, Halfway(pal, frame.bg, fg))>>}
                \cup IF badged THEN {<<over.idx, Meant(last, Halfway(last, fg, dark))>>} ELSE {}
    IN  /\ dec.doing = "render"
        /\ shown' = EncodeTables(shown, last)
        /\ pal' = Uploaded(last)
        /\ lines' = [lines EXCEPT ![y] = [table |-> shown'.table, px |-> want]]
        /\ dec' = [dec EXCEPT !.doing = IF y = LastLine THEN "idle" ELSE "render"]
        /\ kiosk' = [kiosk EXCEPT !.line = IF y = LastLine THEN 1 ELSE y + 1]
        /\ UNCHANGED <<frame, store, sent, docs>>

-----------------------------------------------------------------------------
Init ==
    /\ pal = [EmptyPalette EXCEPT !.reset = FALSE]   \* the first upload moves no table
    /\ shown = [table |-> 0, tables |-> [t \in {0, 1} |-> [i \in Indices |-> 0]]]
    /\ lines = [y \in Lines |-> Nothing]
    /\ frame = EmptyFrame(1)
    /\ dec = NoDocument
    /\ store = [open |-> NoId, has |-> {}, writing |-> FALSE, wrId |-> NoId, wrHas |-> {}]
    /\ sent = NothingSent
    /\ kiosk = [valid |-> FALSE, badge |-> FALSE, line |-> 1]
    /\ docs = 0

Member ==
    \/ \E ok \in BOOLEAN : TakeVersion(ok)
    \/ \E c \in Bgs : TakeBg(c)
    \/ \E c \in Fills : TakePaint(c)
    \/ \E it \in Ops : TakeOp(it.colour, it.text, it.ok)
    \/ \E d \in Defs : TakeUse(d, 1)
    \/ \E i \in Ids : TakeId(i)
    \/ TakeDefs
    \/ \E d \in Defs, fits \in BOOLEAN : TakeDef(d, fits)

Next ==
    \/ DecoderInit
    \/ Member
    \/ \E broken \in BOOLEAN : Finish(broken)
    \/ GiveUp
    \/ \E badge \in BOOLEAN : RenderBegin(badge)
    \/ RenderLine

Spec == Init /\ [][Next]_vars

-----------------------------------------------------------------------------
(***************************************************************************)
(* A published line keeps its colours for as long as it may be on screen:  *)
(* whatever the palette does since (new entries, blends, a reset in the    *)
(* middle of the next document, whether that is accepted or not), the      *)
(* table the line names still shows, at every index it uses, the colour    *)
(* that pixel was to have (scanout_hstx.c:43, :185, :197).                 *)
(***************************************************************************)
LinesKeepColours ==
    \A y \in Lines : \A px \in lines[y].px :
        shown.tables[lines[y].table][px[1]] = px[2]

-----------------------------------------------------------------------------
Prefix(s, t) == Len(s) <= Len(t) /\ s = SubSeq(t, 1, Len(s))

\* An entry of the frame stands for a colour of the document, or the nearest
\* there is when the palette is full.
Stands(i, c) == pal.rgb[i] = Meant(pal, c)

OpAsSent(op, it) ==
    /\ op.k = it.k
    /\ op.k = "op" => /\ Stands(op.cidx, it.colour)
                      /\ it.text = NoText <=> op.str = 0
                      /\ op.str # 0 => LET text == TextAt(frame.arena, op.str)
                                       IN  Prefix(text, it.text) /\ (text # it.text => frame.truncated)
    /\ op.k = "use" => op.def = it.def /\ op.paint = it.paint

\* Every op of the document is there, in order, or counted.
OpsAsSent ==
    /\ Len(frame.ops) + frame.droppedOps = Len(Sent("op")) + Len(Sent("broken"))
    /\ frame.droppedOps = Len(Sent("broken")) =>
           \A i \in DOMAIN frame.ops : OpAsSent(frame.ops[i], Sent("op")[i])

\* The background is the last one sent, unless one followed a paint.
BgAsSent ==
    LET bgs == Sent("bg")
    IN  (\A n \in DOMAIN bgs : bgs[n].paints = 0)
            => Stands(frame.bg, IF bgs = <<>> THEN AppBg ELSE bgs[Len(bgs)].colour)

PaintsAsSent ==
    /\ Len(frame.paints) = Len(Sent("paint"))
    /\ \A n \in DOMAIN frame.paints : Stands(frame.paints[n], Sent("paint")[n])

\* The set the frame draws from is the one it names; what the document defined
\* of it is in the store, or counted.
StaticAsSent ==
    LET defs == Sent("def")
        whole == {defs[n].def : n \in {m \in DOMAIN defs : defs[m].fits}}
    IN  /\ Sent("id") # <<>> => store.open = Sent("id")[1]
        /\ Sent("defs") # <<>> =>
               /\ store.open # NoId
               /\ whole \subseteq store.has
               /\ store.has \subseteq {defs[n].def : n \in DOMAIN defs}
               /\ frame.droppedDefs = Cardinality({n \in DOMAIN defs : ~defs[n].fits})

(***************************************************************************)
(* A frame the kiosk may draw, or draw again with a badge, is the document *)
(* that was accepted: a version it knows, every op, paint and background   *)
(* with its colour and every text whole or cut and counted, and its static *)
(* set open in the store under its name (frame.c:320, :540, :785, :819).   *)
(***************************************************************************)
AcceptedAsSent ==
    kiosk.valid =>
        /\ Sent("version") = <<TRUE>>
        /\ OpsAsSent
        /\ BgAsSent
        /\ PaintsAsSent
        /\ StaticAsSent
=============================================================================
