----------------------------- MODULE JsonStream -----------------------------
(***************************************************************************)
(* The streaming JSON tokenizer (src/common/json.c).  Every document of    *)
(* the server passes through it, a network buffer at a time: a buffer may  *)
(* end between any two bytes.                                              *)
(*                                                                         *)
(* The text is a sequence of symbols.  "Q" is a quote and "B" a backslash; *)
(* "H", "L" are the four hex digits of a high and of a low surrogate;      *)
(* "ctl" is a raw control character; "1" is any digit but 0.  The symbols  *)
(* arrive one by one, and the buffer may end after each.  A callback that  *)
(* refuses an event ends the parsing: as if the text had ended there.      *)
(***************************************************************************)
EXTENDS Integers, Sequences, SequencesExt

CONSTANTS
    Corpora,        \* what a peer may send: any text of at most .most symbols of .symbols
                    \* that begins as one of .begins does
    JSON_MAX_DEPTH, \* containers that may be open
    JSON_KEY_MAX,   \* symbols of a key that are kept
    JSON_NUM_MAX    \* symbols a number may have

ASSUME JsonAssumption ==
    JSON_MAX_DEPTH \in Nat /\ JSON_KEY_MAX \in Nat /\ JSON_NUM_MAX \in Nat \ {0}

VARIABLES
    corpus, \* the one of Corpora this text is from
    text,   \* what has arrived
    at,     \* how much of it has been consumed
    run,    \* how many symbols of a string have been scanned and not delivered
    js,     \* the parser, and in .told the events its callback got
    result  \* of json_stream_finish, or "none"

textVars == <<corpus, text, at, run, js, result>>

States == {"value", "arr_first", "obj_first", "obj_key", "string", "escape", "uhex",
           "colon", "number", "literal", "after", "done", "error"}

Literals == {<<"t", "r", "u", "e">>, <<"f", "a", "l", "s", "e">>, <<"n", "u", "l", "l">>}

TextInit ==
    /\ corpus \in Corpora
    /\ text = <<>> /\ at = 0 /\ run = 0 /\ result = "none"
    /\ js = [st |-> "value", stack |-> <<>>, inKey |-> FALSE, keybuf |-> <<>>, num |-> <<>>,
             sub |-> 0, pending |-> FALSE, told |-> <<>>]

-----------------------------------------------------------------------------
(* What the parser does to itself: p is its state. *)

Fail(p) == [p EXCEPT !.st = "error"]

\* The pieces of one string are told as one, as a consumer that appends them sees them.
Tell(told, e) ==
    IF told # <<>> /\ Last(told).ev = "string" /\ ~Last(told).final /\ e.ev = "string" /\ e.path = Last(told).path
    THEN Append(Front(told), [e EXCEPT !.data = Last(told).data \o @])
    ELSE Append(told, e)

Emit(p, ev, data, final) ==
    [p EXCEPT !.told = Tell(@, [ev |-> ev, path |-> p.stack, data |-> data, final |-> final])]

Cut(s) == SubSeq(s, 1, IF Len(s) < JSON_KEY_MAX THEN Len(s) ELSE JSON_KEY_MAX)

EmitBytes(p, b) == IF p.inKey THEN [p EXCEPT !.keybuf = Cut(@ \o b)] ELSE Emit(p, "string", b, FALSE)

\* A high surrogate that no low one has followed.
Flush(p) == IF p.pending THEN EmitBytes([p EXCEPT !.pending = FALSE], <<"FFFD">>) ELSE p

ValueDone(p) == [p EXCEPT !.st = IF p.stack = <<>> THEN "done" ELSE "after"]

Push(p, kind) ==
    IF Len(p.stack) >= JSON_MAX_DEPTH THEN Fail(p)
    ELSE [Emit(p, IF kind = "obj" THEN "obj_start" ELSE "arr_start", <<>>, TRUE) EXCEPT
            !.stack = Append(@, [kind |-> kind, index |-> 0, key |-> <<>>]),
            !.st = IF kind = "obj" THEN "obj_first" ELSE "arr_first"]

Pop(p, kind) ==
    IF p.stack = <<>> \/ Last(p.stack).kind # kind THEN Fail(p)
    ELSE ValueDone(Emit([p EXCEPT !.stack = Front(@)], IF kind = "obj" THEN "obj_end" ELSE "arr_end", <<>>, TRUE))

BeginKey(p) == [p EXCEPT !.inKey = TRUE, !.keybuf = <<>>, !.st = "string"]

BeginValue(p, s) ==
    CASE s = "{" -> Push(p, "obj")
      [] s = "[" -> Push(p, "arr")
      [] s = "Q" -> [p EXCEPT !.inKey = FALSE, !.st = "string"]
      [] \E w \in Literals : w[1] = s -> [p EXCEPT !.st = "literal", !.num = <<s>>]
      [] s \in {"-", "0", "1"} ->
            [p EXCEPT !.st = "number", !.num = <<s>>, !.sub = CASE s = "-" -> 0 [] s = "0" -> 1 [] OTHER -> 2]
      [] OTHER -> Fail(p)

\* The grammar of numbers: -? (0 | [1-9][0-9]*) (. [0-9]+)? ([eE] [+-]? [0-9]+)?
Continues ==
    LET On(s, cs, t) == {<<s, d, t>> : d \in cs}
        Digits == {"0", "1"}
    IN  On(0, {"0"}, 1) \union On(0, {"1"}, 2) \union On(2, Digits, 2)
        \union On(1, {"."}, 3) \union On(2, {"."}, 3) \union On(3, Digits, 4) \union On(4, Digits, 4)
        \union On(1, {"e"}, 5) \union On(2, {"e"}, 5) \union On(4, {"e"}, 5)
        \union On(5, {"+", "-"}, 6) \union On(5, Digits, 7) \union On(6, Digits, 7) \union On(7, Digits, 7)

EndNumber(p) == IF p.sub \in {1, 2, 4, 7} THEN ValueDone(Emit(p, "number", p.num, TRUE)) ELSE Fail(p)

-----------------------------------------------------------------------------
(* json_stream_feed: one pass of its loop, by the state it is in. *)

Unread == at < Len(text)
sym == text[at + 1]
In(states) == Unread /\ js.st \in states /\ result = "none"

Consume(p) == js' = p /\ at' = at + 1
Keep == UNCHANGED <<corpus, text, result>>

\* The next symbol of the text.
Arrive(s) ==
    /\ ~Unread /\ js.st \notin {"done", "error"} /\ result = "none"
    /\ Len(text) < corpus.most
    /\ text' = Append(text, s)
    /\ \E b \in corpus.begins : IsPrefix(text', b) \/ IsPrefix(b, text')
    /\ UNCHANGED <<corpus, at, run, js, result>>

Scanned == SubSeq(text, at - run + 1, at)

\* Mutant: what stood at the end of a buffer goes with it.
LoseRun(p) == p

\* What has been scanned of a string is delivered.
Delivered(p) == IF run = 0 THEN p ELSE EmitBytes(p, Scanned)

StringPlain ==
    /\ In({"string"}) /\ sym \notin {"Q", "B", "ctl"}
    /\ Consume(Flush(js)) /\ run' = run + 1
    /\ Keep

KeyEnds(p) ==
    [Emit([p EXCEPT !.stack[Len(p.stack)].key = p.keybuf, !.inKey = FALSE], "key", p.keybuf, TRUE)
     EXCEPT !.st = "colon"]

StringCloses ==
    /\ In({"string"}) /\ sym = "Q"
    /\ Consume(LET p == Flush(js) IN
               IF js.inKey THEN KeyEnds(Delivered(p))
               ELSE ValueDone(Emit(p, "string", Scanned, TRUE)))
    /\ run' = 0
    /\ Keep

StringEscape ==
    /\ In({"string"}) /\ sym = "B"
    /\ Consume([Delivered(js) EXCEPT !.st = "escape"]) /\ run' = 0
    /\ Keep

StringControl ==
    /\ In({"string"}) /\ sym = "ctl"
    /\ Consume(Fail(Delivered(Flush(js)))) /\ run' = 0
    /\ Keep

\* The buffer ends in a string: what has been scanned is delivered from it.
ChunkEnds ==
    /\ ~Unread /\ js.st = "string" /\ run > 0 /\ result = "none"
    /\ js' = Delivered(js) /\ run' = 0
    /\ UNCHANGED at /\ Keep

Escape ==
    /\ In({"escape"})
    /\ Consume(CASE sym = "u" -> [js EXCEPT !.st = "uhex"]
                 [] sym \in {"Q", "B", "n"} -> [EmitBytes(Flush(js), <<"B" \o sym>>) EXCEPT !.st = "string"]
                 [] OTHER -> Fail(js))
    /\ UNCHANGED run /\ Keep

\* The fourth digit of \uXXXX.
EndUescape(p) ==
    CASE p.pending /\ sym = "L" -> EmitBytes([p EXCEPT !.pending = FALSE], <<"pair">>)
      [] sym = "H" -> [Flush(p) EXCEPT !.pending = TRUE]
      [] ~p.pending /\ sym = "L" -> EmitBytes(p, <<"FFFD">>)
      [] OTHER -> EmitBytes(Flush(p), <<"uC">>)

Hex ==
    /\ In({"uhex"})
    /\ Consume(IF sym \in {"H", "L", "C"} THEN [EndUescape(js) EXCEPT !.st = "string"] ELSE Fail(js))
    /\ UNCHANGED run /\ Keep

\* A number ends before the first symbol that cannot continue it, which is looked at again.
Number ==
    /\ In({"number"})
    /\ \/ /\ \E t \in Continues :
                /\ t[1] = js.sub /\ t[2] = sym
                /\ Consume(IF Len(js.num) >= JSON_NUM_MAX THEN Fail(js)
                           ELSE [js EXCEPT !.num = Append(@, sym), !.sub = t[3]])
       \/ /\ \A t \in Continues : ~(t[1] = js.sub /\ t[2] = sym)
          /\ js' = IF js.sub = 1 /\ sym \in {"0", "1"} THEN Fail(js) ELSE EndNumber(js)
          /\ UNCHANGED at
    /\ UNCHANGED run /\ Keep

Literal ==
    /\ In({"literal"})
    /\ LET got == Append(js.num, sym) IN
       Consume(IF got \in Literals THEN ValueDone(Emit(js, "literal", got, TRUE))
               ELSE IF \E w \in Literals : IsPrefix(got, w) THEN [js EXCEPT !.num = got]
               ELSE Fail(js))
    /\ UNCHANGED run /\ Keep

Boundaries == {"value", "arr_first", "obj_first", "obj_key", "colon", "after"}

Space ==
    /\ In(Boundaries) /\ sym = " "
    /\ Consume(js)
    /\ UNCHANGED run /\ Keep

Value ==
    /\ In({"value", "arr_first"}) /\ sym # " " /\ ~(js.st = "arr_first" /\ sym = "]")
    /\ Consume(BeginValue(js, sym))
    /\ UNCHANGED run /\ Keep

Key ==
    /\ In({"obj_first", "obj_key"}) /\ sym # " " /\ ~(js.st = "obj_first" /\ sym = "}")
    /\ Consume(IF sym = "Q" THEN BeginKey(js) ELSE Fail(js))
    /\ UNCHANGED run /\ Keep

Colon ==
    /\ In({"colon"}) /\ sym # " "
    /\ Consume(IF sym = ":" THEN [js EXCEPT !.st = "value"] ELSE Fail(js))
    /\ UNCHANGED run /\ Keep

Comma ==
    /\ In({"after"}) /\ sym = ","
    /\ Consume([js EXCEPT !.stack[Len(js.stack)].index = @ + 1,
                          !.st = IF Last(js.stack).kind = "obj" THEN "obj_key" ELSE "value"])
    /\ UNCHANGED run /\ Keep

Close ==
    /\ \/ In({"after"}) /\ sym \in {"]", "}"}
       \/ In({"arr_first"}) /\ sym = "]"
       \/ In({"obj_first"}) /\ sym = "}"
    /\ Consume(Pop(js, IF sym = "]" THEN "arr" ELSE "obj"))
    /\ UNCHANGED run /\ Keep

Neither ==
    /\ In({"after"}) /\ sym \notin {" ", ",", "]", "}"}
    /\ Consume(Fail(js))
    /\ UNCHANGED run /\ Keep

\* json_stream_finish: only a number at the top level ends with its text.
FinishText ==
    /\ ~Unread \/ js.st \in {"done", "error"}
    /\ run = 0 /\ result = "none"
    /\ LET p == IF js.st = "number" /\ js.stack = <<>> THEN EndNumber(js) ELSE js
       IN  /\ js' = IF p.st = "done" THEN p ELSE Fail(p)
           /\ result' = IF p.st = "done" THEN "ok" ELSE "bad"
    /\ UNCHANGED <<corpus, text, at, run>>

TextNext ==
    \/ \E s \in corpus.symbols : Arrive(s)
    \/ StringPlain \/ StringCloses \/ StringEscape \/ StringControl \/ ChunkEnds
    \/ Escape \/ Hex \/ Number \/ Literal
    \/ Space \/ Value \/ Key \/ Colon \/ Comma \/ Close \/ Neither
    \/ FinishText

TextSpec == TextInit /\ [][TextNext]_textVars
-----------------------------------------------------------------------------
\* The parser with what has been scanned of a string told already.
Heard == Delivered(js)

\* What the next symbol of a string makes of a parser that has nothing scanned.
StringReads(p, s) ==
    CASE s = "Q" /\ p.inKey -> KeyEnds(Flush(p))
      [] s = "Q" /\ ~p.inKey -> ValueDone(Emit(Flush(p), "string", <<>>, TRUE))
      [] s = "B" -> [p EXCEPT !.st = "escape"]
      [] s = "ctl" -> Fail(Flush(p))
      [] OTHER -> EmitBytes(Flush(p), <<s>>)

(***************************************************************************)
(* Where the buffers of the network end does not show: within a string,    *)
(* whose plain parts are delivered a buffer at a time, the end of a buffer *)
(* changes nothing of what the callback has been told when all is told,    *)
(* nor of a key and its truncation; and a symbol does to it what it would  *)
(* do if every symbol came in a buffer of its own.                         *)
(***************************************************************************)
CutsUnseen ==
    [][js.st = "string" /\ result' = result => Heard' = IF at' = at THEN Heard ELSE StringReads(Heard, sym)]_textVars

(***************************************************************************)
(* The parser stays within its arrays, and asks for the top of its stack   *)
(* only when there is one: a key is read in an object, a comma or a key's  *)
(* end finds a container to count it in, whatever was closed before.       *)
(***************************************************************************)
InItsBuffers ==
    /\ Len(js.stack) <= JSON_MAX_DEPTH /\ Len(js.keybuf) <= JSON_KEY_MAX
    /\ js.st = "number" => Len(js.num) <= JSON_NUM_MAX
    /\ js.st \in {"arr_first", "after"} => js.stack # <<>>
    /\ js.st \in {"obj_first", "obj_key", "colon"} \/ (js.inKey /\ js.st \in {"string", "escape", "uhex"}) =>
         js.stack # <<>> /\ Last(js.stack).kind = "obj"
=============================================================================
