------------------------------ MODULE MCDecoder ------------------------------
(***************************************************************************)
(* The two stages of the frame decoder on small instances: the tokenizer,  *)
(* on every text of a few symbols cut into buffers in every way, against   *)
(* the grammar; and what the decoder and the screen make of the members of *)
(* a document.  All that passes between them is events, so a behaviour     *)
(* takes one of the two.                                                   *)
(***************************************************************************)
EXTENDS FrameShow, JsonStream, TLC

DecoderStart == Init /\ TextInit

\* The second stage looks at no text: one corpus will do for it.
DecoderNext ==
    \/ TextNext /\ docs = 0 /\ UNCHANGED vars
    \/ /\ corpus = CHOOSE k \in Corpora : TRUE
       /\ text = <<>> /\ result = "none"
       /\ Next /\ UNCHANGED textVars

DecoderSpec == DecoderStart /\ [][DecoderNext]_<<textVars, vars>>

-----------------------------------------------------------------------------
(* The tokenizer: texts of each kind of token, and what the grammar says.  *)

SomeCorpora == {
    [begins |-> {<<"[">>, <<"{", "Q", "Q", ":">>}, most |-> 7, symbols |-> {"{", "}", "[", "]", ":", ",", "Q"}],
    [begins |-> {<<"[", "{">>, <<"{", "Q", "Q", ":">>}, most |-> 8, symbols |-> {"{", "}", "[", "]", ":", "Q", "1"}],
    [begins |-> {<<"Q">>}, most |-> 8, symbols |-> {"Q", "B", "u", "H", "L", "C"}],
    [begins |-> {<<"{", "Q">>}, most |-> 9, symbols |-> {"{", "}", "Q", "B", ":", "ctl"}],
    [begins |-> {<<>>}, most |-> 6, symbols |-> {"[", "]", ",", "0", "1", "-", "+", ".", "e"}],
    [begins |-> {<<>>}, most |-> 9, symbols |-> {"[", "]", " ", "n", "u", "l", "t", "r", "e", "f", "a", "s"}]}

Grammar == INSTANCE JsonText WITH MaxDepth <- JSON_MAX_DEPTH, KeyMax <- JSON_KEY_MAX, NumMax <- JSON_NUM_MAX

\* The documents of each corpus, by length, and how those of length m begin.
Documents == [k \in Corpora |-> Grammar!Documents(k.symbols, k.most)]
Begun == [k \in Corpora |-> [m \in 1 .. k.most |-> [n \in 0 .. m |-> {SubSeq(d.text, 1, n) : d \in Documents[k][m]}]]]

\* Of a text that is accepted the callback was told what the grammar says of it: the same events, the
\* pieces of a string adding up, each with the slot it stands in.
ToldAsWritten ==
    result = "ok" => [text |-> SubSeq(text, 1, at), events |-> js.told] \in Documents[corpus][at]

\* No text is refused that is a document, or might yet become one.
RefusesNoText ==
    /\ js.st = "error" /\ result = "none" =>
         \A m \in Len(text) .. corpus.most : text \notin Begun[corpus][m][Len(text)]
    /\ result = "bad" /\ text # <<>> => text \notin Begun[corpus][Len(text)][Len(text)]

(***************************************************************************)
(* However a text is cut into buffers, the tokenizer accepts it just when  *)
(* it is JSON within the limits, and tells it as the grammar reads it:     *)
(* keys and escapes decoded, depth, key and index as json.h and the head   *)
(* of json.c promise them to the callback (json.c:6, json.h:15).           *)
(***************************************************************************)
ReadsAsWritten == ToldAsWritten /\ RefusesNoText

-----------------------------------------------------------------------------
(* The members, the palette and the screen: four palette entries of which  *)
(* a document may find at most two taken.                                  *)

\* Two texts of which the arena holds one and a part of the other, a rectangle,
\* and an op found to be broken after its text was staged.
OpMember(rgb, str, good) == [colour |-> rgb, text |-> str, ok |-> good]
SomeOps == {OpMember(2, <<1>>, TRUE), OpMember(6, <<2, 3>>, TRUE),
            OpMember(6, <<>>, TRUE), OpMember(2, <<4>>, FALSE)}

\* Three documents: the tables are swapped and swapped back.
Members == <<4, 3, 2>>

AnyName == Permutations(Ids)
=============================================================================
