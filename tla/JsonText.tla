------------------------------ MODULE JsonText ------------------------------
(***************************************************************************)
(* JSON by its grammar, with what a text means to a reader: what           *)
(* JsonStream is checked against.  A document is a text and the events it  *)
(* should be told as, each with the path to the slot it stands in.  Built  *)
(* from the grammar, for all texts of a length over an alphabet A, with no *)
(* state, stack or buffer.                                                 *)
(***************************************************************************)
LOCAL INSTANCE Integers
LOCAL INSTANCE Sequences
LOCAL INSTANCE SequencesExt

CONSTANTS MaxDepth, KeyMax, NumMax

Event(ev, data) == [ev |-> ev, path |-> <<>>, data |-> data, final |-> TRUE]

\* The texts over A of exactly n symbols, among those of T.
OfLength(T, A, n) == {t \in T : Len(t) = n /\ ToSet(t) \subseteq A}

\* A table by length, its entries worked out at once.
Row(f) == f \o <<>>

\* S(1), S(2) .. S(n) in one.  (TLC takes a UNION of large sets apart element by element.)
RECURSIVE Gather(_, _)
Gather(sets, n) == IF n < 1 THEN {} ELSE sets[n] \union Gather(sets, n - 1)

Joined(S, T) == {s \o t : s \in S, t \in T}

-----------------------------------------------------------------------------
(* Strings: what they hold is a sequence of characters, plain or escaped. *)

Characters(A) ==
    {<<s>> : s \in A \ {"Q", "B", "ctl"}}
    \union {t \in {<<"B", "Q">>, <<"B", "B">>, <<"B", "n">>} \union {<<"B", "u", h>> : h \in {"H", "L", "C"}} :
              ToSet(t) \subseteq A}

\* The characters as they are meant, but for surrogates.
Meant(t) == CASE Len(t) = 1 -> t [] Len(t) = 2 -> <<t[1] \o t[2]>> [] OTHER -> <<t[2] \o t[3]>>

\* What strings hold, of 1, 2 .. n symbols; T has the shorter ones.
RECURSIVE Contents(_, _, _)
Contents(A, n, T) ==
    IF Len(T) >= n THEN T
    ELSE LET k == Len(T) + 1
             Rest(m) == IF m >= k THEN {[text |-> <<>>, chars |-> <<>>]} ELSE T[k - m]
             longer == Gather([m \in 1 .. 3 |->
                           {[text |-> t \o r.text, chars |-> Meant(t) \o r.chars] :
                              t \in {x \in Characters(A) : Len(x) = m /\ m <= k}, r \in Rest(m)}], 3)
         IN  Contents(A, n, Append(T, longer))

RECURSIVE Decoded(_)
Decoded(s) ==
    IF s = <<>> THEN <<>>
    ELSE IF Len(s) > 1 /\ s[1] = "uH" /\ s[2] = "uL" THEN <<"pair">> \o Decoded(SubSeq(s, 3, Len(s)))
    ELSE <<IF s[1] \in {"uH", "uL"} THEN "FFFD" ELSE s[1]>> \o Decoded(Tail(s))

\* The strings of 1, 2 .. n symbols.
Strings(A, n) ==
    LET inner == Contents(A, n - 2, <<>>)
    IN  Row([k \in 1 .. n |->
           IF k < 2 \/ "Q" \notin A THEN {}
           ELSE {[text |-> <<"Q">> \o s.text \o <<"Q">>, data |-> Decoded(s.chars)] :
                   s \in IF k = 2 THEN {[text |-> <<>>, chars |-> <<>>]} ELSE inner[k - 2]}])

-----------------------------------------------------------------------------
(* Numbers and words. *)

Optional(S) == {<<>>} \union S
Digits(most) == UNION {[1 .. k -> {"0", "1"}] : k \in 1 .. most}

Numbers ==
    LET Whole == {<<"0">>} \union Joined({<<"1">>}, Optional(Digits(NumMax - 1)))
        Frac == Joined({<<".">>}, Digits(NumMax - 2))
        Exp == Joined({<<"e">>}, Joined(Optional({<<"+">>, <<"-">>}), Digits(NumMax - 2)))
    IN  {t \in Joined(Joined(Optional({<<"-">>}), Whole), Joined(Optional(Frac), Optional(Exp))) : Len(t) <= NumMax}

Words == {<<"t", "r", "u", "e">>, <<"f", "a", "l", "s", "e">>, <<"n", "u", "l", "l">>}

Scalars(A, strings, n) ==
    Row([k \in 1 .. n |->
       {[text |-> s.text, events |-> <<Event("string", s.data)>>] : s \in strings[k]}
       \union {[text |-> t, events |-> <<Event("number", t)>>] : t \in OfLength(Numbers, A, k)}
       \union {[text |-> t, events |-> <<Event("literal", t)>>] : t \in OfLength(Words, A, k)}])

-----------------------------------------------------------------------------
(* Containers. *)

Kept(key) == SubSeq(key, 1, IF Len(key) < KeyMax THEN Len(key) ELSE KeyMax)

\* What stands at slot i (and key k) of a container.
Placed(events, kind, i, k) ==
    [j \in DOMAIN events |-> [events[j] EXCEPT !.path = <<[kind |-> kind, index |-> i, key |-> k]>> \o @]]

Spaces(i) == [j \in 1 .. i |-> " "]

\* The same things with space around them.
Spaced(A, things) ==
    IF " " \notin A THEN things
    ELSE Row([n \in DOMAIN things |->
           Gather([m \in 1 .. n |->
                     {[t EXCEPT !.text = Spaces(i) \o @ \o Spaces(n - m - i)] : t \in things[m], i \in 0 .. n - m}],
                  n)])

\* One thing or more, with commas between, of 1, 2 .. symbols; T has the shorter ones.
RECURSIVE Lists(_, _, _)
Lists(A, things, T) ==
    IF Len(T) = Len(things) THEN T
    ELSE LET n == Len(T) + 1
             more == {[text |-> t.text, items |-> <<t>>] : t \in things[n]}
                     \union Gather([m \in 1 .. IF "," \in A THEN n - 2 ELSE 0 |->
                                {[text |-> t.text \o <<",">> \o l.text, items |-> <<t>> \o l.items] :
                                   t \in things[m], l \in T[n - m - 1]}], IF "," \in A THEN n - 2 ELSE 0)
         IN  Lists(A, things, Append(T, more))

\* "key" : value
Members(keys, values) ==
    Row([n \in DOMAIN values |->
       Gather([j \in 1 .. n - 2 |->
                 {[text |-> k.text \o <<":">> \o v.text, events |-> v.events, key |-> Kept(k.data)] :
                    k \in keys[j], v \in values[n - j - 1]}], n - 2)])

Listed(list, kind) ==
    FlattenSeq([i \in DOMAIN list.items |->
        LET x == list.items[i]
        IN  IF kind = "arr" THEN Placed(x.events, kind, i - 1, <<>>)
            ELSE Placed(<<Event("key", x.key)>> \o x.events, kind, i - 1, x.key)])

Container(A, n, open, close, kind, lists) ==
    IF n < 2 \/ ~({open, close} \subseteq A) THEN {}
    ELSE LET inner == (IF n > 2 THEN lists[n - 2] ELSE {})
                      \union (IF n = 2 \/ " " \in A THEN {[text |-> Spaces(n - 2), items |-> <<>>]} ELSE {})
         IN  {[text |-> <<open>> \o l.text \o <<close>>,
               events |-> <<Event(kind \o "_start", <<>>)>> \o Listed(l, kind) \o <<Event(kind \o "_end", <<>>)>>] :
                 l \in inner}

\* The values of 1, 2 .. most symbols, no more than d containers deep.
RECURSIVE Values(_, _, _)
Values(A, d, most) ==
    LET strings == Strings(A, most)
        scalars == Scalars(A, strings, most)
        inner == Spaced(A, Values(A, d - 1, most - 2))
        arrays == Lists(A, inner, <<>>)
        objects == Lists(A, Members(Spaced(A, Strings(A, most - 2)), inner), <<>>)
    IN  IF d = 0 THEN scalars
        ELSE Row([n \in 1 .. most |-> scalars[n] \union Container(A, n, "[", "]", "arr", arrays)
                                             \union Container(A, n, "{", "}", "obj", objects)])

\* The documents of 1, 2 .. n symbols.
Documents(A, n) == Spaced(A, Values(A, MaxDepth, n))
=============================================================================
