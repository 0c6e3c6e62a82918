-------------------------- MODULE HttpClientProof ---------------------------
(***************************************************************************)
(* What holds of the HTTP client for every set of hosts and requests,      *)
(* every length of a body and every limit of redirects, whenever the       *)
(* callbacks strike: the sink hears the answer to its own request, from    *)
(* the host of its URL, in order, whole if it is told so, and is told once *)
(* how it ended.                                                           *)
(***************************************************************************)
EXTENDS HttpClient, SequenceTheorems, TLAPS

-----------------------------------------------------------------------------
(***************************************************************************)
(* The inductive invariant.  First the types.                              *)
(***************************************************************************)
Kinds == {"plain", "redirect", "interim", "garbled", "none"}
Answers == [kind : Kinds, parts : 0 .. MaxParts, counted : BOOLEAN, close : BOOLEAN, to : Hosts \cup {NoHost}]
Pieces == [what : {"line", "head", "part"}, req : Requests, peer : Hosts \cup {NoHost}, resp : Answers]
Exchanges == [phase : {"asked", "continued", "line", "head", "part"}, req : Requests, resp : Answers, left : 0 .. MaxParts]
Lookups == [host : Hosts, stale : BOOLEAN]
Clients ==
    [cstate : {"none", "resolving", "connecting", "open"}, pcb : BOOLEAN, peer : Hosts \cup {NoHost},
     addr : Hosts \cup {NoHost}, rx : Seq(Pieces), closed : BOOLEAN, gone : BOOLEAN, connected : BOOLEAN,
     dnsDone : BOOLEAN, dnsOk : BOOLEAN, busy : BOOLEAN, deferred : BOOLEAN, req : Requests,
     host : Hosts \cup {NoHost}, redirects : 0 .. HTTP_MAX_REDIRECTS, reused : BOOLEAN, retried : BOOLEAN,
     rstate : {"status", "headers", "body", "done", "error"}, gotStatus : BOOLEAN, resp : Answers,
     left : 0 .. MaxParts]
Sinks == [status : Nat, parts : Nat, resp : Answers, done : Nat, ok : BOOLEAN, foreign : BOOLEAN]
States == [c : Clients, l : SUBSET Lookups, s : Seq(Exchanges), h : Sinks, rc : BOOLEAN]

(***************************************************************************)
(* A request is answered by at most one interim response, at -2 and -1,    *)
(* and a last one r: its line at 0, the end of its headers at 1, its parts *)
(* from 2 on.                                                              *)
(***************************************************************************)
End(r) == 2 + r.parts

PieceAt(q, n, r) ==
    \/ n = -2 /\ q.what = "line" /\ q.resp.kind = "interim"
    \/ n = -1 /\ q.what = "head" /\ q.resp.kind = "interim"
    \/ n = 0 /\ q.what = "line" /\ q.resp = r
    \/ n = 1 /\ q.what = "head" /\ q.resp = r
    \/ 2 <= n /\ n < End(r) /\ q.what = "part" /\ q.resp = r

\* The parser has taken all before n.
ParserAt(x, n, r) ==
    \/ n \in {-2, 0} /\ x.rstate = "status"
    \/ n = -1 /\ x.rstate = "headers" /\ x.resp.kind = "interim"
    \/ n = 1 /\ x.rstate = "headers" /\ x.resp = r /\ r.kind # "garbled"
    \/ /\ 2 <= n /\ x.rstate = "body" /\ x.resp = r /\ r.kind # "garbled"
       /\ r.counted => x.left = End(r) - n /\ x.left > 0

\* The server has sent all before n.
ServerAt(e, n, r) ==
    \/ n = -2 /\ e.phase = "asked"
    \/ n = -2 /\ e.phase = "line" /\ e.resp.kind = "interim" /\ e.left = 0
    \/ n = -1 /\ e.phase = "head" /\ e.resp.kind = "interim" /\ e.left = 0
    \/ n = 0 /\ e.phase = "continued"
    \/ n = 0 /\ e.phase = "line" /\ e.resp = r /\ e.left = r.parts
    \/ n = 1 /\ e.phase = "head" /\ e.resp = r /\ e.left = r.parts
    \/ 2 <= n /\ e.phase = "part" /\ e.resp = r /\ e.left = End(r) - n /\ e.left > 0

\* What has arrived lies between parser and server.
Between(x, s, n, r) ==
    /\ ParserAt(x, n, r)
    /\ \A k \in 1 .. Len(x.rx) : PieceAt(x.rx[k], n + k - 1, r)
    /\ s # <<>> => Len(s) = 1 /\ ServerAt(s[1], n + Len(x.rx), r)
Own(x, s) ==
    /\ \A k \in 1 .. Len(x.rx) : x.rx[k].req = x.req /\ x.rx[k].peer = x.host
    /\ s # <<>> => s[1].req = x.req
Finals == {r \in Responses : r.kind # "interim"}
Streams(x, s) == Own(x, s) /\ \E n \in -2 .. MaxParts + 2, r \in Finals : Between(x, s, n, r)

\* Nothing is on its way.
Quiet(x) == x.s = <<>> /\ x.c.rx = <<>>

\* A lookup that was not called back is for the host of the request.
Resolves(x) ==
    /\ \A k \in x.l : ~k.stale => k.host = x.c.host
    /\ x.c.dnsDone /\ x.c.dnsOk => x.c.addr = x.c.host

Connection(x) ==
    /\ x.c.pcb => x.c.cstate # "none" /\ ~x.c.gone
    /\ x.c.cstate = "none" => /\ ~x.c.closed /\ ~x.c.gone /\ ~x.c.connected /\ ~x.c.dnsDone
                               /\ \A k \in x.l : k.stale
    /\ x.c.cstate = "resolving" => Resolves(x)
    /\ x.c.cstate # "open" \/ ~x.c.busy => Quiet(x)
    /\ ~x.c.busy => x.c.cstate \in {"none", "open"}

\* The request under way.
Request(x) ==
    /\ x.c.host \in Hosts
    /\ x.c.cstate \in {"connecting", "open"} => x.c.peer = x.c.host
    /\ ~x.c.gotStatus => x.c.rstate = "status"
    /\ x.c.cstate # "open" => x.c.rstate = "status"
    /\ x.c.cstate = "open" => Streams(x.c, x.s)

\* What the sink has been told of it.
Untold(h) == h.status = 0 /\ h.parts = 0
Hears(x) ==
    /\ x.h.done = 0 /\ ~x.h.ok
    /\ IF x.c.rstate \in {"body", "done"} /\ x.c.resp.kind = "plain"
       THEN /\ x.h.status = 1 /\ x.h.resp.counted = x.c.resp.counted /\ x.h.resp.parts = x.c.resp.parts
            /\ x.c.resp.counted => x.h.parts + x.c.left = x.c.resp.parts
       ELSE Untold(x.h)

Told(h) ==
    /\ h.status <= 1 /\ h.done <= 1
    /\ h.parts > 0 => h.status = 1
    /\ h.ok => h.status = 1 /\ (h.resp.counted => h.parts = h.resp.parts)
    /\ ~h.foreign

Ok(x) ==
    /\ x \in States /\ Connection(x) /\ Told(x.h)
    /\ x.c.busy => Request(x) /\ Hears(x)

HInv == Ok(State)

-----------------------------------------------------------------------------
(***************************************************************************)
(* The client's functions, field by field.                                 *)
(***************************************************************************)
LEMMA InStates ==
    ASSUME NEW a \in Clients, NEW l, l \subseteq Lookups, NEW s \in Seq(Exchanges), NEW h \in Sinks,
           NEW rc \in BOOLEAN
    PROVE  [c |-> a, l |-> l, s |-> s, h |-> h, rc |-> rc] \in States
BY DEF States

SameParser(y, x) ==
    y.c.rstate = x.c.rstate /\ y.c.gotStatus = x.c.gotStatus /\ y.c.resp = x.c.resp /\ y.c.left = x.c.left
SameRequest(y, x) ==
    /\ y.c.busy = x.c.busy /\ y.c.req = x.c.req /\ y.c.host = x.c.host /\ y.c.redirects = x.c.redirects
    /\ y.c.retried = x.c.retried /\ y.h = x.h /\ y.rc = x.rc
SameLine(y, x) ==
    /\ y.c.cstate = x.c.cstate /\ y.c.pcb = x.c.pcb /\ y.c.peer = x.c.peer /\ y.c.addr = x.c.addr
    /\ y.c.closed = x.c.closed /\ y.c.gone = x.c.gone /\ y.c.connected = x.c.connected
    /\ y.c.dnsDone = x.c.dnsDone /\ y.c.dnsOk = x.c.dnsOk /\ y.l = x.l

LEMMA CloseFields ==
    ASSUME NEW x \in States, NEW y, y = ConnClose(x)
    PROVE  /\ y \in States /\ SameParser(y, x) /\ SameRequest(y, x)
           /\ y.c.cstate = "none" /\ ~y.c.pcb /\ ~y.c.closed /\ ~y.c.gone /\ ~y.c.connected /\ ~y.c.dnsDone
           /\ Quiet(y) /\ \A k \in y.l : k.stale
<1> DEFINE l == {[k EXCEPT !.stale = TRUE] : k \in x.l}
           d == [x.c EXCEPT !.pcb = FALSE, !.rx = <<>>, !.cstate = "none", !.gone = FALSE, !.closed = FALSE,
                            !.connected = FALSE, !.dnsDone = FALSE, !.peer = NoHost]
<1>1. x.c \in Clients /\ x.l \subseteq Lookups /\ x.s \in Seq(Exchanges) /\ x.h \in Sinks /\ x.rc \in BOOLEAN
  BY DEF States
<1>2. y.c = d /\ y.l = l /\ y.s = <<>> /\ y.h = x.h /\ y.rc = x.rc
  BY DEF ConnClose, States
<1>3. l \subseteq Lookups /\ \A k \in l : k.stale
  BY <1>1 DEF Lookups
<1>4. d \in Clients
  <2>1. <<>> \in Seq(Pieces)
    OBVIOUS
  <2> QED
    BY <2>1, <1>1 DEF Clients
<1>5. y = [c |-> y.c, l |-> y.l, s |-> y.s, h |-> y.h, rc |-> y.rc]
  BY DEF ConnClose, States
<1> HIDE DEF l, d
<1>6. y \in States
  <2>1. <<>> \in Seq(Exchanges)
    OBVIOUS
  <2>2. [c |-> y.c, l |-> y.l, s |-> y.s, h |-> y.h, rc |-> y.rc] \in States
    BY <2>1, <1>1, <1>2, <1>3, <1>4, InStates
  <2> QED
    BY <2>2, <1>5
<1>7. SameParser(y, x) /\ SameRequest(y, x)
      /\ y.c.cstate = "none" /\ ~y.c.pcb /\ ~y.c.closed /\ ~y.c.gone /\ ~y.c.connected /\ ~y.c.dnsDone
      /\ y.c.rx = <<>>
  BY <1>1, <1>2 DEF SameParser, SameRequest, Clients, d
<1> QED
  BY <1>2, <1>3, <1>6, <1>7 DEF Quiet

LEMMA ResetFields ==
    ASSUME NEW x \in States, NEW y, y = ResetParser(x)
    PROVE  /\ y \in States /\ SameRequest(y, x) /\ SameLine(y, x) /\ y.s = x.s /\ y.c.rx = x.c.rx
           /\ y.c.rstate = "status" /\ ~y.c.gotStatus /\ y.c.left = 0
<1> DEFINE d == [x.c EXCEPT !.rstate = "status", !.gotStatus = FALSE, !.resp = NoResponse, !.left = 0]
<1>1. x.c \in Clients /\ x.l \subseteq Lookups /\ x.s \in Seq(Exchanges) /\ x.h \in Sinks /\ x.rc \in BOOLEAN
  BY DEF States
<1>2. y.c = d /\ y.l = x.l /\ y.s = x.s /\ y.h = x.h /\ y.rc = x.rc
      /\ y = [c |-> d, l |-> x.l, s |-> x.s, h |-> x.h, rc |-> x.rc]
  BY DEF ResetParser, States
<1>3. NoResponse \in Answers /\ 0 \in 0 .. MaxParts
  BY RedirectsAssumption DEF NoResponse, Answers, Kinds
<1>4. d \in Clients
  BY <1>1, <1>3 DEF Clients
<1> HIDE DEF d
<1>5. y \in States
  <2>1. [c |-> d, l |-> x.l, s |-> x.s, h |-> x.h, rc |-> x.rc] \in States
    BY <1>1, <1>4, InStates
  <2> QED
    BY <2>1, <1>2
<1>6. y.c.rstate = "status" /\ ~y.c.gotStatus /\ y.c.left = 0 /\ y.c.rx = x.c.rx
  BY <1>1, <1>2 DEF d, Clients
<1>7. SameRequest(y, x)
  BY <1>1, <1>2 DEF d, SameRequest, Clients
<1>8. SameLine(y, x)
  BY <1>1, <1>2 DEF d, SameLine, Clients
<1> QED
  BY <1>2, <1>5, <1>6, <1>7, <1>8

Ends(k, h, ok) ==
    /\ k.status = h.status /\ k.parts = h.parts /\ k.resp = h.resp /\ k.foreign = h.foreign
    /\ k.done = h.done + 1 /\ k.ok = ok

\* An answer to somebody: on_complete, if it is due.
LEMMA FinishFields ==
    ASSUME NEW x \in States, NEW ok \in BOOLEAN, NEW y, y = Finish(x, ok), x.c.busy
    PROVE  /\ y \in States /\ ~y.c.busy /\ SameLine(y, x) /\ y.s = x.s /\ y.c.rx = x.c.rx
           /\ Ends(y.h, x.h, ok)
<1>1. x.c \in Clients /\ x.h \in Sinks /\ x.l \subseteq Lookups /\ x.s \in Seq(Exchanges) /\ x.rc \in BOOLEAN
  BY DEF States
<1>2. y.c = [x.c EXCEPT !.busy = FALSE] /\ y.h = [x.h EXCEPT !.done = @ + 1, !.ok = ok]
      /\ y = [c |-> y.c, l |-> x.l, s |-> x.s, h |-> y.h, rc |-> x.rc]
  BY DEF Finish, States
<1>3. y.c \in Clients /\ y.h \in Sinks
  <2>1. y.c \in Clients
    BY <1>1, <1>2 DEF Clients
  <2>2. y.h \in Sinks
    <3>1. x.h.done + 1 \in Nat
      BY <1>1 DEF Sinks
    <3>2. y.h = [[x.h EXCEPT !.done = x.h.done + 1] EXCEPT !.ok = ok]
      BY <1>2
    <3> QED
      BY <1>1, <3>1, <3>2 DEF Sinks
  <2> QED
    BY <2>1, <2>2
<1>4. y \in States
  <2>1. [c |-> y.c, l |-> x.l, s |-> x.s, h |-> y.h, rc |-> x.rc] \in States
    BY <1>1, <1>3, InStates
  <2> QED
    BY <2>1, <1>2
<1>5. Ends(y.h, x.h, ok)
  BY <1>1, <1>2 DEF Ends, Sinks
<1> QED
  BY <1>1, <1>2, <1>4, <1>5 DEF SameLine, Clients

-----------------------------------------------------------------------------
(***************************************************************************)
(* A request goes out, or fails, as it should.                             *)
(***************************************************************************)
\* A request of which the sink has heard nothing yet.
Asking(x) ==
    /\ x.c.busy /\ x.c.host \in Hosts
    /\ Untold(x.h) /\ x.h.done = 0 /\ ~x.h.ok /\ ~x.h.foreign

LEMMA AskingTold == ASSUME NEW x \in States, Asking(x) PROVE Told(x.h)
BY DEF Asking, Untold, Told, States, Sinks

LEMMA AskingHears ==
    ASSUME NEW x, Asking(x), x.c.rstate = "status"
    PROVE  Hears(x)
BY DEF Asking, Hears

\* What on_complete leaves of the sink's history.
LEMMA ToldAgain ==
    ASSUME NEW h \in Sinks, Told(h), h.done = 0, NEW ok \in BOOLEAN, NEW k, Ends(k, h, ok),
           ok => h.status = 1 /\ (h.resp.counted => h.parts = h.resp.parts)
    PROVE  Told(k)
BY DEF Told, Ends, Sinks

LEMMA FailOk ==
    ASSUME NEW x \in States, Told(x.h), x.c.busy => x.h.done = 0, NEW y, y = Fail(x)
    PROVE  Ok(y)
<1> DEFINE n == ConnClose(x)
<1>1. /\ n \in States /\ SameRequest(n, x) /\ n.c.cstate = "none" /\ ~n.c.pcb /\ ~n.c.closed /\ ~n.c.gone
      /\ ~n.c.connected /\ ~n.c.dnsDone /\ Quiet(n) /\ \A k \in n.l : k.stale
  BY CloseFields
<1>2. y = Finish(n, FALSE)
  BY DEF Fail
<1> HIDE DEF n
<1>3. CASE ~x.c.busy
  <2>1. y = n /\ ~n.c.busy /\ n.h = x.h
    BY <1>1, <1>2, <1>3 DEF Finish, SameRequest
  <2> QED
    BY <2>1, <1>1 DEF Ok, Connection
<1>4. CASE x.c.busy
  <2>1. n.c.busy /\ n.h = x.h
    BY <1>1, <1>4 DEF SameRequest
  <2>2. /\ y \in States /\ ~y.c.busy /\ SameLine(y, n) /\ y.s = n.s /\ y.c.rx = n.c.rx
        /\ Ends(y.h, n.h, FALSE)
    <3>1. FALSE \in BOOLEAN
      OBVIOUS
    <3> QED
      BY <3>1, <1>1, <1>2, <2>1, FinishFields, Zenon
  <2>3. n.h \in Sinks
    BY <1>1 DEF States
  <2>4. Told(y.h)
    <3>1. FALSE \in BOOLEAN /\ n.h.done = 0 /\ Told(n.h)
      BY <1>4, <2>1
    <3> QED
      BY <3>1, <2>2, <2>3, ToldAgain
  <2>5. Connection(y)
    BY <1>1, <2>2 DEF Connection, SameLine, Quiet
  <2> QED
    BY <2>2, <2>4, <2>5 DEF Ok
<1> QED
  BY <1>3, <1>4

LEMMA OpenOk ==
    ASSUME NEW x \in States, Asking(x), x.c.rstate = "status", NEW how \in Opens, NEW y, y = ConnOpen(x, how)
    PROVE  y \in States /\ Asking(y) /\ y.c.rstate = "status" /\ (y.rc => Ok(y))
<1> DEFINE n == ConnClose(x)
<1>1. /\ n \in States /\ SameRequest(n, x) /\ SameParser(n, x)
      /\ n.c.cstate = "none" /\ ~n.c.pcb /\ ~n.c.closed /\ ~n.c.gone
      /\ ~n.c.connected /\ ~n.c.dnsDone /\ Quiet(n) /\ \A k \in n.l : k.stale
  BY CloseFields
<1>2. Asking(n) /\ n.c.host = x.c.host /\ n.c.rstate = "status"
  BY <1>1 DEF Asking, SameRequest, SameParser
<1>3. n.c \in Clients /\ n.l \subseteq Lookups /\ n.s \in Seq(Exchanges) /\ n.h \in Sinks /\ n.rc \in BOOLEAN
      /\ n = [c |-> n.c, l |-> n.l, s |-> n.s, h |-> n.h, rc |-> n.rc]
  BY <1>1 DEF States
<1> DEFINE a == [n.c EXCEPT !.pcb = TRUE, !.addr = NoHost, !.dnsOk = FALSE, !.cstate = "connecting", !.peer = x.c.host]
           b == [n.c EXCEPT !.pcb = TRUE, !.addr = NoHost, !.dnsOk = FALSE, !.cstate = "resolving"]
           k == [host |-> x.c.host, stale |-> FALSE]
<1>4. CASE how = "fails"
  <2>1. y = [n EXCEPT !.rc = FALSE]
    BY <1>4 DEF ConnOpen
  <2>2. y = [c |-> n.c, l |-> n.l, s |-> n.s, h |-> n.h, rc |-> FALSE]
    BY <2>1, <1>1 DEF States
  <2> HIDE DEF n
  <2>3. y \in States /\ ~y.rc /\ y.c = n.c /\ y.h = n.h
    <3>1. FALSE \in BOOLEAN
      OBVIOUS
    <3>2. [c |-> n.c, l |-> n.l, s |-> n.s, h |-> n.h, rc |-> FALSE] \in States
      BY <3>1, <1>3, InStates, Zenon
    <3> QED
      BY <3>2, <2>2
  <2> QED
    BY <2>3, <1>2 DEF Asking
<1>5. CASE how = "connecting"
  <2>1. y.c = a /\ y = [c |-> a, l |-> n.l, s |-> n.s, h |-> n.h, rc |-> n.rc]
    BY <1>5, <1>1 DEF ConnOpen, States
  <2>2. a \in Clients /\ a.busy = n.c.busy /\ a.host = n.c.host /\ a.rstate = n.c.rstate /\ a.rx = n.c.rx
        /\ a.gone = n.c.gone /\ a.cstate = "connecting" /\ a.peer = n.c.host
    <3>1. a \in Clients
      BY <1>2, <1>3 DEF Clients, Asking
    <3> QED
      BY <3>1, <1>2, <1>3 DEF Clients
  <2> HIDE DEF a, n
  <2>3. y.l = n.l /\ y.s = n.s /\ y.h = n.h
    BY <2>1
  <2>4. y \in States
    BY <2>1, <2>2, <1>3, InStates
  <2>5. Asking(y)
    BY <2>1, <2>2, <2>3, <1>2 DEF Asking
  <2>6. Connection(y)
    BY <2>1, <2>2, <2>3, <1>1, <1>2 DEF Connection, Quiet, Asking
  <2>7. Request(y) /\ Hears(y)
    BY <2>1, <2>2, <2>5, <1>2, AskingHears DEF Request, Asking
  <2> QED
    BY <2>1, <2>2, <2>4, <2>5, <2>6, <2>7, <1>2, AskingTold DEF Ok
<1>6. CASE how = "resolving"
  <2>1. y.c = b /\ y = [c |-> b, l |-> n.l \cup {k}, s |-> n.s, h |-> n.h, rc |-> n.rc]
    BY <1>6, <1>1 DEF ConnOpen, States
  <2>2. b \in Clients /\ b.busy = n.c.busy /\ b.host = n.c.host /\ b.rstate = n.c.rstate /\ b.rx = n.c.rx
        /\ b.gone = n.c.gone /\ b.cstate = "resolving" /\ b.dnsDone = n.c.dnsDone
    <3>1. b \in Clients
      BY <1>2, <1>3 DEF Clients, Asking
    <3> QED
      BY <3>1, <1>2, <1>3 DEF Clients
  <2> HIDE DEF b, n
  <2>3. n.l \cup {k} \subseteq Lookups
    <3>1. k \in Lookups
      BY DEF Lookups, Asking
    <3> QED
      BY <3>1, <1>3
  <2>4. y.l = n.l \cup {k} /\ y.s = n.s /\ y.h = n.h
    BY <2>1
  <2>5. y \in States
    <3>1. [c |-> b, l |-> n.l \cup {k}, s |-> n.s, h |-> n.h, rc |-> n.rc] \in States
      <4> HIDE DEF k
      <4> QED
        BY <2>2, <2>3, <1>3, InStates
    <3> QED
      BY <3>1, <2>1
  <2>6. Asking(y)
    BY <2>1, <2>2, <2>4, <1>2 DEF Asking
  <2>7. Resolves(y)
    BY <2>1, <2>2, <2>4, <1>1, <1>2 DEF Resolves
  <2>8. Connection(y)
    BY <2>1, <2>2, <2>4, <2>7, <1>1, <1>2 DEF Connection, Quiet, Asking
  <2>9. Request(y) /\ Hears(y)
    BY <2>1, <2>2, <2>6, <1>2, AskingHears DEF Request, Asking
  <2> QED
    BY <2>1, <2>2, <2>5, <2>6, <2>8, <2>9, <1>2, AskingTold DEF Ok
<1> QED
  BY <1>4, <1>5, <1>6 DEF Opens

\* The parser is reset, nothing is on its way, and the exchange is all that the server has to answer.
LEMMA FreshStreams ==
    ASSUME NEW a \in Clients, a.rx = <<>>, a.rstate = "status"
    PROVE  Streams(a, <<Exchange(a.req)>>)
<1> DEFINE r == [kind |-> "plain", parts |-> 0, counted |-> TRUE, close |-> FALSE, to |-> NoHost]
           e == Exchange(a.req)
<1>1. r \in Finals
  BY RedirectsAssumption DEF Finals, Responses
<1>2. Len(<<>>) = 0 /\ Len(<<e>>) = 1 /\ <<e>>[1] = e
  OBVIOUS
<1>3. e.phase = "asked" /\ e.req = a.req
  BY DEF Exchange
<1> HIDE DEF r, e
<1>4. Between(a, <<e>>, -2, r)
  BY <1>2, <1>3 DEF Between, ParserAt, ServerAt
<1>5. Own(a, <<e>>)
  BY <1>2, <1>3 DEF Own
<1>6. -2 \in -2 .. MaxParts + 2
  BY RedirectsAssumption
<1> QED
  BY <1>1, <1>4, <1>5, <1>6 DEF Streams, e

LEMMA ExchangeType == ASSUME NEW q \in Requests PROVE Exchange(q) \in Exchanges
BY RedirectsAssumption DEF Exchange, Exchanges, NoResponse, Answers, Kinds

\* A request is sent on a connection that just opened, or on the one that was kept.
LEMMA SendOk ==
    ASSUME NEW x \in States, Asking(x), Quiet(x), x.c.rstate = "status", x.c.cstate = "open",
           x.c.peer = x.c.host, x.c.pcb => ~x.c.gone, NEW y, y = SendRequest(x)
    PROVE  y \in States /\ Asking(y) /\ y.c.rstate = "status" /\ Ok(y)
<1> DEFINE e == Exchange(x.c.req)
<1>1. x.c \in Clients /\ x.l \subseteq Lookups /\ x.h \in Sinks /\ x.rc \in BOOLEAN
  BY DEF States
<1>2. y = [c |-> x.c, l |-> x.l, s |-> <<e>>, h |-> x.h, rc |-> x.rc]
  BY DEF SendRequest, Quiet, States
<1>3. <<e>> \in Seq(Exchanges)
  <2>1. e \in Exchanges
    BY <1>1, ExchangeType DEF Clients
  <2> HIDE DEF e
  <2> QED
    BY <2>1
<1> HIDE DEF e
<1>4. y \in States
  BY <1>1, <1>2, <1>3, InStates
<1>5. y.c = x.c /\ y.h = x.h /\ y.s = <<e>>
  BY <1>2
<1>6. Asking(y)
  BY <1>5 DEF Asking
<1>7. Streams(x.c, <<e>>)
  BY <1>1, FreshStreams DEF Quiet, e
<1>8. Connection(y)
  BY <1>5 DEF Connection, Asking
<1>9. Request(y) /\ Hears(y)
  BY <1>5, <1>6, <1>7, AskingHears DEF Request, Asking
<1> QED
  BY <1>4, <1>5, <1>6, <1>8, <1>9, AskingTold DEF Ok

LEMMA StartOk ==
    ASSUME NEW x \in States, Asking(x), Connection(x), Quiet(x), NEW how \in Opens, NEW write \in BOOLEAN,
           NEW y, y = StartRequest(x, how, write)
    PROVE  y \in States /\ Asking(y) /\ y.c.rstate = "status" /\ (y.rc => Ok(y))
<1> DEFINE n == ResetParser(x)
           same == n.c.cstate = "open" /\ n.c.pcb /\ ~n.c.gone /\ ~n.c.closed /\ n.c.peer = n.c.host
           a == [n EXCEPT !.c.reused = TRUE, !.c.rx = <<>>]
           b == [n EXCEPT !.c.reused = FALSE]
<1>1. /\ n \in States /\ SameRequest(n, x) /\ SameLine(n, x) /\ n.s = x.s /\ n.c.rx = x.c.rx
      /\ n.c.rstate = "status"
  BY ResetFields
<1>2. Asking(n) /\ Quiet(n)
  BY <1>1 DEF Asking, SameRequest, Quiet
<1>3. y = IF same /\ write THEN SendRequest(a) ELSE ConnOpen(b, how)
  BY DEF StartRequest
<1> HIDE DEF n
<1>4. n.c \in Clients /\ n.l \subseteq Lookups /\ n.s \in Seq(Exchanges) /\ n.h \in Sinks /\ n.rc \in BOOLEAN
  BY <1>1 DEF States
<1>5. CASE same /\ write
  <2> DEFINE d == [n.c EXCEPT !.reused = TRUE, !.rx = <<>>]
  <2>1. a = [c |-> d, l |-> n.l, s |-> n.s, h |-> n.h, rc |-> n.rc]
    <3>1. ASSUME NEW z, z = a
         PROVE  z.c = d /\ z = [c |-> z.c, l |-> n.l, s |-> n.s, h |-> n.h, rc |-> n.rc]
      BY <3>1, <1>1 DEF States
    <3> HIDE DEF a, d
    <3> QED
      BY <3>1
  <2>2. d \in Clients
    <3>1. <<>> \in Seq(Pieces)
      OBVIOUS
    <3> QED
      BY <3>1, <1>4 DEF Clients
  <2>3. /\ d.busy = n.c.busy /\ d.host = n.c.host /\ d.rx = <<>> /\ d.rstate = n.c.rstate
        /\ d.cstate = n.c.cstate /\ d.peer = n.c.peer /\ d.pcb = n.c.pcb /\ d.gone = n.c.gone
    BY <1>4 DEF Clients
  <2> HIDE DEF d, a
  <2>4. a \in States /\ a.c = d /\ a.s = n.s /\ a.h = n.h
    BY <2>1, <2>2, <1>4, InStates
  <2>5. Asking(a) /\ Quiet(a) /\ a.c.rstate = "status" /\ a.c.cstate = "open"
        /\ a.c.peer = a.c.host /\ (a.c.pcb => ~a.c.gone)
    BY <2>3, <2>4, <1>1, <1>2, <1>5 DEF Asking, Quiet
  <2> QED
    BY <2>4, <2>5, <1>3, <1>5, SendOk
<1>6. CASE ~(same /\ write)
  <2> DEFINE d == [n.c EXCEPT !.reused = FALSE]
  <2>1. b = [c |-> d, l |-> n.l, s |-> n.s, h |-> n.h, rc |-> n.rc]
    <3>1. ASSUME NEW z, z = b
         PROVE  z.c = d /\ z = [c |-> z.c, l |-> n.l, s |-> n.s, h |-> n.h, rc |-> n.rc]
      BY <3>1, <1>1 DEF States
    <3> HIDE DEF b, d
    <3> QED
      BY <3>1
  <2>2. d \in Clients /\ d.busy = n.c.busy /\ d.host = n.c.host /\ d.rstate = n.c.rstate
    BY <1>4 DEF Clients
  <2> HIDE DEF d, b, same
  <2>4. b \in States /\ b.c = d /\ b.h = n.h
    BY <2>1, <2>2, <1>4, InStates
  <2>5. Asking(b) /\ b.c.rstate = "status"
    BY <2>2, <2>4, <1>1, <1>2 DEF Asking
  <2>6. y = ConnOpen(b, how)
    BY <1>3, <1>6
  <2> QED
    BY <2>4, <2>5, <2>6, OpenOk
<1> QED
  BY <1>5, <1>6

LEMMA RetryOk ==
    ASSUME NEW x \in States, x.c.busy, x.c.host \in Hosts, Told(x.h), Hears(x), x.c.rstate = "status",
           NEW how \in Opens, NEW y, y = Retry(x, how)
    PROVE  Ok(y)
<1> DEFINE d == [x.c EXCEPT !.retried = TRUE]
           m == [x EXCEPT !.c.retried = TRUE]
           n == ResetParser(m)
           k == ConnOpen(n, how)
<1>1. x.c \in Clients /\ x.l \subseteq Lookups /\ x.s \in Seq(Exchanges) /\ x.h \in Sinks /\ x.rc \in BOOLEAN
  BY DEF States
<1>2. m = [c |-> d, l |-> x.l, s |-> x.s, h |-> x.h, rc |-> x.rc]
  <2>1. ASSUME NEW z, z = m
       PROVE  z.c = d /\ z = [c |-> z.c, l |-> x.l, s |-> x.s, h |-> x.h, rc |-> x.rc]
    BY <2>1 DEF States
  <2> HIDE DEF m, d
  <2> QED
    BY <2>1
<1>3. d \in Clients /\ d.busy = x.c.busy /\ d.host = x.c.host /\ d.rstate = x.c.rstate
  BY <1>1 DEF Clients
<1>4. y = IF k.rc THEN k ELSE Fail(k)
  BY DEF Retry
<1> HIDE DEF d, m, n, k
<1>5. m \in States /\ m.c = d /\ m.h = x.h
  BY <1>1, <1>2, <1>3, InStates
<1>6. n \in States /\ SameRequest(n, m) /\ n.c.rstate = "status"
  BY <1>5, ResetFields DEF n
<1>7. Asking(n)
  BY <1>3, <1>5, <1>6 DEF Asking, SameRequest, Hears, Told
<1>8. k \in States /\ Asking(k) /\ (k.rc => Ok(k))
  BY <1>6, <1>7, OpenOk DEF k
<1>9. Ok(Fail(k))
  BY <1>8, AskingTold, FailOk DEF Asking
<1> QED
  BY <1>4, <1>8, <1>9

LEMMA DoneOk ==
    ASSUME NEW x \in States, x.c.busy, Told(x.h), Hears(x), Connection(x), x.c.cstate = "open",
           x.c.rstate = "done", x.c.resp.kind \in {"plain", "redirect"}, x.c.rx = <<>>,
           x.c.resp.counted => x.c.left = 0,
           x.c.resp.counted /\ ~x.c.resp.close => x.s = <<>>,
           NEW how \in Opens, NEW write \in BOOLEAN, NEW y, y = ResponseDone(x, how, write)
    PROVE  Ok(y)
<1> DEFINE r == x.c.resp
           n == IF r.close \/ ~r.counted THEN ConnClose(x) ELSE x
           m == [n EXCEPT !.c.redirects = @ + 1, !.c.host = r.to, !.c.retried = FALSE]
           again == StartRequest(m, how, write)
<1>1. x.c \in Clients /\ r \in Answers /\ x.h \in Sinks
  BY DEF States, Clients
<1>2. y = IF r.kind # "redirect" THEN Finish(n, TRUE)
          ELSE IF x.c.redirects >= HTTP_MAX_REDIRECTS \/ r.to = NoHost THEN Fail(x)
          ELSE IF again.rc THEN again ELSE Fail(again)
  BY DEF ResponseDone
<1>3. n \in States /\ SameRequest(n, x) /\ Quiet(n) /\ Connection(n)
  <2>1. CASE r.close \/ ~r.counted
    <3>1. n = ConnClose(x)
      BY <2>1
    <3> HIDE DEF n
    <3>2. /\ n \in States /\ SameRequest(n, x) /\ n.c.cstate = "none" /\ ~n.c.pcb /\ ~n.c.closed
          /\ ~n.c.gone /\ ~n.c.connected /\ ~n.c.dnsDone /\ Quiet(n) /\ \A k \in n.l : k.stale
      BY <3>1, CloseFields
    <3> QED
      BY <3>2 DEF Connection
  <2>2. CASE ~(r.close \/ ~r.counted)
    <3>1. n = x /\ x.s = <<>>
      BY <2>2
    <3> QED
      BY <3>1 DEF Quiet, SameRequest
  <2> QED
    BY <2>1, <2>2
<1> HIDE DEF n
<1>4. n.c \in Clients /\ n.l \subseteq Lookups /\ n.s \in Seq(Exchanges) /\ n.h \in Sinks /\ n.rc \in BOOLEAN
      /\ n.h = x.h /\ n.c.busy /\ n.c.redirects = x.c.redirects
  BY <1>3 DEF States, SameRequest
<1>5. CASE r.kind # "redirect"
  <2>1. y = Finish(n, TRUE) /\ r.kind = "plain"
    BY <1>2, <1>5
  <2>2. TRUE \in BOOLEAN
    OBVIOUS
  <2>3. /\ y \in States /\ ~y.c.busy /\ SameLine(y, n) /\ y.s = n.s /\ y.c.rx = n.c.rx
        /\ Ends(y.h, n.h, TRUE)
    BY <2>1, <2>2, <1>3, <1>4, FinishFields, Zenon
  <2>4. Told(y.h)
    <3>1. n.h.status = 1 /\ (n.h.resp.counted => n.h.parts = n.h.resp.parts) /\ n.h.done = 0
      BY <2>1, <1>1, <1>4 DEF Hears, Sinks, Answers
    <3> QED
      BY <2>2, <2>3, <3>1, <1>4, ToldAgain
  <2>5. y.c.cstate = n.c.cstate /\ n.c.cstate \in {"none", "open"} /\ Quiet(y)
    <3>1. CASE r.close \/ ~r.counted
      <4>1. n = ConnClose(x)
        BY <3>1 DEF n
      <4> QED
        BY <4>1, <2>3, <1>3, CloseFields DEF SameLine, Quiet
    <3>2. CASE ~(r.close \/ ~r.counted)
      <4>1. n = x
        BY <3>2 DEF n
      <4> QED
        BY <4>1, <2>3, <1>3 DEF SameLine, Quiet
    <3> QED
      BY <3>1, <3>2
  <2>6. Connection(y)
    BY <2>3, <2>5, <1>3 DEF Connection, SameLine
  <2> QED
    BY <2>3, <2>4, <2>6 DEF Ok
<1>6. CASE r.kind = "redirect" /\ (x.c.redirects >= HTTP_MAX_REDIRECTS \/ r.to = NoHost)
  <2>1. y = Fail(x)
    BY <1>2, <1>6
  <2>2. x.h.done = 0
    BY DEF Hears
  <2> QED
    BY <2>1, <2>2, FailOk
<1>7. CASE r.kind = "redirect" /\ x.c.redirects < HTTP_MAX_REDIRECTS /\ r.to # NoHost
  <2> DEFINE d == [n.c EXCEPT !.redirects = @ + 1, !.host = r.to, !.retried = FALSE]
  <2>1. y = IF again.rc THEN again ELSE Fail(again)
    BY <1>1, <1>2, <1>7, RedirectsAssumption DEF Clients
  <2>2. r.to \in Hosts /\ n.c.redirects + 1 \in 0 .. HTTP_MAX_REDIRECTS
    BY <1>1, <1>4, <1>7, RedirectsAssumption DEF Answers, Clients
  <2>3. m = [c |-> d, l |-> n.l, s |-> n.s, h |-> n.h, rc |-> n.rc]
    <3>1. ASSUME NEW z, z = m
         PROVE  z.c = d /\ z = [c |-> z.c, l |-> n.l, s |-> n.s, h |-> n.h, rc |-> n.rc]
      BY <3>1, <1>3 DEF States
    <3> HIDE DEF m, d
    <3> QED
      BY <3>1
  <2>4. d \in Clients
    BY <2>2, <1>4 DEF Clients
  <2>5. d.busy = n.c.busy /\ d.host = r.to /\ d.cstate = n.c.cstate /\ d.pcb = n.c.pcb /\ d.rx = n.c.rx
        /\ d.closed = n.c.closed /\ d.gone = n.c.gone /\ d.connected = n.c.connected /\ d.dnsDone = n.c.dnsDone
    BY <1>4 DEF Clients
  <2> HIDE DEF d, m, again
  <2>6. m \in States /\ m.c = d /\ m.s = n.s /\ m.h = n.h /\ m.l = n.l
    BY <2>3, <2>4, <1>4, InStates
  <2>7. Asking(m)
    BY <2>2, <2>5, <2>6, <1>4, <1>7 DEF Asking, Hears, Told
  <2>8. n.c.cstate \in {"none", "open"}
    <3>1. CASE r.close \/ ~r.counted
      <4>1. n = ConnClose(x)
        BY <3>1 DEF n
      <4> QED
        BY <4>1, CloseFields
    <3>2. CASE ~(r.close \/ ~r.counted)
      BY <3>2 DEF n
    <3> QED
      BY <3>1, <3>2
  <2>9. Quiet(m) /\ Connection(m)
    BY <2>5, <2>6, <2>8, <1>3, <1>4 DEF Quiet, Connection
  <2>10. again \in States /\ Asking(again) /\ (again.rc => Ok(again))
    BY <2>6, <2>7, <2>9, StartOk DEF again
  <2>11. Ok(Fail(again))
    BY <2>10, AskingTold, FailOk DEF Asking
  <2> QED
    BY <2>1, <2>10, <2>11
<1> QED
  BY <1>1, <1>5, <1>6, <1>7, RedirectsAssumption DEF Clients

-----------------------------------------------------------------------------
(***************************************************************************)
(* The parser takes a piece.                                               *)
(***************************************************************************)
\* One piece less lies between parser and server.
LEMMA Taken ==
    ASSUME NEW a \in Clients, NEW s, NEW n \in Int, NEW r, Between(a, s, n, r), Own(a, s), a.rx # <<>>,
           NEW d, d.rx = Tail(a.rx), d.req = a.req, d.host = a.host
    PROVE  /\ Head(a.rx) \in Pieces /\ PieceAt(Head(a.rx), n, r)
           /\ Head(a.rx).req = a.req /\ Head(a.rx).peer = a.host
           /\ Own(d, s)
           /\ ParserAt(d, n + 1, r) => Between(d, s, n + 1, r)
<1>1. a.rx \in Seq(Pieces)
  BY DEF Clients
<1>2. Len(a.rx) \in Nat \ {0} /\ Head(a.rx) = a.rx[1] /\ Head(a.rx) \in Pieces
      /\ Len(d.rx) = Len(a.rx) - 1 /\ \A k \in 1 .. Len(d.rx) : d.rx[k] = a.rx[k + 1]
  BY <1>1
<1>3. 1 \in 1 .. Len(a.rx) /\ \A k \in 1 .. Len(d.rx) : k + 1 \in 1 .. Len(a.rx)
  BY <1>2
<1>4. PieceAt(a.rx[1], n + 1 - 1, r) /\ n + 1 - 1 = n
  BY <1>3 DEF Between
<1>5. PieceAt(Head(a.rx), n, r)
  BY <1>2, <1>4
<1>6. Own(d, s) /\ Head(a.rx).req = a.req /\ Head(a.rx).peer = a.host
  BY <1>2, <1>3 DEF Own
<1>7. ASSUME NEW k \in 1 .. Len(d.rx) PROVE PieceAt(d.rx[k], (n + 1) + k - 1, r)
  <2>1. PieceAt(a.rx[k + 1], n + (k + 1) - 1, r)
    BY <1>3 DEF Between
  <2>2. n + (k + 1) - 1 = (n + 1) + k - 1 /\ d.rx[k] = a.rx[k + 1]
    BY <1>2
  <2> QED
    BY <2>1, <2>2
<1>8. s # <<>> => Len(s) = 1 /\ ServerAt(s[1], (n + 1) + Len(d.rx), r)
  <2> DEFINE i == Len(d.rx)
             j == Len(a.rx)
  <2>1. j \in Nat /\ i = j - 1
    BY <1>2
  <2> HIDE DEF i, j
  <2>2. (n + 1) + i = n + j
    BY <2>1
  <2>3. s # <<>> => Len(s) = 1 /\ ServerAt(s[1], n + j, r)
    BY DEF Between, j
  <2> QED
    BY <2>2, <2>3 DEF i
<1> QED
  BY <1>2, <1>5, <1>6, <1>7, <1>8 DEF Between

\* What the parser leaves alone.
Beside(v, z) ==
    /\ SameLine(v, z) /\ v.s = z.s /\ v.c.rx = z.c.rx
    /\ v.c.busy = z.c.busy /\ v.c.req = z.c.req /\ v.c.host = z.c.host

LEMMA StartBodyFields ==
    ASSUME NEW z \in States, NEW v, v = StartBody(z)
    PROVE  /\ v \in States /\ Beside(v, z) /\ v.h = z.h
           /\ v.c.rstate = (IF z.c.resp.counted /\ z.c.resp.parts = 0 THEN "done" ELSE "body")
           /\ v.c.left = z.c.resp.parts /\ v.c.resp = z.c.resp /\ v.c.gotStatus = z.c.gotStatus
<1> DEFINE st == IF z.c.resp.counted /\ z.c.resp.parts = 0 THEN "done" ELSE "body"
           d == [z.c EXCEPT !.rstate = st, !.left = z.c.resp.parts]
<1>1. z.c \in Clients /\ z.l \subseteq Lookups /\ z.s \in Seq(Exchanges) /\ z.h \in Sinks /\ z.rc \in BOOLEAN
  BY DEF States
<1>2. v.c = d /\ v.l = z.l /\ v.s = z.s /\ v.h = z.h /\ v.rc = z.rc
      /\ v = [c |-> v.c, l |-> v.l, s |-> v.s, h |-> v.h, rc |-> v.rc]
  BY DEF StartBody, States
<1>3. st \in {"done", "body"} /\ z.c.resp.parts \in 0 .. MaxParts
  BY <1>1 DEF Clients, Answers
<1> HIDE DEF st
<1>4. d \in Clients
  BY <1>1, <1>3 DEF Clients
<1>5. v \in States
  <2>1. [c |-> v.c, l |-> v.l, s |-> v.s, h |-> v.h, rc |-> v.rc] \in States
    <3> HIDE DEF d
    <3> QED
      BY <1>1, <1>2, <1>4, InStates
  <2> QED
    BY <2>1, <1>2
<1>6. v.c.rstate = st /\ v.c.left = z.c.resp.parts /\ v.c.resp = z.c.resp /\ v.c.gotStatus = z.c.gotStatus
  BY <1>1, <1>2 DEF Clients
<1>7. Beside(v, z)
  BY <1>1, <1>2 DEF Beside, SameLine, Clients
<1> QED
  BY <1>2, <1>5, <1>6, <1>7 DEF st

LineTaken(z, q) == [z EXCEPT !.c.gotStatus = TRUE, !.c.rstate = "headers", !.c.resp = q.resp]

LineOf(v, z, q) ==
    v \in States /\ Beside(v, z) /\ v.h = z.h /\ v.c.rstate = "headers" /\ v.c.resp = q.resp /\ v.c.gotStatus

LEMMA LineFields ==
    ASSUME NEW z \in States, NEW q \in Pieces, NEW v, v = LineTaken(z, q)
    PROVE  LineOf(v, z, q)
<1> DEFINE d == [z.c EXCEPT !.gotStatus = TRUE, !.rstate = "headers", !.resp = q.resp]
<1>1. z.c \in Clients /\ z.l \subseteq Lookups /\ z.s \in Seq(Exchanges) /\ z.h \in Sinks /\ z.rc \in BOOLEAN
  BY DEF States
<1>2. v.c = d /\ v.l = z.l /\ v.s = z.s /\ v.h = z.h /\ v.rc = z.rc
      /\ v = [c |-> v.c, l |-> v.l, s |-> v.s, h |-> v.h, rc |-> v.rc]
  BY DEF LineTaken, States
<1>3. q.resp \in Answers
  BY DEF Pieces
<1>4. d \in Clients
  BY <1>1, <1>3 DEF Clients
<1>5. v \in States
  <2>1. [c |-> v.c, l |-> v.l, s |-> v.s, h |-> v.h, rc |-> v.rc] \in States
    <3> HIDE DEF d
    <3> QED
      BY <1>1, <1>2, <1>4, InStates
  <2> QED
    BY <2>1, <1>2
<1>6. v.c.rstate = "headers" /\ v.c.resp = q.resp /\ v.c.gotStatus
  BY <1>1, <1>2 DEF Clients
<1>7. Beside(v, z)
  BY <1>1, <1>2 DEF Beside, SameLine, Clients
<1> QED
  BY <1>2, <1>5, <1>6, <1>7 DEF LineOf

\* on_status.
OnStatus(z, a) == [z EXCEPT !.h.status = @ + 1, !.h.resp = a]

LEMMA StatusFields ==
    ASSUME NEW z \in States, NEW a \in Answers, NEW v, v = OnStatus(z, a)
    PROVE  /\ v \in States /\ v.c = z.c /\ v.l = z.l /\ v.s = z.s
           /\ v.h.status = z.h.status + 1 /\ v.h.resp = a /\ v.h.parts = z.h.parts
           /\ v.h.done = z.h.done /\ v.h.ok = z.h.ok /\ v.h.foreign = z.h.foreign
<1> DEFINE d == [z.h EXCEPT !.status = @ + 1, !.resp = a]
<1>1. z.c \in Clients /\ z.l \subseteq Lookups /\ z.s \in Seq(Exchanges) /\ z.h \in Sinks /\ z.rc \in BOOLEAN
  BY DEF States
<1>2. v.c = z.c /\ v.l = z.l /\ v.s = z.s /\ v.h = d /\ v.rc = z.rc
      /\ v = [c |-> v.c, l |-> v.l, s |-> v.s, h |-> v.h, rc |-> v.rc]
  BY DEF OnStatus, States
<1>3. z.h.status + 1 \in Nat
  BY <1>1 DEF Sinks
<1>4. d \in Sinks
  BY <1>1, <1>3 DEF Sinks
<1>5. v \in States
  <2>1. [c |-> v.c, l |-> v.l, s |-> v.s, h |-> v.h, rc |-> v.rc] \in States
    <3> HIDE DEF d
    <3> QED
      BY <1>1, <1>2, <1>4, InStates
  <2> QED
    BY <2>1, <1>2
<1>6. v.h.status = z.h.status + 1 /\ v.h.resp = a /\ v.h.parts = z.h.parts
      /\ v.h.done = z.h.done /\ v.h.ok = z.h.ok /\ v.h.foreign = z.h.foreign
  BY <1>1, <1>2 DEF Sinks
<1> QED
  BY <1>2, <1>5, <1>6

\* on_body, or a part of a redirect's body.
LEMMA BodyFields ==
    ASSUME NEW z \in States, z.c.resp.counted => z.c.left > 0, NEW v, v = BodyPart(z)
    PROVE  /\ v \in States /\ Beside(v, z) /\ v.c.resp = z.c.resp /\ v.c.gotStatus = z.c.gotStatus
           /\ v.c.left = (IF z.c.resp.counted THEN z.c.left - 1 ELSE z.c.left)
           /\ v.c.rstate = (IF z.c.resp.counted /\ z.c.left = 1 THEN "done" ELSE "body")
           /\ v.h.status = z.h.status /\ v.h.resp = z.h.resp /\ v.h.done = z.h.done
           /\ v.h.ok = z.h.ok /\ v.h.foreign = z.h.foreign
           /\ v.h.parts = (IF z.c.resp.kind = "redirect" THEN z.h.parts ELSE z.h.parts + 1)
<1> DEFINE lf == IF z.c.resp.counted THEN z.c.left - 1 ELSE z.c.left
           st == IF z.c.resp.counted /\ z.c.left = 1 THEN "done" ELSE "body"
           ps == IF z.c.resp.kind = "redirect" THEN z.h.parts ELSE z.h.parts + 1
           d == [z.c EXCEPT !.left = lf, !.rstate = st]
           k == [z.h EXCEPT !.parts = ps]
<1>1. z.c \in Clients /\ z.l \subseteq Lookups /\ z.s \in Seq(Exchanges) /\ z.h \in Sinks /\ z.rc \in BOOLEAN
  BY DEF States
<1>2. v.c = d /\ v.l = z.l /\ v.s = z.s /\ v.h = k /\ v.rc = z.rc
      /\ v = [c |-> v.c, l |-> v.l, s |-> v.s, h |-> v.h, rc |-> v.rc]
  BY DEF BodyPart, States
<1>3. st \in {"done", "body"} /\ lf \in 0 .. MaxParts /\ ps \in Nat
  BY <1>1, RedirectsAssumption DEF Clients, Sinks
<1> HIDE DEF st, lf, ps
<1>4. d \in Clients /\ k \in Sinks
  <2>1. d \in Clients
    BY <1>1, <1>3 DEF Clients
  <2>2. k \in Sinks
    BY <1>1, <1>3 DEF Sinks
  <2> QED
    BY <2>1, <2>2
<1>5. v \in States
  <2>1. [c |-> v.c, l |-> v.l, s |-> v.s, h |-> v.h, rc |-> v.rc] \in States
    <3> HIDE DEF d, k
    <3> QED
      BY <1>1, <1>2, <1>4, InStates
  <2> QED
    BY <2>1, <1>2
<1>6. v.c.rstate = st /\ v.c.left = lf /\ v.c.resp = z.c.resp /\ v.c.gotStatus = z.c.gotStatus
  BY <1>1, <1>2 DEF Clients
<1>7. Beside(v, z)
  BY <1>1, <1>2 DEF Beside, SameLine, Clients
<1>8. v.h.status = z.h.status /\ v.h.resp = z.h.resp /\ v.h.done = z.h.done
      /\ v.h.ok = z.h.ok /\ v.h.foreign = z.h.foreign /\ v.h.parts = ps
  BY <1>1, <1>2 DEF Sinks
<1> QED
  BY <1>5, <1>6, <1>7, <1>8 DEF st, lf, ps

GivesUp(z) == [z EXCEPT !.c.rstate = "error"]

LEMMA ErrorFields ==
    ASSUME NEW z \in States, NEW v, v = GivesUp(z)
    PROVE  v \in States /\ v.c.busy = z.c.busy /\ v.c.rstate = "error" /\ v.h = z.h
<1> DEFINE d == [z.c EXCEPT !.rstate = "error"]
<1>1. z.c \in Clients /\ z.l \subseteq Lookups /\ z.s \in Seq(Exchanges) /\ z.h \in Sinks /\ z.rc \in BOOLEAN
  BY DEF States
<1>2. v.c = d /\ v.h = z.h /\ v = [c |-> v.c, l |-> z.l, s |-> z.s, h |-> z.h, rc |-> z.rc]
  BY DEF GivesUp, States
<1>3. d \in Clients
  BY <1>1 DEF Clients
<1>4. v \in States
  <2>1. [c |-> v.c, l |-> z.l, s |-> z.s, h |-> z.h, rc |-> z.rc] \in States
    <3> HIDE DEF d
    <3> QED
      BY <1>1, <1>2, <1>3, InStates
  <2> QED
    BY <2>1, <1>2
<1> QED
  BY <1>1, <1>2, <1>4 DEF Clients

\* A piece that comes from the right host for the right request is not foreign.
LEMMA NotForeign ==
    ASSUME NEW z \in States, NEW q, q.req = z.c.req, q.peer = z.c.host, ~z.h.foreign
    PROVE  [z EXCEPT !.h.foreign = @ \/ Foreign(z, q)] = z
<1>1. ~Foreign(z, q)
  BY DEF Foreign
<1>2. z.h \in Sinks /\ z = [c |-> z.c, l |-> z.l, s |-> z.s, h |-> z.h, rc |-> z.rc]
  BY DEF States
<1>3. (z.h.foreign \/ Foreign(z, q)) = FALSE /\ z.h.foreign = FALSE
  BY <1>1, <1>2 DEF Sinks
<1>4. [z.h EXCEPT !.foreign = FALSE] = z.h
  BY <1>2, <1>3 DEF Sinks
<1>5. [z EXCEPT !.h = z.h] = z
  BY DEF States
<1> QED
  BY <1>3, <1>4, <1>5

LEMMA FinalType ==
    ASSUME NEW r \in Finals
    PROVE  /\ r.kind \in {"plain", "redirect", "garbled"} /\ r.parts \in 0 .. MaxParts /\ r.parts \in Nat
           /\ r.counted \in BOOLEAN
<1>0. MaxParts \in Nat /\ 0 \in 0 .. MaxParts
  BY RedirectsAssumption
<1>1. r \in Responses /\ r.kind # "interim"
  BY DEF Finals
<1>2. CASE r \in [kind : {"plain"}, parts : 0 .. MaxParts, counted : BOOLEAN, close : BOOLEAN, to : {NoHost}]
  BY <1>0, <1>2
<1>3. CASE r \in [kind : {"redirect"}, parts : 0 .. MaxParts, counted : BOOLEAN, close : BOOLEAN,
                  to : Hosts \cup {NoHost}]
  BY <1>0, <1>3
<1>4. CASE r \in [kind : {"interim", "garbled"}, parts : {0}, counted : {TRUE}, close : {FALSE}, to : {NoHost}]
  <2>1. r.kind = "garbled" /\ r.parts = 0 /\ r.counted = TRUE
    BY <1>1, <1>4
  <2>2. r.counted \in BOOLEAN
    BY <2>1, Zenon
  <2> QED
    BY <2>1, <2>2, <1>0
<1> QED
  BY <1>1, <1>2, <1>3, <1>4 DEF Responses

\* What parse_bytes may leave: an error, the end of a response that was expected, or the right state
\* for the next piece.
Parsed(v) ==
    /\ v \in States /\ v.c.busy /\ v.h.done = 0 /\ Told(v.h)
    /\ v.c.rstate = "done" =>
         /\ Hears(v) /\ Connection(v) /\ v.c.cstate = "open" /\ v.c.resp.kind \in {"plain", "redirect"}
         /\ v.c.resp.counted /\ v.c.left = 0 /\ v.s = <<>>
    /\ v.c.rstate \notin {"error", "done"} => Ok(v)

\* All that has to be shown when the parser has moved on to n + 1.
LEMMA MovedOn ==
    ASSUME NEW z \in States, NEW n \in Int, NEW r \in Finals, -2 <= n, n + 1 <= MaxParts + 2,
           z.c.busy, z.c.cstate = "open", z.c.host \in Hosts, z.c.peer = z.c.host, Connection(z), Own(z.c, z.s),
           NEW v \in States, Beside(v, z), v.c.rstate \in {"status", "headers", "body"},
           v.c.gotStatus \/ v.c.rstate = "status", Between(v.c, v.s, n + 1, r), Hears(v), Told(v.h)
    PROVE  Parsed(v)
<1>1. v.c.cstate = "open" /\ v.c.busy /\ v.c.host = z.c.host /\ v.c.peer = z.c.peer /\ v.c.pcb = z.c.pcb
      /\ v.c.gone = z.c.gone /\ v.c.rx = z.c.rx /\ v.c.req = z.c.req /\ v.s = z.s
  BY DEF Beside, SameLine
<1>2. Connection(v)
  BY <1>1 DEF Connection
<1>3. Own(v.c, v.s)
  BY <1>1 DEF Own
<1>4. n + 1 \in -2 .. MaxParts + 2
  BY RedirectsAssumption
<1>5. Streams(v.c, v.s)
  BY <1>3, <1>4 DEF Streams
<1>6. Request(v)
  BY <1>1, <1>5 DEF Request
<1>7. v.h.done = 0
  BY DEF Hears
<1> QED
  BY <1>1, <1>2, <1>6, <1>7 DEF Parsed, Ok

\* When the parser has reached the end, so has the server.
LEMMA ServerDone ==
    ASSUME NEW s, NEW n \in Int, NEW m \in Nat, NEW r \in Finals, n + 1 = End(r),
           s # <<>> => Len(s) = 1 /\ ServerAt(s[1], (n + 1) + m, r)
    PROVE  s = <<>>
<1>1. r.parts \in Nat
  BY FinalType
<1>2. ~ServerAt(s[1], (n + 1) + m, r)
  BY <1>1 DEF ServerAt, End
<1> QED
  BY <1>2

LEMMA ParseOk ==
    ASSUME NEW x \in States, Ok(x), x.c.busy, x.c.cstate = "open", x.c.rx # <<>>,
           NEW z, z = [x EXCEPT !.c.rx = Tail(x.c.rx)],
           NEW refuse \in BOOLEAN, NEW v, v = Parse(z, Head(x.c.rx), refuse)
    PROVE  Parsed(v)
<1> DEFINE d == [x.c EXCEPT !.rx = Tail(x.c.rx)]
           q == Head(x.c.rx)
<1>1. x.c \in Clients /\ x.l \subseteq Lookups /\ x.s \in Seq(Exchanges) /\ x.h \in Sinks /\ x.rc \in BOOLEAN
  BY DEF States
<1>2. z.c = d /\ z.l = x.l /\ z.s = x.s /\ z.h = x.h /\ z.rc = x.rc
      /\ z = [c |-> z.c, l |-> z.l, s |-> z.s, h |-> z.h, rc |-> z.rc]
  BY DEF States
<1>3. d \in Clients
  <2>1. Tail(x.c.rx) \in Seq(Pieces)
    BY <1>1 DEF Clients
  <2> QED
    BY <2>1, <1>1 DEF Clients
<1>4. z \in States
  <2>1. [c |-> z.c, l |-> z.l, s |-> z.s, h |-> z.h, rc |-> z.rc] \in States
    <3> HIDE DEF d
    <3> QED
      BY <1>1, <1>2, <1>3, InStates
  <2> QED
    BY <2>1, <1>2
<1>5. /\ z.c.rx = Tail(x.c.rx) /\ z.c.busy = x.c.busy /\ z.c.req = x.c.req /\ z.c.host = x.c.host
      /\ z.c.gotStatus = x.c.gotStatus
      /\ SameParser(z, x) /\ SameLine(z, x)
  BY <1>1, <1>2 DEF Clients, SameParser, SameLine
<1> HIDE DEF d
<1>6. Request(x) /\ Hears(x) /\ Connection(x) /\ Told(x.h)
  BY DEF Ok
<1>7. Hears(z) /\ Told(z.h) /\ z.h.done = 0 /\ z.c.busy /\ z.c.cstate = "open"
      /\ z.c.host \in Hosts /\ z.c.peer = z.c.host
  <2>1. Hears(z) /\ Told(z.h) /\ z.h.done = 0
    BY <1>2, <1>5, <1>6 DEF Hears, SameParser
  <2>2. z.c.busy /\ z.c.cstate = "open" /\ z.c.peer = x.c.peer
    BY <1>5 DEF SameLine
  <2>3. z.c.host \in Hosts /\ z.c.peer = z.c.host
    BY <2>2, <1>5, <1>6 DEF Request
  <2> QED
    BY <2>1, <2>2, <2>3
<1>8. Connection(z)
  BY <1>2, <1>5, <1>6, <1>7 DEF Connection, SameLine
<1>9. PICK n \in -2 .. MaxParts + 2, r \in Finals : Between(x.c, x.s, n, r) /\ Own(x.c, x.s)
  BY <1>6 DEF Request, Streams
<1>10. n \in Int /\ -2 <= n /\ r \in Responses /\ r.kind # "interim" /\ r.parts \in 0 .. MaxParts
       /\ r.counted \in BOOLEAN /\ r.kind \in {"plain", "redirect", "garbled"}
  BY <1>9, FinalType DEF Finals
<1>11. q \in Pieces /\ PieceAt(q, n, r) /\ q.req = x.c.req /\ q.peer = x.c.host
  BY <1>1, <1>5, <1>9, <1>10, Taken
<1>12. /\ Own(z.c, z.s)
       /\ \A m \in States : Beside(m, z) /\ ParserAt(m.c, n + 1, r) => Between(m.c, m.s, n + 1, r)
  <2>1. Own(z.c, z.s)
    BY <1>1, <1>2, <1>5, <1>9, <1>10, Taken
  <2>2. ASSUME NEW m \in States, Beside(m, z), ParserAt(m.c, n + 1, r)
        PROVE  Between(m.c, m.s, n + 1, r)
    <3>1. m.c.rx = Tail(x.c.rx) /\ m.c.req = x.c.req /\ m.c.host = x.c.host /\ m.s = x.s
      BY <2>2, <1>2, <1>5 DEF Beside
    <3> QED
      BY <2>2, <3>1, <1>1, <1>9, <1>10, Taken
  <2> QED
    BY <2>1, <2>2
<1>13. ParserAt(z.c, n, r)
  BY <1>5, <1>9 DEF Between, ParserAt, SameParser
<1>14. n + 1 <= MaxParts + 2
  BY <1>10, <1>11, RedirectsAssumption DEF PieceAt, End
<1>15. [z EXCEPT !.h.foreign = @ \/ Foreign(z, q)] = z
  <2>1. q.req = z.c.req /\ q.peer = z.c.host /\ ~z.h.foreign
    BY <1>5, <1>7, <1>11 DEF Told
  <2> HIDE DEF q
  <2> QED
    BY <2>1, <1>4, NotForeign
<1> DEFINE isLine == z.c.rstate = "status" /\ q.what = "line" /\ q.resp.kind # "garbled"
           isHead == z.c.rstate = "headers" /\ q.what = "head"
           isPart == z.c.rstate = "body" /\ q.what = "part" /\ (refuse => z.c.resp.kind = "redirect")
<1>16. /\ isLine => v = [z EXCEPT !.c.gotStatus = TRUE, !.c.rstate = "headers", !.c.resp = q.resp]
       /\ isHead => v = HeadersDone(z)
       /\ isPart => v = BodyPart(z)
       /\ ~isLine /\ ~isHead /\ ~isPart => v = [z EXCEPT !.c.rstate = "error"]
  <2> DEFINE w == [z EXCEPT !.h.foreign = @ \/ Foreign(z, q)]
  <2>1. v = CASE isLine -> [w EXCEPT !.c.gotStatus = TRUE, !.c.rstate = "headers", !.c.resp = q.resp]
              [] isHead -> HeadersDone(w)
              [] isPart -> BodyPart(w)
              [] OTHER -> [w EXCEPT !.c.rstate = "error"]
    BY DEF Parse
  <2>2. w = z
    BY <1>15
  <2> HIDE DEF w
  <2>3. ~(isLine /\ isHead) /\ ~(isLine /\ isPart) /\ ~(isHead /\ isPart)
    OBVIOUS
  <2> HIDE DEF isLine, isHead, isPart
  <2> QED
    BY <2>1, <2>2, <2>3
<1>17. CASE isLine
  <2>1. /\ v \in States /\ Beside(v, z) /\ v.h = z.h /\ v.c.rstate = "headers" /\ v.c.resp = q.resp
        /\ v.c.gotStatus
    <3>1. v = LineTaken(z, q) /\ q \in Pieces
      BY <1>11, <1>16, <1>17 DEF LineTaken
    <3> HIDE DEF q
    <3>2. LineOf(v, z, q)
      BY <3>1, <1>4, LineFields
    <3> QED
      BY <3>2 DEF LineOf
  <2>2. ParserAt(v.c, n + 1, r)
    BY <2>1, <1>10, <1>11, <1>13, <1>17 DEF ParserAt, PieceAt
  <2>3. Between(v.c, v.s, n + 1, r)
    BY <2>1, <2>2, <1>12
  <2>4. Hears(v) /\ Told(v.h)
    BY <2>1, <1>7, <1>17 DEF Hears
  <2> QED
    BY <2>1, <2>3, <2>4, <1>4, <1>7, <1>8, <1>9, <1>10, <1>12, <1>14, MovedOn
<1>18. CASE isHead /\ z.c.resp.kind = "interim"
  <2>1. v = ResetParser(z)
    BY <1>16, <1>18 DEF HeadersDone
  <2>2. /\ v \in States /\ SameRequest(v, z) /\ SameLine(v, z) /\ v.s = z.s /\ v.c.rx = z.c.rx
        /\ v.c.rstate = "status"
    BY <2>1, <1>4, ResetFields
  <2>3. Beside(v, z) /\ v.h = z.h
    BY <2>2 DEF Beside, SameRequest
  <2>4. ParserAt(v.c, n + 1, r)
    BY <2>2, <1>10, <1>13, <1>18 DEF ParserAt
  <2>5. Between(v.c, v.s, n + 1, r)
    BY <2>2, <2>3, <2>4, <1>12
  <2>6. Hears(v) /\ Told(v.h)
    BY <2>2, <2>3, <1>7, <1>18 DEF Hears
  <2> QED
    BY <2>2, <2>3, <2>5, <2>6, <1>4, <1>7, <1>8, <1>9, <1>10, <1>12, <1>14, MovedOn
<1>19. CASE isHead /\ z.c.resp.kind # "interim"
  <2> DEFINE b == StartBody(z)
  <2>1. n = 1 /\ z.c.resp = r /\ r.kind \in {"plain", "redirect"} /\ n + 1 = 2
    BY <1>10, <1>13, <1>19 DEF ParserAt
  <2>2. /\ b \in States /\ Beside(b, z) /\ b.h = z.h
        /\ b.c.rstate = (IF r.counted /\ r.parts = 0 THEN "done" ELSE "body")
        /\ b.c.left = r.parts /\ b.c.resp = r /\ b.c.gotStatus = z.c.gotStatus
    BY <2>1, <1>4, StartBodyFields
  <2> HIDE DEF b
  <2>3. /\ v \in States /\ v.c = b.c /\ v.l = b.l /\ v.s = b.s /\ v.h.done = z.h.done /\ v.h.ok = z.h.ok
        /\ v.h.foreign = z.h.foreign /\ v.h.parts = z.h.parts
        /\ IF r.kind = "redirect" THEN v.h.status = z.h.status
           ELSE v.h.status = z.h.status + 1 /\ v.h.resp = r
    <3>1. CASE r.kind = "redirect"
      <4>1. v = b
        BY <3>1, <2>1, <1>16, <1>19 DEF HeadersDone, b
      <4> QED
        BY <4>1, <3>1, <2>2
    <3>2. CASE r.kind = "plain"
      <4>1. v = OnStatus(b, r)
        BY <3>2, <2>1, <1>16, <1>19 DEF HeadersDone, b, OnStatus
      <4>2. r \in Answers
        BY <2>1, <1>4 DEF States, Clients
      <4> QED
        <5>1. /\ v \in States /\ v.c = b.c /\ v.l = b.l /\ v.s = b.s
              /\ v.h.status = b.h.status + 1 /\ v.h.resp = r /\ v.h.parts = b.h.parts
              /\ v.h.done = b.h.done /\ v.h.ok = b.h.ok /\ v.h.foreign = b.h.foreign
          BY <4>1, <4>2, <2>2, StatusFields
        <5> QED
          BY <5>1, <3>2, <2>2
    <3> QED
      BY <3>1, <3>2, <2>1
  <2>4. Beside(v, z)
    BY <2>2, <2>3 DEF Beside, SameLine
  <2>5. Untold(z.h) /\ ~z.h.ok /\ z.h.done = 0 /\ ~z.h.foreign /\ z.h \in Sinks
    BY <1>4, <1>7, <1>19 DEF Hears, Told, States
  <2>6. v.h.status = (IF r.kind = "plain" THEN 1 ELSE 0) /\ v.h.parts = 0 /\ (r.kind = "plain" => v.h.resp = r)
    BY <2>1, <2>3, <2>5 DEF Untold
  <2>7. v.h.done = 0 /\ ~v.h.ok /\ ~v.h.foreign
    BY <2>3, <2>5
  <2>8. Told(v.h)
    BY <2>6, <2>7 DEF Told
  <2>9. v.c.rstate \in {"done", "body"} /\ v.c.resp = r /\ v.c.left = r.parts
    BY <2>2, <2>3
  <2>10. Hears(v)
    BY <2>1, <2>6, <2>7, <2>9, <1>10 DEF Hears, Untold
  <2>11. CASE v.c.rstate = "body"
    <3>1. r.counted => r.parts > 0
      BY <2>2, <2>3, <2>11, <1>10
    <3>2. ParserAt(v.c, n + 1, r)
      BY <3>1, <2>1, <2>9, <2>11, <1>10 DEF ParserAt, End
    <3>3. Between(v.c, v.s, n + 1, r)
      BY <3>2, <2>3, <2>4, <1>12
    <3>4. v.c.gotStatus
      <4>1. x.c.gotStatus
        BY <1>5, <1>6, <1>19 DEF Request, SameParser
      <4> QED
        BY <4>1, <2>2, <2>3, <1>5
    <3> QED
      BY <3>3, <3>4, <2>3, <2>4, <2>8, <2>10, <2>11, <1>4, <1>7, <1>8, <1>9, <1>10, <1>12, <1>14, MovedOn
  <2>12. CASE v.c.rstate = "done"
    <3>1. r.counted /\ r.parts = 0
      BY <2>2, <2>3, <2>12
    <3>2. v.s = <<>>
      <4>1. Len(x.c.rx) - 1 \in Nat /\ (n + 1) + (Len(x.c.rx) - 1) = n + Len(x.c.rx)
        BY <1>1, <1>10 DEF Clients
      <4>2. v.s = x.s
        BY <2>4, <1>2 DEF Beside
      <4>3. x.s # <<>> => Len(x.s) = 1 /\ ServerAt(x.s[1], n + Len(x.c.rx), r)
        BY <1>9 DEF Between
      <4>4. n + 1 = End(r)
        BY <2>1, <3>1 DEF End
      <4> QED
        BY <4>1, <4>2, <4>3, <4>4, <1>9, <1>10, ServerDone
    <3>3. Connection(v)
      BY <2>3, <2>4, <1>7, <1>8 DEF Beside, Connection, SameLine
    <3>4. v.c.busy /\ v.c.cstate = "open"
      BY <2>4, <1>7 DEF Beside, SameLine
    <3> QED
      BY <3>1, <3>2, <3>3, <3>4, <2>1, <2>3, <2>7, <2>8, <2>9, <2>10, <2>12 DEF Parsed
  <2> QED
    BY <2>9, <2>11, <2>12
<1>20. CASE isPart
  <2>1. 2 <= n /\ n < End(r) /\ z.c.resp = r /\ r.kind \in {"plain", "redirect"}
        /\ (r.counted => z.c.left = End(r) - n /\ z.c.left > 0)
    BY <1>10, <1>11, <1>13, <1>20 DEF ParserAt, PieceAt
  <2>2. /\ v \in States /\ Beside(v, z) /\ v.c.resp = r /\ v.c.gotStatus = z.c.gotStatus
        /\ v.c.left = (IF r.counted THEN z.c.left - 1 ELSE z.c.left)
        /\ v.c.rstate = (IF r.counted /\ z.c.left = 1 THEN "done" ELSE "body")
        /\ v.h.status = z.h.status /\ v.h.resp = z.h.resp /\ v.h.done = z.h.done
        /\ v.h.ok = z.h.ok /\ v.h.foreign = z.h.foreign
        /\ v.h.parts = (IF r.kind = "redirect" THEN z.h.parts ELSE z.h.parts + 1)
    <3>1. v = BodyPart(z) /\ (z.c.resp.counted => z.c.left > 0)
      BY <2>1, <1>16, <1>20
    <3>2. /\ v \in States /\ Beside(v, z) /\ v.c.resp = z.c.resp /\ v.c.gotStatus = z.c.gotStatus
          /\ v.c.left = (IF z.c.resp.counted THEN z.c.left - 1 ELSE z.c.left)
          /\ v.c.rstate = (IF z.c.resp.counted /\ z.c.left = 1 THEN "done" ELSE "body")
          /\ v.h.status = z.h.status /\ v.h.resp = z.h.resp /\ v.h.done = z.h.done
          /\ v.h.ok = z.h.ok /\ v.h.foreign = z.h.foreign
          /\ v.h.parts = (IF z.c.resp.kind = "redirect" THEN z.h.parts ELSE z.h.parts + 1)
      BY <3>1, <1>4, BodyFields
    <3> QED
      BY <3>2, <2>1
  <2>3. z.h.done = 0 /\ ~z.h.ok /\ ~z.h.foreign /\ z.h.parts \in Nat /\ z.c.left \in 0 .. MaxParts
        /\ z.h.resp \in Answers
    BY <1>4, <1>7 DEF Hears, Told, States, Sinks, Clients
  <2>4. Told(v.h) /\ (v.c.rstate \in {"body", "done"} => Hears(v))
    <3>1. CASE r.kind = "redirect"
      <4>1. v.h.status = 0 /\ v.h.parts = 0
        BY <3>1, <2>1, <2>2, <1>7, <1>20 DEF Hears, Untold
      <4> QED
        BY <4>1, <3>1, <2>2, <2>3 DEF Hears, Told, Untold
    <3>2. CASE r.kind = "plain"
      <4>1. z.h.status = 1 /\ z.h.resp.counted = r.counted /\ z.h.resp.parts = r.parts
            /\ (r.counted => z.h.parts + z.c.left = r.parts)
        BY <3>2, <2>1, <1>7, <1>20 DEF Hears
      <4>2. v.h.parts = z.h.parts + 1
        BY <3>2, <2>2
      <4>3. r.counted => v.h.parts + v.c.left = r.parts
        BY <4>1, <4>2, <2>2, <2>3
      <4>4. v.h.status = 1 /\ v.h.resp = z.h.resp /\ v.h.done = 0 /\ ~v.h.ok /\ ~v.h.foreign /\ v.c.resp = r
        BY <4>1, <2>2, <2>3
      <4> QED
        BY <4>1, <4>3, <4>4, <3>2 DEF Hears, Told
    <3> QED
      BY <3>1, <3>2, <2>1
  <2>5. CASE r.counted /\ z.c.left = 1
    <3>1. v.c.rstate = "done" /\ v.c.left = 0 /\ n + 1 = End(r)
      BY <2>1, <2>2, <2>5, <1>10 DEF End
    <3>2. v.s = <<>>
      <4>1. Len(x.c.rx) - 1 \in Nat /\ (n + 1) + (Len(x.c.rx) - 1) = n + Len(x.c.rx)
        BY <1>1, <1>10 DEF Clients
      <4>2. v.s = x.s
        BY <2>2, <1>2 DEF Beside
      <4>3. x.s # <<>> => Len(x.s) = 1 /\ ServerAt(x.s[1], n + Len(x.c.rx), r)
        BY <1>9 DEF Between
      <4> QED
        BY <3>1, <4>1, <4>2, <4>3, <1>9, <1>10, ServerDone
    <3>3. v.c.busy /\ v.c.cstate = "open" /\ Connection(v)
      BY <2>2, <1>7, <1>8 DEF Beside, Connection, SameLine
    <3> QED
      BY <3>1, <3>2, <3>3, <2>1, <2>2, <2>3, <2>4, <2>5 DEF Parsed
  <2>6. CASE ~(r.counted /\ z.c.left = 1)
    <3>1. v.c.rstate = "body"
      BY <2>2, <2>6
    <3>2. ParserAt(v.c, n + 1, r)
      <4>1. r.counted => v.c.left = End(r) - (n + 1) /\ v.c.left > 0
        BY <2>1, <2>2, <2>3, <2>6, <1>10 DEF End
      <4>2. 2 <= n + 1 /\ r.kind # "garbled"
        BY <2>1, <1>10
      <4> QED
        BY <3>1, <4>1, <4>2, <2>2 DEF ParserAt
    <3>3. Between(v.c, v.s, n + 1, r)
      BY <3>2, <2>2, <1>12
    <3>4. v.c.gotStatus
      <4>1. x.c.gotStatus
        BY <1>5, <1>6, <1>20 DEF Request, SameParser
      <4> QED
        BY <4>1, <2>2, <1>5
    <3> QED
      BY <3>1, <3>3, <3>4, <2>2, <2>4, <1>4, <1>7, <1>8, <1>9, <1>10, <1>12, <1>14, MovedOn
  <2> QED
    BY <2>5, <2>6
<1>21. CASE ~isLine /\ ~isHead /\ ~isPart
  <2>1. v = GivesUp(z)
    BY <1>16, <1>21 DEF GivesUp
  <2>2. v \in States /\ v.c.busy = z.c.busy /\ v.c.rstate = "error" /\ v.h = z.h
    BY <2>1, <1>4, ErrorFields
  <2> QED
    BY <2>2, <1>7 DEF Parsed
<1> QED
  BY <1>17, <1>18, <1>19, <1>20, <1>21

-----------------------------------------------------------------------------
(***************************************************************************)
(* The steps of http_get, http_cancel and http_poll.                       *)
(***************************************************************************)
LEMMA StateFields ==
    State.c = c /\ State.l = lookups /\ State.s = srv /\ State.h = heard
BY DEF State

LEMMA OkFields ==
    ASSUME NEW x, Ok(x)
    PROVE  /\ x \in States /\ x.c \in Clients /\ x.l \subseteq Lookups /\ x.s \in Seq(Exchanges) /\ x.h \in Sinks
           /\ x.rc \in BOOLEAN
           /\ x = [c |-> x.c, l |-> x.l, s |-> x.s, h |-> x.h, rc |-> x.rc]
           /\ Connection(x) /\ Told(x.h) /\ (x.c.busy => Request(x) /\ Hears(x) /\ x.h.done = 0)
BY DEF Ok, States, Hears

\* What a call returned is of no interest to the next.
LEMMA AnyRc ==
    ASSUME NEW x, Ok(x), NEW w, w = [c |-> x.c, l |-> x.l, s |-> x.s, h |-> x.h, rc |-> TRUE]
    PROVE  Ok(w)
<1>1. w \in States
  <2>1. TRUE \in BOOLEAN
    OBVIOUS
  <2>2. [c |-> x.c, l |-> x.l, s |-> x.s, h |-> x.h, rc |-> TRUE] \in States
    BY <2>1, OkFields, InStates, Zenon
  <2> QED
    BY <2>2
<1>2. w.c = x.c /\ w.l = x.l /\ w.s = x.s /\ w.h = x.h
  OBVIOUS
<1>3. Connection(x) /\ Told(x.h) /\ (x.c.busy => Request(x) /\ Hears(x))
  BY DEF Ok
<1>4. Connection(w)
  <2>1. Quiet(x) => Quiet(w)
    BY <1>2 DEF Quiet
  <2>2. Resolves(x) => Resolves(w)
    BY <1>2 DEF Resolves
  <2> QED
    BY <2>1, <2>2, <1>2, <1>3 DEF Connection
<1>5. x.c.busy => Request(w) /\ Hears(w)
  BY <1>2, <1>3 DEF Request, Hears
<1> QED
  BY <1>1, <1>2, <1>3, <1>4, <1>5 DEF Ok

LEMMA BecomeOk ==
    ASSUME NEW x, Ok(x), Become(x)
    PROVE  HInv'
<1> DEFINE w == [c |-> x.c, l |-> x.l, s |-> x.s, h |-> x.h, rc |-> TRUE]
<1>1. Ok(w)
  BY AnyRc
<1>2. State' = w
  BY DEF Become, State
<1> HIDE DEF w
<1>3. HInv' = Ok(State')
  BY DEF HInv
<1> QED
  BY <1>1, <1>2, <1>3

LEMMA FailState == HInv => Ok(Fail(State))
<1> SUFFICES ASSUME HInv PROVE Ok(Fail(State))
  OBVIOUS
<1>1. Ok(State)
  BY DEF HInv
<1> HIDE DEF State
<1> QED
  BY <1>1, OkFields, FailOk

LEMMA HttpGetInv == HInv /\ HttpGet => HInv'
<1> SUFFICES ASSUME HInv, HttpGet PROVE HInv'
  OBVIOUS
<1>1. PICK h \in Hosts, q \in Requests \ {c.req}, how \in Opens, write \in BOOLEAN :
        LET asked == [State EXCEPT !.c.host = h, !.c.req = q, !.c.redirects = 0, !.c.retried = FALSE,
                                   !.c.busy = TRUE, !.c.deferred = FALSE, !.h = NothingHeard]
            x == StartRequest(asked, how, write)
        IN Become(IF x.rc THEN x ELSE [ConnClose(x) EXCEPT !.c.deferred = TRUE])
  BY DEF HttpGet
<1> DEFINE asked == [State EXCEPT !.c.host = h, !.c.req = q, !.c.redirects = 0, !.c.retried = FALSE,
                                  !.c.busy = TRUE, !.c.deferred = FALSE, !.h = NothingHeard]
           d == [c EXCEPT !.host = h, !.req = q, !.redirects = 0, !.retried = FALSE, !.busy = TRUE,
                          !.deferred = FALSE]
           x == StartRequest(asked, how, write)
           n == ConnClose(x)
           e == [n.c EXCEPT !.deferred = TRUE]
           y == [n EXCEPT !.c.deferred = TRUE]
<1>2. Ok(State) /\ State.c = c /\ State.l = lookups /\ State.s = srv /\ State.h = heard
  BY StateFields DEF HInv
<1>3. ~c.busy
  BY DEF HttpGet
<1>4. c \in Clients /\ lookups \subseteq Lookups /\ srv \in Seq(Exchanges) /\ State.rc \in BOOLEAN
      /\ Connection(State)
  BY <1>2, OkFields
<1>5. asked = [c |-> d, l |-> lookups, s |-> srv, h |-> NothingHeard, rc |-> State.rc]
  <2>1. ASSUME NEW z, z = asked
        PROVE  z.c = d /\ z = [c |-> z.c, l |-> lookups, s |-> srv, h |-> NothingHeard, rc |-> State.rc]
    BY <2>1 DEF State
  <2> HIDE DEF asked, d, State
  <2> QED
    BY <2>1
<1>6. Become(IF x.rc THEN x ELSE y)
  BY <1>1
<1> HIDE DEF asked, x, n, y, State
<1>7. d \in Clients /\ d.busy /\ d.host = h /\ d.cstate = c.cstate /\ d.pcb = c.pcb /\ d.gone = c.gone
      /\ d.closed = c.closed /\ d.connected = c.connected /\ d.dnsDone = c.dnsDone /\ d.rx = c.rx
  <2>1. d \in Clients
    <3>1. 0 \in 0 .. HTTP_MAX_REDIRECTS /\ q \in Requests /\ h \in Hosts \cup {NoHost}
      BY RedirectsAssumption
    <3> QED
      BY <3>1, <1>4 DEF Clients
  <2> QED
    BY <2>1, <1>4 DEF Clients
<1>8. NothingHeard \in Sinks
  BY RedirectsAssumption DEF NothingHeard, Sinks, NoResponse, Answers, Kinds
<1>9. asked \in States /\ asked.c = d /\ asked.l = lookups /\ asked.s = srv /\ asked.h = NothingHeard
  <2> HIDE DEF d
  <2>1. [c |-> d, l |-> lookups, s |-> srv, h |-> NothingHeard, rc |-> State.rc] \in States
    BY <1>4, <1>7, <1>8, InStates
  <2> QED
    BY <2>1, <1>5
<1> HIDE DEF d
<1>10. Asking(asked)
  BY <1>7, <1>9 DEF Asking, Untold, NothingHeard
<1>11. Quiet(asked) /\ Connection(asked)
  BY <1>2, <1>3, <1>4, <1>7, <1>9 DEF Connection, Quiet
<1>12. x \in States /\ Asking(x) /\ x.c.rstate = "status" /\ (x.rc => Ok(x))
  BY <1>9, <1>10, <1>11, StartOk DEF x
<1>13. CASE x.rc
  BY <1>6, <1>12, <1>13, BecomeOk
<1>14. CASE ~x.rc
  <2>1. /\ n \in States /\ SameParser(n, x) /\ SameRequest(n, x)
        /\ n.c.cstate = "none" /\ ~n.c.pcb /\ ~n.c.closed /\ ~n.c.gone /\ ~n.c.connected /\ ~n.c.dnsDone
        /\ Quiet(n) /\ \A k \in n.l : k.stale
    BY <1>12, CloseFields DEF n
  <2>2. n.c \in Clients /\ n.l \subseteq Lookups /\ n.s \in Seq(Exchanges) /\ n.h \in Sinks /\ n.rc \in BOOLEAN
    BY <2>1 DEF States
  <2>3. y = [c |-> e, l |-> n.l, s |-> n.s, h |-> n.h, rc |-> n.rc]
    <3>1. ASSUME NEW z, z = y
          PROVE  z.c = e /\ z = [c |-> z.c, l |-> n.l, s |-> n.s, h |-> n.h, rc |-> n.rc]
      BY <2>1, <3>1 DEF States, y
    <3> HIDE DEF e
    <3> QED
      BY <3>1
  <2>4. /\ e \in Clients /\ e.cstate = "none" /\ ~e.pcb /\ ~e.closed /\ ~e.gone /\ ~e.connected /\ ~e.dnsDone
        /\ e.rx = n.c.rx /\ e.rstate = n.c.rstate /\ e.busy = n.c.busy /\ e.host = n.c.host
    BY <2>1, <2>2 DEF Clients
  <2> HIDE DEF e
  <2>5. y \in States /\ y.c = e /\ y.l = n.l /\ y.s = n.s /\ y.h = n.h
    <3>1. [c |-> e, l |-> n.l, s |-> n.s, h |-> n.h, rc |-> n.rc] \in States
      BY <2>2, <2>4, InStates
    <3> QED
      BY <3>1, <2>3
  <2>6. Asking(y) /\ y.c.rstate = "status"
    BY <2>1, <2>4, <2>5, <1>12 DEF Asking, SameRequest, SameParser
  <2>7. Connection(y)
    BY <2>1, <2>4, <2>5, <2>6 DEF Connection, Quiet, Asking
  <2>8. Request(y)
    BY <2>4, <2>5, <2>6 DEF Request, Asking
  <2>9. Ok(y)
    BY <2>5, <2>6, <2>7, <2>8, AskingTold, AskingHears DEF Ok
  <2> QED
    BY <2>9, <1>6, <1>14, BecomeOk
<1> QED
  BY <1>13, <1>14

LEMMA HttpCancelInv == HInv /\ HttpCancel => HInv'
<1> SUFFICES ASSUME HInv, HttpCancel PROVE HInv'
  OBVIOUS
<1> DEFINE n == ConnClose(State)
           d == [n.c EXCEPT !.busy = FALSE]
           y == [n EXCEPT !.c.busy = FALSE]
<1>1. Become(y)
  BY DEF HttpCancel, Cancel
<1>2. Ok(State)
  BY DEF HInv
<1> HIDE DEF n, y, State
<1>3. /\ n \in States /\ SameRequest(n, State)
      /\ n.c.cstate = "none" /\ ~n.c.pcb /\ ~n.c.closed /\ ~n.c.gone /\ ~n.c.connected /\ ~n.c.dnsDone
      /\ Quiet(n) /\ \A k \in n.l : k.stale
  BY <1>2, OkFields, CloseFields DEF n
<1>4. n.c \in Clients /\ n.l \subseteq Lookups /\ n.s \in Seq(Exchanges) /\ n.h \in Sinks /\ n.rc \in BOOLEAN
  BY <1>3 DEF States
<1>5. y = [c |-> d, l |-> n.l, s |-> n.s, h |-> n.h, rc |-> n.rc]
  <2>1. ASSUME NEW z, z = y
        PROVE  z.c = d /\ z = [c |-> z.c, l |-> n.l, s |-> n.s, h |-> n.h, rc |-> n.rc]
    BY <1>3, <2>1 DEF States, y
  <2> HIDE DEF d
  <2> QED
    BY <2>1
<1>6. /\ d \in Clients /\ d.cstate = "none" /\ ~d.pcb /\ ~d.closed /\ ~d.gone /\ ~d.connected /\ ~d.dnsDone
      /\ d.rx = n.c.rx /\ ~d.busy
  BY <1>3, <1>4 DEF Clients
<1> HIDE DEF d
<1>7. y \in States /\ y.c = d /\ y.l = n.l /\ y.s = n.s /\ y.h = n.h
  <2>1. [c |-> d, l |-> n.l, s |-> n.s, h |-> n.h, rc |-> n.rc] \in States
    BY <1>4, <1>6, InStates
  <2> QED
    BY <2>1, <1>5
<1>8. Connection(y)
  BY <1>3, <1>6, <1>7 DEF Connection, Quiet
<1>9. Told(y.h)
  BY <1>2, <1>3, <1>7, OkFields DEF SameRequest
<1> QED
  BY <1>1, <1>6, <1>7, <1>8, <1>9, BecomeOk DEF Ok

LEMMA PollResolvedInv == HInv /\ PollResolved => HInv'
<1> SUFFICES ASSUME HInv, PollResolved PROVE HInv'
  OBVIOUS
<1> DEFINE y == [State EXCEPT !.c.dnsDone = FALSE, !.c.cstate = "connecting", !.c.peer = c.addr]
           d == [c EXCEPT !.dnsDone = FALSE, !.cstate = "connecting", !.peer = c.addr]
<1>1. Ok(State) /\ State.c = c /\ State.l = lookups /\ State.s = srv /\ State.h = heard
  BY StateFields DEF HInv
<1>2. c \in Clients /\ lookups \subseteq Lookups /\ srv \in Seq(Exchanges) /\ heard \in Sinks
      /\ State.rc \in BOOLEAN /\ Connection(State) /\ Told(heard) /\ (c.busy => Request(State) /\ Hears(State))
  BY <1>1, OkFields
<1>3. c.cstate = "resolving" /\ c.dnsDone /\ (Become(Fail(State)) \/ (c.dnsOk /\ Become(y)))
  BY DEF PollResolved
<1>4. y = [c |-> d, l |-> lookups, s |-> srv, h |-> heard, rc |-> State.rc]
  <2>1. ASSUME NEW z, z = y
        PROVE  z.c = d /\ z = [c |-> z.c, l |-> lookups, s |-> srv, h |-> heard, rc |-> State.rc]
    BY <2>1 DEF State
  <2> HIDE DEF y, d, State
  <2> QED
    BY <2>1
<1> HIDE DEF y, State
<1>5. CASE Become(Fail(State))
  BY <1>5, FailState, BecomeOk
<1>6. CASE c.dnsOk /\ Become(y)
  <2>1. c.busy /\ c.addr = c.host /\ Quiet(State)
    BY <1>1, <1>2, <1>3, <1>6 DEF Connection, Resolves
  <2>2. /\ d \in Clients /\ d.cstate = "connecting" /\ d.peer = c.host /\ d.pcb = c.pcb /\ d.gone = c.gone
        /\ d.rx = c.rx /\ d.rstate = c.rstate /\ d.resp = c.resp /\ d.left = c.left /\ d.busy = c.busy
        /\ d.host = c.host
    <3>1. d \in Clients
      BY <1>2 DEF Clients
    <3> QED
      BY <3>1, <2>1, <1>2 DEF Clients
  <2> HIDE DEF d
  <2>3. y \in States /\ y.c = d /\ y.l = lookups /\ y.s = srv /\ y.h = heard
    <3>1. [c |-> d, l |-> lookups, s |-> srv, h |-> heard, rc |-> State.rc] \in States
      BY <1>2, <2>2, InStates
    <3> QED
      BY <3>1, <1>4
  <2>4. Connection(y)
    BY <2>1, <2>2, <2>3, <1>1, <1>2, <1>3 DEF Connection, Quiet
  <2>5. Request(y)
    BY <2>1, <2>2, <2>3, <1>1, <1>2, <1>3 DEF Request
  <2>6. Hears(y)
    BY <2>1, <2>2, <2>3, <1>1, <1>2 DEF Hears
  <2> QED
    BY <2>3, <2>4, <2>5, <2>6, <1>2, <1>6, BecomeOk DEF Ok
<1> QED
  BY <1>3, <1>5, <1>6

LEMMA PollConnectingInv == HInv /\ PollConnecting => HInv'
<1> SUFFICES ASSUME HInv, PollConnecting PROVE HInv'
  OBVIOUS
<1> DEFINE m == [State EXCEPT !.c.connected = FALSE, !.c.cstate = "open"]
           d == [c EXCEPT !.connected = FALSE, !.cstate = "open"]
<1>1. Ok(State) /\ State.c = c /\ State.l = lookups /\ State.s = srv /\ State.h = heard
  BY StateFields DEF HInv
<1>2. c \in Clients /\ lookups \subseteq Lookups /\ srv \in Seq(Exchanges) /\ heard \in Sinks
      /\ State.rc \in BOOLEAN /\ Connection(State) /\ Told(heard) /\ (c.busy => Request(State) /\ Hears(State))
  BY <1>1, OkFields
<1>3. c.cstate = "connecting" /\ (Become(Fail(State)) \/ Become(SendRequest(m)))
  BY DEF PollConnecting
<1>4. m = [c |-> d, l |-> lookups, s |-> srv, h |-> heard, rc |-> State.rc]
  <2>1. ASSUME NEW z, z = m
        PROVE  z.c = d /\ z = [c |-> z.c, l |-> lookups, s |-> srv, h |-> heard, rc |-> State.rc]
    BY <2>1 DEF State
  <2> HIDE DEF m, d, State
  <2> QED
    BY <2>1
<1> HIDE DEF m, State
<1>5. CASE Become(Fail(State))
  BY <1>5, FailState, BecomeOk
<1>6. CASE Become(SendRequest(m))
  <2>1. c.busy /\ Quiet(State) /\ Request(State) /\ Hears(State)
    BY <1>1, <1>2, <1>3 DEF Connection
  <2>2. /\ d \in Clients /\ d.cstate = "open" /\ d.peer = c.peer /\ d.pcb = c.pcb /\ d.gone = c.gone
        /\ d.rx = c.rx /\ d.rstate = c.rstate /\ d.busy = c.busy /\ d.host = c.host
    <3>1. d \in Clients
      BY <1>2 DEF Clients
    <3> QED
      BY <3>1, <1>2 DEF Clients
  <2> HIDE DEF d
  <2>3. m \in States /\ m.c = d /\ m.l = lookups /\ m.s = srv /\ m.h = heard
    <3>1. [c |-> d, l |-> lookups, s |-> srv, h |-> heard, rc |-> State.rc] \in States
      BY <1>2, <2>2, InStates
    <3> QED
      BY <3>1, <1>4
  <2>4. c.host \in Hosts /\ c.peer = c.host /\ c.rstate = "status" /\ (c.pcb => ~c.gone)
    BY <2>1, <1>1, <1>2, <1>3 DEF Request, Connection
  <2>5. Asking(m)
    BY <2>1, <2>2, <2>3, <2>4, <1>1, <1>2 DEF Asking, Hears, Told
  <2>6. Quiet(m)
    BY <2>1, <2>2, <2>3, <1>1 DEF Quiet
  <2>7. Ok(SendRequest(m))
    BY <2>2, <2>3, <2>4, <2>5, <2>6, SendOk
  <2> QED
    BY <2>7, <1>6, BecomeOk
<1> QED
  BY <1>3, <1>5, <1>6

LEMMA PollIdleInv == HInv /\ PollIdle => HInv'
<1> SUFFICES ASSUME HInv, PollIdle PROVE HInv'
  OBVIOUS
<1> DEFINE n == ConnClose(State)
           m == [State EXCEPT !.c.rx = <<>>]
<1>1. Ok(State) /\ State.c = c /\ State.l = lookups /\ State.s = srv /\ State.h = heard
  BY StateFields DEF HInv
<1>2. c.cstate = "open" /\ ~c.busy /\ (Become(n) \/ Become(m))
  BY DEF PollIdle
<1>3. State \in States /\ c \in Clients /\ Connection(State) /\ Told(heard)
  BY <1>1, OkFields
<1>4. CASE Become(n)
  <2> HIDE DEF n, State
  <2>1. /\ n \in States /\ SameRequest(n, State)
        /\ n.c.cstate = "none" /\ ~n.c.pcb /\ ~n.c.closed /\ ~n.c.gone /\ ~n.c.connected /\ ~n.c.dnsDone
        /\ Quiet(n) /\ \A k \in n.l : k.stale
    BY <1>3, CloseFields DEF n
  <2>2. ~n.c.busy /\ n.h = heard
    BY <2>1, <1>1, <1>2 DEF SameRequest
  <2>3. Connection(n)
    BY <2>1, <2>2 DEF Connection
  <2> QED
    BY <2>1, <2>2, <2>3, <1>3, <1>4, BecomeOk DEF Ok
<1>5. CASE Become(m)
  <2>1. c.rx = <<>>
    BY <1>1, <1>2, <1>3 DEF Connection, Quiet
  <2>2. m = State
    <3>1. [c EXCEPT !.rx = <<>>] = c
      BY <2>1, <1>3 DEF Clients
    <3>2. ASSUME NEW z, z = m
          PROVE  z.c = [c EXCEPT !.rx = <<>>] /\ z = [c |-> z.c, l |-> lookups, s |-> srv, h |-> heard, rc |-> TRUE]
      BY <3>2 DEF State
    <3>3. m = [c |-> c, l |-> lookups, s |-> srv, h |-> heard, rc |-> TRUE]
      <4> HIDE DEF m, State
      <4> QED
        BY <3>1, <3>2
    <3> HIDE DEF m
    <3> QED
      BY <3>3 DEF State
  <2> HIDE DEF m, State
  <2> QED
    BY <2>2, <1>1, <1>5, BecomeOk
<1> QED
  BY <1>2, <1>4, <1>5

LEMMA PollBytesInv == HInv /\ PollBytes => HInv'
<1> SUFFICES ASSUME HInv, PollBytes PROVE HInv'
  OBVIOUS
<1>1. Ok(State) /\ State.c = c
  BY StateFields DEF HInv
<1>2. PICK refuse \in BOOLEAN :
        LET x == Parse([State EXCEPT !.c.rx = Tail(c.rx)], Head(c.rx), refuse) IN
        CASE x.c.rstate = "error" -> Become(Fail(x))
          [] x.c.rstate = "done" -> \E how \in Opens, write \in BOOLEAN :
                                      Become(ResponseDone([x EXCEPT !.c.rx = <<>>], how, write))
          [] OTHER -> Become(x)
  BY DEF PollBytes
<1>3. c.cstate = "open" /\ c.busy /\ c.rx # <<>>
  BY DEF PollBytes
<1> DEFINE z == [State EXCEPT !.c.rx = Tail(c.rx)]
           v == Parse(z, Head(c.rx), refuse)
           w == [v EXCEPT !.c.rx = <<>>]
           d == [v.c EXCEPT !.rx = <<>>]
<1> HIDE DEF State
<1>4. z = [State EXCEPT !.c.rx = Tail(State.c.rx)] /\ v = Parse(z, Head(State.c.rx), refuse)
  BY <1>1
<1> HIDE DEF z
<1>5. Parsed(v)
  <2> HIDE DEF v
  <2> QED
    BY <1>1, <1>3, <1>4, OkFields, ParseOk
<1>6. /\ v.c.rstate = "error" => Become(Fail(v))
      /\ v.c.rstate = "done" => \E how \in Opens, write \in BOOLEAN : Become(ResponseDone(w, how, write))
      /\ v.c.rstate \notin {"error", "done"} => Become(v)
  BY <1>2 DEF z
<1> HIDE DEF v
<1>7. CASE v.c.rstate = "error"
  <2>1. Become(Fail(v))
    BY <1>6, <1>7
  <2>2. Ok(Fail(v))
    BY <1>5, FailOk DEF Parsed
  <2> QED
    BY <2>1, <2>2, BecomeOk
<1>8. CASE v.c.rstate = "done"
  <2>1. PICK how \in Opens, write \in BOOLEAN : Become(ResponseDone(w, how, write))
    BY <1>6, <1>8
  <2>2. /\ v \in States /\ v.c.busy /\ Told(v.h) /\ Hears(v) /\ Connection(v) /\ v.c.cstate = "open"
        /\ v.c.resp.kind \in {"plain", "redirect"} /\ v.c.resp.counted /\ v.c.left = 0 /\ v.s = <<>>
    BY <1>5, <1>8 DEF Parsed
  <2>3. v.c \in Clients /\ v.l \subseteq Lookups /\ v.s \in Seq(Exchanges) /\ v.h \in Sinks /\ v.rc \in BOOLEAN
    BY <2>2 DEF States
  <2>4. w = [c |-> d, l |-> v.l, s |-> v.s, h |-> v.h, rc |-> v.rc]
    <3>1. ASSUME NEW u, u = w
          PROVE  u.c = d /\ u = [c |-> u.c, l |-> v.l, s |-> v.s, h |-> v.h, rc |-> v.rc]
      BY <2>2, <3>1 DEF States
    <3> HIDE DEF w, d
    <3> QED
      BY <3>1
  <2>5. /\ d \in Clients /\ d.cstate = "open" /\ d.pcb = v.c.pcb /\ d.gone = v.c.gone /\ d.rx = <<>>
        /\ d.rstate = v.c.rstate /\ d.resp = v.c.resp /\ d.left = v.c.left /\ d.busy = v.c.busy
    <3>1. <<>> \in Seq(Pieces)
      OBVIOUS
    <3>2. d \in Clients
      BY <2>3, <3>1 DEF Clients
    <3> QED
      BY <3>2, <2>2, <2>3 DEF Clients
  <2> HIDE DEF w, d
  <2>6. w \in States /\ w.c = d /\ w.l = v.l /\ w.s = v.s /\ w.h = v.h
    <3>1. [c |-> d, l |-> v.l, s |-> v.s, h |-> v.h, rc |-> v.rc] \in States
      BY <2>3, <2>5, InStates
    <3> QED
      BY <3>1, <2>4
  <2>7. Hears(w)
    BY <2>2, <2>5, <2>6 DEF Hears
  <2>8. Connection(w)
    BY <2>2, <2>5, <2>6 DEF Connection
  <2>9. Ok(ResponseDone(w, how, write))
    <3>1. /\ w.c.busy /\ Told(w.h) /\ w.c.cstate = "open" /\ w.c.rstate = "done" /\ w.c.rx = <<>>
          /\ w.c.resp.kind \in {"plain", "redirect"} /\ w.c.left = 0 /\ w.s = <<>>
      BY <2>2, <2>5, <2>6, <1>8
    <3> QED
      BY <3>1, <2>6, <2>7, <2>8, DoneOk
  <2> QED
    BY <2>1, <2>9, BecomeOk
<1>9. CASE v.c.rstate \notin {"error", "done"}
  <2>1. Become(v)
    BY <1>6, <1>9
  <2>2. Ok(v)
    BY <1>5, <1>9 DEF Parsed
  <2> QED
    BY <2>1, <2>2, BecomeOk
<1> QED
  BY <1>7, <1>8, <1>9

LEMMA PollClosedInv == HInv /\ PollClosed => HInv'
<1> SUFFICES ASSUME HInv, PollClosed PROVE HInv'
  OBVIOUS
<1> DEFINE ended == [State EXCEPT !.c.rstate = "done", !.c.resp.close = TRUE]
           a == [c.resp EXCEPT !.close = TRUE]
           d == [c EXCEPT !.rstate = "done", !.resp = a]
<1>1. Ok(State) /\ State.c = c /\ State.l = lookups /\ State.s = srv /\ State.h = heard
  BY StateFields DEF HInv
<1>2. c \in Clients /\ lookups \subseteq Lookups /\ srv \in Seq(Exchanges) /\ heard \in Sinks
      /\ State.rc \in BOOLEAN /\ State \in States
      /\ Connection(State) /\ Told(heard) /\ (c.busy => Request(State) /\ Hears(State))
  BY <1>1, OkFields
<1>3. c.cstate = "open" /\ c.busy /\ c.rx = <<>>
  BY DEF PollClosed
<1>4. \/ c.rstate = "body" /\ ~c.resp.counted
         /\ \E how \in Opens, write \in BOOLEAN : Become(ResponseDone(ended, how, write))
      \/ ~c.gotStatus /\ \E how \in Opens : Become(Retry(State, how))
      \/ Become(Fail(State))
  <2> HIDE DEF ended
  <2>1. EndsAtClose(State) => c.rstate = "body" /\ ~c.resp.counted
    BY <1>1 DEF EndsAtClose
  <2>2. MayRetry(State) => ~c.gotStatus
    BY <1>1 DEF MayRetry
  <2>3. IF EndsAtClose(State) THEN \E how \in Opens, write \in BOOLEAN : Become(ResponseDone(ended, how, write))
        ELSE IF MayRetry(State) THEN \E how \in Opens : Become(Retry(State, how))
        ELSE Become(Fail(State))
    BY DEF PollClosed, ended
  <2> QED
    BY <2>1, <2>2, <2>3
<1>5. ended = [c |-> d, l |-> lookups, s |-> srv, h |-> heard, rc |-> State.rc]
  <2>1. ASSUME NEW z, z = ended
        PROVE  z.c = d /\ z = [c |-> z.c, l |-> lookups, s |-> srv, h |-> heard, rc |-> State.rc]
    BY <2>1 DEF State
  <2> HIDE DEF ended, d, State
  <2> QED
    BY <2>1
<1> HIDE DEF ended, State
<1>6. Request(State) /\ Hears(State)
  BY <1>2, <1>3
<1>7. CASE c.rstate = "body" /\ ~c.resp.counted
           /\ \E how \in Opens, write \in BOOLEAN : Become(ResponseDone(ended, how, write))
  <2>1. PICK how \in Opens, write \in BOOLEAN : Become(ResponseDone(ended, how, write))
    BY <1>7
  <2>2. c.resp.kind \in {"plain", "redirect"}
    <3>1. PICK n \in -2 .. MaxParts + 2, r \in Finals : Between(c, srv, n, r)
      BY <1>1, <1>3, <1>6 DEF Request, Streams
    <3>2. c.resp = r /\ r.kind # "garbled"
      BY <3>1, <1>7 DEF Between, ParserAt
    <3> QED
      BY <3>2, FinalType
  <2>3. a \in Answers /\ a.kind = c.resp.kind /\ a.counted = c.resp.counted /\ a.parts = c.resp.parts
    <3>1. c.resp \in Answers
      BY <1>2 DEF Clients
    <3> QED
      BY <3>1 DEF Answers
  <2> HIDE DEF a
  <2>4. /\ d \in Clients /\ d.cstate = c.cstate /\ d.pcb = c.pcb /\ d.gone = c.gone /\ d.rx = c.rx
        /\ d.rstate = "done" /\ d.resp = a /\ d.left = c.left /\ d.busy = c.busy
    <3>1. d \in Clients
      BY <1>2, <2>3 DEF Clients
    <3> QED
      BY <3>1, <1>2 DEF Clients
  <2> HIDE DEF d
  <2>5. ended \in States /\ ended.c = d /\ ended.l = lookups /\ ended.s = srv /\ ended.h = heard
    <3>1. [c |-> d, l |-> lookups, s |-> srv, h |-> heard, rc |-> State.rc] \in States
      BY <1>2, <2>4, InStates
    <3> QED
      BY <3>1, <1>5
  <2>6. Hears(ended)
    BY <2>3, <2>4, <2>5, <1>1, <1>6, <1>7 DEF Hears
  <2>7. Connection(ended)
    BY <2>4, <2>5, <1>1, <1>2, <1>3 DEF Connection
  <2>8. Ok(ResponseDone(ended, how, write))
    <3>1. /\ ended.c.busy /\ Told(ended.h) /\ ended.c.cstate = "open" /\ ended.c.rstate = "done"
          /\ ended.c.rx = <<>> /\ ended.c.resp.kind \in {"plain", "redirect"} /\ ~ended.c.resp.counted
      BY <2>2, <2>3, <2>4, <2>5, <1>2, <1>3, <1>7
    <3> QED
      BY <3>1, <2>5, <2>6, <2>7, DoneOk
  <2> QED
    BY <2>1, <2>8, BecomeOk
<1>8. CASE ~c.gotStatus /\ \E how \in Opens : Become(Retry(State, how))
  <2>1. PICK how \in Opens : Become(Retry(State, how))
    BY <1>8
  <2>2. c.rstate = "status" /\ c.host \in Hosts
    BY <1>1, <1>6, <1>8 DEF Request
  <2>3. Ok(Retry(State, how))
    BY <2>2, <1>1, <1>2, <1>3, <1>6, RetryOk
  <2> QED
    BY <2>1, <2>3, BecomeOk
<1>9. CASE Become(Fail(State))
  BY <1>9, FailState, BecomeOk
<1> QED
  BY <1>4, <1>7, <1>8, <1>9

LEMMA PollTimeoutInv == HInv /\ PollTimeout => HInv'
BY FailState, BecomeOk DEF PollTimeout

-----------------------------------------------------------------------------
(***************************************************************************)
(* The callbacks, the resolver and the server.                             *)
(***************************************************************************)
\* A step of these, as a state to become.
LEMMA OutsideOk ==
    ASSUME HInv, c' \in Clients, lookups' \subseteq Lookups, srv' \in Seq(Exchanges), UNCHANGED heard,
           ASSUME NEW y, y.c = c', y.l = lookups', y.s = srv', y.h = heard
           PROVE  Connection(y) /\ (y.c.busy => Request(y) /\ Hears(y))
    PROVE  HInv'
<1> DEFINE y == [c |-> c', l |-> lookups', s |-> srv', h |-> heard', rc |-> TRUE]
<1>1. heard \in Sinks /\ Told(heard)
  BY OkFields, StateFields DEF HInv
<1>2. y.c = c' /\ y.l = lookups' /\ y.s = srv' /\ y.h = heard' /\ heard' = heard
  OBVIOUS
<1>3. y \in States
  <2>1. TRUE \in BOOLEAN
    OBVIOUS
  <2>2. heard' \in Sinks
    BY <1>1, <1>2
  <2> QED
    BY <2>1, <2>2, InStates, Zenon
<1> HIDE DEF y
<1>4. Connection(y) /\ (y.c.busy => Request(y) /\ Hears(y))
  BY <1>2
<1>5. Ok(y)
  BY <1>1, <1>2, <1>3, <1>4 DEF Ok
<1> QED
  BY <1>2, <1>5, BecomeOk DEF Become

\* Nothing more comes from a server whose end is closed.
LEMMA StreamsCut ==
    ASSUME NEW a, NEW s, Streams(a, s), NEW d, d.rx = a.rx, d.req = a.req, d.host = a.host,
           d.rstate = a.rstate, d.resp = a.resp, d.left = a.left
    PROVE  Streams(d, <<>>) /\ Streams(d, s)
<1>1. PICK n \in -2 .. MaxParts + 2, r \in Finals : Between(a, s, n, r)
  BY DEF Streams
<1>2. Between(d, <<>>, n, r) /\ Between(d, s, n, r)
  BY <1>1 DEF Between, ParserAt
<1>3. Own(d, <<>>) /\ Own(d, s)
  BY DEF Streams, Own
<1> QED
  BY <1>2, <1>3 DEF Streams

LEMMA CbDnsInv == HInv /\ CbDns => HInv'
<1> SUFFICES ASSUME HInv, CbDns PROVE HInv'
  OBVIOUS
<1>1. PICK k \in lookups, found \in BOOLEAN :
        /\ lookups' = lookups \ {k}
        /\ c' = IF ~IsOurs(k) THEN c
                ELSE [c EXCEPT !.dnsDone = TRUE, !.dnsOk = found, !.addr = IF found THEN k.host ELSE @]
  BY DEF CbDns
<1>2. UNCHANGED <<srv, heard>>
  BY DEF CbDns
<1>3. State.c = c /\ State.l = lookups /\ State.s = srv /\ State.h = heard
  BY StateFields
<1> HIDE DEF State
<1>4. c \in Clients /\ lookups \subseteq Lookups /\ srv \in Seq(Exchanges) /\ Connection(State)
      /\ (c.busy => Request(State) /\ Hears(State))
  BY <1>3, OkFields DEF HInv
<1>5. k \in Lookups /\ k.host \in Hosts /\ k.stale \in BOOLEAN
  BY <1>4 DEF Lookups
<1>6. CASE k.stale
  <2>1. c' = c
    BY <1>1, <1>6 DEF IsOurs
  <2>2. ASSUME NEW y, y.c = c', y.l = lookups', y.s = srv', y.h = heard
        PROVE  Connection(y) /\ (y.c.busy => Request(y) /\ Hears(y))
    <3>1. Resolves(State) => Resolves(y)
      BY <2>1, <2>2, <1>1, <1>3 DEF Resolves
    <3>2. Quiet(State) => Quiet(y)
      BY <2>1, <2>2, <1>2, <1>3 DEF Quiet
    <3>3. Connection(y)
      BY <2>1, <2>2, <3>1, <3>2, <1>1, <1>3, <1>4 DEF Connection
    <3>4. y.c.busy => Request(y) /\ Hears(y)
      BY <2>1, <2>2, <1>2, <1>3, <1>4 DEF Request, Hears
    <3> QED
      BY <3>3, <3>4
  <2> QED
    BY <2>1, <2>2, <1>1, <1>2, <1>4, OutsideOk
<1>7. CASE ~k.stale
  <2> DEFINE a == IF found THEN k.host ELSE c.addr
             d == [c EXCEPT !.dnsDone = TRUE, !.dnsOk = found, !.addr = a]
  <2>1. c' = d
    BY <1>1, <1>7 DEF IsOurs
  <2>2. a \in Hosts \cup {NoHost}
    BY <1>4, <1>5 DEF Clients
  <2> HIDE DEF a
  <2>3. d \in Clients
    BY <2>2, <1>4 DEF Clients
  <2>4. /\ d.dnsDone = TRUE /\ d.dnsOk = found /\ d.addr = a
        /\ d.cstate = c.cstate /\ d.pcb = c.pcb /\ d.gone = c.gone /\ d.closed = c.closed /\ d.rx = c.rx
        /\ d.busy = c.busy /\ d.host = c.host /\ d.peer = c.peer /\ d.req = c.req
        /\ d.rstate = c.rstate /\ d.resp = c.resp /\ d.left = c.left /\ d.gotStatus = c.gotStatus
    BY <1>4 DEF Clients
  <2> HIDE DEF d
  <2>5. ASSUME NEW y, y.c = d, y.l = lookups', y.s = srv, y.h = heard
        PROVE  Connection(y) /\ (y.c.busy => Request(y) /\ Hears(y))
    <3>1. c.cstate # "none"
      BY <1>3, <1>4, <1>7 DEF Connection
    <3>2. Resolves(State) => Resolves(y)
      <4> SUFFICES ASSUME Resolves(State) PROVE Resolves(y)
        OBVIOUS
      <4>1. k.host = c.host
        BY <1>3, <1>7 DEF Resolves
      <4>2. \A j \in y.l : ~j.stale => j.host = y.c.host
        BY <2>4, <2>5, <1>1, <1>3 DEF Resolves
      <4>3. y.c.dnsOk => y.c.addr = y.c.host
        BY <4>1, <2>4, <2>5 DEF a
      <4> QED
        BY <4>2, <4>3 DEF Resolves
    <3>3. Quiet(State) => Quiet(y)
      BY <2>4, <2>5, <1>3 DEF Quiet
    <3>4. Connection(y)
      BY <3>1, <3>2, <3>3, <2>4, <2>5, <1>3, <1>4 DEF Connection
    <3>5. Streams(c, srv) => Streams(d, srv)
      BY <2>4, StreamsCut
    <3>6. y.c.busy => Request(y)
      BY <3>5, <2>4, <2>5, <1>3, <1>4 DEF Request
    <3>7. y.c.busy => Hears(y)
      BY <2>4, <2>5, <1>3, <1>4 DEF Hears
    <3> QED
      BY <3>4, <3>6, <3>7
  <2> QED
    BY <2>1, <2>3, <2>5, <1>1, <1>2, <1>4, OutsideOk
<1> QED
  BY <1>6, <1>7

LEMMA CbConnectedInv == HInv /\ CbConnected => HInv'
<1> SUFFICES ASSUME HInv, CbConnected PROVE HInv'
  OBVIOUS
<1> DEFINE d == [c EXCEPT !.connected = TRUE]
<1>1. c.cstate = "connecting" /\ c' = d /\ UNCHANGED <<lookups, srv, heard>>
  BY DEF CbConnected, Connectable
<1>3. State.c = c /\ State.l = lookups /\ State.s = srv /\ State.h = heard
  BY StateFields
<1> HIDE DEF State
<1>4. c \in Clients /\ lookups \subseteq Lookups /\ srv \in Seq(Exchanges) /\ Connection(State)
      /\ (c.busy => Request(State) /\ Hears(State))
  BY <1>3, OkFields DEF HInv
<1>5. /\ d \in Clients /\ d.cstate = c.cstate /\ d.pcb = c.pcb /\ d.gone = c.gone /\ d.rx = c.rx
      /\ d.busy = c.busy /\ d.host = c.host /\ d.peer = c.peer
      /\ d.rstate = c.rstate /\ d.resp = c.resp /\ d.left = c.left /\ d.gotStatus = c.gotStatus
  <2>1. d \in Clients
    BY <1>4 DEF Clients
  <2> QED
    BY <2>1, <1>4 DEF Clients
<1> HIDE DEF d
<1>6. ASSUME NEW y, y.c = d, y.l = lookups, y.s = srv, y.h = heard
      PROVE  Connection(y) /\ (y.c.busy => Request(y) /\ Hears(y))
  <2>1. Quiet(State) => Quiet(y)
    BY <1>3, <1>5, <1>6 DEF Quiet
  <2>2. Connection(y)
    BY <2>1, <1>1, <1>3, <1>4, <1>5, <1>6 DEF Connection
  <2>3. y.c.busy => Request(y)
    BY <1>1, <1>3, <1>4, <1>5, <1>6 DEF Request
  <2>4. y.c.busy => Hears(y)
    BY <1>3, <1>4, <1>5, <1>6 DEF Hears
  <2> QED
    BY <2>2, <2>3, <2>4
<1> QED
  BY <1>1, <1>4, <1>5, <1>6, OutsideOk

\* The connection dies, or its other end is closed.
LEMMA CutInv ==
    ASSUME HInv, c.cstate # "none", NEW d \in Clients, c' = d, srv' = <<>>,
           UNCHANGED <<lookups, heard>>, d.cstate = c.cstate, d.pcb => c.pcb /\ ~d.gone,
           d.rx = c.rx, d.busy = c.busy, d.host = c.host, d.peer = c.peer, d.req = c.req,
           d.dnsDone = c.dnsDone, d.dnsOk = c.dnsOk, d.addr = c.addr,
           d.rstate = c.rstate, d.resp = c.resp, d.left = c.left, d.gotStatus = c.gotStatus
    PROVE  HInv'
<1>1. State.c = c /\ State.l = lookups /\ State.s = srv /\ State.h = heard
  BY StateFields
<1> HIDE DEF State
<1>2. lookups \subseteq Lookups /\ Connection(State) /\ (c.busy => Request(State) /\ Hears(State))
  BY <1>1, OkFields DEF HInv
<1>3. ASSUME NEW y, y.c = d, y.l = lookups, y.s = <<>>, y.h = heard
      PROVE  Connection(y) /\ (y.c.busy => Request(y) /\ Hears(y))
  <2>1. Quiet(State) => Quiet(y)
    BY <1>1, <1>3 DEF Quiet
  <2>2. Resolves(State) => Resolves(y)
    BY <1>1, <1>3 DEF Resolves
  <2>3. Connection(y)
    BY <2>1, <2>2, <1>1, <1>2, <1>3 DEF Connection
  <2>4. Streams(c, srv) => Streams(d, <<>>)
    BY StreamsCut
  <2>5. y.c.busy => Request(y)
    BY <2>4, <1>1, <1>2, <1>3 DEF Request
  <2>6. y.c.busy => Hears(y)
    BY <1>1, <1>2, <1>3 DEF Hears
  <2> QED
    BY <2>3, <2>5, <2>6
<1>4. <<>> \in Seq(Exchanges)
  OBVIOUS
<1> QED
  BY <1>2, <1>3, <1>4, OutsideOk

LEMMA CbErrInv == HInv /\ CbErr => HInv'
<1> SUFFICES ASSUME HInv, CbErr PROVE HInv'
  OBVIOUS
<1> DEFINE d == [c EXCEPT !.pcb = FALSE, !.gone = TRUE]
<1>1. c.cstate \in {"connecting", "open"} /\ c' = d /\ srv' = <<>> /\ UNCHANGED <<lookups, heard>>
  BY DEF CbErr
<1>2. c \in Clients
  BY OkFields, StateFields DEF HInv
<1>3. d \in Clients
  BY <1>2 DEF Clients
<1>4. /\ d.cstate = c.cstate /\ ~d.pcb
      /\ d.rx = c.rx /\ d.busy = c.busy /\ d.host = c.host /\ d.peer = c.peer /\ d.req = c.req
      /\ d.dnsDone = c.dnsDone /\ d.dnsOk = c.dnsOk /\ d.addr = c.addr
      /\ d.rstate = c.rstate /\ d.resp = c.resp /\ d.left = c.left /\ d.gotStatus = c.gotStatus
  BY <1>2 DEF Clients
<1> HIDE DEF d
<1> QED
  BY <1>1, <1>3, <1>4, CutInv

LEMMA CbClosedInv == HInv /\ CbClosed => HInv'
<1> SUFFICES ASSUME HInv, CbClosed PROVE HInv'
  OBVIOUS
<1> DEFINE d == [c EXCEPT !.closed = TRUE]
<1>1. c.pcb /\ (c.cstate = "open" \/ c.connected) /\ c' = d /\ srv' = <<>> /\ UNCHANGED <<lookups, heard>>
  BY DEF CbClosed, Established
<1>2. c \in Clients /\ Connection(State) /\ State.c = c /\ (c.busy => Request(State))
  BY OkFields, StateFields DEF HInv
<1>3. d \in Clients
  BY <1>2 DEF Clients
<1>4. /\ d.cstate = c.cstate /\ d.pcb = c.pcb /\ d.gone = c.gone
      /\ d.rx = c.rx /\ d.busy = c.busy /\ d.host = c.host /\ d.peer = c.peer /\ d.req = c.req
      /\ d.dnsDone = c.dnsDone /\ d.dnsOk = c.dnsOk /\ d.addr = c.addr
      /\ d.rstate = c.rstate /\ d.resp = c.resp /\ d.left = c.left /\ d.gotStatus = c.gotStatus
  BY <1>2 DEF Clients
<1> HIDE DEF d, State
<1>5. ~c.gone /\ c.cstate # "none"
  BY <1>1, <1>2 DEF Connection
<1> QED
  BY <1>1, <1>3, <1>4, <1>5, CutInv

\* The server has made up its mind.
Answered(e, r) == [e EXCEPT !.phase = "line", !.resp = r, !.left = r.parts]

LEMMA ResponseType == Responses \subseteq Answers
<1>0. MaxParts \in Nat /\ 0 \in 0 .. MaxParts /\ TRUE \in BOOLEAN /\ FALSE \in BOOLEAN
  BY RedirectsAssumption
<1> QED
  BY <1>0 DEF Responses, Answers, Kinds

LEMMA AnswerStreams ==
    ASSUME NEW a \in Clients, NEW s \in Seq(Exchanges), s # <<>>, Streams(a, s),
           s[1].phase \in {"asked", "continued"}, NEW v \in Responses,
           v.kind = "interim" => s[1].phase = "asked"
    PROVE  <<Answered(s[1], v)>> \in Seq(Exchanges) /\ Streams(a, <<Answered(s[1], v)>>)
<1> DEFINE e == s[1]
           f == Answered(e, v)
           m == Len(a.rx)
<1>1. m \in Nat
  BY DEF Clients
<1>2. e \in Exchanges
  OBVIOUS
<1>3. v \in Answers /\ v.parts \in 0 .. MaxParts /\ (v.kind = "interim" => v.parts = 0)
  <2>1. v \in Answers /\ v.parts \in 0 .. MaxParts
    BY ResponseType DEF Answers
  <2>2. v.kind = "interim" => v.parts = 0
    BY DEF Responses
  <2> QED
    BY <2>1, <2>2
<1>4. f \in Exchanges /\ f.phase = "line" /\ f.resp = v /\ f.left = v.parts /\ f.req = e.req
  BY <1>2, <1>3 DEF Exchanges, Answered
<1>5. PICK n \in -2 .. MaxParts + 2, r \in Finals : Between(a, s, n, r)
  BY DEF Streams
<1>6. n \in Int /\ -2 <= n /\ ServerAt(e, n + m, r)
  BY <1>5 DEF Between
<1>7. ParserAt(a, n, r) /\ \A k \in 1 .. m : PieceAt(a.rx[k], n + k - 1, r)
  BY <1>5 DEF Between
<1> HIDE DEF f, m
<1>8. Own(a, <<f>>)
  <2>1. e.req = a.req /\ \A k \in 1 .. Len(a.rx) : a.rx[k].req = a.req /\ a.rx[k].peer = a.host
    BY DEF Streams, Own
  <2>2. <<f>>[1].req = a.req
    BY <2>1, <1>4
  <2> QED
    BY <2>1, <2>2 DEF Own
<1>9. <<f>> \in Seq(Exchanges) /\ Len(<<f>>) = 1 /\ <<f>>[1] = f
  BY <1>4
<1>10. CASE v.kind = "interim"
  <2>1. n + m = -2
    BY <1>6, <1>10 DEF ServerAt
  <2>2. ServerAt(f, n + m, r)
    BY <2>1, <1>3, <1>4, <1>10 DEF ServerAt
  <2>3. Between(a, <<f>>, n, r)
    BY <2>2, <1>7, <1>9 DEF Between, m
  <2> QED
    BY <2>3, <1>5, <1>8, <1>9 DEF Streams, f
<1>11. CASE v.kind # "interim" /\ e.phase = "asked"
  <2>1. n = -2 /\ m = 0
    BY <1>1, <1>6, <1>11 DEF ServerAt
  <2>2. ParserAt(a, 0, v)
    BY <2>1, <1>7 DEF ParserAt
  <2>3. ServerAt(f, 0 + m, v)
    BY <2>1, <1>4 DEF ServerAt
  <2>4. Between(a, <<f>>, 0, v)
    BY <2>1, <2>2, <2>3, <1>9 DEF Between, m
  <2>5. v \in Finals /\ 0 \in -2 .. MaxParts + 2
    BY <1>11, RedirectsAssumption DEF Finals
  <2> QED
    BY <2>4, <2>5, <1>8, <1>9 DEF Streams, f
<1>12. CASE v.kind # "interim" /\ e.phase = "continued"
  <2>1. n + m = 0 /\ n <= 0
    BY <1>1, <1>6, <1>12 DEF ServerAt
  <2>2. ParserAt(a, n, v)
    BY <2>1, <1>6, <1>7, <1>12 DEF ParserAt
  <2>3. ASSUME NEW k \in 1 .. m PROVE PieceAt(a.rx[k], n + k - 1, v)
    <3>1. k \in Int /\ k <= m
      BY <1>1
    <3>2. PieceAt(a.rx[k], n + k - 1, r)
      BY <1>7
    <3>3. n \in Int /\ m \in Int
      BY <1>1, <1>6
    <3>4. n + k - 1 < 0 /\ n + k - 1 \in Int
      <4> HIDE DEF e, m
      <4> QED  BY <2>1, <3>1, <3>3
    <3> QED
      BY <3>2, <3>4 DEF PieceAt
  <2>4. ServerAt(f, n + m, v)
    BY <2>1, <1>4 DEF ServerAt
  <2>5. Between(a, <<f>>, n, v)
    BY <2>2, <2>3, <2>4, <1>9 DEF Between, m
  <2>6. v \in Finals
    BY <1>12 DEF Finals
  <2> QED
    BY <2>5, <2>6, <1>5, <1>8, <1>9 DEF Streams, f
<1> QED
  BY <1>10, <1>11, <1>12

\* What is on its way belongs to a request that was sent and not yet answered.
LEMMA OnlyOpen ==
    ASSUME HInv, srv # <<>>
    PROVE  c.busy /\ c.cstate = "open" /\ Streams(c, srv) /\ c.peer = c.host
<1>1. State.c = c /\ State.s = srv /\ Connection(State) /\ (c.busy => Request(State))
  BY StateFields, OkFields DEF HInv
<1> HIDE DEF State
<1> QED
  BY <1>1 DEF Connection, Quiet, Request

LEMMA ServerAnswersInv == HInv /\ ServerAnswers => HInv'
<1> SUFFICES ASSUME HInv, ServerAnswers PROVE HInv'
  OBVIOUS
<1>1. PICK r \in Responses :
        /\ r.kind = "interim" => Head(srv).phase = "asked"
        /\ srv' = [srv EXCEPT ![1] = [@ EXCEPT !.phase = "line", !.resp = r, !.left = r.parts]]
  BY DEF ServerAnswers
<1>2. srv # <<>> /\ Head(srv).phase \in {"asked", "continued"} /\ UNCHANGED <<c, lookups, heard>>
  BY DEF ServerAnswers
<1>3. State.c = c /\ State.l = lookups /\ State.s = srv /\ State.h = heard
  BY StateFields
<1>4. c \in Clients /\ lookups \subseteq Lookups /\ srv \in Seq(Exchanges) /\ Connection(State)
      /\ (c.busy => Request(State) /\ Hears(State))
  BY <1>3, OkFields DEF HInv
<1> HIDE DEF State
<1>5. c.busy /\ c.cstate = "open" /\ Streams(c, srv)
  BY <1>2, OnlyOpen
<1>6. Len(srv) = 1 /\ Head(srv) = srv[1]
  BY <1>2, <1>4, <1>5 DEF Streams, Between
<1>7. srv' = <<Answered(srv[1], r)>>
  <2>1. srv' = [srv EXCEPT ![1] = Answered(srv[1], r)]
    BY <1>1 DEF Answered
  <2> QED
    BY <2>1, <1>4, <1>6
<1>8. srv' \in Seq(Exchanges) /\ Streams(c, srv')
  <2>1. srv[1].phase \in {"asked", "continued"} /\ (r.kind = "interim" => srv[1].phase = "asked")
    BY <1>1, <1>2, <1>6
  <2>2. <<Answered(srv[1], r)>> \in Seq(Exchanges) /\ Streams(c, <<Answered(srv[1], r)>>)
    BY <2>1, <1>2, <1>4, <1>5, AnswerStreams
  <2> QED
    BY <2>2, <1>7
<1>9. ASSUME NEW y, y.c = c, y.l = lookups, y.s = srv', y.h = heard
      PROVE  Connection(y) /\ (y.c.busy => Request(y) /\ Hears(y))
  <2>1. Connection(y)
    BY <1>3, <1>4, <1>5, <1>9 DEF Connection
  <2>2. Request(y)
    BY <1>3, <1>4, <1>5, <1>8, <1>9 DEF Request
  <2>3. Hears(y)
    BY <1>3, <1>4, <1>5, <1>9 DEF Hears
  <2> QED
    BY <2>1, <2>2, <2>3
<1> QED
  BY <1>2, <1>4, <1>8, <1>9, OutsideOk

\* The server's next position.
Onward(e) ==
    CASE e.phase = "line" -> <<[e EXCEPT !.phase = "head"]>>
      [] e.phase = "head" /\ e.resp.kind = "interim" -> <<[e EXCEPT !.phase = "continued"]>>
      [] e.phase = "head" /\ e.left > 0 -> <<[e EXCEPT !.phase = "part"]>>
      [] e.phase = "part" /\ e.left > 1 -> <<[e EXCEPT !.left = @ - 1]>>
      [] OTHER -> <<>>

LEMMA OnwardAt ==
    ASSUME NEW e \in Exchanges, e.phase \in {"line", "head", "part"}, NEW n \in Int, NEW r \in Finals,
           ServerAt(e, n, r), NEW p, p.what = e.phase, p.resp = e.resp
    PROVE  /\ PieceAt(p, n, r)
           /\ Onward(e) \in Seq(Exchanges)
           /\ Onward(e) # <<>> => /\ Len(Onward(e)) = 1 /\ Onward(e)[1].req = e.req
                                  /\ ServerAt(Onward(e)[1], n + 1, r)
<1>1. e.left \in 0 .. MaxParts /\ r.parts \in Nat /\ r.kind # "interim"
  BY FinalType DEF Exchanges
<1>2. PieceAt(p, n, r)
  BY <1>1 DEF ServerAt, PieceAt, End
<1>3. CASE e.phase = "line"
  <2> DEFINE f == [e EXCEPT !.phase = "head"]
  <2>1. Onward(e) = <<f>>
    BY <1>3 DEF Onward
  <2>2. f \in Exchanges /\ f.phase = "head" /\ f.resp = e.resp /\ f.left = e.left /\ f.req = e.req
    BY DEF Exchanges
  <2> HIDE DEF f
  <2>3. ServerAt(f, n + 1, r)
    BY <2>2, <1>1, <1>3 DEF ServerAt
  <2> QED
    BY <2>1, <2>2, <2>3, <1>2
<1>4. CASE e.phase = "head" /\ e.resp.kind = "interim"
  <2> DEFINE f == [e EXCEPT !.phase = "continued"]
  <2>1. Onward(e) = <<f>>
    <3>1. e.left = 0
      BY <1>1, <1>4 DEF ServerAt
    <3> QED
      BY <1>4, <3>1 DEF Onward
  <2>2. f \in Exchanges /\ f.phase = "continued" /\ f.resp = e.resp /\ f.left = e.left /\ f.req = e.req
    BY DEF Exchanges
  <2> HIDE DEF f
  <2>3. ServerAt(f, n + 1, r)
    BY <2>2, <1>1, <1>4 DEF ServerAt
  <2> QED
    BY <2>1, <2>2, <2>3, <1>2
<1>5. CASE e.phase = "head" /\ e.resp.kind # "interim" /\ e.left > 0
  <2> DEFINE f == [e EXCEPT !.phase = "part"]
  <2>1. Onward(e) = <<f>>
    BY <1>5 DEF Onward
  <2>2. f \in Exchanges /\ f.phase = "part" /\ f.resp = e.resp /\ f.left = e.left /\ f.req = e.req
    BY DEF Exchanges
  <2> HIDE DEF f
  <2>3. ServerAt(f, n + 1, r)
    BY <2>2, <1>1, <1>5 DEF ServerAt, End
  <2> QED
    BY <2>1, <2>2, <2>3, <1>2
<1>6. CASE e.phase = "part" /\ e.left > 1
  <2> DEFINE f == [e EXCEPT !.left = @ - 1]
  <2>1. Onward(e) = <<f>>
    BY <1>6 DEF Onward
  <2>2. e.left - 1 \in 0 .. MaxParts
    BY <1>1, <1>6, RedirectsAssumption
  <2>3. f \in Exchanges /\ f.phase = "part" /\ f.resp = e.resp /\ f.left = e.left - 1 /\ f.req = e.req
    BY <2>2, <1>6 DEF Exchanges
  <2> HIDE DEF f
  <2>4. ServerAt(f, n + 1, r)
    BY <2>3, <1>1, <1>6 DEF ServerAt, End
  <2> QED
    BY <2>1, <2>3, <2>4, <1>2
<1>7. CASE ~(e.phase = "head" /\ e.left > 0) /\ ~(e.phase = "part" /\ e.left > 1)
           /\ e.phase # "line" /\ ~(e.phase = "head" /\ e.resp.kind = "interim")
  <2>1. Onward(e) = <<>>
    BY <1>7 DEF Onward
  <2>2. <<>> \in Seq(Exchanges)
    OBVIOUS
  <2> QED
    BY <2>1, <2>2, <1>2
<1> QED
  BY <1>3, <1>4, <1>5, <1>6, <1>7

\* A piece leaves the server and joins those that have arrived.
LEMMA RecvStreams ==
    ASSUME NEW a \in Clients, NEW s \in Seq(Exchanges), s # <<>>, Streams(a, s),
           s[1].phase \in {"line", "head", "part"},
           NEW p, p.what = s[1].phase, p.req = s[1].req, p.peer = a.host, p.resp = s[1].resp, p \in Pieces,
           NEW d, d.rx = Append(a.rx, p), d.req = a.req, d.host = a.host,
           d.rstate = a.rstate, d.resp = a.resp, d.left = a.left
    PROVE  Onward(s[1]) \in Seq(Exchanges) /\ Streams(d, Onward(s[1]))
<1> DEFINE e == s[1]
           f == Onward(e)
           m == Len(a.rx)
<1>1. a.rx \in Seq(Pieces) /\ m \in Nat /\ e \in Exchanges
  BY DEF Clients
<1>2. Len(d.rx) = m + 1 /\ d.rx[m + 1] = p /\ \A k \in 1 .. m : d.rx[k] = a.rx[k]
  BY <1>1
<1>3. PICK n \in -2 .. MaxParts + 2, r \in Finals : Between(a, s, n, r)
  BY DEF Streams
<1>4. n \in Int /\ ParserAt(a, n, r) /\ ServerAt(e, n + m, r)
      /\ \A k \in 1 .. m : PieceAt(a.rx[k], n + k - 1, r)
  BY <1>3 DEF Between
<1>5. /\ PieceAt(p, n + m, r) /\ f \in Seq(Exchanges)
      /\ f # <<>> => Len(f) = 1 /\ f[1].req = e.req /\ ServerAt(f[1], n + m + 1, r)
  <2>1. n + m \in Int
    BY <1>1, <1>4
  <2> HIDE DEF e
  <2> QED
    BY <2>1, <1>1, <1>4, OnwardAt DEF e
<1> HIDE DEF f, e
<1>6. Own(d, f)
  <2>1. e.req = a.req /\ \A k \in 1 .. m : a.rx[k].req = a.req /\ a.rx[k].peer = a.host
    BY DEF Streams, Own, e
  <2>2. ASSUME NEW k \in 1 .. Len(d.rx) PROVE d.rx[k].req = d.req /\ d.rx[k].peer = d.host
    <3>1. CASE k = m + 1
      BY <3>1, <2>1, <1>2 DEF e
    <3>2. CASE k # m + 1
      <4>1. k \in 1 .. m
        BY <3>2, <1>1, <1>2
      <4> QED
        BY <4>1, <2>1, <1>2
    <3> QED
      BY <3>1, <3>2
  <2> QED
    BY <2>1, <2>2, <1>5 DEF Own
<1>7. ASSUME NEW k \in 1 .. Len(d.rx) PROVE PieceAt(d.rx[k], n + k - 1, r)
  <2>1. CASE k = m + 1
    <3>1. n + k - 1 = n + m
      BY <2>1, <1>1, <1>4
    <3> QED
      BY <2>1, <3>1, <1>2, <1>5
  <2>2. CASE k # m + 1
    <3>1. k \in 1 .. m
      BY <2>2, <1>1, <1>2
    <3> QED
      BY <3>1, <1>2, <1>4
  <2> QED
    BY <2>1, <2>2
<1>8. ParserAt(d, n, r)
  BY <1>4 DEF ParserAt
<1>9. f # <<>> => Len(f) = 1 /\ ServerAt(f[1], n + Len(d.rx), r)
  <2>1. n + Len(d.rx) = n + m + 1
    <3> HIDE DEF m
    <3> QED
      BY <1>1, <1>2, <1>4
  <2> QED
    BY <2>1, <1>5
<1>10. Between(d, f, n, r)
  BY <1>7, <1>8, <1>9 DEF Between
<1> QED
  BY <1>3, <1>5, <1>6, <1>10 DEF Streams, f, e

LEMMA CbRecvInv == HInv /\ CbRecv => HInv'
<1> SUFFICES ASSUME HInv, CbRecv PROVE HInv'
  OBVIOUS
<1> DEFINE e == Head(srv)
           p == Piece(e.phase, e.req, c.peer, e.resp)
           q == Append(c.rx, p)
           d == [c EXCEPT !.rx = q]
<1>1. srv # <<>> /\ e.phase \in {"line", "head", "part"} /\ c' = d /\ UNCHANGED <<lookups, heard>>
  BY DEF CbRecv
<1>2. State.c = c /\ State.l = lookups /\ State.s = srv /\ State.h = heard
  BY StateFields
<1>3. c \in Clients /\ lookups \subseteq Lookups /\ srv \in Seq(Exchanges) /\ Connection(State)
      /\ (c.busy => Request(State) /\ Hears(State))
  BY <1>2, OkFields DEF HInv
<1> HIDE DEF State
<1>4. c.busy /\ c.cstate = "open" /\ Streams(c, srv) /\ c.peer = c.host
  BY <1>1, OnlyOpen
<1>5. Len(srv) = 1 /\ e = srv[1] /\ e \in Exchanges
  BY <1>1, <1>3, <1>4 DEF Streams, Between
<1>6. srv' = Onward(e)
  <2>1. /\ \A ph : [srv EXCEPT ![1].phase = ph] = <<[e EXCEPT !.phase = ph]>>
        /\ [srv EXCEPT ![1].left = @ - 1] = <<[e EXCEPT !.left = @ - 1]>>
        /\ Tail(srv) = <<>>
    BY <1>3, <1>5
  <2>2. srv' = CASE e.phase = "line" -> [srv EXCEPT ![1].phase = "head"]
                 [] e.phase = "head" /\ e.resp.kind = "interim" -> [srv EXCEPT ![1].phase = "continued"]
                 [] e.phase = "head" /\ e.left > 0 -> [srv EXCEPT ![1].phase = "part"]
                 [] e.phase = "part" /\ e.left > 1 -> [srv EXCEPT ![1].left = @ - 1]
                 [] OTHER -> Tail(srv)
    BY DEF CbRecv
  <2> HIDE DEF e
  <2> QED
    BY <2>1, <2>2 DEF Onward
<1>7. p \in Pieces /\ p.what = e.phase /\ p.req = e.req /\ p.peer = c.host /\ p.resp = e.resp
  BY <1>1, <1>3, <1>4, <1>5 DEF Piece, Pieces, Exchanges, Clients
<1> HIDE DEF p
<1>8. /\ d \in Clients /\ d.rx = Append(c.rx, p) /\ d.cstate = c.cstate /\ d.pcb = c.pcb /\ d.gone = c.gone
      /\ d.busy = c.busy /\ d.host = c.host /\ d.peer = c.peer /\ d.req = c.req
      /\ d.rstate = c.rstate /\ d.resp = c.resp /\ d.left = c.left /\ d.gotStatus = c.gotStatus
  <2>1. q \in Seq(Pieces)
    BY <1>3, <1>7 DEF Clients
  <2>2. q = Append(c.rx, p)
    OBVIOUS
  <2> HIDE DEF q
  <2>3. d \in Clients
    BY <2>1, <1>3 DEF Clients
  <2> QED
    BY <2>2, <2>3, <1>3 DEF Clients
<1> HIDE DEF d, q, e
<1>9. srv' \in Seq(Exchanges) /\ Streams(d, srv')
  BY <1>1, <1>3, <1>4, <1>5, <1>6, <1>7, <1>8, RecvStreams
<1>10. ASSUME NEW y, y.c = d, y.l = lookups, y.s = srv', y.h = heard
       PROVE  Connection(y) /\ (y.c.busy => Request(y) /\ Hears(y))
  <2>1. Connection(y)
    BY <1>2, <1>3, <1>4, <1>8, <1>10 DEF Connection
  <2>2. Request(y)
    BY <1>2, <1>3, <1>4, <1>8, <1>9, <1>10 DEF Request
  <2>3. Hears(y)
    BY <1>2, <1>3, <1>4, <1>8, <1>10 DEF Hears
  <2> QED
    BY <2>1, <2>2, <2>3
<1> QED
  BY <1>1, <1>3, <1>8, <1>9, <1>10, OutsideOk

-----------------------------------------------------------------------------
(***************************************************************************)
(* The invariant holds, and with it what the runs check.                   *)
(***************************************************************************)
LEMMA InitInv == Init => HInv
<1> SUFFICES ASSUME Init PROVE HInv
  OBVIOUS
<1>1. NoResponse \in Answers /\ 0 \in 0 .. MaxParts /\ 0 \in 0 .. HTTP_MAX_REDIRECTS
  BY RedirectsAssumption DEF NoResponse, Answers, Kinds
<1>2. (CHOOSE q \in Requests : TRUE) \in Requests
  BY RequestsAssumption
<1>3. <<>> \in Seq(Pieces) /\ <<>> \in Seq(Exchanges) /\ FALSE \in BOOLEAN /\ TRUE \in BOOLEAN
  OBVIOUS
<1>4. c \in Clients
  BY <1>1, <1>2, <1>3 DEF Init, Clients
<1>5. heard \in Sinks
  BY <1>1 DEF Init, NothingHeard, Sinks
<1>6. lookups = {} /\ srv = <<>>
  BY DEF Init
<1>7. State \in States
  <2>1. [c |-> c, l |-> lookups, s |-> srv, h |-> heard, rc |-> TRUE] \in States
    BY <1>3, <1>4, <1>5, <1>6, InStates, Zenon
  <2> QED
    BY <2>1 DEF State
<1>8. c.cstate = "none" /\ ~c.pcb /\ ~c.closed /\ ~c.gone /\ ~c.connected /\ ~c.dnsDone /\ c.rx = <<>> /\ ~c.busy
  BY DEF Init
<1>9. State.c = c /\ State.l = lookups /\ State.s = srv
  BY StateFields
<1>10. Told(State.h)
  BY StateFields DEF Init, NothingHeard, Told
<1> HIDE DEF State
<1>11. Connection(State)
  BY <1>6, <1>8, <1>9 DEF Connection, Quiet
<1> QED
  BY <1>7, <1>8, <1>9, <1>10, <1>11 DEF HInv, Ok

LEMMA NextInv == HInv /\ [Next]_vars => HInv'
<1> SUFFICES ASSUME HInv, [Next]_vars PROVE HInv'
  OBVIOUS
<1>1. CASE UNCHANGED vars
  <2>1. State' = State
    BY <1>1 DEF vars, State
  <2> HIDE DEF State
  <2>2. HInv' = Ok(State')
    BY DEF HInv
  <2> QED
    BY <2>1, <2>2 DEF HInv
<1>2. CASE HttpPoll
  BY <1>2, PollResolvedInv, PollConnectingInv, PollIdleInv, PollBytesInv, PollClosedInv, PollTimeoutInv
  DEF HttpPoll
<1>3. CASE Outside
  BY <1>3, CbDnsInv, CbConnectedInv, CbErrInv, CbClosedInv, ServerAnswersInv, CbRecvInv DEF Outside
<1> QED
  BY <1>1, <1>2, <1>3, HttpGetInv, HttpCancelInv DEF Next

LEMMA TypesImplied == HInv => TypeOK
<1> SUFFICES ASSUME HInv PROVE TypeOK
  OBVIOUS
<1>1. c \in Clients /\ lookups \subseteq Lookups /\ Connection(State) /\ State.c = c /\ State.s = srv
  BY StateFields, OkFields DEF HInv
<1> HIDE DEF State
<1>2. c.cstate \in {"none", "resolving", "connecting", "open"}
      /\ c.peer \in Hosts \cup {NoHost} /\ c.host \in Hosts \cup {NoHost} /\ c.addr \in Hosts \cup {NoHost}
      /\ c.rstate \in {"status", "headers", "body", "done", "error"}
      /\ c.redirects \in 0 .. HTTP_MAX_REDIRECTS /\ c.left \in 0 .. MaxParts /\ c.req \in Requests
  BY <1>1 DEF Clients
<1>3. lookups \subseteq [host : Hosts, stale : BOOLEAN]
  BY <1>1 DEF Lookups
<1>4. (c.pcb => c.cstate # "none" /\ ~c.gone)
      /\ (c.cstate = "none" => c.rx = <<>> /\ ~c.closed /\ ~c.gone /\ ~c.connected /\ ~c.dnsDone)
  BY <1>1 DEF Connection, Quiet
<1> QED
  BY <1>2, <1>3, <1>4 DEF TypeOK

LEMMA OwnBytesImplied == HInv => OwnBytes
BY OkFields, StateFields DEF HInv, OwnBytes, Told

LEMMA RightPeerImplied == HInv => RightPeer
<1> SUFFICES ASSUME HInv PROVE RightPeer
  OBVIOUS
<1>1. State.c = c /\ (c.busy => Request(State))
  BY StateFields, OkFields DEF HInv
<1> HIDE DEF State
<1> QED
  BY <1>1 DEF RightPeer, Request

LEMMA SinkContractImplied == HInv => SinkContract
<1> SUFFICES ASSUME HInv PROVE SinkContract
  OBVIOUS
<1>1. Told(heard) /\ (c.busy => heard.done = 0)
  BY StateFields, OkFields DEF HInv
<1> QED
  BY <1>1 DEF SinkContract, Told

LEMMA WholeBodyImplied == HInv => WholeBody
BY OkFields, StateFields DEF HInv, WholeBody, Told

\* The inductive invariant: where the parser and the server stand in the answer of the request, and
\* what the sink was told of it.
THEOREM HttpInvariant == Spec => []HInv
BY InitInv, NextInv, PTL DEF Spec

\* Types, and that nothing of a connection outlives it (conn_close).
THEOREM HttpTypes == Spec => []TypeOK
BY HttpInvariant, TypesImplied, PTL

\* parse_bytes never feeds the sink a byte that answers another request, whatever an earlier one left
\* on a kept connection.
THEOREM HttpOwnBytes == Spec => []OwnBytes
BY HttpInvariant, OwnBytesImplied, PTL

\* The connection of a request leads to the host of its URL, however late lookups come back (dns_gen).
THEOREM HttpRightPeer == Spec => []RightPeer
BY HttpInvariant, RightPeerImplied, PTL

\* The sink's contract (http_client.h): on_status once and first, on_complete at most once, through any
\* number of redirects and retries.
THEOREM HttpSinkContract == Spec => []SinkContract
BY HttpInvariant, SinkContractImplied, PTL

\* HTTP_OK means the whole body, for bodies of any number of parts.
THEOREM HttpWholeBody == Spec => []WholeBody
BY HttpInvariant, WholeBodyImplied, PTL
=============================================================================
