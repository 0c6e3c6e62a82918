----------------------------- MODULE HttpClient ------------------------------
(***************************************************************************)
(* The HTTP client of src/src/pico/http_client.c: one request at a time    *)
(* over a connection that is kept alive, from http_get through DNS,        *)
(* connect, redirects and one silent retry to on_complete.                 *)
(*                                                                         *)
(* The main loop calls http_get, http_cancel and http_poll; lwIP calls the *)
(* cb_ functions from interrupt context at any time in between (inside     *)
(* http_poll they are held off by the lwIP lock, or only set a flag the    *)
(* next poll sees).  Around the client: the resolver, whose late answers   *)
(* cannot be called back, and a server that may answer, fall silent,       *)
(* close or reset at any point.                                            *)
(*                                                                         *)
(* A response arrives as pieces: the status line, the end of the headers,  *)
(* and parts of the body.  Times are not modelled: a timeout may strike    *)
(* whenever the poll that checks for it finds nothing else to do.          *)
(***************************************************************************)
EXTENDS Integers, Sequences

CONSTANTS
    Hosts,               \* hosts of URLs
    NoHost,              \* no host, or one that cannot be fetched from
    Requests,            \* names of requests, used over and over
    MaxParts,            \* bound: parts of a response body
    HTTP_MAX_REDIRECTS

ASSUME RedirectsAssumption == HTTP_MAX_REDIRECTS \in Nat /\ MaxParts \in Nat
ASSUME NoHostAssumption == NoHost \notin Hosts
ASSUME RequestsAssumption == Requests # {}

VARIABLES
    c,        \* http_client_t
    lookups,  \* DNS lookups under way: their host, and whether dns_gen has moved on since
    srv,      \* the exchanges the server at the other end of the connection still has to answer
    heard     \* history: what the sink of the current request was told

vars == <<c, lookups, srv, heard>>

(***************************************************************************)
(* A response: counted if its end can be told (Content-Length or chunks),  *)
(* otherwise it ends with the connection.  close: "Connection: close".     *)
(***************************************************************************)
Responses ==
    [kind : {"plain"}, parts : 0 .. MaxParts, counted : BOOLEAN, close : BOOLEAN, to : {NoHost}]
    \cup [kind : {"redirect"}, parts : 0 .. MaxParts, counted : BOOLEAN, close : BOOLEAN, to : Hosts \cup {NoHost}]
    \cup [kind : {"interim", "garbled"}, parts : {0}, counted : {TRUE}, close : {FALSE}, to : {NoHost}]

NoResponse == [kind |-> "none", parts |-> 0, counted |-> TRUE, close |-> FALSE, to |-> NoHost]

Piece(what, req, peer, resp) == [what |-> what, req |-> req, peer |-> peer, resp |-> resp]

Exchange(req) == [phase |-> "asked", req |-> req, resp |-> NoResponse, left |-> 0]
NothingHeard == [status |-> 0, parts |-> 0, resp |-> NoResponse, done |-> 0, ok |-> FALSE, foreign |-> FALSE]

\* An outcome of what may fail inside the client: how conn_open ends, whether a write is taken.
Opens == {"connecting", "resolving", "fails"}

-----------------------------------------------------------------------------
(***************************************************************************)
(* The client's functions, from the whole state to the whole state:        *)
(* [c, l, s, h] stands for c, lookups, srv and heard; rc is what the last  *)
(* call that opens a connection returned, FALSE for an error.              *)
(***************************************************************************)
State == [c |-> c, l |-> lookups, s |-> srv, h |-> heard, rc |-> TRUE]

Become(x) == c' = x.c /\ lookups' = x.l /\ srv' = x.s /\ heard' = x.h

ConnClose(x) ==
    [x EXCEPT !.c.pcb = FALSE, !.c.rx = <<>>, !.c.cstate = "none", !.c.gone = FALSE, !.c.closed = FALSE,
              !.c.connected = FALSE, !.c.dnsDone = FALSE, !.c.peer = NoHost,
              !.l = {[k EXCEPT !.stale = TRUE] : k \in x.l}, !.s = <<>>]

\* finish: on_complete, once.
Finish(x, ok) ==
    IF ~x.c.busy THEN x
    ELSE [x EXCEPT !.c.busy = FALSE, !.h.done = @ + 1, !.h.ok = ok]

Fail(x) == Finish(ConnClose(x), FALSE)

ResetParser(x) ==
    [x EXCEPT !.c.rstate = "status", !.c.gotStatus = FALSE, !.c.resp = NoResponse, !.c.left = 0]

\* The request reaches the server's end of the connection.
SendRequest(x) == [x EXCEPT !.s = Append(@, Exchange(x.c.req))]

\* conn_open; how is one of Opens.  A lookup that fails at once is not told from a failing connect.
ConnOpen(x, how) ==
    LET n == ConnClose(x)
        p == [n EXCEPT !.c.pcb = TRUE, !.c.addr = NoHost, !.c.dnsOk = FALSE]
    IN CASE how = "fails" -> [n EXCEPT !.rc = FALSE]
         [] how = "connecting" -> [p EXCEPT !.c.cstate = "connecting", !.c.peer = x.c.host]
         [] how = "resolving" -> [p EXCEPT !.c.cstate = "resolving",
                                          !.l = @ \cup {[host |-> x.c.host, stale |-> FALSE]}]

\* start_request: on the idle connection if it leads to the right host, else on a new one.
StartRequest(x, how, write) ==
    LET n == ResetParser(x)
        same == n.c.cstate = "open" /\ n.c.pcb /\ ~n.c.gone /\ ~n.c.closed /\ n.c.peer = n.c.host
    IN IF same /\ write THEN SendRequest([n EXCEPT !.c.reused = TRUE, !.c.rx = <<>>])
       ELSE ConnOpen([n EXCEPT !.c.reused = FALSE], how)

\* Mutant: an answer that has begun does not keep a request from being sent again.
MayRetryAlways(x) == x.c.reused /\ ~x.c.retried

MayRetry(x) == x.c.reused /\ ~x.c.retried /\ ~x.c.gotStatus

\* Mutant: a connection that cannot be opened is not reported.
RetrySilent(x, how) == ConnOpen(ResetParser([x EXCEPT !.c.retried = TRUE]), how)

\* retry_on_fresh_connection.
Retry(x, how) ==
    LET n == ConnOpen(ResetParser([x EXCEPT !.c.retried = TRUE]), how)
    IN IF n.rc THEN n ELSE Fail(n)

\* response_done.
ResponseDone(x, how, write) ==
    LET r == x.c.resp
        n == IF r.close \/ ~r.counted THEN ConnClose(x) ELSE x
        again == StartRequest([n EXCEPT !.c.redirects = @ + 1, !.c.host = r.to, !.c.retried = FALSE], how, write)
    IN IF r.kind # "redirect" THEN Finish(n, TRUE)
       ELSE IF x.c.redirects >= HTTP_MAX_REDIRECTS \/ r.to = NoHost THEN Fail(x)
       ELSE IF again.rc THEN again ELSE Fail(again)

\* Bytes that answer another request, or come from another host than the one asked.
Foreign(x, p) == p.req # x.c.req \/ p.peer # x.c.host

StartBody(x) ==
    LET r == x.c.resp IN
    [x EXCEPT !.c.rstate = IF r.counted /\ r.parts = 0 THEN "done" ELSE "body", !.c.left = r.parts]

\* headers_done; redirects stay hidden from the sink.
HeadersDone(x) ==
    LET r == x.c.resp IN
    CASE r.kind = "interim" -> ResetParser(x)
      [] r.kind = "redirect" -> StartBody(x)
      [] OTHER -> [StartBody(x) EXCEPT !.h.status = @ + 1, !.h.resp = r]

BodyPart(x) ==
    [x EXCEPT !.c.left = IF x.c.resp.counted THEN @ - 1 ELSE @,
              !.c.rstate = IF x.c.resp.counted /\ x.c.left = 1 THEN "done" ELSE "body",
              !.h.parts = IF x.c.resp.kind = "redirect" THEN @ ELSE @ + 1]

(***************************************************************************)
(* parse_bytes on one piece.  refuse: the sink's on_body returns false.    *)
(***************************************************************************)
Parse(x, p, refuse) ==
    LET n == [x EXCEPT !.h.foreign = @ \/ Foreign(x, p)] IN
    CASE x.c.rstate = "status" /\ p.what = "line" /\ p.resp.kind # "garbled" ->
           [n EXCEPT !.c.gotStatus = TRUE, !.c.rstate = "headers", !.c.resp = p.resp]
      [] x.c.rstate = "headers" /\ p.what = "head" -> HeadersDone(n)
      [] x.c.rstate = "body" /\ p.what = "part" /\ (refuse => x.c.resp.kind = "redirect") -> BodyPart(n)
      [] OTHER -> [n EXCEPT !.c.rstate = "error"]

-----------------------------------------------------------------------------
Init ==
    /\ c = [cstate |-> "none", pcb |-> FALSE, peer |-> NoHost, addr |-> NoHost, rx |-> <<>>,
            closed |-> FALSE, gone |-> FALSE, connected |-> FALSE, dnsDone |-> FALSE, dnsOk |-> FALSE,
            busy |-> FALSE, deferred |-> FALSE, req |-> CHOOSE q \in Requests : TRUE, host |-> NoHost,
            redirects |-> 0, reused |-> FALSE, retried |-> FALSE,
            rstate |-> "status", gotStatus |-> FALSE, resp |-> NoResponse, left |-> 0]
    /\ lookups = {}
    /\ srv = <<>>
    /\ heard = NothingHeard

\* http_get.  A connection that cannot even be started is noted in deferred_err .
HttpGet ==
    /\ ~c.busy
    /\ \E h \in Hosts, q \in Requests \ {c.req}, how \in Opens, write \in BOOLEAN :
         LET asked == [State EXCEPT !.c.host = h, !.c.req = q, !.c.redirects = 0,
                                    !.c.retried = FALSE, !.c.busy = TRUE, !.c.deferred = FALSE,
                                    !.h = NothingHeard]
             x == StartRequest(asked, how, write)
         IN Become(IF x.rc THEN x ELSE [ConnClose(x) EXCEPT !.c.deferred = TRUE])

\* Mutant: the connection stays open.
CancelKeepsConnection(x) == [x EXCEPT !.c.busy = FALSE]

Cancel(x) == [ConnClose(x) EXCEPT !.c.busy = FALSE]

\* http_cancel: the sink hears nothing more.
HttpCancel == Become(Cancel(State))

-----------------------------------------------------------------------------
(***************************************************************************)
(* http_poll, by what it finds.  A poll takes all that has arrived; here   *)
(* it takes a piece, and the next poll goes on where it stopped.           *)
(***************************************************************************)
PollResolved ==
    /\ c.cstate = "resolving" /\ c.dnsDone
    /\ \E connect \in BOOLEAN :
         Become(IF ~c.dnsOk \/ ~connect THEN Fail(State)
                ELSE [State EXCEPT !.c.dnsDone = FALSE, !.c.cstate = "connecting", !.c.peer = c.addr])

PollConnecting ==
    /\ c.cstate = "connecting" /\ (c.gone \/ c.connected)
    /\ \E write \in BOOLEAN :
         Become(IF c.gone \/ ~write THEN Fail(State)
                ELSE SendRequest([State EXCEPT !.c.connected = FALSE, !.c.cstate = "open"]))

\* An idle connection: stray bytes are dropped, a close is honoured.
PollIdle ==
    /\ c.cstate = "open" /\ ~c.busy /\ (c.rx # <<>> \/ c.closed \/ c.gone)
    /\ Become(IF c.closed \/ c.gone THEN ConnClose(State) ELSE [State EXCEPT !.c.rx = <<>>])

\* Mutant: the end of the connection ends every body.
EndsAtCloseAlways(x) == x.c.rstate = "body" /\ c.closed

\* A body without a length ends with the connection.
EndsAtClose(x) == x.c.rstate = "body" /\ ~x.c.resp.counted /\ c.closed

\* The bytes that arrived, one piece after the other; what follows the end is discarded.
PollBytes ==
    /\ c.cstate = "open" /\ c.busy /\ c.rx # <<>>
    /\ \E refuse \in BOOLEAN :
         LET x == Parse([State EXCEPT !.c.rx = Tail(c.rx)], Head(c.rx), refuse) IN
         CASE x.c.rstate = "error" -> Become(Fail(x))
           [] x.c.rstate = "done" -> \E how \in Opens, write \in BOOLEAN :
                                       Become(ResponseDone([x EXCEPT !.c.rx = <<>>], how, write))
           [] OTHER -> Become(x)

\* All bytes are taken, and the peer has finished or the connection died.
PollClosed ==
    /\ c.cstate = "open" /\ c.busy /\ c.rx = <<>> /\ (c.closed \/ c.gone)
    /\ LET ended == [State EXCEPT !.c.rstate = "done", !.c.resp.close = TRUE] IN
       IF EndsAtClose(State) THEN \E how \in Opens, write \in BOOLEAN : Become(ResponseDone(ended, how, write))
       ELSE IF MayRetry(State) THEN \E how \in Opens : Become(Retry(State, how))
       ELSE Become(Fail(State))

\* Nothing came for too long.
PollTimeout ==
    /\ c.busy
    /\ \/ c.cstate = "resolving" /\ ~c.dnsDone
       \/ c.cstate = "connecting" /\ ~c.gone /\ ~c.connected
       \/ c.cstate = "open" /\ c.rx = <<>> /\ ~c.closed /\ ~c.gone
    /\ Become(Fail(State))

HttpPoll == PollResolved \/ PollConnecting \/ PollIdle \/ PollBytes \/ PollClosed \/ PollTimeout

-----------------------------------------------------------------------------
(***************************************************************************)
(* lwIP's callbacks, the resolver and the server.                          *)
(***************************************************************************)
\* Mutant: any lookup's answer is taken for ours.
IsOursAlways(k) == TRUE

IsOurs(k) == ~k.stale

\* cb_dns.
CbDns ==
    /\ \E k \in lookups, found \in BOOLEAN :
         /\ lookups' = lookups \ {k}
         /\ c' = IF ~IsOurs(k) THEN c
                 ELSE [c EXCEPT !.dnsDone = TRUE, !.dnsOk = found, !.addr = IF found THEN k.host ELSE @]
    /\ UNCHANGED <<srv, heard>>

Connectable == c.cstate = "connecting" /\ c.pcb /\ ~c.connected

CbConnected == Connectable /\ c' = [c EXCEPT !.connected = TRUE] /\ UNCHANGED <<lookups, srv, heard>>

\* cb_err: refused, unreachable, or reset by the server.
CbErr ==
    /\ c.pcb /\ c.cstate \in {"connecting", "open"}
    /\ c' = [c EXCEPT !.pcb = FALSE, !.gone = TRUE]
    /\ srv' = <<>>
    /\ UNCHANGED <<lookups, heard>>

Established == c.pcb /\ ~c.closed /\ (c.cstate = "open" \/ c.connected)

\* cb_recv without data: the server closed its end.
CbClosed ==
    /\ Established
    /\ c' = [c EXCEPT !.closed = TRUE]
    /\ srv' = <<>>
    /\ UNCHANGED <<lookups, heard>>

\* The server makes up its mind; what follows an interim response is not another one.
ServerAnswers ==
    /\ srv # <<>> /\ Head(srv).phase \in {"asked", "continued"}
    /\ \E r \in Responses :
         /\ r.kind = "interim" => Head(srv).phase = "asked"
         /\ srv' = [srv EXCEPT ![1] = [@ EXCEPT !.phase = "line", !.resp = r, !.left = r.parts]]
    /\ UNCHANGED <<c, lookups, heard>>

\* cb_recv with the next piece of the oldest answer.
CbRecv ==
    /\ Established /\ srv # <<>> /\ Head(srv).phase \in {"line", "head", "part"}
    /\ LET e == Head(srv)
           to(phase) == [srv EXCEPT ![1].phase = phase]
       IN
       /\ c' = [c EXCEPT !.rx = Append(@, Piece(e.phase, e.req, c.peer, e.resp))]
       /\ srv' = CASE e.phase = "line" -> to("head")
                   [] e.phase = "head" /\ e.resp.kind = "interim" -> to("continued")
                   [] e.phase = "head" /\ e.left > 0 -> to("part")
                   [] e.phase = "part" /\ e.left > 1 -> [srv EXCEPT ![1].left = @ - 1]
                   [] OTHER -> Tail(srv)
    /\ UNCHANGED <<lookups, heard>>

Outside == CbDns \/ CbConnected \/ CbErr \/ CbClosed \/ ServerAnswers \/ CbRecv

Next == HttpGet \/ HttpCancel \/ HttpPoll \/ Outside

Spec == Init /\ [][Next]_vars

(***************************************************************************)
(* Fairness: the main loop polls for ever, and its clock runs.  Nothing is *)
(* owed by the resolver, the network or the server.                        *)
(***************************************************************************)
FairSpec == Spec /\ WF_vars(HttpPoll)

-----------------------------------------------------------------------------
(***************************************************************************)
(* Types, and that no flag or byte of a connection outlives it.            *)
(***************************************************************************)
TypeOK ==
    /\ c.cstate \in {"none", "resolving", "connecting", "open"}
    /\ c.peer \in Hosts \cup {NoHost} /\ c.host \in Hosts \cup {NoHost} /\ c.addr \in Hosts \cup {NoHost}
    /\ c.rstate \in {"status", "headers", "body", "done", "error"}
    /\ c.redirects \in 0 .. HTTP_MAX_REDIRECTS /\ c.left \in 0 .. MaxParts
    /\ c.req \in Requests
    /\ lookups \subseteq [host : Hosts, stale : BOOLEAN]
    /\ c.pcb => c.cstate # "none" /\ ~c.gone
    /\ c.cstate = "none" => c.rx = <<>> /\ ~c.closed /\ ~c.gone /\ ~c.connected /\ ~c.dnsDone

(***************************************************************************)
(* Every byte the sink gets answers its own request: what an earlier one   *)
(* left on a kept connection, cancelled or timed out, never reaches it.    *)
(***************************************************************************)
OwnBytes == ~heard.foreign

(***************************************************************************)
(* The request goes to the host of its URL, whatever lookups of earlier    *)
(* requests come back in the meantime (dns_gen).                           *)
(***************************************************************************)
RightPeer == c.busy /\ c.cstate \in {"connecting", "open"} => c.peer = c.host

(***************************************************************************)
(* The sink's contract (http_client.h): on_status once and before the      *)
(* body, on_complete at most once, and nothing is heard of a redirect or   *)
(* of an attempt that was silently repeated.                               *)
(***************************************************************************)
SinkContract ==
    /\ heard.status <= 1 /\ heard.done <= 1
    /\ heard.parts > 0 => heard.status = 1
    /\ heard.ok => heard.status = 1
    /\ c.busy => heard.done = 0

(***************************************************************************)
(* HTTP_OK means the whole body: a response with a length is never taken   *)
(* for complete when its connection ends early.                            *)
(***************************************************************************)
WholeBody == heard.ok /\ heard.resp.counted => heard.parts = heard.resp.parts

(***************************************************************************)
(* A request comes to an end, whatever the network does; unless http_get   *)
(* itself could not open a connection: deferred_err is never read, and the *)
(* client stays busy.                                                      *)
(***************************************************************************)
Completes == c.busy ~> (~c.busy \/ c.deferred)
=============================================================================
