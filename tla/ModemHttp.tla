------------------------------ MODULE ModemHttp ------------------------------
(***************************************************************************)
(* HTTP over the modem link: the client of src/src/pico/http_modem.c, the  *)
(* request task of src/modem/main/httpc.c, and the UART between them.      *)
(*                                                                         *)
(* The kiosk's main loop drains everything the modem has sent, one message *)
(* at a time, before kiosk_loop_poll may start or cancel a request.  On    *)
(* the modem, the receive task (priority 12) runs each message to its end  *)
(* and may preempt the request task (priority 6) between any two accesses  *)
(* to what they share; "credit -= n" is a load and a store.                *)
(*                                                                         *)
(* The link delivers frames in order; a frame whose checksum fails is      *)
(* dropped, and nothing repeats it.  Body bytes are counted in units.      *)
(* Times are not modelled: a deadline may strike wherever it is looked at. *)
(***************************************************************************)
EXTENDS Integers, Sequences

CONSTANTS
    HTTP_WINDOW,      \* credit granted with a request
    CREDIT_REFILL,    \* delivered units after which a top-up is sent
    BODY_CHUNK,       \* most units in one body message
    MaxBody,          \* bound: units of a response body
    MaxRequests,      \* bound: requests the kiosk makes (ids do not wrap)
    Faults,           \* which of "loss", "txfull", "restart" may happen
    MaxFaults         \* bound: how many of them

ASSUME WindowAssumption ==
    /\ HTTP_WINDOW \in Nat \ {0} /\ BODY_CHUNK \in Nat \ {0}
    /\ CREDIT_REFILL \in 1 .. HTTP_WINDOW
ASSUME BoundsAssumption == MaxBody \in Nat /\ MaxRequests \in Nat /\ MaxFaults \in Nat

VARIABLES
    c,          \* struct http_client on the kiosk; up: net_wifi_state() is WIFI_UP
    toModem,    \* frames on their way to the modem
    toHost,     \* frames in the kiosk's receive ring or on their way to it
    req_q,      \* requests waiting for the request task, at most one
    t,          \* the request task: its place, its request, and its locals
    credit,     \* shared by the modem's two tasks
    cancelled,  \* shared by the modem's two tasks
    joined,     \* net_sta_up(): the modem's station is up
    heard,      \* history: what the sink of the current request was told
    slip,       \* history: credit of the running request that was lost for good
    lost,       \* history: whether a frame of a response was ever lost
    faults      \* how many faults happened

vars == <<c, toModem, toHost, req_q, t, credit, cancelled, joined, heard, slip, lost, faults>>
host == <<c, heard>>
modem == <<req_q, t, credit, cancelled, joined>>

Ids == 0 .. MaxRequests

\* Frames.  from is the offset of a body message in its body.
Frame(what, id, from, n, err) == [what |-> what, id |-> id, from |-> from, n |-> n, err |-> err]
Get(id) == Frame("get", id, 0, HTTP_WINDOW, "ok")
Credit(id, n) == Frame("credit", id, 0, n, "ok")
Cancel(id) == Frame("cancel", id, 0, 0, "ok")
Status(id) == Frame("status", id, 0, 0, "ok")
Body(id, from, n) == Frame("body", id, from, n, "ok")
Done(id, err) == Frame("done", id, 0, 0, err)
Hello == Frame("hello", 0, 0, 0, "ok")
Up == Frame("up", 0, 0, 0, "ok")

Errors == {"ok", "aborted", "failed", "busy", "connect", "closed", "timeout", "none"}
Idle == [pc |-> "idle", id |-> 0, size |-> 0, sent |-> 0, want |-> 0, n |-> 0, seen |-> 0]
NothingHeard == [status |-> FALSE, next |-> 0, size |-> 0, foreign |-> FALSE, result |-> "none", ends |-> 0]

Fault(f) == f \in Faults /\ faults < MaxFaults /\ faults' = faults + 1
NoFault == UNCHANGED faults

Running(id) == t.pc # "idle" /\ t.id = id

-----------------------------------------------------------------------------
(***************************************************************************)
(* The kiosk: http_modem.c.                                                *)
(***************************************************************************)
\* modem_link_send2: a frame goes out whole, or not at all when the transmit ring is full.
Sent(frame) == toModem' = Append(toModem, frame) /\ NoFault
NotSent == UNCHANGED toModem /\ Fault("txfull")

\* finish, as a change of the client k and of what its sink has heard, h.
Finish(h, k, err) ==
    IF ~k.active THEN [c |-> k, heard |-> h]
    ELSE [c |-> [k EXCEPT !.active = FALSE], heard |-> [h EXCEPT !.result = err, !.ends = @ + 1]]

Finishes(k, err) == LET x == Finish(heard, k, err) IN c' = x.c /\ heard' = x.heard

\* The main loop has drained the link before kiosk_loop_poll runs.  A frame still on the wire then is
\* one the modem sends later: it does so before it receives what the kiosk sends now.
HttpGet ==
    /\ ~c.active /\ c.up /\ toHost = <<>> /\ c.id < MaxRequests
    /\ LET id == c.id + 1 IN
       \/ /\ Sent(Get(id))
          /\ c' = [c EXCEPT !.id = id, !.active = TRUE, !.unacked = 0]
       \/ /\ NotSent
          /\ c' = [c EXCEPT !.id = id]
    /\ heard' = NothingHeard
    /\ UNCHANGED <<toHost, modem, slip, lost>>

HttpCancel ==
    /\ c.active /\ toHost = <<>>
    /\ Sent(Cancel(c.id)) \/ NotSent
    /\ c' = [c EXCEPT !.active = FALSE]
    /\ UNCHANGED <<toHost, modem, heard, slip, lost>>

\* Mutant: the credit is gone whether or not the top-up was queued.
GrantFlushAlways(k) ==
    \/ Sent(Credit(k.id, k.unacked)) /\ c' = [k EXCEPT !.unacked = 0]
    \/ NotSent /\ c' = [k EXCEPT !.unacked = 0]

GrantFlush(k) ==
    \/ Sent(Credit(k.id, k.unacked)) /\ c' = [k EXCEPT !.unacked = 0]
    \/ NotSent /\ c' = k

\* http_poll: retry a top-up that could not be queued; give up on a modem that is silent.
HttpPollGrant ==
    /\ c.active /\ c.unacked >= CREDIT_REFILL
    /\ GrantFlush(c)
    /\ UNCHANGED <<toHost, modem, heard, slip, lost>>

\* The deadline comes after the retry: a top-up that is due has just failed to fit once more.
HttpPollDeadline ==
    /\ c.active
    /\ \/ c.unacked < CREDIT_REFILL /\ (Sent(Cancel(c.id)) \/ NotSent)
       \/ c.unacked >= CREDIT_REFILL /\ Fault("txfull") /\ toModem' \in {toModem, Append(toModem, Cancel(c.id))}
    /\ Finishes(c, "timeout")
    /\ UNCHANGED <<toHost, modem, slip, lost>>

\* The main loop with nothing to do.
HttpPollIdle == ~c.active /\ toHost = <<>> /\ UNCHANGED vars

Grant(k) ==
    IF k.unacked >= CREDIT_REFILL THEN GrantFlush(k) ELSE c' = k /\ UNCHANGED toModem /\ NoFault

\* The sink takes what it is given, or refuses the rest of the body.
OnBody(m) ==
    LET h == [heard EXCEPT !.next = m.from + m.n, !.foreign = @ \/ m.id # c.id \/ m.from # heard.next] IN
    \/ /\ Grant([c EXCEPT !.unacked = @ + m.n])
       /\ heard' = h
    \/ /\ Sent(Cancel(c.id)) \/ NotSent
       /\ LET x == Finish(h, c, "aborted") IN c' = x.c /\ heard' = x.heard

\* Mutant: any answer will do.
IsReplyToAny(m) == c.active

\* A reply to a request we have already given up on is dropped.
IsReply(m) == c.active /\ m.id = c.id

\* http_modem_on_message; the size in a status stands for the body that follows it.
OnMessage ==
    /\ toHost # <<>> /\ toHost' = Tail(toHost)
    /\ LET m == Head(toHost)
           quiet == UNCHANGED toModem /\ NoFault
       IN
       \/ m.what \in {"status", "body", "done"} /\ ~IsReply(m) /\ quiet /\ UNCHANGED host
       \/ /\ m.what = "status" /\ IsReply(m) /\ quiet
          /\ heard' = [heard EXCEPT !.status = TRUE, !.size = m.n, !.foreign = @ \/ m.id # c.id \/ heard.status]
          /\ UNCHANGED c
       \/ m.what = "body" /\ IsReply(m) /\ OnBody(m)
       \/ m.what = "done" /\ IsReply(m) /\ quiet /\ Finishes(c, m.err)
       \/ m.what = "hello" /\ quiet /\ Finishes([c EXCEPT !.up = FALSE], "closed")
       \/ m.what = "up" /\ quiet /\ c' = [c EXCEPT !.up = TRUE] /\ UNCHANGED heard
    /\ UNCHANGED <<modem, slip, lost>>

-----------------------------------------------------------------------------
(***************************************************************************)
(* The modem's receive task: httpc_get, httpc_credit, httpc_cancel.        *)
(***************************************************************************)
QueueFull == Len(req_q) = 1

RxGet(m) ==
    /\ m.what = "get"
    /\ \/ ~joined /\ toHost' = Append(toHost, Done(m.id, "connect")) /\ UNCHANGED req_q
       \/ joined /\ QueueFull /\ toHost' = Append(toHost, Done(m.id, "busy")) /\ UNCHANGED req_q
       \/ joined /\ ~QueueFull /\ req_q' = Append(req_q, m.id) /\ UNCHANGED toHost
    /\ UNCHANGED <<credit, cancelled>>

RxCredit(m) ==
    /\ m.what = "credit"
    /\ credit' = IF Running(m.id) THEN credit + m.n ELSE credit
    /\ UNCHANGED <<toHost, req_q, cancelled>>

RxCancel(m) ==
    /\ m.what = "cancel"
    /\ cancelled' = (cancelled \/ Running(m.id))
    /\ UNCHANGED <<toHost, req_q, credit>>

ModemReceives ==
    /\ toModem # <<>> /\ toModem' = Tail(toModem)
    /\ LET m == Head(toModem) IN RxGet(m) \/ RxCredit(m) \/ RxCancel(m)
    /\ UNCHANGED <<host, t, joined, slip, lost, faults>>

-----------------------------------------------------------------------------
(***************************************************************************)
(* The modem's request task: http_task and run.                            *)
(***************************************************************************)
Task == UNCHANGED <<host, toModem, req_q, joined, lost, faults>>

EndsRun(err) ==
    /\ t' = Idle
    /\ toHost' = Append(toHost, Done(t.id, err))
    /\ Task /\ UNCHANGED <<credit, cancelled, slip>>

TaskStart ==
    /\ t.pc = "idle" /\ req_q # <<>>
    /\ req_q' = Tail(req_q)
    /\ t' = [Idle EXCEPT !.pc = "head", !.id = Head(req_q)]
    /\ credit' = HTTP_WINDOW /\ cancelled' = FALSE /\ slip' = 0
    /\ UNCHANGED <<host, toModem, toHost, joined, lost, faults>>

\* No connection, no usable response head, too many redirects, or no head in time.
HeadFails == t.pc = "head" /\ EndsRun("failed")
HeadCancelled == t.pc = "head" /\ cancelled /\ EndsRun("aborted")

HeadArrives ==
    /\ t.pc = "head"
    /\ \E size \in 0 .. MaxBody :
         /\ t' = [t EXCEPT !.pc = "body", !.size = size]
         /\ toHost' = Append(toHost, [Status(t.id) EXCEPT !.n = size])
    /\ Task /\ UNCHANGED <<credit, cancelled, slip>>

\* The top of the read loop: a cancel, the deadline, a wait for credit, or a read.
BodyCancelled == t.pc = "body" /\ cancelled /\ EndsRun("aborted")
BodyDeadline == t.pc = "body" /\ ~cancelled /\ EndsRun("failed")

LeastOf(a, b) == IF a < b THEN a ELSE b

Want == LeastOf(credit, BODY_CHUNK)

BodyWants ==
    /\ t.pc = "body" /\ ~cancelled /\ credit > 0
    /\ t' = [t EXCEPT !.pc = "read", !.want = Want]
    /\ Task /\ UNCHANGED <<toHost, credit, cancelled, slip>>

\* n units came; "credit -= n" has loaded the credit.
ReadSome ==
    /\ t.pc = "read"
    /\ \E n \in 1 .. LeastOf(t.want, t.size - t.sent) :
         t' = [t EXCEPT !.pc = "store", !.n = n, !.want = 0, !.seen = credit]
    /\ Task /\ UNCHANGED <<toHost, credit, cancelled, slip>>

\* A slice without data, or a peer that closed early: look again until the deadline.
ReadNothing ==
    /\ t.pc = "read" /\ t.sent < t.size
    /\ t' = [t EXCEPT !.pc = "body", !.want = 0]
    /\ Task /\ UNCHANGED <<toHost, credit, cancelled, slip>>

ReadEmptyBody == t.pc = "read" /\ t.size = 0 /\ EndsRun("ok")
ReadFails == t.pc = "read" /\ t.sent < t.size /\ EndsRun("failed")

\* The store that ends "credit -= n", and the body message.
BodySends ==
    /\ t.pc = "store"
    /\ credit' = t.seen - t.n
    /\ slip' = slip + (credit - t.seen)
    /\ LET sent == t.sent + t.n
           body == Append(toHost, Body(t.id, t.sent, t.n))
       IN IF sent = t.size
          THEN t' = Idle /\ toHost' = Append(body, Done(t.id, "ok"))
          ELSE t' = [t EXCEPT !.pc = "body", !.sent = sent, !.n = 0, !.seen = 0] /\ toHost' = body
    /\ Task /\ UNCHANGED cancelled

-----------------------------------------------------------------------------
(***************************************************************************)
(* The link and the modem's life.                                          *)
(***************************************************************************)
LoseToModem ==
    /\ toModem # <<>> /\ Fault("loss")
    /\ LET m == Head(toModem) IN slip' = IF m.what = "credit" /\ Running(m.id) THEN slip + m.n ELSE slip
    /\ toModem' = Tail(toModem)
    /\ UNCHANGED <<host, toHost, modem, lost>>

\* The hello of a restarted modem is repeated, and its state comes when it changes.
LoseToHost ==
    /\ toHost # <<>> /\ Head(toHost).what \in {"status", "body", "done"} /\ Fault("loss")
    /\ LET m == Head(toHost) IN slip' = IF m.what = "body" /\ Running(m.id) THEN slip + m.n ELSE slip
    /\ lost' = TRUE
    /\ toHost' = Tail(toHost)
    /\ UNCHANGED <<host, toModem, modem>>

ModemRestart ==
    /\ Fault("restart")
    /\ req_q' = <<>> /\ t' = Idle /\ credit' = 0 /\ cancelled' = FALSE /\ joined' = FALSE
    /\ toModem' = <<>>
    /\ toHost' = Append(toHost, Hello)
    /\ slip' = 0
    /\ UNCHANGED <<host, lost>>

\* Told its network again, the modem joins it.
Rejoin ==
    /\ ~joined /\ ~\E i \in 1 .. Len(toHost) : toHost[i] = Hello
    /\ joined' = TRUE
    /\ toHost' = Append(toHost, Up)
    /\ UNCHANGED <<host, toModem, req_q, t, credit, cancelled, slip, lost, faults>>

Init ==
    /\ c = [id |-> 0, active |-> FALSE, unacked |-> 0, up |-> TRUE]
    /\ toModem = <<>> /\ toHost = <<>> /\ req_q = <<>>
    /\ t = Idle /\ credit = 0 /\ cancelled = FALSE /\ joined = TRUE
    /\ heard = NothingHeard /\ slip = 0 /\ lost = FALSE /\ faults = 0

Kiosk == HttpGet \/ HttpCancel \/ HttpPollGrant \/ HttpPollDeadline \/ HttpPollIdle \/ OnMessage
HttpTask == \/ TaskStart \/ HeadFails \/ HeadCancelled \/ HeadArrives \/ BodyCancelled \/ BodyDeadline
            \/ BodyWants \/ ReadSome \/ ReadNothing \/ ReadEmptyBody \/ ReadFails \/ BodySends
Around == LoseToModem \/ LoseToHost \/ ModemRestart \/ Rejoin

Next == Kiosk \/ ModemReceives \/ HttpTask \/ Around

Spec == Init /\ [][Next]_vars

-----------------------------------------------------------------------------
Frames == [what : {"get", "credit", "cancel", "status", "body", "done", "hello", "up"},
           id : Ids, from : 0 .. MaxBody, n : 0 .. HTTP_WINDOW + MaxBody, err : Errors]

(***************************************************************************)
(* Type correctness: the queue holds one request, credit never goes below  *)
(* zero, and no message is longer than a chunk.                            *)
(***************************************************************************)
TypeOK ==
    /\ c \in [id : Ids, active : BOOLEAN, unacked : 0 .. HTTP_WINDOW, up : BOOLEAN]
    /\ \A i \in 1 .. Len(toModem) : toModem[i] \in Frames
    /\ \A i \in 1 .. Len(toHost) : toHost[i] \in Frames
    /\ Len(req_q) <= 1 /\ \A i \in 1 .. Len(req_q) : req_q[i] \in Ids
    /\ t.pc \in {"idle", "head", "body", "read", "store"} /\ t.id \in Ids
    /\ t.sent \in 0 .. t.size /\ t.n \in 0 .. BODY_CHUNK
    /\ credit \in 0 .. HTTP_WINDOW
    /\ cancelled \in BOOLEAN /\ joined \in BOOLEAN /\ lost \in BOOLEAN
    /\ heard.result \in Errors /\ slip \in Nat /\ faults \in 0 .. MaxFaults

\* Units in the frames of one kind that are about one request.
Part(m, what, id) == IF m.what = what /\ m.id = id THEN m.n ELSE 0

Units(ch, what, id) ==
    LET sum[k \in 0 .. Len(ch)] == IF k = 0 THEN 0 ELSE sum[k - 1] + Part(ch[k], what, id)
    IN  sum[Len(ch)]

(***************************************************************************)
(* Credit is neither made nor forgotten: of the window of the request that *)
(* both ends are at, every unit is with the modem, on the link, delivered  *)
(* and not granted back, granted and on its way, or known to have slipped. *)
(* So a modem that spends its whole credit while the kiosk renders leaves  *)
(* no more than one window of a request in the receive ring, its own or    *)
(* one that the kiosk has given up on ("the window is kept below the       *)
(* receive ring").                                                         *)
(***************************************************************************)
Conserved ==
    /\ c.active /\ Running(c.id) =>
         credit + Units(toHost, "body", c.id) + c.unacked + Units(toModem, "credit", c.id) + slip = HTTP_WINDOW
    /\ \A id \in Ids : Units(toHost, "body", id) <= HTTP_WINDOW

(***************************************************************************)
(* What the sink hears belongs to its own request, in order and without a  *)
(* gap as long as no frame was lost, and nothing follows its end.          *)
(***************************************************************************)
OwnAnswer ==
    /\ heard.foreign => lost
    /\ heard.ends <= 1
    /\ c.active => heard.ends = 0
    /\ heard.result = "ok" /\ ~lost => heard.status /\ heard.next = heard.size

(***************************************************************************)
(* A transfer both ends want waits for credit only while some is on its    *)
(* way or the kiosk will send it ("one dropped top-up would stall the      *)
(* transfer until the request timed out", http_modem.c).                   *)
(***************************************************************************)
Flows ==
    c.active /\ Running(c.id) /\ t.pc = "body" /\ credit = 0 /\ ~cancelled =>
        \/ c.unacked >= CREDIT_REFILL
        \/ Units(toHost, "body", c.id) > 0 \/ Units(toModem, "credit", c.id) > 0
=============================================================================
