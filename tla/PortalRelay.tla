----------------------------- MODULE PortalRelay -----------------------------
(***************************************************************************)
(* The setup portal over the modem: the connections of provision.c, the    *)
(* sockets of src/modem/main/portal.c, and the frames that relay them.     *)
(*                                                                         *)
(* The modem accepts a phone, gives it the lowest free number and relays   *)
(* bytes; the kiosk collects the request, answers it inside a window, and  *)
(* closes when the modem has confirmed the last byte.  Either side may end *)
(* a connection while frames that name its number are still on their way,  *)
(* and the modem gives a freed number to the next phone at once.           *)
(*                                                                         *)
(* A request is REQUEST messages, an answer RESPONSE units, each a frame   *)
(* of its own; what they say is abstracted to whose request it is.  The    *)
(* portal task of the modem runs accept, recv and send one at a time and   *)
(* is the only sender of M_SOCK_*; the receive task runs each H_* message  *)
(* to its end.  The link loses nothing here: LinkFraming has the damage.   *)
(***************************************************************************)
EXTENDS Integers, Sequences, FiniteSets, SequencesExt

CONSTANTS
    Phones,              \* connections that phones open, each once
    Savers,              \* those that post /save; the others ask for a page
    None,
    MODEM_MAX_SOCKS,     \* sockets of the modem
    PORTAL_MAX_CONN,     \* connections of the kiosk
    PORTAL_SOCK_WINDOW,  \* units sent and not yet confirmed, at most
    OUT_BUF,             \* units of a socket's buffer on the modem
    REQUEST, RESPONSE,   \* messages of a request, units of an answer
    TX_RING,             \* frames the kiosk's transmit ring holds
    MaxFaults            \* bound: hang-ups, restarts of the modem and connections given up as idle

ASSUME RelayAssumption ==
    /\ Savers \subseteq Phones /\ None \notin Phones \cup Nat
    /\ {MODEM_MAX_SOCKS, PORTAL_MAX_CONN, PORTAL_SOCK_WINDOW, OUT_BUF, REQUEST, RESPONSE, TX_RING} \subseteq Nat \ {0}
    /\ OUT_BUF = PORTAL_SOCK_WINDOW
    /\ MaxFaults \in Nat

Socks == 0 .. MODEM_MAX_SOCKS - 1
Slots == 1 .. PORTAL_MAX_CONN
Total == RESPONSE

VARIABLES
    phone,      \* phone[p]: came; asked: messages read from it; got: units its socket took; left: it hung up
    sock,       \* the modem's conns[]: fd is the phone, out its buffer, head the units sent of it
    listening,  \* want_listen and listen_fd, since the modem's last start
    slot,       \* the kiosk's conns[]; of: the phones whose bytes are in the buffer; owner: history
    saved,      \* save_requested and reboot_at_ms: "no", "asked", "stored", then how the kiosk rebooted
    saver,      \* history: the phone whose form was taken
    toModem, toHost,  \* frames on their way; history: for, the phone they are about, and told, below
    crossed,    \* history: a frame sent before the kiosk was told reached the socket of another phone
    closed,     \* history: phones whose socket the modem closed because the kiosk closed in order
    cut,        \* history: phones whose connection ended in any other way
    faults      \* how many faults happened

vars == <<phone, sock, listening, slot, saved, saver, toModem, toHost, crossed, closed, cut, faults>>
history == <<crossed, closed, cut>>
modem == <<sock, listening>>
host == <<slot, saved, saver>>

FreeSock == [fd |-> None, out |-> <<>>, head |-> 0, closing |-> FALSE]
FreeSlot == [sock |-> None, owner |-> None, of |-> <<>>, responding |-> FALSE, sent |-> 0, acked |-> 0]

\* Frames.  id is the connection's number, n a count or the number of a unit, of the unit's requesters.
Frame(what, id, for, n, of) == [what |-> what, id |-> id, for |-> for, n |-> n, of |-> of, told |-> TRUE]

\* told: had the modem ended the connection, and told the kiosk, before the kiosk sent this about it?
Told(id, p) == sock[id].fd # p /\ ~\E i \in DOMAIN toHost : toHost[i].what = "hello" \/ toHost[i] = Frame("gone", id, p, 0, {})
About(what, id, p, n, of) == [Frame(what, id, p, n, of) EXCEPT !.told = Told(id, p)]
Data(id, p, of, k) == About("data", id, p, k, of)
Close(id, p) == About("close", id, p, 0, {})
Abort(id, p) == About("abort", id, p, 0, {})
Listen == Frame("listen", None, None, 0, {})
Hello == Frame("hello", None, None, 0, {})
Open(id, p) == Frame("open", id, p, 0, {})
Read(id, p) == Frame("read", id, p, 0, {})
Took(id, p, n) == Frame("took", id, p, n, {})
Gone(id, p) == Frame("gone", id, p, 0, {})

Fault == faults < MaxFaults /\ faults' = faults + 1

TypeOK ==
    /\ \A p \in Phones : phone[p].asked \in 0 .. REQUEST /\ {phone[p].came, phone[p].left} \subseteq BOOLEAN
    /\ \A i \in Socks : sock[i].fd \in Phones \cup {None} /\ Len(sock[i].out) <= OUT_BUF
                        /\ sock[i].head \in 0 .. Len(sock[i].out) /\ sock[i].closing \in BOOLEAN
    /\ \A s \in Slots : slot[s].sock \in Socks \cup {None} /\ slot[s].sent \in 0 .. Total /\ Len(slot[s].of) <= REQUEST
    /\ saved \in {"no", "asked", "stored", "rebooted", "graced"}
    /\ Len(toModem) <= TX_RING

Init ==
    /\ phone = [p \in Phones |-> [came |-> FALSE, asked |-> 0, got |-> <<>>, left |-> FALSE]]
    /\ sock = [i \in Socks |-> FreeSock]
    /\ listening = TRUE
    /\ slot = [s \in Slots |-> FreeSlot]
    /\ saved = "no" /\ saver = None
    /\ toModem = <<>> /\ toHost = <<>>
    /\ crossed = FALSE /\ closed = {} /\ cut = {}
    /\ faults = 0

-----------------------------------------------------------------------------
(***************************************************************************)
(* The kiosk: provision.c, KIOSK_MODEM.                                    *)
(***************************************************************************)
\* modem_link_send: a frame goes into the ring, or nowhere when the ring is full.
Put(q, frame) == IF Len(q) < TX_RING THEN Append(q, frame) ELSE q

Live(s) == slot[s].sock # None
Holder(id) == {s \in Slots : slot[s].sock = id}

\* conn_pump on the connection c: send while the window and the ring have room.
Pumped(c) ==
    LET window == PORTAL_SOCK_WINDOW - (c.sent - c.acked)
        ring == TX_RING - Len(toModem)
        stalled == c.acked > c.sent   \* the unsigned difference is huge
        n == IF ~c.responding \/ stalled THEN 0
             ELSE CHOOSE m \in 0 .. Total - c.sent :
                    /\ m <= window /\ m <= ring
                    /\ m + 1 <= Total - c.sent => m + 1 > window \/ m + 1 > ring
        units == [k \in 1 .. n |-> Data(c.sock, c.owner, ToSet(c.of), c.sent + k)]
    IN  [slot |-> [c EXCEPT !.sent = @ + n], frames |-> units]

SetAndPump(s, c) ==
    /\ slot' = [slot EXCEPT ![s] = Pumped(c).slot]
    /\ toModem' = toModem \o Pumped(c).frames

\* conn_shutdown: tell the modem, if the ring has room, and forget the connection either way.
Shutdown(s, frame) ==
    /\ toModem' = Put(toModem, frame)
    /\ slot' = [slot EXCEPT ![s] = FreeSlot]

\* Mutant: an answer that is all sent no longer counts as under way.
BusySending == \E s \in Slots : Live(s) /\ slot[s].responding /\ slot[s].sent < Total

\* portal_busy.
Busy == \E s \in Slots : Live(s) /\ slot[s].responding

Taken(what) == toHost # <<>> /\ Head(toHost).what = what /\ toHost' = Tail(toHost)
Message == Head(toHost)

\* M_SOCK_OPEN for a number the kiosk still holds, one it has a place for, one it has none for.
OnOpen ==
    /\ Taken("open")
    /\ \/ /\ Holder(Message.id) # {}
          /\ UNCHANGED <<slot, toModem>>
       \/ /\ Holder(Message.id) = {}
          /\ \E s \in Slots :
                /\ ~Live(s) /\ \A r \in 1 .. s - 1 : Live(r)
                /\ slot' = [slot EXCEPT ![s] = [FreeSlot EXCEPT !.sock = Message.id, !.owner = Message.for]]
          /\ UNCHANGED toModem
       \/ /\ Holder(Message.id) = {} /\ \A s \in Slots : Live(s)
          /\ toModem' = Put(toModem, Abort(Message.id, Message.for))
          /\ UNCHANGED slot
    /\ UNCHANGED <<phone, modem, saved, saver, history>>

\* handle_save: the first form is staged for provision_poll, any other is answered with 409.
Staged(c) == IF c.of[1] \in Savers /\ saved = "no"
             THEN saved' = "asked" /\ saver' = c.of[1]
             ELSE UNCHANGED <<saved, saver>>

\* M_SOCK_DATA into conn_feed: nothing, a byte late, more of a request, or its end, answered at once.
OnRead ==
    /\ Taken("read")
    /\ \/ /\ \A s \in Holder(Message.id) : slot[s].responding
          /\ UNCHANGED <<host, toModem>>
       \/ \E s \in Holder(Message.id) :
            LET c == [slot[s] EXCEPT !.of = Append(@, Message.for)] IN
            /\ ~slot[s].responding
            /\ \/ /\ Len(c.of) < REQUEST
                  /\ slot' = [slot EXCEPT ![s] = c]
                  /\ UNCHANGED <<saved, saver, toModem>>
               \/ /\ Len(c.of) = REQUEST
                  /\ Staged(c)
                  /\ SetAndPump(s, [c EXCEPT !.responding = TRUE, !.sent = 0, !.acked = 0])
    /\ UNCHANGED <<phone, modem, history>>

\* M_SOCK_SENT: the answer is all there and the connection closes, or more of it can go.
OnTook ==
    /\ Taken("took")
    /\ \/ /\ Holder(Message.id) = {}
          /\ UNCHANGED <<slot, toModem>>
       \/ \E s \in Holder(Message.id) :
            LET c == [slot[s] EXCEPT !.acked = @ + Message.n]
                total == IF c.responding THEN Total ELSE 0
            IN  \/ c.acked >= total /\ Shutdown(s, Close(c.sock, c.owner))
                \/ c.acked < total /\ SetAndPump(s, c)
    /\ UNCHANGED <<phone, modem, saved, saver, history>>

OnGone ==
    /\ Taken("gone")
    /\ slot' = [s \in Slots |-> IF s \in Holder(Message.id) THEN FreeSlot ELSE slot[s]]
    /\ UNCHANGED <<phone, modem, saved, saver, toModem, history>>

\* A hello with a session the kiosk has not seen: every connection is void, and the AP is asked for again.
OnHello ==
    /\ Taken("hello")
    /\ slot' = [s \in Slots |-> FreeSlot]
    /\ toModem' = Put(toModem, Listen)
    /\ UNCHANGED <<phone, modem, saved, saver, history>>

\* portal_tick: a connection nothing moved on for PORTAL_IDLE_MS is given up, any other is pumped again.
GiveUp(s) ==
    /\ Live(s) /\ Fault
    /\ Shutdown(s, Abort(slot[s].sock, slot[s].owner))
    /\ cut' = cut \cup {slot[s].owner}
    /\ UNCHANGED <<phone, modem, saved, saver, toHost, crossed, closed>>

PumpAgain(s) ==
    /\ Live(s) /\ Pumped(slot[s]).frames # <<>>
    /\ SetAndPump(s, slot[s])
    /\ UNCHANGED <<phone, modem, saved, saver, toHost, history>>

\* provision_poll: what a form asked for is stored; the kiosk reboots when no answer is under way, or after a grace.
Store ==
    /\ saved = "asked" /\ saved' = "stored"
    /\ UNCHANGED <<phone, modem, slot, saver, toModem, toHost, history>>

Reboot ==
    /\ saved = "stored"
    /\ \/ ~Busy /\ saved' = "rebooted"
       \/ saved' = "graced"
    /\ UNCHANGED <<phone, modem, slot, saver, toModem, toHost, history>>

-----------------------------------------------------------------------------
(***************************************************************************)
(* The modem: portal.c.                                                    *)
(***************************************************************************)
Up(frame) == toHost' = Append(toHost, frame)
DropSock(i) == sock' = [sock EXCEPT ![i] = FreeSock]

\* do_accept: the lowest free number; with none free the phone is turned away.
Accept(p) ==
    /\ listening /\ ~phone[p].came
    /\ phone' = [phone EXCEPT ![p].came = TRUE]
    /\ \/ \E i \in Socks :
            /\ sock[i].fd = None /\ \A j \in 0 .. i - 1 : sock[j].fd # None
            /\ sock' = [sock EXCEPT ![i].fd = p, ![i].out = <<>>, ![i].head = 0]
            /\ Up(Open(i, p))
            /\ UNCHANGED cut
       \/ /\ \A i \in Socks : sock[i].fd # None
          /\ cut' = cut \cup {p}
          /\ UNCHANGED <<sock, toHost>>
    /\ UNCHANGED <<listening, host, toModem, crossed, closed>>

\* Mutant: the kiosk is not told that a phone has gone.
ReadSockSilent(i) ==
    LET p == sock[i].fd IN
    /\ p # None
    /\ \/ /\ phone[p].asked < REQUEST /\ ~phone[p].left
          /\ phone' = [phone EXCEPT ![p].asked = @ + 1]
          /\ Up(Read(i, p))
          /\ UNCHANGED <<sock, cut>>
       \/ /\ phone[p].left
          /\ DropSock(i)
          /\ cut' = cut \cup {p}
          /\ UNCHANGED <<phone, toHost>>
    /\ UNCHANGED <<listening, host, toModem, crossed, closed>>

\* do_read: the next message of the request, or the end of what the phone sends.
ReadSock(i) ==
    LET p == sock[i].fd IN
    /\ p # None
    /\ \/ /\ phone[p].asked < REQUEST /\ ~phone[p].left
          /\ phone' = [phone EXCEPT ![p].asked = @ + 1]
          /\ Up(Read(i, p))
          /\ UNCHANGED <<sock, cut>>
       \/ /\ phone[p].left
          /\ DropSock(i) /\ Up(Gone(i, p))
          /\ cut' = cut \cup {p}
          /\ UNCHANGED phone
    /\ UNCHANGED <<listening, host, toModem, crossed, closed>>

\* Mutant: M_SOCK_SENT counts what was waiting, not what send took.
WriteSockPending(i) ==
    LET c == sock[i] IN
    /\ c.fd # None /\ c.head < Len(c.out) /\ ~phone[c.fd].left
    /\ \E n \in 1 .. Len(c.out) - c.head :
         /\ phone' = [phone EXCEPT ![c.fd].got = @ \o SubSeq(c.out, c.head + 1, c.head + n)]
         /\ Up(Took(i, c.fd, Len(c.out) - c.head))
         /\ \/ c.head + n < Len(c.out) /\ sock' = [sock EXCEPT ![i].head = c.head + n] /\ UNCHANGED closed
            \/ c.head + n = Len(c.out) /\ ~c.closing
               /\ sock' = [sock EXCEPT ![i].out = <<>>, ![i].head = 0] /\ UNCHANGED closed
            \/ c.head + n = Len(c.out) /\ c.closing /\ DropSock(i) /\ closed' = closed \cup {c.fd}
    /\ UNCHANGED <<listening, host, toModem, crossed, cut>>

\* do_write: send takes some or all of what waits; the buffer starts over only when it is empty.
WriteSock(i) ==
    LET c == sock[i] IN
    /\ c.fd # None /\ c.head < Len(c.out) /\ ~phone[c.fd].left
    /\ \E n \in 1 .. Len(c.out) - c.head :
         /\ phone' = [phone EXCEPT ![c.fd].got = @ \o SubSeq(c.out, c.head + 1, c.head + n)]
         /\ Up(Took(i, c.fd, n))
         /\ \/ c.head + n < Len(c.out) /\ sock' = [sock EXCEPT ![i].head = c.head + n] /\ UNCHANGED closed
            \/ c.head + n = Len(c.out) /\ ~c.closing
               /\ sock' = [sock EXCEPT ![i].out = <<>>, ![i].head = 0] /\ UNCHANGED closed
            \/ c.head + n = Len(c.out) /\ c.closing /\ DropSock(i) /\ closed' = closed \cup {c.fd}
    /\ UNCHANGED <<listening, host, toModem, crossed, cut>>

\* portal_write: what does not fit behind the tail is dropped, and the free space before the head is not used.
Written(c, unit) == IF Len(c.out) < OUT_BUF THEN [c EXCEPT !.out = Append(@, unit)] ELSE c

\* The receive task takes one frame: portal_write, portal_close, and portal_enable after a restart.
Crosses(m) == sock[m.id].fd \notin {None, m.for} /\ ~m.told

TakeData(m) ==
    /\ m.what = "data"
    /\ sock' = [sock EXCEPT ![m.id] = IF @.fd = None THEN @ ELSE Written(@, [of |-> m.of, k |-> m.n])]
    /\ crossed' = (crossed \/ Crosses(m))
    /\ UNCHANGED <<listening, closed, cut>>

TakeClose(m) ==
    LET c == sock[m.id] IN
    /\ m.what \in {"close", "abort"}
    /\ \/ c.fd = None /\ UNCHANGED <<sock, closed, cut>>
       \/ /\ c.fd # None /\ m.what = "abort"
          /\ DropSock(m.id) /\ cut' = cut \cup {c.fd}
          /\ UNCHANGED closed
       \/ /\ c.fd # None /\ m.what = "close" /\ c.head = Len(c.out)
          /\ DropSock(m.id) /\ closed' = closed \cup {c.fd}
          /\ UNCHANGED cut
       \/ /\ c.fd # None /\ m.what = "close" /\ c.head < Len(c.out)
          /\ sock' = [sock EXCEPT ![m.id].closing = TRUE]
          /\ UNCHANGED <<closed, cut>>
    /\ crossed' = (crossed \/ Crosses(m))
    /\ UNCHANGED listening

TakeListen(m) ==
    /\ m.what = "listen" /\ listening' = TRUE
    /\ UNCHANGED <<sock, history>>

ModemTakes ==
    /\ toModem # <<>> /\ toModem' = Tail(toModem)
    /\ LET m == Head(toModem) IN TakeData(m) \/ TakeClose(m) \/ TakeListen(m)
    /\ UNCHANGED <<phone, host, toHost>>

\* The modem restarts: its sockets are gone, what it had not sent is lost, and it says hello.
Restart ==
    /\ Fault
    /\ sock' = [i \in Socks |-> FreeSock] /\ listening' = FALSE
    /\ \E n \in 0 .. Len(toHost) : toHost' = Append(SubSeq(toHost, 1, n), Hello)
    /\ cut' = cut \cup {p \in Phones : phone[p].came}
    /\ UNCHANGED <<phone, host, toModem, crossed, closed>>

\* A phone closes its side, at any time.
HangUp(p) ==
    /\ phone[p].came /\ ~phone[p].left /\ Fault
    /\ \E i \in Socks : sock[i].fd = p
    /\ phone' = [phone EXCEPT ![p].left = TRUE]
    /\ UNCHANGED <<modem, host, toModem, toHost, history>>

-----------------------------------------------------------------------------
Kiosk == OnOpen \/ OnRead \/ OnTook \/ OnGone \/ OnHello \/ Store \/ Reboot
         \/ \E s \in Slots : PumpAgain(s)
Modem == ModemTakes
         \/ (\E i \in Socks : ReadSock(i) \/ WriteSock(i))
         \/ (\E p \in Phones : Accept(p))
Faulty == Restart \/ (\E s \in Slots : GiveUp(s)) \/ (\E p \in Phones : HangUp(p))

Next == /\ saved \notin {"rebooted", "graced"}
        /\ Faulty \/ ((Kiosk \/ Modem) /\ UNCHANGED faults)

Spec == Init /\ [][Next]_vars

-----------------------------------------------------------------------------
Answer(p) == [k \in 1 .. RESPONSE |-> [of |-> {p}, k |-> k]]

\* The socket of a phone takes only units of the answer to that phone's own request, in order and none
\* twice, unless a frame the kiosk sent while M_SOCK_CLOSE was still on its way reached the number's next
\* phone: what the modem says of a number is in order with its reuse, do_write's late M_SOCK_SENT included.
OwnAnswer ==
    ~crossed => \A p \in Phones : \A a, b \in 1 .. Len(phone[p].got) :
        phone[p].got[a].of = {p} /\ (a < b => phone[p].got[a].k < phone[p].got[b].k)

\* A socket that closes in order has taken the whole answer, whatever the modem's full buffer dropped on
\* the way: a byte that portal_write drops is never confirmed, so the kiosk does not close but times out.
WholeBeforeClose ==
    ~crossed => \A p \in closed : phone[p].got = Answer(p)

\* When the kiosk reboots before the grace is over, the phone that posted the form has been told so in
\* full, unless its connection was cut.
SavedIsTold ==
    saved = "rebooted" /\ ~crossed => phone[saver].got = Answer(saver) \/ saver \in cut \/ phone[saver].left

=============================================================================
