-------------------------- MODULE PortalRelayProof --------------------------
(***************************************************************************)
(* Proofs about the relay of the setup portal, for any number of phones,   *)
(* sockets and connections, any window, buffer and ring, and any length of *)
(* a request and an answer.                                                *)
(*                                                                         *)
(* The three properties are about runs in which no frame for a phone has   *)
(* reached the next phone of its number, and so is the invariant (Clean).  *)
(* Its core is the order of the frames to the kiosk (Order): one about a   *)
(* phone comes behind that phone's M_SOCK_OPEN, or the kiosk's connection  *)
(* of the number is that phone's (Heard); and a connection that the kiosk  *)
(* has, or will have by an M_SOCK_OPEN under way, is still at the socket,  *)
(* or an M_SOCK_CLOSE or a hello is under way as well (Ends).              *)
(***************************************************************************)
EXTENDS PortalRelay, SequenceTheorems, WellFoundedInduction, TLAPS

Units == [of : SUBSET Phones, k : 1 .. RESPONSE]

HostFrames ==
    {f \in [what : {"open", "read", "took", "gone", "hello"}, id : Socks \cup {None}, for : Phones \cup {None},
            n : Nat, of : {{}}, told : {TRUE}] :
        /\ f.what # "hello" => f.id \in Socks /\ f.for \in Phones
        /\ f.what = "gone" => f.n = 0}

\* What the kiosk sends about a phone it sends before it is told that the phone has gone.
ModemFrames ==
    {f \in [what : {"data", "close", "abort", "listen"}, id : Socks \cup {None}, for : Phones \cup {None},
            n : Nat, of : SUBSET Phones, told : BOOLEAN] :
        /\ f.what = "listen" => f.for = None
        /\ f.what # "listen" => f.id \in Socks /\ f.for \in Phones /\ ~f.told
        /\ f.what = "data" => f.of = {f.for} /\ f.n \in 1 .. RESPONSE}

Types ==
    /\ phone \in [Phones -> [came : BOOLEAN, asked : Nat, got : Seq(Units), left : BOOLEAN]]
    /\ sock \in [Socks -> [fd : Phones \cup {None}, out : Seq(Units), head : Nat, closing : {FALSE}]]
    /\ slot \in [Slots -> [sock : Socks \cup {None}, owner : Phones \cup {None}, of : Seq(Phones),
                           responding : BOOLEAN, sent : 0 .. RESPONSE, acked : Nat]]
    /\ saved \in {"no", "asked", "stored", "rebooted", "graced"} /\ saver \in Phones \cup {None}
    /\ toModem \in Seq(ModemFrames) /\ Len(toModem) <= TX_RING
    /\ toHost \in Seq(HostFrames)
    /\ cut \in SUBSET Phones /\ closed \in SUBSET Phones

\* A connection of the kiosk is a phone's; neither the numbers nor the phones are shared.
Tenants ==
    /\ \A s \in Slots : Live(s) <=> slot[s].owner \in Phones
    /\ \A s, t \in Slots : Live(s) /\ Live(t) /\ s # t => slot[s].sock # slot[t].sock /\ slot[s].owner # slot[t].owner
    /\ \A i, j \in Socks : i # j /\ sock[i].fd # None => sock[i].fd # sock[j].fd

-----------------------------------------------------------------------------
IsOpen(f, i) == f.what = "open" /\ f.id = i
Voids(f, i) == f.what = "hello" \/ IsOpen(f, i)
Ended(f, i, p) == f.what = "hello" \/ (f.what = "gone" /\ f.id = i /\ f.for = p)

\* Behind n frames of q, number i is p's to the kiosk: by an M_SOCK_OPEN among them, or by its connections' owners.
Heard(q, i, p, n, owners) ==
    \/ \E j \in 1 .. n : IsOpen(q[j], i) /\ q[j].for = p /\ \A l \in j + 1 .. n : ~Voids(q[l], i)
    \/ owners \subseteq {p} /\ \A j \in 1 .. n : ~Voids(q[j], i)

\* p's connection, begun behind j frames of q, is that of the socket (fd), or its end is under way.
Ends(q, i, p, j, fd) ==
    \/ fd = p /\ \A k \in j + 1 .. Len(q) : ~Voids(q[k], i)
    \/ \E k \in j + 1 .. Len(q) : Ended(q[k], i, p) /\ \A l \in j + 1 .. k - 1 : ~IsOpen(q[l], i)

\* The phones of the connections c with number i.
Owners(c, i) == {c[s].owner : s \in {t \in Slots : c[t].sock = i}}

Order ==
    /\ \A j \in 1 .. Len(toHost) : toHost[j].what \in {"read", "took", "gone"} =>
          Heard(toHost, toHost[j].id, toHost[j].for, j - 1, Owners(slot, toHost[j].id))
    /\ \A i \in Socks : sock[i].fd # None => Heard(toHost, i, sock[i].fd, Len(toHost), Owners(slot, i))
    /\ \A j \in 1 .. Len(toHost) : toHost[j].what = "open" =>
          Ends(toHost, toHost[j].id, toHost[j].for, j, sock[toHost[j].id].fd)
    /\ \A s \in Slots : Live(s) => Ends(toHost, slot[s].sock, slot[s].owner, 0, sock[slot[s].sock].fd)

-----------------------------------------------------------------------------
\* Nothing of an answer to p is anywhere.
Quiet(p) ==
    /\ phone[p].got = <<>>
    /\ \A i \in Socks : sock[i].fd = p => sock[i].out = <<>>
    /\ \A j \in 1 .. Len(toModem) : toModem[j].for # p
    /\ \A j \in 1 .. Len(toHost) : toHost[j].for = p => toHost[j].what # "took"

\* p has not come, or the kiosk has not heard all of its request.
Asking(p) ==
    \/ ~phone[p].came
    \/ \E j \in 1 .. Len(toHost) : toHost[j].what = "open" /\ toHost[j].for = p
    \/ \E s \in Slots : Live(s) /\ slot[s].owner = p /\ ~slot[s].responding

\* A phone comes once.
Coming ==
    /\ \A i \in Socks : sock[i].fd # None => phone[sock[i].fd].came
    /\ \A s \in Slots : Live(s) => phone[slot[s].owner].came
    /\ \A j \in 1 .. Len(toHost) : toHost[j].what # "hello" => phone[toHost[j].for].came
    /\ \A j, k \in 1 .. Len(toHost) :
          j # k /\ toHost[j].what = "open" /\ toHost[k].what = "open" => toHost[j].for # toHost[k].for
    /\ \A j \in 1 .. Len(toHost) : toHost[j].what = "open" => \A s \in Slots : slot[s].owner # toHost[j].for

Unanswered == \A p \in Phones : Asking(p) => Quiet(p)

-----------------------------------------------------------------------------
(* The units of an answer, in order: those the socket took, those it waits with, those in frames, those sent. *)

GotInOrder(p) ==
    /\ \A a \in 1 .. Len(phone[p].got) : phone[p].got[a].of = {p} /\ a <= phone[p].got[a].k
    /\ \A a, b \in 1 .. Len(phone[p].got) : a < b => phone[p].got[a].k < phone[p].got[b].k

OutInOrder(i) ==
    LET c == sock[i]
    IN  /\ c.head <= Len(c.out) /\ (c.head = Len(c.out) => c.out = <<>>)
        /\ c.fd # None =>
             /\ \A a \in 1 .. Len(c.out) : c.out[a].of = {c.fd}
             /\ \A a, b \in 1 .. Len(c.out) : a < b => c.out[a].k < c.out[b].k
             /\ \A a \in 1 .. Len(phone[c.fd].got), b \in c.head + 1 .. Len(c.out) : phone[c.fd].got[a].k < c.out[b].k
             /\ \A b \in c.head + 1 .. Len(c.out) : Len(phone[c.fd].got) + (b - c.head) <= c.out[b].k

FramesInOrder ==
    \A j \in 1 .. Len(toModem) : toModem[j].what = "data" =>
        LET p == toModem[j].for
        IN  /\ \A a \in 1 .. Len(phone[p].got) : phone[p].got[a].k < toModem[j].n
            /\ \A i \in Socks : sock[i].fd = p => \A b \in 1 .. Len(sock[i].out) : sock[i].out[b].k < toModem[j].n
            /\ \A l \in 1 .. Len(toModem) : j < l /\ toModem[l].what = "data" /\ toModem[l].for = p => toModem[j].n < toModem[l].n

\* No unit for p is beyond the m-th.
UpTo(p, m) ==
    /\ \A a \in 1 .. Len(phone[p].got) : phone[p].got[a].k <= m
    /\ \A i \in Socks : sock[i].fd = p => \A a \in 1 .. Len(sock[i].out) : sock[i].out[a].k <= m
    /\ \A j \in 1 .. Len(toModem) : toModem[j].what = "data" /\ toModem[j].for = p => toModem[j].n <= m

InOrder ==
    /\ \A p \in Phones : GotInOrder(p)
    /\ \A i \in Socks : OutInOrder(i)
    /\ FramesInOrder
    /\ \A s \in Slots : Live(s) /\ slot[s].responding => UpTo(slot[s].owner, slot[s].sent)

-----------------------------------------------------------------------------
Whole(p) == Len(phone[p].got) = RESPONSE

\* A connection that the kiosk has ended is gone for good, in order only after the whole answer.
Over ==
    \A j \in 1 .. Len(toModem) : toModem[j].what \in {"close", "abort"} =>
        /\ \A s \in Slots : slot[s].owner # toModem[j].for
        /\ toModem[j].what = "close" => Whole(toModem[j].for)

TookOf(f, i) == IF f.what = "took" /\ f.id = i THEN f.n ELSE 0

\* From a, the M_SOCK_SENT of q about number i count up to b at most: f has the counts on the way.
Counts(q, i, a, b) ==
    \E f \in [0 .. Len(q) -> 0 .. b] : f[0] = a /\ \A j \in 1 .. Len(q) : f[j] = f[j - 1] + TookOf(q[j], i)

\* What is confirmed, now or by a frame under way, the socket has taken.
Confirmed ==
    \A s \in Slots : Live(s) =>
        /\ slot[s].sent <= slot[s].acked + PORTAL_SOCK_WINDOW
        /\ slot[s].responding => Counts(toHost, slot[s].sock, slot[s].acked, Len(phone[slot[s].owner].got))

\* Whose request a connection has.
Requests ==
    \A s \in Slots : Live(s) =>
        /\ \A a \in 1 .. Len(slot[s].of) : slot[s].of[a] = slot[s].owner
        /\ IF slot[s].responding THEN Len(slot[s].of) = REQUEST ELSE Len(slot[s].of) < REQUEST

\* A phone whose end is under way to the kiosk has been cut.
Cuts ==
    /\ \A j \in 1 .. Len(toHost) : toHost[j].what = "gone" => toHost[j].for \in cut
    /\ \A j, k \in 1 .. Len(toHost) : j < k /\ toHost[j].what = "open" /\ toHost[k].what = "hello" => toHost[j].for \in cut
    /\ \A k \in 1 .. Len(toHost) : toHost[k].what = "hello" => \A s \in Slots : Live(s) => slot[s].owner \in cut

Answering(p) == \E s \in Slots : Live(s) /\ slot[s].owner = p /\ slot[s].responding

Saving ==
    /\ \A p \in closed : Whole(p)
    /\ saved # "no" => saver \in Phones
    /\ saved \in {"asked", "stored"} => saver \in cut \/ Whole(saver) \/ Answering(saver)
    /\ saved = "rebooted" => saver \in cut \/ Whole(saver)

Clean == Types /\ Tenants /\ Order /\ Coming /\ Unanswered /\ InOrder /\ Over /\ Confirmed /\ Requests /\ Cuts /\ Saving

IInv == crossed \/ Clean

-----------------------------------------------------------------------------
(* Queues. *)

LEMMA Constants ==
    /\ None \notin Phones /\ None \notin Socks /\ Socks \subseteq Nat
    /\ PORTAL_SOCK_WINDOW \in Nat \ {0} /\ REQUEST \in Nat \ {0} /\ RESPONSE \in Nat \ {0} /\ TX_RING \in Nat \ {0}
    /\ Total = RESPONSE
<1>1. Socks \subseteq Nat
  BY RelayAssumption DEF Socks
<1> QED  BY <1>1, RelayAssumption DEF Total

\* z is q without its first frame, q and one more, or some of q and a hello.
Shifted(q, z) == Len(q) = Len(z) + 1 /\ \A j \in 1 .. Len(z) : z[j] = q[j + 1]
Extended(q, z, f) == Len(z) = Len(q) + 1 /\ z[Len(z)] = f /\ \A j \in 1 .. Len(q) : z[j] = q[j]
Cut(q, z, n) == n \in 0 .. Len(q) /\ Len(z) = n + 1 /\ z[n + 1] = Hello /\ \A j \in 1 .. n : z[j] = q[j]

LEMMA TailShifts ==
    ASSUME NEW S, NEW q \in Seq(S), q # <<>>
    PROVE  Tail(q) \in Seq(S) /\ Shifted(q, Tail(q)) /\ Len(q) \in Nat \ {0} /\ Len(Tail(q)) \in Nat /\ Head(q) = q[1]
BY DEF Shifted

LEMMA AppendExtends ==
    ASSUME NEW S, NEW q \in Seq(S), NEW f \in S
    PROVE  Append(q, f) \in Seq(S) /\ Extended(q, Append(q, f), f) /\ Len(q) \in Nat
BY DEF Extended

\* The queue of a modem that restarts.
LEMMA RestartCuts ==
    ASSUME NEW S, NEW q \in Seq(S), Hello \in S, NEW n \in 0 .. Len(q)
    PROVE  Append(SubSeq(q, 1, n), Hello) \in Seq(S) /\ Cut(q, Append(SubSeq(q, 1, n), Hello), n) /\ Len(q) \in Nat
<1> DEFINE h == SubSeq(q, 1, n)
<1>1. \A i \in 1 .. n : q[i] \in S
  OBVIOUS
<1>2. h \in Seq(S) /\ Len(h) = (IF 1 <= n THEN n - 1 + 1 ELSE 0) /\ \A i \in 1 .. n - 1 + 1 : h[i] = q[1 + i - 1]
  BY <1>1, SubSeqProperties
<1>3. Len(h) = n /\ \A i \in 1 .. n : h[i] = q[i]
  <2>1. n - 1 + 1 = n /\ \A i \in 1 .. n : 1 + i - 1 = i
    OBVIOUS
  <2>2. Len(h) = n
    BY <1>2
  <2> QED  BY <1>2, <2>1, <2>2
<1> HIDE DEF h
<1>4. Append(h, Hello) \in Seq(S) /\ Extended(h, Append(h, Hello), Hello)
  BY <1>2, AppendExtends
<1>5. Cut(q, Append(h, Hello), n)
  BY <1>3, <1>4 DEF Cut, Extended
<1> QED  BY <1>4, <1>5 DEF h

LEMMA HeardShifts ==
    ASSUME NEW q, NEW z, NEW i, NEW p, NEW n \in Nat, NEW owners, NEW mine, Len(z) \in Nat, Shifted(q, z), n <= Len(z),
           Heard(q, i, p, n + 1, owners),
           IsOpen(q[1], i) /\ q[1].for = p => mine \subseteq {p},
           ~Voids(q[1], i) /\ owners \subseteq {p} => mine \subseteq {p}
    PROVE  Heard(z, i, p, n, mine)
<1>1. \A l \in 2 .. n + 1 : l - 1 \in 1 .. n /\ z[l - 1] = q[l]
  BY DEF Shifted
<1>2. \A l \in 1 .. n : l + 1 \in 2 .. n + 1 /\ z[l] = q[l + 1]
  BY DEF Shifted
<1>3. CASE \E j \in 2 .. n + 1 : IsOpen(q[j], i) /\ q[j].for = p /\ \A l \in j + 1 .. n + 1 : ~Voids(q[l], i)
  <2>1. PICK j \in 2 .. n + 1 : IsOpen(q[j], i) /\ q[j].for = p /\ \A l \in j + 1 .. n + 1 : ~Voids(q[l], i)
    BY <1>3
  <2>2. j - 1 \in 1 .. n /\ z[j - 1] = q[j]
    BY <1>1
  <2>3. ASSUME NEW l \in (j - 1) + 1 .. n PROVE ~Voids(z[l], i)
    <3>1. l \in 1 .. n /\ l + 1 \in j + 1 .. n + 1
      OBVIOUS
    <3> QED  BY <1>2, <2>1, <3>1
  <2> QED  BY <2>1, <2>2, <2>3 DEF Heard
<1>4. CASE IsOpen(q[1], i) /\ q[1].for = p /\ \A l \in 2 .. n + 1 : ~Voids(q[l], i)
  BY <1>2, <1>4 DEF Heard
<1>5. CASE owners \subseteq {p} /\ \A j \in 1 .. n + 1 : ~Voids(q[j], i)
  <2>1. 1 \in 1 .. n + 1 /\ \A j \in 1 .. n : j + 1 \in 1 .. n + 1
    OBVIOUS
  <2> QED  BY <1>2, <1>5, <2>1 DEF Heard
<1>6. \A j \in 1 .. n + 1 : j = 1 \/ j \in 2 .. n + 1
  OBVIOUS
<1>7. 1 + 1 = 2
  OBVIOUS
<1> QED  BY <1>3, <1>4, <1>5, <1>6, <1>7 DEF Heard

\* What was heard behind n frames depends on these alone.
LEMMA HeardAgain ==
    ASSUME NEW q, NEW z, NEW i, NEW p, NEW n \in Nat, NEW owners, NEW mine, Heard(q, i, p, n, owners),
           \A j \in 1 .. n : z[j] = q[j], owners \subseteq {p} => mine \subseteq {p}
    PROVE  Heard(z, i, p, n, mine)
<1>1. CASE \E j \in 1 .. n : IsOpen(q[j], i) /\ q[j].for = p /\ \A l \in j + 1 .. n : ~Voids(q[l], i)
  <2>1. PICK j \in 1 .. n : IsOpen(q[j], i) /\ q[j].for = p /\ \A l \in j + 1 .. n : ~Voids(q[l], i)
    BY <1>1
  <2>2. \A l \in j + 1 .. n : l \in 1 .. n
    OBVIOUS
  <2> QED  BY <2>1, <2>2 DEF Heard
<1>2. CASE owners \subseteq {p} /\ \A j \in 1 .. n : ~Voids(q[j], i)
  BY <1>2 DEF Heard
<1> QED  BY <1>1, <1>2 DEF Heard

LEMMA HeardExtends ==
    ASSUME NEW q, NEW z, NEW f, NEW i, NEW p, NEW owners, NEW mine, Len(q) \in Nat, Extended(q, z, f),
           \/ Heard(q, i, p, Len(q), owners) /\ ~Voids(f, i) /\ (owners \subseteq {p} => mine \subseteq {p})
           \/ IsOpen(f, i) /\ f.for = p
    PROVE  Heard(z, i, p, Len(z), mine)
<1>1. \A l \in 1 .. Len(z) : l \in 1 .. Len(q) \/ l = Len(z)
  BY DEF Extended
<1>2. Len(z) \in 1 .. Len(z) /\ \A l \in Len(z) + 1 .. Len(z) : FALSE
  BY DEF Extended
<1>3. CASE IsOpen(f, i) /\ f.for = p
  BY <1>2, <1>3 DEF Heard, Extended
<1>4. CASE Heard(q, i, p, Len(q), owners) /\ ~Voids(f, i) /\ (owners \subseteq {p} => mine \subseteq {p})
  <2>1. Heard(z, i, p, Len(q), mine)
    BY <1>4, HeardAgain DEF Extended
  <2>2. ASSUME NEW j \in 1 .. Len(q), \A l \in j + 1 .. Len(q) : ~Voids(z[l], i)
        PROVE  j \in 1 .. Len(z) /\ \A l \in j + 1 .. Len(z) : ~Voids(z[l], i)
    <3>1. \A l \in j + 1 .. Len(z) : l \in j + 1 .. Len(q) \/ l = Len(z)
      BY DEF Extended
    <3> QED  BY <1>4, <2>2, <3>1 DEF Extended
  <2>3. CASE \E j \in 1 .. Len(q) : IsOpen(z[j], i) /\ z[j].for = p /\ \A l \in j + 1 .. Len(q) : ~Voids(z[l], i)
    BY <2>2, <2>3 DEF Heard
  <2>4. CASE mine \subseteq {p} /\ \A j \in 1 .. Len(q) : ~Voids(z[j], i)
    BY <1>1, <1>4, <2>4 DEF Heard, Extended
  <2> QED  BY <2>1, <2>3, <2>4 DEF Heard
<1> QED  BY <1>3, <1>4

LEMMA EndsShifts ==
    ASSUME NEW q, NEW z, NEW i, NEW p, NEW j \in Nat, NEW fd, Len(z) \in Nat, Shifted(q, z), Ends(q, i, p, j + 1, fd)
    PROVE  Ends(z, i, p, j, fd)
<1>1. \A k \in j + 1 .. Len(z) : k + 1 \in (j + 1) + 1 .. Len(q) /\ z[k] = q[k + 1]
  BY DEF Shifted
<1>2. CASE fd = p /\ \A k \in (j + 1) + 1 .. Len(q) : ~Voids(q[k], i)
  BY <1>1, <1>2 DEF Ends
<1>3. CASE \E k \in (j + 1) + 1 .. Len(q) : Ended(q[k], i, p) /\ \A l \in (j + 1) + 1 .. k - 1 : ~IsOpen(q[l], i)
  <2>1. PICK k \in (j + 1) + 1 .. Len(q) : Ended(q[k], i, p) /\ \A l \in (j + 1) + 1 .. k - 1 : ~IsOpen(q[l], i)
    BY <1>3
  <2>2. k - 1 \in j + 1 .. Len(z) /\ z[k - 1] = q[k]
    <3>1. k \in Nat /\ k - 1 \in j + 1 .. Len(z) /\ (k - 1) + 1 = k
      BY DEF Shifted
    <3> QED  BY <1>1, <3>1
  <2>3. ASSUME NEW l \in j + 1 .. (k - 1) - 1 PROVE ~IsOpen(z[l], i)
    <3>1. l + 1 \in (j + 1) + 1 .. k - 1 /\ l \in j + 1 .. Len(z)
      BY DEF Shifted
    <3> QED  BY <1>1, <2>1, <3>1
  <2> QED  BY <2>1, <2>2, <2>3 DEF Ends
<1> QED  BY <1>2, <1>3 DEF Ends

\* The kiosk's connection, when the frame taken does not end it.
LEMMA EndsTaken ==
    ASSUME NEW q, NEW z, NEW i, NEW p, NEW fd, Len(z) \in Nat, Shifted(q, z), Ends(q, i, p, 0, fd), ~Ended(q[1], i, p)
    PROVE  Ends(z, i, p, 0, fd) /\ ~IsOpen(q[1], i)
<1>0. Len(q) \in Nat /\ 1 \in 0 + 1 .. Len(q)
  BY DEF Shifted
<1>1. \A k \in 0 + 1 .. Len(q) : k = 1 \/ k \in (0 + 1) + 1 .. Len(q)
  BY <1>0
<1>2. CASE fd = p /\ \A k \in 0 + 1 .. Len(q) : ~Voids(q[k], i)
  <2>1. \A k \in (0 + 1) + 1 .. Len(q) : k \in 0 + 1 .. Len(q)
    BY <1>0
  <2>2. Ends(q, i, p, 0 + 1, fd)
    BY <1>2, <2>1 DEF Ends
  <2> QED  BY <1>0, <1>2, <2>2, EndsShifts DEF Voids
<1>3. CASE \E k \in 0 + 1 .. Len(q) : Ended(q[k], i, p) /\ \A l \in 0 + 1 .. k - 1 : ~IsOpen(q[l], i)
  <2>1. PICK k \in 0 + 1 .. Len(q) : Ended(q[k], i, p) /\ \A l \in 0 + 1 .. k - 1 : ~IsOpen(q[l], i)
    BY <1>3
  <2>2. k \in (0 + 1) + 1 .. Len(q)
    BY <1>1, <2>1
  <2>3. 1 \in 0 + 1 .. k - 1 /\ \A l \in (0 + 1) + 1 .. k - 1 : l \in 0 + 1 .. k - 1
    BY <1>0, <2>2
  <2>4. Ends(q, i, p, 0 + 1, fd)
    BY <2>1, <2>2, <2>3 DEF Ends
  <2> QED  BY <2>1, <2>3, <2>4, EndsShifts
<1> QED  BY <1>2, <1>3 DEF Ends

LEMMA EndsExtends ==
    ASSUME NEW q, NEW z, NEW f, NEW i, NEW p, NEW j \in Nat, NEW fd, NEW at, Len(q) \in Nat, Extended(q, z, f),
           Ends(q, i, p, j, fd), j <= Len(q), fd = p => Ended(f, i, p) \/ (at = p /\ ~Voids(f, i))
    PROVE  Ends(z, i, p, j, at)
<1>1. \A k \in j + 1 .. Len(z) : k \in j + 1 .. Len(q) \/ k = Len(z)
  BY DEF Extended
<1>2. \A k \in j + 1 .. Len(q) : k \in 1 .. Len(q) /\ k \in j + 1 .. Len(z)
  BY DEF Extended
<1>3. CASE \E k \in j + 1 .. Len(q) : Ended(q[k], i, p) /\ \A l \in j + 1 .. k - 1 : ~IsOpen(q[l], i)
  <2>1. PICK k \in j + 1 .. Len(q) : Ended(q[k], i, p) /\ \A l \in j + 1 .. k - 1 : ~IsOpen(q[l], i)
    BY <1>3
  <2>2. \A l \in j + 1 .. k - 1 : l \in j + 1 .. Len(q)
    OBVIOUS
  <2> QED  BY <1>2, <2>1, <2>2 DEF Ends, Extended
<1>4. CASE fd = p /\ \A k \in j + 1 .. Len(q) : ~Voids(q[k], i)
  <2>1. CASE at = p /\ ~Voids(f, i)
    BY <1>1, <1>2, <1>4, <2>1 DEF Ends, Extended
  <2>2. CASE Ended(f, i, p)
    <3>1. Len(z) \in j + 1 .. Len(z) /\ \A l \in j + 1 .. Len(z) - 1 : l \in j + 1 .. Len(q)
      BY DEF Extended
    <3> QED  BY <1>2, <1>4, <2>2, <3>1 DEF Ends, Extended, Voids
  <2> QED  BY <1>4, <2>1, <2>2
<1> QED  BY <1>3, <1>4 DEF Ends

LEMMA EndsCut ==
    ASSUME NEW q, NEW z, NEW n, NEW i, NEW p, NEW j \in Nat, NEW fd, NEW at, Len(q) \in Nat, Cut(q, z, n), Ends(q, i, p, j, fd), j <= n
    PROVE  Ends(z, i, p, j, at)
<1>1. n + 1 \in j + 1 .. Len(z) /\ Ended(z[n + 1], i, p)
  BY DEF Cut, Ended, Hello, Frame
<1>2. \A l \in j + 1 .. (n + 1) - 1 : l \in 1 .. n /\ l \in j + 1 .. Len(q) /\ z[l] = q[l]
  BY DEF Cut
<1>3. CASE \A l \in j + 1 .. n : ~IsOpen(q[l], i)
  <2>1. \A l \in j + 1 .. (n + 1) - 1 : ~IsOpen(z[l], i)
    BY <1>2, <1>3 DEF Cut
  <2> QED  BY <1>1, <2>1 DEF Ends
<1>4. CASE \E l \in j + 1 .. n : IsOpen(q[l], i)
  <2>1. PICK l \in j + 1 .. n : IsOpen(q[l], i)
    BY <1>4
  <2>2. l \in j + 1 .. Len(q)
    BY DEF Cut
  <2>3. PICK k \in j + 1 .. Len(q) : Ended(q[k], i, p) /\ \A m \in j + 1 .. k - 1 : ~IsOpen(q[m], i)
    BY <2>1, <2>2 DEF Ends, Voids
  <2>4. ~(l \in j + 1 .. k - 1)
    BY <2>1, <2>3
  <2>5. k <= n /\ \A m \in j + 1 .. k - 1 : m \in 1 .. n
    BY <2>4 DEF Cut
  <2>6. k \in 1 .. n /\ k \in j + 1 .. Len(z)
    BY <2>3, <2>5 DEF Cut
  <2> QED  BY <2>3, <2>5, <2>6 DEF Cut, Ends
<1> QED  BY <1>3, <1>4

LEMMA CountsStart ==
    ASSUME NEW q, NEW i, NEW a, NEW b \in Nat, Len(q) \in Nat, Counts(q, i, a, b)
    PROVE  a \in 0 .. b
BY DEF Counts

LEMMA CountsMore ==
    ASSUME NEW q, NEW i, NEW a, NEW b \in Nat, NEW c \in Nat, b <= c, Len(q) \in Nat, Counts(q, i, a, b)
    PROVE  Counts(q, i, a, c)
<1>1. PICK f \in [0 .. Len(q) -> 0 .. b] : f[0] = a /\ \A j \in 1 .. Len(q) : f[j] = f[j - 1] + TookOf(q[j], i)
  BY DEF Counts
<1>2. f \in [0 .. Len(q) -> 0 .. c]
  OBVIOUS
<1> QED  BY <1>1, <1>2 DEF Counts

LEMMA CountsShift ==
    ASSUME NEW q, NEW z, NEW i, NEW a, NEW b \in Nat, Len(z) \in Nat, Shifted(q, z), Counts(q, i, a, b)
    PROVE  Counts(z, i, a + TookOf(q[1], i), b)
<1>1. PICK f \in [0 .. Len(q) -> 0 .. b] : f[0] = a /\ \A j \in 1 .. Len(q) : f[j] = f[j - 1] + TookOf(q[j], i)
  BY DEF Counts
<1> DEFINE g == [j \in 0 .. Len(z) |-> f[j + 1]]
<1>2. \A j \in 0 .. Len(z) : j + 1 \in 0 .. Len(q)
  BY DEF Shifted
<1>3. g \in [0 .. Len(z) -> 0 .. b]
  BY <1>1, <1>2
<1>4. g[0] = a + TookOf(q[1], i)
  <2>1. 1 \in 1 .. Len(q) /\ 0 \in 0 .. Len(z) /\ 1 - 1 = 0 /\ 0 + 1 = 1
    BY DEF Shifted
  <2>2. f[1] = f[1 - 1] + TookOf(q[1], i)
    BY <1>1, <2>1
  <2> QED  BY <1>1, <2>1, <2>2
<1>5. ASSUME NEW j \in 1 .. Len(z) PROVE g[j] = g[j - 1] + TookOf(z[j], i)
  <2>1. j + 1 \in 1 .. Len(q) /\ (j + 1) - 1 = j /\ j - 1 \in 0 .. Len(z) /\ j \in 0 .. Len(z) /\ (j - 1) + 1 = j
    BY DEF Shifted
  <2>2. f[j + 1] = f[(j + 1) - 1] + TookOf(q[j + 1], i)
    BY <1>1, <2>1
  <2>3. z[j] = q[j + 1]
    BY DEF Shifted
  <2> QED  BY <2>1, <2>2, <2>3
<1> HIDE DEF g
<1> QED  BY <1>3, <1>4, <1>5 DEF Counts

LEMMA CountsExtend ==
    ASSUME NEW q, NEW z, NEW f, NEW i, NEW a, NEW b \in Nat, Len(q) \in Nat, Extended(q, z, f), Counts(q, i, a, b),
           TookOf(f, i) \in Nat
    PROVE  Counts(z, i, a, b + TookOf(f, i))
<1> DEFINE n == TookOf(f, i)
<1>1. PICK g \in [0 .. Len(q) -> 0 .. b] : g[0] = a /\ \A j \in 1 .. Len(q) : g[j] = g[j - 1] + TookOf(q[j], i)
  BY DEF Counts
<1> DEFINE h == [j \in 0 .. Len(z) |-> IF j = Len(z) THEN g[Len(q)] + n ELSE g[j]]
<1>2. \A j \in 0 .. Len(z) : j = Len(z) \/ j \in 0 .. Len(q)
  BY DEF Extended
<1>3. Len(q) \in 0 .. Len(q) /\ g[Len(q)] \in 0 .. b /\ \A j \in 0 .. Len(q) : g[j] \in 0 .. b
  BY <1>1
<1> HIDE DEF n
<1>4. h \in [0 .. Len(z) -> 0 .. b + n]
  <2>1. \A j \in 0 .. Len(z) : h[j] \in 0 .. b + n
    BY <1>2, <1>3 DEF n
  <2> QED  BY <2>1
<1>5. h[0] = a
  BY <1>1 DEF Extended
<1>6. ASSUME NEW j \in 1 .. Len(z) PROVE h[j] = h[j - 1] + TookOf(z[j], i)
  <2>1. CASE j = Len(z)
    <3>1. j - 1 = Len(q) /\ j - 1 # Len(z) /\ j - 1 \in 0 .. Len(z) /\ j \in 0 .. Len(z) /\ z[j] = f
      BY <2>1 DEF Extended
    <3>2. h[j] = g[Len(q)] + n /\ h[j - 1] = g[Len(q)]
      BY <2>1, <3>1
    <3> QED  BY <3>1, <3>2 DEF n
  <2>2. CASE j # Len(z)
    <3>1. j \in 1 .. Len(q) /\ j - 1 \in 0 .. Len(z) /\ j - 1 # Len(z) /\ j \in 0 .. Len(z) /\ z[j] = q[j]
      BY <2>2 DEF Extended
    <3> QED  BY <1>1, <2>2, <3>1
  <2> QED  BY <2>1, <2>2
<1> HIDE DEF h
<1> QED  BY <1>4, <1>5, <1>6 DEF Counts, n

LEMMA CountsCut ==
    ASSUME NEW q, NEW z, NEW n, NEW i, NEW a, NEW b \in Nat, Len(q) \in Nat, Cut(q, z, n), Counts(q, i, a, b)
    PROVE  Counts(z, i, a, b)
<1>1. PICK g \in [0 .. Len(q) -> 0 .. b] : g[0] = a /\ \A j \in 1 .. Len(q) : g[j] = g[j - 1] + TookOf(q[j], i)
  BY DEF Counts
<1> DEFINE h == [j \in 0 .. Len(z) |-> IF j = n + 1 THEN g[n] ELSE g[j]]
<1>2. \A j \in 0 .. Len(z) : j = n + 1 \/ j \in 0 .. Len(q)
  BY DEF Cut
<1>3. n \in 0 .. Len(q)
  BY DEF Cut
<1>4. h \in [0 .. Len(z) -> 0 .. b]
  BY <1>1, <1>2, <1>3
<1>5. h[0] = a
  BY <1>1, <1>3 DEF Cut
<1>6. ASSUME NEW j \in 1 .. Len(z) PROVE h[j] = h[j - 1] + TookOf(z[j], i)
  <2>1. CASE j = n + 1
    <3>1. j - 1 = n /\ j - 1 # n + 1 /\ j - 1 \in 0 .. Len(z) /\ j \in 0 .. Len(z) /\ TookOf(z[j], i) = 0
      BY <1>3, <2>1 DEF Cut, TookOf, Hello, Frame
    <3>2. h[j] = g[n] /\ h[j - 1] = g[n] /\ g[n] \in Nat
      BY <1>1, <1>3, <2>1, <3>1
    <3> QED  BY <3>1, <3>2
  <2>2. CASE j # n + 1
    <3>1. j \in 1 .. n /\ j \in 1 .. Len(q) /\ j - 1 \in 0 .. Len(z) /\ j - 1 # n + 1 /\ j \in 0 .. Len(z)
      BY <1>3, <2>2 DEF Cut
    <3>2. z[j] = q[j]
      BY <3>1 DEF Cut
    <3> QED  BY <1>1, <2>2, <3>1, <3>2
  <2> QED  BY <2>1, <2>2
<1> HIDE DEF h
<1> QED  BY <1>4, <1>5, <1>6 DEF Counts

LEMMA CountsNone ==
    ASSUME NEW q, NEW i, NEW b \in Nat, Len(q) \in Nat, \A j \in 1 .. Len(q) : TookOf(q[j], i) = 0
    PROVE  Counts(q, i, 0, b)
<1> DEFINE f == [j \in 0 .. Len(q) |-> 0]
<1>1. f \in [0 .. Len(q) -> 0 .. b] /\ f[0] = 0
  OBVIOUS
<1>2. \A j \in 1 .. Len(q) : j \in 0 .. Len(q) /\ j - 1 \in 0 .. Len(q)
  OBVIOUS
<1>3. \A j \in 1 .. Len(q) : f[j] = f[j - 1] + TookOf(q[j], i)
  BY <1>2
<1> HIDE DEF f
<1> QED  BY <1>1, <1>3 DEF Counts

-----------------------------------------------------------------------------
(* What every frame, socket and connection is. *)

LEMMA HostTyped ==
    ASSUME Types
    PROVE  /\ Len(toHost) \in Nat /\ toHost \in Seq(HostFrames)
           /\ \A j \in 1 .. Len(toHost) :
                /\ toHost[j] \in HostFrames /\ toHost[j].n \in Nat
                /\ toHost[j].what \in {"open", "read", "took", "gone", "hello"}
                /\ toHost[j].what # "hello" => toHost[j].id \in Socks /\ toHost[j].for \in Phones
<1>1. toHost \in Seq(HostFrames)
  BY DEF Types
<1>2. \A j \in 1 .. Len(toHost) : toHost[j] \in HostFrames
  BY <1>1
<1>3. ASSUME NEW f \in HostFrames
      PROVE  /\ f.n \in Nat /\ f.what \in {"open", "read", "took", "gone", "hello"}
             /\ f.what # "hello" => f.id \in Socks /\ f.for \in Phones
  BY DEF HostFrames
<1> QED  BY <1>1, <1>2, <1>3

LEMMA ModemTyped ==
    ASSUME Types
    PROVE  /\ Len(toModem) \in Nat /\ toModem \in Seq(ModemFrames)
           /\ \A j \in 1 .. Len(toModem) :
                /\ toModem[j] \in ModemFrames
                /\ toModem[j].what \in {"data", "close", "abort", "listen"}
                /\ toModem[j].what = "listen" => toModem[j].for = None
                /\ toModem[j].what # "listen" => toModem[j].id \in Socks /\ toModem[j].for \in Phones /\ ~toModem[j].told
                /\ toModem[j].what = "data" => toModem[j].of = {toModem[j].for} /\ toModem[j].n \in 1 .. RESPONSE
<1>1. toModem \in Seq(ModemFrames)
  BY DEF Types
<1>2. \A j \in 1 .. Len(toModem) : toModem[j] \in ModemFrames
  BY <1>1
<1> QED  BY <1>1, <1>2 DEF ModemFrames

LEMMA HostFrameTypes ==
    ASSUME NEW i \in Socks, NEW p \in Phones, NEW n \in Nat
    PROVE  {Open(i, p), Read(i, p), Took(i, p, n), Gone(i, p), Hello} \subseteq HostFrames
<1>1. Open(i, p) \in HostFrames /\ Read(i, p) \in HostFrames
  BY DEF HostFrames, Open, Read, Frame
<1>2. Took(i, p, n) \in HostFrames /\ Gone(i, p) \in HostFrames /\ Hello \in HostFrames
  BY DEF HostFrames, Took, Gone, Hello, Frame
<1> QED  BY <1>1, <1>2

LEMMA HelloType == Hello \in HostFrames
BY DEF HostFrames, Hello, Frame

LEMMA SockTyped ==
    ASSUME Types, NEW i \in Socks
    PROVE  /\ sock[i] \in [fd : Phones \cup {None}, out : Seq(Units), head : Nat, closing : {FALSE}]
           /\ sock[i].fd \in Phones \cup {None} /\ sock[i].out \in Seq(Units) /\ Len(sock[i].out) \in Nat
           /\ sock[i].head \in Nat /\ ~sock[i].closing
           /\ \A b \in 1 .. Len(sock[i].out) : sock[i].out[b] \in Units /\ sock[i].out[b].k \in 1 .. RESPONSE
<1>1. /\ sock[i] \in [fd : Phones \cup {None}, out : Seq(Units), head : Nat, closing : {FALSE}]
      /\ sock[i].fd \in Phones \cup {None} /\ sock[i].out \in Seq(Units) /\ sock[i].head \in Nat /\ sock[i].closing = FALSE
  BY DEF Types
<1>2. Len(sock[i].out) \in Nat /\ \A b \in 1 .. Len(sock[i].out) : sock[i].out[b] \in Units
  BY <1>1
<1> QED  BY <1>1, <1>2 DEF Units

LEMMA PhoneTyped ==
    ASSUME Types, NEW p \in Phones
    PROVE  /\ phone[p] \in [came : BOOLEAN, asked : Nat, got : Seq(Units), left : BOOLEAN]
           /\ phone[p].got \in Seq(Units) /\ Len(phone[p].got) \in Nat /\ phone[p].asked \in Nat
           /\ \A a \in 1 .. Len(phone[p].got) : phone[p].got[a] \in Units /\ phone[p].got[a].k \in 1 .. RESPONSE
<1>1. phone[p] \in [came : BOOLEAN, asked : Nat, got : Seq(Units), left : BOOLEAN] /\ phone[p].got \in Seq(Units) /\ phone[p].asked \in Nat
  BY DEF Types
<1>2. Len(phone[p].got) \in Nat /\ \A b \in 1 .. Len(phone[p].got) : phone[p].got[b] \in Units
  BY <1>1
<1> QED  BY <1>1, <1>2 DEF Units

LEMMA SlotTyped ==
    ASSUME Types, NEW s \in Slots
    PROVE  /\ slot[s] \in [sock : Socks \cup {None}, owner : Phones \cup {None}, of : Seq(Phones),
                           responding : BOOLEAN, sent : 0 .. RESPONSE, acked : Nat]
           /\ slot[s].sock \in Socks \cup {None} /\ slot[s].owner \in Phones \cup {None} /\ slot[s].of \in Seq(Phones)
           /\ slot[s].sent \in 0 .. RESPONSE /\ slot[s].acked \in Nat /\ slot[s].responding \in BOOLEAN
BY DEF Types

\* A connection of the kiosk, its number and its phone.
LEMMA LiveSlot ==
    ASSUME Types, Tenants, NEW s \in Slots, Live(s)
    PROVE  slot[s].sock \in Socks /\ slot[s].owner \in Phones /\ s \in Holder(slot[s].sock)
BY DEF Types, Tenants, Live, Holder

LEMMA Held ==
    ASSUME Types, Tenants, NEW i \in Socks, NEW s \in Holder(i)
    PROVE  s \in Slots /\ Live(s) /\ slot[s].sock = i /\ slot[s].owner \in Phones /\ Owners(slot, i) = {slot[s].owner} /\ Holder(i) = {s}
<1>1. s \in Slots /\ slot[s].sock = i /\ Live(s)
  BY Constants DEF Holder, Live
<1>2. \A t \in Holder(i) : t = s
  BY <1>1, Constants DEF Holder, Live, Tenants
<1>3. Holder(i) = {s}
  BY <1>2
<1> QED  BY <1>1, <1>3 DEF Owners, Tenants, Holder

\* The phone a frame to the kiosk is about is that of the connection of its number.
LEMMA OwnFrame ==
    ASSUME Types, Tenants, Order, toHost # <<>>, toHost[1].what \in {"read", "took", "gone"}, NEW s \in Holder(toHost[1].id)
    PROVE  s \in Slots /\ Live(s) /\ slot[s].sock = toHost[1].id /\ slot[s].owner = toHost[1].for /\ toHost[1].for \in Phones
           /\ toHost[1].id \in Socks
<1>1. 1 \in 1 .. Len(toHost) /\ toHost[1].id \in Socks /\ toHost[1].for \in Phones
  <2>1. 1 \in 1 .. Len(toHost)
    BY HostTyped
  <2> QED  BY <2>1, HostTyped
<1>2. Heard(toHost, toHost[1].id, toHost[1].for, 0, Owners(slot, toHost[1].id))
  BY <1>1 DEF Order
<1>3. Owners(slot, toHost[1].id) \subseteq {toHost[1].for}
  BY <1>2 DEF Heard
<1>4. /\ s \in Slots /\ Live(s) /\ slot[s].sock = toHost[1].id
      /\ Owners(slot, toHost[1].id) = {slot[s].owner}
  BY <1>1, Held
<1> QED  BY <1>1, <1>3, <1>4

\* A phone with a connection of the kiosk, or about to have one, is not known to have gone.
LEMMA NotTold ==
    ASSUME Types, NEW i \in Socks, NEW p \in Phones, NEW j \in 0 .. Len(toHost), Ends(toHost, i, p, j, sock[i].fd)
    PROVE  ~Told(i, p)
<1>1. CASE sock[i].fd = p
  BY <1>1 DEF Told
<1>2. CASE \E k \in j + 1 .. Len(toHost) : Ended(toHost[k], i, p)
  <2>1. PICK k \in j + 1 .. Len(toHost) : Ended(toHost[k], i, p)
    BY <1>2
  <2>2. k \in 1 .. Len(toHost) /\ k \in DOMAIN toHost
    BY HostTyped
  <2>3. toHost[k].what = "hello" \/ toHost[k] = Frame("gone", i, p, 0, {})
    <3>1. CASE toHost[k].what = "gone" /\ toHost[k].id = i /\ toHost[k].for = p
      BY <2>2, <3>1, HostTyped DEF HostFrames, Frame
    <3> QED  BY <2>1, <3>1 DEF Ended
  <2> QED  BY <2>2, <2>3 DEF Told
<1> QED  BY <1>1, <1>2 DEF Ends

-----------------------------------------------------------------------------
(* Connections that end or stay, on either side. *)

SlotsShrink ==
    \A s \in Slots : \/ slot'[s].sock = slot[s].sock /\ slot'[s].owner = slot[s].owner
                     \/ slot'[s].sock = None /\ slot'[s].owner = None

SocksShrink == \A i \in Socks : sock'[i].fd = sock[i].fd \/ sock'[i].fd = None

LEMMA TenantsStay ==
    ASSUME Tenants, SlotsShrink, SocksShrink
    PROVE  Tenants'
<1>1. \A s \in Slots : Live(s)' <=> slot'[s].owner \in Phones
  BY Constants DEF Tenants, SlotsShrink, Live
<1>2. \A s, t \in Slots : Live(s)' /\ Live(t)' /\ s # t => slot'[s].sock # slot'[t].sock /\ slot'[s].owner # slot'[t].owner
  BY DEF Tenants, SlotsShrink, Live
<1>3. \A i, j \in Socks : i # j /\ sock'[i].fd # None => sock'[i].fd # sock'[j].fd
  BY DEF Tenants, SocksShrink
<1> QED  BY <1>1, <1>2, <1>3 DEF Tenants

LEMMA OwnersShrink ==
    ASSUME SlotsShrink, NEW i \in Socks
    PROVE  Owners(slot', i) \subseteq Owners(slot, i)
<1>1. \A s \in Holder(i)' : s \in Holder(i) /\ slot'[s].owner = slot[s].owner
  BY Constants DEF SlotsShrink, Holder
<1> QED  BY <1>1 DEF Owners, Holder

\* A socket that is dropped without an M_SOCK_CLOSE is one the kiosk has given up.
LEMMA OrderStays ==
    ASSUME Types, Tenants, Order, toHost' = toHost, SlotsShrink,
           \A i \in Socks : \/ sock'[i].fd = sock[i].fd
                            \/ /\ sock'[i].fd = None
                               /\ \A s \in Slots : slot[s].owner # sock[i].fd
                               /\ \A j \in 1 .. Len(toHost) : toHost[j].what = "open" => toHost[j].for # sock[i].fd
    PROVE  Order'
<1>1. ASSUME NEW i \in Socks PROVE Owners(slot', i) \subseteq Owners(slot, i)
  BY OwnersShrink
<1>2. ASSUME NEW i \in Socks, NEW p, NEW n \in Nat, Heard(toHost, i, p, n, Owners(slot, i))
      PROVE  Heard(toHost', i, p, n, Owners(slot', i))
  BY <1>1, <1>2, HeardAgain
<1>3. ASSUME NEW j \in 1 .. Len(toHost'), toHost'[j].what \in {"read", "took", "gone"}
      PROVE  Heard(toHost', toHost'[j].id, toHost'[j].for, j - 1, Owners(slot', toHost'[j].id))
  <2>1. j \in 1 .. Len(toHost) /\ j - 1 \in Nat /\ toHost[j].id \in Socks
    BY <1>3, HostTyped
  <2> QED  BY <1>2, <1>3, <2>1 DEF Order
<1>4. ASSUME NEW i \in Socks, sock'[i].fd # None
      PROVE  Heard(toHost', i, sock'[i].fd, Len(toHost'), Owners(slot', i))
  BY <1>2, <1>4, HostTyped DEF Order
<1>5. ASSUME NEW j \in 1 .. Len(toHost'), toHost'[j].what = "open"
      PROVE  Ends(toHost', toHost'[j].id, toHost'[j].for, j, sock'[toHost'[j].id].fd)
  <2>1. j \in 1 .. Len(toHost) /\ toHost[j].id \in Socks
    BY <1>5, HostTyped
  <2>2. Ends(toHost, toHost[j].id, toHost[j].for, j, sock[toHost[j].id].fd)
    BY <1>5, <2>1 DEF Order
  <2>3. sock[toHost[j].id].fd = toHost[j].for => sock'[toHost[j].id].fd = toHost[j].for
    BY <1>5, <2>1
  <2> QED  BY <2>2, <2>3 DEF Ends
<1>6. ASSUME NEW s \in Slots, Live(s)'
      PROVE  Ends(toHost', slot'[s].sock, slot'[s].owner, 0, sock'[slot'[s].sock].fd)
  <2>1. slot'[s].sock = slot[s].sock /\ slot'[s].owner = slot[s].owner /\ Live(s)
    BY <1>6 DEF SlotsShrink, Live
  <2>2. slot[s].sock \in Socks
    BY <2>1, LiveSlot
  <2>3. Ends(toHost, slot[s].sock, slot[s].owner, 0, sock[slot[s].sock].fd)
    BY <2>1 DEF Order
  <2>4. sock[slot[s].sock].fd = slot[s].owner => sock'[slot[s].sock].fd = slot[s].owner
    BY <2>2
  <2> QED  BY <2>1, <2>3, <2>4 DEF Ends
<1> QED  BY <1>3, <1>4, <1>5, <1>6 DEF Order

\* The kiosk takes a frame.
LEMMA OrderTaken ==
    ASSUME Types, Tenants, Order, toHost # <<>>, toHost' = Tail(toHost), sock' = sock,
           \A i \in Socks : ~Voids(toHost[1], i) => Owners(slot', i) \subseteq Owners(slot, i),
           toHost[1].what = "open" => Owners(slot', toHost[1].id) \subseteq {toHost[1].for},
           \A s \in Slots : Live(s)' => Ends(toHost', slot'[s].sock, slot'[s].owner, 0, sock[slot'[s].sock].fd)
    PROVE  Order'
<1>1. /\ Shifted(toHost, toHost') /\ Len(toHost) \in Nat \ {0} /\ Len(toHost') \in Nat /\ Len(toHost') = Len(toHost) - 1
      /\ \A j \in 1 .. Len(toHost') : j + 1 \in 1 .. Len(toHost) /\ toHost'[j] = toHost[j + 1]
  <2>1. Shifted(toHost, toHost') /\ Len(toHost) \in Nat \ {0} /\ Len(toHost') \in Nat
    BY HostTyped, TailShifts
  <2> QED  BY <2>1 DEF Shifted
<1>2. ASSUME NEW i \in Socks, NEW p, NEW n \in Nat, n <= Len(toHost'), Heard(toHost, i, p, n + 1, Owners(slot, i))
      PROVE  Heard(toHost', i, p, n, Owners(slot', i))
  <2>1. IsOpen(toHost[1], i) /\ toHost[1].for = p => Owners(slot', i) \subseteq {p}
    BY DEF IsOpen
  <2>2. ~Voids(toHost[1], i) /\ Owners(slot, i) \subseteq {p} => Owners(slot', i) \subseteq {p}
    OBVIOUS
  <2> QED  BY <1>1, <1>2, <2>1, <2>2, HeardShifts
<1>3. ASSUME NEW j \in 1 .. Len(toHost'), toHost'[j].what \in {"read", "took", "gone"}
      PROVE  Heard(toHost', toHost'[j].id, toHost'[j].for, j - 1, Owners(slot', toHost'[j].id))
  <2>1. /\ j + 1 \in 1 .. Len(toHost) /\ j - 1 \in Nat /\ j - 1 <= Len(toHost') /\ (j - 1) + 1 = (j + 1) - 1
        /\ toHost'[j] = toHost[j + 1] /\ toHost[j + 1].id \in Socks
    BY <1>1, <1>3, HostTyped
  <2>2. Heard(toHost, toHost[j + 1].id, toHost[j + 1].for, (j + 1) - 1, Owners(slot, toHost[j + 1].id))
    BY <1>3, <2>1 DEF Order
  <2> QED  BY <1>2, <2>1, <2>2
<1>4. ASSUME NEW i \in Socks, sock'[i].fd # None
      PROVE  Heard(toHost', i, sock'[i].fd, Len(toHost'), Owners(slot', i))
  <2>1. Heard(toHost, i, sock[i].fd, Len(toHost), Owners(slot, i)) /\ Len(toHost) = Len(toHost') + 1
    BY <1>1, <1>4 DEF Order
  <2> QED  BY <1>1, <1>2, <2>1
<1>5. ASSUME NEW j \in 1 .. Len(toHost'), toHost'[j].what = "open"
      PROVE  Ends(toHost', toHost'[j].id, toHost'[j].for, j, sock'[toHost'[j].id].fd)
  <2>1. j + 1 \in 1 .. Len(toHost) /\ toHost'[j] = toHost[j + 1]
    BY <1>1
  <2>2. Ends(toHost, toHost[j + 1].id, toHost[j + 1].for, j + 1, sock[toHost[j + 1].id].fd)
    BY <1>5, <2>1 DEF Order
  <2> QED  BY <1>1, <2>1, <2>2, EndsShifts
<1> QED  BY <1>3, <1>4, <1>5 DEF Order

\* It opens no connection, and ends at least those the frame is about the end of.
LEMMA OrderTakenShrink ==
    ASSUME Types, Tenants, Order, toHost # <<>>, toHost' = Tail(toHost), sock' = sock, SlotsShrink,
           toHost[1].what = "open" => Holder(toHost[1].id) = {},
           \A s \in Slots : Live(s)' => ~Ended(toHost[1], slot[s].sock, slot[s].owner)
    PROVE  Order'
<1>1. \A i \in Socks : Owners(slot', i) \subseteq Owners(slot, i)
  BY OwnersShrink
<1>2. toHost[1].what = "open" => Owners(slot', toHost[1].id) \subseteq {toHost[1].for}
  <2> SUFFICES ASSUME toHost[1].what = "open" PROVE Owners(slot', toHost[1].id) = {}
    OBVIOUS
  <2>1. 1 \in 1 .. Len(toHost)
    BY HostTyped
  <2>2. toHost[1].id \in Socks
    BY <2>1, HostTyped
  <2>3. Owners(slot, toHost[1].id) = {}
    BY DEF Owners, Holder
  <2> QED  BY <1>1, <2>2, <2>3
<1>3. ASSUME NEW s \in Slots, Live(s)'
      PROVE  Ends(toHost', slot'[s].sock, slot'[s].owner, 0, sock[slot'[s].sock].fd)
  <2>1. slot'[s].sock = slot[s].sock /\ slot'[s].owner = slot[s].owner /\ Live(s)
    BY <1>3 DEF SlotsShrink, Live
  <2>2. Ends(toHost, slot[s].sock, slot[s].owner, 0, sock[slot[s].sock].fd)
    BY <2>1 DEF Order
  <2>3. Shifted(toHost, toHost') /\ Len(toHost') \in Nat
    BY HostTyped, TailShifts
  <2> QED  BY <1>3, <2>1, <2>2, <2>3, EndsTaken
<1> QED  BY <1>1, <1>2, <1>3, OrderTaken

\* The modem sends a frame about number i, which is or was or becomes p's.
LEMMA OrderSent ==
    ASSUME Types, Tenants, Order, slot' = slot, NEW i \in Socks, NEW p \in Phones, NEW f, f \in HostFrames,
           Extended(toHost, toHost', f), f.id = i, f.for = p, \A k \in Socks : k # i => sock'[k].fd = sock[k].fd,
           \/ f.what \in {"read", "took"} /\ sock[i].fd = p /\ sock'[i].fd = p
           \/ f.what = "gone" /\ sock[i].fd = p /\ sock'[i].fd = None
           \/ f.what = "open" /\ sock[i].fd = None /\ sock'[i].fd = p
    PROVE  Order'
<1>1. /\ Extended(toHost, toHost', f) /\ Len(toHost) \in Nat /\ Len(toHost') = Len(toHost) + 1
      /\ toHost'[Len(toHost')] = f
      /\ \A j \in 1 .. Len(toHost) : toHost'[j] = toHost[j]
      /\ \A j \in 1 .. Len(toHost') : j \in 1 .. Len(toHost) \/ j = Len(toHost')
  BY HostTyped DEF Extended
<1>2. \A k : Owners(slot', k) = Owners(slot, k)
  BY DEF Owners, Holder
<1>3. \A k : k # i => ~Voids(f, k) /\ ~IsOpen(f, k)
  BY DEF Voids, IsOpen
<1>9. ASSUME NEW k, NEW q, NEW n \in 0 .. Len(toHost), Heard(toHost, k, q, n, Owners(slot, k))
      PROVE  Heard(toHost', k, q, n, Owners(slot', k))
  <2>1. \A l \in 1 .. n : toHost'[l] = toHost[l]
    BY <1>1
  <2> QED  BY <1>2, <1>9, <2>1, HeardAgain
<1>4. ASSUME NEW j \in 1 .. Len(toHost'), toHost'[j].what \in {"read", "took", "gone"}
      PROVE  Heard(toHost', toHost'[j].id, toHost'[j].for, j - 1, Owners(slot', toHost'[j].id))
  <2>1. CASE j \in 1 .. Len(toHost)
    <3>1. /\ toHost'[j] = toHost[j] /\ j - 1 \in Nat
          /\ Heard(toHost, toHost[j].id, toHost[j].for, j - 1, Owners(slot, toHost[j].id))
      BY <1>1, <1>4, <2>1 DEF Order
    <3>2. j - 1 \in 0 .. Len(toHost)
      BY <1>1, <2>1
    <3> QED  BY <1>9, <3>1, <3>2
  <2>2. CASE j = Len(toHost')
    <3>1. sock[i].fd = p /\ p # None /\ toHost'[j] = f
      BY <1>1, <1>4, <2>2, Constants
    <3>2. Heard(toHost, i, p, Len(toHost), Owners(slot, i)) /\ j - 1 = Len(toHost)
      BY <1>1, <2>2, <3>1 DEF Order
    <3>3. Heard(toHost', i, p, j - 1, Owners(slot', i))
      BY <1>9, <3>2
    <3> QED  BY <3>1, <3>3
  <2> QED  BY <1>1, <2>1, <2>2
<1>5. ASSUME NEW k \in Socks, sock'[k].fd # None
      PROVE  Heard(toHost', k, sock'[k].fd, Len(toHost'), Owners(slot', k))
  <2>1. CASE k # i
    <3>1. sock'[k].fd = sock[k].fd /\ Heard(toHost, k, sock[k].fd, Len(toHost), Owners(slot, k))
      BY <1>5, <2>1 DEF Order
    <3> QED  BY <1>1, <1>2, <1>3, <2>1, <3>1, HeardExtends
  <2>2. CASE k = i /\ f.what = "open"
    <3>1. sock'[k].fd = p /\ IsOpen(f, k)
      BY <2>2 DEF IsOpen
    <3> QED  BY <1>1, <3>1, HeardExtends
  <2>3. CASE k = i /\ f.what \in {"read", "took"}
    <3>1. sock[k].fd = p /\ sock'[k].fd = p /\ p # None /\ ~Voids(f, k)
      BY <2>3, Constants DEF Voids, IsOpen
    <3>2. Heard(toHost, k, p, Len(toHost), Owners(slot, k))
      BY <3>1 DEF Order
    <3> QED  BY <1>1, <1>2, <3>1, <3>2, HeardExtends
  <2> QED  BY <1>5, <2>1, <2>2, <2>3
<1>6. ASSUME NEW k \in Socks, NEW q \in Phones, NEW j \in Nat, j <= Len(toHost), Ends(toHost, k, q, j, sock[k].fd)
      PROVE  Ends(toHost', k, q, j, sock'[k].fd)
  <2>1. sock[k].fd = q => Ended(f, k, q) \/ (sock'[k].fd = q /\ ~Voids(f, k))
    <3> SUFFICES ASSUME sock[k].fd = q PROVE Ended(f, k, q) \/ (sock'[k].fd = q /\ ~Voids(f, k))
      OBVIOUS
    <3>1. CASE k # i
      BY <1>3, <3>1
    <3>2. CASE k = i
      BY <3>2, Constants DEF Ended, Voids, IsOpen
    <3> QED  BY <3>1, <3>2
  <2> QED  BY <1>1, <1>6, <2>1, EndsExtends
<1>7. ASSUME NEW j \in 1 .. Len(toHost'), toHost'[j].what = "open"
      PROVE  Ends(toHost', toHost'[j].id, toHost'[j].for, j, sock'[toHost'[j].id].fd)
  <2>1. CASE j \in 1 .. Len(toHost)
    <3>1. toHost'[j] = toHost[j] /\ j \in Nat /\ j <= Len(toHost) /\ toHost[j].id \in Socks /\ toHost[j].for \in Phones
      BY <1>1, <1>7, <2>1, HostTyped
    <3> QED  BY <1>6, <1>7, <2>1, <3>1 DEF Order
  <2>2. CASE j = Len(toHost')
    <3>1. toHost'[j] = f /\ sock'[i].fd = p
      BY <1>1, <1>7, <2>2
    <3>2. \A k \in j + 1 .. Len(toHost') : FALSE
      BY <1>1, <2>2
    <3> QED  BY <3>1, <3>2 DEF Ends
  <2> QED  BY <1>1, <2>1, <2>2
<1>8. ASSUME NEW s \in Slots, Live(s)'
      PROVE  Ends(toHost', slot'[s].sock, slot'[s].owner, 0, sock'[slot'[s].sock].fd)
  <2>1. Live(s) /\ slot'[s] = slot[s]
    BY <1>8 DEF Live
  <2>2. slot[s].sock \in Socks /\ slot[s].owner \in Phones
    BY <2>1, LiveSlot
  <2>3. Ends(toHost, slot[s].sock, slot[s].owner, 0, sock[slot[s].sock].fd) /\ 0 <= Len(toHost)
    BY <1>1, <2>1 DEF Order
  <2> QED  BY <1>6, <2>1, <2>2, <2>3
<1> QED  BY <1>4, <1>5, <1>7, <1>8 DEF Order

LEMMA OrderRestarted ==
    ASSUME Types, Tenants, Order, slot' = slot, NEW n \in 0 .. Len(toHost), Cut(toHost, toHost', n),
           \A i \in Socks : sock'[i].fd = None
    PROVE  Order'
<1>1. /\ Len(toHost) \in Nat /\ Len(toHost') = n + 1 /\ toHost'[n + 1] = Hello /\ Hello.what = "hello"
      /\ \A j \in 1 .. n : toHost'[j] = toHost[j] /\ j \in 1 .. Len(toHost)
      /\ \A j \in 1 .. Len(toHost') : j \in 1 .. n \/ j = n + 1
  BY HostTyped DEF Cut, Hello, Frame
<1>2. \A k : Owners(slot', k) = Owners(slot, k)
  BY DEF Owners, Holder
<1>3. ASSUME NEW j \in 1 .. Len(toHost'), toHost'[j].what \in {"read", "took", "gone"}
      PROVE  Heard(toHost', toHost'[j].id, toHost'[j].for, j - 1, Owners(slot', toHost'[j].id))
  <2>1. j \in 1 .. n
    BY <1>1, <1>3
  <2>2. /\ toHost'[j] = toHost[j] /\ j - 1 \in Nat /\ \A l \in 1 .. j - 1 : toHost'[l] = toHost[l]
    BY <1>1, <2>1
  <2>3. Heard(toHost, toHost[j].id, toHost[j].for, j - 1, Owners(slot, toHost[j].id))
    BY <1>1, <1>3, <2>1, <2>2 DEF Order
  <2> QED  BY <1>2, <2>2, <2>3, HeardAgain
<1>4. ASSUME NEW j \in 1 .. Len(toHost'), toHost'[j].what = "open"
      PROVE  Ends(toHost', toHost'[j].id, toHost'[j].for, j, sock'[toHost'[j].id].fd)
  <2>1. j \in 1 .. n
    BY <1>1, <1>4
  <2>2. toHost'[j] = toHost[j] /\ j \in 1 .. Len(toHost) /\ j \in Nat /\ j <= n
    BY <1>1, <2>1
  <2>3. Ends(toHost, toHost[j].id, toHost[j].for, j, sock[toHost[j].id].fd)
    BY <1>4, <2>2 DEF Order
  <2> QED  BY <1>1, <2>2, <2>3, EndsCut
<1>5. ASSUME NEW s \in Slots, Live(s)'
      PROVE  Ends(toHost', slot'[s].sock, slot'[s].owner, 0, sock'[slot'[s].sock].fd)
  <2>1. Live(s) /\ slot'[s] = slot[s]
    BY <1>5 DEF Live
  <2>2. Ends(toHost, slot[s].sock, slot[s].owner, 0, sock[slot[s].sock].fd) /\ 0 <= n
    BY <1>1, <2>1 DEF Order
  <2> QED  BY <1>1, <2>1, <2>2, EndsCut
<1> QED  BY <1>3, <1>4, <1>5 DEF Order

-----------------------------------------------------------------------------
(* What a queue becomes: it loses its first frame (d = 1) or none, and gets only frames of F. *)

Moved(q, z, d, F) ==
    /\ d \in {0, 1}
    /\ \A j \in 1 .. Len(z) : (j + d \in 1 .. Len(q) /\ z[j] = q[j + d]) \/ z[j] \in F

LEMMA NotMoved ==
    ASSUME NEW q, Len(q) \in Nat
    PROVE  Moved(q, q, 0, {})
<1>1. \A j \in 1 .. Len(q) : j + 0 = j
  OBVIOUS
<1> QED  BY <1>1 DEF Moved

LEMMA ShiftedMoved ==
    ASSUME NEW q, NEW z, Len(z) \in Nat, Shifted(q, z)
    PROVE  Moved(q, z, 1, {})
BY DEF Moved, Shifted

LEMMA ExtendedMoved ==
    ASSUME NEW q, NEW z, NEW f, Len(q) \in Nat, Extended(q, z, f)
    PROVE  Moved(q, z, 0, {f})
<1>1. \A j \in 1 .. Len(z) : (j \in 1 .. Len(q) \/ j = Len(z)) /\ j + 0 = j
  BY DEF Extended
<1> QED  BY <1>1 DEF Moved, Extended

LEMMA CutMoved ==
    ASSUME NEW q, NEW z, NEW n, Len(q) \in Nat, Cut(q, z, n)
    PROVE  Moved(q, z, 0, {Hello})
<1>1. \A j \in 1 .. Len(z) : (j \in 1 .. n \/ j = n + 1) /\ j + 0 = j
  BY DEF Cut
<1>2. \A j \in 1 .. n : j \in 1 .. Len(q)
  BY DEF Cut
<1> QED  BY <1>1, <1>2 DEF Moved, Cut

\* The kiosk's ring takes a frame, or is full.
LEMMA PutMoves ==
    ASSUME Types, NEW f \in ModemFrames, toModem' = Put(toModem, f)
    PROVE  toModem' \in Seq(ModemFrames) /\ Len(toModem') <= TX_RING /\ Moved(toModem, toModem', 0, {f})
<1>1. toModem \in Seq(ModemFrames) /\ Len(toModem) \in Nat /\ Len(toModem) <= TX_RING
  BY ModemTyped DEF Types
<1>2. CASE Len(toModem) < TX_RING
  <2>1. toModem' = Append(toModem, f)
    BY <1>2 DEF Put
  <2>2. toModem' \in Seq(ModemFrames) /\ Extended(toModem, toModem', f)
    BY <1>1, <2>1, AppendExtends
  <2>3. Len(toModem') <= TX_RING
    BY <1>1, <1>2, <2>2, Constants DEF Extended
  <2> QED  BY <1>1, <2>2, <2>3, ExtendedMoved
<1>3. CASE ~(Len(toModem) < TX_RING)
  <2>1. toModem' = toModem
    BY <1>3 DEF Put
  <2>2. Moved(toModem, toModem', 0, {})
    BY <1>1, <2>1, NotMoved
  <2> QED  BY <1>1, <2>1, <2>2 DEF Moved
<1> QED  BY <1>2, <1>3

\* The kiosk takes a frame.
LEMMA TakenMoves ==
    ASSUME Types, toHost # <<>>, toHost' = Tail(toHost)
    PROVE  /\ toHost' \in Seq(HostFrames) /\ Shifted(toHost, toHost') /\ Len(toHost') \in Nat /\ Moved(toHost, toHost', 1, {})
           /\ Head(toHost) = toHost[1] /\ 1 \in 1 .. Len(toHost)
<1>1. toHost' \in Seq(HostFrames) /\ Shifted(toHost, toHost') /\ Len(toHost') \in Nat /\ Head(toHost) = toHost[1] /\ Len(toHost) \in Nat \ {0}
  BY HostTyped, TailShifts
<1> QED  BY <1>1, ShiftedMoved

\* The modem takes a frame.
LEMMA ModemTakenMoves ==
    ASSUME Types, toModem # <<>>, toModem' = Tail(toModem)
    PROVE  /\ toModem' \in Seq(ModemFrames) /\ Shifted(toModem, toModem') /\ Len(toModem') \in Nat /\ Moved(toModem, toModem', 1, {})
           /\ Head(toModem) = toModem[1] /\ 1 \in 1 .. Len(toModem) /\ Len(toModem') <= TX_RING
<1>1. /\ toModem' \in Seq(ModemFrames) /\ Shifted(toModem, toModem') /\ Len(toModem') \in Nat /\ Head(toModem) = toModem[1]
      /\ Len(toModem) \in Nat \ {0}
  BY ModemTyped, TailShifts
<1>2. Len(toModem') <= TX_RING
  BY <1>1, Constants DEF Types, Shifted
<1> QED  BY <1>1, <1>2, ShiftedMoved

\* The modem sends a frame.
LEMMA SentMoves ==
    ASSUME Types, NEW f \in HostFrames, toHost' = Append(toHost, f)
    PROVE  toHost' \in Seq(HostFrames) /\ Extended(toHost, toHost', f) /\ Moved(toHost, toHost', 0, {f}) /\ Len(toHost') \in Nat
<1>1. toHost' \in Seq(HostFrames) /\ Extended(toHost, toHost', f) /\ Len(toHost) \in Nat
  BY HostTyped, AppendExtends
<1>2. Len(toHost') \in Nat
  BY <1>1 DEF Extended
<1> QED  BY <1>1, <1>2, ExtendedMoved

-----------------------------------------------------------------------------
(* The rest of the invariant, where a step does not disturb it. *)

LEMMA ComingStays ==
    ASSUME Types, Tenants, Coming, SlotsShrink, SocksShrink, NEW d, NEW F, Moved(toHost, toHost', d, F),
           \A p \in Phones : phone[p].came => phone'[p].came,
           \A f \in F : f.what # "open" /\ (f.what # "hello" => f.for \in Phones /\ phone'[f.for].came)
    PROVE  Coming'
<1>1. \A i \in Socks : sock'[i].fd # None => phone'[sock'[i].fd].came
  BY SockTyped DEF Coming, SocksShrink
<1>2. \A s \in Slots : Live(s)' => phone'[slot'[s].owner].came
  <2> SUFFICES ASSUME NEW s \in Slots, Live(s)' PROVE phone'[slot'[s].owner].came
    OBVIOUS
  <2>1. Live(s) /\ slot'[s].owner = slot[s].owner
    BY DEF SlotsShrink, Live
  <2>2. slot[s].owner \in Phones
    BY <2>1, LiveSlot
  <2> QED  BY <2>1, <2>2 DEF Coming
<1>3. \A j \in 1 .. Len(toHost') : toHost'[j].what # "hello" => phone'[toHost'[j].for].came
  BY HostTyped DEF Moved, Coming
<1>4. \A j \in 1 .. Len(toHost') : toHost'[j].what = "open" => j + d \in 1 .. Len(toHost) /\ toHost'[j] = toHost[j + d]
  BY DEF Moved
<1>5. ASSUME NEW j \in 1 .. Len(toHost'), NEW k \in 1 .. Len(toHost'), j # k, toHost'[j].what = "open", toHost'[k].what = "open"
      PROVE  toHost'[j].for # toHost'[k].for
  <2>1. j + d # k + d
    BY <1>5 DEF Moved
  <2> QED  BY <1>4, <1>5, <2>1 DEF Coming
<1>6. ASSUME NEW j \in 1 .. Len(toHost'), toHost'[j].what = "open", NEW s \in Slots
      PROVE  slot'[s].owner # toHost'[j].for
  <2>1. toHost'[j].for \in Phones /\ slot[s].owner # toHost'[j].for
    BY <1>4, <1>6, HostTyped DEF Coming
  <2> QED  BY <2>1, Constants DEF SlotsShrink
<1> QED  BY <1>1, <1>2, <1>3, <1>5, <1>6 DEF Coming

LEMMA AskingBefore ==
    ASSUME NEW p \in Phones, Asking(p)', NEW d, NEW F, Moved(toHost, toHost', d, F), \A f \in F : f.what # "open",
           phone[p].came => phone'[p].came,
           \A s \in Slots : Live(s)' /\ ~slot'[s].responding => Live(s) /\ ~slot[s].responding /\ slot'[s].owner = slot[s].owner
    PROVE  Asking(p)
<1>1. CASE ~phone'[p].came
  BY <1>1 DEF Asking
<1>2. CASE \E j \in 1 .. Len(toHost') : toHost'[j].what = "open" /\ toHost'[j].for = p
  BY <1>2 DEF Asking, Moved
<1>3. CASE \E s \in Slots : Live(s)' /\ slot'[s].owner = p /\ ~slot'[s].responding
  BY <1>3 DEF Asking
<1> QED  BY <1>1, <1>2, <1>3 DEF Asking

LEMMA QuietStays ==
    ASSUME NEW p \in Phones, Quiet(p), phone'[p].got = phone[p].got,
           \A i \in Socks : sock'[i].fd = p => (sock[i].fd = p /\ sock'[i].out = sock[i].out) \/ sock'[i].out = <<>>,
           NEW d, NEW F, Moved(toHost, toHost', d, F), \A f \in F : f.for = p => f.what # "took",
           NEW e, NEW G, Moved(toModem, toModem', e, G), \A f \in G : f.for # p
    PROVE  Quiet(p)'
<1>1. \A j \in 1 .. Len(toModem') : toModem'[j].for # p
  BY DEF Moved, Quiet
<1>2. \A j \in 1 .. Len(toHost') : toHost'[j].for = p => toHost'[j].what # "took"
  BY DEF Moved, Quiet
<1>3. \A i \in Socks : sock'[i].fd = p => sock'[i].out = <<>>
  BY DEF Quiet
<1> QED  BY <1>1, <1>2, <1>3 DEF Quiet

\* A phone whose connection is answered or ends has asked.
LEMMA Asked ==
    ASSUME Types, Tenants, Coming, NEW s \in Slots, Live(s), \A t \in Slots : t # s => slot'[t] = slot[t],
           slot'[s].owner # slot[s].owner \/ slot'[s].responding,
           NEW d, NEW F, Moved(toHost, toHost', d, F), \A f \in F : f.what # "open",
           phone[slot[s].owner].came => phone'[slot[s].owner].came
    PROVE  \A p \in Phones : p = slot[s].owner => ~Asking(p)'
<1> SUFFICES ASSUME NEW p \in Phones, p = slot[s].owner PROVE ~Asking(p)'
  OBVIOUS
<1>1. phone'[p].came
  BY DEF Coming
<1>2. ~\E j \in 1 .. Len(toHost') : toHost'[j].what = "open" /\ toHost'[j].for = p
  BY DEF Moved, Coming
<1>3. \A t \in Slots : ~(Live(t)' /\ slot'[t].owner = p /\ ~slot'[t].responding)
  BY DEF Tenants, Live
<1> QED  BY <1>1, <1>2, <1>3 DEF Asking

LEMMA InOrderStays ==
    ASSUME InOrder, Types, \A p \in Phones : phone'[p].got = phone[p].got,
           \A i \in Socks : \/ sock'[i].fd = sock[i].fd /\ sock'[i].out = sock[i].out /\ sock'[i].head = sock[i].head
                            \/ sock'[i].out = <<>> /\ sock'[i].head = 0,
           \A i \in Socks : sock'[i].fd \in Phones \cup {None},
           \A s \in Slots : Live(s)' /\ slot'[s].responding =>
              Live(s) /\ slot[s].responding /\ slot'[s].owner = slot[s].owner /\ slot'[s].sent = slot[s].sent,
           Tenants, NEW e, NEW G, Moved(toModem, toModem', e, G), \A f \in G : f.what # "data"
    PROVE  InOrder'
<1>1. \A p \in Phones : GotInOrder(p)'
  BY DEF InOrder, GotInOrder
<1>2. ASSUME NEW i \in Socks PROVE OutInOrder(i)'
  <2>1. OutInOrder(i)
    BY DEF InOrder
  <2>2. CASE sock'[i].out = <<>> /\ sock'[i].head = 0
    BY <2>2 DEF OutInOrder
  <2>3. CASE sock'[i].fd = sock[i].fd /\ sock'[i].out = sock[i].out /\ sock'[i].head = sock[i].head
    <3>1. sock[i].fd # None => phone'[sock[i].fd].got = phone[sock[i].fd].got
      BY SockTyped
    <3> QED  BY <2>1, <2>3, <3>1 DEF OutInOrder
  <2> QED  BY <2>2, <2>3
<1>3. ASSUME NEW j \in 1 .. Len(toModem'), toModem'[j].what = "data"
      PROVE  j + e \in 1 .. Len(toModem) /\ toModem'[j] = toModem[j + e] /\ toModem'[j].for \in Phones
  BY <1>3, ModemTyped DEF Moved
<1>4. FramesInOrder'
  <2> SUFFICES ASSUME NEW j \in 1 .. Len(toModem'), toModem'[j].what = "data", NEW p \in Phones, toModem'[j].for = p
               PROVE  /\ \A a \in 1 .. Len(phone'[p].got) : phone'[p].got[a].k < toModem'[j].n
                      /\ \A i \in Socks : sock'[i].fd = p => \A b \in 1 .. Len(sock'[i].out) : sock'[i].out[b].k < toModem'[j].n
                      /\ \A l \in 1 .. Len(toModem') : j < l /\ toModem'[l].what = "data" /\ toModem'[l].for = p => toModem'[j].n < toModem'[l].n
    BY <1>3 DEF FramesInOrder
  <2>1. /\ j + e \in 1 .. Len(toModem) /\ toModem'[j] = toModem[j + e]
        /\ \A a \in 1 .. Len(phone[p].got) : phone[p].got[a].k < toModem[j + e].n
        /\ \A i \in Socks : sock[i].fd = p => \A b \in 1 .. Len(sock[i].out) : sock[i].out[b].k < toModem[j + e].n
        /\ \A l \in 1 .. Len(toModem) : j + e < l /\ toModem[l].what = "data" /\ toModem[l].for = p => toModem[j + e].n < toModem[l].n
    BY <1>3 DEF InOrder, FramesInOrder
  <2>2. \A l \in 1 .. Len(toModem') : j < l => j + e < l + e
    BY DEF Moved
  <2>3. \A l \in 1 .. Len(toModem') : j < l /\ toModem'[l].what = "data" /\ toModem'[l].for = p => toModem'[j].n < toModem'[l].n
    BY <1>3, <2>1, <2>2
  <2>4. ASSUME NEW i \in Socks, sock'[i].fd = p, NEW b \in 1 .. Len(sock'[i].out) PROVE sock'[i].out[b].k < toModem'[j].n
    BY <2>1, <2>4
  <2> QED  BY <2>1, <2>3, <2>4
<1>5. ASSUME NEW s \in Slots, Live(s)', slot'[s].responding
      PROVE  UpTo(slot[s].owner, slot[s].sent)' /\ slot'[s].owner = slot[s].owner /\ slot'[s].sent = slot[s].sent
  <2>1. Live(s) /\ slot[s].responding /\ slot'[s].owner = slot[s].owner /\ slot'[s].sent = slot[s].sent
    BY <1>5
  <2>2. slot[s].owner \in Phones /\ UpTo(slot[s].owner, slot[s].sent)
    BY <2>1, LiveSlot DEF InOrder
  <2>3. \A i \in Socks : sock'[i].fd = slot[s].owner => \A a \in 1 .. Len(sock'[i].out) : sock'[i].out[a].k <= slot[s].sent
    BY <2>2 DEF UpTo
  <2> QED  BY <1>3, <2>1, <2>2, <2>3 DEF UpTo
<1> QED  BY <1>1, <1>2, <1>4, <1>5 DEF InOrder, UpTo

\* The kiosk sends more of the answer to p, of which nothing is beyond m.
Sends(p, m, q, z) ==
    \A j \in 1 .. Len(z) :
       \/ j \in 1 .. Len(q) /\ z[j] = q[j]
       \/ j \in Len(q) + 1 .. Len(z) /\ z[j].what = "data" /\ z[j].for = p /\ z[j].n = m + (j - Len(q))

LEMMA SendInOrder ==
    ASSUME Types, Tenants, UNCHANGED <<phone, sock>>, NEW s \in Slots, Live(s), NEW p \in Phones, p = slot[s].owner, NEW m \in Nat,
           \A r \in Phones : GotInOrder(r), \A i \in Socks : OutInOrder(i), FramesInOrder,
           \A t \in Slots \ {s} : Live(t) /\ slot[t].responding => UpTo(slot[t].owner, slot[t].sent),
           UpTo(p, m), Sends(p, m, toModem, toModem'), Len(toModem') \in Nat, Len(toModem') >= Len(toModem),
           \A t \in Slots \ {s} : slot'[t] = slot[t],
           slot'[s].owner = p, slot'[s].sent = m + (Len(toModem') - Len(toModem))
    PROVE  InOrder'
<1>0. Len(toModem) \in Nat /\ \A j \in 1 .. Len(toModem) : toModem[j].what = "data" => toModem[j].n \in 1 .. RESPONSE
  BY ModemTyped
<1>1. (\A r \in Phones : GotInOrder(r)') /\ (\A i \in Socks : OutInOrder(i)')
  <2>1. ASSUME NEW r \in Phones PROVE GotInOrder(r)'
    <3>1. GotInOrder(r) /\ phone' = phone
      OBVIOUS
    <3> QED  BY <3>1 DEF GotInOrder
  <2>2. ASSUME NEW i \in Socks PROVE OutInOrder(i)'
    <3>1. OutInOrder(i) /\ phone' = phone /\ sock' = sock
      OBVIOUS
    <3> QED  BY <3>1 DEF OutInOrder
  <2> QED  BY <2>1, <2>2
<1>2. ASSUME NEW j \in 1 .. Len(toModem')
      PROVE  \/ j \in 1 .. Len(toModem) /\ toModem'[j] = toModem[j]
             \/ j \in Len(toModem) + 1 .. Len(toModem') /\ toModem'[j].what = "data" /\ toModem'[j].for = p
                /\ toModem'[j].n = m + (j - Len(toModem))
  BY DEF Sends
<1>3. FramesInOrder'
  <2> SUFFICES ASSUME NEW j \in 1 .. Len(toModem'), toModem'[j].what = "data", NEW r, toModem'[j].for = r
               PROVE  /\ \A a \in 1 .. Len(phone[r].got) : phone[r].got[a].k < toModem'[j].n
                      /\ \A i \in Socks : sock[i].fd = r => \A b \in 1 .. Len(sock[i].out) : sock[i].out[b].k < toModem'[j].n
                      /\ \A l \in 1 .. Len(toModem') : j < l /\ toModem'[l].what = "data" /\ toModem'[l].for = r => toModem'[j].n < toModem'[l].n
    BY DEF FramesInOrder
  <2>1. CASE j \in 1 .. Len(toModem) /\ toModem'[j] = toModem[j]
    <3>1. /\ \A a \in 1 .. Len(phone[r].got) : phone[r].got[a].k < toModem[j].n
          /\ \A i \in Socks : sock[i].fd = r => \A b \in 1 .. Len(sock[i].out) : sock[i].out[b].k < toModem[j].n
          /\ \A l \in 1 .. Len(toModem) : j < l /\ toModem[l].what = "data" /\ toModem[l].for = r => toModem[j].n < toModem[l].n
      BY <2>1 DEF FramesInOrder
    <3>2. ASSUME NEW l \in 1 .. Len(toModem'), j < l, toModem'[l].what = "data", toModem'[l].for = r
          PROVE  toModem[j].n < toModem'[l].n
      <4>1. CASE l \in 1 .. Len(toModem) /\ toModem'[l] = toModem[l]
        BY <3>1, <3>2, <4>1
      <4>2. CASE l \in Len(toModem) + 1 .. Len(toModem') /\ toModem'[l].for = p /\ toModem'[l].n = m + (l - Len(toModem))
        <5>1. toModem[j].n <= m /\ toModem[j].n \in Nat
          BY <1>0, <2>1, <3>2, <4>2 DEF UpTo
        <5>2. toModem'[l].n > m /\ toModem'[l].n \in Int
          BY <1>0, <4>2
        <5> QED  BY <5>1, <5>2
      <4> QED  BY <1>2, <4>1, <4>2
    <3> QED  BY <2>1, <3>1, <3>2
  <2>2. CASE j \in Len(toModem) + 1 .. Len(toModem') /\ toModem'[j].for = p /\ toModem'[j].n = m + (j - Len(toModem))
    <3>1. r = p /\ toModem'[j].n > m /\ toModem'[j].n \in Int
      BY <1>0, <2>2
    <3>2. ASSUME NEW a \in 1 .. Len(phone[p].got) PROVE phone[p].got[a].k < toModem'[j].n
      <4>1. phone[p].got[a].k <= m /\ phone[p].got[a].k \in Int
        BY PhoneTyped DEF UpTo
      <4> QED  BY <3>1, <4>1
    <3>3. ASSUME NEW i \in Socks, sock[i].fd = p, NEW b \in 1 .. Len(sock[i].out) PROVE sock[i].out[b].k < toModem'[j].n
      <4>1. sock[i].out[b].k \in 1 .. RESPONSE
        BY SockTyped
      <4>2. sock[i].out[b].k <= m
        BY <3>3 DEF UpTo
      <4> QED  BY <3>1, <4>1, <4>2
    <3>4. ASSUME NEW l \in 1 .. Len(toModem'), j < l PROVE toModem'[j].n < toModem'[l].n
      <4>1. ~(l \in 1 .. Len(toModem))
        BY <1>0, <2>2, <3>4
      <4>2. toModem'[l].n = m + (l - Len(toModem))
        BY <1>2, <4>1
      <4> QED  BY <1>0, <2>2, <3>4, <4>2
    <3> QED  BY <3>1, <3>2, <3>3, <3>4
  <2> QED  BY <1>2, <2>1, <2>2
<1>4. ASSUME NEW t \in Slots, Live(t)', slot'[t].responding
      PROVE  /\ \A a \in 1 .. Len(phone[slot'[t].owner].got) : phone[slot'[t].owner].got[a].k <= slot'[t].sent
             /\ \A i \in Socks : sock[i].fd = slot'[t].owner => \A a \in 1 .. Len(sock[i].out) : sock[i].out[a].k <= slot'[t].sent
             /\ \A j \in 1 .. Len(toModem') : toModem'[j].what = "data" /\ toModem'[j].for = slot'[t].owner => toModem'[j].n <= slot'[t].sent
  <2>1. CASE t # s
    <3>1. slot'[t] = slot[t] /\ Live(t) /\ slot[t].owner # p /\ UpTo(slot[t].owner, slot[t].sent)
      BY <1>4, <2>1 DEF Live, Tenants
    <3> QED  BY <1>2, <3>1 DEF UpTo
  <2>2. CASE t = s
    <3> DEFINE n == Len(toModem') - Len(toModem)
    <3>1. slot'[t].owner = p /\ slot'[t].sent = m + n /\ n \in Nat
      BY <1>0, <2>2
    <3>2. ASSUME NEW a \in 1 .. Len(phone[p].got) PROVE phone[p].got[a].k <= m + n
      <4>1. phone[p].got[a].k <= m /\ phone[p].got[a].k \in 1 .. RESPONSE
        BY PhoneTyped DEF UpTo
      <4> QED  BY <3>1, <4>1, Constants
    <3>3. ASSUME NEW i \in Socks, sock[i].fd = p, NEW b \in 1 .. Len(sock[i].out) PROVE sock[i].out[b].k <= m + n
      <4>1. sock[i].out[b].k \in 1 .. RESPONSE
        BY SockTyped
      <4>2. sock[i].out[b].k <= m
        BY <3>3 DEF UpTo
      <4> QED  BY <3>1, <4>1, <4>2, Constants
    <3>4. ASSUME NEW j \in 1 .. Len(toModem'), toModem'[j].what = "data", toModem'[j].for = p PROVE toModem'[j].n <= m + n
      <4>1. CASE j \in 1 .. Len(toModem) /\ toModem'[j] = toModem[j]
        <5>1. toModem[j].n <= m /\ toModem[j].n \in 1 .. RESPONSE
          BY <1>0, <3>4, <4>1 DEF UpTo
        <5> QED  BY <3>1, <4>1, <5>1, Constants
      <4>2. CASE j \in Len(toModem) + 1 .. Len(toModem') /\ toModem'[j].n = m + (j - Len(toModem))
        BY <1>0, <4>2
      <4> QED  BY <1>2, <4>1, <4>2
    <3> HIDE DEF n
    <3> QED  BY <3>1, <3>2, <3>3, <3>4
  <2> QED  BY <2>1, <2>2
<1> QED  BY <1>1, <1>3, <1>4 DEF InOrder, UpTo

\* The socket i is free for the unit of the frame m, which is behind all it has and before all that is to come.
LEMMA TakeDataInOrder ==
    ASSUME Types, Tenants, InOrder, UNCHANGED <<phone, slot>>, Shifted(toModem, toModem'), Len(toModem') \in Nat,
           toModem[1].what = "data", NEW i \in Socks, NEW p \in Phones, sock[i].fd = p, toModem[1].for = p,
           NEW u, u = [of |-> toModem[1].of, k |-> toModem[1].n],
           sock'[i].fd = p, sock'[i].head = sock[i].head, Extended(sock[i].out, sock'[i].out, u),
           \A k \in Socks \ {i} : sock'[k] = sock[k]
    PROVE  InOrder'
<1> DEFINE out == sock[i].out
           more == sock'[i].out
           m == toModem[1].n
           got == phone[p].got
<1>1. /\ Len(toModem) = Len(toModem') + 1 /\ 1 \in 1 .. Len(toModem) /\ m \in 1 .. RESPONSE /\ toModem[1].of = {p}
      /\ \A j \in 1 .. Len(toModem') : j + 1 \in 1 .. Len(toModem) /\ toModem'[j] = toModem[j + 1]
  <2>1. /\ Len(toModem) = Len(toModem') + 1 /\ 1 \in 1 .. Len(toModem)
        /\ \A j \in 1 .. Len(toModem') : j + 1 \in 1 .. Len(toModem) /\ toModem'[j] = toModem[j + 1]
    BY DEF Shifted
  <2> QED  BY <2>1, ModemTyped
<1>2. /\ u.k = m /\ u.of = {p} /\ Len(out) \in Nat /\ Len(more) = Len(out) + 1 /\ more[Len(more)] = u
      /\ \A b \in 1 .. Len(out) : more[b] = out[b] /\ out[b].k \in 1 .. RESPONSE
      /\ \A b \in 1 .. Len(more) : b \in 1 .. Len(out) \/ b = Len(more)
  <2>1. u.k = m /\ u.of = {p}
    BY <1>1
  <2>2. Len(out) \in Nat /\ \A b \in 1 .. Len(out) : out[b].k \in 1 .. RESPONSE
    BY SockTyped
  <2>3. Len(more) = Len(out) + 1 /\ more[Len(more)] = u /\ \A b \in 1 .. Len(out) : more[b] = out[b]
    BY DEF Extended
  <2>4. \A b \in 1 .. Len(more) : b \in 1 .. Len(out) \/ b = Len(more)
    BY <2>2, <2>3
  <2> QED  BY <2>1, <2>2, <2>3, <2>4
<1>3. /\ \A a \in 1 .. Len(got) : got[a].k < m
      /\ \A b \in 1 .. Len(out) : out[b].k < m
      /\ \A l \in 1 .. Len(toModem) : 1 < l /\ toModem[l].what = "data" /\ toModem[l].for = p => m < toModem[l].n
  BY <1>1 DEF InOrder, FramesInOrder
<1>4. OutInOrder(i) /\ GotInOrder(p) /\ p # None
  BY Constants DEF InOrder
<1>5. Len(got) \in Nat /\ \A a \in 1 .. Len(got) : got[a].k \in 1 .. RESPONSE
  BY PhoneTyped
<1>6. sock[i].head \in Nat /\ sock[i].head <= Len(out)
  BY <1>4, SockTyped DEF OutInOrder
<1>7. \A r \in Phones : GotInOrder(r)'
  <2> SUFFICES ASSUME NEW r \in Phones PROVE GotInOrder(r)'
    OBVIOUS
  <2>1. GotInOrder(r) /\ phone' = phone
    BY DEF InOrder
  <2> QED  BY <2>1 DEF GotInOrder
<1>8. OutInOrder(i)'
  <2>1. \A a, b \in 1 .. Len(more) : a < b => more[a].k < more[b].k
    <3> SUFFICES ASSUME NEW a \in 1 .. Len(more), NEW b \in 1 .. Len(more), a < b PROVE more[a].k < more[b].k
      OBVIOUS
    <3>1. a \in 1 .. Len(out)
      BY <1>2
    <3>2. CASE b \in 1 .. Len(out)
      BY <1>2, <1>4, <3>1, <3>2 DEF OutInOrder
    <3>3. CASE b = Len(more)
      BY <1>2, <1>3, <3>1, <3>3
    <3> QED  BY <1>2, <3>2, <3>3
  <2>2. ASSUME NEW a \in 1 .. Len(got), NEW b \in sock[i].head + 1 .. Len(more) PROVE got[a].k < more[b].k
    <3>1. CASE b = Len(more)
      BY <1>2, <1>3, <3>1
    <3>2. CASE b # Len(more)
      <4>1. b \in sock[i].head + 1 .. Len(out) /\ b \in 1 .. Len(out)
        BY <1>2, <1>6, <3>2
      <4> QED  BY <1>2, <1>4, <4>1 DEF OutInOrder
    <3> QED  BY <3>1, <3>2
  <2>3. ASSUME NEW b \in sock[i].head + 1 .. Len(more) PROVE Len(got) + (b - sock[i].head) <= more[b].k
    <3>1. CASE b # Len(more)
      <4>1. b \in sock[i].head + 1 .. Len(out) /\ b \in 1 .. Len(out)
        BY <1>2, <1>6, <3>1
      <4> QED  BY <1>2, <1>4, <4>1 DEF OutInOrder
    <3>2. CASE b = Len(more) /\ sock[i].head < Len(out)
      <4>1. Len(out) \in sock[i].head + 1 .. Len(out) /\ Len(out) \in 1 .. Len(out)
        BY <1>2, <1>6, <3>2
      <4>2. Len(got) + (Len(out) - sock[i].head) <= out[Len(out)].k
        BY <1>4, <4>1 DEF OutInOrder
      <4>3. out[Len(out)].k < m /\ out[Len(out)].k \in 1 .. RESPONSE
        BY <1>2, <1>3, <4>1
      <4>4. more[b].k = m /\ b = Len(out) + 1
        BY <1>2, <3>2
      <4>5. out[Len(out)].k \in Nat /\ m \in Nat
        BY <1>1, <4>3, Constants
      <4>6. Len(out) \in Nat /\ Len(got) \in Nat /\ sock[i].head \in Nat
        BY <1>2, <1>5, <1>6
      <4> DEFINE g == Len(got)
                 l == Len(out)
                 h == sock[i].head
                 x == out[Len(out)].k
      <4>7. g \in Nat /\ l \in Nat /\ h \in Nat /\ x \in Nat /\ m \in Nat /\ g + (l - h) <= x /\ x < m
        BY <4>2, <4>3, <4>5, <4>6
      <4> HIDE DEF g, l, h, x, m
      <4>8. g + ((l + 1) - h) <= m
        BY <4>7
      <4> QED  BY <4>4, <4>8 DEF g, l, h, m
    <3>3. CASE b = Len(more) /\ sock[i].head = Len(out)
      <4>1. b - sock[i].head = 1
        BY <1>2, <1>6, <3>3
      <4>2. Len(got) < m
        <5>1. CASE Len(got) = 0
          BY <1>1, <5>1, Constants
        <5>2. CASE Len(got) # 0
          <6>1. Len(got) \in 1 .. Len(got)
            BY <1>5, <5>2
          <6>2. Len(got) <= got[Len(got)].k /\ got[Len(got)].k < m /\ got[Len(got)].k \in 1 .. RESPONSE
            BY <1>3, <1>4, <1>5, <6>1 DEF GotInOrder
          <6> HIDE DEF got, m
          <6> QED  BY <1>1, <1>5, <6>2, Constants
        <5> QED  BY <5>1, <5>2
      <4>3. more[b].k = m
        BY <1>2, <3>3
      <4> HIDE DEF out, more, got, m
      <4> QED  BY <1>1, <1>5, <4>1, <4>2, <4>3, Constants
    <3> QED  BY <1>6, <3>1, <3>2, <3>3
  <2>4. \A a \in 1 .. Len(more) : more[a].of = {p}
    BY <1>2, <1>4 DEF OutInOrder
  <2>5. sock[i].head <= Len(more) /\ sock[i].head # Len(more)
    BY <1>2, <1>6
  <2> QED  BY <2>1, <2>2, <2>3, <2>4, <2>5 DEF OutInOrder
<1>9. \A k \in Socks : OutInOrder(k)'
  <2> SUFFICES ASSUME NEW k \in Socks, k # i PROVE OutInOrder(k)'
    BY <1>8
  <2>1. OutInOrder(k) /\ sock'[k] = sock[k] /\ phone' = phone
    BY DEF InOrder
  <2> QED  BY <2>1 DEF OutInOrder
<1>10. FramesInOrder'
  <2> SUFFICES ASSUME NEW j \in 1 .. Len(toModem'), toModem'[j].what = "data", NEW r, toModem'[j].for = r
               PROVE  /\ \A a \in 1 .. Len(phone[r].got) : phone[r].got[a].k < toModem'[j].n
                      /\ \A k \in Socks : sock'[k].fd = r => \A b \in 1 .. Len(sock'[k].out) : sock'[k].out[b].k < toModem'[j].n
                      /\ \A l \in 1 .. Len(toModem') : j < l /\ toModem'[l].what = "data" /\ toModem'[l].for = r => toModem'[j].n < toModem'[l].n
    BY DEF FramesInOrder
  <2>1. j + 1 \in 1 .. Len(toModem) /\ toModem'[j] = toModem[j + 1] /\ 1 < j + 1
    BY <1>1
  <2>2. /\ \A a \in 1 .. Len(phone[r].got) : phone[r].got[a].k < toModem[j + 1].n
        /\ \A k \in Socks : sock[k].fd = r => \A b \in 1 .. Len(sock[k].out) : sock[k].out[b].k < toModem[j + 1].n
        /\ \A l \in 1 .. Len(toModem) : j + 1 < l /\ toModem[l].what = "data" /\ toModem[l].for = r => toModem[j + 1].n < toModem[l].n
    BY <2>1 DEF InOrder, FramesInOrder
  <2>3. \A l \in 1 .. Len(toModem') : j < l => j + 1 < l + 1
    OBVIOUS
  <2>4. ASSUME NEW k \in Socks, sock'[k].fd = r, NEW b \in 1 .. Len(sock'[k].out) PROVE sock'[k].out[b].k < toModem'[j].n
    <3>1. CASE k # i
      BY <2>1, <2>2, <2>4, <3>1
    <3>2. CASE k = i /\ b \in 1 .. Len(out)
      BY <1>2, <2>1, <2>2, <2>4, <3>2
    <3>3. CASE k = i /\ b = Len(more)
      BY <1>2, <1>3, <2>1, <2>4, <3>3
    <3> QED  BY <1>2, <3>1, <3>2, <3>3
  <2> QED  BY <1>1, <2>1, <2>2, <2>3, <2>4
<1>11. ASSUME NEW s \in Slots, Live(s)', slot'[s].responding, NEW r, r = slot[s].owner
      PROVE  /\ \A a \in 1 .. Len(phone[r].got) : phone[r].got[a].k <= slot[s].sent
             /\ \A k \in Socks : sock'[k].fd = r => \A a \in 1 .. Len(sock'[k].out) : sock'[k].out[a].k <= slot[s].sent
             /\ \A j \in 1 .. Len(toModem') : toModem'[j].what = "data" /\ toModem'[j].for = r => toModem'[j].n <= slot[s].sent
  <2>1. UpTo(r, slot[s].sent)
    BY <1>11 DEF InOrder, Live
  <2>2. ASSUME NEW k \in Socks, sock'[k].fd = r, NEW b \in 1 .. Len(sock'[k].out) PROVE sock'[k].out[b].k <= slot[s].sent
    <3>1. CASE k # i
      BY <2>1, <2>2, <3>1 DEF UpTo
    <3>2. CASE k = i /\ b \in 1 .. Len(out)
      BY <1>2, <2>1, <2>2, <3>2 DEF UpTo
    <3>3. CASE k = i /\ b = Len(more)
      BY <1>1, <1>2, <2>1, <2>2, <3>3 DEF UpTo
    <3> QED  BY <1>2, <3>1, <3>2, <3>3
  <2> QED  BY <1>1, <2>1, <2>2 DEF UpTo
<1> QED  BY <1>7, <1>9, <1>10, <1>11 DEF InOrder, UpTo

\* The phone's bytes g become h: n more of out, from behind its head.
Grown(g, h, out, head, n) ==
    /\ Len(h) = Len(g) + n
    /\ \A a \in 1 .. Len(h) :
          \/ a \in 1 .. Len(g) /\ h[a] = g[a]
          \/ a \in Len(g) + 1 .. Len(h) /\ head + (a - Len(g)) \in head + 1 .. head + n /\ h[a] = out[head + (a - Len(g))]

LEMMA WriteGrows ==
    ASSUME NEW S, NEW g \in Seq(S), NEW out \in Seq(S), NEW head \in Nat, NEW n \in 1 .. Len(out) - head
    PROVE  /\ g \o SubSeq(out, head + 1, head + n) \in Seq(S)
           /\ Grown(g, g \o SubSeq(out, head + 1, head + n), out, head, n)
<1> DEFINE t == SubSeq(out, head + 1, head + n)
<1>1. \A i \in head + 1 .. head + n : out[i] \in S
  OBVIOUS
<1>2. t \in Seq(S) /\ Len(t) = (IF head + 1 <= head + n THEN head + n - (head + 1) + 1 ELSE 0)
      /\ \A i \in 1 .. head + n - (head + 1) + 1 : t[i] = out[head + 1 + i - 1]
  BY <1>1, SubSeqProperties
<1>3. Len(t) = n /\ n \in Nat /\ \A i \in 1 .. n : t[i] = out[head + i]
  <2> DEFINE l == Len(out)
  <2>1. l \in Nat /\ n \in 1 .. l - head
    OBVIOUS
  <2> HIDE DEF l
  <2>2. n \in Nat /\ head + 1 <= head + n /\ head + n - (head + 1) + 1 = n
    BY <2>1
  <2>3. \A i \in 1 .. n : head + 1 + i - 1 = head + i
    OBVIOUS
  <2>4. Len(t) = n /\ \A i \in 1 .. n : t[i] = out[head + 1 + i - 1]
    BY <1>2, <2>2
  <2>5. \A i \in 1 .. n : t[i] = out[head + i]
    BY <2>3, <2>4
  <2> QED  BY <2>2, <2>4, <2>5
<1> HIDE DEF t
<1>4. /\ g \o t \in Seq(S) /\ Len(g \o t) = Len(g) + n /\ Len(g) \in Nat
      /\ \A a \in 1 .. Len(g) : (g \o t)[a] = g[a]
      /\ \A a \in Len(g) + 1 .. Len(g) + n : (g \o t)[a] = t[a - Len(g)]
  <2>1. t \in Seq(S) /\ Len(g) \in Nat /\ Len(t) \in Nat
    BY <1>2
  <2>2. g \o t \in Seq(S) /\ Len(g \o t) = Len(g) + Len(t)
    BY <2>1
  <2>3. \A a \in 1 .. Len(g) + Len(t) : (g \o t)[a] = IF a <= Len(g) THEN g[a] ELSE t[a - Len(g)]
    BY <2>1
  <2>4. ASSUME NEW a \in 1 .. Len(g) PROVE (g \o t)[a] = g[a]
    <3>1. a \in 1 .. Len(g) + Len(t) /\ a <= Len(g)
      BY <2>1
    <3> QED  BY <2>3, <3>1
  <2>5. ASSUME NEW a \in Len(g) + 1 .. Len(g) + n PROVE (g \o t)[a] = t[a - Len(g)]
    <3>1. a \in 1 .. Len(g) + Len(t) /\ ~(a <= Len(g))
      BY <1>3, <2>1
    <3> QED  BY <2>3, <3>1
  <2> QED  BY <1>3, <2>1, <2>2, <2>4, <2>5
<1>5. \A a \in Len(g) + 1 .. Len(g) + n : a - Len(g) \in 1 .. n /\ head + (a - Len(g)) \in head + 1 .. head + n
  BY <1>3, <1>4
<1>6. \A a \in 1 .. Len(g) + n : a \in 1 .. Len(g) \/ a \in Len(g) + 1 .. Len(g) + n
  BY <1>3, <1>4
<1>7. Grown(g, g \o t, out, head, n)
  BY <1>3, <1>4, <1>5, <1>6 DEF Grown
<1> QED  BY <1>4, <1>7 DEF t

\* The phone p takes n units of what its socket i has.
LEMMA WriteInOrder ==
    ASSUME Types, Tenants, InOrder, UNCHANGED <<slot, toModem>>, NEW i \in Socks, NEW p \in Phones, sock[i].fd = p,
           NEW n \in 1 .. Len(sock[i].out) - sock[i].head, Grown(phone[p].got, phone'[p].got, sock[i].out, sock[i].head, n),
           \A r \in Phones \ {p} : phone'[r].got = phone[r].got, \A k \in Socks \ {i} : sock'[k] = sock[k], sock'[i].fd = p,
           \/ sock[i].head + n < Len(sock[i].out) /\ sock'[i].head = sock[i].head + n /\ sock'[i].out = sock[i].out
           \/ sock[i].head + n = Len(sock[i].out) /\ sock'[i].head = 0 /\ sock'[i].out = <<>>
    PROVE  InOrder'
<1> DEFINE out == sock[i].out
           head == sock[i].head
           got == phone[p].got
           more == phone'[p].got
<1>1. /\ Len(out) \in Nat /\ head \in Nat /\ Len(got) \in Nat /\ n \in Nat /\ Len(more) = Len(got) + n /\ head + n <= Len(out)
      /\ n >= 1
  <2>1. Len(out) \in Nat /\ head \in Nat /\ Len(got) \in Nat
    BY SockTyped, PhoneTyped
  <2>2. n \in Nat /\ n >= 1 /\ head + n <= Len(out)
    BY <2>1
  <2>3. Len(more) = Len(got) + n
    BY DEF Grown
  <2> QED  BY <2>1, <2>2, <2>3
<1>2. ASSUME NEW a \in 1 .. Len(more)
      PROVE  \/ a \in 1 .. Len(got) /\ more[a] = got[a]
             \/ /\ a \in Len(got) + 1 .. Len(more) /\ head + (a - Len(got)) \in head + 1 .. head + n
                /\ more[a] = out[head + (a - Len(got))]
                /\ head + (a - Len(got)) \in head + 1 .. Len(out) /\ head + (a - Len(got)) \in 1 .. Len(out)
  <2>1. \/ a \in 1 .. Len(got) /\ more[a] = got[a]
        \/ /\ a \in Len(got) + 1 .. Len(more) /\ head + (a - Len(got)) \in head + 1 .. head + n
           /\ more[a] = out[head + (a - Len(got))]
    BY DEF Grown
  <2> DEFINE b == head + (a - Len(got))
  <2> HIDE DEF b
  <2>2. b \in head + 1 .. head + n => b \in head + 1 .. Len(out) /\ b \in 1 .. Len(out)
    BY <1>1
  <2> QED  BY <2>1, <2>2 DEF b
<1>3. /\ \A b \in 1 .. Len(out) : out[b].of = {p} /\ out[b].k \in 1 .. RESPONSE
      /\ \A a, b \in 1 .. Len(out) : a < b => out[a].k < out[b].k
      /\ \A a \in 1 .. Len(got), b \in head + 1 .. Len(out) : got[a].k < out[b].k
      /\ \A b \in head + 1 .. Len(out) : Len(got) + (b - head) <= out[b].k
  BY SockTyped, Constants DEF InOrder, OutInOrder
<1>4. /\ \A a \in 1 .. Len(got) : got[a].of = {p} /\ a <= got[a].k /\ got[a].k \in 1 .. RESPONSE
      /\ \A a, b \in 1 .. Len(got) : a < b => got[a].k < got[b].k
  BY PhoneTyped DEF InOrder, GotInOrder
<1>5. GotInOrder(p)'
  <2>1. ASSUME NEW a \in 1 .. Len(more) PROVE more[a].of = {p} /\ a <= more[a].k
    <3>1. CASE a \in 1 .. Len(got) /\ more[a] = got[a]
      BY <1>4, <3>1
    <3>2. CASE /\ a \in Len(got) + 1 .. Len(more) /\ more[a] = out[head + (a - Len(got))]
               /\ head + (a - Len(got)) \in head + 1 .. Len(out) /\ head + (a - Len(got)) \in 1 .. Len(out)
      <4>1. Len(got) + ((head + (a - Len(got))) - head) <= out[head + (a - Len(got))].k
        BY <1>3, <3>2
      <4>2. Len(got) + ((head + (a - Len(got))) - head) = a
        <5> DEFINE g == Len(got)
                   h == head
        <5>1. g \in Nat /\ h \in Nat /\ a \in Int
          BY <1>1
        <5> HIDE DEF g, h
        <5>2. g + ((h + (a - g)) - h) = a
          BY <5>1
        <5> QED  BY <5>2 DEF g, h
      <4> QED  BY <1>3, <3>2, <4>1, <4>2
    <3> QED  BY <1>2, <3>1, <3>2
  <2>2. ASSUME NEW a \in 1 .. Len(more), NEW b \in 1 .. Len(more), a < b PROVE more[a].k < more[b].k
    <3>1. CASE a \in 1 .. Len(got) /\ more[a] = got[a] /\ b \in 1 .. Len(got) /\ more[b] = got[b]
      BY <1>4, <2>2, <3>1
    <3>2. CASE a \in 1 .. Len(got) /\ more[a] = got[a] /\ b \in Len(got) + 1 .. Len(more)
      <4>1. ~(b \in 1 .. Len(got))
        BY <1>1, <3>2
      <4>2. more[b] = out[head + (b - Len(got))] /\ head + (b - Len(got)) \in head + 1 .. Len(out)
        BY <1>2, <4>1
      <4> HIDE DEF more, got, head, out
      <4> QED  BY <1>3, <3>2, <4>2
    <3>3. CASE a \in Len(got) + 1 .. Len(more)
      <4>1. ~(a \in 1 .. Len(got)) /\ ~(b \in 1 .. Len(got))
        BY <1>1, <2>2, <3>3
      <4>2. head + (a - Len(got)) < head + (b - Len(got))
        BY <1>1, <2>2
      <4>3. /\ more[a] = out[head + (a - Len(got))] /\ head + (a - Len(got)) \in 1 .. Len(out)
            /\ more[b] = out[head + (b - Len(got))] /\ head + (b - Len(got)) \in 1 .. Len(out)
        BY <1>2, <4>1
      <4> HIDE DEF more, got, head, out
      <4> QED  BY <1>3, <4>2, <4>3
    <3>4. b \in 1 .. Len(got) => a \in 1 .. Len(got)
      BY <1>1, <2>2
    <3> QED  BY <1>2, <3>1, <3>2, <3>3, <3>4
  <2> QED  BY <2>1, <2>2 DEF GotInOrder
<1>6. \A r \in Phones : GotInOrder(r)'
  <2> SUFFICES ASSUME NEW r \in Phones, r # p PROVE GotInOrder(r)'
    BY <1>5
  <2>1. GotInOrder(r) /\ phone'[r].got = phone[r].got
    BY DEF InOrder
  <2> QED  BY <2>1 DEF GotInOrder
<1>7. ASSUME NEW k \in Socks PROVE OutInOrder(k)'
  <2>1. CASE k # i
    <3>1. OutInOrder(k) /\ sock'[k] = sock[k] /\ (sock[k].fd # None => phone'[sock[k].fd].got = phone[sock[k].fd].got)
      <4>1. OutInOrder(k) /\ sock'[k] = sock[k]
        BY <2>1 DEF InOrder
      <4>2. sock[k].fd # None => sock[k].fd \in Phones \ {p}
        BY <2>1, SockTyped DEF Tenants
      <4> QED  BY <4>1, <4>2
    <3> QED  BY <3>1 DEF OutInOrder
  <2>2. CASE k = i /\ sock'[i].head = 0 /\ sock'[i].out = <<>>
    BY <2>2 DEF OutInOrder
  <2>3. CASE k = i /\ head + n < Len(out) /\ sock'[i].head = head + n /\ sock'[i].out = out
    <3>1. ASSUME NEW b \in (head + n) + 1 .. Len(out) PROVE Len(more) + (b - (head + n)) <= out[b].k
      <4>1. b \in head + 1 .. Len(out) /\ Len(more) + (b - (head + n)) = Len(got) + (b - head)
        BY <1>1
      <4> QED  BY <1>3, <4>1
    <3>2. ASSUME NEW a \in 1 .. Len(more), NEW b \in (head + n) + 1 .. Len(out) PROVE more[a].k < out[b].k
      <4>1. b \in head + 1 .. Len(out) /\ b \in 1 .. Len(out) /\ b > head + n
        BY <1>1
      <4>2. CASE a \in 1 .. Len(got) /\ more[a] = got[a]
        BY <1>3, <4>1, <4>2
      <4>3. CASE /\ head + (a - Len(got)) \in head + 1 .. head + n /\ more[a] = out[head + (a - Len(got))]
                 /\ head + (a - Len(got)) \in 1 .. Len(out)
        <5>1. head + (a - Len(got)) < b
          BY <1>1, <4>1, <4>3
        <5> QED  BY <1>3, <4>1, <4>3, <5>1
      <4> QED  BY <1>2, <4>2, <4>3
    <3>3. head + n <= Len(out) /\ head + n # Len(out)
      BY <1>1, <2>3
    <3> QED  BY <1>3, <2>3, <3>1, <3>2, <3>3 DEF OutInOrder
  <2> QED  BY <2>1, <2>2, <2>3
<1>8. ASSUME NEW m, NEW r, NEW a \in 1 .. Len(phone'[r].got), r \in Phones,
             \A x \in 1 .. Len(phone[r].got) : phone[r].got[x].k < m,
             \A k \in Socks : sock[k].fd = r => \A b \in 1 .. Len(sock[k].out) : sock[k].out[b].k < m
      PROVE  phone'[r].got[a].k < m
  <2>1. CASE r # p
    BY <1>8, <2>1
  <2>2. CASE r = p
    BY <1>2, <1>8, <2>2
  <2> QED  BY <2>1, <2>2
<1>9. ASSUME NEW m, NEW r, NEW a \in 1 .. Len(phone'[r].got), r \in Phones,
             \A x \in 1 .. Len(phone[r].got) : phone[r].got[x].k <= m,
             \A k \in Socks : sock[k].fd = r => \A b \in 1 .. Len(sock[k].out) : sock[k].out[b].k <= m
      PROVE  phone'[r].got[a].k <= m
  <2>1. CASE r # p
    BY <1>9, <2>1
  <2>2. CASE r = p
    BY <1>2, <1>9, <2>2
  <2> QED  BY <2>1, <2>2
<1>10. \A k \in Socks : sock'[k].fd = sock[k].fd /\ (sock'[k].out = sock[k].out \/ sock'[k].out = <<>>)
  OBVIOUS
<1>11. FramesInOrder'
  <2> SUFFICES ASSUME NEW j \in 1 .. Len(toModem), toModem[j].what = "data", NEW r \in Phones, toModem[j].for = r
               PROVE  /\ \A a \in 1 .. Len(phone'[r].got) : phone'[r].got[a].k < toModem[j].n
                      /\ \A k \in Socks : sock'[k].fd = r => \A b \in 1 .. Len(sock'[k].out) : sock'[k].out[b].k < toModem[j].n
                      /\ \A l \in 1 .. Len(toModem) : j < l /\ toModem[l].what = "data" /\ toModem[l].for = r => toModem[j].n < toModem[l].n
    BY ModemTyped DEF FramesInOrder
  <2>1. /\ \A a \in 1 .. Len(phone[r].got) : phone[r].got[a].k < toModem[j].n
        /\ \A k \in Socks : sock[k].fd = r => \A b \in 1 .. Len(sock[k].out) : sock[k].out[b].k < toModem[j].n
        /\ \A l \in 1 .. Len(toModem) : j < l /\ toModem[l].what = "data" /\ toModem[l].for = r => toModem[j].n < toModem[l].n
    BY DEF InOrder, FramesInOrder
  <2>2. \A a \in 1 .. Len(phone'[r].got) : phone'[r].got[a].k < toModem[j].n
    BY <1>8, <2>1
  <2> QED  BY <1>10, <2>1, <2>2
<1>12. ASSUME NEW s \in Slots, Live(s)', slot'[s].responding, NEW r, r = slot[s].owner
      PROVE  /\ \A a \in 1 .. Len(phone'[r].got) : phone'[r].got[a].k <= slot[s].sent
             /\ \A k \in Socks : sock'[k].fd = r => \A a \in 1 .. Len(sock'[k].out) : sock'[k].out[a].k <= slot[s].sent
             /\ \A j \in 1 .. Len(toModem) : toModem[j].what = "data" /\ toModem[j].for = r => toModem[j].n <= slot[s].sent
  <2>1. /\ \A a \in 1 .. Len(phone[r].got) : phone[r].got[a].k <= slot[s].sent
        /\ \A k \in Socks : sock[k].fd = r => \A a \in 1 .. Len(sock[k].out) : sock[k].out[a].k <= slot[s].sent
        /\ \A j \in 1 .. Len(toModem) : toModem[j].what = "data" /\ toModem[j].for = r => toModem[j].n <= slot[s].sent
    BY <1>12 DEF InOrder, UpTo, Live
  <2>2. r \in Phones
    BY <1>12 DEF Tenants, Live
  <2>3. \A a \in 1 .. Len(phone'[r].got) : phone'[r].got[a].k <= slot[s].sent
    BY <1>9, <2>1, <2>2
  <2> QED  BY <1>10, <2>1, <2>3
<1> QED  BY <1>6, <1>7, <1>11, <1>12 DEF InOrder, UpTo

-----------------------------------------------------------------------------

LEMMA OverStays ==
    ASSUME Types, Over, \A p \in Phones : Whole(p) => Whole(p)',
           \A s \in Slots : slot'[s].owner \in {slot[s].owner, None} \/ \A j \in 1 .. Len(toModem) : toModem[j].for # slot'[s].owner,
           NEW e, NEW G, Moved(toModem, toModem', e, G),
           \A f \in G : f.what \in {"close", "abort"} =>
              (\A s \in Slots : slot'[s].owner # f.for) /\ (f.what = "close" => f.for \in Phones /\ Whole(f.for))
    PROVE  Over'
<1> SUFFICES ASSUME NEW j \in 1 .. Len(toModem'), toModem'[j].what \in {"close", "abort"}
             PROVE  /\ \A s \in Slots : slot'[s].owner # toModem'[j].for
                    /\ toModem'[j].what = "close" => Len(phone'[toModem'[j].for].got) = RESPONSE
  BY DEF Over, Whole
<1>1. CASE toModem'[j] \in G
  BY <1>1 DEF Whole
<1>2. CASE j + e \in 1 .. Len(toModem) /\ toModem'[j] = toModem[j + e]
  <2>1. toModem[j + e].for \in Phones
    BY <1>2, ModemTyped
  <2>2. (\A s \in Slots : slot[s].owner # toModem[j + e].for) /\ (toModem[j + e].what = "close" => Whole(toModem[j + e].for))
    BY <1>2 DEF Over
  <2> QED  BY <1>2, <2>1, <2>2, Constants DEF Whole
<1> QED  BY <1>1, <1>2 DEF Moved

\* The connections that are still answered are as they were, and so is what is confirmed to them.
LEMMA ConfirmedStays ==
    ASSUME Confirmed, Types, Tenants,
           \A s \in Slots : Live(s)' =>
              Live(s) /\ slot'[s].sent = slot[s].sent /\ slot'[s].acked = slot[s].acked /\ slot'[s].sock = slot[s].sock
              /\ slot'[s].owner = slot[s].owner /\ slot'[s].responding = slot[s].responding,
           \A s \in Slots : Live(s) /\ Live(s)' /\ slot[s].responding =>
              \A a, i, p : a = slot[s].acked /\ i = slot[s].sock /\ p = slot[s].owner /\ i \in Socks /\ p \in Phones
                           /\ Counts(toHost, i, a, Len(phone[p].got)) => Counts(toHost', i, a, Len(phone'[p].got))
    PROVE  Confirmed'
<1> SUFFICES ASSUME NEW s \in Slots, Live(s)'
             PROVE  /\ slot'[s].sent <= slot'[s].acked + PORTAL_SOCK_WINDOW
                    /\ slot'[s].responding => Counts(toHost', slot'[s].sock, slot'[s].acked, Len(phone'[slot'[s].owner].got))
  BY DEF Confirmed
<1>1. /\ Live(s) /\ slot'[s].sent = slot[s].sent /\ slot'[s].acked = slot[s].acked /\ slot'[s].sock = slot[s].sock
      /\ slot'[s].owner = slot[s].owner /\ slot'[s].responding = slot[s].responding
  OBVIOUS
<1>2. slot[s].sock \in Socks /\ slot[s].owner \in Phones
  BY <1>1, LiveSlot
<1>3. /\ slot[s].sent <= slot[s].acked + PORTAL_SOCK_WINDOW
      /\ slot[s].responding => Counts(toHost, slot[s].sock, slot[s].acked, Len(phone[slot[s].owner].got))
  BY <1>1 DEF Confirmed
<1>4. slot[s].responding => Counts(toHost', slot[s].sock, slot[s].acked, Len(phone'[slot[s].owner].got))
  BY <1>1, <1>2, <1>3
<1> QED  BY <1>1, <1>3, <1>4

LEMMA RequestsStay ==
    ASSUME Requests, \A s \in Slots : Live(s)' =>
              Live(s) /\ slot'[s].of = slot[s].of /\ slot'[s].owner = slot[s].owner /\ slot'[s].responding = slot[s].responding
    PROVE  Requests'
<1> SUFFICES ASSUME NEW s \in Slots, Live(s)'
             PROVE  /\ \A a \in 1 .. Len(slot'[s].of) : slot'[s].of[a] = slot'[s].owner
                    /\ IF slot'[s].responding THEN Len(slot'[s].of) = REQUEST ELSE Len(slot'[s].of) < REQUEST
  BY DEF Requests
<1> QED  BY DEF Requests

LEMMA CutsStay ==
    ASSUME Types, Tenants, Cuts, SlotsShrink, cut \subseteq cut', NEW d, NEW F, Moved(toHost, toHost', d, F),
           \A f \in F : f.what \notin {"open", "hello"} /\ (f.what = "gone" => f.for \in cut')
    PROVE  Cuts'
<1>1. ASSUME NEW j \in 1 .. Len(toHost'), toHost'[j].what = "gone" PROVE toHost'[j].for \in cut'
  BY <1>1 DEF Cuts, Moved
<1>2. ASSUME NEW j \in 1 .. Len(toHost'), NEW k \in 1 .. Len(toHost'), j < k, toHost'[j].what = "open", toHost'[k].what = "hello"
      PROVE  toHost'[j].for \in cut'
  <2>1. j + d \in 1 .. Len(toHost) /\ toHost'[j] = toHost[j + d] /\ k + d \in 1 .. Len(toHost) /\ toHost'[k] = toHost[k + d] /\ j + d < k + d
    BY <1>2 DEF Moved
  <2> QED  BY <1>2, <2>1 DEF Cuts
<1>3. ASSUME NEW k \in 1 .. Len(toHost'), toHost'[k].what = "hello", NEW s \in Slots, Live(s)' PROVE slot'[s].owner \in cut'
  <2>1. k + d \in 1 .. Len(toHost) /\ toHost'[k] = toHost[k + d]
    BY <1>3 DEF Moved
  <2>2. Live(s) /\ slot'[s].owner = slot[s].owner
    BY <1>3 DEF SlotsShrink, Live
  <2> QED  BY <1>3, <2>1, <2>2 DEF Cuts
<1> QED  BY <1>1, <1>2, <1>3 DEF Cuts

\* Which phones have a whole answer, have been cut or are being answered.
LEMMA SavingStays ==
    ASSUME Saving, \A p \in Phones : Whole(p) => Whole(p)', cut \subseteq cut', \A p \in closed' \ closed : Whole(p)',
           closed \subseteq Phones, UNCHANGED <<saved, saver>>,
           \A p \in Phones : Answering(p) => Answering(p)' \/ p \in cut' \/ Whole(p)'
    PROVE  Saving'
<1>1. ASSUME NEW p \in closed' PROVE Whole(p)'
  BY DEF Saving
<1>2. saved' \in {"asked", "stored"} => saver' \in cut' \/ Whole(saver)' \/ Answering(saver)'
  <2> SUFFICES ASSUME saved \in {"asked", "stored"}, NEW p \in Phones, p = saver PROVE p \in cut' \/ Whole(p)' \/ Answering(p)'
    BY DEF Saving, Whole, Answering
  <2>1. p \in cut \/ Whole(p) \/ Answering(p)
    BY DEF Saving
  <2> QED  BY <2>1
<1>3. saved' = "rebooted" => saver' \in cut' \/ Whole(saver)'
  <2> SUFFICES ASSUME saved = "rebooted", NEW p \in Phones, p = saver PROVE p \in cut' \/ Whole(p)'
    BY DEF Saving, Whole
  <2>1. p \in cut \/ Whole(p)
    BY DEF Saving
  <2> QED  BY <2>1
<1>4. saved' # "no" => saver' \in Phones
  BY DEF Saving
<1> QED  BY <1>1, <1>2, <1>3, <1>4 DEF Saving

\* Being answered goes on as long as the connection does.
LEMMA AnsweringStays ==
    ASSUME \A s \in Slots : Live(s) /\ slot[s].responding =>
              Live(s)' /\ slot'[s].responding /\ slot'[s].owner = slot[s].owner
    PROVE  \A p \in Phones : Answering(p) => Answering(p)'
<1> SUFFICES ASSUME NEW p \in Phones, Answering(p) PROVE Answering(p)'
  OBVIOUS
<1>1. PICK s \in Slots : Live(s) /\ slot[s].owner = p /\ slot[s].responding
  BY DEF Answering
<1>2. Live(s)' /\ slot'[s].owner = p /\ slot'[s].responding
  BY <1>1
<1> QED  BY <1>2 DEF Answering

-----------------------------------------------------------------------------
(* An answer of RESPONSE units in order is the answer. *)

LEMMA GotBounded ==
    ASSUME NEW g \in Seq(Units), \A a \in 1 .. Len(g) : a <= g[a].k
    PROVE  Len(g) <= RESPONSE
<1>1. Len(g) \in Nat /\ \A a \in 1 .. Len(g) : g[a].k \in 1 .. RESPONSE
  <2>1. \A a \in 1 .. Len(g) : g[a] \in Units
    OBVIOUS
  <2> QED  BY <2>1 DEF Units
<1>2. CASE Len(g) = 0
  BY <1>2, Constants
<1>3. CASE Len(g) # 0
  <2>1. Len(g) \in 1 .. Len(g)
    BY <1>1, <1>3
  <2> QED  BY <1>1, <2>1, Constants
<1> QED  BY <1>2, <1>3

LEMMA LeastElement ==
    ASSUME NEW S \in SUBSET Nat, S # {}
    PROVE  \E m \in S : \A n \in S : m <= n
<1> DEFINE R == {p \in Nat \X Nat : p[1] < p[2]}
<1>1. IsWellFoundedOn(R, Nat)
  BY NatLessThanWellFounded, Zenon DEF OpToRel
<1>2. PICK m \in S : \A n \in S : ~ (<<n, m>> \in R)
  <2> HIDE DEF R
  <2> QED  BY <1>1, WFMin
<1>3. \A n \in S : m <= n
  <2> SUFFICES ASSUME NEW n \in S, n < m PROVE FALSE
    OBVIOUS
  <2>1. <<n, m>> \in R
    OBVIOUS
  <2> QED  BY <1>2, <2>1
<1> QED  BY <1>3

LEMMA WholeAnswer ==
    ASSUME NEW p \in Phones, NEW g \in Seq(Units), Len(g) = RESPONSE,
           \A a \in 1 .. Len(g) : g[a].of = {p} /\ a <= g[a].k,
           \A a, b \in 1 .. Len(g) : a < b => g[a].k < g[b].k
    PROVE  g = Answer(p)
<1>1. RESPONSE \in Nat /\ \A a \in 1 .. RESPONSE : g[a] \in Units /\ g[a].k \in 1 .. RESPONSE
  <2>1. \A a \in 1 .. Len(g) : g[a] \in Units
    OBVIOUS
  <2>2. \A a \in 1 .. RESPONSE : g[a] \in Units
    BY <2>1
  <2> QED  BY <2>2, Constants DEF Units
<1>2. ASSUME NEW a \in 1 .. RESPONSE PROVE g[a].k <= a
  <2> SUFFICES ASSUME ~(g[a].k <= a) PROVE FALSE
    OBVIOUS
  <2> DEFINE T == {t \in 0 .. RESPONSE : \E b \in 1 .. RESPONSE : t = RESPONSE - b /\ ~(g[b].k <= b)}
  <2>1. RESPONSE - a \in T /\ T \subseteq Nat
    BY <1>1
  <2> HIDE DEF T
  <2>2. PICK t \in T : \A l \in T : t <= l
    BY <2>1, LeastElement
  <2>3. PICK b \in 1 .. RESPONSE : t = RESPONSE - b /\ ~(g[b].k <= b)
    BY <2>2 DEF T
  <2>4. b # RESPONSE
    BY <1>1, <2>3
  <2>5. b + 1 \in 1 .. RESPONSE /\ b < b + 1
    BY <1>1, <2>4
  <2>6. g[b].k < g[b + 1].k
    BY <2>5
  <2>7. ~(g[b + 1].k <= b + 1)
    BY <1>1, <2>3, <2>5, <2>6
  <2>8. RESPONSE - (b + 1) \in T
    BY <1>1, <2>5, <2>7 DEF T
  <2>9. t <= RESPONSE - (b + 1)
    BY <2>2, <2>8
  <2> QED  BY <1>1, <2>3, <2>9
<1>3. ASSUME NEW a \in 1 .. RESPONSE PROVE g[a] = [of |-> {p}, k |-> a]
  <2>1. g[a].k = a /\ g[a].of = {p}
    BY <1>1, <1>2
  <2>2. g[a] \in [of : SUBSET Phones, k : 1 .. RESPONSE]
    BY <1>1 DEF Units
  <2> QED  BY <2>1, <2>2
<1>4. g = [a \in 1 .. RESPONSE |-> g[a]]
  <2>1. g \in [1 .. RESPONSE -> Units]
    <3>1. g \in [1 .. Len(g) -> Units]
      OBVIOUS
    <3> QED  BY <3>1
  <2> QED  BY <2>1
<1> QED  BY <1>3, <1>4 DEF Answer

LEMMA CleanOwnAnswer == Clean => OwnAnswer
<1> SUFFICES ASSUME Clean, NEW p \in Phones, NEW a \in 1 .. Len(phone[p].got), NEW b \in 1 .. Len(phone[p].got)
             PROVE  phone[p].got[a].of = {p} /\ (a < b => phone[p].got[a].k < phone[p].got[b].k)
  BY DEF OwnAnswer
<1>1. GotInOrder(p)
  BY DEF Clean, InOrder
<1> QED  BY <1>1 DEF GotInOrder

LEMMA CleanWhole ==
    ASSUME Clean, NEW p \in Phones, Whole(p)
    PROVE  phone[p].got = Answer(p)
<1>1. GotInOrder(p) /\ phone[p].got \in Seq(Units)
  BY PhoneTyped DEF Clean, InOrder
<1> QED  BY <1>1, WholeAnswer DEF GotInOrder, Whole

LEMMA CleanWholeBeforeClose == Clean => WholeBeforeClose
<1> SUFFICES ASSUME Clean, NEW p \in closed PROVE phone[p].got = Answer(p)
  BY DEF WholeBeforeClose
<1>1. p \in Phones /\ Whole(p)
  BY DEF Clean, Types, Saving
<1> QED  BY <1>1, CleanWhole

LEMMA CleanSavedIsTold == Clean => SavedIsTold
<1> SUFFICES ASSUME Clean, saved = "rebooted", saver \notin cut PROVE phone[saver].got = Answer(saver)
  BY DEF SavedIsTold
<1>1. saver \in Phones /\ Whole(saver)
  BY DEF Clean, Saving
<1> QED  BY <1>1, CleanWhole

-----------------------------------------------------------------------------
(* What the kiosk sends. *)

LEMMA ToldTyped == \A i, p : Told(i, p) \in BOOLEAN
BY DEF Told

LEMMA AboutIs ==
    ASSUME NEW what, NEW i, NEW p, NEW n, NEW of, ~Told(i, p)
    PROVE  About(what, i, p, n, of) = [what |-> what, id |-> i, for |-> p, n |-> n, of |-> of, told |-> FALSE]
<1>1. Told(i, p) = FALSE
  BY ToldTyped, Zenon
<1>2. About(what, i, p, n, of) = [Frame(what, i, p, n, of) EXCEPT !.told = FALSE]
  BY <1>1, Zenon DEF About
<1> QED  BY <1>2 DEF Frame

LEMMA EndFrames ==
    ASSUME NEW i \in Socks, NEW p \in Phones, ~Told(i, p)
    PROVE  /\ Close(i, p) \in ModemFrames /\ Close(i, p).what = "close" /\ Close(i, p).for = p
           /\ Abort(i, p) \in ModemFrames /\ Abort(i, p).what = "abort" /\ Abort(i, p).for = p
<1>2. Close(i, p) = [what |-> "close", id |-> i, for |-> p, n |-> 0, of |-> {}, told |-> FALSE]
  BY AboutIs DEF Close
<1>3. Abort(i, p) = [what |-> "abort", id |-> i, for |-> p, n |-> 0, of |-> {}, told |-> FALSE]
  BY AboutIs DEF Abort
<1> QED  BY <1>2, <1>3 DEF ModemFrames

LEMMA ListenFrame == Listen \in ModemFrames /\ Listen.what = "listen" /\ Listen.for = None
BY DEF ModemFrames, Listen, Frame

LEMMA DataFrames ==
    ASSUME NEW i \in Socks, NEW p \in Phones, ~Told(i, p), NEW k \in 1 .. RESPONSE
    PROVE  Data(i, p, {p}, k) \in ModemFrames /\ Data(i, p, {p}, k).what = "data" /\ Data(i, p, {p}, k).for = p
           /\ Data(i, p, {p}, k).n = k
<1>1. k \in Nat
  BY Constants
<1>3. Data(i, p, {p}, k) = [what |-> "data", id |-> i, for |-> p, n |-> k, of |-> {p}, told |-> FALSE]
  BY AboutIs DEF Data
<1> DEFINE f == [what |-> "data", id |-> i, for |-> p, n |-> k, of |-> {p}, told |-> FALSE]
<1>4. f \in [what : {"data", "close", "abort", "listen"}, id : Socks \cup {None}, for : Phones \cup {None},
             n : Nat, of : SUBSET Phones, told : BOOLEAN]
  BY <1>1
<1>5. f.what = "data" /\ f.id = i /\ f.for = p /\ f.n = k /\ f.of = {p} /\ f.told = FALSE
  OBVIOUS
<1> HIDE DEF f
<1>6. f \in ModemFrames
  BY <1>4, <1>5 DEF ModemFrames
<1> QED  BY <1>3, <1>5, <1>6 DEF f

\* The frames of an answer to p.
DataTo(p) == {f \in ModemFrames : f.what = "data" /\ f.for = p}

\* n more units are in the ring, and the window had room for them.
Pumping(c, n) ==
    /\ n \in 0 .. RESPONSE - c.sent /\ Pumped(c).slot = [c EXCEPT !.sent = c.sent + n]
    /\ n = 0 \/ (c.responding /\ n <= PORTAL_SOCK_WINDOW - (c.sent - c.acked))
    /\ toModem' \in Seq(ModemFrames) /\ Len(toModem') = Len(toModem) + n /\ Len(toModem') <= TX_RING
    /\ Sends(c.owner, c.sent, toModem, toModem') /\ Moved(toModem, toModem', 0, DataTo(c.owner))

LEMMA PumpsInto ==
    ASSUME Types, NEW c, c.sent \in 0 .. RESPONSE, c.acked \in Nat, c.sock \in Socks, c.owner \in Phones, c.responding \in BOOLEAN,
           c.sent <= c.acked + PORTAL_SOCK_WINDOW, c.responding => ToSet(c.of) = {c.owner}, ~Told(c.sock, c.owner),
           toModem' = toModem \o Pumped(c).frames
    PROVE  \E n \in Nat : Pumping(c, n)
<1> DEFINE window == PORTAL_SOCK_WINDOW - (c.sent - c.acked)
           ring == TX_RING - Len(toModem)
           left == RESPONSE - c.sent
           n == IF ~c.responding \/ c.acked > c.sent THEN 0
                ELSE CHOOSE m \in 0 .. left :
                       /\ m <= window /\ m <= ring
                       /\ m + 1 <= left => m + 1 > window \/ m + 1 > ring
           units == [k \in 1 .. n |-> Data(c.sock, c.owner, ToSet(c.of), c.sent + k)]
<1>1. Pumped(c) = [slot |-> [c EXCEPT !.sent = c.sent + n], frames |-> units]
  BY DEF Pumped, Total
<1>2. window \in Nat /\ ring \in Nat /\ left \in Nat /\ Len(toModem) \in Nat
  <2>1. Len(toModem) \in Nat /\ Len(toModem) <= TX_RING /\ TX_RING \in Nat
    BY ModemTyped, Constants DEF Types
  <2>2. ring \in Nat
    BY <2>1
  <2>3. window \in Nat /\ left \in Nat
    BY Constants
  <2> QED  BY <2>1, <2>2, <2>3
<1>3. n \in 0 .. left /\ (n # 0 => c.responding /\ n <= window /\ n <= ring)
  <2>1. CASE ~c.responding \/ c.acked > c.sent
    BY <1>2, <2>1
  <2>2. CASE c.responding /\ ~(c.acked > c.sent)
    <3> HIDE DEF window, ring, left
    <3>1. \E m \in 0 .. left : m <= window /\ m <= ring /\ (m + 1 <= left => m + 1 > window \/ m + 1 > ring)
      <4>1. CASE left <= window /\ left <= ring
        <5>1. left \in 0 .. left /\ left <= window /\ left <= ring /\ (left + 1 <= left => left + 1 > window \/ left + 1 > ring)
          BY <1>2, <4>1
        <5> QED  BY <5>1
      <4>2. CASE window <= left /\ window <= ring
        <5>1. window \in 0 .. left /\ window <= window /\ window <= ring /\ (window + 1 <= left => window + 1 > window \/ window + 1 > ring)
          BY <1>2, <4>2
        <5> QED  BY <5>1
      <4>3. CASE ring <= left /\ ring <= window
        <5>1. ring \in 0 .. left /\ ring <= window /\ ring <= ring /\ (ring + 1 <= left => ring + 1 > window \/ ring + 1 > ring)
          BY <1>2, <4>3
        <5> QED  BY <5>1
      <4> QED  BY <1>2, <4>1, <4>2, <4>3
    <3> DEFINE m == CHOOSE m \in 0 .. left : /\ m <= window /\ m <= ring
                                             /\ m + 1 <= left => m + 1 > window \/ m + 1 > ring
    <3>2. m \in 0 .. left /\ m <= window /\ m <= ring
      BY <3>1
    <3>3. n = m
      BY <2>2
    <3> HIDE DEF m, n
    <3> QED  BY <2>2, <3>2, <3>3
  <2> QED  BY <2>1, <2>2
<1> HIDE DEF n
<1>4. n \in Nat
  BY <1>2, <1>3
<1>5. ASSUME NEW k \in 1 .. n
      PROVE  units[k] \in ModemFrames /\ units[k] \in DataTo(c.owner) /\ units[k].what = "data" /\ units[k].for = c.owner
             /\ units[k].n = c.sent + k
  <2>1. c.sent + k \in 1 .. RESPONSE
    <3> DEFINE x == c.sent
    <3>1. x \in 0 .. RESPONSE /\ n \in 0 .. RESPONSE - x /\ RESPONSE \in Nat
      BY <1>2, <1>3, Constants
    <3> HIDE DEF x
    <3>2. x + k \in 1 .. RESPONSE
      BY <3>1
    <3> QED  BY <3>2 DEF x
  <2>2. units[k] = Data(c.sock, c.owner, {c.owner}, c.sent + k)
    <3>1. n # 0
      BY <1>4
    <3> QED  BY <1>3, <3>1
  <2> HIDE DEF units
  <2> QED  BY <2>1, <2>2, DataFrames DEF DataTo
<1>6. units \in Seq(ModemFrames) /\ Len(units) = n
  <2>1. units \in [1 .. n -> ModemFrames]
    BY <1>5
  <2>2. DOMAIN units = 1 .. n
    OBVIOUS
  <2> HIDE DEF units
  <2> QED  BY <1>4, <2>1, <2>2
<1> HIDE DEF units, left
<1>7. toModem' = toModem \o units
  <2>1. Pumped(c).frames = units
    BY <1>1
  <2> QED  BY <2>1
<1>8. /\ toModem' \in Seq(ModemFrames) /\ Len(toModem') = Len(toModem) + n
      /\ \A j \in 1 .. Len(toModem) : toModem'[j] = toModem[j]
      /\ \A j \in Len(toModem) + 1 .. Len(toModem) + n : toModem'[j] = units[j - Len(toModem)] /\ j - Len(toModem) \in 1 .. n
  <2>1. toModem \in Seq(ModemFrames)
    BY ModemTyped
  <2>2. toModem' \in Seq(ModemFrames) /\ Len(toModem') = Len(toModem) + Len(units)
    <3>1. units \in Seq(ModemFrames)
      BY <1>6
    <3>2. toModem \o units \in Seq(ModemFrames) /\ Len(toModem \o units) = Len(toModem) + Len(units)
      BY <2>1, <3>1
    <3> QED  BY <1>7, <3>2
  <2>3. \A j \in 1 .. Len(toModem) + Len(units) : (toModem \o units)[j] = IF j <= Len(toModem) THEN toModem[j] ELSE units[j - Len(toModem)]
    BY <1>6, <2>1
  <2>4. ASSUME NEW j \in 1 .. Len(toModem) PROVE toModem'[j] = toModem[j]
    <3>1. j \in 1 .. Len(toModem) + Len(units) /\ j <= Len(toModem)
      BY <1>2, <1>4, <1>6
    <3> QED  BY <1>7, <2>3, <3>1
  <2>5. ASSUME NEW j \in Len(toModem) + 1 .. Len(toModem) + n PROVE toModem'[j] = units[j - Len(toModem)] /\ j - Len(toModem) \in 1 .. n
    <3>1. j \in 1 .. Len(toModem) + Len(units) /\ ~(j <= Len(toModem)) /\ j - Len(toModem) \in 1 .. n
      BY <1>2, <1>4, <1>6
    <3> QED  BY <1>7, <2>3, <3>1
  <2> QED  BY <1>6, <2>2, <2>4, <2>5
<1>9. \A j \in 1 .. Len(toModem') : j \in 1 .. Len(toModem) \/ j \in Len(toModem) + 1 .. Len(toModem) + n
  BY <1>2, <1>4, <1>8
<1>10. Sends(c.owner, c.sent, toModem, toModem')
  BY <1>5, <1>8, <1>9 DEF Sends
<1>11. Moved(toModem, toModem', 0, DataTo(c.owner))
  <2>1. \A j \in 1 .. Len(toModem) : j + 0 = j
    OBVIOUS
  <2> QED  BY <1>5, <1>8, <1>9, <2>1 DEF Moved
<1>12. Len(toModem') <= TX_RING
  <2>1. n <= ring
    BY <1>2, <1>3
  <2> QED  BY <1>2, <1>4, <1>8, <2>1, Constants
<1>13. Pumped(c).slot = [c EXCEPT !.sent = c.sent + n]
  BY <1>1
<1>14. Pumping(c, n)
  BY <1>3, <1>8, <1>10, <1>11, <1>12, <1>13 DEF Pumping, left
<1> QED  BY <1>4, <1>14

-----------------------------------------------------------------------------
(* The steps that end connections, or none, and pass on nothing of an answer. *)

SlotsEnd == \A s \in Slots : slot'[s] = slot[s] \/ slot'[s] = FreeSlot
SocksEnd == \A i \in Socks : sock'[i] = sock[i] \/ sock'[i] = FreeSock
SlotType == [sock : Socks \cup {None}, owner : Phones \cup {None}, of : Seq(Phones), responding : BOOLEAN, sent : 0 .. RESPONSE, acked : Nat]
SockType == [fd : Phones \cup {None}, out : Seq(Units), head : Nat, closing : {FALSE}]

LEMMA FreeTyped == FreeSlot \in SlotType /\ FreeSock \in SockType
<1>1. FreeSock \in SockType
  BY DEF FreeSock, SockType
<1>2. 0 \in 0 .. RESPONSE /\ <<>> \in Seq(Phones)
  BY Constants
<1>3. FreeSlot \in SlotType
  BY <1>2 DEF FreeSlot, SlotType
<1> QED  BY <1>1, <1>3

\* A connection that is still there is the one it was.
LEMMA EndShrinks ==
    ASSUME SlotsEnd, SocksEnd
    PROVE  /\ SlotsShrink /\ SocksShrink /\ \A s \in Slots : Live(s)' => Live(s) /\ slot'[s] = slot[s]
           /\ \A i \in Socks : sock'[i].fd # None => sock'[i] = sock[i]
<1>1. FreeSlot.sock = None /\ FreeSlot.owner = None /\ FreeSock.fd = None
  BY DEF FreeSlot, FreeSock
<1>2. SlotsShrink
  BY <1>1 DEF SlotsEnd, SlotsShrink
<1>3. SocksShrink
  BY <1>1 DEF SocksEnd, SocksShrink
<1>4. \A s \in Slots : Live(s)' => Live(s) /\ slot'[s] = slot[s]
  BY <1>1 DEF SlotsEnd, Live
<1>5. \A i \in Socks : sock'[i].fd # None => sock'[i] = sock[i]
  BY <1>1 DEF SocksEnd
<1> QED  BY <1>2, <1>3, <1>4, <1>5

LEMMA ConfirmedSame ==
    ASSUME Clean, SlotsEnd, SocksEnd, toHost' = toHost, \A p \in Phones : phone'[p].got = phone[p].got
    PROVE  Confirmed'
<1>1. Confirmed /\ Types /\ Tenants
  BY DEF Clean
<1>2. \A s \in Slots : Live(s)' => Live(s) /\ slot'[s] = slot[s]
  BY EndShrinks
<1>3. ASSUME NEW s \in Slots, NEW a, NEW i, NEW p, p \in Phones, Counts(toHost, i, a, Len(phone[p].got))
      PROVE  Counts(toHost', i, a, Len(phone'[p].got))
  BY <1>3
<1> QED  BY <1>1, <1>2, <1>3, ConfirmedStays

LEMMA ConfirmedTaken ==
    ASSUME Clean, SlotsEnd, SocksEnd, toHost # <<>>, toHost' = Tail(toHost), \A p \in Phones : phone'[p].got = phone[p].got,
           \A s \in Slots : Live(s)' => TookOf(toHost[1], slot[s].sock) = 0
    PROVE  Confirmed'
<1>1. Confirmed /\ Types /\ Tenants
  BY DEF Clean
<1>2. \A s \in Slots : Live(s)' => Live(s) /\ slot'[s] = slot[s]
  BY EndShrinks
<1>3. Shifted(toHost, toHost') /\ Len(toHost') \in Nat /\ Len(toHost) \in Nat
  BY <1>1, TakenMoves, HostTyped
<1>4. ASSUME NEW s \in Slots, Live(s)', NEW a, NEW i, NEW p, i = slot[s].sock, a = slot[s].acked, p \in Phones,
             Counts(toHost, i, a, Len(phone[p].got))
      PROVE  Counts(toHost', i, a, Len(phone'[p].got))
  <2>1. Counts(toHost', i, a + TookOf(toHost[1], i), Len(phone[p].got)) /\ a \in Nat
    BY <1>1, <1>3, <1>4, PhoneTyped, SlotTyped, CountsShift
  <2> QED  BY <1>4, <2>1
<1> QED  BY <1>1, <1>2, <1>4, ConfirmedStays

LEMMA ConfirmedSent ==
    ASSUME Clean, SlotsEnd, SocksEnd, NEW f, Extended(toHost, toHost', f), f.what # "took", \A p \in Phones : phone'[p].got = phone[p].got
    PROVE  Confirmed'
<1>1. Confirmed /\ Types /\ Tenants /\ Len(toHost) \in Nat
  BY HostTyped DEF Clean
<1>2. \A s \in Slots : Live(s)' => Live(s) /\ slot'[s] = slot[s]
  BY EndShrinks
<1>3. ASSUME NEW a, NEW i, NEW p \in Phones, Counts(toHost, i, a, Len(phone[p].got))
      PROVE  Counts(toHost', i, a, Len(phone'[p].got))
  <2>1. TookOf(f, i) = 0 /\ Len(phone[p].got) \in Nat
    BY <1>1, PhoneTyped DEF TookOf
  <2>2. Counts(toHost', i, a, Len(phone[p].got) + TookOf(f, i))
    <3> DEFINE b == Len(phone[p].got)
    <3>1. b \in Nat /\ TookOf(f, i) \in Nat /\ Counts(toHost, i, a, b)
      BY <1>3, <2>1
    <3> HIDE DEF b
    <3>2. Counts(toHost', i, a, b + TookOf(f, i))
      BY <1>1, <3>1, CountsExtend
    <3> QED  BY <3>2 DEF b
  <2> QED  BY <2>1, <2>2
<1> QED  BY <1>1, <1>2, <1>3, ConfirmedStays

LEMMA CleanStays ==
    ASSUME Clean, Types', Order', Confirmed', Saving', SlotsEnd, SocksEnd, cut \subseteq cut',
           \A p \in Phones : phone'[p].got = phone[p].got /\ (phone[p].came => phone'[p].came),
           NEW d, NEW F, Moved(toHost, toHost', d, F),
           \A f \in F : f.what \in {"read", "gone"} /\ f.for \in Phones /\ phone'[f.for].came /\ (f.what = "gone" => f.for \in cut'),
           NEW e, NEW G, Moved(toModem, toModem', e, G),
           \A f \in G : f.what # "data" /\ (f.for \in Phones => ~Asking(f.for)'),
           \A f \in G : f.what \in {"close", "abort"} =>
              (\A s \in Slots : slot'[s].owner # f.for) /\ (f.what = "close" => f.for \in Phones /\ Whole(f.for))
    PROVE  Clean'
<1>1. /\ SlotsShrink /\ SocksShrink /\ \A s \in Slots : Live(s)' => Live(s) /\ slot'[s] = slot[s]
      /\ \A i \in Socks : sock'[i].fd # None => sock'[i] = sock[i]
  BY EndShrinks
<1>2. Types /\ Tenants /\ Coming /\ Unanswered /\ InOrder /\ Over /\ Requests /\ Cuts
  BY DEF Clean
<1>3. Tenants'
  BY <1>1, <1>2, TenantsStay
<1>4. Coming'
  <2>1. \A f \in F : f.what # "open" /\ (f.what # "hello" => f.for \in Phones /\ phone'[f.for].came)
    OBVIOUS
  <2> QED  BY <1>1, <1>2, <2>1, ComingStays
<1>5. Unanswered'
  <2> SUFFICES ASSUME NEW p \in Phones, Asking(p)' PROVE Quiet(p)'
    BY DEF Unanswered
  <2>1. \A f \in F : f.what # "open" /\ (f.for = p => f.what # "took")
    OBVIOUS
  <2>2. Asking(p)
    BY <1>1, <2>1, AskingBefore
  <2>3. Quiet(p)
    BY <1>2, <2>2 DEF Unanswered
  <2>4. ASSUME NEW f \in G PROVE f.for # p
    <3> SUFFICES ASSUME f.for = p PROVE FALSE
      OBVIOUS
    <3>1. ~Asking(f.for)'
      OBVIOUS
    <3> QED  BY <3>1
  <2>5. \A i \in Socks : sock'[i].fd = p => sock[i].fd = p /\ sock'[i].out = sock[i].out
    BY <1>1, Constants
  <2> QED  BY <2>1, <2>3, <2>4, <2>5, QuietStays
<1>6. InOrder'
  <2>1. \A i \in Socks : \/ sock'[i].fd = sock[i].fd /\ sock'[i].out = sock[i].out /\ sock'[i].head = sock[i].head
                         \/ sock'[i].out = <<>> /\ sock'[i].head = 0
    BY DEF SocksEnd, FreeSock
  <2>2. \A i \in Socks : sock'[i].fd \in Phones \cup {None}
    BY <1>1, <1>2, SockTyped DEF SocksShrink
  <2> QED  BY <1>1, <1>2, <2>1, <2>2, InOrderStays
<1>7. Over'
  <2>1. \A p \in Phones : Whole(p) => Whole(p)'
    BY DEF Whole
  <2>2. \A s \in Slots : slot'[s].owner \in {slot[s].owner, None}
    BY <1>1 DEF SlotsShrink
  <2> QED  BY <1>2, <2>1, <2>2, OverStays
<1>8. Requests'
  BY <1>1, <1>2, RequestsStay
<1>9. Cuts'
  <2>1. \A f \in F : f.what \notin {"open", "hello"} /\ (f.what = "gone" => f.for \in cut')
    OBVIOUS
  <2> QED  BY <1>1, <1>2, <2>1, CutsStay
<1> QED  BY <1>3, <1>4, <1>5, <1>6, <1>7, <1>8, <1>9 DEF Clean

\* What Saving needs, when no phone gets a byte.
LEMMA SavingSame ==
    ASSUME Clean, \A p \in Phones : phone'[p].got = phone[p].got, cut \subseteq cut', UNCHANGED <<saved, saver>>,
           \A p \in closed' \ closed : p \in Phones /\ Whole(p), SlotsEnd,
           \A s \in Slots : Live(s) /\ ~Live(s)' => slot[s].owner \in cut' \/ Whole(slot[s].owner)
    PROVE  Saving'
<1>1. Saving /\ closed \subseteq Phones /\ Tenants
  BY DEF Clean, Types
<1>2. \A p \in Phones : Whole(p) => Whole(p)'
  BY DEF Whole
<1>3. ASSUME NEW p \in Phones, Answering(p) PROVE Answering(p)' \/ p \in cut' \/ Whole(p)'
  <2>1. PICK s \in Slots : Live(s) /\ slot[s].owner = p /\ slot[s].responding
    BY <1>3 DEF Answering
  <2>2. CASE Live(s)'
    <3>1. slot'[s] = slot[s]
      BY <2>2 DEF SlotsEnd, FreeSlot, Live
    <3> QED  BY <2>1, <2>2, <3>1 DEF Answering
  <2>3. CASE ~Live(s)'
    BY <1>2, <2>1, <2>3
  <2> QED  BY <2>2, <2>3
<1>4. \A p \in closed' \ closed : Whole(p)'
  BY DEF Whole
<1> QED  BY <1>1, <1>2, <1>3, <1>4, SavingStays

\* Nothing moves.
LEMMA IdleClean ==
    ASSUME Clean, UNCHANGED <<sock, slot, toModem, toHost>>, Types', Saving', cut \subseteq cut',
           \A p \in Phones : phone'[p].got = phone[p].got /\ (phone[p].came => phone'[p].came)
    PROVE  Clean'
<1>1. SlotsEnd /\ SocksEnd /\ SlotsShrink
  BY DEF SlotsEnd, SocksEnd, SlotsShrink
<1>2. Types /\ Tenants /\ Order
  BY DEF Clean
<1>3. Order'
  BY <1>1, <1>2, OrderStays
<1>4. Confirmed'
  BY <1>1, ConfirmedSame
<1>5. Moved(toHost, toHost', 0, {}) /\ Moved(toModem, toModem', 0, {})
  BY <1>2, NotMoved, HostTyped, ModemTyped
<1> QED  BY <1>1, <1>3, <1>4, <1>5, CleanStays

LEMMA StoreClean ==
    ASSUME Clean, Store
    PROVE  Clean'
<1>1. UNCHANGED <<phone, sock, slot, toModem, toHost, cut, closed, saver>> /\ saved = "asked" /\ saved' = "stored"
  BY DEF Store, modem, history
<1>2. Types'
  BY <1>1 DEF Clean, Types
<1>3. Saving'
  BY <1>1 DEF Clean, Saving, Whole, Answering, Live
<1> QED  BY <1>1, <1>2, <1>3, IdleClean

LEMMA RebootClean ==
    ASSUME Clean, Reboot
    PROVE  Clean'
<1>1. UNCHANGED <<phone, sock, slot, toModem, toHost, cut, closed, saver>> /\ saved = "stored"
  BY DEF Reboot, modem, history
<1>2. saved' = "graced" \/ (saved' = "rebooted" /\ ~Busy)
  BY DEF Reboot
<1>3. Types'
  BY <1>1, <1>2 DEF Clean, Types
<1>4. ~Busy => \A p : ~Answering(p)
  BY DEF Busy, Answering
<1>5. Saving'
  <2>1. saver \in Phones /\ (saver \in cut \/ Whole(saver) \/ Answering(saver)) /\ \A p \in closed : Whole(p)
    BY <1>1 DEF Clean, Saving
  <2>2. saved' = "rebooted" => saver' \in cut' \/ Whole(saver)'
    BY <1>1, <1>2, <1>4, <2>1 DEF Whole
  <2>3. \A p \in closed' : Whole(p)'
    BY <1>1, <2>1 DEF Whole
  <2> QED  BY <1>1, <1>2, <2>1, <2>2, <2>3 DEF Saving
<1> QED  BY <1>1, <1>3, <1>5, IdleClean

LEMMA HangUpClean ==
    ASSUME Clean, NEW p \in Phones, HangUp(p)
    PROVE  Clean'
<1>1. UNCHANGED <<sock, slot, toModem, toHost, cut, closed, saver, saved>> /\ phone' = [phone EXCEPT ![p].left = TRUE]
  BY DEF HangUp, modem, host, history
<1>2. Types /\ phone \in [Phones -> [came : BOOLEAN, asked : Nat, got : Seq(Units), left : BOOLEAN]]
  BY DEF Clean, Types
<1>3. \A r \in Phones : phone'[r].got = phone[r].got /\ phone'[r].came = phone[r].came
  BY <1>1, <1>2
<1>4. Types'
  BY <1>1, <1>2 DEF Types
<1>5. SlotsEnd /\ \A s \in Slots : Live(s)' <=> Live(s)
  BY <1>1 DEF SlotsEnd, Live
<1>6. Saving'
  BY <1>1, <1>3, <1>5, SavingSame
<1> QED  BY <1>1, <1>3, <1>4, <1>6, IdleClean

-----------------------------------------------------------------------------
(* The kiosk takes a frame and opens, answers and confirms nothing. *)

LEMMA TakesClean ==
    ASSUME Clean, toHost # <<>>, toHost' = Tail(toHost), UNCHANGED <<phone, sock, cut, closed, saved, saver>>,
           SlotsEnd, slot' \in [Slots -> SlotType],
           toHost[1].what = "open" => Holder(toHost[1].id) = {},
           \A s \in Slots : Live(s)' => ~Ended(toHost[1], slot[s].sock, slot[s].owner) /\ TookOf(toHost[1], slot[s].sock) = 0,
           \A s \in Slots : Live(s) /\ ~Live(s)' => slot[s].owner \in cut \/ Whole(slot[s].owner),
           toModem' \in Seq(ModemFrames), Len(toModem') <= TX_RING, NEW G, Moved(toModem, toModem', 0, G),
           \A f \in G : f.what # "data" /\ (f.for \in Phones => ~Asking(f.for)'),
           \A f \in G : f.what \in {"close", "abort"} =>
              (\A s \in Slots : slot'[s].owner # f.for) /\ (f.what = "close" => f.for \in Phones /\ Whole(f.for))
    PROVE  Clean'
<1>1. Types /\ Tenants /\ Order /\ SocksEnd /\ sock' = sock
  BY DEF Clean, SocksEnd
<1>2. SlotsShrink
  BY <1>1, EndShrinks
<1>3. toHost' \in Seq(HostFrames) /\ Moved(toHost, toHost', 1, {})
  BY <1>1, TakenMoves
<1>4. Types'
  BY <1>1, <1>3 DEF Types, SlotType
<1>5. Order'
  BY <1>1, <1>2, OrderTakenShrink
<1>6. Confirmed'
  BY <1>1, ConfirmedTaken
<1>7. Saving'
  BY SavingSame
<1> QED  BY <1>1, <1>3, <1>4, <1>5, <1>6, <1>7, CleanStays

\* The slots, one of them free.
LEMMA FreesSlot ==
    ASSUME Types, NEW s \in Slots, slot' = [slot EXCEPT ![s] = FreeSlot]
    PROVE  /\ slot' \in [Slots -> SlotType] /\ SlotsEnd /\ slot'[s] = FreeSlot /\ ~Live(s)' /\ slot'[s].owner = None
           /\ \A t \in Slots \ {s} : slot'[t] = slot[t]
<1>1. slot \in [Slots -> SlotType]
  BY DEF Types, SlotType
<1>2. slot' \in [Slots -> SlotType] /\ slot'[s] = FreeSlot /\ \A t \in Slots \ {s} : slot'[t] = slot[t]
  BY <1>1, FreeTyped
<1>3. ~Live(s)' /\ slot'[s].owner = None
  BY <1>2 DEF Live, FreeSlot
<1> QED  BY <1>2, <1>3 DEF SlotsEnd

LEMMA KeepsSlots ==
    ASSUME Types, slot' = slot
    PROVE  slot' \in [Slots -> SlotType] /\ SlotsEnd /\ \A s \in Slots : Live(s)' <=> Live(s)
BY DEF Types, SlotType, SlotsEnd, Live

LEMMA OnGoneClean ==
    ASSUME Clean, OnGone
    PROVE  Clean'
<1>1. /\ toHost # <<>> /\ toHost' = Tail(toHost) /\ Head(toHost).what = "gone"
      /\ slot' = [s \in Slots |-> IF s \in Holder(Head(toHost).id) THEN FreeSlot ELSE slot[s]]
      /\ UNCHANGED <<phone, sock, saved, saver, toModem, cut, closed>>
  BY DEF OnGone, Taken, Message, modem, history
<1>2. Types /\ Tenants /\ Order /\ Cuts
  BY DEF Clean
<1>3. Head(toHost) = toHost[1] /\ 1 \in 1 .. Len(toHost)
  BY <1>1, <1>2, TakenMoves
<1>4. toHost[1].what = "gone" /\ slot' = [s \in Slots |-> IF s \in Holder(toHost[1].id) THEN FreeSlot ELSE slot[s]]
  BY <1>1, <1>3
<1>5. slot \in [Slots -> SlotType]
  BY <1>2 DEF Types, SlotType
<1>6. slot' \in [Slots -> SlotType] /\ SlotsEnd
  BY <1>4, <1>5, FreeTyped DEF SlotsEnd
<1>7. ASSUME NEW s \in Slots, Live(s)' PROVE ~Ended(toHost[1], slot[s].sock, slot[s].owner) /\ TookOf(toHost[1], slot[s].sock) = 0
  <2>1. s \notin Holder(toHost[1].id)
    BY <1>4, <1>7 DEF Live, FreeSlot
  <2> QED  BY <1>4, <2>1 DEF Ended, TookOf, Holder
<1>8. ASSUME NEW s \in Slots, Live(s), ~Live(s)' PROVE slot[s].owner \in cut
  <2>1. s \in Holder(toHost[1].id)
    BY <1>4, <1>8 DEF Live
  <2>2. slot[s].owner = toHost[1].for
    BY <1>1, <1>2, <1>4, <2>1, OwnFrame
  <2> QED  BY <1>2, <1>3, <1>4, <2>2 DEF Cuts
<1>9. Moved(toModem, toModem', 0, {}) /\ toModem' \in Seq(ModemFrames) /\ Len(toModem') <= TX_RING
  BY <1>1, <1>2, NotMoved, ModemTyped DEF Types
<1> QED  BY <1>1, <1>4, <1>6, <1>7, <1>8, <1>9, TakesClean

LEMMA OnHelloClean ==
    ASSUME Clean, OnHello
    PROVE  Clean'
<1>1. /\ toHost # <<>> /\ toHost' = Tail(toHost) /\ Head(toHost).what = "hello" /\ slot' = [s \in Slots |-> FreeSlot]
      /\ toModem' = Put(toModem, Listen) /\ UNCHANGED <<phone, sock, saved, saver, cut, closed>>
  BY DEF OnHello, Taken, modem, history
<1>2. Types /\ Tenants /\ Order /\ Cuts
  BY DEF Clean
<1>3. toHost[1].what = "hello" /\ 1 \in 1 .. Len(toHost)
  BY <1>1, <1>2, TakenMoves
<1>4. slot' \in [Slots -> SlotType] /\ SlotsEnd /\ \A s \in Slots : ~Live(s)'
  BY <1>1, FreeTyped DEF SlotsEnd, Live, FreeSlot
<1>5. \A s \in Slots : Live(s) => slot[s].owner \in cut
  BY <1>2, <1>3 DEF Cuts
<1>6. toModem' \in Seq(ModemFrames) /\ Len(toModem') <= TX_RING /\ Moved(toModem, toModem', 0, {Listen})
  BY <1>1, <1>2, ListenFrame, PutMoves
<1>7. \A f \in {Listen} : f.what = "listen" /\ f.for \notin Phones
  BY ListenFrame, Constants
<1>8. \A f \in {Listen} : f.what # "data" /\ (f.for \in Phones => ~Asking(f.for)')
  BY <1>7
<1>9. \A f \in {Listen} : f.what \in {"close", "abort"} =>
              (\A s \in Slots : slot'[s].owner # f.for) /\ (f.what = "close" => f.for \in Phones /\ Whole(f.for))
  BY <1>7
<1> QED  BY <1>1, <1>3, <1>4, <1>5, <1>6, <1>8, <1>9, TakesClean

LEMMA OnReadLate ==
    ASSUME Clean, toHost # <<>>, toHost' = Tail(toHost), toHost[1].what = "read",
           UNCHANGED <<phone, sock, cut, closed, saved, saver, slot, toModem>>
    PROVE  Clean'
<1>1. Types
  BY DEF Clean
<1>2. slot' \in [Slots -> SlotType] /\ SlotsEnd /\ \A s \in Slots : Live(s)' <=> Live(s)
  BY <1>1, KeepsSlots
<1>3. \A i, p : ~Ended(toHost[1], i, p) /\ TookOf(toHost[1], i) = 0
  BY DEF Ended, TookOf
<1>4. Moved(toModem, toModem', 0, {}) /\ toModem' \in Seq(ModemFrames) /\ Len(toModem') <= TX_RING
  BY <1>1, NotMoved, ModemTyped DEF Types
<1> QED  BY <1>2, <1>3, <1>4, TakesClean

LEMMA OnTookNobody ==
    ASSUME Clean, toHost # <<>>, toHost' = Tail(toHost), toHost[1].what = "took", Holder(toHost[1].id) = {},
           UNCHANGED <<phone, sock, cut, closed, saved, saver, slot, toModem>>
    PROVE  Clean'
<1>1. Types
  BY DEF Clean
<1>2. slot' \in [Slots -> SlotType] /\ SlotsEnd /\ \A s \in Slots : Live(s)' <=> Live(s)
  BY <1>1, KeepsSlots
<1>3. \A i, p : ~Ended(toHost[1], i, p)
  BY DEF Ended
<1>4. \A s \in Slots : TookOf(toHost[1], slot[s].sock) = 0
  BY DEF TookOf, Holder
<1>5. Moved(toModem, toModem', 0, {}) /\ toModem' \in Seq(ModemFrames) /\ Len(toModem') <= TX_RING
  BY <1>1, NotMoved, ModemTyped DEF Types
<1> QED  BY <1>2, <1>3, <1>4, <1>5, TakesClean

\* The phone of a connection is not known to have gone, and it is no other connection's.
LEMMA LiveFacts ==
    ASSUME Clean, NEW s \in Slots, Live(s)
    PROVE  /\ slot[s].sock \in Socks /\ slot[s].owner \in Phones /\ s \in Holder(slot[s].sock) /\ ~Told(slot[s].sock, slot[s].owner)
           /\ \A t \in Slots \ {s} : slot[t].owner # slot[s].owner /\ (Live(t) => slot[t].sock # slot[s].sock)
<1>1. Types /\ Tenants /\ Order
  BY DEF Clean
<1>2. slot[s].sock \in Socks /\ slot[s].owner \in Phones /\ s \in Holder(slot[s].sock)
  BY <1>1, LiveSlot
<1>3. Ends(toHost, slot[s].sock, slot[s].owner, 0, sock[slot[s].sock].fd) /\ 0 \in 0 .. Len(toHost)
  BY <1>1, HostTyped DEF Order
<1>4. ~Told(slot[s].sock, slot[s].owner)
  BY <1>1, <1>2, <1>3, NotTold
<1>5. \A t \in Slots \ {s} : slot[t].owner # slot[s].owner /\ (Live(t) => slot[t].sock # slot[s].sock)
  BY <1>1, <1>2 DEF Tenants
<1> QED  BY <1>2, <1>4, <1>5

\* An M_SOCK_SENT the kiosk takes counts units the socket has taken.
LEMMA TookFacts ==
    ASSUME Clean, toHost # <<>>, toHost' = Tail(toHost), toHost[1].what = "took", NEW s \in Holder(toHost[1].id)
    PROVE  /\ s \in Slots /\ Live(s) /\ slot[s].sock = toHost[1].id /\ slot[s].responding /\ toHost[1].n \in Nat
           /\ slot[s].acked + toHost[1].n <= Len(phone[slot[s].owner].got)
           /\ Counts(toHost', slot[s].sock, slot[s].acked + toHost[1].n, Len(phone[slot[s].owner].got))
<1>1. Types /\ Tenants /\ Order /\ Unanswered /\ Confirmed
  BY DEF Clean
<1>2. s \in Slots /\ Live(s) /\ slot[s].sock = toHost[1].id /\ slot[s].owner = toHost[1].for /\ slot[s].owner \in Phones
  BY <1>1, OwnFrame
<1>3. /\ Shifted(toHost, toHost') /\ 1 \in 1 .. Len(toHost) /\ toHost[1].n \in Nat /\ Len(toHost') \in Nat
      /\ slot[s].acked \in Nat /\ Len(phone[slot[s].owner].got) \in Nat
  BY <1>1, <1>2, TakenMoves, HostTyped, SlotTyped, PhoneTyped
<1>4. slot[s].responding
  <2> SUFFICES ASSUME ~slot[s].responding PROVE FALSE
    OBVIOUS
  <2>1. Asking(slot[s].owner)
    BY <1>2 DEF Asking
  <2>2. Quiet(slot[s].owner)
    BY <1>1, <1>2, <2>1 DEF Unanswered
  <2> QED  BY <1>2, <1>3, <2>2 DEF Quiet
<1>5. Counts(toHost, slot[s].sock, slot[s].acked, Len(phone[slot[s].owner].got))
  BY <1>1, <1>2, <1>4 DEF Confirmed
<1> DEFINE i == slot[s].sock
           a == slot[s].acked
           b == Len(phone[slot[s].owner].got)
<1>6. b \in Nat /\ Counts(toHost, i, a, b) /\ TookOf(toHost[1], i) = toHost[1].n
  BY <1>2, <1>3, <1>5 DEF TookOf
<1> HIDE DEF i, a, b
<1>7. Counts(toHost', i, a + TookOf(toHost[1], i), b)
  BY <1>3, <1>6, CountsShift
<1>8. a + TookOf(toHost[1], i) \in 0 .. b
  BY <1>3, <1>6, <1>7, CountsStart
<1>9. a + toHost[1].n <= b /\ Counts(toHost', i, a + toHost[1].n, b)
  BY <1>6, <1>7, <1>8
<1> QED  BY <1>2, <1>3, <1>4, <1>9 DEF i, a, b

\* The kiosk closes when the whole answer is confirmed.
LEMMA OnTookLast ==
    ASSUME Clean, toHost # <<>>, toHost' = Tail(toHost), toHost[1].what = "took", NEW s \in Holder(toHost[1].id),
           UNCHANGED <<phone, sock, cut, closed, saved, saver>>,
           slot[s].responding => slot[s].acked + toHost[1].n >= RESPONSE,
           toModem' = Put(toModem, Close(slot[s].sock, slot[s].owner)), slot' = [slot EXCEPT ![s] = FreeSlot]
    PROVE  Clean'
<1>1. Types /\ Tenants /\ Coming /\ InOrder
  BY DEF Clean
<1>2. /\ s \in Slots /\ Live(s) /\ slot[s].sock = toHost[1].id /\ slot[s].responding /\ toHost[1].n \in Nat
      /\ slot[s].acked + toHost[1].n <= Len(phone[slot[s].owner].got)
  BY TookFacts
<1>3. /\ slot[s].sock \in Socks /\ slot[s].owner \in Phones /\ ~Told(slot[s].sock, slot[s].owner)
      /\ \A t \in Slots \ {s} : slot[t].owner # slot[s].owner /\ (Live(t) => slot[t].sock # slot[s].sock)
  BY <1>2, LiveFacts
<1>4. Whole(slot[s].owner)
  <2> DEFINE g == phone[slot[s].owner].got
  <2>1. g \in Seq(Units) /\ Len(g) \in Nat /\ \A a \in 1 .. Len(g) : a <= g[a].k
    BY <1>1, <1>3, PhoneTyped DEF InOrder, GotInOrder
  <2>2. slot[s].acked \in Nat
    BY <1>1, <1>2, SlotTyped
  <2> HIDE DEF g
  <2>3. Len(g) <= RESPONSE
    BY <2>1, GotBounded
  <2>4. Len(g) >= RESPONSE
    BY <1>2, <2>1, <2>2, Constants DEF g
  <2>5. Len(g) = RESPONSE
    BY <2>1, <2>3, <2>4, Constants
  <2> QED  BY <2>5 DEF g, Whole
<1>5. /\ slot' \in [Slots -> SlotType] /\ SlotsEnd /\ slot'[s] = FreeSlot /\ ~Live(s)' /\ slot'[s].owner = None
      /\ \A t \in Slots \ {s} : slot'[t] = slot[t]
  BY <1>1, <1>2, FreesSlot
<1> DEFINE f == Close(slot[s].sock, slot[s].owner)
<1>6. f \in ModemFrames /\ f.what = "close" /\ f.for = slot[s].owner
  BY <1>3, EndFrames
<1> HIDE DEF f
<1>7. toModem' \in Seq(ModemFrames) /\ Len(toModem') <= TX_RING /\ Moved(toModem, toModem', 0, {f})
  BY <1>1, <1>6, PutMoves DEF f
<1>8. \A p \in Phones : p = slot[s].owner => ~Asking(p)'
  <2>1. Moved(toHost, toHost', 1, {})
    BY <1>1, TakenMoves
  <2>2. slot'[s].owner # slot[s].owner
    BY <1>3, <1>5, Constants
  <2> QED  BY <1>1, <1>2, <1>5, <2>1, <2>2, Asked
<1>9. \A g \in {f} : g.what # "data" /\ (g.for \in Phones => ~Asking(g.for)')
  BY <1>3, <1>6, <1>8
<1>10. \A t \in Slots : slot'[t].owner # slot[s].owner
  BY <1>3, <1>5, Constants
<1>11. \A g \in {f} : g.what \in {"close", "abort"} =>
              (\A t \in Slots : slot'[t].owner # g.for) /\ (g.what = "close" => g.for \in Phones /\ Whole(g.for))
  BY <1>3, <1>4, <1>6, <1>10
<1>12. ASSUME NEW t \in Slots, Live(t)' PROVE ~Ended(toHost[1], slot[t].sock, slot[t].owner) /\ TookOf(toHost[1], slot[t].sock) = 0
  <2>1. t # s /\ Live(t)
    BY <1>5, <1>12 DEF Live
  <2> QED  BY <1>2, <1>3, <2>1 DEF Ended, TookOf
<1>13. \A t \in Slots : Live(t) /\ ~Live(t)' => t = s
  BY <1>5 DEF Live
<1> QED  BY <1>4, <1>5, <1>7, <1>9, <1>11, <1>12, <1>13, TakesClean

\* A connection is given up.
LEMMA GiveUpClean ==
    ASSUME Clean, NEW s \in Slots, GiveUp(s)
    PROVE  Clean'
<1>1. /\ Live(s) /\ toModem' = Put(toModem, Abort(slot[s].sock, slot[s].owner)) /\ slot' = [slot EXCEPT ![s] = FreeSlot]
      /\ cut' = cut \cup {slot[s].owner} /\ UNCHANGED <<phone, sock, saved, saver, toHost, closed>>
  BY DEF GiveUp, Shutdown, modem
<1>2. Types /\ Tenants /\ Coming /\ Order
  BY DEF Clean
<1>3. /\ slot[s].sock \in Socks /\ slot[s].owner \in Phones /\ ~Told(slot[s].sock, slot[s].owner)
      /\ \A t \in Slots \ {s} : slot[t].owner # slot[s].owner
  BY <1>1, LiveFacts
<1>4. /\ slot' \in [Slots -> SlotType] /\ SlotsEnd /\ slot'[s] = FreeSlot /\ ~Live(s)' /\ slot'[s].owner = None
      /\ \A t \in Slots \ {s} : slot'[t] = slot[t]
  BY <1>1, <1>2, FreesSlot
<1> DEFINE f == Abort(slot[s].sock, slot[s].owner)
<1>5. f \in ModemFrames /\ f.what = "abort" /\ f.for = slot[s].owner
  BY <1>3, EndFrames
<1> HIDE DEF f
<1>6. toModem' \in Seq(ModemFrames) /\ Len(toModem') <= TX_RING /\ Moved(toModem, toModem', 0, {f})
  BY <1>1, <1>2, <1>5, PutMoves DEF f
<1>7. Moved(toHost, toHost', 0, {})
  BY <1>1, <1>2, NotMoved, HostTyped
<1>8. \A p \in Phones : p = slot[s].owner => ~Asking(p)'
  <2>1. slot'[s].owner # slot[s].owner
    BY <1>3, <1>4, Constants
  <2>2. phone[slot[s].owner].came => phone'[slot[s].owner].came
    BY <1>1
  <2> QED  BY <1>1, <1>2, <1>4, <1>7, <2>1, <2>2, Asked
<1>9. \A g \in {f} : g.what # "data" /\ (g.for \in Phones => ~Asking(g.for)')
  BY <1>3, <1>5, <1>8
<1>10. \A g \in {f} : g.what \in {"close", "abort"} =>
              (\A t \in Slots : slot'[t].owner # g.for) /\ (g.what = "close" => g.for \in Phones /\ Whole(g.for))
  BY <1>3, <1>4, <1>5, Constants
<1>11. SocksEnd /\ SlotsShrink
  BY <1>1, <1>4, EndShrinks DEF SocksEnd
<1>12. Order'
  BY <1>1, <1>2, <1>11, OrderStays
<1>13. Confirmed'
  BY <1>1, <1>4, <1>11, ConfirmedSame
<1>14. Types'
  BY <1>1, <1>2, <1>3, <1>4, <1>6 DEF Types, SlotType
<1>15. Saving'
  <2>1. \A t \in Slots : Live(t) /\ ~Live(t)' => slot[t].owner \in cut'
    BY <1>1, <1>4 DEF Live
  <2> QED  BY <1>1, <1>4, <2>1, SavingSame
<1> QED  BY <1>1, <1>4, <1>6, <1>7, <1>9, <1>10, <1>11, <1>12, <1>13, <1>14, <1>15, CleanStays

-----------------------------------------------------------------------------
(* M_SOCK_OPEN: the kiosk has no connection of that number left, and none of that phone. *)

LEMMA OpenFacts ==
    ASSUME Clean, toHost # <<>>, toHost' = Tail(toHost), toHost[1].what = "open", NEW i, i = toHost[1].id, NEW p, p = toHost[1].for
    PROVE  /\ i \in Socks /\ p \in Phones /\ phone[p].came /\ Holder(i) = {} /\ Ends(toHost, i, p, 1, sock[i].fd) /\ ~Told(i, p)
           /\ Quiet(p) /\ \A s \in Slots : slot[s].owner # p
           /\ \A j \in 1 .. Len(toHost') : toHost'[j].what = "open" => toHost'[j].for # p
<1>1. Types /\ Tenants /\ Order /\ Coming /\ Unanswered
  BY DEF Clean
<1>2. /\ 1 \in 1 .. Len(toHost) /\ Shifted(toHost, toHost') /\ Len(toHost') \in Nat /\ Len(toHost) \in Nat
      /\ i \in Socks /\ p \in Phones
  BY <1>1, TakenMoves, HostTyped
<1>3. phone[p].came /\ \A s \in Slots : slot[s].owner # p
  BY <1>1, <1>2 DEF Coming
<1>4. Holder(i) = {}
  <2> SUFFICES ASSUME NEW s \in Holder(i) PROVE FALSE
    OBVIOUS
  <2>1. s \in Slots /\ Live(s) /\ slot[s].sock = i
    BY <1>1, <1>2, Held
  <2>2. Ends(toHost, i, slot[s].owner, 0, sock[i].fd)
    BY <1>1, <2>1 DEF Order
  <2>3. ~Ended(toHost[1], i, slot[s].owner) /\ IsOpen(toHost[1], i)
    BY DEF Ended, IsOpen
  <2> QED  BY <1>2, <2>2, <2>3, EndsTaken
<1>5. Ends(toHost, i, p, 1, sock[i].fd) /\ 1 \in 0 .. Len(toHost)
  BY <1>1, <1>2 DEF Order
<1>6. ~Told(i, p)
  BY <1>1, <1>2, <1>5, NotTold
<1>7. Quiet(p)
  BY <1>1, <1>2 DEF Unanswered, Asking
<1>8. ASSUME NEW j \in 1 .. Len(toHost'), toHost'[j].what = "open" PROVE toHost'[j].for # p
  <2>1. j + 1 \in 1 .. Len(toHost) /\ toHost'[j] = toHost[j + 1] /\ j + 1 # 1
    BY <1>2 DEF Shifted
  <2> QED  BY <1>1, <1>2, <1>8, <2>1 DEF Coming
<1> QED  BY <1>2, <1>3, <1>4, <1>5, <1>6, <1>7, <1>8

\* The kiosk has no place for it.
LEMMA OnOpenNoPlace ==
    ASSUME Clean, toHost # <<>>, toHost' = Tail(toHost), toHost[1].what = "open",
           UNCHANGED <<phone, sock, cut, closed, saved, saver, slot>>, toModem' = Put(toModem, Abort(toHost[1].id, toHost[1].for))
    PROVE  Clean'
<1> DEFINE i == toHost[1].id
           p == toHost[1].for
           f == Abort(toHost[1].id, toHost[1].for)
<1>1. /\ i \in Socks /\ p \in Phones /\ phone[p].came /\ Holder(i) = {} /\ ~Told(i, p) /\ \A s \in Slots : slot[s].owner # p
      /\ \A j \in 1 .. Len(toHost') : toHost'[j].what = "open" => toHost'[j].for # p
  BY OpenFacts
<1>2. Types
  BY DEF Clean
<1>3. slot' \in [Slots -> SlotType] /\ SlotsEnd /\ \A s \in Slots : Live(s)' <=> Live(s)
  BY <1>2, KeepsSlots
<1>4. f \in ModemFrames /\ f.what = "abort" /\ f.for = p
  BY <1>1, EndFrames
<1>5. toModem' \in Seq(ModemFrames) /\ Len(toModem') <= TX_RING /\ Moved(toModem, toModem', 0, {f})
  BY <1>2, <1>4, PutMoves
<1>6. \A q \in Phones : q = p => ~Asking(q)'
  BY <1>1 DEF Asking
<1> HIDE DEF f
<1>7. \A g \in {f} : g.what # "data" /\ (g.for \in Phones => ~Asking(g.for)')
  <2> SUFFICES ASSUME NEW g, g = f, g.for \in Phones PROVE ~Asking(g.for)'
    BY <1>4
  <2>1. \A q \in Phones : q = g.for => ~Asking(q)'
    BY <1>4, <1>6
  <2> QED  BY <2>1
<1>8. \A g \in {f} : g.what \in {"close", "abort"} =>
              (\A s \in Slots : slot'[s].owner # g.for) /\ (g.what = "close" => g.for \in Phones /\ Whole(g.for))
  BY <1>1, <1>4
<1>9. \A k, q : ~Ended(toHost[1], k, q) /\ TookOf(toHost[1], k) = 0
  BY DEF Ended, TookOf
<1> QED  BY <1>1, <1>3, <1>5, <1>7, <1>8, <1>9, TakesClean

\* It has one.
LEMMA OnOpenPlace ==
    ASSUME Clean, toHost # <<>>, toHost' = Tail(toHost), toHost[1].what = "open", NEW s \in Slots, ~Live(s),
           UNCHANGED <<phone, sock, cut, closed, saved, saver, toModem>>,
           slot' = [slot EXCEPT ![s] = [FreeSlot EXCEPT !.sock = toHost[1].id, !.owner = toHost[1].for]]
    PROVE  Clean'
<1> DEFINE i == toHost[1].id
           p == toHost[1].for
<1>1. /\ i \in Socks /\ p \in Phones /\ phone[p].came /\ Holder(i) = {} /\ Ends(toHost, i, p, 1, sock[i].fd)
      /\ Quiet(p) /\ \A t \in Slots : slot[t].owner # p
      /\ \A j \in 1 .. Len(toHost') : toHost'[j].what = "open" => toHost'[j].for # p
  BY OpenFacts
<1>2. Types /\ Tenants /\ Order /\ Coming /\ Unanswered /\ InOrder /\ Over /\ Confirmed /\ Requests /\ Cuts /\ Saving
  BY DEF Clean
<1>3. /\ toHost' \in Seq(HostFrames) /\ Shifted(toHost, toHost') /\ Len(toHost') \in Nat /\ Moved(toHost, toHost', 1, {})
      /\ 1 \in 1 .. Len(toHost)
  BY <1>2, TakenMoves
<1>4. Moved(toModem, toModem', 0, {})
  BY <1>2, NotMoved, ModemTyped
<1>5. /\ slot'[s].sock = i /\ slot'[s].owner = p /\ slot'[s].of = <<>> /\ slot'[s].responding = FALSE
      /\ slot'[s].sent = 0 /\ slot'[s].acked = 0
      /\ \A t \in Slots \ {s} : slot'[t] = slot[t]
      /\ slot' \in [Slots -> SlotType]
  <2> DEFINE c == [FreeSlot EXCEPT !.sock = i, !.owner = p]
  <2>1. slot \in [Slots -> SlotType]
    BY <1>2 DEF Types, SlotType
  <2>2. c.sock = i /\ c.owner = p /\ c.of = <<>> /\ c.responding = FALSE /\ c.sent = 0 /\ c.acked = 0
    BY DEF FreeSlot
  <2>3. c \in SlotType
    BY <1>1, FreeTyped DEF SlotType
  <2> HIDE DEF c
  <2>4. slot' = [slot EXCEPT ![s] = c]
    BY DEF c
  <2>5. slot'[s] = c /\ slot' \in [Slots -> SlotType] /\ \A t \in Slots \ {s} : slot'[t] = slot[t]
    BY <2>1, <2>3, <2>4
  <2> QED  BY <2>2, <2>5
<1>6. \A t \in Slots : Live(t)' <=> (t = s \/ Live(t))
  BY <1>1, <1>5, Constants DEF Live
<1>7. \A t \in Slots : Live(t)' /\ t # s => Live(t) /\ slot'[t] = slot[t]
  BY <1>5, <1>6
<1>8. Types'
  BY <1>2, <1>3, <1>5 DEF Types, SlotType
<1>9. Tenants'
  <2>1. \A t \in Slots : Live(t)' <=> slot'[t].owner \in Phones
    BY <1>1, <1>2, <1>5, <1>6 DEF Tenants
  <2>2. \A t \in Slots : Live(t) => slot[t].sock # i /\ slot[t].owner # p
    BY <1>1 DEF Holder
  <2>3. \A t, r \in Slots : Live(t)' /\ Live(r)' /\ t # r => slot'[t].sock # slot'[r].sock /\ slot'[t].owner # slot'[r].owner
    BY <1>2, <1>5, <1>7, <2>2 DEF Tenants
  <2> QED  BY <1>2, <2>1, <2>3 DEF Tenants
<1>10. Order'
  <2>1. ASSUME NEW k \in Socks, ~Voids(toHost[1], k) PROVE Owners(slot', k) \subseteq Owners(slot, k)
    <3>1. k # i
      BY <2>1 DEF Voids, IsOpen
    <3> QED  BY <1>5, <3>1 DEF Owners
  <2>2. Owners(slot', i) \subseteq {p}
    BY <1>1, <1>5 DEF Owners, Holder
  <2>3. ASSUME NEW t \in Slots, Live(t)' PROVE Ends(toHost', slot'[t].sock, slot'[t].owner, 0, sock[slot'[t].sock].fd)
    <3>1. CASE t = s
      <4>1. Ends(toHost', i, p, 0, sock[i].fd)
        <5>1. Ends(toHost, i, p, 0 + 1, sock[i].fd)
          BY <1>1
        <5> QED  BY <1>3, <5>1, EndsShifts
      <4> QED  BY <1>5, <3>1, <4>1
    <3>2. CASE t # s
      <4>1. Live(t) /\ slot'[t] = slot[t]
        BY <1>7, <2>3, <3>2
      <4>2. Ends(toHost, slot[t].sock, slot[t].owner, 0, sock[slot[t].sock].fd)
        BY <1>2, <4>1 DEF Order
      <4>3. ~Ended(toHost[1], slot[t].sock, slot[t].owner)
        BY DEF Ended
      <4> QED  BY <1>3, <4>1, <4>2, <4>3, EndsTaken
    <3> QED  BY <3>1, <3>2
  <2> QED  BY <1>2, <2>1, <2>2, <2>3, OrderTaken
<1>11. Coming'
  <2>1. \A t \in Slots : Live(t)' => phone'[slot'[t].owner].came
    BY <1>1, <1>2, <1>5, <1>7 DEF Coming
  <2>2. \A j \in 1 .. Len(toHost') : j + 1 \in 1 .. Len(toHost) /\ toHost'[j] = toHost[j + 1]
    BY <1>3 DEF Shifted
  <2>3. \A j, k \in 1 .. Len(toHost') : j # k => j + 1 # k + 1
    BY <1>3
  <2>4. \A j, k \in 1 .. Len(toHost') :
          j # k /\ toHost'[j].what = "open" /\ toHost'[k].what = "open" => toHost'[j].for # toHost'[k].for
    BY <1>2, <2>2, <2>3 DEF Coming
  <2>5. \A j \in 1 .. Len(toHost') : toHost'[j].what = "open" => \A t \in Slots : slot'[t].owner # toHost'[j].for
    BY <1>1, <1>2, <1>5, <2>2 DEF Coming
  <2>6. \A j \in 1 .. Len(toHost') : toHost'[j].what # "hello" => phone'[toHost'[j].for].came
    BY <1>2, <2>2 DEF Coming
  <2>7. \A k \in Socks : sock'[k].fd # None => phone'[sock'[k].fd].came
    BY <1>2 DEF Coming
  <2> QED  BY <2>1, <2>4, <2>5, <2>6, <2>7 DEF Coming
<1>12. Unanswered'
  <2> SUFFICES ASSUME NEW q \in Phones, Asking(q)' PROVE Quiet(q)'
    BY DEF Unanswered
  <2>1. Quiet(q)
    <3>1. CASE q = p
      BY <1>1, <3>1
    <3>2. CASE ~phone'[q].came
      BY <1>2, <3>2 DEF Asking, Unanswered
    <3>3. CASE \E j \in 1 .. Len(toHost') : toHost'[j].what = "open" /\ toHost'[j].for = q
      <4>1. Asking(q)
        BY <1>3, <3>3 DEF Asking, Moved
      <4> QED  BY <1>2, <4>1 DEF Unanswered
    <3>4. CASE q # p /\ \E t \in Slots : Live(t)' /\ slot'[t].owner = q /\ ~slot'[t].responding
      <4>1. Asking(q)
        BY <1>5, <1>7, <3>4 DEF Asking
      <4> QED  BY <1>2, <4>1 DEF Unanswered
    <3> QED  BY <3>1, <3>2, <3>3, <3>4 DEF Asking
  <2> QED  BY <1>3, <1>4, <2>1, QuietStays
<1>13. InOrder'
  <2>1. \A t \in Slots : Live(t)' /\ slot'[t].responding =>
              Live(t) /\ slot[t].responding /\ slot'[t].owner = slot[t].owner /\ slot'[t].sent = slot[t].sent
    BY <1>5, <1>7
  <2>2. \A k \in Socks : sock'[k].fd \in Phones \cup {None}
    BY <1>2, SockTyped
  <2> QED  BY <1>2, <1>4, <2>1, <2>2, InOrderStays
<1>14. Over'
  <2>1. \A j \in 1 .. Len(toModem) : toModem[j].for # p
    BY <1>1 DEF Quiet
  <2>2. \A t \in Slots : slot'[t].owner \in {slot[t].owner, None} \/ \A j \in 1 .. Len(toModem) : toModem[j].for # slot'[t].owner
    BY <1>5, <2>1
  <2> QED  BY <1>2, <1>4, <2>2, OverStays DEF Whole
<1>15. Confirmed'
  <2> SUFFICES ASSUME NEW t \in Slots, Live(t)'
               PROVE  /\ slot'[t].sent <= slot'[t].acked + PORTAL_SOCK_WINDOW
                      /\ slot'[t].responding => Counts(toHost', slot'[t].sock, slot'[t].acked, Len(phone[slot'[t].owner].got))
    BY DEF Confirmed
  <2>1. CASE t = s
    <3>1. 0 <= 0 + PORTAL_SOCK_WINDOW
      BY Constants
    <3> QED  BY <1>5, <2>1, <3>1
  <2>2. CASE t # s
    <3>1. Live(t) /\ slot'[t] = slot[t]
      BY <1>7, <2>2
    <3>2. /\ slot[t].sent <= slot[t].acked + PORTAL_SOCK_WINDOW
          /\ slot[t].responding => Counts(toHost, slot[t].sock, slot[t].acked, Len(phone[slot[t].owner].got))
      BY <1>2, <3>1 DEF Confirmed
    <3> DEFINE a == slot[t].acked
               b == Len(phone[slot[t].owner].got)
               k == slot[t].sock
    <3>3. a \in Nat /\ b \in Nat /\ TookOf(toHost[1], k) = 0
      BY <1>2, <3>1, LiveSlot, SlotTyped, PhoneTyped DEF TookOf
    <3> HIDE DEF a, b, k
    <3>4. Counts(toHost, k, a, b) => Counts(toHost', k, a + TookOf(toHost[1], k), b)
      BY <1>3, <3>3, CountsShift
    <3>5. Counts(toHost, k, a, b) => Counts(toHost', k, a, b)
      BY <3>3, <3>4
    <3> QED  BY <3>1, <3>2, <3>5 DEF a, b, k
  <2> QED  BY <2>1, <2>2
<1>16. Requests'
  <2> SUFFICES ASSUME NEW t \in Slots, Live(t)'
               PROVE  /\ \A a \in 1 .. Len(slot'[t].of) : slot'[t].of[a] = slot'[t].owner
                      /\ IF slot'[t].responding THEN Len(slot'[t].of) = REQUEST ELSE Len(slot'[t].of) < REQUEST
    BY DEF Requests
  <2>1. CASE t = s
    <3>1. Len(<<>>) = 0 /\ 0 < REQUEST
      BY Constants
    <3>2. slot'[t].of = <<>> /\ slot'[t].responding = FALSE
      BY <1>5, <2>1
    <3>3. Len(slot'[t].of) = 0 /\ Len(slot'[t].of) < REQUEST
      BY <3>1, <3>2
    <3>4. \A a \in 1 .. Len(slot'[t].of) : FALSE
      BY <3>3
    <3> QED  BY <3>2, <3>3, <3>4
  <2>2. CASE t # s
    BY <1>2, <1>7, <2>2 DEF Requests
  <2> QED  BY <2>1, <2>2
<1>17. Cuts'
  <2>1. \A j \in 1 .. Len(toHost') : j + 1 \in 1 .. Len(toHost) /\ toHost'[j] = toHost[j + 1] /\ 1 < j + 1
    BY <1>3 DEF Shifted
  <2>2. \A j, k \in 1 .. Len(toHost') : j < k => j + 1 < k + 1
    BY <1>3
  <2>3. \A j \in 1 .. Len(toHost') : toHost'[j].what = "gone" => toHost'[j].for \in cut'
    BY <1>2, <2>1 DEF Cuts
  <2>4. \A j, k \in 1 .. Len(toHost') : j < k /\ toHost'[j].what = "open" /\ toHost'[k].what = "hello" => toHost'[j].for \in cut'
    BY <1>2, <2>1, <2>2 DEF Cuts
  <2>5. ASSUME NEW k \in 1 .. Len(toHost'), toHost'[k].what = "hello", NEW t \in Slots, Live(t)' PROVE slot'[t].owner \in cut'
    <3>1. CASE t = s
      BY <1>2, <1>3, <1>5, <2>1, <2>5, <3>1 DEF Cuts
    <3>2. CASE t # s
      BY <1>2, <1>7, <2>1, <2>5, <3>2 DEF Cuts
    <3> QED  BY <3>1, <3>2
  <2> QED  BY <2>3, <2>4, <2>5 DEF Cuts
<1>18. Saving'
  <2>1. \A t \in Slots : Live(t) /\ slot[t].responding => Live(t)' /\ slot'[t].responding /\ slot'[t].owner = slot[t].owner
    BY <1>5, <1>6
  <2>2. \A q \in Phones : Answering(q) => Answering(q)'
    BY <2>1, AnsweringStays
  <2>3. closed \subseteq Phones
    BY <1>2 DEF Types
  <2> QED  BY <1>2, <2>2, <2>3, SavingStays DEF Whole
<1> QED  BY <1>8, <1>9, <1>10, <1>11, <1>12, <1>13, <1>14, <1>15, <1>16, <1>17, <1>18 DEF Clean

-----------------------------------------------------------------------------
(* A connection of the kiosk goes on: more of its request, or more of its answer. *)

GoesOn(s) ==
    /\ s \in Slots /\ Live(s) /\ slot'[s].sock = slot[s].sock /\ slot'[s].owner = slot[s].owner
    /\ \A t \in Slots \ {s} : slot'[t] = slot[t]
    /\ slot[s].responding => slot'[s].responding
    /\ slot' \in [Slots -> SlotType]
    /\ UNCHANGED <<phone, sock, cut, closed>>

LEMMA GoingOn ==
    ASSUME NEW s, GoesOn(s)
    PROVE  /\ SlotsShrink /\ SocksShrink /\ \A t \in Slots : Live(t)' <=> Live(t)
           /\ \A t \in Slots : slot'[t].sock = slot[t].sock /\ slot'[t].owner = slot[t].owner
           /\ \A p \in Phones : Answering(p) => Answering(p)'
<1>1. \A t \in Slots : (Live(t)' <=> Live(t)) /\ slot'[t].sock = slot[t].sock /\ slot'[t].owner = slot[t].owner
  BY DEF GoesOn, Live
<1>2. \A t \in Slots : Live(t) /\ slot[t].responding => Live(t)' /\ slot'[t].responding /\ slot'[t].owner = slot[t].owner
  BY <1>1 DEF GoesOn
<1>3. \A p \in Phones : Answering(p) => Answering(p)'
  BY <1>2, AnsweringStays
<1>4. SocksShrink
  BY DEF GoesOn, SocksShrink
<1> QED  BY <1>1, <1>3, <1>4 DEF SlotsShrink

LEMMA GoesOnClean ==
    ASSUME Clean, NEW s, GoesOn(s), Types', Order', Confirmed', InOrder', Requests', Saving',
           NEW d, Moved(toHost, toHost', d, {}), NEW G, Moved(toModem, toModem', 0, G),
           \A f \in G : slot'[s].responding /\ f \in DataTo(slot[s].owner)
    PROVE  Clean'
<1>1. Types /\ Tenants /\ Coming /\ Unanswered /\ Over /\ Cuts
  BY DEF Clean
<1>2. /\ SlotsShrink /\ SocksShrink /\ \A t \in Slots : Live(t)' <=> Live(t)
      /\ \A t \in Slots : slot'[t].sock = slot[t].sock /\ slot'[t].owner = slot[t].owner
  BY GoingOn
<1>3. UNCHANGED <<phone, sock, cut, closed>> /\ s \in Slots /\ Live(s)
  BY DEF GoesOn
<1>4. Tenants'
  BY <1>1, <1>2, TenantsStay
<1>5. Coming'
  BY <1>1, <1>2, <1>3, ComingStays
<1>6. Unanswered'
  <2> SUFFICES ASSUME NEW p \in Phones, Asking(p)' PROVE Quiet(p)'
    BY DEF Unanswered
  <2>1. \A t \in Slots : Live(t)' /\ ~slot'[t].responding => Live(t) /\ ~slot[t].responding /\ slot'[t].owner = slot[t].owner
    BY <1>2 DEF GoesOn
  <2>2. Asking(p)
    BY <1>3, <2>1, AskingBefore
  <2>3. Quiet(p)
    BY <1>1, <2>2 DEF Unanswered
  <2>4. ASSUME NEW f \in G PROVE f.for # p
    <3> SUFFICES ASSUME f.for = p PROVE FALSE
      OBVIOUS
    <3>1. slot'[s].responding /\ p = slot[s].owner
      BY DEF DataTo
    <3>2. \A t \in Slots : t # s => slot'[t] = slot[t]
      BY DEF GoesOn
    <3>3. phone[slot[s].owner].came => phone'[slot[s].owner].came
      BY <1>3
    <3>4. \A q \in Phones : q = slot[s].owner => ~Asking(q)'
      BY <1>1, <1>3, <3>1, <3>2, <3>3, Asked
    <3> QED  BY <3>1, <3>4
  <2> QED  BY <1>3, <2>3, <2>4, QuietStays
<1>7. Over'
  <2>1. \A t \in Slots : slot'[t].owner \in {slot[t].owner, None}
    BY <1>2
  <2>2. \A f \in G : f.what \notin {"close", "abort"}
    BY DEF DataTo
  <2>3. \A p \in Phones : Whole(p) => Whole(p)'
    BY <1>3 DEF Whole
  <2> QED  BY <1>1, <2>1, <2>2, <2>3, OverStays
<1>8. Cuts'
  BY <1>1, <1>2, <1>3, CutsStay
<1> QED  BY <1>4, <1>5, <1>6, <1>7, <1>8 DEF Clean

LEMMA GoesOnSaving ==
    ASSUME Clean, NEW s, GoesOn(s), UNCHANGED <<saved, saver>>
    PROVE  Saving'
<1>1. Saving /\ closed \subseteq Phones
  BY DEF Clean, Types
<1>2. UNCHANGED <<phone, cut, closed>> /\ \A p \in Phones : Answering(p) => Answering(p)'
  BY GoingOn DEF GoesOn
<1>3. \A p \in Phones : Whole(p) => Whole(p)'
  BY <1>2 DEF Whole
<1> QED  BY <1>1, <1>2, <1>3, SavingStays

\* What is confirmed to the other connections is as it was.
LEMMA GoesOnConfirmed ==
    ASSUME Clean, NEW s, GoesOn(s),
           slot'[s].sent <= slot'[s].acked + PORTAL_SOCK_WINDOW,
           slot'[s].responding => Counts(toHost', slot[s].sock, slot'[s].acked, Len(phone[slot[s].owner].got)),
           \/ toHost' = toHost
           \/ toHost # <<>> /\ toHost' = Tail(toHost) /\ \A t \in Slots \ {s} : Live(t) => TookOf(toHost[1], slot[t].sock) = 0
    PROVE  Confirmed'
<1> SUFFICES ASSUME NEW t \in Slots, Live(t)'
             PROVE  /\ slot'[t].sent <= slot'[t].acked + PORTAL_SOCK_WINDOW
                    /\ slot'[t].responding => Counts(toHost', slot'[t].sock, slot'[t].acked, Len(phone[slot'[t].owner].got))
  BY DEF Confirmed, GoesOn
<1>1. CASE t = s
  BY <1>1 DEF GoesOn
<1>2. CASE t # s
  <2>1. Live(t) /\ slot'[t] = slot[t] /\ Types /\ Tenants
    BY <1>2, GoingOn DEF GoesOn, Clean
  <2>2. /\ slot[t].sent <= slot[t].acked + PORTAL_SOCK_WINDOW
        /\ slot[t].responding => Counts(toHost, slot[t].sock, slot[t].acked, Len(phone[slot[t].owner].got))
    BY <2>1 DEF Clean, Confirmed
  <2> DEFINE a == slot[t].acked
             b == Len(phone[slot[t].owner].got)
             k == slot[t].sock
  <2>3. a \in Nat /\ b \in Nat
    BY <2>1, LiveSlot, SlotTyped, PhoneTyped
  <2>4. CASE toHost' = toHost
    BY <2>1, <2>2, <2>4
  <2>5. CASE toHost # <<>> /\ toHost' = Tail(toHost) /\ TookOf(toHost[1], k) = 0
    <3>1. Shifted(toHost, toHost') /\ Len(toHost') \in Nat
      BY <2>1, <2>5, TakenMoves
    <3> HIDE DEF a, b, k
    <3>2. Counts(toHost, k, a, b) => Counts(toHost', k, a + TookOf(toHost[1], k), b)
      BY <2>3, <3>1, CountsShift
    <3>3. Counts(toHost, k, a, b) => Counts(toHost', k, a, b)
      BY <2>3, <2>5, <3>2
    <3> QED  BY <2>1, <2>2, <3>3 DEF a, b, k
  <2> QED  BY <1>2, <2>1, <2>4, <2>5
<1> QED  BY <1>1, <1>2

LEMMA GoesOnRequests ==
    ASSUME Clean, NEW s, GoesOn(s), \A a \in 1 .. Len(slot'[s].of) : slot'[s].of[a] = slot[s].owner,
           IF slot'[s].responding THEN Len(slot'[s].of) = REQUEST ELSE Len(slot'[s].of) < REQUEST
    PROVE  Requests'
<1> SUFFICES ASSUME NEW t \in Slots, Live(t)'
             PROVE  /\ \A a \in 1 .. Len(slot'[t].of) : slot'[t].of[a] = slot'[t].owner
                    /\ IF slot'[t].responding THEN Len(slot'[t].of) = REQUEST ELSE Len(slot'[t].of) < REQUEST
  BY DEF Requests
<1>1. CASE t = s
  BY <1>1 DEF GoesOn
<1>2. CASE t # s
  <2>1. Live(t) /\ slot'[t] = slot[t]
    BY <1>2, GoingOn DEF GoesOn
  <2> QED  BY <2>1 DEF Clean, Requests
<1> QED  BY <1>1, <1>2

\* The order of the frames, when the one taken opens and ends nothing.
LEMMA GoesOnOrder ==
    ASSUME Clean, NEW s, GoesOn(s),
           \/ toHost' = toHost
           \/ toHost # <<>> /\ toHost' = Tail(toHost) /\ toHost[1].what \in {"read", "took"}
    PROVE  Order'
<1>1. Types /\ Tenants /\ Order /\ SlotsShrink /\ sock' = sock
  BY GoingOn DEF Clean, GoesOn
<1>2. CASE toHost' = toHost
  BY <1>1, <1>2, OrderStays
<1>3. CASE toHost # <<>> /\ toHost' = Tail(toHost) /\ toHost[1].what \in {"read", "took"}
  <2>1. \A i, p : ~Ended(toHost[1], i, p)
    BY <1>3 DEF Ended
  <2>2. toHost[1].what # "open"
    BY <1>3
  <2> QED  BY <1>1, <1>3, <2>1, <2>2, OrderTakenShrink
<1> QED  BY <1>2, <1>3

\* A part of a request that the kiosk reads is of the connection's own phone.
LEMMA ReadFacts ==
    ASSUME Clean, toHost # <<>>, toHost' = Tail(toHost), toHost[1].what = "read", NEW s \in Holder(toHost[1].id), ~slot[s].responding,
           NEW of, of = Append(slot[s].of, toHost[1].for)
    PROVE  /\ s \in Slots /\ Live(s) /\ of \in Seq(Phones) /\ Len(of) \in Nat /\ Len(of) <= REQUEST /\ Len(of) >= 1
           /\ slot[s].owner \in Phones /\ Quiet(slot[s].owner) /\ \A a \in 1 .. Len(of) : of[a] = slot[s].owner
           /\ ToSet(of) = {slot[s].owner}
<1>1. Types /\ Tenants /\ Order /\ Unanswered /\ Requests
  BY DEF Clean
<1>2. s \in Slots /\ Live(s) /\ slot[s].owner = toHost[1].for /\ slot[s].owner \in Phones
  BY <1>1, OwnFrame
<1>3. Quiet(slot[s].owner)
  <2>1. Asking(slot[s].owner)
    BY <1>2 DEF Asking
  <2> QED  BY <1>1, <1>2, <2>1 DEF Unanswered
<1>4. /\ slot[s].of \in Seq(Phones) /\ Len(slot[s].of) \in Nat /\ Len(slot[s].of) < REQUEST
      /\ \A a \in 1 .. Len(slot[s].of) : slot[s].of[a] = slot[s].owner
  BY <1>1, <1>2, SlotTyped DEF Requests
<1>5. of \in Seq(Phones) /\ Extended(slot[s].of, of, slot[s].owner)
  BY <1>2, <1>4, AppendExtends
<1>6. Len(of) = Len(slot[s].of) + 1 /\ \A a \in 1 .. Len(of) : of[a] = slot[s].owner
  <2>1. \A a \in 1 .. Len(of) : a \in 1 .. Len(slot[s].of) \/ a = Len(of)
    BY <1>4, <1>5 DEF Extended
  <2> QED  BY <1>4, <1>5, <2>1 DEF Extended
<1>7. Len(of) \in Nat /\ Len(of) <= REQUEST /\ Len(of) >= 1
  BY <1>4, <1>6, Constants
<1>8. ToSet(of) = {slot[s].owner}
  <2>1. DOMAIN of = 1 .. Len(of) /\ 1 \in 1 .. Len(of)
    BY <1>5, <1>7
  <2> QED  BY <1>6, <2>1 DEF ToSet
<1> QED  BY <1>2, <1>3, <1>5, <1>6, <1>7, <1>8

\* The connection s becomes c.
LEMMA BecomesSlot ==
    ASSUME Types, NEW s \in Slots, Live(s), NEW c \in SlotType, slot' = [slot EXCEPT ![s] = c], c.sock = slot[s].sock, c.owner = slot[s].owner,
           slot[s].responding => c.responding, UNCHANGED <<phone, sock, cut, closed>>
    PROVE  GoesOn(s) /\ slot'[s] = c
<1>1. slot \in [Slots -> SlotType]
  BY DEF Types, SlotType
<1>2. slot'[s] = c /\ slot' \in [Slots -> SlotType] /\ \A t \in Slots \ {s} : slot'[t] = slot[t]
  BY <1>1
<1> QED  BY <1>2 DEF GoesOn

LEMMA OnReadMore ==
    ASSUME Clean, toHost # <<>>, toHost' = Tail(toHost), toHost[1].what = "read", NEW s \in Holder(toHost[1].id), ~slot[s].responding,
           NEW c, c = [slot[s] EXCEPT !.of = Append(slot[s].of, toHost[1].for)], Len(c.of) < REQUEST,
           UNCHANGED <<phone, sock, cut, closed, saved, saver, toModem>>, slot' = [slot EXCEPT ![s] = c]
    PROVE  Clean'
<1>1. Types /\ Tenants /\ InOrder /\ Confirmed
  BY DEF Clean
<1> DEFINE of == Append(slot[s].of, toHost[1].for)
<1>2. s \in Slots /\ Live(s) /\ of \in Seq(Phones) /\ \A a \in 1 .. Len(of) : of[a] = slot[s].owner
  BY ReadFacts
<1>3. slot[s] \in SlotType
  BY <1>1, <1>2, SlotTyped DEF SlotType
<1> HIDE DEF of
<1>4. /\ c \in SlotType /\ c.sock = slot[s].sock /\ c.owner = slot[s].owner /\ c.responding = slot[s].responding
      /\ c.sent = slot[s].sent /\ c.acked = slot[s].acked /\ c.of = of
  <2>1. c = [slot[s] EXCEPT !.of = of]
    BY DEF of
  <2> QED  BY <1>2, <1>3, <2>1 DEF SlotType
<1>5. GoesOn(s) /\ slot'[s] = c
  BY <1>1, <1>2, <1>4, BecomesSlot
<1>6. toHost' \in Seq(HostFrames) /\ Moved(toHost, toHost', 1, {}) /\ Moved(toModem, toModem', 0, {})
  BY <1>1, TakenMoves, NotMoved, ModemTyped
<1>7. Types'
  BY <1>1, <1>5, <1>6 DEF Types, SlotType, GoesOn
<1>8. Order'
  BY <1>5, GoesOnOrder
<1>9. Confirmed'
  <2>1. \A t \in Slots : TookOf(toHost[1], slot[t].sock) = 0
    BY DEF TookOf
  <2>2. slot'[s].sent <= slot'[s].acked + PORTAL_SOCK_WINDOW /\ ~slot'[s].responding
    BY <1>1, <1>2, <1>4, <1>5 DEF Confirmed
  <2> QED  BY <1>5, <2>1, <2>2, GoesOnConfirmed
<1>10. InOrder'
  <2>1. \A t \in Slots : Live(t)' /\ slot'[t].responding =>
              Live(t) /\ slot[t].responding /\ slot'[t].owner = slot[t].owner /\ slot'[t].sent = slot[t].sent
    BY <1>4, <1>5, GoingOn DEF GoesOn
  <2>2. \A i \in Socks : sock'[i].fd \in Phones \cup {None}
    BY <1>1, SockTyped
  <2> QED  BY <1>1, <1>6, <2>1, <2>2, InOrderStays
<1>11. Requests'
  <2>1. (\A a \in 1 .. Len(slot'[s].of) : slot'[s].of[a] = slot[s].owner) /\ ~slot'[s].responding /\ Len(slot'[s].of) < REQUEST
    BY <1>2, <1>4, <1>5
  <2> QED  BY <1>5, <2>1, GoesOnRequests
<1>12. Saving'
  BY <1>5, GoesOnSaving
<1> QED  BY <1>5, <1>6, <1>7, <1>8, <1>9, <1>10, <1>11, <1>12, GoesOnClean

\* No M_SOCK_SENT is on its way to a connection that is not answered yet.
LEMMA NoTook ==
    ASSUME Clean, NEW s \in Slots, Live(s), ~slot[s].responding
    PROVE  \A j \in 1 .. Len(toHost) : TookOf(toHost[j], slot[s].sock) = 0
<1>1. Types /\ Tenants /\ Order /\ Unanswered
  BY DEF Clean
<1> SUFFICES ASSUME NEW j \in 1 .. Len(toHost), toHost[j].what = "took", toHost[j].id = slot[s].sock PROVE FALSE
  BY DEF TookOf
<1> DEFINE p == toHost[j].for
<1>2. p \in Phones /\ Len(toHost) \in Nat
  BY <1>1, HostTyped
<1>3. Heard(toHost, slot[s].sock, p, j - 1, Owners(slot, slot[s].sock))
  BY <1>1 DEF Order
<1>4. Asking(p)
  <2>1. CASE \E l \in 1 .. j - 1 : IsOpen(toHost[l], slot[s].sock) /\ toHost[l].for = p
    <3>1. PICK l \in 1 .. j - 1 : IsOpen(toHost[l], slot[s].sock) /\ toHost[l].for = p
      BY <2>1
    <3>2. l \in 1 .. Len(toHost)
      BY <1>2
    <3> QED  BY <3>1, <3>2 DEF Asking, IsOpen
  <2>2. CASE Owners(slot, slot[s].sock) \subseteq {p}
    <3>1. slot[s].owner = p
      BY <2>2 DEF Owners
    <3> QED  BY <3>1 DEF Asking
  <2> QED  BY <1>3, <2>1, <2>2 DEF Heard
<1>5. Quiet(p)
  BY <1>1, <1>2, <1>4 DEF Unanswered
<1> QED  BY <1>5 DEF Quiet

\* The kiosk has pumped s, which was or became c.
LEMMA PumpsClean ==
    ASSUME Clean, NEW s \in Slots, Live(s), NEW c \in SlotType, c.sock = slot[s].sock, c.owner = slot[s].owner, c.responding,
           c.sent <= c.acked + PORTAL_SOCK_WINDOW, Len(c.of) = REQUEST, \A a \in 1 .. Len(c.of) : c.of[a] = slot[s].owner,
           UpTo(slot[s].owner, c.sent), SetAndPump(s, c), UNCHANGED <<phone, sock, cut, closed>>,
           Counts(toHost', slot[s].sock, c.acked, Len(phone[slot[s].owner].got)),
           saved' \in {"no", "asked", "stored", "rebooted", "graced"}, saver' \in Phones \cup {None},
           GoesOn(s) => Saving',
           \/ toHost' = toHost
           \/ /\ toHost # <<>> /\ toHost' = Tail(toHost) /\ toHost[1].what \in {"read", "took"}
              /\ \A t \in Slots \ {s} : Live(t) => TookOf(toHost[1], slot[t].sock) = 0
    PROVE  Clean'
<1>1. Types /\ Tenants /\ InOrder
  BY DEF Clean
<1>2. /\ slot[s].sock \in Socks /\ slot[s].owner \in Phones /\ ~Told(slot[s].sock, slot[s].owner)
  BY LiveFacts
<1>3. c.sent \in 0 .. RESPONSE /\ c.acked \in Nat /\ c.of \in Seq(Phones) /\ c.responding \in BOOLEAN
  BY DEF SlotType
<1>4. ToSet(c.of) = {c.owner}
  <2>1. DOMAIN c.of = 1 .. Len(c.of) /\ 1 \in 1 .. Len(c.of)
    BY <1>3, Constants
  <2> QED  BY <2>1 DEF ToSet
<1>5. slot' = [slot EXCEPT ![s] = Pumped(c).slot] /\ toModem' = toModem \o Pumped(c).frames
  BY DEF SetAndPump
<1>6. PICK n \in Nat : Pumping(c, n)
  BY <1>1, <1>2, <1>3, <1>4, <1>5, PumpsInto
<1> DEFINE e == [c EXCEPT !.sent = c.sent + n]
<1>7. c.sent + n \in 0 .. RESPONSE /\ c.sent + n <= c.acked + PORTAL_SOCK_WINDOW
  <2>1. n \in 0 .. RESPONSE - c.sent /\ (n = 0 \/ n <= PORTAL_SOCK_WINDOW - (c.sent - c.acked))
    BY <1>6 DEF Pumping
  <2> QED  BY <1>3, <2>1, Constants
<1>8. e \in SlotType /\ e.sock = slot[s].sock /\ e.owner = slot[s].owner /\ e.responding /\ e.sent = c.sent + n /\ e.acked = c.acked /\ e.of = c.of
  BY <1>7 DEF SlotType
<1>9. slot' = [slot EXCEPT ![s] = e]
  BY <1>5, <1>6 DEF Pumping
<1> HIDE DEF e
<1>10. GoesOn(s) /\ slot'[s] = e
  BY <1>1, <1>8, <1>9, BecomesSlot
<1>11. \E d \in {0, 1} : Moved(toHost, toHost', d, {}) /\ toHost' \in Seq(HostFrames)
  <2>1. CASE toHost' = toHost
    BY <1>1, <2>1, NotMoved, HostTyped
  <2>2. CASE toHost # <<>> /\ toHost' = Tail(toHost)
    BY <1>1, <2>2, TakenMoves
  <2> QED  BY <2>1, <2>2
<1>12. /\ toModem' \in Seq(ModemFrames) /\ Len(toModem') <= TX_RING /\ Moved(toModem, toModem', 0, DataTo(slot[s].owner))
       /\ Len(toModem') = Len(toModem) + n /\ Sends(slot[s].owner, c.sent, toModem, toModem') /\ Len(toModem) \in Nat
  BY <1>1, <1>6, ModemTyped DEF Pumping
<1>13. Types'
  BY <1>1, <1>10, <1>11, <1>12 DEF Types, SlotType, GoesOn
<1>14. Order'
  BY <1>10, GoesOnOrder
<1>15. Confirmed'
  <2>1. slot'[s].sent <= slot'[s].acked + PORTAL_SOCK_WINDOW /\ slot'[s].acked = c.acked
    BY <1>7, <1>8, <1>10
  <2> QED  BY <1>10, <2>1, GoesOnConfirmed
<1>16. InOrder'
  <2>1. /\ c.sent \in Nat /\ Len(toModem') \in Nat /\ Len(toModem') >= Len(toModem) /\ Len(toModem') - Len(toModem) = n
    BY <1>3, <1>12, Constants
  <2>2. slot'[s].owner = slot[s].owner /\ slot'[s].sent = c.sent + (Len(toModem') - Len(toModem))
    BY <1>8, <1>10, <2>1
  <2>3. /\ \A r \in Phones : GotInOrder(r)
        /\ \A i \in Socks : OutInOrder(i)
        /\ FramesInOrder
        /\ \A t \in Slots \ {s} : Live(t) /\ slot[t].responding => UpTo(slot[t].owner, slot[t].sent)
    BY <1>1 DEF InOrder
  <2>4. \A t \in Slots \ {s} : slot'[t] = slot[t]
    BY <1>10 DEF GoesOn
  <2> QED  BY <1>1, <1>2, <1>12, <2>1, <2>2, <2>3, <2>4, SendInOrder
<1>17. Requests'
  <2>1. (\A a \in 1 .. Len(slot'[s].of) : slot'[s].of[a] = slot[s].owner) /\ slot'[s].responding /\ Len(slot'[s].of) = REQUEST
    BY <1>8, <1>10
  <2> QED  BY <1>10, <2>1, GoesOnRequests
<1>18. \A f \in DataTo(slot[s].owner) : slot'[s].responding /\ f \in DataTo(slot[s].owner)
  BY <1>8, <1>10
<1>19. Saving'
  BY <1>10
<1>20. PICK d \in {0, 1} : Moved(toHost, toHost', d, {})
  BY <1>11
<1> QED  BY <1>10, <1>12, <1>13, <1>14, <1>15, <1>16, <1>17, <1>18, <1>19, <1>20, GoesOnClean

\* The last of a request arrives: the answer begins.
LEMMA OnReadLast ==
    ASSUME Clean, toHost # <<>>, toHost' = Tail(toHost), toHost[1].what = "read", NEW s \in Holder(toHost[1].id), ~slot[s].responding,
           NEW of, of = Append(slot[s].of, toHost[1].for), Len(of) = REQUEST, SetAndPump(s, [slot[s] EXCEPT !.of = of, !.responding = TRUE, !.sent = 0, !.acked = 0]),
           \/ saved' = "asked" /\ saver' = of[1]
           \/ UNCHANGED <<saved, saver>>,
           UNCHANGED <<phone, sock, cut, closed>>
    PROVE  Clean'
<1>1. Types /\ Tenants /\ Saving /\ \A p \in closed : Whole(p)
  BY DEF Clean, Saving
<1>2. /\ s \in Slots /\ Live(s) /\ of \in Seq(Phones) /\ slot[s].owner \in Phones /\ Quiet(slot[s].owner)
      /\ \A a \in 1 .. Len(of) : of[a] = slot[s].owner
  BY ReadFacts
<1>3. slot[s] \in SlotType /\ slot[s].sock \in Socks
  BY <1>1, <1>2, SlotTyped, LiveSlot DEF SlotType
<1> DEFINE c == [slot[s] EXCEPT !.of = of, !.responding = TRUE, !.sent = 0, !.acked = 0]
<1>4. /\ c \in SlotType /\ c.sock = slot[s].sock /\ c.owner = slot[s].owner /\ c.responding = TRUE /\ c.sent = 0 /\ c.acked = 0
      /\ c.of = of
  <2>1. 0 \in 0 .. RESPONSE /\ 0 \in Nat
    BY Constants
  <2> DEFINE x == [slot[s] EXCEPT !.of = of]
             y == [x EXCEPT !.responding = TRUE]
             z == [y EXCEPT !.sent = 0]
             w == [z EXCEPT !.acked = 0]
  <2>2. c = w
    OBVIOUS
  <2> HIDE DEF c, w
  <2>3. x \in SlotType /\ x.sock = slot[s].sock /\ x.owner = slot[s].owner /\ x.of = of
    BY <1>2, <1>3 DEF SlotType
  <2> HIDE DEF x
  <2>4. y \in SlotType /\ y.sock = x.sock /\ y.owner = x.owner /\ y.of = x.of /\ y.responding = TRUE
    BY <2>3 DEF SlotType
  <2> HIDE DEF y
  <2>5. z \in SlotType /\ z.sock = y.sock /\ z.owner = y.owner /\ z.of = y.of /\ z.responding = y.responding /\ z.sent = 0
    BY <2>1, <2>4 DEF SlotType
  <2> HIDE DEF z
  <2>6. w \in SlotType /\ w.sock = z.sock /\ w.owner = z.owner /\ w.of = z.of /\ w.responding = z.responding /\ w.sent = z.sent /\ w.acked = 0
    BY <2>1, <2>5 DEF SlotType, w
  <2> QED  BY <2>2, <2>3, <2>4, <2>5, <2>6
<1>5. SetAndPump(s, c)
  OBVIOUS
<1> HIDE DEF c
<1>6. c.sent <= c.acked + PORTAL_SOCK_WINDOW
  BY <1>4, Constants
<1>7. UpTo(slot[s].owner, c.sent)
  <2>1. Len(<<>>) = 0 /\ \A j \in 1 .. 0 : FALSE
    OBVIOUS
  <2> QED  BY <1>2, <2>1 DEF UpTo, Quiet
<1>8. Counts(toHost', slot[s].sock, c.acked, Len(phone[slot[s].owner].got))
  <2>1. Shifted(toHost, toHost') /\ Len(toHost') \in Nat
    BY <1>1, TakenMoves
  <2>2. \A j \in 1 .. Len(toHost') : j + 1 \in 1 .. Len(toHost) /\ toHost'[j] = toHost[j + 1]
    BY <2>1 DEF Shifted
  <2>3. \A j \in 1 .. Len(toHost') : TookOf(toHost'[j], slot[s].sock) = 0
    BY <1>2, <2>2, NoTook
  <2>4. Len(phone[slot[s].owner].got) \in Nat
    BY <1>1, <1>2, PhoneTyped
  <2> DEFINE b == Len(phone[slot[s].owner].got)
             i == slot[s].sock
  <2> HIDE DEF b, i
  <2>5. Counts(toHost', i, 0, b)
    BY <2>1, <2>3, <2>4, CountsNone DEF b, i
  <2> QED  BY <1>4, <2>5 DEF b, i
<1>9. of[1] = slot[s].owner
  <2>1. 1 \in 1 .. REQUEST
    BY Constants
  <2> QED  BY <1>2, <2>1
<1>10. saved' \in {"no", "asked", "stored", "rebooted", "graced"} /\ saver' \in Phones \cup {None}
  BY <1>1, <1>2, <1>9 DEF Types
<1>11. ASSUME GoesOn(s) PROVE Saving'
  <2>1. CASE UNCHANGED <<saved, saver>>
    BY <1>11, <2>1, GoesOnSaving
  <2>2. CASE saved' = "asked" /\ saver' = of[1]
    <3>1. slot'[s] = Pumped(c).slot
      <4>1. slot \in [Slots -> SlotType]
        BY <1>1 DEF Types, SlotType
      <4> QED  BY <1>2, <1>5, <4>1 DEF SetAndPump
    <3>2. \A n : [c EXCEPT !.sent = n].responding = c.responding
      BY <1>4 DEF SlotType
    <3>3. slot'[s].responding
      <4>1. \E n : Pumped(c).slot = [c EXCEPT !.sent = @ + n]
        BY Zenon DEF Pumped
      <4>2. \A n : [c EXCEPT !.sent = @ + n] = [c EXCEPT !.sent = c.sent + n]
        OBVIOUS
      <4> QED  BY <1>4, <3>1, <3>2, <4>1, <4>2
    <3>4. s \in Slots /\ slot'[s].owner = saver' /\ Live(s)'
      BY <1>2, <1>9, <1>11, <2>2, GoingOn
    <3>5. \A p \in Phones : p = saver' => Answering(p)'
      BY <3>3, <3>4 DEF Answering
    <3>6. \E t \in Slots : Live(t)' /\ slot'[t].owner = saver' /\ slot'[t].responding
      BY <3>3, <3>4
    <3>7. \A p \in closed' : Whole(p)'
      BY <1>1 DEF Whole
    <3>8. saver' \in Phones
      BY <1>2, <1>9, <2>2
    <3> QED  BY <2>2, <3>6, <3>7, <3>8 DEF Saving, Answering
  <2> QED  BY <2>1, <2>2
<1>12. \A t \in Slots \ {s} : Live(t) => TookOf(toHost[1], slot[t].sock) = 0
  BY DEF TookOf
<1> QED  BY <1>2, <1>4, <1>5, <1>6, <1>7, <1>8, <1>10, <1>11, <1>12, PumpsClean

\* Some of the answer is confirmed.
LEMMA OnTookMore ==
    ASSUME Clean, toHost # <<>>, toHost' = Tail(toHost), toHost[1].what = "took", NEW s \in Holder(toHost[1].id),
           SetAndPump(s, [slot[s] EXCEPT !.acked = slot[s].acked + toHost[1].n]),
           UNCHANGED <<phone, sock, cut, closed, saved, saver>>
    PROVE  Clean'
<1>1. Types /\ Tenants /\ InOrder /\ Confirmed /\ Requests
  BY DEF Clean
<1>2. /\ s \in Slots /\ Live(s) /\ slot[s].sock = toHost[1].id /\ slot[s].responding /\ toHost[1].n \in Nat
      /\ Counts(toHost', slot[s].sock, slot[s].acked + toHost[1].n, Len(phone[slot[s].owner].got))
  BY TookFacts
<1>3. slot[s] \in SlotType /\ slot[s].acked \in Nat /\ slot[s].sent \in Nat
  BY <1>1, <1>2, SlotTyped DEF SlotType
<1> DEFINE a == slot[s].acked + toHost[1].n
           c == [slot[s] EXCEPT !.acked = a]
<1>4. a \in Nat /\ slot[s].acked <= a
  BY <1>2, <1>3
<1>5. slot[s].sent <= a + PORTAL_SOCK_WINDOW
  <2>1. slot[s].sent <= slot[s].acked + PORTAL_SOCK_WINDOW
    BY <1>1, <1>2 DEF Confirmed
  <2> QED  BY <1>3, <1>4, <2>1, Constants
<1>6. SetAndPump(s, c) /\ Counts(toHost', slot[s].sock, a, Len(phone[slot[s].owner].got))
  BY <1>2
<1> HIDE DEF a
<1>7. /\ c \in SlotType /\ c.sock = slot[s].sock /\ c.owner = slot[s].owner /\ c.responding = slot[s].responding
      /\ c.sent = slot[s].sent /\ c.acked = a /\ c.of = slot[s].of
  BY <1>3, <1>4 DEF SlotType
<1> HIDE DEF c
<1>8. UpTo(slot[s].owner, c.sent) /\ Len(c.of) = REQUEST /\ \A k \in 1 .. Len(c.of) : c.of[k] = slot[s].owner
  BY <1>1, <1>2, <1>7 DEF InOrder, Requests
<1>9. \A t \in Slots \ {s} : Live(t) => TookOf(toHost[1], slot[t].sock) = 0
  BY <1>2, LiveFacts DEF TookOf
<1>10. GoesOn(s) => Saving'
  BY GoesOnSaving
<1>11. saved' \in {"no", "asked", "stored", "rebooted", "graced"} /\ saver' \in Phones \cup {None}
  BY <1>1 DEF Types
<1> QED  BY <1>2, <1>5, <1>6, <1>7, <1>8, <1>9, <1>10, <1>11, PumpsClean

LEMMA PumpAgainClean ==
    ASSUME Clean, NEW s \in Slots, PumpAgain(s)
    PROVE  Clean'
<1>1. Types /\ Tenants /\ InOrder /\ Confirmed /\ Requests
  BY DEF Clean
<1>2. Live(s) /\ Pumped(slot[s]).frames # <<>> /\ SetAndPump(s, slot[s]) /\ UNCHANGED <<phone, sock, cut, closed, saved, saver, toHost>>
  BY DEF PumpAgain, modem, history
<1>3. slot[s] \in SlotType /\ slot[s].owner \in Phones
  BY <1>1, <1>2, SlotTyped, LiveSlot DEF SlotType
<1>4. slot[s].responding
  <2> SUFFICES ASSUME ~slot[s].responding PROVE FALSE
    OBVIOUS
  <2> DEFINE F(k) == Data(slot[s].sock, slot[s].owner, ToSet(slot[s].of), slot[s].sent + k)
  <2>1. Pumped(slot[s]).frames = [k \in 1 .. 0 |-> F(k)]
    BY DEF Pumped
  <2> HIDE DEF F
  <2>2. 1 .. 0 = {}
    OBVIOUS
  <2>3. [k \in 1 .. 0 |-> F(k)] = <<>>
    BY <2>2
  <2> QED  BY <1>2, <2>1, <2>3
<1>5. /\ slot[s].sent <= slot[s].acked + PORTAL_SOCK_WINDOW /\ Len(slot[s].of) = REQUEST
      /\ \A a \in 1 .. Len(slot[s].of) : slot[s].of[a] = slot[s].owner
      /\ UpTo(slot[s].owner, slot[s].sent)
  BY <1>1, <1>2, <1>4 DEF Confirmed, Requests, InOrder
<1>6. Counts(toHost', slot[s].sock, slot[s].acked, Len(phone[slot[s].owner].got))
  BY <1>1, <1>2, <1>4 DEF Confirmed
<1>7. saved' \in {"no", "asked", "stored", "rebooted", "graced"} /\ saver' \in Phones \cup {None} /\ UNCHANGED <<phone, sock, cut, closed>>
  BY <1>1, <1>2 DEF Types
<1>8. GoesOn(s) => Saving'
  BY <1>2, GoesOnSaving
<1> DEFINE c == slot[s]
<1>9. /\ c \in SlotType /\ c.sock = slot[s].sock /\ c.owner = slot[s].owner /\ c.responding /\ c.sent <= c.acked + PORTAL_SOCK_WINDOW
      /\ Len(c.of) = REQUEST /\ \A a \in 1 .. Len(c.of) : c.of[a] = slot[s].owner
      /\ UpTo(slot[s].owner, c.sent) /\ SetAndPump(s, c)
      /\ Counts(toHost', slot[s].sock, c.acked, Len(phone[slot[s].owner].got))
  BY <1>2, <1>3, <1>4, <1>5, <1>6
<1> HIDE DEF c
<1> QED  BY <1>2, <1>7, <1>8, <1>9, PumpsClean

LEMMA OnOpenClean ==
    ASSUME Clean, OnOpen
    PROVE  Clean'
<1>1. toHost # <<>> /\ toHost' = Tail(toHost) /\ Message.what = "open" /\ UNCHANGED <<phone, sock, cut, closed, saved, saver>>
  BY DEF OnOpen, Taken, Message, modem, history
<1>2. Message = toHost[1]
  BY <1>1, TakenMoves DEF Message, Clean
<1>3. Holder(toHost[1].id) = {}
  BY <1>1, <1>2, OpenFacts
<1>4. CASE /\ \E s \in Slots :
                /\ ~Live(s)
                /\ slot' = [slot EXCEPT ![s] = [FreeSlot EXCEPT !.sock = Message.id, !.owner = Message.for]]
           /\ UNCHANGED toModem
  BY <1>1, <1>2, <1>4, OnOpenPlace
<1>5. CASE toModem' = Put(toModem, Abort(Message.id, Message.for)) /\ UNCHANGED slot
  BY <1>1, <1>2, <1>5, OnOpenNoPlace
<1> QED  BY <1>2, <1>3, <1>4, <1>5 DEF OnOpen

LEMMA OnReadClean ==
    ASSUME Clean, OnRead
    PROVE  Clean'
<1>1. toHost # <<>> /\ toHost' = Tail(toHost) /\ Message.what = "read" /\ UNCHANGED <<phone, sock, cut, closed>>
  BY DEF OnRead, Taken, Message, modem, history
<1>2. Message = toHost[1]
  BY <1>1, TakenMoves DEF Message, Clean
<1>3. CASE UNCHANGED <<host, toModem>>
  BY <1>1, <1>2, <1>3, OnReadLate DEF host
<1>4. ASSUME NEW s \in Holder(Message.id), NEW c, c = [slot[s] EXCEPT !.of = Append(@, Message.for)], ~slot[s].responding,
             Len(c.of) < REQUEST, slot' = [slot EXCEPT ![s] = c], UNCHANGED <<saved, saver, toModem>>
      PROVE  Clean'
  BY <1>1, <1>2, <1>4, OnReadMore
<1>5. ASSUME NEW s \in Holder(Message.id), NEW c, c = [slot[s] EXCEPT !.of = Append(@, Message.for)], ~slot[s].responding,
             Len(c.of) = REQUEST, Staged(c), SetAndPump(s, [c EXCEPT !.responding = TRUE, !.sent = 0, !.acked = 0])
      PROVE  Clean'
  <2> DEFINE of == Append(slot[s].of, toHost[1].for)
  <2>1. s \in Slots /\ slot[s] \in SlotType
    <3>1. s \in Slots
      BY DEF Holder
    <3> QED  BY <3>1, SlotTyped DEF Clean, SlotType
  <2> HIDE DEF of
  <2>2. c = [slot[s] EXCEPT !.of = of]
    BY <1>2, <1>5 DEF of
  <2>3. c.of = of
    BY <2>1, <2>2 DEF SlotType
  <2>4. [c EXCEPT !.responding = TRUE, !.sent = 0, !.acked = 0] = [slot[s] EXCEPT !.of = of, !.responding = TRUE, !.sent = 0, !.acked = 0]
    BY <2>2
  <2>5. \/ saved' = "asked" /\ saver' = of[1]
        \/ UNCHANGED <<saved, saver>>
    BY <1>5, <2>3 DEF Staged
  <2>6. SetAndPump(s, [slot[s] EXCEPT !.of = of, !.responding = TRUE, !.sent = 0, !.acked = 0])
    BY <1>5, <2>4
  <2> QED  BY <1>1, <1>2, <1>5, <2>3, <2>5, <2>6, OnReadLast DEF of
<1> QED  BY <1>3, <1>4, <1>5 DEF OnRead

LEMMA OnTookClean ==
    ASSUME Clean, OnTook
    PROVE  Clean'
<1>1. toHost # <<>> /\ toHost' = Tail(toHost) /\ Message.what = "took" /\ UNCHANGED <<phone, sock, cut, closed, saved, saver>>
  BY DEF OnTook, Taken, Message, modem, history
<1>2. Message = toHost[1]
  BY <1>1, TakenMoves DEF Message, Clean
<1>3. CASE Holder(Message.id) = {} /\ UNCHANGED <<slot, toModem>>
  BY <1>1, <1>2, <1>3, OnTookNobody
<1>4. ASSUME NEW s \in Holder(Message.id), NEW c, c = [slot[s] EXCEPT !.acked = @ + Message.n]
      PROVE  /\ c.acked = slot[s].acked + toHost[1].n /\ c.responding = slot[s].responding
             /\ c.sock = slot[s].sock /\ c.owner = slot[s].owner
  <2>1. s \in Slots
    BY DEF Holder
  <2>2. slot[s] \in SlotType
    BY <2>1, SlotTyped DEF Clean, SlotType
  <2> QED  BY <1>2, <1>4, <2>2 DEF SlotType
<1>5. ASSUME NEW s \in Holder(Message.id), NEW c, c = [slot[s] EXCEPT !.acked = @ + Message.n],
             c.acked >= (IF c.responding THEN Total ELSE 0), Shutdown(s, Close(c.sock, c.owner))
      PROVE  Clean'
  <2>1. slot[s].responding => slot[s].acked + toHost[1].n >= RESPONSE
    BY <1>4, <1>5 DEF Total
  <2>2. toModem' = Put(toModem, Close(slot[s].sock, slot[s].owner)) /\ slot' = [slot EXCEPT ![s] = FreeSlot]
    BY <1>4, <1>5 DEF Shutdown
  <2> QED  BY <1>1, <1>2, <2>1, <2>2, OnTookLast
<1>6. ASSUME NEW s \in Holder(Message.id), NEW c, c = [slot[s] EXCEPT !.acked = @ + Message.n], SetAndPump(s, c)
      PROVE  Clean'
  <2>1. SetAndPump(s, [slot[s] EXCEPT !.acked = slot[s].acked + toHost[1].n])
    BY <1>2, <1>6
  <2> QED  BY <1>1, <1>2, <2>1, OnTookMore
<1> QED  BY <1>3, <1>5, <1>6 DEF OnTook

-----------------------------------------------------------------------------
(* The modem. *)

LEMMA SockEnds ==
    ASSUME Types, NEW i \in Socks, sock' = [sock EXCEPT ![i] = FreeSock]
    PROVE  /\ sock' \in [Socks -> SockType] /\ SocksEnd /\ sock'[i].fd = None
           /\ \A k \in Socks \ {i} : sock'[k] = sock[k]
<1>1. sock \in [Socks -> SockType]
  BY DEF Types, SockType
<1>2. sock' \in [Socks -> SockType] /\ sock'[i] = FreeSock /\ \A k \in Socks \ {i} : sock'[k] = sock[k]
  BY <1>1, FreeTyped
<1> QED  BY <1>2 DEF SocksEnd, FreeSock

\* The modem reads more of a request.
LEMMA ReadSockMore ==
    ASSUME Clean, NEW i \in Socks, NEW p, p = sock[i].fd, p # None, phone' = [phone EXCEPT ![p].asked = @ + 1],
           toHost' = Append(toHost, Read(i, p)), UNCHANGED <<sock, slot, saved, saver, toModem, cut, closed>>
    PROVE  Clean'
<1>1. Types /\ Tenants /\ Order /\ Coming
  BY DEF Clean
<1>2. p \in Phones /\ phone[p].came
  BY <1>1, SockTyped DEF Coming
<1>3. /\ phone' \in [Phones -> [came : BOOLEAN, asked : Nat, got : Seq(Units), left : BOOLEAN]]
      /\ \A q \in Phones : phone'[q].got = phone[q].got /\ phone'[q].came = phone[q].came
  <2> DEFINE R == [came : BOOLEAN, asked : Nat, got : Seq(Units), left : BOOLEAN]
             n == phone[p].asked + 1
             r == [phone[p] EXCEPT !.asked = n]
  <2>1. phone \in [Phones -> R] /\ phone[p] \in R /\ n \in Nat
    BY <1>1, <1>2, PhoneTyped DEF Types
  <2>3. phone' = [phone EXCEPT ![p] = r]
    OBVIOUS
  <2> HIDE DEF n
  <2>2. r \in R /\ r.got = phone[p].got /\ r.came = phone[p].came
    BY <2>1
  <2> HIDE DEF r, R
  <2>4. phone' \in [Phones -> R] /\ \A q \in Phones : phone'[q] = IF q = p THEN r ELSE phone[q]
    BY <2>1, <2>2, <2>3
  <2> QED  BY <2>2, <2>4 DEF R
<1> DEFINE f == Read(i, p)
<1>4. f \in HostFrames /\ f.what = "read" /\ f.id = i /\ f.for = p
  BY <1>2, HostFrameTypes DEF Read, Frame
<1> HIDE DEF f
<1>5. toHost' \in Seq(HostFrames) /\ Extended(toHost, toHost', f) /\ Moved(toHost, toHost', 0, {f})
  BY <1>1, <1>4, SentMoves DEF f
<1>6. Moved(toModem, toModem', 0, {})
  BY <1>1, NotMoved, ModemTyped
<1>7. SlotsEnd /\ SocksEnd
  BY DEF SlotsEnd, SocksEnd
<1>8. Types'
  BY <1>1, <1>3, <1>5 DEF Types
<1>9. Order'
  BY <1>1, <1>2, <1>4, <1>5, OrderSent
<1>10. Confirmed'
  BY <1>3, <1>4, <1>5, <1>7, ConfirmedSent
<1>11. Saving'
  <2>1. \A s \in Slots : Live(s)' <=> Live(s)
    BY DEF Live
  <2> QED  BY <1>3, <1>7, <2>1, SavingSame
<1>12. \A g \in {f} : g.what \in {"read", "gone"} /\ g.for \in Phones /\ phone'[g.for].came /\ (g.what = "gone" => g.for \in cut')
  BY <1>2, <1>3, <1>4
<1> QED  BY <1>3, <1>5, <1>6, <1>7, <1>8, <1>9, <1>10, <1>11, <1>12, CleanStays

\* The phone has closed its side: so does the modem.
LEMMA ReadSockGone ==
    ASSUME Clean, NEW i \in Socks, NEW p, p = sock[i].fd, p # None, sock' = [sock EXCEPT ![i] = FreeSock],
           toHost' = Append(toHost, Gone(i, p)), cut' = cut \cup {p}, UNCHANGED <<phone, slot, saved, saver, toModem, closed>>
    PROVE  Clean'
<1>1. Types /\ Tenants /\ Order /\ Coming
  BY DEF Clean
<1>2. p \in Phones /\ phone[p].came
  BY <1>1, SockTyped DEF Coming
<1>3. /\ sock' \in [Socks -> SockType] /\ SocksEnd /\ sock'[i].fd = None
      /\ \A k \in Socks \ {i} : sock'[k] = sock[k]
  BY <1>1, SockEnds
<1> DEFINE f == Gone(i, p)
<1>4. f \in HostFrames /\ f.what = "gone" /\ f.id = i /\ f.for = p
  BY <1>2, HostFrameTypes DEF Gone, Frame
<1> HIDE DEF f
<1>5. toHost' \in Seq(HostFrames) /\ Extended(toHost, toHost', f) /\ Moved(toHost, toHost', 0, {f})
  BY <1>1, <1>4, SentMoves DEF f
<1>6. Moved(toModem, toModem', 0, {})
  BY <1>1, NotMoved, ModemTyped
<1>7. SlotsEnd
  BY DEF SlotsEnd
<1>8. Types'
  BY <1>1, <1>2, <1>3, <1>5 DEF Types, SockType
<1>9. Order'
  BY <1>1, <1>2, <1>3, <1>4, <1>5, OrderSent
<1>10. Confirmed'
  BY <1>3, <1>4, <1>5, <1>7, ConfirmedSent
<1>11. Saving'
  <2>1. \A s \in Slots : Live(s)' <=> Live(s)
    BY DEF Live
  <2> QED  BY <1>7, <2>1, SavingSame
<1>12. \A g \in {f} : g.what \in {"read", "gone"} /\ g.for \in Phones /\ phone'[g.for].came /\ (g.what = "gone" => g.for \in cut')
  BY <1>2, <1>4
<1> QED  BY <1>3, <1>5, <1>6, <1>7, <1>8, <1>9, <1>10, <1>11, <1>12, CleanStays

LEMMA ReadSockClean ==
    ASSUME Clean, NEW i \in Socks, ReadSock(i)
    PROVE  Clean'
<1> DEFINE p == sock[i].fd
<1>1. p # None /\ UNCHANGED <<slot, saved, saver, toModem, closed>>
  BY DEF ReadSock, host
<1>2. CASE phone' = [phone EXCEPT ![p].asked = @ + 1] /\ Up(Read(i, p)) /\ UNCHANGED <<sock, cut>>
  BY <1>1, <1>2, ReadSockMore DEF Up
<1>3. CASE DropSock(i) /\ Up(Gone(i, p)) /\ cut' = cut \cup {p} /\ UNCHANGED phone
  BY <1>1, <1>3, ReadSockGone DEF Up, DropSock
<1> QED  BY <1>2, <1>3 DEF ReadSock

LEMMA CameTyped ==
    ASSUME Types, NEW p \in Phones, phone' = [phone EXCEPT ![p].came = TRUE]
    PROVE  /\ phone' \in [Phones -> [came : BOOLEAN, asked : Nat, got : Seq(Units), left : BOOLEAN]]
           /\ phone'[p].came /\ \A q \in Phones : phone'[q].got = phone[q].got /\ (q # p => phone'[q].came = phone[q].came)
<1> DEFINE R == [came : BOOLEAN, asked : Nat, got : Seq(Units), left : BOOLEAN]
           r == [phone[p] EXCEPT !.came = TRUE]
<1>1. phone \in [Phones -> R] /\ phone[p] \in R
  BY DEF Types
<1>2. r \in R /\ r.got = phone[p].got /\ r.came = TRUE
  BY <1>1
<1>3. phone' = [phone EXCEPT ![p] = r]
  OBVIOUS
<1> HIDE DEF r, R
<1>4. phone' \in [Phones -> R] /\ \A q \in Phones : phone'[q] = IF q = p THEN r ELSE phone[q]
  BY <1>1, <1>2, <1>3
<1> QED  BY <1>2, <1>4 DEF R

\* A phone is turned away.
LEMMA AcceptNoPlace ==
    ASSUME Clean, NEW p \in Phones, phone' = [phone EXCEPT ![p].came = TRUE], cut' = cut \cup {p},
           UNCHANGED <<sock, slot, toModem, toHost, saved, saver, closed>>
    PROVE  Clean'
<1>1. /\ phone' \in [Phones -> [came : BOOLEAN, asked : Nat, got : Seq(Units), left : BOOLEAN]]
      /\ phone'[p].came /\ \A q \in Phones : phone'[q].got = phone[q].got /\ (q # p => phone'[q].came = phone[q].came)
  BY CameTyped DEF Clean
<1>2. Types'
  BY <1>1 DEF Clean, Types
<1>3. SlotsEnd /\ \A s \in Slots : Live(s)' <=> Live(s)
  BY DEF SlotsEnd, Live
<1>4. Saving'
  BY <1>1, <1>3, SavingSame
<1> QED  BY <1>1, <1>2, <1>4, IdleClean

\* Nothing anywhere is of a phone that has not come.
LEMMA NotCome ==
    ASSUME Clean, NEW p \in Phones, ~phone[p].came
    PROVE  /\ Quiet(p) /\ \A k \in Socks : sock[k].fd # p
           /\ \A s \in Slots : slot[s].owner # p
           /\ \A j \in 1 .. Len(toHost) : toHost[j].what # "hello" => toHost[j].for # p
<1>1. Tenants /\ Coming /\ Unanswered
  BY DEF Clean
<1>2. Quiet(p)
  BY <1>1 DEF Asking, Unanswered
<1>3. \A k \in Socks : sock[k].fd # p
  BY <1>1, Constants DEF Coming
<1>4. \A s \in Slots : slot[s].owner # p
  BY <1>1 DEF Coming, Tenants
<1>5. \A j \in 1 .. Len(toHost) : toHost[j].what # "hello" => toHost[j].for # p
  BY <1>1 DEF Coming
<1> QED  BY <1>2, <1>3, <1>4, <1>5

\* A phone gets a socket.
LEMMA PlacedClean ==
    ASSUME Clean, NEW p \in Phones, ~phone[p].came, NEW i \in Socks, sock[i].fd = None,
           phone' \in [Phones -> [came : BOOLEAN, asked : Nat, got : Seq(Units), left : BOOLEAN]], phone'[p].came,
           \A q \in Phones : phone'[q].got = phone[q].got /\ (q # p => phone'[q].came = phone[q].came),
           sock' \in [Socks -> SockType], sock'[i].fd = p, sock'[i].out = <<>>, sock'[i].head = 0,
           \A k \in Socks \ {i} : sock'[k] = sock[k],
           NEW f \in HostFrames, f.what = "open", f.id = i, f.for = p,
           toHost' \in Seq(HostFrames), Extended(toHost, toHost', f), Moved(toHost, toHost', 0, {f}),
           UNCHANGED <<slot, toModem, saved, saver, closed, cut>>
    PROVE  Clean'
<1>1. Types /\ Tenants /\ Order /\ Coming /\ Unanswered /\ InOrder /\ Over /\ Confirmed /\ Requests /\ Cuts /\ Saving
  BY DEF Clean
<1>2. /\ phone' \in [Phones -> [came : BOOLEAN, asked : Nat, got : Seq(Units), left : BOOLEAN]]
      /\ phone'[p].came /\ \A q \in Phones : phone'[q].got = phone[q].got /\ (q # p => phone'[q].came = phone[q].came)
  OBVIOUS
<1>3. /\ sock' \in [Socks -> SockType] /\ sock'[i].fd = p /\ sock'[i].out = <<>> /\ sock'[i].head = 0
      /\ \A k \in Socks \ {i} : sock'[k] = sock[k]
  OBVIOUS
<1>4. /\ Quiet(p) /\ \A k \in Socks : sock[k].fd # p
      /\ \A s \in Slots : slot[s].owner # p
      /\ \A j \in 1 .. Len(toHost) : toHost[j].what # "hello" => toHost[j].for # p
  BY NotCome
<1>5. f.what = "open" /\ f.id = i /\ f.for = p
  OBVIOUS
<1>6. toHost' \in Seq(HostFrames) /\ Extended(toHost, toHost', f) /\ Moved(toHost, toHost', 0, {f}) /\ Len(toHost) \in Nat
  BY <1>1, HostTyped
<1>7. \A j \in 1 .. Len(toHost') : (j \in 1 .. Len(toHost) /\ toHost'[j] = toHost[j]) \/ (j = Len(toHost') /\ toHost'[j] = f)
  BY <1>6 DEF Extended
<1>8. Moved(toModem, toModem', 0, {})
  BY <1>1, NotMoved, ModemTyped
<1>9. \A s \in Slots : Live(s)' <=> Live(s)
  BY DEF Live
<1>10. Types'
  BY <1>1, <1>2, <1>3, <1>6 DEF Types, SockType
<1>11. Tenants'
  <2>1. \A k \in Socks : sock'[k].fd = IF k = i THEN p ELSE sock[k].fd
    BY <1>3
  <2>2. \A k, j \in Socks : k # j /\ sock'[k].fd # None => sock'[k].fd # sock'[j].fd
    <3> SUFFICES ASSUME NEW k \in Socks, NEW j \in Socks, k # j, sock'[k].fd # None PROVE sock'[k].fd # sock'[j].fd
      OBVIOUS
    <3>1. CASE k = i
      BY <1>4, <2>1, <3>1
    <3>2. CASE j = i
      BY <1>4, <2>1, <3>2
    <3>3. CASE k # i /\ j # i
      BY <1>1, <2>1, <3>3 DEF Tenants
    <3> QED  BY <3>1, <3>2, <3>3
  <2> QED  BY <1>1, <1>9, <2>2 DEF Tenants
<1>12. Order'
  BY <1>1, <1>3, <1>5, <1>6, OrderSent
<1>13. Coming'
  <2>1. \A q \in Phones : phone[q].came => phone'[q].came
    BY <1>2
  <2>2. \A k \in Socks : sock'[k].fd # None => phone'[sock'[k].fd].came
    <3> SUFFICES ASSUME NEW k \in Socks, sock'[k].fd # None PROVE phone'[sock'[k].fd].came
      OBVIOUS
    <3>1. CASE k = i
      BY <1>2, <1>3, <3>1
    <3>2. CASE k # i
      <4>1. sock'[k].fd = sock[k].fd /\ sock[k].fd \in Phones
        BY <1>1, <1>3, <3>2, SockTyped
      <4> QED  BY <1>1, <2>1, <4>1 DEF Coming
    <3> QED  BY <3>1, <3>2
  <2>3. \A s \in Slots : Live(s)' => phone'[slot'[s].owner].came
    BY <1>1, <1>9, <2>1 DEF Coming, Tenants
  <2>4. \A j \in 1 .. Len(toHost') : toHost'[j].what # "hello" => phone'[toHost'[j].for].came
    <3> SUFFICES ASSUME NEW j \in 1 .. Len(toHost'), toHost'[j].what # "hello" PROVE phone'[toHost'[j].for].came
      OBVIOUS
    <3>1. CASE j \in 1 .. Len(toHost) /\ toHost'[j] = toHost[j]
      BY <1>1, <2>1, <3>1, HostTyped DEF Coming
    <3>2. CASE toHost'[j] = f
      BY <1>2, <1>5, <3>2
    <3> QED  BY <1>7, <3>1, <3>2
  <2>5. \A j, k \in 1 .. Len(toHost') :
          j # k /\ toHost'[j].what = "open" /\ toHost'[k].what = "open" => toHost'[j].for # toHost'[k].for
    BY <1>1, <1>4, <1>5, <1>7 DEF Coming
  <2>6. \A j \in 1 .. Len(toHost') : toHost'[j].what = "open" => \A s \in Slots : slot'[s].owner # toHost'[j].for
    BY <1>1, <1>4, <1>5, <1>7 DEF Coming
  <2> QED  BY <2>2, <2>3, <2>4, <2>5, <2>6 DEF Coming
<1>14. Unanswered'
  <2> SUFFICES ASSUME NEW q \in Phones, Asking(q)' PROVE Quiet(q)'
    BY DEF Unanswered
  <2>1. Quiet(q)
    <3>1. CASE q = p
      BY <1>4, <3>1
    <3>2. CASE q # p
      <4>1. Asking(q)
        BY <1>2, <1>5, <1>7, <1>9, <3>2 DEF Asking
      <4> QED  BY <1>1, <4>1 DEF Unanswered
    <3> QED  BY <3>1, <3>2
  <2>2. \A k \in Socks : sock'[k].fd = q => (sock[k].fd = q /\ sock'[k].out = sock[k].out) \/ sock'[k].out = <<>>
    BY <1>3
  <2>3. \A j \in 1 .. Len(toHost') : toHost'[j].for = q => toHost'[j].what # "took"
    BY <1>5, <1>7, <2>1 DEF Quiet
  <2>4. phone'[q].got = <<>> /\ \A j \in 1 .. Len(toModem') : toModem'[j].for # q
    BY <1>2, <2>1 DEF Quiet
  <2>5. \A k \in Socks : sock'[k].fd = q => sock'[k].out = <<>>
    BY <2>1, <2>2 DEF Quiet
  <2> QED  BY <2>3, <2>4, <2>5 DEF Quiet
<1>15. InOrder'
  <2>1. \A k \in Socks : \/ sock'[k].fd = sock[k].fd /\ sock'[k].out = sock[k].out /\ sock'[k].head = sock[k].head
                         \/ sock'[k].out = <<>> /\ sock'[k].head = 0
    BY <1>3
  <2>2. \A k \in Socks : sock'[k].fd \in Phones \cup {None}
    BY <1>3 DEF SockType
  <2>3. \A q \in Phones : phone'[q].got = phone[q].got
    BY <1>2
  <2>4. \A s \in Slots : Live(s)' /\ slot'[s].responding =>
              Live(s) /\ slot[s].responding /\ slot'[s].owner = slot[s].owner /\ slot'[s].sent = slot[s].sent
    BY <1>9
  <2>5. \A g \in {} : g.what # "data"
    OBVIOUS
  <2> QED  BY <1>1, <1>8, <2>1, <2>2, <2>3, <2>4, <2>5, InOrderStays
<1>16. Over'
  <2>1. \A q \in Phones : Whole(q) => Whole(q)'
    BY <1>2 DEF Whole
  <2> QED  BY <1>1, <1>8, <2>1, OverStays
<1>17. Confirmed'
  <2> SUFFICES ASSUME NEW a, NEW k \in Socks, NEW q \in Phones, Counts(toHost, k, a, Len(phone[q].got))
               PROVE  Counts(toHost', k, a, Len(phone'[q].got))
    BY <1>1, <1>9, ConfirmedStays
  <2> DEFINE b == Len(phone[q].got)
  <2>1. b \in Nat /\ b = Len(phone'[q].got)
    BY <1>1, <1>2, PhoneTyped
  <2> HIDE DEF b
  <2>2. TookOf(f, k) = 0
    BY <1>5 DEF TookOf
  <2>4. Counts(toHost, k, a, b) /\ TookOf(f, k) \in Nat
    BY <2>2 DEF b
  <2>3. Counts(toHost', k, a, b + TookOf(f, k))
    BY <1>6, <2>1, <2>4, CountsExtend
  <2> QED  BY <2>1, <2>2, <2>3
<1>18. Requests'
  BY <1>1, <1>9, RequestsStay
<1>19. Cuts'
  <2>1. \A j \in 1 .. Len(toHost') : toHost'[j].what = "gone" => toHost'[j].for \in cut'
    BY <1>1, <1>5, <1>7 DEF Cuts
  <2>2. \A j, k \in 1 .. Len(toHost') : j < k /\ toHost'[k].what = "hello" => k \in 1 .. Len(toHost) /\ j \in 1 .. Len(toHost)
    BY <1>5, <1>6, <1>7 DEF Extended
  <2>3. \A j, k \in 1 .. Len(toHost') : j < k /\ toHost'[j].what = "open" /\ toHost'[k].what = "hello" => toHost'[j].for \in cut'
    BY <1>1, <1>6, <2>2 DEF Cuts, Extended
  <2>4. \A k \in 1 .. Len(toHost') : toHost'[k].what = "hello" => \A s \in Slots : Live(s)' => slot'[s].owner \in cut'
    BY <1>1, <1>5, <1>7, <1>9 DEF Cuts
  <2> QED  BY <2>1, <2>3, <2>4 DEF Cuts
<1>20. Saving'
  <2>1. SlotsEnd
    BY DEF SlotsEnd
  <2> QED  BY <1>2, <1>9, <2>1, SavingSame
<1> QED  BY <1>10, <1>11, <1>12, <1>13, <1>14, <1>15, <1>16, <1>17, <1>18, <1>19, <1>20 DEF Clean

LEMMA AcceptPlace ==
    ASSUME Clean, NEW p \in Phones, ~phone[p].came, phone' = [phone EXCEPT ![p].came = TRUE],
           NEW i \in Socks, sock[i].fd = None, sock' = [sock EXCEPT ![i].fd = p, ![i].out = <<>>, ![i].head = 0],
           toHost' = Append(toHost, Open(i, p)), UNCHANGED <<slot, toModem, saved, saver, closed, cut>>
    PROVE  Clean'
<1>1. Types
  BY DEF Clean
<1>2. /\ phone' \in [Phones -> [came : BOOLEAN, asked : Nat, got : Seq(Units), left : BOOLEAN]]
      /\ phone'[p].came /\ \A q \in Phones : phone'[q].got = phone[q].got /\ (q # p => phone'[q].came = phone[q].came)
  BY <1>1, CameTyped
<1>3. /\ sock' \in [Socks -> SockType] /\ sock'[i].fd = p /\ sock'[i].out = <<>> /\ sock'[i].head = 0
      /\ \A k \in Socks \ {i} : sock'[k] = sock[k]
  <2> DEFINE x == [sock[i] EXCEPT !.fd = p]
             y == [x EXCEPT !.out = <<>>]
             z == [y EXCEPT !.head = 0]
  <2>1. sock \in [Socks -> SockType] /\ sock[i] \in SockType
    BY <1>1 DEF Types, SockType
  <2>2. sock' = [sock EXCEPT ![i] = z]
    BY <2>1
  <2> HIDE DEF z
  <2>3. x \in SockType /\ x.fd = p
    BY <2>1 DEF SockType
  <2> HIDE DEF x
  <2>4. y \in SockType /\ y.fd = p /\ y.out = <<>>
    <3>1. <<>> \in Seq(Units)
      OBVIOUS
    <3> QED  BY <2>3, <3>1 DEF SockType
  <2> HIDE DEF y
  <2>5. z \in SockType /\ z.fd = p /\ z.out = <<>> /\ z.head = 0
    BY <2>4 DEF SockType, z
  <2>6. sock' \in [Socks -> SockType] /\ sock'[i] = z /\ \A k \in Socks \ {i} : sock'[k] = sock[k]
    BY <2>1, <2>2, <2>5
  <2> QED  BY <2>5, <2>6
<1> DEFINE f == Open(i, p)
<1>4. f \in HostFrames /\ f.what = "open" /\ f.id = i /\ f.for = p
  BY HostFrameTypes, 0 \in Nat DEF Open, Frame
<1> HIDE DEF f
<1>5. toHost' \in Seq(HostFrames) /\ Extended(toHost, toHost', f) /\ Moved(toHost, toHost', 0, {f})
  BY <1>1, <1>4, SentMoves DEF f
<1> QED  BY <1>2, <1>3, <1>4, <1>5, PlacedClean

LEMMA AcceptClean ==
    ASSUME Clean, NEW p \in Phones, Accept(p)
    PROVE  Clean'
<1>1. ~phone[p].came /\ phone' = [phone EXCEPT ![p].came = TRUE] /\ UNCHANGED <<slot, saved, saver, toModem, closed>>
  BY DEF Accept, host
<1>2. ASSUME NEW i \in Socks, sock[i].fd = None, sock' = [sock EXCEPT ![i].fd = p, ![i].out = <<>>, ![i].head = 0],
             Up(Open(i, p)), UNCHANGED cut
      PROVE  Clean'
  BY <1>1, <1>2, AcceptPlace DEF Up
<1>3. CASE cut' = cut \cup {p} /\ UNCHANGED <<sock, toHost>>
  BY <1>1, <1>3, AcceptNoPlace
<1> QED  BY <1>2, <1>3 DEF Accept

LEMMA SockCame ==
    ASSUME Clean, NEW i \in Socks, NEW p \in Phones, sock[i].fd = p
    PROVE  phone[p].came
<1>1. \A k \in Socks : sock[k].fd # None => phone[sock[k].fd].came
  BY DEF Clean, Coming
<1>2. sock[i].fd # None
  BY Constants
<1> QED  BY <1>1, <1>2

\* A socket takes n units.
LEMMA WroteClean ==
    ASSUME Clean, NEW i \in Socks, NEW p \in Phones, sock[i].fd = p, NEW n \in 1 .. Len(sock[i].out) - sock[i].head,
           phone' \in [Phones -> [came : BOOLEAN, asked : Nat, got : Seq(Units), left : BOOLEAN]],
           \A q \in Phones : phone'[q].came = phone[q].came, \A q \in Phones \ {p} : phone'[q].got = phone[q].got,
           Grown(phone[p].got, phone'[p].got, sock[i].out, sock[i].head, n),
           sock' \in [Socks -> SockType], sock'[i].fd = p, \A k \in Socks \ {i} : sock'[k] = sock[k],
           \/ sock[i].head + n < Len(sock[i].out) /\ sock'[i].head = sock[i].head + n /\ sock'[i].out = sock[i].out
           \/ sock[i].head + n = Len(sock[i].out) /\ sock'[i].head = 0 /\ sock'[i].out = <<>>,
           NEW f \in HostFrames, f.what = "took", f.id = i, f.for = p, f.n = n,
           toHost' \in Seq(HostFrames), Extended(toHost, toHost', f), Moved(toHost, toHost', 0, {f}),
           UNCHANGED <<slot, toModem, saved, saver, closed, cut>>
    PROVE  Clean'
<1>1. Types /\ Tenants /\ Order /\ Coming /\ Unanswered /\ InOrder /\ Over /\ Confirmed /\ Requests /\ Cuts /\ Saving
  BY DEF Clean
<1>2. /\ Len(toHost) \in Nat /\ Moved(toModem, toModem', 0, {})
      /\ \A j \in 1 .. Len(toHost') : (j \in 1 .. Len(toHost) /\ toHost'[j] = toHost[j]) \/ toHost'[j] = f
  BY <1>1, HostTyped, NotMoved, ModemTyped DEF Extended
<1>3. SlotsShrink /\ SocksShrink /\ \A s \in Slots : Live(s)' <=> Live(s)
  BY DEF SlotsShrink, SocksShrink, Live
<1>4. \A k \in Socks : sock'[k].fd = sock[k].fd
  OBVIOUS
<1>5. ~Asking(p)
  <2> SUFFICES ASSUME Asking(p) PROVE FALSE
    OBVIOUS
  <2>1. sock[i].out = <<>>
    BY <1>1 DEF Unanswered, Quiet
  <2>2. Len(sock[i].out) = 0 /\ sock[i].head \in Nat
    BY <1>1, <2>1, SockTyped
  <2> DEFINE l == Len(sock[i].out)
             h == sock[i].head
  <2>3. l = 0 /\ h \in Nat /\ n \in 1 .. l - h
    BY <2>2
  <2> HIDE DEF l, h
  <2> QED  BY <2>3
<1>6. Len(phone[p].got) \in Nat /\ n \in Nat \ {0} /\ Len(phone'[p].got) = Len(phone[p].got) + n
  <2>1. Len(phone[p].got) \in Nat /\ Len(sock[i].out) \in Nat /\ sock[i].head \in Nat
    BY <1>1, PhoneTyped, SockTyped
  <2> QED  BY <2>1 DEF Grown
<1>7. Types'
  BY <1>1 DEF Types, SockType
<1>8. Tenants'
  BY <1>1, <1>3, TenantsStay
<1>9. Order'
  BY <1>1, <1>4, OrderSent
<1>10. Coming'
  <2>2. phone'[p].came
    BY SockCame
  <2>1. \A g \in {f} : g.what # "open" /\ (g.what # "hello" => g.for \in Phones /\ phone'[g.for].came)
    BY <2>2
  <2> QED  BY <1>1, <1>3, <2>1, ComingStays
<1>11. Unanswered'
  <2> SUFFICES ASSUME NEW q \in Phones, Asking(q)' PROVE Quiet(q)'
    BY DEF Unanswered
  <2>1. Asking(q)
    BY <1>2, <1>3 DEF Asking
  <2>2. q # p /\ Quiet(q)
    BY <1>1, <1>5, <2>1 DEF Unanswered
  <2>3. \A j \in 1 .. Len(toHost') : toHost'[j].for = q => toHost'[j].what # "took"
    BY <1>2, <2>2 DEF Quiet
  <2>4. phone'[q].got = <<>> /\ \A j \in 1 .. Len(toModem') : toModem'[j].for # q
    BY <2>2 DEF Quiet
  <2>5. \A k \in Socks : sock'[k].fd = q => sock'[k].out = <<>>
    BY <2>2 DEF Quiet
  <2> QED  BY <2>3, <2>4, <2>5 DEF Quiet
<1>12. InOrder'
  BY <1>1, WriteInOrder
<1>13. \A q \in Phones : Whole(q) => Whole(q)'
  <2>1. ~Whole(p)
    <3> DEFINE g == phone'[p].got
    <3>1. g \in Seq(Units) /\ \A a \in 1 .. Len(g) : a <= g[a].k
      BY <1>12 DEF InOrder, GotInOrder
    <3> HIDE DEF g
    <3>2. Len(g) <= RESPONSE
      BY <3>1, GotBounded
    <3> QED  BY <1>6, <3>2, Constants DEF Whole, g
  <2> QED  BY <2>1 DEF Whole
<1>14. Over'
  BY <1>1, <1>2, <1>13, OverStays
<1>15. Confirmed'
  <2> SUFFICES ASSUME NEW s \in Slots, Live(s), slot[s].responding, NEW a, NEW k \in Socks, NEW q \in Phones, k = slot[s].sock,
                      q = slot[s].owner, Counts(toHost, k, a, Len(phone[q].got))
               PROVE  Counts(toHost', k, a, Len(phone'[q].got))
    BY <1>1, <1>3, ConfirmedStays
  <2> DEFINE b == Len(phone[q].got)
             e == Len(phone'[q].got)
  <2>1. b \in Nat /\ TookOf(f, k) \in Nat /\ Counts(toHost, k, a, b) /\ e \in Nat
    BY <1>1, PhoneTyped DEF TookOf, HostFrames
  <2>2. k = i => q = p
    <3> SUFFICES ASSUME k = i PROVE q = p
      OBVIOUS
    <3>1. Heard(toHost, i, p, Len(toHost), Owners(slot, i))
      BY <1>1, Constants DEF Order
    <3>2. ~\E j \in 1 .. Len(toHost) : toHost[j].what = "open" /\ toHost[j].for = p
      BY <1>5 DEF Asking
    <3>3. Owners(slot, i) \subseteq {p}
      BY <3>1, <3>2 DEF Heard, IsOpen
    <3> QED  BY <3>3 DEF Owners
  <2>3. TookOf(f, k) = IF k = i THEN n ELSE 0
    BY DEF TookOf
  <2>7. (q = p => e = b + n) /\ (q # p => e = b)
    <3>1. CASE q = p
      BY <1>6, <3>1
    <3>2. CASE q # p
      BY <3>2
    <3> QED  BY <3>1, <3>2
  <2> HIDE DEF b, e
  <2>4. b + TookOf(f, k) \in Nat /\ b + TookOf(f, k) <= e
    <3> DEFINE m == TookOf(f, k)
    <3>1. n \in Nat /\ m \in Nat /\ m = (IF k = i THEN n ELSE 0)
      BY <1>6, <2>1, <2>3
    <3> HIDE DEF m
    <3> QED  BY <2>1, <2>2, <2>7, <3>1 DEF m
  <2>5. Counts(toHost', k, a, b + TookOf(f, k)) /\ Len(toHost') \in Nat
    BY <1>2, <2>1, CountsExtend DEF Extended
  <2>6. Counts(toHost', k, a, e)
    BY <2>1, <2>4, <2>5, CountsMore
  <2> QED  BY <2>6 DEF e
<1>16. Requests'
  BY <1>1, <1>3, RequestsStay
<1>17. Cuts'
  <2>1. \A g \in {f} : g.what \notin {"open", "hello"} /\ (g.what = "gone" => g.for \in cut')
    OBVIOUS
  <2> QED  BY <1>1, <1>3, <2>1, CutsStay
<1>18. Saving'
  <2>1. \A q \in Phones : Answering(q) => Answering(q)'
    BY <1>3 DEF Answering
  <2>2. closed \subseteq Phones
    BY <1>1 DEF Types
  <2> QED  BY <1>1, <1>13, <2>1, <2>2, SavingStays
<1> QED  BY <1>7, <1>8, <1>9, <1>10, <1>11, <1>12, <1>14, <1>15, <1>16, <1>17, <1>18 DEF Clean

LEMMA WriteSockClean ==
    ASSUME Clean, NEW i \in Socks, WriteSock(i)
    PROVE  Clean'
<1> DEFINE p == sock[i].fd
           g == phone[p].got
           R == [came : BOOLEAN, asked : Nat, got : Seq(Units), left : BOOLEAN]
<1>1. Types /\ UNCHANGED <<slot, saved, saver, toModem, cut>> /\ p # None
  BY DEF WriteSock, host, Clean
<1>2. p \in Phones /\ ~sock[i].closing /\ sock[i].out \in Seq(Units) /\ sock[i].head \in Nat /\ g \in Seq(Units)
  BY <1>1, SockTyped, PhoneTyped
<1>3. PICK n \in 1 .. Len(sock[i].out) - sock[i].head :
         /\ phone' = [phone EXCEPT ![p].got = @ \o SubSeq(sock[i].out, sock[i].head + 1, sock[i].head + n)]
         /\ toHost' = Append(toHost, Took(i, p, n))
         /\ closed' = closed
         /\ \/ sock[i].head + n < Len(sock[i].out) /\ sock' = [sock EXCEPT ![i].head = sock[i].head + n]
            \/ sock[i].head + n = Len(sock[i].out) /\ sock' = [sock EXCEPT ![i].out = <<>>, ![i].head = 0]
  BY <1>2 DEF WriteSock, Up
<1> DEFINE h == g \o SubSeq(sock[i].out, sock[i].head + 1, sock[i].head + n)
<1>4. h \in Seq(Units) /\ Grown(g, h, sock[i].out, sock[i].head, n)
  BY <1>2, WriteGrows
<1>5. /\ phone' \in [Phones -> R] /\ phone'[p].got = h
      /\ \A q \in Phones : phone'[q].came = phone[q].came
      /\ \A q \in Phones \ {p} : phone'[q].got = phone[q].got
  <2>1. phone' = [phone EXCEPT ![p].got = h] /\ h \in Seq(Units) /\ phone \in [Phones -> R]
    BY <1>1, <1>3, <1>4 DEF Types
  <2> HIDE DEF h
  <2> QED  BY <1>2, <2>1
<1>6. n \in Nat /\ sock[i].head + n \in Nat
  <2>1. Len(sock[i].out) \in Nat /\ n \in 1 .. Len(sock[i].out) - sock[i].head
    BY <1>2, <1>3
  <2> QED  BY <1>2, <2>1
<1> DEFINE f == Took(i, p, n)
<1>7. f \in HostFrames /\ f.what = "took" /\ f.id = i /\ f.for = p /\ f.n = n
  BY <1>2, <1>6, HostFrameTypes DEF Took, Frame
<1> HIDE DEF f
<1>8. toHost' \in Seq(HostFrames) /\ Extended(toHost, toHost', f) /\ Moved(toHost, toHost', 0, {f})
  BY <1>1, <1>3, <1>7, SentMoves DEF f
<1>9. sock \in [Socks -> SockType] /\ sock[i] \in SockType
  BY <1>1 DEF Types, SockType
<1>10. /\ sock' \in [Socks -> SockType] /\ sock'[i].fd = p /\ \A k \in Socks \ {i} : sock'[k] = sock[k]
       /\ \/ sock[i].head + n < Len(sock[i].out) /\ sock'[i].head = sock[i].head + n /\ sock'[i].out = sock[i].out
          \/ sock[i].head + n = Len(sock[i].out) /\ sock'[i].head = 0 /\ sock'[i].out = <<>>
  <2>1. CASE sock[i].head + n < Len(sock[i].out) /\ sock' = [sock EXCEPT ![i].head = sock[i].head + n]
    <3> DEFINE m == sock[i].head + n
               z == [sock[i] EXCEPT !.head = m]
    <3>1. m \in Nat /\ sock' = [sock EXCEPT ![i] = z]
      BY <1>6, <2>1
    <3> HIDE DEF m
    <3>2. z \in SockType /\ z.fd = p /\ z.out = sock[i].out /\ z.head = m
      BY <1>9, <3>1 DEF SockType
    <3> HIDE DEF z
    <3>3. sock' \in [Socks -> SockType] /\ sock'[i] = z /\ \A k \in Socks \ {i} : sock'[k] = sock[k]
      BY <1>9, <3>1, <3>2
    <3> QED  BY <2>1, <3>2, <3>3 DEF m
  <2>2. CASE sock[i].head + n = Len(sock[i].out) /\ sock' = [sock EXCEPT ![i].out = <<>>, ![i].head = 0]
    <3> DEFINE y == [sock[i] EXCEPT !.out = <<>>]
               z == [y EXCEPT !.head = 0]
    <3>5. sock' = [sock EXCEPT ![i].out = <<>>, ![i].head = 0]
      BY <2>2
    <3>6. sock' = [sock EXCEPT ![i] = z]
      BY <1>9, <3>5
    <3>1. sock' = [sock EXCEPT ![i] = z] /\ <<>> \in Seq(Units)
      BY <3>6
    <3> HIDE DEF z
    <3>2. y \in SockType /\ y.fd = p /\ y.out = <<>>
      BY <1>9, <3>1 DEF SockType
    <3> HIDE DEF y
    <3>3. z \in SockType /\ z.fd = p /\ z.out = <<>> /\ z.head = 0
      BY <3>2 DEF SockType, z
    <3>4. sock' \in [Socks -> SockType] /\ sock'[i] = z /\ \A k \in Socks \ {i} : sock'[k] = sock[k]
      BY <1>9, <3>1, <3>3
    <3> QED  BY <2>2, <3>3, <3>4
  <2> QED  BY <1>3, <2>1, <2>2
<1>11. Grown(phone[p].got, phone'[p].got, sock[i].out, sock[i].head, n) /\ closed' = closed
  BY <1>3, <1>4, <1>5
<1> HIDE DEF p, g, h
<1> QED  BY <1>1, <1>2, <1>5, <1>7, <1>8, <1>10, <1>11, WroteClean DEF p

-----------------------------------------------------------------------------
(* The modem takes a frame. *)

LEMMA FrameFacts ==
    ASSUME Clean, toModem # <<>>, NEW m, m = toModem[1], m.what # "listen"
    PROVE  m.id \in Socks /\ m.for \in Phones /\ ~m.told /\ ~Asking(m.for) /\ 1 \in 1 .. Len(toModem)
<1>1. Types /\ Unanswered
  BY DEF Clean
<1>2. 1 \in 1 .. Len(toModem)
  <2>1. Len(toModem) \in Nat \ {0}
    BY <1>1, TailShifts DEF Types
  <2> QED  BY <2>1
<1>3. m.id \in Socks /\ m.for \in Phones /\ ~m.told
  BY <1>1, <1>2, ModemTyped
<1>4. ~Quiet(m.for)
  BY <1>2 DEF Quiet
<1> QED  BY <1>1, <1>2, <1>3, <1>4 DEF Unanswered

\* A frame that adds nothing to a socket; one that ends it is for its phone.
LEMMA DropsClean ==
    ASSUME Clean, toModem # <<>>, toModem' = Tail(toModem), UNCHANGED <<phone, slot, saved, saver, toHost>>,
           sock' \in [Socks -> SockType],
           \A i \in Socks : \/ sock'[i] = sock[i]
                            \/ sock'[i] = FreeSock /\ toModem[1].what \in {"close", "abort"} /\ sock[i].fd = toModem[1].for,
           cut \subseteq cut', cut' \subseteq Phones, closed' \subseteq Phones, \A p \in closed' \ closed : Whole(p)
    PROVE  Clean'
<1>1. Types /\ Tenants /\ Order /\ Over /\ Saving
  BY DEF Clean
<1>2. /\ toModem' \in Seq(ModemFrames) /\ Len(toModem') <= TX_RING /\ Moved(toModem, toModem', 1, {})
      /\ Moved(toHost, toHost', 0, {})
  BY <1>1, ModemTakenMoves, NotMoved, HostTyped
<1>3. SocksEnd /\ SlotsEnd /\ \A s \in Slots : Live(s)' <=> Live(s)
  BY DEF SocksEnd, SlotsEnd, Live
<1>4. SlotsShrink
  BY <1>3, EndShrinks
<1>5. Types'
  BY <1>1, <1>2 DEF Types, SockType
<1>6. Order'
  <2>1. ASSUME NEW i \in Socks, sock'[i].fd # sock[i].fd
        PROVE  /\ sock'[i].fd = None
               /\ \A s \in Slots : slot[s].owner # sock[i].fd
               /\ \A j \in 1 .. Len(toHost) : toHost[j].what = "open" => toHost[j].for # sock[i].fd
    <3>1. sock'[i] = FreeSock /\ toModem[1].what \in {"close", "abort"} /\ sock[i].fd = toModem[1].for
      BY <2>1
    <3>2. ~Asking(toModem[1].for) /\ 1 \in 1 .. Len(toModem)
      BY <3>1, FrameFacts
    <3>3. \A s \in Slots : slot[s].owner # toModem[1].for
      BY <1>1, <3>1, <3>2 DEF Over
    <3> QED  BY <3>1, <3>2, <3>3 DEF FreeSock, Asking
  <2> QED  BY <1>1, <1>4, <2>1, OrderStays
<1>7. Confirmed'
  BY <1>3, ConfirmedSame
<1>8. Saving'
  <2>1. \A p \in closed' \ closed : p \in Phones /\ Whole(p)
    OBVIOUS
  <2> QED  BY <1>3, <2>1, SavingSame
<1> QED  BY <1>2, <1>3, <1>5, <1>6, <1>7, <1>8, CleanStays

\* A unit goes behind those of its phone's socket.
LEMMA AddsClean ==
    ASSUME Clean, toModem # <<>>, toModem' = Tail(toModem), toModem[1].what = "data",
           UNCHANGED <<phone, slot, saved, saver, toHost, cut, closed>>,
           NEW i \in Socks, NEW p \in Phones, sock[i].fd = p, toModem[1].for = p,
           NEW u, u = [of |-> toModem[1].of, k |-> toModem[1].n],
           sock' \in [Socks -> SockType], sock'[i].fd = p, sock'[i].head = sock[i].head, Extended(sock[i].out, sock'[i].out, u),
           \A k \in Socks \ {i} : sock'[k] = sock[k]
    PROVE  Clean'
<1>1. Types /\ Tenants /\ Order /\ Coming /\ Unanswered /\ InOrder /\ Over /\ Confirmed /\ Requests /\ Cuts /\ Saving
  BY DEF Clean
<1>2. /\ toModem' \in Seq(ModemFrames) /\ Len(toModem') <= TX_RING /\ Moved(toModem, toModem', 1, {})
      /\ Shifted(toModem, toModem') /\ Len(toModem') \in Nat /\ Moved(toHost, toHost', 0, {})
  BY <1>1, ModemTakenMoves, NotMoved, HostTyped
<1>3. SlotsShrink /\ SlotsEnd /\ SocksShrink /\ \A s \in Slots : Live(s)' <=> Live(s)
  BY DEF SlotsShrink, SlotsEnd, SocksShrink, Live
<1>4. \A k \in Socks : sock'[k].fd = sock[k].fd
  OBVIOUS
<1>5. ~Asking(p)
  BY FrameFacts
<1>6. Types'
  BY <1>1, <1>2 DEF Types, SockType
<1>7. Tenants'
  BY <1>1, <1>3, TenantsStay
<1>8. Order'
  BY <1>1, <1>3, <1>4, OrderStays
<1>9. Coming'
  BY <1>1, <1>2, <1>3, ComingStays
<1>10. Unanswered'
  <2> SUFFICES ASSUME NEW q \in Phones, Asking(q)' PROVE Quiet(q)'
    BY DEF Unanswered
  <2>1. Asking(q)
    BY <1>3 DEF Asking
  <2>2. q # p /\ Quiet(q)
    BY <1>1, <1>5, <2>1 DEF Unanswered
  <2>3. \A k \in Socks : sock'[k].fd = q => (sock[k].fd = q /\ sock'[k].out = sock[k].out) \/ sock'[k].out = <<>>
    BY <2>2
  <2> QED  BY <1>2, <2>2, <2>3, QuietStays
<1>11. InOrder'
  BY <1>1, <1>2, TakeDataInOrder
<1>12. Over'
  <2>1. \A q \in Phones : Whole(q) => Whole(q)'
    BY DEF Whole
  <2> QED  BY <1>1, <1>2, <2>1, OverStays
<1>13. Confirmed'
  BY <1>1, <1>3, ConfirmedStays
<1>14. Requests'
  BY <1>1, <1>3, RequestsStay
<1>15. Cuts'
  BY <1>1, <1>2, <1>3, CutsStay
<1>16. Saving'
  BY <1>3, SavingSame
<1> QED  BY <1>6, <1>7, <1>8, <1>9, <1>10, <1>11, <1>12, <1>13, <1>14, <1>15, <1>16 DEF Clean

LEMMA TakeDataClean ==
    ASSUME Clean, ~crossed', toModem # <<>>, toModem' = Tail(toModem), NEW m, m = toModem[1], TakeData(m),
           UNCHANGED <<phone, slot, saved, saver, toHost>>
    PROVE  Clean'
<1>1. Types
  BY DEF Clean
<1>2. m.what = "data" /\ ~Crosses(m) /\ UNCHANGED <<closed, cut>>
  BY DEF TakeData
<1> DEFINE i == m.id
           p == m.for
           u == [of |-> m.of, k |-> m.n]
<1>3. i \in Socks /\ p \in Phones /\ ~m.told /\ 1 \in 1 .. Len(toModem)
  BY <1>2, FrameFacts
<1>4. u \in Units
  <2>1. m.of = {p} /\ m.n \in 1 .. RESPONSE
    BY <1>1, <1>2, <1>3, ModemTyped
  <2> QED  BY <1>3, <2>1 DEF Units
<1>5. sock[i].fd \in {None, p}
  BY <1>2, <1>3 DEF Crosses
<1>6. sock \in [Socks -> SockType] /\ sock[i] \in SockType /\ cut \subseteq Phones /\ closed \subseteq Phones
  BY <1>1, <1>3 DEF Types, SockType
<1>7. sock' = [sock EXCEPT ![i] = IF sock[i].fd = None THEN sock[i] ELSE Written(sock[i], u)]
  BY DEF TakeData
<1> HIDE DEF i, u, p
<1>8. CASE sock[i].fd = None \/ ~(Len(sock[i].out) < OUT_BUF)
  <2>1. sock' = sock
    BY <1>3, <1>6, <1>7, <1>8 DEF Written
  <2> QED  BY <1>2, <1>6, <2>1, DropsClean
<1>9. CASE sock[i].fd = p /\ p # None /\ Len(sock[i].out) < OUT_BUF
  <2> DEFINE o == Append(sock[i].out, u)
             z == [sock[i] EXCEPT !.out = o]
  <2>1. o \in Seq(Units) /\ Extended(sock[i].out, o, u)
    BY <1>4, <1>6, AppendExtends DEF SockType
  <2>2. sock' = [sock EXCEPT ![i] = z]
    BY <1>7, <1>9 DEF Written
  <2> HIDE DEF o
  <2>3. z \in SockType /\ z.fd = p /\ z.head = sock[i].head /\ z.out = o
    BY <1>6, <1>9, <2>1 DEF SockType
  <2> HIDE DEF z
  <2>4. sock' \in [Socks -> SockType] /\ sock'[i] = z /\ \A k \in Socks \ {i} : sock'[k] = sock[k]
    BY <1>3, <1>6, <2>2, <2>3
  <2>5. toModem[1].for = p /\ u = [of |-> toModem[1].of, k |-> toModem[1].n]
    BY DEF p, u
  <2>6. sock'[i].fd = p /\ sock'[i].head = sock[i].head /\ Extended(sock[i].out, sock'[i].out, u)
    BY <2>1, <2>3, <2>4
  <2> QED  BY <1>2, <1>3, <1>9, <2>4, <2>5, <2>6, AddsClean
<1>10. p # None
  BY <1>3, Constants
<1> QED  BY <1>5, <1>8, <1>9, <1>10

\* An M_SOCK_CLOSE of the kiosk finds a socket that has sent everything.
LEMMA NothingWaits ==
    ASSUME Clean, NEW i \in Socks, NEW p \in Phones, sock[i].fd = p, Whole(p)
    PROVE  ~(sock[i].head < Len(sock[i].out))
<1>1. Types /\ OutInOrder(i)
  BY DEF Clean, InOrder
<1> DEFINE h == sock[i].head
           l == Len(sock[i].out)
           g == Len(phone[p].got)
           k == sock[i].out[l].k
<1>2. h \in Nat /\ l \in Nat /\ g = RESPONSE /\ p # None
  BY <1>1, SockTyped, Constants DEF Whole
<1> SUFFICES ASSUME h < l PROVE FALSE
  OBVIOUS
<1>3. l \in h + 1 .. l /\ l \in 1 .. l
  <2> HIDE DEF h, l
  <2> QED  BY <1>2
<1>4. g + (l - h) <= k
  BY <1>1, <1>2, <1>3 DEF OutInOrder
<1>5. k \in 1 .. RESPONSE
  BY <1>1, <1>3, SockTyped
<1> HIDE DEF h, l, g, k
<1> QED  BY <1>2, <1>4, <1>5, Constants

LEMMA TakeCloseClean ==
    ASSUME Clean, ~crossed', toModem # <<>>, toModem' = Tail(toModem), NEW m, m = toModem[1], TakeClose(m),
           UNCHANGED <<phone, slot, saved, saver, toHost>>
    PROVE  Clean'
<1>1. Types /\ Over
  BY DEF Clean
<1>2. m.what \in {"close", "abort"} /\ ~Crosses(m)
  BY DEF TakeClose
<1> DEFINE i == m.id
           p == m.for
<1>3. i \in Socks /\ p \in Phones /\ ~m.told /\ 1 \in 1 .. Len(toModem)
  BY <1>2, FrameFacts
<1>4. sock[i].fd \in {None, p}
  BY <1>2, <1>3 DEF Crosses
<1>5. sock \in [Socks -> SockType] /\ cut \subseteq Phones /\ closed \subseteq Phones
  BY <1>1 DEF Types, SockType
<1>6. CASE UNCHANGED <<sock, closed, cut>>
  BY <1>5, <1>6, DropsClean
<1>7. sock[i].fd # None /\ m.what = "close" => Whole(p) /\ ~(sock[i].head < Len(sock[i].out))
  <2> SUFFICES ASSUME sock[i].fd = p, m.what = "close" PROVE Whole(p) /\ ~(sock[i].head < Len(sock[i].out))
    BY <1>4
  <2>1. Whole(p)
    BY <1>1, <1>3 DEF Over
  <2> QED  BY <1>3, <2>1, NothingWaits
<1>8. ASSUME sock[i].fd # None, DropSock(i), cut \subseteq cut', cut' \subseteq Phones, closed' \subseteq Phones,
             \A q \in closed' \ closed : Whole(q)
      PROVE  Clean'
  <2>1. sock' = [sock EXCEPT ![i] = FreeSock]
    BY <1>8 DEF DropSock
  <2>2. sock' \in [Socks -> SockType] /\ sock'[i] = FreeSock /\ \A k \in Socks \ {i} : sock'[k] = sock[k]
    BY <1>3, <1>5, <2>1, FreeTyped
  <2>3. sock[i].fd = toModem[1].for
    BY <1>4, <1>8
  <2>4. \A k \in Socks : \/ sock'[k] = sock[k]
                         \/ sock'[k] = FreeSock /\ toModem[1].what \in {"close", "abort"} /\ sock[k].fd = toModem[1].for
    BY <1>2, <2>2, <2>3
  <2> QED  BY <1>8, <2>2, <2>4, DropsClean
<1>9. CASE sock[i].fd # None /\ DropSock(i) /\ cut' = cut \cup {sock[i].fd} /\ UNCHANGED closed
  <2>1. cut \subseteq cut' /\ cut' \subseteq Phones /\ closed' \subseteq Phones /\ \A q \in closed' \ closed : Whole(q)
    BY <1>3, <1>4, <1>5, <1>9
  <2> QED  BY <1>8, <1>9, <2>1
<1>10. CASE sock[i].fd # None /\ m.what = "close" /\ DropSock(i) /\ closed' = closed \cup {sock[i].fd} /\ UNCHANGED cut
  <2>1. cut \subseteq cut' /\ cut' \subseteq Phones /\ closed' \subseteq Phones /\ \A q \in closed' \ closed : Whole(q)
    BY <1>3, <1>4, <1>5, <1>7, <1>10
  <2> QED  BY <1>8, <1>10, <2>1
<1> QED  BY <1>6, <1>7, <1>9, <1>10 DEF TakeClose

LEMMA ModemTakesClean ==
    ASSUME Clean, ~crossed', ModemTakes
    PROVE  Clean'
<1> DEFINE m == Head(toModem)
<1>1. toModem # <<>> /\ toModem' = Tail(toModem) /\ UNCHANGED <<phone, slot, saved, saver, toHost>>
  BY DEF ModemTakes, host
<1>2. m = toModem[1]
  BY <1>1, ModemTakenMoves DEF Clean
<1>3. CASE TakeData(m)
  BY <1>1, <1>2, <1>3, TakeDataClean
<1>4. CASE TakeClose(m)
  BY <1>1, <1>2, <1>4, TakeCloseClean
<1>5. CASE TakeListen(m)
  <2>1. UNCHANGED <<sock, closed, cut>>
    BY <1>5 DEF TakeListen, history
  <2>2. sock \in [Socks -> SockType] /\ cut \subseteq Phones /\ closed \subseteq Phones
    BY DEF Clean, Types, SockType
  <2> QED  BY <1>1, <2>1, <2>2, DropsClean
<1> QED  BY <1>3, <1>4, <1>5 DEF ModemTakes

-----------------------------------------------------------------------------
\* The modem restarts: every phone that has come is cut.
LEMMA RestartClean ==
    ASSUME Clean, Restart
    PROVE  Clean'
<1>1. Types /\ Tenants /\ Order /\ Coming /\ Unanswered /\ InOrder /\ Over /\ Confirmed /\ Requests /\ Cuts /\ Saving
  BY DEF Clean
<1>2. PICK n \in 0 .. Len(toHost) : toHost' = Append(SubSeq(toHost, 1, n), Hello)
  BY DEF Restart
<1>3. /\ sock' = [i \in Socks |-> FreeSock] /\ cut' = cut \cup {p \in Phones : phone[p].came}
      /\ UNCHANGED <<phone, slot, saved, saver, toModem, closed>>
  BY DEF Restart, host
<1>4. toHost \in Seq(HostFrames) /\ Hello \in HostFrames /\ Hello.what = "hello"
  BY <1>1, HostTyped, HelloType DEF Hello, Frame
<1>5. toHost' \in Seq(HostFrames) /\ Cut(toHost, toHost', n) /\ Len(toHost) \in Nat
  BY <1>2, <1>4, RestartCuts
<1>6. Moved(toHost, toHost', 0, {Hello}) /\ Moved(toModem, toModem', 0, {})
  BY <1>1, <1>3, <1>5, CutMoved, NotMoved, ModemTyped
<1>7. /\ sock' \in [Socks -> SockType]
      /\ \A i \in Socks : sock'[i].fd = None /\ sock'[i].out = <<>> /\ sock'[i].head = 0
  BY <1>3, FreeTyped DEF FreeSock
<1>8. SlotsShrink /\ SlotsEnd /\ SocksShrink /\ \A s \in Slots : Live(s)' <=> Live(s)
  BY <1>3, <1>7 DEF SlotsShrink, SlotsEnd, SocksShrink, Live
<1>9. Types'
  BY <1>1, <1>3, <1>5, <1>7 DEF Types, SockType
<1>10. Tenants'
  BY <1>1, <1>8, TenantsStay
<1>11. Order'
  BY <1>1, <1>3, <1>5, <1>7, OrderRestarted
<1>12. Coming'
  <2>1. \A f \in {Hello} : f.what # "open" /\ (f.what # "hello" => f.for \in Phones /\ phone'[f.for].came)
    BY <1>4
  <2>2. \A p \in Phones : phone[p].came => phone'[p].came
    BY <1>3
  <2> QED  BY <1>1, <1>6, <1>8, <2>1, <2>2, ComingStays
<1>13. Unanswered'
  <2> SUFFICES ASSUME NEW p \in Phones, Asking(p)' PROVE Quiet(p)'
    BY DEF Unanswered
  <2>1. Asking(p)
    <3>1. \A f \in {Hello} : f.what # "open"
      BY <1>4
    <3> QED  BY <1>3, <1>6, <1>8, <3>1, AskingBefore
  <2>2. Quiet(p)
    BY <1>1, <2>1 DEF Unanswered
  <2>3. phone'[p].got = phone[p].got /\ \A i \in Socks : sock'[i].fd # p
    BY <1>3, <1>7, Constants
  <2>4. \A f \in {Hello} : f.for = p => f.what # "took"
    BY <1>4
  <2> QED  BY <1>6, <2>2, <2>3, <2>4, QuietStays
<1>14. InOrder'
  <2>1. \A s \in Slots : Live(s)' /\ slot'[s].responding =>
              Live(s) /\ slot[s].responding /\ slot'[s].owner = slot[s].owner /\ slot'[s].sent = slot[s].sent
    BY <1>3, <1>8
  <2> QED  BY <1>1, <1>3, <1>6, <1>7, <2>1, InOrderStays
<1>15. \A p \in Phones : Whole(p) => Whole(p)'
  BY <1>3 DEF Whole
<1>16. Over'
  BY <1>1, <1>3, <1>6, <1>15, OverStays
<1>17. Confirmed'
  <2> SUFFICES ASSUME NEW a, NEW k \in Socks, NEW q \in Phones, Counts(toHost, k, a, Len(phone[q].got))
               PROVE  Counts(toHost', k, a, Len(phone'[q].got))
    BY <1>1, <1>3, <1>8, ConfirmedStays
  <2> DEFINE b == Len(phone[q].got)
  <2>1. b \in Nat /\ b = Len(phone'[q].got) /\ Counts(toHost, k, a, b)
    BY <1>1, <1>3, PhoneTyped
  <2> HIDE DEF b
  <2> QED  BY <1>5, <2>1, CountsCut
<1>18. Requests'
  BY <1>1, <1>3, <1>8, RequestsStay
<1>19. Cuts'
  <2>1. \A j \in 1 .. Len(toHost') : toHost'[j].what # "hello" => toHost'[j].for \in cut'
    <3> SUFFICES ASSUME NEW j \in 1 .. Len(toHost'), toHost'[j].what # "hello" PROVE toHost'[j].for \in cut'
      OBVIOUS
    <3>1. j \in 1 .. Len(toHost) /\ toHost'[j] = toHost[j]
      BY <1>4, <1>6 DEF Moved
    <3>2. toHost[j].for \in Phones /\ phone[toHost[j].for].came
      BY <1>1, <3>1, HostTyped DEF Coming
    <3> QED  BY <1>3, <3>1, <3>2
  <2>2. \A s \in Slots : Live(s)' => slot'[s].owner \in cut'
    BY <1>1, <1>3, <1>8 DEF Coming, Tenants
  <2> QED  BY <2>1, <2>2 DEF Cuts
<1>20. Saving'
  <2>1. \A s \in Slots : Live(s)' <=> Live(s)
    BY <1>8
  <2> QED  BY <1>3, <1>8, <2>1, SavingSame
<1> QED  BY <1>9, <1>10, <1>11, <1>12, <1>13, <1>14, <1>16, <1>17, <1>18, <1>19, <1>20 DEF Clean

-----------------------------------------------------------------------------
LEMMA InitClean == Init => Clean
<1> SUFFICES ASSUME Init PROVE Clean
  OBVIOUS
<1>1. /\ toHost = <<>> /\ toModem = <<>> /\ saved = "no" /\ saver = None /\ closed = {} /\ cut = {}
      /\ Len(toHost) = 0 /\ Len(toModem) = 0 /\ \A j \in 1 .. 0 : FALSE
  BY DEF Init
<1>2. /\ \A p \in Phones : phone[p].came = FALSE /\ phone[p].got = <<>>
      /\ \A i \in Socks : sock[i].fd = None /\ sock[i].out = <<>> /\ sock[i].head = 0
      /\ \A s \in Slots : ~Live(s) /\ slot[s].owner = None
  BY DEF Init, FreeSock, FreeSlot, Live
<1>3. Types
  <2>1. phone \in [Phones -> [came : BOOLEAN, asked : Nat, got : Seq(Units), left : BOOLEAN]]
    <3>1. <<>> \in Seq(Units) /\ 0 \in Nat
      OBVIOUS
    <3> QED  BY <3>1 DEF Init
  <2>2. sock \in [Socks -> SockType] /\ slot \in [Slots -> SlotType]
    BY FreeTyped DEF Init
  <2>3. toHost \in Seq(HostFrames) /\ toModem \in Seq(ModemFrames) /\ Len(toModem) <= TX_RING
    BY <1>1, Constants
  <2> QED  BY <1>1, <2>1, <2>2, <2>3 DEF Types, SockType, SlotType
<1>4. Tenants /\ Order /\ Coming
  BY <1>1, <1>2, Constants DEF Tenants, Order, Coming
<1>5. Unanswered
  BY <1>1, <1>2 DEF Unanswered, Quiet
<1>6. InOrder
  <2>1. Len(<<>>) = 0
    OBVIOUS
  <2>2. (\A p \in Phones : GotInOrder(p)) /\ FramesInOrder
    BY <1>1, <1>2, <2>1 DEF GotInOrder, FramesInOrder
  <2>3. \A i \in Socks : OutInOrder(i)
    BY <1>2, <2>1 DEF OutInOrder
  <2> QED  BY <1>2, <2>2, <2>3 DEF InOrder
<1>7. Over /\ Confirmed /\ Requests /\ Cuts /\ Saving
  BY <1>1, <1>2 DEF Over, Confirmed, Requests, Cuts, Saving
<1> QED  BY <1>3, <1>4, <1>5, <1>6, <1>7 DEF Clean

\* Once a frame has crossed it has, and no other step than the modem's taking one makes it so.
LEMMA StepClean ==
    ASSUME IInv, [Next]_vars
    PROVE  IInv'
<1>1. crossed => crossed'
  <2>1. CASE ModemTakes
    BY <2>1 DEF ModemTakes, TakeData, TakeClose, TakeListen, history
  <2>2. CASE UNCHANGED crossed
    BY <2>2
  <2>3. [Next]_vars => ModemTakes \/ UNCHANGED crossed
    BY DEF Next, Kiosk, Modem, Faulty, OnOpen, OnRead, OnTook, OnGone, OnHello, Store, Reboot, PumpAgain, ReadSock, WriteSock,
           Accept, Restart, GiveUp, HangUp, history, vars
  <2> QED  BY <2>1, <2>2, <2>3
<1> SUFFICES ASSUME ~crossed' PROVE Clean'
  BY DEF IInv
<1>2. Clean
  BY <1>1 DEF IInv
<1>3. CASE OnOpen
  BY <1>2, <1>3, OnOpenClean
<1>4. CASE OnRead
  BY <1>2, <1>4, OnReadClean
<1>5. CASE OnTook
  BY <1>2, <1>5, OnTookClean
<1>6. CASE OnGone
  BY <1>2, <1>6, OnGoneClean
<1>7. CASE OnHello
  BY <1>2, <1>7, OnHelloClean
<1>8. CASE Store
  BY <1>2, <1>8, StoreClean
<1>9. CASE Reboot
  BY <1>2, <1>9, RebootClean
<1>10. ASSUME NEW s \in Slots, PumpAgain(s) PROVE Clean'
  BY <1>2, <1>10, PumpAgainClean
<1>11. CASE ModemTakes
  BY <1>2, <1>11, ModemTakesClean
<1>12. ASSUME NEW i \in Socks, ReadSock(i) PROVE Clean'
  BY <1>2, <1>12, ReadSockClean
<1>13. ASSUME NEW i \in Socks, WriteSock(i) PROVE Clean'
  BY <1>2, <1>13, WriteSockClean
<1>14. ASSUME NEW p \in Phones, Accept(p) PROVE Clean'
  BY <1>2, <1>14, AcceptClean
<1>15. CASE Restart
  BY <1>2, <1>15, RestartClean
<1>16. ASSUME NEW s \in Slots, GiveUp(s) PROVE Clean'
  BY <1>2, <1>16, GiveUpClean
<1>17. ASSUME NEW p \in Phones, HangUp(p) PROVE Clean'
  BY <1>2, <1>17, HangUpClean
<1>18. CASE UNCHANGED vars
  <2>1. UNCHANGED <<phone, sock, slot, saved, saver, toModem, toHost, closed, cut>>
    BY <1>18 DEF vars
  <2>2. Types'
    BY <1>2, <2>1 DEF Clean, Types
  <2>3. Saving'
    BY <1>2, <2>1 DEF Clean, Saving, Whole, Answering, Live
  <2> QED  BY <1>2, <2>1, <2>2, <2>3, IdleClean
<1> QED  BY <1>3, <1>4, <1>5, <1>6, <1>7, <1>8, <1>9, <1>10, <1>11, <1>12, <1>13, <1>14, <1>15, <1>16, <1>17, <1>18
         DEF Next, Kiosk, Modem, Faulty

\* The invariant holds in every state: while no frame for a phone has reached the next phone of its number,
\* everything the two sides and the frames between them say of a phone agrees.
THEOREM RelayInvariant == Spec => []IInv
<1>1. Init => IInv
  BY InitClean DEF IInv
<1>2. IInv /\ [Next]_vars => IInv'
  BY StepClean
<1> QED  BY <1>1, <1>2, PTL DEF Spec

\* A phone's socket takes only units of the answer to that phone's own request, in order and none twice
\* (provision.c conn_pump, portal.c do_write), however numbers are given out again and the modem restarts.
THEOREM PhonesGetTheirOwn == Spec => []OwnAnswer
<1>1. IInv => OwnAnswer
  BY CleanOwnAnswer DEF IInv, OwnAnswer
<1> QED  BY <1>1, RelayInvariant, PTL

\* The kiosk closes a connection in order only when the modem's socket has taken the whole answer
\* (provision.c at M_SOCK_SENT, portal.c portal_close).
THEOREM ClosedIsWhole == Spec => []WholeBeforeClose
<1>1. IInv => WholeBeforeClose
  BY CleanWholeBeforeClose DEF IInv, WholeBeforeClose
<1> QED  BY <1>1, RelayInvariant, PTL

\* A kiosk that reboots before the grace is over has told the phone that posted the form, unless that
\* phone was cut or left (provision.c provision_poll, portal_busy).
THEOREM SavedPhoneIsTold == Spec => []SavedIsTold
<1>1. IInv => SavedIsTold
  BY CleanSavedIsTold DEF IInv, SavedIsTold
<1> QED  BY <1>1, RelayInvariant, PTL
=============================================================================
