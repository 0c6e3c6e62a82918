--------------------------- MODULE WifiJoinProof ---------------------------
(***************************************************************************)
(* Finding and keeping a network over the modem, proved for every list of  *)
(* networks, every room and any number of crashes, resets and commands:    *)
(* what the two sides know of each other's station and access point, what  *)
(* the kiosk's attempt names, and that a lost network is noticed.          *)
(***************************************************************************)
EXTENDS WifiJoin, WellFoundedInduction, TLAPS

Names == Ssids \cup {NoSsid}
States == {"down", "connecting", "up", "failed", "ap"}
Requests == [t : {"connect", "ap_start", "ap_stop", "scan"}, ssid : Names, keep : BOOLEAN]
Reports == [t : {"state", "hello", "scanned"}, st : States, n : Nat, seen : SUBSET Ssids]

Kiosk ==
    [state : {"boot", "provision", "wifi_wait", "poll"}, nets : Seq(Ssids), saved : Seq(Ssids), dirty : BOOLEAN,
     attempt : Nat, fallback : BOOLEAN, failing : BOOLEAN, active : BOOLEAN,
     wifi : States, wantSta : BOOLEAN, sta : Names, wantAp : BOOLEAN, keep : BOOLEAN, session : Nat,
     requested : BOOLEAN, running : BOOLEAN, sightings : SUBSET Ssids,
     posted : Names, reboot : BOOLEAN, out : Seq(Requests)]

Modem ==
    [st : States, want : Names, have : BOOLEAN, ap : BOOLEAN, self : BOOLEAN,
     armed : BOOLEAN, firing : BOOLEAN, joining : BOOLEAN, scanning : BOOLEAN, session : Nat]

Radios == [sta : {"idle", "joining", "linked", "ip"}, ssid : Names]
Happenings == {"connected", "disconnected", "got_ip"}

-----------------------------------------------------------------------------
(***************************************************************************)
(* The invariant, in parts.                                                *)
(***************************************************************************)
ModemTypes == m \in Modem /\ radio \in Radios /\ ev \in Seq(Happenings)

\* A list of networks that fits.
Fits(list) == Len(list) <= KIOSK_MAX_NETWORKS

Attempted(x) ==
    x.state = "wifi_wait" /\ x.attempt # 0 =>
        x.attempt <= Len(x.nets) /\ (x.reboot \/ x.nets[x.attempt] = x.sta)

\* The kiosk's memory between two handlers: its types, and lists that fit.
Fit(x) == x \in Kiosk /\ Fits(x.nets) /\ Fits(x.saved)

KioskTypes == Fit(k) /\ k.out = <<>> /\ room \in [Ssids -> Rooms]

\* The kiosk has heard of no modem that has not started yet.
LinkTypes ==
    /\ up \in Seq(Reports) /\ down \in Seq(Requests)
    /\ k.session <= m.session
    /\ \A i \in 1 .. Len(up) : up[i].t = "hello" => up[i].n <= m.session

\* The disconnect that a new join raises is the first in line.
SelfPending == m.self => \E i \in 1 .. Len(ev) : ev[i] = "disconnected"

\* A station that has gone, and that the modem holds up or will, has a disconnect of its own in line.
LossOwed ==
    radio.sta = "idle" /\ (m.st = "up" \/ \E i \in 1 .. Len(ev) : ev[i] = "got_ip") =>
        \E i \in 1 .. Len(ev) :
            /\ ev[i] = "disconnected"
            /\ \A j \in 1 .. Len(ev) : j > i => ev[j] # "got_ip"
            /\ m.self => \E j \in 1 .. i - 1 : ev[j] = "disconnected"

\* The requests that settle whether the modem wants the station, and the access point.
ForStation(f) == f.t = "connect" \/ (f.t = "ap_start" /\ ~f.keep)
ForAp(f) == f.t \in {"ap_start", "ap_stop"}

\* Of the requests q the last that settles the one, or the other.
LastForStation(q, i) == ForStation(q[i]) /\ \A j \in 1 .. Len(q) : j > i => ~ForStation(q[j])
LastForAp(q, i) == ForAp(q[i]) /\ \A j \in 1 .. Len(q) : j > i => ~ForAp(q[j])

\* What is on the way to the modem, or the modem, agrees with the kiosk x, or it is a fresh one.
StationTold(x, q) ==
    \/ \E i \in 1 .. Len(q) : /\ LastForStation(q, i)
                              /\ x.wantSta => q[i] = Connect(x.sta)
                              /\ ~x.wantSta => q[i].t = "ap_start"
    \/ /\ \A i \in 1 .. Len(q) : ~ForStation(q[i])
       /\ \/ m.have = x.wantSta /\ (x.wantSta => m.want = x.sta)
          \/ x.session # m.session /\ ~m.have

ApTold(x, q) ==
    \/ \E i \in 1 .. Len(q) : /\ LastForAp(q, i)
                              /\ x.wantAp <=> q[i].t = "ap_start"
    \/ /\ \A i \in 1 .. Len(q) : ~ForAp(q[i])
       /\ m.ap = x.wantAp \/ (x.session # m.session /\ ~m.ap)

\* What is on the way to the kiosk x, or x itself, agrees with the modem's state, or a request is
\* on its way that will end that state.
StateTold(x, q, u) ==
    x.session = m.session =>
        \/ \E i \in 1 .. Len(u) : /\ u[i].t = "state" /\ u[i].st = m.st
                                  /\ \A j \in 1 .. Len(u) : j > i => u[j].t # "state"
        \/ /\ \A i \in 1 .. Len(u) : u[i].t # "state"
           /\ \/ x.wifi = "up" <=> m.st = "up"
              \/ /\ x.wifi # "up" /\ m.st = "up"
                 /\ ~x.wantSta \/ \E i \in 1 .. Len(q) : ForStation(q[i])

Told(x, u) ==
    /\ StationTold(x, down \o x.out)
    /\ ApTold(x, down \o x.out)
    /\ StateTold(x, down \o x.out, u)

\* What a handler leaves true, u being the frames it has not read.
Keeps(x, y, u) == /\ Fit(y)
                  /\ y.session = x.session
                  /\ Told(x, u) => Told(y, u)

\* What the attempt is about, and what the modem is told, are left alone.
SameAttempt(x, y) == y.state = x.state /\ y.nets = x.nets /\ y.attempt = x.attempt /\ y.sta = x.sta /\ y.reboot = x.reboot
SameWants(x, y) == /\ y.wantSta = x.wantSta /\ y.sta = x.sta /\ y.wantAp = x.wantAp /\ y.keep = x.keep
                   /\ y.session = x.session /\ y.wifi = x.wifi /\ y.out = x.out

-----------------------------------------------------------------------------
(***************************************************************************)
(* The list of networks.                                                   *)
(***************************************************************************)
\* A known network is found where it stands.
LEMMA Found ==
  ASSUME NEW list \in Seq(Ssids), NEW s
  PROVE  /\ NetFind(list, s) \in 0 .. Len(list)
         /\ NetFind(list, s) # 0 => list[NetFind(list, s)] = s
<1>1. s \in ToSet(list) => \E i \in DOMAIN list : list[i] = s
  BY DEF ToSet
<1>2. Len(list) \in Nat /\ DOMAIN list = 1 .. Len(list)
  OBVIOUS
<1>. QED
  BY <1>1, <1>2 DEF NetFind

\* What removing the element at i leaves.
LEMMA Removed ==
  ASSUME NEW list \in Seq(Ssids), NEW i \in 1 .. Len(list)
  PROVE  RemoveAt(list, i) \in Seq(Ssids) /\ Len(RemoveAt(list, i)) = Len(list) - 1
<1>1. SubSeq(list, 1, i - 1) \in Seq(Ssids) /\ Len(SubSeq(list, 1, i - 1)) = i - 1
  OBVIOUS
<1>2. SubSeq(list, i + 1, Len(list)) \in Seq(Ssids) /\ Len(SubSeq(list, i + 1, Len(list))) = Len(list) - i
  OBVIOUS
<1>. DEFINE a == SubSeq(list, 1, i - 1)
            b == SubSeq(list, i + 1, Len(list))
<1>3. RemoveAt(list, i) = a \o b
  BY DEF RemoveAt
<1>. HIDE DEF a, b
<1>4. a \in Seq(Ssids) /\ Len(a) = i - 1 /\ b \in Seq(Ssids) /\ Len(b) = Len(list) - i
  BY <1>1, <1>2 DEF a, b
<1>5. a \o b \in Seq(Ssids) /\ Len(a \o b) = Len(a) + Len(b)
  BY <1>4
<1>. QED
  BY <1>3, <1>4, <1>5

\* A network that is moved to the front leaves the list as long as it was.
LEMMA Promoted ==
  ASSUME NEW list \in Seq(Ssids), NEW i \in 0 .. Len(list)
  PROVE  NetPromote(list, i) \in Seq(Ssids) /\ Len(NetPromote(list, i)) = Len(list)
<1>1. CASE i <= 1
  BY <1>1 DEF NetPromote
<1>2. CASE i > 1
  <2>1. RemoveAt(list, i) \in Seq(Ssids) /\ Len(RemoveAt(list, i)) = Len(list) - 1
    BY <1>2, Removed
  <2>2. <<list[i]>> \in Seq(Ssids) /\ Len(<<list[i]>>) = 1
    BY <1>2
  <2>. QED
    BY <1>2, <2>1, <2>2 DEF NetPromote
<1>. QED
  BY <1>1, <1>2

\* A network that is added fits, and none that an attempt names is pushed out of reach.
LEMMA Added ==
  ASSUME NEW list \in Seq(Ssids), Fits(list), NEW s \in Ssids
  PROVE  /\ NetAdd(list, s) \in Seq(Ssids) /\ Fits(NetAdd(list, s))
         /\ Len(NetAdd(list, s)) >= Len(list)
<1>. USE NetworksAssumption
<1>1. CASE NetFind(list, s) # 0
  <2>1. NetAdd(list, s) = NetPromote(list, NetFind(list, s))
    BY <1>1 DEF NetAdd
  <2>. QED
    BY <2>1, Found, Promoted DEF Fits
<1>2. CASE NetFind(list, s) = 0
  <2>. DEFINE more == <<s>> \o list
              n == IF Len(list) < KIOSK_MAX_NETWORKS THEN Len(list) + 1 ELSE KIOSK_MAX_NETWORKS
  <2>1. more \in Seq(Ssids) /\ Len(more) = Len(list) + 1
    OBVIOUS
  <2>2. n \in 1 .. Len(list) + 1 /\ n >= Len(list) /\ n <= KIOSK_MAX_NETWORKS
    BY DEF Fits
  <2>3. NetAdd(list, s) = SubSeq(more, 1, n)
    BY <1>2 DEF NetAdd
  <2>. HIDE DEF more, n
  <2>4. SubSeq(more, 1, n) \in Seq(Ssids) /\ Len(SubSeq(more, 1, n)) = n
    BY <2>1, <2>2
  <2>. QED
    BY <2>2, <2>3, <2>4 DEF Fits
<1>. QED
  BY <1>1, <1>2

LEMMA Forgotten ==
  ASSUME NEW list \in Seq(Ssids), Fits(list), NEW s \in Ssids, NetFind(list, s) # 0
  PROVE  NetForget(list, s) \in Seq(Ssids) /\ Fits(NetForget(list, s))
<1>1. NetFind(list, s) \in 1 .. Len(list)
  BY Found
<1>2. NetForget(list, s) \in Seq(Ssids) /\ Len(NetForget(list, s)) = Len(list) - 1
  BY <1>1, Removed DEF NetForget
<1>. QED
  BY <1>2, NetworksAssumption DEF Fits

\* The strongest known network in range is in the list, when there is one.
LEMMA Best ==
  ASSUME NEW x, x.nets \in Seq(Ssids)
  PROVE  BestKnownInRange(x) \in 0 .. Len(x.nets)
<1>. DEFINE L == Len(x.nets)
            r(i) == Rssi[x.nets[i]]
            known == {i \in DOMAIN x.nets : x.nets[i] \in x.sightings}
            to(n) == \E i \in known : \A j \in known : j <= L - n => r(j) <= r(i)
            T == {n \in Nat : n <= L /\ to(n)}
<1>1. L \in Nat /\ DOMAIN x.nets = 1 .. L
  OBVIOUS
<1>2. known \subseteq 1 .. L
  BY <1>1
<1>3. \A i \in known : r(i) \in Int
  BY <1>1, NetworksAssumption
<1>4. CASE known = {}
  BY <1>4, <1>1 DEF BestKnownInRange
<1>5. CASE known # {}
  <2>. HIDE DEF L, r, known
  <2>1. PICK a \in known : TRUE
    BY <1>5
  <2>2. L \in T
    <3>1. \A j \in known : ~(j <= L - L)
      BY <1>1, <1>2
    <3>. QED
      BY <1>1, <2>1, <3>1
  <2>3. PICK n \in T : \A y \in T : ~(<<y, n>> \in OpToRel(<, Nat))
    BY <2>2, NatLessThanWellFounded, WFMin
  <2>4. \A y \in T : ~(y < n)
    BY <2>3 DEF OpToRel
  <2>5. PICK i \in known : \A j \in known : j <= L - n => r(j) <= r(i)
    BY <2>3
  <2>6. n = 0
    <3>. SUFFICES ASSUME n # 0 PROVE FALSE
      OBVIOUS
    <3>. DEFINE c == L - n + 1
    <3>1. n \in Nat /\ n - 1 \in Nat /\ n <= L /\ n - 1 <= L /\ n - 1 < n
      BY <1>1
    <3>2. \A j \in known : j <= L - (n - 1) => j = c \/ j <= L - n
      BY <1>1, <1>2, <3>1
    <3>3. to(n - 1)
      <4>1. CASE c \in known /\ r(c) > r(i)
        <5>1. \A j \in known : j <= L - (n - 1) => r(j) <= r(c)
          <6>. SUFFICES ASSUME NEW j \in known, j <= L - (n - 1) PROVE r(j) <= r(c)
            OBVIOUS
          <6>1. CASE j = c
            BY <6>1, <1>3
          <6>2. CASE j <= L - n
            <7>. r(j) <= r(i) /\ r(j) \in Int /\ r(i) \in Int /\ r(c) \in Int
              BY <6>2, <2>5, <1>3, <4>1
            <7>. QED
              BY <4>1
          <6>. QED
            BY <3>2, <6>1, <6>2
        <5>. QED
          BY <4>1, <5>1
      <4>2. CASE ~(c \in known /\ r(c) > r(i))
        <5>1. \A j \in known : j <= L - (n - 1) => r(j) <= r(i)
          BY <3>2, <4>2, <2>5, <1>3
        <5>. QED
          BY <5>1
      <4>. QED
        BY <4>1, <4>2
    <3>4. n - 1 \in T
      BY <3>1, <3>3
    <3>. QED
      BY <3>1, <3>4, <2>4
  <2>7. \A j \in known : r(j) <= r(i)
    BY <2>5, <2>6, <1>1, <1>2
  <2>8. BestKnownInRange(x) \in known
    BY <2>7, <1>5 DEF BestKnownInRange, known, r
  <2>. QED
    BY <2>8, <1>1, <1>2 DEF L
<1>. QED
  BY <1>4, <1>5

-----------------------------------------------------------------------------
(***************************************************************************)
(* What the kiosk sends and what that says.                                *)
(***************************************************************************)
LEMMA Frames ==
  /\ \A s \in Names : Connect(s) \in Requests /\ ForStation(Connect(s)) /\ ~ForAp(Connect(s))
  /\ \A keep \in BOOLEAN : ApStart(keep) \in Requests /\ ForAp(ApStart(keep)) /\ (ForStation(ApStart(keep)) <=> ~keep)
  /\ \A keep \in BOOLEAN : ApStart(keep).t = "ap_start"
  /\ ApStop \in Requests /\ ForAp(ApStop) /\ ~ForStation(ApStop) /\ ApStop.t # "ap_start"
  /\ Scan \in Requests /\ ~ForAp(Scan) /\ ~ForStation(Scan)
BY DEF Connect, ApStart, ApStop, Scan, H, Requests, Names, ForStation, ForAp

\* One request more.
LEMMA OneMore ==
  ASSUME NEW q \in Seq(Requests), NEW f \in Requests
  PROVE  /\ Append(q, f) \in Seq(Requests) /\ Len(Append(q, f)) = Len(q) + 1 /\ Len(q) \in Nat
         /\ \A i \in 1 .. Len(q) : Append(q, f)[i] = q[i]
         /\ Append(q, f)[Len(q) + 1] = f
OBVIOUS

LEMMA Queued ==
  ASSUME NEW d \in Seq(Requests), NEW o \in Seq(Requests), NEW f \in Requests
  PROVE  d \o o \in Seq(Requests) /\ d \o Append(o, f) = Append(d \o o, f)
OBVIOUS

\* A request for the station, or to be without it, settles that.
LEMMA StationAsked ==
  ASSUME NEW q \in Seq(Requests), NEW f \in Requests, NEW y, ForStation(f),
         y.wantSta => f = Connect(y.sta), ~y.wantSta => f.t = "ap_start"
  PROVE  StationTold(y, Append(q, f))
<1>. DEFINE p == Append(q, f)
<1>1. p \in Seq(Requests) /\ Len(p) = Len(q) + 1 /\ Len(q) \in Nat /\ p[Len(q) + 1] = f
  BY OneMore
<1>. HIDE DEF p
<1>2. Len(q) + 1 \in 1 .. Len(p) /\ \A j \in 1 .. Len(p) : ~(j > Len(q) + 1)
  BY <1>1
<1>3. LastForStation(p, Len(q) + 1)
  BY <1>1, <1>2 DEF LastForStation
<1>. QED
  BY <1>1, <1>2, <1>3 DEF StationTold, p

LEMMA StationLeft ==
  ASSUME NEW q \in Seq(Requests), NEW f \in Requests, NEW x, NEW y, ~ForStation(f),
         y.wantSta = x.wantSta, y.sta = x.sta, y.session = x.session, StationTold(x, q)
  PROVE  StationTold(y, Append(q, f))
<1>. DEFINE p == Append(q, f)
<1>1. p \in Seq(Requests) /\ Len(p) = Len(q) + 1 /\ Len(q) \in Nat /\ p[Len(q) + 1] = f
      /\ \A i \in 1 .. Len(q) : p[i] = q[i]
  BY OneMore
<1>. HIDE DEF p
<1>2. \A j \in 1 .. Len(p) : j = Len(q) + 1 \/ j \in 1 .. Len(q)
  BY <1>1
<1>3. \A i \in 1 .. Len(q) : i \in 1 .. Len(p) /\ (LastForStation(q, i) => LastForStation(p, i))
  BY <1>1, <1>2 DEF LastForStation
<1>4. CASE \E i \in 1 .. Len(q) : /\ LastForStation(q, i)
                                  /\ x.wantSta => q[i] = Connect(x.sta)
                                  /\ ~x.wantSta => q[i].t = "ap_start"
  BY <1>1, <1>3, <1>4 DEF StationTold, p
<1>5. CASE \A i \in 1 .. Len(q) : ~ForStation(q[i])
  <2>1. \A i \in 1 .. Len(p) : ~ForStation(p[i])
    BY <1>1, <1>2, <1>5
  <2>2. (m.have = x.wantSta /\ (x.wantSta => m.want = x.sta)) \/ (x.session # m.session /\ ~m.have)
    BY <1>5 DEF StationTold, LastForStation
  <2>. QED
    BY <2>1, <2>2 DEF StationTold, p
<1>. QED
  BY <1>4, <1>5 DEF StationTold

\* The same of the access point.
LEMMA ApAsked ==
  ASSUME NEW q \in Seq(Requests), NEW f \in Requests, NEW y, ForAp(f), y.wantAp <=> f.t = "ap_start"
  PROVE  ApTold(y, Append(q, f))
<1>. DEFINE p == Append(q, f)
<1>1. p \in Seq(Requests) /\ Len(p) = Len(q) + 1 /\ Len(q) \in Nat /\ p[Len(q) + 1] = f
  BY OneMore
<1>. HIDE DEF p
<1>2. Len(q) + 1 \in 1 .. Len(p) /\ \A j \in 1 .. Len(p) : ~(j > Len(q) + 1)
  BY <1>1
<1>3. LastForAp(p, Len(q) + 1)
  BY <1>1, <1>2 DEF LastForAp
<1>. QED
  BY <1>1, <1>2, <1>3 DEF ApTold, p

LEMMA ApLeft ==
  ASSUME NEW q \in Seq(Requests), NEW f \in Requests, NEW x, NEW y, ~ForAp(f),
         y.wantAp = x.wantAp, y.session = x.session, ApTold(x, q)
  PROVE  ApTold(y, Append(q, f))
<1>. DEFINE p == Append(q, f)
<1>1. p \in Seq(Requests) /\ Len(p) = Len(q) + 1 /\ Len(q) \in Nat /\ p[Len(q) + 1] = f
      /\ \A i \in 1 .. Len(q) : p[i] = q[i]
  BY OneMore
<1>. HIDE DEF p
<1>2. \A j \in 1 .. Len(p) : j = Len(q) + 1 \/ j \in 1 .. Len(q)
  BY <1>1
<1>3. \A i \in 1 .. Len(q) : i \in 1 .. Len(p) /\ (LastForAp(q, i) => LastForAp(p, i))
  BY <1>1, <1>2 DEF LastForAp
<1>4. CASE \E i \in 1 .. Len(q) : LastForAp(q, i) /\ (x.wantAp <=> q[i].t = "ap_start")
  BY <1>1, <1>3, <1>4 DEF ApTold, p
<1>5. CASE \A i \in 1 .. Len(q) : ~ForAp(q[i])
  <2>1. \A i \in 1 .. Len(p) : ~ForAp(p[i])
    BY <1>1, <1>2, <1>5
  <2>2. m.ap = x.wantAp \/ (x.session # m.session /\ ~m.ap)
    BY <1>5 DEF ApTold, LastForAp
  <2>. QED
    BY <2>1, <2>2 DEF ApTold, p
<1>. QED
  BY <1>4, <1>5 DEF ApTold

\* A request for the station, or to be without it, ends the state the modem is in.
LEMMA StateEnds ==
  ASSUME NEW q \in Seq(Requests), NEW f \in Requests, NEW x, NEW y, NEW u, ForStation(f),
         y.wifi # "up", y.session = x.session, StateTold(x, q, u)
  PROVE  StateTold(y, Append(q, f), u)
<1>1. Append(q, f)[Len(q) + 1] = f /\ Len(q) + 1 \in 1 .. Len(Append(q, f))
  OBVIOUS
<1>2. \E i \in 1 .. Len(Append(q, f)) : ForStation(Append(q, f)[i])
  BY <1>1
<1>. QED
  BY <1>2 DEF StateTold

LEMMA StateLeft ==
  ASSUME NEW q \in Seq(Requests), NEW f \in Requests, NEW x, NEW y, NEW u,
         y.wifi = "up" <=> x.wifi = "up", y.wantSta = x.wantSta, y.session = x.session, StateTold(x, q, u)
  PROVE  StateTold(y, Append(q, f), u)
<1>1. \A i \in 1 .. Len(q) : i \in 1 .. Len(Append(q, f)) /\ Append(q, f)[i] = q[i]
  OBVIOUS
<1>2. (\E i \in 1 .. Len(q) : ForStation(q[i])) => \E i \in 1 .. Len(Append(q, f)) : ForStation(Append(q, f)[i])
  BY <1>1
<1>. QED
  BY <1>2 DEF StateTold

\* A handler that leaves alone what the modem is told.
LEMMA Quiet ==
  ASSUME NEW x, NEW y, NEW u, Fit(y), SameWants(x, y)
  PROVE  Keeps(x, y, u)
BY DEF SameWants, Keeps, Told, StationTold, ApTold, StateTold

LEMMA KeepsOn ==
  ASSUME NEW x, NEW y, NEW z, NEW u, Keeps(x, y, u), Keeps(y, z, u)
  PROVE  Keeps(x, z, u)
BY DEF Keeps

LEMMA KeepsSelf ==
  ASSUME NEW x, NEW u, Fit(x)
  PROVE  Keeps(x, x, u)
BY DEF Keeps

-----------------------------------------------------------------------------
(***************************************************************************)
(* The handlers of net_modem.c.                                            *)
(***************************************************************************)
LEMMA Sending ==
  ASSUME NEW x \in Kiosk, NEW f \in Requests
  PROVE  [x EXCEPT !.out = Append(@, f)] \in Kiosk
<1>1. Append(x.out, f) \in Seq(Requests)
  BY DEF Kiosk
<1>. QED
  BY <1>1 DEF Kiosk

LEMMA Connects ==
  ASSUME NEW x, Fit(x), NEW s \in Names, NEW u, down \in Seq(Requests)
  PROVE  /\ Keeps(x, WifiConnect(x, s), u)
         /\ WifiConnect(x, s).state = x.state /\ WifiConnect(x, s).nets = x.nets
         /\ WifiConnect(x, s).attempt = x.attempt /\ WifiConnect(x, s).sta = s
         /\ WifiConnect(x, s).reboot = x.reboot
<1>. DEFINE a == [x EXCEPT !.sta = s, !.wantSta = TRUE, !.wifi = "connecting"]
            y == WifiConnect(x, s)
            q == down \o x.out
<1>1. a \in Kiosk
  BY DEF Fit, Kiosk, States
<1>2. y = [a EXCEPT !.out = Append(@, Connect(s))]
  BY DEF WifiConnect, Send
<1>. HIDE DEF y, a
<1>3. y \in Kiosk
  BY <1>1, <1>2, Sending, Frames
<1>4. /\ y.state = x.state /\ y.nets = x.nets /\ y.saved = x.saved /\ y.attempt = x.attempt /\ y.reboot = x.reboot
      /\ y.session = x.session /\ y.sta = s /\ y.wantSta = TRUE /\ y.wifi = "connecting" /\ y.wantAp = x.wantAp
      /\ y.out = Append(x.out, Connect(s))
  BY <1>2 DEF a, Fit, Kiosk
<1>5. x.out \in Seq(Requests) /\ x.wantSta \in BOOLEAN
  BY DEF Fit, Kiosk
<1>6. q \in Seq(Requests) /\ down \o y.out = Append(q, Connect(s))
  BY <1>4, <1>5, Queued, Frames
<1>. HIDE DEF q
<1>7. StationTold(y, Append(q, Connect(s)))
  BY <1>4, <1>6, Frames, StationAsked
<1>8. ApTold(x, q) => ApTold(y, Append(q, Connect(s)))
  BY <1>4, <1>6, Frames, ApLeft
<1>9. StateTold(x, q, u) => StateTold(y, Append(q, Connect(s)), u)
  BY <1>4, <1>6, Frames, StateEnds
<1>10. Fit(y)
  BY <1>3, <1>4 DEF Fit
<1>11. Told(x, u) => Told(y, u)
  BY <1>6, <1>7, <1>8, <1>9 DEF Told, q
<1>. QED
  BY <1>4, <1>10, <1>11 DEF Keeps, y

LEMMA StartsAp ==
  ASSUME NEW x, Fit(x), NEW keep \in BOOLEAN, NEW u, down \in Seq(Requests)
  PROVE  Keeps(x, WifiStartAp(x, keep), u) /\ SameAttempt(x, WifiStartAp(x, keep))
<1>. DEFINE y == WifiStartAp(x, keep)
            q == down \o x.out
            f == ApStart(keep)
<1>1. CASE keep
  <2>. DEFINE a == [x EXCEPT !.wantAp = TRUE, !.keep = keep]
  <2>1. a \in Kiosk
    BY DEF Fit, Kiosk
  <2>2. y = [a EXCEPT !.out = Append(@, f)]
    BY <1>1 DEF WifiStartAp, Send
  <2>. HIDE DEF y, a, f
  <2>3. y \in Kiosk
    BY <2>1, <2>2, Sending, Frames DEF f
  <2>4. /\ y.state = x.state /\ y.nets = x.nets /\ y.saved = x.saved /\ y.attempt = x.attempt /\ y.reboot = x.reboot
        /\ y.session = x.session /\ y.sta = x.sta /\ y.wantSta = x.wantSta /\ y.wifi = x.wifi /\ y.wantAp = TRUE
        /\ y.out = Append(x.out, f)
    BY <2>2 DEF a, Fit, Kiosk
  <2>5. q \in Seq(Requests) /\ down \o y.out = Append(q, f)
    BY <2>4, Queued, Frames DEF Fit, Kiosk, f
  <2>. HIDE DEF q
  <2>6. f \in Requests /\ ~ForStation(f) /\ ForAp(f) /\ f.t = "ap_start"
    BY <1>1, Frames DEF f
  <2>7. StationTold(x, q) => StationTold(y, Append(q, f))
    BY <2>4, <2>5, <2>6, StationLeft
  <2>8. ApTold(y, Append(q, f))
    BY <2>4, <2>5, <2>6, ApAsked
  <2>9. StateTold(x, q, u) => StateTold(y, Append(q, f), u)
    BY <2>4, <2>5, <2>6, StateLeft
  <2>10. Told(x, u) => Told(y, u)
    BY <2>5, <2>7, <2>8, <2>9 DEF Told, q
  <2>. QED
    BY <2>3, <2>4, <2>10 DEF Keeps, Fit, SameAttempt, y
<1>2. CASE ~keep
  <2>. DEFINE a == [x EXCEPT !.wantAp = TRUE, !.keep = keep, !.wantSta = FALSE, !.wifi = "ap"]
  <2>1. a \in Kiosk
    BY DEF Fit, Kiosk, States
  <2>2. y = [a EXCEPT !.out = Append(@, f)]
    BY <1>2 DEF WifiStartAp, Send
  <2>. HIDE DEF y, a, f
  <2>3. y \in Kiosk
    BY <2>1, <2>2, Sending, Frames DEF f
  <2>4. /\ y.state = x.state /\ y.nets = x.nets /\ y.saved = x.saved /\ y.attempt = x.attempt /\ y.reboot = x.reboot
        /\ y.session = x.session /\ y.sta = x.sta /\ y.wantSta = FALSE /\ y.wifi = "ap" /\ y.wantAp = TRUE
        /\ y.out = Append(x.out, f)
    BY <2>2 DEF a, Fit, Kiosk
  <2>5. q \in Seq(Requests) /\ down \o y.out = Append(q, f)
    BY <2>4, Queued, Frames DEF Fit, Kiosk, f
  <2>. HIDE DEF q
  <2>6. f \in Requests /\ ForStation(f) /\ ForAp(f) /\ f.t = "ap_start"
    BY <1>2, Frames DEF f
  <2>7. StationTold(y, Append(q, f))
    BY <2>4, <2>5, <2>6, StationAsked
  <2>8. ApTold(y, Append(q, f))
    BY <2>4, <2>5, <2>6, ApAsked
  <2>9. StateTold(x, q, u) => StateTold(y, Append(q, f), u)
    BY <2>4, <2>5, <2>6, StateEnds
  <2>10. Told(x, u) => Told(y, u)
    BY <2>5, <2>7, <2>8, <2>9 DEF Told, q
  <2>. QED
    BY <2>3, <2>4, <2>10 DEF Keeps, Fit, SameAttempt, y
<1>. QED
  BY <1>1, <1>2

LEMMA StopsAp ==
  ASSUME NEW x, Fit(x), NEW u, down \in Seq(Requests)
  PROVE  Keeps(x, WifiStopAp(x), u) /\ SameAttempt(x, WifiStopAp(x))
<1>. DEFINE w == IF x.wifi = "ap" THEN "down" ELSE x.wifi
            a == [x EXCEPT !.wantAp = FALSE, !.keep = FALSE, !.wifi = w]
            y == WifiStopAp(x)
            q == down \o x.out
<1>1. w \in States /\ (w = "up" <=> x.wifi = "up")
  BY DEF Fit, Kiosk, States
<1>2. y = [a EXCEPT !.out = Append(@, ApStop)]
  BY DEF WifiStopAp, Send
<1>. HIDE DEF w
<1>3. a \in Kiosk
  BY <1>1 DEF Fit, Kiosk
<1>4. y \in Kiosk
  BY <1>2, <1>3, Sending, Frames
<1>5. /\ y.state = x.state /\ y.nets = x.nets /\ y.saved = x.saved /\ y.attempt = x.attempt /\ y.reboot = x.reboot
      /\ y.session = x.session /\ y.sta = x.sta /\ y.wantSta = x.wantSta /\ y.wifi = w /\ y.wantAp = FALSE
      /\ y.out = Append(x.out, ApStop)
  BY <1>2 DEF Fit, Kiosk
<1>6. q \in Seq(Requests) /\ down \o y.out = Append(q, ApStop)
  BY <1>5, Queued, Frames DEF Fit, Kiosk
<1>. HIDE DEF y, a, q
<1>7. StationTold(x, q) => StationTold(y, Append(q, ApStop))
  BY <1>5, <1>6, Frames, StationLeft
<1>8. ApTold(y, Append(q, ApStop))
  BY <1>5, <1>6, Frames, ApAsked
<1>9. StateTold(x, q, u) => StateTold(y, Append(q, ApStop), u)
  BY <1>1, <1>5, <1>6, Frames, StateLeft
<1>10. Told(x, u) => Told(y, u)
  BY <1>6, <1>7, <1>8, <1>9 DEF Told, q
<1>. QED
  BY <1>4, <1>5, <1>10 DEF Keeps, Fit, SameAttempt, y

\* Receive's choice of the one frame.
Chosen(S) == CHOOSE f \in S : TRUE

\* The last frame of a type is the one no other of the type follows.
LEMMA LatestIs ==
  ASSUME NEW frames \in Seq(Reports), NEW t
  PROVE  /\ Latest(frames, t) # {} => \E i \in 1 .. Len(frames) :
              Chosen(Latest(frames, t)) = frames[i] /\ frames[i].t = t
         /\ \A i \in 1 .. Len(frames) :
              frames[i].t = t /\ (\A j \in 1 .. Len(frames) : j > i => frames[j].t # t) =>
                 Latest(frames, t) # {} /\ Chosen(Latest(frames, t)) = frames[i]
         /\ (\A i \in 1 .. Len(frames) : frames[i].t # t) => Latest(frames, t) = {}
<1>1. DOMAIN frames = 1 .. Len(frames) /\ Len(frames) \in Nat
  OBVIOUS
<1>2. \A f \in Latest(frames, t) : \E i \in 1 .. Len(frames) :
         f = frames[i] /\ frames[i].t = t /\ \A j \in 1 .. Len(frames) : j > i => frames[j].t # t
  BY <1>1 DEF Latest
<1>3. \A i \in 1 .. Len(frames) :
         frames[i].t = t /\ (\A j \in 1 .. Len(frames) : j > i => frames[j].t # t) => frames[i] \in Latest(frames, t)
  BY <1>1 DEF Latest
<1>4. ASSUME NEW i \in 1 .. Len(frames), frames[i].t = t, \A j \in 1 .. Len(frames) : j > i => frames[j].t # t,
             NEW f \in Latest(frames, t)
      PROVE  f = frames[i]
  <2>1. PICK l \in 1 .. Len(frames) :
           f = frames[l] /\ frames[l].t = t /\ \A j \in 1 .. Len(frames) : j > l => frames[j].t # t
    BY <1>2
  <2>2. ~(l > i) /\ ~(i > l)
    BY <1>4, <2>1
  <2>3. l = i
    BY <1>1, <2>2
  <2>. QED
    BY <2>1, <2>3
<1>5. Latest(frames, t) # {} => Chosen(Latest(frames, t)) \in Latest(frames, t)
  BY DEF Chosen
<1>. QED
  BY <1>2, <1>3, <1>4, <1>5

\* What the frames of a pass change.
LEMMA Heard ==
  ASSUME NEW x, Fit(x), NEW frames \in Seq(Reports)
  PROVE  LET y == Receive(x, frames) IN
         /\ Fit(y) /\ SameAttempt(x, y)
         /\ y.wantSta = x.wantSta /\ y.wantAp = x.wantAp /\ y.keep = x.keep /\ y.out = x.out
         /\ \/ y.session = x.session
            \/ \E i \in 1 .. Len(frames) : frames[i].t = "hello" /\ y.session = frames[i].n
         /\ \A i \in 1 .. Len(frames) :
               frames[i].t = "state" /\ (\A j \in 1 .. Len(frames) : j > i => frames[j].t # "state") =>
                  y.wifi = frames[i].st
         /\ (\A i \in 1 .. Len(frames) : frames[i].t # "state") => y.wifi = x.wifi
         /\ frames = <<>> => y.session = x.session
<1>. DEFINE y == Receive(x, frames)
            states == Latest(frames, "state")
            hellos == Latest(frames, "hello")
            scans == {i \in DOMAIN frames : frames[i].t = "scanned"}
            st == IF states = {} THEN x.wifi ELSE Chosen(states).st
            n == IF hellos = {} THEN x.session ELSE Chosen(hellos).n
            seen == x.sightings \cup UNION {frames[i].seen : i \in scans}
            r == x.running /\ scans = {}
<1>1. y = [x EXCEPT !.wifi = st, !.session = n, !.sightings = seen, !.running = r]
  BY DEF Receive, Chosen
<1>2. \A i \in 1 .. Len(frames) : frames[i].st \in States /\ frames[i].n \in Nat /\ frames[i].seen \in SUBSET Ssids
  <2>1. \A i \in 1 .. Len(frames) : frames[i] \in Reports
    OBVIOUS
  <2>. QED
    BY <2>1 DEF Reports
<1>3. DOMAIN frames = 1 .. Len(frames)
  OBVIOUS
<1>. HIDE DEF states, hellos
<1>4. st \in States
  <2>1. CASE states = {}
    BY <2>1 DEF Fit, Kiosk
  <2>2. CASE states # {}
    <3>1. PICK i \in 1 .. Len(frames) : Chosen(states) = frames[i]
      BY <2>2, LatestIs DEF states
    <3>. QED
      BY <1>2, <2>2, <3>1
  <2>. QED
    BY <2>1, <2>2
<1>5. n \in Nat /\ (n = x.session \/ \E i \in 1 .. Len(frames) : frames[i].t = "hello" /\ n = frames[i].n)
  <2>1. CASE hellos = {}
    BY <2>1 DEF Fit, Kiosk
  <2>2. CASE hellos # {}
    <3>1. PICK i \in 1 .. Len(frames) : Chosen(hellos) = frames[i] /\ frames[i].t = "hello"
      BY <2>2, LatestIs DEF hellos
    <3>. QED
      BY <1>2, <2>2, <3>1
  <2>. QED
    BY <2>1, <2>2
<1>6. seen \in SUBSET Ssids
  <2>1. \A i \in scans : frames[i].seen \in SUBSET Ssids
    BY <1>2, <1>3
  <2>2. x.sightings \in SUBSET Ssids
    BY DEF Fit, Kiosk
  <2>. HIDE DEF scans
  <2>. QED
    BY <2>1, <2>2
<1>7. r \in BOOLEAN
  OBVIOUS
<1>8. /\ \A i \in 1 .. Len(frames) :
             frames[i].t = "state" /\ (\A j \in 1 .. Len(frames) : j > i => frames[j].t # "state") => st = frames[i].st
      /\ (\A i \in 1 .. Len(frames) : frames[i].t # "state") => st = x.wifi
  BY LatestIs DEF states
<1>9. frames = <<>> => n = x.session
  <2>1. frames = <<>> => \A i \in 1 .. Len(frames) : frames[i].t # "hello"
    OBVIOUS
  <2>2. (\A i \in 1 .. Len(frames) : frames[i].t # "hello") => hellos = {}
    BY LatestIs DEF hellos
  <2>. QED
    BY <2>1, <2>2
<1>. HIDE DEF y, st, n, seen, r
<1>10. y \in Kiosk
  BY <1>1, <1>4, <1>5, <1>6, <1>7 DEF Fit, Kiosk
<1>11. /\ y.state = x.state /\ y.nets = x.nets /\ y.saved = x.saved /\ y.attempt = x.attempt /\ y.sta = x.sta
       /\ y.reboot = x.reboot /\ y.wantSta = x.wantSta /\ y.wantAp = x.wantAp /\ y.keep = x.keep /\ y.out = x.out
       /\ y.wifi = st /\ y.session = n
  BY <1>1 DEF Fit, Kiosk
<1>. QED
  BY <1>5, <1>8, <1>9, <1>10, <1>11 DEF Fit, SameAttempt, y

\* A modem that was told nothing of the station, or of the access point, and is told all.
LEMMA Replays ==
  ASSUME NEW x, NEW z, Fit(z), SameAttempt(x, z), z.wantSta = x.wantSta, z.wantAp = x.wantAp, z.out = x.out,
         down \in Seq(Requests), m \in Modem
  PROVE  LET y == Replay(z) IN
         /\ Fit(y) /\ SameAttempt(x, y) /\ y.session = z.session
         /\ StationTold(x, down \o x.out) /\ ApTold(x, down \o x.out) => Told(y, <<>>)
<1>. DEFINE a == [z EXCEPT !.wifi = "down", !.running = FALSE]
            q == down \o z.out
            b == IF z.wantAp THEN Send(a, ApStart(z.keep)) ELSE a
            p == IF z.wantAp THEN Append(q, ApStart(z.keep)) ELSE q
            c == [b EXCEPT !.wifi = "connecting"]
            y == IF z.wantSta THEN Send(c, Connect(z.sta)) ELSE b
            e == IF z.wantSta THEN Append(p, Connect(z.sta)) ELSE p
            told == StationTold(x, down \o x.out) /\ ApTold(x, down \o x.out)
<1>1. a \in Kiosk
  BY DEF Fit, Kiosk, States
<1>2. /\ a.state = z.state /\ a.nets = z.nets /\ a.saved = z.saved /\ a.attempt = z.attempt /\ a.reboot = z.reboot
      /\ a.session = z.session /\ a.sta = z.sta /\ a.wantSta = z.wantSta /\ a.wifi = "down"
      /\ a.wantAp = z.wantAp /\ a.out = z.out
  BY DEF Fit, Kiosk
<1>3. z.keep \in BOOLEAN /\ z.wantAp \in BOOLEAN /\ z.wantSta \in BOOLEAN /\ z.sta \in Names /\ z.out \in Seq(Requests)
  BY DEF Fit, Kiosk
<1>4. q \in Seq(Requests)
  BY <1>3, Queued, Frames
<1>. HIDE DEF a, q
<1>5. b \in Kiosk
  BY <1>1, <1>3, Sending, Frames DEF Send
<1>6. /\ b.state = z.state /\ b.nets = z.nets /\ b.saved = z.saved /\ b.attempt = z.attempt /\ b.reboot = z.reboot
      /\ b.session = z.session /\ b.sta = z.sta /\ b.wantSta = z.wantSta /\ b.wifi = "down"
      /\ b.wantAp = z.wantAp /\ b.out = IF z.wantAp THEN Append(z.out, ApStart(z.keep)) ELSE z.out
  BY <1>1, <1>2 DEF Kiosk, Send
<1>7. p \in Seq(Requests) /\ p = down \o b.out
  <2>1. CASE z.wantAp
    <3>1. ApStart(z.keep) \in Requests
      BY <1>3, Frames
    <3>2. down \o Append(z.out, ApStart(z.keep)) = Append(down \o z.out, ApStart(z.keep))
      BY <1>3, <3>1, Queued
    <3>3. Append(q, ApStart(z.keep)) \in Seq(Requests)
      BY <1>4, <3>1
    <3>. QED
      BY <2>1, <1>6, <3>2, <3>3 DEF q
  <2>2. CASE ~z.wantAp
    BY <2>2, <1>4, <1>6 DEF q
  <2>. QED
    BY <2>1, <2>2
<1>. HIDE DEF b, p
<1>8. c \in Kiosk
  BY <1>5 DEF Kiosk, States
<1>9. /\ c.state = b.state /\ c.nets = b.nets /\ c.saved = b.saved /\ c.attempt = b.attempt /\ c.reboot = b.reboot
      /\ c.session = b.session /\ c.sta = b.sta /\ c.wantSta = b.wantSta /\ c.wifi = "connecting"
      /\ c.wantAp = b.wantAp /\ c.out = b.out
  BY <1>5 DEF Kiosk
<1>. HIDE DEF c
<1>10. y \in Kiosk
  BY <1>3, <1>5, <1>8, Sending, Frames DEF Send
<1>11. /\ y.state = z.state /\ y.nets = z.nets /\ y.saved = z.saved /\ y.attempt = z.attempt /\ y.reboot = z.reboot
       /\ y.session = z.session /\ y.sta = z.sta /\ y.wantSta = z.wantSta
       /\ y.wifi = IF z.wantSta THEN "connecting" ELSE "down"
       /\ y.wantAp = z.wantAp /\ y.out = IF z.wantSta THEN Append(b.out, Connect(z.sta)) ELSE b.out
  BY <1>5, <1>6, <1>8, <1>9 DEF Kiosk, Send
<1>12. b.out \in Seq(Requests)
  BY <1>5 DEF Kiosk
<1>13. e \in Seq(Requests) /\ e = down \o y.out
  <2>1. CASE z.wantSta
    <3>1. Connect(z.sta) \in Requests
      BY <1>3, Frames
    <3>2. down \o Append(b.out, Connect(z.sta)) = Append(down \o b.out, Connect(z.sta))
      BY <1>12, <3>1, Queued
    <3>3. Append(p, Connect(z.sta)) \in Seq(Requests)
      BY <1>7, <3>1
    <3>. HIDE DEF y
    <3>. QED
      BY <2>1, <1>7, <1>11, <3>2, <3>3
  <2>2. CASE ~z.wantSta
    <3>1. e = p /\ y.out = b.out
      BY <2>2, <1>11
    <3>. HIDE DEF y
    <3>. QED
      BY <1>7, <3>1
  <2>. QED
    BY <2>1, <2>2
<1>14. y = Replay(z)
  BY DEF Replay, a, b, c
<1>. HIDE DEF y, e
<1>15. Fit(y) /\ SameAttempt(x, y)
  BY <1>10, <1>11 DEF Fit, SameAttempt
<1>16. told => StationTold(y, e)
  <2>. SUFFICES ASSUME told PROVE StationTold(y, e)
    OBVIOUS
  <2>1. CASE z.wantSta
    BY <2>1, <1>3, <1>7, <1>11, StationAsked, Frames DEF e
  <2>2. CASE ~z.wantSta /\ z.wantAp /\ ~z.keep
    BY <2>2, <1>3, <1>4, <1>11, StationAsked, Frames DEF e, p
  <2>3. CASE ~z.wantSta /\ ~(z.wantAp /\ ~z.keep)
    <3>1. StationTold(x, q)
      BY DEF q
    <3>2. StationTold(y, q)
      <4>1. x.wantSta = FALSE /\ y.wantSta = FALSE
        BY <2>3, <1>3, <1>11
      <4>2. m.have \in BOOLEAN
        BY DEF Modem
      <4>. QED
        BY <3>1, <4>1, <4>2 DEF StationTold
    <3>3. CASE z.wantAp
      <4>1. ~ForStation(ApStart(z.keep)) /\ ApStart(z.keep) \in Requests
        BY <2>3, <3>3, <1>3, Frames
      <4>2. StationTold(y, Append(q, ApStart(z.keep)))
        BY <4>1, <3>2, <1>4, StationLeft
      <4>. QED
        BY <4>2, <2>3, <3>3 DEF e, p
    <3>4. CASE ~z.wantAp
      BY <2>3, <3>2, <3>4 DEF e, p
    <3>. QED
      BY <3>3, <3>4
  <2>. QED
    BY <2>1, <2>2, <2>3
<1>17. told => ApTold(y, e)
  <2>. SUFFICES ASSUME told PROVE ApTold(y, e)
    OBVIOUS
  <2>1. ApTold(y, p)
    <3>1. CASE z.wantAp
      BY <3>1, <1>3, <1>4, <1>11, ApAsked, Frames DEF p
    <3>2. CASE ~z.wantAp
      <4>1. x.wantAp = FALSE /\ y.wantAp = FALSE /\ p = q
        BY <3>2, <1>3, <1>11 DEF p
      <4>2. m.ap \in BOOLEAN /\ ApTold(x, q)
        BY DEF Modem, q
      <4>. QED
        BY <4>1, <4>2 DEF ApTold
    <3>. QED
      BY <3>1, <3>2
  <2>2. CASE z.wantSta
    BY <2>1, <2>2, <1>3, <1>7, ApLeft, Frames DEF e
  <2>3. CASE ~z.wantSta
    BY <2>1, <2>3 DEF e
  <2>. QED
    BY <2>2, <2>3
<1>18. StateTold(y, e, <<>>)
  <2>1. CASE z.wantSta
    <3>1. e \in Seq(Requests) /\ Len(p) + 1 \in 1 .. Len(e) /\ ForStation(e[Len(p) + 1])
      BY <2>1, <1>3, <1>7, OneMore, Frames DEF e
    <3>2. y.wifi # "up"
      BY <1>11
    <3>. QED
      BY <3>1, <3>2 DEF StateTold
  <2>2. CASE ~z.wantSta
    <3>1. y.wifi # "up" /\ ~y.wantSta
      BY <2>2, <1>11
    <3>. QED
      BY <3>1 DEF StateTold
  <2>. QED
    BY <2>1, <2>2
<1>19. told => Told(y, <<>>)
  BY <1>13, <1>16, <1>17, <1>18 DEF Told
<1>. QED
  BY <1>11, <1>14, <1>15, <1>19

\* A pass reads all that has arrived.
LEMMA NetPolls ==
  ASSUME NEW x, Fit(x), NEW frames \in Seq(Reports), down \in Seq(Requests), m \in Modem
  PROVE  LET y == NetWifiPoll(x, frames) IN
         /\ Fit(y) /\ SameAttempt(x, y)
         /\ \/ y.session = x.session
            \/ \E i \in 1 .. Len(frames) : frames[i].t = "hello" /\ y.session = frames[i].n
         /\ Told(x, frames) => Told(y, <<>>)
         /\ frames = <<>> => SameWants(x, y)
<1>. DEFINE z == Receive(x, frames)
            y == NetWifiPoll(x, frames)
            q == down \o x.out
<1>1. /\ Fit(z) /\ SameAttempt(x, z)
      /\ z.wantSta = x.wantSta /\ z.wantAp = x.wantAp /\ z.keep = x.keep /\ z.out = x.out
      /\ \/ z.session = x.session
         \/ \E i \in 1 .. Len(frames) : frames[i].t = "hello" /\ z.session = frames[i].n
      /\ \A i \in 1 .. Len(frames) :
            frames[i].t = "state" /\ (\A j \in 1 .. Len(frames) : j > i => frames[j].t # "state") =>
               z.wifi = frames[i].st
      /\ (\A i \in 1 .. Len(frames) : frames[i].t # "state") => z.wifi = x.wifi
      /\ frames = <<>> => z.session = x.session
  BY Heard
<1>2. y = IF z.session = x.session THEN z ELSE Replay(z)
  BY DEF NetWifiPoll
<1>. HIDE DEF z, y
<1>3. CASE z.session = x.session
  <2>1. z.sta = x.sta
    BY <1>1 DEF SameAttempt
  <2>2. StationTold(x, q) => StationTold(z, q)
    BY <1>1, <1>3, <2>1 DEF StationTold
  <2>3. ApTold(x, q) => ApTold(z, q)
    BY <1>1, <1>3 DEF ApTold
  <2>4. StateTold(x, q, frames) => StateTold(z, q, <<>>)
    <3>. SUFFICES ASSUME StateTold(x, q, frames), x.session = m.session PROVE StateTold(z, q, <<>>)
      BY <1>3 DEF StateTold
    <3>1. CASE \E i \in 1 .. Len(frames) : /\ frames[i].t = "state" /\ frames[i].st = m.st
                                           /\ \A j \in 1 .. Len(frames) : j > i => frames[j].t # "state"
      <4>1. z.wifi = m.st
        BY <3>1, <1>1
      <4>. QED
        BY <4>1 DEF StateTold
    <3>2. CASE \A i \in 1 .. Len(frames) : frames[i].t # "state"
      <4>1. z.wifi = x.wifi /\ z.wantSta = x.wantSta
        BY <3>2, <1>1
      <4>. QED
        BY <4>1, <3>2 DEF StateTold
    <3>. QED
      BY <3>1, <3>2 DEF StateTold
  <2>5. Told(x, frames) => Told(z, <<>>)
    BY <1>1, <2>2, <2>3, <2>4 DEF Told
  <2>6. frames = <<>> => SameWants(x, z)
    BY <1>1, <1>3, <2>1 DEF SameWants
  <2>. QED
    BY <1>1, <1>2, <1>3, <2>5, <2>6 DEF y
<1>4. CASE z.session # x.session
  <2>1. y = Replay(z)
    BY <1>2, <1>4
  <2>2. /\ Fit(y) /\ SameAttempt(x, y) /\ y.session = z.session
        /\ StationTold(x, down \o x.out) /\ ApTold(x, down \o x.out) => Told(y, <<>>)
    BY <1>1, <2>1, Replays
  <2>. QED
    BY <1>1, <1>4, <2>2 DEF Told, y
<1>. QED
  BY <1>3, <1>4

-----------------------------------------------------------------------------
(***************************************************************************)
(* The handlers of provision.c and kiosk_loop.c.                           *)
(***************************************************************************)
LEMMA SameTrans ==
  ASSUME NEW x, NEW y, NEW z, SameAttempt(x, y), SameAttempt(y, z)
  PROVE  SameAttempt(x, z)
BY DEF SameAttempt

\* The fields that neither the modem nor an attempt is about.
LEMMA Flags ==
  ASSUME NEW x, Fit(x), NEW u, NEW b \in BOOLEAN
  PROVE  /\ Keeps(x, [x EXCEPT !.active = b], u) /\ SameAttempt(x, [x EXCEPT !.active = b])
         /\ Keeps(x, [x EXCEPT !.fallback = b], u) /\ SameAttempt(x, [x EXCEPT !.fallback = b])
         /\ Keeps(x, [x EXCEPT !.failing = b], u) /\ SameAttempt(x, [x EXCEPT !.failing = b])
         /\ Keeps(x, [x EXCEPT !.requested = b], u) /\ SameAttempt(x, [x EXCEPT !.requested = b])
<1>1. /\ Fit([x EXCEPT !.active = b]) /\ SameWants(x, [x EXCEPT !.active = b])
      /\ SameAttempt(x, [x EXCEPT !.active = b])
  BY DEF Fit, Kiosk, SameWants, SameAttempt
<1>2. /\ Fit([x EXCEPT !.fallback = b]) /\ SameWants(x, [x EXCEPT !.fallback = b])
      /\ SameAttempt(x, [x EXCEPT !.fallback = b])
  BY DEF Fit, Kiosk, SameWants, SameAttempt
<1>3. /\ Fit([x EXCEPT !.failing = b]) /\ SameWants(x, [x EXCEPT !.failing = b])
      /\ SameAttempt(x, [x EXCEPT !.failing = b])
  BY DEF Fit, Kiosk, SameWants, SameAttempt
<1>4. /\ Fit([x EXCEPT !.requested = b]) /\ SameWants(x, [x EXCEPT !.requested = b])
      /\ SameAttempt(x, [x EXCEPT !.requested = b])
  BY DEF Fit, Kiosk, SameWants, SameAttempt
<1>. QED
  BY <1>1, <1>2, <1>3, <1>4, Quiet

LEMMA Starts ==
  ASSUME NEW x, Fit(x), NEW keep \in BOOLEAN, NEW u, down \in Seq(Requests)
  PROVE  Keeps(x, ProvisionStart(x, keep), u) /\ SameAttempt(x, ProvisionStart(x, keep))
<1>1. CASE x.active
  BY <1>1, KeepsSelf DEF ProvisionStart, SameAttempt
<1>2. CASE ~x.active
  <2>. DEFINE a == WifiStartAp(x, keep)
              b == [a EXCEPT !.active = TRUE]
              c == [b EXCEPT !.requested = TRUE]
  <2>1. ProvisionStart(x, keep) = c
    BY <1>2 DEF ProvisionStart
  <2>2. Keeps(x, a, u) /\ SameAttempt(x, a)
    BY StartsAp
  <2>. HIDE DEF a
  <2>3. Keeps(a, b, u) /\ SameAttempt(a, b)
    BY <2>2, Flags DEF Keeps
  <2>. HIDE DEF b
  <2>4. Keeps(b, c, u) /\ SameAttempt(b, c)
    BY <2>3, Flags DEF Keeps
  <2>. HIDE DEF c
  <2>5. Keeps(x, b, u) /\ SameAttempt(x, b)
    BY <2>2, <2>3, KeepsOn, SameTrans
  <2>. QED
    BY <2>1, <2>4, <2>5, KeepsOn, SameTrans
<1>. QED
  BY <1>1, <1>2

LEMMA Stops ==
  ASSUME NEW x, Fit(x), NEW u, down \in Seq(Requests)
  PROVE  Keeps(x, ProvisionStop(x), u) /\ SameAttempt(x, ProvisionStop(x))
<1>1. CASE ~x.active
  BY <1>1, KeepsSelf DEF ProvisionStop, SameAttempt
<1>2. CASE x.active
  <2>. DEFINE a == WifiStopAp(x)
              b == [a EXCEPT !.active = FALSE]
  <2>1. ProvisionStop(x) = b
    BY <1>2 DEF ProvisionStop
  <2>2. Keeps(x, a, u) /\ SameAttempt(x, a)
    BY StopsAp
  <2>. HIDE DEF a
  <2>3. Keeps(a, b, u) /\ SameAttempt(a, b)
    BY <2>2, Flags DEF Keeps
  <2>. HIDE DEF b
  <2>. QED
    BY <2>1, <2>2, <2>3, KeepsOn, SameTrans
<1>. QED
  BY <1>1, <1>2

\* The access point that the search put up is taken down, or one is put up for it.
LEMMA FallbackOff ==
  ASSUME NEW x, Fit(x), NEW u, down \in Seq(Requests)
  PROVE  LET y == [ProvisionStop(x) EXCEPT !.fallback = FALSE] IN Keeps(x, y, u) /\ SameAttempt(x, y)
<1>. DEFINE a == ProvisionStop(x)
            b == [a EXCEPT !.fallback = FALSE]
<1>1. Keeps(x, a, u) /\ SameAttempt(x, a)
  BY Stops
<1>. HIDE DEF a
<1>2. Keeps(a, b, u) /\ SameAttempt(a, b)
  BY <1>1, Flags DEF Keeps
<1>. HIDE DEF b
<1>3. Keeps(x, b, u) /\ SameAttempt(x, b)
  BY <1>1, <1>2, KeepsOn, SameTrans
<1>. QED
  BY <1>3 DEF a, b

LEMMA FallbackOn ==
  ASSUME NEW x, Fit(x), NEW u, down \in Seq(Requests)
  PROVE  LET y == ProvisionStart([x EXCEPT !.fallback = TRUE], TRUE) IN Keeps(x, y, u) /\ SameAttempt(x, y)
<1>. DEFINE a == [x EXCEPT !.fallback = TRUE]
            b == ProvisionStart(a, TRUE)
<1>1. Keeps(x, a, u) /\ SameAttempt(x, a)
  BY Flags
<1>. HIDE DEF a
<1>2. Keeps(a, b, u) /\ SameAttempt(a, b)
  BY <1>1, Starts DEF Keeps
<1>. HIDE DEF b
<1>3. Keeps(x, b, u) /\ SameAttempt(x, b)
  BY <1>1, <1>2, KeepsOn, SameTrans
<1>. QED
  BY <1>3 DEF a, b

\* A step to another state of the loop.
LEMMA Moves ==
  ASSUME NEW x, Fit(x), NEW s \in {"boot", "provision", "wifi_wait", "poll"}, NEW u
  PROVE  /\ Keeps(x, [x EXCEPT !.state = s], u) /\ [x EXCEPT !.state = s].state = s
         /\ [x EXCEPT !.state = s].attempt = x.attempt
<1>1. Fit([x EXCEPT !.state = s]) /\ SameWants(x, [x EXCEPT !.state = s])
  BY DEF Fit, Kiosk, SameWants
<1>2. [x EXCEPT !.state = s].state = s /\ [x EXCEPT !.state = s].attempt = x.attempt
  BY DEF Fit, Kiosk
<1>. QED
  BY <1>1, <1>2, Quiet

LEMMA Resets ==
  ASSUME NEW x, Fit(x), NEW u
  PROVE  /\ Keeps(x, JoinReset(x), u) /\ JoinReset(x).attempt = 0
         /\ JoinReset(x).fallback = x.fallback
<1>1. Fit(JoinReset(x)) /\ SameWants(x, JoinReset(x)) /\ JoinReset(x).attempt = 0 /\ JoinReset(x).fallback = x.fallback
  BY DEF Fit, Kiosk, SameWants, JoinReset
<1>. QED
  BY <1>1, Quiet

\* Back to the search: it begins with no attempt.
LEMMA ResetMoves ==
  ASSUME NEW x, Fit(x), NEW u
  PROVE  LET y == [JoinReset(x) EXCEPT !.state = "wifi_wait"] IN Keeps(x, y, u) /\ Attempted(y)
<1>. DEFINE a == JoinReset(x)
            b == [a EXCEPT !.state = "wifi_wait"]
<1>1. Keeps(x, a, u) /\ a.attempt = 0
  BY Resets
<1>. HIDE DEF a
<1>2. Keeps(a, b, u) /\ b.attempt = a.attempt
  BY <1>1, Moves DEF Keeps
<1>. HIDE DEF b
<1>3. Keeps(x, b, u) /\ Attempted(b)
  BY <1>1, <1>2, KeepsOn DEF Attempted
<1>. QED
  BY <1>3 DEF a, b

\* Only the network it asks for is the attempt's.
LEMMA Begins ==
  ASSUME NEW x, Fit(x), NEW i \in 1 .. Len(x.nets), NEW u, down \in Seq(Requests)
  PROVE  Keeps(x, JoinBeginAttempt(x, i), u) /\ Attempted(JoinBeginAttempt(x, i))
         /\ JoinBeginAttempt(x, i).state = x.state /\ JoinBeginAttempt(x, i).nets = x.nets
<1>. DEFINE a == [x EXCEPT !.attempt = i]
            b == WifiConnect(a, x.nets[i])
<1>1. x.nets \in Seq(Ssids) /\ x.nets[i] \in Names /\ i \in Nat
  <2>1. x.nets \in Seq(Ssids)
    BY DEF Fit, Kiosk
  <2>. QED
    BY <2>1 DEF Names
<1>2. Fit(a) /\ SameWants(x, a) /\ a.attempt = i /\ a.nets = x.nets /\ a.state = x.state
  BY <1>1 DEF Fit, Kiosk, SameWants
<1>3. JoinBeginAttempt(x, i) = b
  BY DEF JoinBeginAttempt
<1>. HIDE DEF a
<1>4. Keeps(x, a, u)
  BY <1>2, Quiet
<1>5. Keeps(a, b, u) /\ b.state = a.state /\ b.nets = a.nets /\ b.attempt = a.attempt /\ b.sta = x.nets[i]
  BY <1>1, <1>2, Connects
<1>. HIDE DEF b
<1>6. Keeps(x, b, u)
  BY <1>4, <1>5, KeepsOn
<1>7. Attempted(b)
  BY <1>1, <1>2, <1>5 DEF Attempted
<1>. QED
  BY <1>2, <1>3, <1>5, <1>6, <1>7

LEMMA Attempts ==
  ASSUME NEW x, Fit(x), Attempted(x), x.state = "wifi_wait", x.nets # <<>>, NEW due, NEW u, down \in Seq(Requests)
  PROVE  LET y == JoinAttempt(x, due) IN
         Keeps(x, y, u) /\ Attempted(y) /\ y.state = x.state /\ y.nets = x.nets
<1>. DEFINE want == BestKnownInRange(x)
            next == IF x.attempt = 0 THEN 1 ELSE (x.attempt % Len(x.nets)) + 1
            i == IF want = 0 THEN next ELSE want
<1>1. CASE x.attempt # 0 /\ "attempt" \notin due
  BY <1>1, KeepsSelf DEF JoinAttempt
<1>2. CASE ~(x.attempt # 0 /\ "attempt" \notin due)
  <2>1. x.nets \in Seq(Ssids) /\ Len(x.nets) \in Nat \ {0} /\ x.attempt \in Nat
    BY DEF Fit, Kiosk
  <2>2. want \in 0 .. Len(x.nets)
    BY <2>1, Best
  <2>3. x.attempt % Len(x.nets) \in 0 .. Len(x.nets) - 1
    BY <2>1
  <2>4. next \in 1 .. Len(x.nets)
    BY <2>1, <2>3
  <2>. HIDE DEF want, next
  <2>5. i \in 1 .. Len(x.nets)
    BY <2>1, <2>2, <2>4
  <2>6. JoinAttempt(x, due) = JoinBeginAttempt(x, i)
    BY <1>2 DEF JoinAttempt, want, next
  <2>. HIDE DEF i
  <2>. QED
    BY <2>5, <2>6, Begins
<1>. QED
  BY <1>1, <1>2

\* A handler that leaves the attempt alone leaves it good.
LEMMA StillAttempted ==
  ASSUME NEW x, NEW y, SameAttempt(x, y), Attempted(x)
  PROVE  Attempted(y)
BY DEF SameAttempt, Attempted

LEMMA Succeeds ==
  ASSUME NEW x, Fit(x), Attempted(x), x.state = "wifi_wait", NEW u, down \in Seq(Requests)
  PROVE  Keeps(x, JoinSucceeded(x), u)
<1>. DEFINE p == NetPromote(x.nets, x.attempt)
            a == IF x.attempt > 1 THEN [x EXCEPT !.nets = NetPromote(@, x.attempt), !.dirty = TRUE] ELSE x
            b == [a EXCEPT !.attempt = 0]
<1>1. x.attempt \in Nat /\ x.nets \in Seq(Ssids) /\ Len(x.nets) \in Nat
  BY DEF Fit, Kiosk
<1>2. Fit(a) /\ SameWants(x, a)
  <2>1. CASE x.attempt > 1
    <3>1. x.attempt \in 0 .. Len(x.nets)
      BY <1>1, <2>1 DEF Attempted
    <3>2. p \in Seq(Ssids) /\ Fits(p)
      BY <1>1, <3>1, Promoted DEF Fits, Fit
    <3>3. a = [x EXCEPT !.nets = p, !.dirty = TRUE]
      BY <2>1
    <3>. HIDE DEF p, a
    <3>. QED
      BY <3>2, <3>3 DEF Fit, Kiosk, SameWants
  <2>2. CASE ~(x.attempt > 1)
    BY <2>2 DEF SameWants
  <2>. QED
    BY <2>1, <2>2
<1>. HIDE DEF a
<1>3. Fit(b) /\ SameWants(a, b)
  BY <1>2 DEF Fit, Kiosk, SameWants
<1>. HIDE DEF b
<1>4. Keeps(x, b, u)
  BY <1>2, <1>3, Quiet, KeepsOn
<1>5. JoinSucceeded(x) = IF x.fallback THEN [ProvisionStop(b) EXCEPT !.fallback = FALSE] ELSE b
  BY DEF JoinSucceeded, a, b
<1>6. Keeps(b, [ProvisionStop(b) EXCEPT !.fallback = FALSE], u)
  BY <1>3, FallbackOff
<1>. QED
  BY <1>4, <1>5, <1>6, KeepsOn

LEMMA JoinPolls ==
  ASSUME NEW x, Fit(x), Attempted(x), x.state = "wifi_wait", NEW due, NEW u, down \in Seq(Requests)
  PROVE  Keeps(x, JoinPoll(x, due), u) /\ Attempted(JoinPoll(x, due))
<1>1. CASE x.wifi = "up"
  <2>. DEFINE a == JoinSucceeded(x)
              b == [a EXCEPT !.state = "poll"]
  <2>1. Keeps(x, a, u)
    BY Succeeds
  <2>2. JoinPoll(x, due) = b
    BY <1>1 DEF JoinPoll
  <2>. HIDE DEF a
  <2>3. Keeps(a, b, u) /\ b.state = "poll"
    BY <2>1, Moves DEF Keeps
  <2>. HIDE DEF b
  <2>. QED
    BY <2>1, <2>2, <2>3, KeepsOn DEF Attempted
<1>2. CASE x.wifi # "up" /\ x.nets = <<>>
  BY <1>2, KeepsSelf DEF JoinPoll
<1>3. CASE x.wifi # "up" /\ x.nets # <<>>
  <2>. DEFINE a == JoinScan(x, due)
              b == JoinAttempt(a, due)
              c == JoinFallback(b, due)
  <2>1. JoinPoll(x, due) = c
    BY <1>3 DEF JoinPoll
  <2>2. Keeps(x, a, u) /\ SameAttempt(x, a)
    BY Flags, KeepsSelf DEF JoinScan, SameAttempt
  <2>. HIDE DEF a
  <2>3. Fit(a) /\ Attempted(a) /\ a.state = "wifi_wait" /\ a.nets # <<>>
    BY <1>3, <2>2, StillAttempted DEF Keeps, SameAttempt
  <2>4. Keeps(a, b, u) /\ Attempted(b)
    BY <2>3, Attempts
  <2>. HIDE DEF b
  <2>5. Keeps(b, c, u) /\ SameAttempt(b, c)
    BY <2>4, FallbackOn, KeepsSelf DEF JoinFallback, SameAttempt, Keeps
  <2>. HIDE DEF c
  <2>6. Keeps(x, b, u)
    BY <2>2, <2>4, KeepsOn
  <2>. QED
    BY <2>1, <2>4, <2>5, <2>6, KeepsOn, StillAttempted
<1>. QED
  BY <1>1, <1>2, <1>3

LEMMA NetchecksPoll ==
  ASSUME NEW x, Fit(x), NEW due, NEW u, down \in Seq(Requests)
  PROVE  Keeps(x, NetcheckPoll(x, due), u) /\ SameAttempt(x, NetcheckPoll(x, due))
<1>. DEFINE a == IF x.fallback /\ ~x.failing /\ "busy" \notin due
                 THEN [ProvisionStop(x) EXCEPT !.fallback = FALSE] ELSE x
            b == ProvisionStart([a EXCEPT !.fallback = TRUE], TRUE)
<1>1. Keeps(x, a, u) /\ SameAttempt(x, a)
  BY FallbackOff, KeepsSelf DEF SameAttempt
<1>2. NetcheckPoll(x, due) = IF a.failing /\ "no_route" \in due /\ ~a.fallback THEN b ELSE a
  BY DEF NetcheckPoll
<1>. HIDE DEF a
<1>3. Keeps(a, b, u) /\ SameAttempt(a, b)
  BY <1>1, FallbackOn DEF Keeps
<1>. HIDE DEF b
<1>. QED
  BY <1>1, <1>2, <1>3, KeepsOn, SameTrans

LEMMA LoopPolls ==
  ASSUME NEW x, Fit(x), Attempted(x), NEW due, NEW u, down \in Seq(Requests)
  PROVE  Keeps(x, KioskLoopPoll(x, due), u) /\ Attempted(KioskLoopPoll(x, due))
<1>0. x.state \in {"boot", "provision", "wifi_wait", "poll"}
  BY DEF Fit, Kiosk
<1>1. CASE x.state = "boot" /\ x.nets = <<>>
  <2>. DEFINE a == ProvisionStart(x, FALSE)
              b == [a EXCEPT !.state = "provision"]
  <2>1. Keeps(x, a, u)
    BY Starts
  <2>2. KioskLoopPoll(x, due) = b
    BY <1>1 DEF KioskLoopPoll
  <2>. HIDE DEF a
  <2>3. Keeps(a, b, u) /\ b.state = "provision"
    BY <2>1, Moves DEF Keeps
  <2>. HIDE DEF b
  <2>. QED
    BY <2>1, <2>2, <2>3, KeepsOn DEF Attempted
<1>2. CASE x.state = "boot" /\ x.nets # <<>>
  BY <1>2, ResetMoves DEF KioskLoopPoll
<1>3. CASE x.state = "provision"
  BY <1>3, KeepsSelf DEF KioskLoopPoll
<1>4. CASE x.state = "wifi_wait"
  BY <1>4, JoinPolls DEF KioskLoopPoll
<1>5. CASE x.state = "poll"
  <2>. DEFINE n == NetcheckPoll(x, due)
              b == [JoinReset(n) EXCEPT !.state = "wifi_wait"]
              c == PollServer(n, due)
  <2>1. Keeps(x, n, u) /\ SameAttempt(x, n)
    BY NetchecksPoll
  <2>2. KioskLoopPoll(x, due) = IF n.wifi # "up" THEN b ELSE c
    BY <1>5 DEF KioskLoopPoll
  <2>. HIDE DEF n
  <2>3. Keeps(n, b, u) /\ Attempted(b)
    BY <2>1, ResetMoves DEF Keeps
  <2>4. Keeps(n, c, u) /\ SameAttempt(n, c)
    BY <2>1, Flags, KeepsSelf DEF Keeps, PollServer, SameAttempt
  <2>. HIDE DEF b, c
  <2>. QED
    BY <1>5, <2>1, <2>2, <2>3, <2>4, KeepsOn DEF Attempted, SameAttempt
<1>. QED
  BY <1>0, <1>1, <1>2, <1>3, <1>4, <1>5

-----------------------------------------------------------------------------
(***************************************************************************)
(* The other polls of the main loop, the console, and the pass.            *)
(***************************************************************************)
LEMMA Saves ==
  ASSUME NEW x, Fit(x), NEW u
  PROVE  Keeps(x, ConfigSave(x), u) /\ SameAttempt(x, ConfigSave(x))
<1>1. Fit(ConfigSave(x)) /\ SameWants(x, ConfigSave(x)) /\ SameAttempt(x, ConfigSave(x))
  BY DEF Fit, Kiosk, SameWants, SameAttempt, ConfigSave
<1>. QED
  BY <1>1, Quiet

\* A form that is saved changes the list under an attempt, which then is the last: the kiosk reboots.
LEMMA Posts ==
  ASSUME NEW x, Fit(x), Attempted(x), NEW u
  PROVE  Keeps(x, SavePosted(x), u) /\ Attempted(SavePosted(x))
<1>. USE NetworksAssumption
<1>1. CASE x.posted = NoSsid \/ x.reboot
  BY <1>1, KeepsSelf DEF SavePosted
<1>2. CASE ~(x.posted = NoSsid \/ x.reboot)
  <2>. DEFINE l == NetAdd(x.nets, x.posted)
              a == [x EXCEPT !.nets = l]
              b == ConfigSave(a)
              c == [b EXCEPT !.reboot = TRUE]
  <2>1. x.nets \in Seq(Ssids) /\ x.posted \in Ssids /\ x.attempt \in Nat /\ Len(x.nets) \in Nat
    BY <1>2 DEF Fit, Kiosk, Names
  <2>2. l \in Seq(Ssids) /\ Fits(l) /\ Len(l) >= Len(x.nets) /\ Len(l) \in Nat
    BY <2>1, Added DEF Fit
  <2>3. SavePosted(x) = c
    BY <1>2 DEF SavePosted
  <2>. HIDE DEF l
  <2>4. /\ Fit(a) /\ SameWants(x, a) /\ a.nets = l /\ a.state = x.state /\ a.attempt = x.attempt
    BY <2>2 DEF Fit, Kiosk, SameWants
  <2>. HIDE DEF a
  <2>5. Keeps(x, a, u)
    BY <2>4, Quiet
  <2>6. Keeps(a, b, u) /\ SameAttempt(a, b)
    BY <2>4, Saves
  <2>. HIDE DEF b
  <2>7. Fit(c) /\ SameWants(b, c) /\ c.nets = b.nets /\ c.state = b.state /\ c.attempt = b.attempt /\ c.reboot = TRUE
    BY <2>6 DEF Fit, Kiosk, SameWants, Keeps
  <2>. HIDE DEF c
  <2>8. Keeps(x, c, u)
    BY <2>5, <2>6, <2>7, Quiet, KeepsOn
  <2>9. c.nets = l /\ c.state = x.state /\ c.attempt = x.attempt
    BY <2>4, <2>6, <2>7 DEF SameAttempt
  <2>10. Attempted(c)
    <3>. SUFFICES ASSUME c.state = "wifi_wait", c.attempt # 0 PROVE c.attempt <= Len(c.nets)
      BY <2>7 DEF Attempted
    <3>1. x.attempt <= Len(x.nets)
      BY <2>9 DEF Attempted
    <3>. QED
      BY <2>1, <2>2, <2>9, <3>1
  <2>. QED
    BY <2>3, <2>8, <2>10
<1>. QED
  BY <1>1, <1>2

LEMMA Scans ==
  ASSUME NEW x, Fit(x), NEW u, down \in Seq(Requests)
  PROVE  Keeps(x, StartScan(x), u) /\ SameAttempt(x, StartScan(x))
<1>1. CASE ~x.requested
  BY <1>1, KeepsSelf DEF StartScan, SameAttempt
<1>2. CASE x.requested /\ x.running
  BY <1>2, Flags DEF StartScan
<1>3. CASE x.requested /\ ~x.running
  <2>. DEFINE a == [x EXCEPT !.requested = FALSE, !.sightings = {}, !.running = TRUE]
              y == StartScan(x)
              q == down \o x.out
  <2>1. a \in Kiosk
    BY DEF Fit, Kiosk
  <2>2. y = [a EXCEPT !.out = Append(@, Scan)]
    BY <1>3 DEF StartScan, Send
  <2>. HIDE DEF y, a
  <2>3. y \in Kiosk
    BY <2>1, <2>2, Sending, Frames
  <2>4. /\ y.state = x.state /\ y.nets = x.nets /\ y.saved = x.saved /\ y.attempt = x.attempt /\ y.reboot = x.reboot
        /\ y.session = x.session /\ y.sta = x.sta /\ y.wantSta = x.wantSta /\ y.wifi = x.wifi /\ y.wantAp = x.wantAp
        /\ y.out = Append(x.out, Scan)
    BY <2>2 DEF a, Fit, Kiosk
  <2>5. q \in Seq(Requests) /\ down \o y.out = Append(q, Scan)
    BY <2>4, Queued, Frames DEF Fit, Kiosk
  <2>. HIDE DEF q
  <2>6. Scan \in Requests /\ ~ForStation(Scan) /\ ~ForAp(Scan)
    BY Frames
  <2>7. StationTold(x, q) => StationTold(y, Append(q, Scan))
    BY <2>4, <2>5, <2>6, StationLeft
  <2>8. ApTold(x, q) => ApTold(y, Append(q, Scan))
    BY <2>4, <2>5, <2>6, ApLeft
  <2>9. StateTold(x, q, u) => StateTold(y, Append(q, Scan), u)
    BY <2>4, <2>5, <2>6, StateLeft
  <2>10. Told(x, u) => Told(y, u)
    BY <2>5, <2>7, <2>8, <2>9 DEF Told, q
  <2>. QED
    BY <2>3, <2>4, <2>10 DEF Keeps, Fit, SameAttempt, y
<1>. QED
  BY <1>1, <1>2, <1>3

LEMMA PortalPolls ==
  ASSUME NEW x, Fit(x), Attempted(x), NEW u, down \in Seq(Requests)
  PROVE  Keeps(x, ProvisionPoll(x), u) /\ Attempted(ProvisionPoll(x))
<1>. DEFINE a == SavePosted(x)
            b == StartScan(a)
<1>1. Keeps(x, a, u) /\ Attempted(a)
  BY Posts
<1>2. ProvisionPoll(x) = IF a.reboot THEN a ELSE b
  BY DEF ProvisionPoll
<1>. HIDE DEF a
<1>3. Keeps(a, b, u) /\ SameAttempt(a, b)
  BY <1>1, Scans DEF Keeps
<1>. HIDE DEF b
<1>. QED
  BY <1>1, <1>2, <1>3, KeepsOn, StillAttempted

LEMMA Restarts ==
  ASSUME NEW x, Fit(x), NEW u, down \in Seq(Requests)
  PROVE  Keeps(x, KioskLoopRestart(x), u) /\ Attempted(KioskLoopRestart(x))
<1>. DEFINE a == [x EXCEPT !.fallback = FALSE, !.failing = FALSE]
            b == ProvisionStop(a)
            c == [b EXCEPT !.state = "boot"]
<1>1. Fit(a) /\ SameWants(x, a)
  BY DEF Fit, Kiosk, SameWants
<1>2. KioskLoopRestart(x) = c
  BY DEF KioskLoopRestart
<1>. HIDE DEF a
<1>3. Keeps(x, a, u)
  BY <1>1, Quiet
<1>4. Keeps(a, b, u)
  BY <1>1, Stops
<1>. HIDE DEF b
<1>5. Keeps(b, c, u) /\ c.state = "boot"
  BY <1>4, Moves DEF Keeps
<1>. HIDE DEF c
<1>. QED
  BY <1>2, <1>3, <1>4, <1>5, KeepsOn DEF Attempted

LEMMA Applies ==
  ASSUME NEW x, Fit(x), NEW list \in Seq(Ssids), Fits(list), NEW u, down \in Seq(Requests)
  PROVE  LET y == ApplyAndRestart([x EXCEPT !.nets = list]) IN Keeps(x, y, u) /\ Attempted(y)
<1>. DEFINE a == [x EXCEPT !.nets = list]
            b == ConfigSave(a)
            c == ProvisionStop(b)
            d == KioskLoopRestart(c)
<1>1. Fit(a) /\ SameWants(x, a)
  BY DEF Fit, Kiosk, SameWants
<1>2. ApplyAndRestart(a) = d
  BY DEF ApplyAndRestart
<1>. HIDE DEF a
<1>3. Keeps(x, a, u)
  BY <1>1, Quiet
<1>4. Keeps(a, b, u)
  BY <1>1, Saves
<1>. HIDE DEF b
<1>5. Keeps(b, c, u)
  BY <1>4, Stops DEF Keeps
<1>. HIDE DEF c
<1>6. Keeps(c, d, u) /\ Attempted(d)
  BY <1>5, Restarts DEF Keeps
<1>. HIDE DEF d
<1>7. Keeps(x, d, u)
  BY <1>3, <1>4, <1>5, <1>6, KeepsOn
<1>. QED
  BY <1>2, <1>6, <1>7 DEF a

LEMMA Executes ==
  ASSUME NEW x, Fit(x), Attempted(x), NEW cmd \in {"none", "wifi", "forget", "portal", "modem_reset"},
         NEW s, cmd \in {"wifi", "forget"} => s \in Ssids, NEW u, down \in Seq(Requests)
  PROVE  Keeps(x, ConsoleExec(x, cmd, s), u) /\ Attempted(ConsoleExec(x, cmd, s))
<1>0. x.nets \in Seq(Ssids) /\ Fits(x.nets)
  BY DEF Fit, Kiosk
<1>1. CASE cmd = "none"
  BY <1>1, KeepsSelf DEF ConsoleExec
<1>2. CASE cmd = "wifi"
  <2>1. ConsoleExec(x, cmd, s) = ApplyAndRestart([x EXCEPT !.nets = NetAdd(x.nets, s)])
    BY <1>2 DEF ConsoleExec
  <2>2. NetAdd(x.nets, s) \in Seq(Ssids) /\ Fits(NetAdd(x.nets, s))
    BY <1>0, <1>2, Added
  <2>. QED
    BY <2>1, <2>2, Applies
<1>3. CASE cmd = "forget" /\ NetFind(x.nets, s) = 0
  BY <1>3, KeepsSelf DEF ConsoleExec
<1>4. CASE cmd = "forget" /\ NetFind(x.nets, s) # 0
  <2>1. ConsoleExec(x, cmd, s) = ApplyAndRestart([x EXCEPT !.nets = NetForget(x.nets, s)])
    BY <1>4 DEF ConsoleExec
  <2>2. NetForget(x.nets, s) \in Seq(Ssids) /\ Fits(NetForget(x.nets, s))
    BY <1>0, <1>4, Forgotten
  <2>. QED
    BY <2>1, <2>2, Applies
<1>5. CASE cmd = "portal"
  <2>1. ConsoleExec(x, cmd, s) = ProvisionStart(x, FALSE)
    BY <1>5 DEF ConsoleExec
  <2>. QED
    BY <2>1, Starts, StillAttempted
<1>6. CASE cmd = "modem_reset"
  <2>1. ConsoleExec(x, cmd, s) = KioskLoopRestart(x)
    BY <1>6 DEF ConsoleExec
  <2>. QED
    BY <2>1, Restarts
<1>. QED
  BY <1>1, <1>2, <1>3, <1>4, <1>5, <1>6

\* What a pass that reads these frames makes of the kiosk x.
Passed(x, y, frames) ==
    /\ Fit(y) /\ Attempted(y)
    /\ \/ y.session = x.session
       \/ \E i \in 1 .. Len(frames) : frames[i].t = "hello" /\ y.session = frames[i].n
    /\ Told(x, frames) => Told(y, <<>>)
    /\ frames = <<>> => \A u : Keeps(x, y, u)

\* One pass of the main loop.
LEMMA Passes ==
  ASSUME NEW x, Fit(x), Attempted(x), NEW frames \in Seq(Reports), NEW due,
         NEW cmd \in {"none", "wifi", "forget", "portal", "modem_reset"},
         NEW s, cmd \in {"wifi", "forget"} => s \in Ssids, down \in Seq(Requests), m \in Modem
  PROVE  Passed(x, MainLoop(x, frames, due, cmd, s), frames)
<1>. DEFINE a == NetWifiPoll(x, frames)
            b == KioskLoopPoll(a, due)
            c == ProvisionPoll(b)
            d == ConsoleExec(c, cmd, s)
            e == ConfigPoll(d, due)
<1>1. MainLoop(x, frames, due, cmd, s) = e
  BY DEF MainLoop
<1>2. /\ Fit(a) /\ SameAttempt(x, a)
      /\ \/ a.session = x.session
         \/ \E i \in 1 .. Len(frames) : frames[i].t = "hello" /\ a.session = frames[i].n
      /\ Told(x, frames) => Told(a, <<>>)
      /\ frames = <<>> => SameWants(x, a)
  BY NetPolls
<1>. HIDE DEF a
<1>3. Attempted(a)
  BY <1>2, StillAttempted
<1>4. ASSUME NEW u PROVE Keeps(a, b, u) /\ Attempted(b)
  BY <1>2, <1>3, LoopPolls
<1>. HIDE DEF b
<1>5. ASSUME NEW u PROVE Keeps(b, c, u) /\ Attempted(c)
  BY <1>4, PortalPolls DEF Keeps
<1>. HIDE DEF c
<1>6. ASSUME NEW u PROVE Keeps(c, d, u) /\ Attempted(d)
  BY <1>5, Executes DEF Keeps
<1>. HIDE DEF d
<1>7. ASSUME NEW u PROVE Keeps(d, e, u) /\ SameAttempt(d, e)
  <2>1. Fit(d)
    BY <1>6 DEF Keeps
  <2>. QED
    BY <2>1, Saves, KeepsSelf DEF ConfigPoll, SameAttempt
<1>. HIDE DEF e
<1>8. ASSUME NEW u PROVE Keeps(a, e, u)
  BY <1>4, <1>5, <1>6, <1>7, KeepsOn
<1>9. Attempted(e)
  BY <1>6, <1>7, StillAttempted
<1>10. Fit(e) /\ e.session = a.session /\ (Told(a, <<>>) => Told(e, <<>>))
  BY <1>8 DEF Keeps
<1>11. frames = <<>> => \A u : Keeps(x, e, u)
  BY <1>2, <1>8, Quiet, KeepsOn
<1>. QED
  BY <1>1, <1>2, <1>9, <1>10, <1>11 DEF Passed

-----------------------------------------------------------------------------
(***************************************************************************)
(* Types, and the attempt.                                                 *)
(***************************************************************************)
Typed == KioskTypes /\ LinkTypes /\ ModemTypes /\ Attempted(k)

\* The frames the modem sends.
LEMMA SentUp ==
  /\ \A st \in States : WifiState(st) \in Reports /\ WifiState(st).t = "state" /\ WifiState(st).st = st
  /\ \A n \in Nat : Hello(n) \in Reports /\ Hello(n).t = "hello" /\ Hello(n).n = n
  /\ \A seen \in SUBSET Ssids : ScanDone(seen) \in Reports /\ ScanDone(seen).t = "scanned"
BY DEF WifiState, Hello, ScanDone, M, Reports, States

\* What goes up when the modem's state becomes st.
LEMMA StateSent ==
  ASSUME NEW st \in States
  PROVE  /\ StateFrames(st) \in Seq(Reports)
         /\ \/ StateFrames(st) = <<>> /\ m.st = st /\ st # "up"
            \/ StateFrames(st) = <<WifiState(st)>>
BY SentUp DEF StateFrames

\* Frames that go up behind those that wait.
LEMMA Uplinked ==
  ASSUME NEW u \in Seq(Reports), NEW f \in Seq(Reports), NEW n \in Nat,
         \A i \in 1 .. Len(u) : u[i].t = "hello" => u[i].n <= n,
         f = <<>> \/ (\E g \in Reports : f = <<g>> /\ (g.t = "hello" => g.n <= n))
  PROVE  /\ u \o f \in Seq(Reports)
         /\ \A i \in 1 .. Len(u \o f) : (u \o f)[i].t = "hello" => (u \o f)[i].n <= n
<1>1. CASE f = <<>>
  <2>1. u \o f = u
    BY <1>1
  <2>. QED
    BY <2>1
<1>2. CASE \E g \in Reports : f = <<g>> /\ (g.t = "hello" => g.n <= n)
  <2>1. PICK g \in Reports : f = <<g>> /\ (g.t = "hello" => g.n <= n)
    BY <1>2
  <2>2. /\ u \o <<g>> \in Seq(Reports) /\ Len(u \o <<g>>) = Len(u) + 1 /\ Len(u) \in Nat
        /\ \A i \in 1 .. Len(u) : (u \o <<g>>)[i] = u[i]
        /\ (u \o <<g>>)[Len(u) + 1] = g
    OBVIOUS
  <2>. DEFINE w == u \o <<g>>
  <2>. HIDE DEF w
  <2>3. \A i \in 1 .. Len(w) : i \in 1 .. Len(u) \/ i = Len(u) + 1
    BY <2>2 DEF w
  <2>4. \A i \in 1 .. Len(w) : w[i].t = "hello" => w[i].n <= n
    BY <2>1, <2>2, <2>3 DEF w
  <2>. QED
    BY <2>1, <2>2, <2>4 DEF w
<1>. QED
  BY <1>1, <1>2

\* The request at the head of the line.
LEMMA HeadRequest ==
  ASSUME NEW q \in Seq(Requests), q # <<>>
  PROVE  /\ Head(q) \in Requests /\ Head(q) = q[1] /\ Tail(q) \in Seq(Requests) /\ Len(Tail(q)) = Len(q) - 1
         /\ Len(q) \in Nat \ {0}
         /\ \A i \in 1 .. Len(Tail(q)) : Tail(q)[i] = q[i + 1]
         /\ Head(q).ssid \in Names /\ Head(q).keep \in BOOLEAN
<1>1. /\ Head(q) \in Requests /\ Head(q) = q[1] /\ Tail(q) \in Seq(Requests) /\ Len(Tail(q)) = Len(q) - 1
      /\ Len(q) \in Nat \ {0}
      /\ \A i \in 1 .. Len(Tail(q)) : Tail(q)[i] = q[i + 1]
  OBVIOUS
<1>. QED
  BY <1>1 DEF Requests

\* The events after the first, and one more of them.
LEMMA EventTail ==
  ASSUME NEW e \in Seq(Happenings), e # <<>>
  PROVE  /\ Tail(e) \in Seq(Happenings) /\ Len(Tail(e)) = Len(e) - 1
         /\ Len(e) \in Nat \ {0} /\ Head(e) = e[1]
         /\ \A i \in 1 .. Len(e) - 1 : Tail(e)[i] = e[i + 1]
OBVIOUS

LEMMA EventAppend ==
  ASSUME NEW e \in Seq(Happenings), NEW a \in Happenings
  PROVE  /\ Append(e, a) \in Seq(Happenings) /\ Len(Append(e, a)) = Len(e) + 1
         /\ Len(e) \in Nat
         /\ \A i \in 1 .. Len(e) : Append(e, a)[i] = e[i]
         /\ Append(e, a)[Len(e) + 1] = a
OBVIOUS

LEMMA RadioTypes ==
  /\ Idle \in Radios
  /\ \A r \in Radios, s \in Names : EspConnect(r, s) \in Radios
BY DEF Idle, Radios, Names, EspConnect

LEMMA BootTypes ==
  ASSUME NEW nets \in Seq(Ssids), Fits(nets), NEW n \in Nat
  PROVE  /\ Fit(Boot(nets, n)) /\ Boot(nets, n).out = <<>> /\ Attempted(Boot(nets, n))
         /\ Boot(nets, n).session = n /\ Boot(nets, n).wifi = "down"
         /\ ~Boot(nets, n).wantSta /\ ~Boot(nets, n).wantAp
         /\ ModemBoot(n) \in Modem /\ ModemBoot(n).session = n /\ ModemBoot(n).st = "down"
         /\ ~ModemBoot(n).have /\ ~ModemBoot(n).ap /\ ~ModemBoot(n).self
<1>1. Fit(Boot(nets, n)) /\ Boot(nets, n).out = <<>> /\ Attempted(Boot(nets, n))
  BY DEF Fit, Boot, Kiosk, States, Names, Attempted
<1>2. /\ Boot(nets, n).session = n /\ Boot(nets, n).wifi = "down"
      /\ ~Boot(nets, n).wantSta /\ ~Boot(nets, n).wantAp
  BY DEF Boot
<1>3. /\ ModemBoot(n) \in Modem /\ ModemBoot(n).session = n /\ ModemBoot(n).st = "down"
      /\ ~ModemBoot(n).have /\ ~ModemBoot(n).ap /\ ~ModemBoot(n).self
  BY DEF ModemBoot, Modem, States, Names
<1>. QED
  BY <1>1, <1>2, <1>3

\* What a pass leaves of the kiosk, its requests sent.
LEMMA Delivers ==
  ASSUME NEW y, Fit(y), Attempted(y)
  PROVE  LET z == [y EXCEPT !.out = <<>>] IN
         /\ Fit(z) /\ Attempted(z) /\ z.out = <<>> /\ z.session = y.session /\ z.wifi = y.wifi
         /\ z.wantSta = y.wantSta /\ z.sta = y.sta /\ z.wantAp = y.wantAp
<1>. DEFINE z == [y EXCEPT !.out = <<>>]
<1>1. <<>> \in Seq(Requests)
  OBVIOUS
<1>2. z \in Kiosk
  BY <1>1 DEF Fit, Kiosk
<1>3. /\ z.out = <<>> /\ z.session = y.session /\ z.wifi = y.wifi
      /\ z.wantSta = y.wantSta /\ z.sta = y.sta /\ z.wantAp = y.wantAp
      /\ z.nets = y.nets /\ z.saved = y.saved /\ z.state = y.state /\ z.attempt = y.attempt /\ z.reboot = y.reboot
  BY DEF Fit, Kiosk
<1>. HIDE DEF z
<1>4. Fit(z) /\ Attempted(z)
  BY <1>2, <1>3 DEF Fit, Attempted
<1>. QED
  BY <1>3, <1>4 DEF z

LEMMA TypedInit == Init => Typed
<1>. SUFFICES ASSUME Init PROVE Typed
  OBVIOUS
<1>. USE NetworksAssumption
<1>1. PICK n \in {0, 1} : k = Boot(Stored, n) /\ up = IF n = 0 THEN <<Hello(1)>> ELSE <<>>
  BY DEF Init
<1>2. n \in Nat /\ 1 \in Nat /\ n <= 1
  BY <1>1
<1>3. Stored \in Seq(Ssids) /\ Fits(Stored)
  BY DEF Fits
<1>4. Fit(k) /\ k.out = <<>> /\ Attempted(k) /\ k.session = n
  BY <1>1, <1>2, <1>3, BootTypes
<1>5. m \in Modem /\ m.session = 1
  BY <1>3, BootTypes DEF Init
<1>6. up \in Seq(Reports) /\ \A i \in 1 .. Len(up) : up[i].t = "hello" => up[i].n <= 1
  <2>1. CASE n = 0
    <3>1. Hello(1) \in Reports /\ Hello(1).n = 1 /\ up = <<Hello(1)>>
      BY <1>1, <2>1, SentUp
    <3>2. up \in Seq(Reports) /\ Len(up) = 1 /\ up[1] = Hello(1)
      BY <3>1
    <3>3. \A i \in 1 .. Len(up) : i = 1
      BY <3>2
    <3>. QED
      BY <3>1, <3>2, <3>3
  <2>2. CASE n = 1
    BY <1>1, <2>2
  <2>. QED
    BY <2>1, <2>2
<1>7. radio \in Radios /\ ev \in Seq(Happenings) /\ down \in Seq(Requests) /\ room \in [Ssids -> Rooms]
  BY RadioTypes DEF Init
<1>8. KioskTypes /\ LinkTypes
  BY <1>2, <1>4, <1>5, <1>6, <1>7 DEF KioskTypes, LinkTypes
<1>9. ModemTypes
  BY <1>5, <1>7 DEF ModemTypes
<1>. QED
  BY <1>4, <1>8, <1>9 DEF Typed

\* A step of the modem, or of its radio.
LEMMA ModemTyped ==
  ASSUME Typed, k' = k, room' \in [Ssids -> Rooms], m' \in Modem, m'.session = m.session, radio' \in Radios,
         ev' \in Seq(Happenings), down' \in Seq(Requests),
         up' = up \/ \E g \in Reports : g.t # "hello" /\ up' = up \o <<g>>
  PROVE  Typed'
<1>1. m.session \in Nat
  BY DEF Typed, ModemTypes, Modem
<1>2. up' \in Seq(Reports) /\ \A i \in 1 .. Len(up') : up'[i].t = "hello" => up'[i].n <= m.session
  <2>1. CASE up' = up
    BY <2>1 DEF Typed, LinkTypes
  <2>2. CASE \E g \in Reports : g.t # "hello" /\ up' = up \o <<g>>
    <3>1. PICK g \in Reports : g.t # "hello" /\ up' = up \o <<g>>
      BY <2>2
    <3>2. <<g>> \in Seq(Reports) /\ up \in Seq(Reports)
      BY DEF Typed, LinkTypes
    <3>3. \A i \in 1 .. Len(up) : up[i].t = "hello" => up[i].n <= m.session
      BY DEF Typed, LinkTypes
    <3>. QED
      BY <1>1, <3>1, <3>2, <3>3, Uplinked
  <2>. QED
    BY <2>1, <2>2
<1>3. KioskTypes' /\ Attempted(k)'
  BY DEF Typed, KioskTypes, Fit, Fits, Attempted
<1>4. LinkTypes'
  BY <1>2 DEF Typed, LinkTypes
<1>5. ModemTypes'
  BY DEF ModemTypes
<1>. QED
  BY <1>3, <1>4, <1>5 DEF Typed

LEMMA StateUp ==
  ASSUME NEW st \in States, up \in Seq(Reports), SendUp(StateFrames(st))
  PROVE  up' = up \/ \E g \in Reports : g.t # "hello" /\ up' = up \o <<g>>
<1>1. up' = up \o StateFrames(st)
  BY DEF SendUp
<1>2. CASE StateFrames(st) = <<>>
  BY <1>1, <1>2
<1>3. CASE StateFrames(st) = <<WifiState(st)>>
  BY <1>1, <1>3, SentUp
<1>. QED
  BY <1>2, <1>3, StateSent

LEMMA ReceivesTyped ==
  ASSUME Typed, Receives
  PROVE  Typed'
<1>0. /\ m \in Modem /\ radio \in Radios /\ ev \in Seq(Happenings) /\ down \in Seq(Requests)
      /\ up \in Seq(Reports) /\ room \in [Ssids -> Rooms] /\ m.want \in Names /\ m.session \in Nat
  BY DEF Typed, KioskTypes, LinkTypes, ModemTypes, Modem
<1>1. CASE NetConnect
  <2>1. Head(down).ssid \in Names /\ Tail(down) \in Seq(Requests)
    BY <1>0, <1>1, HeadRequest DEF NetConnect
  <2>2. m' \in Modem /\ m'.session = m.session
    BY <1>0, <1>1, <2>1 DEF NetConnect, Modem, States
  <2>3. up' = up \/ \E g \in Reports : g.t # "hello" /\ up' = up \o <<g>>
    BY <1>0, <1>1, StateUp DEF NetConnect, States
  <2>. QED
    BY <1>0, <1>1, <2>1, <2>2, <2>3, ModemTyped DEF NetConnect
<1>2. CASE NetConnectJoin
  <2>1. m' \in Modem /\ m'.session = m.session
    BY <1>0, <1>2 DEF NetConnectJoin, Modem
  <2>2. radio' \in Radios
    BY <1>0, <1>2, RadioTypes DEF NetConnectJoin
  <2>3. ev' \in Seq(Happenings)
    BY <1>0, <1>2, EventAppend DEF NetConnectJoin, Happenings
  <2>. QED
    BY <1>0, <1>2, <2>1, <2>2, <2>3, ModemTyped DEF NetConnectJoin
<1>3. CASE NetApStart
  <2>1. Tail(down) \in Seq(Requests)
    BY <1>0, <1>3, HeadRequest DEF NetApStart
  <2>2. m' \in Modem /\ m'.session = m.session
    BY <1>0, <1>3 DEF NetApStart, Modem, States
  <2>3. up' = up \/ \E g \in Reports : g.t # "hello" /\ up' = up \o <<g>>
    BY <1>0, <1>3, StateUp DEF NetApStart, States
  <2>4. radio' \in Radios
    BY <1>0, <1>3, RadioTypes DEF NetApStart
  <2>. QED
    BY <1>0, <1>3, <2>1, <2>2, <2>3, <2>4, ModemTyped DEF NetApStart
<1>4. CASE NetApStop
  <2>1. Tail(down) \in Seq(Requests)
    BY <1>0, <1>4, HeadRequest DEF NetApStop
  <2>2. m' \in Modem /\ m'.session = m.session
    BY <1>0, <1>4 DEF NetApStop, Modem, States
  <2>3. up' = up \/ \E g \in Reports : g.t # "hello" /\ up' = up \o <<g>>
    <3>1. CASE m.have
      BY <1>0, <1>4, <3>1, StateUp DEF NetApStop, States
    <3>2. CASE ~m.have
      BY <1>0, <1>4, <3>2, StateUp DEF NetApStop, States
    <3>. QED
      BY <3>1, <3>2
  <2>. QED
    BY <1>0, <1>4, <2>1, <2>2, <2>3, ModemTyped DEF NetApStop
<1>5. CASE NetScan
  <2>1. Tail(down) \in Seq(Requests)
    BY <1>0, <1>5, HeadRequest DEF NetScan
  <2>2. m' \in Modem /\ m'.session = m.session
    BY <1>0, <1>5 DEF NetScan, Modem
  <2>3. ScanDone({}) \in Reports /\ ScanDone({}).t # "hello"
    BY SentUp
  <2>4. up' = up \/ \E g \in Reports : g.t # "hello" /\ up' = up \o <<g>>
    BY <1>5, <2>3 DEF NetScan, SendUp
  <2>. QED
    BY <1>0, <1>5, <2>1, <2>2, <2>4, ModemTyped DEF NetScan
<1>. QED
  BY <1>1, <1>2, <1>3, <1>4, <1>5 DEF Receives

LEMMA EventsTyped ==
  ASSUME Typed, Events \/ Retries \/ Radio
  PROVE  Typed'
<1>0. /\ m \in Modem /\ radio \in Radios /\ ev \in Seq(Happenings) /\ down \in Seq(Requests)
      /\ up \in Seq(Reports) /\ room \in [Ssids -> Rooms] /\ m.want \in Names /\ m.session \in Nat
      /\ m.have \in BOOLEAN /\ m.st \in States
  BY DEF Typed, KioskTypes, LinkTypes, ModemTypes, Modem
<1>1. CASE OnConnected
  <2>1. Tail(ev) \in Seq(Happenings)
    BY <1>0, <1>1, EventTail DEF OnConnected
  <2>2. m' \in Modem /\ m'.session = m.session
    BY <1>0, <1>1 DEF OnConnected, Modem
  <2>. QED
    BY <1>0, <1>1, <2>1, <2>2, ModemTyped DEF OnConnected
<1>2. CASE OnDisconnected
  <2>1. Tail(ev) \in Seq(Happenings)
    BY <1>0, <1>2, EventTail DEF OnDisconnected
  <2>2. m' \in Modem /\ m'.session = m.session
    BY <1>0, <1>2 DEF OnDisconnected, Modem, States
  <2>3. up' = up \/ \E g \in Reports : g.t # "hello" /\ up' = up \o <<g>>
    BY <1>0, <1>2, StateUp DEF OnDisconnected, States
  <2>. QED
    BY <1>0, <1>2, <2>1, <2>2, <2>3, ModemTyped DEF OnDisconnected
<1>3. CASE OnGotIp
  <2>1. Tail(ev) \in Seq(Happenings)
    BY <1>0, <1>3, EventTail DEF OnGotIp
  <2>2. m' \in Modem /\ m'.session = m.session
    BY <1>0, <1>3 DEF OnGotIp, Modem, States
  <2>3. up' = up \/ \E g \in Reports : g.t # "hello" /\ up' = up \o <<g>>
    BY <1>0, <1>3, StateUp DEF OnGotIp, States
  <2>. QED
    BY <1>0, <1>3, <2>1, <2>2, <2>3, ModemTyped DEF OnGotIp
<1>4. CASE RetryFires
  <2>1. (m.have /\ m.st # "up") \in BOOLEAN
    OBVIOUS
  <2>2. m' \in Modem /\ m'.session = m.session
    BY <1>0, <1>4 DEF RetryFires, Modem
  <2>. QED
    BY <1>0, <1>4, <2>2, ModemTyped DEF RetryFires
<1>5. CASE RetryJoins
  <2>1. m' \in Modem /\ m'.session = m.session
    BY <1>0, <1>5 DEF RetryJoins, Modem, States
  <2>2. up' = up \/ \E g \in Reports : g.t # "hello" /\ up' = up \o <<g>>
    BY <1>0, <1>5, StateUp DEF RetryJoins, States
  <2>3. radio' \in Radios
    BY <1>0, <1>5, RadioTypes DEF RetryJoins
  <2>. QED
    BY <1>0, <1>5, <2>1, <2>2, <2>3, ModemTyped DEF RetryJoins
<1>6. CASE RadioLinks
  <2>1. radio' \in Radios
    BY <1>0, <1>6 DEF RadioLinks, Radios
  <2>2. ev' \in Seq(Happenings)
    BY <1>0, <1>6, EventAppend DEF RadioLinks, Happenings
  <2>. QED
    BY <1>0, <1>6, <2>1, <2>2, ModemTyped DEF RadioLinks
<1>7. CASE RadioRefused
  <2>1. radio' \in Radios
    BY <1>7, RadioTypes DEF RadioRefused
  <2>2. ev' \in Seq(Happenings)
    BY <1>0, <1>7, EventAppend DEF RadioRefused, Happenings
  <2>. QED
    BY <1>0, <1>7, <2>1, <2>2, ModemTyped DEF RadioRefused
<1>8. CASE RadioGetsIp
  <2>1. radio' \in Radios
    BY <1>0, <1>8 DEF RadioGetsIp, Radios
  <2>2. ev' \in Seq(Happenings)
    BY <1>0, <1>8, EventAppend DEF RadioGetsIp, Happenings
  <2>. QED
    BY <1>0, <1>8, <2>1, <2>2, ModemTyped DEF RadioGetsIp
<1>9. CASE OnScanDone
  <2>. DEFINE seen == {s \in Ssids : room[s] \in {"here", "locked"}}
  <2>1. m' \in Modem /\ m'.session = m.session
    BY <1>0, <1>9 DEF OnScanDone, Modem
  <2>2. up' = up \o <<ScanDone(seen)>>
    BY <1>9 DEF OnScanDone, SendUp
  <2>3. ScanDone(seen) \in Reports /\ ScanDone(seen).t # "hello"
    BY SentUp
  <2>. HIDE DEF seen
  <2>4. up' = up \/ \E g \in Reports : g.t # "hello" /\ up' = up \o <<g>>
    BY <2>2, <2>3
  <2>. QED
    BY <1>0, <1>9, <2>1, <2>4, ModemTyped DEF OnScanDone
<1>. QED
  BY <1>1, <1>2, <1>3, <1>4, <1>5, <1>6, <1>7, <1>8, <1>9 DEF Events, Retries, Radio

\* What is known of the kiosk and its lines when a step begins.
LEMMA Known ==
  ASSUME Typed
  PROVE  /\ m \in Modem /\ radio \in Radios /\ ev \in Seq(Happenings) /\ down \in Seq(Requests)
         /\ up \in Seq(Reports) /\ room \in [Ssids -> Rooms] /\ m.session \in Nat
         /\ Fit(k) /\ k.out = <<>> /\ Attempted(k) /\ k.session <= m.session /\ k.session \in Nat
         /\ k.saved \in Seq(Ssids) /\ Fits(k.saved)
         /\ \A i \in 1 .. Len(up) : up[i].t = "hello" => up[i].n <= m.session
BY DEF Typed, KioskTypes, LinkTypes, ModemTypes, Modem, Fit, Kiosk

LEMMA PassTyped ==
  ASSUME Typed, NEW due, Pass(due)
  PROVE  Typed'
<1>. DEFINE x == MainLoop(k, up, due, "none", NoSsid)
            z == [x EXCEPT !.out = <<>>]
<1>1. k' = z /\ down' = down \o x.out /\ up' = <<>> /\ m' = m /\ radio' = radio /\ ev' = ev /\ room' = room
  BY DEF Pass
<1>2. /\ Fit(x) /\ Attempted(x)
      /\ \/ x.session = k.session
         \/ \E i \in 1 .. Len(up) : up[i].t = "hello" /\ x.session = up[i].n
  <2>1. "none" \in {"none", "wifi", "forget", "portal", "modem_reset"} /\ "none" \notin {"wifi", "forget"}
    OBVIOUS
  <2>2. Fit(k) /\ Attempted(k) /\ up \in Seq(Reports) /\ down \in Seq(Requests) /\ m \in Modem
    BY Known
  <2>3. Passed(k, x, up)
    BY <2>1, <2>2, Passes
  <2>. HIDE DEF x
  <2>. QED
    BY <2>3 DEF Passed
<1>. HIDE DEF x
<1>3. x.session <= m.session /\ x.out \in Seq(Requests)
  <2>1. x.session <= m.session
    BY <1>2, Known
  <2>. QED
    BY <2>1, <1>2 DEF Fit, Kiosk
<1>4. Fit(z) /\ Attempted(z) /\ z.out = <<>> /\ z.session = x.session
  BY <1>2, Delivers
<1>. HIDE DEF z
<1>5. KioskTypes' /\ Attempted(k)'
  BY <1>1, <1>4, Known DEF KioskTypes, Fit, Fits, Attempted
<1>6. LinkTypes'
  <2>1. down' \in Seq(Requests)
    BY <1>1, <1>3, Known
  <2>2. up' \in Seq(Reports) /\ \A i \in 1 .. Len(up') : FALSE
    BY <1>1
  <2>3. k'.session <= m'.session
    BY <1>1, <1>3, <1>4
  <2>. QED
    BY <2>1, <2>2, <2>3 DEF LinkTypes
<1>7. ModemTypes'
  BY <1>1, Known DEF ModemTypes
<1>. QED
  BY <1>5, <1>6, <1>7 DEF Typed

LEMMA RestartTyped ==
  ASSUME Typed, Restart(k.saved), room' = room
  PROVE  Typed'
<1>. DEFINE n == m.session + 1
            h == <<Hello(n)>>
<1>1. n \in Nat /\ 0 \in Nat /\ 0 <= n
  BY Known
<1>2. /\ (k' = Boot(k.saved, n) /\ up' = <<>>) \/ (k' = Boot(k.saved, 0) /\ up' = h)
      /\ m' = ModemBoot(n) /\ radio' = Idle /\ ev' = <<>> /\ down' = <<>>
  BY DEF Restart
<1>. HIDE DEF n
<1>3. /\ Fit(k') /\ k'.out = <<>> /\ Attempted(k') /\ k'.session <= n
  BY <1>1, <1>2, Known, BootTypes
<1>4. m' \in Modem /\ m'.session = n
  BY <1>1, <1>2, Known, BootTypes
<1>5. up' \in Seq(Reports) /\ \A i \in 1 .. Len(up') : up'[i].t = "hello" => up'[i].n <= n
  <2>1. Hello(n) \in Reports /\ Hello(n).n <= n
    BY <1>1, SentUp
  <2>2. h \in Seq(Reports) /\ Len(h) = 1 /\ h[1] = Hello(n)
    BY <2>1
  <2>. HIDE DEF h
  <2>3. \A i \in 1 .. Len(h) : i = 1
    BY <2>2
  <2>4. CASE up' = h
    BY <2>1, <2>2, <2>3, <2>4
  <2>5. CASE up' = <<>>
    BY <2>5
  <2>. QED
    BY <1>2, <2>4, <2>5
<1>6. KioskTypes' /\ Attempted(k)'
  BY <1>3, Known DEF KioskTypes, Fit, Fits, Attempted
<1>7. LinkTypes'
  <2>1. down' \in Seq(Requests)
    BY <1>2
  <2>. QED
    BY <1>3, <1>4, <1>5, <2>1 DEF LinkTypes
<1>8. ModemTypes'
  <2>1. ev' \in Seq(Happenings)
    BY <1>2
  <2>. QED
    BY <1>2, <1>4, <2>1, RadioTypes DEF ModemTypes
<1>. QED
  BY <1>6, <1>7, <1>8 DEF Typed

\* A modem that starts over and says so.
LEMMA CrashTyped ==
  ASSUME Typed, NEW old \in Seq(Reports), \A i \in 1 .. Len(old) : old[i].t = "hello" => old[i].n <= m.session,
         Fit(k'), k'.out = <<>>, Attempted(k'), k'.session <= m.session, room' \in [Ssids -> Rooms],
         m' = ModemBoot(m.session + 1), radio' = Idle, ev' = <<>>, down' = <<>>,
         up' = old \o <<Hello(m.session + 1)>>
  PROVE  Typed'
<1>. DEFINE n == m.session + 1
<1>1. n \in Nat /\ m.session < n /\ m.session \in Nat
  BY Known
<1>2. k'.session \in Nat
  BY DEF Fit, Kiosk
<1>3. m' = ModemBoot(n) /\ up' = old \o <<Hello(n)>>
  OBVIOUS
<1>4. \A i \in 1 .. Len(old) : old[i] \in Reports /\ old[i].n \in Nat
  <2>1. \A i \in 1 .. Len(old) : old[i] \in Reports
    OBVIOUS
  <2>. QED
    BY <2>1 DEF Reports
<1>. HIDE DEF n
<1>5. m' \in Modem /\ m'.session = n
  BY <1>1, <1>3, Known, BootTypes
<1>6. \A i \in 1 .. Len(old) : old[i].t = "hello" => old[i].n <= n
  BY <1>1, <1>4
<1>7. up' \in Seq(Reports) /\ \A i \in 1 .. Len(up') : up'[i].t = "hello" => up'[i].n <= n
  <2>1. Hello(n) \in Reports /\ Hello(n).n = n
    BY <1>1, SentUp
  <2>2. <<Hello(n)>> \in Seq(Reports) /\ \E g \in Reports : <<Hello(n)>> = <<g>> /\ (g.t = "hello" => g.n <= n)
    BY <1>1, <2>1
  <2>. QED
    BY <1>1, <1>3, <1>6, <2>2, Uplinked
<1>8. KioskTypes' /\ Attempted(k)'
  BY DEF KioskTypes, Fit, Fits, Attempted
<1>9. LinkTypes'
  <2>1. down' \in Seq(Requests)
    OBVIOUS
  <2>2. k'.session <= n
    BY <1>1, <1>2
  <2>. QED
    BY <1>5, <1>7, <2>1, <2>2 DEF LinkTypes
<1>10. ModemTypes'
  <2>1. ev' \in Seq(Happenings)
    OBVIOUS
  <2>. QED
    BY <1>5, <2>1, RadioTypes DEF ModemTypes
<1>. QED
  BY <1>8, <1>9, <1>10 DEF Typed

\* What a command makes of the kiosk, x, and z once its requests are sent: no session changes.
Commanded(x, z) ==
    /\ Fit(z) /\ Attempted(z) /\ z.out = <<>> /\ z.session = k.session /\ x.out \in Seq(Requests)
    /\ z.wifi = x.wifi /\ z.wantSta = x.wantSta /\ z.sta = x.sta /\ z.wantAp = x.wantAp
    /\ \A u : Keeps(k, x, u)

LEMMA CommandTyped ==
  ASSUME Typed, NEW cmd \in {"wifi", "forget", "portal", "modem_reset"}, NEW s, cmd \in {"wifi", "forget"} => s \in Ssids
  PROVE  Commanded(MainLoop(k, <<>>, {}, cmd, s), [MainLoop(k, <<>>, {}, cmd, s) EXCEPT !.out = <<>>])
<1>. DEFINE x == MainLoop(k, <<>>, {}, cmd, s)
            z == [x EXCEPT !.out = <<>>]
<1>1. <<>> \in Seq(Reports)
  OBVIOUS
<1>2. Fit(x) /\ Attempted(x) /\ \A u : Keeps(k, x, u)
  <2>1. Passed(k, x, <<>>)
    BY <1>1, Known, Passes
  <2>. HIDE DEF x
  <2>. QED
    BY <2>1 DEF Passed
<1>. HIDE DEF x
<1>3. Fit(z) /\ Attempted(z) /\ z.out = <<>> /\ z.session = x.session
      /\ z.wifi = x.wifi /\ z.wantSta = x.wantSta /\ z.sta = x.sta /\ z.wantAp = x.wantAp
  BY <1>2, Delivers
<1>4. x.session = k.session
  BY <1>2 DEF Keeps
<1>5. x.out \in Seq(Requests)
  BY <1>2 DEF Fit, Kiosk
<1>6. Commanded(x, z)
  BY <1>2, <1>3, <1>4, <1>5 DEF Commanded
<1>. QED
  BY <1>6 DEF x

LEMMA AdverseTyped ==
  ASSUME Typed, Adverse
  PROVE  Typed'
<1>1. CASE PowerCut
  BY <1>1, RestartTyped DEF PowerCut
<1>2. CASE ModemRestarts
  <2>1. up' = up \o <<Hello(m.session + 1)>>
    BY <1>2, Known DEF ModemRestarts
  <2>. QED
    BY <1>2, <2>1, Known, CrashTyped DEF ModemRestarts
<1>3. CASE LoseDown
  <2>1. Tail(down) \in Seq(Requests)
    BY <1>3, Known, HeadRequest DEF LoseDown
  <2>. QED
    BY <1>3, <2>1, Known, ModemTyped DEF LoseDown
<1>4. CASE LoseUp
  <2>1. /\ Tail(up) \in Seq(Reports) /\ Len(Tail(up)) = Len(up) - 1 /\ Len(up) \in Nat
        /\ \A i \in 1 .. Len(Tail(up)) : Tail(up)[i] = up[i + 1]
    BY <1>4, Known DEF LoseUp
  <2>2. up' \in Seq(Reports) /\ \A i \in 1 .. Len(up') : up'[i].t = "hello" => up'[i].n <= m.session
    BY <1>4, <2>1, Known DEF LoseUp
  <2>3. KioskTypes' /\ Attempted(k)' /\ ModemTypes'
    BY <1>4 DEF LoseUp, Typed, KioskTypes, ModemTypes, Fit, Fits, Attempted
  <2>4. LinkTypes'
    BY <1>4, <2>2, Known DEF LoseUp, LinkTypes
  <2>. QED
    BY <2>3, <2>4 DEF Typed
<1>5. CASE LateJoin
  BY <1>5, PassTyped DEF LateJoin
<1>6. CASE RoomChanges
  <2>1. PICK s \in Ssids, kind \in Rooms :
           /\ room' = [room EXCEPT ![s] = kind]
           /\ \/ radio' = Idle /\ ev' = Append(ev, "disconnected")
              \/ UNCHANGED <<radio, ev>>
           /\ UNCHANGED <<k, m, down, up>>
    BY <1>6 DEF RoomChanges
  <2>2. room' \in [Ssids -> Rooms]
    BY <2>1, Known
  <2>3. radio' \in Radios /\ ev' \in Seq(Happenings)
    BY <2>1, Known, RadioTypes, EventAppend DEF Happenings
  <2>. QED
    BY <2>1, <2>2, <2>3, Known, ModemTyped
<1>7. CASE FormPosted
  <2>1. PICK s \in Ssids : k' = [k EXCEPT !.posted = s] /\ UNCHANGED <<m, radio, ev, down, up, room>>
    BY <1>7 DEF FormPosted
  <2>2. s \in Names
    BY DEF Names
  <2>3. Fit(k') /\ k'.out = <<>> /\ Attempted(k') /\ k'.session = k.session
    BY <2>1, <2>2, Known DEF Fit, Kiosk, Attempted
  <2>. QED
    BY <2>1, <2>3, Known DEF Typed, KioskTypes, LinkTypes, ModemTypes, Fit, Fits, Attempted
<1>8. CASE ConsoleCommand
  <2>1. PICK cmd \in {"wifi", "forget", "portal"}, s \in Ssids :
           LET x == MainLoop(k, <<>>, {}, cmd, s) IN
           k' = [x EXCEPT !.out = <<>>] /\ down' = down \o x.out
    BY <1>8 DEF ConsoleCommand
  <2>. DEFINE x == MainLoop(k, <<>>, {}, cmd, s)
  <2>2. Fit(k') /\ Attempted(k') /\ k'.out = <<>> /\ k'.session = k.session /\ x.out \in Seq(Requests)
    <3>1. Commanded(x, k')
      BY <2>1, CommandTyped
    <3>. QED
      BY <3>1 DEF Commanded
  <2>. HIDE DEF x
  <2>3. UNCHANGED <<m, radio, ev, up, room>> /\ down' = down \o x.out
    BY <1>8, <2>1 DEF ConsoleCommand, x
  <2>4. down' \in Seq(Requests)
    BY <2>2, <2>3, Known
  <2>. QED
    BY <2>2, <2>3, <2>4, Known DEF Typed, KioskTypes, LinkTypes, ModemTypes, Fit, Fits, Attempted
<1>9. CASE ConsoleModemReset
  <2>1. Fit(k') /\ Attempted(k') /\ k'.out = <<>> /\ k'.session = k.session
    <3>1. Commanded(MainLoop(k, <<>>, {}, "modem_reset", NoSsid), k')
      BY <1>9, CommandTyped DEF ConsoleModemReset
    <3>. QED
      BY <3>1 DEF Commanded
  <2>2. <<>> \in Seq(Reports) /\ <<Hello(m.session + 1)>> = <<>> \o <<Hello(m.session + 1)>>
        /\ \A i \in 1 .. Len(<<>>) : FALSE
    OBVIOUS
  <2>3. /\ m' = ModemBoot(m.session + 1) /\ radio' = Idle /\ ev' = <<>> /\ down' = <<>>
        /\ up' = <<>> \o <<Hello(m.session + 1)>> /\ room' = room
    BY <1>9, <2>2 DEF ConsoleModemReset
  <2>. QED
    BY <2>1, <2>2, <2>3, Known, CrashTyped
<1>. QED
  BY <1>1, <1>2, <1>3, <1>4, <1>5, <1>6, <1>7, <1>8, <1>9 DEF Adverse

LEMMA TypedNext == Typed /\ [Next]_vars => Typed'
<1>. SUFFICES ASSUME Typed, [Next]_vars PROVE Typed'
  OBVIOUS
<1>1. CASE KioskPass
  BY <1>1, PassTyped DEF KioskPass
<1>2. CASE KioskReboots
  BY <1>2, RestartTyped DEF KioskReboots
<1>3. CASE UNCHANGED vars
  BY <1>3 DEF vars, Typed, KioskTypes, LinkTypes, ModemTypes, Fit, Fits, Attempted
<1>. QED
  BY <1>1, <1>2, <1>3, ReceivesTyped, EventsTyped, AdverseTyped DEF Next

LEMMA TypedAlways == Spec => []Typed
BY TypedInit, TypedNext, PTL DEF Spec

\* For every list, room and fault, lost frames included: what the kiosk is attempting is the
\* network it asked the modem for last (kiosk_loop.c promotes attempt_index, whatever the list
\* has become under it).
THEOREM AttemptNamesNetwork == Spec => []AttemptIsAsked
<1>1. Typed => AttemptIsAsked
  BY DEF Typed, Attempted, AttemptIsAsked
<1>. QED
  BY <1>1, TypedAlways, PTL

-----------------------------------------------------------------------------
(***************************************************************************)
(* The modem's own events, and the loss of a network.                      *)
(***************************************************************************)
Losses == SelfPending /\ LossOwed

\* A modem that starts, and one whose radio is not idle, owe nothing.
LEMMA NothingOwed ==
  ASSUME ~m'.self, m'.st = "down", ev' = <<>>
  PROVE  Losses'
<1>1. \A i \in 1 .. Len(ev') : FALSE
  OBVIOUS
<1>. QED
  BY <1>1 DEF Losses, SelfPending, LossOwed

\* Nothing happened that the modem has not handled.
LEMMA NoEvents ==
  ASSUME Losses, ev = <<>>
  PROVE  ~(radio.sta = "idle" /\ m.st = "up") /\ ~m.self
<1>1. \A i \in 1 .. Len(ev) : FALSE
  OBVIOUS
<1>. QED
  BY <1>1 DEF Losses, SelfPending, LossOwed

\* A step that handles no event and adds none.
LEMMA SameEvents ==
  ASSUME Losses, ev' = ev, m'.self = m.self,
         m'.st = "up" => m.st = "up", radio'.sta = "idle" => radio.sta = "idle"
  PROVE  Losses'
BY DEF Losses, SelfPending, LossOwed

LEMMA JoinLoss ==
  ASSUME Typed, Losses, IdleDisconnects = {TRUE}, NetConnectJoin
  PROVE  Losses'
<1>1. ev' = Append(ev, "disconnected")
  BY DEF NetConnectJoin
<1>2. Len(ev') = Len(ev) + 1 /\ Len(ev) \in Nat /\ ev'[Len(ev) + 1] = "disconnected"
  BY <1>1, Known, EventAppend DEF Happenings
<1>3. radio'.sta = "joining"
  BY DEF NetConnectJoin, EspConnect, Idle
<1>. QED
  BY <1>2, <1>3 DEF Losses, SelfPending, LossOwed

\* The first event is handled, and owes nothing to what comes after it.
LEMMA FirstHandled ==
  ASSUME Typed, Losses, ev # <<>>, ev' = Tail(ev), ev[1] # "disconnected", m'.self = m.self, radio' = radio,
         m'.st = "up" => m.st = "up" \/ ev[1] = "got_ip"
  PROVE  Losses'
<1>1. /\ Len(ev') = Len(ev) - 1 /\ Len(ev) \in Nat \ {0}
      /\ \A i \in 1 .. Len(ev) - 1 : ev'[i] = ev[i + 1]
  BY Known, EventTail
<1>2. \A i \in 2 .. Len(ev) : i - 1 \in 1 .. Len(ev') /\ ev'[i - 1] = ev[i]
  BY <1>1
<1>3. \A i \in 1 .. Len(ev') : i + 1 \in 2 .. Len(ev) /\ ev'[i] = ev[i + 1]
  BY <1>1
<1>4. \A i \in 1 .. Len(ev) : ev[i] = "disconnected" => i \in 2 .. Len(ev)
  BY <1>1
<1>5. SelfPending'
  BY <1>2, <1>4 DEF Losses, SelfPending
<1>6. LossOwed'
  <2>. SUFFICES ASSUME radio.sta = "idle", m'.st = "up" \/ \E i \in 1 .. Len(ev') : ev'[i] = "got_ip"
                PROVE  \E i \in 1 .. Len(ev') :
                          /\ ev'[i] = "disconnected"
                          /\ \A j \in 1 .. Len(ev') : j > i => ev'[j] # "got_ip"
                          /\ m.self => \E j \in 1 .. i - 1 : ev'[j] = "disconnected"
    BY DEF LossOwed
  <2>1. m.st = "up" \/ \E i \in 1 .. Len(ev) : ev[i] = "got_ip"
    <3>1. 1 \in 1 .. Len(ev)
      BY <1>1
    <3>2. \A i \in 2 .. Len(ev) : i \in 1 .. Len(ev)
      BY <1>1
    <3>. QED
      BY <1>3, <3>1, <3>2
  <2>2. PICK i \in 1 .. Len(ev) :
           /\ ev[i] = "disconnected"
           /\ \A j \in 1 .. Len(ev) : j > i => ev[j] # "got_ip"
           /\ m.self => \E j \in 1 .. i - 1 : ev[j] = "disconnected"
    BY <2>1 DEF Losses, LossOwed
  <2>3. i - 1 \in 1 .. Len(ev') /\ ev'[i - 1] = "disconnected"
    BY <1>2, <1>4, <2>2
  <2>4. \A j \in 1 .. Len(ev') : j > i - 1 => ev'[j] # "got_ip"
    <3>1. \A j \in 1 .. Len(ev') : j > i - 1 => j + 1 > i /\ j + 1 \in 1 .. Len(ev)
      BY <1>1
    <3>. QED
      BY <1>3, <2>2, <3>1
  <2>5. m.self => \E j \in 1 .. (i - 1) - 1 : ev'[j] = "disconnected"
    <3>. SUFFICES ASSUME m.self PROVE \E j \in 1 .. (i - 1) - 1 : ev'[j] = "disconnected"
      OBVIOUS
    <3>1. PICK j \in 1 .. i - 1 : ev[j] = "disconnected"
      BY <2>2
    <3>2. j \in 1 .. Len(ev)
      BY <1>1, <3>1
    <3>3. j \in 2 .. Len(ev)
      BY <1>4, <3>1, <3>2
    <3>4. j - 1 \in 1 .. (i - 1) - 1 /\ ev'[j - 1] = "disconnected"
      BY <1>1, <1>2, <3>1, <3>3
    <3>. QED
      BY <3>4
  <2>. QED
    BY <2>3, <2>4, <2>5
<1>. QED
  BY <1>5, <1>6 DEF Losses

\* A disconnect that is the modem's own is swallowed, and one that is not is noticed.
LEMMA DisconnectHandled ==
  ASSUME Typed, Losses, OnDisconnected
  PROVE  Losses'
<1>1. /\ Len(ev') = Len(ev) - 1 /\ Len(ev) \in Nat \ {0} /\ ev[1] = "disconnected"
      /\ \A i \in 1 .. Len(ev) - 1 : ev'[i] = ev[i + 1]
  BY Known, EventTail DEF OnDisconnected
<1>2. \A i \in 2 .. Len(ev) : i - 1 \in 1 .. Len(ev') /\ ev'[i - 1] = ev[i]
  BY <1>1
<1>3. \A i \in 1 .. Len(ev') : i + 1 \in 2 .. Len(ev) /\ ev'[i] = ev[i + 1]
  BY <1>1
<1>4. ~m'.self /\ radio' = radio /\ (m'.st = "up" => m.st = "up" /\ m.self)
  BY Known DEF OnDisconnected, Modem
<1>5. SelfPending'
  BY <1>4 DEF SelfPending
<1>6. LossOwed'
  <2>. SUFFICES ASSUME radio.sta = "idle", m'.st = "up" \/ \E i \in 1 .. Len(ev') : ev'[i] = "got_ip"
                PROVE  \E i \in 1 .. Len(ev') :
                          /\ ev'[i] = "disconnected"
                          /\ \A j \in 1 .. Len(ev') : j > i => ev'[j] # "got_ip"
    BY <1>4 DEF LossOwed
  <2>1. m.st = "up" \/ \E i \in 1 .. Len(ev) : ev[i] = "got_ip"
    <3>1. \A i \in 2 .. Len(ev) : i \in 1 .. Len(ev)
      BY <1>1
    <3>. QED
      BY <1>3, <1>4, <3>1
  <2>2. PICK i \in 1 .. Len(ev) :
           /\ ev[i] = "disconnected"
           /\ \A j \in 1 .. Len(ev) : j > i => ev[j] # "got_ip"
           /\ m.self => \E j \in 1 .. i - 1 : ev[j] = "disconnected"
    BY <2>1 DEF Losses, LossOwed
  <2>3. i \in 2 .. Len(ev)
    <3>1. CASE \E j \in 1 .. Len(ev') : ev'[j] = "got_ip"
      <4>1. PICK j \in 1 .. Len(ev') : ev'[j] = "got_ip"
        BY <3>1
      <4>2. j + 1 \in 1 .. Len(ev) /\ ev[j + 1] = "got_ip" /\ j + 1 > 1
        BY <1>1, <1>3, <4>1
      <4>3. ~(j + 1 > i)
        BY <2>2, <4>2
      <4>. QED
        BY <1>1, <4>2, <4>3
    <3>2. CASE m'.st = "up"
      <4>1. PICK j \in 1 .. i - 1 : ev[j] = "disconnected"
        BY <1>4, <2>2, <3>2
      <4>. QED
        BY <1>1, <4>1
    <3>. QED
      BY <3>1, <3>2
  <2>4. i - 1 \in 1 .. Len(ev') /\ ev'[i - 1] = "disconnected"
    BY <1>2, <2>2, <2>3
  <2>5. \A j \in 1 .. Len(ev') : j > i - 1 => ev'[j] # "got_ip"
    <3>1. \A j \in 1 .. Len(ev') : j > i - 1 => j + 1 > i /\ j + 1 \in 1 .. Len(ev)
      BY <1>1
    <3>. QED
      BY <1>3, <2>2, <3>1
  <2>. QED
    BY <2>4, <2>5
<1>. QED
  BY <1>5, <1>6 DEF Losses

\* One event more: a link or an address, that is up; or a loss, with a disconnect of its own.
LEMMA OneMoreEvent ==
  ASSUME Typed, Losses, m'.self = m.self, NEW e \in Happenings, ev' = Append(ev, e),
         m'.st = m.st, radio'.sta = "idle" => e = "disconnected"
  PROVE  Losses'
<1>1. /\ Len(ev') = Len(ev) + 1 /\ Len(ev) \in Nat
      /\ \A i \in 1 .. Len(ev) : ev'[i] = ev[i]
      /\ ev'[Len(ev) + 1] = e
  BY Known, EventAppend
<1>2. Len(ev) + 1 \in 1 .. Len(ev') /\ \A i \in 1 .. Len(ev) : i \in 1 .. Len(ev') /\ i \in 1 .. (Len(ev) + 1) - 1
  BY <1>1
<1>3. SelfPending'
  BY <1>1, <1>2 DEF Losses, SelfPending
<1>4. LossOwed'
  <2>. SUFFICES ASSUME e = "disconnected"
                PROVE  \E i \in 1 .. Len(ev') :
                          /\ ev'[i] = "disconnected"
                          /\ \A j \in 1 .. Len(ev') : j > i => ev'[j] # "got_ip"
                          /\ m.self => \E j \in 1 .. i - 1 : ev'[j] = "disconnected"
    BY DEF LossOwed
  <2>1. \A j \in 1 .. Len(ev') : ~(j > Len(ev) + 1)
    BY <1>1
  <2>2. m.self => \E j \in 1 .. (Len(ev) + 1) - 1 : ev'[j] = "disconnected"
    BY <1>1, <1>2 DEF Losses, SelfPending
  <2>. QED
    BY <1>1, <1>2, <2>1, <2>2
<1>. QED
  BY <1>3, <1>4 DEF Losses

LEMMA LossesNext ==
  ASSUME Typed, Losses, IdleDisconnects = {TRUE}, [Next]_vars
  PROVE  Losses'
<1>0. m \in Modem /\ radio \in Radios /\ ev \in Seq(Happenings)
  BY Known
<1>1. CASE NetConnect
  BY <1>0, <1>1, SameEvents DEF NetConnect, Modem
<1>2. CASE NetConnectJoin
  BY <1>2, JoinLoss
<1>3. CASE NetApStart
  <2>1. m'.self = m.self /\ ev' = ev /\ (m'.st = "up" => m.st = "up")
    BY <1>0, <1>3 DEF NetApStart, Modem
  <2>2. radio'.sta = "idle" => radio.sta = "idle"
    BY <1>3 DEF NetApStart, EspConnect
  <2>. QED
    BY <2>1, <2>2, SameEvents
<1>4. CASE NetApStop
  <2>1. m'.self = m.self /\ ev' = ev /\ (m'.st = "up" => m.st = "up") /\ radio' = radio
    BY <1>0, <1>4 DEF NetApStop, Modem
  <2>. QED
    BY <2>1, SameEvents
<1>5. CASE NetScan
  <2>1. m'.self = m.self /\ ev' = ev /\ (m'.st = "up" => m.st = "up") /\ radio' = radio
    BY <1>0, <1>5 DEF NetScan, Modem
  <2>. QED
    BY <2>1, SameEvents
<1>6. CASE OnConnected
  <2>1. /\ ev # <<>> /\ ev' = Tail(ev) /\ ev[1] = "connected" /\ radio' = radio
        /\ m'.self = m.self /\ m'.st = m.st
    BY <1>0, <1>6, EventTail DEF OnConnected, Modem
  <2>. QED
    BY <2>1, FirstHandled
<1>7. CASE OnDisconnected
  BY <1>7, DisconnectHandled
<1>8. CASE OnGotIp
  <2>1. /\ ev # <<>> /\ ev' = Tail(ev) /\ ev[1] = "got_ip" /\ radio' = radio /\ m'.self = m.self
    BY <1>0, <1>8, EventTail DEF OnGotIp, Modem
  <2>. QED
    BY <2>1, FirstHandled
<1>9. CASE RetryFires
  <2>1. m'.self = m.self /\ ev' = ev /\ m'.st = m.st /\ radio' = radio
    BY <1>0, <1>9 DEF RetryFires, Modem
  <2>. QED
    BY <2>1, SameEvents
<1>10. CASE RetryJoins
  <2>1. m'.self = m.self /\ ev' = ev /\ m'.st = "connecting"
    BY <1>0, <1>10 DEF RetryJoins, Modem
  <2>2. radio'.sta = "idle" => radio.sta = "idle"
    BY <1>10 DEF RetryJoins, EspConnect
  <2>. QED
    BY <2>1, <2>2, SameEvents
<1>11. CASE RadioLinks
  <2>1. m' = m /\ radio'.sta = "linked" /\ ev' = Append(ev, "connected")
    BY <1>0, <1>11 DEF RadioLinks, Radios
  <2>. QED
    BY <2>1, OneMoreEvent DEF Happenings
<1>12. CASE RadioRefused
  <2>1. m' = m /\ ev' = Append(ev, "disconnected")
    BY <1>12 DEF RadioRefused
  <2>. QED
    BY <2>1, OneMoreEvent DEF Happenings
<1>13. CASE RadioGetsIp
  <2>1. m' = m /\ radio'.sta = "ip" /\ ev' = Append(ev, "got_ip")
    BY <1>0, <1>13 DEF RadioGetsIp, Radios
  <2>. QED
    BY <2>1, OneMoreEvent DEF Happenings
<1>14. CASE OnScanDone
  <2>1. m'.self = m.self /\ ev' = ev /\ m'.st = m.st /\ radio' = radio
    BY <1>0, <1>14 DEF OnScanDone, Modem
  <2>. QED
    BY <2>1, SameEvents
<1>15. CASE KioskPass \/ LateJoin \/ LoseDown \/ LoseUp \/ FormPosted \/ ConsoleCommand \/ UNCHANGED vars
  <2>1. m' = m /\ ev' = ev /\ radio' = radio
    BY <1>15 DEF KioskPass, LateJoin, Pass, LoseDown, LoseUp, FormPosted, ConsoleCommand, vars
  <2>. QED
    BY <2>1, SameEvents
<1>16. CASE KioskReboots \/ PowerCut \/ ModemRestarts \/ ConsoleModemReset
  <2>1. m' = ModemBoot(m.session + 1) /\ ev' = <<>>
    BY <1>16 DEF KioskReboots, PowerCut, Restart, ModemRestarts, ConsoleModemReset
  <2>2. ~m'.self /\ m'.st = "down"
    BY <2>1 DEF ModemBoot
  <2>. QED
    BY <2>1, <2>2, NothingOwed
<1>17. CASE RoomChanges
  <2>1. /\ m' = m
        /\ \/ radio' = Idle /\ ev' = Append(ev, "disconnected")
           \/ UNCHANGED <<radio, ev>>
    BY <1>17 DEF RoomChanges
  <2>2. CASE radio' = Idle /\ ev' = Append(ev, "disconnected")
    BY <2>1, <2>2, OneMoreEvent DEF Happenings
  <2>3. CASE UNCHANGED <<radio, ev>>
    BY <2>1, <2>3, SameEvents
  <2>. QED
    BY <2>1, <2>2, <2>3
<1>. QED
  BY <1>1, <1>2, <1>3, <1>4, <1>5, <1>6, <1>7, <1>8, <1>9, <1>10, <1>11, <1>12, <1>13, <1>14, <1>15, <1>16, <1>17
     DEF Next, Receives, Events, Retries, Radio, Adverse

\* For an esp_wifi that raises a disconnect of its own before each new join, as net.c takes it to:
\* the modem never holds a station up whose network is lost, all events handled.
THEOREM LossIsNoticed ==
  ASSUME IdleDisconnects = {TRUE}
  PROVE  Spec => []LossNoticed
<1>1. Init => Losses
  <2>. SUFFICES ASSUME Init PROVE Losses
    OBVIOUS
  <2>1. ~m.self /\ m.st = "down" /\ \A i \in 1 .. Len(ev) : FALSE
    BY DEF Init, ModemBoot
  <2>. QED
    BY <2>1 DEF Losses, SelfPending, LossOwed
<1>2. Typed /\ Losses /\ [Next]_vars => Losses'
  BY LossesNext
<1>3. Losses => LossNoticed
  BY NoEvents DEF LossNoticed
<1>. QED
  BY <1>1, <1>2, <1>3, TypedAlways, PTL DEF Spec

-----------------------------------------------------------------------------
(***************************************************************************)
(* What the two sides know of each other, on a link that loses nothing.    *)
(***************************************************************************)
Agreed == StationTold(k, down) /\ ApTold(k, down) /\ StateTold(k, down, up)

\* Between two passes nothing waits in the kiosk.
LEMMA AgreedIsTold ==
  ASSUME Typed, Agreed
  PROVE  Told(k, up)
<1>1. down \o k.out = down
  BY Known
<1>. QED
  BY <1>1 DEF Agreed, Told

\* The modem handles the request at the head of the line.
LEMMA StationHandled ==
  ASSUME Typed, StationTold(k, down), down # <<>>, down' = Tail(down), k' = k, m'.session = m.session,
         IF ForStation(Head(down)) THEN IF Head(down).t = "connect" THEN m'.have = TRUE /\ m'.want = Head(down).ssid
                                        ELSE m'.have = FALSE
         ELSE m'.have = m.have /\ m'.want = m.want
  PROVE  StationTold(k, down)'
<1>1. /\ Head(down) = down[1] /\ Len(down') = Len(down) - 1 /\ Len(down) \in Nat \ {0}
      /\ \A i \in 1 .. Len(down') : down'[i] = down[i + 1]
  BY Known, HeadRequest
<1>2. \A i \in 2 .. Len(down) : i - 1 \in 1 .. Len(down') /\ down'[i - 1] = down[i]
  BY <1>1
<1>3. \A i \in 1 .. Len(down') : i + 1 \in 1 .. Len(down) /\ i + 1 > 1
  BY <1>1
<1>4. 1 \in 1 .. Len(down) /\ \A i \in 1 .. Len(down) : i = 1 \/ i \in 2 .. Len(down)
  BY <1>1
<1>5. k.wantSta \in BOOLEAN
  BY Known DEF Fit, Kiosk
<1>. DEFINE asks(i) == /\ LastForStation(down, i)
                       /\ k.wantSta => down[i] = Connect(k.sta)
                       /\ ~k.wantSta => down[i].t = "ap_start"
<1>6. CASE \E i \in 1 .. Len(down) : asks(i)
  <2>. HIDE DEF asks
  <2>0. PICK i \in 1 .. Len(down) : asks(i)
    BY <1>6
  <2>1. /\ LastForStation(down, i)
        /\ k.wantSta => down[i] = Connect(k.sta)
        /\ ~k.wantSta => down[i].t = "ap_start"
    BY <2>0 DEF asks
  <2>2. CASE i = 1
    <3>1. \A j \in 1 .. Len(down') : ~ForStation(down'[j])
      BY <1>1, <1>3, <2>1, <2>2 DEF LastForStation
    <3>2. ForStation(down[1])
      BY <2>1, <2>2 DEF LastForStation
    <3>3. m'.have = k.wantSta /\ (k.wantSta => m'.want = k.sta)
      <4>1. CASE k.wantSta
        <5>1. Connect(k.sta).t = "connect" /\ Connect(k.sta).ssid = k.sta
          BY DEF Connect, H
        <5>2. Head(down) = Connect(k.sta)
          BY <1>1, <2>1, <2>2, <4>1
        <5>. QED
          BY <1>1, <3>2, <4>1, <5>1, <5>2
      <4>2. CASE ~k.wantSta
        BY <1>1, <1>5, <2>1, <2>2, <3>2, <4>2
      <4>. QED
        BY <4>1, <4>2
    <3>. QED
      BY <3>1, <3>3 DEF StationTold
  <2>3. CASE i \in 2 .. Len(down)
    <3>1. i - 1 \in 1 .. Len(down') /\ down'[i - 1] = down[i]
      BY <1>2, <2>3
    <3>2. \A j \in 1 .. Len(down') : j > i - 1 => j + 1 > i
      BY <1>1
    <3>3. \A j \in 1 .. Len(down') : j > i - 1 => ~ForStation(down'[j])
      BY <1>1, <1>3, <2>1, <3>2 DEF LastForStation
    <3>4. ForStation(down'[i - 1])
      BY <2>1, <3>1 DEF LastForStation
    <3>. QED
      BY <2>1, <3>1, <3>3, <3>4 DEF StationTold, LastForStation
  <2>. QED
    BY <1>4, <2>2, <2>3
<1>7. CASE \A i \in 1 .. Len(down) : ~ForStation(down[i])
  <2>1. \A i \in 1 .. Len(down') : ~ForStation(down'[i])
    BY <1>1, <1>3, <1>7
  <2>2. ~ForStation(Head(down))
    BY <1>1, <1>4, <1>7
  <2>3. (m.have = k.wantSta /\ (k.wantSta => m.want = k.sta)) \/ (k.session # m.session /\ ~m.have)
    BY <1>7 DEF StationTold, LastForStation
  <2>. QED
    BY <2>1, <2>2, <2>3 DEF StationTold
<1>. QED
  BY <1>6, <1>7 DEF StationTold

LEMMA ApHandled ==
  ASSUME Typed, ApTold(k, down), down # <<>>, down' = Tail(down), k' = k, m'.session = m.session,
         m'.ap = IF ForAp(Head(down)) THEN Head(down).t = "ap_start" ELSE m.ap
  PROVE  ApTold(k, down)'
<1>1. /\ Head(down) = down[1] /\ Len(down') = Len(down) - 1 /\ Len(down) \in Nat \ {0}
      /\ \A i \in 1 .. Len(down') : down'[i] = down[i + 1]
  BY Known, HeadRequest
<1>2. \A i \in 2 .. Len(down) : i - 1 \in 1 .. Len(down') /\ down'[i - 1] = down[i]
  BY <1>1
<1>3. \A i \in 1 .. Len(down') : i + 1 \in 1 .. Len(down) /\ i + 1 > 1
  BY <1>1
<1>4. 1 \in 1 .. Len(down) /\ \A i \in 1 .. Len(down) : i = 1 \/ i \in 2 .. Len(down)
  BY <1>1
<1>5. k.wantAp \in BOOLEAN
  BY Known DEF Fit, Kiosk
<1>6. CASE \E i \in 1 .. Len(down) : LastForAp(down, i) /\ (k.wantAp <=> down[i].t = "ap_start")
  <2>1. PICK i \in 1 .. Len(down) : LastForAp(down, i) /\ (k.wantAp <=> down[i].t = "ap_start")
    BY <1>6
  <2>2. CASE i = 1
    <3>1. \A j \in 1 .. Len(down') : ~ForAp(down'[j])
      BY <1>1, <1>3, <2>1, <2>2 DEF LastForAp
    <3>2. ForAp(down[1])
      BY <2>1, <2>2 DEF LastForAp
    <3>3. m'.ap = k.wantAp
      BY <1>1, <1>5, <2>1, <2>2, <3>2
    <3>. QED
      BY <3>1, <3>3 DEF ApTold
  <2>3. CASE i \in 2 .. Len(down)
    <3>1. i - 1 \in 1 .. Len(down') /\ down'[i - 1] = down[i]
      BY <1>2, <2>3
    <3>2. \A j \in 1 .. Len(down') : j > i - 1 => j + 1 > i
      BY <1>1
    <3>3. \A j \in 1 .. Len(down') : j > i - 1 => ~ForAp(down'[j])
      BY <1>1, <1>3, <2>1, <3>2 DEF LastForAp
    <3>4. ForAp(down'[i - 1])
      BY <2>1, <3>1 DEF LastForAp
    <3>. QED
      BY <2>1, <3>1, <3>3, <3>4 DEF ApTold, LastForAp
  <2>. QED
    BY <1>4, <2>2, <2>3
<1>7. CASE \A i \in 1 .. Len(down) : ~ForAp(down[i])
  <2>1. \A i \in 1 .. Len(down') : ~ForAp(down'[i])
    BY <1>1, <1>3, <1>7
  <2>2. ~ForAp(Head(down))
    BY <1>1, <1>4, <1>7
  <2>3. m.ap = k.wantAp \/ (k.session # m.session /\ ~m.ap)
    BY <1>7 DEF ApTold, LastForAp
  <2>. QED
    BY <2>1, <2>2, <2>3 DEF ApTold
<1>. QED
  BY <1>6, <1>7 DEF ApTold

\* A state that is sent is the last that is on its way.
LEMMA StateSentIsTold ==
  ASSUME Typed, m'.st \in States, up' = up \o <<WifiState(m'.st)>>
  PROVE  StateTold(k, down, up)'
<1>. DEFINE g == WifiState(m'.st)
<1>1. g.t = "state" /\ g.st = m'.st /\ g \in Reports
  BY SentUp
<1>. HIDE DEF g
<1>2. Len(up \o <<g>>) = Len(up) + 1 /\ Len(up) \in Nat /\ (up \o <<g>>)[Len(up) + 1] = g
  BY <1>1, Known
<1>3. Len(up') = Len(up) + 1 /\ Len(up) \in Nat /\ up'[Len(up) + 1] = g
  BY <1>2 DEF g
<1>4. Len(up) + 1 \in 1 .. Len(up') /\ \A j \in 1 .. Len(up') : ~(j > Len(up) + 1)
  BY <1>3
<1>5. \E i \in 1 .. Len(up') : /\ up'[i].t = "state" /\ up'[i].st = m'.st
                               /\ \A j \in 1 .. Len(up') : j > i => up'[j].t # "state"
  BY <1>1, <1>3, <1>4
<1>. QED
  BY <1>5 DEF StateTold

\* Nothing is said of the state, which stays.
LEMMA StateStays ==
  ASSUME Typed, StateTold(k, down, up), k' = k, m'.st = m.st, m'.session = m.session,
         up' = up \/ \E g \in Reports : g.t # "state" /\ up' = up \o <<g>>,
         m.st = "up" /\ (\E i \in 1 .. Len(down) : ForStation(down[i])) => \E i \in 1 .. Len(down') : ForStation(down'[i])
  PROVE  StateTold(k, down, up)'
<1>. SUFFICES ASSUME k.session = m.session PROVE StateTold(k, down, up)'
  BY DEF StateTold
<1>1. /\ \A i \in 1 .. Len(up) : i \in 1 .. Len(up') /\ up'[i] = up[i]
      /\ \A i \in 1 .. Len(up') : i \in 1 .. Len(up) \/ up'[i].t # "state"
  <2>1. CASE up' = up
    BY <2>1
  <2>2. CASE \E g \in Reports : g.t # "state" /\ up' = up \o <<g>>
    <3>1. PICK g \in Reports : g.t # "state" /\ up' = up \o <<g>>
      BY <2>2
    <3>2. /\ Len(up \o <<g>>) = Len(up) + 1 /\ Len(up) \in Nat /\ (up \o <<g>>)[Len(up) + 1] = g
          /\ \A i \in 1 .. Len(up) : (up \o <<g>>)[i] = up[i]
      BY Known
    <3>3. \A i \in 1 .. Len(up') : i \in 1 .. Len(up) \/ i = Len(up) + 1
      BY <3>1, <3>2
    <3>. QED
      BY <3>1, <3>2, <3>3
  <2>. QED
    BY <2>1, <2>2
<1>2. CASE \E i \in 1 .. Len(up) : /\ up[i].t = "state" /\ up[i].st = m.st
                                   /\ \A j \in 1 .. Len(up) : j > i => up[j].t # "state"
  <2>1. \E i \in 1 .. Len(up') : /\ up'[i].t = "state" /\ up'[i].st = m'.st
                                 /\ \A j \in 1 .. Len(up') : j > i => up'[j].t # "state"
    BY <1>1, <1>2
  <2>. QED
    BY <2>1 DEF StateTold
<1>3. CASE /\ \A i \in 1 .. Len(up) : up[i].t # "state"
           /\ \/ k.wifi = "up" <=> m.st = "up"
              \/ /\ k.wifi # "up" /\ m.st = "up"
                 /\ ~k.wantSta \/ \E i \in 1 .. Len(down) : ForStation(down[i])
  <2>1. \A i \in 1 .. Len(up') : up'[i].t # "state"
    BY <1>1, <1>3
  <2>. QED
    BY <1>3, <2>1 DEF StateTold
<1>. QED
  BY <1>2, <1>3 DEF StateTold

\* The request that is handled is not for the station: those that are stay in line.
LEMMA OthersStay ==
  ASSUME Typed, down # <<>>, down' = Tail(down), ~ForStation(Head(down)),
         \E i \in 1 .. Len(down) : ForStation(down[i])
  PROVE  \E i \in 1 .. Len(down') : ForStation(down'[i])
<1>1. /\ Head(down) = down[1] /\ Len(down') = Len(down) - 1 /\ Len(down) \in Nat \ {0}
      /\ \A i \in 1 .. Len(down') : down'[i] = down[i + 1]
  BY Known, HeadRequest
<1>2. PICK i \in 1 .. Len(down) : ForStation(down[i])
  OBVIOUS
<1>3. i - 1 \in 1 .. Len(down') /\ (i - 1) + 1 = i
  BY <1>1, <1>2
<1>. QED
  BY <1>1, <1>2, <1>3

\* A step that changes neither what the modem wants nor its state.
LEMMA ModemQuiet ==
  ASSUME Typed, Agreed, down' = down,
         /\ k'.wantSta = k.wantSta /\ k'.sta = k.sta /\ k'.wantAp = k.wantAp /\ k'.session = k.session /\ k'.wifi = k.wifi,
         m'.have = m.have, m'.want = m.want, m'.ap = m.ap, m'.session = m.session, m'.st = m.st, up' = up
  PROVE  Agreed'
BY DEF Agreed, StationTold, ApTold, StateTold

LEMMA RequestsStay ==
  ASSUME Typed, Agreed, down' = down, k' = k, m'.have = m.have, m'.want = m.want, m'.ap = m.ap, m'.session = m.session
  PROVE  StationTold(k, down)' /\ ApTold(k, down)'
BY DEF Agreed, StationTold, ApTold

LEMMA StateFramesTold ==
  ASSUME Typed, Agreed, k' = k, m'.session = m.session, m'.st \in States, SendUp(StateFrames(m'.st)),
         m.st = "up" /\ m'.st = "up" => down' = down
  PROVE  StateTold(k, down, up)'
<1>1. up' = up \o StateFrames(m'.st)
  BY DEF SendUp
<1>2. CASE StateFrames(m'.st) = <<>> /\ m.st = m'.st /\ m'.st # "up"
  <2>1. up' = up
    BY <1>1, <1>2, Known
  <2>. QED
    BY <1>2, <2>1, StateStays DEF Agreed
<1>3. CASE StateFrames(m'.st) = <<WifiState(m'.st)>>
  BY <1>1, <1>3, StateSentIsTold
<1>. QED
  BY <1>2, <1>3, StateSent

LEMMA ReceivesAgreed ==
  ASSUME Typed, Agreed, Receives
  PROVE  Agreed'
<1>0. /\ m \in Modem /\ up \in Seq(Reports) /\ down \in Seq(Requests) /\ m.st \in States
      /\ StationTold(k, down) /\ ApTold(k, down) /\ StateTold(k, down, up)
  BY Known DEF Agreed, Modem
<1>1. CASE NetConnect
  <2>1. /\ down # <<>> /\ down' = Tail(down) /\ k' = k /\ Head(down).t = "connect"
        /\ m'.have = TRUE /\ m'.want = Head(down).ssid /\ m'.ap = m.ap /\ m'.session = m.session
        /\ m'.st = "connecting" /\ SendUp(StateFrames("connecting"))
    BY <1>0, <1>1 DEF NetConnect, Modem
  <2>2. ForStation(Head(down)) /\ ~ForAp(Head(down))
    BY <2>1 DEF ForStation, ForAp
  <2>3. StationTold(k, down)'
    BY <1>0, <2>1, <2>2, StationHandled
  <2>4. ApTold(k, down)'
    BY <1>0, <2>1, <2>2, ApHandled
  <2>5. StateTold(k, down, up)'
    BY <2>1, StateFramesTold DEF States
  <2>. QED
    BY <2>3, <2>4, <2>5 DEF Agreed
<1>2. CASE NetConnectJoin
  <2>1. /\ down' = down /\ up' = up /\ k' = k /\ m'.have = m.have /\ m'.want = m.want /\ m'.ap = m.ap
        /\ m'.session = m.session /\ m'.st = m.st
    BY <1>0, <1>2 DEF NetConnectJoin, Modem
  <2>. QED
    BY <2>1, ModemQuiet
<1>3. CASE NetApStart /\ Head(down).keep
  <2>1. /\ down # <<>> /\ down' = Tail(down) /\ k' = k /\ Head(down).t = "ap_start" /\ up' = up
        /\ m'.have = m.have /\ m'.want = m.want /\ m'.ap = TRUE /\ m'.session = m.session /\ m'.st = m.st
    BY <1>0, <1>3 DEF NetApStart, Modem
  <2>2. ~ForStation(Head(down)) /\ ForAp(Head(down))
    BY <1>3, <2>1 DEF ForStation, ForAp
  <2>3. StationTold(k, down)'
    BY <1>0, <2>1, <2>2, StationHandled
  <2>4. ApTold(k, down)'
    BY <1>0, <2>1, <2>2, ApHandled
  <2>5. StateTold(k, down, up)'
    BY <1>0, <2>1, <2>2, OthersStay, StateStays
  <2>. QED
    BY <2>3, <2>4, <2>5 DEF Agreed
<1>4. CASE NetApStart /\ ~Head(down).keep
  <2>1. /\ down # <<>> /\ down' = Tail(down) /\ k' = k /\ Head(down).t = "ap_start"
        /\ m'.have = FALSE /\ m'.ap = TRUE /\ m'.session = m.session
        /\ m'.st = "ap" /\ SendUp(StateFrames("ap"))
    BY <1>0, <1>4 DEF NetApStart, Modem
  <2>2. ForStation(Head(down)) /\ ForAp(Head(down))
    BY <1>4, <2>1 DEF ForStation, ForAp
  <2>3. StationTold(k, down)'
    BY <1>0, <2>1, <2>2, StationHandled
  <2>4. ApTold(k, down)'
    BY <1>0, <2>1, <2>2, ApHandled
  <2>5. StateTold(k, down, up)'
    BY <2>1, StateFramesTold DEF States
  <2>. QED
    BY <2>3, <2>4, <2>5 DEF Agreed
<1>5. CASE NetApStop
  <2>1. /\ down # <<>> /\ down' = Tail(down) /\ k' = k /\ Head(down).t = "ap_stop"
        /\ m'.have = m.have /\ m'.want = m.want /\ m'.ap = FALSE /\ m'.session = m.session
    BY <1>0, <1>5 DEF NetApStop, Modem
  <2>2. ~ForStation(Head(down)) /\ ForAp(Head(down))
    BY <2>1 DEF ForStation, ForAp
  <2>3. StationTold(k, down)'
    BY <1>0, <2>1, <2>2, StationHandled
  <2>4. ApTold(k, down)'
    BY <1>0, <2>1, <2>2, ApHandled
  <2>5. CASE m' = m /\ up' = up
    <3>1. StateTold(k, down, up)'
      BY <1>0, <2>1, <2>2, <2>5, OthersStay, StateStays
    <3>. QED
      BY <2>3, <2>4, <3>1 DEF Agreed
  <2>6. CASE m'.st # "up" /\ m'.st \in States /\ SendUp(StateFrames(m'.st))
    <3>1. StateTold(k, down, up)'
      BY <2>1, <2>6, StateFramesTold
    <3>. QED
      BY <2>3, <2>4, <3>1 DEF Agreed
  <2>. QED
    BY <1>0, <1>5, <2>5, <2>6 DEF NetApStop, Modem, States
<1>6. CASE NetScan
  <2>1. /\ down # <<>> /\ down' = Tail(down) /\ k' = k /\ Head(down).t = "scan"
        /\ m'.have = m.have /\ m'.want = m.want /\ m'.ap = m.ap /\ m'.session = m.session /\ m'.st = m.st
        /\ up' = up \/ up' = up \o <<ScanDone({})>>
    BY <1>0, <1>6 DEF NetScan, Modem, SendUp
  <2>2. ~ForStation(Head(down)) /\ ~ForAp(Head(down))
    BY <2>1 DEF ForStation, ForAp
  <2>3. StationTold(k, down)'
    BY <1>0, <2>1, <2>2, StationHandled
  <2>4. ApTold(k, down)'
    BY <1>0, <2>1, <2>2, ApHandled
  <2>5. ScanDone({}) \in Reports /\ ScanDone({}).t # "state"
    BY SentUp
  <2>6. StateTold(k, down, up)'
    BY <1>0, <2>1, <2>2, <2>5, OthersStay, StateStays
  <2>. QED
    BY <2>3, <2>4, <2>6 DEF Agreed
<1>. QED
  BY <1>1, <1>2, <1>3, <1>4, <1>5, <1>6 DEF Receives

LEMMA EventsAgreed ==
  ASSUME Typed, Agreed, Events \/ Retries \/ Radio
  PROVE  Agreed'
<1>0. /\ m \in Modem /\ up \in Seq(Reports) /\ down \in Seq(Requests) /\ m.st \in States
  BY Known DEF Modem
<1>1. CASE OnConnected \/ RetryFires \/ RadioLinks \/ RadioRefused \/ RadioGetsIp
  <2>1. /\ down' = down /\ up' = up /\ k' = k /\ m'.have = m.have /\ m'.want = m.want /\ m'.ap = m.ap
        /\ m'.session = m.session /\ m'.st = m.st
    BY <1>0, <1>1 DEF OnConnected, RetryFires, RadioLinks, RadioRefused, RadioGetsIp, Modem
  <2>. QED
    BY <2>1, ModemQuiet
<1>2. CASE OnDisconnected /\ m.self
  <2>1. /\ down' = down /\ up' = up /\ k' = k /\ m'.have = m.have /\ m'.want = m.want /\ m'.ap = m.ap
        /\ m'.session = m.session /\ m'.st = m.st
    BY <1>0, <1>2 DEF OnDisconnected, Modem
  <2>. QED
    BY <2>1, ModemQuiet
<1>3. CASE (OnDisconnected /\ ~m.self) \/ OnGotIp \/ RetryJoins
  <2>1. /\ down' = down /\ k' = k /\ m'.have = m.have /\ m'.want = m.want /\ m'.ap = m.ap /\ m'.session = m.session
        /\ m'.st \in {"down", "failed", "up", "connecting"} /\ SendUp(StateFrames(m'.st))
    BY <1>0, <1>3 DEF OnDisconnected, OnGotIp, RetryJoins, Modem
  <2>2. StateTold(k, down, up)'
    BY <2>1, StateFramesTold DEF States
  <2>. QED
    BY <2>1, <2>2, RequestsStay DEF Agreed
<1>4. CASE OnScanDone
  <2>. DEFINE seen == {s \in Ssids : room[s] \in {"here", "locked"}}
  <2>1. /\ down' = down /\ k' = k /\ m'.have = m.have /\ m'.want = m.want /\ m'.ap = m.ap
        /\ m'.session = m.session /\ m'.st = m.st
    BY <1>0, <1>4 DEF OnScanDone, Modem
  <2>2. up' = up \o <<ScanDone(seen)>> /\ ScanDone(seen) \in Reports /\ ScanDone(seen).t # "state"
    BY <1>4, SentUp DEF OnScanDone, SendUp
  <2>. HIDE DEF seen
  <2>3. StateTold(k, down, up)'
    BY <2>1, <2>2, StateStays DEF Agreed
  <2>. QED
    BY <2>1, <2>3, RequestsStay DEF Agreed
<1>. QED
  BY <1>1, <1>2, <1>3, <1>4 DEF Events, Retries, Radio

\* What a handler left true, its requests sent.
LEMMA ToldDelivered ==
  ASSUME NEW x, NEW u, Told(x, u), m' = m, down' = down \o x.out, up' = u,
         k'.wantSta = x.wantSta, k'.sta = x.sta, k'.wantAp = x.wantAp, k'.session = x.session, k'.wifi = x.wifi
  PROVE  Agreed'
BY DEF Told, Agreed, StationTold, ApTold, StateTold

LEMMA PassAgreed ==
  ASSUME Typed, Agreed, NEW due, Pass(due)
  PROVE  Agreed'
<1>. DEFINE x == MainLoop(k, up, due, "none", NoSsid)
            z == [x EXCEPT !.out = <<>>]
<1>1. k' = z /\ down' = down \o x.out /\ up' = <<>> /\ m' = m
  BY DEF Pass
<1>2. Passed(k, x, up)
  <2>1. "none" \in {"none", "wifi", "forget", "portal", "modem_reset"} /\ "none" \notin {"wifi", "forget"}
    OBVIOUS
  <2>2. Fit(k) /\ Attempted(k) /\ up \in Seq(Reports) /\ down \in Seq(Requests) /\ m \in Modem
    BY Known
  <2>. QED
    BY <2>1, <2>2, Passes
<1>. HIDE DEF x
<1>3. Told(x, <<>>) /\ Fit(x) /\ Attempted(x)
  BY <1>2, AgreedIsTold DEF Passed
<1>4. /\ z.session = x.session /\ z.wifi = x.wifi /\ z.wantSta = x.wantSta /\ z.sta = x.sta /\ z.wantAp = x.wantAp
  BY <1>3, Delivers
<1>. HIDE DEF z
<1>. QED
  BY <1>1, <1>3, <1>4, ToldDelivered

\* Two that have just started, or a kiosk that has not heard of the modem that has.
LEMMA FreshAgreed ==
  ASSUME down' = <<>>, ~m'.have, ~m'.ap, m'.st = "down", m'.have \in BOOLEAN, m'.ap \in BOOLEAN,
         \/ k'.session # m'.session
         \/ /\ up' = <<>> /\ k'.wifi = "down"
            /\ k'.wantSta \in BOOLEAN /\ ~k'.wantSta /\ k'.wantAp \in BOOLEAN /\ ~k'.wantAp
  PROVE  Agreed'
<1>1. (\A i \in 1 .. Len(down') : FALSE) /\ (up' = <<>> => \A i \in 1 .. Len(up') : FALSE)
  OBVIOUS
<1>. QED
  BY <1>1 DEF Agreed, StationTold, ApTold, StateTold

LEMMA FreshModem ==
  ASSUME NEW n \in Nat
  PROVE  /\ ModemBoot(n).have = FALSE /\ ModemBoot(n).ap = FALSE /\ ModemBoot(n).st = "down"
         /\ ModemBoot(n).session = n
BY DEF ModemBoot

LEMMA RestartAgreed ==
  ASSUME Typed, Restart(k.saved)
  PROVE  Agreed'
<1>. DEFINE n == m.session + 1
<1>1. n \in Nat /\ n # 0 /\ 0 \in Nat
  BY Known
<1>2. /\ (k' = Boot(k.saved, n) /\ up' = <<>>) \/ k' = Boot(k.saved, 0)
      /\ m' = ModemBoot(n) /\ down' = <<>>
  BY DEF Restart
<1>. HIDE DEF n
<1>3. m'.have = FALSE /\ m'.ap = FALSE /\ m'.st = "down" /\ m'.session = n
  BY <1>1, <1>2, FreshModem
<1>4. CASE k' = Boot(k.saved, n) /\ up' = <<>>
  <2>1. k'.wifi = "down" /\ k'.wantSta = FALSE /\ k'.wantAp = FALSE
    BY <1>4 DEF Boot
  <2>. QED
    BY <1>2, <1>3, <1>4, <2>1, FreshAgreed
<1>5. CASE k' = Boot(k.saved, 0)
  <2>1. k'.session = 0
    BY <1>5 DEF Boot
  <2>. QED
    BY <1>1, <1>2, <1>3, <2>1, FreshAgreed
<1>. QED
  BY <1>2, <1>4, <1>5

LEMMA CrashAgreed ==
  ASSUME Typed, k'.session = k.session, m' = ModemBoot(m.session + 1), down' = <<>>
  PROVE  Agreed'
<1>1. m.session + 1 \in Nat /\ k.session # m.session + 1
  BY Known
<1>2. m'.have = FALSE /\ m'.ap = FALSE /\ m'.st = "down" /\ m'.session = m.session + 1
  BY <1>1, FreshModem
<1>. QED
  BY <1>1, <1>2, FreshAgreed

LEMMA AgreedNext ==
  ASSUME "lose" \notin Faults, Typed, Agreed, [Next]_vars
  PROVE  Agreed'
<1>1. CASE KioskPass \/ LateJoin
  BY <1>1, PassAgreed DEF KioskPass, LateJoin
<1>2. CASE KioskReboots \/ PowerCut
  BY <1>2, RestartAgreed DEF KioskReboots, PowerCut
<1>3. CASE ModemRestarts
  BY <1>3, CrashAgreed DEF ModemRestarts
<1>4. CASE LoseDown \/ LoseUp
  BY <1>4 DEF LoseDown, LoseUp, Fault
<1>5. CASE RoomChanges \/ UNCHANGED vars
  <2>1. down' = down /\ up' = up /\ k' = k /\ m' = m
    BY <1>5 DEF RoomChanges, vars
  <2>. QED
    BY <2>1, ModemQuiet
<1>6. CASE FormPosted
  <2>1. PICK s \in Ssids : k' = [k EXCEPT !.posted = s] /\ UNCHANGED <<m, down, up>>
    BY <1>6 DEF FormPosted
  <2>2. k'.wantSta = k.wantSta /\ k'.sta = k.sta /\ k'.wantAp = k.wantAp /\ k'.session = k.session /\ k'.wifi = k.wifi
    BY <2>1, Known DEF Fit, Kiosk
  <2>. QED
    BY <2>1, <2>2, ModemQuiet
<1>7. CASE ConsoleCommand
  <2>1. PICK cmd \in {"wifi", "forget", "portal"}, s \in Ssids :
           LET x == MainLoop(k, <<>>, {}, cmd, s) IN
           k' = [x EXCEPT !.out = <<>>] /\ down' = down \o x.out
    BY <1>7 DEF ConsoleCommand
  <2>. DEFINE x == MainLoop(k, <<>>, {}, cmd, s)
              z == [x EXCEPT !.out = <<>>]
  <2>2. /\ z.session = k.session /\ z.wifi = x.wifi /\ z.wantSta = x.wantSta /\ z.sta = x.sta /\ z.wantAp = x.wantAp
        /\ Keeps(k, x, up)
    <3>1. Commanded(x, z)
      BY CommandTyped
    <3>. HIDE DEF x, z
    <3>. QED
      BY <3>1 DEF Commanded
  <2>3. k' = z /\ down' = down \o x.out /\ UNCHANGED <<m, up>>
    BY <1>7, <2>1 DEF ConsoleCommand
  <2>. HIDE DEF x, z
  <2>4. Told(x, up) /\ x.session = k.session
    BY <2>2, AgreedIsTold DEF Keeps
  <2>. QED
    BY <2>2, <2>3, <2>4, ToldDelivered
<1>8. CASE ConsoleModemReset
  <2>1. k'.session = k.session
    <3>1. Commanded(MainLoop(k, <<>>, {}, "modem_reset", NoSsid), k')
      BY <1>8, CommandTyped DEF ConsoleModemReset
    <3>. QED
      BY <3>1 DEF Commanded
  <2>. QED
    BY <1>8, <2>1, CrashAgreed DEF ConsoleModemReset
<1>. QED
  BY <1>1, <1>2, <1>3, <1>4, <1>5, <1>6, <1>7, <1>8, ReceivesAgreed, EventsAgreed DEF Next, Adverse

LEMMA AgreedInit == Init => Agreed
<1>. SUFFICES ASSUME Init PROVE Agreed
  OBVIOUS
<1>1. PICK n \in {0, 1} : k = Boot(Stored, n) /\ up = IF n = 0 THEN <<Hello(1)>> ELSE <<>>
  BY DEF Init
<1>2. m = ModemBoot(1) /\ down = <<>>
  BY DEF Init
<1>3. m.have = FALSE /\ m.ap = FALSE /\ m.st = "down" /\ m.session = 1
  BY <1>2 DEF ModemBoot
<1>4. k.session = n /\ k.wifi = "down" /\ k.wantSta = FALSE /\ k.wantAp = FALSE
  BY <1>1 DEF Boot
<1>5. (\A i \in 1 .. Len(down) : FALSE) /\ (n = 1 => \A i \in 1 .. Len(up) : FALSE)
  BY <1>1, <1>2
<1>. QED
  BY <1>1, <1>3, <1>4, <1>5 DEF Agreed, StationTold, ApTold, StateTold

LEMMA AgreedAlways ==
  ASSUME "lose" \notin Faults
  PROVE  Spec => []Agreed
<1>1. Typed /\ Agreed /\ [Next]_vars => Agreed'
  BY AgreedNext
<1>. QED
  BY <1>1, AgreedInit, TypedAlways, PTL DEF Spec

\* On a link that loses nothing, whatever crashes, resets, forms and commands come between: a modem
\* that has read all that was sent wants the network, and the access point, that the kiosk wants.
THEOREM SidesAgree ==
  ASSUME "lose" \notin Faults
  PROVE  Spec => []WantedAgrees
<1>1. Typed /\ Agreed => WantedAgrees
  <2>. SUFFICES ASSUME Typed, Agreed, k.session = m.session, down = <<>>
                PROVE  m.have = k.wantSta /\ m.ap = k.wantAp /\ (k.wantSta => m.want = k.sta)
    BY DEF WantedAgrees, SameModem
  <2>1. \A i \in 1 .. Len(down) : FALSE
    OBVIOUS
  <2>2. m.have = k.wantSta /\ (k.wantSta => m.want = k.sta)
    BY <2>1 DEF Agreed, StationTold
  <2>3. m.ap = k.wantAp
    BY <2>1 DEF Agreed, ApTold
  <2>. QED
    BY <2>2, <2>3
<1>. QED
  BY <1>1, TypedAlways, AgreedAlways, PTL

\* ... and once what the modem said is read too, a kiosk that wants the station takes it to be up
\* exactly when the modem does.
THEOREM StateIsKnown ==
  ASSUME "lose" \notin Faults
  PROVE  Spec => []StateAgrees
<1>1. Agreed => StateAgrees
  <2>. SUFFICES ASSUME Agreed, k.session = m.session, k.wantSta, down = <<>>, up = <<>>
                PROVE  k.wifi = "up" <=> m.st = "up"
    BY DEF StateAgrees, SameModem
  <2>1. (\A i \in 1 .. Len(down) : FALSE) /\ (\A i \in 1 .. Len(up) : FALSE)
    OBVIOUS
  <2>. QED
    BY <2>1 DEF Agreed, StateTold
<1>. QED
  BY <1>1, AgreedAlways, PTL

=============================================================================
