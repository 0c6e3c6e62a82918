------------------------------ MODULE WifiJoin ------------------------------
(***************************************************************************)
(* Finding and keeping a network on the modem build.  Three programs and a *)
(* radio:                                                                  *)
(*   - the kiosk: the join manager of src/src/pico/kiosk_loop.c, the       *)
(*     requests net_modem.c remembers, the setup access point and the      *)
(*     scans of provision.c, the network list of flash_store.c;            *)
(*   - the modem: src/modem/main/net.c, whose handlers run on three tasks: *)
(*     the link's receive task, the event task, which preempts it, and the *)
(*     timer task, which both preempt;                                     *)
(*   - the link between them, in order both ways, which may lose frames;   *)
(*   - esp_wifi and the room, as net.c sees them (external).               *)
(* The kiosk's main loop is single threaded: one pass of it is one action, *)
(* made of the handlers main() calls in their order.  Handlers are         *)
(* functions of the kiosk's memory; what they send collects in its out.    *)
(* Which timers have run out is a choice of the pass.                      *)
(***************************************************************************)
EXTENDS Integers, SequencesExt

CONSTANTS
    Ssids,               \* names of networks
    NoSsid,              \* no name
    Rssi,                \* signal strength of each network where the kiosk stands
    Stored,              \* the list in flash at the first power-on
    Rooms,               \* what a network may be to the kiosk: some of RoomKinds
    KIOSK_MAX_NETWORKS,
    Faults,              \* which of the adverse events below may happen
    MaxFaults,           \* bound: how many of them
    MaxUp, MaxDown,      \* bound: frames unread when the modem or the kiosk does more by itself
    IdleDisconnects      \* may esp_wifi_disconnect() with nothing to disconnect raise the event?

\* A network that is out of range, accepts, accepts but does not announce itself, refuses.
RoomKinds == {"away", "here", "hidden", "locked"}

ASSUME NetworksAssumption ==
    /\ NoSsid \notin Ssids /\ KIOSK_MAX_NETWORKS \in Nat \ {0}
    /\ Rssi \in [Ssids -> Int] /\ IsInjective(Rssi)
    /\ Stored \in Seq(Ssids) /\ IsInjective(Stored) /\ Len(Stored) <= KIOSK_MAX_NETWORKS
    /\ Rooms \subseteq RoomKinds
ASSUME ChoicesAssumption == IdleDisconnects \subseteq BOOLEAN
ASSUME JoinBoundsAssumption == MaxFaults \in Nat /\ MaxUp \in Nat /\ MaxDown \in Nat

VARIABLES
    k,       \* the kiosk: see Boot
    m,       \* the modem: see ModemBoot
    radio,   \* esp_wifi's station: idle, joining, linked, or with an address ("ip"), and to whom
    ev,      \* events esp_wifi posted and net.c has not handled
    down,    \* frames from the kiosk to the modem
    up,      \* frames from the modem to the kiosk
    room,    \* what each network is to the kiosk
    faults   \* adverse events so far

vars == <<k, m, radio, ev, down, up, room, faults>>

-----------------------------------------------------------------------------
(***************************************************************************)
(* Frames.                                                                 *)
(***************************************************************************)
H(t, ssid, keep) == [t |-> t, ssid |-> ssid, keep |-> keep]
Connect(s) == H("connect", s, FALSE)
ApStart(keep) == H("ap_start", NoSsid, keep)
ApStop == H("ap_stop", NoSsid, FALSE)
Scan == H("scan", NoSsid, FALSE)

M(t, st, n, seen) == [t |-> t, st |-> st, n |-> n, seen |-> seen]
WifiState(st) == M("state", st, 0, {})
Hello(n) == M("hello", "down", n, {})
\* The M_SCAN_RESULT frames of a scan and the M_SCAN_DONE after them.
ScanDone(S) == M("scanned", "down", 0, S)

(***************************************************************************)
(* The kiosk.  nets: the list in RAM; saved: in flash; dirty: a save is    *)
(* due.  attempt: attempt_index, from 1, 0 for none.  fallback:            *)
(* fallback_ap.  failing: consecutive_failures is not 0.  active: the      *)
(* portal.  wifi, wantSta, sta, wantAp, keep: net_modem.c's state,         *)
(* want_sta, sta_ssid, want_ap and ap_keep_station.  session: the modem's  *)
(* boot id it has configured.  requested, running, sightings: the scan.    *)
(* posted: a form waits to be saved.  reboot: reboot_at_ms is set.         *)
(***************************************************************************)
Boot(nets, n) ==
    [state |-> "boot", nets |-> nets, saved |-> nets, dirty |-> FALSE,
     attempt |-> 0, fallback |-> FALSE, failing |-> FALSE, active |-> FALSE,
     wifi |-> "down", wantSta |-> FALSE, sta |-> NoSsid, wantAp |-> FALSE, keep |-> FALSE, session |-> n,
     requested |-> FALSE, running |-> FALSE, sightings |-> {},
     posted |-> NoSsid, reboot |-> FALSE, out |-> <<>>]

Send(x, f) == [x EXCEPT !.out = Append(@, f)]

-----------------------------------------------------------------------------
(***************************************************************************)
(* flash_store.c: the list of networks, most recently joined first.        *)
(***************************************************************************)
NetFind(nets, s) == IF s \in ToSet(nets) THEN CHOOSE i \in DOMAIN nets : nets[i] = s ELSE 0

NetPromote(nets, i) == IF i <= 1 THEN nets ELSE <<nets[i]>> \o RemoveAt(nets, i)

\* A known network moves to the front; a full list loses its last.
NetAdd(nets, s) ==
    IF NetFind(nets, s) # 0 THEN NetPromote(nets, NetFind(nets, s))
    ELSE SubSeq(<<s>> \o nets, 1, IF Len(nets) < KIOSK_MAX_NETWORKS THEN Len(nets) + 1 ELSE KIOSK_MAX_NETWORKS)

NetForget(nets, s) == RemoveAt(nets, NetFind(nets, s))

ConfigSave(x) == [x EXCEPT !.saved = x.nets, !.dirty = FALSE]

(***************************************************************************)
(* net_modem.c.                                                            *)
(***************************************************************************)
WifiConnect(x, s) ==
    Send([x EXCEPT !.sta = s, !.wantSta = TRUE, !.wifi = "connecting"], Connect(s))

WifiStartAp(x, keep) ==
    LET a == [x EXCEPT !.wantAp = TRUE, !.keep = keep] IN
    Send(IF keep THEN a ELSE [a EXCEPT !.wantSta = FALSE, !.wifi = "ap"], ApStart(keep))

WifiStopAp(x) ==
    Send([x EXCEPT !.wantAp = FALSE, !.keep = FALSE, !.wifi = IF @ = "ap" THEN "down" ELSE @], ApStop)

\* The last frame of a type, as a set of at most one.
Latest(frames, t) ==
    LET is(i) == frames[i].t = t IN
    {frames[i] : i \in {j \in DOMAIN frames : is(j) /\ \A l \in DOMAIN frames : l > j => ~is(l)}}

\* What the frames of a pass say: the last state, the last session, and all that scans have seen.
Receive(x, frames) ==
    LET one(S) == CHOOSE f \in S : TRUE
        states == Latest(frames, "state")
        hellos == Latest(frames, "hello")
        scans == {i \in DOMAIN frames : frames[i].t = "scanned"}
    IN [x EXCEPT !.wifi = IF states = {} THEN @ ELSE one(states).st,
                 !.session = IF hellos = {} THEN @ ELSE one(hellos).n,
                 !.sightings = @ \cup UNION {frames[i].seen : i \in scans},
                 !.running = @ /\ scans = {}]

\* Mutant: only the station is asked for again, as without a setup access point.
ReplayStation(x) ==
    LET fresh == [x EXCEPT !.wifi = "down", !.running = FALSE] IN
    IF x.wantSta THEN Send([fresh EXCEPT !.wifi = "connecting"], Connect(x.sta)) ELSE fresh

\* A modem that restarted knows nothing: tell it again.
Replay(x) ==
    LET fresh == [x EXCEPT !.wifi = "down", !.running = FALSE]
        ap == IF x.wantAp THEN Send(fresh, ApStart(x.keep)) ELSE fresh
    IN IF x.wantSta THEN Send([ap EXCEPT !.wifi = "connecting"], Connect(x.sta)) ELSE ap

NetWifiPoll(x, frames) ==
    LET heard == Receive(x, frames) IN
    IF heard.session = x.session THEN heard ELSE Replay(heard)

(***************************************************************************)
(* provision.c: the portal and its access point.                           *)
(***************************************************************************)
ProvisionStart(x, keep) ==
    IF x.active THEN x ELSE [WifiStartAp(x, keep) EXCEPT !.active = TRUE, !.requested = TRUE]

ProvisionStop(x) == IF x.active THEN [WifiStopAp(x) EXCEPT !.active = FALSE] ELSE x

-----------------------------------------------------------------------------
(***************************************************************************)
(* kiosk_loop.c.  due: the timers that have run out in this pass, and what *)
(* else the pass finds.                                                    *)
(***************************************************************************)
BestKnownInRange(x) ==
    LET known == {i \in DOMAIN x.nets : x.nets[i] \in x.sightings} IN
    IF known = {} THEN 0
    ELSE CHOOSE i \in known : \A j \in known : Rssi[x.nets[j]] <= Rssi[x.nets[i]]

\* Mutant: the index into the old list is kept.
JoinResetNot(x) == x

JoinReset(x) == [x EXCEPT !.attempt = 0]

JoinBeginAttempt(x, i) == WifiConnect([x EXCEPT !.attempt = i], x.nets[i])

JoinSucceeded(x) ==
    LET ordered == IF x.attempt > 1
                   THEN [x EXCEPT !.nets = NetPromote(@, x.attempt), !.dirty = TRUE] ELSE x
        found == [ordered EXCEPT !.attempt = 0]
    IN IF x.fallback THEN [ProvisionStop(found) EXCEPT !.fallback = FALSE] ELSE found

\* Ask for a scan between attempts.
JoinScan(x, due) ==
    IF x.wifi # "connecting" /\ ~x.running /\ "scan" \in due THEN [x EXCEPT !.requested = TRUE] ELSE x

\* Mutant: the first attempt is waited for as long as it takes.
JoinAttemptOnce(x, due) ==
    LET want == BestKnownInRange(x) IN
    IF x.attempt # 0 THEN x ELSE JoinBeginAttempt(x, IF want = 0 THEN 1 ELSE want)

JoinAttempt(x, due) ==
    LET want == BestKnownInRange(x)
        next == IF x.attempt = 0 THEN 1 ELSE (x.attempt % Len(x.nets)) + 1
    IN IF x.attempt # 0 /\ "attempt" \notin due THEN x
       ELSE JoinBeginAttempt(x, IF want = 0 THEN next ELSE want)

JoinFallback(x, due) ==
    IF ~x.fallback /\ "fallback" \in due THEN ProvisionStart([x EXCEPT !.fallback = TRUE], TRUE) ELSE x

\* One step of the search; the kiosk polls once the station is up.
JoinPoll(x, due) ==
    IF x.wifi = "up" THEN [JoinSucceeded(x) EXCEPT !.state = "poll"]
    ELSE IF x.nets = <<>> THEN x
    ELSE JoinFallback(JoinAttempt(JoinScan(x, due), due), due)

\* Take the access point down when polls work again; put it up with a diagnosis.
NetcheckPoll(x, due) ==
    LET quiet == IF x.fallback /\ ~x.failing /\ "busy" \notin due
                 THEN [ProvisionStop(x) EXCEPT !.fallback = FALSE] ELSE x
    IN IF quiet.failing /\ "no_route" \in due /\ ~quiet.fallback
       THEN ProvisionStart([quiet EXCEPT !.fallback = TRUE], TRUE) ELSE quiet

\* A poll the server answers ends the failures, one it does not answer adds to them.
PollServer(x, due) ==
    CASE "answered" \in due -> [x EXCEPT !.failing = FALSE]
      [] "failed" \in due -> [x EXCEPT !.failing = TRUE]
      [] OTHER -> x

KioskLoopPoll(x, due) ==
    CASE x.state = "boot" ->
            IF x.nets = <<>> THEN [ProvisionStart(x, FALSE) EXCEPT !.state = "provision"]
            ELSE [JoinReset(x) EXCEPT !.state = "wifi_wait"]
      [] x.state = "provision" -> x
      [] x.state = "wifi_wait" -> JoinPoll(x, due)
      [] x.state = "poll" ->
            LET n == NetcheckPoll(x, due) IN
            IF n.wifi # "up" THEN [JoinReset(n) EXCEPT !.state = "wifi_wait"] ELSE PollServer(n, due)

KioskLoopRestart(x) ==
    [ProvisionStop([x EXCEPT !.fallback = FALSE, !.failing = FALSE]) EXCEPT !.state = "boot"]

(***************************************************************************)
(* provision.c and flash_store.c: the other polls of the main loop, and    *)
(* the console.                                                            *)
(***************************************************************************)
SavePosted(x) ==
    IF x.posted = NoSsid \/ x.reboot THEN x
    ELSE [ConfigSave([x EXCEPT !.nets = NetAdd(@, x.posted)]) EXCEPT !.reboot = TRUE]

\* A request made during a scan is served by it.  (The 8 s scans are kept apart are taken to be over.)
StartScan(x) ==
    IF ~x.requested THEN x
    ELSE IF x.running THEN [x EXCEPT !.requested = FALSE]
    ELSE Send([x EXCEPT !.requested = FALSE, !.sightings = {}, !.running = TRUE], Scan)

ProvisionPoll(x) == LET s == SavePosted(x) IN IF s.reboot THEN s ELSE StartScan(s)

ApplyAndRestart(x) == KioskLoopRestart(ProvisionStop(ConfigSave(x)))

ConsoleExec(x, cmd, s) ==
    CASE cmd = "none" -> x
      [] cmd = "wifi" -> ApplyAndRestart([x EXCEPT !.nets = NetAdd(@, s)])
      [] cmd = "forget" -> IF NetFind(x.nets, s) = 0 THEN x
                           ELSE ApplyAndRestart([x EXCEPT !.nets = NetForget(@, s)])
      [] cmd = "portal" -> ProvisionStart(x, FALSE)
      [] cmd = "modem_reset" -> KioskLoopRestart(x)

\* The grace period of a reboot is over before a change made in it would be saved.
ConfigPoll(x, due) == IF x.dirty /\ ~x.reboot /\ "quiet" \in due THEN ConfigSave(x) ELSE x

MainLoop(x, frames, due, cmd, s) ==
    LET heard == NetWifiPoll(x, frames)
        looped == KioskLoopPoll(heard, due)
        polled == ProvisionPoll(looped)
    IN ConfigPoll(ConsoleExec(polled, cmd, s), due)

-----------------------------------------------------------------------------
(***************************************************************************)
(* The modem.  st: state; want, have: want_ssid and have_creds; ap: ap_on; *)
(* self: self_disconnect; armed: the retry timer runs; firing: retry_cb    *)
(* has passed its test; joining: net_connect is half way; scanning: a scan *)
(* was started.  It keeps nothing over a restart.                          *)
(***************************************************************************)
ModemBoot(n) ==
    [st |-> "down", want |-> NoSsid, have |-> FALSE, ap |-> FALSE, self |-> FALSE,
     armed |-> FALSE, firing |-> FALSE, joining |-> FALSE, scanning |-> FALSE, session |-> n]

Idle == [sta |-> "idle", ssid |-> NoSsid]

\* set_state: what is sent about it.  UP is sent again (the address may be new).
StateFrames(st) == IF m.st = st /\ st # "up" THEN <<>> ELSE <<WifiState(st)>>

SendUp(frames) == up' = up \o frames

\* Bound: nothing happens by itself while MaxUp frames wait for the kiosk.
UpHasRoom == Len(up) < MaxUp

\* esp_wifi_connect(): nothing, unless the station is idle.
EspConnect(r, s) == IF r.sta = "idle" THEN [sta |-> "joining", ssid |-> s] ELSE r

\* The event task preempts the other two, the receive task the timer task.
ReceiveTask == ev = <<>>
TimerTask == ev = <<>> /\ ~m.joining

\* net_connect, up to the new state.
NetConnect ==
    /\ ReceiveTask /\ ~m.joining /\ down # <<>> /\ Head(down).t = "connect"
    /\ m' = [m EXCEPT !.want = Head(down).ssid, !.have = TRUE, !.armed = FALSE,
                      !.st = "connecting", !.joining = TRUE]
    /\ SendUp(StateFrames("connecting"))
    /\ down' = Tail(down)
    /\ UNCHANGED <<k, radio, ev, room, faults>>

\* The rest of net_connect: leave whatever the station is doing, and join.
NetConnectJoin ==
    /\ ReceiveTask /\ m.joining
    /\ m' = [m EXCEPT !.self = TRUE, !.joining = FALSE]
    /\ \E raises \in IF radio.sta = "idle" THEN IdleDisconnects ELSE {TRUE} :
          ev' = IF raises THEN Append(ev, "disconnected") ELSE ev
    /\ radio' = EspConnect(Idle, m.want)
    /\ UNCHANGED <<k, down, up, room, faults>>

NetApStart ==
    /\ ReceiveTask /\ ~m.joining /\ down # <<>> /\ Head(down).t = "ap_start"
    /\ \/ /\ Head(down).keep
          /\ m' = [m EXCEPT !.ap = TRUE]
          /\ radio' = IF m.have THEN EspConnect(radio, m.want) ELSE radio
          /\ UNCHANGED up
       \/ /\ ~Head(down).keep
          /\ m' = [m EXCEPT !.ap = TRUE, !.have = FALSE, !.armed = FALSE, !.st = "ap"]
          /\ SendUp(StateFrames("ap"))
          /\ UNCHANGED radio
    /\ down' = Tail(down)
    /\ UNCHANGED <<k, ev, room, faults>>

\* Mutant: the new state is not sent.
NetApStopSilent ==
    /\ ReceiveTask /\ ~m.joining /\ down # <<>> /\ Head(down).t = "ap_stop"
    /\ \/ ~m.ap /\ UNCHANGED m
       \/ m.ap /\ m' = [m EXCEPT !.ap = FALSE, !.st = IF m.have THEN "connecting" ELSE "down"]
    /\ down' = Tail(down)
    /\ UNCHANGED <<k, radio, ev, up, room, faults>>

NetApStop ==
    /\ ReceiveTask /\ ~m.joining /\ down # <<>> /\ Head(down).t = "ap_stop"
    /\ \/ ~m.ap /\ UNCHANGED <<m, up>>
       \/ LET st == IF m.have THEN "connecting" ELSE "down" IN
          m.ap /\ m' = [m EXCEPT !.ap = FALSE, !.st = st] /\ SendUp(StateFrames(st))
    /\ down' = Tail(down)
    /\ UNCHANGED <<k, radio, ev, room, faults>>

\* A station in the middle of a join does not scan: the answer is that the scan is over.
NetScan ==
    /\ ReceiveTask /\ ~m.joining /\ down # <<>> /\ Head(down).t = "scan"
    /\ \/ radio.sta = "joining" /\ SendUp(<<ScanDone({})>>) /\ UNCHANGED m
       \/ radio.sta # "joining" /\ m' = [m EXCEPT !.scanning = TRUE] /\ UNCHANGED up
    /\ down' = Tail(down)
    /\ UNCHANGED <<k, radio, ev, room, faults>>

\* retry_cb: the test, then the join.
RetryFires ==
    /\ TimerTask /\ m.armed /\ UpHasRoom
    /\ m' = [m EXCEPT !.armed = FALSE, !.firing = m.have /\ m.st # "up"]
    /\ UNCHANGED <<k, radio, ev, down, up, room, faults>>

RetryJoins ==
    /\ TimerTask /\ m.firing
    /\ m' = [m EXCEPT !.firing = FALSE, !.st = "connecting"]
    /\ SendUp(StateFrames("connecting"))
    /\ radio' = EspConnect(radio, m.want)
    /\ UNCHANGED <<k, ev, down, room, faults>>

\* on_wifi and on_ip.
OnConnected ==
    /\ ev # <<>> /\ Head(ev) = "connected"
    /\ m' = [m EXCEPT !.armed = FALSE]
    /\ ev' = Tail(ev)
    /\ UNCHANGED <<k, radio, down, up, room, faults>>

\* Mutant: the flag stays set.
OnDisconnectedAgain ==
    /\ ev # <<>> /\ Head(ev) = "disconnected"
    /\ \/ m.self /\ UNCHANGED <<m, up>>
       \/ ~m.self /\ ~m.have /\ m' = [m EXCEPT !.st = "down"] /\ SendUp(StateFrames("down"))
       \/ ~m.self /\ m.have /\ m' = [m EXCEPT !.st = "failed", !.armed = TRUE]
                            /\ SendUp(StateFrames("failed"))
    /\ ev' = Tail(ev)
    /\ UNCHANGED <<k, radio, down, room, faults>>

OnDisconnected ==
    /\ ev # <<>> /\ Head(ev) = "disconnected"
    /\ \/ m.self /\ m' = [m EXCEPT !.self = FALSE] /\ UNCHANGED up
       \/ ~m.self /\ ~m.have /\ m' = [m EXCEPT !.st = "down"] /\ SendUp(StateFrames("down"))
       \/ ~m.self /\ m.have /\ m' = [m EXCEPT !.st = "failed", !.armed = TRUE]
                            /\ SendUp(StateFrames("failed"))
    /\ ev' = Tail(ev)
    /\ UNCHANGED <<k, radio, down, room, faults>>

OnGotIp ==
    /\ ev # <<>> /\ Head(ev) = "got_ip"
    /\ m' = [m EXCEPT !.st = "up"]
    /\ SendUp(StateFrames("up"))
    /\ ev' = Tail(ev)
    /\ UNCHANGED <<k, radio, down, room, faults>>

\* The networks that announce themselves.
OnScanDone ==
    /\ ReceiveTask /\ m.scanning /\ UpHasRoom
    /\ m' = [m EXCEPT !.scanning = FALSE]
    /\ SendUp(<<ScanDone({s \in Ssids : room[s] \in {"here", "locked"}})>>)
    /\ UNCHANGED <<k, radio, ev, down, room, faults>>

(***************************************************************************)
(* esp_wifi and the room.                                                  *)
(***************************************************************************)
Accepts(s) == room[s] \in {"here", "hidden"}

RadioLinks ==
    /\ radio.sta = "joining" /\ Accepts(radio.ssid) /\ UpHasRoom
    /\ radio' = [radio EXCEPT !.sta = "linked"] /\ ev' = Append(ev, "connected")
    /\ UNCHANGED <<k, m, down, up, room, faults>>

RadioRefused ==
    /\ radio.sta = "joining" /\ ~Accepts(radio.ssid) /\ UpHasRoom
    /\ radio' = Idle /\ ev' = Append(ev, "disconnected")
    /\ UNCHANGED <<k, m, down, up, room, faults>>

RadioGetsIp ==
    /\ radio.sta = "linked" /\ UpHasRoom
    /\ radio' = [radio EXCEPT !.sta = "ip"] /\ ev' = Append(ev, "got_ip")
    /\ UNCHANGED <<k, m, down, up, room, faults>>

-----------------------------------------------------------------------------
(***************************************************************************)
(* The kiosk's passes.                                                     *)
(***************************************************************************)
\* The join of an attempt is not under way: 20 s are enough for one that succeeds to be heard of.
Settled ==
    /\ ~m.joining /\ Connect(k.sta) \notin ToSet(down)
    /\ radio.sta # "linked" /\ ~(radio.sta = "joining" /\ Accepts(radio.ssid))
    /\ "got_ip" \notin ToSet(ev) /\ WifiState("up") \notin ToSet(up)

\* What a pass may find.  The search that ends in the access point begins with an attempt.
Searching == SUBSET ({"scan"} \cup (IF k.attempt # 0 THEN {"fallback"} ELSE {})
                              \cup (IF Settled THEN {"attempt"} ELSE {}))
Polling == {{}, {"answered"}, {"failed"}, {"no_route"}} \cup IF k.active THEN {{"busy"}, {"busy", "failed"}} ELSE {}
Findings ==
    {due \cup more : due \in CASE k.state = "wifi_wait" -> Searching
                              [] k.state = "poll" -> Polling
                              [] OTHER -> {{}},
                     more \in IF k.dirty THEN {{}, {"quiet"}} ELSE {{}}}

\* The pass reads all that has arrived: a frame that comes later is one that was sent later.
Pass(due) ==
    /\ Len(down) <= MaxDown
    /\ \E x \in {MainLoop(k, up, due, "none", NoSsid)} :
          k' = [x EXCEPT !.out = <<>>] /\ down' = down \o x.out
    /\ up' = <<>>
    /\ UNCHANGED <<m, radio, ev, room>>

KioskPass == (\E due \in Findings : Pass(due)) /\ UNCHANGED faults

\* What the first pass after a power-on or a reset finds: the modem, reset too, and its hello,
\* which may come after net_wifi_init has stopped waiting for it.
Restart(nets) ==
    LET n == m.session + 1 IN
    /\ \/ k' = Boot(nets, n) /\ up' = <<>>
       \/ k' = Boot(nets, 0) /\ up' = <<Hello(n)>>
    /\ m' = ModemBoot(n) /\ radio' = Idle /\ ev' = <<>> /\ down' = <<>>

\* do_reboot after a form was saved, at once or while the portal still answers.
KioskReboots ==
    /\ k.reboot /\ Restart(k.saved)
    /\ UNCHANGED <<room, faults>>

(***************************************************************************)
(* Adverse events, and people.                                             *)
(***************************************************************************)
Fault(kind) == kind \in Faults /\ faults < MaxFaults /\ faults' = faults + 1

PowerCut == Fault("power") /\ Restart(k.saved) /\ UNCHANGED room

\* The modem crashes: what it had not read is lost, what it had sent arrives.
ModemRestarts ==
    /\ Fault("crash")
    /\ m' = ModemBoot(m.session + 1) /\ radio' = Idle /\ ev' = <<>> /\ down' = <<>>
    /\ up' = Append(up, Hello(m.session + 1))
    /\ UNCHANGED <<k, room>>

LoseDown == Fault("lose") /\ down # <<>> /\ down' = Tail(down) /\ UNCHANGED <<k, m, radio, ev, up, room>>
LoseUp == /\ Fault("lose") /\ up # <<>> /\ Head(up).t # "hello"   \* a hello is sent ten times
          /\ up' = Tail(up) /\ UNCHANGED <<k, m, radio, ev, down, room>>

\* A join takes longer than the 20 s of an attempt.
LateJoin ==
    /\ Fault("slow") /\ k.state = "wifi_wait" /\ ~Settled
    /\ \E due \in Findings : Pass(due \cup {"attempt"})

\* A network, or the kiosk, moves; an access point changes its password.
RoomChanges == \E s \in Ssids : \E kind \in Rooms \ {room[s]} :
    /\ Fault("room")
    /\ room' = [room EXCEPT ![s] = kind]
    /\ IF radio.ssid = s /\ radio.sta \in {"linked", "ip"} /\ kind = "away"
       THEN radio' = Idle /\ ev' = Append(ev, "disconnected") ELSE UNCHANGED <<radio, ev>>
    /\ UNCHANGED <<k, m, down, up>>

\* Somebody joins the access point and sends the form.
FormPosted == \E s \in Ssids :
    /\ Fault("form") /\ k.active /\ m.ap /\ k.posted = NoSsid
    /\ k' = [k EXCEPT !.posted = s]
    /\ UNCHANGED <<m, radio, ev, down, up, room>>

\* A command on the console; not while a form is being saved.
ConsoleCommand == \E cmd \in {"wifi", "forget", "portal"}, s \in Ssids :
    /\ Fault(cmd) /\ k.posted = NoSsid
    /\ Len(down) <= MaxDown
    /\ LET x == MainLoop(k, <<>>, {}, cmd, s) IN
       k' = [x EXCEPT !.out = <<>>] /\ down' = down \o x.out
    /\ UNCHANGED <<m, radio, ev, up, room>>

\* `modem reset`: what the kiosk sends as it starts over finds nobody.
ConsoleModemReset ==
    /\ Fault("modem_reset") /\ k.posted = NoSsid
    /\ k' = [MainLoop(k, <<>>, {}, "modem_reset", NoSsid) EXCEPT !.out = <<>>]
    /\ m' = ModemBoot(m.session + 1) /\ radio' = Idle /\ ev' = <<>> /\ down' = <<>>
    /\ up' = <<Hello(m.session + 1)>>
    /\ UNCHANGED room

-----------------------------------------------------------------------------
Init ==
    /\ \E n \in {0, 1} : k = Boot(Stored, n) /\ up = IF n = 0 THEN <<Hello(1)>> ELSE <<>>
    /\ m = ModemBoot(1) /\ radio = Idle /\ ev = <<>> /\ down = <<>>
    /\ room \in [Ssids -> Rooms]
    /\ faults = 0

Receives == NetConnect \/ NetConnectJoin \/ NetApStart \/ NetApStop \/ NetScan
Events == OnConnected \/ OnDisconnected \/ OnGotIp
Retries == RetryFires \/ RetryJoins
Radio == RadioLinks \/ RadioRefused \/ RadioGetsIp \/ OnScanDone

Adverse == PowerCut \/ ModemRestarts \/ LoseDown \/ LoseUp \/ LateJoin \/ RoomChanges
           \/ FormPosted \/ ConsoleCommand \/ ConsoleModemReset

Next == KioskPass \/ KioskReboots \/ Receives \/ Events \/ Retries \/ Radio \/ Adverse

Spec == Init /\ [][Next]_vars

(***************************************************************************)
(* Fairness.  The loop runs for ever and reads all that has arrived; an    *)
(* attempt's time runs out; the modem's tasks run; a join that the network *)
(* accepts succeeds if it is begun again and again.  LoopMay and           *)
(* AttemptMay say when the two passes change something: what WF and SF     *)
(* would find with ENABLED, which is slow to evaluate for a whole pass.    *)
(***************************************************************************)
LoopMay == Len(down) <= MaxDown /\ (up # <<>> \/ k.state = "boot")
LoopRuns == LoopMay /\ KioskPass

AttemptMay == /\ Len(down) <= MaxDown /\ k.state = "wifi_wait" /\ k.nets # <<>> /\ Settled
              /\ JoinAttempt(k, {"attempt"}) # k
AttemptEnds == AttemptMay /\ (\E due \in Findings : "attempt" \in due /\ Pass(due)) /\ UNCHANGED faults

Fairness ==
    /\ []<>~LoopMay \/ []<><<LoopRuns>>_vars
    /\ <>[]~AttemptMay \/ []<><<AttemptEnds>>_vars
    /\ WF_vars(KioskReboots)
    /\ SF_vars(Receives) /\ WF_vars(Events) /\ SF_vars(RetryFires) /\ SF_vars(RetryJoins)
    /\ WF_vars(RadioRefused) /\ SF_vars(RadioLinks) /\ SF_vars(RadioGetsIp) /\ SF_vars(OnScanDone)

FairSpec == Spec /\ Fairness

-----------------------------------------------------------------------------
(***************************************************************************)
(* Properties.                                                             *)
(***************************************************************************)
TypeOK ==
    /\ k.state \in {"boot", "provision", "wifi_wait", "poll"}
    /\ \A list \in {k.nets, k.saved} :
          list \in Seq(Ssids) /\ IsInjective(list) /\ Len(list) <= KIOSK_MAX_NETWORKS
    /\ k.attempt \in 0 .. KIOSK_MAX_NETWORKS /\ k.out = <<>>
    /\ {k.wifi, m.st} \subseteq {"down", "connecting", "up", "failed", "ap"}
    /\ {k.sta, k.posted, m.want, radio.ssid} \subseteq Ssids \cup {NoSsid}
    /\ k.sightings \subseteq Ssids /\ k.session \in 0 .. m.session
    /\ {k.dirty, k.fallback, k.failing, k.active, k.wantSta, k.wantAp, k.keep, k.requested, k.running,
        k.reboot, m.have, m.ap, m.self, m.armed, m.firing, m.joining, m.scanning} \subseteq BOOLEAN
    /\ radio.sta \in {"idle", "joining", "linked", "ip"}
    /\ ToSet(ev) \subseteq {"connected", "disconnected", "got_ip"}
    /\ room \in [Ssids -> Rooms] /\ faults \in 0 .. MaxFaults

\* The modem the kiosk has configured is the modem that runs.
SameModem == k.session = m.session

\* On a link that loses nothing, once all is delivered the modem wants what the kiosk last asked
\* for, its crashes, the setup access point and console commands included: the same network, and
\* the access point up or not (net_modem.c replays both, net.c applies them one by one).
WantedAgrees ==
    SameModem /\ down = <<>> => /\ m.have = k.wantSta /\ m.ap = k.wantAp
                                /\ k.wantSta => m.want = k.sta

\* ... and while the kiosk wants the station it takes it to be up exactly when the modem does: no
\* request that overtakes an older state leaves the two with different answers for good.  (A station
\* it no longer wants may come up once more; a replay then forgets the state without asking.)
StateAgrees ==
    SameModem /\ k.wantSta /\ down = <<>> /\ up = <<>> => (k.wifi = "up" <=> m.st = "up")

\* attempt_index names, in a list that is reordered and edited under it, the network the modem was
\* asked for, so that the one that is promoted is one that was tried.
AttemptIsAsked ==
    k.state = "wifi_wait" /\ k.attempt # 0 =>
        k.attempt <= Len(k.nets) /\ (k.reboot \/ k.nets[k.attempt] = k.sta)

\* A known network that accepts the kiosk, and none that refuses it.
Reachable == LET known == ToSet(k.nets) IN
    (\E s \in known : Accepts(s)) /\ (\A s \in known : room[s] # "locked")

\* A kiosk that keeps standing where one of its networks accepts it, and none refuses it, comes to
\* poll, again and again: no order of attempts, retries, scans, access points, states that cross
\* requests and a modem that starts over keeps it searching for ever.
Joins == <>[]Reachable => []<>(k.state = "poll")

\* The modem does not hold a station up that has lost its network: of two disconnects in a row,
\* the one a new join causes and a real one, it swallows only the first.  (For an esp_wifi that
\* raises the event when there is nothing to disconnect, as net.c takes it to.)
LossNoticed == ev = <<>> /\ m.st = "up" => radio.sta # "idle"
=============================================================================
