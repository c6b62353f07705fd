--------------------------- MODULE ServerLifecycle ---------------------------
(***************************************************************************)
(* The life of the server process: main.go's runServer, Server.Start and   *)
(* Server.Stop, the listener of tcpx.Server and everything Stop waits for. *)
(* Start runs in its own goroutine, so Stop, called when the signal comes, *)
(* may find it anywhere; a failure in Start is log.Fatalf, which ends the  *)
(* process without cleaning up; and the process may be killed at any time. *)
(* The gateway is on (conf.Proxy) and so is the management API.            *)
(***************************************************************************)
EXTENDS GatewayNAT

CONSTANTS MaxConns,  \* bound on the connections
          Bounds     \* bounds that go together: boots, on the processes
                     \* started; conns, on the connections accepted;
                     \* failures, on the commands that fail quietly

ASSUME LifecycleAssumption ==
    /\ MaxConns \in Nat
    /\ Bounds \subseteq [boots : Nat, conns : 0 .. MaxConns, failures : Nat]

VARIABLES
    proc,        \* "up", or how the last process ended: "stopped", "crashed"
    boots,       \* processes that may still be started
    found,       \* the rules and ip_forward this process found
    start,       \* where Start is
    stop,        \* where Stop is
    cancelled,   \* s.ctx is cancelled; Stop has found s.cancel
    tun,         \* s.tun: "none", "open" or "closed"
    management,  \* s.management: "none", "serving", "shut" (down) or "ended"
    loops,       \* those of sweepDHCPLeases and tunToClients that run
    listener,    \* "none", "open" or "closed"
    conns        \* the connections, in the order they are accepted

memory  == << start, stop, cancelled, tun, management, loops, listener, conns >>
history == << proc, boots, found >>
vars    == << gateway, history, memory >>

Conns == 1 .. MaxConns

Starts == {"none", "init", "nat", "enable", "tcp", "management", "loops", "listen",
           "accept", "returned", "fatal"}
Stops  == {"none", "cancel", "close", "management", "peers", "nat", "disable", "tun", "wait"}

TypeOK ==
    /\ GatewayTypeOK
    /\ proc \in {"up", "stopped", "crashed"}
    /\ boots \in Nat
    /\ found \in [rules : [Rules -> 0 .. 2], ipForward : 0 .. 1]
    /\ start \in Starts
    /\ stop \in Stops
    /\ cancelled \in BOOLEAN
    /\ tun \in {"none", "open", "closed"}
    /\ management \in {"none", "serving", "shut", "ended"}
    /\ loops \in SUBSET {"sweep", "tun"}
    /\ listener \in {"none", "open", "closed"}
    /\ conns \in [Conns -> {"none", "handshake", "open", "closed", "ended"}]

Init ==
    /\ GatewayInit
    /\ start = "none" /\ stop = "none" /\ cancelled = FALSE
    /\ tun = "none" /\ management = "none" /\ loops = {} /\ listener = "none"
    /\ proc = "stopped"
    /\ \E b \in Bounds :
          /\ boots = b.boots /\ failures = b.failures
          /\ conns = [c \in Conns |-> IF c <= b.conns THEN "none" ELSE "ended"]
    /\ found = [rules |-> rules, ipForward |-> ipForward]

StartGoto(from, to) == proc = "up" /\ start = from /\ start' = to
StopGoto(from, to)  == proc = "up" /\ stop = from /\ stop' = to

-----------------------------------------------------------------------------
(* Processes begin and end.                                                *)

runServer ==
    /\ proc # "up" /\ boots > 0
    /\ proc' = "up"
    /\ boots' = boots - 1
    /\ found' = [rules |-> rules, ipForward |-> ipForward]
    /\ start' = "init"
    /\ cancelled' = FALSE
    /\ UNCHANGED << gateway, stop, tun, management, loops, listener, conns >>

\* What the process had in memory, its device and its sockets are gone.
ProcessEnds(how) ==
    /\ proc = "up"
    /\ proc' = how
    /\ gatewayProcessEnds
    /\ start' = "none" /\ stop' = "none"
    /\ tun' = "none" /\ management' = "none" /\ loops' = {} /\ listener' = "none"
    /\ conns' = [c \in Conns |-> IF conns[c] = "none" THEN "none" ELSE "ended"]
    /\ UNCHANGED << boots, found, cancelled >>

\* The process is killed, or a step of Start other than Enable fails:
\* log.Fatalf, which runs no deferred function and does not call Stop.
Killed == ProcessEnds("crashed")

-----------------------------------------------------------------------------
(* Start.                                                                  *)

\* initDHCP, then the device and its address.
initGatewayTun ==
    /\ StartGoto("init", "nat")
    /\ tun' = "open"
    /\ UNCHANGED << gateway, history, stop, cancelled, management, loops, listener, conns >>

EnableServerGatewayNAT ==
    /\ proc = "up"
    /\ \/ start = "nat" /\ enableBegin /\ start' = "enable"
       \/ start = "enable" /\ enableForward /\ UNCHANGED start
       \/ start = "enable" /\ enableRule /\ start' = IF natStep = 5 THEN "tcp" ELSE start
    /\ UNCHANGED << history, stop, cancelled, tun, management, loops, listener, conns >>

\* Enable fails and has released its lock when initGatewayTun returns to Start,
EnableServerGatewayNATFails ==
    /\ proc = "up" /\ start \in {"nat", "enable"}
    /\ enableFails
    /\ start' = "fatal"
    /\ UNCHANGED << history, stop, cancelled, tun, management, loops, listener, conns >>

\* which ends the process; Stop may have come in between.
logFatalf ==
    /\ start = "fatal"
    /\ ProcessEnds("crashed")

\* s.tcp, then s.ctx and s.cancel, which Stop reads.
initTCP ==
    /\ StartGoto("tcp", "management")
    /\ UNCHANGED << gateway, history, stop, cancelled, tun, management, loops, listener, conns >>

\* s.management, its listener and the goroutine that serves it.
initManagement ==
    /\ StartGoto("management", "loops")
    /\ management' = "serving"
    /\ UNCHANGED << gateway, history, stop, cancelled, tun, loops, listener, conns >>

startLoops ==
    /\ StartGoto("loops", "listen")
    /\ loops' = {"sweep", "tun"}
    /\ UNCHANGED << gateway, history, stop, cancelled, tun, management, listener, conns >>

\* ListenAndServe opens the listener even if Close has been called; or it
\* cannot, and Start returns while the process stays.
Listen ==
    /\ \/ StartGoto("listen", "accept") /\ listener' = "open"
       \/ StartGoto("listen", "returned") /\ UNCHANGED listener
    /\ UNCHANGED << gateway, history, stop, cancelled, tun, management, loops, conns >>

\* The goroutine that waits for ctx.Done and closes the listener.
closeOnDoneUnlessClosed ==
    /\ proc = "up" /\ cancelled /\ listener = "open"
    /\ stop \in {"none", "cancel", "close"}
    /\ listener' = "closed"
    /\ UNCHANGED << gateway, history, start, stop, cancelled, tun, management, loops, conns >>
closeOnDone ==
    /\ proc = "up" /\ cancelled /\ listener = "open"
    /\ listener' = "closed"
    /\ UNCHANGED << gateway, history, start, stop, cancelled, tun, management, loops, conns >>

Accept(c) ==
    /\ start = "accept" /\ listener = "open"
    /\ conns[c] = "none" /\ \A d \in 1 .. c - 1 : conns[d] # "none"
    /\ conns' = [conns EXCEPT ![c] = "handshake"]
    /\ UNCHANGED << gateway, history, start, stop, cancelled, tun, management, loops, listener >>

AcceptFails ==
    /\ listener = "closed"
    /\ StartGoto("accept", "returned")
    /\ UNCHANGED << gateway, history, stop, cancelled, tun, management, loops, listener, conns >>

-----------------------------------------------------------------------------
(* Connections and the goroutines Stop waits for.                          *)

ConnGoto(c, from, to) ==
    /\ conns[c] = from
    /\ conns' = [conns EXCEPT ![c] = to]
    /\ UNCHANGED << gateway, history, start, stop, cancelled, tun, management, loops, listener >>

handshakeFails(c) == ConnGoto(c, "handshake", "ended")

\* The peer is registered and its send loop started, also after Stop.
onTCPConnect(c) == ConnGoto(c, "handshake", "open")

\* Read fails and cleanupPeer closes the peer.
onTCPDisconnect(c) == ConnGoto(c, "open", "closed")

peerSendLoopEnds(c) == ConnGoto(c, "closed", "ended")

loopEnds(l) ==
    /\ l \in loops
    /\ cancelled \/ (l = "tun" /\ tun = "closed")
    /\ loops' = loops \ {l}
    /\ UNCHANGED << gateway, history, start, stop, cancelled, tun, management, listener, conns >>

managementEnds ==
    /\ management \in {"serving", "shut"}
    /\ management' = "ended"
    /\ UNCHANGED << gateway, history, start, stop, cancelled, tun, loops, listener, conns >>

\* A read or a write of the device fails: TUNTunnel closes itself.
tunFails ==
    /\ tun = "open"
    /\ tun' = "closed"
    /\ UNCHANGED << gateway, history, start, stop, cancelled, management, loops, listener, conns >>

-----------------------------------------------------------------------------
(* Stop.                                                                   *)

Stop ==
    /\ StopGoto("none", "cancel")
    /\ UNCHANGED << gateway, history, start, cancelled, tun, management, loops, listener, conns >>

\* s.cancel is called unless Start has not made it yet.
stopCancel ==
    /\ StopGoto("cancel", "close")
    /\ cancelled' = (start \in {"management", "loops", "listen", "accept", "returned"})
    /\ UNCHANGED << gateway, history, start, tun, management, loops, listener, conns >>

Close ==
    /\ StopGoto("close", "management")
    /\ listener' = IF listener = "open" THEN "closed" ELSE listener
    /\ UNCHANGED << gateway, history, start, cancelled, tun, management, loops, conns >>

shutdownManagementLeft ==
    /\ StopGoto("management", "peers")
    /\ UNCHANGED << gateway, history, start, cancelled, tun, management, loops, listener, conns >>
shutdownManagement ==
    /\ StopGoto("management", "peers")
    /\ management' = IF management = "serving" THEN "shut" ELSE management
    /\ UNCHANGED << gateway, history, start, cancelled, tun, loops, listener, conns >>

\* The peers registered now are closed.
closePeers ==
    /\ StopGoto("peers", "nat")
    /\ conns' = [c \in Conns |-> IF conns[c] = "open" THEN "closed" ELSE conns[c]]
    /\ UNCHANGED << gateway, history, start, cancelled, tun, management, loops, listener >>

DisableServerGatewayNAT ==
    /\ proc = "up"
    /\ \/ stop = "nat" /\ natStep = 0 /\ ~nat.active /\ stop' = "tun" /\ UNCHANGED gateway
       \/ stop = "nat" /\ disableBegin /\ stop' = "disable"
       \/ stop = "disable" /\ disableRule /\ UNCHANGED stop
       \/ stop = "disable" /\ disableForward /\ stop' = "tun"
    /\ UNCHANGED << history, start, cancelled, tun, management, loops, listener, conns >>

closeTun ==
    /\ StopGoto("tun", "wait")
    /\ tun' = IF tun = "open" THEN "closed" ELSE tun
    /\ UNCHANGED << gateway, history, start, cancelled, management, loops, listener, conns >>

\* What s.wg counts.
Running ==
    \/ loops # {}
    \/ management \in {"serving", "shut"}
    \/ \E c \in Conns : conns[c] \in {"open", "closed"}

\* wg.Wait returns, and main with it.
waitReturns ==
    /\ stop = "wait" /\ ~Running
    /\ ProcessEnds("stopped")

-----------------------------------------------------------------------------
StartStep ==
    \/ initGatewayTun \/ EnableServerGatewayNAT \/ initTCP \/ initManagement \/ startLoops
    \/ Listen \/ AcceptFails \/ EnableServerGatewayNATFails \/ logFatalf

StopStep ==
    \/ stopCancel \/ Close \/ shutdownManagement \/ closePeers \/ DisableServerGatewayNAT
    \/ closeTun \/ waitReturns

Next ==
    \/ runServer \/ Killed
    \/ StartStep \/ Stop \/ StopStep
    \/ closeOnDone \/ managementEnds \/ tunFails
    \/ \E l \in {"sweep", "tun"} : loopEnds(l)
    \/ \E c \in Conns : \/ Accept(c) \/ handshakeFails(c) \/ onTCPConnect(c)
                        \/ onTCPDisconnect(c) \/ peerSendLoopEnds(c)
    \/ EgressChanges /\ UNCHANGED << history, memory >>

\* Goroutines that can run do, commands end, and Shutdown gives up after
\* three seconds.  Nothing is assumed of clients, of signals or of failures.
Fairness ==
    /\ WF_vars(StartStep)
    /\ WF_vars(StopStep)
    /\ WF_vars(closeOnDone)
    /\ WF_vars(management = "shut" /\ managementEnds)
    /\ \A l \in {"sweep", "tun"} : WF_vars(loopEnds(l))
    /\ \A c \in Conns : WF_vars(peerSendLoopEnds(c))

Spec == Init /\ [][Next]_vars /\ Fairness

-----------------------------------------------------------------------------
(* Properties.                                                             *)

AsFound ==
    /\ \A r \in Rules : rules[r] <= found.rules[r]
    /\ ipForward = found.ipForward

\* Whenever nobody is in the middle of changing them, serverNATState and the
\* operating system agree, whichever earlier processes died in whichever of
\* their commands: active means that every rule is there, once, and packets are
\* forwarded, inactive that nothing is there that the process did not find.
\* (Excepted are a command whose failure nobody was told of, and a failing
\* Enable, which leaves what it has added until log.Fatalf and afterwards.  Nor
\* is it said that what the process found was as it should be: after a crash
\* ip_forward is found on.)
NatStateTruthful ==
    proc = "up" /\ natStep = 0 /\ ~failed /\ start # "fatal" =>
        IF nat.active
          THEN ipForward = 1 /\ \A kind \in Kinds : rules[Rule(kind, nat.egressIf)] = 1
          ELSE AsFound

\* A Stop that found the context Start makes leaves the machine as the process
\* found it, also when the default route has moved in the meantime, provided
\* no command failed; and if it has not moved, no rule is left at all, not even
\* of a process that crashed before.  (A Stop that comes earlier may overtake
\* Enable and leave its rules.)
StopRestores ==
    proc = "stopped" /\ cancelled /\ ~failed =>
        /\ AsFound
        /\ egress = FirstEgress => \A r \in Rules : rules[r] = 0

\* Once Start has begun to serve, Stop returns, unless a connection is open
\* whose handshake ended after Stop closed the peers.  (A Stop that overtakes
\* Start may wait for ever: it has not cancelled the context, or not shut down
\* the management API, which Start has made since.)
StopReturns ==
    (stop = "cancel" /\ start \in {"loops", "listen", "accept", "returned"}) ~>
        \/ proc # "up"
        \/ stop = "wait" /\ \E c \in Conns : conns[c] = "open"

\* A listener that is opened after Stop has closed the server (ListenAndServe
\* clears the closed flag) does not stay open.
ListenerEnds == cancelled ~> listener # "open"
=============================================================================
