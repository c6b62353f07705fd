----------------------------- MODULE VlanClient -----------------------------
(***************************************************************************)
(* The desktop client: vlan.Client on top of tcpx.Client.  Its goroutines  *)
(* are the one of main.go that calls Start and Stop, the transport (Run,   *)
(* connectAndServe and the callbacks it makes), the forwarder (tunToTCP)   *)
(* and the heartbeats.                                                     *)
(*                                                                         *)
(* Connections are numbered in the order they are opened; 0 is nil.  The   *)
(* client's own number n is the last one.  What the operating system and   *)
(* the server do is left to chance: dialling, writes, creating and         *)
(* configuring the TUN device and its routes may fail at any time.         *)
(***************************************************************************)
EXTENDS Integers, ProxyRouting

CONSTANTS IPs,       \* addresses the server may offer
          NoIP,      \* no address
          Proxy,     \* conf.Proxy
          MaxConns   \* bound on the connections that are opened

ASSUME ClientAssumption ==
    /\ NoIP \notin IPs
    /\ Proxy \in BOOLEAN
    /\ MaxConns \in Nat

VARIABLES
    ctl,        \* where the caller of Start and Stop is
    pc,         \* where the transport goroutine is
    cancelled,  \* ctx is cancelled
    closed,     \* tcpx.Client.closed
    conn,       \* tcpx.Client.conn
    n,          \* connections opened
    shut,       \* the connections closed at this end
    session,    \* clientSession
    offer,      \* the address of the OFFER being handled
    tun,        \* the device: "none" (c.tun is nil), "open" or "closed"
    tunAddrs,   \* the addresses it is configured with
    forwarder,  \* tunToTCP: "none" (not started), "running" or "ended"
    hold        \* the connection it is writing a packet to

vars == << ctl, pc, cancelled, closed, conn, n, shut, session, offer, tun,
           tunAddrs, routing, forwarder, hold >>
control == << ctl, cancelled, closed >>
device  == << tun, tunAddrs, routing >>
forward == << forwarder, hold >>

NoSession == [conn |-> 0, ready |-> FALSE, ip |-> NoIP]

\* starting, loop, dialing, returned, sleep, ended: in Run; connected,
\* greeting: in onTCPConnect; serving: in Read; offered, device, address,
\* routes, host, split, dns, apply: in handleVDHCP.
PCs == {"none", "starting", "loop", "dialing", "returned", "sleep", "ended", "connected",
        "greeting", "serving", "offered", "device", "address", "routes",
        "host", "split", "dns", "apply"}

TypeOK ==
    /\ ctl \in {"idle", "started", "cancel", "close", "wait", "stopped"}
    /\ pc \in PCs
    /\ cancelled \in BOOLEAN
    /\ closed \in BOOLEAN
    /\ n \in 0 .. MaxConns
    /\ conn \in {0, n}
    /\ shut \in SUBSET (1 .. n)
    /\ session \in [conn : 0 .. n, ready : BOOLEAN, ip : IPs \cup {NoIP}]
    /\ offer \in IPs \cup {NoIP}
    /\ tun \in {"none", "open", "closed"}
    /\ tunAddrs \in SUBSET IPs
    /\ RoutingTypeOK
    /\ forwarder \in {"none", "running", "ended"}
    /\ hold \in 0 .. n

Init ==
    /\ ctl = "idle" /\ pc = "none"
    /\ cancelled = FALSE /\ closed = FALSE
    /\ conn = 0 /\ n = 0 /\ shut = {}
    /\ session = NoSession /\ offer = NoIP
    /\ tun = "none" /\ tunAddrs = {} /\ RoutingInit
    /\ forwarder = "none" /\ hold = 0

Goto(from, to) == pc = from /\ pc' = to

\* The connection of the running handler is closed and Read is next.
GiveUp == shut' = shut \cup {n} /\ pc' = "serving"

-----------------------------------------------------------------------------
(* Start and Stop.                                                         *)

Start ==
    /\ ctl = "idle"
    /\ ctl' = "started"
    /\ pc' = "starting"
    /\ UNCHANGED << cancelled, closed, conn, n, shut, session, offer, device, forward >>

Stop ==
    /\ ctl = "started"
    /\ ctl' = "cancel"
    /\ session' = NoSession
    /\ UNCHANGED << pc, cancelled, closed, conn, n, shut, offer, device, forward >>

stopCancel ==
    /\ ctl = "cancel"
    /\ ctl' = "close"
    /\ cancelled' = TRUE
    /\ UNCHANGED << pc, closed, conn, n, shut, session, offer, device, forward >>

\* tcpx.Client.Close: the flag and the connection under one lock.
Close ==
    /\ ctl = "close"
    /\ ctl' = "wait"
    /\ closed' = TRUE
    /\ shut' = shut \cup ({conn} \ {0})
    /\ UNCHANGED << pc, cancelled, conn, n, session, offer, device, forward >>

\* wg.Wait, then everything is cleaned up and the device, if any, closed.
stopWithoutWait ==
    /\ ctl = "wait"
    /\ ctl' = "stopped"
    /\ StopsRouting
    /\ tun' = IF tun = "open" THEN "closed" ELSE tun
    /\ tunAddrs' = {}
    /\ UNCHANGED << pc, cancelled, closed, conn, n, shut, session, offer, forward >>
stopFinish ==
    /\ ctl = "wait"
    /\ pc = "ended" /\ forwarder # "running"
    /\ ctl' = "stopped"
    /\ StopsRouting
    /\ tun' = IF tun = "open" THEN "closed" ELSE tun
    /\ tunAddrs' = {}
    /\ UNCHANGED << pc, cancelled, closed, conn, n, shut, session, offer, forward >>

-----------------------------------------------------------------------------
(* tcpx.Client.Run and connectAndServe.                                    *)

Run ==
    /\ Goto("starting", "loop")
    /\ closed' = FALSE
    /\ UNCHANGED << ctl, cancelled, conn, n, shut, session, offer, device, forward >>

runLoop ==
    /\ pc = "loop"
    /\ pc' = IF cancelled \/ closed THEN "ended" ELSE "dialing"
    /\ UNCHANGED << control, conn, n, shut, session, offer, device, forward >>

\* Dialling or the handshake fails.
connectFails ==
    /\ Goto("dialing", "returned")
    /\ UNCHANGED << control, conn, n, shut, session, offer, device, forward >>

connectUnchecked ==
    /\ Goto("dialing", "connected")
    /\ n < MaxConns
    /\ ServerReachable
    /\ n' = n + 1
    /\ conn' = n + 1
    /\ UNCHANGED << control, shut, session, offer, device, forward >>
connect ==
    /\ pc = "dialing"
    /\ n < MaxConns
    /\ ServerReachable
    /\ n' = n + 1
    /\ \/ closed  /\ shut' = shut \cup {n + 1} /\ pc' = "returned" /\ UNCHANGED conn
       \/ ~closed /\ conn' = n + 1 /\ pc' = "connected" /\ UNCHANGED shut
    /\ UNCHANGED << control, session, offer, device, forward >>

\* Read fails, because the connection is closed or for any other reason;
\* connectAndServe closes the connection and forgets it.
readFails ==
    /\ Goto("serving", "returned")
    /\ shut' = shut \cup {n}
    /\ conn' = 0
    /\ UNCHANGED << control, n, session, offer, device, forward >>

\* onTCPDisconnect, unless the client is being stopped.
returned ==
    /\ pc = "returned"
    /\ \/ (cancelled \/ closed) /\ pc' = "ended" /\ UNCHANGED session
       \/ ~(cancelled \/ closed) /\ pc' = "sleep" /\ session' = NoSession
    /\ UNCHANGED << control, conn, n, shut, offer, device, forward >>

sleepContext ==
    /\ pc = "sleep"
    /\ pc' = "loop" \/ (cancelled /\ pc' = "ended")
    /\ UNCHANGED << control, conn, n, shut, session, offer, device, forward >>

heartbeatFails ==
    /\ conn # 0 /\ pc \notin {"connected", "greeting"}
    /\ shut' = shut \cup {conn}
    /\ UNCHANGED << control, pc, conn, n, session, offer, device, forward >>

-----------------------------------------------------------------------------
(* onTCPConnect: Auth and DISCOVER are written.                            *)

onTCPConnect ==
    /\ Goto("connected", "greeting")
    /\ session' = [NoSession EXCEPT !.conn = n]
    /\ UNCHANGED << control, conn, n, shut, offer, device, forward >>

onTCPConnectWritten ==
    /\ Goto("greeting", "serving")
    /\ n \notin shut
    /\ UNCHANGED << control, conn, n, shut, session, offer, device, forward >>

\* A message cannot be encoded, or cannot be written.
onTCPConnectFails ==
    /\ pc \in {"connected", "greeting"}
    /\ GiveUp
    /\ UNCHANGED << control, conn, n, session, offer, device, forward >>

-----------------------------------------------------------------------------
(* onTCPMessage.  Messages for another connection than the session's are   *)
(* ignored; an IP packet goes to the device's queue.                       *)

Receives == pc = "serving" /\ n \notin shut /\ session.conn = n

\* A NAK, a message that does not decode, an unknown type.
refuseMessage ==
    /\ Receives
    /\ GiveUp
    /\ UNCHANGED << control, conn, n, session, offer, device, forward >>

handleVDHCP(ip) ==
    /\ Receives
    /\ pc' = "offered"
    /\ offer' = ip
    /\ UNCHANGED << control, conn, n, shut, session, device, forward >>

\* A session that is ready keeps its address; one that Stop has reset no
\* longer has the request the OFFER answers.
validateOfferAgain ==
    /\ pc = "offered"
    /\ \/ session.conn # n /\ GiveUp
       \/ session.conn = n /\ pc' = "device" /\ UNCHANGED shut
    /\ UNCHANGED << control, conn, n, session, offer, device, forward >>
validateOffer ==
    /\ pc = "offered"
    /\ \/ session.ready /\ pc' = "serving" /\ UNCHANGED shut
       \/ ~session.ready /\ session.conn # n /\ GiveUp
       \/ ~session.ready /\ session.conn = n /\ pc' = "device" /\ UNCHANGED shut
    /\ UNCHANGED << control, conn, n, session, offer, device, forward >>

-----------------------------------------------------------------------------
(* configureAddress.                                                       *)

\* c.tun is not nil, or initTun succeeds and the forwarder is started.
initTun ==
    /\ Goto("device", "address")
    /\ \/ /\ tun = "none"
          /\ tun' = "open" /\ forwarder' = "running"
          /\ AllowTunTraffic
       \/ tun # "none" /\ UNCHANGED << tun, forwarder, routing >>
    /\ UNCHANGED << control, conn, n, shut, session, offer, tunAddrs, hold >>

\* initTun fails: no device, or AllowTunTraffic failed after c.tun was set.
initTunFails ==
    /\ pc = "device"
    /\ tun = "none"
    /\ \/ UNCHANGED << tun, routing >>
       \/ tun' = "open" /\ AllowTunTrafficFails
    /\ GiveUp
    /\ UNCHANGED << control, conn, n, session, offer, tunAddrs, forward >>

\* On Linux ip addr replace adds the address to those the device has; on
\* Windows netsh sets it as the only one.
ConfigureTunAddress ==
    /\ Goto("address", "routes")
    /\ tun = "open"
    /\ tunAddrs' = (IF build = "linux" THEN tunAddrs ELSE {}) \cup {offer}
    /\ UNCHANGED << control, conn, n, shut, session, offer, tun, routing, forward >>

\* With Proxy the routes to the old gateway go first.
cleanupOldRoutes ==
    /\ pc = "routes"
    /\ IF Proxy THEN pc' = "host" /\ CleanupClientProxyRouting
                ELSE pc' = "apply" /\ UNCHANGED routing
    /\ UNCHANGED << control, conn, n, shut, session, offer, tun, tunAddrs, forward >>

\* The commands of SetupClientProxyRouting; those that name the device need it.
SetupClientProxyRouting ==
    /\ \/ Goto("host", "split") /\ AddHostRoute
       \/ Goto("split", "dns") /\ tun = "open" /\ AddSplitDefaultRoutesToTun
       \/ Goto("dns", "apply") /\ tun = "open" /\ SetInterfaceDNS
    /\ UNCHANGED << control, conn, n, shut, session, offer, tun, tunAddrs, forward >>

\* A step of configureAddress fails and the connection is given up.
ConfigureFailure ==
    \/ pc = "address" /\ UNCHANGED routing
    \/ pc = "host" /\ AddHostRouteFails
    \/ pc = "split" /\ AddSplitFails(tun = "open")
    \/ pc = "dns" /\ SetInterfaceDNSFails(tun = "open")

configureFailsOpen ==
    /\ ConfigureFailure
    /\ pc' = "serving"
    /\ UNCHANGED << control, conn, n, shut, session, offer, tun, tunAddrs, forward >>
configureFails ==
    /\ ConfigureFailure
    /\ GiveUp
    /\ UNCHANGED << control, conn, n, session, offer, tun, tunAddrs, forward >>

applyOffer ==
    /\ Goto("apply", "serving")
    /\ session' = IF session.conn = n
                    THEN [session EXCEPT !.ready = TRUE, !.ip = offer] ELSE session
    /\ UNCHANGED << control, conn, n, shut, offer, device, forward >>

-----------------------------------------------------------------------------
(* tunToTCP.                                                               *)

\* A packet from the device: dropped, or the session's connection is taken.
forwardTakeUnready ==
    /\ forwarder = "running" /\ hold = 0
    /\ tun = "open"
    /\ hold' = session.conn
    /\ UNCHANGED << control, pc, conn, n, shut, session, offer, device, forwarder >>
forwardTake ==
    /\ forwarder = "running" /\ hold = 0
    /\ tun = "open"
    /\ session.ready
    /\ hold' = session.conn
    /\ UNCHANGED << control, pc, conn, n, shut, session, offer, device, forwarder >>

forwardWrite ==
    /\ hold # 0
    /\ hold \notin shut
    /\ hold' = 0
    /\ UNCHANGED << control, pc, conn, n, shut, session, offer, device, forwarder >>

forwardFails ==
    /\ hold # 0
    /\ shut' = shut \cup {hold}
    /\ hold' = 0
    /\ UNCHANGED << control, pc, conn, n, session, offer, device, forwarder >>

\* ctx is cancelled, or the device's channel is closed.
forwardEnds ==
    /\ forwarder = "running" /\ hold = 0
    /\ cancelled \/ tun = "closed"
    /\ forwarder' = "ended"
    /\ UNCHANGED << control, pc, conn, n, shut, session, offer, device, hold >>

\* Reading or writing the device fails: TUNTunnel closes itself.
tunFails ==
    /\ tun = "open"
    /\ tun' = "closed"
    /\ tunAddrs' = {}
    /\ DeviceGone
    /\ UNCHANGED << control, pc, conn, n, shut, session, offer, forward >>

-----------------------------------------------------------------------------
Stopping == stopCancel \/ Close \/ stopFinish

TransportStep ==
    \/ Run \/ runLoop \/ connectFails \/ connect \/ returned \/ sleepContext
    \/ onTCPConnect \/ onTCPConnectWritten \/ onTCPConnectFails
    \/ validateOffer \/ initTun \/ initTunFails \/ ConfigureTunAddress
    \/ cleanupOldRoutes \/ SetupClientProxyRouting \/ configureFails \/ applyOffer

Forwarding == forwardWrite \/ forwardFails

Next ==
    \/ Start \/ Stop \/ Stopping
    \/ TransportStep
    \/ readFails \/ refuseMessage \/ \E ip \in IPs : handleVDHCP(ip)
    \/ heartbeatFails
    \/ forwardTake \/ Forwarding \/ forwardEnds
    \/ tunFails

\* Goroutines that can run do; dialling, the handshake and writes have
\* timeouts; Read on a closed connection fails.  A select that finds several
\* channels ready picks one at random, so it does not ignore ctx forever.
Fairness ==
    /\ WF_vars(Stopping)
    /\ WF_vars(TransportStep)
    /\ WF_vars(n \in shut /\ readFails)
    /\ WF_vars(Forwarding)
    /\ SF_vars(forwardEnds)

Spec == Init /\ [][Next]_vars /\ Fairness

-----------------------------------------------------------------------------
(* Properties.                                                             *)

\* When Stop has returned nothing of the client is left behind: no goroutine,
\* no open device, no connection, no record of routes, and no route, DNS server
\* or firewall rule but a host route or a rule whose deletion has failed,
\* whatever the transport was doing when Stop was called.
StopCleansUp ==
    ctl = "stopped" =>
        /\ pc = "ended" /\ forwarder # "running" /\ hold = 0
        /\ tun # "open" /\ shut = 1 .. n
        /\ ~proxyActive /\ installed \subseteq stuck \cap {"host", "firewall"}

\* An open device has the address the session was offered; on Linux it may have
\* those of earlier OFFERs too, which nothing takes away.
DeviceHasAddress ==
    tun = "open" =>
        /\ session.ip \in tunAddrs
        /\ build = "windows" => tunAddrs = {session.ip}

\* The server has its host route and an open device has both half-default routes.
Routed ==
    /\ "host" \in installed
    /\ tun = "open" => Halves \subseteq installed

\* While a session is ready the device has the address the session was offered
\* (on Windows no other), and with Proxy all traffic but the server's goes to
\* it: no failed set-up or clean-up of an earlier connection shows through.
ReadyIsConfigured ==
    session.ready /\ ctl # "stopped" =>
        /\ tun # "none"
        /\ DeviceHasAddress
        /\ Proxy => Routed

\* Outside SetupClientProxyRouting the program's record agrees with the
\* system's routes: active means that all of them are there, whatever clean-up
\* failed to delete before.  Inactive, with nothing for clean-up to do, means
\* that neither the host route nor the second half is there unless deleting it
\* has failed; what a failed set-up leaves behind is the first half or the DNS
\* servers, which go with the device.
ProxyStateTruthful ==
    pc \notin {"host", "split", "dns"} =>
        IF proxyActive THEN Routed
                       ELSE installed \ stuck \subseteq {"low", "dns", "firewall"}

\* A packet read from the device leaves on a connection only while the device
\* has the address that connection was offered (on Windows no other), though
\* the forwarder picks the connection before it writes and the client may
\* reconnect, with another address, in between.
PacketsMatchAddress ==
    [][forwardWrite => session = NoSession \/ (session.conn = hold /\ DeviceHasAddress)]_vars

\* Stop returns, also when it is called while a connection is being opened.
StopReturns == (ctl = "cancel") ~> (ctl = "stopped")

\* An OFFER is applied, or the client connects again: no failure while the
\* device is being configured leaves it connected without an address.
OfferAppliedOrRetried ==
    (pc = "device") ~> (session.ready \/ pc \in {"dialing", "ended"})

\* Once it has its configuration the client creates or configures its device
\* and begins to forward packets (ARCHITECTURE.md:94).
ReadyForwards ==
    session.ready /\ tun = "open" /\ ~cancelled => forwarder = "running"
=============================================================================
