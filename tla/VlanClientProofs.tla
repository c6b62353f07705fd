-------------------------- MODULE VlanClientProofs --------------------------
(***************************************************************************)
(* Proofs about VlanClient, for any number of connections and addresses,   *)
(* with and without Proxy.  ClientInv is the inductive invariant:          *)
(*   ConnInv     only the newest connection can be open, and only while    *)
(*               the transport serves it;                                  *)
(*   ControlInv  what Stop has cleaned up stays so;                        *)
(*   OfferInv    how far configureAddress has come;                        *)
(*   RouteInv    which routes are there at each of its steps;              *)
(*   ReadyInv    what a ready session was configured with;                 *)
(*   HoldInv     which session the forwarder's connection belongs to.      *)
(***************************************************************************)
EXTENDS VlanClient, TLAPS

\* A connection is open; an OFFER is being applied; the address is set.
Live == {"connected", "greeting", "serving", "offered", "device", "address", "routes",
         "host", "split", "dns", "apply"}
Applying   == {"device", "address", "routes", "host", "split", "dns", "apply"}
Configured == {"routes", "host", "split", "dns", "apply"}

ConnInv ==
    /\ pc \in Live => n > 0
    /\ pc \notin Live => conn = 0
    /\ \A i \in 1 .. n : i \in shut \/ (i = n /\ pc \in Live)

ControlInv ==
    /\ ctl = "idle" => pc = "none"
    /\ ctl = "stopped" =>
          /\ pc = "ended" /\ forwarder # "running" /\ tun # "open"
          /\ ~proxyActive /\ installed \subseteq stuck \cap {"host", "firewall"}
    /\ hold # 0 => forwarder = "running"

OfferInv ==
    /\ pc \in Applying => ~session.ready
    /\ pc \in Applying \cup {"offered"} => offer \in IPs
    /\ pc \in Configured =>
          /\ tun # "none"
          /\ tun = "open" => offer \in tunAddrs /\ (build = "windows" => tunAddrs = {offer})
    /\ pc = "apply" /\ Proxy => proxyActive

\* What a failed set-up may leave behind, other than what could not be deleted.
Remains == {"low", "dns", "firewall"}

RouteInv ==
    /\ ProxyStateTruthful
    /\ pc = "host" => ~proxyActive /\ installed \ stuck \subseteq Remains
    /\ pc = "split" =>
          /\ ~proxyActive /\ "host" \in installed
          /\ installed \ stuck \subseteq Remains \cup {"host"}
    /\ pc = "dns" => ~proxyActive /\ Routed
    /\ tun = "none" => ~proxyActive

ReadyInv ==
    session.ready /\ ctl # "stopped" =>
        /\ tun # "none"
        /\ DeviceHasAddress
        /\ Proxy => proxyActive

HoldInv ==
    /\ hold # 0 /\ hold \notin shut =>
          session = NoSession \/ (session.conn = hold /\ session.ready)
    /\ pc = "connected" => hold # n /\ session.conn # n

ClientInv == TypeOK /\ ConnInv /\ ControlInv /\ OfferInv /\ RouteInv /\ ReadyInv /\ HoldInv

-----------------------------------------------------------------------------
\* The empty session has the type of a session.
LEMMA NoSessionType ==
    \A m \in Nat : NoSession \in [conn : 0 .. m, ready : BOOLEAN, ip : IPs \cup {NoIP}]
  BY DEF NoSession

\* So has the session of a new connection.
LEMMA NewSessionType ==
    ASSUME NEW m \in Nat
    PROVE  [NoSession EXCEPT !.conn = m] \in [conn : 0 .. m, ready : BOOLEAN, ip : IPs \cup {NoIP}]
<1>1. [NoSession EXCEPT !.conn = m].conn = m /\ m \in 0 .. m
  BY DEF NoSession
<1> QED
  BY <1>1, NoSessionType

\* The client begins with nothing.
LEMMA ClientInit == Init => ClientInv
<1> SUFFICES ASSUME Init PROVE ClientInv
  OBVIOUS
<1> USE ClientAssumption DEF Init, RoutingInit
<1>1. TypeOK
  <2>1. /\ cancelled \in BOOLEAN /\ closed \in BOOLEAN
        /\ defaultRoute \in BOOLEAN /\ proxyActive \in BOOLEAN
    BY Zenon
  <2>2. session \in [conn : 0 .. n, ready : BOOLEAN, ip : IPs \cup {NoIP}]
    BY DEF NoSession
  <2> QED
    BY <2>1, <2>2 DEF TypeOK, RoutingTypeOK, PCs
<1>2. ~proxyActive
  BY Zenon
<1>3. ~session.ready
  BY DEF NoSession
<1> QED
  BY <1>1, <1>2, <1>3 DEF ClientInv, ConnInv, ControlInv, OfferInv, RouteInv, ReadyInv, HoldInv,
     ProxyStateTruthful, Live, Applying, Configured

\* A deletion, whichever of its commands fail, leaves there nothing new, and of
\* what it was to delete only what is now stuck.
LEMMA DeletesLeaves ==
    ASSUME RoutingTypeOK, NEW there \in SUBSET Things, NEW S, Deletes(there, S)
    PROVE  /\ installed' \in SUBSET there
           /\ stuck' \in SUBSET installed'
           /\ installed' \ stuck' = (there \ S) \ stuck
  BY DEF RoutingTypeOK, Deletes

\* SetInterfaceDNSFails deletes both halves and the host route.
LEMMA DNSFailsLeaves ==
    ASSUME RoutingTypeOK, NEW d \in BOOLEAN, SetInterfaceDNSFails(d)
    PROVE  RoutingTypeOK' /\ installed' \ stuck' \subseteq Remains
<1>1. PICK there \in {installed, installed \cup IF d THEN {"dns"} ELSE {}} :
         Deletes(there, Halves \cup {"host"})
  BY DEF SetInterfaceDNSFails
<1>2. there \in SUBSET Things
  BY <1>1 DEF RoutingTypeOK, Things, OnDevice
<1>3. /\ installed' \in SUBSET there /\ stuck' \in SUBSET installed'
      /\ installed' \ stuck' = (there \ (Halves \cup {"host"})) \ stuck
  BY <1>1, <1>2, DeletesLeaves
<1>4. UNCHANGED << build, defaultRoute, proxyActive >>
  BY DEF SetInterfaceDNSFails
<1>5. installed' \ stuck' \subseteq Remains
  BY <1>2, <1>3 DEF Things, OnDevice, Halves, Remains
<1> QED
  BY <1>2, <1>3, <1>4, <1>5 DEF RoutingTypeOK

\* AddSplitFails deletes the host route and may leave the first half.
LEMMA SplitFailsLeaves ==
    ASSUME RoutingTypeOK, NEW d \in BOOLEAN, AddSplitFails(d),
           installed \ stuck \subseteq Remains \cup {"host"}
    PROVE  RoutingTypeOK' /\ installed' \ stuck' \subseteq Remains
<1>1. PICK there \in SUBSET (installed \cup {"low"}) : Deletes(there, {"host"})
  BY DEF AddSplitFails
<1>2. there \in SUBSET Things
  BY <1>1 DEF RoutingTypeOK, Things, OnDevice, Halves
<1>3. /\ installed' \in SUBSET there /\ stuck' \in SUBSET installed'
      /\ installed' \ stuck' = (there \ {"host"}) \ stuck
  BY <1>1, <1>2, DeletesLeaves
<1>4. UNCHANGED << build, defaultRoute, proxyActive >>
  BY DEF AddSplitFails
<1>5. installed' \ stuck' \subseteq Remains
  BY <1>1, <1>3 DEF Remains
<1> QED
  BY <1>2, <1>3, <1>4, <1>5 DEF RoutingTypeOK

\* Restoring the default route, whatever comes of it.
LEMMA DefaultRouteType ==
    ASSUME RoutingTypeOK, AddDefaultRoute \/ UNCHANGED defaultRoute
    PROVE  defaultRoute' \in BOOLEAN
  BY Zenon DEF RoutingTypeOK, AddDefaultRoute

\* Clean-up leaves the firewall's rules and what it could not delete.
LEMMA CleanupLeaves ==
    ASSUME RoutingTypeOK, CleanupClientProxyRouting,
           ~proxyActive => installed \ stuck \subseteq Remains
    PROVE  RoutingTypeOK' /\ ~proxyActive' /\ installed' \ stuck' \subseteq Remains
<1>1. ~proxyActive' /\ proxyActive' \in BOOLEAN /\ build' = build
  BY Zenon DEF CleanupClientProxyRouting
<1>2. defaultRoute' \in BOOLEAN
  BY DefaultRouteType DEF CleanupClientProxyRouting
<1>3. CASE proxyActive
  <2>1. Deletes(installed, OnDevice \cup {"host"})
    BY <1>3 DEF CleanupClientProxyRouting
  <2>2. installed \in SUBSET Things
    BY DEF RoutingTypeOK
  <2>3. /\ installed' \in SUBSET installed /\ stuck' \in SUBSET installed'
        /\ installed' \ stuck' = (installed \ (OnDevice \cup {"host"})) \ stuck
    BY <2>1, <2>2, DeletesLeaves
  <2> QED
    BY <1>1, <1>2, <2>2, <2>3 DEF RoutingTypeOK, Things, Remains
<1>4. CASE ~proxyActive
  BY <1>1, <1>2, <1>4 DEF CleanupClientProxyRouting, RoutingTypeOK
<1> QED
  BY <1>3, <1>4

\* The clean-up of Stop leaves a host route or the firewall's rules, and only
\* when they could not be deleted.
LEMMA StopLeaves ==
    ASSUME RoutingTypeOK, StopsRouting,
           ~proxyActive => installed \ stuck \subseteq Remains
    PROVE  /\ RoutingTypeOK' /\ ~proxyActive'
           /\ installed' \subseteq stuck' \cap {"host", "firewall"}
<1> DEFINE S == {"firewall"} \cup IF proxyActive THEN {"host"} ELSE {}
<1>1. ~proxyActive' /\ proxyActive' \in BOOLEAN /\ build' = build
  BY Zenon DEF StopsRouting
<1>2. defaultRoute' \in BOOLEAN
  BY DefaultRouteType DEF StopsRouting
<1>3. installed \ OnDevice \in SUBSET Things /\ Deletes(installed \ OnDevice, S)
  BY DEF StopsRouting, RoutingTypeOK
<1>4. /\ installed' \in SUBSET (installed \ OnDevice) /\ stuck' \in SUBSET installed'
      /\ installed' \ stuck' = ((installed \ OnDevice) \ S) \ stuck
  <2> HIDE DEF S
  <2> QED
    BY <1>3, DeletesLeaves
<1>5. installed' \ stuck' = {}
  BY <1>4 DEF RoutingTypeOK, Things, OnDevice, Halves, Remains
<1> QED
  BY <1>1, <1>2, <1>4, <1>5 DEF RoutingTypeOK, Things

\* Start and the steps of Stop before its clean-up.
LEMMA ControlStep ==
    ASSUME ClientInv, Start \/ Stop \/ stopCancel \/ Close
    PROVE  ClientInv'
<1> USE ClientAssumption DEF ClientInv, control, device, forward, routing, Goto, GiveUp,
           Start, Stop, stopCancel, Close
<1>1. TypeOK'
  <2>1. CASE Start
    BY <2>1 DEF TypeOK, RoutingTypeOK, PCs, NoSession, ConnInv, Live
  <2>2. CASE Stop
    BY <2>2 DEF TypeOK, RoutingTypeOK, PCs, NoSession, ConnInv, Live
  <2>3. CASE stopCancel
    BY <2>3 DEF TypeOK, RoutingTypeOK, PCs, NoSession, ConnInv, Live
  <2>4. CASE Close
    BY <2>4 DEF TypeOK, RoutingTypeOK, PCs, NoSession, ConnInv, Live
  <2> QED
    BY <2>1, <2>2, <2>3, <2>4
<1>2. ConnInv'
  BY <1>1 DEF TypeOK, ConnInv, ControlInv, Live
<1>3. ControlInv'
  BY <1>1 DEF TypeOK, ConnInv, ControlInv, RouteInv, ProxyStateTruthful, OfferInv
<1>4. OfferInv'
  BY <1>1 DEF TypeOK, OfferInv, Applying, Configured, ControlInv, RouteInv, NoSession
<1>5. RouteInv'
  BY <1>1 DEF TypeOK, RoutingTypeOK, RouteInv, ProxyStateTruthful, Routed, ControlInv, OfferInv
<1>6. ReadyInv'
  BY <1>1 DEF TypeOK, ReadyInv, DeviceHasAddress, OfferInv, Applying, Configured, ControlInv, NoSession
<1>7. HoldInv'
  BY <1>1 DEF TypeOK, HoldInv, ConnInv, Live, OfferInv, Applying, ReadyInv, NoSession
<1> QED
  BY <1>1, <1>2, <1>3, <1>4, <1>5, <1>6, <1>7

\* Stop has waited for the goroutines and cleans up.
LEMMA FinishStep ==
    ASSUME ClientInv, stopFinish
    PROVE  ClientInv'
<1> USE ClientAssumption DEF ClientInv, control, device, forward, Goto, GiveUp, stopFinish
<1>0. /\ RoutingTypeOK' /\ ~proxyActive'
      /\ installed' \subseteq stuck' \cap {"host", "firewall"}
  <2>1. RoutingTypeOK
    BY DEF TypeOK
  <2>2. ~proxyActive => installed \ stuck \subseteq Remains
    BY DEF RouteInv, ProxyStateTruthful, Remains
  <2> QED
    BY <2>1, <2>2, StopLeaves
<1>1. TypeOK'
  BY <1>0 DEF TypeOK, PCs, ConnInv, Live
<1>2. ConnInv'
  BY <1>1 DEF TypeOK, ConnInv, ControlInv, Live
<1>3. ControlInv'
  BY <1>0, <1>1 DEF TypeOK, ConnInv, ControlInv, OfferInv
<1>4. OfferInv'
  BY <1>1 DEF TypeOK, OfferInv, Applying, Configured
<1>5. RouteInv'
  BY <1>0, <1>1 DEF TypeOK, RouteInv, ProxyStateTruthful
<1>6. ReadyInv'
  BY DEF ReadyInv
<1>7. HoldInv'
  BY <1>1 DEF TypeOK, HoldInv, ConnInv, Live, OfferInv, Applying, ReadyInv, NoSession
<1> QED
  BY <1>1, <1>2, <1>3, <1>4, <1>5, <1>6, <1>7

\* Run, between connections.
LEMMA RunStep ==
    ASSUME ClientInv, Run \/ runLoop \/ connectFails \/ returned \/ sleepContext
    PROVE  ClientInv'
<1> USE ClientAssumption DEF ClientInv, control, device, forward, routing, Goto, GiveUp,
           Run, runLoop, connectFails, returned, sleepContext
<1>1. TypeOK'
  <2>1. CASE Run
    <3>1. closed' \in BOOLEAN
      BY <2>1, Zenon DEF TypeOK, RoutingTypeOK
    <3> QED
      BY <2>1, <3>1 DEF TypeOK, RoutingTypeOK, PCs, ConnInv, Live
  <2>2. CASE runLoop
    BY <2>2 DEF TypeOK, RoutingTypeOK, PCs, NoSession, ConnInv, Live
  <2>3. CASE connectFails
    BY <2>3 DEF TypeOK, RoutingTypeOK, PCs, NoSession, ConnInv, Live
  <2>4. CASE returned
    <3>1. n \in Nat /\ n' = n /\ (session' = session \/ session' = NoSession)
      BY <2>4 DEF TypeOK
    <3>2. session' \in [conn : 0 .. n', ready : BOOLEAN, ip : IPs \cup {NoIP}]
      BY <3>1, NoSessionType DEF TypeOK
    <3> QED
      BY <2>4, <3>2 DEF TypeOK, RoutingTypeOK, PCs
  <2>5. CASE sleepContext
    BY <2>5 DEF TypeOK, RoutingTypeOK, PCs, NoSession, ConnInv, Live
  <2> QED
    BY <2>1, <2>2, <2>3, <2>4, <2>5
<1>2. ConnInv'
  BY <1>1 DEF TypeOK, ConnInv, ControlInv, Live
<1>3. ControlInv'
  BY <1>1 DEF TypeOK, ConnInv, ControlInv, RouteInv, ProxyStateTruthful, OfferInv
<1>4. OfferInv'
  BY <1>1 DEF TypeOK, OfferInv, Applying, Configured, ControlInv, RouteInv, NoSession
<1>5. RouteInv'
  BY <1>1 DEF TypeOK, RoutingTypeOK, RouteInv, ProxyStateTruthful, Routed, ControlInv, OfferInv
<1>6. ReadyInv'
  BY <1>1 DEF TypeOK, ReadyInv, DeviceHasAddress, OfferInv, Applying, Configured, ControlInv, NoSession
<1>7. HoldInv'
  BY <1>1 DEF TypeOK, HoldInv, ConnInv, Live, OfferInv, Applying, ReadyInv, NoSession
<1> QED
  BY <1>1, <1>2, <1>3, <1>4, <1>5, <1>6, <1>7

\* A connection is opened, or closed at once because the client is.
LEMMA ConnectStep ==
    ASSUME ClientInv, connect
    PROVE  ClientInv'
<1> USE ClientAssumption DEF ClientInv, control, device, forward, routing, Goto, GiveUp,
           connect
<1>1. TypeOK'
  <2>1. conn = 0
    BY DEF ConnInv, Live
  <2>2. n \in Nat /\ MaxConns \in Nat /\ n' = n + 1 /\ n' \in 0 .. MaxConns
    BY DEF TypeOK
  <2>3. 0 .. n \subseteq 0 .. n' /\ 1 .. n \subseteq 1 .. n' /\ n' \in 1 .. n'
    BY <2>2
  <2>4. session' \in [conn : 0 .. n', ready : BOOLEAN, ip : IPs \cup {NoIP}]
    BY <2>3 DEF TypeOK
  <2>5. shut' \in SUBSET (1 .. n') /\ hold' \in 0 .. n'
    BY <2>2, <2>3 DEF TypeOK
  <2>6. conn' \in {0, n'} /\ pc' \in PCs
    BY <2>1, <2>2 DEF PCs
  <2> QED
    BY <2>2, <2>4, <2>5, <2>6 DEF TypeOK, RoutingTypeOK
<1>2. ConnInv'
  BY <1>1 DEF TypeOK, ConnInv, ControlInv, Live
<1>3. ControlInv'
  BY <1>1 DEF TypeOK, ConnInv, ControlInv, RouteInv, ProxyStateTruthful, OfferInv
<1>4. OfferInv'
  BY <1>1 DEF TypeOK, OfferInv, Applying, Configured, ControlInv, RouteInv, NoSession
<1>5. RouteInv'
  BY <1>1 DEF TypeOK, RoutingTypeOK, RouteInv, ProxyStateTruthful, Routed, ControlInv, OfferInv
<1>6. ReadyInv'
  BY <1>1 DEF TypeOK, ReadyInv, DeviceHasAddress, OfferInv, Applying, Configured, ControlInv, NoSession
<1>7. HoldInv'
  BY <1>1 DEF TypeOK, HoldInv, ConnInv, Live, OfferInv, Applying, ReadyInv, NoSession
<1> QED
  BY <1>1, <1>2, <1>3, <1>4, <1>5, <1>6, <1>7

\* onTCPConnect and its end.
LEMMA GreetStep ==
    ASSUME ClientInv, onTCPConnect \/ onTCPConnectWritten \/ onTCPConnectFails
    PROVE  ClientInv'
<1> USE ClientAssumption DEF ClientInv, control, device, forward, routing, Goto, GiveUp,
           onTCPConnect, onTCPConnectWritten, onTCPConnectFails
<1>1. TypeOK'
  <2>1. CASE onTCPConnect
    <3>1. n \in Nat /\ n' = n /\ session' = [NoSession EXCEPT !.conn = n]
      BY <2>1 DEF TypeOK
    <3>2. session' \in [conn : 0 .. n', ready : BOOLEAN, ip : IPs \cup {NoIP}]
      BY <3>1, NewSessionType
    <3> QED
      BY <2>1, <3>2 DEF TypeOK, RoutingTypeOK, PCs
  <2>2. CASE onTCPConnectWritten
    BY <2>2 DEF TypeOK, RoutingTypeOK, PCs, NoSession, ConnInv, Live
  <2>3. CASE onTCPConnectFails
    BY <2>3 DEF TypeOK, RoutingTypeOK, PCs, NoSession, ConnInv, Live
  <2> QED
    BY <2>1, <2>2, <2>3
<1>2. ConnInv'
  BY <1>1 DEF TypeOK, ConnInv, ControlInv, Live
<1>3. ControlInv'
  BY <1>1 DEF TypeOK, ConnInv, ControlInv, RouteInv, ProxyStateTruthful, OfferInv
<1>4. OfferInv'
  BY <1>1 DEF TypeOK, OfferInv, Applying, Configured, ControlInv, RouteInv, NoSession
<1>5. RouteInv'
  BY <1>1 DEF TypeOK, RoutingTypeOK, RouteInv, ProxyStateTruthful, Routed, ControlInv, OfferInv
<1>6. ReadyInv'
  BY <1>1 DEF TypeOK, ReadyInv, DeviceHasAddress, OfferInv, Applying, Configured, ControlInv, NoSession
<1>7. HoldInv'
  BY <1>1 DEF TypeOK, HoldInv, ConnInv, Live, OfferInv, Applying, ReadyInv, NoSession
<1> QED
  BY <1>1, <1>2, <1>3, <1>4, <1>5, <1>6, <1>7

\* A connection is lost or refused.
LEMMA LoseStep ==
    ASSUME ClientInv, readFails \/ heartbeatFails \/ refuseMessage
    PROVE  ClientInv'
<1> USE ClientAssumption DEF ClientInv, control, device, forward, routing, Goto, GiveUp,
           readFails, heartbeatFails, refuseMessage, Receives
<1>1. TypeOK'
  <2>1. CASE readFails
    BY <2>1 DEF TypeOK, RoutingTypeOK, PCs, NoSession, ConnInv, Live
  <2>2. CASE heartbeatFails
    BY <2>2 DEF TypeOK, RoutingTypeOK, PCs, NoSession, ConnInv, Live
  <2>3. CASE refuseMessage
    BY <2>3 DEF TypeOK, RoutingTypeOK, PCs, NoSession, ConnInv, Live
  <2> QED
    BY <2>1, <2>2, <2>3
<1>2. ConnInv'
  BY <1>1 DEF TypeOK, ConnInv, ControlInv, Live
<1>3. ControlInv'
  BY <1>1 DEF TypeOK, ConnInv, ControlInv, RouteInv, ProxyStateTruthful, OfferInv
<1>4. OfferInv'
  BY <1>1 DEF TypeOK, OfferInv, Applying, Configured, ControlInv, RouteInv, NoSession
<1>5. RouteInv'
  BY <1>1 DEF TypeOK, RoutingTypeOK, RouteInv, ProxyStateTruthful, Routed, ControlInv, OfferInv
<1>6. ReadyInv'
  BY <1>1 DEF TypeOK, ReadyInv, DeviceHasAddress, OfferInv, Applying, Configured, ControlInv, NoSession
<1>7. HoldInv'
  BY <1>1 DEF TypeOK, HoldInv, ConnInv, Live, OfferInv, Applying, ReadyInv, NoSession
<1> QED
  BY <1>1, <1>2, <1>3, <1>4, <1>5, <1>6, <1>7

\* An OFFER arrives and is looked at.
LEMMA OfferStep ==
    ASSUME ClientInv, validateOffer \/ \E ip \in IPs : handleVDHCP(ip)
    PROVE  ClientInv'
<1> USE ClientAssumption DEF ClientInv, control, device, forward, routing, Goto, GiveUp,
           handleVDHCP, validateOffer, Receives
<1>1. TypeOK'
  <2>1. CASE \E ip \in IPs : handleVDHCP(ip)
    BY <2>1 DEF TypeOK, RoutingTypeOK, PCs, NoSession, ConnInv, Live
  <2>2. CASE validateOffer
    <3>1. n \in 1 .. n /\ n' = n
      BY <2>2 DEF TypeOK, ConnInv, Live
    <3>2. shut' \in SUBSET (1 .. n)
      BY <2>2, <3>1 DEF TypeOK
    <3>3. pc' \in PCs
      BY <2>2 DEF PCs
    <3> QED
      BY <2>2, <3>1, <3>2, <3>3 DEF TypeOK, RoutingTypeOK
  <2> QED
    BY <2>1, <2>2
<1>2. ConnInv'
  BY <1>1 DEF TypeOK, ConnInv, ControlInv, Live
<1>3. ControlInv'
  BY <1>1 DEF TypeOK, ConnInv, ControlInv, RouteInv, ProxyStateTruthful, OfferInv
<1>4. OfferInv'
  BY <1>1 DEF TypeOK, OfferInv, Applying, Configured, ControlInv, RouteInv, NoSession
<1>5. RouteInv'
  BY <1>1 DEF TypeOK, RoutingTypeOK, RouteInv, ProxyStateTruthful, Routed, ControlInv, OfferInv
<1>6. ReadyInv'
  BY <1>1 DEF TypeOK, ReadyInv, DeviceHasAddress, OfferInv, Applying, Configured, ControlInv, NoSession
<1>7. HoldInv'
  BY <1>1 DEF TypeOK, HoldInv, ConnInv, Live, OfferInv, Applying, ReadyInv, NoSession
<1> QED
  BY <1>1, <1>2, <1>3, <1>4, <1>5, <1>6, <1>7

\* The device is created, or cannot be.
LEMMA CreateStep ==
    ASSUME ClientInv, initTun \/ initTunFails
    PROVE  ClientInv'
<1> USE ClientAssumption DEF ClientInv, control, device, forward, Goto, GiveUp,
           initTun, initTunFails
<1>0. /\ RoutingTypeOK' /\ UNCHANGED << build, proxyActive >>
      /\ installed \subseteq installed' /\ installed' \ stuck' \subseteq (installed \ stuck) \cup {"firewall"}
  <2>1. UNCHANGED routing \/ AllowTunTraffic
    BY DEF AllowTunTrafficFails
  <2>2. CASE UNCHANGED routing
    BY <2>2 DEF routing, TypeOK, RoutingTypeOK
  <2>3. CASE AllowTunTraffic
    <3>1. \/ \E S \in SUBSET {"firewall"} : installed' = installed \cup S /\ stuck' = stuck \ S
          \/ UNCHANGED << installed, stuck >>
      BY <2>3 DEF AllowTunTraffic, Adds
    <3> QED
      BY <2>3, <3>1 DEF AllowTunTraffic, TypeOK, RoutingTypeOK, Things
  <2> QED
    BY <2>1, <2>2, <2>3
<1>1. TypeOK'
  <2>1. CASE initTun
    BY <1>0, <2>1 DEF TypeOK, PCs, ConnInv, Live
  <2>2. CASE initTunFails
    BY <1>0, <2>2 DEF TypeOK, PCs, ConnInv, Live
  <2> QED
    BY <2>1, <2>2
<1>2. ConnInv'
  BY <1>1 DEF TypeOK, ConnInv, ControlInv, Live
<1>3. ControlInv'
  BY <1>1 DEF TypeOK, ConnInv, ControlInv
<1>4. OfferInv'
  BY <1>1 DEF TypeOK, OfferInv, Applying, Configured
<1>5. RouteInv'
  BY <1>0, <1>1 DEF TypeOK, RouteInv, ProxyStateTruthful, Routed
<1>6. ReadyInv'
  BY <1>0, <1>1 DEF TypeOK, ReadyInv, DeviceHasAddress, OfferInv, Applying
<1>7. HoldInv'
  BY <1>1 DEF TypeOK, HoldInv, ConnInv, Live, OfferInv, Applying, ReadyInv, NoSession
<1> QED
  BY <1>1, <1>2, <1>3, <1>4, <1>5, <1>6, <1>7

\* The device is given its address, or fails.
LEMMA DeviceStep ==
    ASSUME ClientInv, ConfigureTunAddress \/ tunFails
    PROVE  ClientInv'
<1> USE ClientAssumption DEF ClientInv, control, device, forward, Goto, GiveUp,
           ConfigureTunAddress, tunFails
<1>0. /\ RoutingTypeOK' /\ UNCHANGED << build, proxyActive >>
      /\ installed' \ stuck' \subseteq installed \ stuck
      /\ "host" \in installed' <=> "host" \in installed
      /\ tun' = "open" => installed' = installed
  <2>1. CASE ConfigureTunAddress
    BY <2>1 DEF routing, TypeOK, RoutingTypeOK
  <2>2. CASE tunFails
    BY <2>2 DEF DeviceGone, Leaves, OnDevice, Halves, TypeOK, RoutingTypeOK
  <2> QED
    BY <2>1, <2>2
<1>1. TypeOK'
  <2>1. CASE ConfigureTunAddress
    <3>1. tunAddrs' \in SUBSET IPs
      BY <2>1 DEF TypeOK, OfferInv, Applying
    <3> QED
      BY <1>0, <2>1, <3>1 DEF TypeOK, PCs, ConnInv, Live
  <2>2. CASE tunFails
    BY <1>0, <2>2 DEF TypeOK, PCs, ConnInv, Live
  <2> QED
    BY <2>1, <2>2
<1>2. ConnInv'
  BY <1>1 DEF TypeOK, ConnInv, ControlInv, Live
<1>3. ControlInv'
  BY <1>1 DEF TypeOK, ConnInv, ControlInv
<1>4. OfferInv'
  BY <1>0, <1>1 DEF TypeOK, RoutingTypeOK, OfferInv, Applying, Configured
<1>5. RouteInv'
  BY <1>0, <1>1 DEF TypeOK, RouteInv, ProxyStateTruthful, Routed
<1>6. ReadyInv'
  BY <1>0, <1>1 DEF TypeOK, ReadyInv, DeviceHasAddress, OfferInv, Applying
<1>7. HoldInv'
  BY <1>1 DEF TypeOK, HoldInv, ConnInv, Live, OfferInv, Applying, ReadyInv, NoSession
<1> QED
  BY <1>1, <1>2, <1>3, <1>4, <1>5, <1>6, <1>7

\* The routes are replaced, or a step of it fails.
LEMMA RouteStep ==
    ASSUME ClientInv, cleanupOldRoutes \/ SetupClientProxyRouting \/ configureFails
    PROVE  ClientInv'
<1> USE ClientAssumption DEF ClientInv, control, device, forward, Goto, GiveUp
<1> DEFINE Setup == {"address", "routes", "host", "split", "dns"}
<1>0. /\ pc \in Setup /\ pc' \in PCs
      /\ pc' \in Setup \cup {"apply"} => pc \in Configured
      /\ pc' \in Configured \cup {"serving"}
      /\ UNCHANGED << ctl, cancelled, closed, conn, n, session, offer, tun, tunAddrs, forwarder, hold >>
      /\ shut' = shut \/ shut' = shut \cup {n}
      /\ build' = build
  <2>1. CASE cleanupOldRoutes
    BY <2>1 DEF cleanupOldRoutes, CleanupClientProxyRouting, routing, PCs, Configured
  <2>2. CASE SetupClientProxyRouting
    BY <2>2 DEF SetupClientProxyRouting, AddHostRoute, AddSplitDefaultRoutesToTun,
       SetInterfaceDNS, PCs, Configured
  <2>3. CASE configureFails
    BY <2>3 DEF configureFails, ConfigureFailure, AddHostRouteFails, AddSplitFails,
       SetInterfaceDNSFails, routing, PCs, Configured
  <2> QED
    BY <2>1, <2>2, <2>3
<1>1. RoutingTypeOK' /\ RouteInv' /\ (pc' = "apply" /\ Proxy => proxyActive')
  <2> USE DEF Remains
  <2>0. RoutingTypeOK /\ (tun = "open") \in BOOLEAN
    BY DEF TypeOK
  <2>1. CASE cleanupOldRoutes
    <3>1. CASE Proxy
      <4>1. ~proxyActive => installed \ stuck \subseteq Remains
        BY <2>1 DEF cleanupOldRoutes, RouteInv, ProxyStateTruthful
      <4>2. RoutingTypeOK' /\ ~proxyActive' /\ installed' \ stuck' \subseteq Remains
        BY <2>0, <2>1, <3>1, <4>1, CleanupLeaves DEF cleanupOldRoutes
      <4> QED
        BY <2>1, <3>1, <4>2 DEF cleanupOldRoutes, RouteInv, ProxyStateTruthful
    <3>2. CASE ~Proxy
      BY <2>0, <2>1, <3>2 DEF cleanupOldRoutes, routing, RoutingTypeOK, RouteInv,
         ProxyStateTruthful, Routed
    <3> QED
      BY <3>1, <3>2
  <2>2. CASE pc = "host" /\ pc' = "split" /\ AddHostRoute
    BY <1>0, <2>0, <2>2 DEF AddHostRoute, Adds, RoutingTypeOK, Things, RouteInv,
       ProxyStateTruthful
  <2>3. CASE pc = "split" /\ pc' = "dns" /\ AddSplitDefaultRoutesToTun
    BY <1>0, <2>0, <2>3 DEF AddSplitDefaultRoutesToTun, Adds, RoutingTypeOK, Things, OnDevice,
       RouteInv, ProxyStateTruthful, Routed
  <2>4. CASE pc = "dns" /\ pc' = "apply" /\ tun = "open" /\ SetInterfaceDNS
    <3>1. /\ proxyActive' /\ proxyActive' \in BOOLEAN /\ UNCHANGED << build, defaultRoute >>
          /\ installed' \in {installed, installed \cup {"dns"}} /\ stuck' \in SUBSET stuck
      BY <2>4 DEF SetInterfaceDNS, Adds
    <3> QED
      BY <1>0, <2>0, <2>4, <3>1 DEF RoutingTypeOK, Things, OnDevice, RouteInv,
         ProxyStateTruthful, Routed
  <2>5. CASE SetupClientProxyRouting
    BY <2>2, <2>3, <2>4, <2>5 DEF SetupClientProxyRouting
  <2>6. CASE pc = "address" /\ pc' = "serving" /\ UNCHANGED routing
    BY <1>0, <2>0, <2>6 DEF routing, RoutingTypeOK, RouteInv, ProxyStateTruthful, Routed
  <2>7. CASE pc = "host" /\ pc' = "serving" /\ AddHostRouteFails
    BY <1>0, <2>0, <2>7 DEF AddHostRouteFails, Leaves, RoutingTypeOK, RouteInv,
       ProxyStateTruthful
  <2>8. CASE pc = "split" /\ pc' = "serving" /\ AddSplitFails(tun = "open")
    <3>1. ~proxyActive /\ proxyActive' = proxyActive
      BY <2>8 DEF RouteInv, AddSplitFails
    <3>2. RoutingTypeOK' /\ installed' \ stuck' \subseteq Remains
      BY <2>0, <2>8, SplitFailsLeaves DEF RouteInv
    <3> QED
      BY <2>8, <3>1, <3>2 DEF RouteInv, ProxyStateTruthful
  <2>9. CASE pc = "dns" /\ pc' = "serving" /\ SetInterfaceDNSFails(tun = "open")
    <3>1. ~proxyActive /\ proxyActive' = proxyActive
      BY <2>9 DEF RouteInv, SetInterfaceDNSFails
    <3>2. RoutingTypeOK' /\ installed' \ stuck' \subseteq Remains
      BY <2>0, <2>9, DNSFailsLeaves
    <3> QED
      BY <2>9, <3>1, <3>2 DEF RouteInv, ProxyStateTruthful
  <2>10. CASE configureFails
    BY <2>6, <2>7, <2>8, <2>9, <2>10 DEF configureFails, ConfigureFailure
  <2> QED
    BY <2>1, <2>5, <2>10
<1>2. TypeOK'
  <2>1. n \in 1 .. n
    BY <1>0 DEF TypeOK, ConnInv, Live
  <2>2. shut' \in SUBSET (1 .. n')
    BY <1>0, <2>1 DEF TypeOK
  <2>3. cancelled' \in BOOLEAN /\ closed' \in BOOLEAN
    BY <1>0 DEF TypeOK
  <2> QED
    BY <1>0, <1>1, <2>2, <2>3 DEF TypeOK
<1>3. ConnInv'
  BY <1>0, <1>2 DEF TypeOK, ConnInv, Live, Configured
<1>4. ControlInv'
  BY <1>0 DEF ControlInv
<1>5. OfferInv'
  BY <1>0, <1>1 DEF OfferInv, Applying, Configured
<1>6. ReadyInv'
  BY <1>0 DEF ReadyInv, OfferInv, Applying
<1>7. HoldInv'
  BY <1>0, <1>2 DEF TypeOK, HoldInv, Configured
<1> QED
  BY <1>1, <1>2, <1>3, <1>4, <1>5, <1>6, <1>7

\* The session becomes ready, unless Stop has reset it.
LEMMA ApplyStep ==
    ASSUME ClientInv, applyOffer
    PROVE  ClientInv'
<1> USE ClientAssumption DEF ClientInv, control, device, forward, routing, Goto, GiveUp,
           applyOffer
<1>1. TypeOK'
  <2>1. offer \in IPs
    BY DEF OfferInv, Applying
  <2>2. session' \in [conn : 0 .. n', ready : BOOLEAN, ip : IPs \cup {NoIP}]
    BY <2>1 DEF TypeOK
  <2> QED
    BY <2>2 DEF TypeOK, RoutingTypeOK, PCs
<1>2. ConnInv'
  BY <1>1 DEF TypeOK, ConnInv, ControlInv, Live
<1>3. ControlInv'
  BY <1>1 DEF TypeOK, ConnInv, ControlInv, RouteInv, ProxyStateTruthful, OfferInv
<1>4. OfferInv'
  BY <1>1 DEF TypeOK, OfferInv, Applying, Configured, ControlInv, RouteInv, NoSession
<1>5. RouteInv'
  BY <1>1 DEF TypeOK, RoutingTypeOK, RouteInv, ProxyStateTruthful, Routed, ControlInv, OfferInv
<1>6. ReadyInv'
  BY <1>1 DEF TypeOK, ReadyInv, DeviceHasAddress, OfferInv, Applying, Configured, ControlInv, NoSession
<1>7. HoldInv'
  <2>1. ~session.ready /\ n > 0
    BY DEF OfferInv, Applying, ConnInv, Live
  <2>2. hold # 0 /\ hold \notin shut => session = NoSession
    BY <2>1 DEF HoldInv
  <2>3. session = NoSession => session' = NoSession
    BY <2>1 DEF NoSession, TypeOK
  <2> QED
    BY <2>2, <2>3 DEF HoldInv
<1> QED
  BY <1>1, <1>2, <1>3, <1>4, <1>5, <1>6, <1>7

\* The forwarder takes, writes, fails or ends.
LEMMA ForwardStep ==
    ASSUME ClientInv, forwardTake \/ forwardWrite \/ forwardFails \/ forwardEnds
    PROVE  ClientInv'
<1> USE ClientAssumption DEF ClientInv, control, device, forward, routing, Goto, GiveUp,
           forwardTake, forwardWrite, forwardFails, forwardEnds
<1>1. TypeOK'
  <2>1. CASE forwardTake
    BY <2>1 DEF TypeOK, RoutingTypeOK, PCs, NoSession, ConnInv, Live
  <2>2. CASE forwardWrite
    BY <2>2 DEF TypeOK, RoutingTypeOK, PCs, NoSession, ConnInv, Live
  <2>3. CASE forwardFails
    BY <2>3 DEF TypeOK, RoutingTypeOK, PCs, NoSession, ConnInv, Live
  <2>4. CASE forwardEnds
    BY <2>4 DEF TypeOK, RoutingTypeOK, PCs, NoSession, ConnInv, Live
  <2> QED
    BY <2>1, <2>2, <2>3, <2>4
<1>2. ConnInv'
  BY <1>1 DEF TypeOK, ConnInv, ControlInv, Live
<1>3. ControlInv'
  BY <1>1 DEF TypeOK, ConnInv, ControlInv, RouteInv, ProxyStateTruthful, OfferInv
<1>4. OfferInv'
  BY <1>1 DEF TypeOK, OfferInv, Applying, Configured, ControlInv, RouteInv, NoSession
<1>5. RouteInv'
  BY <1>1 DEF TypeOK, RoutingTypeOK, RouteInv, ProxyStateTruthful, Routed, ControlInv, OfferInv
<1>6. ReadyInv'
  BY <1>1 DEF TypeOK, ReadyInv, DeviceHasAddress, OfferInv, Applying, Configured, ControlInv, NoSession
<1>7. HoldInv'
  BY <1>1 DEF TypeOK, HoldInv, ConnInv, Live, OfferInv, Applying, ReadyInv, NoSession
<1> QED
  BY <1>1, <1>2, <1>3, <1>4, <1>5, <1>6, <1>7

\* Every step keeps the invariant.
LEMMA ClientStep == ClientInv /\ [Next]_vars => ClientInv'
<1> SUFFICES ASSUME ClientInv, [Next]_vars PROVE ClientInv'
  OBVIOUS
<1>1. CASE UNCHANGED vars
  <2> USE <1>1 DEF ClientInv, vars, routing
  <2>1. TypeOK'
    BY DEF TypeOK, RoutingTypeOK
  <2>2. ConnInv' /\ ControlInv' /\ OfferInv'
    BY DEF ConnInv, ControlInv, OfferInv
  <2>3. RouteInv' /\ ReadyInv'
    BY DEF RouteInv, ProxyStateTruthful, Routed, ReadyInv, DeviceHasAddress
  <2>4. HoldInv'
    BY DEF HoldInv
  <2> QED
    BY <2>1, <2>2, <2>3, <2>4
<1>2. CASE Start \/ Stop \/ Stopping
  BY <1>2, ControlStep, FinishStep DEF Stopping
<1>3. CASE TransportStep
  BY <1>3, RunStep, ConnectStep, GreetStep, OfferStep, CreateStep, DeviceStep, RouteStep, ApplyStep
     DEF TransportStep
<1>4. CASE readFails \/ refuseMessage \/ heartbeatFails
  BY <1>4, LoseStep
<1>5. ASSUME NEW ip \in IPs, handleVDHCP(ip) PROVE ClientInv'
  BY <1>5, OfferStep
<1>6. CASE forwardTake \/ Forwarding \/ forwardEnds
  BY <1>6, ForwardStep DEF Forwarding
<1>7. CASE tunFails
  BY <1>7, DeviceStep
<1> QED
  BY <1>1, <1>2, <1>3, <1>4, <1>5, <1>6, <1>7 DEF Next

\* So it holds in every state.
LEMMA ClientAlways == Spec => []ClientInv
  BY ClientInit, ClientStep, PTL DEF Spec

\* Outside SetupClientProxyRouting clientProxyRoute agrees with the routes that
\* are there, whichever commands failed; a route it does not record is one that
\* could not be deleted or goes with the device (tunSetup/tun_route.go).
THEOREM ProxyTruthful == Spec => []ProxyStateTruthful
<1>1. ClientInv => ProxyStateTruthful
  BY DEF ClientInv, RouteInv
<1> QED
  BY <1>1, ClientAlways, PTL

\* When Client.Stop has returned nothing is left: no goroutine, device or
\* connection, and no route or rule but one whose deletion has failed.
THEOREM StopLeavesNothing == Spec => []StopCleansUp
<1>1. ClientInv => StopCleansUp
  BY DEF ClientInv, ControlInv, ConnInv, TypeOK, StopCleansUp, Live
<1> QED
  BY <1>1, ClientAlways, PTL

\* While the session is ready the device has the address of its OFFER, on
\* Windows no other, and the routes are there (Client.configureAddress,
\* handleVDHCP).
THEOREM ReadyConfigured == Spec => []ReadyIsConfigured
<1>1. ClientInv => ReadyIsConfigured
  BY DEF ClientInv, ReadyInv, OfferInv, RouteInv, ProxyStateTruthful, ReadyIsConfigured, Applying
<1> QED
  BY <1>1, ClientAlways, PTL

\* A packet leaves on a connection only while the device has the address that
\* connection was offered, on Windows no other (Client.tunToTCP).
THEOREM PacketsMatch == Spec => PacketsMatchAddress
<1>1. ClientInv /\ [Next]_vars =>
         [forwardWrite => session = NoSession \/ (session.conn = hold /\ DeviceHasAddress)]_vars
  <2> SUFFICES ASSUME ClientInv, forwardWrite, session # NoSession
               PROVE  session.conn = hold /\ DeviceHasAddress
    OBVIOUS
  <2>1. session.conn = hold /\ session.ready
    BY DEF ClientInv, HoldInv, forwardWrite
  <2>2. ctl # "stopped"
    BY DEF ClientInv, ControlInv, forwardWrite
  <2> QED
    BY <2>1, <2>2 DEF ClientInv, ReadyInv
<1> QED
  BY <1>1, ClientAlways, PTL DEF Spec, PacketsMatchAddress
=============================================================================
