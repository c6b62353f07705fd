---------------------------- MODULE ProxyRouting ----------------------------
(***************************************************************************)
(* The routes of a client that sends all its traffic through the tunnel    *)
(* (tunSetup/tun_route.go and the commands of tun_linux.go and             *)
(* tun_windows.go): a host route that keeps the server reachable through   *)
(* the real gateway, two half-default routes and the DNS servers of the    *)
(* TUN device, the firewall rules of tun_windows.go, the machine's own     *)
(* default route, and clientProxyRoute, the program's own record.          *)
(*                                                                         *)
(* Any command may fail, those that delete too; a failed deletion is       *)
(* logged or ignored, and what it was to delete stays.  What names the     *)
(* device goes when the device goes.  The machine stays in one network;    *)
(* the server always offers DNS servers.                                   *)
(***************************************************************************)
VARIABLES
    build,         \* the file that is compiled: tun_linux.go or tun_windows.go
    installed,     \* what is there of the client's own
    defaultRoute,  \* the machine's own default route is there
    proxyActive,   \* clientProxyRoute.active
    stuck          \* history: what is there because deleting it has failed

routing == << build, installed, defaultRoute, proxyActive, stuck >>

\* 0.0.0.0/1 and 128.0.0.0/1; the first is added first.
Halves == {"low", "high"}
OnDevice == Halves \cup {"dns"}
Things == OnDevice \cup {"host", "firewall"}

RoutingTypeOK ==
    /\ build \in {"linux", "windows"}
    /\ installed \in SUBSET Things
    /\ stuck \in SUBSET installed
    /\ defaultRoute \in BOOLEAN
    /\ proxyActive \in BOOLEAN

RoutingInit ==
    /\ build \in {"linux", "windows"}
    /\ installed = {} /\ stuck = {}
    /\ defaultRoute = TRUE /\ proxyActive = FALSE

\* The server, whose address is in the lower half, can be reached: the host
\* route leads to it, or the machine's default route does and nothing leads
\* its packets into the tunnel.
ServerReachable == "host" \in installed \/ (defaultRoute /\ "low" \notin installed)

-----------------------------------------------------------------------------
(* The commands.                                                           *)

Adds(S) == installed' = installed \cup S /\ stuck' = stuck \ S

\* A failing command leaves these there.
Leaves(there) == installed' = there /\ stuck' = stuck \cap there

\* S is deleted from what is there; any of the deletions may fail.
Deletes(there, S) ==
    \E kept \in SUBSET (S \cap there) :
        /\ installed' = (there \ S) \cup kept
        /\ stuck' = ((stuck \cap there) \ S) \cup kept

\* ip route replace; on Windows the old default route is removed first, and
\* New-NetRoute may then fail.
AddDefaultRoute ==
    defaultRoute' \in {TRUE, defaultRoute} \cup IF build = "windows" THEN {FALSE} ELSE {}

\* On Linux nothing is to be done.  On Windows the rules are replaced; a rule
\* that cannot be added need not make the script fail.
AllowTunTraffic ==
    /\ IF build = "windows"
         THEN \E S \in SUBSET {"firewall"} : Adds(S)
         ELSE UNCHANGED << installed, stuck >>
    /\ UNCHANGED << build, defaultRoute, proxyActive >>

AllowTunTrafficFails == build = "windows" /\ AllowTunTraffic

-----------------------------------------------------------------------------
(* SetupClientProxyRouting, command by command.                            *)

\* The real gateway is that of the default route.
AddHostRoute ==
    /\ defaultRoute
    /\ Adds({"host"})
    /\ UNCHANGED << build, defaultRoute, proxyActive >>

\* The server's name is not resolved, there is no default route, or the route
\* is not added; on Windows the one of an earlier connection is removed first.
AddHostRouteFails ==
    /\ Leaves(installed) \/ (build = "windows" /\ Leaves(installed \ {"host"}))
    /\ UNCHANGED << build, defaultRoute, proxyActive >>

AddSplitDefaultRoutesToTun ==
    Adds(Halves) /\ UNCHANGED << build, defaultRoute, proxyActive >>

\* The second route may fail when the first is there; on Windows each is
\* removed before it is added.  Only the host route is taken back.
AddSplitFails(device) ==
    LET low == installed \cup {"low"} IN
    /\ \E there \in {installed}
                \cup (IF device THEN {low} ELSE {})
                \cup (IF device /\ build = "windows"
                        THEN {installed \ {"low"}, low \ {"high"}} ELSE {}) :
          Deletes(there, {"host"})
    /\ UNCHANGED << build, defaultRoute, proxyActive >>

\* The last step; with it the record becomes active.  Linux without resolvectl
\* has no DNS servers of a device.
SetInterfaceDNS ==
    /\ Adds({"dns"}) \/ (build = "linux" /\ Adds({}))
    /\ proxyActive' = TRUE
    /\ UNCHANGED << build, defaultRoute >>

\* The servers may be set and the search domain not.  The routes are taken
\* back, the servers are not.
SetInterfaceDNSFailsKeepingSplit(device) ==
    /\ \E there \in {installed, installed \cup IF device THEN {"dns"} ELSE {}} :
          Deletes(there, {"host"})
    /\ UNCHANGED << build, defaultRoute, proxyActive >>
SetInterfaceDNSFails(device) ==
    /\ \E there \in {installed, installed \cup IF device THEN {"dns"} ELSE {}} :
          Deletes(there, Halves \cup {"host"})
    /\ UNCHANGED << build, defaultRoute, proxyActive >>

\* Nothing unless active; whatever fails, active is cleared.
CleanupClientProxyRouting ==
    /\ IF proxyActive
         THEN Deletes(installed, OnDevice \cup {"host"}) /\ AddDefaultRoute
         ELSE UNCHANGED << installed, stuck, defaultRoute >>
    /\ proxyActive' = FALSE
    /\ UNCHANGED build

-----------------------------------------------------------------------------
\* The device is closed; its routes and its servers disappear with it.
DeviceGone ==
    /\ Leaves(installed \ OnDevice)
    /\ UNCHANGED << build, defaultRoute, proxyActive >>

\* CleanupClientProxyRouting, CleanupTunTraffic and the end of the device.
StopsRouting ==
    /\ Deletes(installed \ OnDevice, {"firewall"} \cup IF proxyActive THEN {"host"} ELSE {})
    /\ IF proxyActive THEN AddDefaultRoute ELSE UNCHANGED defaultRoute
    /\ proxyActive' = FALSE
    /\ UNCHANGED build
=============================================================================
