----------------------------- MODULE PeerServer -----------------------------
(***************************************************************************)
(* vlan.Server's handling of client sessions: the goroutine that reads     *)
(* each tcpx connection (tcpx.Server.handleConn with the callbacks of      *)
(* vlan/server.go), each peer's send loop, the peerRegistry they share and *)
(* the vdhcp.Manager they call (VDhcpManager).                             *)
(*                                                                         *)
(* A step is what happens between two points where another goroutine can   *)
(* get in: each critical section of the registry or the manager, and each  *)
(* network write, is a step of its own.  A connection may fail at any time *)
(* for any reason (the remote end, a timeout, a bad frame): a failure is   *)
(* seen when a Read or a Write returns an error.  closed is the connection *)
(* closed at this end.                                                     *)
(***************************************************************************)
EXTENDS VDhcpManager

CONSTANTS Conns,         \* the connections ever accepted, each with its ClientPeer
          NoPeer,        \* nil
          MaxDiscovers   \* bound on the DISCOVERs of one connection; the server sets none

ASSUME PeerAssumption ==
    /\ NoPeer \notin Conns
    /\ MaxDiscovers \in Nat

VARIABLES
    pc,        \* where the goroutine of the connection is
    closed,    \* SecureConn.closed
    id,        \* ClientPeer.id, NoClient when empty
    virtualIP, \* ClientPeer.virtualIP, NoIP when empty
    done,      \* the peers whose done channel is closed
    sender,    \* the peers whose send loop runs
    conns,     \* peerRegistry.conns
    ips,       \* peerRegistry.ips
    ids,       \* peerRegistry.ids
    lease,     \* handleDHCPDiscover's lease.IP
    oldPeer,   \* handleDHCPDiscover's oldPeer
    asked      \* DISCOVERs received on the connection

peerVars == << pc, closed, id, virtualIP, done, sender, conns, ips, ids,
               lease, oldPeer, asked >>
vars == << managerVars, peerVars >>

\* none: not accepted.  read: in Read or in a handler without effects here.
\* frame: Read has returned a frame that has effects; the connection may be
\* closed, by another goroutine, before it is handled.
\* acquired, offered, bound: inside handleDHCPDiscover, after that call.
\* failed, shut, removed: inside onTCPDisconnect, Read having failed, after
\* peer.close, after registry.remove.  gone: handleConn has returned.
Handling == {"acquired", "offered", "bound"}
Cleaning == {"failed", "shut", "removed"}
PCs == {"none", "read", "frame", "gone"} \cup Handling \cup Cleaning

TypeOK ==
    /\ ManagerTypeOK
    /\ pc \in [Conns -> PCs]
    /\ closed \in SUBSET Conns
    /\ id \in [Conns -> Clients \cup {NoClient}]
    /\ virtualIP \in [Conns -> Pool \cup {NoIP}]
    /\ done \in SUBSET Conns
    /\ sender \in SUBSET Conns
    /\ conns \in SUBSET Conns
    /\ ips \in [Pool -> Conns \cup {NoPeer}]
    /\ ids \in [Clients -> Conns \cup {NoPeer}]
    /\ lease \in [Conns -> Pool \cup {NoIP}]
    /\ oldPeer \in [Conns -> Conns \cup {NoPeer}]
    /\ asked \in [Conns -> 0 .. MaxDiscovers]

PeerInit ==
    /\ pc = [p \in Conns |-> "none"]
    /\ closed = {}
    /\ id = [p \in Conns |-> NoClient]
    /\ virtualIP = [p \in Conns |-> NoIP]
    /\ done = {}
    /\ sender = {}
    /\ conns = {}
    /\ ips = [a \in Pool |-> NoPeer]
    /\ ids = [c \in Clients |-> NoPeer]
    /\ lease = [p \in Conns |-> NoIP]
    /\ oldPeer = [p \in Conns |-> NoPeer]
    /\ asked = [p \in Conns |-> 0]

Init == ManagerInit /\ PeerInit

Goto(p, from, to) == pc[p] = from /\ pc' = [pc EXCEPT ![p] = to]

\* A frame can be read: the goroutine is in Read on a connection not closed here.
CanRead(p) == pc[p] = "read" /\ p \notin closed

-----------------------------------------------------------------------------
(* Connecting and authenticating.                                          *)

\* The handshake has succeeded; onTCPConnect registers the peer and starts
\* its send loop.
onTCPConnect(p) ==
    /\ Goto(p, "none", "read")
    /\ conns' = conns \cup {p}
    /\ sender' = sender \cup {p}
    /\ UNCHANGED << managerVars, closed, id, virtualIP, done, ips, ids, lease, oldPeer, asked >>

\* Read returns a frame.
readFrame(p) ==
    /\ CanRead(p)
    /\ pc' = [pc EXCEPT ![p] = "frame"]
    /\ UNCHANGED << managerVars, closed, id, virtualIP, done, sender, conns, ips, ids, lease, oldPeer, asked >>

\* A valid TypeAuth frame: setIdentity accepts the first identity, and again
\* only that one.
handleClientAuth(p, c) ==
    /\ Goto(p, "frame", "read")
    /\ id[p] \in {NoClient, c}
    /\ id' = [id EXCEPT ![p] = c]
    /\ UNCHANGED << managerVars, closed, virtualIP, done, sender, conns, ips, ids, lease, oldPeer, asked >>

\* A frame that makes onTCPMessage close the connection: one that does not
\* unpack, an unknown type, VDHCP or IP before Auth, an Auth that does not
\* verify or names another identity.
rejectMessage(p) ==
    /\ Goto(p, "frame", "read")
    /\ closed' = closed \cup {p}
    /\ UNCHANGED << managerVars, id, virtualIP, done, sender, conns, ips, ids, lease, oldPeer, asked >>

-----------------------------------------------------------------------------
(* handleDHCPDiscover.                                                     *)

\* A DISCOVER of an authenticated peer.
Discover(p) ==
    /\ pc[p] = "frame"
    /\ id[p] # NoClient
    /\ asked[p] < MaxDiscovers
    /\ asked' = [asked EXCEPT ![p] = @ + 1]

discoverGranted(p) ==
    /\ Discover(p)
    /\ AcquireRenew(id[p]) \/ AcquireAllocate(id[p])
    /\ lease' = [lease EXCEPT ![p] = leaseByID'[id[p]].ip]
    /\ pc' = [pc EXCEPT ![p] = "acquired"]
    /\ UNCHANGED << closed, id, virtualIP, done, sender, conns, ips, ids, oldPeer >>

\* The pool is exhausted: a NAK is written, and whether that works is ignored.
discoverRefused(p) ==
    /\ Discover(p)
    /\ AcquireExhausted(id[p])
    /\ pc' = [pc EXCEPT ![p] = "read"]
    /\ UNCHANGED << closed, id, virtualIP, done, sender, conns, ips, ids, lease, oldPeer >>

\* The OFFER cannot be encoded; the lease stays as Acquire left it.
encodeOfferFails(p) ==
    /\ Goto(p, "acquired", "read")
    /\ UNCHANGED << managerVars, closed, id, virtualIP, done, sender, conns, ips, ids, lease, oldPeer, asked >>

\* peer.write of the OFFER succeeds: the connection is not closed here.
writeOffer(p) ==
    /\ Goto(p, "acquired", "offered")
    /\ p \notin closed
    /\ UNCHANGED << managerVars, closed, id, virtualIP, done, sender, conns, ips, ids, lease, oldPeer, asked >>

\* peer.write of the OFFER fails; the lease stays too.
writeOfferFails(p) ==
    /\ Goto(p, "acquired", "read")
    /\ closed' = closed \cup {p}
    /\ UNCHANGED << managerVars, id, virtualIP, done, sender, conns, ips, ids, lease, oldPeer, asked >>

bindIP(p) ==
    LET ip == lease[p] IN
    /\ Goto(p, "offered", "bound")
    /\ oldPeer' = [oldPeer EXCEPT ![p] = ips[ip]]
    /\ virtualIP' = [virtualIP EXCEPT ![p] = ip]
    /\ ips' = [ips EXCEPT ![ip] = p]
    /\ ids' = [ids EXCEPT ![id[p]] = p]
    /\ UNCHANGED << managerVars, closed, id, done, sender, conns, lease, asked >>

\* The peer that had the address before is closed, if it is another one.
closeOld(p) ==
    LET superseded == {oldPeer[p]} \ {NoPeer, p} IN
    /\ Goto(p, "bound", "read")
    /\ done' = done \cup superseded
    /\ closed' = closed \cup superseded
    /\ UNCHANGED << managerVars, id, virtualIP, sender, conns, ips, ids, lease, oldPeer, asked >>

-----------------------------------------------------------------------------
(* Disconnecting: onTCPDisconnect and cleanupPeer.                         *)

\* Read fails: the connection is closed, broken or timed out.
readFails(p) ==
    /\ Goto(p, "read", "failed")
    /\ UNCHANGED << managerVars, closed, id, virtualIP, done, sender, conns, ips, ids, lease, oldPeer, asked >>

\* peer.close
cleanupClose(p) ==
    /\ Goto(p, "failed", "shut")
    /\ done' = done \cup {p}
    /\ closed' = closed \cup {p}
    /\ UNCHANGED << managerVars, id, virtualIP, sender, conns, ips, ids, lease, oldPeer, asked >>

\* registry.remove: only the entries that still name this peer.
removeAnyOwner(p) ==
    /\ Goto(p, "shut", "removed")
    /\ conns' = conns \ {p}
    /\ ips' = [a \in Pool |-> IF a = virtualIP[p] THEN NoPeer ELSE ips[a]]
    /\ ids' = [c \in Clients |-> IF c = id[p] THEN NoPeer ELSE ids[c]]
    /\ UNCHANGED << managerVars, closed, id, virtualIP, done, sender, lease, oldPeer, asked >>
removeConnOnly(p) ==
    /\ Goto(p, "shut", "removed")
    /\ conns' = conns \ {p}
    /\ UNCHANGED << managerVars, closed, id, virtualIP, done, sender, ips, ids, lease, oldPeer, asked >>
remove(p) ==
    /\ Goto(p, "shut", "removed")
    /\ conns' = conns \ {p}
    /\ ips' = [a \in Pool |-> IF a = virtualIP[p] /\ ips[a] = p THEN NoPeer ELSE ips[a]]
    /\ ids' = [c \in Clients |-> IF c = id[p] /\ ids[c] = p THEN NoPeer ELSE ids[c]]
    /\ UNCHANGED << managerVars, closed, id, virtualIP, done, sender, lease, oldPeer, asked >>

\* MarkOffline of the peer's client, if it has authenticated.
cleanupMarkIfBound(p) ==
    /\ Goto(p, "removed", "gone")
    /\ IF virtualIP[p] # NoIP THEN MarkOffline(id[p]) ELSE UNCHANGED managerVars
    /\ UNCHANGED << closed, id, virtualIP, done, sender, conns, ips, ids, lease, oldPeer, asked >>
cleanupMark(p) ==
    /\ Goto(p, "removed", "gone")
    /\ IF id[p] # NoClient THEN MarkOffline(id[p]) ELSE UNCHANGED managerVars
    /\ UNCHANGED << closed, id, virtualIP, done, sender, conns, ips, ids, lease, oldPeer, asked >>

-----------------------------------------------------------------------------
(* peerSendLoop.                                                           *)

\* The loop sees done closed and returns.
sendLoopDone(p) ==
    /\ p \in sender
    /\ p \in done
    /\ sender' = sender \ {p}
    /\ UNCHANGED << managerVars, pc, closed, id, virtualIP, done, conns, ips, ids, lease, oldPeer, asked >>

\* Writing a queued packet fails: the loop closes the connection, but not
\* done, and returns.  Packets are queued only for a peer with an address.
sendLoopFails(p) ==
    /\ p \in sender
    /\ virtualIP[p] # NoIP
    /\ sender' = sender \ {p}
    /\ closed' = closed \cup {p}
    /\ UNCHANGED << managerVars, pc, id, virtualIP, done, conns, ips, ids, lease, oldPeer, asked >>

-----------------------------------------------------------------------------
(* sweepDHCPLeases, and time.  A tick is longer than a handler of DISCOVER *)
(* or of a disconnect takes (a write ends within WriteTimeout, 10 s by     *)
(* default; the grace period is 5 min), so none is under way when it ends. *)

sweepDHCPLeases == SweepExpired /\ UNCHANGED peerVars

TimePasses ==
    /\ \A p \in Conns : pc[p] \in {"none", "read", "frame", "gone"}
    /\ Tick
    /\ UNCHANGED peerVars

HandlerStep(p) ==
    \/ encodeOfferFails(p) \/ writeOffer(p) \/ writeOfferFails(p) \/ bindIP(p) \/ closeOld(p)
    \/ cleanupClose(p) \/ remove(p) \/ cleanupMark(p)

Next ==
    \/ \E p \in Conns :
         \/ onTCPConnect(p)
         \/ readFrame(p)
         \/ \E c \in Clients : handleClientAuth(p, c)
         \/ rejectMessage(p)
         \/ discoverGranted(p)
         \/ discoverRefused(p)
         \/ readFails(p)
         \/ HandlerStep(p)
         \/ sendLoopDone(p)
         \/ sendLoopFails(p)
    \/ sweepDHCPLeases
    \/ TimePasses

\* The Go scheduler runs every goroutine; time passes and the ticker of
\* sweepDHCPLeases fires.  Nothing is asked of Read: forwarding a packet can
\* keep a session from reading, which is the subject of Forwarding.
Fairness ==
    /\ \A p \in Conns : WF_vars(HandlerStep(p))
    /\ WF_vars(sweepDHCPLeases)
    /\ WF_vars(TimePasses)

Spec == Init /\ [][Next]_vars /\ Fairness

-----------------------------------------------------------------------------
(* Properties.                                                             *)

Session(p, c) == id[p] = c /\ pc[p] \notin {"none", "gone"}

\* A lease that is online has a session whose cleanup is still to come: no
\* failure (of the OFFER's write, of the send loop, between binding and
\* closing the old peer) leaves a lease online that nobody will mark
\* offline, which would keep its address from the pool forever.
OnlineLeaseHasSession ==
    \A c \in Clients : leaseByID[c].online => \E p \in Conns : Session(p, c)

\* Between Acquire and the end of the handler the client still holds the
\* address it is being offered, though other goroutines mark its lease
\* offline, sweep and allocate meanwhile.
OfferedAddressIsLeased ==
    \A p \in Conns : pc[p] \in Handling => leaseByID[id[p]].ip = lease[p]

\* Of the peers that carry an address, and so may send packets from it, all
\* but the registered one are closed or about to be closed by the handler
\* that replaced them.
SupersededIsClosed ==
    \A p \in Conns :
        virtualIP[p] # NoIP /\ ips[virtualIP[p]] # p
            => \/ p \in done
               \/ \E q \in Conns : pc[q] = "bound" /\ oldPeer[q] = p

\* The registry's entries agree with what the peers say of themselves, and
\* name only peers that have not been cleaned up, so that packets are not
\* queued for a session that has ended.  There is one exception, however many
\* DISCOVERs a connection carries: a peer that has been bound again, to
\* another address, leaves the entry of its earlier address behind.
RegistryAgrees ==
    /\ \A a \in Pool : ips[a] # NoPeer =>
          \/ ips[a] \in conns /\ virtualIP[ips[a]] = a
          \/ asked[ips[a]] > 1 /\ virtualIP[ips[a]] \notin {a, NoIP}
    /\ \A c \in Clients : ids[c] # NoPeer => ids[c] \in conns /\ id[ids[c]] = c
    /\ \A p \in conns : pc[p] \notin {"none", "removed", "gone"}

\* A session that has an address and has not been closed holds the lease of
\* that address: the README says the client's key decides its identity, and
\* that only another key makes the server see another device and assign
\* another address (README.md:214).
LiveSessionHoldsLease ==
    \A p \in Conns :
        virtualIP[p] # NoIP /\ CanRead(p) /\ ips[virtualIP[p]] = p
            => leaseByID[id[p]].ip = virtualIP[p]

\* A client with no session left gives its address back in the end, unless it
\* comes back.
LeaseReclaimed ==
    \A c \in Clients :
        (\A p \in Conns : ~Session(p, c)) ~>
            (leaseByID[c].ip = NoIP \/ \E p \in Conns : Session(p, c))
=============================================================================
