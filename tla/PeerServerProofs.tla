-------------------------- MODULE PeerServerProofs --------------------------
(***************************************************************************)
(* The session handling of vlan.Server, for any number of clients,         *)
(* connections and addresses.  PeerInv is the inductive invariant; each    *)
(* part of it says what one piece of state owes to another:                *)
(*   SessionInv     an online lease has a session that will clean it up;   *)
(*   HandlingInv    a handler holds a lease that cannot be swept under it; *)
(*   CleaningInv    a session past peer.close has its done channel closed; *)
(*   SupersededInv  a replaced session is closed or about to be;           *)
(*   IdentityInv    ids names registered peers by their own identity.      *)
(***************************************************************************)
EXTENDS PeerServer, VDhcpLemmas

SessionInv == OnlineLeaseHasSession

HandlingInv ==
    \A p \in Conns : pc[p] \in Handling =>
        /\ id[p] \in Clients
        /\ lease[p] \in Pool
        /\ leaseByID[id[p]].ip = lease[p]
        /\ leaseByID[id[p]].online \/ leaseByID[id[p]].left # Expired

CleaningInv ==
    \A p \in Conns : /\ pc[p] \in {"shut", "removed", "gone"} => p \in done
                     /\ p \in conns <=> pc[p] \notin {"none", "removed", "gone"}

SupersededInv ==
    \A p \in Conns :
        virtualIP[p] # NoIP /\ ips[virtualIP[p]] # p
            => \/ p \in done
               \/ \E q \in Conns : q # p /\ pc[q] = "bound" /\ oldPeer[q] = p

IdentityInv ==
    \A c \in Clients : ids[c] # NoPeer => ids[c] \in conns /\ id[ids[c]] = c

PeerInv ==
    /\ TypeOK /\ ManagerInv
    /\ SessionInv /\ HandlingInv /\ CleaningInv /\ SupersededInv /\ IdentityInv

\* The server starts with no sessions and no leases.
LEMMA PeerInvInit == Init => PeerInv
<1> SUFFICES ASSUME Init PROVE PeerInv
  OBVIOUS
<1>1. TypeOK
  BY PoolBounds, PeerAssumption
     DEF Init, PeerInit, ManagerInit, TypeOK, ManagerTypeOK, PCs
<1>2. \A c \in Clients : leaseByID[c] = NoLease
  BY DEF Init, PeerInit, ManagerInit
<1>3. ManagerInv /\ SessionInv
  BY <1>1, <1>2, LeaseFacts DEF ManagerInv, MapsAgree, Inverses, SessionInv,
     OnlineLeaseHasSession, TypeOK, Init, ManagerInit
<1> QED
  BY <1>1, <1>3 DEF PeerInv, Init, PeerInit, HandlingInv, CleaningInv, SupersededInv, IdentityInv, Handling

-----------------------------------------------------------------------------
(* Steps that leave the manager alone.                                     *)

\* Registering a new connection.
LEMMA ConnectStep ==
    ASSUME PeerInv, NEW p \in Conns, onTCPConnect(p)
    PROVE  PeerInv'
<1> USE DEF PeerInv, onTCPConnect, Goto, managerVars
<1>1. TypeOK' /\ ManagerInv'
  BY DEF TypeOK, ManagerInv, ManagerTypeOK, MapsAgree, Inverses, PCs
<1>2. pc' = [pc EXCEPT ![p] = "read"] /\ pc[p] = "none" /\ pc \in [Conns -> PCs]
  BY DEF TypeOK
<1>3. SessionInv'
  BY <1>2 DEF SessionInv, OnlineLeaseHasSession, Session
<1>4. HandlingInv'
  BY <1>2 DEF HandlingInv, Handling
<1>5. CleaningInv'
  BY <1>2 DEF CleaningInv
<1>6. SupersededInv'
  BY <1>2 DEF SupersededInv
<1>7. IdentityInv'
  BY DEF IdentityInv
<1> QED
  BY <1>1, <1>3, <1>4, <1>5, <1>6, <1>7

\* Authenticating.
LEMMA AuthStep ==
    ASSUME PeerInv, NEW p \in Conns, NEW c \in Clients, handleClientAuth(p, c)
    PROVE  PeerInv'
<1> USE DEF PeerInv, handleClientAuth, Goto, managerVars
<1>1. TypeOK' /\ ManagerInv'
  BY DEF TypeOK, ManagerInv, ManagerTypeOK, MapsAgree, Inverses, PCs
<1>2. /\ id' = [id EXCEPT ![p] = c] /\ id \in [Conns -> Clients \cup {NoClient}]
      /\ pc[p] = "frame" /\ pc' = [pc EXCEPT ![p] = "read"] /\ pc \in [Conns -> PCs]
  BY DEF TypeOK
<1>3. SessionInv'
  <2> SUFFICES ASSUME NEW d \in Clients, leaseByID[d].online
               PROVE  \E q \in Conns : Session(q, d)'
    BY DEF SessionInv, OnlineLeaseHasSession
  <2>1. PICK q \in Conns : Session(q, d)
    BY DEF SessionInv, OnlineLeaseHasSession
  <2>2. id[p] = d => c = d
    BY ManagerAssumption
  <2>3. Session(q, d)'
    BY <1>2, <2>1, <2>2 DEF Session
  <2> QED
    BY <2>3
<1>4. HandlingInv'
  BY <1>2 DEF HandlingInv, Handling
<1>5. CleaningInv' /\ SupersededInv'
  BY <1>2 DEF CleaningInv, SupersededInv
<1>6. IdentityInv'
  BY <1>2, ManagerAssumption DEF IdentityInv, TypeOK
<1> QED
  BY <1>1, <1>3, <1>4, <1>5, <1>6

\* A send loop that ends: closed and sender appear
\* in no part of the invariant but the types.
LEMMA CloseStep ==
    ASSUME PeerInv, closed' \in SUBSET Conns, sender' \in SUBSET Conns,
           UNCHANGED << managerVars, pc, id, virtualIP, done, conns, ips, ids, lease, oldPeer, asked >>
    PROVE  PeerInv'
<1> USE DEF PeerInv, managerVars
<1>1. TypeOK' /\ ManagerInv'
  BY DEF TypeOK, ManagerInv, ManagerTypeOK, MapsAgree, Inverses
<1>2. SessionInv' /\ HandlingInv' /\ CleaningInv'
  BY DEF SessionInv, OnlineLeaseHasSession, Session, HandlingInv, CleaningInv
<1>3. SupersededInv' /\ IdentityInv'
  BY DEF SupersededInv, IdentityInv
<1> QED
  BY <1>1, <1>2, <1>3

\* The steps of a goroutine that only move it on: to a frame, inside DISCOVER,
\* or to the start of its cleanup.
LEMMA MoveStep ==
    ASSUME PeerInv, NEW p \in Conns,
           \/ Goto(p, "read", "frame")
           \/ Goto(p, "frame", "read")
           \/ Goto(p, "acquired", "offered")
           \/ Goto(p, "acquired", "read")
           \/ Goto(p, "read", "failed"),
           closed' \in SUBSET Conns,
           UNCHANGED << managerVars, id, virtualIP, done, sender, conns, ips, ids, lease, oldPeer, asked >>
    PROVE  PeerInv'
<1> USE DEF PeerInv, managerVars
<1>1. PICK from \in {"acquired", "read", "frame"}, to \in {"offered", "read", "frame", "failed"} :
        /\ pc[p] = from /\ pc' = [pc EXCEPT ![p] = to]
        /\ to \in Handling => from \in Handling
  BY DEF Goto, Handling
<1>2. pc \in [Conns -> PCs]
  BY DEF TypeOK
<1>3. TypeOK' /\ ManagerInv'
  BY <1>1 DEF TypeOK, ManagerInv, ManagerTypeOK, MapsAgree, Inverses, PCs, Handling, Cleaning
<1>4. SessionInv'
  BY <1>1, <1>2 DEF SessionInv, OnlineLeaseHasSession, Session
<1>5. HandlingInv'
  BY <1>1, <1>2 DEF HandlingInv
<1>6. CleaningInv'
  BY <1>1, <1>2 DEF CleaningInv
<1>7. SupersededInv'
  BY <1>1, <1>2 DEF SupersededInv
<1>8. IdentityInv'
  BY DEF IdentityInv
<1> QED
  BY <1>3, <1>4, <1>5, <1>6, <1>7, <1>8

\* Binding an address: whoever had it becomes the one this handler will close.
LEMMA BindStep ==
    ASSUME PeerInv, NEW p \in Conns, bindIP(p)
    PROVE  PeerInv'
<1> USE DEF PeerInv, managerVars
<1>1. /\ pc[p] = "offered" /\ pc' = [pc EXCEPT ![p] = "bound"]
      /\ pc \in [Conns -> PCs]
  BY DEF bindIP, Goto, TypeOK
<1>2. id[p] \in Clients /\ lease[p] \in Pool
  BY <1>1 DEF HandlingInv, Handling
<1>3. /\ oldPeer' = [oldPeer EXCEPT ![p] = ips[lease[p]]]
      /\ virtualIP' = [virtualIP EXCEPT ![p] = lease[p]]
      /\ ips' = [ips EXCEPT ![lease[p]] = p]
      /\ ids' = [ids EXCEPT ![id[p]] = p]
      /\ UNCHANGED << managerVars, closed, id, done, sender, conns, lease, asked >>
  BY DEF bindIP
<1>4. TypeOK' /\ ManagerInv'
  BY <1>1, <1>2, <1>3 DEF TypeOK, ManagerInv, ManagerTypeOK, MapsAgree, Inverses, PCs, Handling
<1>5. SessionInv'
  BY <1>1, <1>3 DEF SessionInv, OnlineLeaseHasSession, Session
<1>6. HandlingInv'
  BY <1>1, <1>3 DEF HandlingInv, Handling
<1>7. CleaningInv'
  BY <1>1, <1>3 DEF CleaningInv
<1>8. SupersededInv'
  <2> SUFFICES ASSUME NEW q \in Conns, virtualIP'[q] # NoIP, ips'[virtualIP'[q]] # q, q \notin done
               PROVE  \E r \in Conns : r # q /\ pc'[r] = "bound" /\ oldPeer'[r] = q
    BY <1>3 DEF SupersededInv
  <2>1. virtualIP \in [Conns -> Pool \cup {NoIP}] /\ ips \in [Pool -> Conns \cup {NoPeer}]
        /\ oldPeer \in [Conns -> Conns \cup {NoPeer}]
    BY DEF TypeOK
  <2>2. q # p /\ virtualIP[q] = virtualIP'[q] /\ virtualIP[q] \in Pool
    BY <1>2, <1>3, <2>1
  <2>3. CASE ips[virtualIP[q]] = q
    <3>1. virtualIP[q] = lease[p]
      BY <1>2, <1>3, <2>1, <2>2, <2>3
    <3>2. pc'[p] = "bound" /\ oldPeer'[p] = q
      BY <1>1, <1>3, <2>1, <2>3, <3>1
    <3> QED
      BY <2>2, <3>2
  <2>4. CASE ips[virtualIP[q]] # q
    <3>1. PICK r \in Conns : r # q /\ pc[r] = "bound" /\ oldPeer[r] = q
      BY <2>2, <2>4 DEF SupersededInv
    <3>2. r # p
      BY <1>1, <3>1
    <3> QED
      BY <1>1, <1>3, <2>1, <3>1, <3>2
  <2> QED
    BY <2>3, <2>4
<1>9. IdentityInv'
  BY <1>1, <1>2, <1>3 DEF IdentityInv, CleaningInv, TypeOK
<1> QED
  BY <1>4, <1>5, <1>6, <1>7, <1>8, <1>9

\* Closing the peer that had the address.
LEMMA CloseOldStep ==
    ASSUME PeerInv, NEW p \in Conns, closeOld(p)
    PROVE  PeerInv'
<1> USE DEF PeerInv, managerVars
<1>1. /\ pc[p] = "bound" /\ pc' = [pc EXCEPT ![p] = "read"]
      /\ pc \in [Conns -> PCs]
  BY DEF closeOld, Goto, TypeOK
<1>2. /\ done' = done \cup ({oldPeer[p]} \ {NoPeer, p})
      /\ closed' = closed \cup ({oldPeer[p]} \ {NoPeer, p})
      /\ UNCHANGED << managerVars, id, virtualIP, sender, conns, ips, ids, lease, oldPeer, asked >>
  BY DEF closeOld
<1>3. TypeOK' /\ ManagerInv'
  BY <1>1, <1>2 DEF TypeOK, ManagerInv, ManagerTypeOK, MapsAgree, Inverses, PCs
<1>4. SessionInv' /\ HandlingInv' /\ IdentityInv'
  BY <1>1, <1>2 DEF SessionInv, OnlineLeaseHasSession, Session, HandlingInv, Handling, IdentityInv
<1>5. CleaningInv'
  BY <1>1, <1>2 DEF CleaningInv
<1>6. SupersededInv'
  BY <1>1, <1>2, PeerAssumption DEF SupersededInv
<1> QED
  BY <1>3, <1>4, <1>5, <1>6

\* peer.close of a session that has failed.
LEMMA CleanupCloseStep ==
    ASSUME PeerInv, NEW p \in Conns, cleanupClose(p)
    PROVE  PeerInv'
<1> USE DEF PeerInv, managerVars
<1>1. /\ pc[p] = "failed" /\ pc' = [pc EXCEPT ![p] = "shut"]
      /\ pc \in [Conns -> PCs]
      /\ done' = done \cup {p} /\ closed' = closed \cup {p}
      /\ UNCHANGED << managerVars, id, virtualIP, sender, conns, ips, ids, lease, oldPeer, asked >>
  BY DEF cleanupClose, Goto, TypeOK
<1>2. TypeOK' /\ ManagerInv'
  BY <1>1 DEF TypeOK, ManagerInv, ManagerTypeOK, MapsAgree, Inverses, PCs, Cleaning
<1>3. SessionInv' /\ HandlingInv' /\ IdentityInv'
  BY <1>1 DEF SessionInv, OnlineLeaseHasSession, Session, HandlingInv, Handling, IdentityInv
<1>4. CleaningInv' /\ SupersededInv'
  BY <1>1 DEF CleaningInv, SupersededInv
<1> QED
  BY <1>2, <1>3, <1>4

\* Taking the session out of the registry.
LEMMA RemoveStep ==
    ASSUME PeerInv, NEW p \in Conns, remove(p)
    PROVE  PeerInv'
<1> USE DEF PeerInv, managerVars
<1>1. /\ pc[p] = "shut" /\ pc' = [pc EXCEPT ![p] = "removed"]
      /\ pc \in [Conns -> PCs]
      /\ conns' = conns \ {p}
      /\ ips' = [a \in Pool |-> IF a = virtualIP[p] /\ ips[a] = p THEN NoPeer ELSE ips[a]]
      /\ ids' = [c \in Clients |-> IF c = id[p] /\ ids[c] = p THEN NoPeer ELSE ids[c]]
      /\ UNCHANGED << managerVars, closed, id, virtualIP, done, sender, lease, oldPeer, asked >>
  BY DEF remove, Goto, TypeOK
<1>2. TypeOK' /\ ManagerInv'
  BY <1>1 DEF TypeOK, ManagerInv, ManagerTypeOK, MapsAgree, Inverses, PCs, Cleaning
<1>3. SessionInv' /\ HandlingInv'
  BY <1>1 DEF SessionInv, OnlineLeaseHasSession, Session, HandlingInv, Handling
<1>4. CleaningInv'
  BY <1>1 DEF CleaningInv
<1>5. SupersededInv'
  <2> SUFFICES ASSUME NEW q \in Conns, virtualIP[q] # NoIP, ips'[virtualIP[q]] # q, q \notin done
               PROVE  \E r \in Conns : r # q /\ pc'[r] = "bound" /\ oldPeer[r] = q
    BY <1>1 DEF SupersededInv
  <2>1. p \in done /\ q # p /\ virtualIP[q] \in Pool
    BY <1>1 DEF CleaningInv, TypeOK
  <2>2. ips[virtualIP[q]] # q
    BY <1>1, <2>1
  <2>3. PICK r \in Conns : r # q /\ pc[r] = "bound" /\ oldPeer[r] = q
    BY <2>2 DEF SupersededInv
  <2> QED
    BY <1>1, <2>3
<1>6. IdentityInv'
  BY <1>1 DEF IdentityInv
<1> QED
  BY <1>2, <1>3, <1>4, <1>5, <1>6

-----------------------------------------------------------------------------
(* Steps that call the manager.                                            *)

\* A lease that a handler relies on is not swept.
LEMMA HandledNotSwept ==
    ASSUME PeerInv, NEW p \in Conns, pc[p] \in Handling
    PROVE  id[p] \notin Sweepable
BY DEF PeerInv, HandlingInv, Sweepable

\* Every step that releases leases by a sweep; a session may go back to Read.
LEMMA SweepStep ==
    ASSUME PeerInv, asked' \in [Conns -> 0 .. MaxDiscovers],
           leaseByID' = LeasesWithout(Sweepable), ownerByIP' = OwnersWithout(Sweepable),
           next' = next,
           pc' = pc \/ \E p \in Conns : Goto(p, "frame", "read"),
           UNCHANGED << closed, id, virtualIP, done, sender, conns, ips, ids, lease, oldPeer >>
    PROVE  PeerInv'
<1> USE DEF PeerInv
<1>1. ManagerInv'
  BY ReleasePreserves, SweepableFacts
<1>0. /\ pc \in [Conns -> PCs] /\ pc' \in [Conns -> PCs]
      /\ \A q \in Conns : pc'[q] = pc[q] \/ (pc[q] = "frame" /\ pc'[q] = "read")
  BY DEF TypeOK, PCs, Goto
<1>2. TypeOK'
  BY <1>0, <1>1 DEF TypeOK, ManagerInv
<1>3. \A c \in Clients : leaseByID'[c].online => leaseByID[c].online
  BY LeaseFacts DEF LeasesWithout
<1>4. SessionInv'
  <2> SUFFICES ASSUME NEW d \in Clients, leaseByID'[d].online
               PROVE  \E q \in Conns : Session(q, d)'
    BY DEF SessionInv, OnlineLeaseHasSession
  <2>1. PICK q \in Conns : Session(q, d)
    BY <1>3 DEF SessionInv, OnlineLeaseHasSession
  <2>2. Session(q, d)'
    BY <1>0, <2>1 DEF Session
  <2> QED
    BY <2>2
<1>5. HandlingInv'
  <2>0. \A q \in Conns : pc'[q] \in Handling => pc[q] \in Handling
    BY <1>0 DEF Handling
  <2> SUFFICES ASSUME NEW q \in Conns, pc[q] \in Handling
               PROVE  /\ id[q] \in Clients /\ lease[q] \in Pool
                      /\ leaseByID'[id[q]].ip = lease[q]
                      /\ leaseByID'[id[q]].online \/ leaseByID'[id[q]].left # Expired
    BY <2>0 DEF HandlingInv
  <2>1. id[q] \in Clients /\ leaseByID'[id[q]] = leaseByID[id[q]]
    BY HandledNotSwept DEF HandlingInv, LeasesWithout
  <2> QED
    BY <2>1 DEF HandlingInv
<1>6. CleaningInv' /\ IdentityInv'
  BY <1>0 DEF CleaningInv, IdentityInv
<1>7. SupersededInv'
  BY <1>0 DEF SupersededInv
<1> QED
  BY <1>1, <1>2, <1>4, <1>5, <1>6, <1>7

\* A DISCOVER that is granted an address.
LEMMA GrantStep ==
    ASSUME PeerInv, NEW p \in Conns, discoverGranted(p)
    PROVE  PeerInv'
<1> USE DEF PeerInv
<1> DEFINE L == LeasesWithout(Sweepable)
           c == id[p]
<1>1. /\ pc[p] = "frame" /\ pc' = [pc EXCEPT ![p] = "acquired"] /\ pc \in [Conns -> PCs]
      /\ c \in Clients
      /\ asked' \in [Conns -> 0 .. MaxDiscovers]
      /\ lease' = [lease EXCEPT ![p] = leaseByID'[c].ip]
      /\ UNCHANGED << closed, id, virtualIP, done, sender, conns, ips, ids, oldPeer >>
  BY PeerAssumption DEF discoverGranted, Discover, TypeOK
<1>2. L \in Leases
  BY WithoutAgrees, SweepableFacts
<1>3. /\ ManagerInv'
      /\ leaseByID'[c].ip \in Pool
      /\ leaseByID'[c].online
      /\ \A d \in Clients \ {c} : leaseByID'[d] = L[d]
      /\ HasLease(c) /\ c \notin Sweepable => leaseByID'[c].ip = leaseByID[c].ip
  <2>1. CASE AcquireRenew(c)
    <3>1. ManagerInv' /\ leaseByID'[c] = Granted(leaseByID[c].ip)
      BY <1>1, <2>1, RenewPreserves
    <3>2. leaseByID[c].ip \in Pool
      BY <1>1, <2>1, HasLeaseType, LeaseFacts DEF AcquireRenew, ManagerInv
    <3>3. \A d \in Clients \ {c} : leaseByID'[d] = L[d]
      BY <1>2, <2>1 DEF AcquireRenew, Leases
    <3> QED
      BY <3>1, <3>2, <3>3, LeaseFacts
  <2>2. CASE AcquireAllocate(c)
    <3>1. ManagerInv' /\ ~(HasLease(c) /\ c \notin Sweepable)
      BY <1>1, <2>2, AllocatePreserves DEF AcquireAllocate, AllocatesFor
    <3>2. PICK a \in Pool \ Reserved : leaseByID' = [L EXCEPT ![c] = Granted(a)]
      BY <1>1, <2>2, AllocatePreserves
    <3>3. leaseByID'[c] = Granted(a) /\ \A d \in Clients \ {c} : leaseByID'[d] = L[d]
      BY <1>1, <1>2, <3>2 DEF Leases
    <3> QED
      BY <3>1, <3>3, LeaseFacts
  <2> QED
    BY <2>1, <2>2 DEF discoverGranted
<1>4. TypeOK'
  BY <1>1, <1>3 DEF TypeOK, ManagerInv, PCs, Handling
<1>5. SessionInv'
  <2> SUFFICES ASSUME NEW d \in Clients, leaseByID'[d].online
               PROVE  \E q \in Conns : Session(q, d)'
    BY DEF SessionInv, OnlineLeaseHasSession
  <2>1. CASE d = c
    BY <1>1, <2>1 DEF Session
  <2>2. CASE d # c
    <3>1. leaseByID[d].online
      BY <1>3, <2>2, LeaseFacts DEF LeasesWithout
    <3>2. PICK q \in Conns : Session(q, d)
      BY <3>1 DEF SessionInv, OnlineLeaseHasSession
    <3> QED
      BY <1>1, <3>2 DEF Session
  <2> QED
    BY <2>1, <2>2
<1>6. HandlingInv'
  <2> SUFFICES ASSUME NEW q \in Conns, pc'[q] \in Handling
               PROVE  /\ id[q] \in Clients /\ lease'[q] \in Pool
                      /\ leaseByID'[id[q]].ip = lease'[q]
                      /\ leaseByID'[id[q]].online \/ leaseByID'[id[q]].left # Expired
    BY <1>1 DEF HandlingInv
  <2>1. CASE q = p
    BY <1>1, <1>3, <2>1 DEF TypeOK
  <2>2. CASE q # p
    <3>1. pc[q] \in Handling /\ lease'[q] = lease[q]
      BY <1>1, <2>2
    <3>2. /\ id[q] \in Clients /\ lease[q] \in Pool /\ leaseByID[id[q]].ip = lease[q]
          /\ leaseByID[id[q]].online \/ leaseByID[id[q]].left # Expired
          /\ id[q] \notin Sweepable
      BY <3>1, HandledNotSwept DEF HandlingInv
    <3>3. HasLease(id[q]) /\ L[id[q]] = leaseByID[id[q]]
      BY <3>2, NoIPAssumption DEF HasLease, LeasesWithout
    <3> QED
      BY <1>3, <3>1, <3>2, <3>3
  <2> QED
    BY <2>1, <2>2
<1>7. CleaningInv' /\ IdentityInv'
  BY <1>1 DEF CleaningInv, IdentityInv
<1>8. SupersededInv'
  BY <1>1 DEF SupersededInv
<1> QED
  BY <1>3, <1>4, <1>5, <1>6, <1>7, <1>8

\* Marking the client of an ending session offline.
LEMMA MarkStep ==
    ASSUME PeerInv, NEW p \in Conns, cleanupMark(p)
    PROVE  PeerInv'
<1> USE DEF PeerInv
<1>1. /\ pc[p] = "removed" /\ pc' = [pc EXCEPT ![p] = "gone"] /\ pc \in [Conns -> PCs]
      /\ UNCHANGED << closed, id, virtualIP, done, sender, conns, ips, ids, lease, oldPeer, asked >>
  BY DEF cleanupMark, Goto, TypeOK
<1>2. /\ ManagerInv'
      /\ \A d \in Clients : leaseByID'[d].ip = leaseByID[d].ip
      /\ \A d \in Clients \ {id[p]} : leaseByID'[d] = leaseByID[d]
      /\ id[p] \in Clients => ~leaseByID'[id[p]].online
      /\ id[p] \in Clients /\ HasLease(id[p]) => leaseByID'[id[p]].left = OfflineGrace
  <2>1. CASE id[p] = NoClient
    BY <2>1, ManagerAssumption
       DEF cleanupMark, managerVars, ManagerInv, ManagerTypeOK, MapsAgree, Inverses
  <2>2. CASE id[p] # NoClient
    <3>1. id[p] \in Clients /\ MarkOffline(id[p])
      BY <2>2 DEF cleanupMark, TypeOK
    <3> QED
      BY <3>1, MarkOfflinePreserves
  <2> QED
    BY <2>1, <2>2
<1>3. TypeOK'
  BY <1>1, <1>2 DEF TypeOK, ManagerInv, PCs
<1>4. SessionInv'
  <2> SUFFICES ASSUME NEW d \in Clients, leaseByID'[d].online
               PROVE  \E q \in Conns : Session(q, d)'
    BY DEF SessionInv, OnlineLeaseHasSession
  <2>1. d # id[p] /\ leaseByID[d].online
    BY <1>2
  <2>2. PICK q \in Conns : Session(q, d)
    BY <2>1 DEF SessionInv, OnlineLeaseHasSession
  <2> QED
    BY <1>1, <2>1, <2>2 DEF Session
<1>5. HandlingInv'
  <2> SUFFICES ASSUME NEW q \in Conns, pc'[q] \in Handling
               PROVE  /\ id[q] \in Clients /\ lease[q] \in Pool
                      /\ leaseByID'[id[q]].ip = lease[q]
                      /\ leaseByID'[id[q]].online \/ leaseByID'[id[q]].left # Expired
    BY <1>1 DEF HandlingInv
  <2>1. pc[q] \in Handling
    BY <1>1 DEF Handling
  <2>2. /\ id[q] \in Clients /\ lease[q] \in Pool /\ leaseByID[id[q]].ip = lease[q]
        /\ leaseByID[id[q]].online \/ leaseByID[id[q]].left # Expired
    BY <2>1 DEF HandlingInv
  <2>3. HasLease(id[q]) /\ OfflineGrace # Expired
    BY <2>2, ManagerAssumption, NoIPAssumption DEF HasLease, Expired
  <2> QED
    BY <1>2, <2>2, <2>3
<1>6. CleaningInv' /\ IdentityInv'
  BY <1>1 DEF CleaningInv, IdentityInv
<1>7. SupersededInv'
  BY <1>1 DEF SupersededInv
<1> QED
  BY <1>2, <1>3, <1>4, <1>5, <1>6, <1>7

\* Time passes only while no handler is under way.
LEMMA TimeStep ==
    ASSUME PeerInv, TimePasses
    PROVE  PeerInv'
<1> USE DEF PeerInv
<1>1. /\ ManagerInv'
      /\ \A c \in Clients : leaseByID'[c].online = leaseByID[c].online
  BY TickPreserves DEF TimePasses
<1>2. UNCHANGED peerVars /\ \A p \in Conns : pc[p] \notin Handling
  BY DEF TimePasses, Handling
<1> USE DEF peerVars
<1>3. TypeOK'
  BY <1>1, <1>2 DEF TypeOK, ManagerInv
<1>4. SessionInv'
  BY <1>1, <1>2 DEF SessionInv, OnlineLeaseHasSession, Session
<1>5. HandlingInv' /\ CleaningInv'
  BY <1>2 DEF HandlingInv, CleaningInv
<1>6. SupersededInv' /\ IdentityInv'
  BY <1>2 DEF SupersededInv, IdentityInv
<1> QED
  BY <1>1, <1>3, <1>4, <1>5, <1>6

-----------------------------------------------------------------------------
(* The theorems.                                                           *)

\* Every step of the server keeps the invariant.
LEMMA PeerStep == PeerInv /\ [Next]_vars => PeerInv'
<1> SUFFICES ASSUME PeerInv, [Next]_vars PROVE PeerInv'
  OBVIOUS
<1>0. closed \in SUBSET Conns /\ sender \in SUBSET Conns /\ asked \in [Conns -> 0 .. MaxDiscovers]
  BY DEF PeerInv, TypeOK
<1>1. ASSUME NEW p \in Conns, sendLoopDone(p) \/ sendLoopFails(p)
      PROVE  PeerInv'
  BY <1>0, <1>1, CloseStep DEF sendLoopDone, sendLoopFails
<1>2. ASSUME NEW p \in Conns,
             \/ readFrame(p) \/ rejectMessage(p) \/ readFails(p)
             \/ encodeOfferFails(p) \/ writeOffer(p) \/ writeOfferFails(p)
      PROVE  PeerInv'
  BY <1>0, <1>2, MoveStep DEF readFrame, CanRead, Goto, rejectMessage, readFails,
     encodeOfferFails, writeOffer, writeOfferFails
<1>3. ASSUME NEW p \in Conns, discoverRefused(p)
      PROVE  PeerInv'
  <2>1. asked' \in [Conns -> 0 .. MaxDiscovers]
    BY <1>0, <1>3, PeerAssumption DEF discoverRefused, Discover
  <2>2. Goto(p, "frame", "read")
    BY <1>3 DEF discoverRefused, Discover, Goto
  <2> QED
    BY <1>3, <2>1, <2>2, SweepStep DEF discoverRefused, AcquireExhausted
<1>4. CASE sweepDHCPLeases
  BY <1>0, <1>4, SweepStep DEF sweepDHCPLeases, SweepExpired, peerVars
<1>5. CASE UNCHANGED vars
  <2>1. UNCHANGED << managerVars, peerVars >>
    BY <1>5 DEF vars
  <2> QED
    BY <1>0, <2>1, CloseStep DEF peerVars
<1>6. ASSUME NEW p \in Conns, HandlerStep(p)
      PROVE  PeerInv'
  BY <1>2, <1>6, BindStep, CloseOldStep, CleanupCloseStep, RemoveStep, MarkStep DEF HandlerStep
<1> QED
  BY <1>1, <1>2, <1>3, <1>4, <1>5, <1>6, ConnectStep, AuthStep, GrantStep, TimeStep DEF Next

\* The invariant holds in every reachable state of the server.
THEOREM PeerInvariant == Spec => []PeerInv
BY PeerInvInit, PeerStep, PTL DEF Spec

\* The server's state is always of its type; in particular handleDHCPDiscover
\* binds only addresses of the pool, for authenticated clients.
THEOREM PeerTypeCorrect == Spec => []TypeOK
<1>1. PeerInv => TypeOK
  BY DEF PeerInv
<1> QED
  BY <1>1, PeerInvariant, PTL

\* An online lease always has a session whose cleanup will mark it offline.
THEOREM NoLeakedLease == Spec => []OnlineLeaseHasSession
<1>1. PeerInv => OnlineLeaseHasSession
  BY DEF PeerInv, SessionInv
<1> QED
  BY <1>1, PeerInvariant, PTL

\* While a DISCOVER is handled, the client holds the address it is offered.
THEOREM OfferIsLeased == Spec => []OfferedAddressIsLeased
<1>1. PeerInv => OfferedAddressIsLeased
  BY DEF PeerInv, HandlingInv, OfferedAddressIsLeased
<1> QED
  BY <1>1, PeerInvariant, PTL

\* A session whose address another session has taken over is closed, or its
\* closing is the next step of the session that replaced it.
THEOREM SupersededClosed == Spec => []SupersededIsClosed
<1>1. PeerInv => SupersededIsClosed
  BY DEF PeerInv, SupersededInv, SupersededIsClosed
<1> QED
  BY <1>1, PeerInvariant, PTL

-----------------------------------------------------------------------------
(* The registry.                                                           *)

AddressInv ==
    /\ \A p \in Conns : asked[p] = 0 => virtualIP[p] = NoIP
    /\ \A p \in Conns : pc[p] \in Handling => asked[p] # 0
    /\ \A p \in Conns : pc[p] \in {"acquired", "offered"} /\ asked[p] = 1 => virtualIP[p] = NoIP
    /\ \A a \in Pool : ips[a] # NoPeer =>
          \/ ips[a] \in conns /\ virtualIP[ips[a]] = a
          \/ asked[ips[a]] > 1 /\ virtualIP[ips[a]] \notin {a, NoIP}

\* On its first DISCOVER a peer has no entry yet; so remove, which deletes the
\* entry of the latest address, leaves one only of a peer that was bound again.
LEMMA AddressStep ==
    ASSUME PeerInv, AddressInv, [Next]_vars
    PROVE  AddressInv'
<1>0. /\ pc \in [Conns -> PCs] /\ asked \in [Conns -> 0 .. MaxDiscovers]
      /\ virtualIP \in [Conns -> Pool \cup {NoIP}] /\ ips \in [Pool -> Conns \cup {NoPeer}]
      /\ conns \in SUBSET Conns /\ MaxDiscovers \in Nat
  BY PeerAssumption DEF PeerInv, TypeOK
<1>1. ASSUME UNCHANGED << pc, virtualIP, conns, ips, asked >> PROVE AddressInv'
  BY <1>1 DEF AddressInv
<1>2. ASSUME NEW p \in Conns, onTCPConnect(p) PROVE AddressInv'
  BY <1>0, <1>2 DEF AddressInv, onTCPConnect, Goto, Handling
<1>3. ASSUME NEW p \in Conns, NEW to \in {"acquired", "read"}, Discover(p),
             pc' = [pc EXCEPT ![p] = to], UNCHANGED << virtualIP, conns, ips >>
      PROVE  AddressInv'
  <2>1. /\ pc[p] = "frame" /\ asked' = [asked EXCEPT ![p] = @ + 1]
        /\ asked[p] \in Nat /\ asked'[p] = asked[p] + 1
    BY <1>0, <1>3 DEF Discover
  <2>2. asked'[p] # 0 /\ (asked'[p] = 1 => virtualIP[p] = NoIP)
    BY <2>1 DEF AddressInv
  <2>3. \A a \in Pool : ips[a] # NoPeer /\ asked[ips[a]] > 1 => asked'[ips[a]] > 1
    BY <1>0, <2>1
  <2> QED
    BY <1>0, <1>3, <2>1, <2>2, <2>3 DEF AddressInv, Handling
<1>4. ASSUME NEW p \in Conns, discoverGranted(p) \/ discoverRefused(p) PROVE AddressInv'
  BY <1>3, <1>4 DEF discoverGranted, discoverRefused
<1>5. ASSUME NEW p \in Conns, NEW from \in PCs,
             NEW to \in {"offered", "read", "frame", "failed", "shut", "gone"},
             Goto(p, from, to), to = "offered" => from = "acquired",
             UNCHANGED << virtualIP, conns, ips, asked >>
      PROVE  AddressInv'
  BY <1>0, <1>5 DEF AddressInv, Goto, Handling
<1>6. ASSUME NEW p \in Conns, bindIP(p) PROVE AddressInv'
  <2>1. lease[p] \in Pool /\ asked[p] # 0 /\ p \in conns /\ p # NoPeer
    BY <1>6, PeerAssumption DEF bindIP, Goto, PeerInv, HandlingInv, Handling, CleaningInv, AddressInv
  <2>2. \A a \in Pool : ips[a] = p => asked[p] > 1
    <3>1. asked[p] = 1 => virtualIP[p] = NoIP
      BY <1>6 DEF bindIP, Goto, AddressInv
    <3> QED
      BY <1>0, <2>1, <3>1, NoIPAssumption DEF AddressInv
  <2>3. /\ pc' = [pc EXCEPT ![p] = "bound"] /\ UNCHANGED << conns, asked >>
        /\ virtualIP' = [virtualIP EXCEPT ![p] = lease[p]]
        /\ ips' = [ips EXCEPT ![lease[p]] = p]
    BY <1>6 DEF bindIP, Goto
  <2>4. lease[p] # NoIP
    BY <2>1, NoIPAssumption
  <2> QED
    BY <1>0, <2>1, <2>2, <2>3, <2>4 DEF AddressInv, Handling
<1>7. ASSUME NEW p \in Conns, remove(p) PROVE AddressInv'
  <2>1. /\ pc' = [pc EXCEPT ![p] = "removed"] /\ UNCHANGED << virtualIP, asked >>
        /\ conns' = conns \ {p}
        /\ ips' = [a \in Pool |-> IF a = virtualIP[p] /\ ips[a] = p THEN NoPeer ELSE ips[a]]
    BY <1>7 DEF remove, Goto
  <2> QED
    BY <1>0, <2>1 DEF AddressInv, Handling
<1>8. ASSUME NEW p \in Conns, HandlerStep(p) PROVE AddressInv'
  <2>1. ASSUME \/ encodeOfferFails(p) \/ writeOffer(p) \/ writeOfferFails(p)
               \/ closeOld(p) \/ cleanupClose(p) \/ cleanupMark(p)
        PROVE  AddressInv'
    BY <1>5, <2>1 DEF encodeOfferFails, writeOffer, writeOfferFails, closeOld, cleanupClose,
                      cleanupMark, PCs, Handling, Cleaning
  <2> QED
    BY <1>6, <1>7, <1>8, <2>1 DEF HandlerStep
<1>9. ASSUME NEW p \in Conns,
             \/ readFrame(p) \/ readFails(p) \/ rejectMessage(p)
             \/ \E c \in Clients : handleClientAuth(p, c)
      PROVE  AddressInv'
  BY <1>5, <1>9 DEF readFrame, CanRead, Goto, readFails, rejectMessage, handleClientAuth, PCs
<1>10. ASSUME NEW p \in Conns, sendLoopDone(p) \/ sendLoopFails(p) PROVE AddressInv'
  BY <1>1, <1>10 DEF sendLoopDone, sendLoopFails
<1>11. ASSUME sweepDHCPLeases \/ TimePasses \/ UNCHANGED vars PROVE AddressInv'
  BY <1>1, <1>11 DEF sweepDHCPLeases, TimePasses, peerVars, vars
<1> QED
  BY <1>2, <1>4, <1>8, <1>9, <1>10, <1>11 DEF Next

\* However many DISCOVERs its connections carry, the registry names sessions
\* that have not been cleaned up, under the address and the identity they
\* have, or is left with the earlier address of a peer that was bound again
\* (peerRegistry.bindIP, remove).
THEOREM RegistryConsistent == Spec => []RegistryAgrees
<1>1. Init => AddressInv
  BY DEF Init, PeerInit, AddressInv, Handling
<1>2. PeerInv /\ AddressInv /\ [Next]_vars => AddressInv'
  BY AddressStep
<1>3. PeerInv /\ AddressInv => RegistryAgrees
  BY DEF PeerInv, AddressInv, IdentityInv, CleaningInv, RegistryAgrees, TypeOK
<1> QED
  BY <1>1, <1>2, <1>3, PeerInvariant, PTL DEF Spec
=============================================================================
