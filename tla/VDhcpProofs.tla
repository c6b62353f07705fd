----------------------------- MODULE VDhcpProofs ----------------------------
(***************************************************************************)
(* The lease manager is right for every pool, every number of clients and  *)
(* every lease and grace period: it implements AddressPool and honours the *)
(* grace period.                                                           *)
(***************************************************************************)
EXTENDS LeaseHistory, AllocateScan, VDhcpLemmas

\* An offline client's timer and its history count the same ticks.
TimerInv ==
    \A c \in Clients :
        HasLease(c) /\ ~leaseByID[c].online => leaseByID[c].left = OfflineGrace - age[c]

\* Nobody holds a reserved address.
NoneReserved == \A c \in Clients : HasLease(c) => leaseByID[c].ip \notin Reserved

\* The inductive invariant.
HistoryInv == ManagerInv /\ age \in [Clients -> Ages] /\ TimerInv /\ NoneReserved

\* What releasing clients leaves of the timers and the reserved addresses.
LEMMA ReleaseHistory ==
    ASSUME HistoryInv, NEW gone \in SUBSET Clients, NEW c \in Clients,
           leaseByID'[c] = LeasesWithout(gone)[c], age' = age
    PROVE  /\ HasLease(c)' /\ ~leaseByID'[c].online => leaseByID'[c].left = OfflineGrace - age'[c]
           /\ HasLease(c)' => leaseByID'[c].ip \notin Reserved
<1>1. CASE c \in gone
  BY <1>1, LeaseFacts DEF LeasesWithout, HasLease
<1>2. CASE c \notin gone
  BY <1>2 DEF HistoryInv, TimerInv, NoneReserved, HasLease, LeasesWithout
<1> QED
  BY <1>1, <1>2

\* Every step of the manager keeps the invariant.
LEMMA HistoryStep == HistoryInv /\ [Next]_historyVars => HistoryInv'
<1> SUFFICES ASSUME HistoryInv, [Next]_historyVars PROVE HistoryInv'
  OBVIOUS
<1>0. ManagerInv /\ ManagerTypeOK /\ age \in [Clients -> Ages]
  BY DEF HistoryInv, ManagerInv
<1>a. LeasesWithout(Sweepable) \in Leases
  BY <1>0, WithoutAgrees, SweepableFacts
<1>1. ASSUME NEW c \in Clients, AcquireRenew(c), UNCHANGED age
      PROVE  HistoryInv'
  <2>1. ManagerInv' /\ leaseByID'[c] = Granted(leaseByID[c].ip)
    BY <1>0, <1>1, RenewPreserves
  <2>2. leaseByID[c].ip \in Pool /\ leaseByID[c].ip \notin Reserved
    BY <1>0, <1>1, HasLeaseType, LeaseFacts DEF AcquireRenew, HistoryInv, NoneReserved
  <2>3. \A d \in Clients \ {c} : leaseByID'[d] = LeasesWithout(Sweepable)[d]
    BY <1>1, <1>a DEF AcquireRenew, Leases
  <2>4. TimerInv' /\ NoneReserved'
    BY <1>1, <2>1, <2>2, <2>3, ReleaseHistory, SweepableFacts, LeaseFacts
       DEF TimerInv, NoneReserved, HasLease
  <2> QED
    BY <1>0, <1>1, <2>1, <2>4 DEF HistoryInv
<1>2. ASSUME NEW c \in Clients, AcquireAllocate(c), UNCHANGED age
      PROVE  HistoryInv'
  <2>1. ManagerInv'
    BY <1>0, <1>2, AllocatePreserves
  <2>2. PICK a \in Pool \ Reserved :
          leaseByID' = [LeasesWithout(Sweepable) EXCEPT ![c] = Granted(a)]
    BY <1>0, <1>2, AllocatePreserves
  <2>3. leaseByID'[c] = Granted(a)
    BY <1>a, <2>2 DEF Leases
  <2>4. \A d \in Clients \ {c} : leaseByID'[d] = LeasesWithout(Sweepable)[d]
    BY <1>a, <2>2 DEF Leases
  <2>5. TimerInv' /\ NoneReserved'
    BY <1>2, <2>3, <2>4, ReleaseHistory, SweepableFacts, LeaseFacts
       DEF TimerInv, NoneReserved, HasLease
  <2> QED
    BY <1>0, <1>2, <2>1, <2>5 DEF HistoryInv
<1>3. ASSUME NEW gone \in SUBSET Clients, UNCHANGED age,
             leaseByID' = LeasesWithout(gone), ownerByIP' = OwnersWithout(gone), next' = next
      PROVE  HistoryInv'
  <2>1. ManagerInv'
    BY <1>0, <1>3, ReleasePreserves
  <2>2. TimerInv' /\ NoneReserved'
    BY <1>3, ReleaseHistory DEF TimerInv, NoneReserved
  <2> QED
    BY <1>0, <1>3, <2>1, <2>2 DEF HistoryInv
<1>4. ASSUME NEW c \in Clients, MarkOffline(c), age' = [age EXCEPT ![c] = 0]
      PROVE  HistoryInv'
  <2>1. /\ ManagerInv'
        /\ \A d \in Clients : leaseByID'[d].ip = leaseByID[d].ip
        /\ \A d \in Clients \ {c} : leaseByID'[d] = leaseByID[d]
        /\ HasLease(c) => leaseByID'[c].left = OfflineGrace
    BY <1>0, <1>4, MarkOfflinePreserves
  <2>2. age' \in [Clients -> Ages] /\ age'[c] = 0 /\ \A d \in Clients \ {c} : age'[d] = age[d]
    BY <1>0, <1>4, ManagerAssumption DEF Ages
  <2>3. TimerInv'
    BY <2>1, <2>2, ManagerAssumption DEF HistoryInv, TimerInv, HasLease
  <2>4. NoneReserved'
    BY <2>1 DEF HistoryInv, NoneReserved, HasLease
  <2> QED
    BY <2>1, <2>2, <2>3, <2>4 DEF HistoryInv
<1>5. ASSUME Tick,
             age' = [c \in Clients |-> IF age[c] <= OfflineGrace THEN age[c] + 1 ELSE age[c]]
      PROVE  HistoryInv'
  <2>1. /\ ManagerInv'
        /\ \A c \in Clients :
             /\ leaseByID'[c].ip = leaseByID[c].ip
             /\ leaseByID'[c].online = leaseByID[c].online
             /\ leaseByID'[c].left = IF leaseByID[c].left = Expired
                                       THEN Expired ELSE leaseByID[c].left - 1
    BY <1>0, <1>5, TickPreserves
  <2>2. age' \in [Clients -> Ages]
    BY <1>0, <1>5, ManagerAssumption DEF Ages
  <2>3. TimerInv'
    <3> SUFFICES ASSUME NEW c \in Clients, HasLease(c), ~leaseByID[c].online
                 PROVE  leaseByID'[c].left = OfflineGrace - age'[c]
      BY <2>1 DEF TimerInv, HasLease
    <3>1. leaseByID[c].left = OfflineGrace - age[c]
      BY DEF HistoryInv, TimerInv
    <3>2. age[c] \in Ages /\ age'[c] = IF age[c] <= OfflineGrace THEN age[c] + 1 ELSE age[c]
      BY <1>0, <1>5
    <3> QED
      BY <2>1, <3>1, <3>2, ManagerAssumption DEF Ages, Expired
  <2>4. NoneReserved'
    BY <2>1 DEF HistoryInv, NoneReserved, HasLease
  <2> QED
    BY <2>1, <2>2, <2>3, <2>4 DEF HistoryInv
<1>6. CASE UNCHANGED historyVars
  BY <1>6 DEF historyVars, HistoryInv, ManagerInv, ManagerTypeOK, MapsAgree, Inverses,
              TimerInv, NoneReserved, HasLease
<1>7. ASSUME NEW c \in Clients, AcquireExhausted(c), UNCHANGED age PROVE HistoryInv'
  BY <1>3, <1>7, SweepableFacts DEF AcquireExhausted
<1>8. ASSUME NEW c \in Clients, Release(c), UNCHANGED age PROVE HistoryInv'
  BY <1>3, <1>8 DEF Release
<1>9. ASSUME SweepExpired, UNCHANGED age PROVE HistoryInv'
  BY <1>3, <1>9, SweepableFacts DEF SweepExpired
<1> QED
  BY <1>1, <1>2, <1>4, <1>5, <1>6, <1>7, <1>8, <1>9 DEF Next

\* The initial state has no leases.
LEMMA HistoryInit == Init => HistoryInv
<1> SUFFICES ASSUME Init PROVE HistoryInv
  OBVIOUS
<1>1. ManagerTypeOK /\ age \in [Clients -> Ages]
  BY PoolBounds, ManagerAssumption DEF Init, ManagerInit, ManagerTypeOK, Ages
<1>2. \A c \in Clients : ~HasLease(c)
  BY LeaseFacts DEF Init, ManagerInit, HasLease
<1> QED
  BY <1>1, <1>2 DEF HistoryInv, ManagerInv, MapsAgree, Inverses, TimerInv, NoneReserved,
                    HasLease, Init, ManagerInit

\* The invariant holds in every reachable state.
THEOREM HistoryInvariant == Spec => []HistoryInv
BY HistoryInit, HistoryStep, PTL DEF Spec

\* The maps and the cursor always have values of their types: the cursor
\* never leaves the pool.
THEOREM TypeCorrect == Spec => []TypeOK
<1>1. HistoryInv => TypeOK
  BY DEF HistoryInv, ManagerInv, TypeOK
<1> QED
  BY <1>1, HistoryInvariant, PTL

\* The two maps of the manager are always inverse to one another.
THEOREM MapsAlwaysAgree == Spec => []MapsAgree
<1>1. HistoryInv => MapsAgree
  BY DEF HistoryInv, ManagerInv
<1> QED
  BY <1>1, HistoryInvariant, PTL

\* No two clients ever hold the same address, nor anyone the gateway's.
THEOREM AddressesExclusive == Spec => []ExclusiveAddresses
<1>1. HistoryInv => ExclusiveAddresses
  <2> SUFFICES ASSUME HistoryInv, NEW c \in Clients, HasLease(c)
               PROVE  /\ leaseByID[c].ip \notin Reserved
                      /\ \A d \in Clients : leaseByID[c].ip = leaseByID[d].ip => c = d
    BY DEF ExclusiveAddresses
  <2>1. leaseByID[c].ip \notin Reserved
    BY DEF HistoryInv, NoneReserved
  <2>2. ASSUME NEW d \in Clients, leaseByID[c].ip = leaseByID[d].ip PROVE c = d
    BY <2>2 DEF HistoryInv, ManagerInv, MapsAgree, Inverses, HasLease
  <2> QED
    BY <2>1, <2>2
<1> QED
  BY <1>1, HistoryInvariant, PTL

\* Acquire turns a client away only when every address that may be leased is
\* held by a client it may not be taken from.
THEOREM TurnedAwayWhenFull == Spec => []RefusedOnlyWhenFull
<1>1. HistoryInv => RefusedOnlyWhenFull
  <2> SUFFICES ASSUME HistoryInv, NEW c \in Clients, Refused(c), NEW a \in Pool \ Reserved
               PROVE  \E d \in Clients : /\ leaseByID[d].ip = a
                                         /\ leaseByID[d].online \/ leaseByID[d].left >= 0
    BY DEF RefusedOnlyWhenFull
  <2> DEFINE L == LeasesWithout(Sweepable)
             O == OwnersWithout(Sweepable)
  <2>1. PICK v \in start .. end : a = uint32ToIP(v)
    BY DEF Pool
  <2>2. PICK k \in 0 .. (PoolSize - 1) : Slot(next, k) = v
    BY EverySlotVisited DEF HistoryInv, ManagerInv, ManagerTypeOK
  <2>3. O[a] # NoClient
    BY <2>1, <2>2 DEF Refused, NoneFree, FreeAt, Free, Used
  <2>4. O \in Owners /\ Inverses(L, O)
    BY SweepableFacts, WithoutAgrees DEF HistoryInv
  <2>5. PICK d \in Clients : L[d].ip = a
    BY <2>3, <2>4 DEF Owners, Inverses
  <2>6. d \notin Sweepable /\ leaseByID[d].ip = a
    BY <2>5, NoIPAssumption DEF LeasesWithout, NoLease
  <2>7. HasLease(d) /\ leaseByID[d] \in Lease
    BY <2>6, NoIPAssumption, HasLeaseType DEF HasLease, HistoryInv, ManagerInv
  <2>8. leaseByID[d].online \/ leaseByID[d].left # Expired
    BY <2>6, <2>7 DEF Sweepable
  <2> QED
    BY <2>6, <2>7, <2>8, ManagerAssumption DEF Lease, TimeLeft, Expired
<1> QED
  BY <1>1, HistoryInvariant, PTL

\* The leases the sweep releases are those of clients out of their grace period.
LEMMA SweptAfterGrace ==
    ASSUME HistoryInv, NEW c \in Sweepable
    PROVE  ~leaseByID[c].online /\ age[c] > OfflineGrace
<1>1. c \in Clients /\ HasLease(c) /\ ~leaseByID[c].online /\ leaseByID[c].left = Expired
  BY SweepableFacts
<1>2. leaseByID[c].left = OfflineGrace - age[c] /\ age[c] \in Ages
  BY <1>1 DEF HistoryInv, TimerInv
<1> QED
  BY <1>1, <1>2, ManagerAssumption DEF Ages, Expired

\* A client loses its address only by giving it up or after its grace period:
\* neither the allocation for another client nor the sweep takes it earlier.
THEOREM GraceIsHonoured == Spec => GraceHonoured
<1> DEFINE Kept(c) == HasLease(c) /\ leaseByID'[c].ip # leaseByID[c].ip
                        => \/ ~leaseByID[c].online /\ age[c] > OfflineGrace
                           \/ Release(c)
<1>1. ASSUME HistoryInv, [Next]_historyVars
      PROVE  [\A c \in Clients : Kept(c)]_historyVars
  <2> SUFFICES ASSUME Next, NEW c \in Clients PROVE Kept(c)
    BY <1>1
  <2>0. ManagerInv /\ ManagerTypeOK
    BY <1>1 DEF HistoryInv, ManagerInv
  <2>1. LeasesWithout(Sweepable) \in Leases
    BY <2>0, WithoutAgrees, SweepableFacts
  <2>2. c \in Sweepable => ~leaseByID[c].online /\ age[c] > OfflineGrace
    BY <1>1, SweptAfterGrace
  <2>3. c \notin Sweepable => LeasesWithout(Sweepable)[c] = leaseByID[c]
    BY DEF LeasesWithout
  <2>4. ASSUME NEW d \in Clients, AcquireRenew(d) PROVE Kept(c)
    <3>1. leaseByID'[d].ip = leaseByID[d].ip
      BY <2>0, <2>4, RenewPreserves, HasLeaseType, LeaseFacts DEF AcquireRenew
    <3>2. c # d => leaseByID'[c] = LeasesWithout(Sweepable)[c]
      BY <2>1, <2>4 DEF AcquireRenew, Leases
    <3> QED
      BY <2>2, <2>3, <3>1, <3>2
  <2>5. ASSUME NEW d \in Clients, AcquireAllocate(d) PROVE Kept(c)
    <3>1. HasLease(d) => d \in Sweepable
      BY <2>5 DEF AcquireAllocate, AllocatesFor
    <3>2. PICK a \in Pool \ Reserved :
            leaseByID' = [LeasesWithout(Sweepable) EXCEPT ![d] = Granted(a)]
      BY <2>0, <2>5, AllocatePreserves
    <3>3. c # d => leaseByID'[c] = LeasesWithout(Sweepable)[c]
      BY <2>1, <3>2 DEF Leases
    <3> QED
      BY <2>2, <2>3, <3>1, <3>3
  <2>6. ASSUME leaseByID' = LeasesWithout(Sweepable) PROVE Kept(c)
    BY <2>2, <2>3, <2>6
  <2>7. ASSUME NEW d \in Clients, MarkOffline(d) PROVE Kept(c)
    BY <2>0, <2>7, MarkOfflinePreserves
  <2>8. ASSUME NEW d \in Clients, Release(d) PROVE Kept(c)
    <3>1. c # d => leaseByID'[c] = leaseByID[c]
      BY <2>8 DEF Release, LeasesWithout
    <3> QED
      BY <2>8, <3>1
  <2>9. ASSUME Tick PROVE Kept(c)
    BY <2>0, <2>9, TickPreserves
  <2> QED
    BY <2>4, <2>5, <2>6, <2>7, <2>8, <2>9 DEF Next, AcquireExhausted, SweepExpired
<1> QED
  BY <1>1, HistoryInvariant, PTL DEF Spec, GraceHonoured

-----------------------------------------------------------------------------
(* Refinement: leaseByID read as AddressPool's two functions.              *)

addrOf == [c \in Clients |-> leaseByID[c].ip]
onlineOf == [c \in Clients |-> leaseByID[c].online]

\* Dropping leases in the manager is dropping addresses in the abstract pool.
LEMMA WithoutMaps ==
    ASSUME NEW gone \in SUBSET Clients
    PROVE  Abstract!Without(gone) = [c \in Clients |-> LeasesWithout(gone)[c].ip]
BY LeaseFacts DEF Abstract!Without, LeasesWithout

\* Dropping leases of offline clients leaves everybody's connection as it is.
LEMMA WithoutKeepsOnline ==
    ASSUME ManagerTypeOK, NEW gone \in SUBSET Clients, \A c \in gone : ~leaseByID[c].online,
           NEW c \in Clients
    PROVE  LeasesWithout(gone)[c].online = leaseByID[c].online
<1>1. leaseByID[c].online \in BOOLEAN
  <2>1. leaseByID[c] \in Lease \/ leaseByID[c] = NoLease
    BY DEF ManagerTypeOK
  <2>2. leaseByID[c] = NoLease => leaseByID[c].online = FALSE
    BY LeaseFacts
  <2> QED
    BY <2>1, <2>2, LeaseFacts, Zenon
<1>2. CASE c \in gone
  <2>1. leaseByID[c].online = FALSE
    BY <1>1, <1>2
  <2> QED
    BY <1>2, <2>1, LeaseFacts DEF LeasesWithout
<1>3. CASE c \notin gone
  BY <1>3 DEF LeasesWithout
<1> QED
  BY <1>2, <1>3

\* The manager implements the abstract address pool.
THEOREM ManagerImplementsPool == Spec => AddressPoolSpec
<1>1. Init => Abstract!Init
  BY LeaseFacts DEF Init, ManagerInit, Abstract!Init
<1>2. HistoryInv /\ [Next]_historyVars => [Abstract!Next]_(Abstract!vars)
  <2> SUFFICES ASSUME HistoryInv, [Next]_historyVars
               PROVE  Abstract!Next \/ (addrOf' = addrOf /\ onlineOf' = onlineOf)
    BY DEF Abstract!vars, addrOf, onlineOf
  <2> DEFINE L == LeasesWithout(Sweepable)
  <2>0. ManagerInv /\ ManagerTypeOK /\ leaseByID \in Leases
    BY DEF HistoryInv, ManagerInv, ManagerTypeOK, Leases
  <2>1. L \in Leases /\ Sweepable \in SUBSET Clients
    BY <2>0, WithoutAgrees, SweepableFacts
  <2>2. \A c \in Sweepable : ~leaseByID[c].online
    BY SweepableFacts
  <2>3. Abstract!Without(Sweepable) = [c \in Clients |-> L[c].ip]
    BY <2>1, WithoutMaps
  <2>4. \A c \in Clients : L[c].online = leaseByID[c].online
    BY <2>0, <2>1, <2>2, WithoutKeepsOnline
  <2>5. \A c \in Sweepable : ~onlineOf[c]
    BY <2>1, <2>2 DEF onlineOf
  <2>6. PICK S \in SUBSET Clients : S = Sweepable
    BY <2>1
  <2>a. ASSUME NEW c \in Clients, AcquireRenew(c) PROVE Abstract!Next
    <3>1. leaseByID' = [L EXCEPT ![c] = Granted(L[c].ip)] /\ L[c] \in Lease
      BY <2>0, <2>a, HasLeaseType DEF AcquireRenew, LeasesWithout
    <3>2. addrOf' = [d \in Clients |-> L[d].ip]
      BY <2>1, <3>1, LeaseFacts DEF addrOf, Leases
    <3>3. onlineOf' = [onlineOf EXCEPT ![c] = TRUE]
      <4>1. leaseByID'[c].online = TRUE
        BY <2>1, <3>1 DEF Leases, Granted
      <4>2. \A d \in Clients \ {c} : leaseByID'[d].online = leaseByID[d].online
        <5>1. \A d \in Clients \ {c} : leaseByID'[d] = L[d]
          BY <2>1, <3>1 DEF Leases
        <5> QED
          BY <2>4, <5>1
      <4> QED
        BY <4>1, <4>2 DEF onlineOf
    <3>4. L[c].ip # NoIP
      BY <3>1, LeaseFacts
    <3>5. Abstract!Join(c, S)
      BY <2>3, <2>5, <2>6, <3>2, <3>3, <3>4 DEF Abstract!Join, addrOf, onlineOf
    <3> QED
      BY <3>5 DEF Abstract!Next
  <2>b. ASSUME NEW c \in Clients, AcquireAllocate(c) PROVE Abstract!Next
    <3>1. PICK a \in Pool \ Reserved :
            /\ \A d \in Clients : L[d].ip # a
            /\ L[c].ip = NoIP
            /\ leaseByID' = [L EXCEPT ![c] = Granted(a)]
      BY <2>0, <2>b, AllocatePreserves
    <3> DEFINE held == [d \in Clients |-> L[d].ip]
    <3>2. addrOf' = [held EXCEPT ![c] = a]
      BY <2>1, <3>1, LeaseFacts DEF addrOf, Leases
    <3>3. onlineOf' = [onlineOf EXCEPT ![c] = TRUE]
      <4>1. leaseByID'[c].online = TRUE
        BY <2>1, <3>1 DEF Leases, Granted
      <4>2. \A d \in Clients \ {c} : leaseByID'[d].online = leaseByID[d].online
        <5>1. \A d \in Clients \ {c} : leaseByID'[d] = L[d]
          BY <2>1, <3>1 DEF Leases
        <5> QED
          BY <2>4, <5>1
      <4> QED
        BY <4>1, <4>2 DEF onlineOf
    <3>4. a \in Abstract!Available(held) /\ held[c] = NoIP
      BY <3>1 DEF Abstract!Available
    <3>5. Abstract!Join(c, S)
      BY <2>3, <2>5, <2>6, <3>2, <3>3, <3>4 DEF Abstract!Join, addrOf, onlineOf
    <3> QED
      BY <3>5 DEF Abstract!Next
  <2>c. ASSUME leaseByID' = L PROVE Abstract!Next
    <3>1. addrOf' = [d \in Clients |-> L[d].ip] /\ onlineOf' = onlineOf
      BY <2>4, <2>c DEF addrOf, onlineOf
    <3>2. Abstract!Reclaim(S)
      BY <2>3, <2>5, <2>6, <3>1 DEF Abstract!Reclaim, addrOf, onlineOf
    <3> QED
      BY <3>2 DEF Abstract!Next
  <2>d. ASSUME NEW c \in Clients, MarkOffline(c) PROVE Abstract!Next
    <3>1. addrOf' = addrOf
      BY <2>0, <2>d, MarkOfflinePreserves DEF addrOf
    <3>2. /\ \A d \in Clients \ {c} : leaseByID'[d].online = leaseByID[d].online
          /\ leaseByID'[c].online = FALSE
      <4>1. \A d \in Clients \ {c} : leaseByID'[d] = leaseByID[d]
        BY <2>0, <2>d, MarkOfflinePreserves
      <4>2. ~leaseByID'[c].online /\ leaseByID'[c].online \in BOOLEAN
        <5>1. ManagerInv' /\ ~leaseByID'[c].online
          BY <2>0, <2>d, MarkOfflinePreserves
        <5>2. leaseByID'[c] \in Lease \cup {NoLease}
          BY <5>1 DEF ManagerInv, ManagerTypeOK
        <5> QED
          BY <5>1, <5>2, LeaseFacts
      <4> QED
        BY <4>1, <4>2
    <3>3. onlineOf' = [onlineOf EXCEPT ![c] = FALSE]
      BY <3>2 DEF onlineOf
    <3>4. Abstract!Leave(c)
      BY <3>1, <3>3 DEF Abstract!Leave, addrOf, onlineOf
    <3> QED
      BY <3>4 DEF Abstract!Next
  <2>e. ASSUME NEW c \in Clients, Release(c) PROVE Abstract!Next
    <3>1. leaseByID' = LeasesWithout({c})
      BY <2>e DEF Release
    <3>2. addrOf' = Abstract!Without({c})
      <4>1. Abstract!Without({c}) = [d \in Clients |-> LeasesWithout({c})[d].ip]
        BY WithoutMaps
      <4> QED
        BY <3>1, <4>1 DEF addrOf
    <3>3. onlineOf' = [onlineOf EXCEPT ![c] = FALSE]
      BY <3>1, LeaseFacts DEF onlineOf, LeasesWithout
    <3>4. Abstract!GiveUp(c)
      BY <3>2, <3>3 DEF Abstract!GiveUp, addrOf, onlineOf
    <3> QED
      BY <3>4 DEF Abstract!Next
  <2>f. ASSUME Tick PROVE addrOf' = addrOf /\ onlineOf' = onlineOf
    BY <2>0, <2>f, TickPreserves DEF addrOf, onlineOf
  <2>g. CASE UNCHANGED historyVars
    BY <2>g DEF historyVars, addrOf, onlineOf
  <2> QED
    BY <2>a, <2>b, <2>c, <2>d, <2>e, <2>f, <2>g DEF Next, AcquireExhausted, SweepExpired
<1> QED
  BY <1>1, <1>2, HistoryInvariant, PTL DEF Spec, AddressPoolSpec, Abstract!Spec

-----------------------------------------------------------------------------
(* The loop of allocateIPLocked.                                           *)

\* The loop's invariant, and with it the outcome of the loop: what it returns
\* is the first free address in cyclic order, and it gives up only when
\* there is none.
THEOREM ScanCorrect == ScanSpec => []ScanInv
<1> USE DEF FreeAt
<1>1. ScanInit => ScanInv
  BY PoolBounds, FullTurn DEF ScanInit, ScanInv, ScanOutcome, ScanTypeOK
<1>2. ScanInv /\ [ScanNext]_scanVars => ScanInv'
  <2> SUFFICES ASSUME ScanInv, [ScanNext]_scanVars PROVE ScanInv'
    OBVIOUS
  <2>1. /\ from \in start .. end /\ cursor \in start .. end /\ scanned \in 0 .. PoolSize
        /\ PoolSize \in Nat
    BY PoolBounds DEF ScanInv, ScanTypeOK
  <2>2. CASE Skip
    <3>1. scanned \in 0 .. (PoolSize - 1) /\ cursor = Slot(from, scanned)
      BY <2>1, <2>2 DEF Skip, ScanInv
    <3>2. cursor' = Slot(from, scanned + 1) /\ cursor' \in start .. end
      BY <2>1, <2>2, <3>1, AdvanceIsNextSlot DEF Skip
    <3>3. \A j \in 0 .. (scanned' - 1) : ~FreeAt(from, j, used)
      BY <2>1, <2>2, <3>1 DEF Skip, ScanInv
    <3>4. ScanTypeOK'
      BY <2>1, <2>2, <3>1, <3>2 DEF Skip, ScanInv, ScanTypeOK
    <3> QED
      BY <2>2, <3>2, <3>3, <3>4 DEF Skip, ScanInv, ScanOutcome
  <2>3. CASE TakeFree
    <3>1. scanned \in 0 .. (PoolSize - 1) /\ cursor = Slot(from, scanned)
      BY <2>1, <2>3 DEF TakeFree, ScanInv
    <3>2. cursor' = Slot(from, scanned + 1) /\ cursor' \in start .. end
      BY <2>1, <2>3, <3>1, AdvanceIsNextSlot DEF TakeFree
    <3>3. FirstFree(from, scanned, used)
      BY <2>3, <3>1 DEF TakeFree, ScanInv, FirstFree
    <3>4. ScanTypeOK'
      BY <2>1, <2>3, <3>1, <3>2 DEF TakeFree, ScanInv, ScanTypeOK, Pool
    <3>5. pc' = "found" /\ ip' = uint32ToIP(Slot(from, scanned))
          /\ from' = from /\ used' = used /\ scanned' = scanned
      BY <2>3, <3>1 DEF TakeFree
    <3>6. ScanOutcome'
      BY <3>2, <3>3, <3>5 DEF ScanOutcome
    <3> QED
      BY <3>4, <3>5, <3>6 DEF ScanInv
  <2>4. CASE Exhausted
    <3>1. scanned = PoolSize
      BY <2>1, <2>4 DEF Exhausted
    <3>2. cursor = from
      BY <2>1, <2>4, <3>1, FullTurn DEF Exhausted, ScanInv
    <3>3. NoneFree(from, used)
      BY <2>4, <3>1 DEF Exhausted, ScanInv, NoneFree
    <3>4. pc' = "exhausted" /\ from' = from /\ cursor' = cursor /\ used' = used
      BY <2>4 DEF Exhausted
    <3>5. ScanOutcome'
      BY <3>2, <3>3, <3>4 DEF ScanOutcome
    <3>6. ScanTypeOK'
      BY <2>4 DEF Exhausted, ScanInv, ScanTypeOK
    <3> QED
      BY <3>4, <3>5, <3>6 DEF ScanInv
  <2>5. CASE UNCHANGED scanVars
    BY <2>5 DEF scanVars, ScanInv, ScanOutcome, ScanTypeOK
  <2> QED
    BY <2>2, <2>3, <2>4, <2>5 DEF ScanNext
<1> QED
  BY <1>1, <1>2, PTL DEF ScanSpec

\* The pool is reported exhausted only when no address of it is free, so a
\* client is never turned away while it could be served.
THEOREM ExhaustionIsReal == ScanSpec => []NeverExhaustedWhileFree
<1>1. ScanInv => NeverExhaustedWhileFree
  <2> SUFFICES ASSUME ScanInv, pc = "exhausted", NEW a \in Pool
               PROVE  ~Free(a, used)
    BY DEF NeverExhaustedWhileFree
  <2>1. PICK v \in start .. end : a = uint32ToIP(v)
    BY DEF Pool
  <2>2. PICK k \in 0 .. (PoolSize - 1) : Slot(from, k) = v
    BY EverySlotVisited DEF ScanInv, ScanTypeOK
  <2>3. ~FreeAt(from, k, used)
    BY DEF ScanInv, ScanOutcome, NoneFree
  <2> QED
    BY <2>1, <2>2, <2>3 DEF FreeAt
<1> QED
  BY <1>1, ScanCorrect, PTL
=============================================================================
