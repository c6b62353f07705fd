----------------------------- MODULE VDhcpLemmas ----------------------------
(***************************************************************************)
(* The cyclic order of the address pool and what the operations of the     *)
(* manager preserve, for the proofs about the manager and about the server *)
(* that calls it.                                                          *)
(***************************************************************************)
EXTENDS VDhcpManager, TLAPS

\* The bounds of the pool are numbers, and the pool is not empty.
LEMMA PoolBounds ==
    /\ start \in Nat /\ end \in Nat /\ start <= end
    /\ PoolSize \in Nat /\ PoolSize > 0 /\ end = start + PoolSize - 1
<1>1. \A v \in IPv4 : ipToUint32(v) \in Nat
  <2> TAKE v \in IPv4
  <2>1. v[1] \in Nat /\ v[2] \in Nat /\ v[3] \in Nat /\ v[4] \in Nat
    BY DEF IPv4, Octet
  <2>2. \A a, b, c, d \in Nat : a * 16777216 + b * 65536 + c * 256 + d \in Nat
    OBVIOUS
  <2> QED
    BY <2>1, <2>2 DEF ipToUint32
<1>2. start \in Nat /\ end \in Nat /\ start <= end
  BY <1>1, PoolAssumption DEF start, end
<1> QED
  BY <1>2 DEF PoolSize

\* Moving the cursor once is moving along the cyclic order by one.
LEMMA AdvanceIsNextSlot ==
    ASSUME NEW n \in start .. end, NEW k \in 0 .. (PoolSize - 1)
    PROVE  /\ Slot(n, k) \in start .. end
           /\ advanceNextLocked(Slot(n, k)) = Slot(n, k + 1)
           /\ Slot(n, k + 1) \in start .. end
BY PoolBounds DEF Slot, advanceNextLocked

\* A full turn brings the cursor back.
LEMMA FullTurn ==
    ASSUME NEW n \in start .. end
    PROVE  Slot(n, 0) = n /\ Slot(n, PoolSize) = n
BY PoolBounds DEF Slot

\* The cyclic order from any cursor reaches every address of the pool.
LEMMA EverySlotVisited ==
    ASSUME NEW n \in start .. end, NEW v \in start .. end
    PROVE  \E k \in 0 .. (PoolSize - 1) : Slot(n, k) = v
<1>1. CASE n <= v
  <2>1. v - n \in 0 .. (PoolSize - 1) /\ Slot(n, v - n) = v
    BY <1>1, PoolBounds DEF Slot
  <2> QED
    BY <2>1
<1>2. CASE v < n
  <2>1. v - n + PoolSize \in 0 .. (PoolSize - 1) /\ Slot(n, v - n + PoolSize) = v
    BY <1>2, PoolBounds DEF Slot
  <2> QED
    BY <2>1
<1> QED
  BY <1>1, <1>2, PoolBounds

-----------------------------------------------------------------------------

Leases == [Clients -> Lease \cup {NoLease}]
Owners == [Pool -> Clients \cup {NoClient}]

\* The manager's state is well typed and its two maps agree.
ManagerInv == ManagerTypeOK /\ MapsAgree

\* An address is not the missing address, so a lease is not NoLease.
LEMMA LeaseFacts ==
    /\ \A l \in Lease : l.ip \in Pool /\ l.ip # NoIP /\ l.online \in BOOLEAN /\ l.left \in TimeLeft
    /\ NoLease.ip = NoIP /\ NoLease.online = FALSE /\ NoLease.left = Expired
    /\ \A a \in Pool : Granted(a) \in Lease /\ Granted(a).ip = a
                       /\ Granted(a).online /\ Granted(a).left = LeaseTTL
<1>1. LeaseTTL \in TimeLeft
  BY ManagerAssumption DEF TimeLeft, Expired
<1> QED
  BY <1>1, ManagerAssumption, NoIPAssumption DEF Lease, NoLease, Granted

\* A client with a lease has one of type Lease.
LEMMA HasLeaseType ==
    ASSUME ManagerTypeOK, NEW c \in Clients
    PROVE  /\ HasLease(c) <=> leaseByID[c] \in Lease
           /\ ~HasLease(c) <=> leaseByID[c] = NoLease
BY LeaseFacts DEF ManagerTypeOK, HasLease

\* Releasing any set of clients leaves two maps that agree.
LEMMA WithoutAgrees ==
    ASSUME ManagerInv, NEW gone \in SUBSET Clients
    PROVE  /\ LeasesWithout(gone) \in Leases
           /\ OwnersWithout(gone) \in Owners
           /\ Inverses(LeasesWithout(gone), OwnersWithout(gone))
<1> USE DEF ManagerInv, ManagerTypeOK, Leases, Owners
<1> DEFINE L == LeasesWithout(gone)
           O == OwnersWithout(gone)
<1>1. L \in Leases
  BY DEF LeasesWithout
<1>2. O \in Owners
  BY DEF OwnersWithout
<1>3. ASSUME NEW c \in Clients, L[c].ip # NoIP
      PROVE  O[L[c].ip] = c
  <2>1. c \notin gone /\ L[c] = leaseByID[c] /\ leaseByID[c] \in Lease
    BY <1>3, LeaseFacts DEF LeasesWithout
  <2>2. leaseByID[c].ip \in Pool /\ ownerByIP[leaseByID[c].ip] = c
    BY <1>3, <2>1, LeaseFacts DEF MapsAgree, Inverses
  <2>3. \A d \in gone : leaseByID[d].ip # leaseByID[c].ip
    <3> SUFFICES ASSUME NEW d \in gone, leaseByID[d].ip = leaseByID[c].ip PROVE FALSE
      OBVIOUS
    <3>1. ownerByIP[leaseByID[d].ip] = d
      BY <2>1, LeaseFacts DEF MapsAgree, Inverses
    <3> QED
      BY <2>1, <2>2, <3>1
  <2> QED
    BY <2>1, <2>2, <2>3 DEF OwnersWithout
<1>4. ASSUME NEW a \in Pool, O[a] # NoClient
      PROVE  L[O[a]].ip = a
  <2>1. O[a] = ownerByIP[a] /\ \A d \in gone : leaseByID[d].ip # a
    BY <1>4 DEF OwnersWithout
  <2>2. ownerByIP[a] \in Clients /\ leaseByID[ownerByIP[a]].ip = a
    BY <1>4, <2>1 DEF MapsAgree, Inverses
  <2> QED
    BY <2>1, <2>2 DEF LeasesWithout
<1> QED
  BY <1>1, <1>2, <1>3, <1>4 DEF Inverses

\* The sweep releases clients, and only offline ones.
LEMMA SweepableFacts ==
    /\ Sweepable \in SUBSET Clients
    /\ \A c \in Sweepable : HasLease(c) /\ ~leaseByID[c].online /\ leaseByID[c].left = Expired
BY DEF Sweepable

\* Acquire for a client with a lease.
LEMMA RenewPreserves ==
    ASSUME ManagerInv, NEW c \in Clients, AcquireRenew(c)
    PROVE  ManagerInv' /\ leaseByID'[c] = Granted(leaseByID[c].ip)
<1> DEFINE L == LeasesWithout(Sweepable)
           O == OwnersWithout(Sweepable)
<1>1. L \in Leases /\ O \in Owners /\ Inverses(L, O)
  BY WithoutAgrees, SweepableFacts
<1>2. L[c] = leaseByID[c] /\ leaseByID[c] \in Lease /\ L[c].ip \in Pool
  BY HasLeaseType, LeaseFacts DEF AcquireRenew, LeasesWithout, ManagerInv
<1>3. leaseByID' = [L EXCEPT ![c] = Granted(L[c].ip)] /\ ownerByIP' = O /\ next' = next
  BY DEF AcquireRenew
<1>4. ManagerTypeOK'
  BY <1>1, <1>2, <1>3, LeaseFacts DEF ManagerInv, ManagerTypeOK, Leases, Owners
<1>5. \A d \in Clients : leaseByID'[d].ip = L[d].ip
  BY <1>1, <1>2, <1>3, LeaseFacts DEF Leases
<1>6. MapsAgree'
  BY <1>1, <1>3, <1>5 DEF MapsAgree, Inverses, Owners
<1> QED
  BY <1>1, <1>2, <1>3, <1>4, <1>6 DEF ManagerInv, Leases

\* Acquire for a client without one: the address it gets was free.
LEMMA AllocatePreserves ==
    ASSUME ManagerInv, NEW c \in Clients, AcquireAllocate(c)
    PROVE  /\ ManagerInv'
           /\ \E a \in Pool \ Reserved :
                /\ \A d \in Clients : LeasesWithout(Sweepable)[d].ip # a
                /\ LeasesWithout(Sweepable)[c].ip = NoIP
                /\ leaseByID' = [LeasesWithout(Sweepable) EXCEPT ![c] = Granted(a)]
<1> DEFINE L == LeasesWithout(Sweepable)
           O == OwnersWithout(Sweepable)
<1>1. L \in Leases /\ O \in Owners /\ Inverses(L, O)
  BY WithoutAgrees, SweepableFacts
<1>2. L[c] = NoLease /\ L[c].ip = NoIP
  BY HasLeaseType, LeaseFacts DEF AcquireAllocate, AllocatesFor, LeasesWithout, ManagerInv
<1>3. PICK k \in 0 .. (PoolSize - 1) :
        /\ FirstFree(next, k, Used(O))
        /\ leaseByID' = [L EXCEPT ![c] = Granted(uint32ToIP(Slot(next, k)))]
        /\ ownerByIP' = [O EXCEPT ![uint32ToIP(Slot(next, k))] = c]
        /\ next' = Slot(next, k + 1)
  BY DEF AcquireAllocate
<1> DEFINE a == uint32ToIP(Slot(next, k))
<1>4. Slot(next, k) \in start .. end /\ Slot(next, k + 1) \in start .. end
  BY AdvanceIsNextSlot DEF ManagerInv, ManagerTypeOK
<1>5. a \in Pool /\ a \notin Reserved /\ O[a] = NoClient
  BY <1>3, <1>4 DEF FirstFree, FreeAt, Free, Used, Pool
<1> HIDE DEF a
<1>6. \A d \in Clients : L[d].ip # a
  <2> SUFFICES ASSUME NEW d \in Clients, L[d].ip = a PROVE FALSE
    OBVIOUS
  <2>1. L[d].ip # NoIP
    BY <1>5, NoIPAssumption
  <2> QED
    BY <1>1, <1>5, <2>1, ManagerAssumption DEF Inverses
<1>7. /\ leaseByID' = [L EXCEPT ![c] = Granted(a)]
      /\ ownerByIP' = [O EXCEPT ![a] = c]
  BY <1>3 DEF a
<1>8. ManagerTypeOK'
  <2>1. next' \in start .. end
    BY <1>3, <1>4
  <2> QED
    BY <1>1, <1>5, <1>7, <2>1, LeaseFacts DEF ManagerTypeOK, Leases, Owners
<1>9. MapsAgree'
  <2>1. ASSUME NEW d \in Clients, leaseByID'[d].ip # NoIP
        PROVE  ownerByIP'[leaseByID'[d].ip] = d
    <3>1. CASE d = c
      BY <1>1, <1>5, <1>7, <3>1, LeaseFacts DEF Leases, Owners
    <3>2. CASE d # c
      <4>1. leaseByID'[d] = L[d] /\ L[d].ip # a /\ L[d] \in Lease
        BY <1>1, <1>6, <1>7, <2>1, <3>2, LeaseFacts DEF Leases
      <4>2. O[L[d].ip] = d /\ L[d].ip \in Pool
        BY <1>1, <2>1, <4>1, LeaseFacts DEF Inverses
      <4> QED
        BY <1>1, <1>7, <4>1, <4>2 DEF Owners
    <3> QED
      BY <3>1, <3>2
  <2>2. ASSUME NEW b \in Pool, ownerByIP'[b] # NoClient
        PROVE  leaseByID'[ownerByIP'[b]].ip = b
    <3>1. CASE b = a
      BY <1>1, <1>5, <1>7, <3>1, LeaseFacts DEF Leases, Owners
    <3>2. CASE b # a
      <4>1. ownerByIP'[b] = O[b] /\ O[b] \in Clients /\ L[O[b]].ip = b
        BY <1>1, <1>7, <2>2, <3>2 DEF Inverses, Owners
      <4>2. O[b] # c
        BY <1>2, <4>1, NoIPAssumption
      <4> QED
        BY <1>1, <1>7, <4>1, <4>2 DEF Leases
    <3> QED
      BY <3>1, <3>2
  <2> QED
    BY <2>1, <2>2 DEF MapsAgree, Inverses
<1> QED
  BY <1>2, <1>5, <1>6, <1>7, <1>8, <1>9 DEF ManagerInv

\* The operations that only release leases.
LEMMA ReleasePreserves ==
    ASSUME ManagerInv, NEW gone \in SUBSET Clients,
           leaseByID' = LeasesWithout(gone), ownerByIP' = OwnersWithout(gone), next' = next
    PROVE  ManagerInv'
BY WithoutAgrees DEF ManagerInv, ManagerTypeOK, MapsAgree, Leases, Owners

\* The operations that change timers and the online flag only.
LEMMA TimersPreserve ==
    ASSUME ManagerInv,
           leaseByID' \in Leases, ownerByIP' = ownerByIP, next' = next,
           \A c \in Clients : leaseByID'[c].ip = leaseByID[c].ip
    PROVE  ManagerInv'
BY DEF ManagerInv, ManagerTypeOK, MapsAgree, Inverses, Leases

\* MarkOffline changes one lease's flag and timer.
LEMMA MarkOfflinePreserves ==
    ASSUME ManagerInv, NEW c \in Clients, MarkOffline(c)
    PROVE  /\ ManagerInv'
           /\ \A d \in Clients : leaseByID'[d].ip = leaseByID[d].ip
           /\ \A d \in Clients \ {c} : leaseByID'[d] = leaseByID[d]
           /\ ~leaseByID'[c].online
           /\ HasLease(c) => leaseByID'[c].left = OfflineGrace
<1>1. leaseByID \in Leases /\ OfflineGrace \in TimeLeft
  BY ManagerAssumption DEF ManagerInv, ManagerTypeOK, Leases, TimeLeft, Expired
<1>2. CASE ~HasLease(c)
  BY <1>1, <1>2, TimersPreserve, LeaseFacts, HasLeaseType DEF MarkOffline, ManagerInv
<1>3. CASE HasLease(c)
  <2>1. leaseByID[c] \in Lease
    BY <1>3, HasLeaseType DEF ManagerInv
  <2> DEFINE l == [leaseByID[c] EXCEPT !.online = FALSE, !.left = OfflineGrace]
  <2>2. l \in Lease /\ l.ip = leaseByID[c].ip /\ l.online = FALSE /\ l.left = OfflineGrace
    BY <1>1, <2>1 DEF Lease
  <2>3. leaseByID' = [leaseByID EXCEPT ![c] = l] /\ ownerByIP' = ownerByIP /\ next' = next
    BY <1>1, <1>3 DEF MarkOffline, Leases
  <2> HIDE DEF l
  <2>4. leaseByID' \in Leases /\ \A d \in Clients : leaseByID'[d].ip = leaseByID[d].ip
    BY <1>1, <2>2, <2>3 DEF Leases
  <2> QED
    BY <1>1, <2>2, <2>3, <2>4, TimersPreserve DEF Leases
<1> QED
  BY <1>2, <1>3

\* Time moves timers and nothing else.
LEMMA TickPreserves ==
    ASSUME ManagerInv, Tick
    PROVE  /\ ManagerInv'
           /\ \A c \in Clients :
                /\ leaseByID'[c].ip = leaseByID[c].ip
                /\ leaseByID'[c].online = leaseByID[c].online
                /\ leaseByID'[c].left = IF leaseByID[c].left = Expired
                                          THEN Expired ELSE leaseByID[c].left - 1
<1>1. leaseByID \in Leases
  BY DEF ManagerInv, ManagerTypeOK, Leases
<1>2. ASSUME NEW c \in Clients
      PROVE  /\ leaseByID'[c] \in Lease \cup {NoLease}
             /\ leaseByID'[c].ip = leaseByID[c].ip
             /\ leaseByID'[c].online = leaseByID[c].online
             /\ leaseByID'[c].left = IF leaseByID[c].left = Expired
                                       THEN Expired ELSE leaseByID[c].left - 1
  <2> DEFINE l == leaseByID[c]
  <2>1. CASE l.left = Expired
    <3>1. leaseByID'[c] = l
      BY <2>1 DEF Tick
    <3> QED
      BY <1>1, <2>1, <3>1 DEF Leases
  <2>2. CASE l.left # Expired
    <3>1. leaseByID'[c] = [l EXCEPT !.left = l.left - 1]
      BY <2>2 DEF Tick
    <3>2. l \in Lease
      BY <1>1, <2>2, LeaseFacts DEF Leases
    <3>3. l.left - 1 \in TimeLeft
      BY <2>2, <3>2, LeaseFacts, ManagerAssumption DEF TimeLeft, Expired
    <3> QED
      BY <2>2, <3>1, <3>2, <3>3 DEF Lease
  <2> QED
    BY <2>1, <2>2
<1>3. leaseByID' \in Leases
  <2>1. leaseByID' = [c \in Clients |-> leaseByID'[c]]
    BY DEF Tick
  <2> QED
    BY <1>2, <2>1 DEF Leases
<1>4. ownerByIP' = ownerByIP /\ next' = next
  BY DEF Tick
<1> QED
  BY <1>2, <1>3, <1>4, TimersPreserve
=============================================================================
