---------------------------- MODULE LeaseHistory ----------------------------
(***************************************************************************)
(* VDhcpManager with the history its promise to clients is about: how many *)
(* ticks ago a client was last marked offline (up to one past the grace    *)
(* period).  age only watches; it never restricts a step of the manager.   *)
(***************************************************************************)
EXTENDS VDhcpManager

VARIABLE age

historyVars == << leaseByID, ownerByIP, next, age >>

Ages == 0 .. (OfflineGrace + 1)

Init == ManagerInit /\ age = [c \in Clients |-> 0]

Next ==
    \/ \E c \in Clients :
         \/ AcquireRenew(c)     /\ UNCHANGED age
         \/ AcquireAllocate(c)  /\ UNCHANGED age
         \/ AcquireExhausted(c) /\ UNCHANGED age
         \/ MarkOffline(c)      /\ age' = [age EXCEPT ![c] = 0]
         \/ Release(c)          /\ UNCHANGED age
    \/ SweepExpired /\ UNCHANGED age
    \/ Tick /\ age' = [c \in Clients |-> IF age[c] <= OfflineGrace THEN age[c] + 1 ELSE age[c]]

Spec == Init /\ [][Next]_historyVars

\* All variables have the values the program's maps and cursor can have; the
\* cursor in particular stays inside the pool, so next++ cannot overflow.
TypeOK == ManagerTypeOK /\ age \in [Clients -> Ages]

\* A client that comes back within the grace period gets the address it had.
\* Acquire and SweepExpired take the address of a client only when it is
\* offline and was marked offline more than OfflineGrace ago; Release, which
\* gives the address up, is the only other way to lose it.
GraceHonoured ==
    [][\A c \in Clients :
         HasLease(c) /\ leaseByID'[c].ip # leaseByID[c].ip
            => \/ ~leaseByID[c].online /\ age[c] > OfflineGrace
               \/ Release(c)]_historyVars

\* The manager implements the address pool its clients rely on.
Abstract ==
    INSTANCE AddressPool
      WITH Addresses <- Pool \ Reserved,
           addr <- [c \in Clients |-> leaseByID[c].ip],
           online <- [c \in Clients |-> leaseByID[c].online]
AddressPoolSpec == Abstract!Spec
=============================================================================
