---------------------------- MODULE VDhcpManager ----------------------------
(***************************************************************************)
(* vdhcp.Manager: which client holds which address of the pool.  Every     *)
(* exported method runs under m.mu, so each is one action.                 *)
(*                                                                         *)
(* leaseByID is the map of the same name, with NoLease for a missing key;  *)
(* ownerByIP likewise with NoClient.  ExpiresAt is kept as the time that   *)
(* is left, counted down by Tick: a lease whose ExpiresAt lies strictly in *)
(* the past (now.After) has left = -1.                                     *)
(***************************************************************************)
EXTENDS IPPool

CONSTANTS Clients,       \* client identities (hashes of their public keys)
          NoClient,      \* the missing value of ownerByIP
          LeaseTTL,      \* ticks a lease is granted for
          OfflineGrace   \* ticks an offline client keeps its address

ASSUME ManagerAssumption ==
    /\ NoClient \notin Clients
    /\ LeaseTTL \in Nat \ {0}
    /\ OfflineGrace \in Nat \ {0}

VARIABLES leaseByID, ownerByIP, next

managerVars == << leaseByID, ownerByIP, next >>

Expired == -1
TimeLeft == Expired .. (LeaseTTL + OfflineGrace)
Lease    == [ip : Pool, online : BOOLEAN, left : TimeLeft]
NoLease  == [ip |-> NoIP, online |-> FALSE, left |-> Expired]

ManagerTypeOK ==
    /\ leaseByID \in [Clients -> Lease \cup {NoLease}]
    /\ ownerByIP \in [Pool -> Clients \cup {NoClient}]
    /\ next \in start .. end

HasLease(c) == leaseByID[c].ip # NoIP

ManagerInit ==
    /\ leaseByID = [c \in Clients |-> NoLease]
    /\ ownerByIP = [a \in Pool |-> NoClient]
    /\ next = start

-----------------------------------------------------------------------------
(* releaseLocked for every client of a set: both maps forget the lease.    *)

LeasesWithout(gone) ==
    [c \in Clients |-> IF c \in gone THEN NoLease ELSE leaseByID[c]]

OwnersKept(gone) == ownerByIP
OwnersWithout(gone) ==
    [a \in Pool |-> IF \E c \in gone : leaseByID[c].ip = a
                      THEN NoClient ELSE ownerByIP[a]]

\* The leases sweepExpiredLocked releases.
SweepableOnlineToo ==
    {c \in Clients : HasLease(c) /\ leaseByID[c].left = Expired}
SweepableAtOnce ==
    {c \in Clients : HasLease(c) /\ ~leaseByID[c].online}
Sweepable ==
    {c \in Clients : HasLease(c) /\ ~leaseByID[c].online /\ leaseByID[c].left = Expired}

Used(owners) == {a \in Pool : owners[a] # NoClient}

Granted(ip) == [ip |-> ip, online |-> TRUE, left |-> LeaseTTL]

-----------------------------------------------------------------------------
(* Acquire sweeps, then renews the client's lease, allocates an address,   *)
(* or fails; the sweep and the full turn of the cursor stay when it fails. *)

AcquireRenew(c) ==
    /\ HasLease(c)
    /\ c \notin Sweepable
    /\ leaseByID' = [LeasesWithout(Sweepable) EXCEPT ![c] = Granted(@.ip)]
    /\ ownerByIP' = OwnersWithout(Sweepable)
    /\ UNCHANGED next

AllocatesFor(c) == ~HasLease(c) \/ c \in Sweepable

AcquireAllocate(c) ==
    LET owners == OwnersWithout(Sweepable) IN
    /\ AllocatesFor(c)
    /\ \E k \in 0 .. (PoolSize - 1) :
         LET ip == uint32ToIP(Slot(next, k)) IN
         /\ FirstFree(next, k, Used(owners))
         /\ leaseByID' = [LeasesWithout(Sweepable) EXCEPT ![c] = Granted(ip)]
         /\ ownerByIP' = [owners EXCEPT ![ip] = c]
         /\ next' = Slot(next, k + 1)

AcquireExhausted(c) ==
    /\ AllocatesFor(c)
    /\ NoneFree(next, Used(OwnersWithout(Sweepable)))
    /\ leaseByID' = LeasesWithout(Sweepable)
    /\ ownerByIP' = OwnersWithout(Sweepable)
    /\ UNCHANGED next

MarkOfflineKeepingExpiry(c) ==
    /\ leaseByID' = IF HasLease(c)
                      THEN [leaseByID EXCEPT ![c].online = FALSE]
                      ELSE leaseByID
    /\ UNCHANGED << ownerByIP, next >>
MarkOffline(c) ==
    /\ leaseByID' = IF HasLease(c)
                      THEN [leaseByID EXCEPT ![c].online = FALSE,
                                             ![c].left = OfflineGrace]
                      ELSE leaseByID
    /\ UNCHANGED << ownerByIP, next >>

Release(c) ==
    /\ leaseByID' = LeasesWithout({c})
    /\ ownerByIP' = OwnersWithout({c})
    /\ UNCHANGED next

SweepExpired ==
    /\ leaseByID' = LeasesWithout(Sweepable)
    /\ ownerByIP' = OwnersWithout(Sweepable)
    /\ UNCHANGED next

\* One unit of time passes.
Tick ==
    /\ leaseByID' = [c \in Clients |->
                       IF leaseByID[c].left = Expired
                         THEN leaseByID[c]
                         ELSE [leaseByID[c] EXCEPT !.left = @ - 1]]
    /\ UNCHANGED << ownerByIP, next >>

ManagerNext ==
    \/ \E c \in Clients :
         \/ AcquireRenew(c)
         \/ AcquireAllocate(c)
         \/ AcquireExhausted(c)
         \/ MarkOffline(c)
         \/ Release(c)
    \/ SweepExpired
    \/ Tick

ManagerSpec == ManagerInit /\ [][ManagerNext]_managerVars

-----------------------------------------------------------------------------
(* Properties.                                                             *)

Inverses(leases, owners) ==
    /\ \A c \in Clients : leases[c].ip # NoIP => owners[leases[c].ip] = c
    /\ \A a \in Pool : owners[a] # NoClient => leases[owners[a]].ip = a

\* The two maps of the manager are inverse to one another: a client with a
\* lease owns its address, an address with an owner is that owner's lease.
\* Acquire, releaseLocked and the sweep each write both maps and may not
\* leave an address owned by nobody's lease (a leak) or leased twice.
MapsAgree == Inverses(leaseByID, ownerByIP)

\* No two clients hold the same address, and nobody holds the gateway's.
ExclusiveAddresses ==
    \A c \in Clients : HasLease(c) =>
        /\ leaseByID[c].ip \notin Reserved
        /\ \A d \in Clients : leaseByID[c].ip = leaseByID[d].ip => c = d

\* Acquire turns a client away only when each address of the pool but the
\* gateway's is held by a client that is online or within its grace period.
Refused(c) == AllocatesFor(c) /\ NoneFree(next, Used(OwnersWithout(Sweepable)))
RefusedOnlyWhenFull ==
    \A c \in Clients :
        Refused(c) => \A a \in Pool \ Reserved :
                        \E d \in Clients : /\ leaseByID[d].ip = a
                                           /\ leaseByID[d].online \/ leaseByID[d].left >= 0
=============================================================================
