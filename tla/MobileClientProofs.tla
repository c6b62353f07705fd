------------------------- MODULE MobileClientProofs -------------------------
(***************************************************************************)
(* Proofs about the Android client, for any number of calls of Start and   *)
(* any number of connections.  Beside the types the inductive invariant    *)
(* says                                                                    *)
(*   Controlled  what Start and Stop leave in the fields at each of their  *)
(*               steps, so that no descriptor is overwritten;              *)
(*   Running     that a ready session belongs to a run that has not ended; *)
(*   OnceGiven   that a connection's OFFER is applied once at most,        *)
(*               although the runs share the request it answers;           *)
(*   Counted     that each descriptor answers a call of OnAddress.         *)
(***************************************************************************)
EXTENDS MobileClient, FiniteSetTheorems, TLAPS

Controlled ==
    /\ started <=> ctl \in {"starting", "started"}
    /\ ctl = "starting" => runs > 0 /\ ctx = runs
    /\ ctl \in {"started", "take"} => runs > 0 /\ ctx = runs /\ client = runs
    /\ IF ctl \in {"cancel", "close", "closeTun"}
         THEN runs > 0 /\ held.ctx = runs /\ held.client = runs
         ELSE held = Nothing
    /\ ctl \in {"cancel", "close", "closeTun", "stopped"} => tun = 0

Running == ready => \E g \in Runs : pc[g] \notin {"none", "ended"}

\* The goroutine is in a callback of a connection, or reads from it; it is in
\* onConnect, or has an OFFER it may apply.
Session == {"connected", "greeting", "requesting", "serving", "offered", "valid", "applied"}
Asking  == {"connected", "greeting", "requesting", "valid", "applied"}
NotAsked == {"connected", "greeting", "applied"}

OnceGiven ==
    /\ \A g, h \in Runs : conn[g] # 0 /\ conn[g] = conn[h] => g = h
    /\ pending # 0 => pending \notin given
    /\ \A g \in Runs :
         /\ pc[g] \in Session => conn[g] # 0
         /\ pc[g] \in Asking => conn[g] \notin given
         /\ pc[g] \in NotAsked => pending # conn[g]

Counted == toAttach + fds <= Cardinality(given)

MobileInv == TypeOK /\ Controlled /\ NoTunLeaked /\ Running /\ OnceGiven /\ Counted

-----------------------------------------------------------------------------
(* The steps of a run that open no connection and give no address.         *)

Moves(g, to) ==
    /\ UNCHANGED << app, device, conn, n, given >>
    /\ pc' = [pc EXCEPT ![g] = to]
    /\ to \in PCs \ {"none"}
    /\ closed' \subseteq closed
    /\ shut' = shut \/ (pc[g] \in Session /\ shut' = shut \cup {conn[g]})
    /\ (ready' = ready /\ to # "ended") \/ ready' = FALSE
    /\ pending' = pending \/ pending' = 0
    /\ to \in Session => pc[g] \in Session
    /\ to \in Asking => conn[g] \notin given
    /\ to \in NotAsked => pending' # conn[g]

\* The fields of the app and the device are all that these parts are about.
LEMMA AppFrame ==
    ASSUME Controlled, NoTunLeaked, UNCHANGED << app, tun, open, attach >>
    PROVE  Controlled' /\ NoTunLeaked'
BY DEF Controlled, NoTunLeaked, app

\* The types of the parts of a run.
LEMMA RunTypes ==
    ASSUME TypeOK, NEW g \in Runs
    PROVE  /\ pc[g] \in PCs /\ pc \in [Runs -> PCs] /\ conn \in [Runs -> 0 .. n]
           /\ conn[g] \in 0 .. n /\ n \in Nat /\ pending \in 0 .. n
           /\ shut \in SUBSET (1 .. n) /\ given \in SUBSET (1 .. n)
           /\ toAttach \in Nat /\ fds \in Nat
BY MobileAssumption DEF TypeOK

\* Such a step keeps the invariant.
LEMMA MovesPreserves ==
    ASSUME MobileInv, NEW g \in Runs, NEW to, Moves(g, to)
    PROVE  MobileInv'
<1>1. TypeOK /\ Controlled /\ NoTunLeaked /\ Running /\ OnceGiven /\ Counted
  BY DEF MobileInv
<1>2. /\ UNCHANGED << ctl, runs, started, ctx, client, held, cancelled >>
      /\ UNCHANGED << tun, toAttach, open, fds, attach, conn, n, given >>
      /\ pc' = [pc EXCEPT ![g] = to] /\ to \in PCs
      /\ pending' = pending \/ pending' = 0
  BY DEF Moves, app, device
<1>3. /\ pc \in [Runs -> PCs] /\ conn[g] \in 0 .. n /\ n \in Nat /\ pending \in 0 .. n
      /\ shut \in SUBSET (1 .. n)
  BY <1>1, RunTypes
<1>4. pc[g] \in Session => conn[g] # 0
  BY <1>1 DEF OnceGiven
<1>5. TypeOK'
  <2>1. pc' \in [Runs -> PCs] /\ pending' \in 0 .. n
    BY <1>2, <1>3
  <2>2. shut' \in SUBSET (1 .. n)
    <3>1. pc[g] \in Session => conn[g] \in 1 .. n
      BY <1>3, <1>4
    <3>2. shut' = shut \/ (pc[g] \in Session /\ shut' = shut \cup {conn[g]})
      BY DEF Moves
    <3> QED
      BY <1>3, <3>1, <3>2
  <2>3. ready' \in BOOLEAN /\ closed' \in SUBSET Runs
    BY <1>1 DEF Moves, TypeOK
  <2> QED
    BY <1>1, <1>2, <2>1, <2>2, <2>3 DEF TypeOK
<1>6. Controlled' /\ NoTunLeaked'
  BY <1>1, <1>2, AppFrame DEF Moves
<1>7. Running'
  <2>1. pc'[g] = to
    BY <1>2, <1>3
  <2> QED
    BY <2>1 DEF Running, Moves
<1>8. OnceGiven'
  <2>1. \A h, k \in Runs : conn'[h] # 0 /\ conn'[h] = conn'[k] => h = k
    BY <1>1, <1>2 DEF OnceGiven
  <2>2. pending' # 0 => pending' \notin given'
    BY <1>1, <1>2 DEF OnceGiven
  <2>3. ASSUME NEW h \in Runs
        PROVE  /\ pc'[h] \in Session => conn'[h] # 0
               /\ pc'[h] \in Asking => conn'[h] \notin given'
               /\ pc'[h] \in NotAsked => pending' # conn'[h]
    <3>1. CASE h = g
      BY <1>2, <1>3, <1>4, <3>1 DEF Moves
    <3>2. CASE h # g
      <4>1. pc'[h] = pc[h] /\ conn'[h] = conn[h] /\ given' = given
        BY <1>2, <1>3, <3>2
      <4>2. pc[h] \in NotAsked => conn[h] # 0 /\ pending # conn[h]
        BY <1>1 DEF OnceGiven, NotAsked, Session
      <4> QED
        BY <1>1, <1>2, <4>1, <4>2 DEF OnceGiven
    <3> QED
      BY <3>1, <3>2
  <2> QED
    BY <2>1, <2>2, <2>3 DEF OnceGiven
<1>9. Counted'
  BY <1>1, <1>2 DEF Counted
<1> QED
  BY <1>5, <1>6, <1>7, <1>8, <1>9 DEF MobileInv

\* Run, connectAndServe and onDisconnect, without a connection.
LEMMA RunMoves ==
    ASSUME MobileInv, NEW g \in Runs,
           \/ Run(g) \/ runLoop(g) \/ connectFails(g) \/ returned(g) \/ sleepContext(g)
           \/ onDisconnect(g) \/ onDisconnectForget(g) \/ runEnds(g)
    PROVE  \E to : Moves(g, to)
<1> USE DEF Moves, PCs, Session, Asking, NotAsked, Goto
<1>1. CASE Run(g)
  <2>1. Moves(g, "loop")
    BY <1>1 DEF Run
  <2> QED
    BY <2>1
<1>2. CASE runLoop(g)
  <2>1. Moves(g, "ending") \/ Moves(g, "dialing")
    BY <1>2 DEF runLoop
  <2> QED
    BY <2>1
<1>3. CASE connectFails(g)
  <2>1. Moves(g, "returned")
    BY <1>3 DEF connectFails
  <2> QED
    BY <2>1
<1>4. CASE returned(g)
  <2>1. Moves(g, "ending") \/ Moves(g, "disconnected")
    BY <1>4 DEF returned
  <2> QED
    BY <2>1
<1>5. CASE sleepContext(g)
  <2>1. Moves(g, "ending") \/ Moves(g, "loop")
    BY <1>5 DEF sleepContext
  <2> QED
    BY <2>1
<1>6. CASE onDisconnect(g)
  <2>1. Moves(g, "forgetting")
    BY <1>6 DEF onDisconnect
  <2> QED
    BY <2>1
<1>7. CASE onDisconnectForget(g)
  <2>1. Moves(g, "sleep")
    BY <1>7 DEF onDisconnectForget
  <2> QED
    BY <2>1
<1>8. CASE runEnds(g)
  <2>1. Moves(g, "ended")
    BY <1>8 DEF runEnds
  <2> QED
    BY <2>1
<1> QED
  BY <1>1, <1>2, <1>3, <1>4, <1>5, <1>6, <1>7, <1>8

\* onConnect, the messages and the heartbeat of a connection.
LEMMA SessionMoves ==
    ASSUME MobileInv, NEW g \in Runs,
           \/ onConnect(g) \/ onConnectWritten(g) \/ onConnectFails(g)
           \/ refuseMessage(g) \/ handleVDHCP(g) \/ validateOffer(g) \/ invalidOffer(g)
           \/ applyOffer(g) \/ heartbeatFails(g)
    PROVE  \E to : Moves(g, to)
<1>1. /\ pc[g] \in Session => conn[g] # 0
      /\ pc[g] \in Asking => conn[g] \notin given
      /\ pc[g] \in NotAsked => pending # conn[g]
      /\ pending # 0 => pending \notin given
  BY DEF MobileInv, OnceGiven
<1>2. pc[g] \in PCs /\ pc \in [Runs -> PCs]
  BY RunTypes DEF MobileInv
<1> USE DEF PCs, Session, Asking, NotAsked, Goto
<1>3. CASE onConnect(g)
  <2>1. Moves(g, "greeting")
    BY <1>1, <1>3 DEF onConnect, Moves
  <2> QED
    BY <2>1
<1>4. CASE onConnectWritten(g)
  <2>1. Moves(g, "serving")
    BY <1>1, <1>4 DEF onConnectWritten, Moves
  <2> QED
    BY <2>1
<1>5. CASE onConnectFails(g) \/ refuseMessage(g) \/ invalidOffer(g)
  <2>1. GiveUp(g) /\ pc[g] \in Session
    BY <1>5 DEF onConnectFails, refuseMessage, invalidOffer, Receives
  <2>2. Moves(g, "serving")
    BY <1>1, <2>1 DEF GiveUp, Moves
  <2> QED
    BY <2>2
<1>6. CASE handleVDHCP(g)
  <2>1. Moves(g, "offered")
    BY <1>1, <1>6 DEF handleVDHCP, Moves
  <2> QED
    BY <2>1
<1>7. CASE validateOffer(g)
  <2>1. Moves(g, "valid")
    BY <1>1, <1>7 DEF validateOffer, Moves
  <2> QED
    BY <2>1
<1>8. CASE applyOffer(g)
  <2>1. Moves(g, "applied")
    BY <1>1, <1>8 DEF applyOffer, Moves
  <2> QED
    BY <2>1
<1>9. CASE heartbeatFails(g)
  <2>1. pc[g] \in {"serving", "offered", "valid", "applied"} /\ pc' = [pc EXCEPT ![g] = pc[g]]
    BY <1>2, <1>9 DEF heartbeatFails
  <2>2. Moves(g, pc[g])
    BY <1>1, <1>2, <1>9, <2>1 DEF heartbeatFails, Moves
  <2> QED
    BY <2>2
<1> QED
  BY <1>3, <1>4, <1>5, <1>6, <1>7, <1>8, <1>9

-----------------------------------------------------------------------------
(* Connections and addresses.                                              *)

\* A connection is opened, and closed again if the run was closed meanwhile.
LEMMA ConnectPreserves ==
    ASSUME MobileInv, NEW g \in Runs, connect(g)
    PROVE  MobileInv'
<1>1. TypeOK /\ Controlled /\ NoTunLeaked /\ Running /\ OnceGiven /\ Counted
  BY DEF MobileInv
<1>2. /\ UNCHANGED << ctl, runs, started, ctx, client, held, cancelled >>
      /\ UNCHANGED << tun, toAttach, open, fds, attach, closed, given, pending, ready >>
      /\ n < MaxConns /\ n' = n + 1
      /\ \/ /\ conn' = conn /\ pc' = [pc EXCEPT ![g] = "returned"] /\ shut' = shut \cup {n + 1}
         \/ /\ conn' = [conn EXCEPT ![g] = n + 1] /\ pc' = [pc EXCEPT ![g] = "connected"] /\ shut' = shut
  BY DEF connect, app, device
<1>3. /\ pc \in [Runs -> PCs] /\ conn \in [Runs -> 0 .. n] /\ n \in Nat /\ pending \in 0 .. n
      /\ shut \in SUBSET (1 .. n) /\ given \in SUBSET (1 .. n) /\ MaxConns \in Nat
  BY <1>1, RunTypes, MobileAssumption
<1>4. 0 .. n \subseteq 0 .. (n + 1) /\ 1 .. n \subseteq 1 .. (n + 1) /\ n + 1 \in 0 .. MaxConns
      /\ n + 1 \in 1 .. (n + 1) /\ n + 1 \notin 0 .. n /\ n + 1 # 0
  BY <1>2, <1>3
<1>5. TypeOK'
  <2>1. pc' \in [Runs -> PCs]
    BY <1>2, <1>3 DEF PCs
  <2>2. conn' \in [Runs -> 0 .. n']
    BY <1>2, <1>3, <1>4
  <2>3. /\ shut' \in SUBSET (1 .. n') /\ given' \in SUBSET (1 .. n') /\ pending' \in 0 .. n'
        /\ n' \in 0 .. MaxConns
    BY <1>2, <1>3, <1>4
  <2>4. toAttach' \in 0 .. n' /\ fds' \in 0 .. n'
    BY <1>1, <1>2, <1>4 DEF TypeOK
  <2> QED
    BY <1>1, <1>2, <2>1, <2>2, <2>3, <2>4 DEF TypeOK
<1>6. Controlled' /\ NoTunLeaked'
  BY <1>1, <1>2, AppFrame DEF app
<1>7. Running'
  <2>1. pc'[g] \in {"returned", "connected"}
    BY <1>2, <1>3
  <2> QED
    BY <2>1 DEF Running
<1>8. OnceGiven'
  <2>1. CASE conn' = conn /\ pc' = [pc EXCEPT ![g] = "returned"]
    <3>1. \A h \in Runs : pc'[h] = IF h = g THEN "returned" ELSE pc[h]
      BY <1>3, <2>1
    <3> QED
      BY <1>1, <1>2, <2>1, <3>1 DEF OnceGiven, Session, Asking, NotAsked
  <2>2. CASE conn' = [conn EXCEPT ![g] = n + 1] /\ pc' = [pc EXCEPT ![g] = "connected"]
    <3>1. /\ pc'[g] = "connected" /\ conn'[g] = n + 1
          /\ \A h \in Runs \ {g} : pc'[h] = pc[h] /\ conn'[h] = conn[h] /\ conn[h] # n + 1
      BY <1>3, <1>4, <2>2
    <3>2. n + 1 \notin given /\ pending # n + 1
      BY <1>3, <1>4
    <3>3. \A h, k \in Runs : conn'[h] # 0 /\ conn'[h] = conn'[k] => h = k
      BY <1>1, <3>1 DEF OnceGiven
    <3>4. ASSUME NEW h \in Runs
          PROVE  /\ pc'[h] \in Session => conn'[h] # 0
                 /\ pc'[h] \in Asking => conn'[h] \notin given
                 /\ pc'[h] \in NotAsked => pending # conn'[h]
      BY <1>1, <1>4, <3>1, <3>2 DEF OnceGiven
    <3> QED
      BY <1>1, <1>2, <3>3, <3>4 DEF OnceGiven
  <2> QED
    BY <1>2, <2>1, <2>2
<1>9. Counted'
  BY <1>1, <1>2 DEF Counted
<1> QED
  BY <1>5, <1>6, <1>7, <1>8, <1>9 DEF MobileInv

\* Read fails and connectAndServe gives the connection up.
LEMMA ReadFailsPreserves ==
    ASSUME MobileInv, NEW g \in Runs, readFails(g)
    PROVE  MobileInv'
<1>1. TypeOK /\ Controlled /\ NoTunLeaked /\ Running /\ OnceGiven /\ Counted
  BY DEF MobileInv
<1>2. /\ UNCHANGED << ctl, runs, started, ctx, client, held, cancelled >>
      /\ UNCHANGED << tun, toAttach, open, fds, attach, closed, given, pending, ready, n >>
      /\ pc[g] = "serving" /\ pc' = [pc EXCEPT ![g] = "returned"]
      /\ conn' = [conn EXCEPT ![g] = 0] /\ shut' = shut \cup {conn[g]}
  BY DEF readFails, app, device, Goto
<1>3. /\ pc \in [Runs -> PCs] /\ conn \in [Runs -> 0 .. n] /\ n \in Nat /\ shut \in SUBSET (1 .. n)
  BY <1>1, RunTypes
<1>4. conn[g] \in 1 .. n
  <2>1. conn[g] # 0 /\ conn[g] \in 0 .. n
    BY <1>1, <1>2, <1>3 DEF OnceGiven, Session
  <2> QED
    BY <1>3, <2>1
<1>5. TypeOK'
  <2>1. pc' \in [Runs -> PCs] /\ shut' \in SUBSET (1 .. n)
    BY <1>2, <1>3, <1>4 DEF PCs
  <2>2. 0 \in 0 .. n
    BY <1>3
  <2>3. conn' \in [Runs -> 0 .. n]
    BY <1>2, <1>3, <2>2
  <2> QED
    BY <1>1, <1>2, <2>1, <2>3 DEF TypeOK
<1>6. Controlled' /\ NoTunLeaked'
  BY <1>1, <1>2, AppFrame DEF app
<1>7. /\ pc'[g] = "returned" /\ conn'[g] = 0
      /\ \A h \in Runs \ {g} : pc'[h] = pc[h] /\ conn'[h] = conn[h]
  BY <1>2, <1>3
<1>8. Running'
  BY <1>7 DEF Running
<1>9. OnceGiven'
  BY <1>1, <1>2, <1>7 DEF OnceGiven, Session, Asking, NotAsked
<1>10. Counted'
  BY <1>1, <1>2 DEF Counted
<1> QED
  BY <1>5, <1>6, <1>8, <1>9, <1>10 DEF MobileInv

\* onConnect remembers the request, which every run does in the same field.
LEMMA RequestPreserves ==
    ASSUME MobileInv, NEW g \in Runs, onConnectRequest(g)
    PROVE  MobileInv'
<1>1. TypeOK /\ Controlled /\ NoTunLeaked /\ Running /\ OnceGiven /\ Counted
  BY DEF MobileInv
<1>2. /\ UNCHANGED << ctl, runs, started, ctx, client, held, cancelled >>
      /\ UNCHANGED << tun, toAttach, open, fds, attach, closed, given, ready, n, conn, shut >>
      /\ pc[g] = "greeting" /\ pc' = [pc EXCEPT ![g] = "requesting"]
      /\ pending' = conn[g]
  BY DEF onConnectRequest, app, device, Goto
<1>3. pc \in [Runs -> PCs] /\ conn \in [Runs -> 0 .. n]
  BY <1>1, RunTypes
<1>4. conn[g] # 0 /\ conn[g] \notin given
  BY <1>1, <1>2 DEF OnceGiven, Session, Asking
<1>5. TypeOK'
  <2>1. pc' \in [Runs -> PCs] /\ pending' \in 0 .. n
    BY <1>2, <1>3 DEF PCs
  <2> QED
    BY <1>1, <1>2, <2>1 DEF TypeOK
<1>6. Controlled' /\ NoTunLeaked'
  BY <1>1, <1>2, AppFrame DEF app
<1>7. pc'[g] = "requesting" /\ \A h \in Runs \ {g} : pc'[h] = pc[h]
  BY <1>2, <1>3
<1>8. Running'
  BY <1>7 DEF Running
<1>9. OnceGiven'
  <2>1. \A h \in Runs \ {g} : conn[h] # conn[g]
    BY <1>1, <1>4 DEF OnceGiven
  <2> QED
    BY <1>1, <1>2, <1>4, <1>7, <2>1 DEF OnceGiven, Session, Asking, NotAsked
<1>10. Counted'
  BY <1>1, <1>2 DEF Counted
<1> QED
  BY <1>5, <1>6, <1>8, <1>9, <1>10 DEF MobileInv

\* The connections that were given an address can be counted.
LEMMA GivenFinite ==
    ASSUME TypeOK
    PROVE  /\ IsFiniteSet(given) /\ Cardinality(given) \in Nat
           /\ Cardinality(given) <= n
<1>1. n \in Nat /\ given \in SUBSET (1 .. n)
  BY MobileAssumption DEF TypeOK
<1>2. IsFiniteSet(1 .. n) /\ Cardinality(1 .. n) = n
  BY <1>1, FS_Interval
<1> QED
  BY <1>1, <1>2, FS_Subset, FS_CardinalityType

\* The session is ready and the app is asked for a descriptor.
LEMMA AddressPreserves ==
    ASSUME MobileInv, NEW g \in Runs, OnAddress(g)
    PROVE  MobileInv'
<1>1. TypeOK /\ Controlled /\ NoTunLeaked /\ Running /\ OnceGiven /\ Counted
  BY DEF MobileInv
<1>2. /\ UNCHANGED << ctl, runs, started, ctx, client, held, cancelled >>
      /\ UNCHANGED << tun, open, fds, attach, closed, pending, n, conn, shut >>
      /\ pc[g] = "applied" /\ pc' = [pc EXCEPT ![g] = "serving"]
      /\ ready' = TRUE /\ given' = given \cup {conn[g]} /\ toAttach' = toAttach + 1
  BY DEF OnAddress, app, device, Goto
<1>3. /\ pc \in [Runs -> PCs] /\ conn \in [Runs -> 0 .. n] /\ n \in Nat /\ given \in SUBSET (1 .. n)
      /\ toAttach \in Nat /\ fds \in Nat
  BY <1>1, RunTypes
<1>4. conn[g] # 0 /\ conn[g] \notin given /\ pending # conn[g]
  BY <1>1, <1>2 DEF OnceGiven, Session, Asking, NotAsked
<1>5. given' \in SUBSET (1 .. n)
  <2>1. conn[g] \in 0 .. n
    BY <1>3
  <2>2. conn[g] \in 1 .. n
    BY <1>3, <1>4, <2>1
  <2> QED
    BY <1>2, <1>3, <2>2
<1>6. Counted' /\ toAttach' \in 0 .. n
  <2>1. IsFiniteSet(given) /\ Cardinality(given) \in Nat
    BY <1>1, GivenFinite
  <2>2. Cardinality(given') = Cardinality(given) + 1
    BY <1>2, <1>4, <2>1, FS_AddElement
  <2>3. Cardinality(given') <= n
    <3>1. IsFiniteSet(1 .. n) /\ Cardinality(1 .. n) = n
      BY <1>3, FS_Interval
    <3> QED
      BY <1>5, <3>1, FS_Subset
  <2> QED
    BY <1>1, <1>2, <1>3, <2>1, <2>2, <2>3 DEF Counted
<1>7. TypeOK'
  <2>1. pc' \in [Runs -> PCs]
    BY <1>2, <1>3 DEF PCs
  <2> QED
    BY <1>1, <1>2, <1>5, <1>6, <2>1 DEF TypeOK
<1>8. Controlled' /\ NoTunLeaked'
  BY <1>1, <1>2, AppFrame DEF app
<1>9. pc'[g] = "serving" /\ \A h \in Runs \ {g} : pc'[h] = pc[h]
  BY <1>2, <1>3
<1>10. Running'
  BY <1>9 DEF Running
<1>11. OnceGiven'
  <2>1. \A h \in Runs \ {g} : conn[h] # conn[g]
    BY <1>1, <1>4 DEF OnceGiven
  <2>2. \A h, k \in Runs : conn'[h] # 0 /\ conn'[h] = conn'[k] => h = k
    BY <1>1, <1>2 DEF OnceGiven
  <2>3. pending' # 0 => pending' \notin given'
    BY <1>1, <1>2, <1>4 DEF OnceGiven
  <2>4. ASSUME NEW h \in Runs
        PROVE  /\ pc'[h] \in Session => conn'[h] # 0
               /\ pc'[h] \in Asking => conn'[h] \notin given'
               /\ pc'[h] \in NotAsked => pending' # conn'[h]
    <3>1. CASE h = g
      BY <1>2, <1>4, <1>9, <3>1 DEF Asking, NotAsked
    <3>2. CASE h # g
      BY <1>1, <1>2, <1>9, <2>1, <3>2 DEF OnceGiven
    <3> QED
      BY <3>1, <3>2
  <2> QED
    BY <2>2, <2>3, <2>4 DEF OnceGiven
<1> QED
  BY <1>6, <1>7, <1>8, <1>10, <1>11 DEF MobileInv

-----------------------------------------------------------------------------
(* Start, Stop and AttachTun.                                              *)

\* They open no connection and give no address.
LEMMA TransportFrame ==
    ASSUME TypeOK, Running, OnceGiven,
           UNCHANGED << conn, given >>, pending' = pending \/ pending' = 0,
           ready' = ready \/ ready' = FALSE,
           pc' = pc \/ \E g \in Runs : pc' = [pc EXCEPT ![g] = "starting"]
    PROVE  Running' /\ OnceGiven'
<1>1. pc \in [Runs -> PCs]
  BY DEF TypeOK
<1>2. \A g \in Runs : pc'[g] = pc[g] \/ pc'[g] = "starting"
  BY <1>1
<1>3. Running'
  BY <1>2 DEF Running
<1>4. ASSUME NEW g \in Runs
      PROVE  /\ pc'[g] \in Session => conn[g] # 0
             /\ pc'[g] \in Asking => conn[g] \notin given
             /\ pc'[g] \in NotAsked => pending' # conn[g]
  BY <1>2 DEF OnceGiven, Session, Asking, NotAsked
<1>5. OnceGiven'
  BY <1>4 DEF OnceGiven
<1> QED
  BY <1>3, <1>5

\* Start resets the fields: Stop has left no descriptor in them.
LEMMA StartPreserves ==
    ASSUME MobileInv, Start \/ startRun
    PROVE  MobileInv'
<1>1. TypeOK /\ Controlled /\ NoTunLeaked /\ Running /\ OnceGiven /\ Counted
  BY DEF MobileInv
<1>2. Counted'
  BY <1>1 DEF Start, startRun, Counted, transport, device
<1>3. CASE Start
  <2>1. /\ ctl = "stopped" /\ tun = 0 /\ held = Nothing /\ runs < MaxRuns
        /\ runs' = runs + 1 /\ ctl' = "starting" /\ started' = TRUE /\ ctx' = runs + 1
        /\ client' = 0 /\ tun' = 0 /\ pending' = 0 /\ ready' = FALSE
        /\ UNCHANGED << held, cancelled, closed, pc, conn, n, shut, given, toAttach, open, fds, attach >>
    BY <1>1, <1>3 DEF Start, Controlled, transport
  <2>2. runs \in 0 .. MaxRuns /\ MaxRuns \in Nat
    BY <1>1, MobileAssumption DEF TypeOK
  <2>3. runs + 1 \in 0 .. MaxRuns /\ runs + 1 > 0 /\ 0 \in 0 .. (runs + 1) /\ runs + 1 \in 0 .. (runs + 1)
    BY <2>1, <2>2
  <2>4. TypeOK'
    <3>1. /\ 0 \in 0 .. n /\ 0 \in 0 .. fds
          /\ Nothing \in [ctx : 0 .. (runs + 1), client : 0 .. (runs + 1), tun : 0 .. fds]
      BY <1>1, <2>3, RunTypes DEF TypeOK, Nothing
    <3> QED
      BY <1>1, <2>1, <2>3, <3>1 DEF TypeOK
  <2>5. Controlled' /\ NoTunLeaked'
    BY <1>1, <2>1, <2>3 DEF Controlled, NoTunLeaked
  <2>6. Running' /\ OnceGiven'
    BY <1>1, <2>1, TransportFrame
  <2> QED
    BY <1>2, <2>4, <2>5, <2>6 DEF MobileInv
<1>4. CASE startRun
  <2>1. /\ ctl = "starting" /\ ctl' = "started" /\ client' = ctx /\ pc' = [pc EXCEPT ![ctx] = "starting"]
        /\ UNCHANGED << runs, started, ctx, held, cancelled, pending, ready, tun, toAttach, open, fds,
                        attach, closed, conn, n, shut, given >>
    BY <1>4 DEF startRun, device
  <2>2. runs > 0 /\ ctx = runs /\ ctx \in Runs
    <3>1. runs > 0 /\ ctx = runs /\ runs \in 0 .. MaxRuns /\ MaxRuns \in Nat
      BY <1>1, <2>1, MobileAssumption DEF Controlled, TypeOK
    <3> QED
      BY <3>1 DEF Runs
  <2>3. TypeOK'
    <3>1. pc' \in [Runs -> PCs]
      BY <1>1, <2>1 DEF TypeOK, PCs
    <3> QED
      BY <1>1, <2>1, <3>1 DEF TypeOK
  <2>4. Controlled' /\ NoTunLeaked'
    BY <1>1, <2>1, <2>2 DEF Controlled, NoTunLeaked
  <2>5. Running' /\ OnceGiven'
    BY <1>1, <2>1, <2>2, TransportFrame
  <2> QED
    BY <1>2, <2>3, <2>4, <2>5 DEF MobileInv
<1> QED
  BY <1>3, <1>4

\* Stop: the flag, the fields, the context, the client and the descriptor.
LEMMA StopPreserves ==
    ASSUME MobileInv, Stop \/ Stopping
    PROVE  MobileInv'
<1>1. TypeOK /\ Controlled /\ NoTunLeaked /\ Running /\ OnceGiven /\ Counted
  BY DEF MobileInv
<1>2. /\ UNCHANGED << conn, given, pc, toAttach, fds, n, runs, attach >>
      /\ pending' = pending \/ pending' = 0
      /\ ready' = ready \/ ready' = FALSE
  BY DEF Stop, Stopping, stopTake, stopCancel, Close, stopCloseTun, transport, device
<1>3. Running' /\ OnceGiven' /\ Counted'
  BY <1>1, <1>2, TransportFrame DEF Counted
<1>4. /\ runs \in 0 .. MaxRuns /\ MaxRuns \in Nat /\ 0 \in 0 .. runs
      /\ n \in Nat /\ 0 \in 0 .. n /\ fds \in Nat /\ 0 \in 0 .. fds
  BY <1>1, MobileAssumption DEF TypeOK
<1>5. ASSUME Stop PROVE TypeOK' /\ Controlled' /\ NoTunLeaked'
  <2>1. /\ ctl = "started" /\ ctl' = "take" /\ started' = FALSE /\ ready' = FALSE
        /\ UNCHANGED << runs, ctx, client, held, cancelled, pending, tun, toAttach, open, fds, attach,
                        closed, pc, conn, n, shut, given >>
    BY <1>5 DEF Stop, transport, device
  <2>2. TypeOK'
    BY <1>1, <2>1 DEF TypeOK
  <2>3. Controlled' /\ NoTunLeaked'
    BY <1>1, <2>1 DEF Controlled, NoTunLeaked
  <2> QED
    BY <2>2, <2>3
<1>6. ASSUME stopTake PROVE TypeOK' /\ Controlled' /\ NoTunLeaked'
  <2>1. /\ ctl = "take" /\ ctl' = "cancel"
        /\ held' = [ctx |-> ctx, client |-> client, tun |-> tun]
        /\ ctx' = 0 /\ client' = 0 /\ tun' = 0 /\ pending' = 0
        /\ UNCHANGED << runs, started, cancelled, ready, toAttach, open, fds, attach,
                        closed, pc, conn, n, shut, given >>
    BY <1>6 DEF stopTake, transport
  <2>2. TypeOK'
    BY <1>1, <1>4, <2>1 DEF TypeOK
  <2>3. held'.ctx = ctx /\ held'.client = client /\ held'.tun = tun /\ held.tun = 0
    BY <1>1, <2>1 DEF Controlled, Nothing
  <2>4. Controlled'
    BY <1>1, <2>1, <2>3 DEF Controlled
  <2>5. NoTunLeaked'
    BY <1>1, <2>1, <2>3 DEF NoTunLeaked
  <2> QED
    BY <2>2, <2>4, <2>5
<1>7. ASSUME stopCancel PROVE TypeOK' /\ Controlled' /\ NoTunLeaked'
  <2>1. /\ ctl = "cancel" /\ ctl' = "close" /\ cancelled' = cancelled \cup ({held.ctx} \ {0})
        /\ UNCHANGED << runs, started, ctx, client, held, pending, ready, tun, toAttach, open, fds,
                        attach, closed, pc, conn, n, shut, given >>
    BY <1>7 DEF stopCancel, transport, device
  <2>2. held.ctx \in Runs
    BY <1>1, <1>4, <2>1 DEF Controlled, Runs
  <2>3. TypeOK'
    BY <1>1, <2>1, <2>2 DEF TypeOK
  <2>4. Controlled' /\ NoTunLeaked'
    BY <1>1, <2>1 DEF Controlled, NoTunLeaked
  <2> QED
    BY <2>3, <2>4
<1>8. ASSUME Close PROVE TypeOK' /\ Controlled' /\ NoTunLeaked'
  <2>1. /\ ctl = "close" /\ ctl' = "closeTun" /\ closed' = closed \cup {held.client}
        /\ shut' = shut \cup ({conn[held.client]} \ {0})
        /\ UNCHANGED << runs, started, ctx, client, held, cancelled, pending, ready, tun, toAttach, open,
                        fds, attach, pc, conn, n, given >>
    BY <1>8 DEF Close, device
  <2>2. held.client \in Runs
    BY <1>1, <1>4, <2>1 DEF Controlled, Runs
  <2>3. shut' \in SUBSET (1 .. n)
    <3>1. conn[held.client] \in 0 .. n /\ shut \in SUBSET (1 .. n)
      BY <1>1, <2>2, RunTypes
    <3>2. conn[held.client] # 0 => conn[held.client] \in 1 .. n
      BY <1>4, <3>1
    <3> QED
      BY <2>1, <3>1, <3>2
  <2>4. TypeOK'
    BY <1>1, <2>1, <2>2, <2>3 DEF TypeOK
  <2>5. Controlled' /\ NoTunLeaked'
    BY <1>1, <2>1 DEF Controlled, NoTunLeaked
  <2> QED
    BY <2>4, <2>5
<1>9. ASSUME stopCloseTun PROVE TypeOK' /\ Controlled' /\ NoTunLeaked'
  <2>1. /\ ctl = "closeTun" /\ ctl' = "stopped" /\ open' = open \ {held.tun} /\ held' = Nothing
        /\ UNCHANGED << runs, started, ctx, client, cancelled, pending, ready, tun, toAttach, fds, attach,
                        closed, pc, conn, n, shut, given >>
    BY <1>9 DEF stopCloseTun, transport
  <2>2. Nothing \in [ctx : 0 .. runs, client : 0 .. runs, tun : 0 .. fds]
    BY <1>4 DEF Nothing
  <2>3. TypeOK'
    BY <1>1, <2>1, <2>2 DEF TypeOK
  <2>4. Controlled' /\ NoTunLeaked'
    BY <1>1, <2>1 DEF Controlled, NoTunLeaked
  <2> QED
    BY <2>3, <2>4
<1> QED
  BY <1>3, <1>5, <1>6, <1>7, <1>8, <1>9 DEF Stopping, MobileInv

\* AttachTun takes the descriptor, and closes the one before it afterwards.
LEMMA AttachPreserves ==
    ASSUME MobileInv, AttachTun \/ AttachTunRefused \/ attachCloseOld
    PROVE  MobileInv'
<1>1. TypeOK /\ Controlled /\ NoTunLeaked /\ Running /\ OnceGiven /\ Counted
  BY DEF MobileInv
<1>2. UNCHANGED << ctl, runs, started, ctx, client, held, cancelled, pending, ready,
                   closed, pc, conn, n, shut, given >>
  BY DEF AttachTun, AttachTunRefused, attachCloseOld, app, transport
<1>3. Running' /\ OnceGiven'
  BY <1>1, <1>2, TransportFrame
<1>4. /\ toAttach \in 0 .. n /\ fds \in 0 .. n /\ n \in Nat
      /\ Cardinality(given) \in Nat /\ Cardinality(given) <= n /\ toAttach + fds <= Cardinality(given)
      /\ tun \in 0 .. fds /\ open \in SUBSET (1 .. fds)
      /\ held \in [ctx : 0 .. runs, client : 0 .. runs, tun : 0 .. fds]
  BY <1>1, GivenFinite, MobileAssumption DEF TypeOK, Counted
<1>5. ASSUME AttachTun PROVE TypeOK' /\ Controlled' /\ NoTunLeaked' /\ Counted'
  <2>1. /\ toAttach > 0 /\ attach = << >> /\ started /\ toAttach' = toAttach - 1 /\ fds' = fds + 1
        /\ open' = open \cup {fds + 1} /\ tun' = fds + 1 /\ attach' = << tun >>
    BY <1>5 DEF AttachTun
  <2>2. /\ toAttach - 1 \in 0 .. n /\ fds + 1 \in 0 .. n /\ (toAttach - 1) + (fds + 1) = toAttach + fds
        /\ fds + 1 \in 0 .. (fds + 1) /\ fds + 1 \in 1 .. (fds + 1)
        /\ 0 .. fds \subseteq 0 .. (fds + 1) /\ 1 .. fds \subseteq 1 .. (fds + 1)
    BY <1>4, <2>1
  <2>3. Counted'
    BY <1>1, <1>2, <2>1, <2>2 DEF Counted
  <2>4. TypeOK'
    <3>1. held \in [ctx : 0 .. runs, client : 0 .. runs, tun : 0 .. (fds + 1)]
      BY <1>4, <2>2
    <3>2. << tun >> \in {<< f >> : f \in 0 .. (fds + 1)}
      BY <1>4, <2>2
    <3>3. open' \in SUBSET (1 .. (fds + 1))
      BY <1>4, <2>1, <2>2
    <3> QED
      BY <1>1, <1>2, <2>1, <2>2, <3>1, <3>2, <3>3 DEF TypeOK
  <2>5. Controlled'
    BY <1>1, <1>2, <2>1 DEF Controlled
  <2>6. NoTunLeaked'
    <3>1. {attach[i] : i \in DOMAIN attach} = {}
      BY <2>1
    <3>2. open \subseteq {tun, held.tun}
      BY <1>1, <3>1 DEF NoTunLeaked
    <3>3. tun \in {attach'[i] : i \in DOMAIN attach'}
      BY <2>1
    <3> QED
      BY <1>2, <2>1, <3>2, <3>3 DEF NoTunLeaked
  <2> QED
    BY <2>3, <2>4, <2>5, <2>6
<1>6. ASSUME AttachTunRefused PROVE TypeOK' /\ Controlled' /\ NoTunLeaked' /\ Counted'
  <2>1. toAttach > 0 /\ toAttach' = toAttach - 1 /\ UNCHANGED << tun, open, fds, attach >>
    BY <1>6 DEF AttachTunRefused
  <2>2. toAttach - 1 \in 0 .. n /\ (toAttach - 1) + fds <= Cardinality(given)
    BY <1>4, <2>1
  <2>3. TypeOK'
    BY <1>1, <1>2, <2>1, <2>2 DEF TypeOK
  <2>4. Controlled' /\ NoTunLeaked' /\ Counted'
    BY <1>1, <1>2, <2>1, <2>2 DEF Controlled, NoTunLeaked, Counted
  <2> QED
    BY <2>3, <2>4
<1>7. ASSUME attachCloseOld PROVE TypeOK' /\ Controlled' /\ NoTunLeaked' /\ Counted'
  <2>1. attach # << >> /\ open' = open \ {attach[1]} /\ attach' = << >>
        /\ UNCHANGED << tun, toAttach, fds >>
    BY <1>7 DEF attachCloseOld
  <2>2. PICK f \in 0 .. fds : attach = << f >>
    BY <1>1, <2>1 DEF TypeOK
  <2>3. {attach[i] : i \in DOMAIN attach} = {attach[1]}
    BY <2>2
  <2>4. TypeOK'
    BY <1>1, <1>2, <2>1 DEF TypeOK
  <2>5. Controlled' /\ Counted'
    BY <1>1, <1>2, <2>1 DEF Controlled, Counted
  <2>6. NoTunLeaked'
    BY <1>1, <1>2, <2>1, <2>3 DEF NoTunLeaked
  <2> QED
    BY <2>4, <2>5, <2>6
<1> QED
  BY <1>3, <1>5, <1>6, <1>7 DEF MobileInv

-----------------------------------------------------------------------------
(* The theorems.                                                           *)

\* Before the first Start.
LEMMA MobileInit == Init => MobileInv
<1> SUFFICES ASSUME Init PROVE MobileInv
  OBVIOUS
<1>1. TypeOK
  <2>1. 0 \in 0 .. MaxRuns /\ 0 \in 0 .. MaxConns /\ 0 \in 0 .. 0
    BY MobileAssumption
  <2>2. Nothing \in [ctx : 0 .. 0, client : 0 .. 0, tun : 0 .. 0]
    BY <2>1 DEF Nothing
  <2> QED
    BY <2>1, <2>2 DEF Init, TypeOK, PCs
<1>2. Controlled /\ NoTunLeaked /\ Running
  BY DEF Init, Controlled, NoTunLeaked, Running
<1>3. OnceGiven
  BY DEF Init, OnceGiven, Session, Asking, NotAsked
<1>4. Counted
  BY FS_EmptySet DEF Init, Counted
<1> QED
  BY <1>1, <1>2, <1>3, <1>4 DEF MobileInv

\* Every step keeps the invariant.
LEMMA MobileStep == MobileInv /\ [Next]_vars => MobileInv'
<1> SUFFICES ASSUME MobileInv, [Next]_vars PROVE MobileInv'
  OBVIOUS
<1>1. CASE Start \/ startRun
  BY <1>1, StartPreserves
<1>2. CASE Stop \/ Stopping
  BY <1>2, StopPreserves
<1>3. CASE AttachTun \/ AttachTunRefused \/ attachCloseOld
  BY <1>3, AttachPreserves
<1>4. ASSUME NEW g \in Runs, TransportStep(g)
      PROVE  MobileInv'
  <2>1. CASE connect(g)
    BY <2>1, ConnectPreserves
  <2>2. CASE onConnectRequest(g)
    BY <2>2, RequestPreserves
  <2>3. CASE OnAddress(g)
    BY <2>3, AddressPreserves
  <2>4. CASE \/ Run(g) \/ runLoop(g) \/ connectFails(g) \/ returned(g) \/ sleepContext(g)
             \/ onDisconnect(g) \/ onDisconnectForget(g) \/ runEnds(g)
    BY <2>4, RunMoves, MovesPreserves
  <2>5. CASE \/ onConnect(g) \/ onConnectWritten(g) \/ onConnectFails(g)
             \/ validateOffer(g) \/ invalidOffer(g) \/ applyOffer(g)
    BY <2>5, SessionMoves, MovesPreserves
  <2> QED
    BY <1>4, <2>1, <2>2, <2>3, <2>4, <2>5 DEF TransportStep
<1>5. ASSUME NEW g \in Runs, readFails(g) \/ heartbeatFails(g) \/ refuseMessage(g) \/ handleVDHCP(g)
      PROVE  MobileInv'
  BY <1>5, ReadFailsPreserves, SessionMoves, MovesPreserves
<1>6. CASE UNCHANGED vars
  BY <1>6 DEF vars, MobileInv, TypeOK, Controlled, NoTunLeaked, Running, OnceGiven, Counted
<1> QED
  BY <1>1, <1>2, <1>3, <1>4, <1>5, <1>6 DEF Next

\* The types of the client and of its runs, and what Start, Stop, AttachTun
\* and the goroutines of overlapping runs leave in the shared fields.
THEOREM MobileAlways == Spec => []MobileInv
BY MobileInit, MobileStep, PTL DEF Spec

\* Stop, Start and AttachTun lose no open descriptor, however they interleave.
THEOREM NoTunIsLeaked == Spec => []NoTunLeaked
<1>1. MobileInv => NoTunLeaked
  BY DEF MobileInv
<1> QED
  BY <1>1, MobileAlways, PTL

\* Once the goroutines of all runs have ended no session is ready.
THEOREM NothingStaysReady == Spec => []NothingLeftReady
<1>1. MobileInv => NothingLeftReady
  BY DEF MobileInv, Running, NothingLeftReady
<1> QED
  BY <1>1, MobileAlways, PTL

\* handleVDHCP applies at most one OFFER of a connection, so the app is asked
\* for at most one descriptor, although a run may overwrite the request of
\* another between validateOffer and applyOffer.
THEOREM OneAddressEach == Spec => [][\A g \in Runs : OnAddress(g) => conn[g] \notin given]_vars
<1>1. MobileInv => \A g \in Runs : pc[g] = "applied" => conn[g] \notin given
  BY DEF MobileInv, OnceGiven, Asking
<1>2. MobileInv /\ [Next]_vars => [\A g \in Runs : OnAddress(g) => conn[g] \notin given]_vars
  BY <1>1 DEF OnAddress, Goto
<1> QED
  BY <1>2, MobileAlways, PTL DEF Spec
=============================================================================
