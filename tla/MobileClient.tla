---------------------------- MODULE MobileClient ----------------------------
(***************************************************************************)
(* mobile/lwyvpn.go: the Android client on top of tcpx.Client.  The app    *)
(* calls Start and Stop, one after the other and as often as it likes; it  *)
(* answers OnAddress with AttachTun, from whichever thread it has.  Each   *)
(* Start makes a run of its own: a context, a tcpx.Client and the          *)
(* goroutine that runs it.  Stop does not wait for that goroutine, which   *)
(* shares the fields of Client with the runs that follow.                  *)
(*                                                                         *)
(* Runs, connections and TUN descriptors are numbered from 1; 0 is nil.    *)
(***************************************************************************)
EXTENDS Integers, Sequences

CONSTANTS MaxRuns,    \* bound on the calls of Start
          MaxConns    \* bound on the connections that are opened

ASSUME MobileAssumption == MaxRuns \in Nat /\ MaxConns \in Nat

Runs == 1 .. MaxRuns

VARIABLES
    ctl,        \* where the app's call of Start or Stop is
    runs,       \* calls of Start that succeeded
    started,    \* Client.started
    ctx,        \* Client.ctx and cancel, of a run
    client,     \* Client.tcpxClient, of a run
    tun,        \* Client.tun
    pending,    \* pendingDHCPReqID: the connection its DISCOVER was for
    ready,      \* sessionReady
    held,       \* what Stop has taken out of the fields
    cancelled,  \* the runs whose context is cancelled
    closed,     \* the runs whose tcpx.Client.closed is set
    pc,         \* where the goroutine of each run is
    conn,       \* tcpx.Client.conn of each run
    n,          \* connections opened
    shut,       \* the connections closed at this end
    given,      \* the connections whose OFFER was applied
    toAttach,   \* calls of OnAddress the app has not answered
    open,       \* the TUN descriptors that are open
    fds,        \* descriptors accepted by AttachTun
    attach      \* AttachTun's oldTun while it is to be closed, as a sequence

vars == << ctl, runs, started, ctx, client, tun, pending, ready, held, cancelled,
           closed, pc, conn, n, shut, given, toAttach, open, fds, attach >>
app       == << ctl, runs, started, ctx, client, held, cancelled >>
transport == << closed, pc, conn, n, shut, given >>
device    == << tun, toAttach, open, fds, attach >>

Nothing == [ctx |-> 0, client |-> 0, tun |-> 0]

\* starting, loop, dialing, returned, sleep: in Run; connected, greeting,
\* requesting: in onConnect; disconnected, forgetting: in onDisconnect;
\* serving: in Read; offered, valid, applied: in handleVDHCP; ending: after Run.
PCs == {"none", "starting", "loop", "dialing", "returned", "sleep", "ending", "ended",
        "connected", "greeting", "requesting", "disconnected", "forgetting",
        "serving", "offered", "valid", "applied"}

TypeOK ==
    /\ ctl \in {"stopped", "starting", "started", "take", "cancel", "close", "closeTun"}
    /\ runs \in 0 .. MaxRuns
    /\ started \in BOOLEAN /\ ready \in BOOLEAN
    /\ ctx \in 0 .. runs /\ client \in 0 .. runs
    /\ n \in 0 .. MaxConns
    /\ pending \in 0 .. n
    /\ cancelled \in SUBSET Runs /\ closed \in SUBSET Runs
    /\ pc \in [Runs -> PCs]
    /\ conn \in [Runs -> 0 .. n]
    /\ shut \in SUBSET (1 .. n) /\ given \in SUBSET (1 .. n)
    /\ toAttach \in 0 .. n
    /\ fds \in 0 .. n
    /\ tun \in 0 .. fds /\ open \in SUBSET (1 .. fds)
    /\ held \in [ctx : 0 .. runs, client : 0 .. runs, tun : 0 .. fds]
    /\ attach = << >> \/ attach \in {<< f >> : f \in 0 .. fds}

Init ==
    /\ ctl = "stopped" /\ runs = 0 /\ started = FALSE /\ ctx = 0 /\ client = 0
    /\ tun = 0 /\ pending = 0 /\ ready = FALSE /\ held = Nothing
    /\ cancelled = {} /\ closed = {}
    /\ pc = [g \in Runs |-> "none"] /\ conn = [g \in Runs |-> 0]
    /\ n = 0 /\ shut = {} /\ given = {}
    /\ toAttach = 0 /\ open = {} /\ fds = 0 /\ attach = << >>

-----------------------------------------------------------------------------
(* Start and Stop.                                                         *)

\* The fields are reset; what a run before this one left is not looked at.
Start ==
    /\ ctl \in {"stopped", "started"}
    /\ ~started
    /\ runs < MaxRuns
    /\ runs' = runs + 1
    /\ ctl' = "starting"
    /\ started' = TRUE
    /\ ctx' = runs + 1
    /\ client' = 0 /\ tun' = 0 /\ pending' = 0 /\ ready' = FALSE
    /\ UNCHANGED << held, cancelled, transport, toAttach, open, fds, attach >>

\* tcpx.NewClient, whose only error is a key Start has parsed before, and the
\* goroutine of the run.
startRun ==
    /\ ctl = "starting"
    /\ ctl' = "started"
    /\ client' = ctx
    /\ pc' = [pc EXCEPT ![ctx] = "starting"]
    /\ UNCHANGED << runs, started, ctx, held, cancelled, pending, ready, device,
                    closed, conn, n, shut, given >>

Stop ==
    /\ ctl = "started"
    /\ ctl' = "take"
    /\ started' = FALSE
    /\ ready' = FALSE
    /\ UNCHANGED << runs, ctx, client, held, cancelled, pending, transport, device >>

stopTake ==
    /\ ctl = "take"
    /\ ctl' = "cancel"
    /\ held' = [ctx |-> ctx, client |-> client, tun |-> tun]
    /\ ctx' = 0 /\ client' = 0 /\ tun' = 0 /\ pending' = 0
    /\ UNCHANGED << runs, started, cancelled, ready, transport, toAttach, open, fds, attach >>

stopCancel ==
    /\ ctl = "cancel"
    /\ ctl' = "close"
    /\ cancelled' = cancelled \cup ({held.ctx} \ {0})
    /\ UNCHANGED << runs, started, ctx, client, held, pending, ready, transport, device >>

\* tcpx.Client.Close
CloseFlagOnly ==
    /\ ctl = "close"
    /\ ctl' = "closeTun"
    /\ closed' = closed \cup {held.client}
    /\ UNCHANGED << runs, started, ctx, client, held, cancelled, pending, ready, device,
                    pc, conn, n, shut, given >>
Close ==
    /\ ctl = "close"
    /\ ctl' = "closeTun"
    /\ closed' = closed \cup {held.client}
    /\ shut' = shut \cup ({conn[held.client]} \ {0})
    /\ UNCHANGED << runs, started, ctx, client, held, cancelled, pending, ready, device,
                    pc, conn, n, given >>

stopCloseTun ==
    /\ ctl = "closeTun"
    /\ ctl' = "stopped"
    /\ open' = open \ {held.tun}
    /\ held' = Nothing
    /\ UNCHANGED << runs, started, ctx, client, cancelled, pending, ready, transport,
                    tun, toAttach, fds, attach >>

-----------------------------------------------------------------------------
(* AttachTun.                                                              *)

AttachTun ==
    /\ toAttach > 0
    /\ attach = << >>
    /\ started /\ ctx # 0
    /\ toAttach' = toAttach - 1
    /\ fds' = fds + 1
    /\ open' = open \cup {fds + 1}
    /\ tun' = fds + 1
    /\ attach' = << tun >>
    /\ UNCHANGED << app, pending, ready, transport >>

\* "client is not started": the descriptor is left as it is.
AttachTunRefused ==
    /\ toAttach > 0
    /\ attach = << >>
    /\ ~started \/ ctx = 0
    /\ toAttach' = toAttach - 1
    /\ UNCHANGED << app, pending, ready, transport, tun, open, fds, attach >>

attachKeepOld ==
    /\ attach # << >>
    /\ attach' = << >>
    /\ UNCHANGED << app, pending, ready, transport, tun, toAttach, open, fds >>
attachCloseOld ==
    /\ attach # << >>
    /\ open' = open \ {attach[1]}
    /\ attach' = << >>
    /\ UNCHANGED << app, pending, ready, transport, tun, toAttach, fds >>

-----------------------------------------------------------------------------
(* tcpx.Client.Run and connectAndServe, for run g.                         *)

Stopped(g) == g \in cancelled \cup closed
Goto(g, from, to) == pc[g] = from /\ pc' = [pc EXCEPT ![g] = to]

Run(g) ==
    /\ Goto(g, "starting", "loop")
    /\ closed' = closed \ {g}
    /\ UNCHANGED << app, pending, ready, device, conn, n, shut, given >>

runLoop(g) ==
    /\ pc[g] = "loop"
    /\ pc' = [pc EXCEPT ![g] = IF Stopped(g) THEN "ending" ELSE "dialing"]
    /\ UNCHANGED << app, pending, ready, device, closed, conn, n, shut, given >>

\* dialContext or the handshake fails; protecting the socket may fail as well.
connectFails(g) ==
    /\ Goto(g, "dialing", "returned")
    /\ UNCHANGED << app, pending, ready, device, closed, conn, n, shut, given >>

\* The handshake does not look at the context; it may end long after Stop.
connect(g) ==
    /\ pc[g] = "dialing"
    /\ n < MaxConns
    /\ n' = n + 1
    /\ \/ /\ g \in closed
          /\ shut' = shut \cup {n + 1}
          /\ pc' = [pc EXCEPT ![g] = "returned"]
          /\ UNCHANGED conn
       \/ /\ g \notin closed
          /\ conn' = [conn EXCEPT ![g] = n + 1]
          /\ pc' = [pc EXCEPT ![g] = "connected"]
          /\ UNCHANGED shut
    /\ UNCHANGED << app, pending, ready, device, closed, given >>

readFails(g) ==
    /\ Goto(g, "serving", "returned")
    /\ shut' = shut \cup {conn[g]}
    /\ conn' = [conn EXCEPT ![g] = 0]
    /\ UNCHANGED << app, pending, ready, device, closed, n, given >>

heartbeatFails(g) ==
    /\ pc[g] \in {"serving", "offered", "valid", "applied"}
    /\ shut' = shut \cup {conn[g]}
    /\ UNCHANGED << app, pending, ready, device, closed, pc, conn, n, given >>

returned(g) ==
    /\ pc[g] = "returned"
    /\ pc' = [pc EXCEPT ![g] = IF Stopped(g) THEN "ending" ELSE "disconnected"]
    /\ UNCHANGED << app, pending, ready, device, closed, conn, n, shut, given >>

onDisconnect(g) ==
    /\ Goto(g, "disconnected", "forgetting")
    /\ ready' = FALSE
    /\ UNCHANGED << app, pending, device, closed, conn, n, shut, given >>

onDisconnectForget(g) ==
    /\ Goto(g, "forgetting", "sleep")
    /\ pending' = 0
    /\ UNCHANGED << app, ready, device, closed, conn, n, shut, given >>

sleepContext(g) ==
    /\ pc[g] = "sleep"
    /\ \/ pc' = [pc EXCEPT ![g] = "loop"]
       \/ Stopped(g) /\ pc' = [pc EXCEPT ![g] = "ending"]
    /\ UNCHANGED << app, pending, ready, device, closed, conn, n, shut, given >>

\* Run has returned.
runEndsReady(g) ==
    /\ Goto(g, "ending", "ended")
    /\ UNCHANGED << app, pending, ready, device, closed, conn, n, shut, given >>
runEnds(g) ==
    /\ Goto(g, "ending", "ended")
    /\ ready' = FALSE
    /\ UNCHANGED << app, pending, device, closed, conn, n, shut, given >>

-----------------------------------------------------------------------------
(* onConnect and handleVDHCP.                                              *)

\* The connection is closed and Read is next.
GiveUp(g) ==
    /\ shut' = shut \cup {conn[g]}
    /\ pc' = [pc EXCEPT ![g] = "serving"]
    /\ UNCHANGED << app, pending, ready, device, closed, conn, n, given >>

onConnect(g) ==
    /\ Goto(g, "connected", "greeting")
    /\ ready' = FALSE
    /\ UNCHANGED << app, pending, device, closed, conn, n, shut, given >>

\* Auth is written and the request remembered.
onConnectRequest(g) ==
    /\ Goto(g, "greeting", "requesting")
    /\ conn[g] \notin shut
    /\ pending' = conn[g]
    /\ UNCHANGED << app, ready, device, closed, conn, n, shut, given >>

onConnectWritten(g) ==
    /\ Goto(g, "requesting", "serving")
    /\ conn[g] \notin shut
    /\ UNCHANGED << app, pending, ready, device, closed, conn, n, shut, given >>

onConnectFails(g) ==
    /\ pc[g] \in {"greeting", "requesting"}
    /\ GiveUp(g)

Receives(g) == pc[g] = "serving" /\ conn[g] \notin shut

\* A NAK, a message that does not decode or one the server may not send.
refuseMessage(g) ==
    /\ Receives(g)
    /\ GiveUp(g)

\* An OFFER, which answers the DISCOVER of this connection.
handleVDHCP(g) ==
    /\ Receives(g)
    /\ Goto(g, "serving", "offered")
    /\ UNCHANGED << app, pending, ready, device, closed, conn, n, shut, given >>

validateOffer(g) ==
    /\ Goto(g, "offered", "valid")
    /\ pending = conn[g]
    /\ UNCHANGED << app, pending, ready, device, closed, conn, n, shut, given >>

invalidOfferIgnored(g) ==
    /\ Goto(g, "offered", "serving")
    /\ pending # conn[g]
    /\ UNCHANGED << app, pending, ready, device, closed, conn, n, shut, given >>
invalidOffer(g) ==
    /\ pc[g] = "offered"
    /\ pending # conn[g]
    /\ GiveUp(g)

applyOffer(g) ==
    /\ Goto(g, "valid", "applied")
    /\ pending' = 0
    /\ UNCHANGED << app, ready, device, closed, conn, n, shut, given >>

\* sessionReady is set and the app called.
OnAddress(g) ==
    /\ Goto(g, "applied", "serving")
    /\ ready' = TRUE
    /\ given' = given \cup {conn[g]}
    /\ toAttach' = toAttach + 1
    /\ UNCHANGED << app, pending, tun, open, fds, attach, closed, conn, n, shut >>

-----------------------------------------------------------------------------
Stopping == stopTake \/ stopCancel \/ Close \/ stopCloseTun

TransportStep(g) ==
    \/ Run(g) \/ runLoop(g) \/ connectFails(g) \/ connect(g)
    \/ returned(g) \/ onDisconnect(g) \/ onDisconnectForget(g) \/ sleepContext(g) \/ runEnds(g)
    \/ onConnect(g) \/ onConnectRequest(g) \/ onConnectWritten(g) \/ onConnectFails(g)
    \/ validateOffer(g) \/ invalidOffer(g) \/ applyOffer(g) \/ OnAddress(g)

Next ==
    \/ Start \/ startRun \/ Stop \/ Stopping
    \/ AttachTun \/ AttachTunRefused \/ attachCloseOld
    \/ \E g \in Runs :
         \/ TransportStep(g)
         \/ readFails(g) \/ heartbeatFails(g) \/ refuseMessage(g) \/ handleVDHCP(g)

\* Goroutines that can run do; dialling, the handshake and writes have
\* timeouts; Read on a closed connection fails.
Fairness ==
    /\ WF_vars(startRun) /\ WF_vars(Stopping) /\ WF_vars(attachCloseOld)
    /\ \A g \in Runs : WF_vars(TransportStep(g)) /\ WF_vars(conn[g] \in shut /\ readFails(g))

Spec == Init /\ [][Next]_vars /\ Fairness

-----------------------------------------------------------------------------
(* Properties.                                                             *)

\* Of the descriptors AttachTun accepted only the attached one stays open; any
\* other is about to be closed, by the Stop or by the AttachTun that took it
\* out.  A late AttachTun, an earlier run's included, leaves none behind.
NoTunLeaked == open \subseteq {tun, held.tun} \cup {attach[i] : i \in DOMAIN attach}

\* When the goroutines of all runs have ended no session is ready, although
\* one may have become ready after Stop had cleared the flag.
NothingLeftReady == (\A g \in Runs : pc[g] \in {"none", "ended"}) => ~ready

\* A run ends after Stop, wherever Stop found it: before Run began, in the
\* handshake, in a callback or reading.
StopEndsRun == \A g \in Runs : (g \in cancelled) ~> (pc[g] = "ended")

\* An OFFER makes the session ready or the client connects again, also when
\* another run has overwritten the request it answers.
OfferAppliedOrRetried ==
    \A g \in Runs : (pc[g] = "offered") ~> (ready \/ pc[g] \in {"returned", "ended"})

\* Stop closes the session and all loops (lwyvpn.go:339), so that nothing of a
\* run disturbs the next one: a session that was given its address, and whose
\* connection is open, is ready.
SessionStaysReady ==
    ctl = "started" /\ pc[ctx] = "serving" /\ conn[ctx] \in given \ shut => ready
=============================================================================
