----------------------------- MODULE Forwarding -----------------------------
(***************************************************************************)
(* How vlan.Server moves IP packets between sessions that have an address: *)
(* the goroutine that reads a connection (handleIP) and the one that reads *)
(* the TUN device (tunToClients) put packets on the bounded queue of the   *)
(* target peer and wait while it is full; the peer's send loop writes them *)
(* to its connection.  PeerServer says how sessions get their addresses;   *)
(* here a session starts when its address is bound.                        *)
(*                                                                         *)
(* peer.write holds peer.mu while a packet is being written (hand), so     *)
(* whoever needs that lock waits for the write to end.                     *)
(***************************************************************************)
EXTENDS Integers, Sequences

CONSTANTS Conns,       \* sessions
          Tun,         \* the goroutine of tunToClients
          NoPeer,      \* nil
          Addresses,   \* the addresses of the pool
          Leases,      \* the ways the sessions may be given addresses; for each:
          QueueSize,   \* serverPeerSendQueueSize,
          MaxPackets,  \* a bound on the packets that are forwarded,
          Flows        \* the << goroutine, session >> pairs whose packets are numbered

Sources == Conns \cup {Tun}

ASSUME ForwardingAssumption ==
    /\ Tun \notin Conns
    /\ NoPeer \notin Conns \cup {Tun}
    /\ Leases \subseteq [Conns -> Addresses]
    /\ QueueSize \in [Leases -> Nat \ {0}]
    /\ MaxPackets \in [Leases -> Nat]
    /\ Flows \in [Leases -> SUBSET (Sources \X Conns)]

VARIABLES
    pc,        \* where the reading goroutine of a session is
    addr,      \* the address each session is offered; it does not change
    old,       \* handleDHCPDiscover's oldPeer
    ips,       \* peerRegistry.ips
    done,      \* the peers whose done channel is closed
    closed,    \* the peers whose connection is closed at this end
    sender,    \* the peers whose send loop runs
    target,    \* the peer whose queue a goroutine is waiting to put a packet on
    sent,      \* packets taken up by all goroutines
    queue,     \* ClientPeer.sendQueue
    hand,      \* the packet the send loop is writing, as a sequence of at most one
    took,      \* history, of each flow: the packets that were taken up
    wrote      \* history, of each flow: how many of them were written

vars == << pc, addr, old, ips, done, closed, sender, target, sent, queue, hand, took, wrote >>
packets == << queue, hand, took, wrote >>

\* A packet: the goroutine that took it up, and its number in their flow.
Packets == Sources \X Nat

TypeOK ==
    /\ pc \in [Conns -> {"none", "bound", "read", "enqueue", "failed", "shut", "gone"}]
    /\ addr \in Leases
    /\ old \in [Conns -> Conns \cup {NoPeer}]
    /\ ips \in [Addresses -> Conns \cup {NoPeer}]
    /\ done \in SUBSET Conns
    /\ closed \in SUBSET Conns
    /\ sender \in SUBSET Conns
    /\ target \in [Sources -> Conns \cup {NoPeer}]
    /\ sent \in 0 .. MaxPackets[addr]
    /\ queue \in [Conns -> Seq(Packets)]
    /\ \A p \in Conns : Len(queue[p]) <= QueueSize[addr]
    /\ hand \in [Conns -> Seq(Packets)]
    /\ \A p \in Conns : Len(hand[p]) \in {0, 1}
    /\ took \in [Sources -> [Conns -> Nat]]
    /\ wrote \in [Sources -> [Conns -> Nat]]

Init ==
    /\ pc = [p \in Conns |-> "none"]
    /\ addr \in Leases
    /\ old = [p \in Conns |-> NoPeer]
    /\ ips = [a \in Addresses |-> NoPeer]
    /\ done = {}
    /\ closed = {}
    /\ sender = {}
    /\ target = [s \in Sources |-> NoPeer]
    /\ sent = 0
    /\ queue = [p \in Conns |-> << >>]
    /\ hand = [p \in Conns |-> << >>]
    /\ took = [s \in Sources |-> [p \in Conns |-> 0]]
    /\ wrote = [s \in Sources |-> [p \in Conns |-> 0]]

Goto(p, from, to) == pc[p] = from /\ pc' = [pc EXCEPT ![p] = to]

\* peer.mu is free
Unlocked(p) == hand[p] = << >>

\* The history c with one more packet from s to p.
Count(c, s, p) == IF << s, p >> \in Flows[addr] THEN [c EXCEPT ![s][p] = @ + 1] ELSE c

-----------------------------------------------------------------------------
(* A session gets its address, and takes it from the session that had it.  *)

bindIP(p) ==
    /\ Goto(p, "none", "bound")
    /\ old' = [old EXCEPT ![p] = ips[addr[p]]]
    /\ ips' = [ips EXCEPT ![addr[p]] = p]
    /\ sender' = sender \cup {p}
    /\ UNCHANGED << addr, done, closed, target, sent, packets >>

closeOldConnOnly(p) ==
    /\ Goto(p, "bound", "read")
    /\ closed' = closed \cup ({old[p]} \ {NoPeer})
    /\ UNCHANGED << addr, old, ips, done, sender, target, sent, packets >>
closeOld(p) ==
    /\ Goto(p, "bound", "read")
    /\ done' = done \cup ({old[p]} \ {NoPeer})
    /\ closed' = closed \cup ({old[p]} \ {NoPeer})
    /\ UNCHANGED << addr, old, ips, sender, target, sent, packets >>

-----------------------------------------------------------------------------
(* handleIP and tunToClients.                                              *)

\* Packets go to addresses of sessions, bound or not.
Destinations == {addr[p] : p \in Conns}

\* A packet for address a is taken up.  Without a peer for the address a
\* session's packet goes to the TUN device, if there is one; one that came
\* from there is dropped.
TakeUp(s, a) ==
    /\ target[s] = NoPeer
    /\ sent < MaxPackets[addr]
    /\ sent' = sent + 1
    /\ target' = [target EXCEPT ![s] = ips[a]]
    /\ took' = Count(took, s, ips[a])
    /\ UNCHANGED << queue, hand, wrote >>

handleIP(p, a) ==
    /\ pc[p] = "read"
    /\ p \notin closed
    /\ Unlocked(p)
    /\ TakeUp(p, a)
    /\ pc' = IF ips[a] = NoPeer THEN pc ELSE [pc EXCEPT ![p] = "enqueue"]
    /\ UNCHANGED << addr, old, ips, done, closed, sender >>

tunToClients(a) ==
    /\ TakeUp(Tun, a)
    /\ UNCHANGED << pc, addr, old, ips, done, closed, sender >>

\* The goroutine goes back to reading.
Resume(s) ==
    /\ target' = [target EXCEPT ![s] = NoPeer]
    /\ pc' = IF s = Tun THEN pc ELSE [pc EXCEPT ![s] = "read"]
    /\ UNCHANGED << addr, old, ips, done, closed, sender, sent >>

enqueueOrDrop(s) ==
    LET t == target[s] IN
    /\ t # NoPeer
    /\ queue' = IF Len(queue[t]) < QueueSize[addr]
                THEN [queue EXCEPT ![t] = Append(@, << s, took[s][t] >>)] ELSE queue
    /\ Resume(s)
    /\ UNCHANGED << hand, took, wrote >>
enqueue(s) ==
    LET t == target[s] IN
    /\ t # NoPeer
    /\ Len(queue[t]) < QueueSize[addr]
    /\ queue' = [queue EXCEPT ![t] = Append(@, << s, took[s][t] >>)]
    /\ Resume(s)
    /\ UNCHANGED << hand, took, wrote >>

\* "peer sender closed"
enqueueClosed(s) ==
    /\ target[s] \in done
    /\ Resume(s)
    /\ UNCHANGED packets

-----------------------------------------------------------------------------
(* peerSendLoop.                                                           *)

sendLoopTake(p) ==
    /\ p \in sender
    /\ Unlocked(p)
    /\ queue[p] # << >>
    /\ hand' = [hand EXCEPT ![p] = << Head(queue[p]) >>]
    /\ queue' = [queue EXCEPT ![p] = Tail(@)]
    /\ UNCHANGED << pc, addr, old, ips, done, closed, sender, target, sent, took, wrote >>

sendLoopWrite(p) ==
    /\ hand[p] # << >>
    /\ p \notin closed
    /\ wrote' = Count(wrote, hand[p][1][1], p)
    /\ hand' = [hand EXCEPT ![p] = << >>]
    /\ UNCHANGED << pc, addr, old, ips, done, closed, sender, target, sent, queue, took >>

\* The write fails: the connection is closed and the loop returns; the done
\* channel stays open.
sendLoopFailsIgnored(p) ==
    /\ hand[p] # << >>
    /\ hand' = [hand EXCEPT ![p] = << >>]
    /\ UNCHANGED << pc, addr, old, ips, done, closed, sender, target, sent, queue, took, wrote >>
sendLoopFails(p) ==
    /\ hand[p] # << >>
    /\ hand' = [hand EXCEPT ![p] = << >>]
    /\ closed' = closed \cup {p}
    /\ sender' = sender \ {p}
    /\ UNCHANGED << pc, addr, old, ips, done, target, sent, queue, took, wrote >>

sendLoopDone(p) ==
    /\ p \in sender
    /\ Unlocked(p)
    /\ p \in done
    /\ sender' = sender \ {p}
    /\ UNCHANGED << pc, addr, old, ips, done, closed, target, sent, packets >>

-----------------------------------------------------------------------------
(* The end of a session.                                                   *)

readFails(p) ==
    /\ Goto(p, "read", "failed")
    /\ UNCHANGED << addr, old, ips, done, closed, sender, target, sent, packets >>

cleanupCloseConnOnly(p) ==
    /\ Goto(p, "failed", "shut")
    /\ closed' = closed \cup {p}
    /\ UNCHANGED << addr, old, ips, done, sender, target, sent, packets >>
cleanupClose(p) ==
    /\ Goto(p, "failed", "shut")
    /\ done' = done \cup {p}
    /\ closed' = closed \cup {p}
    /\ UNCHANGED << addr, old, ips, sender, target, sent, packets >>

remove(p) ==
    /\ Goto(p, "shut", "gone")
    /\ Unlocked(p)
    /\ ips' = IF ips[addr[p]] = p THEN [ips EXCEPT ![addr[p]] = NoPeer] ELSE ips
    /\ UNCHANGED << addr, old, done, closed, sender, target, sent, packets >>

Enqueuing(s) == enqueue(s) \/ enqueueClosed(s)
SendLoop(p)  == sendLoopTake(p) \/ sendLoopWrite(p) \/ sendLoopFails(p) \/ sendLoopDone(p)
Handler(p)   == closeOld(p) \/ cleanupClose(p) \/ remove(p)

Next ==
    \/ \E p \in Conns :
         \/ bindIP(p) \/ Handler(p) \/ SendLoop(p) \/ readFails(p)
         \/ \E a \in Destinations : handleIP(p, a)
    \/ \E a \in Destinations : tunToClients(a)
    \/ \E s \in Sources : Enqueuing(s)

\* Goroutines that can run do; a write ends by WriteTimeout at the latest, and
\* Read on a closed connection fails.
Fairness ==
    /\ \A s \in Sources : WF_vars(Enqueuing(s))
    /\ \A p \in Conns : /\ WF_vars(SendLoop(p))
                        /\ WF_vars(Handler(p))
                        /\ WF_vars(p \in closed /\ readFails(p))

Spec == Init /\ [][Next]_vars /\ Fairness

-----------------------------------------------------------------------------
(* Properties.                                                             *)

\* While a session is open, no packet that a goroutine took up for it is lost,
\* repeated or overtaken by a later one of the same goroutine, however long the
\* queue was full and whoever else put packets on it: those not yet written,
\* but the one the goroutine is waiting with, are in the send loop's hand or on
\* the queue, in the order they were taken up.
NothingLostOrOvertaken ==
    \A s \in Sources, p \in Conns \ closed :
        LET stream == hand[p] \o queue[p]
            last == IF target[s] = p THEN took[s][p] - 1 ELSE took[s][p]
            due == wrote[s][p] + 1 .. last
        IN << s, p >> \in Flows[addr] =>
             /\ \A k \in due : \E i \in 1 .. Len(stream) : stream[i] = << s, k >>
             /\ \A i \in 1 .. Len(stream) : stream[i][1] = s => stream[i][2] \in due
             /\ \A i, j \in 1 .. Len(stream) :
                   i < j /\ stream[i][1] = s /\ stream[j][1] = s => stream[i][2] < stream[j][2]

\* Sessions that keep one another from ending: each waits for room on the
\* queue of one of them, all of whose send loops have ended without closing
\* done.  A session that waits for itself is the smallest case.
Deadlocked(S) ==
    /\ S # {}
    /\ \A p \in S : /\ target[p] \in S
                    /\ p \notin sender \cup done
                    /\ Len(queue[p]) = QueueSize[addr]

InDeadlock(p) == \E S \in SUBSET Conns : p \in S /\ Deadlocked(S)

\* A deadlock lasts only until one of its clients connects again: each of its
\* sessions is still the one registered for its address, or the session that
\* replaced it is about to close it.
DeadlockUntilReconnect ==
    \A p \in Conns :
        InDeadlock(p) => \/ ips[addr[p]] = p
                         \/ \E q \in Conns : pc[q] = "bound" /\ old[q] = p

DeadlockForever == <>[](\E p \in Conns : InDeadlock(p))

\* A session whose connection was closed, by its own handlers, by its send
\* loop or by the session that replaced it, is cleaned up in the end and its
\* send loop ends with it; only a deadlock of forwarders can prevent that.
ClosedSessionEnds ==
    \/ \A p \in Conns : (p \in closed) ~> (pc[p] = "gone" /\ p \notin sender)
    \/ DeadlockForever

\* No goroutine waits forever for room on a queue, though peers stop reading,
\* fail and disconnect; again only a deadlock of forwarders can prevent it.
WaitingEnds ==
    \/ \A s \in Sources : (target[s] # NoPeer) ~> (target[s] = NoPeer)
    \/ DeadlockForever
=============================================================================
