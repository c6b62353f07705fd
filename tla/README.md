# LwyV-Net in TLA+

LwyV-Net is a self-hosted virtual network: a server and its clients exchange IP
packets over encrypted TCP connections, and the server hands out the clients'
virtual addresses. This directory models its core in TLA+, checks the models
with TLC on small instances and proves their safety properties with TLAPS for
all values of the constants.

Every module is translated from the Go source; `PROJECT.json` ("map") names the
lines behind each definition.

## The system

| part | state it keeps | operations | talks to |
|---|---|---|---|
| `vdhcp.Manager` | `leaseByID`, `ownerByIP`, the cursor `next` | Acquire, MarkOffline, Release, SweepExpired | called by the server under `m.mu` |
| `vlan.Server` sessions | per connection a `ClientPeer` (identity, address, queue, `done`); the `peerRegistry` (by connection, address and identity) | onTCPConnect, onTCPMessage (Auth, VDHCP, IP), onTCPDisconnect, the send loops, the sweep | Manager, tcpx callbacks, other peers' queues |
| server forwarding | the send queues | handleIP, tunToClients, peerSendLoop | registry, TUN |
| `tcpx.SecureConn` | send key, receive key, old receive key, sequence numbers, replay windows | Write, SendPing, Read (answers pings, follows key updates), Close | the TCP stream |
| `tcpx.Client`, `vlan.Client` | current connection, session, TUN device, routes | Start, Stop, Run, onTCPConnect, onTCPMessage, tunToTCP, heartbeats | server, operating system |
| server process | context, listener, device, management API, the goroutines in `s.wg` | Start (in a goroutine of its own), Stop | everything above, the gateway NAT |
| `tunSetup`, client routes | `clientProxyRoute`, the host route, the two half-default routes, DNS, firewall rules, the default route | SetupClientProxyRouting, CleanupClientProxyRouting | called by `vlan.Client` |
| `tunSetup`, gateway NAT | `serverNATState`, iptables rules, `ip_forward` | EnableServerGatewayNAT, DisableServerGatewayNAT | called by `Server.Start` and `Stop` |
| `tunSetup`, TUN tunnel | two packet queues | Write, ReadChan, Close | server and client |
| `mobile.Client` | like `vlan.Client`, driven by Android | Start, AttachTun, SendIP, Stop | server, VpnService |
| management | events, traffic counters | HTTP views, event log | server |

What is hard here: one goroutine per connection plus one per send loop, all
sharing the registry and the manager; clients that reconnect before the server
has noticed that the old connection is dead; readers that block on another
client's queue; writes that fail half way through a frame or a key update; a
client that is stopped while it connects or configures its device; a server that
is stopped while it starts, or dies between two commands that change the
machine's rules. The hazards
are listed in `PROJECT.json` with the line where each bites and the property
that would catch it.

What makes each part correct:

* manager: an address belongs to one client at a time, the two maps agree, a
  client that comes back within the grace period gets its address again, and
  nobody is refused while an address is free;
* sessions: an online lease has a session that will clean it up, an offered
  address stays leased while it is being bound, at most one open session
  carries an address, the registry agrees with the sessions;
* forwarding: packets of an open session are neither lost nor overtaken by later
  ones of their flow; but for a deadlock of forwarders nobody waits for ever;
* secure connection: no nonce is used twice with one key, rotation is invisible
  to the reader, payloads arrive once and in order;
* client: `Stop` returns and leaves nothing behind; a ready session means a
  configured device; an OFFER is applied or the connection is retried;
* client routes: whichever command fails, an active record means that the routes
  are there, an inactive one that nothing is there but what could not be deleted
  or goes with the device;
* server process and gateway NAT: `Stop` returns, restores the machine, and
  closes every listener; a crash at any point leaves a state the next process
  deals with;
* mobile client: a stopped run ends and leaves no TUN descriptor behind, and
  does not disturb the run that follows it.

## Modules

| module | models | remarks |
|---|---|---|
| `IPPool` | the address range, `ipToUint32`/`uint32ToIP`, the cyclic scan order | the result of `allocateIPLocked` as `FirstFree`/`NoneFree` |
| `AllocateScan` | the loop of `allocateIPLocked` | justifies taking the loop as one step |
| `VDhcpManager` | `vdhcp/manager.go` | one action per method; `ExpiresAt` is the time left, counted down by `Tick` |
| `LeaseHistory` | `VDhcpManager` plus a history of when a client went offline | carries `GraceHonoured` and the refinement |
| `AddressPool` | what the manager promises, abstractly | refined by `LeaseHistory` |
| `PeerServer` | `vlan/server.go`, `vlan/peer.go`, `tcpx/server.go` | extends `VDhcpManager`; one step per critical section or network write; a frame that was read is handled even if the connection has been closed since |
| `Forwarding` | `handleIP`, `tunToClients`, `enqueue`, `peerSendLoop`, the end of a session | bounded queues, `peer.mu`; packets numbered per goroutine and target (`Flows`) |
| `ReplayWindow`, `ReplayHistory` | `tcpx/replay.go` and the set of accepted numbers it stands for | mask as a set of bits |
| `SecureConn` | `tcpx/secure_conn.go`, both ends | extends `ReplayWindow`; symbolic keys, whole and torn frames, a link that keeps the order or one that does not |
| `ProxyRouting` | `tunSetup/tun_route.go` and the commands behind it | both builds, Linux and Windows; every command may fail, those that delete too |
| `VlanClient` | `vlan/client.go`, `tcpx/client.go` | extends `ProxyRouting`; environment failures at every call |
| `GatewayNAT` | `tunSetup/server_gateway.go` | state of the machine and of the process, command by command |
| `ServerLifecycle` | `main.go`, `Server.Start`, `Server.Stop`, `tcpx/server.go`, start and end of the management API | extends `GatewayNAT`; several processes one after another |
| `MobileClient` | `mobile/lwyvpn.go`, `tcpx/client.go` | several runs of one client, sharing its fields |
| `VDhcpLemmas`, `VDhcpProofs`, `PeerServerProofs`, `ForwardingProofs`, `SecureConnProofs`, `ServerLifecycleProofs`, `VlanClientProofs`, `MobileClientProofs` | theorems | `VDhcpProofs` includes the scan, `SecureConnProofs` the replay window |
| `MC*` | instances for TLC | |

`PeerServer` composes the sessions with the manager: `discoverGranted` is
Acquire, `cleanupMark` is MarkOffline, `sweepDHCPLeases` is SweepExpired, and
`TimePasses` lets the leases' clocks run. `Forwarding` stands beside it: it
takes sessions from the moment their address is bound and adds what
`PeerServer` leaves out, the blocking of readers on queues.
`VlanClient` takes the steps of `ProxyRouting` where `configureAddress` and
`Stop` call it, and `ServerLifecycle` those of `GatewayNAT` where `Start` and
`Stop` do.

Definitions whose name says how they deviate (`remove` / `removeAnyOwner`,
`Accept` / `AcceptKeepingBits`, ...) are faulty variants placed before the
definition they vary. They are used by no specification; substituting one shows
that a property notices the fault (`PROJECT.json`, "mutants").

### How state and actions correspond

* A Go map is a function with a "missing" value (`NoLease`, `NoClient`,
  `NoPeer`, `NoIP`). Closed channels and closed connections are sets.
* A goroutine has a program counter (`pc`, `reader`, `writer`); a step runs to
  the next point where another goroutine can interfere: a lock, a channel
  operation, a network write.
* In `PeerServer` and `Forwarding` a connection may fail at any moment: Read
  may fail whenever it is reached, a write may fail whenever it is tried, and
  both must fail once the connection is closed here. Handlers without effect on
  the modelled state (malformed DHCP messages, packets with a foreign source
  address, broadcasts) are not steps.
* In `SecureConn` a key is the history of salts it was derived with; a frame
  opens only under its own key. Whether a key is due for rotation, and when an
  old key's grace period ends, is left open, so every timing is covered. A read
  timeout ends a connection like `Close`, which may happen at any time.
* In `VlanClient` the connections are numbered; `session`, `conn`, `closed`,
  `cancelled` are the fields of the two Go structs. Start and Stop are called
  once, as `main.go` does.
* The server handles any number of DISCOVERs on a connection; `MaxDiscovers` only
  bounds the runs. The proofs hold for every value of it.
* In `Forwarding` `took` and `wrote` count, for a goroutine and a session, the
  packets taken up and written; a packet is its goroutine and its number. For
  goroutine and session pairs outside `Flows` nothing is counted, which keeps
  the state space small; the control is the same. `QueueSize`, `MaxPackets` and
  `Flows` are given for each way the sessions may get their addresses (`Leases`), so
  that one run looks at several instances; the proofs hold for all of them.
* In `ProxyRouting` a command may fail with whatever part of it already done. A
  deletion that fails leaves what it was to delete and is logged or ignored, as
  in the code; the history variable `stuck` remembers those leftovers, so that
  the properties can tell them from what the program forgot. `AddDefaultRoute`
  replaces the machine's default route; on Windows it removes it first. Routes
  and DNS servers of the device vanish with it. The server's address lies in the
  lower half of the address space, the half whose route is added first.
* `tunAddrs` in `VlanClient` is the set of addresses of the device: on Linux
  `ip addr replace` adds another address to those of earlier OFFERs, on Windows
  the old ones are removed.
* `GatewayNAT` keeps apart what dies with the process (`nat`, `natStep`) and what
  does not (`rules`, `ip_forward`). `found` in `ServerLifecycle` is what the
  process found when it began. A command of Enable that fails ends Enable, with
  what it has added in place and `active` false; `log.Fatalf` is the step after
  it. The other errors that Start returns end in `log.Fatalf` at once, which is
  the action `Killed`, possible at every step; errors that the code ignores
  are `FailsQuietly`. Start reads and writes the fields that Stop reads without
  a lock; the model lets Stop see the current value.
* `cancelled` in `ServerLifecycle` means that Stop found `s.cancel`. Between
  `wg.Add` and the goroutine's end a goroutine is in `loops`, in `conns` as
  `"open"` or `"closed"`, or `management` is serving: that is what `Running`,
  the guard of `waitReturns`, asks.
* In `MobileClient` each Start makes a run with its own context, transport and
  goroutine; the fields of `mobile.Client` are shared by all of them. The app
  calls Start and Stop one after the other, from one thread, and AttachTun from
  any, at any time after OnAddress. Calls of the listener are not steps, except
  that OnAddress asks for one AttachTun.

## Runs

| run | instance | shows |
|---|---|---|
| `leases` | 3 clients, pool of 3 with the gateway inside, LeaseTTL 2, grace 1 | `MapsAgree`, `ExclusiveAddresses`, `RefusedOnlyWhenFull`, `GraceHonoured`, refinement of `AddressPool` |
| `scan` | pool of 6 across an octet boundary, every cursor and used set | `ScanInv`, `NeverExhaustedWhileFree`, `ScanEnds` |
| `sessions` | 2 clients, 2 connections with 2 DISCOVERs each, 2 usable addresses, the first held by a third client whose grace period is ending | `TypeOK`, `OnlineLeaseHasSession`, `OfferedAddressIsLeased`, `SupersededIsClosed`, `RegistryAgrees`, `LeaseReclaimed` |
| `stale_cleanup` | 2 clients, 3 connections, 2 usable addresses | violation, see below |
| `forwarding` | 2 sessions; queues of 1: two clients and 6 packets, or one client and 4; queues of 2: two clients, 3 packets, those for the first numbered | `NothingLostOrOvertaken`, `DeadlockUntilReconnect`, `ClosedSessionEnds`, `WaitingEnds` |
| `replay` | 12 sequence numbers, sizes 0, 1, 3, 63, 65 | `WindowInv`, `NoReplay`, `LateIsAccepted` |
| `secure_conn` | three links: in order, 1 write and 2 keys at each end, 1 ping; in order, client 2 writes, 1 ping, 3 keys, server 1 write; one way, 4 writes, 3 keys, any order and repetition | `NonceOnce`, `NoPayloadTwice` on all; `RotationTransparent`, `DeliveredInOrder`, `Delivered` on those that keep the order |
| `client` | 3 connections, 2 addresses, proxy on, either build | `ProxyStateTruthful`, `StopCleansUp`, `ReadyIsConfigured`, `PacketsMatchAddress`, `StopReturns`, `OfferAppliedOrRetried` |
| `client_forwards` | as `client` | violation, see below |
| `mobile` | 2 runs, 3 connections | `NoTunLeaked`, `NothingLeftReady`, `StopEndsRun`, `OfferAppliedOrRetried` |
| `mobile_restart` | as `mobile` | violation, see below |
| `server_lifecycle` | 2 interfaces; two processes, one process with a command that fails quietly, or one with 2 connections | `NatStateTruthful`, `StopRestores`, `StopReturns`, `ListenerEnds` |

Bounds. `sessions` begins where a third client has left an offline lease; a state
constraint stops the exploration where that client comes back. While the lease lasts one address is usable, two clients take it from each
other and the pool runs out; afterwards there are two. Two connections let a client
reconnect while its old session is being cleaned up; the session invariants are
proved for every number of connections. Three connections are the fewest with which
a client reconnects while another competes for its address. Both shipped clients send one
DISCOVER per connection, but the server does not ask for it: two DISCOVERs and two
usable addresses let a connection be bound to a second address, and the run reaches
the entry this leaves behind. The grace period of one tick distinguishes "at the end of" from
"after" it. A queue of one packet makes forwarders wait; three packets are
enough for a session to deadlock with itself and six for two sessions to
deadlock with each other. With queues of two and three packets the packets of two
goroutines mix on one queue, a goroutine has two of its own on it, and a third waits
for room. The replay window of size 2 in `SecureConn` lets
frames fall out of it; the sizes of `replay` straddle 1 and 64, where the mask's
arithmetic changes. Three keys give an old key that is itself replaced; the two directions
keep separate keys and windows, so it is enough that one end rotates twice and
that both rotate once. Two processes let one find what another left; two
interfaces let the default route move, which it does once; one connection may
be in its handshake while the other is open.
`CHECK_DEADLOCK FALSE` is set where the modelled program ends by itself (the
scan, the stopped clients and servers) or runs out of bounded packets (forwarding). Two runs
of the mobile client are enough for one to meet what the other left; three
connections let one of them reconnect.

Fairness. Weak fairness of handler, send-loop, cleanup and sweep steps: the Go
scheduler runs every runnable goroutine, the ticker fires, writes end by
`WriteTimeout`. Read is assumed to fail eventually only on a connection closed at
this end. `VlanClient` assumes strong fairness of the forwarder's exit, because a
Go `select` with several ready cases picks one at random. `ServerLifecycle`
assumes that commands end, that the management server ends once it was shut down
(three seconds at most for `Shutdown`, and `Serve` returns at its beginning), and
nothing of signals. No fairness is assumed of clients, of the network or of
packets arriving.

`TypeOK` is a checked property only of `sessions`, which includes the manager's
state, and a conjunct of the proved invariants; in the other modules it documents
the state.

### Findings

* `stale_cleanup`: `cleanupPeer` marks the client's lease offline even if the
  client already has a newer session. When a client reconnects before the
  server notices that the old connection is dead, the old connection's cleanup
  puts the live session's lease on the five-minute clock; the sweep then takes
  the address of a connected client and may give it to another.
* `client_forwards`: `initTun` sets `c.tun` before `AllowTunTraffic`; when that
  fails, every later connection becomes ready without a forwarder.
* `mobile_restart`: `Stop` of the mobile client does not wait for the goroutine
  of its run, which in the end clears `sessionReady`. After a restart it may
  clear the flag of the new session, which then drops every packet although it
  is connected and has its address.

A weakness the models show without contradicting a document: `peerSendLoop`
closes the connection but not `done` when a write fails. Readers waiting in
`enqueue` are then released only by the target's own reader, which may itself be
waiting. Two clients that lose their network while sending to each other with
full queues, or one that sends to itself, deadlock until one of them reconnects,
and `tunToClients` can be caught behind them. `ClosedSessionEnds` and
`WaitingEnds` say that nothing else can go wrong; `DeadlockUntilReconnect` says
what ends it.

Weaknesses of the life cycles, equally undisputed by the documents:

* A signal that arrives while `Server.Start` is still running may find `s.cancel`
  or `s.management` not made yet; `Stop` then waits for ever for the goroutines
  Start begins afterwards, or disables the NAT before Start enables it and leaves
  its rules. `StopReturns` and `StopRestores` begin where Start has come far
  enough.
* A connection whose handshake ends after `Stop` has closed the peers keeps
  `wg.Wait` waiting until that client goes away (`StopReturns` names this case).
* A process that dies after enabling the NAT leaves its rules and `ip_forward = 1`.
  The next one does not add the rules twice and removes them when it stops,
  unless the default route has moved; but it takes 1 for the old `ip_forward`.
* If the second half-default route cannot be added, the first stays while the host
  route is taken back. A server in that half of the address space is then out of
  reach, and the client, which would repair it on its next connection, cannot
  connect. DNS servers are likewise left when only the search domain fails.
* A second DISCOVER on a connection whose lease was lost binds another address, and
  `remove` deletes only the entry of the last one: the registry goes on naming the
  peer after its cleanup, and the management API lists a connection that has ended.
  `RegistryAgrees` names this case and says that it is the only one. The
  repository's own clients send one DISCOVER on each connection.
* Clean-up of the client's routes sets the machine's default route again, though
  comments (`tunSetup/tun_route.go:78`, `tunSetup/tun_windows.go:268`) say that it is
  not changed. On Windows it is removed and then added; if adding it fails the
  machine has no default route, and the next set-up no gateway. The model has this
  (`AddDefaultRoute`), no property excludes it.
* Clean-up of the client's routes clears `active` even if a route could not be
  deleted, so it is not tried again: after `Stop` the host route, and on Windows
  the firewall rules, may be left (`StopCleansUp` names them).
* On Linux a client that is given another address keeps the old one on its device.
  The kernel may go on using it as the source of packets, which the server drops
  (`ownsIP`); `ReadyIsConfigured` and `PacketsMatchAddress` say only that the
  current address is there too.

## Proofs

All theorems hold for every value of the constants that satisfies the named
assumptions.

* `VDhcpProofs`, the scan: `ScanCorrect` (`ScanInv` is inductive: the addresses
  passed are not free and the cursor is as many places on as the loop has
  counted) and `ExhaustionIsReal`, from lemmas in `VDhcpLemmas` on the cyclic
  order.
* `VDhcpProofs`, the manager: the invariant `HistoryInv` joins types, `Inverses`
  of the two maps, the exclusion of the gateway and the relation between a lease's
  time left and the time since it was marked offline; the last is needed because
  `GraceHonoured` speaks of the history while the sweep looks at the clock.
  From it: `TypeCorrect`, `MapsAlwaysAgree`, `AddressesExclusive`,
  `TurnedAwayWhenFull` (a client is refused only when every usable address is held
  by a client that is online or within its grace period), `GraceIsHonoured` and `ManagerImplementsPool` (each step of
  the manager is a step of `AddressPool` or a stutter). `VDhcpLemmas` has one
  lemma per way the maps change.
* `PeerServerProofs`: `PeerInv` strengthens the session invariants with what a
  handler knows between its steps (its client has an identity, its lease is
  unexpired while a handler runs because time does not pass within one, a
  cleaned-up peer is closed). From it: `PeerTypeCorrect`, `NoLeakedLease`,
  `OfferIsLeased`, `SupersededClosed` and `RegistryConsistent`. The last holds for
  any number of DISCOVERs: `AddressInv` says what an entry of the registry has to do
  with its peer, which has that address or was bound again since, and that takes a
  second DISCOVER.
* `ForwardingProofs`: `ForwardInv` says which packets are in the hand of a send
  loop and on its queue: those taken up and not yet written, with rising numbers
  for each goroutine, the last of them the last one that goroutine put there. It
  also says that a goroutine has a target exactly while it is in `enqueue`
  (`Waits`), and that a session whose `done` is open is in the registry or is the
  one its replacement is about to close (`Registered`). From it
  `PacketsKeepOrder` and `DeadlocksEndable`; the second needs `Registered`, because
  a reconnecting client can only release the session it finds under its address.
  Any number of sessions, addresses and packets, queues of any size, and any set
  of numbered flows.
* `SecureConnProofs`, the replay window: `WindowCorrect` (`WindowInv` is inductive:
  inside the window a bit is set iff its number was accepted), and from it
  `NeverReplayed` and `LateAccepted`. No bound on sequence numbers.
* `SecureConnProofs`, the connection: `SecureInv` says of each direction, for any
  number of writes, pings and rotations and on every kind of link,
  * `Sealed`: the frames' ids and numbers rise, each frame is sealed with the key
    the update frames before it lead to, and a key tells whose it is and how
    often it was rotated. A nonce cannot recur under a key: `NoncesUnique`.
  * `Numbered`: the data frames carry the payloads in the order of the Writes.
  * `Guarded`: every frame that was delivered is refused by the current window or,
    after a rotation, by the old one that is kept; by the lemma `RefusedForGood`
    it stays so. This needs no order of arrival: `NothingTwice`.
  * `InStep`: on a link that keeps the order, the reader's key, the number it saw
    last and what it delivered are those of the frames it has read. From it
    `RotationsTransparent` and `DeliveryInOrder`. Without `Chained`, the part of
    `Sealed` about keys, it is not inductive: reading an update frame installs a
    key that must be the one of the next frame.
* `ServerLifecycleProofs`: `NatInv` adds to `StopRestores` who is inside Enable
  or Disable (`Phases`) and, command by command, which rules and which ip_forward
  are there at that point (`Progress`): `NatStateTruthful` speaks only of the
  states between the calls and is not inductive without it. `Home` and `Cleaned`
  carry the rules of a process that was killed to the Disable of a later one.
  From it: `NatTruthful` and `StopRestoresMachine`, for any number of processes,
  kills and failing commands. `NatTruthful` leaves out the process in which Enable
  has failed, which is about to end, and one in which a command failed unnoticed.
* `VlanClientProofs`: `ClientInv` joins the types with what is known of the
  newest connection (`ConnInv`: every other one is shut), how far
  configureAddress has come (`OfferInv`, `RouteInv`) and whose connection the
  forwarder holds (`HoldInv`: one that is not shut belongs to the current
  session, so a write that succeeds is a write to it). From it: `ProxyTruthful`,
  `StopLeavesNothing`, `ReadyConfigured` and the action property `PacketsMatch`,
  for any number of connections and addresses, with and without Proxy, on both
  builds and whichever commands fail. `RouteInv` has to tell what is there because
  a deletion failed (`stuck`) from what is there because set-up put it there.
* `MobileClientProofs`: `MobileInv` says what Start and Stop leave in the shared
  fields at each of their steps (`Controlled`: without it a second Start could
  find a descriptor to overwrite), that a ready session belongs to a run that has
  not ended (`Running`), that a connection's OFFER has been applied at most once
  although the runs share `pending` (`OnceGiven`) and that there are no more
  descriptors than calls of OnAddress (`Counted`). From it `NoTunIsLeaked`,
  `NothingStaysReady` and `OneAddressEach`, the last an action property that no
  run checks by itself. Any number of runs and connections.

Every invariant and every safety action property of the passing runs is stated by
a theorem. Only model-checked is liveness, which is outside the prover's reach:
`ScanEnds`, `LeaseReclaimed`, `ClosedSessionEnds`, `WaitingEnds`, `Delivered`,
`StopReturns`, `ListenerEnds`, `OfferAppliedOrRetried`, `StopEndsRun`.

## Not modelled

The handshake's cryptography, message encodings, configuration files, the
management HTTP handlers, the traffic counters, the queues of `TUNTunnel`, the
packets of the mobile client (a packet sent on a session that is not
authenticated makes the server close it, which may happen at any time in the
model anyway), and changes of the client's network. What the operating system's
commands do is modelled as far as the code relies on it. `PeerServer`'s
`TimePasses` assumes that a DISCOVER or disconnect handler takes less than a tick
(writes end after 10 s, the grace period is 5 min).

## Plan

In this order:

1. A client that changes its network: the default route that clean-up puts back
   (modelled for a machine that stays where it is) is then the wrong one, and the
   host route leads to a gateway that is gone.
2. The queues of `TUNTunnel`, the packets of `MobileClient`, `TrafficCounter` and
   the management event log.
