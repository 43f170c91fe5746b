# A TLA+ model of gretun

gretun joins hosts behind NATs by kernel GRE tunnels over UDP. A coordinator
keeps a directory of nodes and relays small messages between them; the daemon
of each node (`gretun up`) polls the directory, runs one state machine per
peer, probes the peer's addresses over UDP and, when one answers, programs the
kernel. This directory holds TLA+ specifications of the parts of gretun that
keep state or run concurrently, TLC configurations for small instances of
them, and TLAPS proofs of their main invariants for instances of every size.

Paths below are relative to the repository (`src/` in `PROJECT.json`).

## The system and its parts

| Part | State | Operations | Talks to |
|---|---|---|---|
| Peer FSM (`internal/daemon/peer.go`) | path state, peer snapshot, event queue, winning address, deadlines, `tunnelUp` | `update`, `onUDP`, `onSignal`, `stop`; `run` with event, punch tick, keepalive, teardown | daemon loops put events into its queue; it calls the tunnel library, the disco socket and `POST /v1/signal` |
| Daemon (`internal/daemon/daemon.go`) | map of FSMs, `ifaceSeq`, `fouOwned`, context | `Run`, `peersPollLoop`, `signalPullLoop`, `refreshLoop`, `discoReadLoop`, `reconcilePeers`, `shutdown` | coordinator (long polls), FSMs, socket, kernel |
| Disco socket and STUN (`daemon.go`, `internal/disco/stun.go`) | one UDP socket with one read deadline, transaction IDs of a round | `DiscoverPublic` and its reader goroutine, `discoReadLoop` | network; FSMs |
| Peer registry (`internal/coord/store.go`, `server.go`) | `peers`, `byTunnel`, etag, broadcast channel | `Register`, `SetEndpoints`, `Peers`, `WaitForPeersChange` | clients by HTTP |
| Signal relay (same files) | a queue and a wake-up channel per disco key | `EnqueueSignal`, `PopSignals`, `WaitForSignal` | clients by HTTP |
| Tunnel library (`internal/tunnel/gre.go`, `validate.go`) | none of its own; the kernel's links and FOU ports | `Create`, `Delete`, `AssignIP`, `EnsureFOU`, `RemoveFOU` | kernel, by netlink; called by `gretun create` and `delete`, FSMs and the daemon |
| Key file (`internal/disco/keys.go`) | `keys.json` | `LoadOrCreateKeys` | file system |
| Health (`internal/health/probe.go`, `cmd/gretun/commands/health.go`, `probe.go`) | semaphore, wait group, result map; ticker and context of `--watch` | `Probe`, `ProbeMultiple`, `ProbeTargets`, `runHealth` | raw ICMP sockets; `tunnel.List` |
| Authentication, envelopes, errors, metrics, the other commands | none that outlives a call | | |

What is hard in it, and what makes each part correct:

* **Peer FSM.** Events from three goroutines meet ticks and deadlines; the
  queue drops when full; the snapshot is stored after the event that announces
  it; links outlive the path that they were made for. It is correct when a
  link never outlives the FSM unnoticed, silent paths are given up and known
  addresses are tried.
* **Two FSMs.** Each end has one, and neither knows the other's state: they
  share a list that reaches them at different times, a relay that may lose the
  one message sent by it, and two NATs that forget. Together they are correct
  when attempts that overlap succeed, tunnels point to an address from which the
  peer has answered, and a path that works is kept.
* **Registry.** Long polls race with changes; responses share memory with the
  store. It is correct when addresses are unique, stable and handed out to the
  last one, and when no client sleeps through a change or takes a torn answer
  for the current one.
* **Signal relay.** Lost wake-ups, double close, abandoned requests, ageing
  and a bounded queue. It is correct when it behaves as a queue that may lose
  messages, for known reasons, and never repeats or reorders them.
* **Tunnel library.** Every netlink call may fail, and names and ports are
  shared. It is correct when failure leaves nothing behind, success lasts, and
  links that are not gretun's are left alone.
* **Daemon.** Reconciliation races with shutdown and late lists. It is correct
  when the FSMs follow the directory and none is lost sight of.
* **Disco socket.** Readers compete for datagrams and for the deadline. It is
  correct when published endpoints are current and readers that outlive their
  round take little from the others.
* **Key file.** Crashes and concurrent starts. It is correct when nobody uses an
  identity that the file has never held and a settled identity stays.
* **Health.** Slots and cancellation in each round, an interrupt between or
  within rounds. It is correct when a round returns with a complete map that
  nobody writes any more, when nothing is called healthy on old or missing
  evidence, and when an interrupt ends the command without passing for an error.

`PROJECT.json` lists each hazard at its line with the properties aimed at it.

## The modules

| Module | Models | Composes |
|---|---|---|
| `PeerFSM` | the peer FSM; variables are functions of the FSM | |
| `Registry` | the registry with responses as values | |
| `RegistryMem` | the same with the endpoint arrays that responses share | extends `Registry` |
| `LossyFifo` | abstract: a queue per recipient that may lose messages | |
| `SignalRelay` | the relay, its handlers and its client | |
| `SignalRelayFifo` | the refinement mapping from the relay to `LossyFifo` | `SignalRelay`, `LossyFifo` |
| `Rendezvous` | two daemons behind NATs, from registration to tunnel | extends `PeerFSM`, instantiates `LossyFifo` |
| `Tunnel` | tunnel library calls on a shared kernel | |
| `Daemon` | `Run`, polling, reconciliation, shutdown | |
| `DiscoSocket` | readers of the disco socket | |
| `ProbePool` | `ProbeTargets` and `Probe` | |
| `Health` | `gretun health`, and a series of `ProbeMultiple` | extends `ProbePool` |
| `KeyFile` | `LoadOrCreateKeys` with crashes | |
| `MC*` modules | model values, lists and symmetry for TLC | |
| `*Proofs` modules | theorems | extend their component; `RegistryProofs` also `RegistryMem`, `RendezvousProofs` also `PeerFSMProofs`, `DaemonProofs` also `KeyFile` |

Definitions keep the source's names (`bumpEtagLocked`, `reconcilePeers`,
`EnqueueSignal`); `map` in `PROJECT.json` has the lines of each. Definitions
introduced by "(The faulty variant ...)" are not part of any specification: each
is a plausible mistake in the definition after it, kept to show that the
property it is meant for would notice.

### How state and actions correspond to the code

**PeerFSM.** A step of the `run` goroutine is one iteration of its select:
`Handle`, `TickPunch`, `Keepalive` or `Exit`, each the whole handler with what
it calls. `update` is two steps (`UpdateQueue`, `UpdateStore`), because the
handler may run between the send on `incoming` and the assignment under the
lock. `onPeerUpdate` passes through `have_endpoints` within a handler, so that
this state is never seen. Time advances by `Elapse`: deadlines are the time
left, ages saturate past `pongMissDeadline`, and each ticker's channel holds one
tick, as Go's does. What the FSM sends is left out here (`Rendezvous` has it), and
pings and pongs may arrive at any time: the code ties no pong to a ping.
`tunnel.Create` has three outcomes (link up; nothing; a half-made link that
could not be removed, which is logged).

**Rendezvous.** The FSMs are those of `PeerFSM`, two of them; its actions are
conjoined with what they send (`RunHandle`, `RunTickPunch`, `RunKeepalive`) and
fed by the network (`Arrive`) and the relay (`PullSignals`) instead of by
arbitrary traffic. The relay is `LossyFifo`, which `SignalRelay` implements. The
directory goes from absent to known (`Register`) to posted (`PostEndpoints`),
and `StartFsm` and `PollAgain` are a poll with its reconciliation. A NAT has one
mapping: `hole[p]` is how long it still admits what comes from the other's
public address, and a datagram that meets none is lost. Each node has a local
address too, which is listed and sent in `call_me_maybe` and at which it cannot
be reached. Time is coarser than in `PeerFSM`: a unit, one `punchInterval` of
250 ms, ends only when the datagrams sent in it have arrived or been lost and
every FSM has handled what it has (`Settled`). Round trips under 250 ms are thus
assumed; polls and the relay may take any number of units. `Create` succeeds;
its failures are in `PeerFSM`. Neither daemon stops and the coordinator does
not restart.

**Registry.** One action per critical section. An address is its offset in the
pool; `Allocates` takes the first free one after the prefix's own and stops
short of the last, as `allocateIPLocked` does. `Poll` is the locked part of
`WaitForPeersChange`: it compares etags and takes the channel in one step.
`Restart` is a new, empty `MemStore`. In `RegistryMem` an endpoint list is an
array on the heap with a length; `SetEndpoints` writes into the old array when
it has room (`append(Endpoints[:0], ...)`) and `MemRespond` encodes from it
without the lock, so that a response may contain words from before and after.

**SignalRelay.** A sender stamps, enqueues under the lock, and closes the
channel after the unlock: three steps. A handler pops, checks, waits, pops again
and answers. The client gives requests up (`Disconnect`), and the server learns
of it later or never (`Cancel`), so that old and new handlers overlap. `Rekey`
is a second registration with another disco key. Ages count to `MaxAge`.

**Tunnel.** Each netlink call is a step that may fail. Links are identified by
who made them after the lookup, as netlink identifies them by index. The four
kinds of caller are `create` (`runCreate`: `Create`, then `AssignIP` if there is
an address, whose failure it reports), `fsm` (`bringUpTunnel`: the same with
FOU, whose failure in `AssignIP` it ignores), `delete` (`runDelete`) and `serve`
(the daemon's own FOU port). `Start` rejects a configuration that
`ValidateConfig` rejects; `ValidateCIDR` is its arithmetic on an address and a
number of host bits. Links of other types may exist from the start, and others
make more at any time under a free name (`OthersAdd`); they delete none.

**Daemon.** Critical sections under `d.mu` are steps. An FSM is running, stopped
or done and has a link or not; PeerFSM has the rest. `main = "panic"` is the
assignment to the nil map.

**DiscoSocket.** One deadline for all readers, as on a Go `UDPConn`. The buffer
is a set of the kinds of datagram that can be read; any reader whose turn it is
takes one. A round's context may end at any time. `late` is a history variable: the
datagrams that a round's reader has taken after the round's end.

**ProbePool.** A goroutine takes a slot or gives up when the context ends, opens
its socket, sends, reads once, stores and releases. A raw ICMP socket hears the
replies to all probes of the host and `Probe` compares none with its request, so
that the outcome of a read is left open.

**Health.** A round of `runHealth` is `List` (which fails under a cancelled
context, or in `LinkList`), the steps of `ProbePool` with a new result map, and
`Show`. With `--watch` the command then selects between the ticker, whose channel
holds one tick, and the context. `ProbeMultiple` uses the pool's `Probe` as
worker 1, one at a time, and looks at its context before each probe and in each
pause. With `--json` (`json`) the rows may fail to be written, which ends the
command with an error of its own (`"write"`), and the status of `gretun probe` does
not depend on the verdict (`healthy`). `heard` is a history variable: the targets
whose own `Probe` of the current round has heard a reply.

**KeyFile.** `os.WriteFile` is a truncating open and a write. A write that fails may
have changed nothing, or left a file that does not decode, or, over the whole file
of another process, a mixture of two identities that does decode (`Mixed`), since
all are encoded in the same number of bytes.

## What is checked

Run one with `tlc -config <cfg> <module>`; `PROJECT.json` has the module of each.

| Run (cfg) | Bounds | Shows |
|---|---|---|
| `peer_fsm` (`MCPeerFSM`) | 1 FSM, 2 addresses of which the directory offers one, queue of 2, shortest timings | `LeakIsReported`, `SilentPathAbandoned`, `KnownEndpointsTried`, `StopTerminates` |
| `registry` (`MCRegistry`) | 3 nodes, 1 client, 2 usable addresses, lists of up to two endpoints, 5 changes, 1 restart | `AddressesDistinct`, `RefusedOnlyWhenFull`, `NoMissedChange`, `EtagNamesContent`, `AddressKept`, `CurrentViewIntact`, `ChangesArrive`, `ViewsSettle` |
| `signal_relay` (`MCSignalRelay`) | 2 keys, 2 envelopes, 2 handlers, depth 1, age 1 | `NoLostWakeup`, `CloseOnce`, `LossHasCause`, and that the relay implements `LossyFifo`, across changes of key |
| `signal_relay_live` (`MCSignalRelayLive`) | 1 key, 3 envelopes, 1 handler, depth 2 | `QueueHoldsNewest`, `SignalsLeave`, the refinement for a longer queue |
| `tunnel` (`MCTunnel`) | 3 callers, an ordinary and a reserved name, 1 port, 3 end addresses of which one is unusable, 2 tunnel addresses of which one is the last of its /30 | `FailureIsClean`, `SuccessLasts`, `ForeignLinksStay` |
| `daemon` (`MCDaemon`) | 2 peers, 2 changes of the directory | `RunningIsKnown`, `PeersFollowDirectory` |
| `disco_socket` (`MCDiscoSocket`) | 3 rounds | `AnswerIsCurrent`, `StaleReadersTakeOne` |
| `health` (`MCHealth`) | 3 tunnels to 2 remotes, 2 slots, a series of 2 | `ReturnIsComplete`, `HealthIsFresh`, `InterruptIsNoError`, `PoolReturns`, `InterruptEnds` |
| `rendezvous` (`MCRendezvous`) | 2 ends, queues of 5, attempts of 4 units, keepalives every 2, pong deadline 6, NAT mappings of 3, 1 fault | `LinkReachesPeer`, `TogetherConnects`, `PathStays` |
| `key_file` (`MCKeyFile`) | 3 processes, 4 identities | `IdentityWasSaved`, `IdentitySettles` |

The types of `PeerFSM`, `Registry`, `Tunnel`, `Daemon` and `KeyFile` are theorems
and take no part in the runs; those of the relay and of `Health` are theorems and
are checked too, by `signal_relay` (with the depth of a queue) and `health` (with
the slots in use).

The `registry` run is of `RegistryMem`. Each of its steps is a step of
`Registry` with the memory added, so that the run checks the properties of both.

Why the bounds are enough to be interesting. A queue of two can be full with two
different events, and one update can find it full while another is half done.
The second address, which no list offers, reaches the FSM only as the source of a
datagram. `RelayedTypes` has
only that type, the one that a gretun peer sends by the coordinator; the FSM
would accept pings and pongs by it too, and the theorems cover them. Three nodes compete
for two addresses, so that the pool runs out; a restart between registrations
reorders them. Two envelopes overflow a queue of one and three a queue of two, so
that both the whole queue and a part of it are displaced; two handlers share a
channel or overlap as an old and a new request. Three tunnel calls are a winner,
a loser and a third who deletes. Three rounds leave two stale readers beside the
current one. Three probes leave one waiting for two slots, and two of them write
one result; `--watch` goes round for ever. In `rendezvous` keepalive, pong
deadline and mapping keep the order of 25 s, 75 s and an assumed 30 s or more
for which a NAT keeps a UDP mapping; an attempt of 4 units has the 3 rounds that
one fault needs, where the code has 20. Queues of 5 are the shortest that
`TimingAssumption` allows with one fault. `MaxFsm` in
`Daemon` (4) is as many FSMs as two peers and two changes can start, so that it
never limits a run.
`MaxBumps`, `MaxRestarts`, `MaxChanges`, `MaxRounds`, `MaxKeys` and `MaxFaults`
end behaviours and are the only artificial bounds. Envelopes and handlers are
symmetric in `signal_relay`, the callers in `tunnel` and the two ends in
`rendezvous`; none of the three checks liveness.

Deadlock is checked in the runs of the registry, the relay, the socket, the
key file and `Rendezvous`. It is switched off for `PeerFSM`, `Daemon`, `Tunnel`
and `Health`, which end when their FSMs, process, calls or command have ended.

### Fairness

* **PeerFSM**: every ready case of the select is taken in the end (Go chooses at
  random among ready cases), time passes, `update` finishes what it has begun,
  and the daemon's polls, which return at least every 25 s, meet a queue with room
  now and then (strong fairness: the queue may fill up between).
* **Registry**: clients poll for ever and handlers are not delayed for ever;
  strong fairness for reading and answering, because a request may be aborted any
  number of times but not always. The long-poll timeout has no fairness: changes
  arrive by wake-ups alone.
* **SignalRelay**: the client pulls for ever, senders close what they took, and
  not every pull is cancelled before its first look at the queue. Again the
  timeout has no fairness.
* **Daemon**: polls return, since the client has a timeout, and the poll loop goes
  on to apply the list. Nothing is assumed of FSMs, signals or shutdown.
* **Health**: goroutines that can run do, the ticker fires, a read ends at its
  deadline. Nothing is assumed of the network or of cancellation.
* **Rendezvous** (for `BothEndsConnect`): time passes, FSMs handle what they
  have, datagrams arrive (`MaxFaults` is 0 there), and daemons register, post,
  poll and send their `call_me_maybe` between some two units (strong fairness:
  they are enabled only between units). That the relay delivers is not assumed.
* **Tunnel, DiscoSocket, KeyFile**: none; only safety is checked.

### Where the code and what is said of it disagree

Two statements of the repository are runs that TLC ends with a counterexample;
`findings` in `PROJECT.json` quotes them.

* `BothEndsConnect`: an attempt that has timed out is not made again. One end
  may get its list, try and come to rest in relay before the other begins; the
  other's pings find its NAT closed by then, and it follows into relay. The
  `call_me_maybe` that would bring the two together is sent once, and dropped
  when the recipient has no FSM for the sender yet. `relayRetryEvery` is declared
  and not used. The same holds after a path is lost: keepalive goes back to
  punching with the deadline of the first attempt, and the next tick ends in
  relay. `TogetherConnects` is what the code does give: attempts that overlap
  for two rounds, and one more for each fault, do succeed.
* `ShutsDownCleanly`: `shutdown` does not wait for the poll loop, which may assign
  to the map that it has set to nil.

The models have further behaviour that the documents do not lead one to expect.
It has no run of its own; the hazards in `PROJECT.json` say where each comes from.

* The state is direct also when `Create` failed, and a relayed pong, which has no
  sender address, makes the zero address the winner. A new winner does not move
  an existing link.
* `SetEndpoints` writes into arrays that responses are being encoded from.
  `CurrentViewIntact` and `ViewsSettle` show how far the damage goes: such a
  response always carries an outdated etag, and the next poll repairs it.
* An FSM's tunnel may lack its address: it is assigned as a /30, of which
  `AssignIP` rejects the first and the last address, and the error is ignored.
* Address allocations do not survive the coordinator.
* The owner of a FOU port is whoever opened it, not whoever uses it: a roll-back
  can close a port in use, and `Delete` never closes one.
* `shutdown` does not wait for the FSMs' teardown before the process ends.
* A STUN reader whose round is over may take one more datagram, and only one
  (`StaleReadersTakeOne`). The deadline is cleared when the round ends, so that such
  a reader, one for each round whose context ends first, stays blocked until a
  datagram comes.
* `docs/PROTOCOL.md:38-39` says that `tx` is "used to correlate a pong with its
  ping"; `onDiscoUDP` (`peer.go:233-251`) does not compare it, and takes every pong
  of the peer for an answer.
* `docs/ARCHITECTURE.md:56-60` says that the link has `EncapDport` "pointing at the
  peer's FOU port", whose mapping is distinct from the disco socket's;
  `bringUpTunnel` (`peer.go:386`) takes the port of the disco address that answered.
  `LinkReachesPeer` is about that address and says nothing of the FOU port.
* `AssignIP` is to assign an address "to the tunnel interface" (`gre.go:234`); it
  takes a link of any type that has the name by then.
* The key file is neither locked nor replaced atomically: of two first starts one
  runs with keys that are not the stored ones, a crash in the write leaves a file
  that does not decode, and a write that fails over another's may leave a mixture.

## What is proved

TLAPS checks these for every value of the constants that satisfies the named
assumption of the component (`FsmAssumption`, `RendezvousAssumption`,
`TimingAssumption`, `RegistryAssumption`, `EndpointsAssumption`, `RelayAssumption`,
`TunnelAssumption`, `DaemonAssumption`, `RoundsAssumption`, `PoolAssumption`,
`SeriesAssumption`, `KeysAssumption`: capacities are positive, the null values are
not addresses or handlers, endpoint lists are sequences of records, there are two
ends, and the like). Check with `tlapm <module>.tla`; `SignalRelayProofs`
and `TunnelProofs` take a few minutes and `RendezvousProofs` about ten. The fact
`Untyped` of `PeerFSMProofs` says nothing about the system: it keeps the prover's
type inference, whose cost grows along a module, out of two long ones.

**PeerFSMProofs.** `TypeCorrect`; then `LeaksAreReported` from the inductive
invariant `IInv`. The property is not inductive: a link found at the exit may have
been made in any earlier state, so that `LinkRemembered` has to say that `tunnelUp`
or a log entry goes with every link. That `tunnelUp` survives the loss of the path
is the point of the code's separate flag.

**RendezvousProofs.** `LinksReachPeers`, from `RdvInv`: what a queue holds came
from the peer (`FromPeers`), which follows a pong from the NAT through the queue to
`bringUpTunnel`, past the local addresses and the addresses from the relay that
are tried as well. `RdvInv` also has that a public address is not forgotten once it
is known (`ListKept`).

`AttemptsMeet` and `PathsStay` are for any number of faults and any timings and
queue capacity with `TimingAssumption`: keepalives come before a NAT forgets a
mapping and before a pong is missed, the queue (32 in the code) holds four events
more than there are faults, and a local address is not a public one, since both
ends are behind NATs. They need an invariant about the two ends at once,
`PathsInv`. Its parts, for an end and its peer:

* A ping and its answer stay within a unit, in which the NATs that they have opened
  are still open (`SameUnit`), and an end asks once in it (`OneRound`).
* The end's own keepalives keep its NAT open (`KeptOpen`), as do its pings while it
  is punching (`PunchOpen`); the peer's NAT has been open since the last pong, also
  when the peer only answers (`AnswerRecent`).
* So every keepalive that no fault has cost brings a pong, and the age of the last
  pong is bounded by the keepalives that the faults so far can have cost
  (`PongsCome`). An end gives up at an age beyond the deadline, hence `PathsStay`.
* Two ends that try together count the units in which they have
  (`RoundsCount`): at most one more than the faults, or they are in the round that
  makes both direct, or they are direct. Hence `AttemptsMeet`.
* Nothing of this is dropped at a full queue (`LoadOK`): every tick, keepalive and
  datagram of a unit becomes at most one event, and only a fault adds one.

Each action of the composition is one of a few kinds of step for a pair of ends
(`CalmStep`, `BeginStep`, `AnswerStep`, `PongStep`, `PingStep`, `LostStep`,
`TrafficStep`, `UnitStep` and so on), and the invariant is shown once for each kind.
`Tolerated` in both properties is that the faults so far cost no more keepalives
than the deadline spans (two faults with the code's 25 s and 75 s).

**RegistryProofs.** `TypeCorrect`; `AddressesAreDistinct` (inductive together
with the types, since it states that the two maps are inverse);
`RefusalMeansFull`, from the well-ordering of the free addresses;
`AddressesAreKept`, an action property; `ChangesAreNotMissed` and
`EtagsNameContent` from `PollInv`. `PollInv` adds that a poller's channel is the
current one or closed (`ChannelsOK`) and that a response with the current etag
has the current content, while etags only grow (`ResponsesOK`).
`MemRefinesRegistry`: `RegistryMem` implements `Registry`, so that all of these
hold of it. `CurrentViewsAreIntact` is about what only `RegistryMem` has, the
arrays that a response is read from while `SetEndpoints` writes: `CopiesIntact`
says that until the etag moves on no word of them changes, and one that has been
torn is under an old etag.

**SignalRelayProofs.** `WakeupsAreNotLost` and `ChannelsAreClosedOnce` from
`WakeInv`. The map of wake-up channels and the senders in the act of closing
divide the open channels among them: a channel in the map is open and nobody
holds it (`WakesOpen`), a waiter's channel is closed, held by a sender, or in the
map under the waiter's key (`WaitersKnown`), and a channel stays in the map only
beside an empty queue. `RelayTypeCorrect` and `QueuesHoldNewest` from `RelayInv`,
in which a queue is the end of all that was enqueued for its key
(`NewestQueued`). `RelayIsLossyFifo` is the refinement: what is pending for a
key is what the handler that the client listens to has in hand followed by the
queue, and every step of the relay sends, loses, delivers or leaves pending
envelopes alone (`FifoSend`, `FifoLose`, `FifoDeliver`, `FifoStutter`).
`LossesHaveCauses` is the action property that tells which steps may lose.

**TunnelProofs.** `TypeCorrect`, `FailuresAreClean`, `SuccessesLast` and `ForeignLinksAreLeft`,
for any number of callers, names, ports and addresses. None is inductive: each
speaks of calls that have returned, or of a link and what some caller remembers
of it. `IInv` adds what holds in between. `PlaceInv` ties a caller's place to its
kind and its port. `LinkInv` says whose link can stand under a name: that of a
caller of this name who has still to deal with it, has succeeded, or has logged
its failure. `PortInv` says the same of a port that a Create has opened. `UpInv`
extends `SuccessLasts` to the callers that are through with `Create` and not yet
with `AssignIP`. `ForeignInv` says that a Delete
past its lookup holds a link that is not of another type. That a link of another
type gets an address only in the place of a deleted one follows from `UpInv`: until
a Delete has taken it, the caller's own link stands under the name.

**DaemonProofs.** `TypeCorrect` and `RunningFsmsAreKnown`, for any finite set of
keys. `DInv` adds `Numbered`: FSMs are numbered up to `ifaceSeq`, so that a new
one never takes the place of an old one, and the map has each under its own key.
For `KeyFile`, `KeysTypeCorrect`, `IdentitiesWereSaved` and `IdentitiesSettle`, for
any number of processes. A process may take its identity from the file, so that
`SavedInv` has to say that an identity in the file, a mixture too, is one that the
file has held whole.

**HealthProofs.** `PoolReturnsComplete` for `ProbeTargets` alone, from `PoolInv`:
slots in use are counted by the goroutines that hold one (`SlotsCounted`, a
cardinality), goroutines are started in order and have stored a result before
they release (`Progress`), and what is missing is missing for a cancelled context
(`CutShort`). `TypeCorrect`, `RoundsReturnComplete`, `HealthsAreFresh` and
`InterruptsAreNoErrors` for the commands, for any list of targets, slots, length
and threshold of a series, from `HealthInv`: the pool's invariant has to hold in
a round that starts from what the last one left behind, and `Evidence` relates
what is stored and shown to what was heard in this round.

**DiscoSocketProofs.** `AnswersAreCurrent`, for any number of rounds. `ResultsOwn`
says that a round's channel holds no other round's answer, although its reader
outlives the round and may take any datagram. `StaleReadersTakeAtMostOne`: a reader
looks at its context after each read, so that it has taken none since the round's
end, or one and has ended.

Only model-checked: the liveness properties, which need fairness and are out of the
prover's reach. Every invariant and action property of a passing run is a theorem.

## What is not modelled

* Cryptography and encodings (envelopes, request signatures, JSON, STUN and ICMP
  layout). A datagram or request that fails its check is dropped, which the
  models have as loss.
* Request authentication: it decides on each request alone, by a signature and
  the clock, and keeps no state.
* Error translation: only tests ask for the class of an error; no step of the
  system depends on it.
* The syntax of names and the ranges of ports and MTU in `ValidateConfig`.
* Metrics, `list`, `status`, `stun`, `version` and the capability check: they
  print or export what a read-only call returns.
* NATs that give each destination another port (symmetric), and hosts with
  several public addresses. The `--aggressive-punch` flag is stored and not used.
* An etag is the hash of a clock reading; the model numbers changes instead,
  which supposes that no two changes read the same nanosecond.
* The data plane after the kernel is programmed, which is outside gretun.
