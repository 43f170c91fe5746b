----------------------------- MODULE Rendezvous -----------------------------
(***************************************************************************)
(* Two daemons that find one another: each has a PeerFSM for the other     *)
(* (internal/daemon/peer.go), started and updated from the coordinator's   *)
(* list (daemon.go), told of the other's attempt by one call_me_maybe over *)
(* the relay, and separated from the other by two NATs and a network that  *)
(* may lose or duplicate datagrams.                                        *)
(*                                                                         *)
(* The parts are those of the other modules.  The FSMs are PeerFSM's, the  *)
(* relay is LossyFifo, which SignalRelay implements, and a poll with its   *)
(* reconciliation is one step (Registry and Daemon have its parts).        *)
(* Neither daemon is stopped, the coordinator does not restart, and the    *)
(* kernel lets every link be created (PeerFSM has the other cases).        *)
(*                                                                         *)
(* A NAT lets in what comes from where its node has sent to within the     *)
(* last HoleLife units; each node has one public address, at which it can  *)
(* be reached through its NAT, and a local one, at which it cannot.  Time  *)
(* is coarse: a unit (punchInterval, 250ms) is longer than the network     *)
(* takes to carry a datagram and an FSM to handle what it has.  Polls and  *)
(* the relay take any time.                                                *)
(***************************************************************************)
EXTENDS PeerFSM

CONSTANTS
  Pub, Loc,     \* Pub[p], Loc[p]: the public and the local address of p
  HoleLife,     \* how long a NAT keeps a mapping that is not used
  MaxFaults     \* bound: datagrams lost or duplicated

ASSUME RendezvousAssumption ==
  /\ \E p, q \in Fsm : p # q /\ Fsm = {p, q}
  /\ Pub \in [Fsm -> Addr] /\ Loc \in [Fsm -> Addr]
  /\ HoleLife \in Nat /\ MaxFaults \in Nat

\* A local address is not a public one; keepalives come before a NAT forgets a
\* mapping and before a pong is missed (25s and 75s in the code), and incoming
\* (32 in the code) has room for what is on its way within a unit.
ASSUME TimingAssumption ==
  /\ \A p \in Fsm : Loc[p] # Pub[p]
  /\ KeepaliveEvery < HoleLife /\ KeepaliveEvery <= PongMiss
  /\ MaxFaults + 4 <= QueueCap

VARIABLES
  dir,         \* what the coordinator lists: "absent", "known", "posted"
  up,          \* the daemon has an FSM for the other
  inflight,    \* datagrams on their way, by type and sender
  hole,        \* time left to the mapping of p's NAT for the other
  faults,      \* datagrams lost or duplicated so far
  together,    \* units for which both have tried each other's public address
  sent, pending, got   \* the relay

Relay == INSTANCE LossyFifo WITH Recip <- Fsm, Env <- Fsm

relayVars == <<sent, pending, got>>
netVars   == <<inflight, hole, faults, together>>
rdvVars   == <<vars, dir, up, netVars, relayVars>>

-----------------------------------------------------------------------------
Peer(p)   == CHOOSE q \in Fsm : q # p
Listed(p) == IF dir[p] = "posted" THEN {Loc[p], Pub[p]} ELSE {}

RdvInit ==
  /\ Init /\ endpoints = [p \in Fsm |-> {}]
  /\ Relay!Init
  /\ dir = [p \in Fsm |-> "absent"] /\ up = [p \in Fsm |-> FALSE]
  /\ inflight = {} /\ hole = [p \in Fsm |-> 0] /\ faults = 0
  /\ together = 0

\* Between two units: what was sent has arrived or been lost, and what has
\* arrived and every tick has been handled.
Settled ==
  /\ inflight = {}
  /\ \A p \in Fsm : up[p] => incoming[p] = <<>> /\ fired[p] = {} /\ ~writing[p].pending

-----------------------------------------------------------------------------
(* The daemons and the coordinator, whose answers come between two units   *)

\* Run registers once, then posts its endpoints; should that fail, the refresh
\* loop posts them later.
Register(p) ==
  /\ Settled
  /\ dir[p] = "absent"
  /\ dir' = [dir EXCEPT ![p] = "known"]
  /\ UNCHANGED <<vars, up, netVars, relayVars>>

PostEndpoints(p) ==
  /\ Settled
  /\ dir[p] = "known"
  /\ dir' = [dir EXCEPT ![p] = "posted"]
  /\ UNCHANGED <<vars, up, netVars, relayVars>>

\* reconcilePeers meets the other for the first time: an FSM with the list's
\* endpoints, which it does not look at yet, and new tickers.
StartFsm(p) ==
  /\ Settled
  /\ ~up[p] /\ dir[p] # "absent" /\ dir[Peer(p)] # "absent"
  /\ up'        = [up EXCEPT ![p] = TRUE]
  /\ endpoints' = [endpoints EXCEPT ![p] = Listed(Peer(p))]
  /\ kaLeft'    = [kaLeft EXCEPT ![p] = KeepaliveEvery]
  /\ fired'     = [fired EXCEPT ![p] = {}]
  /\ UNCHANGED <<state, incoming, winning, writing, punchLeft, pongAge,
                 tunnelVars, lifeVars, dir, netVars, relayVars>>

\* A later poll, changed or timed out, ends in update.  (Left out are those that
\* change nothing: the endpoints are the same and the FSM has left unknown.)
PollAgain(p) ==
  /\ Settled /\ up[p]
  /\ state[p] = "unknown" \/ endpoints[p] # Listed(Peer(p))
  /\ UpdateQueue(p, Listed(Peer(p)))
  /\ UNCHANGED <<dir, up, netVars, relayVars>>

StoreSnapshot(p) ==
  /\ UpdateStore(p)
  /\ UNCHANGED <<dir, up, netVars, relayVars>>

\* The goroutine that enter starts: one call_me_maybe for each FSM.
SendCallMeMaybe(p) ==
  /\ Settled /\ up[p]
  /\ Relay!Send(Peer(p), p)
  /\ UNCHANGED <<vars, dir, up, netVars>>

LoseSignal(p) ==
  /\ Settled
  /\ pending[p] # <<>>
  /\ Relay!Lose(p)
  /\ UNCHANGED <<vars, dir, up, netVars>>

\* signalPullLoop: a message from a peer without an FSM is dropped.  It holds
\* the sender's local addresses only (gatherLocalAddrPorts).
PullSignals(p) ==
  /\ Settled
  /\ dir[p] # "absent"
  /\ Relay!Deliver(p)
  /\ IF up[p] THEN Receive(p, CallMeMaybe({Loc[Peer(p)]})) ELSE UNCHANGED vars
  /\ UNCHANGED <<dir, up, netVars>>

-----------------------------------------------------------------------------
(* The network                                                             *)

\* p writes one datagram to each of the addresses, which opens its NAT.
Sends(p, type, addrs) ==
  IF Pub[Peer(p)] \in addrs
  THEN /\ inflight' = inflight \cup {[type |-> type, from |-> p]}
       /\ hole'     = [hole EXCEPT ![p] = HoleLife]
       /\ UNCHANGED <<faults, together>>
  ELSE UNCHANGED netVars

\* discoReadLoop hands a datagram to the FSM of its sender, with the address it
\* came from.  (The faulty variant passes the address its sender believes in.)
DeliverClaimed(m) ==
  LET p == Peer(m.from) IN
  IF hole[p] > 0 /\ up[p]
  THEN Receive(p, IF m.type = "ping" THEN Ping(Pub[m.from]) ELSE Pong(Loc[m.from]))
  ELSE UNCHANGED vars

Deliver(m) ==
  LET p == Peer(m.from) IN
  IF hole[p] > 0 /\ up[p]
  THEN Receive(p, IF m.type = "ping" THEN Ping(Pub[m.from]) ELSE Pong(Pub[m.from]))
  ELSE UNCHANGED vars

Arrive(m) ==
  /\ Deliver(m)
  /\ inflight' = inflight \ {m}
  /\ UNCHANGED <<hole, faults, together, dir, up, relayVars>>

Duplicate(m) ==
  /\ faults < MaxFaults
  /\ Deliver(m)
  /\ faults' = faults + 1
  /\ UNCHANGED <<inflight, hole, together, dir, up, relayVars>>

Lose(m) ==
  /\ faults < MaxFaults
  /\ inflight' = inflight \ {m}
  /\ faults'   = faults + 1
  /\ UNCHANGED <<vars, hole, together, dir, up, relayVars>>

-----------------------------------------------------------------------------
(* The FSMs, with what they send                                           *)

\* A ping is answered in every state.  (The faulty variant answers on a path
\* it uses or tries itself only.)
AnswersIfActive(p, ev) ==
  IF ev.type = "ping" /\ state[p] \in {"punching", "direct"}
  THEN Sends(p, "pong", {ev.from})
  ELSE UNCHANGED netVars

Answers(p, ev) ==
  IF ev.type = "ping" THEN Sends(p, "pong", {ev.from}) ELSE UNCHANGED netVars

RunHandle(p) ==
  /\ up[p]
  /\ Handle(p)
  /\ state'[p] = "direct" => tunnelUp'[p]
  /\ Answers(p, Head(incoming[p]))
  /\ UNCHANGED <<dir, up, relayVars>>

\* (The faulty variant sends its pings in the first round only.)
RunTickPunchOnce(p) ==
  /\ up[p]
  /\ TickPunch(p)
  /\ IF state[p] = "punching" /\ state'[p] = "punching" /\ punchLeft[p] = PunchDur - 1
     THEN Sends(p, "ping", endpoints[p])
     ELSE UNCHANGED netVars
  /\ UNCHANGED <<dir, up, relayVars>>

RunTickPunch(p) ==
  /\ up[p]
  /\ TickPunch(p)
  /\ IF state[p] = "punching" /\ state'[p] = "punching"
     THEN Sends(p, "ping", endpoints[p])
     ELSE UNCHANGED netVars
  /\ UNCHANGED <<dir, up, relayVars>>

RunKeepalive(p) ==
  /\ up[p]
  /\ Keepalive(p)
  /\ IF state[p] = "direct" /\ state'[p] = "direct"
     THEN Sends(p, "ping", {winning[p]})
     ELSE UNCHANGED netVars
  /\ UNCHANGED <<dir, up, relayVars>>

\* p answers, and will send a ping in the coming unit unless it is direct.
Trying(p) ==
  \/ state[p] = "direct"
  \/ state[p] = "punching" /\ punchLeft[p] > 1 /\ Pub[Peer(p)] \in endpoints[p]

\* Rounds after which a common attempt must have succeeded, whatever faults
\* there are: in the first, one end's ping may come before the other has opened
\* its NAT, and each fault costs a round.
RoundsNeeded == MaxFaults + 2

RdvElapse ==
  /\ Settled
  /\ Elapse
  /\ hole' = [p \in Fsm |-> IF hole[p] = 0 THEN 0 ELSE hole[p] - 1]
  /\ together' = IF together < RoundsNeeded /\ \A p \in Fsm : Trying(p)
                 THEN together + 1 ELSE together
  /\ UNCHANGED <<dir, up, inflight, faults, relayVars>>

RdvNext ==
  \/ \E p \in Fsm :
       \/ Register(p) \/ PostEndpoints(p) \/ StartFsm(p) \/ PollAgain(p) \/ StoreSnapshot(p)
       \/ SendCallMeMaybe(p) \/ LoseSignal(p) \/ PullSignals(p)
       \/ RunHandle(p) \/ RunTickPunch(p) \/ RunKeepalive(p)
  \/ \E m \in inflight : Arrive(m) \/ Duplicate(m) \/ Lose(m)
  \/ RdvElapse

RdvSpec == RdvInit /\ [][RdvNext]_rdvVars

\* Daemons register, post and poll, between some two units, goroutines run,
\* datagrams arrive or are lost, and time passes; that the relay delivers is
\* not assumed.
RdvFairness ==
  /\ WF_rdvVars(RdvElapse)
  /\ WF_rdvVars(\E m \in inflight : Arrive(m))
  /\ \A p \in Fsm :
       /\ SF_rdvVars(Register(p)) /\ SF_rdvVars(PostEndpoints(p))
       /\ SF_rdvVars(StartFsm(p)) /\ SF_rdvVars(PollAgain(p)) /\ WF_rdvVars(StoreSnapshot(p))
       /\ SF_rdvVars(SendCallMeMaybe(p))
       /\ WF_rdvVars(RunHandle(p)) /\ WF_rdvVars(RunTickPunch(p)) /\ WF_rdvVars(RunKeepalive(p))

RdvFairSpec == RdvSpec /\ RdvFairness

-----------------------------------------------------------------------------
(* Properties                                                              *)

\* A tunnel's remote is the public address of the peer's disco socket, from which
\* the peer has answered, although the lists and every call_me_maybe hold
\* addresses at which it cannot be reached.  (bringUpTunnel takes the FOU port
\* from that address too; whether the peer's FOU socket is there is outside.)
LinkReachesPeer ==
  \A p \in Fsm : link[p] \in {NoAddr, Pub[Peer(p)]}

\* The keepalives that so many faults can cost are no more than a path may
\* miss.
Tolerated == (faults + 1) * KeepaliveEvery <= PongMiss

\* Simultaneous punching works through two NATs: once both ends have tried one
\* another for two units, and one more for each fault, in whatever order their
\* attempts began, both are direct.
TogetherConnects ==
  Settled /\ together >= faults + 2 /\ Tolerated => \A p \in Fsm : state[p] = "direct"

\* A path that is up stays up: keepalives and the answers to them keep both
\* NATs open, even when the other end has given up and only answers; it takes
\* a fault to lose a path that one end still has, and as many as use up the
\* pong deadline to lose a path that both have.
PathStays ==
  [][\A p \in Fsm : state[p] = "direct" /\ state'[p] # "direct" =>
       IF state[Peer(p)] = "direct" THEN ~Tolerated ELSE faults > 0]_rdvVars

-----------------------------------------------------------------------------
(* What the documentation says of the two ends, and the code does not do.  *)

\* Two nodes that the coordinator lists, behind NATs that can be traversed,
\* connect: an attempt that has timed out is made again.
BothEndsConnect == <>(\A p \in Fsm : state[p] = "direct")

=============================================================================
