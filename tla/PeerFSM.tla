------------------------------- MODULE PeerFSM -------------------------------
(***************************************************************************)
(* The per-peer state machine of the daemon (internal/daemon/peer.go).     *)
(*                                                                         *)
(* Every remote peer has one peerFSM.  Its run goroutine is the only one   *)
(* that handles events, ticks and keepalives; the daemon's loops only put  *)
(* events into the bounded channel `incoming' and, for a coordinator       *)
(* update, overwrite the peer snapshot.  Variables are functions of the    *)
(* FSM, so that the same module serves one FSM, all the FSMs of a daemon,  *)
(* or the two ends of a path.                                              *)
(*                                                                         *)
(* Time is counted in units of punchInterval.  A deadline is kept as the   *)
(* time left to it, an instant as its age, both saturating, so that no     *)
(* clock grows without bound.                                              *)
(***************************************************************************)
EXTENDS Integers, Sequences, FiniteSets

CONSTANTS
  Fsm,            \* the FSMs
  Addr,           \* ip:port pairs a peer may be reached at
  NoAddr,         \* the zero netip.AddrPort
  Offers,         \* endpoint lists a snapshot or a call_me_maybe may carry
  QueueCap,       \* capacity of incoming (32)
  PunchDur,       \* punchAttemptDur
  KeepaliveEvery, \* keepaliveEvery
  PongMiss,       \* pongMissDeadline
  RelayedTypes    \* message types that reach the FSM through the coordinator

ASSUME FsmAssumption ==
  /\ NoAddr \notin Addr
  /\ Offers \subseteq SUBSET Addr
  /\ QueueCap \in Nat \ {0}
  /\ PunchDur \in Nat \ {0}
  /\ KeepaliveEvery \in Nat \ {0}
  /\ PongMiss \in Nat
  /\ RelayedTypes \subseteq {"ping", "pong", "call_me_maybe"}

VARIABLES
  state,       \* p.state
  endpoints,   \* the addresses of p.peer.Endpoints
  incoming,    \* p.incoming
  writing,     \* snapshot an update has announced but not yet stored
  winning,     \* p.winning
  punchLeft,   \* time left to punchDeadline, 0 once it has passed
  pongAge,     \* time since p.lastPong
  kaLeft,      \* time left to the next keepalive tick
  fired,       \* ticker channels that hold a tick
  tunnelUp,    \* p.tunnelUp
  link,        \* remote of the kernel's link p.deps.ifaceName, NoAddr if none
  done,        \* p.done is closed, or the daemon's context is cancelled
  phase,       \* "running" until teardown has returned
  warned       \* a link that could not be deleted has been logged

snapshotVars == <<endpoints, writing>>
timerVars    == <<punchLeft, pongAge, kaLeft, fired>>
tunnelVars   == <<tunnelUp, link, warned>>
lifeVars     == <<done, phase>>
vars == <<state, incoming, winning,
          snapshotVars, timerVars, tunnelVars, lifeVars>>

-----------------------------------------------------------------------------
\* `have_endpoints' is entered and left within one handler: no event, tick or
\* stop can be handled in it.
States == {"unknown", "punching", "direct", "relay"}

\* A message on its way through incoming.  Only call_me_maybe carries
\* endpoints; a relayed message has the zero address as its source.
Event ==
  [type : {"update", "ping", "pong", "call_me_maybe"},
   from : Addr \cup {NoAddr},
   eps  : SUBSET Addr]

Update        == [type |-> "update", from |-> NoAddr, eps |-> {}]
Ping(from)    == [type |-> "ping", from |-> from, eps |-> {}]
Pong(from)    == [type |-> "pong", from |-> from, eps |-> {}]
CallMeMaybe(eps) == [type |-> "call_me_maybe", from |-> NoAddr, eps |-> eps]

NoWrite == [pending |-> FALSE, eps |-> {}]

PongStale == PongMiss + 1   \* an age past pongMissDeadline

-----------------------------------------------------------------------------
Init ==
  /\ state     = [p \in Fsm |-> "unknown"]
  /\ endpoints \in [Fsm -> Offers]
  /\ incoming  = [p \in Fsm |-> <<>>]
  /\ writing   = [p \in Fsm |-> NoWrite]
  /\ winning   = [p \in Fsm |-> NoAddr]
  /\ punchLeft = [p \in Fsm |-> 0]
  /\ pongAge   = [p \in Fsm |-> PongStale]
  /\ kaLeft    = [p \in Fsm |-> KeepaliveEvery]
  /\ fired     = [p \in Fsm |-> {}]
  /\ tunnelUp  = [p \in Fsm |-> FALSE]
  /\ link      = [p \in Fsm |-> NoAddr]
  /\ done      = [p \in Fsm |-> FALSE]
  /\ phase     = [p \in Fsm |-> "running"]
  /\ warned    = [p \in Fsm |-> FALSE]

-----------------------------------------------------------------------------
(* The daemon's side: what other goroutines do to the FSM.                 *)

\* A send on incoming with a default branch: the event is dropped when full.
HasRoom(p) == Len(incoming[p]) < QueueCap

Offer(p, ev) ==
  incoming' = [incoming EXCEPT ![p] = IF HasRoom(p) THEN Append(@, ev) ELSE @]

\* update: the event is queued before the snapshot is stored, in two steps
\* that the run goroutine may come between.  Callers hold the daemon's lock,
\* so one update is in progress at a time.  A full queue drops both.
UpdateQueue(p, eps) ==
  /\ ~writing[p].pending
  /\ Offer(p, Update)
  /\ writing' = [writing EXCEPT
                   ![p] = IF HasRoom(p) THEN [pending |-> TRUE, eps |-> eps] ELSE @]
  /\ UNCHANGED <<state, winning, endpoints, timerVars, tunnelVars, lifeVars>>

UpdateStore(p) ==
  /\ writing[p].pending
  /\ endpoints' = [endpoints EXCEPT ![p] = writing[p].eps]
  /\ writing'   = [writing EXCEPT ![p] = NoWrite]
  /\ UNCHANGED <<state, incoming, winning, timerVars, tunnelVars, lifeVars>>

\* onUDP and onSignal.
Receive(p, ev) ==
  /\ Offer(p, ev)
  /\ UNCHANGED <<state, winning, snapshotVars, timerVars, tunnelVars, lifeVars>>

\* Messages the disco socket may hand to the FSM.  A pong may come at any time:
\* its tx is not compared with that of a ping, so nothing ties it to one.
Datagrams == {Ping(a) : a \in Addr} \cup {Pong(a) : a \in Addr}

\* Messages the coordinator's relay may hand to the FSM.
Relayed ==
  {ev \in {Ping(NoAddr), Pong(NoAddr)} \cup {CallMeMaybe(eps) : eps \in Offers} :
     ev.type \in RelayedTypes}

OnUDP(p)    == \E ev \in Datagrams : Receive(p, ev)
OnSignal(p) == \E ev \in Relayed : Receive(p, ev)

\* stop, or the cancellation of the context passed to run.
Stop(p) ==
  /\ ~done[p]
  /\ done' = [done EXCEPT ![p] = TRUE]
  /\ UNCHANGED <<state, incoming, winning, snapshotVars, timerVars, tunnelVars, phase>>

-----------------------------------------------------------------------------
(* The run goroutine's side: one handler per iteration of its select.      *)

\* onPeerUpdate, given the endpoints it finds.
OnPeerUpdate(p, eps) ==
  IF eps # {} /\ state[p] = "unknown"
  THEN /\ state'     = [state EXCEPT ![p] = "punching"]
       /\ punchLeft' = [punchLeft EXCEPT ![p] = PunchDur]
  ELSE UNCHANGED <<state, punchLeft>>

\* bringUpTunnel: tunnel.Create brings up the link, or fails and leaves none,
\* or fails, cannot delete the half-made link and logs that.  It always fails
\* for the zero address and beside a link of the same name.  Whether AssignIP
\* then succeeds is ignored by the code and does not show here.
BringUpTunnel(p, to) ==
  \/ /\ ~tunnelUp[p] /\ link[p] = NoAddr /\ to # NoAddr
     /\ link' = [link EXCEPT ![p] = to]
     /\ \/ tunnelUp' = [tunnelUp EXCEPT ![p] = TRUE] /\ UNCHANGED warned
        \/ warned' = [warned EXCEPT ![p] = TRUE] /\ UNCHANGED tunnelUp
  \/ UNCHANGED tunnelVars

\* The pong case of onDiscoUDP.
OnPong(p, from) ==
  /\ pongAge' = [pongAge EXCEPT ![p] = 0]
  /\ IF state[p] # "direct"
     THEN /\ winning' = [winning EXCEPT ![p] = from]
          /\ state'   = [state EXCEPT ![p] = "direct"]
          /\ BringUpTunnel(p, from)
     ELSE UNCHANGED <<winning, state, tunnelVars>>

\* handle, for the event at the head of incoming.  A ping is answered with a
\* pong and changes nothing here.  (The faulty variant skips an update whose
\* snapshot is still being stored, as a TryLock would.)
HandleUpdateUnlessBusy(p, ev) ==
  /\ ev.type = "update"
  /\ OnPeerUpdate(p, IF writing[p].pending THEN {} ELSE endpoints[p])
  /\ UNCHANGED <<endpoints, winning, pongAge, tunnelVars>>

HandleUpdate(p, ev) ==
  /\ ev.type = "update"
  /\ OnPeerUpdate(p, endpoints[p])
  /\ UNCHANGED <<endpoints, winning, pongAge, tunnelVars>>

HandlePing(p, ev) ==
  /\ ev.type = "ping"
  /\ UNCHANGED <<state, endpoints, winning, punchLeft, pongAge, tunnelVars>>

HandlePong(p, ev) ==
  /\ ev.type = "pong"
  /\ OnPong(p, ev.from)
  /\ UNCHANGED <<endpoints, punchLeft>>

\* absorbEndpoints, then onPeerUpdate.
HandleCallMeMaybe(p, ev) ==
  /\ ev.type = "call_me_maybe"
  /\ endpoints' = [endpoints EXCEPT ![p] = @ \cup ev.eps]
  /\ OnPeerUpdate(p, endpoints[p] \cup ev.eps)
  /\ UNCHANGED <<winning, pongAge, tunnelVars>>

Handle(p) ==
  /\ phase[p] = "running"
  /\ incoming[p] # <<>>
  /\ incoming' = [incoming EXCEPT ![p] = Tail(@)]
  /\ LET ev == Head(incoming[p]) IN
       \/ HandleUpdate(p, ev)
       \/ HandlePing(p, ev)
       \/ HandlePong(p, ev)
       \/ HandleCallMeMaybe(p, ev)
  /\ UNCHANGED <<writing, kaLeft, fired, lifeVars>>

\* A tick of the punch ticker.
TickPunch(p) ==
  /\ phase[p] = "running"
  /\ "tick" \in fired[p]
  /\ fired' = [fired EXCEPT ![p] = @ \ {"tick"}]
  /\ IF state[p] = "punching" /\ punchLeft[p] = 0
     THEN state' = [state EXCEPT ![p] = "relay"]
     ELSE UNCHANGED state
  /\ UNCHANGED <<incoming, winning, snapshotVars, punchLeft, pongAge, kaLeft,
                 tunnelVars, lifeVars>>

\* A tick of the keepalive ticker.  (The faulty variant only keeps alive, and
\* never looks at the age of the last pong.)
KeepaliveOnly(p) ==
  /\ phase[p] = "running"
  /\ "ka" \in fired[p]
  /\ fired'  = [fired EXCEPT ![p] = @ \ {"ka"}]
  /\ UNCHANGED <<state, incoming, winning, snapshotVars, punchLeft, pongAge, kaLeft,
                 tunnelVars, lifeVars>>

Keepalive(p) ==
  /\ phase[p] = "running"
  /\ "ka" \in fired[p]
  /\ fired' = [fired EXCEPT ![p] = @ \ {"ka"}]
  /\ IF state[p] = "direct" /\ pongAge[p] > PongMiss
     THEN state' = [state EXCEPT ![p] = "punching"]
     ELSE UNCHANGED state
  /\ UNCHANGED <<incoming, winning, snapshotVars, punchLeft, pongAge, kaLeft,
                 tunnelVars, lifeVars>>

\* teardown, run when the loop returns.  tunnel.Delete may fail; the failure
\* is logged.  (The faulty variant decides by the path's state instead of
\* tunnelUp.)
TeardownIfDirect(p) ==
  \/ /\ state[p] = "direct"
     /\ link' = [link EXCEPT ![p] = NoAddr]
     /\ UNCHANGED warned
  \/ /\ state[p] # "direct"
     /\ UNCHANGED <<link, warned>>

Teardown(p) ==
  \/ /\ tunnelUp[p]
     /\ link' = [link EXCEPT ![p] = NoAddr]
     /\ UNCHANGED warned
  \/ /\ tunnelUp[p]
     /\ warned' = [warned EXCEPT ![p] = TRUE]
     /\ UNCHANGED link
  \/ /\ ~tunnelUp[p]
     /\ UNCHANGED <<link, warned>>

\* (The faulty variant drains the queue before it looks at done.)
ExitWhenDrained(p) ==
  /\ phase[p] = "running"
  /\ done[p] /\ incoming[p] = <<>>
  /\ Teardown(p)
  /\ phase' = [phase EXCEPT ![p] = "exited"]
  /\ UNCHANGED <<state, incoming, winning, snapshotVars, timerVars, tunnelUp, done>>

Exit(p) ==
  /\ phase[p] = "running"
  /\ done[p]
  /\ Teardown(p)
  /\ phase' = [phase EXCEPT ![p] = "exited"]
  /\ UNCHANGED <<state, incoming, winning, snapshotVars, timerVars, tunnelUp, done>>

-----------------------------------------------------------------------------
\* One unit of time passes.  A ticker's channel holds one tick: a tick that
\* finds it full is dropped.
KeepaliveDue(p) == kaLeft[p] = 1

Elapse ==
  /\ \E p \in Fsm : phase[p] = "running"
  /\ punchLeft' = [p \in Fsm |-> IF punchLeft[p] = 0 THEN 0 ELSE punchLeft[p] - 1]
  /\ pongAge'   = [p \in Fsm |-> IF pongAge[p] = PongStale THEN PongStale ELSE pongAge[p] + 1]
  /\ kaLeft'    = [p \in Fsm |-> IF KeepaliveDue(p) THEN KeepaliveEvery ELSE kaLeft[p] - 1]
  /\ fired'     = [p \in Fsm |-> fired[p] \cup {"tick"}
                                   \cup (IF KeepaliveDue(p) THEN {"ka"} ELSE {})]
  /\ UNCHANGED <<state, incoming, winning, snapshotVars, tunnelVars, lifeVars>>

Run(p) == Handle(p) \/ TickPunch(p) \/ Keepalive(p) \/ Exit(p)

Environment(p) ==
  \/ \E eps \in Offers : UpdateQueue(p, eps)
  \/ UpdateStore(p)
  \/ OnUDP(p)
  \/ OnSignal(p)
  \/ Stop(p)

Next == Elapse \/ \E p \in Fsm : Run(p) \/ Environment(p)

Spec == Init /\ [][Next]_vars

(***************************************************************************)
(* Fairness.  Go's select chooses at random among the channels that are    *)
(* ready, and each of these stays ready until it is chosen, so that none   *)
(* is passed over for ever.  Time passes, and an update that has queued    *)
(* its event goes on to store the snapshot.  The daemon's long poll        *)
(* returns at least every 25s, changed or not, and each return calls       *)
(* update: some of these calls meet a queue with room if there is room     *)
(* again and again.                                                        *)
(***************************************************************************)
LoopFairness ==
  /\ WF_vars(Elapse)
  /\ \A p \in Fsm : /\ WF_vars(Handle(p))
                     /\ WF_vars(TickPunch(p))
                     /\ WF_vars(Keepalive(p))
                     /\ WF_vars(Exit(p))
                     /\ WF_vars(UpdateStore(p))

PollFairness ==
  \A p \in Fsm : SF_vars(HasRoom(p) /\ \E eps \in Offers : UpdateQueue(p, eps))

FairSpec == Spec /\ LoopFairness /\ PollFairness

-----------------------------------------------------------------------------
(* Properties                                                              *)

\* incoming holds events, never more than its capacity.
QueueOK ==
  /\ incoming \in [Fsm -> Seq(Event)]
  /\ \A p \in Fsm : Len(incoming[p]) <= QueueCap

\* The other variables hold values of the kind the code keeps in them.
FieldsOK ==
  /\ state     \in [Fsm -> States]
  /\ endpoints \in [Fsm -> SUBSET Addr]
  /\ writing   \in [Fsm -> [pending : BOOLEAN, eps : SUBSET Addr]]
  /\ winning   \in [Fsm -> Addr \cup {NoAddr}]
  /\ punchLeft \in [Fsm -> 0..PunchDur]
  /\ pongAge   \in [Fsm -> 0..PongStale]
  /\ kaLeft    \in [Fsm -> 1..KeepaliveEvery]
  /\ fired     \in [Fsm -> SUBSET {"tick", "ka"}]
  /\ tunnelUp  \in [Fsm -> BOOLEAN]
  /\ link      \in [Fsm -> Addr \cup {NoAddr}]
  /\ done      \in [Fsm -> BOOLEAN]
  /\ phase     \in [Fsm -> {"running", "exited"}]
  /\ warned    \in [Fsm -> BOOLEAN]

\* Every variable of the FSM has its type.
TypeOK == QueueOK /\ FieldsOK

\* A kernel link that outlives its FSM was reported: teardown deletes whatever
\* bringUpTunnel created, also after the path was lost and the FSM went on to
\* punching or relay, and otherwise logs that it could not.
LeakIsReported ==
  \A p \in Fsm : phase[p] = "exited" /\ link[p] # NoAddr => warned[p]

\* Why it holds: the FSM remembers every link it created or has logged it, and
\* only Exit leaves a link behind.
LinkRemembered == \A p \in Fsm : link[p] # NoAddr => tunnelUp[p] \/ warned[p]

IInv == LinkRemembered /\ LeakIsReported

\* A silent path is given up: once no pong arrives any more, keepalive leaves
\* direct and tickPunch leaves punching, and the FSM stays out of both.
SilentPathAbandoned ==
  \A p \in Fsm : <>[](pongAge[p] > PongMiss)
                    => <>[](state[p] \in {"unknown", "relay"} \/ phase[p] = "exited")

\* Known endpoints are tried: although update queues its event before it
\* stores the snapshot, and drops both when incoming is full, an FSM whose
\* snapshot keeps endpoints does not stay in unknown.
KnownEndpointsTried ==
  \A p \in Fsm : <>[](endpoints[p] # {})
                    => <>(state[p] # "unknown" \/ phase[p] = "exited")

\* A stopped FSM tears down and exits, whatever keeps arriving on incoming.
StopTerminates ==
  \A p \in Fsm : done[p] ~> phase[p] = "exited"

=============================================================================
