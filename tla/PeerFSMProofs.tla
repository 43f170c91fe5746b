---------------------------- MODULE PeerFSMProofs ----------------------------
(***************************************************************************)
(* Theorems about PeerFSM, for any number of FSMs, any addresses, any      *)
(* queue capacity and any timer lengths.                                   *)
(***************************************************************************)
EXTENDS PeerFSM, TLAPS

\* An update of a record's field keeps its domain.  (Says nothing of the FSMs.
\* The SMT encoding infers types for each obligation, at a cost that grows along
\* the module, unless a fact has such an update in it: this one is in use below
\* to save that cost.)
LEMMA Untyped == \A r : DOMAIN [r EXCEPT !.type = "ping"] = DOMAIN r
  OBVIOUS

USE Untyped

-----------------------------------------------------------------------------
(* The queue                                                               *)

\* What an event in flight looks like: each constructor builds an Event.
LEMMA EventTypes ==
  /\ Update \in Event
  /\ \A a \in Addr \cup {NoAddr} : Ping(a) \in Event /\ Pong(a) \in Event
  /\ \A eps \in SUBSET Addr : CallMeMaybe(eps) \in Event
BY DEF Update, Ping, Pong, CallMeMaybe, Event

\* What onUDP and onSignal are given is an Event.
LEMMA InputTypes ==
  ASSUME NEW p \in Fsm
  PROVE  Datagrams \subseteq Event /\ Relayed \subseteq Event
<1>1. Datagrams \subseteq Event
  BY EventTypes DEF Datagrams
<1>2. Relayed \subseteq Event
  BY EventTypes, FsmAssumption DEF Relayed
<1> QED
  BY <1>1, <1>2

\* A non-blocking send keeps incoming within its capacity.
LEMMA OfferType ==
  ASSUME QueueOK, NEW p \in Fsm, NEW ev \in Event, Offer(p, ev)
  PROVE  QueueOK'
BY FsmAssumption DEF QueueOK, Offer, HasRoom

\* Receiving from incoming yields an event and leaves a queue.
LEMMA HandleQueue ==
  ASSUME QueueOK, NEW p \in Fsm, Handle(p)
  PROVE  QueueOK' /\ Head(incoming[p]) \in Event
BY FsmAssumption DEF QueueOK, Handle

-----------------------------------------------------------------------------
(* Type correctness                                                        *)

LEMMA TypeInit == Init => TypeOK
BY FsmAssumption DEF Init, TypeOK, QueueOK, FieldsOK, States, NoWrite, PongStale

LEMMA ElapseFields ==
  ASSUME FieldsOK, Elapse
  PROVE  FieldsOK'
<1>1. punchLeft' \in [Fsm -> 0..PunchDur]
  <2>1. PunchDur \in Nat /\ punchLeft \in [Fsm -> 0..PunchDur]
    BY FsmAssumption DEF FieldsOK
  <2> QED
    BY <2>1 DEF Elapse
<1>2. pongAge' \in [Fsm -> 0..PongStale]
  <2>1. PongStale \in Nat /\ pongAge \in [Fsm -> 0..PongStale]
    BY FsmAssumption DEF FieldsOK, PongStale
  <2> QED
    BY <2>1 DEF Elapse
<1>3. kaLeft' \in [Fsm -> 1..KeepaliveEvery]
  BY FsmAssumption DEF Elapse, FieldsOK, KeepaliveDue
<1>4. fired' \in [Fsm -> SUBSET {"tick", "ka"}]
  BY DEF Elapse, FieldsOK
<1> QED
  BY <1>1, <1>2, <1>3, <1>4 DEF Elapse, FieldsOK, snapshotVars, tunnelVars, lifeVars

\* The four cases of handle.
LEMMA HandleFields ==
  ASSUME FieldsOK, NEW p \in Fsm, Handle(p), NEW ev \in Event,
         \/ HandleUpdate(p, ev) \/ HandlePing(p, ev)
         \/ HandlePong(p, ev)   \/ HandleCallMeMaybe(p, ev)
  PROVE  FieldsOK'
<1> DEFINE Started == /\ state' \in [Fsm -> States]
                      /\ punchLeft' \in [Fsm -> 0..PunchDur]
<1>1. UNCHANGED <<writing, kaLeft, fired, done, phase>>
  BY DEF Handle, lifeVars
<1>2. ASSUME NEW eps, OnPeerUpdate(p, eps)
      PROVE  Started
  <2>1. /\ PunchDur \in 0..PunchDur
        /\ state \in [Fsm -> States] /\ punchLeft \in [Fsm -> 0..PunchDur]
    BY FsmAssumption DEF FieldsOK
  <2> QED
    BY <1>2, <2>1 DEF OnPeerUpdate, States
<1>3. CASE HandleUpdate(p, ev)
  <2>1. Started
    BY <1>3, <1>2 DEF HandleUpdate
  <2> QED
    BY <1>1, <1>3, <2>1 DEF HandleUpdate, FieldsOK, tunnelVars
<1>4. CASE HandlePing(p, ev)
  BY <1>1, <1>4 DEF HandlePing, FieldsOK, tunnelVars
<1>5. CASE HandlePong(p, ev)
  <2>1. ev.from \in Addr \cup {NoAddr} /\ 0 \in 0..PongStale
    BY FsmAssumption DEF Event, PongStale
  <2> QED
    BY <1>1, <1>5, <2>1, Zenon DEF HandlePong, OnPong, BringUpTunnel, FieldsOK, States, tunnelVars
<1>6. CASE HandleCallMeMaybe(p, ev)
  <2>1. ev.eps \in SUBSET Addr
    BY DEF Event
  <2>2. Started
    BY <1>6, <1>2 DEF HandleCallMeMaybe
  <2> QED
    BY <1>1, <1>6, <2>1, <2>2, Zenon DEF HandleCallMeMaybe, FieldsOK, tunnelVars
<1> QED
  BY <1>3, <1>4, <1>5, <1>6

LEMMA TypeStep == TypeOK /\ [Next]_vars => TypeOK'
<1> SUFFICES ASSUME QueueOK, FieldsOK, [Next]_vars
             PROVE  QueueOK' /\ FieldsOK'
  BY DEF TypeOK
<1>1. CASE Elapse
  <2>1. QueueOK'
    BY <1>1 DEF Elapse, QueueOK
  <2> QED
    BY <1>1, <2>1, ElapseFields
<1>2. ASSUME NEW p \in Fsm, NEW eps \in Offers, UpdateQueue(p, eps)
      PROVE  QueueOK' /\ FieldsOK'
  <2>1. QueueOK'
    BY <1>2, OfferType, EventTypes DEF UpdateQueue
  <2>2. FieldsOK'
    BY <1>2, FsmAssumption DEF UpdateQueue, FieldsOK, timerVars, tunnelVars, lifeVars
  <2> QED
    BY <2>1, <2>2
<1>3. ASSUME NEW p \in Fsm, UpdateStore(p)
      PROVE  QueueOK' /\ FieldsOK'
  <2>1. QueueOK'
    BY <1>3 DEF UpdateStore, QueueOK
  <2>2. FieldsOK'
    BY <1>3 DEF UpdateStore, FieldsOK, NoWrite, timerVars, tunnelVars, lifeVars
  <2> QED
    BY <2>1, <2>2
<1>4. ASSUME NEW p \in Fsm, NEW ev \in Event, Receive(p, ev)
      PROVE  QueueOK' /\ FieldsOK'
  <2>1. QueueOK'
    BY <1>4, OfferType DEF Receive
  <2>2. FieldsOK'
    BY <1>4 DEF Receive, FieldsOK, snapshotVars, timerVars, tunnelVars, lifeVars
  <2> QED
    BY <2>1, <2>2
<1>5. ASSUME NEW p \in Fsm, Stop(p)
      PROVE  QueueOK' /\ FieldsOK'
  <2>1. QueueOK'
    BY <1>5 DEF Stop, QueueOK
  <2>2. FieldsOK'
    BY <1>5 DEF Stop, FieldsOK, snapshotVars, timerVars, tunnelVars
  <2> QED
    BY <2>1, <2>2
<1>6. ASSUME NEW p \in Fsm, Handle(p)
      PROVE  QueueOK' /\ FieldsOK'
  <2>1. QueueOK' /\ Head(incoming[p]) \in Event
    BY <1>6, HandleQueue
  <2>2. LET ev == Head(incoming[p]) IN
           \/ HandleUpdate(p, ev) \/ HandlePing(p, ev)
           \/ HandlePong(p, ev)   \/ HandleCallMeMaybe(p, ev)
    BY <1>6 DEF Handle
  <2> QED
    BY <1>6, <2>1, <2>2, HandleFields
<1>7. ASSUME NEW p \in Fsm, TickPunch(p)
      PROVE  QueueOK' /\ FieldsOK'
  <2>1. QueueOK'
    BY <1>7 DEF TickPunch, QueueOK
  <2>2. FieldsOK'
    BY <1>7, Zenon DEF TickPunch, FieldsOK, States, snapshotVars, tunnelVars, lifeVars
  <2> QED
    BY <2>1, <2>2
<1>8. ASSUME NEW p \in Fsm, Keepalive(p)
      PROVE  QueueOK' /\ FieldsOK'
  <2>1. QueueOK'
    BY <1>8 DEF Keepalive, QueueOK
  <2>2. FieldsOK'
    BY <1>8, Zenon DEF Keepalive, FieldsOK, States, snapshotVars, tunnelVars, lifeVars
  <2> QED
    BY <2>1, <2>2
<1>9. ASSUME NEW p \in Fsm, Exit(p)
      PROVE  QueueOK' /\ FieldsOK'
  <2>1. QueueOK'
    BY <1>9 DEF Exit, QueueOK
  <2>2. FieldsOK'
    BY <1>9, Zenon DEF Exit, Teardown, FieldsOK, snapshotVars, timerVars
  <2> QED
    BY <2>1, <2>2
<1>10. CASE UNCHANGED vars
  <2>1. QueueOK'
    BY <1>10 DEF vars, QueueOK
  <2>2. FieldsOK'
    BY <1>10 DEF vars, FieldsOK, snapshotVars, timerVars, tunnelVars, lifeVars
  <2> QED
    BY <2>1, <2>2
<1> QED
  BY <1>1, <1>2, <1>3, <1>4, <1>5, <1>6, <1>7, <1>8, <1>9, <1>10, InputTypes
     DEF Next, Run, Environment, OnUDP, OnSignal

\* The daemon's FSMs keep every variable in its type, and incoming within its
\* capacity, whatever the interleaving of callers and run loop.
THEOREM TypeCorrect == Spec => []TypeOK
BY TypeInit, TypeStep, PTL DEF Spec

-----------------------------------------------------------------------------
(* Where links come from and where they end                                *)

LEMMA InvInit == Init => IInv
BY DEF Init, IInv, LinkRemembered, LeakIsReported

LEMMA InvStep == TypeOK /\ IInv /\ [Next]_vars => IInv'
<1> SUFFICES ASSUME FieldsOK, [Next]_vars, LinkRemembered, LeakIsReported
             PROVE  IInv'
  BY DEF IInv, TypeOK
<1> USE DEF IInv, LinkRemembered, LeakIsReported
<1>1. CASE Elapse
  BY <1>1 DEF Elapse, tunnelVars, lifeVars
<1>2. ASSUME NEW p \in Fsm, NEW eps \in Offers, UpdateQueue(p, eps)
      PROVE  IInv'
  BY <1>2 DEF UpdateQueue, tunnelVars, lifeVars
<1>3. ASSUME NEW p \in Fsm, UpdateStore(p)
      PROVE  IInv'
  BY <1>3 DEF UpdateStore, tunnelVars, lifeVars
<1>4. ASSUME NEW p \in Fsm, NEW ev \in Datagrams \cup Relayed, Receive(p, ev)
      PROVE  IInv'
  BY <1>4 DEF Receive, tunnelVars, lifeVars
<1>5. ASSUME NEW p \in Fsm, Stop(p)
      PROVE  IInv'
  BY <1>5 DEF Stop, tunnelVars
<1>6. ASSUME NEW p \in Fsm, Handle(p)
      PROVE  IInv'
  <2> DEFINE ev == Head(incoming[p])
  <2> HIDE DEF ev
  <2>1. UNCHANGED phase /\ phase[p] = "running"
    BY <1>6 DEF Handle, lifeVars
  <2>2. CASE UNCHANGED tunnelVars
    BY <2>1, <2>2 DEF tunnelVars
  <2>3. CASE HandlePong(p, ev)
    <3>1. CASE /\ link' = [link EXCEPT ![p] = ev.from]
               /\ tunnelUp' = [tunnelUp EXCEPT ![p] = TRUE] /\ UNCHANGED warned
      BY <2>1, <3>1 DEF FieldsOK
    <3>2. CASE /\ link' = [link EXCEPT ![p] = ev.from]
               /\ warned' = [warned EXCEPT ![p] = TRUE] /\ UNCHANGED tunnelUp
      BY <2>1, <3>2 DEF FieldsOK
    <3> QED
      BY <2>2, <2>3, <3>1, <3>2 DEF HandlePong, OnPong, BringUpTunnel, tunnelVars
  <2> QED
    BY <1>6, <2>2, <2>3 DEF Handle, ev, HandleUpdate, HandlePing, HandleCallMeMaybe
<1>7. ASSUME NEW p \in Fsm, TickPunch(p) \/ Keepalive(p)
      PROVE  IInv'
  <2>1. UNCHANGED <<link, tunnelUp, warned, phase>>
    BY <1>7, Zenon DEF TickPunch, Keepalive, tunnelVars, lifeVars
  <2> QED
    BY <2>1
<1>8. ASSUME NEW p \in Fsm, Exit(p)
      PROVE  IInv'
  BY <1>8 DEF Exit, Teardown, FieldsOK
<1>9. CASE UNCHANGED vars
  BY <1>9 DEF vars, tunnelVars, lifeVars
<1> QED
  BY <1>1, <1>2, <1>3, <1>4, <1>5, <1>6, <1>7, <1>8, <1>9
     DEF Next, Run, Environment, OnUDP, OnSignal

LEMMA Invariance == Spec => []IInv
BY InvInit, InvStep, TypeCorrect, PTL DEF Spec

\* A kernel link that outlives the FSM that created it has been logged.
THEOREM LeaksAreReported == Spec => []LeakIsReported
BY Invariance, PTL DEF IInv

=============================================================================
