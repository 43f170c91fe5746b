--------------------------- MODULE RendezvousProofs ---------------------------
(***************************************************************************)
(* Theorems about the two daemons of Rendezvous, for any addresses, any    *)
(* number of faults and any timer lengths and queue capacity that          *)
(* TimingAssumption allows.                                                *)
(***************************************************************************)
EXTENDS Rendezvous, PeerFSMProofs

USE Untyped

-----------------------------------------------------------------------------
(* The two ends of a path: what each holds                                 *)

LEMMA PeerIsOther ==
  /\ \A p \in Fsm : Peer(p) \in Fsm /\ Peer(p) # p /\ Peer(Peer(p)) = p
  /\ \A p, q \in Fsm : q # p => q = Peer(p)
<1> PICK a \in Fsm, b \in Fsm : a # b /\ Fsm = {a, b}
  BY RendezvousAssumption
<1>1. \A p \in Fsm : Peer(p) \in Fsm /\ Peer(p) # p
  <2> SUFFICES ASSUME NEW p \in Fsm
               PROVE  Peer(p) \in Fsm /\ Peer(p) # p
    OBVIOUS
  <2>1. \E q \in Fsm : q # p
    OBVIOUS
  <2> QED
    BY <2>1 DEF Peer
<1> QED
  BY <1>1

\* The variables that Rendezvous adds have their types.
NetOK ==
  /\ inflight \subseteq [type : {"ping", "pong"}, from : Fsm]
  /\ hole \in [Fsm -> 0..HoleLife]
  /\ faults \in 0..MaxFaults /\ together \in Nat
  /\ up \in [Fsm -> BOOLEAN]
  /\ dir \in [Fsm -> {"absent", "known", "posted"}]

\* What a queue holds came from the peer: datagrams from the address at which
\* it is reached, call_me_maybe with its local address.
FromPeer(p, ev) ==
  /\ ev.type \in {"ping", "pong"} => ev.from = Pub[Peer(p)]
  /\ ev.type = "call_me_maybe" => ev.eps = {Loc[Peer(p)]}

FromPeers == \A p \in Fsm : \A i \in 1..Len(incoming[p]) : FromPeer(p, incoming[p][i])

\* An FSM that does not run yet has done nothing.
DownIsIdle ==
  \A p \in Fsm : ~up[p] => state[p] = "unknown" /\ incoming[p] = <<>> /\ ~writing[p].pending

\* A public address, once known, is not forgotten: a snapshot that replaces
\* the endpoints has it too.
Knows(p) == Pub[Peer(p)] \in endpoints[p]

ListKept ==
  \A p \in Fsm : /\ Knows(p) => dir[Peer(p)] = "posted"
                 /\ writing[p].pending => writing[p].eps = Listed(Peer(p))

RdvInv == TypeOK /\ NetOK /\ FromPeers /\ DownIsIdle /\ ListKept /\ LinkReachesPeer

\* The traffic of an end within a unit: datagrams it has sent, and events of a
\* type in its queue.
PingFlies(p)    == [type |-> "ping", from |-> p] \in inflight
PongFlies(p)    == [type |-> "pong", from |-> p] \in inflight
Queued(p, type) == \E i \in 1..Len(incoming[p]) : incoming[p][i].type = type

-----------------------------------------------------------------------------
(* The steps of an FSM in the composition                                  *)

LEMMA ListedType == \A p \in Fsm : Listed(p) \in SUBSET Addr
BY RendezvousAssumption DEF Listed

LEMMA StartType ==
  ASSUME TypeOK, NEW p \in Fsm, StartFsm(p)
  PROVE  TypeOK'
<1>1. Listed(Peer(p)) \in SUBSET Addr
  BY ListedType, PeerIsOther
<1>2. KeepaliveEvery \in 1..KeepaliveEvery
  BY FsmAssumption
<1>3. QueueOK'
  BY DEF StartFsm, TypeOK, QueueOK
<1>4. FieldsOK'
  BY <1>1, <1>2 DEF StartFsm, TypeOK, FieldsOK, tunnelVars, lifeVars
<1> QED
  BY <1>3, <1>4 DEF TypeOK

LEMMA UpdateType ==
  ASSUME TypeOK, NEW p \in Fsm, NEW eps \in SUBSET Addr, UpdateQueue(p, eps)
  PROVE  TypeOK'
<1>1. QueueOK'
  BY OfferType, EventTypes DEF UpdateQueue, TypeOK
<1>2. FieldsOK'
  BY DEF UpdateQueue, TypeOK, FieldsOK, timerVars, tunnelVars, lifeVars
<1> QED
  BY <1>1, <1>2 DEF TypeOK

LEMMA ReceiveType ==
  ASSUME TypeOK, NEW p \in Fsm, NEW ev \in Event, Receive(p, ev)
  PROVE  TypeOK'
<1>1. QueueOK'
  BY OfferType DEF Receive, TypeOK
<1>2. FieldsOK'
  BY DEF Receive, TypeOK, FieldsOK, snapshotVars, timerVars, tunnelVars, lifeVars
<1> QED
  BY <1>1, <1>2 DEF TypeOK

\* A send on incoming: what is queued afterwards.
LEMMA OfferQueued ==
  ASSUME QueueOK, NEW p \in Fsm, NEW ev \in Event, Offer(p, ev)
  PROVE  /\ HasRoom(p) =>
              /\ Len(incoming'[p]) = Len(incoming[p]) + 1
              /\ \A t : Queued(p, t)' <=> Queued(p, t) \/ ev.type = t
         /\ ~HasRoom(p) =>
              /\ Len(incoming'[p]) = Len(incoming[p])
              /\ \A t : Queued(p, t)' <=> Queued(p, t)
         /\ \A q \in Fsm \ {p} :
              Len(incoming'[q]) = Len(incoming[q]) /\ \A t : Queued(q, t)' <=> Queued(q, t)
<1>1. CASE HasRoom(p)
  <2>1. incoming'[p] = Append(incoming[p], ev) /\ incoming[p] \in Seq(Event)
    BY <1>1 DEF Offer, QueueOK
  <2>2. /\ Len(incoming[p]) \in Nat /\ Len(incoming'[p]) = Len(incoming[p]) + 1
        /\ incoming'[p][Len(incoming[p]) + 1] = ev
        /\ \A i \in 1..Len(incoming[p]) : incoming'[p][i] = incoming[p][i]
    BY <2>1
  <2>3. \A i \in 1..(Len(incoming[p]) + 1) : i \in 1..Len(incoming[p]) \/ i = Len(incoming[p]) + 1
    BY <2>2
  <2>4. /\ Len(incoming[p]) + 1 \in 1..(Len(incoming[p]) + 1)
        /\ \A i \in 1..Len(incoming[p]) : i \in 1..(Len(incoming[p]) + 1)
    BY <2>2
  <2>5. ASSUME NEW t PROVE Queued(p, t)' <=> Queued(p, t) \/ ev.type = t
    BY <2>2, <2>3, <2>4, Zenon DEF Queued
  <2>6. \A q \in Fsm \ {p} : incoming'[q] = incoming[q]
    BY DEF Offer, QueueOK
  <2> QED
    BY <1>1, <2>2, <2>5, <2>6, Zenon DEF Queued
<1>2. CASE ~HasRoom(p)
  <2>1. \A q \in Fsm : incoming'[q] = incoming[q]
    BY <1>2 DEF Offer, QueueOK
  <2> QED
    BY <1>2, <2>1, Zenon DEF Queued
<1> QED
  BY <1>1, <1>2

\* A receive from incoming: what was queued before.
LEMMA HandleQueued ==
  ASSUME QueueOK, NEW p \in Fsm, Handle(p)
  PROVE  /\ Head(incoming[p]) \in Event /\ Head(incoming[p]) = incoming[p][1]
         /\ 1 \in 1..Len(incoming[p])
         /\ Len(incoming'[p]) = Len(incoming[p]) - 1
         /\ \A t : Queued(p, t) <=> Queued(p, t)' \/ Head(incoming[p]).type = t
         /\ \A q \in Fsm \ {p} :
              Len(incoming'[q]) = Len(incoming[q]) /\ \A t : Queued(q, t)' <=> Queued(q, t)
<1>1. incoming[p] \in Seq(Event) /\ incoming[p] # <<>> /\ incoming'[p] = Tail(incoming[p])
      /\ \A q \in Fsm \ {p} : incoming'[q] = incoming[q]
  BY DEF Handle, QueueOK
<1>2. /\ Head(incoming[p]) \in Event /\ Head(incoming[p]) = incoming[p][1]
      /\ Len(incoming[p]) \in Nat /\ Len(incoming[p]) > 0
      /\ Len(incoming'[p]) = Len(incoming[p]) - 1
      /\ \A i \in 1..(Len(incoming[p]) - 1) : incoming'[p][i] = incoming[p][i + 1]
  BY <1>1
<1>3. /\ 1 \in 1..Len(incoming[p])
      /\ \A i \in 1..(Len(incoming[p]) - 1) : i + 1 \in 1..Len(incoming[p])
      /\ \A i \in 1..Len(incoming[p]) :
            i = 1 \/ \E j \in 1..(Len(incoming[p]) - 1) : i = j + 1
  <2>1. ASSUME NEW i \in 1..Len(incoming[p]), i # 1
        PROVE  i - 1 \in 1..(Len(incoming[p]) - 1) /\ i = (i - 1) + 1
    BY <1>2, <2>1
  <2>2. /\ 1 \in 1..Len(incoming[p])
        /\ \A i \in 1..(Len(incoming[p]) - 1) : i + 1 \in 1..Len(incoming[p])
    BY <1>2
  <2> QED
    BY <2>1, <2>2, Zenon
<1>4. ASSUME NEW t PROVE Queued(p, t) <=> Queued(p, t)' \/ Head(incoming[p]).type = t
  <2>1. Queued(p, t)' <=> \E j \in 1..(Len(incoming[p]) - 1) : incoming[p][j + 1].type = t
    BY <1>2, Zenon DEF Queued
  <2>2. Queued(p, t) <=> \/ incoming[p][1].type = t
                         \/ \E j \in 1..(Len(incoming[p]) - 1) : incoming[p][j + 1].type = t
    BY <1>3, Zenon DEF Queued
  <2> QED
    BY <1>2, <2>1, <2>2, Zenon
<1> QED
  BY <1>1, <1>2, <1>3, <1>4, Zenon DEF Queued

\* Nothing is on its way between two units.
LEMMA SettledEmpty ==
  ASSUME Settled, DownIsIdle, NEW p \in Fsm
  PROVE  /\ incoming[p] = <<>> /\ Len(incoming[p]) = 0 /\ ~writing[p].pending
         /\ ~PingFlies(p) /\ ~PongFlies(p) /\ \A t : ~Queued(p, t)
         /\ state[p] # "unknown" \/ up[p] => fired[p] = {}
<1>1. incoming[p] = <<>> /\ ~writing[p].pending /\ inflight = {}
  BY Zenon DEF Settled, DownIsIdle
<1>2. state[p] # "unknown" \/ up[p] => fired[p] = {}
  BY Zenon DEF Settled, DownIsIdle
<1>3. Len(incoming[p]) = 0
  BY <1>1
<1>4. ~PingFlies(p) /\ ~PongFlies(p)
  BY <1>1 DEF PingFlies, PongFlies
<1>5. ASSUME NEW t PROVE ~Queued(p, t)
  <2>1. 1..0 = {}
    OBVIOUS
  <2> QED
    BY <1>3, <2>1, Zenon DEF Queued
<1> QED
  BY <1>1, <1>2, <1>3, <1>4, <1>5, Zenon

-----------------------------------------------------------------------------
(* What each end holds, step by step                                       *)

\* What Deliver hands to an FSM.
Datagram(m) == IF m.type = "ping" THEN Ping(Pub[m.from]) ELSE Pong(Pub[m.from])

LEMMA DatagramProperties ==
  ASSUME NEW m \in [type : {"ping", "pong"}, from : Fsm]
  PROVE  /\ Datagram(m) \in Event /\ FromPeer(Peer(m.from), Datagram(m))
         /\ Datagram(m).type = m.type
<1>1. m.from \in Fsm /\ Pub[m.from] \in Addr /\ Peer(Peer(m.from)) = m.from
  BY PeerIsOther, RendezvousAssumption
<1>2. m.type \in {"ping", "pong"}
  OBVIOUS
<1> QED
  BY <1>1, <1>2, EventTypes DEF Datagram, FromPeer, Ping, Pong

LEMMA CallProperties ==
  ASSUME NEW p \in Fsm
  PROVE  /\ CallMeMaybe({Loc[Peer(p)]}) \in Event /\ FromPeer(p, CallMeMaybe({Loc[Peer(p)]}))
         /\ CallMeMaybe({Loc[Peer(p)]}).type = "call_me_maybe"
<1>1. {Loc[Peer(p)]} \in SUBSET Addr
  BY PeerIsOther, RendezvousAssumption
<1>2. CallMeMaybe({Loc[Peer(p)]}) \in Event
  BY <1>1, EventTypes
<1> QED
  BY <1>2 DEF CallMeMaybe, FromPeer

LEMMA OfferFromPeer ==
  ASSUME QueueOK, FromPeers, NEW p \in Fsm, NEW ev \in Event, Offer(p, ev), FromPeer(p, ev)
  PROVE  FromPeers'
<1> SUFFICES ASSUME NEW q \in Fsm, NEW i \in 1..Len(incoming'[q])
             PROVE  FromPeer(q, incoming'[q][i])
  BY DEF FromPeers, FromPeer
<1>1. CASE q = p /\ HasRoom(p)
  <2>1. incoming'[q] = Append(incoming[q], ev) /\ incoming[q] \in Seq(Event)
    BY <1>1 DEF Offer, QueueOK
  <2>2. i \in 1..Len(incoming[q]) \/ incoming'[q][i] = ev
    BY <2>1
  <2>3. i \in 1..Len(incoming[q]) => incoming'[q][i] = incoming[q][i]
    BY <2>1
  <2> QED
    BY <1>1, <2>2, <2>3 DEF FromPeers
<1>2. CASE ~(q = p /\ HasRoom(p))
  <2>1. incoming'[q] = incoming[q]
    BY <1>2 DEF Offer, QueueOK
  <2> QED
    BY <2>1 DEF FromPeers
<1> QED
  BY <1>1, <1>2

LEMMA SendsType ==
  ASSUME NetOK, NEW p \in Fsm, NEW type \in {"ping", "pong"}, NEW addrs,
         Sends(p, type, addrs) \/ UNCHANGED netVars, UNCHANGED <<up, dir>>
  PROVE  NetOK'
BY RendezvousAssumption DEF Sends, netVars, NetOK

\* A handled event leaves the others, and may lead to a link to its sender.
LEMMA HandleFromPeer ==
  ASSUME QueueOK, FieldsOK, FromPeers, LinkReachesPeer, NEW p \in Fsm, Handle(p)
  PROVE  FromPeers' /\ LinkReachesPeer' /\ FromPeer(p, Head(incoming[p]))
<1> DEFINE ev == Head(incoming[p])
<1>1. incoming[p] \in Seq(Event) /\ incoming[p] # <<>> /\ incoming'[p] = Tail(incoming[p])
      /\ \A q \in Fsm : q # p => incoming'[q] = incoming[q]
  BY DEF Handle, QueueOK
<1>2. FromPeers'
  <2> SUFFICES ASSUME NEW q \in Fsm, NEW i \in 1..Len(incoming'[q])
               PROVE  FromPeer(q, incoming'[q][i])
    BY DEF FromPeers, FromPeer
  <2>1. CASE q = p
    <3>1. i \in 1..Len(Tail(incoming[p]))
      BY <1>1, <2>1, Zenon
    <3>2. i + 1 \in 1..Len(incoming[p]) /\ Tail(incoming[p])[i] = incoming[p][i + 1]
      BY <1>1, <3>1
    <3> QED
      BY <1>1, <2>1, <3>2, Zenon DEF FromPeers
  <2>2. CASE q # p
    BY <1>1, <2>2 DEF FromPeers
  <2> QED
    BY <2>1, <2>2
<1>3. FromPeer(p, ev)
  <2>1. ev = incoming[p][1] /\ 1 \in 1..Len(incoming[p])
    BY HandleQueued
  <2> QED
    BY <2>1, Zenon DEF FromPeers
<1> HIDE DEF ev
<1>4. LinkReachesPeer'
  <2>1. CASE UNCHANGED link
    BY <2>1 DEF LinkReachesPeer
  <2>2. CASE HandlePong(p, ev) /\ link' # link
    <3>1. link' = [link EXCEPT ![p] = Pub[Peer(p)]]
      BY <1>3, <2>2 DEF HandlePong, OnPong, BringUpTunnel, tunnelVars, FromPeer
    <3> QED
      BY <3>1 DEF LinkReachesPeer, FieldsOK
  <2> QED
    BY <2>1, <2>2 DEF Handle, ev, HandleUpdate, HandlePing, HandleCallMeMaybe, tunnelVars
<1> QED
  BY <1>2, <1>3, <1>4 DEF ev

\* What a handled event does to the endpoints.
LEMMA HandleEndpoints ==
  ASSUME TypeOK, FromPeers, NEW p \in Fsm, Handle(p)
  PROVE  /\ \A q \in Fsm \ {p} : endpoints'[q] = endpoints[q]
         /\ Knows(p)' <=> Knows(p)
<1> DEFINE ev == Head(incoming[p])
<1>1. ev \in Event /\ FromPeer(p, ev)
  <2>1. ev \in Event /\ ev = incoming[p][1] /\ 1 \in 1..Len(incoming[p])
    BY HandleQueued DEF TypeOK
  <2> QED
    BY <2>1, Zenon DEF FromPeers
<1>2. endpoints \in [Fsm -> SUBSET Addr]
  BY DEF TypeOK, FieldsOK
<1> HIDE DEF ev
<1>3. \/ UNCHANGED endpoints
      \/ ev.type = "call_me_maybe" /\ endpoints' = [endpoints EXCEPT ![p] = @ \cup ev.eps]
  BY DEF Handle, ev, HandleUpdate, HandlePing, HandlePong, HandleCallMeMaybe
<1>4. CASE UNCHANGED endpoints
  BY <1>4 DEF Knows
<1>5. CASE ev.type = "call_me_maybe" /\ endpoints' = [endpoints EXCEPT ![p] = @ \cup ev.eps]
  <2>1. endpoints'[p] = endpoints[p] \cup {Loc[Peer(p)]}
    BY <1>1, <1>2, <1>5 DEF FromPeer
  <2>2. Pub[Peer(p)] # Loc[Peer(p)]
    BY PeerIsOther, TimingAssumption
  <2> QED
    BY <1>2, <1>5, <2>1, <2>2 DEF Knows
<1> QED
  BY <1>3, <1>4, <1>5

LEMMA RdvInvInit == RdvInit => RdvInv
<1> SUFFICES ASSUME RdvInit PROVE RdvInv
  OBVIOUS
<1>1. TypeOK
  BY TypeInit DEF RdvInit
<1>2. NetOK
  BY RendezvousAssumption DEF RdvInit, NetOK
<1>3. FromPeers /\ LinkReachesPeer /\ DownIsIdle
  BY DEF RdvInit, Init, FromPeers, LinkReachesPeer, DownIsIdle, NoWrite
<1>4. ListKept
  BY DEF RdvInit, Init, ListKept, Knows, NoWrite
<1> QED
  BY <1>1, <1>2, <1>3, <1>4 DEF RdvInv

\* A received event disturbs nothing but its queue.
LEMMA ReceiveInv ==
  ASSUME TypeOK, FromPeers, DownIsIdle, ListKept, LinkReachesPeer, UNCHANGED <<up, dir>>,
         NEW p \in Fsm, up[p], NEW ev \in Event, FromPeer(p, ev), Receive(p, ev)
  PROVE  TypeOK' /\ FromPeers' /\ DownIsIdle' /\ ListKept' /\ LinkReachesPeer'
<1>1. TypeOK'
  BY ReceiveType
<1>2. FromPeers'
  BY OfferFromPeer DEF Receive, TypeOK
<1>3. LinkReachesPeer'
  BY DEF Receive, tunnelVars, LinkReachesPeer
<1>4. DownIsIdle'
  <2>1. \A q \in Fsm : q # p => incoming'[q] = incoming[q]
    BY DEF Receive, Offer, TypeOK, QueueOK
  <2> QED
    BY <2>1 DEF Receive, snapshotVars, DownIsIdle
<1>5. ListKept'
  BY DEF Receive, snapshotVars, ListKept, Knows, Listed
<1> QED
  BY <1>1, <1>2, <1>3, <1>4, <1>5

LEMMA RdvInvStep == RdvInv /\ [RdvNext]_rdvVars => RdvInv'
<1> SUFFICES ASSUME TypeOK, NetOK, FromPeers, DownIsIdle, ListKept, LinkReachesPeer,
                    [RdvNext]_rdvVars
             PROVE  RdvInv'
  BY DEF RdvInv
<1> DEFINE EndsInv == TypeOK /\ FromPeers /\ DownIsIdle /\ ListKept /\ LinkReachesPeer
<1>1. ASSUME UNCHANGED vars
      PROVE  TypeOK' /\ FromPeers' /\ LinkReachesPeer'
  <2>1. TypeOK'
    BY <1>1, TypeStep
  <2>2. FromPeers'
    BY <1>1 DEF vars, FromPeers, FromPeer
  <2>3. LinkReachesPeer'
    BY <1>1 DEF vars, tunnelVars, LinkReachesPeer
  <2> QED
    BY <2>1, <2>2, <2>3
<1>2. ASSUME UNCHANGED <<vars, up, dir>>
      PROVE  EndsInv'
  <2>1. DownIsIdle'
    BY <1>2 DEF vars, snapshotVars, DownIsIdle
  <2>2. ListKept'
    BY <1>2 DEF vars, snapshotVars, ListKept, Knows, Listed
  <2> QED
    BY <1>1, <1>2, <2>1, <2>2
<1>3. ASSUME UNCHANGED <<netVars, up, dir>>
      PROVE  NetOK'
  BY <1>3 DEF netVars, NetOK
<1>4. ASSUME NEW p \in Fsm, Register(p) \/ PostEndpoints(p)
      PROVE  RdvInv'
  <2>1. /\ UNCHANGED <<vars, up, netVars>> /\ Settled
        /\ \/ dir[p] = "absent" /\ dir' = [dir EXCEPT ![p] = "known"]
           \/ dir' = [dir EXCEPT ![p] = "posted"]
    BY <1>4 DEF Register, PostEndpoints
  <2>2. NetOK'
    BY <2>1 DEF NetOK, netVars
  <2>3. DownIsIdle'
    BY <2>1 DEF vars, snapshotVars, DownIsIdle
  <2>4. ListKept'
    <3> SUFFICES ASSUME NEW q \in Fsm
                 PROVE  /\ Knows(q) => dir'[Peer(q)] = "posted"
                        /\ ~writing[q].pending
      BY <2>1 DEF ListKept, Knows, vars, snapshotVars
    <3>1. ~writing[q].pending
      BY <2>1, SettledEmpty
    <3>2. Peer(q) \in Fsm /\ dir \in [Fsm -> {"absent", "known", "posted"}]
      BY PeerIsOther DEF NetOK
    <3> QED
      BY <2>1, <3>1, <3>2 DEF ListKept
  <2> QED
    BY <1>1, <2>1, <2>2, <2>3, <2>4 DEF RdvInv
<1>5. ASSUME NEW p \in Fsm, StartFsm(p)
      PROVE  RdvInv'
  <2>1. TypeOK'
    BY <1>5, StartType
  <2>2. NetOK'
    BY <1>5 DEF StartFsm, NetOK, netVars
  <2>3. FromPeers'
    BY <1>5 DEF StartFsm, FromPeers, FromPeer
  <2>4. LinkReachesPeer'
    BY <1>5 DEF StartFsm, tunnelVars, LinkReachesPeer
  <2>5. DownIsIdle'
    BY <1>5 DEF StartFsm, DownIsIdle, NetOK
  <2>6. ListKept'
    <3>1. /\ UNCHANGED <<writing, dir>> /\ endpoints'[p] = Listed(Peer(p))
          /\ \A q \in Fsm : q # p => endpoints'[q] = endpoints[q]
      BY <1>5 DEF StartFsm, TypeOK, FieldsOK
    <3>2. Pub[Peer(p)] \in Listed(Peer(p)) => dir[Peer(p)] = "posted"
      BY DEF Listed
    <3> QED
      BY <3>1, <3>2 DEF ListKept, Knows, Listed
  <2> QED
    BY <2>1, <2>2, <2>3, <2>4, <2>5, <2>6 DEF RdvInv
<1>6. ASSUME NEW p \in Fsm, PollAgain(p)
      PROVE  RdvInv'
  <2>1. /\ UpdateQueue(p, Listed(Peer(p))) /\ UNCHANGED <<netVars, up, dir>> /\ up[p]
        /\ Listed(Peer(p)) \in SUBSET Addr
    BY <1>6, ListedType, PeerIsOther DEF PollAgain
  <2>2. TypeOK' /\ NetOK'
    BY <1>3, <2>1, UpdateType
  <2>3. FromPeer(p, Update)
    BY DEF FromPeer, Update
  <2>4. FromPeers'
    BY <2>1, <2>3, OfferFromPeer, EventTypes DEF UpdateQueue, TypeOK
  <2>5. LinkReachesPeer'
    BY <2>1 DEF UpdateQueue, tunnelVars, LinkReachesPeer
  <2>6. \A q \in Fsm : q # p => incoming'[q] = incoming[q] /\ writing'[q] = writing[q]
    BY <2>1 DEF UpdateQueue, Offer, TypeOK, QueueOK, FieldsOK
  <2>7. DownIsIdle'
    BY <2>1, <2>6 DEF DownIsIdle, UpdateQueue
  <2>8. ListKept'
    <3>1. writing'[p] = writing[p] \/ writing'[p].eps = Listed(Peer(p))
      BY <2>1 DEF UpdateQueue, TypeOK, FieldsOK
    <3>2. UNCHANGED <<endpoints, dir>>
      BY <2>1 DEF UpdateQueue
    <3> QED
      BY <2>6, <3>1, <3>2, Zenon DEF ListKept, Knows, Listed
  <2> QED
    BY <2>2, <2>4, <2>5, <2>7, <2>8 DEF RdvInv
<1>7. ASSUME NEW p \in Fsm, StoreSnapshot(p)
      PROVE  RdvInv'
  <2>1. UpdateStore(p) /\ UNCHANGED <<netVars, up, dir>>
    BY <1>7 DEF StoreSnapshot
  <2>2. TypeOK' /\ NetOK'
    BY <1>3, <2>1, TypeStep DEF Next, Environment
  <2>3. FromPeers'
    BY <2>1 DEF UpdateStore, FromPeers, FromPeer
  <2>4. LinkReachesPeer'
    BY <2>1 DEF UpdateStore, tunnelVars, LinkReachesPeer
  <2>5. /\ writing'[p] = NoWrite /\ endpoints'[p] = writing[p].eps /\ writing[p].pending
        /\ \A q \in Fsm : q # p => writing'[q] = writing[q] /\ endpoints'[q] = endpoints[q]
    BY <2>1 DEF UpdateStore, TypeOK, FieldsOK
  <2>6. DownIsIdle'
    BY <2>1, <2>5 DEF UpdateStore, DownIsIdle
  <2>7. ListKept'
    <3>1. endpoints'[p] = Listed(Peer(p)) /\ ~writing'[p].pending
      BY <2>5 DEF ListKept, NoWrite
    <3>2. Pub[Peer(p)] \in Listed(Peer(p)) => dir[Peer(p)] = "posted"
      BY DEF Listed
    <3> QED
      BY <2>1, <2>5, <3>1, <3>2 DEF ListKept, Knows, Listed
  <2> QED
    BY <2>2, <2>3, <2>4, <2>6, <2>7 DEF RdvInv
<1>8. ASSUME NEW p \in Fsm, PullSignals(p) \/ SendCallMeMaybe(p) \/ LoseSignal(p)
      PROVE  RdvInv'
  <2> DEFINE call == CallMeMaybe({Loc[Peer(p)]})
  <2>1. call \in Event /\ FromPeer(p, call)
    BY CallProperties
  <2>2. ((up[p] /\ Receive(p, call)) \/ UNCHANGED vars) /\ UNCHANGED <<netVars, up, dir>>
    BY <1>8 DEF PullSignals, SendCallMeMaybe, LoseSignal
  <2> HIDE DEF call
  <2> QED
    BY <1>2, <1>3, <2>1, <2>2, ReceiveInv, Zenon DEF RdvInv
<1>9. ASSUME NEW p \in Fsm, RunHandle(p)
      PROVE  RdvInv'
  <2>1. TypeOK'
    BY <1>9, TypeStep DEF RunHandle, Next, Run
  <2>2. FromPeers' /\ LinkReachesPeer'
    BY <1>9, HandleFromPeer DEF RunHandle, TypeOK
  <2>3. NetOK'
    BY <1>9, SendsType DEF RunHandle, Answers
  <2>4. /\ UNCHANGED <<writing, up, dir>> /\ up[p]
        /\ \A q \in Fsm : q # p => incoming'[q] = incoming[q]
    BY <1>9 DEF RunHandle, Handle, TypeOK, QueueOK
  <2>5. \A q \in Fsm : q # p => state'[q] = state[q]
    BY <1>9 DEF RunHandle, Handle, HandleUpdate, HandlePing, HandlePong, HandleCallMeMaybe,
                OnPeerUpdate, OnPong, TypeOK, FieldsOK
  <2>6. DownIsIdle'
    BY <2>4, <2>5 DEF DownIsIdle
  <2>7. ListKept'
    <3>1. Handle(p)
      BY <1>9 DEF RunHandle
    <3>2. \A q \in Fsm : Knows(q)' <=> Knows(q)
      BY <3>1, HandleEndpoints DEF Knows
    <3> QED
      BY <2>4, <3>2 DEF ListKept, Listed
  <2> QED
    BY <2>1, <2>2, <2>3, <2>6, <2>7 DEF RdvInv
<1>10. ASSUME NEW p \in Fsm, RunTickPunch(p) \/ RunKeepalive(p)
       PROVE  RdvInv'
  <2>1. TypeOK'
    BY <1>10, TypeStep DEF RunTickPunch, RunKeepalive, Next, Run
  <2>2. UNCHANGED <<incoming, link, writing, endpoints, up, dir>> /\ up[p]
    BY <1>10 DEF RunTickPunch, RunKeepalive, TickPunch, Keepalive, tunnelVars, snapshotVars
  <2>3. FromPeers'
    BY <2>2 DEF FromPeers, FromPeer
  <2>4. LinkReachesPeer'
    BY <2>2 DEF LinkReachesPeer
  <2>5. NetOK'
    BY <1>10, SendsType DEF RunTickPunch, RunKeepalive
  <2>6. \A q \in Fsm : q # p => state'[q] = state[q]
    BY <1>10 DEF RunTickPunch, RunKeepalive, TickPunch, Keepalive, TypeOK, FieldsOK
  <2>7. DownIsIdle'
    BY <2>2, <2>6 DEF DownIsIdle
  <2>8. ListKept'
    BY <2>2 DEF ListKept, Knows, Listed
  <2> QED
    BY <2>1, <2>3, <2>4, <2>5, <2>7, <2>8 DEF RdvInv
<1>11. ASSUME NEW m \in inflight, Arrive(m) \/ Duplicate(m)
       PROVE  RdvInv'
  <2>1. m \in [type : {"ping", "pong"}, from : Fsm] /\ Peer(m.from) \in Fsm
    BY PeerIsOther DEF NetOK
  <2>2. /\ (up[Peer(m.from)] /\ Receive(Peer(m.from), Datagram(m))) \/ UNCHANGED vars
        /\ UNCHANGED <<up, dir>>
    BY <1>11 DEF Arrive, Duplicate, Deliver, Datagram
  <2>3. NetOK'
    BY <1>11, RendezvousAssumption DEF Arrive, Duplicate, NetOK
  <2> QED
    BY <1>2, <2>1, <2>2, <2>3, ReceiveInv, DatagramProperties, Zenon DEF RdvInv
<1>12. ASSUME NEW m \in inflight, Lose(m)
       PROVE  RdvInv'
  <2>1. NetOK'
    BY <1>12, RendezvousAssumption DEF Lose, NetOK
  <2> QED
    BY <1>2, <1>12, <2>1 DEF Lose, RdvInv
<1>13. CASE RdvElapse
  <2>1. TypeOK'
    BY <1>13, TypeStep DEF RdvElapse, Next
  <2>2. NetOK'
    BY <1>13, RendezvousAssumption DEF RdvElapse, NetOK, RoundsNeeded
  <2>3. FromPeers'
    BY <1>13 DEF RdvElapse, Elapse, FromPeers, FromPeer
  <2>4. LinkReachesPeer'
    BY <1>13 DEF RdvElapse, Elapse, tunnelVars, LinkReachesPeer
  <2>5. DownIsIdle' /\ ListKept'
    BY <1>13, Zenon DEF RdvElapse, Elapse, snapshotVars, DownIsIdle, ListKept, Knows, Listed
  <2> QED
    BY <2>1, <2>2, <2>3, <2>4, <2>5 DEF RdvInv
<1>14. CASE UNCHANGED rdvVars
  BY <1>2, <1>3, <1>14 DEF rdvVars, RdvInv
<1> QED
  BY <1>4, <1>5, <1>6, <1>7, <1>8, <1>9, <1>10, <1>11, <1>12, <1>13, <1>14 DEF RdvNext

LEMMA RdvInvariance == RdvSpec => []RdvInv
BY RdvInvInit, RdvInvStep, PTL DEF RdvSpec

\* A tunnel created by either daemon leads to the public address at which the
\* other is reached: bringUpTunnel takes it from where the pong came, which
\* discoReadLoop passes on as it saw it.
THEOREM LinksReachPeers == RdvSpec => []LinkReachesPeer
BY RdvInvariance, PTL DEF RdvInv

-----------------------------------------------------------------------------
(* Why a path stays: the invariant of one end p and its peer q             *)

\* A ping of p, or the answer to it, is on its way.
Asked(p, q) == PingFlies(p) \/ Queued(q, "ping") \/ PongFlies(q) \/ Queued(p, "pong")

\* Who has opened its NAT or is direct has begun, and knows where to send to;
\* a direct end has a peer that has too.
Started(p, q) ==
  /\ hole[p] > 0 \/ together > 0 => state[p] # "unknown" /\ Knows(p)
  /\ state[p] = "direct" => /\ Knows(p) /\ winning[p] = Pub[Peer(p)]
                            /\ state[q] # "unknown" /\ Knows(q)

\* A ping and its answer travel within a unit, in which the NATs that they
\* opened stay open.
SameUnit(p, q) ==
  /\ Asked(p, q) => hole[p] = HoleLife
  /\ PongFlies(q) \/ Queued(p, "pong") => hole[q] = HoleLife
  /\ Queued(p, "ping") => hole[p] > 0

\* Only an end that is punching or direct has asked, and not with a tick or
\* keepalive of this unit that it has still to handle.
OneRound(p, q) ==
  Asked(p, q) => \/ state[p] = "punching" /\ "tick" \notin fired[p]
                 \/ state[p] = "direct" /\ ~("tick" \in fired[p] /\ "ka" \in fired[p])

\* The peer of a direct end has had its NAT open since the last pong.
AnswerRecent(p, q) ==
  state[p] = "direct" /\ pongAge[p] <= PongMiss => hole[q] + pongAge[p] >= HoleLife

\* The keepalives of a direct end keep its own NAT open.
KeptOpen(p) ==
  state[p] = "direct" =>
    hole[p] + KeepaliveEvery >= HoleLife + (IF "ka" \in fired[p] THEN 0 ELSE kaLeft[p])

\* So do the pings of an end that is punching, once the peer is direct or both
\* have begun.
PunchOpen(p, q) ==
  Tolerated /\ state[p] = "punching" /\ state[q] # "relay" =>
    /\ state[q] = "direct" => hole[p] + 1 >= HoleLife
    /\ (state[q] = "direct" \/ together > 0) /\ "tick" \notin fired[p] => hole[p] = HoleLife

\* A direct end whose peer is in reach hears from it at every keepalive that
\* no fault has cost.
Allowance(f) == (f + 1) * KeepaliveEvery
InReach(q)   == Tolerated /\ (faults = 0 \/ state[q] # "relay")
Due(p, q)    == "ka" \in fired[p] \/ Asked(p, q)

PongsCome(p, q) ==
  state[p] = "direct" /\ InReach(q) =>
    pongAge[p] + (IF Due(p, q) THEN 0 ELSE kaLeft[p]) <= Allowance(faults)

PathInv(p, q) ==
  /\ Started(p, q) /\ SameUnit(p, q) /\ OneRound(p, q) /\ AnswerRecent(p, q)
  /\ KeptOpen(p) /\ PunchOpen(p, q) /\ PongsCome(p, q)

\* Units of a common attempt: without a fault the second is the last, and each
\* fault costs at most one.
WillAsk(p, q) ==
  \/ state[p] = "direct" \/ Asked(p, q)
  \/ state[p] = "punching" /\ "tick" \in fired[p] /\ punchLeft[p] > 0

RoundsCount(p, q) ==
  Tolerated =>
    \/ together <= faults + 1
    \/ together = faults + 2 /\ WillAsk(p, q) /\ WillAsk(q, p) /\ hole[p] > 0 /\ hole[q] > 0
    \/ state[p] = "direct" /\ state[q] = "direct"

\* Both ends, and the types their invariants need.
EndOK(p) ==
  /\ state[p] \in States /\ fired[p] \in SUBSET {"tick", "ka"}
  /\ kaLeft[p] \in 1..KeepaliveEvery /\ pongAge[p] \in 0..PongStale
  /\ punchLeft[p] \in Nat /\ hole[p] \in 0..HoleLife

Ends(p, q) ==
  /\ EndOK(p) /\ EndOK(q) /\ faults \in Nat /\ together \in Nat
  /\ PathInv(p, q) /\ PathInv(q, p) /\ RoundsCount(p, q)

EndsStay(p, q) == PathInv(p, q)' /\ PathInv(q, p)' /\ RoundsCount(p, q)'

LEMMA Bounds ==
  /\ KeepaliveEvery \in Nat /\ KeepaliveEvery > 0 /\ HoleLife \in Nat /\ PongMiss \in Nat
  /\ KeepaliveEvery < HoleLife /\ KeepaliveEvery <= PongMiss /\ PongStale = PongMiss + 1
BY FsmAssumption, RendezvousAssumption, TimingAssumption DEF PongStale

LEMMA AllowanceFacts ==
  /\ Allowance(0) = KeepaliveEvery
  /\ \A f \in Nat : /\ Allowance(f) \in Nat /\ Allowance(f) >= KeepaliveEvery
                    /\ Allowance(f + 1) = Allowance(f) + KeepaliveEvery
<1>1. Allowance(0) = KeepaliveEvery
  BY Bounds DEF Allowance
<1>2. ASSUME NEW f \in Nat
      PROVE  /\ Allowance(f) \in Nat /\ Allowance(f) >= KeepaliveEvery
             /\ Allowance(f + 1) = Allowance(f) + KeepaliveEvery
  <2>1. f * KeepaliveEvery \in Nat
    BY Bounds
  <2>2. /\ (f + 1) * KeepaliveEvery = f * KeepaliveEvery + KeepaliveEvery
        /\ (f + 2) * KeepaliveEvery = f * KeepaliveEvery + 2 * KeepaliveEvery
        /\ (f + 1) + 1 = f + 2
    BY Bounds
  <2> QED
    BY <2>1, <2>2, Bounds DEF Allowance
<1> QED
  BY <1>1, <1>2

LEMMA ToleratedFacts ==
  ASSUME faults \in Nat, faults' = faults \/ faults' = faults + 1
  PROVE  /\ Tolerated <=> Allowance(faults) <= PongMiss
         /\ Tolerated' <=> Allowance(faults') <= PongMiss
         /\ Tolerated' => Tolerated
<1>1. /\ Tolerated <=> Allowance(faults) <= PongMiss
      /\ Tolerated' <=> Allowance(faults') <= PongMiss
  BY DEF Tolerated, Allowance
<1>2. Allowance(faults') \in Nat /\ Allowance(faults') >= Allowance(faults)
  BY AllowanceFacts, Bounds
<1> QED
  BY <1>1, <1>2, AllowanceFacts, Bounds

-----------------------------------------------------------------------------
(* The kinds of step, and what they leave of the invariant                 *)

SameTraffic(p) ==
  /\ PingFlies(p)' <=> PingFlies(p)
  /\ PongFlies(p)' <=> PongFlies(p)
  /\ Queued(p, "ping")' <=> Queued(p, "ping")
  /\ Queued(p, "pong")' <=> Queued(p, "pong")

SameTimers(p) ==
  /\ pongAge'[p] = pongAge[p] /\ punchLeft'[p] = punchLeft[p] /\ kaLeft'[p] = kaLeft[p]
  /\ winning'[p] = winning[p]

SameEnd(p) ==
  /\ state'[p] = state[p] /\ fired'[p] = fired[p] /\ SameTimers(p) /\ hole'[p] = hole[p]
  /\ Knows(p) => Knows(p)'

\* A step that an end does not notice, or that starts it.
Calm(p) ==
  /\ state'[p] = state[p] /\ hole'[p] = hole[p]
  /\ state[p] # "unknown" => SameEnd(p)

LEMMA CalmStep ==
  ASSUME NEW p \in Fsm, NEW q \in Fsm, Ends(p, q), Calm(p), Calm(q),
         SameTraffic(p), SameTraffic(q), UNCHANGED <<faults, together>>
  PROVE  EndsStay(p, q)
<1>1. ASSUME NEW x \in Fsm, NEW y \in Fsm, EndOK(x), EndOK(y), PathInv(x, y),
             Calm(x), Calm(y), SameTraffic(x), SameTraffic(y)
      PROVE  PathInv(x, y)' /\ (Asked(x, y)' <=> Asked(x, y))
  <2>1. Asked(x, y)' <=> Asked(x, y)
    BY <1>1, Zenon DEF Asked, SameTraffic
  <2>2. Started(x, y)'
    BY <1>1 DEF PathInv, Started, Calm, SameEnd, SameTimers
  <2>3. SameUnit(x, y)'
    BY <1>1, <2>1 DEF PathInv, SameUnit, Calm, SameTraffic
  <2>4. OneRound(x, y)'
    BY <1>1, <2>1 DEF PathInv, OneRound, Calm, SameEnd
  <2>5. AnswerRecent(x, y)' /\ KeptOpen(x)'
    BY <1>1 DEF PathInv, AnswerRecent, KeptOpen, Calm, SameEnd, SameTimers
  <2>6. PunchOpen(x, y)'
    BY <1>1 DEF PathInv, PunchOpen, Calm, SameEnd, Tolerated
  <2>7. PongsCome(x, y)'
    BY <1>1, <2>1 DEF PathInv, PongsCome, InReach, Due, Calm, SameEnd, SameTimers, Tolerated
  <2> QED
    BY <2>1, <2>2, <2>3, <2>4, <2>5, <2>6, <2>7, Zenon DEF PathInv
<1>2. PathInv(p, q)' /\ PathInv(q, p)' /\ (Asked(p, q)' <=> Asked(p, q)) /\ (Asked(q, p)' <=> Asked(q, p))
  BY <1>1, Zenon DEF Ends
<1>3. RoundsCount(p, q)'
  BY <1>2 DEF Ends, RoundsCount, WillAsk, Calm, SameEnd, SameTimers, Tolerated
<1> QED
  BY <1>2, <1>3 DEF EndsStay

\* onPeerUpdate starts an attempt.
LEMMA BeginStep ==
  ASSUME NEW p \in Fsm, NEW q \in Fsm, p # q, Ends(p, q),
         state[p] = "unknown", state'[p] = "punching", fired'[p] = fired[p],
         hole'[p] = hole[p], SameEnd(q),
         SameTraffic(p), SameTraffic(q), UNCHANGED <<faults, together>>
  PROVE  EndsStay(p, q)
<1>1. (Asked(p, q)' <=> Asked(p, q)) /\ (Asked(q, p)' <=> Asked(q, p))
  BY Zenon DEF Asked, SameTraffic
<1>2. /\ together = 0 /\ hole[p] = 0 /\ ~Asked(p, q) /\ state[q] # "direct"
      /\ hole[p] \in Nat /\ faults \in Nat
  <2>1. hole[p] \in Nat /\ faults \in Nat /\ together \in Nat
    BY Bounds DEF Ends, EndOK
  <2>2. ~(hole[p] > 0) /\ ~(together > 0)
    BY DEF Ends, PathInv, Started
  <2>3. ~Asked(p, q)
    BY DEF Ends, PathInv, OneRound
  <2>4. state[q] # "direct"
    BY DEF Ends, PathInv, Started
  <2> QED
    BY <2>1, <2>2, <2>3, <2>4
<1>3. Started(p, q)' /\ SameUnit(p, q)' /\ OneRound(p, q)'
  BY <1>1, <1>2, Bounds DEF Ends, PathInv, Started, SameUnit, OneRound, SameTraffic, SameEnd
<1>4. AnswerRecent(p, q)' /\ KeptOpen(p)' /\ PongsCome(p, q)'
  BY DEF AnswerRecent, KeptOpen, PongsCome
<1>5. PunchOpen(p, q)'
  BY <1>2 DEF PunchOpen, SameEnd
<1>6. Started(q, p)' /\ SameUnit(q, p)' /\ OneRound(q, p)'
  BY <1>1, <1>2 DEF Ends, PathInv, Started, SameUnit, OneRound, SameTraffic, SameEnd
<1>7. AnswerRecent(q, p)' /\ KeptOpen(q)' /\ PongsCome(q, p)'
  BY <1>2 DEF AnswerRecent, KeptOpen, PongsCome, SameEnd
<1>8. PunchOpen(q, p)'
  BY <1>2 DEF PunchOpen, SameEnd
<1>9. RoundsCount(p, q)'
  BY <1>2 DEF RoundsCount
<1> QED
  BY <1>3, <1>4, <1>5, <1>6, <1>7, <1>8, <1>9, Zenon DEF EndsStay, PathInv

\* A ping is answered.
LEMMA AnswerStep ==
  ASSUME NEW p \in Fsm, NEW q \in Fsm, p # q, Ends(p, q),
         Queued(p, "ping"), PongFlies(p)', hole'[p] = HoleLife,
         state'[p] = state[p], fired'[p] = fired[p], SameTimers(p), Knows(p) => Knows(p)',
         PingFlies(p)' <=> PingFlies(p), Queued(p, "pong")' <=> Queued(p, "pong"),
         SameEnd(q), SameTraffic(q), UNCHANGED <<faults, together>>
  PROVE  EndsStay(p, q)
<1>1. (Asked(p, q)' <=> Asked(p, q)) /\ Asked(q, p) /\ Asked(q, p)'
  BY Zenon DEF Asked, SameTraffic
<1>2. hole[p] > 0 /\ hole[p] <= HoleLife /\ hole[p] \in Nat
  BY Bounds DEF Ends, EndOK, PathInv, SameUnit
<1>3. Started(p, q)' /\ SameUnit(p, q)' /\ OneRound(p, q)'
  BY <1>1, <1>2, Bounds DEF Ends, PathInv, Started, SameUnit, OneRound, SameTraffic, SameEnd, SameTimers
<1>4. AnswerRecent(p, q)' /\ KeptOpen(p)'
  BY <1>2, Bounds DEF Ends, EndOK, PathInv, AnswerRecent, KeptOpen, SameTimers, SameEnd
<1>5. PunchOpen(p, q)'
  BY <1>2, Bounds DEF PunchOpen
<1>6. PongsCome(p, q)'
  BY <1>1 DEF Ends, PathInv, PongsCome, InReach, Due, SameTimers, SameEnd, Tolerated
<1>7. Started(q, p)' /\ SameUnit(q, p)' /\ OneRound(q, p)'
  BY <1>1, <1>2 DEF Ends, PathInv, Started, SameUnit, OneRound, SameTraffic, SameEnd, SameTimers
<1>8. AnswerRecent(q, p)' /\ KeptOpen(q)'
  BY <1>2, Bounds DEF Ends, EndOK, PathInv, AnswerRecent, KeptOpen, SameTimers, SameEnd
<1>9. PunchOpen(q, p)'
  BY <1>2 DEF Ends, PathInv, PunchOpen, SameEnd, Tolerated
<1>10. PongsCome(q, p)'
  BY <1>1 DEF Ends, PathInv, PongsCome, InReach, Due, SameTimers, SameEnd, Tolerated
<1>11. RoundsCount(p, q)'
  BY <1>1, <1>2, Bounds DEF Ends, RoundsCount, WillAsk, SameTimers, SameEnd, Tolerated
<1> QED
  BY <1>3, <1>4, <1>5, <1>6, <1>7, <1>8, <1>9, <1>10, <1>11, Zenon DEF EndsStay, PathInv

\* A pong is handled.
LEMMA PongStep ==
  ASSUME NEW p \in Fsm, NEW q \in Fsm, p # q, Ends(p, q),
         Queued(p, "pong"), state'[p] = "direct", pongAge'[p] = 0,
         state[p] # "direct" => winning'[p] = Pub[Peer(p)],
         state[p] = "direct" => winning'[p] = winning[p],
         fired'[p] = fired[p], kaLeft'[p] = kaLeft[p], hole'[p] = hole[p], Knows(p) => Knows(p)',
         PingFlies(p)' <=> PingFlies(p), PongFlies(p)' <=> PongFlies(p),
         Queued(p, "ping")' <=> Queued(p, "ping"),
         SameEnd(q), SameTraffic(q), UNCHANGED <<faults, together>>
  PROVE  EndsStay(p, q)
<1>1. Asked(p, q) /\ (Asked(q, p)' <=> Asked(q, p))
  BY Zenon DEF Asked, SameTraffic
<1>2. /\ hole[p] = HoleLife /\ hole[q] = HoleLife /\ HoleLife > 0
      /\ Knows(p) /\ Knows(q) /\ state[q] # "unknown" /\ state[p] \in {"punching", "direct"}
      /\ ~("tick" \in fired[p] /\ "ka" \in fired[p])
  BY <1>1, Bounds DEF Ends, PathInv, Started, SameUnit, OneRound
<1>3. Started(p, q)' /\ SameUnit(p, q)' /\ OneRound(p, q)'
  BY <1>1, <1>2 DEF Ends, PathInv, Started, SameUnit, OneRound, SameTraffic, SameEnd
<1>4. AnswerRecent(p, q)' /\ KeptOpen(p)'
  BY <1>2, Bounds DEF Ends, EndOK, AnswerRecent, KeptOpen, SameEnd
<1>5. PunchOpen(p, q)'
  BY DEF PunchOpen
<1>6. PongsCome(p, q)'
  BY Bounds, AllowanceFacts DEF Ends, EndOK, PongsCome
<1>7. Started(q, p)' /\ SameUnit(q, p)' /\ OneRound(q, p)'
  BY <1>1, <1>2 DEF Ends, PathInv, Started, SameUnit, OneRound, SameTraffic, SameEnd, SameTimers
<1>8. AnswerRecent(q, p)' /\ KeptOpen(q)'
  BY <1>2 DEF Ends, EndOK, PathInv, AnswerRecent, KeptOpen, SameTimers, SameEnd
<1>9. PunchOpen(q, p)'
  BY <1>2, Bounds DEF PunchOpen, SameEnd
<1>10. PongsCome(q, p)'
  BY <1>1, <1>2 DEF Ends, PathInv, PongsCome, InReach, Due, SameTimers, SameEnd, Tolerated
<1>11. RoundsCount(p, q)'
  BY <1>1, <1>2 DEF Ends, RoundsCount, WillAsk, SameTimers, SameEnd, Tolerated
<1> QED
  BY <1>3, <1>4, <1>5, <1>6, <1>7, <1>8, <1>9, <1>10, <1>11, Zenon DEF EndsStay, PathInv

\* A tick or a keepalive that finds nothing to do.
LEMMA IdleStep ==
  ASSUME NEW p \in Fsm, NEW q \in Fsm, p # q, Ends(p, q),
         NEW t \in {"tick", "ka"}, fired'[p] = fired[p] \ {t},
         t = "tick" => state[p] # "punching" \/ ~Knows(p),
         t = "ka" => state[p] # "direct",
         state'[p] = state[p], SameTimers(p), hole'[p] = hole[p], Knows(p) => Knows(p)',
         SameTraffic(p), SameEnd(q), SameTraffic(q), UNCHANGED <<faults, together>>
  PROVE  EndsStay(p, q)
<1>1. (Asked(p, q)' <=> Asked(p, q)) /\ (Asked(q, p)' <=> Asked(q, p))
  BY Zenon DEF Asked, SameTraffic
<1>2. /\ "tick" \notin fired[p] => "tick" \notin fired'[p]
      /\ "ka" \notin fired[p] => "ka" \notin fired'[p]
      /\ state[p] = "direct" => ("ka" \in fired'[p] <=> "ka" \in fired[p])
      /\ state[p] = "punching" /\ Knows(p) => fired'[p] = fired[p] \ {"ka"}
  OBVIOUS
<1>3. state[q] = "direct" \/ together > 0 => Knows(p)
  BY DEF Ends, PathInv, Started
<1>4. "tick" \in fired'[p] <=> "tick" \in fired[p] /\ t # "tick"
  OBVIOUS
<1>5. Started(p, q)' /\ SameUnit(p, q)' /\ OneRound(p, q)'
  BY <1>1, <1>2 DEF Ends, PathInv, Started, SameUnit, OneRound, SameTraffic, SameEnd, SameTimers
<1>6. AnswerRecent(p, q)' /\ KeptOpen(p)'
  BY <1>2, Bounds DEF Ends, EndOK, PathInv, AnswerRecent, KeptOpen, SameTimers, SameEnd
<1>11. PunchOpen(p, q)'
  BY <1>3, <1>4 DEF Ends, PathInv, PunchOpen, SameEnd, Tolerated
<1>12. PongsCome(p, q)'
  BY <1>1, <1>2 DEF Ends, PathInv, PongsCome, InReach, Due, SameTimers, SameEnd, Tolerated
<1>7. Started(q, p)' /\ SameUnit(q, p)' /\ OneRound(q, p)'
  BY <1>1, <1>2 DEF Ends, PathInv, Started, SameUnit, OneRound, SameTraffic, SameEnd, SameTimers
<1>8. AnswerRecent(q, p)' /\ KeptOpen(q)'
  BY <1>2, Bounds DEF Ends, EndOK, PathInv, AnswerRecent, KeptOpen, SameTimers, SameEnd
<1>9. PunchOpen(q, p)'
  BY <1>2 DEF Ends, PathInv, PunchOpen, SameEnd, Tolerated
<1>10. PongsCome(q, p)'
  BY <1>1, <1>2 DEF Ends, PathInv, PongsCome, InReach, Due, SameTimers, SameEnd, Tolerated
<1>13. RoundsCount(p, q)'
  <2>1. together > 0 /\ WillAsk(p, q) => WillAsk(p, q)'
    BY <1>1, <1>3, <1>4 DEF WillAsk, SameTimers
  <2>2. WillAsk(q, p)' <=> WillAsk(q, p)
    BY <1>1 DEF WillAsk, SameTimers, SameEnd
  <2> QED
    BY <2>1, <2>2 DEF Ends, RoundsCount, SameEnd, Tolerated
<1> QED
  BY <1>5, <1>6, <1>7, <1>8, <1>9, <1>10, <1>11, <1>12, <1>13, Zenon DEF EndsStay, PathInv

\* An attempt times out.
LEMMA RelayStep ==
  ASSUME NEW p \in Fsm, NEW q \in Fsm, p # q, Ends(p, q),
         "tick" \in fired[p], fired'[p] = fired[p] \ {"tick"},
         state[p] = "punching", punchLeft[p] = 0, state'[p] = "relay",
         SameTimers(p), hole'[p] = hole[p], Knows(p) => Knows(p)',
         SameTraffic(p), SameEnd(q), SameTraffic(q), UNCHANGED <<faults, together>>
  PROVE  EndsStay(p, q)
<1>1. (Asked(p, q)' <=> Asked(p, q)) /\ (Asked(q, p)' <=> Asked(q, p))
  BY Zenon DEF Asked, SameTraffic
<1>2. ~Asked(p, q)
  BY DEF Ends, PathInv, OneRound
<1>3. Started(p, q)' /\ SameUnit(p, q)' /\ OneRound(p, q)'
  BY <1>1, <1>2 DEF Ends, PathInv, Started, SameUnit, OneRound, SameTraffic, SameEnd, SameTimers
<1>4. AnswerRecent(p, q)' /\ KeptOpen(p)' /\ PunchOpen(p, q)' /\ PongsCome(p, q)'
  BY DEF AnswerRecent, KeptOpen, PunchOpen, PongsCome
<1>7. Started(q, p)' /\ SameUnit(q, p)' /\ OneRound(q, p)'
  BY <1>1, <1>2 DEF Ends, PathInv, Started, SameUnit, OneRound, SameTraffic, SameEnd, SameTimers
<1>8. AnswerRecent(q, p)' /\ KeptOpen(q)'
  BY <1>2, Bounds DEF Ends, EndOK, PathInv, AnswerRecent, KeptOpen, SameTimers, SameEnd
<1>9. PunchOpen(q, p)'
  BY <1>2 DEF Ends, PathInv, PunchOpen, SameEnd, Tolerated
<1>10. PongsCome(q, p)'
  BY <1>1, <1>2 DEF Ends, PathInv, PongsCome, InReach, Due, SameTimers, SameEnd, Tolerated
<1>11. RoundsCount(p, q)'
  BY <1>2 DEF Ends, RoundsCount, WillAsk, SameEnd, Tolerated
<1> QED
  BY <1>3, <1>4, <1>7, <1>8, <1>9, <1>10, <1>11, Zenon DEF EndsStay, PathInv

\* A ping is sent by an end that punches, or by a direct one as its keepalive.
LEMMA PingStep ==
  ASSUME NEW p \in Fsm, NEW q \in Fsm, p # q, Ends(p, q),
         NEW t \in {"tick", "ka"}, t \in fired[p], fired'[p] = fired[p] \ {t},
         t = "tick" => state[p] = "punching",
         t = "ka" => state[p] = "direct",
         Knows(p), Knows(p)', PingFlies(p)', hole'[p] = HoleLife,
         state'[p] = state[p], SameTimers(p),
         PongFlies(p)' <=> PongFlies(p), Queued(p, "ping")' <=> Queued(p, "ping"),
         Queued(p, "pong")' <=> Queued(p, "pong"),
         SameEnd(q), SameTraffic(q), UNCHANGED <<faults, together>>
  PROVE  EndsStay(p, q)
<1>1. Asked(p, q)' /\ (Asked(q, p)' <=> Asked(q, p))
  BY Zenon DEF Asked, SameTraffic
<1>2. hole[p] <= HoleLife /\ hole[p] \in Nat /\ HoleLife > 0
  BY Bounds DEF Ends, EndOK
<1>3. /\ state[p] = "punching" => "tick" \notin fired'[p]
      /\ state[p] = "direct" => "ka" \notin fired'[p] /\ "ka" \in fired[p]
      /\ state[p] \in {"punching", "direct"}
  OBVIOUS
<1>4. Started(p, q)' /\ SameUnit(p, q)' /\ OneRound(p, q)'
  BY <1>1, <1>2, <1>3 DEF Ends, PathInv, Started, SameUnit, OneRound, SameTraffic, SameEnd, SameTimers
<1>5. AnswerRecent(p, q)' /\ KeptOpen(p)'
  BY <1>2, <1>3, Bounds DEF Ends, EndOK, PathInv, AnswerRecent, KeptOpen, SameTimers, SameEnd
<1>6. PunchOpen(p, q)'
  BY <1>2, Bounds DEF PunchOpen
<1>11. PongsCome(p, q)'
  BY <1>1, <1>3 DEF Ends, PathInv, PongsCome, InReach, Due, SameTimers, SameEnd, Tolerated
<1>7. Started(q, p)' /\ SameUnit(q, p)' /\ OneRound(q, p)'
  BY <1>1, <1>2 DEF Ends, PathInv, Started, SameUnit, OneRound, SameTraffic, SameEnd, SameTimers
<1>8. AnswerRecent(q, p)' /\ KeptOpen(q)'
  BY <1>2, Bounds DEF Ends, EndOK, PathInv, AnswerRecent, KeptOpen, SameTimers, SameEnd
<1>9. PunchOpen(q, p)'
  BY <1>2 DEF Ends, PathInv, PunchOpen, SameEnd, Tolerated
<1>10. PongsCome(q, p)'
  BY <1>1, <1>2, Zenon DEF Ends, PathInv, PongsCome, InReach, Due, SameTimers, SameEnd, Tolerated
<1>12. RoundsCount(p, q)'
  BY <1>1, <1>2 DEF Ends, RoundsCount, WillAsk, SameTimers, SameEnd, Tolerated
<1> QED
  BY <1>4, <1>5, <1>6, <1>7, <1>8, <1>9, <1>10, <1>11, <1>12, Zenon DEF EndsStay, PathInv

\* A direct end that has heard nothing for too long has no peer in reach.
LEMMA MissedPong ==
  ASSUME NEW p \in Fsm, NEW q \in Fsm, Ends(p, q), state[p] = "direct", "ka" \in fired[p],
         pongAge[p] > PongMiss
  PROVE  ~InReach(q)
<1>1. Tolerated <=> Allowance(faults) <= PongMiss
  BY DEF Tolerated, Allowance
<1> QED
  BY <1>1, Bounds, AllowanceFacts DEF Ends, EndOK, PathInv, PongsCome, InReach, Due

LEMMA LostStep ==
  ASSUME NEW p \in Fsm, NEW q \in Fsm, p # q, Ends(p, q),
         "ka" \in fired[p], fired'[p] = fired[p] \ {"ka"},
         state[p] = "direct", pongAge[p] > PongMiss, state'[p] = "punching",
         SameTimers(p), hole'[p] = hole[p], Knows(p) => Knows(p)',
         SameTraffic(p), SameEnd(q), SameTraffic(q), UNCHANGED <<faults, together>>
  PROVE  EndsStay(p, q)
<1>1. (Asked(p, q)' <=> Asked(p, q)) /\ (Asked(q, p)' <=> Asked(q, p))
  BY Zenon DEF Asked, SameTraffic
<1>2. ~InReach(q)
  BY MissedPong
<1>3. Tolerated => state[q] = "relay" /\ ~Asked(q, p)
  BY <1>2 DEF InReach, Ends, PathInv, OneRound
<1>4. Started(p, q)' /\ SameUnit(p, q)' /\ OneRound(p, q)'
  BY <1>1, Zenon DEF Ends, PathInv, Started, SameUnit, OneRound, SameTraffic, SameEnd, SameTimers
<1>5. AnswerRecent(p, q)' /\ KeptOpen(p)' /\ PongsCome(p, q)'
  BY DEF AnswerRecent, KeptOpen, PongsCome
<1>6. PunchOpen(p, q)'
  BY <1>3 DEF PunchOpen, Tolerated, SameEnd
<1>7. Started(q, p)' /\ SameUnit(q, p)' /\ OneRound(q, p)'
  BY <1>1, <1>2, Zenon DEF Ends, PathInv, Started, SameUnit, OneRound, SameTraffic, SameEnd, SameTimers
<1>8. AnswerRecent(q, p)' /\ KeptOpen(q)'
  BY <1>2, Bounds, Zenon DEF Ends, EndOK, PathInv, AnswerRecent, KeptOpen, SameTimers, SameEnd
<1>9. PunchOpen(q, p)'
  BY <1>2 DEF Ends, PathInv, PunchOpen, SameEnd, Tolerated
<1>10. PongsCome(q, p)'
  BY <1>1, <1>2, Zenon DEF Ends, PathInv, PongsCome, InReach, Due, SameTimers, SameEnd, Tolerated
<1>11. RoundsCount(p, q)'
  BY <1>3, Zenon DEF Ends, RoundsCount, WillAsk, Tolerated
<1> QED
  BY <1>4, <1>5, <1>6, <1>7, <1>8, <1>9, <1>10, <1>11, Zenon DEF EndsStay, PathInv

\* A ping to a peer in reach finds its NAT open.
LEMMA PeerReached ==
  ASSUME NEW p \in Fsm, NEW q \in Fsm, Ends(p, q), state[p] = "direct", InReach(q)
  PROVE  hole[q] > 0
<1>1. Tolerated /\ Allowance(faults) <= PongMiss
  BY DEF InReach, Tolerated, Allowance
<1>2. state[q] \in {"punching", "direct", "relay"} /\ hole[q] \in Nat
  BY Bounds DEF Ends, EndOK, PathInv, Started, States
<1>3. CASE state[q] = "relay"
  <2>1. faults = 0 /\ kaLeft[p] \in Nat /\ pongAge[p] \in Nat
    BY <1>3, Bounds DEF InReach, Ends, EndOK
  <2>2. pongAge[p] <= KeepaliveEvery
    BY <2>1, Bounds, AllowanceFacts DEF Ends, PathInv, PongsCome
  <2>3. hole[q] + pongAge[p] >= HoleLife
    BY <2>1, <2>2, Bounds DEF Ends, PathInv, AnswerRecent
  <2> QED
    BY <1>2, <2>1, <2>2, <2>3, Bounds
<1>4. CASE state[q] = "punching"
  <2>1. hole[q] + 1 >= HoleLife
    BY <1>1, <1>4 DEF Ends, PathInv, PunchOpen
  <2> QED
    BY <1>2, <2>1, Bounds
<1>5. CASE state[q] = "direct"
  <2>1. hole[q] + KeepaliveEvery >= HoleLife
    BY <1>2, <1>5, Bounds DEF Ends, EndOK, PathInv, KeptOpen
  <2> QED
    BY <1>2, <2>1, Bounds
<1> QED
  BY <1>2, <1>3, <1>4, <1>5

\* A datagram of p's exchange moves on, is duplicated or is lost; what is sent
\* the other way stays as it is.
LEMMA TrafficStep ==
  ASSUME NEW p \in Fsm, NEW q \in Fsm, p # q, Ends(p, q), SameEnd(p), SameEnd(q),
         together' = together, faults' = faults \/ faults' = faults + 1,
         Asked(p, q), Asked(q, p)' <=> Asked(q, p),
         Queued(p, "ping")' <=> Queued(p, "ping"),
         Queued(q, "ping")' => Queued(q, "ping") \/ hole[q] > 0,
         PongFlies(q)' \/ Queued(p, "pong")' => PongFlies(q) \/ Queued(p, "pong"),
         PongFlies(p)' \/ Queued(q, "pong")' => PongFlies(p) \/ Queued(q, "pong"),
         faults' = faults /\ ~Asked(p, q)' => hole[q] = 0
  PROVE  EndsStay(p, q)
<1>1. /\ Tolerated <=> Allowance(faults) <= PongMiss
      /\ Tolerated' <=> Allowance(faults') <= PongMiss
      /\ Tolerated' => Tolerated
  BY ToleratedFacts DEF Ends
<1>2. /\ faults \in Nat /\ Allowance(faults) \in Nat /\ Allowance(faults') \in Nat
      /\ Allowance(faults') >= Allowance(faults)
      /\ faults' = faults + 1 => Allowance(faults') = Allowance(faults) + KeepaliveEvery
  BY AllowanceFacts, Bounds DEF Ends
<1>3. Started(p, q)' /\ SameUnit(p, q)' /\ OneRound(p, q)'
  BY DEF Ends, PathInv, Started, SameUnit, OneRound, SameEnd, SameTimers
<1>4. AnswerRecent(p, q)' /\ KeptOpen(p)'
  BY DEF Ends, PathInv, AnswerRecent, KeptOpen, SameTimers, SameEnd
<1>5. PunchOpen(p, q)'
  BY <1>1 DEF Ends, PathInv, PunchOpen, SameEnd
<1>6. ASSUME NEW x \in {p, q}, InReach(x)' PROVE InReach(x)
  BY <1>1, <1>2, <1>6 DEF InReach, SameEnd
<1>7. PongsCome(p, q)'
  <2> SUFFICES ASSUME state[p] = "direct", InReach(q)
               PROVE  pongAge[p] + (IF Due(p, q)' THEN 0 ELSE kaLeft[p]) <= Allowance(faults')
    BY <1>6 DEF PongsCome, SameEnd, SameTimers
  <2>2. pongAge[p] \in Nat /\ kaLeft[p] \in Nat /\ kaLeft[p] <= KeepaliveEvery
    BY Bounds DEF Ends, EndOK
  <2>1. pongAge[p] <= Allowance(faults)
    BY <2>2 DEF Ends, PathInv, PongsCome, Due
  <2>3. CASE Due(p, q)'
    BY <1>2, <2>1, <2>2, <2>3
  <2>4. CASE ~Due(p, q)'
    <3>1. faults' = faults + 1
      BY <2>4, PeerReached DEF Due
    <3> QED
      BY <1>2, <2>1, <2>2, <2>4, <3>1, Bounds
  <2> QED
    BY <2>3, <2>4
<1>8. Started(q, p)' /\ SameUnit(q, p)' /\ OneRound(q, p)'
  BY DEF Ends, PathInv, Started, SameUnit, OneRound, SameEnd, SameTimers
<1>9. AnswerRecent(q, p)' /\ KeptOpen(q)'
  BY DEF Ends, PathInv, AnswerRecent, KeptOpen, SameTimers, SameEnd
<1>10. PunchOpen(q, p)'
  BY <1>1 DEF Ends, PathInv, PunchOpen, SameEnd
<1>11. PongsCome(q, p)'
  <2> SUFFICES ASSUME state[q] = "direct", InReach(p)
               PROVE  pongAge[q] + (IF Due(q, p) THEN 0 ELSE kaLeft[q]) <= Allowance(faults')
    BY <1>6 DEF PongsCome, SameEnd, SameTimers, Due
  <2>1. pongAge[q] + (IF Due(q, p) THEN 0 ELSE kaLeft[q]) <= Allowance(faults)
    BY DEF Ends, PathInv, PongsCome
  <2>2. pongAge[q] \in Nat /\ kaLeft[q] \in Nat
    BY Bounds DEF Ends, EndOK
  <2> QED
    BY <1>2, <2>1, <2>2
<1>12. RoundsCount(p, q)'
  <2>1. hole[q] > 0 /\ faults' = faults /\ WillAsk(p, q) => WillAsk(p, q)'
    BY DEF WillAsk, SameEnd, SameTimers
  <2>2. WillAsk(q, p) => WillAsk(q, p)'
    BY DEF WillAsk, SameEnd, SameTimers
  <2> QED
    BY <1>1, <2>1, <2>2 DEF Ends, RoundsCount, SameEnd
<1> QED
  BY <1>3, <1>4, <1>5, <1>7, <1>8, <1>9, <1>10, <1>11, <1>12, Zenon DEF EndsStay, PathInv

\* A unit passes.
LEMMA UnitStep ==
  ASSUME NEW p \in Fsm, NEW q \in Fsm, p # q, q = Peer(p), p = Peer(q), Fsm = {p, q}, Ends(p, q),
         Settled, DownIsIdle, RdvElapse
  PROVE  EndsStay(p, q)
<1>1. /\ UNCHANGED <<state, winning, faults>>
      /\ \A x \in Fsm :
           /\ fired'[x] = fired[x] \cup {"tick"} \cup (IF kaLeft[x] = 1 THEN {"ka"} ELSE {})
           /\ kaLeft'[x] = IF kaLeft[x] = 1 THEN KeepaliveEvery ELSE kaLeft[x] - 1
           /\ pongAge'[x] = IF pongAge[x] = PongStale THEN PongStale ELSE pongAge[x] + 1
           /\ punchLeft'[x] = IF punchLeft[x] = 0 THEN 0 ELSE punchLeft[x] - 1
           /\ hole'[x] = IF hole[x] = 0 THEN 0 ELSE hole[x] - 1
           /\ Knows(x)' <=> Knows(x)
  BY DEF RdvElapse, Elapse, KeepaliveDue, Knows, snapshotVars
<1>2. \/ together' = together
      \/ together' = together + 1 /\ Trying(p) /\ Trying(q)
  BY DEF RdvElapse
<1>3. ASSUME NEW x \in Fsm
      PROVE  /\ ~PingFlies(x) /\ ~PongFlies(x) /\ ~Queued(x, "ping") /\ ~Queued(x, "pong")
             /\ ~PingFlies(x)' /\ ~PongFlies(x)' /\ ~Queued(x, "ping")' /\ ~Queued(x, "pong")'
             /\ state[x] # "unknown" => fired[x] = {}
  <2>1. UNCHANGED <<inflight, incoming>>
    BY DEF RdvElapse, Elapse
  <2> QED
    BY <2>1, SettledEmpty, Zenon DEF PingFlies, PongFlies, Queued
<1>4. ~Asked(p, q) /\ ~Asked(q, p) /\ ~Asked(p, q)' /\ ~Asked(q, p)'
  BY <1>3, Zenon DEF Asked
<1>5. ASSUME NEW x \in Fsm, NEW y \in Fsm, y = Peer(x), PathInv(x, y), EndOK(x), EndOK(y), together \in Nat,
             ~Asked(x, y), ~Asked(x, y)',
             together' = together \/ (together' = together + 1 /\ Trying(x))
      PROVE  PathInv(x, y)'
  <2>1. /\ state[x] # "unknown" => fired[x] = {}
        /\ Tolerated' <=> Tolerated
    BY <1>1, <1>3 DEF Tolerated
  <2>2. /\ hole[x] \in Nat /\ hole[y] \in Nat /\ kaLeft[x] \in Nat /\ pongAge[x] \in Nat
        /\ hole[x] <= HoleLife /\ kaLeft[x] > 0 /\ kaLeft[x] <= KeepaliveEvery
        /\ pongAge[x] <= PongMiss + 1
    BY <1>5, Bounds DEF EndOK
  <2>3. Started(x, y)'
    <3>1. Trying(x) => state[x] # "unknown" /\ Knows(x)
      BY <1>5 DEF Trying, PathInv, Started, Knows
    <3>2. hole'[x] > 0 => hole[x] > 0
      BY <1>1, <2>2
    <3>3. together' > 0 => together > 0 \/ Trying(x)
      BY <1>5
    <3> QED
      BY <1>1, <1>5, <3>1, <3>2, <3>3, Zenon DEF PathInv, Started
  <2>4. SameUnit(x, y)' /\ OneRound(x, y)'
    BY <1>3, <1>5, Zenon DEF SameUnit, OneRound
  <2>5. AnswerRecent(x, y)'
    BY <1>1, <1>5, <2>2, Bounds DEF PathInv, AnswerRecent
  <2>6. KeptOpen(x)'
    <3> SUFFICES ASSUME state[x] = "direct"
                 PROVE  hole'[x] + KeepaliveEvery
                          >= HoleLife + (IF "ka" \in fired'[x] THEN 0 ELSE kaLeft'[x])
      BY <1>1 DEF KeptOpen
    <3>1. hole[x] + KeepaliveEvery >= HoleLife + kaLeft[x]
      BY <1>5, <2>1 DEF PathInv, KeptOpen
    <3>2. hole'[x] = hole[x] - 1
      BY <1>1, <2>2, <3>1, Bounds
    <3>3. CASE kaLeft[x] = 1
      <4>1. "ka" \in fired'[x]
        BY <1>1, <3>3
      <4> QED
        BY <2>2, <3>1, <3>2, <3>3, <4>1, Bounds
    <3>4. CASE kaLeft[x] # 1
      <4>1. kaLeft'[x] = kaLeft[x] - 1
        BY <1>1, <3>4
      <4> QED
        BY <2>2, <3>1, <3>2, <4>1, Bounds
    <3> QED
      BY <3>3, <3>4
  <2>7. PunchOpen(x, y)'
    <3>1. "tick" \in fired'[x]
      BY <1>1
    <3>2. Tolerated /\ state[x] = "punching" /\ state[y] = "direct" => hole[x] = HoleLife
      BY <1>5, <2>1 DEF PathInv, PunchOpen
    <3>3. hole[x] = HoleLife => hole'[x] + 1 >= HoleLife
      BY <1>1, <2>2, Bounds
    <3> QED
      BY <1>1, <2>1, <3>1, <3>2, <3>3 DEF PunchOpen
  <2>8. PongsCome(x, y)'
    <3> SUFFICES ASSUME state[x] = "direct", InReach(y)
                 PROVE  pongAge'[x] + (IF "ka" \in fired'[x] THEN 0 ELSE kaLeft'[x])
                           <= Allowance(faults)
      BY <1>1, <1>5, <2>1 DEF PongsCome, InReach, Due
    <3>1. pongAge[x] + kaLeft[x] <= Allowance(faults) /\ Allowance(faults) \in Nat
      BY <1>5, <2>1, AllowanceFacts DEF PathInv, PongsCome, Due, Ends
    <3>2. pongAge'[x] <= pongAge[x] + 1 /\ pongAge'[x] \in Nat
      BY <1>1, <2>2, Bounds
    <3>3. CASE kaLeft[x] = 1
      <4>1. "ka" \in fired'[x]
        BY <1>1, <3>3
      <4> QED
        BY <2>2, <3>1, <3>2, <3>3, <4>1
    <3>4. CASE kaLeft[x] # 1
      <4>1. kaLeft'[x] = kaLeft[x] - 1
        BY <1>1, <3>4
      <4> QED
        BY <2>2, <3>1, <3>2, <4>1
    <3> QED
      BY <3>3, <3>4
  <2> QED
    BY <2>3, <2>4, <2>5, <2>6, <2>7, <2>8, Zenon DEF PathInv
<1>6. PathInv(p, q)' /\ PathInv(q, p)'
  <2>1. PathInv(p, q) /\ PathInv(q, p) /\ EndOK(p) /\ EndOK(q) /\ together \in Nat
    BY Zenon DEF Ends
  <2>2. PathInv(p, q)'
    BY <1>2, <1>4, <1>5, <2>1
  <2>3. PathInv(q, p)'
    BY <1>2, <1>4, <1>5, <2>1
  <2> QED
    BY <2>2, <2>3
<1>7. RoundsCount(p, q)'
  <2> SUFFICES ASSUME Tolerated, ~(state[p] = "direct" /\ state[q] = "direct"),
                      together' > faults + 1
               PROVE  /\ together' = faults + 2 /\ WillAsk(p, q)' /\ WillAsk(q, p)'
                      /\ hole'[p] > 0 /\ hole'[q] > 0
    <3>1. (Tolerated' <=> Tolerated) /\ faults' = faults /\ state' = state
      BY <1>1 DEF Tolerated
    <3>2. faults \in Nat /\ together' \in Nat
      BY <1>2 DEF Ends
    <3> QED
      BY <3>1, <3>2 DEF RoundsCount
  <2>1. ASSUME NEW x \in Fsm, NEW y \in Fsm, ~Asked(x, y), WillAsk(x, y)
        PROVE  state[x] = "direct"
    BY <1>3, <2>1 DEF WillAsk
  <2>2. together <= faults + 1 /\ faults \in Nat /\ together \in Nat
    BY <1>4, <2>1 DEF Ends, RoundsCount
  <2>3. together' = faults + 2 /\ together > 0 /\ Trying(p) /\ Trying(q)
    BY <1>2, <2>2
  <2>4. ASSUME NEW x \in Fsm, NEW y \in Fsm, PathInv(x, y), EndOK(x), Trying(x), Trying(y)
        PROVE  WillAsk(x, y)' /\ hole'[x] > 0
    <3>1. /\ hole[x] \in Nat /\ kaLeft[x] \in Nat /\ kaLeft[x] > 0 /\ punchLeft[x] \in Nat
          /\ state[x] # "unknown" /\ fired[x] = {} /\ state[y] # "relay"
      BY <1>3, <2>4, Bounds DEF EndOK, Trying
    <3>2. CASE state[x] = "direct"
      <4>1. hole[x] + KeepaliveEvery >= HoleLife + kaLeft[x]
        BY <2>4, <3>1, <3>2 DEF PathInv, KeptOpen
      <4>2. hole'[x] = hole[x] - 1 /\ hole[x] > 1
        BY <1>1, <3>1, <4>1, Bounds
      <4> QED
        BY <1>1, <3>1, <3>2, <4>2 DEF WillAsk
    <3>3. CASE state[x] = "punching" /\ punchLeft[x] > 1
      <4>1. hole[x] = HoleLife
        BY <2>3, <2>4, <3>1, <3>3 DEF PathInv, PunchOpen
      <4>2. hole'[x] = hole[x] - 1 /\ hole[x] > 1
        BY <1>1, <3>1, <4>1, Bounds
      <4>3. punchLeft'[x] > 0 /\ "tick" \in fired'[x] /\ state'[x] = "punching"
        BY <1>1, <3>1, <3>3
      <4> QED
        BY <3>1, <4>2, <4>3 DEF WillAsk
    <3> QED
      BY <2>4, <3>2, <3>3 DEF Trying
  <2> QED
    BY <2>3, <2>4 DEF Ends
<1> QED
  BY <1>6, <1>7 DEF EndsStay

-----------------------------------------------------------------------------
(* The queues have room for what is on its way                             *)

\* What may still end up in a queue within a unit: each tick or keepalive in a
\* ping, each ping in a pong.
Ticks(p) == IF "tick" \in fired[p] THEN 1 ELSE 0
Kas(p)   == IF "ka" \in fired[p] THEN 1 ELSE 0
Pings(p) == IF [type |-> "ping", from |-> p] \in inflight THEN 1 ELSE 0
Pongs(p) == IF [type |-> "pong", from |-> p] \in inflight THEN 1 ELSE 0
Load(p)  == (Len(incoming[p]) + (Ticks(p) + Kas(p))) + (Pings(p) + Pongs(p))

LoadOK(p, q) == Load(p) + Load(q) <= faults + 4

LEMMA LoadParts ==
  ASSUME NEW p \in Fsm
  PROVE  /\ Ticks(p) \in Nat /\ Ticks(p) <= 1 /\ (Ticks(p) = 1 <=> "tick" \in fired[p])
         /\ Kas(p) \in Nat /\ Kas(p) <= 1 /\ (Kas(p) = 1 <=> "ka" \in fired[p])
         /\ Pings(p) \in Nat /\ Pings(p) <= 1 /\ (Pings(p) = 1 <=> PingFlies(p))
         /\ Pongs(p) \in Nat /\ Pongs(p) <= 1 /\ (Pongs(p) = 1 <=> PongFlies(p))
         /\ Ticks(p)' \in Nat /\ Ticks(p)' <= 1 /\ (Ticks(p)' = 1 <=> "tick" \in fired'[p])
         /\ Kas(p)' \in Nat /\ Kas(p)' <= 1 /\ (Kas(p)' = 1 <=> "ka" \in fired'[p])
         /\ Pings(p)' \in Nat /\ Pings(p)' <= 1 /\ (Pings(p)' = 1 <=> PingFlies(p)')
         /\ Pongs(p)' \in Nat /\ Pongs(p)' <= 1 /\ (Pongs(p)' = 1 <=> PongFlies(p)')
BY DEF Ticks, Kas, Pings, Pongs, PingFlies, PongFlies

LEMMA LoadType ==
  ASSUME QueueOK, NEW p \in Fsm
  PROVE  Len(incoming[p]) \in Nat /\ Load(p) \in Nat
         /\ Load(p) >= Len(incoming[p]) + (Pings(p) + Pongs(p))
<1>1. Len(incoming[p]) \in Nat
  BY DEF QueueOK
<1>2. Ticks(p) \in Nat /\ Kas(p) \in Nat /\ Pings(p) \in Nat /\ Pongs(p) \in Nat
  BY LoadParts
<1> QED
  BY <1>1, <1>2 DEF Load

LEMMA RoomLeft ==
  ASSUME QueueOK, NetOK, NEW p \in Fsm, NEW q \in Fsm, LoadOK(p, q),
         PingFlies(p) \/ PongFlies(p) \/ PingFlies(q) \/ PongFlies(q)
  PROVE  HasRoom(p) /\ HasRoom(q)
<1>1. /\ Len(incoming[p]) \in Nat /\ Load(p) \in Nat
      /\ Load(p) >= Len(incoming[p]) + (Pings(p) + Pongs(p))
      /\ Len(incoming[q]) \in Nat /\ Load(q) \in Nat
      /\ Load(q) >= Len(incoming[q]) + (Pings(q) + Pongs(q))
  BY LoadType
<1>2. /\ Pings(p) \in Nat /\ Pongs(p) \in Nat /\ Pings(q) \in Nat /\ Pongs(q) \in Nat
      /\ Pings(p) = 1 \/ Pongs(p) = 1 \/ Pings(q) = 1 \/ Pongs(q) = 1
  BY LoadParts
<1>3. MaxFaults + 4 <= QueueCap /\ faults \in Nat /\ faults <= MaxFaults /\ MaxFaults \in Nat
      /\ QueueCap \in Nat
  BY FsmAssumption, RendezvousAssumption, TimingAssumption DEF NetOK
<1>4. Load(p) + Load(q) <= faults + 4
  BY DEF LoadOK
<1> DEFINE n == Len(incoming[p]) m == Len(incoming[q]) a == Load(p) c == Load(q)
           i == Pings(p) o == Pongs(p) j == Pings(q) r == Pongs(q)
<1>5. /\ n \in Nat /\ m \in Nat /\ a \in Nat /\ c \in Nat
      /\ i \in Nat /\ o \in Nat /\ j \in Nat /\ r \in Nat
      /\ a >= n + (i + o) /\ c >= m + (j + r) /\ a + c <= faults + 4
      /\ i = 1 \/ o = 1 \/ j = 1 \/ r = 1
  BY <1>1, <1>2, <1>4, Zenon
<1> HIDE DEF n, m, a, c, i, o, j, r
<1>6. n < QueueCap /\ m < QueueCap
  BY <1>3, <1>5
<1> QED
  BY <1>6, Zenon DEF HasRoom, n, m

\* The ways in which the load may change.
LEMMA LoadMoves ==
  ASSUME TypeOK, TypeOK', NEW p \in Fsm, NEW q \in Fsm, LoadOK(p, q), faults \in Nat
  PROVE  /\ Load(p)' <= Load(p) /\ Load(q)' <= Load(q) /\ faults' = faults => LoadOK(p, q)'
         /\ Load(p)' <= Load(p) - 1 /\ Load(q)' <= Load(q) + 1 /\ faults' = faults => LoadOK(p, q)'
         /\ Load(p)' <= Load(p) /\ Load(q)' <= Load(q) + 1 /\ faults' = faults + 1 => LoadOK(p, q)'
         /\ Load(p)' <= Load(p) /\ Load(q)' <= Load(q) /\ faults' = faults + 1 => LoadOK(p, q)'
<1>1. Load(p) \in Nat /\ Load(q) \in Nat
  BY LoadType DEF TypeOK
<1>2. ASSUME NEW x \in Fsm PROVE Load(x)' \in Nat
  <2>1. Len(incoming'[x]) \in Nat
    BY DEF TypeOK, QueueOK
  <2>2. Ticks(x)' \in Nat /\ Kas(x)' \in Nat /\ Pings(x)' \in Nat /\ Pongs(x)' \in Nat
    BY LoadParts
  <2> QED
    BY <2>1, <2>2 DEF Load
<1>3. Load(p)' \in Nat /\ Load(q)' \in Nat
  BY <1>2
<1> QED
  BY <1>1, <1>3 DEF LoadOK

LEMMA LoadChange ==
  ASSUME QueueOK, QueueOK', NEW p \in Fsm
  PROVE  /\ /\ Len(incoming'[p]) <= Len(incoming[p]) /\ Ticks(p)' <= Ticks(p) /\ Kas(p)' <= Kas(p)
            /\ Pings(p)' <= Pings(p) /\ Pongs(p)' <= Pongs(p)
            => Load(p)' <= Load(p)
         /\ /\ Len(incoming'[p]) = Len(incoming[p]) - 1 /\ Ticks(p)' <= Ticks(p) /\ Kas(p)' <= Kas(p)
            /\ Pings(p)' <= Pings(p)
            => Load(p)' <= Load(p)
         /\ /\ Len(incoming'[p]) <= Len(incoming[p])
            /\ Ticks(p)' + Kas(p)' <= (Ticks(p) + Kas(p)) - 1
            /\ Pongs(p)' <= Pongs(p)
            => Load(p)' <= Load(p)
         /\ /\ Len(incoming'[p]) <= Len(incoming[p]) /\ Ticks(p)' <= Ticks(p) /\ Kas(p)' <= Kas(p)
            /\ Pings(p)' + Pongs(p)' <= (Pings(p) + Pongs(p)) - 1
            => Load(p)' <= Load(p) - 1
         /\ /\ Len(incoming'[p]) <= Len(incoming[p]) + 1
            /\ Ticks(p)' <= Ticks(p) /\ Kas(p)' <= Kas(p)
            /\ Pings(p)' <= Pings(p) /\ Pongs(p)' <= Pongs(p)
            => Load(p)' <= Load(p) + 1
<1> DEFINE n == Len(incoming[p])  t == Ticks(p)  k == Kas(p)  i == Pings(p)  o == Pongs(p)
           m == Len(incoming'[p]) u == Ticks(p)' l == Kas(p)' j == Pings(p)' r == Pongs(p)'
<1>1. n \in Nat /\ m \in Nat
  BY DEF QueueOK
<1>2. /\ t \in Nat /\ k \in Nat /\ i \in Nat /\ o \in Nat
      /\ u \in Nat /\ l \in Nat /\ j \in Nat /\ r \in Nat /\ j <= 1 /\ r <= 1
  BY LoadParts
<1>3. Load(p) = (n + (t + k)) + (i + o) /\ Load(p)' = (m + (u + l)) + (j + r)
  BY Zenon DEF Load
<1> HIDE DEF n, t, k, i, o, m, u, l, j, r
<1>4. /\ m <= n /\ u <= t /\ l <= k /\ j <= i /\ r <= o => Load(p)' <= Load(p)
      /\ m = n - 1 /\ u <= t /\ l <= k /\ j <= i => Load(p)' <= Load(p)
      /\ m <= n /\ u + l <= (t + k) - 1 /\ r <= o => Load(p)' <= Load(p)
      /\ m <= n /\ u <= t /\ l <= k /\ j + r <= (i + o) - 1 => Load(p)' <= Load(p) - 1
      /\ m <= n + 1 /\ u <= t /\ l <= k /\ j <= i /\ r <= o => Load(p)' <= Load(p) + 1
  BY <1>1, <1>2, <1>3
<1> QED
  BY <1>4, Zenon DEF n, t, k, i, o, m, u, l, j, r

LEMMA SameLoad ==
  ASSUME TypeOK, TypeOK', NEW p \in Fsm, SameTraffic(p), Len(incoming'[p]) = Len(incoming[p]),
         fired'[p] \subseteq fired[p]
  PROVE  Load(p)' <= Load(p)
<1>1. Len(incoming'[p]) <= Len(incoming[p])
  BY DEF TypeOK, QueueOK
<1>2. Ticks(p)' <= Ticks(p) /\ Kas(p)' <= Kas(p)
  BY DEF Ticks, Kas
<1>3. Pings(p)' <= Pings(p) /\ Pongs(p)' <= Pongs(p)
  BY DEF Pings, Pongs, SameTraffic, PingFlies, PongFlies
<1> QED
  BY <1>1, <1>2, <1>3, LoadChange, Zenon DEF TypeOK

-----------------------------------------------------------------------------
(* Each step is of one of the kinds                                        *)

\* What Sends does to the traffic.
LEMMA SendsEffect ==
  ASSUME NetOK, NEW p \in Fsm, NEW q \in Fsm, p # q, NEW type \in {"ping", "pong"}, NEW addrs,
         Sends(p, type, addrs), Pub[Peer(p)] \in addrs
  PROVE  /\ hole'[p] = HoleLife /\ hole'[q] = hole[q] /\ UNCHANGED <<faults, together>>
         /\ type = "ping" => PingFlies(p)' /\ (PongFlies(p)' <=> PongFlies(p))
         /\ type = "pong" => PongFlies(p)' /\ (PingFlies(p)' <=> PingFlies(p))
         /\ PingFlies(q)' <=> PingFlies(q)
         /\ PongFlies(q)' <=> PongFlies(q)
<1>1. /\ inflight' = inflight \cup {[type |-> type, from |-> p]}
      /\ hole' = [hole EXCEPT ![p] = HoleLife] /\ UNCHANGED <<faults, together>>
  BY DEF Sends
<1>2. hole'[p] = HoleLife /\ hole'[q] = hole[q]
  BY <1>1 DEF NetOK
<1> QED
  BY <1>1, <1>2 DEF PingFlies, PongFlies

LEMMA QuietNet ==
  ASSUME UNCHANGED netVars, NEW p \in Fsm
  PROVE  /\ hole'[p] = hole[p] /\ UNCHANGED <<faults, together>>
         /\ PingFlies(p)' <=> PingFlies(p)
         /\ PongFlies(p)' <=> PongFlies(p)
BY DEF netVars, PingFlies, PongFlies

LEMMA QuietQueue ==
  ASSUME NEW p \in Fsm, incoming'[p] = incoming[p]
  PROVE  Len(incoming'[p]) = Len(incoming[p]) /\ \A t : Queued(p, t)' <=> Queued(p, t)
BY Zenon DEF Queued

\* Between two units: daemons and coordinator.
LEMMA ServiceStep ==
  ASSUME RdvInv, RdvInv', NEW p \in Fsm, NEW q \in Fsm, p # q, q = Peer(p), Ends(p, q), LoadOK(p, q),
         \/ Register(p) \/ PostEndpoints(p) \/ StartFsm(p) \/ PollAgain(p)
         \/ SendCallMeMaybe(p) \/ LoseSignal(p) \/ PullSignals(p)
  PROVE  EndsStay(p, q) /\ LoadOK(p, q)'
<1> DEFINE call == CallMeMaybe({Loc[Peer(p)]})
<1>1. Settled /\ UNCHANGED netVars
  BY DEF Register, PostEndpoints, StartFsm, PollAgain, SendCallMeMaybe, LoseSignal, PullSignals
<1>2. TypeOK /\ QueueOK /\ FieldsOK /\ DownIsIdle
  BY DEF RdvInv, TypeOK
<1>3. /\ Len(incoming[p]) = 0 /\ Len(incoming[q]) = 0
      /\ state[p] # "unknown" \/ up[p] => fired[p] = {}
      /\ ~PingFlies(p) /\ ~PongFlies(p) /\ ~PingFlies(q) /\ ~PongFlies(q)
  BY <1>1, <1>2, SettledEmpty
<1>4. /\ hole'[p] = hole[p] /\ hole'[q] = hole[q] /\ UNCHANGED <<faults, together>>
      /\ PingFlies(p)' <=> PingFlies(p)
      /\ PongFlies(p)' <=> PongFlies(p)
      /\ PingFlies(q)' <=> PingFlies(q)
      /\ PongFlies(q)' <=> PongFlies(q)
  BY <1>1, QuietNet
<1>5. CASE Register(p) \/ PostEndpoints(p) \/ SendCallMeMaybe(p) \/ LoseSignal(p)
           \/ (PullSignals(p) /\ ~up[p])
  <2>1. UNCHANGED vars
    BY <1>5 DEF Register, PostEndpoints, SendCallMeMaybe, LoseSignal, PullSignals
  <2>2. SameEnd(p) /\ SameEnd(q)
    BY <1>4, <2>1 DEF vars, snapshotVars, timerVars, SameEnd, SameTimers, Knows
  <2>3. SameTraffic(p) /\ SameTraffic(q)
        /\ Len(incoming'[p]) = Len(incoming[p]) /\ Len(incoming'[q]) = Len(incoming[q])
    BY <1>4, <2>1, QuietQueue DEF vars, SameTraffic
  <2>4. EndsStay(p, q)
    BY <1>4, <2>2, <2>3, CalmStep DEF Calm, SameEnd
  <2>5. Load(p)' <= Load(p) /\ Load(q)' <= Load(q)
    BY <1>2, <2>1, <2>3, SameLoad DEF vars, timerVars, RdvInv
  <2> QED
    BY <1>4, <2>4, <2>5, LoadMoves DEF Ends, RdvInv
<1>6. CASE StartFsm(p)
  <2>1. /\ state[p] = "unknown" /\ UNCHANGED <<state, incoming>> /\ fired'[p] = {}
        /\ kaLeft'[q] = kaLeft[q] /\ fired'[q] = fired[q] /\ endpoints'[q] = endpoints[q]
        /\ UNCHANGED <<pongAge, punchLeft, winning>>
    BY <1>2, <1>6 DEF StartFsm, FieldsOK, DownIsIdle
  <2>2. Calm(p) /\ Calm(q)
    BY <1>4, <2>1 DEF Calm, SameEnd, SameTimers, Knows
  <2>3. SameTraffic(p) /\ SameTraffic(q)
        /\ Len(incoming'[p]) = Len(incoming[p]) /\ Len(incoming'[q]) = Len(incoming[q])
    BY <1>4, <2>1, QuietQueue DEF SameTraffic
  <2>4. EndsStay(p, q)
    BY <1>4, <2>2, <2>3, CalmStep
  <2>5. Load(p)' <= Load(p) /\ Load(q)' <= Load(q)
    BY <1>2, <2>1, <2>3, SameLoad DEF RdvInv
  <2> QED
    BY <1>4, <2>4, <2>5, LoadMoves DEF Ends, RdvInv
<1>7. CASE PollAgain(p) \/ (PullSignals(p) /\ up[p])
  <2>1. PICK ev \in {Update, call} :
          /\ Offer(p, ev) /\ up[p]
          /\ UNCHANGED <<state, winning, endpoints, timerVars>>
    BY <1>7 DEF PollAgain, UpdateQueue, PullSignals, Receive, snapshotVars
  <2>2. ev \in Event /\ ev.type \notin {"ping", "pong"}
    <3>1. Update \in Event /\ Update.type = "update"
      BY EventTypes DEF Update
    <3>2. call \in Event /\ call.type = "call_me_maybe"
      BY CallProperties
    <3> QED
      BY <2>1, <3>1, <3>2
  <2> HIDE DEF call
  <2>3. SameEnd(p) /\ SameEnd(q)
    BY <1>4, <2>1 DEF timerVars, SameEnd, SameTimers, Knows
  <2>4. SameTraffic(p) /\ SameTraffic(q)
        /\ Len(incoming'[p]) <= Len(incoming[p]) + 1 /\ Len(incoming'[q]) = Len(incoming[q])
    BY <1>2, <1>3, <1>4, <2>1, <2>2, OfferQueued DEF SameTraffic
  <2>5. EndsStay(p, q)
    BY <1>4, <2>3, <2>4, CalmStep DEF Calm, SameEnd
  <2>6. LoadOK(p, q)'
    <3>1. fired'[p] = {} /\ fired'[q] = fired[q]
      BY <1>3, <2>1 DEF timerVars
    <3>2. Len(incoming'[p]) <= 1 /\ Len(incoming'[q]) = 0 /\ Len(incoming'[p]) \in Nat
          /\ faults' \in Nat
      BY <1>3, <1>4, <2>4 DEF Ends, RdvInv, TypeOK, QueueOK
    <3>3. /\ Ticks(p)' = 0 /\ Kas(p)' = 0 /\ Pings(p)' = 0 /\ Pongs(p)' = 0
          /\ Pings(q)' = 0 /\ Pongs(q)' = 0
      BY <1>3, <1>4, <3>1 DEF Ticks, Kas, Pings, Pongs, PingFlies, PongFlies
    <3>4. Ticks(q)' \in Nat /\ Ticks(q)' <= 1 /\ Kas(q)' \in Nat /\ Kas(q)' <= 1
      BY LoadParts
    <3>5. Load(p)' <= 1 /\ Load(q)' <= 2 /\ Load(p)' \in Nat /\ Load(q)' \in Nat
      BY <3>2, <3>3, <3>4 DEF Load
    <3> QED
      BY <3>2, <3>5 DEF LoadOK
  <2> QED
    BY <2>5, <2>6
<1> QED
  BY <1>5, <1>6, <1>7

\* A step of neither end's FSM, and StoreSnapshot, which writes what the list
\* says.
LEMMA StoreStep ==
  ASSUME RdvInv, RdvInv', NEW p \in Fsm, NEW q \in Fsm, p # q, q = Peer(p), Ends(p, q), LoadOK(p, q),
         StoreSnapshot(p) \/ UNCHANGED rdvVars
  PROVE  EndsStay(p, q) /\ LoadOK(p, q)'
<1>1. TypeOK /\ FieldsOK
  BY DEF RdvInv, TypeOK
<1>2. /\ hole'[p] = hole[p] /\ hole'[q] = hole[q] /\ UNCHANGED <<faults, together>>
      /\ PingFlies(p)' <=> PingFlies(p)
      /\ PongFlies(p)' <=> PongFlies(p)
      /\ PingFlies(q)' <=> PingFlies(q)
      /\ PongFlies(q)' <=> PongFlies(q)
  BY QuietNet DEF StoreSnapshot, rdvVars
<1>3. UNCHANGED <<state, incoming, winning, timerVars>>
  BY DEF StoreSnapshot, UpdateStore, rdvVars, vars
<1>4. (Knows(p) => Knows(p)') /\ (Knows(q) => Knows(q)')
  <2>1. CASE StoreSnapshot(p)
    <3>1. endpoints'[p] = Listed(Peer(p)) /\ endpoints'[q] = endpoints[q]
      BY <1>1, <2>1 DEF StoreSnapshot, UpdateStore, FieldsOK, RdvInv, ListKept
    <3>2. Knows(p) => Pub[Peer(p)] \in Listed(Peer(p))
      BY DEF RdvInv, ListKept, Listed
    <3> QED
      BY <3>1, <3>2 DEF Knows
  <2>2. CASE UNCHANGED rdvVars
    BY <2>2 DEF rdvVars, vars, snapshotVars, Knows
  <2> QED
    BY <2>1, <2>2
<1>5. SameEnd(p) /\ SameEnd(q)
  BY <1>2, <1>3, <1>4 DEF timerVars, SameEnd, SameTimers
<1>6. SameTraffic(p) /\ SameTraffic(q)
      /\ Len(incoming'[p]) = Len(incoming[p]) /\ Len(incoming'[q]) = Len(incoming[q])
  BY <1>2, <1>3, QuietQueue DEF SameTraffic
<1>7. EndsStay(p, q)
  BY <1>2, <1>5, <1>6, CalmStep DEF Calm, SameEnd
<1>8. Load(p)' <= Load(p) /\ Load(q)' <= Load(q)
  BY <1>1, <1>3, <1>6, SameLoad DEF timerVars, RdvInv
<1> QED
  BY <1>2, <1>7, <1>8, LoadMoves DEF Ends, RdvInv

\* What an FSM does leaves the other alone.
LEMMA OtherSame ==
  ASSUME RdvInv, NEW p \in Fsm, NEW q \in Fsm, p # q,
         Handle(p) \/ TickPunch(p) \/ Keepalive(p), hole'[q] = hole[q],
         PingFlies(q)' <=> PingFlies(q), PongFlies(q)' <=> PongFlies(q)
  PROVE  /\ SameEnd(q) /\ SameTraffic(q)
         /\ Len(incoming'[q]) = Len(incoming[q]) /\ fired'[q] \subseteq fired[q]
<1>1. TypeOK /\ QueueOK /\ FieldsOK /\ FromPeers
  BY DEF RdvInv, TypeOK
<1>2. CASE Handle(p)
  <2>1. /\ state'[q] = state[q] /\ winning'[q] = winning[q] /\ pongAge'[q] = pongAge[q]
        /\ punchLeft'[q] = punchLeft[q]
    BY <1>1, <1>2 DEF Handle, HandleUpdate, HandlePing, HandlePong, HandleCallMeMaybe,
                      OnPeerUpdate, OnPong, FieldsOK
  <2>2. UNCHANGED <<kaLeft, fired>>
    BY <1>2 DEF Handle
  <2>3. Knows(q) => Knows(q)'
    BY <1>1, <1>2, HandleEndpoints DEF Knows
  <2>4. Len(incoming'[q]) = Len(incoming[q]) /\ \A t : Queued(q, t)' <=> Queued(q, t)
    BY <1>1, <1>2, HandleQueued
  <2> QED
    BY <2>1, <2>2, <2>3, <2>4 DEF SameEnd, SameTimers, SameTraffic
<1>3. CASE TickPunch(p) \/ Keepalive(p)
  <2>1. /\ UNCHANGED <<incoming, winning, endpoints, punchLeft, pongAge, kaLeft>>
        /\ state'[q] = state[q] /\ fired'[q] = fired[q]
    BY <1>1, <1>3 DEF TickPunch, Keepalive, FieldsOK, snapshotVars
  <2>2. Len(incoming'[q]) = Len(incoming[q]) /\ \A t : Queued(q, t)' <=> Queued(q, t)
    BY <2>1, QuietQueue
  <2> QED
    BY <2>1, <2>2 DEF SameEnd, SameTimers, SameTraffic, Knows
<1> QED
  BY <1>2, <1>3

LEMMA HandleStep ==
  ASSUME RdvInv, RdvInv', NEW p \in Fsm, NEW q \in Fsm, p # q, q = Peer(p), Ends(p, q), LoadOK(p, q),
         RunHandle(p)
  PROVE  EndsStay(p, q) /\ LoadOK(p, q)'
<1> DEFINE ev == Head(incoming[p])
<1>1. TypeOK /\ TypeOK' /\ QueueOK /\ FieldsOK /\ FromPeers /\ NetOK /\ LinkReachesPeer
  BY DEF RdvInv, TypeOK
<1>2. Handle(p) /\ Answers(p, ev)
  BY DEF RunHandle
<1>3. /\ ev \in Event /\ FromPeer(p, ev) /\ Len(incoming'[p]) = Len(incoming[p]) - 1
      /\ \A t : Queued(p, t) <=> Queued(p, t)' \/ ev.type = t
      /\ fired'[p] = fired[p] /\ kaLeft'[p] = kaLeft[p] /\ (Knows(p) => Knows(p)')
  BY <1>1, <1>2, HandleQueued, HandleFromPeer, HandleEndpoints, Zenon DEF Handle
<1>4. \/ HandleUpdate(p, ev) \/ HandlePing(p, ev) \/ HandlePong(p, ev) \/ HandleCallMeMaybe(p, ev)
  BY <1>2 DEF Handle
<1> HIDE DEF ev
<1>5. CASE HandlePing(p, ev)
  <2>1. ev.type = "ping" /\ ev.from = Pub[Peer(p)]
    BY <1>3, <1>5 DEF HandlePing, FromPeer
  <2>2. Sends(p, "pong", {ev.from}) /\ Pub[Peer(p)] \in {ev.from}
    BY <1>2, <2>1 DEF Answers
  <2>3. /\ hole'[p] = HoleLife /\ hole'[q] = hole[q] /\ UNCHANGED <<faults, together>>
        /\ PongFlies(p)' /\ (PingFlies(p)' <=> PingFlies(p))
        /\ PingFlies(q)' <=> PingFlies(q)
        /\ PongFlies(q)' <=> PongFlies(q)
    BY <1>1, <2>2, SendsEffect
  <2>4. state'[p] = state[p] /\ SameTimers(p)
    BY <1>3, <1>5 DEF HandlePing, SameTimers
  <2>5. Queued(p, "ping") /\ (Queued(p, "pong")' <=> Queued(p, "pong"))
    BY <1>3, <2>1
  <2>6. SameEnd(q) /\ SameTraffic(q)
        /\ Len(incoming'[q]) = Len(incoming[q]) /\ fired'[q] \subseteq fired[q]
    BY <1>2, <2>3, OtherSame
  <2>7. EndsStay(p, q)
    BY <1>3, <2>3, <2>4, <2>5, <2>6, AnswerStep
  <2>8. Load(p)' <= Load(p)
    <3>1. Ticks(p)' <= Ticks(p) /\ Kas(p)' <= Kas(p)
      BY <1>3 DEF Ticks, Kas
    <3>2. Pings(p)' <= Pings(p)
      BY <2>3 DEF Pings, PingFlies
    <3> QED
      BY <1>1, <1>3, <3>1, <3>2, LoadChange, Zenon DEF TypeOK
  <2>9. Load(q)' <= Load(q)
    BY <1>1, <2>6, SameLoad
  <2> QED
    BY <1>1, <2>3, <2>7, <2>8, <2>9, LoadMoves DEF Ends
<1>6. CASE ~HandlePing(p, ev)
  <2>1. ev.type # "ping" /\ UNCHANGED netVars
    BY <1>2, <1>4, <1>6 DEF HandleUpdate, HandlePong, HandleCallMeMaybe, Answers
  <2>2. /\ hole'[p] = hole[p] /\ hole'[q] = hole[q] /\ UNCHANGED <<faults, together>>
        /\ PingFlies(p)' <=> PingFlies(p)
        /\ PongFlies(p)' <=> PongFlies(p)
        /\ PingFlies(q)' <=> PingFlies(q)
        /\ PongFlies(q)' <=> PongFlies(q)
    BY <2>1, QuietNet
  <2>3. SameEnd(q) /\ SameTraffic(q)
        /\ Len(incoming'[q]) = Len(incoming[q]) /\ fired'[q] \subseteq fired[q]
    BY <1>2, <2>2, OtherSame
  <2>4. Queued(p, "ping")' <=> Queued(p, "ping")
    BY <1>3, <2>1
  <2>5. ASSUME HandlePong(p, ev) PROVE EndsStay(p, q)
    <3>1. ev.type = "pong" /\ ev.from = Pub[Peer(p)]
      BY <1>3, <2>5 DEF HandlePong, FromPeer
    <3>2. /\ state'[p] = "direct" /\ pongAge'[p] = 0
          /\ state[p] # "direct" => winning'[p] = Pub[Peer(p)]
          /\ state[p] = "direct" => winning'[p] = winning[p]
      BY <1>1, <2>5, <3>1 DEF HandlePong, OnPong, FieldsOK
    <3>3. Queued(p, "pong")
      BY <1>3, <3>1
    <3> QED
      BY <1>3, <2>2, <2>3, <2>4, <3>2, <3>3, PongStep
  <2>6. ASSUME ~HandlePong(p, ev) PROVE EndsStay(p, q)
    <3>1. /\ ev.type # "pong" /\ UNCHANGED <<winning, pongAge>>
          /\ \/ state[p] = "unknown" /\ state'[p] = "punching"
             \/ state'[p] = state[p] /\ punchLeft'[p] = punchLeft[p]
      BY <1>1, <1>4, <1>6, <2>6 DEF HandleUpdate, HandleCallMeMaybe, OnPeerUpdate, FieldsOK
    <3>2. SameTraffic(p)
      BY <1>3, <2>2, <2>4, <3>1 DEF SameTraffic
    <3>3. CASE state[p] = "unknown" /\ state'[p] = "punching"
      BY <1>3, <2>2, <2>3, <3>2, <3>3, BeginStep
    <3>4. CASE state'[p] = state[p] /\ punchLeft'[p] = punchLeft[p]
      <4>1. Calm(p) /\ Calm(q)
        BY <1>3, <2>2, <2>3, <3>1, <3>4 DEF Calm, SameEnd, SameTimers
      <4> QED
        BY <2>2, <2>3, <3>2, <4>1, CalmStep
    <3> QED
      BY <3>1, <3>3, <3>4
  <2>7. Load(p)' <= Load(p)
    <3>1. Ticks(p)' <= Ticks(p) /\ Kas(p)' <= Kas(p)
      BY <1>3 DEF Ticks, Kas
    <3>2. Pings(p)' <= Pings(p)
      BY <2>2 DEF Pings, PingFlies
    <3> QED
      BY <1>1, <1>3, <3>1, <3>2, LoadChange, Zenon DEF TypeOK
  <2>8. Load(q)' <= Load(q)
    BY <1>1, <2>3, SameLoad
  <2>9. LoadOK(p, q)'
    BY <1>1, <2>2, <2>7, <2>8, LoadMoves DEF Ends
  <2> QED
    BY <2>5, <2>6, <2>9
<1> QED
  BY <1>5, <1>6

LEMMA FiredLoad ==
  ASSUME TypeOK, TypeOK', NEW p \in Fsm, NEW t \in {"tick", "ka"}, t \in fired[p],
         fired'[p] = fired[p] \ {t}, Len(incoming'[p]) = Len(incoming[p]),
         PongFlies(p)' <=> PongFlies(p)
  PROVE  Load(p)' <= Load(p)
<1>1. Len(incoming'[p]) <= Len(incoming[p])
  BY DEF TypeOK, QueueOK
<1>2. Ticks(p)' + Kas(p)' <= (Ticks(p) + Kas(p)) - 1
  BY DEF Ticks, Kas
<1>3. Pongs(p)' <= Pongs(p)
  BY DEF Pongs, PongFlies
<1> QED
  BY <1>1, <1>2, <1>3, LoadChange, Zenon DEF TypeOK

\* A tick or keepalive that is handled, with what it sends or without.
LEMMA TickerStep ==
  ASSUME RdvInv, RdvInv', NEW p \in Fsm, NEW q \in Fsm, p # q, q = Peer(p), Ends(p, q), LoadOK(p, q),
         RunTickPunch(p) \/ RunKeepalive(p)
  PROVE  EndsStay(p, q) /\ LoadOK(p, q)'
<1>1. TypeOK /\ TypeOK' /\ FieldsOK /\ NetOK
  BY DEF RdvInv, TypeOK
<1>2. TickPunch(p) \/ Keepalive(p)
  BY DEF RunTickPunch, RunKeepalive
<1>3. /\ UNCHANGED <<incoming, winning, endpoints, punchLeft, pongAge, kaLeft>>
      /\ SameTimers(p) /\ (Knows(p)' <=> Knows(p))
  BY <1>2 DEF TickPunch, Keepalive, snapshotVars, SameTimers, Knows
<1>4. Len(incoming'[p]) = Len(incoming[p]) /\ \A t : Queued(p, t)' <=> Queued(p, t)
  BY <1>3, QuietQueue
<1>5. PICK t \in {"tick", "ka"} :
        /\ t \in fired[p] /\ fired'[p] = fired[p] \ {t}
        /\ t = "tick" <=> RunTickPunch(p)
        /\ t = "ka" <=> ~RunTickPunch(p)
  <2>1. CASE RunTickPunch(p)
    BY <1>1, <2>1 DEF RunTickPunch, TickPunch, FieldsOK
  <2>2. CASE ~RunTickPunch(p)
    BY <1>1, <2>2 DEF RunKeepalive, Keepalive, FieldsOK
  <2> QED
    BY <2>1, <2>2
<1>6. \/ \* nothing to do
         /\ state'[p] = state[p] /\ UNCHANGED netVars
         /\ t = "tick" => state[p] # "punching" \/ ~Knows(p)
         /\ t = "ka" => state[p] # "direct"
      \/ \* give up
         /\ t = "tick" /\ state[p] = "punching" /\ punchLeft[p] = 0
         /\ state'[p] = "relay" /\ UNCHANGED netVars
      \/ /\ t = "ka" /\ state[p] = "direct" /\ pongAge[p] > PongMiss
         /\ state'[p] = "punching" /\ UNCHANGED netVars
      \/ \* ping
         /\ state'[p] = state[p] /\ Knows(p)
         /\ t = "tick" => state[p] = "punching"
         /\ t = "ka" => state[p] = "direct"
         /\ \E addrs : Sends(p, "ping", addrs) /\ Pub[Peer(p)] \in addrs
  <2>1. CASE RunTickPunch(p)
    <3>1. CASE state[p] # "punching"
      BY <1>5, <2>1, <3>1 DEF RunTickPunch, TickPunch
    <3>2. CASE state[p] = "punching" /\ punchLeft[p] = 0
      BY <1>1, <1>5, <2>1, <3>2 DEF RunTickPunch, TickPunch, FieldsOK
    <3>3. CASE state[p] = "punching" /\ punchLeft[p] # 0
      <4>1. state'[p] = "punching" /\ Sends(p, "ping", endpoints[p]) /\ t = "tick"
        BY <1>5, <2>1, <3>3 DEF RunTickPunch, TickPunch
      <4>2. ~Knows(p) => UNCHANGED netVars
        BY <4>1 DEF Sends, Knows
      <4> QED
        BY <3>3, <4>1, <4>2 DEF Knows
    <3> QED
      BY <3>1, <3>2, <3>3
  <2>2. CASE ~RunTickPunch(p)
    <3>0. t = "ka" /\ RunKeepalive(p)
      BY <1>5, <2>2
    <3>1. CASE state[p] # "direct"
      BY <3>0, <3>1 DEF RunKeepalive, Keepalive
    <3>2. CASE state[p] = "direct" /\ pongAge[p] > PongMiss
      BY <1>1, <3>0, <3>2 DEF RunKeepalive, Keepalive, FieldsOK
    <3>3. CASE state[p] = "direct" /\ ~(pongAge[p] > PongMiss)
      <4>1. state'[p] = "direct" /\ Sends(p, "ping", {winning[p]})
        BY <3>0, <3>3 DEF RunKeepalive, Keepalive
      <4>2. Knows(p) /\ winning[p] = Pub[Peer(p)]
        BY <3>3 DEF Ends, PathInv, Started
      <4> QED
        BY <3>0, <3>3, <4>1, <4>2
    <3> QED
      BY <3>1, <3>2, <3>3
  <2> QED
    BY <2>1, <2>2
<1>7. ASSUME UNCHANGED netVars
      PROVE  /\ hole'[p] = hole[p] /\ hole'[q] = hole[q] /\ UNCHANGED <<faults, together>>
             /\ SameTraffic(p) /\ SameEnd(q) /\ SameTraffic(q)
             /\ LoadOK(p, q)'
  <2>1. /\ hole'[p] = hole[p] /\ hole'[q] = hole[q] /\ UNCHANGED <<faults, together>>
        /\ PingFlies(p)' <=> PingFlies(p)
        /\ PongFlies(p)' <=> PongFlies(p)
        /\ PingFlies(q)' <=> PingFlies(q)
        /\ PongFlies(q)' <=> PongFlies(q)
    BY <1>7, QuietNet
  <2>2. /\ SameEnd(q) /\ SameTraffic(q)
        /\ Len(incoming'[q]) = Len(incoming[q]) /\ fired'[q] \subseteq fired[q]
    BY <1>2, <2>1, OtherSame
  <2>3. Load(p)' <= Load(p) /\ Load(q)' <= Load(q)
    BY <1>1, <1>4, <1>5, <2>1, <2>2, FiredLoad, SameLoad
  <2>4. SameTraffic(p)
    BY <1>4, <2>1 DEF SameTraffic
  <2> QED
    BY <1>1, <2>1, <2>2, <2>3, <2>4, LoadMoves DEF Ends
<1>8. CASE /\ state'[p] = state[p] /\ UNCHANGED netVars
           /\ t = "tick" => state[p] # "punching" \/ ~Knows(p)
           /\ t = "ka" => state[p] # "direct"
  <2>1. EndsStay(p, q)
    BY <1>3, <1>5, <1>7, <1>8, IdleStep
  <2> QED
    BY <1>7, <1>8, <2>1
<1>9. CASE /\ t = "tick" /\ state[p] = "punching" /\ punchLeft[p] = 0
           /\ state'[p] = "relay" /\ UNCHANGED netVars
  <2>1. EndsStay(p, q)
    BY <1>3, <1>5, <1>7, <1>9, RelayStep
  <2> QED
    BY <1>7, <1>9, <2>1
<1>10. CASE /\ t = "ka" /\ state[p] = "direct" /\ pongAge[p] > PongMiss
            /\ state'[p] = "punching" /\ UNCHANGED netVars
  <2>1. EndsStay(p, q)
    BY <1>3, <1>5, <1>7, <1>10, LostStep
  <2> QED
    BY <1>7, <1>10, <2>1
<1>11. CASE /\ state'[p] = state[p] /\ Knows(p)
            /\ t = "tick" => state[p] = "punching"
            /\ t = "ka" => state[p] = "direct"
            /\ \E addrs : Sends(p, "ping", addrs) /\ Pub[Peer(p)] \in addrs
  <2>1. /\ hole'[p] = HoleLife /\ hole'[q] = hole[q] /\ UNCHANGED <<faults, together>>
        /\ PingFlies(p)' /\ (PongFlies(p)' <=> PongFlies(p))
        /\ PingFlies(q)' <=> PingFlies(q)
        /\ PongFlies(q)' <=> PongFlies(q)
    <3>1. PICK addrs : Sends(p, "ping", addrs) /\ Pub[Peer(p)] \in addrs
      BY <1>11
    <3> QED
      BY <1>1, <3>1, SendsEffect
  <2>2. /\ SameEnd(q) /\ SameTraffic(q)
        /\ Len(incoming'[q]) = Len(incoming[q]) /\ fired'[q] \subseteq fired[q]
    BY <1>2, <2>1, OtherSame
  <2>3. Load(p)' <= Load(p) /\ Load(q)' <= Load(q)
    BY <1>1, <1>4, <1>5, <2>1, <2>2, FiredLoad, SameLoad
  <2>4. EndsStay(p, q)
    BY <1>3, <1>4, <1>5, <1>11, <2>1, <2>2, PingStep
  <2> QED
    BY <1>1, <2>1, <2>3, <2>4, LoadMoves DEF Ends
<1> QED
  BY <1>6, <1>8, <1>9, <1>10, <1>11

\* A datagram that leaves the network.
LEMMA TakenOff ==
  ASSUME NetOK, NEW m \in inflight, inflight' = inflight \ {m}, NEW x \in Fsm
  PROVE  /\ PingFlies(x)' <=> PingFlies(x) /\ ~(m.type = "ping" /\ m.from = x)
         /\ PongFlies(x)' <=> PongFlies(x) /\ ~(m.type = "pong" /\ m.from = x)
<1>1. m = [type |-> m.type, from |-> m.from]
  BY DEF NetOK
<1> QED
  BY <1>1 DEF PingFlies, PongFlies

\* What Deliver does, when the queue has room.
LEMMA DeliverEffect ==
  ASSUME TypeOK, NetOK, NEW m \in inflight, NEW s \in Fsm, NEW d \in Fsm, s # d,
         m.from = s, d = Peer(s), HasRoom(d), Deliver(m)
  PROVE  /\ UNCHANGED <<state, winning, endpoints, timerVars>>
         /\ Len(incoming'[s]) = Len(incoming[s]) /\ \A t : Queued(s, t)' <=> Queued(s, t)
         /\ hole[d] > 0 /\ up[d] => /\ Len(incoming'[d]) = Len(incoming[d]) + 1
                                    /\ \A t : Queued(d, t)' <=> Queued(d, t) \/ m.type = t
         /\ ~(hole[d] > 0 /\ up[d]) => /\ Len(incoming'[d]) = Len(incoming[d])
                                       /\ \A t : Queued(d, t)' <=> Queued(d, t)
<1>1. m \in [type : {"ping", "pong"}, from : Fsm]
  BY DEF NetOK
<1>2. Datagram(m) \in Event /\ Datagram(m).type = m.type
  BY <1>1, DatagramProperties
<1>3. CASE hole[d] > 0 /\ up[d]
  <2>1. Receive(d, Datagram(m))
    BY <1>3 DEF Deliver, Datagram
  <2>2. Offer(d, Datagram(m)) /\ UNCHANGED <<state, winning, endpoints, timerVars>>
    BY <2>1 DEF Receive, snapshotVars
  <2> QED
    BY <1>2, <1>3, <2>2, OfferQueued DEF TypeOK
<1>4. CASE ~(hole[d] > 0 /\ up[d])
  <2>1. UNCHANGED vars
    BY <1>4, Zenon DEF Deliver
  <2>2. UNCHANGED <<state, winning, endpoints, timerVars, incoming>>
    BY <2>1 DEF vars, snapshotVars
  <2> QED
    BY <1>4, <2>2, QuietQueue
<1> QED
  BY <1>3, <1>4

\* An end whose NAT is open runs.
LEMMA OpenIsUp ==
  ASSUME DownIsIdle, NEW p \in Fsm, NEW q \in Fsm, Ends(p, q)
  PROVE  /\ hole[p] > 0 => up[p]
         /\ hole[q] > 0 => up[q]
         /\ ~(hole[p] > 0) => hole[p] = 0
         /\ ~(hole[q] > 0) => hole[q] = 0
<1>1. hole[p] \in Nat /\ hole[q] \in Nat
  BY Bounds DEF Ends, EndOK
<1>2. (hole[p] > 0 => up[p]) /\ (hole[q] > 0 => up[q])
  BY DEF Ends, PathInv, Started, DownIsIdle
<1> QED
  BY <1>1, <1>2

\* The load when a datagram from s to d is delivered or lost.
LEMMA NetLoad ==
  ASSUME TypeOK, TypeOK', NetOK, NEW s \in Fsm, NEW d \in Fsm, s # d, NEW m \in inflight, m.from = s,
         LoadOK(s, d), fired' = fired,
         Len(incoming'[s]) = Len(incoming[s]), Len(incoming'[d]) <= Len(incoming[d]) + 1,
         \/ inflight' = inflight \ {m} /\ faults' = faults
         \/ faults' = faults + 1 /\ (inflight' = inflight \/ inflight' = inflight \ {m})
  PROVE  LoadOK(s, d)'
<1>1. faults \in Nat /\ Len(incoming'[s]) <= Len(incoming[s])
  BY DEF NetOK, TypeOK, QueueOK
<1>2. ASSUME NEW x \in Fsm
      PROVE  Ticks(x)' <= Ticks(x) /\ Kas(x)' <= Kas(x)
  BY DEF Ticks, Kas
<1>3. ASSUME NEW x \in Fsm
      PROVE  Pings(x)' <= Pings(x) /\ Pongs(x)' <= Pongs(x)
  BY DEF Pings, Pongs
<1>4. Load(d)' <= Load(d) + 1 /\ Load(s)' <= Load(s)
  <2>1. Load(d)' <= Load(d) + 1
    BY <1>2, <1>3, LoadChange, Zenon DEF TypeOK
  <2>2. Load(s)' <= Load(s)
    BY <1>1, <1>2, <1>3, LoadChange, Zenon DEF TypeOK
  <2> QED
    BY <2>1, <2>2
<1>5. ASSUME inflight' = inflight \ {m}
      PROVE  Load(s)' <= Load(s) - 1
  <2>1. m = [type |-> m.type, from |-> s] /\ m.type \in {"ping", "pong"}
    BY DEF NetOK
  <2>2. Pings(s)' + Pongs(s)' <= (Pings(s) + Pongs(s)) - 1
    BY <1>5, <2>1 DEF Pings, Pongs
  <2> QED
    BY <1>1, <1>2, <2>2, LoadChange, Zenon DEF TypeOK
<1> QED
  BY <1>1, <1>4, <1>5, LoadMoves

\* A ping of p, or a pong for p, is delivered, lost or duplicated.
LEMMA NetStep ==
  ASSUME RdvInv, RdvInv', NEW p \in Fsm, NEW q \in Fsm, p # q, q = Peer(p), p = Peer(q), Ends(p, q),
         LoadOK(p, q), LoadOK(q, p), NEW m \in inflight,
         m.type = "ping" => m.from = p, m.type = "pong" => m.from = q,
         Arrive(m) \/ Duplicate(m) \/ Lose(m)
  PROVE  EndsStay(p, q) /\ (LoadOK(p, q)' \/ LoadOK(q, p)')
<1>1. TypeOK /\ TypeOK' /\ QueueOK /\ NetOK /\ DownIsIdle
  BY DEF RdvInv, TypeOK
<1>2. m.type \in {"ping", "pong"} /\ m = [type |-> m.type, from |-> m.from]
  BY <1>1 DEF NetOK
<1>3. /\ m.type = "ping" => PingFlies(p)
      /\ m.type = "pong" => PongFlies(q)
  BY <1>2 DEF PingFlies, PongFlies
<1>4. HasRoom(p) /\ HasRoom(q)
  BY <1>1, <1>2, <1>3, RoomLeft
<1>5. /\ UNCHANGED <<hole, together>>
      /\ \/ Deliver(m) /\ inflight' = inflight \ {m} /\ faults' = faults
         \/ Deliver(m) /\ inflight' = inflight /\ faults' = faults + 1
         \/ UNCHANGED vars /\ inflight' = inflight \ {m} /\ faults' = faults + 1
  BY DEF Arrive, Duplicate, Lose
<1>6. ASSUME NEW x \in Fsm
      PROVE  /\ PingFlies(x)' => PingFlies(x)
             /\ PongFlies(x)' => PongFlies(x)
             /\ ~(m.type = "ping" /\ m.from = x) => (PingFlies(x)' <=> PingFlies(x))
             /\ ~(m.type = "pong" /\ m.from = x) => (PongFlies(x)' <=> PongFlies(x))
             /\ inflight' = inflight => (PingFlies(x)' <=> PingFlies(x)) /\ (PongFlies(x)' <=> PongFlies(x))
  <2>1. CASE inflight' = inflight
    BY <2>1 DEF PingFlies, PongFlies
  <2>2. CASE inflight' = inflight \ {m}
    BY <1>1, <2>2, TakenOff
  <2> QED
    BY <1>5, <2>1, <2>2
<1>7. CASE m.type = "ping"
  <2>1. /\ UNCHANGED <<state, winning, endpoints, timerVars>>
        /\ Len(incoming'[p]) = Len(incoming[p]) /\ \A t : Queued(p, t)' <=> Queued(p, t)
        /\ Len(incoming'[q]) <= Len(incoming[q]) + 1
        /\ Queued(q, "pong")' <=> Queued(q, "pong")
        /\ Queued(q, "ping")' => Queued(q, "ping") \/ hole[q] > 0
        /\ faults' = faults /\ hole[q] > 0 => Queued(q, "ping")'
    <3>1. Len(incoming[q]) \in Nat
      BY <1>1 DEF QueueOK
    <3>2. CASE Deliver(m)
      <4>1. /\ UNCHANGED <<state, winning, endpoints, timerVars>>
            /\ Len(incoming'[p]) = Len(incoming[p]) /\ \A t : Queued(p, t)' <=> Queued(p, t)
            /\ hole[q] > 0 /\ up[q] => /\ Len(incoming'[q]) = Len(incoming[q]) + 1
                                       /\ \A t : Queued(q, t)' <=> Queued(q, t) \/ m.type = t
            /\ ~(hole[q] > 0 /\ up[q]) => /\ Len(incoming'[q]) = Len(incoming[q])
                                          /\ \A t : Queued(q, t)' <=> Queued(q, t)
        BY <1>1, <1>4, <1>7, <3>2, DeliverEffect, Zenon
      <4>2. hole[q] > 0 => up[q]
        BY <1>1, OpenIsUp
      <4>3. Len(incoming'[q]) <= Len(incoming[q]) + 1
        BY <3>1, <4>1
      <4> QED
        BY <1>7, <4>1, <4>2, <4>3
    <3>3. CASE UNCHANGED vars /\ faults' = faults + 1
      <4>1. UNCHANGED <<state, winning, endpoints, timerVars, incoming>> /\ faults' # faults
        BY <1>1, <3>3 DEF vars, snapshotVars, NetOK
      <4> QED
        BY <3>1, <4>1, QuietQueue
    <3> QED
      BY <1>5, <3>2, <3>3
  <2>2. SameEnd(p) /\ SameEnd(q)
    BY <1>5, <2>1 DEF SameEnd, SameTimers, timerVars, Knows
  <2>3. Asked(p, q) /\ (Asked(q, p)' <=> Asked(q, p))
    BY <1>3, <1>6, <1>7, <2>1 DEF Asked
  <2>4. faults' = faults /\ ~Asked(p, q)' => hole[q] = 0
    BY <1>1, <2>1, OpenIsUp DEF Asked
  <2>5. /\ PongFlies(q)' \/ Queued(p, "pong")' => PongFlies(q) \/ Queued(p, "pong")
        /\ PongFlies(p)' \/ Queued(q, "pong")' => PongFlies(p) \/ Queued(q, "pong")
    BY <1>6, <2>1
  <2>6. EndsStay(p, q)
    BY <1>5, <2>1, <2>2, <2>3, <2>4, <2>5, TrafficStep
  <2>7. LoadOK(p, q)'
    BY <1>1, <1>5, <1>7, <2>1, NetLoad DEF timerVars
  <2> QED
    BY <2>6, <2>7
<1>8. CASE m.type = "pong"
  <2>0. hole[p] > 0 /\ up[p]
    <3>1. hole[p] = HoleLife
      BY <1>3, <1>8 DEF Ends, PathInv, SameUnit, Asked
    <3> QED
      BY <1>1, <3>1, Bounds, OpenIsUp
  <2>1. /\ UNCHANGED <<state, winning, endpoints, timerVars>>
        /\ Len(incoming'[q]) = Len(incoming[q]) /\ \A t : Queued(q, t)' <=> Queued(q, t)
        /\ Len(incoming'[p]) <= Len(incoming[p]) + 1
        /\ Queued(p, "ping")' <=> Queued(p, "ping")
        /\ Queued(p, "pong") => Queued(p, "pong")'
        /\ faults' = faults => Queued(p, "pong")'
    <3>1. Len(incoming[p]) \in Nat
      BY <1>1 DEF QueueOK
    <3>2. CASE Deliver(m)
      <4>1. /\ UNCHANGED <<state, winning, endpoints, timerVars>>
            /\ Len(incoming'[q]) = Len(incoming[q]) /\ \A t : Queued(q, t)' <=> Queued(q, t)
            /\ Len(incoming'[p]) = Len(incoming[p]) + 1
            /\ \A t : Queued(p, t)' <=> Queued(p, t) \/ m.type = t
        BY <1>1, <1>4, <1>8, <2>0, <3>2, DeliverEffect, Zenon
      <4> QED
        BY <1>8, <3>1, <4>1
    <3>3. CASE UNCHANGED vars /\ faults' = faults + 1
      <4>1. UNCHANGED <<state, winning, endpoints, timerVars, incoming>> /\ faults' # faults
        BY <1>1, <3>3 DEF vars, snapshotVars, NetOK
      <4> QED
        BY <3>1, <4>1, QuietQueue
    <3> QED
      BY <1>5, <3>2, <3>3
  <2>2. SameEnd(p) /\ SameEnd(q)
    BY <1>5, <2>1 DEF SameEnd, SameTimers, timerVars, Knows
  <2>3. Asked(p, q) /\ (Asked(q, p)' <=> Asked(q, p))
    BY <1>3, <1>6, <1>8, <2>1 DEF Asked
  <2>4. faults' = faults => Asked(p, q)'
    BY <2>1 DEF Asked
  <2>5. /\ PongFlies(q) \/ Queued(p, "pong")
        /\ PongFlies(p)' \/ Queued(q, "pong")' => PongFlies(p) \/ Queued(q, "pong")
    BY <1>3, <1>6, <1>8, <2>1
  <2>6. EndsStay(p, q)
    BY <1>5, <2>1, <2>2, <2>3, <2>4, <2>5, TrafficStep
  <2>7. LoadOK(q, p)'
    BY <1>1, <1>5, <1>8, <2>1, NetLoad DEF timerVars
  <2> QED
    BY <2>6, <2>7
<1> QED
  BY <1>2, <1>7, <1>8

\* The load of a unit that begins: ticks and keepalives only.
LEMMA UnitLoad ==
  ASSUME RdvInv, NEW p \in Fsm, NEW q \in Fsm, RdvElapse
  PROVE  LoadOK(p, q)'
<1>1. ASSUME NEW x \in Fsm
      PROVE  Load(x)' \in Nat /\ Load(x)' <= 2
  <2>1. Len(incoming[x]) = 0 /\ ~PingFlies(x) /\ ~PongFlies(x)
    BY SettledEmpty DEF RdvInv, RdvElapse
  <2>2. UNCHANGED <<incoming, inflight>>
    BY DEF RdvElapse, Elapse
  <2>3. Len(incoming'[x]) = 0 /\ Pings(x)' = 0 /\ Pongs(x)' = 0
    BY <2>1, <2>2 DEF PingFlies, PongFlies, Pings, Pongs
  <2>4. Ticks(x)' \in Nat /\ Ticks(x)' <= 1 /\ Kas(x)' \in Nat /\ Kas(x)' <= 1
    BY LoadParts
  <2> QED
    BY <2>3, <2>4 DEF Load
<1>2. faults' \in Nat
  BY DEF RdvElapse, RdvInv, NetOK
<1> QED
  BY <1>1, <1>2 DEF LoadOK

-----------------------------------------------------------------------------
(* The whole invariant                                                     *)

PathsInv ==
  \A p \in Fsm : PathInv(p, Peer(p)) /\ RoundsCount(p, Peer(p)) /\ LoadOK(p, Peer(p))

LEMMA EndsHold ==
  ASSUME RdvInv, PathsInv, NEW p \in Fsm
  PROVE  Ends(p, Peer(p)) /\ LoadOK(p, Peer(p)) /\ LoadOK(Peer(p), p)
<1>1. Peer(p) \in Fsm /\ Peer(Peer(p)) = p
  BY PeerIsOther
<1>2. ASSUME NEW x \in Fsm PROVE EndOK(x)
  BY FsmAssumption DEF RdvInv, TypeOK, FieldsOK, NetOK, EndOK
<1>3. faults \in Nat /\ together \in Nat
  BY DEF RdvInv, NetOK
<1>4. /\ PathInv(p, Peer(p)) /\ PathInv(Peer(p), p) /\ RoundsCount(p, Peer(p))
      /\ LoadOK(p, Peer(p)) /\ LoadOK(Peer(p), p)
  BY <1>1, Zenon DEF PathsInv
<1> QED
  BY <1>1, <1>2, <1>3, <1>4, Zenon DEF Ends

\* The invariant of one end and its peer is that of both.
LEMMA BothEnds ==
  ASSUME RdvInv', NEW p \in Fsm, NEW q \in Fsm, q = Peer(p), EndsStay(p, q),
         LoadOK(p, q)' \/ LoadOK(q, p)'
  PROVE  PathsInv'
<1>1. p = Peer(q) /\ \A x \in Fsm : x = p \/ x = q
  BY PeerIsOther
<1>2. LoadOK(p, q)' /\ LoadOK(q, p)'
  <2>1. ASSUME NEW x \in Fsm PROVE Load(x)' \in Nat
    <3>1. Len(incoming'[x]) \in Nat
      BY DEF RdvInv, TypeOK, QueueOK
    <3>2. Ticks(x)' \in Nat /\ Kas(x)' \in Nat /\ Pings(x)' \in Nat /\ Pongs(x)' \in Nat
      BY LoadParts
    <3> QED
      BY <3>1, <3>2 DEF Load
  <2> QED
    BY <2>1 DEF LoadOK
<1>3. RoundsCount(q, p)'
  BY DEF EndsStay, RoundsCount
<1> QED
  BY <1>1, <1>2, <1>3 DEF PathsInv, EndsStay

LEMMA PathsInit == RdvInit => PathsInv
<1> SUFFICES ASSUME RdvInit, NEW p \in Fsm
             PROVE  PathInv(p, Peer(p)) /\ RoundsCount(p, Peer(p)) /\ LoadOK(p, Peer(p))
  BY DEF PathsInv
<1> DEFINE q == Peer(p)
<1>1. q \in Fsm
  BY PeerIsOther
<1> HIDE DEF q
<1>2. ASSUME NEW x \in Fsm
      PROVE  /\ state[x] = "unknown" /\ hole[x] = 0 /\ together = 0 /\ faults = 0
             /\ fired[x] = {} /\ Len(incoming[x]) = 0 /\ ~PingFlies(x) /\ ~PongFlies(x)
             /\ Pings(x) = 0 /\ Pongs(x) = 0 /\ Ticks(x) = 0 /\ Kas(x) = 0
  BY DEF RdvInit, Init, PingFlies, PongFlies, Pings, Pongs, Ticks, Kas
<1>3. ASSUME NEW x \in Fsm, NEW t PROVE ~Queued(x, t)
  <2>1. 1..0 = {}
    OBVIOUS
  <2> QED
    BY <1>2, <2>1, Zenon DEF Queued
<1>4. ~Asked(p, q)
  BY <1>1, <1>2, <1>3, Zenon DEF Asked
<1>5. together = 0 /\ faults = 0 /\ state[p] = "unknown" /\ state[q] = "unknown" /\ hole[p] = 0
  BY <1>1, <1>2
<1>6. PathInv(p, q)
  <2>1. Started(p, q) /\ SameUnit(p, q) /\ OneRound(p, q)
    BY <1>1, <1>2, <1>3, <1>4, <1>5 DEF Started, SameUnit, OneRound
  <2>2. AnswerRecent(p, q) /\ KeptOpen(p) /\ PunchOpen(p, q) /\ PongsCome(p, q)
    BY <1>5 DEF AnswerRecent, KeptOpen, PunchOpen, PongsCome
  <2> QED
    BY <2>1, <2>2 DEF PathInv
<1>7. RoundsCount(p, q)
  BY <1>5 DEF RoundsCount
<1>8. LoadOK(p, q)
  <2>1. ASSUME NEW x \in Fsm PROVE Load(x) = 0
    <3>1. Len(incoming[x]) = 0 /\ Pings(x) = 0 /\ Pongs(x) = 0 /\ Ticks(x) = 0 /\ Kas(x) = 0
      BY <1>2
    <3>2. (0 + (0 + 0)) + (0 + 0) = 0
      OBVIOUS
    <3> QED
      BY <3>1, <3>2, Zenon DEF Load
  <2>2. Load(p) = 0 /\ Load(q) = 0
    BY <1>1, <2>1
  <2> QED
    BY <1>5, <2>2 DEF LoadOK
<1> QED
  BY <1>6, <1>7, <1>8 DEF q

LEMMA PathsStep == RdvInv /\ RdvInv' /\ PathsInv /\ [RdvNext]_rdvVars => PathsInv'
<1> SUFFICES ASSUME RdvInv, RdvInv', PathsInv, [RdvNext]_rdvVars
             PROVE  PathsInv'
  OBVIOUS
<1>1. ASSUME NEW p \in Fsm
      PROVE  /\ Peer(p) \in Fsm /\ p # Peer(p) /\ p = Peer(Peer(p)) /\ Fsm = {p, Peer(p)}
             /\ Ends(p, Peer(p)) /\ LoadOK(p, Peer(p)) /\ LoadOK(Peer(p), p)
  BY EndsHold, PeerIsOther
<1>2. ASSUME NEW p \in Fsm,
             \/ Register(p) \/ PostEndpoints(p) \/ StartFsm(p) \/ PollAgain(p)
             \/ SendCallMeMaybe(p) \/ LoseSignal(p) \/ PullSignals(p)
      PROVE  PathsInv'
  <2>1. EndsStay(p, Peer(p)) /\ LoadOK(p, Peer(p))'
    BY <1>1, <1>2, ServiceStep
  <2> QED
    BY <1>1, <2>1, BothEnds
<1>3. ASSUME NEW p \in Fsm, StoreSnapshot(p) \/ UNCHANGED rdvVars
      PROVE  PathsInv'
  <2>1. EndsStay(p, Peer(p)) /\ LoadOK(p, Peer(p))'
    BY <1>1, <1>3, StoreStep
  <2> QED
    BY <1>1, <2>1, BothEnds
<1>4. ASSUME NEW p \in Fsm, RunHandle(p)
      PROVE  PathsInv'
  <2>1. EndsStay(p, Peer(p)) /\ LoadOK(p, Peer(p))'
    BY <1>1, <1>4, HandleStep
  <2> QED
    BY <1>1, <2>1, BothEnds
<1>5. ASSUME NEW p \in Fsm, RunTickPunch(p) \/ RunKeepalive(p)
      PROVE  PathsInv'
  <2>1. EndsStay(p, Peer(p)) /\ LoadOK(p, Peer(p))'
    BY <1>1, <1>5, TickerStep
  <2> QED
    BY <1>1, <2>1, BothEnds
<1>6. ASSUME NEW m \in inflight, Arrive(m) \/ Duplicate(m) \/ Lose(m)
      PROVE  PathsInv'
  <2>1. m.type \in {"ping", "pong"} /\ m.from \in Fsm
    BY DEF RdvInv, NetOK
  <2>2. PICK p \in Fsm : (m.type = "ping" => m.from = p) /\ (m.type = "pong" => m.from = Peer(p))
    BY <1>1, <2>1
  <2>3. EndsStay(p, Peer(p)) /\ (LoadOK(p, Peer(p))' \/ LoadOK(Peer(p), p)')
    BY <1>1, <1>6, <2>2, NetStep
  <2> QED
    BY <1>1, <2>3, BothEnds
<1>7. CASE RdvElapse
  <2>1. PICK p \in Fsm : TRUE
    BY RendezvousAssumption
  <2>2. EndsStay(p, Peer(p))
    BY <1>1, <1>7, UnitStep DEF RdvInv, RdvElapse
  <2>3. LoadOK(p, Peer(p))'
    BY <1>1, <1>7, UnitLoad
  <2> QED
    BY <1>1, <2>2, <2>3, BothEnds
<1>8. CASE UNCHANGED rdvVars
  <2>1. PICK p \in Fsm : TRUE
    BY RendezvousAssumption
  <2> QED
    BY <1>3, <1>8, <2>1
<1> QED
  BY <1>2, <1>3, <1>4, <1>5, <1>6, <1>7, <1>8 DEF RdvNext

LEMMA PathsInvariance == RdvSpec => [](RdvInv /\ PathsInv)
<1>1. RdvInit => RdvInv /\ PathsInv
  BY RdvInvInit, PathsInit
<1>2. RdvInv /\ PathsInv /\ [RdvNext]_rdvVars => (RdvInv /\ PathsInv)'
  BY RdvInvStep, PathsStep
<1> QED
  BY <1>1, <1>2, PTL DEF RdvSpec

\* Simultaneous punching works through two NATs: both ends are direct once they
\* have tried one another for two units, and one more for each fault.
THEOREM AttemptsMeet == RdvSpec => []TogetherConnects
<1>1. RdvInv /\ PathsInv => TogetherConnects
  <2> SUFFICES ASSUME RdvInv, PathsInv, Settled, together >= faults + 2, Tolerated, NEW p \in Fsm
               PROVE  state[p] = "direct"
    BY DEF TogetherConnects
  <2> DEFINE q == Peer(p)
  <2>1. q \in Fsm /\ Ends(p, q)
    BY EndsHold, PeerIsOther
  <2> HIDE DEF q
  <2>2. ASSUME NEW x \in Fsm
        PROVE  /\ ~PingFlies(x) /\ ~PongFlies(x) /\ \A t : ~Queued(x, t)
               /\ state[x] # "unknown" => fired[x] = {}
    BY SettledEmpty DEF RdvInv
  <2>3. ~Asked(p, q)
    BY <2>1, <2>2, Zenon DEF Asked
  <2>4. WillAsk(p, q) => state[p] = "direct"
    BY <2>2, <2>3 DEF WillAsk
  <2>5. faults \in Nat /\ together \in Nat /\ RoundsCount(p, q)
    BY <2>1 DEF Ends
  <2> QED
    BY <2>4, <2>5 DEF RoundsCount
<1> QED
  BY <1>1, PathsInvariance, PTL

\* A path that is up stays up: it takes a fault to lose a path that one end
\* still has, and as many as use up the pong deadline to lose one that both
\* have.
THEOREM PathsStay == RdvSpec => PathStays
<1> DEFINE Kept == \A p \in Fsm : state[p] = "direct" /\ state'[p] # "direct" =>
                     IF state[Peer(p)] = "direct" THEN ~Tolerated ELSE faults > 0
<1>1. RdvInv /\ PathsInv /\ [RdvNext]_rdvVars => Kept \/ UNCHANGED rdvVars
  <2> SUFFICES ASSUME RdvInv, PathsInv, [RdvNext]_rdvVars, NEW p \in Fsm,
                      state[p] = "direct", state'[p] # "direct"
               PROVE  IF state[Peer(p)] = "direct" THEN ~Tolerated ELSE faults > 0
    OBVIOUS
  <2>1. Peer(p) \in Fsm /\ Ends(p, Peer(p)) /\ TypeOK /\ FieldsOK
    BY EndsHold, PeerIsOther DEF RdvInv, TypeOK
  <2>2. RunKeepalive(p)
    <3>1. ~UNCHANGED state
      OBVIOUS
    <3>2. \E x \in Fsm : RunHandle(x) \/ RunTickPunch(x) \/ RunKeepalive(x)
      <4>1. ASSUME NEW x \in Fsm,
                   \/ Register(x) \/ PostEndpoints(x) \/ StartFsm(x) \/ PollAgain(x) \/ StoreSnapshot(x)
                   \/ SendCallMeMaybe(x) \/ LoseSignal(x) \/ PullSignals(x)
            PROVE  FALSE
        BY <3>1, <4>1 DEF Register, PostEndpoints, StartFsm, PollAgain, UpdateQueue, StoreSnapshot,
              UpdateStore, SendCallMeMaybe, LoseSignal, PullSignals, Receive, vars
      <4>2. ASSUME NEW m \in inflight, Arrive(m) \/ Duplicate(m) \/ Lose(m)
            PROVE  FALSE
        BY <3>1, <4>2 DEF Arrive, Duplicate, Lose, Deliver, Receive, vars
      <4>3. ~RdvElapse /\ ~UNCHANGED rdvVars
        BY <3>1 DEF RdvElapse, Elapse, rdvVars, vars
      <4> QED
        BY <4>1, <4>2, <4>3 DEF RdvNext
    <3>3. PICK x \in Fsm : RunHandle(x) \/ RunTickPunch(x) \/ RunKeepalive(x)
      BY <3>2
    <3>4. ~RunHandle(x)
      BY <2>1 DEF RunHandle, Handle, HandleUpdate, HandlePing, HandlePong, HandleCallMeMaybe,
                  OnPeerUpdate, OnPong, FieldsOK
    <3>5. ~RunTickPunch(x)
      BY <2>1 DEF RunTickPunch, TickPunch, FieldsOK
    <3>6. x = p
      BY <2>1, <3>3, <3>4, <3>5 DEF RunKeepalive, Keepalive, FieldsOK
    <3> QED
      BY <3>3, <3>4, <3>5, <3>6
  <2>3. "ka" \in fired[p] /\ pongAge[p] > PongMiss
    BY <2>2 DEF RunKeepalive, Keepalive
  <2>4. ~InReach(Peer(p))
    BY <2>1, <2>3, MissedPong
  <2>5. faults = 0 => Tolerated
    BY Bounds DEF Tolerated
  <2>6. faults \in Nat
    BY <2>1 DEF Ends
  <2> QED
    BY <2>4, <2>5, <2>6 DEF InReach
<1> QED
  BY <1>1, PathsInvariance, PTL DEF RdvSpec, PathStays

=============================================================================
