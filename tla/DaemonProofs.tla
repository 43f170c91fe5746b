---------------------------- MODULE DaemonProofs ----------------------------
(***************************************************************************)
(* Proofs about the map of FSMs in Daemon, for any finite set of keys, any *)
(* number of interfaces and any changes of the directory, and about the    *)
(* node's own identity in KeyFile, for any number of processes and         *)
(* identities.                                                             *)
(***************************************************************************)
EXTENDS Daemon, KeyFile, FiniteSetTheorems, TLAPS

FsmRec == [key : Key, phase : {"none", "run", "done"}, stop : BOOLEAN]

\* TypeOK but for the FSMs.
OthersOK ==
  /\ ctx \in BOOLEAN /\ errs \in BOOLEAN /\ nilMap \in BOOLEAN
  /\ main \in {"run", "down", "exit", "panic"}
  /\ peers \in [Key -> 0 .. MaxFsm]
  /\ ifaceSeq \in 0 .. MaxFsm
  /\ loop \in {"poll", "reconcile", "done"} /\ got \in SUBSET Key
  /\ link \in [Fsm -> BOOLEAN] /\ warned \in [Fsm -> BOOLEAN]
  /\ dir \in SUBSET Key /\ changes \in 0 .. MaxChanges

LEMMA TypeParts ==
  /\ TypeOK <=> OthersOK /\ fsm \in [Fsm -> FsmRec]
  /\ TypeOK' <=> OthersOK' /\ fsm' \in [Fsm -> FsmRec]
BY DEF TypeOK, OthersOK, FsmRec

LEMMA FsmRange == \A i : i \in Fsm <=> i \in Nat /\ 1 <= i /\ i <= MaxFsm
BY DaemonAssumption DEF Fsm

\* FSMs are numbered up to ifaceSeq, and the map has each under its own key.
Numbered ==
  /\ \A i \in Fsm : i > ifaceSeq => fsm[i].phase = "none"
  /\ \A k \in Key : peers[k] # 0 => peers[k] <= ifaceSeq /\ fsm[peers[k]].key = k

DInv == TypeOK /\ Numbered /\ RunningIsKnown

LEMMA DInvInit == Init => DInv
<1> SUFFICES ASSUME Init PROVE DInv
  OBVIOUS
<1> DEFINE r == [key |-> CHOOSE k \in Key : TRUE, phase |-> "none", stop |-> FALSE]
<1>1. r \in FsmRec /\ r.phase = "none"
  <2>1. (CHOOSE k \in Key : TRUE) \in Key
    BY DaemonAssumption
  <2> QED
    BY <2>1 DEF FsmRec
<1>2. fsm \in [Fsm -> {r}]
  BY DEF Init
<1> HIDE DEF r
<1>3. fsm \in [Fsm -> FsmRec] /\ \A i \in Fsm : fsm[i].phase = "none"
  BY <1>1, <1>2
<1>4. OthersOK
  <2>1. peers \in [Key -> 0 .. MaxFsm] /\ ifaceSeq \in 0 .. MaxFsm /\ changes \in 0 .. MaxChanges
    BY DaemonAssumption DEF Init
  <2>2. link \in [Fsm -> BOOLEAN] /\ warned \in [Fsm -> BOOLEAN]
    BY DEF Init
  <2> QED
    BY <2>1, <2>2, Zenon DEF Init, OthersOK
<1> QED
  BY <1>3, <1>4, TypeParts DEF Init, DInv, Numbered, RunningIsKnown

\* Stopping FSMs changes nothing else of them.
LEMMA StoppedFsm ==
  ASSUME NEW f \in [Fsm -> FsmRec], NEW S
  PROVE  /\ Stopped(f, S) \in [Fsm -> FsmRec]
         /\ \A i \in Fsm : /\ Stopped(f, S)[i].key = f[i].key /\ Stopped(f, S)[i].phase = f[i].phase
                           /\ Stopped(f, S)[i].stop <=> (f[i].stop \/ i \in S)
BY Zenon DEF Stopped, FsmRec

\* Starting FSMs under new numbers leaves the others alone.
LEMMA StartedFsm ==
  ASSUME TypeOK, NEW num \in Numberings
  PROVE  /\ Started(fsm, num) \in [Fsm -> FsmRec]
         /\ \A k \in New : num[k] \in Nat /\ num[k] > ifaceSeq /\ num[k] <= ifaceSeq + Cardinality(New)
         /\ \A k \in New : num[k] \in Fsm =>
              Started(fsm, num)[num[k]] = [key |-> k, phase |-> "run", stop |-> FALSE]
         /\ \A i \in Fsm : \/ Started(fsm, num)[i] = fsm[i] /\ \A k \in New : num[k] # i
                           \/ \E k \in New : num[k] = i
<1>1. New \subseteq Key /\ Cardinality(New) \in Nat
  <2>1. New \subseteq Key
    BY DEF New, TypeOK
  <2>2. IsFiniteSet(New)
    BY <2>1, DaemonAssumption, FS_Subset
  <2> QED
    BY <2>1, <2>2, FS_CardinalityType
<1>2. /\ num \in [New -> ifaceSeq + 1 .. ifaceSeq + Cardinality(New)]
      /\ \A k, l \in New : num[k] = num[l] => k = l
  BY DEF Numberings
<1>3. \A k \in New : num[k] \in Nat /\ num[k] > ifaceSeq /\ num[k] <= ifaceSeq + Cardinality(New)
  BY <1>1, <1>2 DEF TypeOK
<1>4. ASSUME NEW i \in Fsm, NEW k \in New, num[k] = i
      PROVE  Started(fsm, num)[i] = [key |-> k, phase |-> "run", stop |-> FALSE]
  <2>1. (CHOOSE l \in DOMAIN num : num[l] = i) = k
    BY <1>2, <1>4
  <2> QED
    BY <1>2, <1>4, <2>1, Zenon DEF Started
<1>5. ASSUME NEW i \in Fsm, \A k \in New : num[k] # i
      PROVE  Started(fsm, num)[i] = fsm[i]
  BY <1>2, <1>5 DEF Started
<1>6. \A i \in Fsm : Started(fsm, num)[i] \in FsmRec
  <2> TAKE i \in Fsm
  <2>1. CASE \E k \in New : num[k] = i
    <3>1. PICK k \in New : num[k] = i
      BY <2>1
    <3>2. k \in Key /\ Started(fsm, num)[i] = [key |-> k, phase |-> "run", stop |-> FALSE]
      BY <1>1, <1>4, <3>1
    <3> QED
      BY <3>2 DEF FsmRec
  <2>2. CASE \A k \in New : num[k] # i
    BY <1>5, <2>2, TypeParts
  <2> QED
    BY <2>1, <2>2
<1>7. Started(fsm, num) = [i \in Fsm |-> Started(fsm, num)[i]]
  BY DEF Started
<1> QED
  BY <1>3, <1>4, <1>5, <1>6, <1>7, Zenon

LEMMA ReconcileStep ==
  ASSUME DInv, reconcilePeers
  PROVE  DInv'
<1> USE DEF DInv, reconcilePeers, dirVars
<1>1. CASE ReconcileNil
  BY <1>1 DEF ReconcileNil, TypeOK, Numbered, RunningIsKnown
<1>2. CASE Reconcile
  <2>1. PICK num \in Numberings :
          /\ peers' = [k \in Key |-> IF k \in New THEN num[k] ELSE IF k \in got THEN peers[k] ELSE 0]
          /\ fsm'   = Stopped(Started(fsm, num), {peers[k] : k \in Gone})
    BY <1>2 DEF Reconcile
  <2>2. /\ ifaceSeq' = ifaceSeq + Cardinality(New) /\ ifaceSeq' <= MaxFsm /\ UNCHANGED main
        /\ Cardinality(New) \in Nat
    <3>1. New \subseteq Key
      BY DEF New, TypeOK
    <3>2. IsFiniteSet(New)
      BY <3>1, DaemonAssumption, FS_Subset
    <3> QED
      BY <1>2, <3>2, FS_CardinalityType DEF Reconcile
  <2> DEFINE g == Started(fsm, num)
             S == {peers[k] : k \in Gone}
  <2>t. ifaceSeq \in Nat /\ ifaceSeq' \in Nat /\ MaxFsm \in Nat /\ New \subseteq Key
    BY <2>2, TypeParts, DaemonAssumption DEF OthersOK, New
  <2>n. \A k \in New : num[k] \in Nat /\ num[k] > ifaceSeq /\ num[k] <= ifaceSeq'
    BY <2>2, StartedFsm
  <2>f. \A k \in New : num[k] \in Fsm
    BY <2>2, <2>t, <2>n, FsmRange
  <2>3. /\ g \in [Fsm -> FsmRec]
        /\ \A k \in New : g[num[k]] = [key |-> k, phase |-> "run", stop |-> FALSE]
        /\ \A i \in Fsm : (g[i] = fsm[i] /\ \A k \in New : num[k] # i) \/ \E k \in New : num[k] = i
    BY <2>f, StartedFsm
  <2>k. ASSUME NEW k \in New PROVE g[num[k]].key = k
    <3>1. g[num[k]] = [key |-> k, phase |-> "run", stop |-> FALSE]
      BY ONLY <2>f, StartedFsm, TypeOK, num \in Numberings DEF g
    <3> HIDE DEF g, DInv, reconcilePeers, dirVars
    <3> QED
      BY ONLY <3>1
  <2> HIDE DEF g
  <2>4. /\ fsm' \in [Fsm -> FsmRec]
        /\ \A i \in Fsm : /\ fsm'[i].key = g[i].key /\ fsm'[i].phase = g[i].phase
                          /\ fsm'[i].stop <=> (g[i].stop \/ i \in S)
    <3>1. fsm' = Stopped(g, S)
      BY <2>1 DEF g
    <3> QED
      BY <2>3, <3>1, StoppedFsm
  <2>5. TypeOK'
    <3>1. peers' \in [Key -> 0 .. MaxFsm]
      <4>1. \A k \in Key : peers[k] \in 0 .. MaxFsm
        BY TypeParts DEF OthersOK
      <4>2. \A k \in New : num[k] \in 0 .. MaxFsm
        BY <2>f DEF Fsm
      <4> QED
        BY <2>1, <2>t, <4>1, <4>2
    <3>2. ifaceSeq' \in 0 .. MaxFsm
      BY <2>2, TypeParts, DaemonAssumption DEF OthersOK
    <3>3. OthersOK'
      BY <2>2, <3>1, <3>2, TypeParts DEF OthersOK
    <3> QED
      BY <2>4, <3>3, TypeParts
  <2>6. Numbered'
    <3>1. ASSUME NEW i \in Fsm, i > ifaceSeq' PROVE fsm'[i].phase = "none"
      <4>1. \A k \in New : num[k] # i
        BY <2>t, <2>n, <3>1, FsmRange
      <4>2. i > ifaceSeq
        BY <2>2, <3>1, FsmRange, TypeParts DEF OthersOK
      <4> QED
        BY <2>3, <2>4, <4>1, <4>2 DEF Numbered
    <3>2. ASSUME NEW k \in Key, peers'[k] # 0
          PROVE  peers'[k] <= ifaceSeq' /\ fsm'[peers'[k]].key = k
      <4>1. CASE k \in New
        <5>1. peers'[k] = num[k]
          BY <2>1, <4>1
        <5>2. g[num[k]].key = k
          BY <2>k, <4>1
        <5> QED
          BY <2>n, <2>f, <2>4, <4>1, <5>1, <5>2
      <4>2. CASE k \notin New
        <5>1. peers'[k] = peers[k] /\ peers[k] \in Fsm /\ peers[k] <= ifaceSeq /\ fsm[peers[k]].key = k
          BY <2>1, <3>2, <4>2, FsmRange, TypeParts DEF Numbered, OthersOK
        <5>2. \A l \in New : num[l] # peers[k]
          BY <2>t, <2>n, <5>1, FsmRange
        <5> QED
          BY <2>2, <2>3, <2>4, <5>1, <5>2, FsmRange, TypeParts DEF OthersOK
      <4> QED
        BY <4>1, <4>2
    <3> QED
      BY <3>1, <3>2 DEF Numbered
  <2>7. RunningIsKnown'
    <3> SUFFICES ASSUME NEW i \in Fsm, fsm'[i].phase = "run", ~fsm'[i].stop
                 PROVE  peers'[fsm'[i].key] = i
      BY DEF RunningIsKnown
    <3>1. CASE \E k \in New : num[k] = i
      <4>1. PICK k \in New : num[k] = i
        BY <3>1
      <4>2. k \in Key /\ fsm'[i].key = k
        <5>1. g[i].key = k
          BY <2>k, <4>1
        <5> QED
          BY <2>t, <2>4, <4>1, <5>1
      <4> QED
        BY <2>1, <4>1, <4>2
    <3>2. CASE ~\E k \in New : num[k] = i
      <4>1. fsm'[i].key = fsm[i].key /\ fsm[i].phase = "run" /\ ~fsm[i].stop /\ i \notin S
        BY <2>3, <2>4, <3>2
      <4>2. fsm[i].key \in Key /\ peers[fsm[i].key] = i /\ i # 0
        BY <4>1 DEF RunningIsKnown, TypeOK, Fsm
      <4>3. fsm[i].key \in got
        BY <4>1, <4>2 DEF Gone
      <4> QED
        BY <2>1, <4>1, <4>2, <4>3 DEF New
    <3> QED
      BY <3>1, <3>2
  <2> QED
    BY <2>5, <2>6, <2>7
<1> QED
  BY <1>1, <1>2

LEMMA DInvNext == DInv /\ [Next]_vars => DInv'
<1> SUFFICES ASSUME DInv, [Next]_vars PROVE DInv'
  OBVIOUS
<1> USE DEF DInv, mapVars, pollVars, fsmVars, dirVars
<1>1. CASE Signal \/ LoopFails \/ Exit \/ Poll \/ PollEnds \/ DirChange \/ UNCHANGED vars
  <2> USE DEF Signal, LoopFails, Exit, Poll, PollEnds, DirChange, vars
  <2>1. UNCHANGED <<fsm, peers, ifaceSeq>>
    BY <1>1
  <2>2. OthersOK'
    <3>1. OthersOK
      BY TypeParts
    <3>2. CASE DirChange
      BY <3>1, <3>2, DaemonAssumption DEF OthersOK
    <3>3. CASE Poll \/ PollEnds
      BY <3>1, <3>3 DEF OthersOK
    <3>4. CASE Signal \/ LoopFails \/ Exit \/ UNCHANGED vars
      BY <3>1, <3>4, Zenon DEF OthersOK
    <3> QED
      BY <1>1, <3>2, <3>3, <3>4, Zenon
  <2> QED
    BY <2>1, <2>2, TypeParts DEF Numbered, RunningIsKnown
<1>2. CASE Shutdown
  <2> DEFINE S == {peers[k] : k \in Key}
  <2>1. /\ fsm' \in [Fsm -> FsmRec]
        /\ \A i \in Fsm : /\ fsm'[i].key = fsm[i].key /\ fsm'[i].phase = fsm[i].phase
                          /\ fsm'[i].stop <=> (fsm[i].stop \/ i \in S)
    BY <1>2, StoppedFsm, TypeParts DEF Shutdown
  <2>2. TypeOK' /\ Numbered'
    <3>1. OthersOK'
      BY <1>2, TypeParts, DaemonAssumption DEF Shutdown, OthersOK
    <3> QED
      BY <1>2, <2>1, <3>1, TypeParts DEF Shutdown, Numbered
  <2>3. RunningIsKnown'
    BY <2>1 DEF RunningIsKnown, TypeOK
  <2> QED
    BY <2>2, <2>3
<1>3. CASE reconcilePeers
  BY <1>3, ReconcileStep
<1>4. ASSUME NEW i \in Fsm, BringUp(i) \/ Finish(i) PROVE DInv'
  <2>1. TypeOK'
    <3>1. OthersOK'
      BY <1>4, TypeParts, Zenon DEF BringUp, Finish, OthersOK
    <3>2. fsm' \in [Fsm -> FsmRec]
      BY <1>4, TypeParts DEF BringUp, Finish, FsmRec
    <3> QED
      BY <3>1, <3>2, TypeParts
  <2>2. /\ peers' = peers /\ ifaceSeq' = ifaceSeq
        /\ \A j \in Fsm : /\ fsm'[j].key = fsm[j].key /\ fsm'[j].stop = fsm[j].stop
                          /\ fsm'[j].phase = fsm[j].phase
                             \/ (fsm[j].phase = "run" /\ fsm'[j].phase = "done")
    BY <1>4 DEF BringUp, Finish, TypeOK
  <2>3. Numbered'
    <3>1. \A k \in Key : peers[k] # 0 => peers[k] \in Fsm
      BY DaemonAssumption DEF TypeOK, Fsm
    <3> QED
      BY <2>2, <3>1 DEF Numbered
  <2>4. RunningIsKnown'
    BY <2>2 DEF RunningIsKnown
  <2> QED
    BY <2>1, <2>3, <2>4
<1> QED
  BY <1>1, <1>2, <1>3, <1>4 DEF Next

\* The variables keep their types, whatever the directory does.
THEOREM TypeCorrect == Spec => []TypeOK
BY DInvInit, DInvNext, PTL DEF Spec, DInv

\* An FSM that runs and has not been told to stop is the one that the map has
\* for its key, through any sequence of lists, however late they are applied,
\* and through shutdown.
THEOREM RunningFsmsAreKnown == Spec => []RunningIsKnown
BY DInvInit, DInvNext, PTL DEF Spec, DInv

-----------------------------------------------------------------------------
(* The key file                                                            *)

\* What is in the file, and what a running process has, was saved.
SavedInv == (file \in Identity => file \in saved) /\ IdentityWasSaved

KInv == KeyTypeOK /\ SavedInv

LEMMA KInvInit == KeyInit => KInv
BY KeysAssumption DEF KeyInit, KInv, KeyTypeOK, SavedInv, IdentityWasSaved, Identity, Mixed, Absent, Truncated

LEMMA KInvNext == KInv /\ [KeyNext]_keyVars => KInv'
<1> SUFFICES ASSUME KInv, [KeyNext]_keyVars PROVE KInv'
  OBVIOUS
<1> USE KeysAssumption DEF KInv, KeyTypeOK, SavedInv, IdentityWasSaved, Identity, Mixed, Absent, Truncated
<1>1. CASE UNCHANGED keyVars
  BY <1>1 DEF keyVars
<1>2. ASSUME NEW p \in Proc, Start(p) PROVE KInv'
  BY <1>2 DEF Start
<1>3. ASSUME NEW p \in Proc, Load(p) PROVE KInv'
  BY <1>3 DEF Load
<1>4. ASSUME NEW p \in Proc, Generate(p) PROVE KInv'
  BY <1>4 DEF Generate
<1>5. ASSUME NEW p \in Proc, Create(p) PROVE KInv'
  BY <1>5 DEF Create
<1>6. ASSUME NEW p \in Proc, Write(p) PROVE KInv'
  <2>1. CASE /\ file' = keys[p] /\ saved' = saved \cup {keys[p]}
             /\ pc' = [pc EXCEPT ![p] = "up"] /\ UNCHANGED <<keys, made>>
    BY <1>6, <2>1 DEF Write
  <2> DEFINE Fails == /\ pc' = [pc EXCEPT ![p] = "failed"]
                      /\ keys' = [keys EXCEPT ![p] = 0] /\ UNCHANGED made
  <2>2. CASE Fails /\ UNCHANGED <<file, saved>>
    BY <1>6, <2>2 DEF Write
  <2>3. CASE Fails /\ file' = Truncated /\ UNCHANGED saved
    BY <1>6, <2>3 DEF Write
  <2>4. CASE Fails /\ file' = Mixed /\ saved' = saved \cup {Mixed}
    BY <1>6, <2>4 DEF Write
  <2> QED
    BY <1>6, <2>1, <2>2, <2>3, <2>4, Zenon DEF Write
<1>7. ASSUME NEW p \in Proc, Crash(p) PROVE KInv'
  BY <1>7 DEF Crash
<1> QED
  BY <1>1, <1>2, <1>3, <1>4, <1>5, <1>6, <1>7 DEF KeyNext

\* From a settled state no step creates, truncates or writes.
LEMMA SettledNext == KInv /\ [KeyNext]_keyVars => (Settled => Settled' /\ file' = file)
<1> SUFFICES ASSUME KInv, [KeyNext]_keyVars, Settled PROVE Settled' /\ file' = file
  OBVIOUS
<1> USE DEF Settled, Creating
<1>1. CASE UNCHANGED keyVars
  BY <1>1 DEF keyVars
<1>2. ASSUME NEW p \in Proc, Start(p) \/ Load(p) \/ Crash(p) PROVE Settled' /\ file' = file
  BY <1>2 DEF Start, Load, Crash, KInv, KeyTypeOK
<1>3. ASSUME NEW p \in Proc, Generate(p) \/ Create(p) \/ Write(p) PROVE FALSE
  BY <1>3 DEF Generate, Create, Write, Identity, Absent
<1> QED
  BY <1>1, <1>2, <1>3 DEF KeyNext

\* A call of LoadOrCreateKeys that fails, at whichever system call, returns no
\* keys, and one that succeeds returns some.
THEOREM KeysTypeCorrect == KeySpec => []KeyTypeOK
BY KInvInit, KInvNext, PTL DEF KeySpec, KInv

\* No process runs under an identity that the file has never held whole, however
\* many start at once and wherever they crash.
THEOREM IdentitiesWereSaved == KeySpec => []IdentityWasSaved
BY KInvInit, KInvNext, PTL DEF KeySpec, KInv, SavedInv

\* An identity that is saved while no process is creating one is kept for ever.
THEOREM IdentitiesSettle == KeySpec => IdentitySettles
<1>1. KInv /\ [KeyNext]_keyVars => [Settled => Settled' /\ file' = file]_keyVars
  BY SettledNext
<1> QED
  BY KInvInit, KInvNext, <1>1, PTL DEF KeySpec, IdentitySettles

=============================================================================
