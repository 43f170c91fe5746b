------------------------------- MODULE Daemon -------------------------------
(***************************************************************************)
(* The daemon (internal/daemon/daemon.go): Run, the peers poll loop and    *)
(* reconcilePeers, which starts and stops one peer FSM per disco key, and  *)
(* shutdown.  The loops and the FSMs are goroutines; the map of FSMs is    *)
(* read and written under d.mu, so each critical section is one step.      *)
(*                                                                         *)
(* An FSM is reduced to what the daemon can see of it: it runs, it may     *)
(* bring its link up, it ends by deleting it (PeerFSM has the rest).       *)
(***************************************************************************)
EXTENDS Integers, FiniteSets

CONSTANTS
  Key,          \* disco keys of the other nodes
  MaxFsm,       \* bound: interface numbers
  MaxChanges    \* bound: changes of the directory

ASSUME DaemonAssumption ==
  MaxFsm \in Nat /\ MaxChanges \in Nat /\ IsFiniteSet(Key) /\ Key # {}

VARIABLES
  ctx,       \* the context is cancelled
  errs,      \* a loop has sent its error
  main,      \* Run: "run", "down" after shutdown, "exit", or "panic"
  peers,     \* d.peers: the number of a key's FSM, 0 for none
  nilMap,    \* d.peers is nil
  ifaceSeq,  \* interfaces named so far
  loop,      \* the poll loop: "poll", "reconcile", "done"
  got,       \* the list it has received
  fsm,       \* fsm[i] = [key, phase, stop]: phase "none", "run", "done"
  link,      \* link[i]: the interface exists
  warned,    \* warned[i]: its deletion has failed, and been logged
  dir,       \* the coordinator's list
  changes

Fsm == 1 .. MaxFsm

pollVars == <<loop, got>>
fsmVars  == <<fsm, link, warned>>
mapVars  == <<peers, nilMap, ifaceSeq>>
dirVars  == <<dir, changes>>
vars == <<ctx, errs, main, mapVars, pollVars, fsmVars, dirVars>>

-----------------------------------------------------------------------------
Alive == main \in {"run", "down"}

Init ==
  /\ ctx = FALSE /\ errs = FALSE /\ main = "run"
  /\ peers = [k \in Key |-> 0] /\ nilMap = FALSE /\ ifaceSeq = 0
  /\ loop = "poll" /\ got = {}
  /\ fsm \in [Fsm -> {[key |-> CHOOSE k \in Key : TRUE, phase |-> "none", stop |-> FALSE]}]
  /\ link = [i \in Fsm |-> FALSE] /\ warned = [i \in Fsm |-> FALSE]
  /\ dir \in SUBSET Key /\ changes = 0

\* SIGINT or SIGTERM.
Signal ==
  /\ Alive /\ ~ctx
  /\ ctx' = TRUE
  /\ UNCHANGED <<errs, main, mapVars, pollVars, fsmVars, dirVars>>

\* discoReadLoop gives up: the socket has failed.
LoopFails ==
  /\ Alive /\ ~errs
  /\ errs' = TRUE
  /\ UNCHANGED <<ctx, main, mapVars, pollVars, fsmVars, dirVars>>

Stopped(f, S) == [i \in Fsm |-> [f[i] EXCEPT !.stop = @ \/ i \in S]]

Shutdown ==
  /\ main = "run" /\ (ctx \/ errs)
  /\ fsm'    = Stopped(fsm, {peers[k] : k \in Key})
  /\ peers'  = [k \in Key |-> 0]
  /\ nilMap' = TRUE
  /\ main'   = "down"
  /\ UNCHANGED <<ctx, errs, ifaceSeq, pollVars, link, warned, dirVars>>

\* Run returns: the deferred calls are made and the process ends.
Exit ==
  /\ main = "down"
  /\ main' = "exit"
  /\ UNCHANGED <<ctx, errs, mapVars, pollVars, fsmVars, dirVars>>

-----------------------------------------------------------------------------
(* peersPollLoop                                                           *)

Poll ==
  /\ Alive /\ loop = "poll" /\ ~ctx
  /\ loop' = "reconcile" /\ got' = dir
  /\ UNCHANGED <<ctx, errs, main, mapVars, fsmVars, dirVars>>

\* The loop sees the cancelled context, before a poll or as a poll's error.
\* (A poll that fails otherwise is tried again, and changes nothing.)
PollEnds ==
  /\ Alive /\ loop = "poll" /\ ctx
  /\ loop' = "done" /\ got' = {}
  /\ UNCHANGED <<ctx, errs, main, mapVars, fsmVars, dirVars>>

New  == {k \in got : peers[k] = 0}
Gone == {k \in Key \ got : peers[k] # 0}

Started(f, num) ==
  [i \in Fsm |-> IF \E k \in DOMAIN num : num[k] = i
                   THEN [key |-> CHOOSE k \in DOMAIN num : num[k] = i, phase |-> "run", stop |-> FALSE]
                   ELSE f[i]]

\* New interfaces are numbered in the order of the list, which is any order.
Numberings ==
  {num \in [New -> ifaceSeq + 1 .. ifaceSeq + Cardinality(New)] :
     \A k, l \in New : num[k] = num[l] => k = l}

\* (Two faulty variants of the branch on a map that is not nil: one forgets to
\* stop the FSMs that it drops, one never drops any.)
ReconcileForgetting ==
  /\ ~nilMap
  /\ ifaceSeq + Cardinality(New) <= MaxFsm
  /\ \E num \in Numberings :
       /\ peers' = [k \in Key |-> IF k \in New THEN num[k] ELSE IF k \in got THEN peers[k] ELSE 0]
       /\ fsm'   = Started(fsm, num)
  /\ ifaceSeq' = ifaceSeq + Cardinality(New)
  /\ UNCHANGED main

ReconcileKeeping ==
  /\ ~nilMap
  /\ ifaceSeq + Cardinality(New) <= MaxFsm
  /\ \E num \in Numberings :
       /\ peers' = [k \in Key |-> IF k \in New THEN num[k] ELSE peers[k]]
       /\ fsm'   = Started(fsm, num)
  /\ ifaceSeq' = ifaceSeq + Cardinality(New)
  /\ UNCHANGED main

\* Start an FSM for each key that is new, stop and drop those that are gone.
\* (What update does for the others is an action of PeerFSM.)
Reconcile ==
  /\ ~nilMap
  /\ ifaceSeq + Cardinality(New) <= MaxFsm
  /\ \E num \in Numberings :
       /\ peers' = [k \in Key |-> IF k \in New THEN num[k] ELSE IF k \in got THEN peers[k] ELSE 0]
       /\ fsm'   = Stopped(Started(fsm, num), {peers[k] : k \in Gone})
  /\ ifaceSeq' = ifaceSeq + Cardinality(New)
  /\ UNCHANGED main

\* After shutdown: the first assignment to the nil map panics.
ReconcileNil ==
  /\ nilMap
  /\ main' = IF New = {} THEN main ELSE "panic"
  /\ UNCHANGED <<peers, fsm, ifaceSeq>>

reconcilePeers ==
  /\ Alive /\ loop = "reconcile"
  /\ Reconcile \/ ReconcileNil
  /\ loop' = "poll" /\ got' = {}
  /\ UNCHANGED <<ctx, errs, nilMap, link, warned, dirVars>>

-----------------------------------------------------------------------------
(* FSMs                                                                    *)

BringUp(i) ==
  /\ Alive /\ fsm[i].phase = "run" /\ ~link[i]
  /\ link' = [link EXCEPT ![i] = TRUE]
  /\ UNCHANGED <<ctx, errs, main, mapVars, pollVars, fsm, warned, dirVars>>

\* run returns and teardown deletes the link, or logs that it could not.
Finish(i) ==
  /\ Alive /\ fsm[i].phase = "run" /\ (ctx \/ fsm[i].stop)
  /\ fsm' = [fsm EXCEPT ![i].phase = "done"]
  /\ \/ link' = [link EXCEPT ![i] = FALSE] /\ UNCHANGED warned
     \/ link[i] /\ warned' = [warned EXCEPT ![i] = TRUE] /\ UNCHANGED link
  /\ UNCHANGED <<ctx, errs, main, mapVars, pollVars, dirVars>>

-----------------------------------------------------------------------------
\* Nodes register, change keys, or are forgotten with a coordinator restart.
DirChange ==
  /\ changes < MaxChanges
  /\ changes' = changes + 1
  /\ dir' \in SUBSET Key
  /\ UNCHANGED <<ctx, errs, main, mapVars, pollVars, fsmVars>>

Next ==
  \/ Signal \/ LoopFails \/ Shutdown \/ Exit
  \/ Poll \/ PollEnds \/ reconcilePeers
  \/ \E i \in Fsm : BringUp(i) \/ Finish(i)
  \/ DirChange

Spec == Init /\ [][Next]_vars

\* Polls return (the client has a timeout), the coordinator answers, and the
\* poll loop goes on to apply the list.
Fairness == WF_vars(Poll) /\ WF_vars(reconcilePeers)

FairSpec == Spec /\ Fairness

-----------------------------------------------------------------------------
(* Properties                                                              *)

\* Every variable has its type; the FSMs in the map are FSMs that exist.
TypeOK ==
  /\ ctx \in BOOLEAN /\ errs \in BOOLEAN /\ nilMap \in BOOLEAN
  /\ main \in {"run", "down", "exit", "panic"}
  /\ peers \in [Key -> 0 .. MaxFsm]
  /\ ifaceSeq \in 0 .. MaxFsm
  /\ loop \in {"poll", "reconcile", "done"} /\ got \in SUBSET Key
  /\ fsm \in [Fsm -> [key : Key, phase : {"none", "run", "done"}, stop : BOOLEAN]]
  /\ link \in [Fsm -> BOOLEAN] /\ warned \in [Fsm -> BOOLEAN]
  /\ dir \in SUBSET Key /\ changes \in 0 .. MaxChanges

\* An FSM that runs and has not been told to stop is the one the map has for
\* its key: there is one per key, reconcilePeers and shutdown can still reach
\* it, and datagrams of its peer are handed to it and no other.
RunningIsKnown ==
  \A i \in Fsm : fsm[i].phase = "run" /\ ~fsm[i].stop => peers[fsm[i].key] = i

\* The FSMs come to be those of the coordinator's list, if the list and the
\* process last: however late a list is applied, the last one decides.
PeersFollowDirectory ==
  <>[](main = "run" /\ ~ctx) =>
    <>[](\A k \in Key : peers[k] # 0 <=> k \in dir)

-----------------------------------------------------------------------------
(* What the command's help says, and the code does not do.                 *)

\* On SIGINT or SIGTERM the process shuts down; it does not die of a panic.
ShutsDownCleanly == main = "panic" => errs

=============================================================================
