------------------------------ MODULE ProbePool ------------------------------
(***************************************************************************)
(* ProbeTargets (internal/health/probe.go): one goroutine per target,      *)
(* bounded by a semaphore, each running Probe, under a context that may be *)
(* cancelled at any time.                                                  *)
(*                                                                         *)
(* A Probe succeeds with the first echo reply that its raw socket hears.   *)
(* The socket hears the replies to every probe of the host, so that the    *)
(* outcome does not depend on whether this target has answered: it is any. *)
(***************************************************************************)
EXTENDS Integers, Sequences, FiniteSets, Functions

CONSTANTS
  Targets,       \* the list of targets, with repetitions
  Concurrency    \* as the caller passes it

ASSUME PoolAssumption ==
  /\ Targets \in Seq(Range(Targets)) /\ Targets # <<>>
  /\ Concurrency \in Int

VARIABLES
  ctx,       \* the context is cancelled
  main,      \* "idle" before the call, then "loop", "wait", "returned"
  next,      \* index of the next target to dispatch
  worker,    \* the goroutines, by index
  sem,       \* slots of the semaphore that are taken
  results    \* the map that is returned

vars == <<ctx, main, next, worker, sem, results>>

Index  == 1 .. Len(Targets)
Target == Range(Targets)

\* concurrency after its defaulting.
Slots == IF Concurrency <= 0 \/ Concurrency > Len(Targets) THEN Len(Targets) ELSE Concurrency

Init ==
  /\ ctx = FALSE /\ main = "loop" /\ next = 1 /\ sem = 0
  /\ worker  = [i \in Index |-> "none"]
  /\ results = [t \in Target |-> "none"]

CancelContext ==
  /\ ~ctx /\ main # "returned"
  /\ ctx' = TRUE
  /\ UNCHANGED <<main, next, worker, sem, results>>

-----------------------------------------------------------------------------
(* The dispatching loop                                                    *)

Dispatch ==
  /\ main = "loop" /\ next <= Len(Targets) /\ ~ctx
  /\ worker' = [worker EXCEPT ![next] = "acquire"]
  /\ next' = next + 1
  /\ UNCHANGED <<ctx, main, sem, results>>

\* All are dispatched, or the context was found cancelled.
Dispatched ==
  /\ main = "loop" /\ (next > Len(Targets) \/ ctx)
  /\ main' = "wait"
  /\ UNCHANGED <<ctx, next, worker, sem, results>>

\* wg.Wait.  (The faulty variant does not count goroutines that have not got
\* a slot yet, as if wg.Add came after it.)
ReturnEarly ==
  /\ main = "wait" /\ \A i \in Index : worker[i] \in {"none", "acquire", "done"}
  /\ main' = "returned"
  /\ UNCHANGED <<ctx, next, worker, sem, results>>

Return ==
  /\ main = "wait" /\ \A i \in Index : worker[i] \in {"none", "done"}
  /\ main' = "returned"
  /\ UNCHANGED <<ctx, next, worker, sem, results>>

-----------------------------------------------------------------------------
(* The goroutines                                                          *)

\* (The faulty variant takes a slot whether or not one is free.)
AcquireAlways(i) ==
  /\ worker[i] = "acquire"
  /\ sem' = sem + 1
  /\ worker' = [worker EXCEPT ![i] = "listen"]
  /\ UNCHANGED <<ctx, main, next, results>>

Acquire(i) ==
  /\ worker[i] = "acquire" /\ sem < Slots
  /\ sem' = sem + 1
  /\ worker' = [worker EXCEPT ![i] = "listen"]
  /\ UNCHANGED <<ctx, main, next, results>>

\* The other case of the select: the goroutine ends without a slot.
GiveUp(i) ==
  /\ worker[i] = "acquire" /\ ctx
  /\ results' = [results EXCEPT ![Targets[i]] = "cancelled"]
  /\ worker'  = [worker EXCEPT ![i] = "done"]
  /\ UNCHANGED <<ctx, main, next, sem>>

\* Probe: open the socket, unless the context is cancelled or that fails.
Listen(i) ==
  /\ worker[i] = "listen"
  /\ \/ ~ctx /\ worker' = [worker EXCEPT ![i] = "send"]
     \/ worker' = [worker EXCEPT ![i] = "failed"]
  /\ UNCHANGED <<ctx, main, next, sem, results>>

Send(i) ==
  /\ worker[i] = "send"
  /\ \E l \in {"read", "failed"} : worker' = [worker EXCEPT ![i] = l]
  /\ UNCHANGED <<ctx, main, next, sem, results>>

\* The first message is an echo reply, or it is not one or does not parse, or
\* the deadline passes first.
Read(i) ==
  /\ worker[i] = "read"
  /\ \E r \in {"ok", "failed"} : worker' = [worker EXCEPT ![i] = r]
  /\ UNCHANGED <<ctx, main, next, sem, results>>

\* The result is stored.
Store(i) ==
  /\ worker[i] \in {"ok", "failed"}
  /\ results' = [results EXCEPT ![Targets[i]] = worker[i]]
  /\ worker'  = [worker EXCEPT ![i] = "release"]
  /\ UNCHANGED <<ctx, main, next, sem>>

\* (The faulty variant does not give the slot back.)
ReleaseNothing(i) ==
  /\ worker[i] = "release"
  /\ worker' = [worker EXCEPT ![i] = "done"]
  /\ UNCHANGED <<ctx, main, next, sem, results>>

Release(i) ==
  /\ worker[i] = "release"
  /\ sem' = sem - 1
  /\ worker' = [worker EXCEPT ![i] = "done"]
  /\ UNCHANGED <<ctx, main, next, results>>

-----------------------------------------------------------------------------
Step(i) ==
  Acquire(i) \/ GiveUp(i) \/ Listen(i) \/ Send(i) \/ Read(i) \/ Store(i) \/ Release(i)

PoolStep == Dispatch \/ Dispatched \/ Return \/ \E i \in Index : Step(i)

Next == CancelContext \/ PoolStep

Spec == Init /\ [][Next]_vars

\* Goroutines run, and a read ends at its deadline.
Fairness ==
  /\ WF_vars(Dispatch \/ Dispatched) /\ WF_vars(Return)
  /\ \A i \in Index : WF_vars(Step(i))

FairSpec == Spec /\ Fairness

-----------------------------------------------------------------------------
(* Properties                                                              *)

\* The variables have their types; no more slots are taken than there are.
TypeOK ==
  /\ ctx \in BOOLEAN /\ main \in {"idle", "loop", "wait", "returned"}
  /\ next \in 1 .. Len(Targets) + 1 /\ sem \in 0 .. Slots
  /\ worker \in [Index -> {"none", "acquire", "listen", "send", "read", "ok", "failed",
                           "release", "done"}]
  /\ results \in [Target -> {"none", "ok", "failed", "cancelled"}]

\* When ProbeTargets returns, no goroutine is left to write the map it hands
\* out, every target that was dispatched has a result, and without
\* cancellation every target has one that Probe found.
ReturnIsComplete ==
  main = "returned" =>
    /\ \A i \in Index : worker[i] \in {"none", "done"}
    /\ \A i \in 1 .. next - 1 : results[Targets[i]] # "none"
    /\ ~ctx => \A t \in Target : results[t] \in {"ok", "failed"}

\* ProbeTargets returns, for any concurrency and whenever the context is
\* cancelled: no goroutine waits for a slot that is never given back.
PoolReturns == main = "loop" ~> main = "returned"

=============================================================================
