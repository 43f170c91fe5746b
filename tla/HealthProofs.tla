---------------------------- MODULE HealthProofs ----------------------------
(***************************************************************************)
(* Theorems about ProbePool and about the commands around it (Health), for *)
(* any list of targets, any concurrency and any series.                    *)
(***************************************************************************)
EXTENDS Health, TLAPS, FiniteSetTheorems

-----------------------------------------------------------------------------
(* The pool                                                                *)

LEMMA TargetsAreIndexed ==
  /\ Len(Targets) \in Nat \ {0} /\ 1 \in Index
  /\ \A i \in Index : Targets[i] \in Target
  /\ \A t \in Target : \E i \in Index : Targets[i] = t
BY PoolAssumption DEF Index, Target, Range

LEMMA SlotsType == Slots \in Nat \ {0}
BY TargetsAreIndexed, PoolAssumption DEF Slots

WorkerState == {"none", "acquire", "listen", "send", "read", "ok", "failed", "release", "done"}

\* The goroutines that have a slot.
Holders == {i \in Index : worker[i] \in {"listen", "send", "read", "ok", "failed", "release"}}

\* A slot is taken for each goroutine that has one.
SlotsCounted == sem = Cardinality(Holders)

\* The loop dispatches in order, and the goroutines that are past storing
\* their result have stored it.
Progress ==
  /\ \A i \in Index : worker[i] = "none" <=> i >= next
  /\ \A i \in Index : worker[i] \in {"release", "done"} => results[Targets[i]] # "none"

\* Results and targets are missing for a cancelled context only.
CutShort ==
  ~ctx => /\ \A t \in Target : results[t] # "cancelled"
          /\ main \in {"wait", "returned"} => next = Len(Targets) + 1

Quiet == main = "returned" => \A i \in Index : worker[i] \in {"none", "done"}

PoolInv == TypeOK /\ SlotsCounted /\ Progress /\ CutShort /\ Quiet

LEMMA HoldersFinite == IsFiniteSet(Holders)
<1>1. IsFiniteSet(Index)
  BY TargetsAreIndexed, FS_Interval DEF Index
<1>2. Holders \in SUBSET Index
  BY DEF Holders
<1> QED
  BY <1>1, <1>2, FS_Subset

\* A pool whose goroutines are not started holds no slot.
LEMMA FreshPool ==
  Fresh /\ ctx \in BOOLEAN /\ main \in {"idle", "loop"} => PoolInv
<1> SUFFICES ASSUME Fresh, ctx \in BOOLEAN, main \in {"idle", "loop"} PROVE PoolInv
  OBVIOUS
<1>1. TypeOK
  BY TargetsAreIndexed, SlotsType DEF Fresh, TypeOK
<1>2. Holders = {}
  BY DEF Fresh, Holders
<1>3. SlotsCounted
  BY <1>2, FS_EmptySet DEF Fresh, SlotsCounted
<1>4. Progress
  BY TargetsAreIndexed DEF Fresh, Progress, Index
<1>5. CutShort /\ Quiet
  BY DEF Fresh, CutShort, Quiet
<1> QED
  BY <1>1, <1>3, <1>4, <1>5 DEF PoolInv

\* A goroutine moves on and keeps its slot, or its lack of one.
LEMMA HoldersKept ==
  ASSUME SlotsCounted, UNCHANGED sem, Holders' = Holders
  PROVE  SlotsCounted'
BY DEF SlotsCounted

\* The steps of a goroutine between taking its slot and storing its result.
LEMMA ProbeStep ==
  ASSUME PoolInv, NEW i \in Index, Listen(i) \/ Send(i) \/ Read(i)
  PROVE  PoolInv'
<1>1. PICK l \in {"send", "read", "ok", "failed"} : worker' = [worker EXCEPT ![i] = l]
  BY DEF Listen, Send, Read
<1>2. worker[i] \in {"listen", "send", "read"} /\ UNCHANGED <<ctx, main, next, sem, results>>
  BY DEF Listen, Send, Read
<1>3. TypeOK'
  BY <1>1, <1>2 DEF PoolInv, TypeOK
<1>4. SlotsCounted'
  <2>1. Holders' = Holders
    BY <1>1, <1>2 DEF PoolInv, TypeOK, Holders
  <2> QED
    BY <1>2, <2>1, HoldersKept DEF PoolInv
<1>5. Progress'
  BY <1>1, <1>2 DEF PoolInv, TypeOK, Progress
<1>6. CutShort' /\ Quiet'
  BY <1>1, <1>2 DEF PoolInv, TypeOK, CutShort, Quiet
<1> QED
  BY <1>3, <1>4, <1>5, <1>6 DEF PoolInv

LEMMA AcquireStep ==
  ASSUME PoolInv, NEW i \in Index, Acquire(i)
  PROVE  PoolInv'
<1>1. /\ worker[i] = "acquire" /\ sem < Slots /\ sem' = sem + 1
      /\ worker' = [worker EXCEPT ![i] = "listen"]
      /\ UNCHANGED <<ctx, main, next, results>>
  BY DEF Acquire
<1>2. TypeOK'
  <2>1. sem' \in 0 .. Slots
    BY <1>1, SlotsType DEF PoolInv, TypeOK
  <2> QED
    BY <1>1, <2>1 DEF PoolInv, TypeOK
<1>3. SlotsCounted'
  <2>1. i \notin Holders /\ Holders' = Holders \cup {i}
    BY <1>1 DEF PoolInv, TypeOK, Holders
  <2> QED
    BY <1>1, <2>1, HoldersFinite, FS_AddElement DEF PoolInv, SlotsCounted
<1>4. Progress'
  BY <1>1 DEF PoolInv, TypeOK, Progress
<1>5. CutShort' /\ Quiet'
  BY <1>1 DEF PoolInv, TypeOK, CutShort, Quiet
<1> QED
  BY <1>2, <1>3, <1>4, <1>5 DEF PoolInv

LEMMA ReleaseStep ==
  ASSUME PoolInv, NEW i \in Index, Release(i)
  PROVE  PoolInv'
<1>1. /\ worker[i] = "release" /\ sem' = sem - 1
      /\ worker' = [worker EXCEPT ![i] = "done"]
      /\ UNCHANGED <<ctx, main, next, results>>
  BY DEF Release
<1>2. i \in Holders /\ Holders' = Holders \ {i}
  BY <1>1 DEF PoolInv, TypeOK, Holders
<1>3. Cardinality(Holders) \in Nat /\ Cardinality(Holders \ {i}) \in Nat
      /\ Cardinality(Holders \ {i}) = Cardinality(Holders) - 1
  BY <1>2, HoldersFinite, FS_RemoveElement, FS_CardinalityType
<1>4. SlotsCounted'
  BY <1>1, <1>2, <1>3 DEF PoolInv, SlotsCounted
<1>5. TypeOK'
  <2>1. sem' \in 0 .. Slots
    BY <1>1, <1>3, SlotsType DEF PoolInv, TypeOK, SlotsCounted
  <2> QED
    BY <1>1, <2>1 DEF PoolInv, TypeOK
<1>6. Progress'
  BY <1>1 DEF PoolInv, TypeOK, Progress
<1>7. CutShort' /\ Quiet'
  BY <1>1 DEF PoolInv, TypeOK, CutShort, Quiet
<1> QED
  BY <1>4, <1>5, <1>6, <1>7 DEF PoolInv

\* A result is stored, for a probe that was made or for one that was not.
LEMMA StoreStep ==
  ASSUME PoolInv, NEW i \in Index, Store(i) \/ GiveUp(i)
  PROVE  PoolInv'
<1>1. PICK r \in {"ok", "failed", "cancelled"} : results' = [results EXCEPT ![Targets[i]] = r]
                                               /\ (r = "cancelled" => ctx)
  BY DEF Store, GiveUp
<1>2. PICK l \in {"release", "done"} : /\ worker' = [worker EXCEPT ![i] = l]
                                       /\ (l = "release" <=> worker[i] \in {"ok", "failed"})
  BY DEF Store, GiveUp
<1>3. /\ worker[i] \in {"acquire", "ok", "failed"} /\ Targets[i] \in Target
      /\ UNCHANGED <<ctx, main, next, sem>>
  BY TargetsAreIndexed DEF Store, GiveUp
<1>4. TypeOK'
  BY <1>1, <1>2, <1>3 DEF PoolInv, TypeOK
<1>5. SlotsCounted'
  <2>1. Holders' = Holders
    BY <1>2, <1>3 DEF PoolInv, TypeOK, Holders
  <2> QED
    BY <1>3, <2>1, HoldersKept DEF PoolInv
<1>6. Progress'
  <2>1. \A t \in Target : results[t] # "none" => results'[t] # "none"
    BY <1>1, <1>3 DEF PoolInv, TypeOK
  <2>2. results'[Targets[i]] # "none"
    BY <1>1, <1>3 DEF PoolInv, TypeOK
  <2> QED
    BY <1>2, <1>3, <2>1, <2>2, TargetsAreIndexed DEF PoolInv, TypeOK, Progress
<1>7. CutShort'
  BY <1>1, <1>3 DEF PoolInv, TypeOK, CutShort
<1>8. Quiet'
  BY <1>2, <1>3 DEF PoolInv, TypeOK, Quiet
<1> QED
  BY <1>4, <1>5, <1>6, <1>7, <1>8 DEF PoolInv

LEMMA LoopStep ==
  ASSUME PoolInv, Dispatch \/ Dispatched \/ Return
  PROVE  PoolInv'
<1>1. CASE Dispatch
  <2>1. /\ main = "loop" /\ next \in Index /\ ~ctx /\ next' = next + 1
        /\ worker' = [worker EXCEPT ![next] = "acquire"]
        /\ UNCHANGED <<ctx, main, sem, results>>
    BY <1>1, TargetsAreIndexed DEF Dispatch, PoolInv, TypeOK, Index
  <2>2. worker[next] = "none"
    BY <2>1 DEF PoolInv, Progress, Index
  <2>3. TypeOK'
    <3>1. next' \in 1 .. Len(Targets) + 1
      BY <2>1, TargetsAreIndexed DEF Index
    <3> QED
      BY <2>1, <3>1 DEF PoolInv, TypeOK
  <2>4. SlotsCounted'
    <3>1. Holders' = Holders
      BY <2>1, <2>2 DEF PoolInv, TypeOK, Holders
    <3> QED
      BY <2>1, <3>1, HoldersKept DEF PoolInv
  <2>5. Progress'
    BY <2>1 DEF PoolInv, TypeOK, Progress, Index
  <2>6. CutShort' /\ Quiet'
    BY <2>1 DEF PoolInv, CutShort, Quiet
  <2> QED
    BY <2>3, <2>4, <2>5, <2>6 DEF PoolInv
<1>2. CASE Dispatched
  <2>1. CutShort'
    BY <1>2, TargetsAreIndexed DEF Dispatched, PoolInv, TypeOK, CutShort
  <2> QED
    BY <1>2, <2>1 DEF Dispatched, PoolInv, TypeOK, SlotsCounted, Holders, Progress, Quiet
<1>3. CASE Return
  BY <1>3 DEF Return, PoolInv, TypeOK, SlotsCounted, Holders, Progress, CutShort, Quiet
<1> QED
  BY <1>1, <1>2, <1>3

LEMMA PoolInvStep ==
  ASSUME PoolInv, PoolStep
  PROVE  PoolInv'
BY LoopStep, ProbeStep, AcquireStep, ReleaseStep, StoreStep DEF PoolStep, Step

\* The context is cancelled.
LEMMA PoolInvCancelled ==
  ASSUME PoolInv, ctx' = TRUE, UNCHANGED <<main, next, worker, sem, results>>
  PROVE  PoolInv'
BY DEF PoolInv, TypeOK, SlotsCounted, Holders, Progress, CutShort, Quiet

LEMMA PoolInvKept ==
  ASSUME PoolInv, UNCHANGED vars
  PROVE  PoolInv'
BY DEF vars, PoolInv, TypeOK, SlotsCounted, Holders, Progress, CutShort, Quiet

LEMMA PoolComplete ==
  ASSUME PoolInv
  PROVE  ReturnIsComplete
<1> SUFFICES ASSUME main = "returned"
             PROVE  /\ \A i \in Index : worker[i] \in {"none", "done"}
                    /\ \A i \in 1 .. next - 1 : results[Targets[i]] # "none"
                    /\ ~ctx => \A t \in Target : results[t] \in {"ok", "failed"}
  BY DEF ReturnIsComplete
<1>1. \A i \in Index : worker[i] \in {"none", "done"}
  BY DEF PoolInv, Quiet
<1>2. ASSUME NEW i \in 1 .. next - 1 PROVE results[Targets[i]] # "none"
  <2>1. i \in Index /\ i < next
    BY TargetsAreIndexed DEF PoolInv, TypeOK, Index
  <2>2. worker[i] # "none"
    BY <2>1 DEF PoolInv, TypeOK, Progress, Index
  <2> QED
    BY <1>1, <2>1, <2>2 DEF PoolInv, Progress
<1>3. ASSUME ~ctx, NEW t \in Target PROVE results[t] \in {"ok", "failed"}
  <2>1. PICK i \in Index : Targets[i] = t
    BY TargetsAreIndexed
  <2>2. i \in 1 .. next - 1
    BY <1>3, TargetsAreIndexed DEF PoolInv, CutShort, Index
  <2> QED
    BY <1>2, <1>3, <2>1, <2>2 DEF PoolInv, TypeOK, CutShort
<1> QED
  BY <1>1, <1>2, <1>3

\* ProbeTargets by itself: when it returns, no goroutine is left to write the
\* map, every dispatched target has a result, and without cancellation every
\* target has one that Probe found.
THEOREM PoolReturnsComplete == Spec => []ReturnIsComplete
<1>1. Init => PoolInv
  BY FreshPool, Zenon DEF Init, Fresh
<1>2. PoolInv /\ [Next]_vars => PoolInv'
  BY PoolInvStep, PoolInvCancelled, PoolInvKept, Zenon DEF Next, CancelContext
<1>3. PoolInv => ReturnIsComplete
  BY PoolComplete
<1> QED
  BY <1>1, <1>2, <1>3, PTL DEF Spec

-----------------------------------------------------------------------------
(* The commands                                                            *)

\* In a series the pool is not used.
PoolUnused == main = "idle" /\ sem = 0 /\ next = 1 /\ results = [t \in Target |-> "none"]

\* The command's mode decides which parts of it run, and it ends once.
CommandOK ==
  /\ mode = "series" => cmd \in {"series", "exited"} /\ shown = 0
  /\ mode # "series" => cmd # "series"
  /\ cmd # "exited" => status = "none" /\ ~healthy
  /\ good <= made /\ (mode = "series" /\ worker[1] # "none" => made < Count)

\* A success is known before it is stored, and a table stands until the next
\* round begins.
Evidence ==
  /\ cmd = "probe" => /\ \A i \in Index : worker[i] = "ok" => Targets[i] \in heard
                      /\ \A t \in Target : results[t] = "ok" => t \in heard
  /\ shown = 1 /\ cmd \in {"list", "wait", "exited"} /\ status # "write" =>
       \A t \in Target : table[t] => t \in heard

SeriesMade ==
  mode = "series" /\ (healthy \/ (status = "ok" /\ ~json)) => made = Count /\ good >= Threshold

HealthInv ==
  /\ HealthTypeOK /\ (mode = "series" => PoolUnused) /\ (mode # "series" => PoolInv)
  /\ CommandOK /\ Evidence /\ SeriesMade /\ InterruptIsNoError

LEMMA HealthInvInit == HealthInit => HealthInv
<1> SUFFICES ASSUME HealthInit PROVE HealthInv
  OBVIOUS
<1>1. PoolInv
  BY FreshPool, Zenon DEF HealthInit
<1>2. HealthTypeOK
  <2>1. table \in [Target -> BOOLEAN] /\ tick \in BOOLEAN
    BY Zenon DEF HealthInit
  <2>3. json \in BOOLEAN /\ healthy \in BOOLEAN
    BY Zenon DEF HealthInit
  <2>2. /\ mode \in {"once", "watch", "series"} /\ shown \in 0 .. 1 /\ status = "none"
        /\ cmd \in {"list", "series"} /\ heard = {}
        /\ made \in 0 .. Count /\ good \in 0 .. Count
    BY SeriesAssumption DEF HealthInit
  <2> QED
    BY <1>1, <2>1, <2>2, <2>3 DEF HealthTypeOK, PoolInv
<1>3. mode = "series" => PoolUnused
  BY DEF HealthInit, Fresh, PoolUnused
<1>4. CommandOK /\ Evidence /\ SeriesMade /\ InterruptIsNoError
  BY SeriesAssumption, TargetsAreIndexed DEF HealthInit, Fresh, CommandOK, Evidence, SeriesMade, InterruptIsNoError
<1> QED
  BY <1>1, <1>2, <1>3, <1>4 DEF HealthInv

LEMMA InterruptStep ==
  ASSUME HealthInv, Interrupt \/ TickerFires
  PROVE  HealthInv'
<1>1. /\ cmd # "exited" /\ status = "none"
      /\ UNCHANGED <<main, next, worker, sem, results, mode, json, cmd, table, shown, status,
                     made, good, healthy, heard>>
  BY DEF Interrupt, TickerFires, cmdVars, seriesVars, vars, HealthInv, CommandOK
<1>2. ctx' \in BOOLEAN /\ tick' \in BOOLEAN
  BY Zenon DEF Interrupt, TickerFires, cmdVars, vars, HealthInv, HealthTypeOK, TypeOK
<1>3. HealthTypeOK'
  BY <1>1, <1>2 DEF HealthInv, HealthTypeOK, TypeOK
<1>4. mode # "series" => PoolInv'
  BY PoolInvCancelled, PoolInvKept, Zenon DEF Interrupt, TickerFires, HealthInv
<1> QED
  BY <1>1, <1>3, <1>4 DEF HealthInv, PoolUnused, CommandOK, Evidence, SeriesMade,
                          InterruptIsNoError

LEMMA ListStep ==
  ASSUME HealthInv, List
  PROVE  HealthInv'
<1>1. /\ cmd = "list" /\ mode # "series" /\ status = "none" /\ PoolInv
      /\ UNCHANGED <<ctx, mode, json, tick, table, shown, made, good, healthy>>
  BY DEF List, seriesVars, HealthInv, CommandOK
<1>2. CASE ListOk
  <2>1. /\ Fresh' /\ main' = "loop" /\ cmd' = "probe" /\ heard' = {} /\ UNCHANGED status
        /\ worker' = [i \in Index |-> "none"] /\ results' = [t \in Target |-> "none"]
    BY <1>2 DEF ListOk, Fresh
  <2>2. PoolInv'
    <3>1. ctx' \in BOOLEAN
      BY <1>1 DEF PoolInv, TypeOK
    <3>2. (Fresh /\ ctx \in BOOLEAN /\ main \in {"idle", "loop"} => PoolInv)'
      BY FreshPool, PTL
    <3> QED
      BY <2>1, <3>1, <3>2
  <2>3. HealthTypeOK'
    BY <1>1, <2>1, <2>2 DEF HealthInv, HealthTypeOK, PoolInv
  <2> QED
    BY <1>1, <2>1, <2>2, <2>3 DEF HealthInv, CommandOK, Evidence, SeriesMade, InterruptIsNoError
<1>3. CASE ListFails
  <2>1. /\ cmd' = "exited" /\ status' \in {"ok", "err"} /\ (ctx /\ shown > 0 => status' = "ok")
        /\ UNCHANGED <<main, next, sem, worker, results, heard>>
    BY <1>3 DEF ListFails, Exits
  <2>2. PoolInv'
    BY <1>1, <2>1, PoolInvKept DEF vars
  <2>3. HealthTypeOK'
    BY <1>1, <2>1, <2>2 DEF HealthInv, HealthTypeOK, PoolInv
  <2> QED
    BY <1>1, <2>1, <2>2, <2>3 DEF HealthInv, HealthTypeOK, CommandOK, Evidence, SeriesMade,
                                  InterruptIsNoError
<1> QED
  BY <1>2, <1>3 DEF List

\* What the pool's steps do to results and goroutines, seen from the table.
LEMMA RunPoolStep ==
  ASSUME HealthInv, RunPool
  PROVE  HealthInv'
<1>1. /\ cmd = "probe" /\ PoolStep /\ mode # "series"
      /\ UNCHANGED <<mode, json, cmd, tick, table, shown, status, made, good, healthy>>
      /\ heard' = heard \cup {Targets[i] : i \in {j \in Index : worker'[j] = "ok"}}
  BY DEF RunPool, cmdVars, seriesVars, HealthInv, CommandOK
<1>2. PoolInv /\ PoolInv' /\ UNCHANGED ctx
  BY <1>1, PoolInvStep DEF HealthInv, PoolStep, Step, Dispatch, Dispatched, Return, Acquire, GiveUp,
                           Listen, Send, Read, Store, Release
<1>3. heard \subseteq heard' /\ heard' \subseteq Target
  BY <1>1, TargetsAreIndexed DEF HealthInv, HealthTypeOK
<1>4. HealthTypeOK'
  BY <1>1, <1>2, <1>3 DEF HealthInv, HealthTypeOK, PoolInv
<1>5. ASSUME NEW t \in Target, results'[t] = "ok" PROVE t \in heard'
  <2>1. CASE results[t] = "ok"
    BY <1>1, <1>3, <2>1 DEF HealthInv, Evidence
  <2>2. CASE results[t] # "ok"
    <3>1. PICK i \in Index : Store(i)
      BY <1>1, <1>2, <1>5, <2>2, TargetsAreIndexed
         DEF PoolStep, Step, Dispatch, Dispatched, Return, Acquire, GiveUp, Listen, Send, Read,
             Release, PoolInv, TypeOK
    <3>2. worker[i] = "ok" /\ t = Targets[i]
      BY <1>2, <1>5, <2>2, <3>1, TargetsAreIndexed DEF Store, PoolInv, TypeOK
    <3> QED
      BY <1>1, <1>3, <3>2 DEF HealthInv, Evidence
  <2> QED
    BY <2>1, <2>2
<1>6. Evidence'
  BY <1>1, <1>3, <1>5 DEF HealthInv, Evidence
<1> QED
  BY <1>1, <1>2, <1>4, <1>6 DEF HealthInv, CommandOK, SeriesMade, InterruptIsNoError

\* The table is printed, or the watch goes on to the next round or ends.
LEMMA ShowStep ==
  ASSUME HealthInv, Show \/ Wait
  PROVE  HealthInv'
<1>1. /\ mode # "series" /\ status = "none" /\ PoolInv /\ cmd \in {"probe", "wait"}
      /\ UNCHANGED <<vars, mode, json, made, good, healthy, heard>>
  BY DEF Show, Wait, seriesVars, HealthInv, CommandOK
<1>2. PoolInv'
  BY <1>1, PoolInvKept
<1>3. CASE Show /\ ShowRows
  <2>1. /\ table' = [t \in Target |-> results[t] = "ok"] /\ shown' = 1 /\ UNCHANGED tick
        /\ \/ cmd' = "exited" /\ status' = "ok"
           \/ cmd' = "wait" /\ status' = status
    BY <1>3 DEF Show, ShowRows, Exits
  <2>2. HealthTypeOK'
    BY <1>1, <1>2, <2>1 DEF HealthInv, HealthTypeOK, PoolInv
  <2>3. Evidence'
    BY <1>1, <1>3, <2>1, Zenon DEF Show, HealthInv, Evidence
  <2> QED
    BY <1>1, <1>2, <2>1, <2>2, <2>3 DEF HealthInv, CommandOK, SeriesMade, InterruptIsNoError
<1>5. CASE Show /\ ShowFails
  <2>1. UNCHANGED <<table, shown, tick>> /\ cmd' = "exited" /\ status' = "write"
    BY <1>5 DEF Show, ShowFails, Exits
  <2>2. HealthTypeOK'
    BY <1>1, <1>2, <2>1 DEF HealthInv, HealthTypeOK, PoolInv
  <2> QED
    BY <1>1, <1>2, <2>1, <2>2 DEF HealthInv, CommandOK, Evidence, SeriesMade, InterruptIsNoError
<1>4. CASE Wait
  <2>1. /\ cmd = "wait" /\ UNCHANGED <<table, shown>> /\ tick' \in BOOLEAN
        /\ \/ cmd' = "exited" /\ status' = "ok"
           \/ cmd' = "list" /\ status' = status
    BY <1>4, Zenon DEF Wait, Await, Exits, HealthInv, HealthTypeOK
  <2>2. HealthTypeOK'
    BY <1>1, <1>2, <2>1 DEF HealthInv, HealthTypeOK, PoolInv
  <2> QED
    BY <1>1, <1>2, <2>1, <2>2 DEF HealthInv, CommandOK, Evidence, SeriesMade, InterruptIsNoError
<1> QED
  BY <1>3, <1>4, <1>5 DEF Show

\* ProbeMultiple.
LEMMA SeriesStep ==
  ASSUME HealthInv, RunMultiple
  PROVE  HealthInv'
<1>1. /\ cmd = "series" /\ mode = "series" /\ status = "none" /\ PoolUnused
      /\ UNCHANGED <<ctx, main, next, sem, results, mode, json, tick, table, shown, heard>>
  BY DEF RunMultiple, SeriesProbe, RunProbe, Listen, Send, Read, SeriesRecord, SeriesCancelled,
         SeriesDone, Verdict, vars, cmdVars, HealthInv, CommandOK
<1>2. PoolUnused'
  BY <1>1 DEF PoolUnused
<1>3. worker' \in [Index -> WorkerState]
  BY TargetsAreIndexed
     DEF RunMultiple, SeriesProbe, RunProbe, Listen, Send, Read, SeriesRecord, SeriesCancelled,
         SeriesDone, Verdict, vars, HealthInv, HealthTypeOK, TypeOK, WorkerState
<1>4. /\ made' \in 0 .. Count /\ good' \in 0 .. Count /\ good' <= made'
      /\ \/ cmd' = "series" /\ status' = "none" /\ healthy' = FALSE
         \/ /\ cmd' = "exited" /\ status' \in {"ok", "err", "write"} /\ healthy' \in BOOLEAN
            /\ UNCHANGED <<made, good>>
            /\ healthy' \/ (status' = "ok" /\ ~json) => made = Count /\ good >= Threshold
  <2>1. Count \in Nat /\ made \in 0 .. Count /\ good \in 0 .. Count /\ good <= made
    BY SeriesAssumption DEF HealthInv, HealthTypeOK, CommandOK
  <2>5. healthy = FALSE /\ json \in BOOLEAN
    BY <1>1, Zenon DEF HealthInv, HealthTypeOK, CommandOK
  <2>2. CASE SeriesProbe \/ RunProbe
    BY <1>1, <2>1, <2>2, <2>5 DEF SeriesProbe, RunProbe, cmdVars, seriesVars
  <2>3. CASE SeriesRecord
    <3>1. made < Count
      BY <1>1, <2>3 DEF SeriesRecord, HealthInv, CommandOK
    <3> QED
      BY <1>1, <2>1, <2>3, <2>5, <3>1 DEF SeriesRecord, cmdVars
  <2>4. CASE SeriesCancelled \/ SeriesDone
    <3>1. PICK h \in BOOLEAN : Verdict(h) /\ (h => made = Count /\ good >= Threshold)
      <4>1. CASE SeriesCancelled
        BY <4>1 DEF SeriesCancelled
      <4>2. CASE SeriesDone
        <5>1. (good >= Threshold) \in BOOLEAN /\ made = Count /\ Verdict(good >= Threshold)
          BY <2>1, <4>2, SeriesAssumption DEF SeriesDone
        <5> QED
          BY <5>1, Zenon
      <4> QED
        BY <2>4, <4>1, <4>2
    <3>2. healthy' = h /\ cmd' = "exited" /\ UNCHANGED <<made, good>>
      BY <3>1, Zenon DEF Verdict, Exits
    <3>3. status' \in {"ok", "err", "write"} /\ (status' = "ok" /\ ~json => h)
      BY <3>1, Zenon DEF Verdict, Exits
    <3> QED
      BY <2>1, <3>1, <3>2, <3>3
  <2> QED
    BY <2>2, <2>3, <2>4 DEF RunMultiple
<1>5. HealthTypeOK'
  BY <1>1, <1>3, <1>4 DEF HealthInv, HealthTypeOK, TypeOK, WorkerState
<1>6. worker'[1] # "none" => made' < Count
  BY <1>1, TargetsAreIndexed
     DEF RunMultiple, SeriesProbe, RunProbe, Listen, Send, Read, SeriesRecord, SeriesCancelled,
         SeriesDone, Verdict, vars, seriesVars, HealthInv, HealthTypeOK, TypeOK, CommandOK
<1>7. CommandOK' /\ shown = 0
  BY <1>1, <1>4, <1>6 DEF HealthInv, CommandOK
<1>8. Evidence'
  BY <1>1, <1>4, <1>7 DEF Evidence
<1>9. SeriesMade' /\ InterruptIsNoError'
  BY <1>1, <1>4 DEF SeriesMade, InterruptIsNoError
<1> QED
  BY <1>1, <1>2, <1>5, <1>7, <1>8, <1>9 DEF HealthInv

LEMMA HealthInvStep == HealthInv /\ [HealthNext]_healthVars => HealthInv'
<1> SUFFICES ASSUME HealthInv, [HealthNext]_healthVars PROVE HealthInv'
  OBVIOUS
<1>1. CASE UNCHANGED healthVars
  <2>1. mode # "series" => PoolInv'
    BY <1>1, PoolInvKept DEF healthVars, HealthInv
  <2> QED
    BY <1>1, <2>1 DEF healthVars, vars, cmdVars, seriesVars, HealthInv, HealthTypeOK, TypeOK,
                      PoolUnused, CommandOK, Evidence, SeriesMade, InterruptIsNoError
<1> QED
  BY <1>1, InterruptStep, ListStep, RunPoolStep, ShowStep, SeriesStep DEF HealthNext, RunHealth

LEMMA HealthInvariance == HealthSpec => []HealthInv
BY HealthInvInit, HealthInvStep, PTL DEF HealthSpec

\* The pool's semaphore never exceeds its size, in any round, and the commands
\* keep their types.
THEOREM TypeCorrect == HealthSpec => []HealthTypeOK
BY HealthInvariance, PTL DEF HealthInv

\* In every round of a watch, a map that ProbeTargets hands out is complete.
THEOREM RoundsReturnComplete == HealthSpec => []ReturnIsComplete
<1>1. HealthInv => ReturnIsComplete
  BY PoolComplete DEF HealthInv, PoolUnused, ReturnIsComplete
<1> QED
  BY <1>1, HealthInvariance, PTL

\* What a table calls healthy rests on an echo reply that the target's own
\* Probe has heard in that very round, and a healthy series was made to its
\* end.
THEOREM HealthsAreFresh == HealthSpec => []HealthIsFresh
<1>1. HealthInv => HealthIsFresh
  BY DEF HealthInv, Evidence, SeriesMade, HealthIsFresh
<1> QED
  BY <1>1, HealthInvariance, PTL

\* A watch that has shown a table does not fail for being interrupted.
THEOREM InterruptsAreNoErrors == HealthSpec => []InterruptIsNoError
BY HealthInvariance, PTL DEF HealthInv

=============================================================================
