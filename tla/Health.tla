------------------------------- MODULE Health -------------------------------
(***************************************************************************)
(* The commands around ProbePool.  `gretun health' lists the tunnels,      *)
(* probes their remotes with ProbeTargets and prints a table, once or at   *)
(* every tick of --watch, until it is interrupted                          *)
(* (cmd/gretun/commands/health.go).  ProbeMultiple makes a series of probes*)
(* of one target under any context (internal/health/probe.go); its caller  *)
(* `gretun probe' passes one that nothing cancels, and turns the verdict   *)
(* into its exit status, except under --json.                              *)
(*                                                                         *)
(* Every tunnel here has a remote; the list may hold several with the same *)
(* one.  The table is what it says of each remote.                         *)
(***************************************************************************)
EXTENDS ProbePool

CONSTANTS
  Count,       \* probes in a series
  Threshold    \* successes that make it healthy

ASSUME SeriesAssumption == Count \in Nat /\ Threshold \in Int

VARIABLES
  mode,        \* "once", "watch" or "series"
  json,        \* the flag --json
  cmd,         \* "list", "probe", "wait", "series" or "exited"
  tick,        \* the ticker's channel holds a tick
  table,       \* table[t]: t is shown as healthy
  shown,       \* tables shown, up to 1
  status,      \* how the command ended: "none", "ok", "err", or "write": with
               \* the error of a JSON encoder that could not write
  made, good,  \* ProbeMultiple: probes and successes so far
  healthy,     \* ProbeMultiple's verdict
  heard        \* targets whose own Probe of this round has heard an echo reply

cmdVars    == <<mode, json, cmd, tick, table, shown, status>>
seriesVars == <<made, good, healthy>>
healthVars == <<vars, cmdVars, seriesVars, heard>>

-----------------------------------------------------------------------------
Fresh ==
  /\ next = 1 /\ sem = 0
  /\ worker = [i \in Index |-> "none"] /\ results = [t \in Target |-> "none"]

HealthInit ==
  /\ ctx = FALSE /\ main = "idle" /\ Fresh
  /\ mode \in {"once", "watch", "series"} /\ json \in BOOLEAN
  /\ cmd = IF mode = "series" THEN "series" ELSE "list"
  /\ tick = FALSE /\ table = [t \in Target |-> FALSE] /\ shown = 0 /\ status = "none"
  /\ made = 0 /\ good = 0 /\ healthy = FALSE /\ heard = {}

\* SIGINT cancels runHealth's context, and some caller that of ProbeMultiple.
Interrupt ==
  /\ cmd # "exited" /\ ~ctx
  /\ ctx' = TRUE
  /\ UNCHANGED <<main, next, worker, sem, results, cmdVars, seriesVars, heard>>

TickerFires ==
  /\ mode = "watch" /\ cmd # "exited" /\ ~tick
  /\ tick' = TRUE
  /\ UNCHANGED <<vars, mode, json, cmd, table, shown, status, seriesVars, heard>>

Exits(s) == cmd' = "exited" /\ status' = s

-----------------------------------------------------------------------------
(* runHealth                                                               *)

\* probe begins: tunnel.List, then ProbeTargets with a map of its own.  (The
\* faulty variant keeps one map for all rounds.)
ListOkOneMap ==
  /\ ~ctx
  /\ cmd'  = "probe" /\ main' = "loop" /\ next' = 1 /\ sem' = 0
  /\ worker'  = [i \in Index |-> "none"]
  /\ heard' = {}
  /\ UNCHANGED <<results, status>>

\* (The faulty variant's List does not look at the context.)
ListOkAnyway ==
  /\ cmd'  = "probe" /\ main' = "loop" /\ next' = 1 /\ sem' = 0
  /\ worker'  = [i \in Index |-> "none"]
  /\ results' = [t \in Target |-> "none"]
  /\ heard' = {}
  /\ UNCHANGED status

ListOk ==
  /\ ~ctx
  /\ cmd'  = "probe" /\ main' = "loop" /\ next' = 1 /\ sem' = 0
  /\ worker'  = [i \in Index |-> "none"]
  /\ results' = [t \in Target |-> "none"]
  /\ heard' = {}
  /\ UNCHANGED status

\* List fails, for the context or in LinkList.  Past the first table an error
\* under a cancelled context is the interrupt's.  (The faulty variant does not
\* look at the context.)
ListFailsPlainly ==
  /\ Exits("err")
  /\ UNCHANGED <<main, next, sem, worker, results, heard>>

ListFails ==
  /\ Exits(IF ctx /\ shown > 0 THEN "ok" ELSE "err")
  /\ UNCHANGED <<main, next, sem, worker, results, heard>>

List ==
  /\ cmd = "list"
  /\ ListOk \/ ListFails
  /\ UNCHANGED <<ctx, mode, json, tick, table, shown, seriesVars>>

\* A step of ProbeTargets.  A Probe counts whichever reply it has heard first.
RunPool ==
  /\ cmd = "probe"
  /\ PoolStep
  /\ heard' = heard \cup {Targets[i] : i \in {j \in Index : worker'[j] = "ok"}}
  /\ UNCHANGED <<cmdVars, seriesVars>>

\* The rows are printed: a target that has no result is not healthy.  As JSON
\* they may fail to be written, which ends the command.
ShowRows ==
  /\ table' = [t \in Target |-> results[t] = "ok"]
  /\ shown' = 1
  /\ IF mode = "once" THEN Exits("ok") ELSE cmd' = "wait" /\ UNCHANGED status

ShowFails == json /\ Exits("write") /\ UNCHANGED <<table, shown>>

Show ==
  /\ cmd = "probe" /\ main = "returned"
  /\ ShowRows \/ ShowFails
  /\ UNCHANGED <<vars, mode, json, tick, seriesVars, heard>>

\* The select of the watch loop.
Await ==
  \/ tick /\ cmd' = "list" /\ tick' = FALSE /\ UNCHANGED status
  \/ ctx /\ Exits("ok") /\ UNCHANGED tick

Wait ==
  /\ cmd = "wait"
  /\ Await
  /\ UNCHANGED <<vars, mode, json, table, shown, seriesVars, heard>>

-----------------------------------------------------------------------------
(* ProbeMultiple, whose one Probe at a time is worker 1                    *)

SeriesProbe ==
  /\ cmd = "series" /\ worker[1] = "none" /\ made < Count /\ ~ctx
  /\ worker' = [worker EXCEPT ![1] = "listen"]
  /\ UNCHANGED <<ctx, main, next, sem, results, cmdVars, seriesVars, heard>>

RunProbe ==
  /\ cmd = "series"
  /\ Listen(1) \/ Send(1) \/ Read(1)
  /\ UNCHANGED <<cmdVars, seriesVars, heard>>

SeriesRecord ==
  /\ cmd = "series" /\ worker[1] \in {"ok", "failed"}
  /\ worker' = [worker EXCEPT ![1] = "none"]
  /\ made' = made + 1
  /\ good' = IF worker[1] = "ok" THEN good + 1 ELSE good
  /\ UNCHANGED <<ctx, main, next, sem, results, cmdVars, healthy, heard>>

\* ProbeMultiple returns its verdict, and runProbe prints it: as JSON, with the
\* encoder's error if any and whatever the verdict; otherwise the verdict is
\* the status.
Verdict(h) ==
  /\ healthy' = h
  /\ \/ json /\ \E s \in {"ok", "write"} : Exits(s)
     \/ ~json /\ Exits(IF h THEN "ok" ELSE "err")
  /\ UNCHANGED <<vars, mode, json, tick, table, shown, made, good, heard>>

\* Cancelled before a probe or while it sleeps: not healthy, whatever there is.
SeriesCancelled ==
  /\ cmd = "series" /\ worker[1] = "none" /\ made < Count /\ ctx
  /\ Verdict(FALSE)

SeriesDone ==
  /\ cmd = "series" /\ worker[1] = "none" /\ made = Count
  /\ Verdict(good >= Threshold)

-----------------------------------------------------------------------------
RunHealth   == List \/ RunPool \/ Show \/ Wait
RunMultiple == SeriesProbe \/ RunProbe \/ SeriesRecord \/ SeriesCancelled \/ SeriesDone

HealthNext == Interrupt \/ TickerFires \/ RunHealth \/ RunMultiple

HealthSpec == HealthInit /\ [][HealthNext]_healthVars

\* The process runs, the ticker ticks, and a read ends at its deadline.
HealthFairSpec ==
  /\ HealthSpec
  /\ WF_healthVars(TickerFires) /\ WF_healthVars(RunHealth) /\ WF_healthVars(RunMultiple)

-----------------------------------------------------------------------------
(* Properties                                                              *)

\* The pool keeps its types in every round, and the commands have theirs.
HealthTypeOK ==
  /\ TypeOK
  /\ mode \in {"once", "watch", "series"} /\ json \in BOOLEAN /\ healthy \in BOOLEAN
  /\ cmd \in {"list", "probe", "wait", "series", "exited"}
  /\ tick \in BOOLEAN /\ table \in [Target -> BOOLEAN] /\ shown \in 0 .. 1
  /\ status \in {"none", "ok", "err", "write"}
  /\ made \in 0 .. Count /\ good \in 0 .. Count
  /\ heard \subseteq Target

\* Nothing is called healthy on old or missing evidence, however a round or a
\* series was cut short: a table that was just printed shows as healthy only
\* targets whose own Probe of that very round has heard an echo reply (from
\* whomever: Probe compares neither its source nor its ID), and a series is
\* called healthy, or ends as if it were, only if it was made to its end.
\* Under --json its status says nothing.
HealthIsFresh ==
  /\ shown = 1 /\ cmd \in {"wait", "exited"} /\ status # "write" =>
       \A t \in Target : table[t] => t \in heard
  /\ mode = "series" /\ (healthy \/ (status = "ok" /\ ~json)) => made = Count /\ good >= Threshold

\* A watch that has shown a table ends without an error when it is interrupted,
\* at whichever point of a round: the errors that the cancelled context causes
\* are not reported as failures.  (That JSON cannot be written is.)
InterruptIsNoError ==
  mode = "watch" /\ shown = 1 /\ ctx => status # "err"

\* An interrupt ends each command, in the middle of a round of probes too.
InterruptEnds == ctx ~> cmd = "exited"

=============================================================================
