----------------------------- MODULE DiscoSocket -----------------------------
(***************************************************************************)
(* The disco socket and its readers: discoReadLoop (daemon.go), and the    *)
(* reader goroutine of each DiscoverPublic call (disco/stun.go) that       *)
(* collectEndpoints makes at start-up and then from refreshLoop.  They     *)
(* share one socket, whose read deadline is one value for all readers.     *)
(*                                                                         *)
(* A datagram is a disco envelope or the answer to the STUN requests of    *)
(* one round.  The network may lose, delay and repeat it.                  *)
(***************************************************************************)
EXTENDS Integers, FiniteSets

CONSTANT MaxRounds    \* bound: calls of DiscoverPublic

ASSUME RoundsAssumption == MaxRounds \in Nat \ {0}

VARIABLES
  buf,        \* datagrams that can be read
  deadline,   \* "none", "armed", "expired"
  loop,       \* discoReadLoop: "off", "arm", "read"
  round,      \* calls of DiscoverPublic so far
  caller,     \* "idle", or "wait" in DiscoverPublic's select
  reader,     \* a round's reader: "none", "arm", "read", "end"
  cancelled,  \* the round's context has been cancelled
  resCh,      \* the round's result: Empty, Failed, or the round answered
  posted,     \* <<call, round answered>> for each endpoint published
  late        \* datagrams a round's reader has taken after the round's end

Round  == 1 .. MaxRounds
Empty  == 0
Failed == -1

Disco     == [kind |-> "disco", round |-> 0]
Answer(r) == [kind |-> "stun", round |-> r]

roundVars == <<round, caller, cancelled, posted>>
vars == <<buf, deadline, loop, roundVars, reader, resCh, late>>

-----------------------------------------------------------------------------
Init ==
  /\ buf = {} /\ deadline = "none" /\ loop = "off"
  /\ round = 0 /\ caller = "idle" /\ posted = {}
  /\ reader    = [r \in Round |-> "none"]
  /\ cancelled = [r \in Round |-> FALSE]
  /\ resCh     = [r \in Round |-> Empty]
  /\ late      = [r \in Round |-> 0]

Arrive ==
  /\ \E m \in {Disco} \cup {Answer(r) : r \in 1 .. round} : buf' = buf \cup {m}
  /\ UNCHANGED <<deadline, loop, roundVars, reader, resCh, late>>

Expire ==
  /\ deadline = "armed"
  /\ deadline' = "expired"
  /\ UNCHANGED <<buf, loop, roundVars, reader, resCh, late>>

Readable(m) == deadline # "expired" /\ m \in buf

-----------------------------------------------------------------------------
(* DiscoverPublic, the caller's side                                       *)

\* The first round is Run's, before its loops; then refreshLoop makes one at
\* a time.  (A call none of whose requests can be sent returns before it
\* touches the socket's deadline or starts a reader.)
Discover ==
  /\ caller = "idle" /\ round < MaxRounds
  /\ round = 0 \/ loop # "off"
  /\ round'  = round + 1
  /\ caller' = "wait"
  /\ reader' = [reader EXCEPT ![round + 1] = "arm"]
  /\ UNCHANGED <<buf, deadline, loop, cancelled, resCh, posted, late>>

\* Both ways out cancel the round's context and clear the deadline.
Leave ==
  /\ caller' = "idle"
  /\ cancelled' = [cancelled EXCEPT ![round] = TRUE]
  /\ deadline' = "none"
  /\ UNCHANGED <<buf, loop, round, reader, resCh, late>>

\* collectEndpoints' 3 s are over, or the daemon is being shut down.
ContextDone ==
  /\ caller = "wait"
  /\ Leave /\ UNCHANGED posted

\* An endpoint is published if there is one.
Result ==
  /\ caller = "wait" /\ resCh[round] # Empty
  /\ posted' = posted \cup ({<<round, resCh[round]>>} \ {<<round, Failed>>})
  /\ Leave

-----------------------------------------------------------------------------
(* DiscoverPublic, the reader's side                                       *)

ReaderArm(r) ==
  /\ reader[r] = "arm"
  /\ deadline' = "armed"
  /\ reader' = [reader EXCEPT ![r] = "read"]
  /\ UNCHANGED <<buf, loop, roundVars, resCh, late>>

\* pending has the transaction IDs of this round's requests only.  (The faulty
\* variant knows those of earlier rounds.)
PendingAny(r, m) == m.kind = "stun"
Pending(r, m)    == m = Answer(r)

\* (The faulty variant looks at the context no more than at what it skips.)
ReaderReadOn(r) ==
  /\ reader[r] = "read"
  /\ late' = [late EXCEPT ![r] = IF cancelled[r] THEN @ + 1 ELSE @]
  /\ \E m \in buf :
       /\ Readable(m)
       /\ buf' = buf \ {m}
       /\ LET found == ~cancelled[r] /\ Pending(r, m) IN
          /\ reader' = [reader EXCEPT ![r] = IF found THEN "end" ELSE "arm"]
          /\ resCh'  = [resCh EXCEPT ![r] = IF found THEN m.round ELSE @]
  /\ UNCHANGED <<deadline, loop, roundVars>>

\* A cancelled reader ends with the datagram it has just read; any other
\* skips what does not answer its own requests.
ReaderRead(r) ==
  /\ reader[r] = "read"
  /\ late' = [late EXCEPT ![r] = IF cancelled[r] THEN @ + 1 ELSE @]
  /\ \E m \in buf :
       /\ Readable(m)
       /\ buf' = buf \ {m}
       /\ LET found == ~cancelled[r] /\ Pending(r, m) IN
          /\ reader' = [reader EXCEPT ![r] = IF cancelled[r] \/ found THEN "end" ELSE "arm"]
          /\ resCh'  = [resCh EXCEPT ![r] = IF found THEN m.round ELSE @]
  /\ UNCHANGED <<deadline, loop, roundVars>>

ReaderTimeout(r) ==
  /\ reader[r] = "read" /\ deadline = "expired"
  /\ reader' = [reader EXCEPT ![r] = "end"]
  /\ resCh'  = [resCh EXCEPT ![r] = Failed]
  /\ UNCHANGED <<buf, deadline, loop, roundVars, late>>

-----------------------------------------------------------------------------
(* discoReadLoop                                                           *)

\* Run starts it after its own call, also when that has sent nothing.
LoopStart ==
  /\ loop = "off" /\ round <= 1 /\ caller = "idle"
  /\ loop' = "arm"
  /\ UNCHANGED <<buf, deadline, roundVars, reader, resCh, late>>

LoopArm ==
  /\ loop = "arm"
  /\ loop' = "read" /\ deadline' = "armed"
  /\ UNCHANGED <<buf, roundVars, reader, resCh, late>>

\* An envelope goes to its peer's FSM; an answer does not open, and is skipped.
LoopRead ==
  /\ loop = "read"
  /\ \E m \in buf : Readable(m) /\ buf' = buf \ {m}
  /\ loop' = "arm"
  /\ UNCHANGED <<deadline, roundVars, reader, resCh, late>>

LoopTimeout ==
  /\ loop = "read" /\ deadline = "expired"
  /\ loop' = "arm"
  /\ UNCHANGED <<buf, deadline, roundVars, reader, resCh, late>>

-----------------------------------------------------------------------------
Next ==
  \/ Arrive \/ Expire
  \/ Discover \/ ContextDone \/ Result
  \/ \E r \in Round : ReaderArm(r) \/ ReaderRead(r) \/ ReaderTimeout(r)
  \/ LoopStart \/ LoopArm \/ LoopRead \/ LoopTimeout

Spec == Init /\ [][Next]_vars

-----------------------------------------------------------------------------
(* Properties                                                              *)

\* An endpoint that is published is the answer to a request of the very call
\* that publishes it: late answers to earlier rounds, and what the readers
\* that earlier rounds have left behind take in, are never published.
AnswerIsCurrent == \A p \in posted : p[1] = p[2]

\* A reader that its round has left behind takes at most one datagram more,
\* in however many rounds and however late it is woken: each round may cost
\* the peers' FSMs one envelope after its end, and no more.
StaleReadersTakeOne == \A r \in Round : late[r] <= 1

=============================================================================
