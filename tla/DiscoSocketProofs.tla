-------------------------- MODULE DiscoSocketProofs --------------------------
(***************************************************************************)
(* What DiscoSocket's rounds publish, and what the readers that they leave *)
(* behind take, for any number of rounds.                                  *)
(***************************************************************************)
EXTENDS DiscoSocket, TLAPS

\* A call that waits has a round of its own.
CallsOK ==
  /\ round \in 0 .. MaxRounds
  /\ caller \in {"idle", "wait"} /\ (caller = "wait" => round \in Round)

\* A round's channel never holds the answer to another round, although its
\* reader may outlive the round and take in any datagram.
ResultsOwn ==
  /\ DOMAIN resCh = Round /\ resCh = [r \in DOMAIN resCh |-> resCh[r]]
  /\ \A r \in Round : resCh[r] \in {Empty, Failed, r}

AnswerInv == CallsOK /\ ResultsOwn /\ AnswerIsCurrent

LEMMA AnswerInvInit == Init => AnswerInv
BY RoundsAssumption DEF Init, AnswerInv, CallsOK, ResultsOwn, AnswerIsCurrent, Round

LEMMA AnswerInvStep == AnswerInv /\ [Next]_vars => AnswerInv'
<1> SUFFICES ASSUME AnswerInv, [Next]_vars PROVE AnswerInv'
  OBVIOUS
<1> USE DEF AnswerInv
<1>1. CASE Discover
  <2>1. CallsOK'
    BY <1>1, RoundsAssumption DEF Discover, CallsOK, Round
  <2> QED
    BY <1>1, <2>1 DEF Discover, ResultsOwn, AnswerIsCurrent
<1>2. CASE ContextDone
  BY <1>2 DEF ContextDone, Leave, CallsOK, ResultsOwn, AnswerIsCurrent
<1>3. CASE Result
  <2>1. round \in Round /\ resCh[round] \in {Failed, round}
    BY <1>3 DEF Result, CallsOK, ResultsOwn
  <2>2. AnswerIsCurrent'
    BY <1>3, <2>1 DEF Result, AnswerIsCurrent
  <2> QED
    BY <1>3, <2>2 DEF Result, Leave, CallsOK, ResultsOwn
<1>4. ASSUME NEW r \in Round, ReaderRead(r) PROVE AnswerInv'
  <2>1. PICK m \in buf :
          resCh' = [resCh EXCEPT ![r] = IF ~cancelled[r] /\ Pending(r, m) THEN m.round ELSE @]
    BY <1>4, Zenon DEF ReaderRead
  <2>2. Pending(r, m) => m.round = r
    BY DEF Pending, Answer
  <2>3. ResultsOwn'
    BY <2>1, <2>2, Zenon DEF ResultsOwn
  <2> QED
    BY <1>4, <2>3 DEF ReaderRead, roundVars, CallsOK, AnswerIsCurrent
<1>5. ASSUME NEW r \in Round, ReaderTimeout(r) PROVE AnswerInv'
  <2>1. ResultsOwn'
    BY <1>5, Zenon DEF ReaderTimeout, ResultsOwn
  <2> QED
    BY <1>5, <2>1 DEF ReaderTimeout, roundVars, CallsOK, AnswerIsCurrent
<1>6. ASSUME UNCHANGED <<round, caller, resCh, posted>> PROVE AnswerInv'
  BY <1>6 DEF CallsOK, ResultsOwn, AnswerIsCurrent
<1>7. ASSUME NEW r \in Round, ReaderArm(r) PROVE AnswerInv'
  BY <1>6, <1>7 DEF ReaderArm, roundVars
<1>8. CASE \/ Arrive \/ Expire \/ LoopStart \/ LoopArm \/ LoopRead \/ LoopTimeout
           \/ UNCHANGED vars
  BY <1>6, <1>8 DEF Arrive, Expire, LoopStart, LoopArm, LoopRead, LoopTimeout, roundVars, vars
<1> QED
  BY <1>1, <1>2, <1>3, <1>4, <1>5, <1>7, <1>8 DEF Next

\* No endpoint is published that answers a request of another call, for any
\* number of calls and of readers that they leave behind.
THEOREM AnswersAreCurrent == Spec => []AnswerIsCurrent
BY AnswerInvInit, AnswerInvStep, PTL DEF Spec, AnswerInv

-----------------------------------------------------------------------------
\* A reader that has taken a datagram after its round's end has ended, and
\* only rounds that have begun have readers.
LateInv ==
  /\ DOMAIN reader = Round /\ reader = [r \in DOMAIN reader |-> reader[r]]
  /\ late \in [Round -> Nat]
  /\ \A r \in Round : late[r] = 0 \/ (late[r] = 1 /\ reader[r] = "end")
  /\ \A r \in Round : reader[r] # "none" => r <= round
  /\ CallsOK

LEMMA LateInvInit == Init => LateInv
BY RoundsAssumption DEF Init, LateInv, CallsOK, Round

\* What a step does to the reader of one round.
LEMMA LateReader ==
  ASSUME LateInv, NEW r \in Round, reader[r] \in {"arm", "read"}, NEW l \in {"arm", "read", "end"},
         NEW c \in BOOLEAN, c => l = "end",
         reader' = [reader EXCEPT ![r] = l],
         late' = [late EXCEPT ![r] = IF c THEN @ + 1 ELSE @], UNCHANGED <<round, caller>>
  PROVE  LateInv'
<1>1. late[r] = 0 /\ r <= round
  BY DEF LateInv
<1>2. CallsOK'
  BY DEF LateInv, CallsOK
<1>3. DOMAIN reader' = Round /\ reader' = [x \in DOMAIN reader' |-> reader'[x]]
  BY Zenon DEF LateInv
<1>4. reader'[r] = l /\ \A x \in Round : x # r => reader'[x] = reader[x]
  BY DEF LateInv
<1>5. /\ late' \in [Round -> Nat] /\ \A x \in Round : x # r => late'[x] = late[x]
      /\ late'[r] = IF c THEN 1 ELSE 0
  BY <1>1 DEF LateInv
<1>6. \A x \in Round : late'[x] = 0 \/ (late'[x] = 1 /\ reader'[x] = "end")
  BY <1>4, <1>5 DEF LateInv
<1>7. \A x \in Round : reader'[x] # "none" => x <= round'
  BY <1>1, <1>4 DEF LateInv
<1> QED
  BY <1>2, <1>3, <1>5, <1>6, <1>7 DEF LateInv

LEMMA LateInvStep == LateInv /\ [Next]_vars => LateInv'
<1> SUFFICES ASSUME LateInv, [Next]_vars PROVE LateInv'
  OBVIOUS
<1>1. CASE Discover
  <2>1. CallsOK' /\ round + 1 \in Round /\ late' = late /\ round' = round + 1 /\ round \in Nat
    BY <1>1, RoundsAssumption DEF Discover, LateInv, CallsOK, Round
  <2>2. late[round + 1] = 0
    BY <2>1 DEF LateInv
  <2>3. DOMAIN reader' = Round /\ reader' = [x \in DOMAIN reader' |-> reader'[x]]
    BY <1>1, Zenon DEF Discover, LateInv
  <2>4. \A x \in Round : x # round + 1 => reader'[x] = reader[x]
    BY <1>1 DEF Discover, LateInv
  <2> QED
    BY <2>1, <2>2, <2>3, <2>4 DEF LateInv, Round
<1>2. CASE ContextDone \/ Result
  BY <1>2 DEF ContextDone, Result, Leave, LateInv, CallsOK
<1>3. ASSUME NEW r \in Round, ReaderRead(r) PROVE LateInv'
  <2>1. /\ reader[r] = "read" /\ UNCHANGED <<round, caller>>
        /\ late' = [late EXCEPT ![r] = IF cancelled[r] THEN @ + 1 ELSE @]
    BY <1>3 DEF ReaderRead, roundVars
  <2>2. PICK l \in {"end", "arm"} : reader' = [reader EXCEPT ![r] = l] /\ (cancelled[r] => l = "end")
    BY <1>3, Zenon DEF ReaderRead
  <2>3. late' = [late EXCEPT ![r] = IF cancelled[r] = TRUE THEN @ + 1 ELSE @]
    BY <2>1
  <2>4. (cancelled[r] = TRUE) \in BOOLEAN /\ (cancelled[r] = TRUE => l = "end")
    BY <2>2
  <2> QED
    BY <2>1, <2>2, <2>3, <2>4, LateReader
<1>4. ASSUME NEW r \in Round, ReaderArm(r) \/ ReaderTimeout(r) PROVE LateInv'
  <2>1. /\ reader[r] \in {"arm", "read"} /\ UNCHANGED <<round, caller>>
        /\ late' = [late EXCEPT ![r] = IF FALSE THEN @ + 1 ELSE @]
    BY <1>4 DEF ReaderArm, ReaderTimeout, roundVars, LateInv
  <2>2. PICK l \in {"read", "end"} : reader' = [reader EXCEPT ![r] = l]
    BY <1>4, Zenon DEF ReaderArm, ReaderTimeout
  <2> QED
    BY <2>1, <2>2, LateReader
<1>5. CASE \/ Arrive \/ Expire \/ LoopStart \/ LoopArm \/ LoopRead \/ LoopTimeout
           \/ UNCHANGED vars
  BY <1>5 DEF Arrive, Expire, LoopStart, LoopArm, LoopRead, LoopTimeout, roundVars, vars, LateInv, CallsOK
<1> QED
  BY <1>1, <1>2, <1>3, <1>4, <1>5 DEF Next

\* However many rounds there are, the reader of each takes at most one
\* datagram after the round's end.
THEOREM StaleReadersTakeAtMostOne == Spec => []StaleReadersTakeOne
<1>1. LateInv => StaleReadersTakeOne
  BY DEF LateInv, StaleReadersTakeOne
<1> QED
  BY <1>1, LateInvInit, LateInvStep, PTL DEF Spec

=============================================================================
