-------------------------- MODULE SignalRelayProofs --------------------------
(***************************************************************************)
(* Theorems about the wake-up channels and the queues of SignalRelay, and  *)
(* that it is a LossyFifo, for any keys, envelopes, handlers, queue depth  *)
(* and age limit.                                                          *)
(***************************************************************************)
EXTENDS SignalRelayFifo, TLAPS, WellFoundedInduction

-----------------------------------------------------------------------------
(* The wake-up channels                                                    *)

\* The types that the argument needs.
WakeTypes ==
  /\ chans \in Nat /\ closed \subseteq 1..chans
  /\ wakes \in [Recip -> 0..chans]
  /\ spc \in [Env -> {"new", "stamped", "closing", "done", "failed"}]
  /\ dest \in [Env -> Recip] /\ wake \in [Env -> 0..chans]
  /\ pc \in [Handler -> {"idle", "pop", "check", "wait", "repop", "reply"}]
  /\ to \in [Handler -> Recip] /\ ch \in [Handler -> 0..chans]

KeyType == key \in Recip

QueuesTotal == DOMAIN signals = Recip /\ signals = [r \in DOMAIN signals |-> signals[r]]

\* A channel in signalWakes is open, nobody is about to close it, it belongs
\* to one key, and that key's queue is empty.
WakesOpen ==
  /\ \A r \in Recip : wakes[r] # 0 =>
       /\ signals[r] = <<>>
       /\ wakes[r] \notin closed
       /\ \A e \in Env : spc[e] = "closing" => wake[e] # wakes[r]
  /\ \A q, r \in Recip : wakes[q] = wakes[r] /\ wakes[q] # 0 => q = r

\* A waiting handler's channel is in signalWakes until a sender takes it out
\* to close it.
WaitersKnown ==
  \A h \in Handler : pc[h] = "wait" =>
    \/ ch[h] \in closed
    \/ \E e \in Env : spc[e] = "closing" /\ wake[e] = ch[h]
    \/ ch[h] # 0 /\ wakes[to[h]] = ch[h]

ClosersHold == \A e \in Env : spc[e] = "closing" => wake[e] # 0

WakeInv == WakeTypes /\ QueuesTotal /\ WakesOpen /\ WaitersKnown /\ ClosersHold /\ CloseOnce

LEMMA WakeInvInit == Init => WakeInv
BY RelayAssumption DEF Init, WakeInv, WakeTypes, QueuesTotal, WakesOpen, WaitersKnown,
                        ClosersHold, CloseOnce

\* The steps that leave queues, channels and senders alone, and start no wait.
LEMMA QuietStep ==
  ASSUME WakeInv, WakeTypes', UNCHANGED <<queueVars, closed, spc, wake>>,
         \A h \in Handler : pc'[h] = "wait" => pc[h] = "wait" /\ ch'[h] = ch[h] /\ to'[h] = to[h]
  PROVE  WakeInv'
BY DEF WakeInv, QueuesTotal, WakesOpen, WaitersKnown, ClosersHold, CloseOnce, queueVars

LEMMA EnqueueStep ==
  ASSUME WakeInv, NEW e \in Env, EnqueueSignal(e)
  PROVE  WakeInv'
<1> DEFINE d == dest[e]
<1>1. d \in Recip /\ wakes[d] \in 0..chans
  BY DEF WakeInv, WakeTypes
<1>2. WakeTypes'
  BY <1>1 DEF EnqueueSignal, WakeInv, WakeTypes, handleVars
<1>8. QueuesTotal'
  BY <1>1, Zenon DEF EnqueueSignal, WakeInv, QueuesTotal
<1>9. ClosersHold'
  BY <1>1 DEF EnqueueSignal, WakeInv, WakeTypes, ClosersHold
<1>3. /\ wakes'[d] = 0 /\ \A r \in Recip \ {d} : wakes'[r] = wakes[r] /\ signals'[r] = signals[r]
      /\ wake'[e] = wakes[d] /\ \A f \in Env \ {e} : wake'[f] = wake[f] /\ spc'[f] = spc[f]
      /\ spc'[e] = IF wakes[d] = 0 THEN "done" ELSE "closing"
      /\ spc[e] = "stamped"
  BY <1>1 DEF EnqueueSignal, WakeInv, WakeTypes, QueuesTotal
<1>4. UNCHANGED <<closed, pc, to, ch>>
  BY DEF EnqueueSignal, handleVars
<1>5. WakesOpen'
  BY <1>1, <1>3, <1>4 DEF WakeInv, WakesOpen
<1>6. CloseOnce'
  BY <1>1, <1>3, <1>4 DEF WakeInv, WakesOpen, CloseOnce
<1>7. WaitersKnown'
  <2> SUFFICES ASSUME NEW h \in Handler, pc[h] = "wait", ch[h] \notin closed
               PROVE  \/ \E f \in Env : spc'[f] = "closing" /\ wake'[f] = ch[h]
                      \/ ch[h] # 0 /\ wakes'[to[h]] = ch[h]
    BY <1>4 DEF WaitersKnown
  <2>1. CASE \E f \in Env : spc[f] = "closing" /\ wake[f] = ch[h]
    BY <1>3, <2>1
  <2>2. CASE ch[h] # 0 /\ wakes[to[h]] = ch[h]
    <3>1. to[h] \in Recip
      BY DEF WakeInv, WakeTypes
    <3>2. CASE to[h] = d
      BY <1>3, <2>2, <3>2
    <3>3. CASE to[h] # d
      BY <1>3, <2>2, <3>1, <3>3
    <3> QED
      BY <3>2, <3>3
  <2> QED
    BY <2>1, <2>2 DEF WakeInv, WaitersKnown
<1> QED
  BY <1>2, <1>5, <1>6, <1>7, <1>8, <1>9 DEF WakeInv

LEMMA CloseStep ==
  ASSUME WakeInv, NEW e \in Env, CloseWake(e)
  PROVE  WakeInv'
<1>1. wake[e] \in 1..chans
  BY DEF CloseWake, WakeInv, WakeTypes, ClosersHold
<1>2. WakeTypes'
  <2>1. 0 \in 0..chans
    BY DEF WakeInv, WakeTypes
  <2>2. wake' \in [Env -> 0..chans] /\ closed' \subseteq 1..chans
    BY <1>1, <2>1, Zenon DEF CloseWake, WakeInv, WakeTypes
  <2>3. spc' \in [Env -> {"new", "stamped", "closing", "done", "failed"}]
    BY DEF CloseWake, WakeInv, WakeTypes
  <2> QED
    BY <2>2, <2>3 DEF CloseWake, WakeInv, WakeTypes, queueVars, handleVars
<1>3. /\ spc[e] = "closing" /\ spc'[e] = "done"
      /\ \A f \in Env \ {e} : spc'[f] = spc[f] /\ wake'[f] = wake[f]
      /\ closed' = closed \cup {wake[e]}
  BY DEF CloseWake, WakeInv, WakeTypes
<1>4. UNCHANGED <<signals, wakes, pc, to, ch>>
  BY DEF CloseWake, queueVars, handleVars
<1>5. WakesOpen' /\ ClosersHold' /\ CloseOnce'
  BY <1>3, <1>4 DEF WakeInv, WakesOpen, ClosersHold, CloseOnce
<1>6. WaitersKnown'
  BY <1>3, <1>4 DEF WakeInv, WaitersKnown
<1> QED
  BY <1>2, <1>4, <1>5, <1>6 DEF WakeInv, QueuesTotal

\* A pop only empties queues.
LEMMA PopStep ==
  ASSUME WakeInv, NEW h \in Handler, PopFirst(h) \/ PopAgain(h)
  PROVE  WakeInv'
<1>1. to[h] \in Recip
  BY DEF WakeInv, WakeTypes
<1>2. UNCHANGED <<wakes, chans, closed, spc, dest, wake, to, ch>>
  BY DEF PopFirst, PopAgain, sendVars
<1>3. WakeTypes' /\ \A g \in Handler : pc'[g] = "wait" => pc[g] = "wait"
  BY <1>2 DEF PopFirst, PopAgain, WakeInv, WakeTypes
<1>4. UNCHANGED signals \/ signals' = [signals EXCEPT ![to[h]] = <<>>]
  BY DEF PopFirst, PopAgain, PopSignals
<1>5. QueuesTotal' /\ \A r \in Recip : signals[r] = <<>> => signals'[r] = <<>>
  BY <1>1, <1>4 DEF WakeInv, QueuesTotal
<1>6. WakesOpen' /\ ClosersHold' /\ CloseOnce'
  BY <1>2, <1>5 DEF WakeInv, WakesOpen, ClosersHold, CloseOnce
<1>7. WaitersKnown'
  BY <1>2, <1>3 DEF WakeInv, WaitersKnown
<1> QED
  BY <1>3, <1>5, <1>6, <1>7 DEF WakeInv

\* A handler that joins or makes a channel does so beside an empty queue.
LEMMA WaitStep ==
  ASSUME WakeInv, NEW h \in Handler, WaitForSignal(h)
  PROVE  WakeInv'
<1>0. to[h] \in Recip /\ chans \in Nat
  BY DEF WakeInv, WakeTypes
<1>1. UNCHANGED <<signals, closed, spc, dest, wake, to>>
  BY DEF WaitForSignal, sendVars
<1>2. CASE signals[to[h]] # <<>>
  <2>1. UNCHANGED <<queueVars, ch>> /\ pc' = [pc EXCEPT ![h] = "repop"]
    BY <1>1, <1>2 DEF WaitForSignal, queueVars
  <2>2. WakeTypes'
    BY <1>1, <2>1 DEF WakeInv, WakeTypes, queueVars
  <2>3. \A g \in Handler : pc'[g] = "wait" => pc[g] = "wait"
    BY <2>1 DEF WakeInv, WakeTypes
  <2> QED
    BY <1>1, <2>1, <2>2, <2>3, QuietStep
<1>4. CASE signals[to[h]] = <<>> /\ wakes[to[h]] # 0
  <2>1. /\ UNCHANGED <<wakes, chans>>
        /\ ch' = [ch EXCEPT ![h] = wakes[to[h]]]
        /\ pc' = [pc EXCEPT ![h] = "wait"]
    BY <1>4 DEF WaitForSignal
  <2>2. WakeTypes'
    BY <1>0, <1>1, <2>1 DEF WakeInv, WakeTypes
  <2>3. WakesOpen' /\ ClosersHold' /\ CloseOnce' /\ QueuesTotal'
    BY <1>1, <2>1 DEF WakeInv, WakesOpen, ClosersHold, CloseOnce, QueuesTotal
  <2>4. /\ ch'[h] = wakes[to[h]]
        /\ \A g \in Handler \ {h} : ch'[g] = ch[g] /\ pc'[g] = pc[g]
    BY <2>1 DEF WakeInv, WakeTypes
  <2>5. WaitersKnown'
    BY <1>1, <1>4, <2>1, <2>4 DEF WakeInv, WaitersKnown
  <2> QED
    BY <2>2, <2>3, <2>5 DEF WakeInv
<1>3. CASE signals[to[h]] = <<>> /\ wakes[to[h]] = 0
  <2>1. /\ chans' = chans + 1
        /\ wakes' = [wakes EXCEPT ![to[h]] = chans + 1]
        /\ ch'    = [ch EXCEPT ![h] = chans + 1]
        /\ pc'    = [pc EXCEPT ![h] = "wait"]
    BY <1>3 DEF WaitForSignal
  <2>2. WakeTypes'
    BY <1>0, <1>1, <2>1 DEF WakeInv, WakeTypes
  <2>3. /\ \A r \in Recip : wakes[r] # chans + 1
        /\ \A e \in Env : wake[e] # chans + 1
        /\ chans + 1 \notin closed /\ chans + 1 # 0
    BY <1>0 DEF WakeInv, WakeTypes
  <2>4. /\ wakes'[to[h]] = chans + 1
        /\ \A r \in Recip \ {to[h]} : wakes'[r] = wakes[r]
    BY <1>0, <2>1 DEF WakeInv, WakeTypes
  <2>5. WakesOpen'
    BY <1>0, <1>1, <1>3, <2>3, <2>4 DEF WakeInv, WakesOpen
  <2>6. ClosersHold' /\ CloseOnce' /\ QueuesTotal'
    BY <1>1 DEF WakeInv, ClosersHold, CloseOnce, QueuesTotal
  <2>7. WaitersKnown'
    <3> SUFFICES ASSUME NEW g \in Handler, pc'[g] = "wait"
                 PROVE  \/ ch'[g] \in closed
                        \/ \E e \in Env : spc[e] = "closing" /\ wake[e] = ch'[g]
                        \/ ch'[g] # 0 /\ wakes'[to[g]] = ch'[g]
      BY <1>1 DEF WaitersKnown
    <3>1. CASE g = h
      BY <2>1, <2>3, <2>4, <3>1 DEF WakeInv, WakeTypes
    <3>2. CASE g # h
      <4>1. pc[g] = "wait" /\ ch'[g] = ch[g] /\ to[g] \in Recip
        BY <2>1, <3>2 DEF WakeInv, WakeTypes
      <4>2. ch[g] # 0 /\ wakes[to[g]] = ch[g] => to[g] # to[h]
        BY <1>3
      <4> QED
        BY <2>4, <4>1, <4>2 DEF WakeInv, WaitersKnown
    <3> QED
      BY <3>1, <3>2
  <2> QED
    BY <2>2, <2>5, <2>6, <2>7 DEF WakeInv
<1> QED
  BY <1>2, <1>3, <1>4

LEMMA KeyTypeStep == KeyType /\ [Next]_vars => KeyType'
BY Zenon DEF KeyType, Next, Stamp, SenderStep, EnqueueSignal, SendFails, CloseWake, Pull, HandlerStep,
       PopFirst, WaitForSignal, Woken, Timeout, PopAgain, Reply, Cancel, Disconnect, Rekey, Tick, vars

LEMMA WakeInvStep == KeyType /\ WakeInv /\ [Next]_vars => WakeInv'
<1> SUFFICES ASSUME KeyType, WakeInv, [Next]_vars
             PROVE  WakeInv'
  OBVIOUS
<1>1. ASSUME NEW e \in Env, NEW r \in Recip, Stamp(e, r)
      PROVE  WakeInv'
  <2>1. WakeTypes'
    BY <1>1 DEF Stamp, WakeInv, WakeTypes, queueVars, handleVars
  <2>2. \A f \in Env : spc'[f] = "closing" <=> spc[f] = "closing"
    BY <1>1 DEF Stamp, WakeInv, WakeTypes
  <2> QED
    BY <1>1, <2>1, <2>2 DEF Stamp, WakeInv, QueuesTotal, WakesOpen, WaitersKnown, ClosersHold,
                            CloseOnce, queueVars, handleVars
<1>2. ASSUME NEW e \in Env, SendFails(e)
      PROVE  WakeInv'
  <2>1. WakeTypes'
    BY <1>2 DEF SendFails, WakeInv, WakeTypes, queueVars, handleVars
  <2>2. \A f \in Env : spc'[f] = "closing" <=> spc[f] = "closing"
    BY <1>2 DEF SendFails, WakeInv, WakeTypes
  <2> QED
    BY <1>2, <2>1, <2>2 DEF SendFails, WakeInv, QueuesTotal, WakesOpen, WaitersKnown, ClosersHold,
                            CloseOnce, queueVars, handleVars
<1>3. ASSUME NEW h \in Handler, Pull(h) \/ Woken(h) \/ Timeout(h) \/ Reply(h) \/ Cancel(h)
      PROVE  WakeInv'
  <2>0. 0 \in 0..chans /\ key \in Recip
    BY DEF KeyType, WakeInv, WakeTypes
  <2>2. UNCHANGED <<queueVars, closed, spc, wake, dest>>
    BY <1>3, Zenon DEF Pull, Woken, Timeout, Reply, Cancel, sendVars
  <2>4. pc' \in [Handler -> {"idle", "pop", "check", "wait", "repop", "reply"}]
    BY <1>3, Zenon DEF Pull, Woken, Timeout, Reply, Cancel, WakeInv, WakeTypes
  <2>5. to' \in [Handler -> Recip] /\ ch' \in [Handler -> 0..chans]
    <3>1. CASE Pull(h)
      BY <2>0, <3>1 DEF Pull, WakeInv, WakeTypes
    <3>2. CASE Reply(h)
      BY <2>0, <3>2, RelayAssumption DEF Reply, WakeInv, WakeTypes
    <3>3. CASE Woken(h) \/ Timeout(h) \/ Cancel(h)
      BY <3>3 DEF Woken, Timeout, Cancel, WakeInv, WakeTypes
    <3> QED
      BY <1>3, <3>1, <3>2, <3>3
  <2>1. WakeTypes'
    BY <2>2, <2>4, <2>5 DEF WakeInv, WakeTypes, queueVars
  <2>3. \A g \in Handler : pc'[g] = "wait" => pc[g] = "wait" /\ ch'[g] = ch[g] /\ to'[g] = to[g]
    BY <1>3, Zenon DEF Pull, Woken, Timeout, Reply, Cancel, WakeInv, WakeTypes
  <2> QED
    BY <2>1, <2>2, <2>3, QuietStep
<1>4. CASE Disconnect \/ Rekey \/ Tick \/ UNCHANGED vars
  <2>1. UNCHANGED <<queueVars, closed, spc, wake, dest, pc, to, ch>>
    BY <1>4 DEF Disconnect, Rekey, Tick, vars, sendVars, handleVars, queueVars
  <2>2. WakeTypes'
    BY <2>1 DEF WakeInv, WakeTypes, queueVars
  <2> QED
    BY <2>1, <2>2, QuietStep
<1> QED
  BY <1>1, <1>2, <1>3, <1>4, EnqueueStep, CloseStep, PopStep, WaitStep
     DEF Next, SenderStep, HandlerStep

LEMMA WakeInvariance == Spec => []WakeInv
<1>1. Init => KeyType
  BY RelayAssumption DEF Init, KeyType
<1> QED
  BY <1>1, KeyTypeStep, WakeInvInit, WakeInvStep, PTL DEF Spec

\* A handler never waits beside a queue with envelopes in it without a closed
\* or closing channel, for any number of handlers and senders on a key.
THEOREM WakeupsAreNotLost == Spec => []NoLostWakeup
<1>1. WakeInv => NoLostWakeup
  BY Zenon DEF WakeInv, WakeTypes, WakesOpen, WaitersKnown, NoLostWakeup
<1> QED
  BY <1>1, WakeInvariance, PTL

\* EnqueueSignal never closes a closed channel.
THEOREM ChannelsAreClosedOnce == Spec => []CloseOnce
<1>1. WakeInv => CloseOnce
  BY DEF WakeInv
<1> QED
  BY <1>1, WakeInvariance, PTL

-----------------------------------------------------------------------------
(* Sequences                                                               *)

LEMMA SeqEqual ==
  ASSUME NEW s \in Seq(Env), NEW t \in Seq(Env),
         Len(s) = Len(t), \A i \in 1 .. Len(s) : s[i] = t[i]
  PROVE  s = t
OBVIOUS

LEMMA ConcatProperties ==
  ASSUME NEW s \in Seq(Env), NEW t \in Seq(Env)
  PROVE  /\ s \o t \in Seq(Env) /\ Len(s \o t) = Len(s) + Len(t)
         /\ \A i \in 1..Len(s) + Len(t) : (s \o t)[i] = IF i <= Len(s) THEN s[i] ELSE t[i - Len(s)]
         /\ Len(s) \in Nat /\ Len(t) \in Nat
OBVIOUS

LEMMA ConcatEmptySeq ==
  ASSUME NEW s \in Seq(Env)
  PROVE  s \o <<>> = s /\ <<>> \o s = s
BY SeqEqual, ConcatProperties

LEMMA HeadTailProperties ==
  ASSUME NEW s \in Seq(Env), s # <<>>
  PROVE  /\ Head(s) \in Env /\ Tail(s) \in Seq(Env) /\ Len(Tail(s)) = Len(s) - 1
         /\ \A i \in 1..Len(Tail(s)) : Tail(s)[i] = s[i + 1]
OBVIOUS

LEMMA AppendProperties ==
  ASSUME NEW s \in Seq(Env), NEW e \in Env
  PROVE  /\ Append(s, e) \in Seq(Env) /\ Len(Append(s, e)) = Len(s) + 1
         /\ \A i \in 1..Len(s) : Append(s, e)[i] = s[i]
         /\ Append(s, e)[Len(s) + 1] = e
OBVIOUS

-----------------------------------------------------------------------------
(* Fresh, and what LossyFifo keeps of a sequence                           *)

\* Induction over the naturals for a set: a least counterexample would have a
\* predecessor.
LEMMA NatSetInduction ==
  ASSUME NEW S, 0 \in S, \A n \in Nat : n \in S => n + 1 \in S
  PROVE  Nat \subseteq S
<1> SUFFICES ASSUME NEW m \in Nat \ S PROVE FALSE
  OBVIOUS
<1> DEFINE T == Nat \ S
<1>1. PICK n \in T : \A k \in T : ~(<<k, n>> \in OpToRel(<, Nat))
  BY NatLessThanWellFounded, WFMin, Zenon
<1>2. n # 0 /\ n - 1 \in Nat
  OBVIOUS
<1>3. n - 1 \in S
  <2>1. <<n - 1, n>> \in {ss \in Nat \X Nat : ss[1] < ss[2]}
    BY <1>2
  <2>2. <<n - 1, n>> \in OpToRel(<, Nat)
    BY <2>1, Zenon DEF OpToRel
  <2> QED
    BY <1>1, <1>2, <2>2, Zenon
<1> QED
  BY <1>2, <1>3

\* PopSignals' loop is well defined: its value after i envelopes is the one
\* that its body computes from the value before.
LEMMA FreshLoop ==
  ASSUME NEW q \in Seq(Env)
  PROVE  \E fresh :
           /\ Fresh(q) = fresh[Len(q)] /\ fresh[0] = <<>>
           /\ \A i \in 1..Len(q) :
                fresh[i] = IF age[q[i]] < MaxAge THEN Append(fresh[i - 1], q[i]) ELSE fresh[i - 1]
<1> DEFINE Body(g, i) == IF i = 0 THEN <<>>
                         ELSE IF age[q[i]] < MaxAge THEN Append(g[i - 1], q[i]) ELSE g[i - 1]
           S == {n \in Nat : \E g : g = [i \in 0..n |-> Body(g, i)]}
<1>1. 0 \in S
  <2> DEFINE g == [i \in 0..0 |-> <<>>]
  <2>1. g = [i \in 0..0 |-> Body(g, i)]
    OBVIOUS
  <2> QED
    BY <2>1, Zenon
<1>2. ASSUME NEW n \in Nat, n \in S PROVE n + 1 \in S
  <2>1. PICK g : g = [i \in 0..n |-> Body(g, i)]
    BY <1>2, Zenon
  <2> DEFINE h == [i \in 0..(n + 1) |-> IF i = n + 1 THEN Body(g, i) ELSE g[i]]
  <2>2. \A i \in 0..n : g[i] = Body(g, i)
    <3> HIDE DEF Body
    <3> QED
      BY <2>1
  <2>3. ASSUME NEW i \in 0..(n + 1) PROVE h[i] = Body(h, i)
    <3>1. CASE i = n + 1
      BY <3>1
    <3>2. CASE i \in 0..n
      <4>1. h[i] = g[i] /\ (i # 0 => h[i - 1] = g[i - 1])
        BY <3>2
      <4> QED
        BY <2>2, <3>2, <4>1
    <3> QED
      BY <3>1, <3>2
  <2>4. h = [i \in 0..(n + 1) |-> Body(h, i)]
    <3> HIDE DEF Body
    <3>1. h = [i \in 0..(n + 1) |-> h[i]]
      OBVIOUS
    <3> HIDE DEF h
    <3> QED
      BY <2>3, <3>1
  <2> HIDE DEF h, Body
  <2> QED
    BY <2>4
<1>3. Len(q) \in S
  <2> HIDE DEF S
  <2> QED
    BY <1>1, <1>2, NatSetInduction
<1>4. PICK w : w = [i \in 0..Len(q) |-> Body(w, i)]
  BY <1>3
<1> DEFINE k == CHOOSE v : v = [i \in 0..Len(q) |-> Body(v, i)]
<1>5. k = [i \in 0..Len(q) |-> Body(k, i)]
  <2> HIDE DEF Body
  <2> QED
    BY <1>4, Zenon
<1>6. Fresh(q) = k[Len(q)]
  BY DEF Fresh
<1>7. \A i \in 0..Len(q) : k[i] = Body(k, i)
  <2> HIDE DEF Body, k
  <2> QED
    BY <1>5
<1> HIDE DEF k
<1>8. k[0] = <<>> /\ \A i \in 1..Len(q) :
        k[i] = IF age[q[i]] < MaxAge THEN Append(k[i - 1], q[i]) ELSE k[i - 1]
  <2>1. 0 \in 0..Len(q) /\ \A i \in 1..Len(q) : i \in 0..Len(q) /\ i # 0
    <3>1. Len(q) \in Nat
      OBVIOUS
    <3> QED
      BY <3>1
  <2> QED
    BY <1>7, <2>1, Zenon
<1> QED
  BY <1>6, <1>8

\* Fresh keeps, in order, exactly what is young enough.
LEMMA FreshPlaces ==
  ASSUME NEW q \in Seq(Env)
  PROVE  \E n \in 0..Len(q) : \E f \in Fifo!Places(n, Len(q)) :
           /\ Fresh(q) = [i \in 1..n |-> q[f[i]]]
           /\ \A j \in 1..Len(q) : age[q[j]] < MaxAge => \E i \in 1..n : f[i] = j
<1> DEFINE Found(g, m) ==
             \E n \in 0..m : \E f \in Fifo!Places(n, m) :
               /\ g = [i \in 1..n |-> q[f[i]]]
               /\ \A j \in 1..m : age[q[j]] < MaxAge => \E i \in 1..n : f[i] = j
<1>1. PICK g : /\ Fresh(q) = g[Len(q)] /\ g[0] = <<>>
               /\ \A i \in 1..Len(q) :
                    g[i] = IF age[q[i]] < MaxAge THEN Append(g[i - 1], q[i]) ELSE g[i - 1]
  BY FreshLoop
<1> DEFINE S == {m \in Nat : m <= Len(q) => Found(g[m], m)}
<1>3. 0 \in S
  <2> DEFINE f == [i \in 1..0 |-> 0]
  <2>1. f \in Fifo!Places(0, 0)
    BY DEF Fifo!Places
  <2>2. g[0] = [i \in 1..0 |-> q[f[i]]]
    BY <1>1
  <2> HIDE DEF f
  <2> QED
    BY <2>1, <2>2
<1>4. ASSUME NEW m \in Nat, m \in S PROVE m + 1 \in S
  <2> SUFFICES ASSUME m + 1 <= Len(q) PROVE Found(g[m + 1], m + 1)
    <3> HIDE DEF Found
    <3> QED
      OBVIOUS
  <2>6. Found(g[m], m)
    <3> HIDE DEF Found
    <3> QED
      BY <1>4
  <2>0. PICK n \in 0..m : \E f \in Fifo!Places(n, m) :
          /\ g[m] = [i \in 1..n |-> q[f[i]]]
          /\ \A j \in 1..m : age[q[j]] < MaxAge => \E i \in 1..n : f[i] = j
    BY <2>6
  <2>1. PICK f \in Fifo!Places(n, m) :
          /\ g[m] = [i \in 1..n |-> q[f[i]]]
          /\ \A j \in 1..m : age[q[j]] < MaxAge => \E i \in 1..n : f[i] = j
    BY <2>0
  <2>2. f \in [1..n -> 1..m] /\ \A i, j \in 1..n : i < j => f[i] < f[j]
    BY DEF Fifo!Places
  <2>3. m + 1 \in 1..Len(q) /\ (m + 1) - 1 = m /\ q[m + 1] \in Env
    OBVIOUS
  <2>4. CASE ~(age[q[m + 1]] < MaxAge)
    <3>1. g[m + 1] = g[m]
      BY <1>1, <2>3, <2>4
    <3>2. f \in Fifo!Places(n, m + 1)
      BY <2>2 DEF Fifo!Places
    <3>3. ASSUME NEW j \in 1..(m + 1), age[q[j]] < MaxAge PROVE \E i \in 1..n : f[i] = j
      <4>1. j # m + 1
        BY <2>4, <3>3
      <4>2. j \in 1..m
        BY <4>1
      <4> QED
        BY <2>1, <3>3, <4>2
    <3> QED
      BY <2>1, <3>1, <3>2, <3>3
  <2>5. CASE age[q[m + 1]] < MaxAge
    <3> DEFINE h == [i \in 1..(n + 1) |-> IF i = n + 1 THEN m + 1 ELSE f[i]]
    <3>1. g[m + 1] = Append(g[m], q[m + 1])
      BY <1>1, <2>3, <2>5, Zenon
    <3>2. h \in Fifo!Places(n + 1, m + 1)
      BY <2>2 DEF Fifo!Places
    <3>3. Append(g[m], q[m + 1]) = [i \in 1..(n + 1) |-> q[h[i]]]
      <4>1. g[m] \in Seq(Env) /\ Len(g[m]) = n
        BY <2>1, <2>2
      <4>2. [i \in 1..(n + 1) |-> q[h[i]]] \in Seq(Env)
        BY <2>2, <2>3
      <4>3. \A i \in 1..(n + 1) : Append(g[m], q[m + 1])[i] = q[h[i]]
        BY <2>1, <2>2, <2>3, <4>1
      <4> QED
        BY <2>3, <4>1, <4>2, <4>3, SeqEqual
    <3>4. ASSUME NEW j \in 1..(m + 1), age[q[j]] < MaxAge PROVE \E i \in 1..(n + 1) : h[i] = j
      <4>1. CASE j = m + 1
        BY <4>1
      <4>2. CASE j \in 1..m
        <5>1. PICK i \in 1..n : f[i] = j
          BY <2>1, <3>4, <4>2
        <5>2. i \in 1..(n + 1) /\ h[i] = j
          BY <5>1
        <5> QED
          BY <5>2
      <4> QED
        BY <4>1, <4>2
    <3> HIDE DEF h
    <3> QED
      BY <3>1, <3>2, <3>3, <3>4
  <2> QED
    BY <2>4, <2>5, Zenon
<1>5. Len(q) \in S
  <2> HIDE DEF S
  <2> QED
    BY <1>3, <1>4, NatSetInduction
<1>6. Found(g[Len(q)], Len(q))
  <2> HIDE DEF Found
  <2> QED
    BY <1>5
<1> QED
  BY <1>1, <1>6

\* What PopSignals answers: a part of the queue, in its order, with everything
\* in it that is not too old.
LEMMA FreshKeeps ==
  ASSUME NEW q \in Seq(Env)
  PROVE  /\ Fresh(q) \in Seq(Env) /\ Fresh(q) \in Fifo!Kept(q)
         /\ \A e \in Range(q) : age[e] < MaxAge => e \in Range(Fresh(q))
<1>0. PICK n \in 0..Len(q) : \E f \in Fifo!Places(n, Len(q)) :
        /\ Fresh(q) = [i \in 1..n |-> q[f[i]]]
        /\ \A j \in 1..Len(q) : age[q[j]] < MaxAge => \E i \in 1..n : f[i] = j
  BY FreshPlaces, Zenon
<1>1. PICK f \in Fifo!Places(n, Len(q)) :
        /\ Fresh(q) = [i \in 1..n |-> q[f[i]]]
        /\ \A j \in 1..Len(q) : age[q[j]] < MaxAge => \E i \in 1..n : f[i] = j
  BY <1>0
<1>2. f \in [1..n -> 1..Len(q)]
  BY DEF Fifo!Places
<1>3. Fresh(q) \in Seq(Env) /\ DOMAIN Fresh(q) = 1..n
  BY <1>1, <1>2
<1>4. Fresh(q) \in Fifo!Kept(q)
  BY <1>1 DEF Fifo!Kept
<1>5. ASSUME NEW e \in Range(q), age[e] < MaxAge PROVE e \in Range(Fresh(q))
  <2>1. PICK j \in 1..Len(q) : e = q[j]
    BY DEF Range
  <2>2. PICK i \in 1..n : f[i] = j
    BY <1>1, <1>5, <2>1
  <2>3. Fresh(q)[i] = e
    BY <1>1, <2>1, <2>2
  <2> QED
    BY <1>3, <2>3 DEF Range
<1> QED
  BY <1>3, <1>4, <1>5

\* What is left when a part of a sequence is dropped is a sequence that a
\* lossy queue may keep.
LEMMA KeptByPlaces ==
  ASSUME NEW s \in Seq(Env), NEW t \in Seq(Env), Len(t) <= Len(s),
         NEW f \in Fifo!Places(Len(t), Len(s)), \A i \in 1..Len(t) : t[i] = s[f[i]]
  PROVE  t \in Fifo!Kept(s)
<1>1. t = [i \in 1..Len(t) |-> s[f[i]]]
  OBVIOUS
<1>2. Len(t) \in 0..Len(s)
  OBVIOUS
<1> QED
  BY <1>1, <1>2 DEF Fifo!Kept

LEMMA KeptAll ==
  ASSUME NEW s \in Seq(Env)
  PROVE  s \in Fifo!Kept(s)
<1> DEFINE f == [i \in 1..Len(s) |-> i]
<1>1. f \in Fifo!Places(Len(s), Len(s))
  BY DEF Fifo!Places
<1> QED
  BY <1>1, KeptByPlaces

LEMMA KeptOfConcat ==
  ASSUME NEW a \in Seq(Env), NEW b \in Seq(Env)
  PROVE  /\ a \in Fifo!Kept(a \o b)
         /\ b \in Fifo!Kept(a \o b)
         /\ b # <<>> => a \o Tail(b) \in Fifo!Kept(a \o b)
<1>1. /\ a \o b \in Seq(Env) /\ Len(a \o b) = Len(a) + Len(b)
      /\ \A i \in 1..Len(a) : (a \o b)[i] = a[i]
      /\ \A i \in 1..Len(b) : (a \o b)[Len(a) + i] = b[i]
  BY ConcatProperties
<1>2. a \in Fifo!Kept(a \o b)
  <2> DEFINE f == [i \in 1..Len(a) |-> i]
  <2>1. f \in Fifo!Places(Len(a), Len(a \o b))
    BY <1>1 DEF Fifo!Places
  <2>2. Len(a) <= Len(a \o b) /\ \A i \in 1..Len(a) : a[i] = (a \o b)[f[i]]
    BY <1>1
  <2> HIDE DEF f
  <2> QED
    BY <1>1, <2>1, <2>2, KeptByPlaces, Zenon
<1>3. b \in Fifo!Kept(a \o b)
  <2> DEFINE f == [i \in 1..Len(b) |-> Len(a) + i]
  <2>1. f \in Fifo!Places(Len(b), Len(a \o b))
    BY <1>1 DEF Fifo!Places
  <2>2. Len(b) <= Len(a \o b) /\ \A i \in 1..Len(b) : b[i] = (a \o b)[f[i]]
    BY <1>1
  <2> HIDE DEF f
  <2> QED
    BY <1>1, <2>1, <2>2, KeptByPlaces, Zenon
<1>4. ASSUME b # <<>> PROVE a \o Tail(b) \in Fifo!Kept(a \o b)
  <2> DEFINE t == a \o Tail(b)
             f == [i \in 1..Len(t) |-> IF i <= Len(a) THEN i ELSE i + 1]
  <2>1. /\ Tail(b) \in Seq(Env) /\ Len(Tail(b)) = Len(b) - 1
        /\ \A i \in 1..Len(Tail(b)) : Tail(b)[i] = b[i + 1]
    BY <1>4, HeadTailProperties
  <2>2. /\ t \in Seq(Env) /\ Len(t) = Len(a) + Len(b) - 1
        /\ \A i \in 1..Len(t) : t[i] = IF i <= Len(a) THEN a[i] ELSE Tail(b)[i - Len(a)]
    BY <2>1, ConcatProperties
  <2>3. f \in Fifo!Places(Len(t), Len(a \o b))
    <3> HIDE DEF t
    <3> QED
      BY <1>1, <2>2 DEF Fifo!Places
  <2>4. ASSUME NEW i \in 1..Len(t) PROVE t[i] = (a \o b)[f[i]]
    <3>1. CASE i <= Len(a)
      BY <1>1, <2>2, <3>1
    <3>2. CASE i > Len(a)
      <4>1. f[i] = Len(a) + (i - Len(a) + 1) /\ i - Len(a) \in 1..Len(Tail(b))
            /\ i - Len(a) + 1 \in 1..Len(b)
        BY <2>1, <2>2, <3>2
      <4>2. t[i] = b[i - Len(a) + 1]
        BY <2>1, <2>2, <3>2, <4>1
      <4>3. (a \o b)[Len(a) + (i - Len(a) + 1)] = b[i - Len(a) + 1]
        BY <1>1, <4>1
      <4> QED
        BY <4>1, <4>2, <4>3
    <3> QED
      BY <2>2, <3>1, <3>2
  <2>5. Len(t) <= Len(a \o b)
    BY <1>1, <2>2
  <2>6. t \in Fifo!Kept(a \o b)
    <3> HIDE DEF t, f
    <3> QED
      BY <1>1, <2>2, <2>3, <2>4, <2>5, KeptByPlaces, Zenon
  <2> QED
    BY <2>6
<1> QED
  BY <1>2, <1>3, <1>4

-----------------------------------------------------------------------------
(* Types and order                                                         *)

QueueTypes ==
  /\ key \in Recip
  /\ signals \in [Recip -> Seq(Env)] /\ \A r \in Recip : Len(signals[r]) <= Depth
  /\ age \in [Env -> 0..MaxAge]
  /\ envs \in [Handler -> Seq(Env)]
  /\ cancelled \in [Handler -> BOOLEAN]
  /\ listening \in Handler \cup {NoHandler}
  /\ got \in [Recip -> Seq(Env)] /\ order \in [Recip -> Seq(Env)]

\* A handler holds envelopes only when it is about to reply.
HandsEmpty == \A h \in Handler : pc[h] # "reply" => envs[h] = <<>>

\* s is the end of o.
Newest(s, o) == Len(s) <= Len(o) /\ \A i \in 1..Len(s) : s[i] = o[Len(o) - Len(s) + i]

\* What is queued is the end of what was enqueued.
NewestQueued == \A r \in Recip : Newest(signals[r], order[r])

RelayInv == WakeInv /\ QueueTypes /\ HandsEmpty /\ NewestQueued

LEMMA RelayInvInit == Init => RelayInv
<1> SUFFICES ASSUME Init PROVE RelayInv
  OBVIOUS
<1>1. QueueTypes
  <2>1. cancelled \in [Handler -> BOOLEAN]
    BY Zenon DEF Init
  <2> QED
    BY <2>1, RelayAssumption DEF Init, QueueTypes
<1>2. HandsEmpty /\ NewestQueued
  BY DEF Init, HandsEmpty, NewestQueued, Newest
<1> QED
  BY <1>1, <1>2, WakeInvInit DEF RelayInv

LEMMA RoomProperties ==
  ASSUME NEW q \in Seq(Env), Len(q) <= Depth
  PROVE  Room(q) \in Seq(Env) /\ Len(Room(q)) < Depth /\ Newest(Room(q), q)
<1>1. CASE Len(q) >= Depth
  <2>1. q # <<>> /\ Room(q) = Tail(q)
    BY <1>1, RelayAssumption DEF Room
  <2>2. Tail(q) \in Seq(Env) /\ Len(Tail(q)) = Len(q) - 1 /\ \A i \in 1..Len(Tail(q)) : Tail(q)[i] = q[i + 1]
    BY <2>1, HeadTailProperties
  <2> QED
    BY <1>1, <2>1, <2>2, RelayAssumption DEF Newest
<1>2. CASE ~(Len(q) >= Depth)
  BY <1>2, RelayAssumption DEF Room, Newest
<1> QED
  BY <1>1, <1>2

LEMMA NewestGrows ==
  ASSUME NEW p \in Seq(Env), NEW q \in Seq(Env), NEW o \in Seq(Env), NEW e \in Env,
         Newest(p, q), Newest(q, o)
  PROVE  Newest(Append(p, e), Append(o, e))
<1>1. Newest(p, o)
  BY DEF Newest
<1>2. /\ Len(Append(p, e)) = Len(p) + 1 /\ Len(Append(o, e)) = Len(o) + 1
      /\ Len(p) \in Nat /\ Len(o) \in Nat
  OBVIOUS
<1>3. ASSUME NEW i \in 1..(Len(p) + 1) PROVE Append(p, e)[i] = Append(o, e)[Len(o) - Len(p) + i]
  <2>1. CASE i = Len(p) + 1
    BY <2>1
  <2>2. CASE i \in 1..Len(p)
    <3>1. Append(p, e)[i] = p[i] /\ p[i] = o[Len(o) - Len(p) + i]
      BY <1>1, <2>2 DEF Newest
    <3>2. Len(o) - Len(p) + i \in 1..Len(o)
      BY <1>1, <2>2 DEF Newest
    <3>3. Append(o, e)[Len(o) - Len(p) + i] = o[Len(o) - Len(p) + i]
      BY <3>2
    <3> QED
      BY <3>1, <3>3
  <2>3. i = Len(p) + 1 \/ i \in 1..Len(p)
    BY <1>2
  <2> QED
    BY <2>1, <2>2, <2>3, Zenon
<1>4. (Len(o) + 1) - (Len(p) + 1) = Len(o) - Len(p) /\ Len(p) + 1 <= Len(o) + 1
  BY <1>1, <1>2 DEF Newest
<1> QED
  BY <1>2, <1>3, <1>4, Zenon DEF Newest

LEMMA RelayEnqueue ==
  ASSUME RelayInv, NEW e \in Env, EnqueueSignal(e)
  PROVE  QueueTypes' /\ HandsEmpty' /\ NewestQueued'
<1> DEFINE d == dest[e]
           q == signals[d]
           o == order[d]
<1>1. /\ d \in Recip /\ q \in Seq(Env) /\ Len(q) <= Depth /\ o \in Seq(Env)
  BY DEF RelayInv, WakeInv, WakeTypes, QueueTypes
<1>2. /\ signals' = [signals EXCEPT ![d] = Append(Room(q), e)]
      /\ order' = [order EXCEPT ![d] = Append(o, e)]
      /\ UNCHANGED <<key, age, envs, cancelled, listening, got, pc>>
  BY DEF EnqueueSignal, handleVars
<1>3. Room(q) \in Seq(Env) /\ Len(Room(q)) < Depth /\ Newest(Room(q), q)
  BY <1>1, RoomProperties
<1>4. Append(Room(q), e) \in Seq(Env) /\ Len(Append(Room(q), e)) = Len(Room(q)) + 1
  BY <1>3, AppendProperties
<1>5. Append(o, e) \in Seq(Env)
  BY <1>1, AppendProperties
<1>6. /\ signals'[d] = Append(Room(q), e) /\ order'[d] = Append(o, e)
      /\ \A r \in Recip \ {d} : signals'[r] = signals[r] /\ order'[r] = order[r]
  BY <1>1, <1>2, Zenon DEF RelayInv, QueueTypes
<1>7. QueueTypes'
  <2>1. signals' \in [Recip -> Seq(Env)] /\ order' \in [Recip -> Seq(Env)]
    BY <1>1, <1>2, <1>4, <1>5 DEF RelayInv, QueueTypes
  <2>2. Len(signals'[d]) <= Depth
    BY <1>3, <1>4, <1>6, RelayAssumption
  <2>3. \A r \in Recip : Len(signals'[r]) <= Depth
    BY <1>6, <2>2, Zenon DEF RelayInv, QueueTypes
  <2> QED
    BY <1>2, <2>1, <2>3 DEF RelayInv, QueueTypes
<1>8. NewestQueued'
  <2>1. Newest(q, o)
    BY <1>1 DEF RelayInv, NewestQueued
  <2>2. Newest(Append(Room(q), e), Append(o, e))
    BY <1>1, <1>3, <2>1, NewestGrows
  <2> QED
    BY <1>6, <2>2, Zenon DEF RelayInv, NewestQueued
<1>9. HandsEmpty'
  BY <1>2 DEF RelayInv, HandsEmpty
<1> QED
  BY <1>7, <1>8, <1>9

LEMMA RelayPop ==
  ASSUME RelayInv, NEW h \in Handler, PopFirst(h) \/ PopAgain(h)
  PROVE  QueueTypes' /\ HandsEmpty' /\ NewestQueued'
<1>1. /\ to[h] \in Recip /\ signals[to[h]] \in Seq(Env)
      /\ pc \in [Handler -> {"idle", "pop", "check", "wait", "repop", "reply"}]
      /\ Fresh(signals[to[h]]) \in Seq(Env) /\ <<>> \in Seq(Env)
  <2>1. to[h] \in Recip
        /\ pc \in [Handler -> {"idle", "pop", "check", "wait", "repop", "reply"}]
    BY Zenon DEF RelayInv, WakeInv, WakeTypes
  <2>2. signals[to[h]] \in Seq(Env)
    BY <2>1, Zenon DEF RelayInv, QueueTypes
  <2>3. Fresh(signals[to[h]]) \in Seq(Env)
    BY <2>2, FreshKeeps, Zenon
  <2>4. <<>> \in Seq(Env)
    OBVIOUS
  <2> QED
    BY <2>1, <2>2, <2>3, <2>4
<1>2. UNCHANGED <<key, age, cancelled, listening, got, order>>
  BY DEF PopFirst, PopAgain, sendVars
<1>3. /\ \E s \in Seq(Env) : envs' = [envs EXCEPT ![h] = s]
      /\ UNCHANGED signals \/ signals' = [signals EXCEPT ![to[h]] = <<>>]
  BY <1>1, Zenon DEF PopFirst, PopAgain, PopSignals
<1>4. /\ signals' \in [Recip -> Seq(Env)]
      /\ \A r \in Recip : signals'[r] = signals[r] \/ signals'[r] = <<>>
  BY <1>1, <1>3, Zenon DEF RelayInv, QueueTypes
<1>5. QueueTypes'
  <2>1. \A r \in Recip : Len(signals'[r]) <= Depth
    BY <1>4, RelayAssumption DEF RelayInv, QueueTypes
  <2>2. envs' \in [Handler -> Seq(Env)]
    BY <1>3 DEF RelayInv, QueueTypes
  <2> QED
    BY <1>2, <1>4, <2>1, <2>2 DEF RelayInv, QueueTypes
<1>6. HandsEmpty'
  <2>1. pc'[h] # "reply" => envs'[h] = <<>>
    BY <1>1 DEF PopFirst, PopAgain
  <2>2. \A g \in Handler \ {h} : pc'[g] = pc[g] /\ envs'[g] = envs[g]
    BY <1>1, <1>3 DEF PopFirst, PopAgain, RelayInv, QueueTypes
  <2> QED
    BY <2>1, <2>2 DEF RelayInv, HandsEmpty
<1>7. NewestQueued'
  <2>1. \A r \in Recip : Newest(<<>>, order[r])
    BY DEF RelayInv, QueueTypes, Newest
  <2> QED
    BY <1>2, <1>4, <2>1 DEF RelayInv, NewestQueued
<1> QED
  BY <1>5, <1>6, <1>7

\* The steps that leave the queues alone.
LEMMA RelayElsewhere ==
  ASSUME RelayInv, UNCHANGED <<signals, order>>, key' \in Recip, age' \in [Env -> 0..MaxAge],
         cancelled' \in [Handler -> BOOLEAN], listening' \in Handler \cup {NoHandler},
         got' \in [Recip -> Seq(Env)], envs' \in [Handler -> Seq(Env)],
         \A h \in Handler : \/ envs'[h] = <<>>
                            \/ envs'[h] = envs[h] /\ (pc'[h] = "reply" <=> pc[h] = "reply")
  PROVE  QueueTypes' /\ HandsEmpty' /\ NewestQueued'
BY Zenon DEF RelayInv, QueueTypes, HandsEmpty, NewestQueued

LEMMA RelayInvStep == RelayInv /\ [Next]_vars => RelayInv'
<1> SUFFICES ASSUME RelayInv, [Next]_vars PROVE QueueTypes' /\ HandsEmpty' /\ NewestQueued'
  BY WakeInvStep DEF RelayInv, QueueTypes, KeyType
<1> USE DEF queueVars, sendVars, handleVars
<1>0. QueueTypes /\ HandsEmpty /\ pc \in [Handler -> {"idle", "pop", "check", "wait", "repop", "reply"}]
      /\ to \in [Handler -> Recip]
  BY DEF RelayInv, WakeInv, WakeTypes
<1>1. ASSUME NEW e \in Env, NEW r \in Recip, Stamp(e, r) \/ SendFails(e) \/ CloseWake(e)
      PROVE  QueueTypes' /\ HandsEmpty' /\ NewestQueued'
  BY <1>0, <1>1, RelayElsewhere, Zenon DEF Stamp, SendFails, CloseWake, QueueTypes
<1>2. ASSUME NEW h \in Handler, Pull(h) \/ WaitForSignal(h) \/ Woken(h) \/ Timeout(h)
      PROVE  QueueTypes' /\ HandsEmpty' /\ NewestQueued'
  <2>1. UNCHANGED <<signals, order, key, age, cancelled, got, envs>> /\ listening' \in Handler \cup {NoHandler}
    BY <1>0, <1>2 DEF Pull, WaitForSignal, Woken, Timeout, QueueTypes
  <2>2. pc[h] # "reply" /\ \A g \in Handler \ {h} : pc'[g] = pc[g]
    BY <1>0, <1>2, Zenon DEF Pull, WaitForSignal, Woken, Timeout
  <2>3. envs'[h] = <<>>
    BY <1>0, <2>1, <2>2 DEF HandsEmpty
  <2> QED
    BY <1>0, <2>1, <2>2, <2>3, RelayElsewhere, Zenon DEF QueueTypes
<1>3. ASSUME NEW h \in Handler, Reply(h)
      PROVE  QueueTypes' /\ HandsEmpty' /\ NewestQueued'
  <2>1. got' \in [Recip -> Seq(Env)]
    <3>1. to[h] \in Recip /\ got[to[h]] \in Seq(Env) /\ envs[h] \in Seq(Env)
      BY <1>0 DEF QueueTypes
    <3>2. got[to[h]] \o envs[h] \in Seq(Env)
      BY <3>1, ConcatProperties
    <3> QED
      BY <1>0, <1>3, <3>1, <3>2, Zenon DEF Reply, QueueTypes
  <2>2. envs' \in [Handler -> Seq(Env)]
    BY <1>0, <1>3 DEF Reply, QueueTypes
  <2>3. cancelled' \in [Handler -> BOOLEAN]
    BY <1>0, <1>3, Zenon DEF Reply, QueueTypes
  <2>4. UNCHANGED <<signals, order, key, age>> /\ listening' \in Handler \cup {NoHandler}
    BY <1>0, <1>3 DEF Reply, QueueTypes
  <2>5. envs'[h] = <<>> /\ \A g \in Handler \ {h} : envs'[g] = envs[g] /\ pc'[g] = pc[g]
    BY <1>0, <1>3 DEF Reply, QueueTypes
  <2> QED
    BY <1>0, <2>1, <2>2, <2>3, <2>4, <2>5, RelayElsewhere, Zenon DEF QueueTypes
<1>4. ASSUME NEW h \in Handler, Cancel(h)
      PROVE  QueueTypes' /\ HandsEmpty' /\ NewestQueued'
  <2>1. cancelled' \in [Handler -> BOOLEAN]
    BY <1>0, <1>4, Zenon DEF Cancel, QueueTypes
  <2> QED
    BY <1>0, <1>4, <2>1, RelayElsewhere DEF Cancel, QueueTypes
<1>5. CASE Disconnect \/ Rekey \/ UNCHANGED vars
  BY <1>0, <1>5, RelayElsewhere DEF Disconnect, Rekey, vars, QueueTypes
<1>6. CASE Tick
  <2>1. ASSUME NEW e \in Env PROVE age[e] \in 0..MaxAge /\ (e \in Ageing => age[e] + 1 \in 0..MaxAge)
    <3>1. age[e] \in 0..MaxAge /\ MaxAge \in Nat
      BY <1>0, RelayAssumption DEF QueueTypes
    <3>2. e \in Ageing => age[e] < MaxAge
      BY DEF Ageing
    <3> QED
      BY <3>1, <3>2
  <2>2. age' \in [Env -> 0..MaxAge]
    BY <1>6, <2>1 DEF Tick
  <2> QED
    BY <1>0, <1>6, <2>2, RelayElsewhere DEF Tick, QueueTypes
<1> QED
  BY <1>1, <1>2, <1>3, <1>4, <1>5, <1>6, RelayEnqueue, RelayPop, RelayAssumption
     DEF Next, SenderStep, HandlerStep

LEMMA RelayInvariance == Spec => []RelayInv
BY RelayInvInit, RelayInvStep, PTL DEF Spec

\* The relay's maps and the handlers' variables keep their types, and no queue
\* grows beyond maxQueueDepth.
THEOREM RelayTypeCorrect == Spec => []TypeOK
<1>1. RelayInv => TypeOK
  BY DEF RelayInv, WakeInv, WakeTypes, QueueTypes, TypeOK
<1> QED
  BY <1>1, RelayInvariance, PTL

\* A full queue gives up its oldest envelope, whatever is popped in between.
THEOREM QueuesHoldNewest == Spec => []QueueHoldsNewest
<1>1. RelayInv => QueueHoldsNewest
  <2> SUFFICES ASSUME NEW s \in Seq(Env), NEW o \in Seq(Env), Newest(s, o)
               PROVE  Len(s) <= Len(o) /\ s = SubSeq(o, Len(o) - Len(s) + 1, Len(o))
    BY DEF RelayInv, QueueTypes, NewestQueued, QueueHoldsNewest
  <2> DEFINE t == SubSeq(o, Len(o) - Len(s) + 1, Len(o))
  <2>1. /\ Len(s) \in Nat /\ Len(o) \in Nat /\ Len(s) <= Len(o)
        /\ \A i \in 1..Len(s) : s[i] = o[Len(o) - Len(s) + i]
    BY DEF Newest
  <2>2. t \in Seq(Env) /\ Len(t) = Len(s) /\ \A i \in 1..Len(s) : t[i] = o[Len(o) - Len(s) + i]
    BY <2>1
  <2> HIDE DEF t
  <2>3. s = t
    BY <2>1, <2>2, SeqEqual
  <2> QED
    BY <2>1, <2>3 DEF t
<1> QED
  BY <1>1, RelayInvariance, PTL

-----------------------------------------------------------------------------
(* A lossy queue                                                           *)

Sent == {e \in Env : spc[e] \in {"closing", "done"}}

\* The elements of sequences.
LEMMA Elements ==
  ASSUME NEW a \in Seq(Env), NEW b \in Seq(Env), NEW e \in Env
  PROVE  /\ Range(a) \subseteq Env
         /\ Range(a \o b) = Range(a) \cup Range(b)
         /\ Range(a) \subseteq Range(Append(a, e))
         /\ a # <<>> => Range(a) \subseteq {Head(a)} \cup Range(Tail(a))
<1>1. \A c \in Seq(Env) : Range(c) = {c[i] : i \in 1..Len(c)}
  BY DEF Range
<1>2. Range(a) \subseteq Env
  BY <1>1
<1>3. Range(a \o b) = Range(a) \cup Range(b)
  <2>1. /\ a \o b \in Seq(Env) /\ Len(a \o b) = Len(a) + Len(b)
        /\ \A i \in 1..Len(a) + Len(b) : (a \o b)[i] = IF i <= Len(a) THEN a[i] ELSE b[i - Len(a)]
    BY ConcatProperties
  <2>2. \A i \in 1..Len(a) : (a \o b)[i] = a[i] /\ i \in 1..Len(a \o b)
    BY <2>1
  <2>3. \A i \in 1..Len(b) : (a \o b)[Len(a) + i] = b[i] /\ Len(a) + i \in 1..Len(a \o b)
    BY <2>1
  <2>4. \A i \in 1..Len(a \o b) :
          \/ i \in 1..Len(a) /\ (a \o b)[i] = a[i]
          \/ i - Len(a) \in 1..Len(b) /\ (a \o b)[i] = b[i - Len(a)]
    BY <2>1
  <2>5. ASSUME NEW x \in Range(a \o b) PROVE x \in Range(a) \cup Range(b)
    <3>1. PICK i \in 1..Len(a \o b) : x = (a \o b)[i]
      BY <1>1, <2>1, Zenon
    <3> QED
      BY <1>1, <2>4, <3>1
  <2>6. ASSUME NEW x \in Range(a) PROVE x \in Range(a \o b)
    <3>1. PICK i \in 1..Len(a) : x = a[i]
      BY <1>1
    <3> QED
      BY <1>1, <2>1, <2>2, <3>1, Zenon
  <2>7. ASSUME NEW x \in Range(b) PROVE x \in Range(a \o b)
    <3>1. PICK i \in 1..Len(b) : x = b[i]
      BY <1>1
    <3> QED
      BY <1>1, <2>1, <2>3, <3>1, Zenon
  <2> QED
    BY <2>5, <2>6, <2>7
<1>4. ASSUME NEW x \in Range(a) PROVE x \in Range(Append(a, e))
  <2>1. PICK i \in 1..Len(a) : x = a[i]
    BY <1>1
  <2>2. /\ Append(a, e) \in Seq(Env) /\ i \in 1..Len(Append(a, e)) /\ Append(a, e)[i] = x
    BY <2>1, AppendProperties
  <2> QED
    BY <1>1, <2>2, Zenon
<1>5. ASSUME a # <<>>, NEW x \in Range(a), x # Head(a) PROVE x \in Range(Tail(a))
  <2>1. PICK i \in 1..Len(a) : x = a[i]
    BY <1>1
  <2>2. /\ Tail(a) \in Seq(Env) /\ Len(Tail(a)) = Len(a) - 1 /\ Len(a) \in Nat
        /\ \A j \in 1..Len(Tail(a)) : Tail(a)[j] = a[j + 1]
    BY <1>5, HeadTailProperties
  <2>3. i # 1
    BY <1>5, <2>1
  <2>4. i - 1 \in 1..Len(Tail(a)) /\ (i - 1) + 1 = i
    BY <2>2, <2>3
  <2>5. Tail(a)[i - 1] = x
    BY <2>1, <2>2, <2>4
  <2> QED
    BY <1>1, <2>2, <2>4, <2>5, Zenon
<1> QED
  BY <1>2, <1>3, <1>4, <1>5

LEMMA PendingType ==
  ASSUME RelayInv, NEW r \in Recip
  PROVE  /\ InHand(r) \in Seq(Env) /\ signals[r] \in Seq(Env) /\ Pending(r) \in Seq(Env)
BY ConcatProperties DEF RelayInv, QueueTypes, InHand, Pending

\* The steps of LossyFifo, told from what becomes of the pending envelopes.
LEMMA FifoLose ==
  ASSUME NEW r \in Recip, Pending(r)' \in Fifo!Kept(Pending(r)), UNCHANGED <<got, Sent>>,
         \A q \in Recip \ {r} : Pending(q)' = Pending(q)
  PROVE  Fifo!Next
<1>1. [q \in Recip |-> Pending(q)]' = [[q \in Recip |-> Pending(q)] EXCEPT ![r] = Pending(r)']
  BY Zenon
<1>2. Fifo!Lose(r)
  BY <1>1, Zenon DEF Fifo!Lose, Sent
<1> QED
  BY <1>2 DEF Fifo!Next

LEMMA FifoSend ==
  ASSUME NEW r \in Recip, NEW e \in Env, NEW kept \in Fifo!Kept(Pending(r)),
         e \notin Sent, Sent' = Sent \cup {e}, UNCHANGED got,
         Pending(r)' = Append(kept, e), \A q \in Recip \ {r} : Pending(q)' = Pending(q)
  PROVE  Fifo!Next
<1>1. [q \in Recip |-> Pending(q)]' = [[q \in Recip |-> Pending(q)] EXCEPT ![r] = Append(kept, e)]
  BY Zenon
<1>2. Fifo!Send(r, e)
  BY <1>1, Zenon DEF Fifo!Send, Sent
<1> QED
  BY <1>2 DEF Fifo!Next

LEMMA FifoDeliver ==
  ASSUME NEW r \in Recip, NEW n \in 1..Len(Pending(r)), UNCHANGED Sent,
         got' = [got EXCEPT ![r] = @ \o SubSeq(Pending(r), 1, n)],
         Pending(r)' = SubSeq(Pending(r), n + 1, Len(Pending(r))),
         \A q \in Recip \ {r} : Pending(q)' = Pending(q)
  PROVE  Fifo!Next
<1>1. [q \in Recip |-> Pending(q)]'
        = [[q \in Recip |-> Pending(q)] EXCEPT ![r] = SubSeq(@, n + 1, Len(@))]
  BY Zenon
<1>2. Fifo!Deliver(r)
  BY <1>1, Zenon DEF Fifo!Deliver, Sent
<1> QED
  BY <1>2 DEF Fifo!Next

LEMMA FifoStutter ==
  ASSUME UNCHANGED <<got, Sent>>, \A r \in Recip : Pending(r)' = Pending(r)
  PROVE  UNCHANGED Fifo!vars
BY DEF Fifo!vars, Sent

\* The steps at the queue's edges, and time: nothing that is pending moves.
EdgeStep ==
  \/ \E e \in Env, r \in Recip : Stamp(e, r)
  \/ \E e \in Env : SendFails(e) \/ CloseWake(e)
  \/ \E h \in Handler : Pull(h) \/ WaitForSignal(h) \/ Woken(h) \/ Timeout(h) \/ Cancel(h)
  \/ Rekey \/ Tick \/ UNCHANGED vars

LEMMA EdgePending ==
  ASSUME RelayInv, EdgeStep
  PROVE  UNCHANGED <<got, Sent>> /\ \A r \in Recip : Pending(r)' = Pending(r)
<1> USE DEF queueVars, sendVars, handleVars
<1>1. UNCHANGED Sent
  <2>1. spc \in [Env -> {"new", "stamped", "closing", "done", "failed"}]
    BY DEF RelayInv, WakeInv, WakeTypes
  <2>2. ASSUME NEW e \in Env, NEW r \in Recip, Stamp(e, r) \/ SendFails(e) \/ CloseWake(e)
        PROVE  \A f \in Env : spc'[f] \in {"closing", "done"} <=> spc[f] \in {"closing", "done"}
    BY <2>1, <2>2 DEF Stamp, SendFails, CloseWake
  <2>3. CASE UNCHANGED spc
    BY <2>3 DEF Sent
  <2>4. ASSUME NEW h \in Handler, Pull(h) \/ WaitForSignal(h) \/ Woken(h) \/ Timeout(h) \/ Cancel(h)
        PROVE  UNCHANGED spc
    BY <2>4 DEF Pull, WaitForSignal, Woken, Timeout, Cancel
  <2>5. Rekey \/ Tick \/ UNCHANGED vars => UNCHANGED spc
    BY DEF Rekey, Tick, vars
  <2> QED
    BY <2>2, <2>3, <2>4, <2>5, RelayAssumption DEF EdgeStep, Sent
<1>2. UNCHANGED <<got, signals, envs>>
  BY DEF EdgeStep, Stamp, SendFails, CloseWake, Pull, WaitForSignal, Woken, Timeout, Cancel,
         Rekey, Tick, vars
<1>3. \/ UNCHANGED <<listening, to>>
      \/ listening = NoHandler /\ listening' \in Handler /\ envs[listening'] = <<>>
  BY DEF EdgeStep, Stamp, SendFails, CloseWake, Pull, WaitForSignal, Woken, Timeout, Cancel,
         Rekey, Tick, vars, RelayInv, HandsEmpty
<1>4. \A r \in Recip : InHand(r)' = InHand(r)
  BY <1>2, <1>3, RelayAssumption DEF InHand
<1> QED
  BY <1>1, <1>2, <1>4 DEF Pending

\* A sender appends to what Room leaves of its queue.
LEMMA EnqueuePending ==
  ASSUME RelayInv, NEW e \in Env, EnqueueSignal(e), NEW d \in Recip, d = dest[e]
  PROVE  /\ e \notin Sent /\ Sent' = Sent \cup {e} /\ UNCHANGED got
         /\ Room(signals[d]) \in Seq(Env)
         /\ Pending(d)' = Append(InHand(d) \o Room(signals[d]), e)
         /\ \A r \in Recip : InHand(r)' = InHand(r)
         /\ \A r \in Recip \ {d} : Pending(r)' = Pending(r)
<1>1. signals[d] \in Seq(Env) /\ Len(signals[d]) <= Depth /\ InHand(d) \in Seq(Env)
  BY PendingType, Zenon DEF RelayInv, WakeInv, WakeTypes, QueueTypes
<1>2. Room(signals[d]) \in Seq(Env)
  BY <1>1, RoomProperties, Zenon
<1>3. spc[e] = "stamped" /\ \A f \in Env : spc'[f] = IF f = e THEN spc'[e] ELSE spc[f]
  BY DEF EnqueueSignal, RelayInv, WakeInv, WakeTypes
<1>4. spc'[e] \in {"done", "closing"}
  BY DEF EnqueueSignal, RelayInv, WakeInv, WakeTypes
<1>5. e \notin Sent /\ Sent' = Sent \cup {e}
  BY <1>3, <1>4 DEF Sent
<1>6. UNCHANGED <<got, listening, to, envs>>
  BY DEF EnqueueSignal, handleVars
<1>7. \A r \in Recip : InHand(r)' = InHand(r)
  BY <1>6 DEF InHand
<1>8. /\ signals'[d] = Append(Room(signals[d]), e)
      /\ \A r \in Recip \ {d} : signals'[r] = signals[r]
  BY <1>1, Zenon DEF EnqueueSignal, RelayInv, QueueTypes
<1>9. InHand(d) \o Append(Room(signals[d]), e) = Append(InHand(d) \o Room(signals[d]), e)
  <2>1. ASSUME NEW a \in Seq(Env), NEW b \in Seq(Env)
        PROVE  a \o Append(b, e) = Append(a \o b, e)
    <3>1. a \o Append(b, e) \in Seq(Env) /\ Append(a \o b, e) \in Seq(Env)
      OBVIOUS
    <3>2. Len(a \o Append(b, e)) = Len(Append(a \o b, e))
      OBVIOUS
    <3>3. \A i \in 1..Len(a \o Append(b, e)) : (a \o Append(b, e))[i] = Append(a \o b, e)[i]
      OBVIOUS
    <3> QED
      BY <3>1, <3>2, <3>3, SeqEqual
  <2> QED
    BY <1>1, <1>2, <2>1
<1>10. Pending(d)' = InHand(d)' \o signals'[d]
  BY DEF Pending
<1>11. Pending(d)' = Append(InHand(d) \o Room(signals[d]), e)
  BY <1>1, <1>7, <1>8, <1>9, <1>10, Zenon
<1>12. \A r \in Recip \ {d} : Pending(r)' = Pending(r)
  BY <1>7, <1>8 DEF Pending
<1> QED
  BY <1>1, <1>2, <1>5, <1>6, <1>7, <1>11, <1>12

\* A handler takes the whole queue: what is young enough stays on its way if
\* the client listens to it.
LEMMA PopPending ==
  ASSUME RelayInv, NEW h \in Handler, PopFirst(h) \/ PopAgain(h), NEW d \in Recip, d = to[h]
  PROVE  /\ UNCHANGED <<got, Sent>>
         /\ \/ UNCHANGED <<signals, envs>> /\ \A r \in Recip : Pending(r)' = Pending(r)
            \/ /\ listening = h
               /\ Pending(d) = signals[d] /\ Pending(d)' = Fresh(signals[d])
            \/ /\ listening # h
               /\ Pending(d)' = InHand(d)
         /\ \A r \in Recip \ {d} : Pending(r)' = Pending(r)
<1>1. /\ signals[d] \in Seq(Env) /\ InHand(d) \in Seq(Env)
      /\ Fresh(signals[d]) \in Seq(Env)
  BY PendingType, FreshKeeps, Zenon DEF RelayInv, WakeInv, WakeTypes, QueueTypes
<1>2. UNCHANGED <<got, spc, listening, to>>
  BY Zenon DEF PopFirst, PopAgain, sendVars
<1>3. envs[h] = <<>> /\ envs \in [Handler -> Seq(Env)] /\ signals \in [Recip -> Seq(Env)]
  BY Zenon DEF PopFirst, PopAgain, RelayInv, HandsEmpty, QueueTypes
<1>4. ASSUME NEW s \in Seq(Env) PROVE s \o <<>> = s /\ <<>> \o s = s
  BY ConcatEmptySeq
<1>5. CASE cancelled[h]
  <2>1. UNCHANGED <<signals, envs>>
    BY <1>3, <1>5 DEF PopFirst, PopAgain, PopSignals
  <2>2. \A r \in Recip : Pending(r)' = Pending(r)
    BY <1>2, <2>1 DEF Pending, InHand
  <2> QED
    BY <1>1, <1>2, <2>1, <2>2 DEF Sent
<1>6. CASE ~cancelled[h]
  <2>1. /\ envs' = [envs EXCEPT ![h] = Fresh(signals[d])]
        /\ signals' = [signals EXCEPT ![d] = <<>>]
    BY <1>6, Zenon DEF PopFirst, PopAgain, PopSignals
  <2>2. /\ envs'[h] = Fresh(signals[d]) /\ \A g \in Handler \ {h} : envs'[g] = envs[g]
        /\ signals'[d] = <<>> /\ \A r \in Recip \ {d} : signals'[r] = signals[r]
    BY <1>1, <1>3, <2>1
  <2>3. listening \in Handler \cup {NoHandler}
    BY DEF RelayInv, QueueTypes
  <2>4. \A r \in Recip \ {d} : Pending(r)' = Pending(r)
    BY <1>2, <2>2, <2>3, RelayAssumption, Zenon DEF Pending, InHand
  <2>5. CASE listening = h
    <3>1. InHand(d) = <<>> /\ InHand(d)' = Fresh(signals[d])
      BY <1>2, <1>3, <2>2, <2>5, RelayAssumption DEF InHand
    <3> QED
      BY <1>1, <1>2, <1>4, <2>2, <2>4, <2>5, <3>1, Zenon DEF Pending, Sent
  <2>6. CASE listening # h
    <3>1. InHand(d)' = InHand(d)
      BY <1>2, <2>2, <2>3, <2>6 DEF InHand
    <3> QED
      BY <1>1, <1>2, <1>4, <2>2, <2>4, <2>6, <3>1, Zenon DEF Pending, Sent
  <2> QED
    BY <2>5, <2>6
<1> QED
  BY <1>5, <1>6

\* A reply hands over what its handler holds, if the client is still there.
LEMMA ReplyPending ==
  ASSUME RelayInv, NEW h \in Handler, Reply(h), NEW d \in Recip, d = to[h]
  PROVE  /\ UNCHANGED <<signals, Sent>>
         /\ \/ /\ listening = h /\ InHand(d) = envs[h]
               /\ got' = [got EXCEPT ![d] = @ \o envs[h]]
               /\ Pending(d)' = signals[d]
               /\ \A r \in Recip \ {d} : Pending(r)' = Pending(r)
            \/ listening # h /\ UNCHANGED got /\ \A r \in Recip : Pending(r)' = Pending(r)
<1>1. /\ UNCHANGED <<signals, spc>> /\ listening \in Handler \cup {NoHandler}
      /\ to \in [Handler -> Recip] /\ envs \in [Handler -> Seq(Env)]
  BY DEF Reply, queueVars, sendVars, RelayInv, QueueTypes, WakeInv, WakeTypes
<1>2. CASE listening = h
  <2>1. listening' = NoHandler /\ got' = [got EXCEPT ![d] = @ \o envs[h]]
    BY <1>2, Zenon DEF Reply
  <2>2. InHand(d) = envs[h] /\ \A r \in Recip \ {d} : InHand(r) = <<>>
    BY <1>2, RelayAssumption DEF InHand
  <2>3. \A r \in Recip : InHand(r)' = <<>>
    BY <2>1 DEF InHand
  <2>4. signals[d] \in Seq(Env)
    BY <1>1, PendingType
  <2>5. <<>> \o signals[d] = signals[d]
    BY <2>4, ConcatEmptySeq
  <2>6. Pending(d)' = InHand(d)' \o signals'[d]
    BY <1>1, <2>1, <2>3 DEF Pending
  <2>7. \A r \in Recip \ {d} : Pending(r)' = Pending(r)
    BY <1>1, <2>2, <2>3, Zenon DEF Pending
  <2> QED
    BY <1>1, <1>2, <2>1, <2>2, <2>3, <2>4, <2>5, <2>6, <2>7 DEF Sent
<1>3. CASE listening # h
  <2>1. UNCHANGED <<listening, got>> /\ \A g \in Handler \ {h} : to'[g] = to[g] /\ envs'[g] = envs[g]
    BY <1>1, <1>3 DEF Reply
  <2>2. \A r \in Recip : InHand(r)' = InHand(r)
    BY <1>1, <1>3, <2>1 DEF InHand
  <2> QED
    BY <1>1, <1>3, <2>1, <2>2, Zenon DEF Pending, Sent
<1> QED
  BY <1>2, <1>3, Zenon

\* Every step of the relay is one of LossyFifo or leaves its variables alone.
LEMMA RelayStepIsFifoStep == RelayInv /\ [Next]_vars => [Fifo!Next]_(Fifo!vars)
<1> SUFFICES ASSUME RelayInv, [Next]_vars PROVE Fifo!Next \/ UNCHANGED Fifo!vars
  OBVIOUS
<1>1. CASE EdgeStep
  BY <1>1, EdgePending, FifoStutter
<1>2. ASSUME NEW e \in Env, EnqueueSignal(e) PROVE Fifo!Next
  <2>1. PICK d \in Recip : d = dest[e]
    BY DEF RelayInv, WakeInv, WakeTypes
  <2>2. signals[d] \in Seq(Env) /\ InHand(d) \in Seq(Env) /\ Pending(d) \in Seq(Env)
    BY PendingType
  <2>3. InHand(d) \o Room(signals[d]) \in Fifo!Kept(Pending(d))
    <3>1. CASE Len(signals[d]) >= Depth
      <4>1. signals[d] # <<>> /\ Room(signals[d]) = Tail(signals[d])
        BY <2>2, <3>1, RelayAssumption DEF Room
      <4> QED
        BY <2>2, <4>1, KeptOfConcat DEF Pending
    <3>2. CASE ~(Len(signals[d]) >= Depth)
      BY <2>2, <3>2, KeptAll, Zenon DEF Room, Pending
    <3> QED
      BY <3>1, <3>2
  <2> QED
    BY <1>2, <2>1, <2>3, EnqueuePending, FifoSend, Zenon
<1>3. ASSUME NEW h \in Handler, PopFirst(h) \/ PopAgain(h) PROVE Fifo!Next \/ UNCHANGED Fifo!vars
  <2>1. PICK d \in Recip : d = to[h]
    BY DEF RelayInv, WakeInv, WakeTypes
  <2>2. signals[d] \in Seq(Env) /\ InHand(d) \in Seq(Env)
    BY PendingType
  <2>3. UNCHANGED <<got, Sent>> /\ \A r \in Recip \ {d} : Pending(r)' = Pending(r)
    BY <1>3, <2>1, PopPending
  <2>4. CASE \A r \in Recip : Pending(r)' = Pending(r)
    BY <2>3, <2>4, FifoStutter
  <2>5. CASE Pending(d) = signals[d] /\ Pending(d)' = Fresh(signals[d])
    BY <2>2, <2>3, <2>5, FreshKeeps, FifoLose
  <2>6. CASE Pending(d)' = InHand(d)
    <3>1. InHand(d) \in Fifo!Kept(Pending(d))
      BY <2>2, KeptOfConcat DEF Pending
    <3> QED
      BY <2>3, <2>6, <3>1, FifoLose
  <2> QED
    BY <1>3, <2>1, <2>4, <2>5, <2>6, PopPending
<1>4. ASSUME NEW h \in Handler, Reply(h) PROVE Fifo!Next \/ UNCHANGED Fifo!vars
  <2>1. PICK d \in Recip : d = to[h]
    BY DEF RelayInv, WakeInv, WakeTypes
  <2>2. CASE listening # h
    BY <1>4, <2>1, <2>2, ReplyPending, FifoStutter, Zenon
  <2>3. CASE listening = h
    <3> DEFINE a == InHand(d)
               n == Len(a)
    <3>1. /\ UNCHANGED Sent /\ a = envs[h] /\ got' = [got EXCEPT ![d] = @ \o a]
          /\ Pending(d)' = signals[d] /\ \A r \in Recip \ {d} : Pending(r)' = Pending(r)
      BY <1>4, <2>1, <2>3, ReplyPending, Zenon
    <3>2. /\ a \in Seq(Env) /\ signals[d] \in Seq(Env) /\ Pending(d) \in Seq(Env)
          /\ Pending(d) = a \o signals[d] /\ got[d] \in Seq(Env) /\ got \in [Recip -> Seq(Env)]
      BY PendingType DEF Pending, RelayInv, QueueTypes
    <3>3. CASE a = <<>>
      <4>1. a \o signals[d] = signals[d] /\ got[d] \o a = got[d]
        BY <3>2, <3>3, ConcatEmptySeq
      <4>2. UNCHANGED got /\ Pending(d)' = Pending(d)
        BY <3>1, <3>2, <4>1
      <4> QED
        BY <3>1, <4>2, FifoStutter, Zenon
    <3>4. CASE a # <<>>
      <4>1. ASSUME NEW x \in Seq(Env), NEW y \in Seq(Env)
            PROVE  /\ SubSeq(x \o y, 1, Len(x)) = x
                   /\ SubSeq(x \o y, Len(x) + 1, Len(x \o y)) = y
                   /\ x # <<>> => Len(x) \in 1..Len(x \o y)
        <5>1. /\ x \o y \in Seq(Env) /\ Len(x \o y) = Len(x) + Len(y)
              /\ \A i \in 1..Len(x) : (x \o y)[i] = x[i]
              /\ \A i \in 1..Len(y) : (x \o y)[Len(x) + i] = y[i]
          BY ConcatProperties
        <5>2. Len(x) \in Nat /\ Len(y) \in Nat /\ (x # <<>> => Len(x) # 0)
          OBVIOUS
        <5>3. SubSeq(x \o y, 1, Len(x)) = x
          BY <5>1, <5>2
        <5>4. SubSeq(x \o y, Len(x) + 1, Len(x \o y)) = y
          BY <5>1, <5>2
        <5> QED
          BY <5>1, <5>2, <5>3, <5>4
      <4>2. /\ SubSeq(Pending(d), 1, n) = a /\ n \in 1..Len(Pending(d))
            /\ SubSeq(Pending(d), n + 1, Len(Pending(d))) = signals[d]
        BY <3>2, <3>4, <4>1
      <4> HIDE DEF a, n
      <4> QED
        BY <3>1, <4>2, FifoDeliver, Zenon
    <3> QED
      BY <3>3, <3>4
  <2> QED
    BY <2>2, <2>3
<1>5. CASE Disconnect
  <2>1. /\ listening \in Handler /\ UNCHANGED <<signals, got, Sent>>
        /\ \A r \in Recip : InHand(r)' = <<>>
    BY <1>5 DEF Disconnect, InHand, Sent, queueVars, sendVars, RelayInv, QueueTypes
  <2>2. PICK d \in Recip : d = to[listening]
    BY <2>1 DEF RelayInv, WakeInv, WakeTypes
  <2>3. \A r \in Recip \ {d} : InHand(r) = <<>>
    BY <2>2 DEF InHand
  <2>4. \A r \in Recip : signals[r] \in Seq(Env) /\ InHand(r) \in Seq(Env)
    BY PendingType
  <2>5. \A r \in Recip : Pending(r)' = signals[r]
    <3>1. \A s \in Seq(Env) : <<>> \o s = s
      BY ConcatEmptySeq
    <3> QED
      BY <2>1, <2>4, <3>1 DEF Pending
  <2>6. \A r \in Recip \ {d} : Pending(r)' = Pending(r)
    BY <2>1, <2>3 DEF Pending
  <2>7. Pending(d)' \in Fifo!Kept(Pending(d))
    BY <2>4, <2>5, KeptOfConcat, Zenon DEF Pending
  <2> QED
    BY <2>1, <2>6, <2>7, FifoLose
<1> QED
  BY <1>1, <1>2, <1>3, <1>4, <1>5 DEF Next, SenderStep, HandlerStep, EdgeStep

\* The relay implements the lossy queue: for any number of keys, senders and
\* handlers, a client sees each envelope at most once and in the queue's order.
THEOREM RelayIsLossyFifo == Spec => IsLossyFifo
<1>1. Init => Fifo!Init
  <2> SUFFICES ASSUME Init PROVE Fifo!Init
    OBVIOUS
  <2>1. \A r \in Recip : Pending(r) = <<>>
    BY ConcatEmptySeq DEF Init, Pending, InHand
  <2> QED
    BY <2>1 DEF Init, Fifo!Init
<1> QED
  BY <1>1, RelayStepIsFifoStep, RelayInvariance, PTL DEF Spec, IsLossyFifo, Fifo!Spec

-----------------------------------------------------------------------------
(* What is lost                                                            *)

\* What LossHasCause says of a step.
LossCaused ==
  \A r \in Recip : \A e \in Range(Pending(r)) :
    \/ e \in Range(Pending(r)') \cup Range(got'[r])
    \/ MakesRoom(e, r)
    \/ age[e] = MaxAge
    \/ Disconnect
    \/ \E h \in Handler \ {listening} : PopFirst(h) \/ PopAgain(h)

LEMMA LossStep == RelayInv /\ [Next]_vars => LossCaused
<1> SUFFICES ASSUME RelayInv, [Next]_vars, NEW r \in Recip, NEW e \in Range(Pending(r)),
                    Pending(r)' # Pending(r), ~Disconnect
             PROVE  \/ e \in Range(Pending(r)') \cup Range(got'[r])
                    \/ MakesRoom(e, r)
                    \/ age[e] = MaxAge
                    \/ \E h \in Handler \ {listening} : PopFirst(h) \/ PopAgain(h)
  BY Zenon DEF LossCaused
<1>0. /\ InHand(r) \in Seq(Env) /\ signals[r] \in Seq(Env) /\ e \in Env
      /\ Range(Pending(r)) = Range(InHand(r)) \cup Range(signals[r])
  <2>1. InHand(r) \in Seq(Env) /\ signals[r] \in Seq(Env) /\ Pending(r) \in Seq(Env)
    BY PendingType
  <2>2. e \in Env
    BY <2>1 DEF Range
  <2> QED
    BY <2>1, <2>2, Elements DEF Pending
<1>1. CASE EdgeStep
  BY <1>1, EdgePending
<1>2. ASSUME NEW f \in Env, EnqueueSignal(f)
      PROVE  e \in Range(Pending(r)') \/ MakesRoom(e, r)
  <2>1. r = dest[f]
    BY <1>2, EnqueuePending DEF RelayInv, WakeInv, WakeTypes
  <2>2. /\ Room(signals[r]) \in Seq(Env)
        /\ Pending(r)' = Append(InHand(r) \o Room(signals[r]), f)
    BY <1>2, <2>1, EnqueuePending
  <2>3. Range(InHand(r)) \cup Range(Room(signals[r])) \subseteq Range(Pending(r)')
    <3>1. InHand(r) \o Room(signals[r]) \in Seq(Env)
      BY <1>0, <2>2, ConcatProperties
    <3>2. Range(InHand(r) \o Room(signals[r])) = Range(InHand(r)) \cup Range(Room(signals[r]))
      BY <1>0, <2>2, Elements
    <3>3. Range(InHand(r) \o Room(signals[r])) \subseteq Range(Pending(r)')
      BY <2>2, <3>1, Elements, Zenon
    <3> QED
      BY <3>2, <3>3
  <2>4. CASE ~(Len(signals[r]) >= Depth)
    BY <1>0, <2>3, <2>4 DEF Room
  <2>5. CASE Len(signals[r]) >= Depth
    <3>1. /\ Len(signals[r]) = Depth /\ signals[r] # <<>> /\ Room(signals[r]) = Tail(signals[r])
      BY <1>0, <2>5, RelayAssumption DEF Room, RelayInv, QueueTypes
    <3>2. Range(signals[r]) \subseteq {Head(signals[r])} \cup Range(Tail(signals[r]))
      BY <1>0, <3>1, Elements
    <3>3. CASE e = Head(signals[r])
      BY <1>2, <2>1, <3>1, <3>3 DEF MakesRoom
    <3>4. CASE e # Head(signals[r])
      BY <1>0, <2>3, <3>1, <3>2, <3>4
    <3> QED
      BY <3>3, <3>4
  <2> QED
    BY <2>4, <2>5
<1>3. ASSUME NEW h \in Handler, PopFirst(h) \/ PopAgain(h)
      PROVE  \/ e \in Range(Pending(r)') \/ age[e] = MaxAge
             \/ \E g \in Handler \ {listening} : PopFirst(g) \/ PopAgain(g)
  <2>1. CASE listening # h
    BY <1>3, <2>1
  <2>2. CASE listening = h
    <3>1. PICK d \in Recip : d = to[h]
      BY DEF RelayInv, WakeInv, WakeTypes
    <3>2. d = r
      BY <1>3, <3>1, PopPending
    <3>3. Pending(r) = signals[r] /\ Pending(r)' = Fresh(signals[r])
      BY <1>3, <2>2, <3>1, <3>2, PopPending, Zenon
    <3>4. age[e] < MaxAge \/ age[e] = MaxAge
      BY <1>0, RelayAssumption DEF RelayInv, QueueTypes
    <3> QED
      BY <1>0, <3>3, <3>4, FreshKeeps
  <2> QED
    BY <2>1, <2>2
<1>4. ASSUME NEW h \in Handler, Reply(h)
      PROVE  e \in Range(Pending(r)') \cup Range(got'[r])
  <2>1. PICK d \in Recip : d = to[h]
    BY DEF RelayInv, WakeInv, WakeTypes
  <2>2. d = r
    BY <1>4, <2>1, ReplyPending, Zenon
  <2>3. Pending(r)' = signals[r] /\ got' = [got EXCEPT ![r] = @ \o InHand(r)]
    BY <1>4, <2>1, <2>2, ReplyPending, Zenon
  <2>4. got \in [Recip -> Seq(Env)]
    BY DEF RelayInv, QueueTypes
  <2>5. got'[r] = got[r] \o InHand(r) /\ got[r] \in Seq(Env)
    BY <2>3, <2>4
  <2>6. Range(InHand(r)) \subseteq Range(got'[r])
    BY <1>0, <2>5, Elements
  <2> QED
    BY <1>0, <2>3, <2>6
<1> QED
  BY <1>1, <1>2, <1>3, <1>4, Zenon DEF Next, SenderStep, HandlerStep, EdgeStep

\* The relay loses an envelope only as the oldest of a full queue, for its
\* age, or with a request that the client has given up.
THEOREM LossesHaveCauses == Spec => LossHasCause
<1>1. RelayInv /\ [Next]_vars => [LossCaused]_vars
  BY LossStep
<1>2. Spec => [][LossCaused]_vars
  BY <1>1, RelayInvariance, PTL DEF Spec
<1> QED
  BY <1>2 DEF LossHasCause, LossCaused

=============================================================================
