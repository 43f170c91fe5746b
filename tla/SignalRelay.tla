----------------------------- MODULE SignalRelay -----------------------------
(***************************************************************************)
(* The coordinator's signal relay: the part of MemStore under signalMu     *)
(* (internal/coord/store.go), the handlers of POST and GET /v1/signal      *)
(* (server.go) and the client that pulls (daemon.go, signalPullLoop).      *)
(*                                                                         *)
(* A queue and a wake-up channel belong to a disco key.  The model has one *)
(* pulling node, which may register again with another key.  Each request  *)
(* has a handler of its own; a request that the client has given up is     *)
(* handled to its end all the same, beside the request that follows it.    *)
(***************************************************************************)
EXTENDS Integers, Sequences, FiniteSets, Functions

CONSTANTS
  Recip,       \* disco keys; the node has one of them at a time
  FirstKey,    \* the key with which the node registers first
  Env,         \* envelopes, each sent once
  Handler,     \* handlers of GET /v1/signal
  NoHandler,
  Depth,       \* maxQueueDepth
  MaxAge       \* maxAge, in ticks

ASSUME RelayAssumption ==
  /\ FirstKey \in Recip
  /\ NoHandler \notin Handler
  /\ Depth \in Nat \ {0} /\ MaxAge \in Nat

VARIABLES
  key,         \* the node's registered disco key
  signals,     \* s.signals
  wakes,       \* s.signalWakes: a channel, or 0
  chans,       \* channels made so far: channels are 1..chans
  closed,      \* channels that have been closed
  age,         \* age[e]: ticks since e was stamped
  spc,         \* place of e's sender in handleSignal
  dest,        \* the key that e is sent to
  wake,        \* the channel that e's sender has to close, or 0
  pc,          \* place of a handler in handleSignalPull
  to,          \* the key whose queue the handler pulls
  ch,          \* the channel it waits on
  envs,        \* what it has popped
  cancelled,   \* its request's context is cancelled
  listening,   \* the handler whose answer the client awaits
  got,         \* got[r]: envelopes that reached the client from r's queue
  order        \* order[r]: envelopes in the order in which r's queue took them

sendVars   == <<age, spc, dest, wake>>
handleVars == <<pc, to, ch, envs, cancelled>>
queueVars  == <<signals, wakes, chans>>
vars == <<key, queueVars, closed, sendVars, handleVars, listening, got, order>>

-----------------------------------------------------------------------------
Init ==
  /\ key       = FirstKey
  /\ signals   = [r \in Recip |-> <<>>]
  /\ wakes     = [r \in Recip |-> 0]
  /\ chans     = 0
  /\ closed    = {}
  /\ age       = [e \in Env |-> 0]
  /\ spc       = [e \in Env |-> "new"]
  /\ dest      = [e \in Env |-> FirstKey]
  /\ wake      = [e \in Env |-> 0]
  /\ pc        = [h \in Handler |-> "idle"]
  /\ to        = [h \in Handler |-> FirstKey]
  /\ ch        = [h \in Handler |-> 0]
  /\ envs      = [h \in Handler |-> <<>>]
  /\ cancelled = [h \in Handler |-> FALSE]
  /\ listening = NoHandler
  /\ got       = [r \in Recip |-> <<>>]
  /\ order     = [r \in Recip |-> <<>>]

-----------------------------------------------------------------------------
(* POST /v1/signal                                                         *)

\* handleSignal stamps the envelope before it takes the lock.
Stamp(e, r) ==
  /\ spc[e] = "new"
  /\ spc'  = [spc EXCEPT ![e] = "stamped"]
  /\ dest' = [dest EXCEPT ![e] = r]
  /\ UNCHANGED <<key, queueVars, closed, age, wake, handleVars, listening, got, order>>

\* What is left of a queue that makes room for one more.  (The faulty variants
\* never drop one, and drop the newest.)
RoomUnbounded(q) == q
RoomByNewest(q) == IF Len(q) >= Depth THEN SubSeq(q, 1, Depth - 1) ELSE q
Room(q) == IF Len(q) >= Depth THEN Tail(q) ELSE q

\* EnqueueSignal under the lock: the recipient's channel is taken out of the
\* map by the sender that is going to close it.  (The faulty variant leaves it
\* there.)
EnqueueSignalKeepingWake(e) ==
  /\ spc[e] = "stamped"
  /\ signals' = [signals EXCEPT ![dest[e]] = Append(Room(@), e)]
  /\ order'   = [order EXCEPT ![dest[e]] = Append(@, e)]
  /\ wake'    = [wake EXCEPT ![e] = wakes[dest[e]]]
  /\ spc'     = [spc EXCEPT ![e] = IF wakes[dest[e]] = 0 THEN "done" ELSE "closing"]
  /\ UNCHANGED <<key, chans, wakes, closed, age, dest, handleVars, listening, got>>

EnqueueSignal(e) ==
  /\ spc[e] = "stamped"
  /\ signals' = [signals EXCEPT ![dest[e]] = Append(Room(@), e)]
  /\ order'   = [order EXCEPT ![dest[e]] = Append(@, e)]
  /\ wake'    = [wake EXCEPT ![e] = wakes[dest[e]]]
  /\ wakes'   = [wakes EXCEPT ![dest[e]] = 0]
  /\ spc'     = [spc EXCEPT ![e] = IF wakes[dest[e]] = 0 THEN "done" ELSE "closing"]
  /\ UNCHANGED <<key, chans, closed, age, dest, handleVars, listening, got>>

\* The sender's request is cancelled before EnqueueSignal looks.
SendFails(e) ==
  /\ spc[e] = "stamped"
  /\ spc' = [spc EXCEPT ![e] = "failed"]
  /\ UNCHANGED <<key, queueVars, closed, age, dest, wake, handleVars, listening, got, order>>

\* close(wake), after the lock is released.  (The faulty variant forgets it.)
CloseWakeNever(e) ==
  /\ spc[e] = "closing"
  /\ spc' = [spc EXCEPT ![e] = "done"]
  /\ UNCHANGED <<key, queueVars, closed, age, dest, wake, handleVars, listening, got, order>>

CloseWake(e) ==
  /\ spc[e] = "closing"
  /\ closed' = closed \cup {wake[e]}
  /\ wake'   = [wake EXCEPT ![e] = 0]
  /\ spc'    = [spc EXCEPT ![e] = "done"]
  /\ UNCHANGED <<key, queueVars, age, dest, handleVars, listening, got, order>>

-----------------------------------------------------------------------------
(* GET /v1/signal                                                          *)

\* The client pulls, one request at a time; discoKeyForNodeKey finds the key
\* under which the node is registered now.
Pull(h) ==
  /\ listening = NoHandler
  /\ pc[h] = "idle"
  /\ listening' = h
  /\ to'        = [to EXCEPT ![h] = key]
  /\ pc'        = [pc EXCEPT ![h] = "pop"]
  /\ UNCHANGED <<key, queueVars, closed, sendVars, ch, envs, cancelled, got, order>>

\* PopSignals drains the queue and keeps what is younger than maxAge; under a
\* cancelled context it does nothing.  (The faulty variants answer newest
\* first, find envelopes too old one tick early, and leave in the queue what
\* they answer.)
FreshReversed(q) ==
  LET fresh == SelectSeq(q, LAMBDA e : age[e] < MaxAge)
  IN  [i \in 1..Len(fresh) |-> fresh[Len(fresh) - i + 1]]
FreshTooStrict(q) == SelectSeq(q, LAMBDA e : age[e] + 1 < MaxAge)
Fresh(q) ==
  LET fresh[i \in 0..Len(q)] ==
        IF i = 0 THEN <<>>
        ELSE IF age[q[i]] < MaxAge THEN Append(fresh[i - 1], q[i]) ELSE fresh[i - 1]
  IN  fresh[Len(q)]

PopSignalsKeeping(h) ==
  /\ envs' = [envs EXCEPT ![h] = IF cancelled[h] THEN <<>> ELSE Fresh(signals[to[h]])]
  /\ UNCHANGED signals

PopSignals(h) ==
  IF cancelled[h]
  THEN envs' = [envs EXCEPT ![h] = <<>>] /\ UNCHANGED signals
  ELSE /\ envs'    = [envs EXCEPT ![h] = Fresh(signals[to[h]])]
       /\ signals' = [signals EXCEPT ![to[h]] = <<>>]

PopFirst(h) ==
  /\ pc[h] = "pop"
  /\ PopSignals(h)
  /\ pc' = [pc EXCEPT ![h] = IF envs'[h] = <<>> THEN "check" ELSE "reply"]
  /\ UNCHANGED <<key, wakes, chans, closed, sendVars, to, ch, cancelled, listening, got, order>>

\* WaitForSignal: something has come since, or the handler joins the channel
\* of its key.  (The faulty variant does not look at the queue again.)
WaitForSignalBlindly(h) ==
  /\ pc[h] = "check"
  /\ IF wakes[to[h]] # 0
     THEN /\ ch' = [ch EXCEPT ![h] = wakes[to[h]]]
          /\ UNCHANGED <<wakes, chans>>
     ELSE /\ chans' = chans + 1
          /\ wakes' = [wakes EXCEPT ![to[h]] = chans + 1]
          /\ ch'    = [ch EXCEPT ![h] = chans + 1]
  /\ pc' = [pc EXCEPT ![h] = "wait"]
  /\ UNCHANGED <<key, signals, closed, sendVars, to, envs, cancelled, listening, got, order>>

WaitForSignal(h) ==
  /\ pc[h] = "check"
  /\ IF signals[to[h]] # <<>>
     THEN /\ pc' = [pc EXCEPT ![h] = "repop"]
          /\ UNCHANGED <<wakes, chans, ch>>
     ELSE /\ pc' = [pc EXCEPT ![h] = "wait"]
          /\ IF wakes[to[h]] # 0
             THEN /\ ch' = [ch EXCEPT ![h] = wakes[to[h]]]
                  /\ UNCHANGED <<wakes, chans>>
             ELSE /\ chans' = chans + 1
                  /\ wakes' = [wakes EXCEPT ![to[h]] = chans + 1]
                  /\ ch'    = [ch EXCEPT ![h] = chans + 1]
  /\ UNCHANGED <<key, signals, closed, sendVars, to, envs, cancelled, listening, got, order>>

Woken(h) ==
  /\ pc[h] = "wait"
  /\ ch[h] \in closed
  /\ pc' = [pc EXCEPT ![h] = "repop"]
  /\ UNCHANGED <<key, queueVars, closed, sendVars, to, ch, envs, cancelled, listening, got, order>>

\* longPollTimeout, or the request's own context: the channel stays in the
\* map, and the answer is empty.
Timeout(h) ==
  /\ pc[h] = "wait"
  /\ pc' = [pc EXCEPT ![h] = "reply"]
  /\ UNCHANGED <<key, queueVars, closed, sendVars, to, ch, envs, cancelled, listening, got, order>>

PopAgain(h) ==
  /\ pc[h] = "repop"
  /\ PopSignals(h)
  /\ pc' = [pc EXCEPT ![h] = "reply"]
  /\ UNCHANGED <<key, wakes, chans, closed, sendVars, to, ch, cancelled, listening, got, order>>

\* writeJSON: the client has the envelopes if it is still there.  The
\* handler's variables go out of scope.
Reply(h) ==
  /\ pc[h] = "reply"
  /\ pc'   = [pc EXCEPT ![h] = "idle"]
  /\ envs' = [envs EXCEPT ![h] = <<>>]
  /\ IF listening = h
     THEN /\ got'       = [got EXCEPT ![to[h]] = @ \o envs[h]]
          /\ listening' = NoHandler
     ELSE UNCHANGED <<got, listening>>
  /\ cancelled' = [cancelled EXCEPT ![h] = FALSE]
  /\ to' = [to EXCEPT ![h] = FirstKey] /\ ch' = [ch EXCEPT ![h] = 0]
  /\ UNCHANGED <<key, queueVars, closed, sendVars, order>>

\* The client gives the request up; the server learns of it later, if at all.
Disconnect ==
  /\ listening # NoHandler
  /\ listening' = NoHandler
  /\ UNCHANGED <<key, queueVars, closed, sendVars, handleVars, got, order>>

Cancel(h) ==
  /\ pc[h] # "idle" /\ listening # h /\ ~cancelled[h]
  /\ cancelled' = [cancelled EXCEPT ![h] = TRUE]
  /\ UNCHANGED <<key, queueVars, closed, sendVars, pc, to, ch, envs, listening, got, order>>

\* The node registers again with another disco key (Registry).
Rekey ==
  /\ key = FirstKey
  /\ key' \in Recip \ {FirstKey}
  /\ UNCHANGED <<queueVars, closed, sendVars, handleVars, listening, got, order>>

\* Time passes for the envelopes that are stamped and not yet popped; beyond
\* MaxAge it makes no difference.
Ageing == {e \in Env : /\ age[e] < MaxAge
                       /\ spc[e] = "stamped" \/ \E r \in Recip : e \in Range(signals[r])}

Tick ==
  /\ Ageing # {}
  /\ age' = [e \in Env |-> IF e \in Ageing THEN age[e] + 1 ELSE age[e]]
  /\ UNCHANGED <<key, queueVars, closed, spc, dest, wake, handleVars, listening, got, order>>

SenderStep(e) == EnqueueSignal(e) \/ SendFails(e) \/ CloseWake(e)
HandlerStep(h) ==
  PopFirst(h) \/ WaitForSignal(h) \/ Woken(h) \/ Timeout(h) \/ PopAgain(h) \/ Reply(h)

Next ==
  \/ \E e \in Env, r \in Recip : Stamp(e, r)
  \/ \E e \in Env : SenderStep(e)
  \/ \E h \in Handler : Pull(h) \/ HandlerStep(h) \/ Cancel(h)
  \/ Disconnect
  \/ Rekey
  \/ Tick

Spec == Init /\ [][Next]_vars

\* The client pulls without end, handlers and senders are not delayed for
\* ever, and not every request is cancelled before its first look at the
\* queue.  The long-poll timeout is left out: what follows from this fairness
\* does not wait for it.
Fairness ==
  /\ WF_vars(\E h \in Handler : Pull(h))
  /\ \A e \in Env : WF_vars(CloseWake(e))
  /\ \A h \in Handler : /\ SF_vars(PopFirst(h) /\ ~cancelled[h])
                         /\ WF_vars(PopFirst(h) \/ WaitForSignal(h) \/ PopAgain(h) \/ Reply(h))
                         /\ WF_vars(Woken(h))

FairSpec == Spec /\ Fairness

-----------------------------------------------------------------------------
(* Properties                                                              *)

\* The relay's maps and the handlers' variables have their types, and no
\* queue exceeds maxQueueDepth.
TypeOK ==
  /\ key \in Recip
  /\ signals \in [Recip -> Seq(Env)] /\ \A r \in Recip : Len(signals[r]) <= Depth
  /\ chans \in Nat /\ closed \subseteq 1..chans
  /\ wakes \in [Recip -> 0..chans]
  /\ age \in [Env -> 0..MaxAge]
  /\ spc \in [Env -> {"new", "stamped", "closing", "done", "failed"}]
  /\ dest \in [Env -> Recip] /\ wake \in [Env -> 0..chans]
  /\ pc \in [Handler -> {"idle", "pop", "check", "wait", "repop", "reply"}]
  /\ to \in [Handler -> Recip] /\ ch \in [Handler -> 0..chans]
  /\ envs \in [Handler -> Seq(Env)]
  /\ cancelled \in [Handler -> BOOLEAN]
  /\ listening \in Handler \cup {NoHandler}
  /\ got \in [Recip -> Seq(Env)] /\ order \in [Recip -> Seq(Env)]

\* A handler does not wait beside a queue with envelopes in it, unless its
\* channel is closed or about to be: between the first pop and the wait, and
\* between the unlock and the close of a sender, no wake-up is lost, however
\* many handlers share the channel.
NoLostWakeup ==
  \A h \in Handler :
    pc[h] = "wait" /\ signals[to[h]] # <<>> =>
      \/ ch[h] \in closed
      \/ \E e \in Env : spc[e] = "closing" /\ wake[e] = ch[h]

\* No channel is closed twice (which would panic): the sender that takes a
\* channel out of signalWakes is the only one to close it.
CloseOnce ==
  \A e \in Env : spc[e] = "closing" =>
    /\ wake[e] \notin closed
    /\ \A f \in Env \ {e} : spc[f] = "closing" => wake[f] # wake[e]

\* A full queue gives up its oldest envelope: what is queued is always the
\* newest part of what was enqueued.
QueueHoldsNewest ==
  \A r \in Recip :
    /\ Len(signals[r]) <= Len(order[r])
    /\ signals[r] = SubSeq(order[r], Len(order[r]) - Len(signals[r]) + 1, Len(order[r]))

\* What is on its way to the client from the queue of r.
InHand(r) == IF listening # NoHandler /\ to[listening] = r THEN envs[listening] ELSE <<>>
Pending(r) == InHand(r) \o signals[r]

\* The oldest envelope of a full queue makes room for another.
MakesRoom(e, r) ==
  /\ Len(signals[r]) = Depth /\ e = Head(signals[r])
  /\ \E f \in Env : dest[f] = r /\ EnqueueSignal(f)

\* An envelope is lost for one of three reasons: it was the oldest of a full
\* queue, it was too old, or a request that the client has given up took it
\* along.
LossHasCause ==
  [][\A r \in Recip : \A e \in Range(Pending(r)) :
       \/ e \in Range(Pending(r)') \cup Range(got'[r])
       \/ MakesRoom(e, r)
       \/ age[e] = MaxAge
       \/ Disconnect
       \/ \E h \in Handler \ {listening} : PopFirst(h) \/ PopAgain(h)]_vars

\* An envelope does not stay in the queue of a node that pulls, unless the
\* node registers with another key; the wake-ups suffice for that.
SignalsLeave ==
  \A e \in Env :
    e \in Range(signals[FirstKey]) ~> e \notin Range(signals[FirstKey]) \/ key # FirstKey

=============================================================================
