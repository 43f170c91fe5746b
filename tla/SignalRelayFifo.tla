--------------------------- MODULE SignalRelayFifo ---------------------------
(* The signal relay implements a lossy queue (LossyFifo).  An envelope counts *)
(* as sent once it is in a queue, and as pending while it is in the queue or   *)
(* in the hands of the handler to which the client listens.                    *)
EXTENDS SignalRelay

\* The queue that the relay implements.
Fifo == INSTANCE LossyFifo
          WITH sent    <- {e \in Env : spc[e] \in {"closing", "done"}},
               pending <- [r \in Recip |-> Pending(r)]

\* The relay is a lossy queue: through retries, abandoned requests and shared
\* channels the client sees each envelope at most once and in the order in
\* which the queue took them.
IsLossyFifo == Fifo!Spec

=============================================================================
