------------------------------ MODULE LossyFifo ------------------------------
(***************************************************************************)
(* What the coordinator's signal relay promises its clients: per           *)
(* recipient key, a queue that may lose messages but neither duplicates    *)
(* nor reorders them.                                                      *)
(***************************************************************************)
EXTENDS Integers, Sequences

CONSTANTS Recip, Env

VARIABLES
  sent,      \* messages handed to the relay
  pending,   \* pending[r]: messages for r on their way, oldest first
  got        \* got[r]: messages for r that its client has received

vars == <<sent, pending, got>>

\* The sequences that are left when some messages of s are lost: n of them at
\* increasing places of s.
Places(n, m) == {f \in [1..n -> 1..m] : \A i, j \in 1..n : i < j => f[i] < f[j]}
Kept(s) == UNION {{[i \in 1..n |-> s[f[i]]] : f \in Places(n, Len(s))} : n \in 0..Len(s)}

Init ==
  /\ sent    = {}
  /\ pending = [r \in Recip |-> <<>>]
  /\ got     = [r \in Recip |-> <<>>]

\* A new message; older ones may be lost to make room for it.
Send(r, e) ==
  /\ e \notin sent
  /\ sent' = sent \cup {e}
  /\ \E kept \in Kept(pending[r]) : pending' = [pending EXCEPT ![r] = Append(kept, e)]
  /\ UNCHANGED got

Lose(r) ==
  /\ \E kept \in Kept(pending[r]) : pending' = [pending EXCEPT ![r] = kept]
  /\ UNCHANGED <<sent, got>>

\* The client receives the oldest messages.
Deliver(r) ==
  /\ \E n \in 1..Len(pending[r]) :
       /\ got'     = [got EXCEPT ![r] = @ \o SubSeq(pending[r], 1, n)]
       /\ pending' = [pending EXCEPT ![r] = SubSeq(@, n + 1, Len(@))]
  /\ UNCHANGED sent

Next == \E r \in Recip : (\E e \in Env : Send(r, e)) \/ Lose(r) \/ Deliver(r)

Spec == Init /\ [][Next]_vars

=============================================================================
