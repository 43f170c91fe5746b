---------------------------- MODULE MCRendezvous ----------------------------
(* Rendezvous for TLC: a and b, each with a public and a local address.       *)
EXTENDS Rendezvous, TLC

CONSTANTS a, b, a1, a2, b1, b2

\* The two ends are interchangeable.
MCSwap == {[v \in {a, b, a1, a2, b1, b2} |-> v],
           (a :> b) @@ (b :> a) @@ (a1 :> b1) @@ (b1 :> a1) @@ (a2 :> b2) @@ (b2 :> a2)}

MCFsm    == {a, b}
MCAddr   == {a1, a2, b1, b2}
MCOffers == {{}}
MCPub    == [p \in MCFsm |-> IF p = a THEN a1 ELSE b1]
MCLoc    == [p \in MCFsm |-> IF p = a THEN a2 ELSE b2]
=============================================================================
