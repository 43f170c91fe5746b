------------------------------ MODULE MCTunnel ------------------------------
(***************************************************************************)
(* Tunnel for TLC: three callers, an ordinary name and a reserved one,    *)
(* one port, and two /30 addresses of which one is the last of its subnet. *)
(***************************************************************************)
EXTENDS Tunnel, TLC

CONSTANTS o1, o2, o3

MCCidr == {[ip |-> 2, host |-> 2], [ip |-> 3, host |-> 2]}

\* The callers are alike.
MCSymmetry == Permutations({o1, o2, o3})

=============================================================================
