------------------------------ MODULE MCHealth ------------------------------
(* Health for TLC: three tunnels, two of them to one remote.                  *)
EXTENDS Health
CONSTANTS a, b
MCTargets == <<a, b, a>>
=============================================================================
