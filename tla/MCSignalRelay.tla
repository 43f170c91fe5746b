---------------------------- MODULE MCSignalRelay ----------------------------
(* Instances of SignalRelay for TLC.  Envelopes and handlers are             *)
(* interchangeable; no run with symmetry checks liveness.                    *)
EXTENDS SignalRelayFifo, TLC

MCSymmetry == Permutations(Env) \cup Permutations(Handler)

=============================================================================
