-------------------------- MODULE MCCircularBuffer --------------------------
(* Small instances of CircularBuffer for TLC. *)
EXTENDS CircularBuffer, TLC

Symmetry == Permutations(Observers) \cup Permutations(Values)
=============================================================================
