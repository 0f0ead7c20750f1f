-------------------------- MODULE MCLockFreeQueue --------------------------
(* Small instances of LockFreeQueue for TLC. *)
EXTENDS LockFreeQueue, TLC

Symmetry == Permutations(Producers) \cup Permutations(Consumers)
            \cup Permutations(Observers) \cup Permutations(Values)
=============================================================================
