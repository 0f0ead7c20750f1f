------------------------------ MODULE MCSignal ------------------------------
(* Small instances of Signal for TLC.                                        *)
EXTENDS Signal, TLC

CONSTANTS t1, t2

Symmetry == Permutations(Threads)
=============================================================================
