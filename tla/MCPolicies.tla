----------------------------- MODULE MCPolicies -----------------------------
(* ConcurrencyPolicies.h for TLC: a behaviour is about one of its parts,    *)
(* the state of the others keeps its initial value.                         *)
EXTENDS Locks, OptimisticReads, HazardPointers

CONSTANT Parts   \* a subset of {"locks", "reads", "hazard"}
VARIABLE part

PartsInit ==
  /\ part \in Parts
  /\ LocksInit /\ (part # "locks" => policy = "spin")
  /\ ReadsInit /\ (part # "reads" => kind = "versioned")
  /\ HazardInit

PartsNext ==
  \/ part = "locks" /\ LocksNext /\ UNCHANGED <<part, readsVars, hpVars>>
  \/ part = "reads" /\ ReadsNext /\ UNCHANGED <<part, locksVars, hpVars>>
  \/ part = "hazard" /\ HazardNext /\ UNCHANGED <<part, locksVars, readsVars>>

PartsSpec ==
  /\ PartsInit /\ [][PartsNext]_<<part, locksVars, readsVars, hpVars>>
  /\ LocksFairness /\ ReadsFairness

(* The policies' sequences, tickets, counters and hazard slots keep their   *)
(* types.                                                                   *)
PoliciesTypeOK == LocksTypeOK /\ ReadsTypeOK /\ HazardTypeOK
=============================================================================
