--------------------------- MODULE HazardPointers ---------------------------
(***************************************************************************)
(* include/fat_p/ConcurrencyPolicies.h: HazardPointerPolicy.  Threads read  *)
(* the node that an atomic pointer src refers to under a guard; one that    *)
(* unlinks a node retires it, and a scan of all hazard pointers decides     *)
(* what may be deleted.  One action per atomic access, in a sequentially    *)
(* consistent memory.  src and the unlinking belong to the policy's user.   *)
(***************************************************************************)
EXTENDS Integers, Sequences, FiniteSets, FiniteSetsExt

CONSTANTS
  Users,              \* threads
  Nodes,              \* bound: nodes ever made, numbered, each linked once
  Null,
  HP_PER_THREAD,
  RETIRED_THRESHOLD

ASSUME NodesAssumption ==
  IsFiniteSet(Users) /\ Nodes \subseteq Nat /\ Nodes # {} /\ Null \notin Nodes
ASSUME SizesAssumption ==
  HP_PER_THREAD \in Nat \ {0} /\ RETIRED_THRESHOLD \in Nat \ {0}

VARIABLES
  src,           \* the shared pointer that protect() is given
  records,       \* the list of thread records, head first
  active,        \* the threads whose record is active
  hp,            \* hp[t][i]: the hazard pointers of t's record
  place,         \* where each thread is
  index,         \* index[t]: the hazard pointer of the guard t works on
  ptr,           \* ptr[t]: the local pointer of protect(), or the node to retire
  mProtectedPtr, \* mProtectedPtr[t][i]: what the guard on i has returned
  retired_list,
  global_mutex,  \* the threads that hold it: at most one
  cursor,        \* cursor[t]: how many hazard pointers t's scan has loaded
  protected,     \* protected[t]: protected_ptrs of t's scan
  deleted        \* nodes deleted

guardVars == <<hp, index, ptr, mProtectedPtr>>
scanVars == <<cursor, protected>>
hpVars == <<src, records, active, guardVars, place, retired_list, global_mutex, scanVars,
            deleted>>

Index == 0 .. HP_PER_THREAD - 1
Pointer == Nodes \cup {Null}
NoHazard == [i \in Index |-> Null]

HazardInit ==
  /\ src = Min(Nodes)
  /\ records = << >> /\ active = {}
  /\ hp = [t \in Users |-> NoHazard]
  /\ place = [t \in Users |-> "new"]
  /\ index = [t \in Users |-> 0]
  /\ ptr = [t \in Users |-> Null]
  /\ mProtectedPtr = [t \in Users |-> NoHazard]
  /\ retired_list = [t \in Users |-> {}]
  /\ global_mutex = {}
  /\ cursor = [t \in Users |-> 0]
  /\ protected = [t \in Users |-> {}]
  /\ deleted = {}

Move(t, from, to) == place[t] = from /\ place' = [place EXCEPT ![t] = to]

(* The next node to be linked. *)
Used == {src} \cup deleted \cup UNION {retired_list[t] \cup {ptr[t]} : t \in Users}
NewNode == IF Nodes \subseteq Used THEN Null ELSE Min(Nodes \ Used)

-----------------------------------------------------------------------------
(* ThreadRecordManager: a thread's first use puts its record on the list.   *)
Register(t) ==
  /\ Move(t, "new", "idle")
  /\ global_mutex = {}
  /\ records' = <<t>> \o records
  /\ active' = active \cup {t}
  /\ UNCHANGED <<src, guardVars, retired_list, global_mutex, scanVars, deleted>>

(* Its destructor marks the record; what is still retired is never deleted. *)
ThreadExit(t) ==
  /\ Move(t, "idle", "exited")
  /\ hp[t] = NoHazard
  /\ active' = active \ {t}
  /\ UNCHANGED <<src, records, guardVars, retired_list, global_mutex, scanVars, deleted>>

(* acquire(i) and protect(src): load, publish, load again. *)
Protect(t, i) ==
  /\ Move(t, "idle", "load")
  /\ index' = [index EXCEPT ![t] = i]
  /\ mProtectedPtr' = [mProtectedPtr EXCEPT ![t][i] = Null]
  /\ UNCHANGED <<src, records, active, hp, ptr, retired_list, global_mutex, scanVars, deleted>>

ProtectLoad(t) ==
  /\ Move(t, "load", "publish")
  /\ ptr' = [ptr EXCEPT ![t] = src]
  /\ UNCHANGED <<src, records, active, hp, index, mProtectedPtr, retired_list, global_mutex,
                 scanVars, deleted>>

ProtectPublish(t) ==
  /\ Move(t, "publish", "verify")
  /\ hp' = [hp EXCEPT ![t][index[t]] = ptr[t]]
  /\ UNCHANGED <<src, records, active, index, ptr, mProtectedPtr, retired_list, global_mutex,
                 scanVars, deleted>>

(* Fault: the pointer is not loaded again once it is published. *)
Fault_NoVerify(t) ==
  /\ Move(t, "verify", "idle")
  /\ mProtectedPtr' = [mProtectedPtr EXCEPT ![t][index[t]] = ptr[t]]
  /\ ptr' = [ptr EXCEPT ![t] = Null]
  /\ UNCHANGED <<src, records, active, hp, index, retired_list, global_mutex, scanVars, deleted>>

ProtectVerified(t) ==
  /\ Move(t, "verify", "idle")
  /\ ptr[t] = src
  /\ mProtectedPtr' = [mProtectedPtr EXCEPT ![t][index[t]] = ptr[t]]
  /\ ptr' = [ptr EXCEPT ![t] = Null]
  /\ UNCHANGED <<src, records, active, hp, index, retired_list, global_mutex, scanVars, deleted>>

ProtectAgain(t) ==
  /\ Move(t, "verify", "load")
  /\ ptr[t] # src
  /\ UNCHANGED <<src, records, active, guardVars, retired_list, global_mutex, scanVars, deleted>>

(* ~Guard() *)
Release(t, i) ==
  /\ place[t] = "idle"
  /\ hp[t][i] # Null
  /\ hp' = [hp EXCEPT ![t][i] = Null]
  /\ mProtectedPtr' = [mProtectedPtr EXCEPT ![t][i] = Null]
  /\ UNCHANGED <<src, records, active, index, ptr, place, retired_list, global_mutex, scanVars,
                 deleted>>

-----------------------------------------------------------------------------
(* The user takes the node out of src and puts another, or none, there. *)
Unlink(t, n) ==
  /\ Move(t, "idle", "retire")
  /\ src # Null
  /\ n \in {NewNode, Null}
  /\ src' = n
  /\ ptr' = [ptr EXCEPT ![t] = src]
  /\ UNCHANGED <<records, active, hp, index, mProtectedPtr, retired_list, global_mutex,
                 scanVars, deleted>>

Retire(t) ==
  /\ Move(t, "retire", IF Cardinality(retired_list[t]) + 1 >= RETIRED_THRESHOLD
                       THEN "scan" ELSE "idle")
  /\ retired_list' = [retired_list EXCEPT ![t] = @ \cup {ptr[t]}]
  /\ ptr' = [ptr EXCEPT ![t] = Null]
  /\ UNCHANGED <<src, records, active, hp, index, mProtectedPtr, global_mutex, scanVars, deleted>>

ForceReclaim(t) ==
  /\ Move(t, "idle", "scan")
  /\ retired_list[t] # {}
  /\ UNCHANGED <<src, records, active, guardVars, retired_list, global_mutex, scanVars, deleted>>

(* scan_and_reclaim(): under the mutex, the hazard pointers of the active   *)
(* records are loaded one by one; then the rest of the list is deleted.     *)
ScanLock(t) ==
  /\ Move(t, "scan", "scanning")
  /\ global_mutex = {}
  /\ global_mutex' = {t}
  /\ UNCHANGED <<src, records, active, guardVars, retired_list, scanVars, deleted>>

Hazard(t) == hp[records[cursor[t] \div HP_PER_THREAD + 1]][cursor[t] % HP_PER_THREAD]

ScanLoad(t) ==
  /\ place[t] = "scanning"
  /\ cursor[t] < Len(records) * HP_PER_THREAD
  /\ LET owner == records[cursor[t] \div HP_PER_THREAD + 1]
     IN  protected' = [protected EXCEPT ![t] =
                         IF owner \in active THEN @ \cup ({Hazard(t)} \ {Null}) ELSE @]
  /\ cursor' = [cursor EXCEPT ![t] = @ + 1]
  /\ UNCHANGED <<src, records, active, guardVars, place, retired_list, global_mutex, deleted>>

ScanUnlock(t) ==
  /\ Move(t, "scanning", "sweep")
  /\ cursor[t] = Len(records) * HP_PER_THREAD
  /\ global_mutex' = {}
  /\ UNCHANGED <<src, records, active, guardVars, retired_list, scanVars, deleted>>

Sweep(t) ==
  /\ Move(t, "sweep", "idle")
  /\ deleted' = deleted \cup (retired_list[t] \ protected[t])
  /\ retired_list' = [retired_list EXCEPT ![t] = @ \cap protected[t]]
  /\ cursor' = [cursor EXCEPT ![t] = 0]
  /\ protected' = [protected EXCEPT ![t] = {}]
  /\ UNCHANGED <<src, records, active, guardVars, global_mutex>>

HazardNext ==
  \E t \in Users :
    \/ Register(t) \/ ThreadExit(t)
    \/ \E i \in Index : Protect(t, i) \/ Release(t, i)
    \/ ProtectLoad(t) \/ ProtectPublish(t) \/ ProtectVerified(t) \/ ProtectAgain(t)
    \/ \E n \in Pointer : Unlink(t, n)
    \/ Retire(t) \/ ForceReclaim(t)
    \/ ScanLock(t) \/ ScanLoad(t) \/ ScanUnlock(t) \/ Sweep(t)

HazardSpec == HazardInit /\ [][HazardNext]_hpVars

-----------------------------------------------------------------------------
HazardTypeOK ==
  /\ src \in Pointer
  /\ records \in Seq(Users) /\ active \subseteq Users
  /\ hp \in [Users -> [Index -> Pointer]]
  /\ place \in [Users -> {"new", "idle", "exited", "load", "publish", "verify", "retire",
                          "scan", "scanning", "sweep"}]
  /\ index \in [Users -> Index]
  /\ ptr \in [Users -> Pointer]
  /\ mProtectedPtr \in [Users -> [Index -> Pointer]]
  /\ retired_list \in [Users -> SUBSET Nodes]
  /\ global_mutex \subseteq Users
  /\ cursor \in [Users -> Nat]
  /\ protected \in [Users -> SUBSET Nodes]
  /\ deleted \subseteq Nodes

(* "Protected from reclamation": a node that protect() has returned is not  *)
(* deleted while its guard lives, whoever unlinks, retires and scans.       *)
ProtectedIsAlive ==
  \A t \in Users, i \in Index : mProtectedPtr[t][i] \notin deleted

(* The garbage of a thread is bounded: what a retire() that did not scan    *)
(* leaves, or what the hazard pointers of all threads protected at a scan.  *)
GarbageIsBounded ==
  \A t \in Users :
    place[t] \in {"idle", "load", "publish", "verify"} =>
      \/ Cardinality(retired_list[t]) < RETIRED_THRESHOLD
      \/ Cardinality(retired_list[t]) <= Cardinality(Users) * HP_PER_THREAD

(* Reclamation deletes nothing too early and leaves nothing for too long.   *)
HazardsAreSafe == ProtectedIsAlive /\ GarbageIsBounded
=============================================================================
