----------------------------- MODULE StringPool -----------------------------
(***************************************************************************)
(* include/fat_p/StringPool.h with SharedMutexPolicy: intern() looks a      *)
(* string up under the shared lock, then again under the exclusive one      *)
(* before it inserts it.  A hit counts itself in two steps, while other     *)
(* readers, stats() among them, run.  What holds the exclusive lock is one  *)
(* step.  A pointer is the number of the allocation; bytes are counted as   *)
(* strings.                                                                 *)
(***************************************************************************)
EXTENDS Naturals, FiniteSets

CONSTANTS
  Interners,   \* the threads
  Strings,
  MaxInterns   \* bound: calls of intern()

ASSUME StringsAssumption ==
  /\ IsFiniteSet(Interners) /\ MaxInterns \in Nat
  /\ IsFiniteSet(Strings) /\ Strings # {}

VARIABLES
  mStrings,     \* mStrings[s]: the pointer to the pool's copy of s, 0 if none
  total_interns, content_bytes, memory_saved,
  intern,       \* intern[t]: the call of t: at, its string and what it returned
  allocated,    \* the copies made
  interns       \* the calls made

stringsVars == <<mStrings, total_interns, content_bytes, memory_saved, intern, allocated, interns>>

StringsInit ==
  /\ mStrings = [s \in Strings |-> 0]
  /\ total_interns = 0 /\ content_bytes = 0 /\ memory_saved = 0
  /\ intern = [t \in Interners |->
                 [at |-> "idle", str |-> CHOOSE s \in Strings : TRUE, ptr |-> 0]]
  /\ allocated = 0 /\ interns = 0

-----------------------------------------------------------------------------
In(t, at) == intern[t].at = at
SetIntern(t, at, ptr) == intern' = [intern EXCEPT ![t].at = at, ![t].ptr = ptr]

InternCall(t, s) ==
  /\ In(t, "idle") /\ interns < MaxInterns
  /\ interns' = interns + 1
  /\ intern' = [intern EXCEPT ![t] = [at |-> "look", str |-> s, ptr |-> 0]]
  /\ UNCHANGED <<mStrings, total_interns, content_bytes, memory_saved, allocated>>

(* Under the shared lock: a hit counts the call, and still has the lock. *)
LookUpShared(t) ==
  /\ In(t, "look")
  /\ LET p == mStrings[intern[t].str] IN
       \/ p # 0 /\ SetIntern(t, "hit", p) /\ total_interns' = total_interns + 1
       \/ p = 0 /\ SetIntern(t, "insert", 0) /\ UNCHANGED total_interns
  /\ UNCHANGED <<mStrings, content_bytes, memory_saved, allocated, interns>>

CountSaved(t) ==
  /\ In(t, "hit")
  /\ memory_saved' = memory_saved + 1
  /\ SetIntern(t, "idle", intern[t].ptr)
  /\ UNCHANGED <<mStrings, total_interns, content_bytes, allocated, interns>>

(* The exclusive lock can be taken. *)
Unshared == \A t \in Interners : ~In(t, "hit")

Emplace(t) ==
  /\ allocated' = allocated + 1
  /\ mStrings' = [mStrings EXCEPT ![intern[t].str] = allocated']
  /\ content_bytes' = content_bytes + 1
  /\ SetIntern(t, "idle", allocated')
  /\ UNCHANGED memory_saved

(* Under the exclusive lock: somebody may have inserted it meanwhile. *)
InsertExclusive(t) ==
  /\ In(t, "insert") /\ Unshared
  /\ total_interns' = total_interns + 1
  /\ LET p == mStrings[intern[t].str] IN
       \/ p = 0 /\ Emplace(t)
       \/ /\ p # 0 /\ memory_saved' = memory_saved + 1
          /\ SetIntern(t, "idle", p)
          /\ UNCHANGED <<mStrings, content_bytes, allocated>>
  /\ UNCHANGED interns

(* Allocation of the copy fails. *)
InsertThrows(t) ==
  /\ In(t, "insert") /\ Unshared /\ mStrings[intern[t].str] = 0
  /\ SetIntern(t, "idle", 0)
  /\ UNCHANGED <<mStrings, total_interns, content_bytes, memory_saved, allocated, interns>>

ClearAll ==
  /\ mStrings' = [s \in Strings |-> 0]
  /\ total_interns' = 0 /\ content_bytes' = 0 /\ memory_saved' = 0
  /\ intern' = [t \in Interners |->
                  IF In(t, "hit") THEN intern[t] ELSE [intern[t] EXCEPT !.ptr = 0]]
  /\ UNCHANGED <<allocated, interns>>

(* Fault: does not wait for the readers. *)
Fault_ClearUnderShared == ClearAll

(* clear(): "Invalidates all pointers returned by intern()". *)
ClearStrings == Unshared /\ ClearAll

Unique == Cardinality({s \in Strings : mStrings[s] # 0})

reset_stats ==
  /\ Unshared
  /\ total_interns' = Unique /\ memory_saved' = 0
  /\ UNCHANGED <<mStrings, content_bytes, intern, allocated, interns>>

StringsNext ==
  \/ \E t \in Interners :
       \/ \E s \in Strings : InternCall(t, s)
       \/ LookUpShared(t) \/ CountSaved(t) \/ InsertExclusive(t) \/ InsertThrows(t)
  \/ ClearStrings \/ reset_stats

StringsSpec == StringsInit /\ [][StringsNext]_stringsVars

-----------------------------------------------------------------------------
StringsTypeOK ==
  /\ mStrings \in [Strings -> 0 .. allocated]
  /\ {total_interns, content_bytes, memory_saved} \subseteq 0 .. MaxInterns
  /\ intern \in [Interners -> [at : {"idle", "look", "hit", "insert"}, str : Strings,
                               ptr : 0 .. allocated]]
  /\ allocated \in 0 .. interns /\ interns \in 0 .. MaxInterns

(* "Multiple calls with identical strings return the same pointer": what    *)
(* intern() returned, to whichever thread, is the pool's only copy of the   *)
(* string until clear().                                                    *)
OneCopyPerString ==
  \A t \in Interners : intern[t].ptr # 0 => intern[t].ptr = mStrings[intern[t].str]

(* The statistics of a pool that is in use: hits, which stats() computes by *)
(* subtracting unsigned numbers, are the strings saved and the hits that    *)
(* are being counted, and no copy is uncounted.                             *)
StatisticsAddUp ==
  /\ total_interns = Unique + memory_saved + Cardinality({t \in Interners : In(t, "hit")})
  /\ content_bytes = Unique

(* One copy of each string, and statistics that can be subtracted.          *)
StringsAreSound == OneCopyPerString /\ StatisticsAddUp
=============================================================================
