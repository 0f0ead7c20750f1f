-------------------------- MODULE OptimisticReads ---------------------------
(***************************************************************************)
(* include/fat_p/ConcurrencyPolicies.h: the policies whose readers take no  *)
(* lock: SeqLockPolicy, VersionedLockPolicy and RCUPolicy (in its atomic    *)
(* shared_ptr form).  A behaviour uses one of them.  The data is an object  *)
(* of two words that a write adds one to, word by word, and a read copies   *)
(* word by word: each word counts the writes it has seen.  Memory is        *)
(* sequentially consistent.                                                 *)
(***************************************************************************)
EXTENDS Integers, FiniteSets, FiniteSetsExt

CONSTANTS
  Kinds,        \* the policies a behaviour may be about
  Readers,
  Writers,
  SeqWriters,   \* the writers that use a SeqLock (it does not exclude them)
  MaxWrites,    \* bound: write guards made
  MAX_RETRIES

ASSUME KindsAssumption == Kinds \subseteq {"seqlock", "versioned", "rcu"}
ASSUME UsersAssumption ==
  /\ IsFiniteSet(Readers) /\ IsFiniteSet(Writers)
  /\ Readers \cap Writers = {} /\ SeqWriters \subseteq Writers
ASSUME LimitsAssumption == MaxWrites \in Nat /\ MAX_RETRIES \in Nat

VARIABLES
  kind,
  at,          \* where each thread is
  mSequence,   \* mSequence of the SeqLock, mVersion of the versioned lock
  mWriteMutex, \* the threads that hold the writers' mutex: at most one
  heap,        \* heap[i]: the words of object i
  mData,       \* the object that is current (only RCU ever changes it)
  loaded,      \* loaded[t]: the sequence, version or object t has loaded
  fresh,       \* fresh[w]: the object an RCU update is building
  copy,        \* copy[r]: the words r has copied
  retries,
  begun,       \* write guards made
  done,        \* history: writes complete
  doneAtStart  \* history: doneAtStart[r], done when r's read began

seqVars == <<mSequence, mWriteMutex>>
dataVars == <<heap, mData, fresh>>
readVars == <<copy, retries, doneAtStart>>
readsVars == <<kind, at, seqVars, dataVars, loaded, readVars, begun, done>>

Parties == Readers \cup Writers
Objects == 0 .. Cardinality(Parties) + 1
Word == 1 .. 2
Blank == [i \in Word |-> 0]

ReadsInit ==
  /\ kind \in Kinds
  /\ at = [t \in Parties |-> "idle"]
  /\ mSequence = 0
  /\ mWriteMutex = {}
  /\ heap = [o \in Objects |-> Blank]
  /\ mData = 0
  /\ loaded = [t \in Parties |-> 0]
  /\ fresh = [w \in Writers |-> 0]
  /\ copy = [r \in Readers |-> Blank]
  /\ retries = [r \in Readers |-> 0]
  /\ begun = 0 /\ done = 0
  /\ doneAtStart = [r \in Readers |-> 0]

Go(t, kinds, from, to) ==
  /\ kind \in kinds
  /\ at[t] = from
  /\ at' = [at EXCEPT ![t] = to]
  /\ UNCHANGED kind

SetLoaded(t, value) == loaded' = [loaded EXCEPT ![t] = value]

-----------------------------------------------------------------------------
(* Writers. *)
NewGuard == begun < MaxWrites /\ begun' = begun + 1

(* SeqLockPolicy::LockGuard adds one with a load and a store, twice. *)
SeqLock(w) ==
  /\ w \in SeqWriters
  /\ Go(w, {"seqlock"}, "idle", "enter")
  /\ NewGuard
  /\ SetLoaded(w, mSequence)
  /\ UNCHANGED <<seqVars, dataVars, readVars, done>>

SeqEnter(w) ==
  /\ Go(w, {"seqlock"}, "enter", "word1")
  /\ mSequence' = loaded[w] + 1
  /\ UNCHANGED <<mWriteMutex, dataVars, loaded, readVars, begun, done>>

SeqUnlock(w) ==
  /\ Go(w, {"seqlock"}, "written", "leave")
  /\ SetLoaded(w, mSequence)
  /\ UNCHANGED <<seqVars, dataVars, readVars, begun, done>>

SeqLeave(w) ==
  /\ Go(w, {"seqlock"}, "leave", "idle")
  /\ mSequence' = loaded[w] + 1
  /\ done' = done + 1
  /\ UNCHANGED <<mWriteMutex, dataVars, loaded, readVars, begun>>

(* VersionedLockPolicy::LockGuard and RCUPolicy::write() take the mutex. *)
TakeMutex(w) ==
  /\ mWriteMutex = {}
  /\ mWriteMutex' = {w}
  /\ NewGuard
  /\ UNCHANGED <<mSequence, dataVars, readVars, done>>

VersionedLock(w) ==
  /\ Go(w, {"versioned"}, "idle", "word1")
  /\ TakeMutex(w)
  /\ SetLoaded(w, mSequence)

RcuLock(w) ==
  /\ Go(w, {"rcu"}, "idle", "locked")
  /\ TakeMutex(w)
  /\ UNCHANGED loaded

(* commit(), by the user or by the destructor. *)
VersionedCommit(w) ==
  /\ Go(w, {"versioned"}, "written", "unlock")
  /\ mSequence' = loaded[w] + 1
  /\ done' = done + 1
  /\ UNCHANGED <<mWriteMutex, dataVars, loaded, readVars, begun>>

ReleaseMutex(w) ==
  /\ Go(w, {"versioned", "rcu"}, "unlock", "idle")
  /\ mWriteMutex' = {}
  /\ SetLoaded(w, 0)
  /\ fresh' = [fresh EXCEPT ![w] = 0]
  /\ UNCHANGED <<mSequence, heap, mData, readVars, begun, done>>

(* f changes the data of the lock, or the private object of an RCU update. *)
Target(w) == IF kind = "rcu" THEN fresh[w] ELSE mData

WriteWord(w, from, i, to) ==
  /\ Go(w, {"seqlock", "versioned", "rcu"}, from, to)
  /\ heap' = [heap EXCEPT ![Target(w)][i] = @ + 1]
  /\ UNCHANGED <<seqVars, mData, fresh, loaded, readVars, begun, done>>

(* RCUPolicy::LockGuard::update(): load, copy into a new object, change it, *)
(* publish it by compare and exchange; that may fail without a reason, then *)
(* the copy is made again.  A shared_ptr keeps an object while somebody     *)
(* refers to it; its memory is used again as soon as nobody does.           *)
RcuLoad(w) ==
  /\ Go(w, {"rcu"}, "locked", "copy")
  /\ SetLoaded(w, mData)
  /\ UNCHANGED <<seqVars, dataVars, readVars, begun, done>>

Reading(r) == at[r] \in {"copy1", "copy2", "end"}
Referred ==
  {mData} \cup {loaded[r] : r \in {q \in Readers : Reading(q)}}
    \cup UNION {{loaded[w], fresh[w]} : w \in {v \in Writers : at[v] # "idle"}}

Allocate(w, o) ==
  /\ fresh' = [fresh EXCEPT ![w] = o]
  /\ heap' = [heap EXCEPT ![o] = heap[loaded[w]]]

(* Fault: what a snapshot refers to counts as free. *)
Fault_ForgetSnapshots(w) ==
  /\ Go(w, {"rcu"}, "copy", "word1")
  /\ Allocate(w, Min(Objects \ {mData}))
  /\ UNCHANGED <<seqVars, mData, loaded, readVars, begun, done>>

RcuCopy(w) ==
  /\ Go(w, {"rcu"}, "copy", "word1")
  /\ Allocate(w, Min(Objects \ Referred))
  /\ UNCHANGED <<seqVars, mData, loaded, readVars, begun, done>>

RcuPublish(w) ==
  /\ Go(w, {"rcu"}, "written", "unlock")
  /\ mData = loaded[w]
  /\ mData' = fresh[w]
  /\ done' = done + 1
  /\ UNCHANGED <<seqVars, heap, fresh, loaded, readVars, begun>>

RcuPublishFails(w) ==
  /\ Go(w, {"rcu"}, "written", "copy")
  /\ SetLoaded(w, mData)
  /\ UNCHANGED <<seqVars, dataVars, readVars, begun, done>>

WriteStep(w) ==
  \/ SeqLock(w) \/ SeqEnter(w) \/ SeqUnlock(w) \/ SeqLeave(w)
  \/ VersionedLock(w) \/ VersionedCommit(w) \/ ReleaseMutex(w)
  \/ WriteWord(w, "word1", 1, "word2") \/ WriteWord(w, "word2", 2, "written")
  \/ RcuLock(w) \/ RcuLoad(w) \/ RcuCopy(w) \/ RcuPublish(w) \/ RcuPublishFails(w)

-----------------------------------------------------------------------------
(* Readers. *)
ReadCall(r) ==
  /\ Go(r, {"seqlock", "versioned", "rcu"}, "idle", "begin")
  /\ retries' = [retries EXCEPT ![r] = 0]
  /\ doneAtStart' = [doneAtStart EXCEPT ![r] = done]
  /\ UNCHANGED <<seqVars, dataVars, loaded, copy, begun, done>>

(* The guard loads the sequence, the version or the snapshot. *)
ReadBegin(r) ==
  /\ Go(r, {"seqlock", "versioned", "rcu"}, "begin", "copy1")
  /\ kind = "seqlock" => mSequence % 2 = 0
  /\ SetLoaded(r, IF kind = "rcu" THEN mData ELSE mSequence)
  /\ UNCHANGED <<seqVars, dataVars, readVars, begun, done>>

(* Fault: the retries are not counted. *)
Fault_RetryUncounted(r) ==
  /\ Go(r, {"seqlock"}, "begin", "begin")
  /\ mSequence % 2 = 1
  /\ UNCHANGED <<seqVars, dataVars, loaded, readVars, begun, done>>

(* SeqLockPolicy::SharedGuard: the sequence is odd; again, or give up. *)
ReadRetry(r) ==
  /\ Go(r, {"seqlock"}, "begin", IF retries[r] >= MAX_RETRIES THEN "invalid" ELSE "begin")
  /\ mSequence % 2 = 1
  /\ retries' = [retries EXCEPT ![r] = @ + 1]
  /\ UNCHANGED <<seqVars, dataVars, loaded, copy, doneAtStart, begun, done>>

ReadWord(r, from, i, to) ==
  /\ Go(r, {"seqlock", "versioned", "rcu"}, from, to)
  /\ copy' = [copy EXCEPT ![r][i] = heap[IF kind = "rcu" THEN loaded[r] ELSE mData][i]]
  /\ UNCHANGED <<seqVars, dataVars, loaded, retries, doneAtStart, begun, done>>

(* is_valid(), validate(); a snapshot is always valid. *)
IsValid(r) == kind = "rcu" \/ mSequence = loaded[r]

ReadEnd(r) ==
  /\ Go(r, {"seqlock", "versioned", "rcu"}, "end", IF IsValid(r) THEN "valid" ELSE "invalid")
  /\ UNCHANGED <<seqVars, dataVars, loaded, readVars, begun, done>>

ReadReturn(r) ==
  /\ Go(r, {"seqlock", "versioned", "rcu"}, "valid", "idle")
     \/ Go(r, {"seqlock", "versioned", "rcu"}, "invalid", "idle")
  /\ copy' = [copy EXCEPT ![r] = Blank]
  /\ SetLoaded(r, 0)
  /\ UNCHANGED <<seqVars, dataVars, retries, doneAtStart, begun, done>>

ReadStep(r) ==
  \/ ReadBegin(r) \/ ReadRetry(r)
  \/ ReadWord(r, "copy1", 1, "copy2") \/ ReadWord(r, "copy2", 2, "end")
  \/ ReadEnd(r) \/ ReadReturn(r)

ReadsNext ==
  \/ \E w \in Writers : WriteStep(w)
  \/ \E r \in Readers : ReadCall(r) \/ ReadStep(r)

ReadsSpec == ReadsInit /\ [][ReadsNext]_readsVars

(* Readers are scheduled; a writer may stop anywhere. *)
ReadsFairness == \A r \in Readers : WF_readsVars(ReadStep(r))

-----------------------------------------------------------------------------
ReadsTypeOK ==
  /\ kind \in Kinds
  /\ at \in [Parties -> {"idle", "enter", "word1", "word2", "written", "leave", "locked",
                         "copy", "unlock", "begin", "copy1", "copy2", "end", "valid",
                         "invalid"}]
  /\ mSequence \in Nat
  /\ mWriteMutex \subseteq Writers
  /\ heap \in [Objects -> [Word -> Nat]]
  /\ mData \in Objects
  /\ loaded \in [Parties -> Nat]
  /\ fresh \in [Writers -> Objects]
  /\ copy \in [Readers -> [Word -> Nat]]
  /\ retries \in [Readers -> 0 .. MAX_RETRIES + 1]
  /\ begun \in 0 .. MaxWrites /\ done \in 0 .. MaxWrites
  /\ doneAtStart \in [Readers -> 0 .. MaxWrites]

WholeAndCurrent(r) ==
  /\ copy[r][1] = copy[r][2]
  /\ copy[r][1] \in doneAtStart[r] .. done

(* A read that the SeqLock's is_valid() accepts, and every read of an RCU   *)
(* snapshot, copied the words of one write, one that was current during the *)
(* read: although objects are recycled and one writer is always at work.    *)
ValidReadIsWhole ==
  kind \in {"seqlock", "rcu"} => \A r \in Readers : at[r] = "valid" => WholeAndCurrent(r)

(* Between guards the data holds every write made: concurrent write()       *)
(* guards, and the retries of an update(), neither lose nor repeat one.     *)
NoWriteIsLost ==
  (\A w \in Writers : at[w] = "idle") => heap[mData] = [i \in Word |-> done]

(* What was read without a lock and accepted is right, and what was written *)
(* stays.                                                                   *)
ReadsAreSound == ValidReadIsWhole /\ NoWriteIsLost

(* A reader is never held up by a writer, not even by one that has stopped  *)
(* in the middle of a write: MAX_RETRIES ends the SeqLock's wait.           *)
ReadersReturn == \A r \in Readers : at[r] = "begin" ~> at[r] = "idle"

-----------------------------------------------------------------------------
(* What the manual says and the code does not do. *)

(* VersionedLockPolicy is listed with the SeqLock under "Retry-based        *)
(* readers": what validate() accepts is one write's data.                   *)
VersionedReadIsWhole ==
  kind = "versioned" => \A r \in Readers : at[r] = "valid" => WholeAndCurrent(r)
=============================================================================
