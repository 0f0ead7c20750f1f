--------------------------- MODULE LockFreeQueue ---------------------------
(***************************************************************************)
(* include/fat_p/LockFreeQueue.h: the bounded multi-producer multi-consumer *)
(* queue.  Positions ("tickets") are claimed by compare-and-swap on two     *)
(* counters; a sequence number per slot says which ticket the slot is ready *)
(* for.  One action per atomic access of the code; the copy of the value    *)
(* into or out of the slot is not atomic there and is an action of its own. *)
(* The counters are 64 bits wide and never wrap in a feasible run, so they  *)
(* are natural numbers.                                                     *)
(***************************************************************************)
EXTENDS Integers, Sequences

CONSTANTS
  Producers,    \* threads that call enqueue()
  Consumers,    \* threads that call dequeue()
  Observers,    \* threads that call empty() or size()
  Values,       \* values of type T
  NoValue,      \* not a value: the content of a slot never written
  MaxSize,      \* the template argument MaxSize
  MaxTickets,   \* bound: no enqueue() is called once this many are claimed
  Stalled       \* threads that may stop for ever in the middle of a call

ASSUME SizeAssumption == MaxSize \in Nat \ {0}      \* static_assert, line 163
ASSUME BoundAssumption == MaxTickets \in Nat
ASSUME ThreadsAssumption ==
  /\ Producers \cap Consumers = {}
  /\ Producers \cap Observers = {}
  /\ Consumers \cap Observers = {}
ASSUME StalledAssumption == Stalled \subseteq Producers \cup Consumers
ASSUME ValuesAssumption == NoValue \notin Values

Threads == Producers \cup Consumers \cup Observers
Slots == 0 .. MaxSize - 1

(* pos & kMask, for a MaxSize that is a power of two. *)
SlotOf(ticket) == ticket % MaxSize

VARIABLES
  mEnqueuePos,  \* next ticket to enqueue
  mDequeuePos,  \* next ticket to dequeue
  sequence,     \* sequence[s]: Slot::sequence
  data,         \* data[s]: Slot::data
  pc,           \* where each thread is in its call, "idle" outside one
  pos,          \* the local variable pos (enq, for an observer)
  item,         \* the argument of enqueue(), the out parameter of dequeue()
  log,          \* history: the values in the order their tickets were claimed
  saw           \* history: what the queue was during each observer's call

shared == <<mEnqueuePos, mDequeuePos, sequence, data>>
local == <<pc, pos, item>>
history == <<log, saw>>
vars == <<shared, local, history>>

IsEmpty == mEnqueuePos = mDequeuePos

(* The queue goes to the positions enq and deq: every running observer call *)
(* has now seen it empty, or not empty.                                     *)
Witness(enq, deq) ==
  saw' = [o \in Observers |->
            IF pc[o] = "idle" THEN {}
            ELSE saw[o] \cup {IF enq = deq THEN "empty" ELSE "nonempty"}]

Init ==
  /\ mEnqueuePos = 0
  /\ mDequeuePos = 0
  /\ sequence = [s \in Slots |-> s]
  /\ data = [s \in Slots |-> NoValue]
  /\ pc = [t \in Threads |-> "idle"]
  /\ pos = [t \in Threads |-> 0]
  /\ item = [t \in Producers \cup Consumers |-> NoValue]
  /\ log = << >>
  /\ saw = [o \in Observers |-> {}]

GoTo(t, label) == pc' = [pc EXCEPT ![t] = label]
SetPos(t, p) == pos' = [pos EXCEPT ![t] = p]

-----------------------------------------------------------------------------
(* Faults: each is the operation of the same name without the prefix, with  *)
(* one plausible mistake.  They are never part of Next.                     *)

(* The claim is a plain store instead of a compare-and-swap. *)
Fault_PlainClaim(p) ==
  /\ pc[p] = "cas"
  /\ mEnqueuePos' = pos[p] + 1
  /\ log' = Append(log, item[p])
  /\ Witness(mEnqueuePos', mDequeuePos)
  /\ GoTo(p, "write")
  /\ UNCHANGED <<mDequeuePos, sequence, data, pos, item>>

(* The slot is published with the claim, before the value is in it. *)
Fault_PublishOnClaim(p) ==
  /\ pc[p] = "cas"
  /\ mEnqueuePos = pos[p]
  /\ mEnqueuePos' = pos[p] + 1
  /\ log' = Append(log, item[p])
  /\ Witness(mEnqueuePos', mDequeuePos)
  /\ sequence' = [sequence EXCEPT ![SlotOf(pos[p])] = pos[p] + 1]
  /\ GoTo(p, "write")
  /\ UNCHANGED <<mDequeuePos, data, pos, item>>

(* A producer waits for its slot instead of returning false. *)
Fault_WaitForSlot(p) ==
  /\ pc[p] = "loadSeq"
  /\ sequence[SlotOf(pos[p])] < pos[p]
  /\ SetPos(p, mEnqueuePos)
  /\ UNCHANGED <<shared, history, pc, item>>

(* The slot is released for the ticket before the one that comes to it. *)
Fault_ReleaseOneShort(c) ==
  /\ pc[c] = "release"
  /\ sequence' = [sequence EXCEPT ![SlotOf(pos[c])] = pos[c] + MaxSize - 1]
  /\ GoTo(c, "idle")
  /\ UNCHANGED <<mEnqueuePos, mDequeuePos, data, pos, item, history>>

(* size() takes the distance whichever counter is ahead. *)
Fault_AbsoluteDistance(o, n) ==
  /\ pc[o] = "loadDeq"
  /\ saw' = [saw EXCEPT ![o] = {}]
  /\ n = IF pos[o] >= mDequeuePos THEN pos[o] - mDequeuePos ELSE mDequeuePos - pos[o]
  /\ GoTo(o, "idle")
  /\ UNCHANGED <<shared, pos, item, log>>

-----------------------------------------------------------------------------
(* enqueueImpl *)

EnqueueCall(p, v) ==
  /\ pc[p] = "idle"
  /\ mEnqueuePos < MaxTickets
  /\ item' = [item EXCEPT ![p] = v]
  /\ SetPos(p, mEnqueuePos)
  /\ GoTo(p, "loadSeq")
  /\ UNCHANGED <<shared, history>>

(* diff == 0: the slot is ready for this ticket, try to claim it. *)
EnqueueSlotReady(p) ==
  /\ pc[p] = "loadSeq"
  /\ sequence[SlotOf(pos[p])] = pos[p]
  /\ GoTo(p, "cas")
  /\ UNCHANGED <<shared, history, pos, item>>

(* diff < 0: "Queue is full", return false. *)
EnqueueFails(p) ==
  /\ pc[p] = "loadSeq"
  /\ sequence[SlotOf(pos[p])] < pos[p]
  /\ GoTo(p, "idle")
  /\ UNCHANGED <<shared, history, pos, item>>

(* diff > 0: another thread claimed the ticket, reload the position. *)
EnqueueReload(p) ==
  /\ pc[p] = "loadSeq"
  /\ sequence[SlotOf(pos[p])] > pos[p]
  /\ SetPos(p, mEnqueuePos)
  /\ UNCHANGED <<shared, history, pc, item>>

EnqueueCasWins(p) ==
  /\ pc[p] = "cas"
  /\ mEnqueuePos = pos[p]
  /\ mEnqueuePos' = pos[p] + 1
  /\ log' = Append(log, item[p])
  /\ Witness(mEnqueuePos', mDequeuePos)
  /\ GoTo(p, "write")
  /\ UNCHANGED <<mDequeuePos, sequence, data, pos, item>>

(* compare_exchange_weak fails, spuriously or not, and reloads pos. *)
EnqueueCasFails(p) ==
  /\ pc[p] = "cas"
  /\ SetPos(p, mEnqueuePos)
  /\ GoTo(p, "loadSeq")
  /\ UNCHANGED <<shared, history, item>>

EnqueueWrite(p) ==
  /\ pc[p] = "write"
  /\ data' = [data EXCEPT ![SlotOf(pos[p])] = item[p]]
  /\ GoTo(p, "publish")
  /\ UNCHANGED <<mEnqueuePos, mDequeuePos, sequence, pos, item, history>>

EnqueuePublish(p) ==
  /\ pc[p] = "publish"
  /\ sequence' = [sequence EXCEPT ![SlotOf(pos[p])] = pos[p] + 1]
  /\ GoTo(p, "idle")
  /\ UNCHANGED <<mEnqueuePos, mDequeuePos, data, pos, item, history>>

-----------------------------------------------------------------------------
(* dequeue *)

DequeueCall(c) ==
  /\ pc[c] = "idle"
  /\ SetPos(c, mDequeuePos)
  /\ GoTo(c, "loadSeq")
  /\ UNCHANGED <<shared, history, item>>

(* diff == 0: the slot holds this ticket's value, try to claim it. *)
DequeueSlotReady(c) ==
  /\ pc[c] = "loadSeq"
  /\ sequence[SlotOf(pos[c])] = pos[c] + 1
  /\ GoTo(c, "cas")
  /\ UNCHANGED <<shared, history, pos, item>>

(* diff < 0: "Queue is empty", return false. *)
DequeueFails(c) ==
  /\ pc[c] = "loadSeq"
  /\ sequence[SlotOf(pos[c])] < pos[c] + 1
  /\ GoTo(c, "idle")
  /\ UNCHANGED <<shared, history, pos, item>>

(* diff > 0: another thread dequeued the ticket, reload the position. *)
DequeueReload(c) ==
  /\ pc[c] = "loadSeq"
  /\ sequence[SlotOf(pos[c])] > pos[c] + 1
  /\ SetPos(c, mDequeuePos)
  /\ UNCHANGED <<shared, history, pc, item>>

DequeueCasWins(c) ==
  /\ pc[c] = "cas"
  /\ mDequeuePos = pos[c]
  /\ mDequeuePos' = pos[c] + 1
  /\ Witness(mEnqueuePos, mDequeuePos')
  /\ GoTo(c, "read")
  /\ UNCHANGED <<mEnqueuePos, sequence, data, pos, item, log>>

DequeueCasFails(c) ==
  /\ pc[c] = "cas"
  /\ SetPos(c, mDequeuePos)
  /\ GoTo(c, "loadSeq")
  /\ UNCHANGED <<shared, history, item>>

DequeueRead(c) ==
  /\ pc[c] = "read"
  /\ item' = [item EXCEPT ![c] = data[SlotOf(pos[c])]]
  /\ GoTo(c, "release")
  /\ UNCHANGED <<shared, history, pos>>

DequeueRelease(c) ==
  /\ pc[c] = "release"
  /\ sequence' = [sequence EXCEPT ![SlotOf(pos[c])] = pos[c] + MaxSize]
  /\ GoTo(c, "idle")
  /\ UNCHANGED <<mEnqueuePos, mDequeuePos, data, pos, item, history>>

-----------------------------------------------------------------------------
(* empty() and size(): mEnqueuePos is loaded first, mDequeuePos second. *)

ObserverLoadEnqueuePos(o) ==
  /\ pc[o] = "idle"
  /\ SetPos(o, mEnqueuePos)
  /\ saw' = [saw EXCEPT ![o] = {IF IsEmpty THEN "empty" ELSE "nonempty"}]
  /\ GoTo(o, "loadDeq")
  /\ UNCHANGED <<shared, item, log>>

ObserverReturns(o) ==
  /\ pc[o] = "loadDeq"
  /\ saw' = [saw EXCEPT ![o] = {}]
  /\ GoTo(o, "idle")
  /\ UNCHANGED <<shared, pos, item, log>>

EmptyReturns(o, verdict) ==
  /\ ObserverReturns(o)
  /\ verdict = (pos[o] = mDequeuePos)

(* enq - deq is unsigned: a deq that has overtaken enq wraps to a distance  *)
(* above MaxSize, which is cut to MaxSize.                                  *)
SizeReturns(o, n) ==
  /\ ObserverReturns(o)
  /\ n = IF pos[o] >= mDequeuePos /\ pos[o] - mDequeuePos <= MaxSize
         THEN pos[o] - mDequeuePos ELSE MaxSize

-----------------------------------------------------------------------------
EnqueueLoop(p) ==
  \/ EnqueueSlotReady(p) \/ EnqueueFails(p) \/ EnqueueReload(p)
  \/ EnqueueCasWins(p) \/ EnqueueCasFails(p)
  \/ EnqueueWrite(p) \/ EnqueuePublish(p)

DequeueLoop(c) ==
  \/ DequeueSlotReady(c) \/ DequeueFails(c) \/ DequeueReload(c)
  \/ DequeueCasWins(c) \/ DequeueCasFails(c)
  \/ DequeueRead(c) \/ DequeueRelease(c)

Next ==
  \/ \E p \in Producers : (\E v \in Values : EnqueueCall(p, v)) \/ EnqueueLoop(p)
  \/ \E c \in Consumers : DequeueCall(c) \/ DequeueLoop(c)
  \/ \E o \in Observers :
       \/ ObserverLoadEnqueuePos(o)
       \/ \E verdict \in BOOLEAN : EmptyReturns(o, verdict)
       \/ \E n \in 0 .. MaxSize : SizeReturns(o, n)

Spec == Init /\ [][Next]_vars

(* A thread that is not stalled keeps taking steps in its call, and its     *)
(* compare_exchange_weak does not fail spuriously for ever.  Nobody is      *)
(* obliged to call anything.                                                *)
Fairness ==
  /\ \A p \in Producers \ Stalled : WF_vars(EnqueueLoop(p)) /\ SF_vars(EnqueueCasWins(p))
  /\ \A c \in Consumers \ Stalled : WF_vars(DequeueLoop(c)) /\ SF_vars(DequeueCasWins(c))

FairSpec == Spec /\ Fairness

-----------------------------------------------------------------------------
TypeOK ==
  /\ mEnqueuePos \in Nat
  /\ mDequeuePos \in Nat
  /\ sequence \in [Slots -> Nat]
  /\ data \in [Slots -> Values \cup {NoValue}]
  /\ pc \in [Threads -> {"idle", "loadSeq", "cas", "write", "publish",
                         "read", "release", "loadDeq"}]
  /\ pos \in [Threads -> Nat]
  /\ item \in [Producers \cup Consumers -> Values \cup {NoValue}]
  /\ log \in Seq(Values)
  /\ saw \in [Observers -> SUBSET {"empty", "nonempty"}]

Writing(p) == pc[p] \in {"write", "publish"}
Reading(c) == pc[c] \in {"read", "release"}

(* No two threads are between claiming a ticket and publishing or releasing *)
(* it on the same slot: the plain, non-atomic Slot::data is never raced on. *)
SlotExclusive ==
  \A t, u \in Producers \cup Consumers :
    t # u /\ (Writing(t) \/ Reading(t)) /\ (Writing(u) \/ Reading(u))
      => SlotOf(pos[t]) # SlotOf(pos[u])

(* The queue implements a FIFO bounded by capacity(): values leave in the   *)
(* order they were claimed, each once, and each dequeue() hands over the    *)
(* value of the ticket it claimed.                                          *)
HeldBy(c) == IF pc[c] = "read" THEN log[pos[c] + 1] ELSE NoValue

Fifo == INSTANCE BoundedFifo WITH
          Capacity <- MaxSize,
          queue <- SubSeq(log, mDequeuePos + 1, mEnqueuePos),
          held <- [c \in Consumers |-> HeldBy(c)],
          out <- [c \in Consumers |-> item[c]]

ImplementsFifo == Fifo!Spec

(* enqueue() returns false only when the queue is full or a dequeue() is    *)
(* still copying out of the slot it needs; dequeue() returns false only     *)
(* when the queue is empty or an enqueue() is still copying into that slot. *)
FailureHasACause ==
  [][/\ \A p \in Producers : EnqueueFails(p) =>
          \/ mEnqueuePos - mDequeuePos = MaxSize
          \/ \E c \in Consumers : Reading(c) /\ pos[c] + MaxSize = pos[p]
     /\ \A c \in Consumers : DequeueFails(c) =>
          \/ IsEmpty
          \/ \E p \in Producers : Writing(p) /\ pos[p] = pos[c]]_vars

(* What the two-load observers may be trusted for.  empty() = false: the   *)
(* queue did hold something at some moment of the call.  size() = n below  *)
(* capacity(): at least n values are queued when it returns.               *)
ObserversAreLowerBounds ==
  [][\A o \in Observers :
       /\ EmptyReturns(o, FALSE) => "nonempty" \in saw[o]
       /\ \A n \in 0 .. MaxSize - 1 :
            SizeReturns(o, n) => n <= mEnqueuePos - mDequeuePos]_vars

(* capacity() is MaxSize: the queue never holds more than that. *)
WithinCapacity == mEnqueuePos - mDequeuePos <= MaxSize

(* Lock-freedom: however many other threads stall in the middle of a call,  *)
(* the calls of the rest return.  MaxTickets bounds how often they can lose *)
(* the compare-and-swap to one another, the one thing lock-freedom leaves   *)
(* open.                                                                    *)
CallsReturn ==
  \A t \in (Producers \cup Consumers) \ Stalled : pc[t] # "idle" ~> pc[t] = "idle"
=============================================================================
