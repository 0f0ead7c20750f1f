--------------------------- MODULE CircularBuffer ---------------------------
(***************************************************************************)
(* include/fat_p/CircularBuffer.h: the bounded queue of one producer and    *)
(* one consumer.  Each side owns an index and keeps a cached copy of the    *)
(* other side's, which it refreshes only when the copy says "full" or       *)
(* "empty".  Observers on any thread load both indices.  One action per     *)
(* access to an atomic index of another thread; the assignment of the       *)
(* element, which is not atomic and may throw, is an action of its own.     *)
(* Indices are size_t: they wrap at Modulus.                                *)
(***************************************************************************)
EXTENDS Integers, Sequences

CONSTANTS
  Producer,     \* the thread that calls push() and emplace()
  Consumer,     \* the thread that calls pop() and front()
  Observers,    \* the threads that call size(), empty() and full()
  Values,       \* values of type T
  NoValue,      \* not a value: a slot never assigned, or half assigned
  Capacity,     \* the template argument Capacity
  Modulus       \* 2^w for indices of w bits

(* The least power of two that is at least n (n > 0). *)
next_power_of_two(n) ==
  LET Powers == {p \in n .. 2 * n : \E e \in 0 .. n : p = 2 ^ e}
  IN  CHOOSE p \in Powers : \A q \in Powers : p <= q

BufferSize == next_power_of_two(Capacity + 1)

ASSUME CapacityAssumption == Capacity \in Nat \ {0}     \* static_assert, line 99
ASSUME BufferAssumption ==                              \* static_assert, line 132
  BufferSize \in Nat /\ BufferSize > Capacity
ASSUME ModulusAssumption ==
  /\ Modulus \in Nat \ {0}
  /\ Modulus % BufferSize = 0                            \* both are powers of two
  /\ BufferSize < Modulus                                \* kBufferSize is a size_t, line 127
ASSUME ThreadsAssumption == Producer # Consumer /\ Observers \cap {Producer, Consumer} = {}
ASSUME ValuesAssumption == NoValue \notin Values

Threads == {Producer, Consumer} \cup Observers
Indices == 0 .. Modulus - 1
Slots == 0 .. BufferSize - 1

SlotOf(index) == index % BufferSize          \* index & kIndexMask
Successor(index) == (index + 1) % Modulus        \* index + 1, as a size_t
Distance(w, r) == (w - r) % Modulus          \* w - r, as a size_t

VARIABLES
  mReadIdx, mWriteIdx,
  mCachedReadIdx,    \* the producer's copy of mReadIdx
  mCachedWriteIdx,   \* the consumer's copy of mWriteIdx
  mBuffer,
  pc,                \* where each thread is in its call, "idle" outside one
  item,              \* the argument of push(); the out parameter of pop()
  popped,            \* history: the value of the last pop() that returned true
  peek,              \* the slot front() returned a pointer to, and its value then
  attempt,           \* attempt[o]: the loop counter of size()
  first, second,     \* first[o], second[o]: the indices an observer has loaded
  seen               \* history: the element counts during each observer's call

indices == <<mReadIdx, mWriteIdx>>
caches == <<mCachedReadIdx, mCachedWriteIdx>>
observed == <<attempt, first, second>>
vars == <<indices, caches, mBuffer, pc, item, popped, peek, observed, seen>>

Count == Distance(mWriteIdx, mReadIdx)

(* Every running observer call has now also seen n elements. *)
Witness(n) ==
  seen' = [o \in Observers |-> IF pc[o] = "idle" THEN {} ELSE seen[o] \cup {n}]

Init ==
  /\ mReadIdx = 0 /\ mWriteIdx = 0
  /\ mCachedReadIdx = 0 /\ mCachedWriteIdx = 0
  /\ mBuffer = [s \in Slots |-> NoValue]
  /\ pc = [t \in Threads |-> "idle"]
  /\ item = [t \in {Producer, Consumer} |-> NoValue]
  /\ popped = NoValue
  /\ peek = NoValue
  /\ attempt = [o \in Observers |-> 0]
  /\ first = [o \in Observers |-> 0]
  /\ second = [o \in Observers |-> 0]
  /\ seen = [o \in Observers |-> {}]

(* Bound: no push() begins when it could take the indices round to one an   *)
(* observer has loaded and will compare with: 2^64 pushes in one call.      *)
WithinLap ==
  \A o \in Observers : pc[o] # "idle" => Distance(mWriteIdx, first[o]) < Modulus - BufferSize

At(t, label) == pc[t] = label
GoTo(t, label) == pc' = [pc EXCEPT ![t] = label]

-----------------------------------------------------------------------------
(* Faults: each is the operation of the same name without the prefix, with  *)
(* one plausible mistake.  They are never part of Next.                     *)

(* The producer refreshes its copy and does not check again. *)
Fault_NoRecheck ==
  /\ At(Producer, "refresh")
  /\ mCachedReadIdx' = mReadIdx
  /\ GoTo(Producer, "copy")
  /\ UNCHANGED <<indices, mCachedWriteIdx, mBuffer, item, popped, peek, observed, seen>>

(* push() believes its copy when the copy says the buffer is full. *)
Fault_TrustCache ==
  /\ At(Producer, "refresh")
  /\ GoTo(Producer, "idle")
  /\ UNCHANGED <<indices, caches, mBuffer, item, popped, peek, observed, seen>>

(* A pop() whose assignment throws still moves the read index on. *)
Fault_ThrowSkips ==
  /\ At(Consumer, "move")
  /\ mReadIdx' = Successor(mReadIdx)
  /\ Witness(Distance(mWriteIdx, mReadIdx'))
  /\ GoTo(Consumer, "idle")
  /\ UNCHANGED <<mWriteIdx, caches, mBuffer, item, popped, peek, observed>>

(* size() returns without loading the first index a second time. *)
Fault_NoBracket(o, n) ==
  /\ At(o, "again")
  /\ n = IF attempt[o] % 2 = 0 THEN Distance(first[o], second[o])
                               ELSE Distance(second[o], first[o])
  /\ GoTo(o, "idle")
  /\ seen' = [seen EXCEPT ![o] = {}]
  /\ UNCHANGED <<indices, caches, mBuffer, item, popped, peek, observed>>

-----------------------------------------------------------------------------
(* push() and emplace() *)

PushCall(v) ==
  /\ At(Producer, "idle") /\ WithinLap
  /\ item' = [item EXCEPT ![Producer] = v]
  /\ GoTo(Producer, IF Distance(mWriteIdx, mCachedReadIdx) < Capacity
                    THEN "copy" ELSE "refresh")
  /\ UNCHANGED <<indices, caches, mBuffer, popped, peek, observed, seen>>

PushRefresh(label) ==
  /\ At(Producer, "refresh")
  /\ mCachedReadIdx' = mReadIdx
  /\ GoTo(Producer, label)
  /\ UNCHANGED <<indices, mCachedWriteIdx, mBuffer, item, popped, peek, observed, seen>>

(* "Actually full": return false. *)
PushFails == PushRefresh("idle") /\ Count >= Capacity

PushRefreshes == PushRefresh("copy") /\ Count < Capacity

PushCopies ==
  /\ At(Producer, "copy")
  /\ mBuffer' = [mBuffer EXCEPT ![SlotOf(mWriteIdx)] = item[Producer]]
  /\ GoTo(Producer, "store")
  /\ UNCHANGED <<indices, caches, item, popped, peek, observed, seen>>

(* The assignment throws and leaves anything in the slot. *)
PushThrows ==
  /\ At(Producer, "copy")
  /\ mBuffer' = [mBuffer EXCEPT ![SlotOf(mWriteIdx)] = NoValue]
  /\ GoTo(Producer, "idle")
  /\ UNCHANGED <<indices, caches, item, popped, peek, observed, seen>>

PushStores ==
  /\ At(Producer, "store")
  /\ mWriteIdx' = Successor(mWriteIdx)
  /\ Witness(Distance(mWriteIdx', mReadIdx))
  /\ GoTo(Producer, "idle")
  /\ UNCHANGED <<mReadIdx, caches, mBuffer, item, popped, peek, observed>>

-----------------------------------------------------------------------------
(* pop() and front() *)

PopCall ==
  /\ At(Consumer, "idle")
  /\ GoTo(Consumer, IF mReadIdx # mCachedWriteIdx THEN "move" ELSE "refresh")
  /\ UNCHANGED <<indices, caches, mBuffer, item, popped, peek, observed, seen>>

PopRefresh(label) ==
  /\ At(Consumer, "refresh")
  /\ mCachedWriteIdx' = mWriteIdx
  /\ GoTo(Consumer, label)
  /\ UNCHANGED <<indices, mCachedReadIdx, mBuffer, item, popped, peek, observed, seen>>

(* "Actually empty": return false. *)
PopFails == PopRefresh("idle") /\ mReadIdx = mWriteIdx

PopRefreshes == PopRefresh("move") /\ mReadIdx # mWriteIdx

(* The pointer front() returned is good until here. *)
PopMoves ==
  /\ At(Consumer, "move")
  /\ item' = [item EXCEPT ![Consumer] = mBuffer[SlotOf(mReadIdx)]]
  /\ peek' = NoValue
  /\ GoTo(Consumer, "store")
  /\ UNCHANGED <<indices, caches, mBuffer, popped, observed, seen>>

(* The assignment throws and leaves the element as it was. *)
PopThrows ==
  /\ At(Consumer, "move")
  /\ GoTo(Consumer, "idle")
  /\ UNCHANGED <<indices, caches, mBuffer, item, popped, peek, observed, seen>>

PopStores ==
  /\ At(Consumer, "store")
  /\ mReadIdx' = Successor(mReadIdx)
  /\ popped' = item[Consumer]
  /\ Witness(Distance(mWriteIdx, mReadIdx'))
  /\ GoTo(Consumer, "idle")
  /\ UNCHANGED <<mWriteIdx, caches, mBuffer, item, peek, observed>>

front ==
  /\ At(Consumer, "idle")
  /\ mReadIdx # mWriteIdx
  /\ peek' = [slot |-> SlotOf(mReadIdx), value |-> mBuffer[SlotOf(mReadIdx)]]
  /\ UNCHANGED <<indices, caches, mBuffer, pc, item, popped, observed, seen>>

(* clear() and clearAndDestruct(), with no other call running, as their     *)
(* comments demand.                                                         *)
Clear ==
  /\ \A t \in Threads : At(t, "idle")
  /\ mReadIdx' = 0 /\ mWriteIdx' = 0
  /\ mCachedReadIdx' = 0 /\ mCachedWriteIdx' = 0
  /\ peek' = NoValue
  /\ UNCHANGED <<mBuffer, pc, item, popped, observed, seen>>

-----------------------------------------------------------------------------
(* Observers *)

(* An observer loads an index into first (its call begins) or second. *)
LoadFirst(o, index, label) ==
  /\ first' = [first EXCEPT ![o] = index]
  /\ seen' = [seen EXCEPT ![o] = @ \cup {Count}]
  /\ GoTo(o, label)
  /\ UNCHANGED <<indices, caches, mBuffer, item, popped, peek, second>>

Returns(o) ==
  /\ GoTo(o, "idle")
  /\ attempt' = [attempt EXCEPT ![o] = 0]
  /\ seen' = [seen EXCEPT ![o] = {}]
  /\ UNCHANGED <<indices, caches, mBuffer, item, popped, peek, first, second>>

(* size(): even attempts bracket mReadIdx with two loads of mWriteIdx, odd  *)
(* ones the other way round.                                                *)
Bracket(o) == IF attempt[o] % 2 = 0 THEN mWriteIdx ELSE mReadIdx
Middle(o) == IF attempt[o] % 2 = 0 THEN mReadIdx ELSE mWriteIdx

SizeLoads(o) ==
  /\ pc[o] \in {"idle", "retry"}
  /\ LoadFirst(o, Bracket(o), "between")
  /\ UNCHANGED attempt

SizeLoadsBetween(o) ==
  /\ At(o, "between")
  /\ second' = [second EXCEPT ![o] = Middle(o)]
  /\ GoTo(o, "again")
  /\ UNCHANGED <<indices, caches, mBuffer, item, popped, peek, attempt, first, seen>>

SizeReturns(o, n) ==
  /\ At(o, "again") /\ Bracket(o) = first[o]
  /\ n = IF attempt[o] % 2 = 0 THEN Distance(first[o], second[o])
                               ELSE Distance(second[o], first[o])
  /\ Returns(o)

SizeRetries(o) ==
  /\ At(o, "again") /\ Bracket(o) # first[o]
  /\ attempt' = [attempt EXCEPT ![o] = @ + 1]
  /\ GoTo(o, IF attempt[o] < 3 THEN "retry" ELSE "exhausted")
  /\ UNCHANGED <<indices, caches, mBuffer, item, popped, peek, first, second, seen>>

SizeGivesUp(o) ==
  /\ At(o, "exhausted")
  /\ LoadFirst(o, mReadIdx, "fallback")
  /\ UNCHANGED attempt

SizeEstimates(o, n) ==
  /\ At(o, "fallback")
  /\ LET d == Distance(mWriteIdx, first[o]) IN n = IF d <= Capacity THEN d ELSE Capacity
  /\ Returns(o)

(* empty(): the operands of == may be evaluated in either order. *)
EmptyLoads(o) ==
  /\ At(o, "idle")
  /\ \/ LoadFirst(o, mReadIdx, "emptyWrite")
     \/ LoadFirst(o, mWriteIdx, "emptyRead")
  /\ UNCHANGED attempt

EmptyReturns(o, verdict) ==
  /\ \/ At(o, "emptyWrite") /\ verdict = (first[o] = mWriteIdx)
     \/ At(o, "emptyRead") /\ verdict = (first[o] = mReadIdx)
  /\ Returns(o)

FullLoads(o) ==
  /\ At(o, "idle")
  /\ LoadFirst(o, mWriteIdx, "fullRead")
  /\ UNCHANGED attempt

FullReturns(o, verdict) ==
  /\ At(o, "fullRead")
  /\ verdict = (Distance(first[o], mReadIdx) >= Capacity)
  /\ Returns(o)

-----------------------------------------------------------------------------
Push ==
  \/ \E v \in Values : PushCall(v)
  \/ PushFails \/ PushRefreshes \/ PushCopies \/ PushThrows \/ PushStores

Pop ==
  \/ PopCall \/ PopFails \/ PopRefreshes \/ PopMoves \/ PopThrows \/ PopStores
  \/ front

Observe(o) ==
  \/ SizeLoads(o) \/ SizeLoadsBetween(o) \/ SizeRetries(o) \/ SizeGivesUp(o)
  \/ \E n \in Indices : SizeReturns(o, n)
  \/ \E n \in 0 .. Capacity : SizeEstimates(o, n)
  \/ EmptyLoads(o) \/ FullLoads(o)
  \/ \E verdict \in BOOLEAN : EmptyReturns(o, verdict) \/ FullReturns(o, verdict)

Next == Push \/ Pop \/ Clear \/ \E o \in Observers : Observe(o)

Spec == Init /\ [][Next]_vars

-----------------------------------------------------------------------------
(* Types, and the size of the queue: the check in push() against a copy of  *)
(* mReadIdx never lets more than Capacity elements in, wrapped or not.      *)
TypeOK ==
  /\ mReadIdx \in Indices /\ mWriteIdx \in Indices
  /\ mCachedReadIdx \in Indices /\ mCachedWriteIdx \in Indices
  /\ mBuffer \in [Slots -> Values \cup {NoValue}]
  /\ pc \in [Threads -> {"idle", "refresh", "copy", "move", "store", "between", "again",
                         "retry", "exhausted", "fallback", "emptyWrite", "emptyRead", "fullRead"}]
  /\ item \in [{Producer, Consumer} -> Values \cup {NoValue}]
  /\ popped \in Values \cup {NoValue}
  /\ attempt \in [Observers -> 0 .. 4]
  /\ first \in [Observers -> Indices] /\ second \in [Observers -> Indices]
  /\ seen \in [Observers -> SUBSET (0 .. Capacity)]
  /\ Count <= Capacity

(* The element being assigned by push() is in no slot the consumer may      *)
(* read: the plain array of elements is never raced on.                     *)
SlotExclusive ==
  pc[Producer] \in {"copy", "store"} =>
    \A i \in 0 .. Count - 1 : SlotOf(mReadIdx + i) # SlotOf(mWriteIdx)

(* "Under the SPSC contract, producer push()/emplace() does not invalidate  *)
(* this pointer": what front() points at stays until the next pop().        *)
FrontIsStable == peek # NoValue => mBuffer[peek.slot] = peek.value

(* Nobody overfills the array, writes where the consumer reads, or changes  *)
(* what front() points at.                                                  *)
BufferIsSound == TypeOK /\ SlotExclusive /\ FrontIsStable

(* The buffer implements a FIFO bounded by Capacity; a push() or pop() that *)
(* throws changes nothing of it, and clear() is the only way to lose it.    *)
Contents == [i \in 1 .. Count |-> mBuffer[SlotOf(mReadIdx + i - 1)]]
Committed == pc[Consumer] = "store"

Fifo == INSTANCE BoundedFifo WITH
          Consumers <- {Consumer},
          queue <- IF Committed THEN Tail(Contents) ELSE Contents,
          held <- [c \in {Consumer} |-> IF Committed THEN item[c] ELSE NoValue],
          out <- [c \in {Consumer} |-> popped]

ImplementsFifo == Fifo!Init /\ [][Fifo!Next \/ Clear]_(Fifo!vars)

(* push() returns false only when the buffer holds Capacity elements, and   *)
(* pop() only when it holds none, however old the cached indices are.       *)
FailuresAreTrue ==
  [][/\ At(Producer, "refresh") /\ pc'[Producer] = "idle" => Count = Capacity
     /\ At(Consumer, "refresh") /\ pc'[Consumer] = "idle" => Count = 0]_vars

(* size() returns a count the buffer had during the call when an index was  *)
(* stable, and after four failed attempts at least one it had.              *)
SizeIsFaithful ==
  [][\A o \in Observers :
       /\ \A n \in Indices : SizeReturns(o, n) => n \in seen[o]
       /\ \A n \in 0 .. Capacity : SizeEstimates(o, n) => \E k \in seen[o] : k <= n]_vars

(* Line 403, "true if buffer cannot accept more elements": full() = true    *)
(* only if the buffer was full at some moment of the call.                  *)
FullIsASnapshot ==
  [][\A o \in Observers : FullReturns(o, TRUE) => Capacity \in seen[o]]_vars
=============================================================================
