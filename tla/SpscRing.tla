------------------------------ MODULE SpscRing ------------------------------
(***************************************************************************)
(* include/fat_p/LockFreeRingBuffer.h, class LockFreeRingBuffer: the ring   *)
(* of one producer and one consumer that uses every slot, telling full from *)
(* empty by positions that run on and wrap at 2^w.  Each side keeps a copy  *)
(* of the other's position.  One action per access to memory that the other *)
(* thread also touches.  Both push() overloads are SpscPush, both pop()     *)
(* overloads and peek() are SpscPop.                                        *)
(***************************************************************************)
EXTENDS Integers, Sequences

CONSTANTS
  Requested,    \* the capacity the constructor is asked for
  PosModulus,   \* 2^w for positions of w bits
  RingValues,   \* values of type T
  NoRingValue,  \* not a value
  Watchers      \* the threads that are neither producer nor consumer

(* The least power of two that is at least n, at most 2^(w-1). *)
roundUpPowerOfTwo(n) ==
  LET Powers == {p \in 1 .. PosModulus \div 2 : \E e \in 0 .. p : p = 2 ^ e}
      Enough == {p \in Powers : p >= n}
  IN  IF Enough = {} THEN PosModulus \div 2
      ELSE CHOOSE p \in Enough : \A q \in Enough : p <= q

mCapacity == roundUpPowerOfTwo(Requested)

ASSUME RingAssumption ==
  /\ Requested \in Nat /\ PosModulus \in Nat \ {0}
  /\ mCapacity \in 1 .. PosModulus \div 2 /\ PosModulus % mCapacity = 0
  /\ NoRingValue \notin RingValues

VARIABLES
  mWritePos, mReadPos,
  mCachedRead,    \* the producer's copy of mReadPos
  mCachedWrite,   \* the consumer's copy of mWritePos
  mSlotArray,     \* mBuffer
  push,           \* the producer: where it is, and its argument
  pop,            \* the consumer: where it is in pop() or peek(), and the value copied
  lastPopped,         \* history: what the last successful pop() returned
  look            \* a call of empty(), full() or size(): by which thread, the write
                  \* position it loaded and, a history, the element counts there were
                  \* during the call.  Such calls change nothing, so one at a time
                  \* shows all they can return

pushVars == <<mWritePos, mCachedRead, push>>
popVars == <<mReadPos, mCachedWrite, pop, lastPopped>>
ringVars == <<pushVars, popVars, mSlotArray, look>>

Cell(p) == p % mCapacity                  \* p & mMask
Ahead(w, r) == (w - r) % PosModulus       \* w - r, as a size_t
isEmpty(write, read) == write = read
isFull(write, read) == Ahead(write, read) >= mCapacity
Held == Ahead(mWritePos, mReadPos)

Lookers == Watchers \cup {"producer", "consumer"}
NoLook == [by |-> "nobody", write |-> 0, seen |-> {}]
Looking(w) == look.by = w

RingInit ==
  /\ mWritePos = 0 /\ mReadPos = 0 /\ mCachedRead = 0 /\ mCachedWrite = 0
  /\ mSlotArray = [i \in 0 .. mCapacity - 1 |-> NoRingValue]
  /\ push = [at |-> "idle", value |-> NoRingValue]
  /\ pop = [at |-> "idle", op |-> "pop", value |-> NoRingValue]
  /\ lastPopped = NoRingValue
  /\ look = NoLook

(* The call under way sees the count that a moved position leaves behind. *)
WitnessHeld(count) ==
  look' = IF look = NoLook THEN look ELSE [look EXCEPT !.seen = @ \cup {count}]

-----------------------------------------------------------------------------
SpscPush(v) ==
  /\ push.at = "idle" /\ ~Looking("producer")
  /\ push' = [at |-> IF isFull(mWritePos, mCachedRead) THEN "refresh" ELSE "copy", value |-> v]
  /\ UNCHANGED <<mWritePos, mCachedRead, popVars, mSlotArray, look>>

RefreshForPush ==
  /\ push.at = "refresh"
  /\ mCachedRead' = mReadPos
  /\ push' = IF isFull(mWritePos, mReadPos) THEN [at |-> "idle", value |-> NoRingValue]
             ELSE [push EXCEPT !.at = "copy"]
  /\ UNCHANGED <<mWritePos, popVars, mSlotArray, look>>

PushCopy ==
  /\ push.at = "copy"
  /\ mSlotArray' = [mSlotArray EXCEPT ![Cell(mWritePos)] = push.value]
  /\ push' = [push EXCEPT !.at = "publish"]
  /\ UNCHANGED <<mWritePos, mCachedRead, popVars, look>>

PushPublish ==
  /\ push.at = "publish"
  /\ mWritePos' = (mWritePos + 1) % PosModulus
  /\ push' = [at |-> "idle", value |-> NoRingValue]
  /\ WitnessHeld(Held + 1)
  /\ UNCHANGED <<mCachedRead, popVars, mSlotArray>>

-----------------------------------------------------------------------------
SpscPop(op) ==
  /\ pop.at = "idle" /\ ~Looking("consumer")
  /\ pop' = [pop EXCEPT !.op = op, !.at = IF isEmpty(mCachedWrite, mReadPos) THEN "refresh" ELSE "copy"]
  /\ UNCHANGED <<mReadPos, mCachedWrite, lastPopped, pushVars, mSlotArray, look>>

RefreshForPop ==
  /\ pop.at = "refresh"
  /\ mCachedWrite' = mWritePos
  /\ pop' = [pop EXCEPT !.at = IF isEmpty(mWritePos, mReadPos) THEN "idle" ELSE "copy"]
  /\ UNCHANGED <<mReadPos, lastPopped, pushVars, mSlotArray, look>>

(* Fault: the slot in front is taken to be the newest one. *)
Fault_CopyNewest ==
  /\ pop.at = "copy"
  /\ pop' = IF pop.op = "pop" THEN [pop EXCEPT !.at = "publish", !.value = mSlotArray[Cell(mWritePos)]]
            ELSE [pop EXCEPT !.at = "idle"]
  /\ UNCHANGED <<mReadPos, mCachedWrite, lastPopped, pushVars, mSlotArray, look>>

(* peek() returns the element here. *)
PopCopy ==
  /\ pop.at = "copy"
  /\ pop' = IF pop.op = "pop" THEN [pop EXCEPT !.at = "publish", !.value = mSlotArray[Cell(mReadPos)]]
            ELSE [pop EXCEPT !.at = "idle"]
  /\ UNCHANGED <<mReadPos, mCachedWrite, lastPopped, pushVars, mSlotArray, look>>

PopPublish ==
  /\ pop.at = "publish"
  /\ mReadPos' = (mReadPos + 1) % PosModulus
  /\ pop' = [at |-> "idle", op |-> "pop", value |-> NoRingValue]
  /\ lastPopped' = pop.value
  /\ WitnessHeld(Held - 1)
  /\ UNCHANGED <<mCachedWrite, pushVars, mSlotArray>>

-----------------------------------------------------------------------------
(* empty(), full() and size() load mWritePos first and mReadPos second; what *)
(* they return is decided by the second load.                               *)
LoadWritePos(w) ==
  /\ look = NoLook
  /\ w = "producer" => push.at = "idle"
  /\ w = "consumer" => pop.at = "idle"
  /\ look' = [by |-> w, write |-> mWritePos, seen |-> {Held}]
  /\ UNCHANGED <<pushVars, popVars, mSlotArray>>

LoadReadPos ==
  /\ look # NoLook
  /\ look' = NoLook
  /\ UNCHANGED <<pushVars, popVars, mSlotArray>>

(* What LoadReadPos returns. *)
size == LET distance == Ahead(look.write, mReadPos)
        IN  IF distance <= mCapacity THEN distance ELSE mCapacity

empty == isEmpty(look.write, mReadPos)

(* Fault: the copy of the read position is good enough. *)
Fault_FullByCache == isFull(look.write, mCachedRead)

full == isFull(look.write, mReadPos)

RingNext ==
  \/ \E v \in RingValues : SpscPush(v)
  \/ RefreshForPush \/ PushCopy \/ PushPublish
  \/ \E op \in {"pop", "peek"} : SpscPop(op)
  \/ RefreshForPop \/ PopCopy \/ PopPublish
  \/ (\E w \in Lookers : LoadWritePos(w)) \/ LoadReadPos

RingSpec == RingInit /\ [][RingNext]_ringVars

-----------------------------------------------------------------------------
Positions == 0 .. PosModulus - 1

(* size() stays in [0, capacity()] whichever threads the two loads race. *)
RingTypeOK ==
  /\ mWritePos \in Positions /\ mReadPos \in Positions
  /\ mCachedRead \in Positions /\ mCachedWrite \in Positions
  /\ mSlotArray \in [0 .. mCapacity - 1 -> RingValues \cup {NoRingValue}]
  /\ push \in [at : {"idle", "refresh", "copy", "publish"}, value : RingValues \cup {NoRingValue}]
  /\ pop \in [at : {"idle", "refresh", "copy", "publish"}, op : {"pop", "peek"},
              value : RingValues \cup {NoRingValue}]
  /\ lastPopped \in RingValues \cup {NoRingValue}
  /\ look.by \in Lookers \cup {"nobody"} /\ look.write \in Positions
  /\ look.seen \subseteq 0 .. mCapacity
  /\ look # NoLook => size \in 0 .. mCapacity

(* However old the cached positions are, the producer copies into a cell    *)
(* only while one is free and the consumer out of one only while one is     *)
(* filled: they are never in the same cell.                                 *)
CellsAreOwned ==
  /\ push.at \in {"copy", "publish"} => Held < mCapacity
  /\ pop.at \in {"copy", "publish"} => Held > 0

(* The ring implements a FIFO of capacity() elements: pop() takes the value *)
(* when it copies it and hands it over when it stores mReadPos.             *)
RingQueue ==
  LET taken == IF pop.at = "publish" THEN 1 ELSE 0
  IN  [i \in 1 .. Held - taken |-> mSlotArray[Cell(mReadPos + taken + i - 1)]]

RingFifo == INSTANCE BoundedFifo WITH
  Consumers <- {"consumer"}, Values <- RingValues, NoValue <- NoRingValue,
  Capacity <- mCapacity, queue <- RingQueue,
  held <- [c \in {"consumer"} |-> pop.value],
  out <- [c \in {"consumer"} |-> lastPopped]

RingImplementsFifo == RingFifo!Init /\ [][RingFifo!Next]_(RingFifo!vars)

(* The producer and the consumer may trust all three observers ("racy but   *)
(* benign"): the answer was true of some moment of the call.  It is not so  *)
(* for a third thread, whose loads both sides may overtake.                 *)
OwnersSeeTheTruth ==
  look.by \in {"producer", "consumer"} =>
    /\ size \in look.seen
    /\ empty => 0 \in look.seen
    /\ full => mCapacity \in look.seen

(* The cells and what the owning threads are told are right, although both  *)
(* sides decide on old copies of the other's position.                      *)
RingIsSound == CellsAreOwned /\ OwnersSeeTheTruth
=============================================================================
