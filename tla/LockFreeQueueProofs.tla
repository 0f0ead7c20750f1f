------------------------ MODULE LockFreeQueueProofs ------------------------
(***************************************************************************)
(* Proofs about LockFreeQueue for any number of threads, any values and any *)
(* MaxSize of at least two.  The inductive invariant says, for every ticket *)
(* that is queued and for every ticket the queue still has room for, what   *)
(* the ticket's slot holds and which thread, if any, is working on it.      *)
(***************************************************************************)
EXTENDS LockFreeQueue, RingLemmas, TLAPS

Queued == mDequeuePos .. mEnqueuePos - 1
Room == mEnqueuePos .. mDequeuePos + MaxSize - 1

(* Which labels each kind of thread reaches; a running enqueue() has a value. *)
PcOK ==
  /\ \A p \in Producers : pc[p] \in {"idle", "loadSeq", "cas", "write", "publish"}
  /\ \A p \in Producers : pc[p] # "idle" => item[p] \in Values
  /\ \A c \in Consumers : pc[c] \in {"idle", "loadSeq", "cas", "read", "release"}
  /\ \A o \in Observers : pc[o] \in {"idle", "loadDeq"}

CountersOK ==
  /\ Len(log) = mEnqueuePos
  /\ mDequeuePos <= mEnqueuePos
  /\ mEnqueuePos <= mDequeuePos + MaxSize

(* A position read is never ahead of its counter, and once it is behind,    *)
(* the slot has moved on with it.                                           *)
PositionsOK ==
  /\ \A p \in Producers :
       /\ pos[p] <= mEnqueuePos
       /\ pos[p] < mEnqueuePos => sequence[SlotOf(pos[p])] >= pos[p]
       /\ pc[p] = "cas" /\ pos[p] = mEnqueuePos => sequence[SlotOf(pos[p])] = pos[p]
  /\ \A c \in Consumers :
       /\ pos[c] <= mDequeuePos
       /\ pos[c] < mDequeuePos => sequence[SlotOf(pos[c])] >= pos[c] + 1
       /\ pc[c] = "cas" /\ pos[c] = mDequeuePos => sequence[SlotOf(pos[c])] = pos[c] + 1

WritersOK ==
  /\ \A p \in Producers : Writing(p) =>
       /\ pos[p] \in Queued
       /\ sequence[SlotOf(pos[p])] = pos[p]
       /\ log[pos[p] + 1] = item[p]
       /\ pc[p] = "publish" => data[SlotOf(pos[p])] = item[p]
  /\ \A p, q \in Producers :
       Writing(p) /\ Writing(q) /\ pos[p] = pos[q] => p = q

ReadersOK ==
  /\ \A c \in Consumers : Reading(c) =>
       /\ pos[c] < mDequeuePos
       /\ pos[c] + MaxSize >= mEnqueuePos
       /\ sequence[SlotOf(pos[c])] = pos[c] + 1
       /\ pc[c] = "read" => data[SlotOf(pos[c])] = log[pos[c] + 1]
       /\ pc[c] = "release" => item[c] = log[pos[c] + 1]
  /\ \A c, d \in Consumers :
       Reading(c) /\ Reading(d) /\ pos[c] = pos[d] => c = d

QueuedOK ==
  \A k \in Queued :
    \/ \E p \in Producers : Writing(p) /\ pos[p] = k
    \/ sequence[SlotOf(k)] = k + 1 /\ data[SlotOf(k)] = log[k + 1]

RoomOK ==
  \A k \in Room :
    \/ \E c \in Consumers : Reading(c) /\ pos[c] + MaxSize = k
    \/ sequence[SlotOf(k)] = k

IInv ==
  /\ TypeOK /\ PcOK /\ CountersOK /\ PositionsOK
  /\ WritersOK /\ ReadersOK /\ QueuedOK /\ RoomOK
-----------------------------------------------------------------------------
(* Arithmetic of slots. *)

LEMMA SlotOfTicket ==
  ASSUME NEW k \in Nat
  PROVE  SlotOf(k) \in Slots
  BY DivMod, SizeAssumption DEF SlotOf, Slots

(* Two tickets less than MaxSize apart have different slots. *)
LEMMA SlotsDiffer ==
  ASSUME NEW j \in Nat, NEW k \in Nat, j < k, k - j < MaxSize
  PROVE  SlotOf(j) # SlotOf(k)
  BY ModDistinct, SizeAssumption DEF SlotOf

(* A ticket and the one a lap later have the same slot. *)
LEMMA SlotOfNextLap ==
  ASSUME NEW k \in Nat
  PROVE  SlotOf(k + MaxSize) = SlotOf(k)
  BY ModPeriod, SizeAssumption DEF SlotOf

-----------------------------------------------------------------------------
(* Type correctness *)

LEMMA TypeInit == Init => TypeOK /\ PcOK
  BY SizeAssumption, ThreadsAssumption, ValuesAssumption
     DEF Init, TypeOK, PcOK, Threads, Slots

LEMMA TypeStep == TypeOK /\ PcOK /\ [Next]_vars => TypeOK' /\ PcOK'
<1> SUFFICES ASSUME TypeOK, PcOK, [Next]_vars PROVE TypeOK' /\ PcOK'
  OBVIOUS
<1> USE SizeAssumption, ThreadsAssumption, ValuesAssumption, SlotOfTicket
    DEF TypeOK, PcOK, Threads, shared, local, history, GoTo, SetPos
<1>1. ASSUME NEW p \in Producers, NEW v \in Values, EnqueueCall(p, v)
      PROVE  TypeOK' /\ PcOK'
  BY <1>1 DEF EnqueueCall
<1>2. ASSUME NEW p \in Producers, EnqueueLoop(p)
      PROVE  TypeOK' /\ PcOK'
  <2>1. CASE EnqueueSlotReady(p) BY <2>1 DEF EnqueueSlotReady
  <2>2. CASE EnqueueFails(p) BY <2>2 DEF EnqueueFails
  <2>3. CASE EnqueueReload(p) BY <2>3 DEF EnqueueReload
  <2>4. CASE EnqueueCasWins(p)
    <3>1. saw' \in [Observers -> SUBSET {"empty", "nonempty"}]
      BY <2>4 DEF EnqueueCasWins, Witness
    <3>2. /\ mEnqueuePos' \in Nat /\ mDequeuePos' = mDequeuePos
          /\ sequence' = sequence /\ data' = data /\ pos' = pos /\ item' = item
          /\ log' \in Seq(Values)
      BY <2>4 DEF EnqueueCasWins
    <3>3. pc' = [pc EXCEPT ![p] = "write"] /\ pc[p] = "cas"
      BY <2>4 DEF EnqueueCasWins
    <3> QED BY <3>1, <3>2, <3>3, SMTT(20)
  <2>5. CASE EnqueueCasFails(p) BY <2>5 DEF EnqueueCasFails
  <2>6. CASE EnqueueWrite(p) BY <2>6 DEF EnqueueWrite
  <2>7. CASE EnqueuePublish(p) BY <2>7 DEF EnqueuePublish
  <2> QED BY <1>2, <2>1, <2>2, <2>3, <2>4, <2>5, <2>6, <2>7 DEF EnqueueLoop
<1>3. ASSUME NEW c \in Consumers, DequeueCall(c) \/ DequeueLoop(c)
      PROVE  TypeOK' /\ PcOK'
  <2>0. CASE DequeueCall(c) BY <2>0 DEF DequeueCall
  <2>1. CASE DequeueSlotReady(c) BY <2>1 DEF DequeueSlotReady
  <2>2. CASE DequeueFails(c) BY <2>2 DEF DequeueFails
  <2>3. CASE DequeueReload(c) BY <2>3 DEF DequeueReload
  <2>4. CASE DequeueCasWins(c)
    <3>1. saw' \in [Observers -> SUBSET {"empty", "nonempty"}]
      BY <2>4 DEF DequeueCasWins, Witness
    <3>2. /\ mDequeuePos' \in Nat /\ mEnqueuePos' = mEnqueuePos
          /\ sequence' = sequence /\ data' = data /\ pos' = pos /\ item' = item
          /\ log' = log
      BY <2>4 DEF DequeueCasWins
    <3>3. pc' = [pc EXCEPT ![c] = "read"] /\ pc[c] = "cas"
      BY <2>4 DEF DequeueCasWins
    <3> QED BY <3>1, <3>2, <3>3
  <2>5. CASE DequeueCasFails(c) BY <2>5 DEF DequeueCasFails
  <2>6. CASE DequeueRead(c) BY <2>6 DEF DequeueRead
  <2>7. CASE DequeueRelease(c) BY <2>7 DEF DequeueRelease
  <2> QED BY <1>3, <2>0, <2>1, <2>2, <2>3, <2>4, <2>5, <2>6, <2>7 DEF DequeueLoop
<1>4. ASSUME NEW o \in Observers, ObserverLoadEnqueuePos(o)
      PROVE  TypeOK' /\ PcOK'
  BY <1>4 DEF ObserverLoadEnqueuePos
<1>5. ASSUME NEW o \in Observers, ObserverReturns(o)
      PROVE  TypeOK' /\ PcOK'
  BY <1>5 DEF ObserverReturns
<1>6. CASE UNCHANGED vars
  BY <1>6 DEF vars
<1> QED
  BY <1>1, <1>2, <1>3, <1>4, <1>5, <1>6 DEF Next, EmptyReturns, SizeReturns

(* Every variable keeps its type, whatever the number of threads. *)
THEOREM TypeCorrect == Spec => []TypeOK
<1>1. TypeOK /\ PcOK /\ [Next]_vars => (TypeOK /\ PcOK)'
  BY TypeStep
<1> QED BY TypeInit, <1>1, PTL DEF Spec

-----------------------------------------------------------------------------
(* The inductive invariant *)

(* The same, for two different tickets in any order. *)
LEMMA SlotsDistinct ==
  \A j, k \in Nat :
    j # k /\ j < k + MaxSize /\ k < j + MaxSize => SlotOf(j) # SlotOf(k)
<1> SUFFICES ASSUME NEW j \in Nat, NEW k \in Nat,
                    j # k, j < k + MaxSize, k < j + MaxSize
             PROVE  SlotOf(j) # SlotOf(k)
  OBVIOUS
<1>1. CASE j < k
  <2>1. k - j < MaxSize BY SizeAssumption
  <2> QED BY <1>1, <2>1, SlotsDiffer
<1>2. CASE k < j
  <2>1. j - k < MaxSize BY SizeAssumption
  <2> QED BY <1>2, <2>1, SlotsDiffer
<1> QED BY <1>1, <1>2

LEMMA InvInit == Init => IInv
<1> SUFFICES ASSUME Init PROVE IInv OBVIOUS
<1>1. TypeOK /\ PcOK BY TypeInit
<1>2. CountersOK BY SizeAssumption DEF Init, CountersOK
<1>3. PositionsOK /\ WritersOK /\ ReadersOK
  BY DEF Init, PositionsOK, WritersOK, ReadersOK, Writing, Reading, Threads
<1>4. QueuedOK BY SizeAssumption DEF Init, QueuedOK, Queued
<1>5. RoomOK
  <2> SUFFICES ASSUME NEW k \in 0 .. MaxSize - 1 PROVE SlotOf(k) = k
    BY SizeAssumption DEF Init, RoomOK, Room, Slots
  <2> QED BY SizeAssumption, ModSmall DEF SlotOf
<1> QED BY <1>1, <1>2, <1>3, <1>4, <1>5 DEF IInv

(* What a step does that neither claims, fills, empties nor gives back a    *)
(* slot: threads outside their critical section move and reload.            *)
OutsideStep ==
  /\ UNCHANGED <<shared, log>>
  /\ \A p \in Producers :
       /\ Writing(p) => pc'[p] = pc[p] /\ pos'[p] = pos[p] /\ item'[p] = item[p]
       /\ ~Writing(p) => pc'[p] \in {"idle", "loadSeq", "cas"}
       /\ pos'[p] \in {pos[p], mEnqueuePos}
       /\ pc'[p] = "cas" /\ pos'[p] = mEnqueuePos => sequence[SlotOf(pos'[p])] = pos'[p]
  /\ \A c \in Consumers :
       /\ Reading(c) => pc'[c] = pc[c] /\ pos'[c] = pos[c]
       /\ ~Reading(c) => pc'[c] \in {"idle", "loadSeq", "cas"}
       /\ item'[c] = item[c]
       /\ pos'[c] \in {pos[c], mDequeuePos}
       /\ pc'[c] = "cas" /\ pos'[c] = mDequeuePos => sequence[SlotOf(pos'[c])] = pos'[c] + 1

LEMMA OutsideSteps ==
  ASSUME IInv, [Next]_vars
  PROVE  \/ OutsideStep
         \/ \E p \in Producers : EnqueueCasWins(p) \/ EnqueueWrite(p) \/ EnqueuePublish(p)
         \/ \E c \in Consumers : DequeueCasWins(c) \/ DequeueRead(c) \/ DequeueRelease(c)
<1> USE ThreadsAssumption
    DEF IInv, TypeOK, PcOK, PositionsOK, Threads, Writing, Reading, OutsideStep,
        shared, local, history, GoTo, SetPos
<1>1. ASSUME NEW p \in Producers, NEW v \in Values, EnqueueCall(p, v)
      PROVE  OutsideStep
  BY <1>1 DEF EnqueueCall
<1>2. ASSUME NEW p \in Producers, EnqueueSlotReady(p) PROVE OutsideStep
  BY <1>2 DEF EnqueueSlotReady
<1>3. ASSUME NEW p \in Producers, EnqueueFails(p) PROVE OutsideStep
  BY <1>3 DEF EnqueueFails
<1>4. ASSUME NEW p \in Producers, EnqueueReload(p) PROVE OutsideStep
  BY <1>4 DEF EnqueueReload
<1>5. ASSUME NEW p \in Producers, EnqueueCasFails(p) PROVE OutsideStep
  BY <1>5 DEF EnqueueCasFails
<1>6. ASSUME NEW c \in Consumers, DequeueCall(c) PROVE OutsideStep
  BY <1>6 DEF DequeueCall
<1>7. ASSUME NEW c \in Consumers, DequeueSlotReady(c) PROVE OutsideStep
  BY <1>7 DEF DequeueSlotReady
<1>8. ASSUME NEW c \in Consumers, DequeueFails(c) PROVE OutsideStep
  BY <1>8 DEF DequeueFails
<1>9. ASSUME NEW c \in Consumers, DequeueReload(c) PROVE OutsideStep
  BY <1>9 DEF DequeueReload
<1>10. ASSUME NEW c \in Consumers, DequeueCasFails(c) PROVE OutsideStep
  BY <1>10 DEF DequeueCasFails
<1>11. ASSUME NEW o \in Observers, ObserverLoadEnqueuePos(o) PROVE OutsideStep
  BY <1>11 DEF ObserverLoadEnqueuePos
<1>12. ASSUME NEW o \in Observers, ObserverReturns(o) PROVE OutsideStep
  BY <1>12 DEF ObserverReturns
<1>13. CASE UNCHANGED vars
  BY <1>13 DEF vars
<1> HIDE DEF IInv, TypeOK, PcOK, PositionsOK, OutsideStep
<1> QED
  BY <1>1, <1>2, <1>3, <1>4, <1>5, <1>6, <1>7, <1>8, <1>9, <1>10, <1>11, <1>12, <1>13
     DEF Next, EnqueueLoop, DequeueLoop, EmptyReturns, SizeReturns

LEMMA OutsideStepInv ==
  ASSUME IInv, OutsideStep, TypeOK', PcOK'
  PROVE  IInv'
<1> USE SizeAssumption DEF IInv, OutsideStep, shared
<1>1. CountersOK' BY DEF CountersOK
<1>2. PositionsOK' BY DEF PositionsOK, TypeOK, PcOK, Writing, Reading
<1>3. WritersOK'
  BY DEF WritersOK, Writing, Queued, PcOK
<1>4. ReadersOK'
  BY DEF ReadersOK, Reading, PcOK
<1>5. QueuedOK' BY DEF QueuedOK, Queued, Writing
<1>6. RoomOK' BY DEF RoomOK, Room, Reading
<1> QED BY <1>1, <1>2, <1>3, <1>4, <1>5, <1>6

LEMMA EnqueueCasWinsInv ==
  ASSUME IInv, MaxSize >= 2, TypeOK', PcOK', NEW p \in Producers, EnqueueCasWins(p)
  PROVE  IInv'
<1> USE SizeAssumption DEF IInv, TypeOK, PcOK, Threads, GoTo
<1>1. /\ pc[p] = "cas" /\ pos[p] = mEnqueuePos /\ mEnqueuePos' = mEnqueuePos + 1
      /\ pc' = [pc EXCEPT ![p] = "write"] /\ log' = Append(log, item[p])
      /\ UNCHANGED <<mDequeuePos, sequence, data, pos, item>>
  BY DEF EnqueueCasWins
<1>2. sequence[SlotOf(mEnqueuePos)] = mEnqueuePos
  BY <1>1 DEF PositionsOK
<1>3. mEnqueuePos < mDequeuePos + MaxSize
  <2> SUFFICES ASSUME mEnqueuePos = mDequeuePos + MaxSize PROVE FALSE
    BY DEF CountersOK
  <2>1. SlotOf(mEnqueuePos) = SlotOf(mDequeuePos) BY SlotOfNextLap
  <2>2. mDequeuePos \in Queued BY DEF Queued
  <2>3. sequence[SlotOf(mDequeuePos)] \in {mDequeuePos, mDequeuePos + 1}
    <3>1. CASE \E q \in Producers : Writing(q) /\ pos[q] = mDequeuePos
      BY <3>1 DEF WritersOK
    <3>2. CASE sequence[SlotOf(mDequeuePos)] = mDequeuePos + 1
      BY <3>2
    <3> QED BY <2>2, <3>1, <3>2 DEF QueuedOK
  <2> QED BY <1>2, <2>1, <2>3
<1>4. \A k \in 1 .. mEnqueuePos : log'[k] = log[k]
  BY <1>1 DEF CountersOK
<1>5. log'[mEnqueuePos + 1] = item[p] /\ Len(log') = mEnqueuePos + 1
  BY <1>1 DEF CountersOK
<1>6. CountersOK' BY <1>1, <1>3, <1>5 DEF CountersOK
<1>7. PositionsOK' BY <1>1, <1>2, <1>3, ThreadsAssumption DEF PositionsOK
<1>8. WritersOK' BY <1>1, <1>2, <1>4, <1>5, <1>6, ThreadsAssumption
  DEF WritersOK, Writing, Queued, CountersOK
<1>9. ReadersOK'
  <2>1. ASSUME NEW c \in Consumers, Reading(c)
        PROVE  pos[c] + MaxSize >= mEnqueuePos + 1
    <3>0. /\ pos[c] \in Nat /\ pos[c] + MaxSize >= mEnqueuePos
          /\ sequence[SlotOf(pos[c])] = pos[c] + 1
      BY <2>1 DEF ReadersOK
    <3>1. ASSUME pos[c] + MaxSize = mEnqueuePos PROVE FALSE
      <4>1. SlotOf(pos[c]) = SlotOf(mEnqueuePos) BY <3>0, <3>1, SlotOfNextLap
      <4> QED BY <1>2, <3>0, <3>1, <4>1
    <3>2. mEnqueuePos \in Nat OBVIOUS
    <3> HIDE DEF IInv, TypeOK, PcOK
    <3> QED BY <3>0, <3>1, <3>2
  <2>2. \A c \in Consumers : Reading(c)' <=> Reading(c)
    BY <1>1, ThreadsAssumption DEF Reading
  <2> QED BY <1>1, <1>4, <2>1, <2>2, ThreadsAssumption DEF ReadersOK, Reading, CountersOK
<1>10. QueuedOK'
  <2> SUFFICES ASSUME NEW k \in Queued'
               PROVE  \/ \E q \in Producers : Writing(q)' /\ pos'[q] = k
                      \/ sequence'[SlotOf(k)] = k + 1 /\ data'[SlotOf(k)] = log'[k + 1]
    BY DEF QueuedOK
  <2>1. CASE k = mEnqueuePos BY <1>1, <2>1 DEF Writing
  <2>2. CASE k \in Queued
    <3>1. CASE \E q \in Producers : Writing(q) /\ pos[q] = k
      BY <1>1, <3>1 DEF Writing
    <3>2. CASE sequence[SlotOf(k)] = k + 1 /\ data[SlotOf(k)] = log[k + 1]
      <4>1. k + 1 \in 1 .. mEnqueuePos BY <2>2 DEF Queued
      <4> QED BY <1>1, <1>4, <3>2, <4>1
    <3> QED BY <2>2, <3>1, <3>2 DEF QueuedOK
  <2> QED BY <1>1, <2>1, <2>2 DEF Queued, CountersOK
<1>11. RoomOK'
  BY <1>1, ThreadsAssumption DEF RoomOK, Room, Reading
<1> QED BY <1>6, <1>7, <1>8, <1>9, <1>10, <1>11

LEMMA EnqueueWriteInv ==
  ASSUME IInv, TypeOK', PcOK', NEW p \in Producers, EnqueueWrite(p)
  PROVE  IInv'
<1> USE SizeAssumption DEF IInv, TypeOK, PcOK, Threads, GoTo
<1>1. /\ pc[p] = "write" /\ pc' = [pc EXCEPT ![p] = "publish"]
      /\ data' = [data EXCEPT ![SlotOf(pos[p])] = item[p]]
      /\ UNCHANGED <<mEnqueuePos, mDequeuePos, sequence, pos, item, log>>
  BY DEF EnqueueWrite, history
<1>2. Writing(p) /\ pos[p] \in Queued /\ sequence[SlotOf(pos[p])] = pos[p]
  BY <1>1 DEF WritersOK, Writing
<1>3. SlotOf(pos[p]) \in Slots BY SlotOfTicket
<1>4. \A k \in Nat : SlotOf(k) # SlotOf(pos[p]) => data'[SlotOf(k)] = data[SlotOf(k)]
  BY <1>1, SlotOfTicket
<1>5. CountersOK' BY <1>1 DEF CountersOK
<1>6. PositionsOK' BY <1>1, ThreadsAssumption DEF PositionsOK
<1>7. WritersOK'
  <2>1. \A q \in Producers : Writing(q)' <=> Writing(q)
    BY <1>1 DEF Writing
  <2>2. ASSUME NEW q \in Producers, q # p, Writing(q)
        PROVE  SlotOf(pos[q]) # SlotOf(pos[p])
    BY <1>2, <2>2, SlotsDistinct DEF WritersOK, Queued, CountersOK
  <2> QED BY <1>1, <1>2, <1>3, <1>4, <2>1, <2>2 DEF WritersOK, Queued
<1>8. ReadersOK'
  <2>1. \A c \in Consumers : Reading(c)' <=> Reading(c)
    BY <1>1, ThreadsAssumption DEF Reading
  <2>2. ASSUME NEW c \in Consumers, Reading(c)
        PROVE  SlotOf(pos[c]) # SlotOf(pos[p])
    BY <1>2, <2>2, SlotsDistinct DEF ReadersOK, Queued
  <2> QED BY <1>1, <1>4, <2>1, <2>2, ThreadsAssumption DEF ReadersOK
<1>9. QueuedOK'
  <2> SUFFICES ASSUME NEW k \in Queued
               PROVE  \/ \E q \in Producers : Writing(q)' /\ pos'[q] = k
                      \/ sequence'[SlotOf(k)] = k + 1 /\ data'[SlotOf(k)] = log'[k + 1]
    BY <1>1 DEF QueuedOK, Queued
  <2>1. CASE k = pos[p] BY <1>1, <2>1 DEF Writing
  <2>2. CASE k # pos[p]
    <3>1. SlotOf(k) # SlotOf(pos[p])
      BY <1>2, <2>2, SlotsDistinct DEF Queued, CountersOK
    <3> QED BY <1>1, <1>4, <3>1 DEF QueuedOK, Queued, Writing
  <2> QED BY <2>1, <2>2
<1>10. RoomOK' BY <1>1, ThreadsAssumption DEF RoomOK, Room, Reading
<1> QED BY <1>5, <1>6, <1>7, <1>8, <1>9, <1>10

LEMMA EnqueuePublishInv ==
  ASSUME IInv, MaxSize >= 2, TypeOK', PcOK', NEW p \in Producers, EnqueuePublish(p)
  PROVE  IInv'
<1> USE SizeAssumption DEF IInv, TypeOK, PcOK, Threads, GoTo
<1>1. /\ pc[p] = "publish" /\ pc' = [pc EXCEPT ![p] = "idle"]
      /\ sequence' = [sequence EXCEPT ![SlotOf(pos[p])] = pos[p] + 1]
      /\ UNCHANGED <<mEnqueuePos, mDequeuePos, data, pos, item, log>>
  BY DEF EnqueuePublish, history
<1>2. /\ Writing(p) /\ pos[p] \in Queued /\ sequence[SlotOf(pos[p])] = pos[p]
      /\ log[pos[p] + 1] = item[p] /\ data[SlotOf(pos[p])] = item[p]
  BY <1>1 DEF WritersOK, Writing
<1>3. SlotOf(pos[p]) \in Slots BY SlotOfTicket
<1>4. \A k \in Nat : SlotOf(k) # SlotOf(pos[p]) => sequence'[SlotOf(k)] = sequence[SlotOf(k)]
  BY <1>1, SlotOfTicket
<1>5. sequence'[SlotOf(pos[p])] = pos[p] + 1
  BY <1>1, <1>3
<1>6. CountersOK' BY <1>1 DEF CountersOK
<1>7. PositionsOK'
  <2>1. ASSUME NEW q \in Producers
        PROVE  /\ pos[q] <= mEnqueuePos
               /\ pos[q] < mEnqueuePos => sequence'[SlotOf(pos[q])] >= pos[q]
               /\ pc'[q] = "cas" /\ pos[q] = mEnqueuePos => sequence'[SlotOf(pos[q])] = pos[q]
    <3>1. CASE SlotOf(pos[q]) = SlotOf(pos[p])
      BY <1>1, <1>2, <1>5, <3>1 DEF PositionsOK, Queued
    <3>2. CASE SlotOf(pos[q]) # SlotOf(pos[p])
      BY <1>1, <1>4, <3>2 DEF PositionsOK
    <3> QED BY <3>1, <3>2
  <2>2. ASSUME NEW c \in Consumers
        PROVE  /\ pos[c] <= mDequeuePos
               /\ pos[c] < mDequeuePos => sequence'[SlotOf(pos[c])] >= pos[c] + 1
               /\ pc'[c] = "cas" /\ pos[c] = mDequeuePos
                    => sequence'[SlotOf(pos[c])] = pos[c] + 1
    <3>1. CASE SlotOf(pos[c]) = SlotOf(pos[p])
      <4>1. pos[c] < mDequeuePos => pos[p] >= pos[c] + 1
        BY <1>2, <3>1 DEF Queued
      <4>2. pos[c] = mDequeuePos => pos[p] = mDequeuePos
        BY <1>2, <3>1, SlotsDistinct DEF Queued, CountersOK
      <4> QED BY <1>1, <1>2, <1>5, <3>1, <4>1, <4>2, ThreadsAssumption DEF PositionsOK
    <3>2. CASE SlotOf(pos[c]) # SlotOf(pos[p])
      BY <1>1, <1>4, <3>2, ThreadsAssumption DEF PositionsOK
    <3> QED BY <3>1, <3>2
  <2> QED BY <1>1, <2>1, <2>2 DEF PositionsOK
<1>8. WritersOK'
  <2>1. \A q \in Producers : Writing(q)' <=> Writing(q) /\ q # p
    BY <1>1 DEF Writing
  <2>2. ASSUME NEW q \in Producers, q # p, Writing(q)
        PROVE  SlotOf(pos[q]) # SlotOf(pos[p])
    BY <1>2, <2>2, SlotsDistinct DEF WritersOK, Queued, CountersOK
  <2> QED BY <1>1, <1>4, <2>1, <2>2 DEF WritersOK, Queued
<1>9. ReadersOK'
  <2>1. \A c \in Consumers : Reading(c)' <=> Reading(c)
    BY <1>1, ThreadsAssumption DEF Reading
  <2>2. ASSUME NEW c \in Consumers, Reading(c)
        PROVE  SlotOf(pos[c]) # SlotOf(pos[p])
    BY <1>2, <2>2, SlotsDistinct DEF ReadersOK, Queued
  <2> QED BY <1>1, <1>4, <2>1, <2>2, ThreadsAssumption DEF ReadersOK
<1>10. QueuedOK'
  <2> SUFFICES ASSUME NEW k \in Queued
               PROVE  \/ \E q \in Producers : Writing(q)' /\ pos'[q] = k
                      \/ sequence'[SlotOf(k)] = k + 1 /\ data'[SlotOf(k)] = log'[k + 1]
    BY <1>1 DEF QueuedOK, Queued
  <2>1. CASE k = pos[p] BY <1>1, <1>2, <1>5, <2>1
  <2>2. CASE k # pos[p]
    <3>1. SlotOf(k) # SlotOf(pos[p])
      BY <1>2, <2>2, SlotsDistinct DEF Queued, CountersOK
    <3>2. CASE \E q \in Producers : Writing(q) /\ pos[q] = k
      BY <1>1, <2>2, <3>2 DEF Writing
    <3>3. CASE sequence[SlotOf(k)] = k + 1 /\ data[SlotOf(k)] = log[k + 1]
      BY <1>1, <1>4, <3>1, <3>3 DEF Queued
    <3> QED BY <3>2, <3>3 DEF QueuedOK
  <2> QED BY <2>1, <2>2
<1>11. RoomOK'
  <2> SUFFICES ASSUME NEW k \in Room
               PROVE  \/ \E c \in Consumers : Reading(c)' /\ pos'[c] + MaxSize = k
                      \/ sequence'[SlotOf(k)] = k
    BY <1>1 DEF RoomOK, Room
  <2>1. SlotOf(k) # SlotOf(pos[p])
    BY <1>2, SlotsDistinct DEF Room, Queued
  <2> QED BY <1>1, <1>4, <2>1, ThreadsAssumption DEF RoomOK, Room, Reading
<1> QED BY <1>6, <1>7, <1>8, <1>9, <1>10, <1>11

LEMMA DequeueCasWinsInv ==
  ASSUME IInv, TypeOK', PcOK', NEW c \in Consumers, DequeueCasWins(c)
  PROVE  IInv'
<1> USE SizeAssumption DEF IInv, TypeOK, PcOK, Threads, GoTo
<1>1. /\ pc[c] = "cas" /\ pos[c] = mDequeuePos /\ mDequeuePos' = mDequeuePos + 1
      /\ pc' = [pc EXCEPT ![c] = "read"]
      /\ UNCHANGED <<mEnqueuePos, sequence, data, pos, item, log>>
  BY DEF DequeueCasWins
<1>2. sequence[SlotOf(mDequeuePos)] = mDequeuePos + 1
  BY <1>1 DEF PositionsOK
<1>3. mDequeuePos < mEnqueuePos
  <2> SUFFICES ASSUME mDequeuePos = mEnqueuePos PROVE FALSE
    BY DEF CountersOK
  <2>1. mDequeuePos \in Room BY DEF Room
  <2>2. CASE \E d \in Consumers : Reading(d) /\ pos[d] + MaxSize = mDequeuePos
    <3>1. PICK d \in Consumers : Reading(d) /\ pos[d] + MaxSize = mDequeuePos BY <2>2
    <3>2. sequence[SlotOf(pos[d])] = pos[d] + 1 /\ pos[d] \in Nat BY <3>1 DEF ReadersOK
    <3>3. SlotOf(mDequeuePos) = SlotOf(pos[d]) BY <3>1, <3>2, SlotOfNextLap
    <3> QED BY <1>2, <3>1, <3>2, <3>3
  <2>3. CASE sequence[SlotOf(mDequeuePos)] = mDequeuePos
    BY <1>2, <2>3
  <2> QED BY <2>1, <2>2, <2>3 DEF RoomOK
<1>4. ~ \E p \in Producers : Writing(p) /\ pos[p] = mDequeuePos
  BY <1>2 DEF WritersOK
<1>5. data[SlotOf(mDequeuePos)] = log[mDequeuePos + 1]
  <2>1. mDequeuePos \in Queued BY <1>3 DEF Queued
  <2> QED BY <1>4, <2>1 DEF QueuedOK
<1>6. CountersOK' BY <1>1, <1>3 DEF CountersOK
<1>7. PositionsOK' BY <1>1, <1>2, ThreadsAssumption DEF PositionsOK
<1>8. WritersOK'
  BY <1>1, <1>4, ThreadsAssumption DEF WritersOK, Writing, Queued
<1>9. ReadersOK'
  BY <1>1, <1>2, <1>3, <1>5, <1>6 DEF ReadersOK, Reading, CountersOK
<1>10. QueuedOK'
  BY <1>1, ThreadsAssumption DEF QueuedOK, Queued, Writing
<1>11. RoomOK'
  <2> SUFFICES ASSUME NEW k \in Room'
               PROVE  \/ \E d \in Consumers : Reading(d)' /\ pos'[d] + MaxSize = k
                      \/ sequence'[SlotOf(k)] = k
    BY DEF RoomOK
  <2>1. CASE k = mDequeuePos + MaxSize BY <1>1, <2>1 DEF Reading
  <2>2. CASE k \in Room BY <1>1, <2>2 DEF RoomOK, Reading
  <2> QED BY <1>1, <2>1, <2>2 DEF Room
<1> QED BY <1>6, <1>7, <1>8, <1>9, <1>10, <1>11

LEMMA DequeueReadInv ==
  ASSUME IInv, TypeOK', PcOK', NEW c \in Consumers, DequeueRead(c)
  PROVE  IInv'
<1> USE SizeAssumption DEF IInv, TypeOK, PcOK, Threads, GoTo
<1>1. /\ pc[c] = "read" /\ pc' = [pc EXCEPT ![c] = "release"]
      /\ item' = [item EXCEPT ![c] = data[SlotOf(pos[c])]]
      /\ UNCHANGED <<mEnqueuePos, mDequeuePos, sequence, data, pos, log>>
  BY DEF DequeueRead, history, shared
<1>2. CountersOK' BY <1>1 DEF CountersOK
<1>3. PositionsOK' BY <1>1, ThreadsAssumption DEF PositionsOK
<1>4. WritersOK' BY <1>1, ThreadsAssumption DEF WritersOK, Writing, Queued
<1>5. ReadersOK' BY <1>1 DEF ReadersOK, Reading
<1>6. QueuedOK' BY <1>1, ThreadsAssumption DEF QueuedOK, Queued, Writing
<1>7. RoomOK' BY <1>1 DEF RoomOK, Room, Reading
<1> QED BY <1>2, <1>3, <1>4, <1>5, <1>6, <1>7

LEMMA DequeueReleaseInv ==
  ASSUME IInv, MaxSize >= 2, TypeOK', PcOK', NEW c \in Consumers, DequeueRelease(c)
  PROVE  IInv'
<1> USE SizeAssumption DEF IInv, TypeOK, PcOK, Threads, GoTo
<1>1. /\ pc[c] = "release" /\ pc' = [pc EXCEPT ![c] = "idle"]
      /\ sequence' = [sequence EXCEPT ![SlotOf(pos[c])] = pos[c] + MaxSize]
      /\ UNCHANGED <<mEnqueuePos, mDequeuePos, data, pos, item, log>>
  BY DEF DequeueRelease, history
<1>2. /\ Reading(c) /\ pos[c] \in Nat /\ pos[c] < mDequeuePos
      /\ pos[c] + MaxSize >= mEnqueuePos /\ sequence[SlotOf(pos[c])] = pos[c] + 1
  BY <1>1 DEF ReadersOK, Reading
<1>3. SlotOf(pos[c]) \in Slots BY SlotOfTicket
<1>4. \A k \in Nat : SlotOf(k) # SlotOf(pos[c]) => sequence'[SlotOf(k)] = sequence[SlotOf(k)]
  BY <1>1, SlotOfTicket
<1>5. sequence'[SlotOf(pos[c])] = pos[c] + MaxSize
  BY <1>1, <1>3
<1>6. CountersOK' BY <1>1 DEF CountersOK
<1>7. PositionsOK'
  <2>1. ASSUME NEW p \in Producers
        PROVE  /\ pos[p] <= mEnqueuePos
               /\ pos[p] < mEnqueuePos => sequence'[SlotOf(pos[p])] >= pos[p]
               /\ pc'[p] = "cas" /\ pos[p] = mEnqueuePos => sequence'[SlotOf(pos[p])] = pos[p]
    <3>1. CASE SlotOf(pos[p]) = SlotOf(pos[c])
      <4>1. pos[p] < mEnqueuePos => pos[p] <= pos[c] + 1
        BY <1>2, <3>1 DEF PositionsOK
      <4>2. ~ (pc[p] = "cas" /\ pos[p] = mEnqueuePos)
        BY <1>2, <3>1, SlotsDistinct DEF PositionsOK, CountersOK
      <4> QED BY <1>1, <1>2, <1>5, <3>1, <4>1, <4>2, ThreadsAssumption DEF PositionsOK
    <3>2. CASE SlotOf(pos[p]) # SlotOf(pos[c])
      BY <1>1, <1>4, <3>2, ThreadsAssumption DEF PositionsOK
    <3> QED BY <3>1, <3>2
  <2>2. ASSUME NEW d \in Consumers
        PROVE  /\ pos[d] <= mDequeuePos
               /\ pos[d] < mDequeuePos => sequence'[SlotOf(pos[d])] >= pos[d] + 1
               /\ pc'[d] = "cas" /\ pos[d] = mDequeuePos
                    => sequence'[SlotOf(pos[d])] = pos[d] + 1
    <3>1. CASE SlotOf(pos[d]) = SlotOf(pos[c])
      <4>1. pos[d] < mDequeuePos => pos[d] <= pos[c]
        BY <1>2, <3>1 DEF PositionsOK
      <4>2. ~ (pc[d] = "cas" /\ pos[d] = mDequeuePos)
        BY <1>2, <3>1 DEF PositionsOK
      <4> QED BY <1>1, <1>2, <1>5, <3>1, <4>1, <4>2 DEF PositionsOK
    <3>2. CASE SlotOf(pos[d]) # SlotOf(pos[c])
      BY <1>1, <1>4, <3>2 DEF PositionsOK
    <3> QED BY <3>1, <3>2
  <2> QED BY <1>1, <2>1, <2>2 DEF PositionsOK
<1>8. WritersOK'
  <2>1. \A p \in Producers : Writing(p)' <=> Writing(p)
    BY <1>1, ThreadsAssumption DEF Writing
  <2>2. ASSUME NEW p \in Producers, Writing(p)
        PROVE  SlotOf(pos[p]) # SlotOf(pos[c])
    BY <1>2, <2>2, SlotsDistinct DEF WritersOK, Queued
  <2> QED BY <1>1, <1>4, <2>1, <2>2, ThreadsAssumption DEF WritersOK, Queued
<1>9. ReadersOK'
  <2>1. \A d \in Consumers : Reading(d)' <=> Reading(d) /\ d # c
    BY <1>1 DEF Reading
  <2>2. ASSUME NEW d \in Consumers, d # c, Reading(d)
        PROVE  SlotOf(pos[d]) # SlotOf(pos[c])
    BY <1>2, <2>2, SlotsDistinct DEF ReadersOK, CountersOK
  <2> QED BY <1>1, <1>4, <2>1, <2>2 DEF ReadersOK
<1>10. QueuedOK'
  <2> SUFFICES ASSUME NEW k \in Queued
               PROVE  \/ \E p \in Producers : Writing(p)' /\ pos'[p] = k
                      \/ sequence'[SlotOf(k)] = k + 1 /\ data'[SlotOf(k)] = log'[k + 1]
    BY <1>1 DEF QueuedOK, Queued
  <2>1. SlotOf(k) # SlotOf(pos[c])
    BY <1>2, SlotsDistinct DEF Queued
  <2>2. CASE \E p \in Producers : Writing(p) /\ pos[p] = k
    BY <1>1, <2>2, ThreadsAssumption DEF Writing
  <2>3. CASE sequence[SlotOf(k)] = k + 1 /\ data[SlotOf(k)] = log[k + 1]
    BY <1>1, <1>4, <2>1, <2>3 DEF Queued
  <2> QED BY <2>2, <2>3 DEF QueuedOK
<1>11. RoomOK'
  <2> SUFFICES ASSUME NEW k \in Room
               PROVE  \/ \E d \in Consumers : Reading(d)' /\ pos'[d] + MaxSize = k
                      \/ sequence'[SlotOf(k)] = k
    BY <1>1 DEF RoomOK, Room
  <2>1. CASE k = pos[c] + MaxSize
    BY <1>2, <1>5, <2>1, SlotOfNextLap
  <2>2. CASE k # pos[c] + MaxSize
    <3>1. SlotOf(k) # SlotOf(pos[c] + MaxSize)
      <4>1. /\ k \in Nat /\ mEnqueuePos <= k /\ k < mDequeuePos + MaxSize
            /\ mDequeuePos <= mEnqueuePos /\ MaxSize \in Nat
            /\ mEnqueuePos \in Nat /\ mDequeuePos \in Nat
        BY DEF Room, CountersOK
      <4> HIDE DEF IInv, TypeOK, PcOK
      <4> QED BY <1>2, <2>2, <4>1, SlotsDistinct
    <3>2. SlotOf(k) # SlotOf(pos[c]) BY <1>2, <3>1, SlotOfNextLap
    <3> QED BY <1>1, <1>4, <2>2, <3>2 DEF RoomOK, Room, Reading
  <2> QED BY <2>1, <2>2
<1> QED BY <1>6, <1>7, <1>8, <1>9, <1>10, <1>11

LEMMA InvStep ==
  ASSUME MaxSize >= 2
  PROVE  IInv /\ [Next]_vars => IInv'
<1> SUFFICES ASSUME IInv, [Next]_vars PROVE IInv' OBVIOUS
<1>1. TypeOK' /\ PcOK' BY TypeStep DEF IInv
<1> QED
  BY <1>1, OutsideSteps, OutsideStepInv, EnqueueCasWinsInv, EnqueueWriteInv,
     EnqueuePublishInv, DequeueCasWinsInv, DequeueReadInv, DequeueReleaseInv

THEOREM Invariance ==
  ASSUME MaxSize >= 2
  PROVE  Spec => []IInv
<1>1. IInv /\ [Next]_vars => IInv' BY InvStep
<1> QED BY InvInit, <1>1, PTL DEF Spec

(* No slot is written or read by two threads at a time, whatever the number *)
(* of threads: the copy of the value in lines 271 and 398 needs no lock.    *)
THEOREM SlotsAreExclusive ==
  ASSUME MaxSize >= 2
  PROVE  Spec => []SlotExclusive
<1>1. IInv => SlotExclusive
  <2> SUFFICES ASSUME IInv,
                      NEW t \in Producers \cup Consumers, NEW u \in Producers \cup Consumers,
                      t # u, Writing(t) \/ Reading(t), Writing(u) \/ Reading(u)
               PROVE  SlotOf(pos[t]) # SlotOf(pos[u])
    BY DEF SlotExclusive
  <2> USE SizeAssumption, SlotsDistinct DEF IInv, TypeOK, Threads
  <2>1. ASSUME NEW p \in Producers, NEW q \in Producers, p # q, Writing(p), Writing(q)
        PROVE  SlotOf(pos[p]) # SlotOf(pos[q])
    BY <2>1 DEF WritersOK, Queued, CountersOK
  <2>2. ASSUME NEW c \in Consumers, NEW d \in Consumers, c # d, Reading(c), Reading(d)
        PROVE  SlotOf(pos[c]) # SlotOf(pos[d])
    BY <2>2 DEF ReadersOK, CountersOK
  <2>3. ASSUME NEW p \in Producers, NEW c \in Consumers, Writing(p), Reading(c)
        PROVE  SlotOf(pos[p]) # SlotOf(pos[c])
    BY <2>3 DEF WritersOK, ReadersOK, Queued
  <2>4. /\ \A p \in Producers : ~Reading(p)
        /\ \A c \in Consumers : ~Writing(c)
    BY DEF PcOK, Reading, Writing
  <2> QED BY <2>1, <2>2, <2>3, <2>4
<1> QED BY Invariance, <1>1, PTL

-----------------------------------------------------------------------------
(* enqueue() never reports a full queue, nor dequeue() an empty one, unless *)
(* it is, or another thread is in the middle of using the slot it needs.    *)
THEOREM FailuresHaveACause ==
  ASSUME MaxSize >= 2
  PROVE  Spec => FailureHasACause
<1>1. ASSUME IInv, NEW p \in Producers, EnqueueFails(p)
      PROVE  \/ mEnqueuePos - mDequeuePos = MaxSize
             \/ \E c \in Consumers : Reading(c) /\ pos[c] + MaxSize = pos[p]
  <2>1. /\ pos[p] \in Nat /\ mEnqueuePos \in Nat /\ mDequeuePos \in Nat
        /\ MaxSize \in Nat /\ sequence[SlotOf(pos[p])] \in Nat
    BY <1>1, SizeAssumption, SlotOfTicket DEF IInv, TypeOK, Threads
  <2>2. /\ sequence[SlotOf(pos[p])] < pos[p] /\ pos[p] <= mEnqueuePos
        /\ pos[p] < mEnqueuePos => sequence[SlotOf(pos[p])] >= pos[p]
    BY <1>1 DEF IInv, PositionsOK, EnqueueFails
  <2>3. pos[p] = mEnqueuePos BY <2>1, <2>2
  <2>4. ASSUME mEnqueuePos < mDequeuePos + MaxSize
        PROVE  \E c \in Consumers : Reading(c) /\ pos[c] + MaxSize = pos[p]
    <3>1. mEnqueuePos \in Room BY <2>1, <2>4 DEF Room
    <3>2. sequence[SlotOf(mEnqueuePos)] # mEnqueuePos BY <2>1, <2>2, <2>3
    <3> QED BY <1>1, <2>3, <3>1, <3>2 DEF IInv, RoomOK
  <2>5. mEnqueuePos <= mDequeuePos + MaxSize BY <1>1 DEF IInv, CountersOK
  <2> QED BY <2>1, <2>4, <2>5
<1>2. ASSUME IInv, NEW c \in Consumers, DequeueFails(c)
      PROVE  \/ IsEmpty
             \/ \E p \in Producers : Writing(p) /\ pos[p] = pos[c]
  <2>1. /\ pos[c] \in Nat /\ mEnqueuePos \in Nat /\ mDequeuePos \in Nat
        /\ sequence[SlotOf(pos[c])] \in Nat
    BY <1>2, SlotOfTicket DEF IInv, TypeOK, Threads
  <2>2. /\ sequence[SlotOf(pos[c])] < pos[c] + 1 /\ pos[c] <= mDequeuePos
        /\ pos[c] < mDequeuePos => sequence[SlotOf(pos[c])] >= pos[c] + 1
    BY <1>2 DEF IInv, PositionsOK, DequeueFails
  <2>3. pos[c] = mDequeuePos BY <2>1, <2>2
  <2>4. ASSUME mDequeuePos < mEnqueuePos
        PROVE  \E p \in Producers : Writing(p) /\ pos[p] = pos[c]
    <3>1. mDequeuePos \in Queued BY <2>1, <2>4 DEF Queued
    <3>2. sequence[SlotOf(mDequeuePos)] # mDequeuePos + 1 BY <2>1, <2>2, <2>3
    <3> QED BY <1>2, <2>3, <3>1, <3>2 DEF IInv, QueuedOK
  <2>5. mDequeuePos <= mEnqueuePos BY <1>2 DEF IInv, CountersOK
  <2> QED BY <2>1, <2>4, <2>5 DEF IsEmpty
<1> DEFINE A == /\ \A p \in Producers : EnqueueFails(p) =>
                      \/ mEnqueuePos - mDequeuePos = MaxSize
                      \/ \E c \in Consumers : Reading(c) /\ pos[c] + MaxSize = pos[p]
                /\ \A c \in Consumers : DequeueFails(c) =>
                      \/ IsEmpty
                      \/ \E p \in Producers : Writing(p) /\ pos[p] = pos[c]
<1>3. IInv /\ [Next]_vars => [A]_vars BY <1>1, <1>2
<1> HIDE DEF A
<1>4. Spec => [][A]_vars BY Invariance, <1>3, PTL DEF Spec
<1> QED BY <1>4 DEF A, FailureHasACause

-----------------------------------------------------------------------------
(* The observers.  A call that has not seen the queue hold something has    *)
(* seen no step of it: both counters are where its first load found them.   *)
ObserversOK ==
  \A o \in Observers : pc[o] = "loadDeq" =>
    /\ pos[o] <= mEnqueuePos
    /\ \/ "nonempty" \in saw[o]
       \/ pos[o] = mEnqueuePos /\ mEnqueuePos = mDequeuePos

(* What a step of a thread that is no observer leaves of an observer's call. *)
ObserverKept(o) == pc'[o] = pc[o] /\ pos'[o] = pos[o]

(* No step but a won compare-and-swap moves a counter. *)
LEMMA CountersStep ==
  ASSUME TypeOK, PcOK, [Next]_vars,
         ~ \E p \in Producers : EnqueueCasWins(p),
         ~ \E c \in Consumers : DequeueCasWins(c)
  PROVE  /\ mEnqueuePos' = mEnqueuePos /\ mDequeuePos' = mDequeuePos
         /\ \A o \in Observers :
              \/ ObserverKept(o) /\ saw'[o] = saw[o]
              \/ /\ pc'[o] = "loadDeq" /\ pos'[o] = mEnqueuePos
                 /\ saw'[o] = {IF IsEmpty THEN "empty" ELSE "nonempty"}
              \/ pc'[o] = "idle"
<1> DEFINE Kept == /\ mEnqueuePos' = mEnqueuePos /\ mDequeuePos' = mDequeuePos /\ saw' = saw
                   /\ \A o \in Observers : ObserverKept(o)
<1> USE ThreadsAssumption DEF TypeOK, Threads, shared, local, history, GoTo, SetPos, ObserverKept
<1>1. ASSUME NEW p \in Producers, \E v \in Values : EnqueueCall(p, v) PROVE Kept
  BY <1>1 DEF EnqueueCall
<1>2. ASSUME NEW p \in Producers, EnqueueLoop(p) PROVE Kept
  <2>1. CASE EnqueueSlotReady(p) BY <2>1 DEF EnqueueSlotReady
  <2>2. CASE EnqueueFails(p) BY <2>2 DEF EnqueueFails
  <2>3. CASE EnqueueReload(p) BY <2>3 DEF EnqueueReload
  <2>4. CASE EnqueueCasFails(p) BY <2>4 DEF EnqueueCasFails
  <2>5. CASE EnqueueWrite(p) BY <2>5 DEF EnqueueWrite
  <2>6. CASE EnqueuePublish(p) BY <2>6 DEF EnqueuePublish
  <2> QED BY <1>2, <2>1, <2>2, <2>3, <2>4, <2>5, <2>6 DEF EnqueueLoop
<1>3. ASSUME NEW c \in Consumers, DequeueCall(c) \/ DequeueLoop(c) PROVE Kept
  <2>0. CASE DequeueCall(c) BY <2>0 DEF DequeueCall
  <2>1. CASE DequeueSlotReady(c) BY <2>1 DEF DequeueSlotReady
  <2>2. CASE DequeueFails(c) BY <2>2 DEF DequeueFails
  <2>3. CASE DequeueReload(c) BY <2>3 DEF DequeueReload
  <2>4. CASE DequeueCasFails(c) BY <2>4 DEF DequeueCasFails
  <2>5. CASE DequeueRead(c) BY <2>5 DEF DequeueRead
  <2>6. CASE DequeueRelease(c) BY <2>6 DEF DequeueRelease
  <2> QED BY <1>3, <2>0, <2>1, <2>2, <2>3, <2>4, <2>5, <2>6 DEF DequeueLoop
<1>4. ASSUME UNCHANGED vars PROVE Kept
  BY <1>4 DEF vars
<1>5. ASSUME NEW o \in Observers, ObserverLoadEnqueuePos(o)
      PROVE  /\ mEnqueuePos' = mEnqueuePos /\ mDequeuePos' = mDequeuePos
             /\ pc'[o] = "loadDeq" /\ pos'[o] = mEnqueuePos
             /\ saw'[o] = {IF IsEmpty THEN "empty" ELSE "nonempty"}
             /\ \A u \in Observers \ {o} : ObserverKept(u) /\ saw'[u] = saw[u]
  BY <1>5 DEF ObserverLoadEnqueuePos
<1>6. ASSUME NEW o \in Observers, ObserverReturns(o)
      PROVE  /\ mEnqueuePos' = mEnqueuePos /\ mDequeuePos' = mDequeuePos
             /\ pc'[o] = "idle"
             /\ \A u \in Observers \ {o} : ObserverKept(u) /\ saw'[u] = saw[u]
  BY <1>6 DEF ObserverReturns
<1> HIDE DEF ObserverKept, Kept, TypeOK, Threads, shared, local, history
<1>7. Kept \/ \E o \in Observers : ObserverLoadEnqueuePos(o) \/ ObserverReturns(o)
  BY <1>1, <1>2, <1>3, <1>4 DEF Next, EmptyReturns, SizeReturns
<1> QED BY <1>5, <1>6, <1>7 DEF Kept

(* A step that moves a counter shows every running call the queue it leaves. *)
LEMMA MovesAreSeen ==
  ASSUME TypeOK, PcOK, CountersOK',
         \/ \E p \in Producers : EnqueueCasWins(p)
         \/ \E c \in Consumers : DequeueCasWins(c),
         NEW o \in Observers, pc[o] = "loadDeq"
  PROVE  /\ ObserverKept(o)
         /\ saw[o] \subseteq saw'[o]
         /\ \/ /\ mEnqueuePos' = mEnqueuePos + 1 /\ mDequeuePos' = mDequeuePos
               /\ mEnqueuePos' # mDequeuePos' => "nonempty" \in saw'[o]
            \/ /\ mEnqueuePos' = mEnqueuePos /\ mDequeuePos' = mDequeuePos + 1
<1> USE ThreadsAssumption DEF TypeOK, Threads, GoTo, ObserverKept, Witness
<1>1. CASE \E p \in Producers : EnqueueCasWins(p) BY <1>1 DEF EnqueueCasWins
<1>2. CASE \E c \in Consumers : DequeueCasWins(c) BY <1>2 DEF DequeueCasWins
<1> QED BY <1>1, <1>2

LEMMA ObserversStep ==
  ASSUME IInv, IInv', ObserversOK, [Next]_vars
  PROVE  ObserversOK'
<1> SUFFICES ASSUME NEW o \in Observers, pc'[o] = "loadDeq"
             PROVE  /\ pos'[o] <= mEnqueuePos'
                    /\ \/ "nonempty" \in saw'[o]
                       \/ pos'[o] = mEnqueuePos' /\ mEnqueuePos' = mDequeuePos'
  BY DEF ObserversOK
<1> DEFINE Moved == \/ \E p \in Producers : EnqueueCasWins(p)
                    \/ \E c \in Consumers : DequeueCasWins(c)
<1>1. /\ TypeOK /\ PcOK /\ CountersOK'
      /\ mEnqueuePos \in Nat /\ mDequeuePos \in Nat /\ pos[o] \in Nat
      /\ mDequeuePos <= mEnqueuePos /\ mDequeuePos' <= mEnqueuePos'
  BY DEF IInv, TypeOK, CountersOK, Threads
<1>2. pc[o] = "loadDeq" => /\ pos[o] <= mEnqueuePos
                           /\ \/ "nonempty" \in saw[o]
                              \/ pos[o] = mEnqueuePos /\ mEnqueuePos = mDequeuePos
  BY DEF ObserversOK
<1>3. CASE ~Moved
  BY <1>1, <1>2, <1>3, CountersStep DEF ObserverKept, IsEmpty
<1>4. CASE Moved
  <2>1. pc[o] = "loadDeq"
    BY <1>1, <1>4, ThreadsAssumption
       DEF TypeOK, Threads, EnqueueCasWins, DequeueCasWins, GoTo
  <2> HIDE DEF Moved
  <2>2. /\ ObserverKept(o)
        /\ saw[o] \subseteq saw'[o]
        /\ \/ /\ mEnqueuePos' = mEnqueuePos + 1 /\ mDequeuePos' = mDequeuePos
              /\ mEnqueuePos' # mDequeuePos' => "nonempty" \in saw'[o]
           \/ /\ mEnqueuePos' = mEnqueuePos /\ mDequeuePos' = mDequeuePos + 1
    BY <1>1, <1>4, <2>1, MovesAreSeen DEF Moved
  <2> QED BY <1>1, <1>2, <2>1, <2>2 DEF ObserverKept
<1> QED BY <1>3, <1>4

(* empty() and size() take no lock and load the two counters one after the  *)
(* other; a verdict "not empty", and a size below the capacity, are true of *)
(* the call all the same.                                                   *)
THEOREM ObserversBoundBelow ==
  ASSUME MaxSize >= 2
  PROVE  Spec => ObserversAreLowerBounds
<1> DEFINE A == \A o \in Observers :
                  /\ EmptyReturns(o, FALSE) => "nonempty" \in saw[o]
                  /\ \A n \in 0 .. MaxSize - 1 :
                       SizeReturns(o, n) => n <= mEnqueuePos - mDequeuePos
<1>1. Init => ObserversOK BY DEF Init, ObserversOK, Threads
<1>2. IInv /\ IInv' /\ ObserversOK /\ [Next]_vars => ObserversOK' BY ObserversStep
<1>3. IInv /\ ObserversOK => A
  <2> SUFFICES ASSUME IInv, ObserversOK, NEW o \in Observers
               PROVE  /\ EmptyReturns(o, FALSE) => "nonempty" \in saw[o]
                      /\ \A n \in 0 .. MaxSize - 1 :
                           SizeReturns(o, n) => n <= mEnqueuePos - mDequeuePos
    OBVIOUS
  <2>1. /\ mEnqueuePos \in Nat /\ mDequeuePos \in Nat /\ pos[o] \in Nat /\ MaxSize \in Nat
        /\ mDequeuePos <= mEnqueuePos
    BY SizeAssumption DEF IInv, TypeOK, CountersOK, Threads
  <2>2. ObserverReturns(o) => /\ pos[o] <= mEnqueuePos
                              /\ \/ "nonempty" \in saw[o]
                                 \/ pos[o] = mEnqueuePos /\ mEnqueuePos = mDequeuePos
    BY DEF ObserversOK, ObserverReturns
  <2>3. EmptyReturns(o, FALSE) => "nonempty" \in saw[o]
    <3>1. EmptyReturns(o, FALSE) => ObserverReturns(o) /\ pos[o] # mDequeuePos
      BY Zenon DEF EmptyReturns
    <3> QED BY <2>2, <3>1
  <2>4. ASSUME NEW n \in 0 .. MaxSize - 1, SizeReturns(o, n)
        PROVE  n <= mEnqueuePos - mDequeuePos
    BY <2>1, <2>2, <2>4 DEF SizeReturns
  <2> QED BY <2>3, <2>4
<1> HIDE DEF A
<1>4. Spec => [][A]_vars BY Invariance, <1>1, <1>2, <1>3, PTL DEF Spec
<1> QED BY <1>4 DEF A, ObserversAreLowerBounds

-----------------------------------------------------------------------------
(* Refinement of the bounded FIFO *)

LEMMA QueueIsWindow ==
  ASSUME IInv
  PROVE  SubSeq(log, mDequeuePos + 1, mEnqueuePos) = Window(log, mDequeuePos)
  BY DEF IInv, CountersOK, Window

LEMMA FifoInit == Init => Fifo!Init
<1> SUFFICES ASSUME Init PROVE Fifo!Init OBVIOUS
<1>1. SubSeq(log, 1, 0) = << >> BY SubSeqEmpty
<1>2. SubSeq(log, mDequeuePos + 1, mEnqueuePos) = << >> BY <1>1 DEF Init
<1>3. [c \in Consumers |-> HeldBy(c)] = [c \in Consumers |-> NoValue]
  BY DEF Init, HeldBy, Threads
<1>4. [c \in Consumers |-> item[c]] = [c \in Consumers |-> NoValue]
  BY DEF Init
<1> QED BY <1>2, <1>3, <1>4 DEF Fifo!Init

LEMMA FifoStep ==
  ASSUME MaxSize >= 2, IInv, [Next]_vars
  PROVE  [Fifo!Next]_(Fifo!vars)
<1> DEFINE q == SubSeq(log, mDequeuePos + 1, mEnqueuePos)
           held == [c \in Consumers |-> HeldBy(c)]
           out == [c \in Consumers |-> item[c]]
<1>0. IInv' BY InvStep
<1>1. q = Window(log, mDequeuePos) /\ q' = Window(log', mDequeuePos')
  BY <1>0, QueueIsWindow DEF IInv, CountersOK, Window
<1>2. /\ log \in Seq(Values) /\ Len(log) = mEnqueuePos
      /\ mEnqueuePos \in Nat /\ mDequeuePos \in Nat /\ mDequeuePos <= mEnqueuePos
      /\ mDequeuePos \in 0 .. Len(log)
  BY DEF IInv, TypeOK, CountersOK
<1>3. ASSUME UNCHANGED <<log, mEnqueuePos, mDequeuePos>>,
             \A c \in Consumers : item'[c] = item[c] /\ HeldBy(c)' = HeldBy(c)
      PROVE  UNCHANGED Fifo!vars
  BY <1>3 DEF Fifo!vars
<1>4. CASE OutsideStep
  <2>1. \A c \in Consumers : item'[c] = item[c] /\ HeldBy(c)' = HeldBy(c)
    BY <1>4 DEF OutsideStep, HeldBy, Reading, shared
  <2> QED BY <1>3, <1>4, <2>1 DEF OutsideStep, shared
<1>5. ASSUME NEW p \in Producers, EnqueueCasWins(p) PROVE Fifo!Next
  <2> USE ThreadsAssumption DEF IInv, TypeOK, PcOK, Threads, GoTo
  <2>1. /\ pc[p] = "cas" /\ log' = Append(log, item[p]) /\ item[p] \in Values
        /\ pc' = [pc EXCEPT ![p] = "write"]
        /\ mEnqueuePos' = mEnqueuePos + 1
        /\ UNCHANGED <<mDequeuePos, pos, item>>
    BY <1>5 DEF EnqueueCasWins
  <2>2. q' = Append(q, item[p])
    <3> HIDE DEF q, IInv, TypeOK, PcOK
    <3>1. Window(Append(log, item[p]), mDequeuePos)
            = Append(Window(log, mDequeuePos), item[p])
      BY <1>2, <2>1, WindowAppend
    <3> QED BY <1>1, <2>1, <3>1
  <2>3. Len(q) < MaxSize
    <3>1. Len(q) = mEnqueuePos - mDequeuePos BY <1>1, <1>2, WindowProperties
    <3>2. mEnqueuePos + 1 <= mDequeuePos + MaxSize BY <1>0, <2>1 DEF CountersOK
    <3> QED BY <1>2, <3>1, <3>2, SizeAssumption
  <2>4. ASSUME NEW c \in Consumers PROVE HeldBy(c)' = HeldBy(c)
    <3>1. pc'[c] = pc[c] BY <2>1
    <3>2. CASE pc[c] = "read"
      <4>1. pos[c] + 1 \in 1 .. Len(log)
        BY <1>2, <3>2 DEF ReadersOK, Reading
      <4>2. log'[pos[c] + 1] = log[pos[c] + 1]
        BY <1>2, <2>1, <4>1, AppendProperties
      <4> QED BY <2>1, <3>1, <3>2, <4>2 DEF HeldBy
    <3>3. CASE pc[c] # "read" BY <3>1, <3>3 DEF HeldBy
    <3> QED BY <3>2, <3>3
  <2>5. held' = held /\ out' = out BY <2>1, <2>4
  <2>6. Fifo!Put(item[p]) BY <2>2, <2>3, <2>5 DEF Fifo!Put
  <2> QED BY <2>1, <2>6 DEF Fifo!Next
<1>6. ASSUME NEW p \in Producers, EnqueueWrite(p) \/ EnqueuePublish(p)
      PROVE  UNCHANGED Fifo!vars
  <2> USE ThreadsAssumption DEF IInv, TypeOK, PcOK, Threads, GoTo, history
  <2>1. /\ UNCHANGED <<log, mEnqueuePos, mDequeuePos, item, pos>>
        /\ \A c \in Consumers : pc'[c] = pc[c]
    BY <1>6 DEF EnqueueWrite, EnqueuePublish
  <2> QED BY <1>3, <2>1 DEF HeldBy
<1>7. ASSUME NEW c \in Consumers, DequeueCasWins(c) PROVE Fifo!Next
  <2> USE DEF IInv, TypeOK, PcOK, Threads, GoTo
  <2>1. /\ pc[c] = "cas" /\ pc' = [pc EXCEPT ![c] = "read"]
        /\ pos[c] = mDequeuePos /\ mDequeuePos' = mDequeuePos + 1
        /\ UNCHANGED <<mEnqueuePos, log, pos, item>>
    BY <1>7 DEF DequeueCasWins
  <2>2. mDequeuePos \in 0 .. Len(log) - 1
    <3>1. mDequeuePos + 1 <= mEnqueuePos BY <1>0, <2>1 DEF CountersOK
    <3> QED BY <1>2, <3>1
  <2>3. q # << >> /\ Head(q) = log[mDequeuePos + 1] /\ q' = Tail(q)
    <3>1. /\ Window(log, mDequeuePos) # << >>
          /\ Head(Window(log, mDequeuePos)) = log[mDequeuePos + 1]
          /\ Window(log, mDequeuePos + 1) = Tail(Window(log, mDequeuePos))
      BY <1>2, <2>2, WindowAdvance
    <3> HIDE DEF q
    <3> QED BY <1>1, <2>1, <3>1
  <2>4. held[c] = NoValue BY <2>1 DEF HeldBy
  <2>5. held' = [held EXCEPT ![c] = log[mDequeuePos + 1]]
    BY <2>1 DEF HeldBy
  <2>6. out' = out BY <2>1
  <2>7. Fifo!Take(c) BY <2>3, <2>4, <2>5, <2>6 DEF Fifo!Take
  <2> QED BY <2>7 DEF Fifo!Next
<1>8. ASSUME NEW c \in Consumers, DequeueRead(c) PROVE Fifo!Next
  <2> USE ValuesAssumption DEF IInv, TypeOK, PcOK, Threads, GoTo
  <2>1. /\ pc[c] = "read" /\ pc' = [pc EXCEPT ![c] = "release"]
        /\ item' = [item EXCEPT ![c] = data[SlotOf(pos[c])]]
        /\ UNCHANGED <<mEnqueuePos, mDequeuePos, log, pos>>
    BY <1>8 DEF DequeueRead, shared, history
  <2>2. pos[c] + 1 \in 1 .. Len(log) /\ data[SlotOf(pos[c])] = log[pos[c] + 1]
    BY <1>2, <2>1 DEF ReadersOK, Reading
  <2>3. held[c] = log[pos[c] + 1] BY <2>1 DEF HeldBy
  <2>4. held[c] # NoValue
    <3>1. log[pos[c] + 1] \in Values BY <1>2, <2>2, ElementOfSeq
    <3> QED BY <2>3, <3>1
  <2>5. held' = [held EXCEPT ![c] = NoValue] BY <2>1 DEF HeldBy
  <2>6. out' = [out EXCEPT ![c] = held[c]] BY <2>1, <2>2, <2>3
  <2>7. q' = q BY <2>1
  <2>8. Fifo!HandOver(c) BY <2>4, <2>5, <2>6, <2>7 DEF Fifo!HandOver
  <2> QED BY <2>8 DEF Fifo!Next
<1>9. ASSUME NEW c \in Consumers, DequeueRelease(c) PROVE UNCHANGED Fifo!vars
  <2> USE DEF IInv, TypeOK, PcOK, Threads, GoTo, history
  <2>1. /\ UNCHANGED <<log, mEnqueuePos, mDequeuePos, item, pos>>
        /\ pc[c] = "release" /\ pc' = [pc EXCEPT ![c] = "idle"]
    BY <1>9 DEF DequeueRelease
  <2> QED BY <1>3, <2>1 DEF HeldBy
<1> QED BY <1>4, <1>5, <1>6, <1>7, <1>8, <1>9, OutsideSteps

(* The queue is a FIFO of at most MaxSize values, for any number of threads. *)
THEOREM QueueImplementsFifo ==
  ASSUME MaxSize >= 2
  PROVE  Spec => ImplementsFifo
<1>1. IInv /\ [Next]_vars => [Fifo!Next]_(Fifo!vars) BY FifoStep
<1> QED BY Invariance, FifoInit, <1>1, PTL DEF Spec, ImplementsFifo, Fifo!Spec
=============================================================================
