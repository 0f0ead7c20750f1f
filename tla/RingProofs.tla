----------------------------- MODULE RingProofs -----------------------------
(***************************************************************************)
(* Theorems about containers that find their slots modulo a capacity.  The  *)
(* two rings of one producer and one consumer: CircularBuffer, for every    *)
(* Capacity, every width of the indices, any set of observers and of        *)
(* values, and SpscRing, for every capacity, every width of the positions,  *)
(* any set of watching threads and of values.  And the open addressing of   *)
(* FastHashMap, for every set of keys and of hashes, every width of a group *)
(* and of a hash, and every load factor below one.                          *)
(***************************************************************************)
EXTENDS CircularBuffer, SpscRing, FastHashMap, RingLemmas,
        FunctionTheorems, FiniteSetTheorems, WellFoundedInduction

-----------------------------------------------------------------------------
(* The arithmetic of wrapping indices. *)

LEMMA Sizes ==
  /\ Capacity \in Nat \ {0} /\ BufferSize \in Nat \ {0} /\ Modulus \in Nat \ {0}
  /\ Capacity < BufferSize /\ BufferSize <= Modulus
  /\ \E q \in Nat : Modulus = BufferSize * q
<1>1. /\ Capacity \in Nat \ {0} /\ BufferSize \in Nat \ {0} /\ Modulus \in Nat \ {0}
      /\ Capacity < BufferSize /\ Modulus % BufferSize = 0
  BY CapacityAssumption, BufferAssumption, ModulusAssumption
<1> DEFINE B == BufferSize  q == Modulus \div B
<1> HIDE DEF B
<1>2. B \in Nat \ {0} /\ Modulus % B = 0 /\ Modulus \in Nat \ {0} BY <1>1 DEF B
<1>3. q \in Nat /\ Modulus = B * q + (Modulus % B) BY <1>2, DivMod
<1>4. Modulus = B * q BY <1>2, <1>3, B * q \in Int
<1> HIDE DEF q
<1>5. q >= 1
  <2>1. CASE q = 0 BY <1>2, <1>4, <2>1, B * 0 = 0
  <2> QED BY <1>3, <2>1
<1>6. B * q >= B BY <1>2, <1>3, <1>5, Z3
<1> QED BY <1>1, <1>3, <1>4, <1>6 DEF B

(* Distances are lengths; they grow and shrink by one with the indices. *)
LEMMA DistanceFacts ==
  ASSUME NEW w \in Indices, NEW r \in Indices
  PROVE  /\ Distance(w, r) \in 0 .. Modulus - 1
         /\ Distance(w, r) = 0 <=> w = r
         /\ Successor(w) \in Indices
         /\ Distance(w, r) < Modulus - 1 => Distance(Successor(w), r) = Distance(w, r) + 1
         /\ w # r => Distance(w, Successor(r)) = Distance(w, r) - 1
<1>1. Modulus \in Nat \ {0} /\ w \in 0 .. Modulus - 1 /\ r \in 0 .. Modulus - 1
  BY Sizes DEF Indices
<1>2. \A a, b : Distance(a, b) = Wrap(a - b, Modulus) /\ Successor(a) = Wrap(a + 1, Modulus)
  BY Zenon DEF Distance, Successor, Wrap
<1>3. Successor(w) = Wrap(w + 1, Modulus) /\ Successor(r) = Wrap(r + 1, Modulus)
      /\ Distance(w, r) = Wrap(w - r, Modulus)
      /\ Distance(Successor(w), r) = Wrap(Wrap(w + 1, Modulus) - r, Modulus)
      /\ Distance(w, Successor(r)) = Wrap(w - Wrap(r + 1, Modulus), Modulus)
  BY <1>2, Zenon
<1> DEFINE M == Modulus
<1> HIDE DEF M
<1>4. /\ Wrap(w - r, M) \in 0 .. M - 1
      /\ Wrap(w - r, M) = 0 <=> w = r
      /\ Wrap(w + 1, M) \in 0 .. M - 1
      /\ Wrap(w - r, M) < M - 1 => Wrap(Wrap(w + 1, M) - r, M) = Wrap(w - r, M) + 1
      /\ w # r => Wrap(w - Wrap(r + 1, M), M) = Wrap(w - r, M) - 1
  <2>1. M \in Nat \ {0} /\ w \in 0 .. M - 1 /\ r \in 0 .. M - 1 BY <1>1 DEF M
  <2> QED BY <2>1, WrapFacts
<1> QED BY <1>3, <1>4 DEF Indices, M

LEMMA IndexFacts ==
  /\ Capacity \in Nat \ {0} /\ BufferSize \in Nat \ {0}
  /\ Capacity < BufferSize /\ Modulus \in Nat /\ Capacity < Modulus
  /\ Indices \subseteq Nat /\ 0 \in Indices
  /\ \A w, r \in Indices : Distance(w, r) \in Nat
<1>1. Modulus \in Nat \ {0} BY Sizes
<1>2. ASSUME NEW w \in Indices, NEW r \in Indices PROVE Distance(w, r) \in Nat
  <2>1. Distance(w, r) \in 0 .. Modulus - 1 BY DistanceFacts
  <2> QED BY <1>1, <2>1
<1>3. Indices \subseteq Nat /\ 0 \in Indices BY <1>1 DEF Indices
<1> QED BY <1>2, <1>3, Sizes

(* The slot an index falls on does not depend on how often it has wrapped. *)
LEMMA SlotFacts ==
  ASSUME NEW w \in Indices, NEW r \in Indices
  PROVE  /\ SlotOf(w) \in Slots
         /\ SlotOf(r + Distance(w, r)) = SlotOf(w)
         /\ \A i \in Nat : SlotOf(Successor(r) + i) = SlotOf(r + 1 + i) /\ SlotOf(r + i) \in Slots
<1>1. /\ Modulus \in Nat \ {0} /\ w \in 0 .. Modulus - 1 /\ r \in 0 .. Modulus - 1
      /\ BufferSize \in Nat \ {0} /\ Modulus % BufferSize = 0
  BY Sizes, ModulusAssumption DEF Indices
<1> DEFINE B == BufferSize
<1> HIDE DEF B
<1>2. SameSlots(B, Modulus, w, r)
  <2>1. WholeLaps(B, Modulus) BY <1>1 DEF B, WholeLaps
  <2> QED BY <1>1, <2>1, WrapSlots
<1> QED BY <1>2, Zenon DEF SameSlots, SlotOf, Slots, Distance, Successor, B

-----------------------------------------------------------------------------
(* The inductive invariant. *)

(* Which labels each thread reaches, and what a running push() carries. *)
PcOK ==
  /\ pc[Producer] \in {"idle", "refresh", "copy", "store"}
  /\ pc[Consumer] \in {"idle", "refresh", "move", "store"}
  /\ pc[Producer] # "idle" => item[Producer] \in Values
  /\ \A o \in Observers : pc[o] \notin {"exhausted", "fallback"} => attempt[o] <= 3

(* A cached index errs on the safe side only: the producer's copy of the    *)
(* read index makes the buffer look at least as full as it is, and the      *)
(* consumer's copy of the write index at least as empty.                    *)
CachesOK ==
  /\ Distance(mWriteIdx, mCachedReadIdx) <= Capacity
  /\ Distance(mWriteIdx, mReadIdx) <= Distance(mWriteIdx, mCachedReadIdx)
  /\ Distance(mCachedWriteIdx, mReadIdx) <= Distance(mWriteIdx, mReadIdx)
  /\ pc[Producer] \in {"copy", "store"} => Distance(mWriteIdx, mCachedReadIdx) < Capacity
  /\ pc[Consumer] \in {"move", "store"} => mReadIdx # mCachedWriteIdx

(* What the slots hold, and what the two threads have of them. *)
SlotsOK ==
  /\ \A i \in 0 .. Count - 1 : mBuffer[SlotOf(mReadIdx + i)] \in Values
  /\ pc[Producer] = "store" => mBuffer[SlotOf(mWriteIdx)] = item[Producer]
  /\ pc[Consumer] = "store" => item[Consumer] = mBuffer[SlotOf(mReadIdx)]
  /\ peek # NoValue =>
       /\ peek = [slot |-> SlotOf(mReadIdx), value |-> mBuffer[SlotOf(mReadIdx)]]
       /\ mReadIdx # mWriteIdx
       /\ pc[Consumer] # "store"

IInv == TypeOK /\ PcOK /\ CachesOK /\ SlotsOK

-----------------------------------------------------------------------------
(* The slot of the next push() is not the slot of a queued element. *)
LEMMA WriteSlotIsFree ==
  ASSUME TypeOK, Count < Capacity, NEW i \in 0 .. Count - 1
  PROVE  SlotOf(mReadIdx + i) # SlotOf(mWriteIdx)
<1>1. mReadIdx \in Indices /\ mWriteIdx \in Indices BY DEF TypeOK
<1>2. Count \in Nat /\ mReadIdx \in Nat BY <1>1, IndexFacts DEF Count
<1>3. SlotOf(mReadIdx + Count) = SlotOf(mWriteIdx) BY <1>1, SlotFacts DEF Count
<1> DEFINE j == mReadIdx + i   k == mReadIdx + Count
<1>4. j \in Nat /\ k \in Nat /\ j < k /\ k - j < BufferSize BY <1>2, IndexFacts
<1> HIDE DEF j, k
<1>5. j % BufferSize # k % BufferSize BY <1>4, Sizes, ModDistinct
<1> QED BY <1>3, <1>5 DEF SlotOf, j, k

(* The two sides agree that an element is there when the consumer's copy    *)
(* says so.                                                                 *)
LEMMA CopySaysNonEmpty ==
  ASSUME TypeOK, CachesOK, mReadIdx # mCachedWriteIdx
  PROVE  mReadIdx # mWriteIdx
<1>1. mReadIdx \in Indices /\ mWriteIdx \in Indices /\ mCachedWriteIdx \in Indices BY DEF TypeOK
<1>2. Distance(mCachedWriteIdx, mReadIdx) \in Nat \ {0}
  BY <1>1, IndexFacts, DistanceFacts
<1>3. Distance(mWriteIdx, mReadIdx) \in Nat BY <1>1, IndexFacts
<1>4. Distance(mWriteIdx, mReadIdx) # 0 BY <1>2, <1>3 DEF CachesOK
<1> QED BY <1>1, <1>4, DistanceFacts

-----------------------------------------------------------------------------
(* Observers change nothing that the two ends of the buffer read. *)
LEMMA ObserveFrame ==
  ASSUME TypeOK, PcOK, NEW o \in Observers, Observe(o)
  PROVE  /\ UNCHANGED <<indices, caches, mBuffer, item, popped, peek>>
         /\ pc' \in [Threads -> {"idle", "refresh", "copy", "move", "store", "between",
                                 "again", "retry", "exhausted", "fallback",
                                 "emptyWrite", "emptyRead", "fullRead"}]
         /\ pc'[Producer] = pc[Producer] /\ pc'[Consumer] = pc[Consumer]
         /\ attempt' \in [Observers -> 0 .. 4]
         /\ \A x \in Observers : pc'[x] \notin {"exhausted", "fallback"} => attempt'[x] <= 3
         /\ first' \in [Observers -> Indices] /\ second' \in [Observers -> Indices]
         /\ seen' \in [Observers -> SUBSET (0 .. Capacity)]
<1> USE ThreadsAssumption DEF TypeOK, PcOK, Threads, At, GoTo, LoadFirst, Returns,
                              Bracket, Middle
<1>0. Count \in 0 .. Capacity BY IndexFacts DEF Count
<1> HIDE DEF PcOK
<1>a. attempt \in [Observers -> 0 .. 4]
      /\ \A x \in Observers : pc[x] \notin {"exhausted", "fallback"} => attempt[x] <= 3
  BY DEF PcOK
<1>1. CASE SizeLoads(o) BY <1>0, <1>a, <1>1 DEF SizeLoads
<1>2. CASE SizeLoadsBetween(o) BY <1>a, <1>2 DEF SizeLoadsBetween
<1>3. CASE SizeRetries(o) BY <1>a, <1>3 DEF SizeRetries
<1>4. CASE SizeGivesUp(o) BY <1>0, <1>a, <1>4 DEF SizeGivesUp
<1>5. CASE \E n \in Indices : SizeReturns(o, n) BY <1>a, <1>5 DEF SizeReturns
<1>6. CASE \E n \in 0 .. Capacity : SizeEstimates(o, n) BY <1>a, <1>6 DEF SizeEstimates
<1>7. CASE EmptyLoads(o) BY <1>0, <1>a, <1>7 DEF EmptyLoads
<1>8. CASE FullLoads(o) BY <1>0, <1>a, <1>8 DEF FullLoads
<1>9. CASE \E verdict \in BOOLEAN : EmptyReturns(o, verdict) \/ FullReturns(o, verdict)
  BY <1>a, <1>9 DEF EmptyReturns, FullReturns
<1> HIDE DEF TypeOK
<1> QED BY <1>1, <1>2, <1>3, <1>4, <1>5, <1>6, <1>7, <1>8, <1>9 DEF Observe

-----------------------------------------------------------------------------
(* The copies stay on the safe side. *)
LEMMA CachesStep == TypeOK /\ PcOK /\ CachesOK /\ [Next]_vars => CachesOK'
<1> SUFFICES ASSUME TypeOK, PcOK, CachesOK, [Next]_vars PROVE CachesOK'
  OBVIOUS
<1> DEFINE w == mWriteIdx  r == mReadIdx  cw == mCachedWriteIdx  cr == mCachedReadIdx
<1>t. /\ w \in Indices /\ r \in Indices /\ cw \in Indices /\ cr \in Indices
      /\ pc[Producer] \in {"idle", "refresh", "copy", "store"}
      /\ pc[Consumer] \in {"idle", "refresh", "move", "store"}
      /\ DOMAIN pc = Threads /\ Producer \in Threads /\ Consumer \in Threads
      /\ Producer # Consumer
  BY ThreadsAssumption DEF TypeOK, PcOK, Threads
<1>d. /\ Distance(w, cr) \in Nat /\ Distance(w, r) \in Nat /\ Distance(cw, r) \in Nat
      /\ Capacity \in Nat \ {0} /\ Modulus \in Nat /\ Capacity < Modulus
  BY <1>t, IndexFacts
<1>p. ASSUME UNCHANGED <<indices, caches>>, UNCHANGED pc[Producer], UNCHANGED pc[Consumer]
      PROVE  CachesOK'
  BY <1>p DEF CachesOK, indices, caches
<1>1. CASE \E v \in Values : PushCall(v)
  BY <1>1, <1>t DEF PushCall, CachesOK, indices, caches, At, GoTo
<1>2. CASE PushFails \/ PushRefreshes
  BY <1>2, <1>t, <1>d DEF PushFails, PushRefreshes, PushRefresh, CachesOK, indices, At, GoTo, Count
<1>3. CASE PushCopies \/ PushThrows
  BY <1>3, <1>t DEF PushCopies, PushThrows, CachesOK, indices, caches, At, GoTo
<1>4. CASE PushStores
  <2>1. /\ w' = Successor(w) /\ r' = r /\ cw' = cw /\ cr' = cr
        /\ pc'[Producer] = "idle" /\ pc'[Consumer] = pc[Consumer]
        /\ Distance(w, cr) < Capacity
    BY <1>4, <1>t DEF PushStores, CachesOK, caches, At, GoTo
  <2>2. Distance(w, r) < Modulus - 1 /\ Distance(w, cr) < Modulus - 1
    BY <1>d, <2>1 DEF CachesOK
  <2>3. /\ Distance(w', cr) = Distance(w, cr) + 1
        /\ Distance(w', r) = Distance(w, r) + 1
    BY <1>t, <2>1, <2>2, DistanceFacts
  <2> QED BY <1>d, <2>1, <2>3 DEF CachesOK
<1>5. CASE PopCall
  BY <1>5, <1>t DEF PopCall, CachesOK, indices, caches, At, GoTo
<1>6. CASE PopFails \/ PopRefreshes
  BY <1>6, <1>t, <1>d DEF PopFails, PopRefreshes, PopRefresh, CachesOK, indices, At, GoTo
<1>7. CASE PopMoves \/ PopThrows
  BY <1>7, <1>t DEF PopMoves, PopThrows, CachesOK, indices, caches, At, GoTo
<1>8. CASE PopStores
  <2>1. /\ r' = Successor(r) /\ w' = w /\ cw' = cw /\ cr' = cr
        /\ pc'[Consumer] = "idle" /\ pc'[Producer] = pc[Producer]
        /\ r # cw
    BY <1>8, <1>t DEF PopStores, CachesOK, caches, At, GoTo
  <2>2. r # w BY <2>1, CopySaysNonEmpty
  <2>3. /\ Distance(w, r') = Distance(w, r) - 1
        /\ Distance(cw, r') = Distance(cw, r) - 1
    BY <1>t, <2>1, <2>2, DistanceFacts
  <2> QED BY <1>d, <2>1, <2>3 DEF CachesOK
<1>9. CASE front BY <1>9, <1>p DEF front
<1>10. CASE Clear
  <2>1. Distance(0, 0) = 0 BY IndexFacts, DistanceFacts
  <2>2. /\ w' = 0 /\ r' = 0 /\ cw' = 0 /\ cr' = 0
        /\ pc'[Producer] = "idle" /\ pc'[Consumer] = "idle"
    BY <1>10, <1>t DEF Clear, At
  <2> QED BY <1>d, <2>1, <2>2 DEF CachesOK
<1>11. CASE \E o \in Observers : Observe(o) BY <1>11, <1>p, ObserveFrame
<1>12. CASE UNCHANGED vars BY <1>12, <1>p DEF vars
<1> QED
  BY <1>1, <1>2, <1>3, <1>4, <1>5, <1>6, <1>7, <1>8, <1>9, <1>10, <1>11, <1>12
     DEF Next, Push, Pop

(* Types and labels. *)
LEMMA TypeStep == TypeOK /\ PcOK /\ CachesOK /\ CachesOK' /\ [Next]_vars => TypeOK' /\ PcOK'
<1> SUFFICES ASSUME TypeOK, PcOK, CachesOK, CachesOK', [Next]_vars PROVE TypeOK' /\ PcOK'
  OBVIOUS
<1>t. Producer \in Threads /\ Consumer \in Threads /\ Producer # Consumer /\ Observers \subseteq Threads
  BY ThreadsAssumption DEF Threads
<1>i. mReadIdx' \in Indices /\ mWriteIdx' \in Indices
      /\ mCachedReadIdx' \in Indices /\ mCachedWriteIdx' \in Indices
  <2> USE DEF TypeOK, indices, caches
  <2>1. CASE PushStores BY <2>1, DistanceFacts DEF PushStores
  <2>2. CASE PopStores BY <2>2, DistanceFacts DEF PopStores
  <2>3. CASE Clear BY <2>3, IndexFacts DEF Clear
  <2>4. CASE \E o \in Observers : Observe(o) BY <2>4, ObserveFrame
  <2> QED
    BY <2>1, <2>2, <2>3, <2>4
       DEF Next, Push, Pop, vars, PushCall, PushFails, PushRefreshes, PushRefresh, PushCopies,
           PushThrows, PopCall, PopFails, PopRefreshes, PopRefresh, PopMoves, PopThrows, front
<1>c. Count' \in 0 .. Capacity
  <2>1. Count' \in Nat /\ Distance(mWriteIdx', mCachedReadIdx') \in Nat
    BY <1>i, IndexFacts DEF Count
  <2> QED BY <2>1, IndexFacts DEF CachesOK, Count
<1>f. mReadIdx \in Indices /\ SlotOf(mReadIdx) \in Slots /\ SlotOf(mWriteIdx) \in Slots
  BY SlotFacts DEF TypeOK
<1>w. ASSUME Witness(Count') PROVE seen' \in [Observers -> SUBSET (0 .. Capacity)]
  BY <1>w, <1>c DEF Witness, TypeOK
<1> DEFINE Rest == /\ mBuffer' \in [Slots -> Values \cup {NoValue}]
                   /\ pc' \in [Threads -> {"idle", "refresh", "copy", "move", "store", "between",
                                 "again", "retry", "exhausted", "fallback",
                                 "emptyWrite", "emptyRead", "fullRead"}]
                   /\ item' \in [{Producer, Consumer} -> Values \cup {NoValue}]
                   /\ popped' \in Values \cup {NoValue}
                   /\ attempt' \in [Observers -> 0 .. 4]
                   /\ first' \in [Observers -> Indices] /\ second' \in [Observers -> Indices]
                   /\ seen' \in [Observers -> SUBSET (0 .. Capacity)]
<1> SUFFICES Rest /\ PcOK'
  BY <1>i, <1>c DEF TypeOK
<1> USE <1>t, <1>f DEF TypeOK, PcOK, observed, At, GoTo
<1>1. CASE \E v \in Values : PushCall(v) BY <1>1 DEF PushCall
<1>2. CASE PushFails \/ PushRefreshes BY <1>2 DEF PushFails, PushRefreshes, PushRefresh
<1>3. CASE PushCopies BY <1>3 DEF PushCopies
<1>4. CASE PushThrows BY <1>4 DEF PushThrows
<1>5. CASE PushStores
  <2>1. Witness(Count') BY <1>5 DEF PushStores, Count
  <2> QED BY <1>5, <1>w, <2>1 DEF PushStores
<1>6. CASE PopCall BY <1>6 DEF PopCall
<1>7. CASE PopFails \/ PopRefreshes BY <1>7 DEF PopFails, PopRefreshes, PopRefresh
<1>8. CASE PopMoves BY <1>8 DEF PopMoves
<1>9. CASE PopThrows BY <1>9 DEF PopThrows
<1>10. CASE PopStores
  <2>1. Witness(Count') BY <1>10 DEF PopStores, Count
  <2> QED BY <1>10, <1>w, <2>1 DEF PopStores
<1>11. CASE front BY <1>11 DEF front
<1>12. CASE Clear BY <1>12 DEF Clear
<1>13. CASE \E o \in Observers : Observe(o) BY <1>13, ObserveFrame
<1>14. CASE UNCHANGED vars BY <1>14 DEF vars
<1> QED
  BY <1>1, <1>2, <1>3, <1>4, <1>5, <1>6, <1>7, <1>8, <1>9, <1>10, <1>11, <1>12, <1>13, <1>14
     DEF Next, Push, Pop

(* The elements stay where they are until they are popped. *)
LEMMA SlotsStep == IInv /\ TypeOK' /\ PcOK' /\ CachesOK' /\ [Next]_vars => SlotsOK'
<1> SUFFICES ASSUME IInv, TypeOK', PcOK', CachesOK', [Next]_vars PROVE SlotsOK'
  OBVIOUS
<1> DEFINE w == mWriteIdx  r == mReadIdx
<1>t. /\ w \in Indices /\ r \in Indices /\ w' \in Indices /\ r' \in Indices
      /\ w \in Nat /\ r \in Nat
      /\ pc[Producer] \in {"idle", "refresh", "copy", "store"}
      /\ pc[Consumer] \in {"idle", "refresh", "move", "store"}
      /\ DOMAIN pc = Threads /\ Producer \in Threads /\ Consumer \in Threads
      /\ Producer # Consumer
      /\ item \in [{Producer, Consumer} -> Values \cup {NoValue}]
      /\ mBuffer \in [Slots -> Values \cup {NoValue}]
      /\ SlotOf(w) \in Slots /\ SlotOf(r) \in Slots
  BY ThreadsAssumption, IndexFacts, SlotFacts DEF IInv, TypeOK, PcOK, Threads
<1>n. Count \in Nat /\ Count' \in Nat /\ (Count = 0 <=> r = w) BY <1>t, IndexFacts, DistanceFacts DEF Count
<1>s. SlotsOK BY DEF IInv
<1>p. ASSUME UNCHANGED <<indices, mBuffer, item, peek>>,
             UNCHANGED pc[Producer] \/ pc'[Producer] # "store",
             UNCHANGED pc[Consumer] \/ pc'[Consumer] # "store"
      PROVE  SlotsOK'
  BY <1>p, <1>s DEF SlotsOK, indices, Count
<1>1. CASE \E v \in Values : PushCall(v)
  <2>1. UNCHANGED <<indices, mBuffer, peek>> /\ pc'[Producer] # "store" /\ pc'[Consumer] = pc[Consumer]
        /\ item'[Consumer] = item[Consumer]
    BY <1>1, <1>t DEF PushCall, At, GoTo
  <2> QED BY <2>1, <1>s DEF SlotsOK, indices, Count
<1>2. CASE PushFails \/ PushRefreshes
  BY <1>2, <1>t, <1>p DEF PushFails, PushRefreshes, PushRefresh, At, GoTo
<1>3. CASE PushCopies \/ PushThrows
  <2>1. PICK x \in {item[Producer], NoValue} :
           /\ UNCHANGED <<indices, peek, item>> /\ pc'[Consumer] = pc[Consumer]
           /\ mBuffer' = [mBuffer EXCEPT ![SlotOf(w)] = x]
           /\ pc[Producer] = "copy"
           /\ pc'[Producer] = "store" => x = item[Producer]
    BY <1>3, <1>t DEF PushCopies, PushThrows, At, GoTo
  <2>2. Count < Capacity
    <3>1. Distance(w, mCachedReadIdx) \in Nat /\ Capacity \in Nat
      BY IndexFacts, <1>t DEF IInv, TypeOK
    <3> QED BY <1>n, <2>1, <3>1 DEF IInv, CachesOK, Count
  <2>3. \A i \in 0 .. Count - 1 : /\ SlotOf(r + i) # SlotOf(w)
                                  /\ mBuffer'[SlotOf(r + i)] = mBuffer[SlotOf(r + i)]
    BY <1>t, <2>1, <2>2, SlotFacts, WriteSlotIsFree DEF IInv
  <2>4. r # w => mBuffer'[SlotOf(r)] = mBuffer[SlotOf(r)]
    BY <1>t, <1>n, <2>3, 0 \in 0 .. Count - 1 \/ Count = 0, r + 0 = r
  <2>5. pc[Consumer] = "store" => r # w BY CopySaysNonEmpty DEF IInv, CachesOK
  <2>6. w' = w /\ r' = r /\ Count' = Count BY <2>1 DEF indices, Count
  <2> QED BY <1>s, <1>t, <2>1, <2>3, <2>4, <2>5, <2>6 DEF SlotsOK
<1>4. CASE PushStores
  <2>1. /\ w' = Successor(w) /\ r' = r /\ UNCHANGED <<mBuffer, item, peek>>
        /\ pc[Producer] = "store" /\ pc'[Producer] = "idle" /\ pc'[Consumer] = pc[Consumer]
    BY <1>4, <1>t DEF PushStores, At, GoTo
  <2>2. Count' = Count + 1
    <3>1. Distance(w, mCachedReadIdx) \in Nat /\ Capacity \in Nat /\ Modulus \in Nat
          /\ Capacity < Modulus
      BY IndexFacts, <1>t DEF IInv, TypeOK
    <3>2. Count < Modulus - 1 BY <1>n, <2>1, <3>1 DEF IInv, CachesOK, Count
    <3> QED BY <1>t, <2>1, <3>2, DistanceFacts DEF Count
  <2>3. mBuffer[SlotOf(r + Count)] \in Values
    <3>1. SlotOf(r + Count) = SlotOf(w) BY <1>t, SlotFacts DEF Count
    <3> QED BY <1>s, <2>1, <3>1 DEF SlotsOK, IInv, PcOK
  <2>4. \A i \in 0 .. Count' - 1 : mBuffer'[SlotOf(r' + i)] \in Values
    <3> SUFFICES ASSUME NEW i \in 0 .. Count' - 1 PROVE mBuffer[SlotOf(r + i)] \in Values
      BY <2>1
    <3>1. i = Count \/ i \in 0 .. Count - 1 BY <1>n, <2>2
    <3> QED BY <1>s, <2>3, <3>1 DEF SlotsOK
  <2>5. r' # w'
    <3>1. Count' # 0 BY <1>n, <2>2
    <3> QED BY <1>t, <3>1, DistanceFacts DEF Count
  <2> QED BY <1>s, <2>1, <2>4, <2>5 DEF SlotsOK
<1>5. CASE PopCall BY <1>5, <1>t, <1>p DEF PopCall, At, GoTo
<1>6. CASE PopFails \/ PopRefreshes
  BY <1>6, <1>t, <1>p DEF PopFails, PopRefreshes, PopRefresh, At, GoTo
<1>7. CASE PopMoves
  <2>1. /\ UNCHANGED <<indices, mBuffer>> /\ peek' = NoValue /\ pc'[Producer] = pc[Producer]
        /\ item'[Producer] = item[Producer] /\ item'[Consumer] = mBuffer[SlotOf(r)]
    BY <1>7, <1>t DEF PopMoves, At, GoTo
  <2> QED BY <2>1, <1>s DEF SlotsOK, indices, Count
<1>8. CASE PopThrows BY <1>8, <1>t, <1>p DEF PopThrows, At, GoTo
<1>9. CASE PopStores
  <2>1. /\ r' = Successor(r) /\ w' = w /\ UNCHANGED <<mBuffer, item, peek>>
        /\ pc[Consumer] = "store" /\ pc'[Consumer] = "idle" /\ pc'[Producer] = pc[Producer]
    BY <1>9, <1>t DEF PopStores, At, GoTo
  <2>2. r # w BY <2>1, CopySaysNonEmpty DEF IInv, CachesOK
  <2>3. Count' = Count - 1 BY <1>t, <2>1, <2>2, DistanceFacts DEF Count
  <2>4. \A i \in 0 .. Count' - 1 : mBuffer'[SlotOf(r' + i)] \in Values
    <3> SUFFICES ASSUME NEW i \in 0 .. Count' - 1 PROVE mBuffer[SlotOf(r' + i)] \in Values
      BY <2>1
    <3>1. i \in Nat /\ 1 + i \in 0 .. Count - 1 BY <1>n, <2>3
    <3>2. SlotOf(r' + i) = SlotOf(r + 1 + i) BY <1>t, <2>1, <3>1, SlotFacts
    <3>3. r + 1 + i = r + (1 + i) BY <1>t, <3>1
    <3> QED BY <1>s, <3>1, <3>2, <3>3 DEF SlotsOK
  <2>5. peek' = NoValue BY <1>s, <2>1 DEF SlotsOK
  <2> QED BY <1>s, <2>1, <2>4, <2>5 DEF SlotsOK
<1>10. CASE front
  BY <1>10, <1>s, <1>t DEF front, SlotsOK, indices, Count, At
<1>11. CASE Clear
  <2>1. /\ Count' = 0 /\ peek' = NoValue
        /\ pc'[Producer] = "idle" /\ pc'[Consumer] = "idle"
    BY <1>11, <1>t, IndexFacts, DistanceFacts DEF Clear, At, Count
  <2> QED BY <2>1 DEF SlotsOK
<1>12. CASE \E o \in Observers : Observe(o) BY <1>12, <1>p, ObserveFrame DEF IInv
<1>13. CASE UNCHANGED vars BY <1>13, <1>p DEF vars
<1> QED
  BY <1>1, <1>2, <1>3, <1>4, <1>5, <1>6, <1>7, <1>8, <1>9, <1>10, <1>11, <1>12, <1>13
     DEF Next, Push, Pop

-----------------------------------------------------------------------------
LEMMA InitInv == Init => IInv
<1> SUFFICES ASSUME Init PROVE IInv OBVIOUS
<1>1. 0 \in Indices /\ Distance(0, 0) = 0 /\ Capacity \in Nat \ {0}
  BY IndexFacts, DistanceFacts
<1>2. Count = 0 BY <1>1 DEF Init, Count
<1>3. TypeOK BY <1>1, <1>2 DEF Init, TypeOK
<1>4. PcOK BY ThreadsAssumption DEF Init, PcOK, Threads
<1>5. CachesOK BY <1>1, ThreadsAssumption DEF Init, CachesOK, Threads
<1>6. SlotsOK BY <1>2, ThreadsAssumption DEF Init, SlotsOK, Threads
<1> QED BY <1>3, <1>4, <1>5, <1>6 DEF IInv

LEMMA Inductive == Spec => []IInv
<1>1. IInv /\ [Next]_vars => IInv' BY CachesStep, TypeStep, SlotsStep DEF IInv
<1> QED BY InitInv, <1>1, PTL DEF Spec

(* The buffer never holds more than Capacity elements, although push()      *)
(* decides on a copy of mReadIdx that may be stale and the indices wrap.    *)
THEOREM NeverOverfull == Spec => []TypeOK
<1>1. IInv => TypeOK BY DEF IInv
<1> QED BY Inductive, <1>1, PTL

(* push() assigns to a slot that no queued element is in, so the assignment *)
(* needs no lock: the consumer never reads the slot meanwhile.              *)
THEOREM NoSlotRace == Spec => []SlotExclusive
<1>1. IInv => SlotExclusive
  <2> SUFFICES ASSUME IInv, pc[Producer] \in {"copy", "store"}, NEW i \in 0 .. Count - 1
               PROVE  SlotOf(mReadIdx + i) # SlotOf(mWriteIdx)
    BY DEF SlotExclusive
  <2>1. Count \in Nat /\ Distance(mWriteIdx, mCachedReadIdx) \in Nat /\ Capacity \in Nat
    BY IndexFacts DEF IInv, TypeOK, Count
  <2>2. Count < Capacity BY <2>1 DEF IInv, CachesOK, Count
  <2> QED BY <2>2, WriteSlotIsFree DEF IInv
<1> QED BY Inductive, <1>1, PTL

(* No push() invalidates or overwrites what front() returned a pointer to.  *)
THEOREM FrontStays == Spec => []FrontIsStable
<1>1. IInv => FrontIsStable BY DEF IInv, SlotsOK, FrontIsStable
<1> QED BY Inductive, <1>1, PTL

(* The array of elements needs no lock: never overfull, never raced on, and *)
(* what front() returned stays.                                             *)
THEOREM BufferSound == Spec => []BufferIsSound
<1>1. TypeOK /\ SlotExclusive /\ FrontIsStable => BufferIsSound BY DEF BufferIsSound
<1> QED BY NeverOverfull, NoSlotRace, FrontStays, <1>1, PTL

(* A push() that returns false met a full buffer and a pop() that returns   *)
(* false an empty one, at the moment the cached index was refreshed.        *)
THEOREM FailuresTrue == Spec => FailuresAreTrue
<1> DEFINE Honest == /\ At(Producer, "refresh") /\ pc'[Producer] = "idle" => Count = Capacity
                     /\ At(Consumer, "refresh") /\ pc'[Consumer] = "idle" => Count = 0
<1>1. IInv /\ [Next]_vars => [Honest]_vars
  <2> SUFFICES ASSUME IInv, Next PROVE Honest OBVIOUS
  <2>t. /\ Producer \in Threads /\ Consumer \in Threads /\ Producer # Consumer
        /\ pc \in [Threads -> {"idle", "refresh", "copy", "move", "store", "between", "again",
                         "retry", "exhausted", "fallback", "emptyWrite", "emptyRead", "fullRead"}]
    BY ThreadsAssumption DEF IInv, TypeOK, Threads
  <2>n. /\ Count \in Nat /\ Capacity \in Nat /\ Count <= Capacity
        /\ mReadIdx = mWriteIdx => Count = 0
    BY IndexFacts, DistanceFacts DEF IInv, TypeOK, Count
  <2> USE <2>t DEF At, GoTo
  <2>1. CASE Push
    BY <2>1, <2>n DEF Push, PushCall, PushFails, PushRefreshes, PushRefresh, PushCopies,
                      PushThrows, PushStores
  <2>2. CASE Pop
    BY <2>2, <2>n DEF Pop, PopCall, PopFails, PopRefreshes, PopRefresh, PopMoves, PopThrows,
                      PopStores, front
  <2>3. CASE Clear BY <2>3 DEF Clear
  <2>4. CASE \E o \in Observers : Observe(o) BY <2>4, ObserveFrame DEF IInv
  <2> QED BY <2>1, <2>2, <2>3, <2>4 DEF Next
<1> QED BY Inductive, <1>1, PTL DEF Spec, FailuresAreTrue

-----------------------------------------------------------------------------
(* What size() returns. *)

(* How far the write index is ahead of the index an observer loaded first.  *)
Lead(o) == Distance(mWriteIdx, first[o])

(* The calls of size() whose first index is the read index. *)
ReadsFirst(o) == pc[o] = "fallback" \/ (pc[o] \in {"between", "again"} /\ attempt[o] % 2 # 0)

(* The two loads of an attempt, as the count they give. *)
Pair(o) == IF attempt[o] % 2 = 0 THEN Distance(first[o], second[o])
                                 ELSE Distance(second[o], first[o])

(* A running call has seen the present count; the push() that is running    *)
(* cannot bring the indices round to the one it has loaded; a read index it *)
(* has loaded is behind the present one; and as long as its bracket holds,  *)
(* the pair it has loaded is a count it has seen.                           *)
CallOK(o) ==
  pc[o] # "idle" =>
    /\ Count \in seen[o]
    /\ pc[Producer] # "idle" => Lead(o) < Modulus - 1
    /\ ReadsFirst(o) => Count <= Lead(o)
    /\ pc[o] = "again" /\ Bracket(o) = first[o] => Pair(o) \in seen[o]

(* A buffer is at most half of what its indices count. *)
LEMMA HalfTheIndices ==
  /\ Modulus \in Nat /\ BufferSize \in Nat \ {0} /\ Capacity \in Nat
  /\ Capacity < BufferSize /\ Capacity < Modulus - 1
BY Sizes, ModulusAssumption

(* What the two ends leave of an observer's call, and what they show it. *)
CallKept(o) ==
  /\ pc'[o] = pc[o] /\ attempt'[o] = attempt[o]
  /\ first'[o] = first[o] /\ second'[o] = second[o]

CountStays(o) ==
  /\ mWriteIdx' = mWriteIdx /\ mReadIdx' = mReadIdx /\ seen'[o] = seen[o]
  /\ pc'[Producer] # "idle" => pc[Producer] # "idle" \/ Lead(o) < Modulus - BufferSize

CountGrows(o) ==
  /\ mWriteIdx' = Successor(mWriteIdx) /\ mReadIdx' = mReadIdx
  /\ pc[Producer] = "store" /\ pc'[Producer] = "idle"
  /\ seen'[o] = seen[o] \cup {Count'}

CountShrinks(o) ==
  /\ mReadIdx' = Successor(mReadIdx) /\ mWriteIdx' = mWriteIdx
  /\ pc[Consumer] = "store" /\ pc'[Producer] = pc[Producer]
  /\ seen'[o] = seen[o] \cup {Count'}

LEMMA EndsStep ==
  ASSUME TypeOK, PcOK, Push \/ Pop \/ UNCHANGED vars, NEW o \in Observers, pc[o] # "idle"
  PROVE  CallKept(o) /\ (CountStays(o) \/ CountGrows(o) \/ CountShrinks(o))
<1>t. /\ DOMAIN pc = Threads /\ Producer \in Threads /\ Consumer \in Threads /\ o \in Threads
      /\ Producer # Consumer /\ o # Producer /\ o # Consumer
  BY ThreadsAssumption DEF TypeOK, Threads
<1> USE <1>t DEF CallKept, observed, indices, caches, At, GoTo
<1> DEFINE Same == /\ mWriteIdx' = mWriteIdx /\ mReadIdx' = mReadIdx /\ seen'[o] = seen[o]
                   /\ CallKept(o)
<1>1. ASSUME NEW v \in Values, PushCall(v) PROVE Same /\ Lead(o) < Modulus - BufferSize
  BY <1>1 DEF PushCall, WithinLap, Lead
<1>2. CASE PushFails \/ PushRefreshes
  <2>1. Same /\ pc[Producer] # "idle" BY <1>2 DEF PushFails, PushRefreshes, PushRefresh
  <2> QED BY <2>1 DEF CountStays
<1>3. CASE PushCopies \/ PushThrows
  <2>1. Same /\ pc[Producer] # "idle" BY <1>3 DEF PushCopies, PushThrows
  <2> QED BY <2>1 DEF CountStays
<1>4. CASE PushStores BY <1>4 DEF PushStores, CountGrows, Witness, Count
<1>5. CASE PopStores BY <1>5 DEF PopStores, CountShrinks, Witness, Count
<1>6. CASE PopCall \/ PopFails \/ PopRefreshes \/ PopMoves \/ PopThrows \/ front
  <2>1. Same /\ pc'[Producer] = pc[Producer]
    BY <1>6 DEF PopCall, PopFails, PopRefreshes, PopRefresh, PopMoves, PopThrows, front
  <2> QED BY <2>1 DEF CountStays
<1>7. CASE UNCHANGED vars
  <2>1. Same /\ pc'[Producer] = pc[Producer] BY <1>7 DEF vars
  <2> QED BY <2>1 DEF CountStays
<1>8. CASE \E v \in Values : PushCall(v) BY <1>1, <1>8 DEF CountStays
<1> QED BY <1>2, <1>3, <1>4, <1>5, <1>6, <1>7, <1>8, Zenon DEF Push, Pop

LEMMA CallKeptByEnds ==
  ASSUME IInv, IInv', NEW o \in Observers, CallOK(o), pc[o] # "idle", CallKept(o),
         CountStays(o) \/ CountGrows(o) \/ CountShrinks(o)
  PROVE  CallOK(o)'
<1> DEFINE w == mWriteIdx  r == mReadIdx  f == first[o]
<1>t. /\ w \in Indices /\ r \in Indices /\ f \in Indices /\ w' \in Indices /\ r' \in Indices
      /\ Count \in Nat /\ Lead(o) \in Nat /\ Count' \in Nat /\ Lead(o)' \in Nat
      /\ first'[o] = f
  BY IndexFacts, DistanceFacts DEF IInv, TypeOK, Count, Lead, CallKept
<1>h. /\ Modulus \in Nat /\ BufferSize \in Nat \ {0} /\ Capacity \in Nat
      /\ Capacity < BufferSize /\ Capacity < Modulus - 1
  BY HalfTheIndices
<1>c. /\ Count \in seen[o]
      /\ pc[Producer] # "idle" => Lead(o) < Modulus - 1
      /\ ReadsFirst(o) => Count <= Lead(o)
      /\ pc[o] = "again" /\ Bracket(o) = f => Pair(o) \in seen[o]
  BY DEF CallOK
<1>k. /\ pc'[o] = pc[o] /\ ReadsFirst(o)' = ReadsFirst(o) /\ Pair(o)' = Pair(o)
      /\ pc[o] = "again" /\ attempt[o] % 2 # 0 => ReadsFirst(o)
  BY DEF CallKept, ReadsFirst, Pair
<1> SUFFICES /\ Count' \in seen'[o]
             /\ pc'[Producer] # "idle" => Lead(o)' < Modulus - 1
             /\ ReadsFirst(o)' => Count' <= Lead(o)'
             /\ pc'[o] = "again" /\ Bracket(o)' = f => Pair(o)' \in seen'[o]
  BY <1>t DEF CallOK
<1>1. CASE CountStays(o)
  <2>1. Count' = Count /\ Lead(o)' = Lead(o) /\ Bracket(o)' = Bracket(o)
    BY <1>1, <1>t DEF CountStays, Count, Lead, Bracket, CallKept
  <2>2. seen'[o] = seen[o] BY <1>1 DEF CountStays
  <2>3. pc'[Producer] # "idle" => Lead(o)' < Modulus - 1
    BY <1>1, <1>c, <1>h, <1>t, <2>1 DEF CountStays
  <2> QED BY <1>c, <1>k, <2>1, <2>2, <2>3
<1>2. CASE CountGrows(o)
  <2>1. Lead(o) < Modulus - 1 BY <1>2, <1>c DEF CountGrows
  <2>2. Lead(o)' = Lead(o) + 1 BY <1>2, <1>t, <2>1, DistanceFacts DEF CountGrows, Lead
  <2>3. Count' = Count + 1
    <3>1. Distance(w, mCachedReadIdx) < Capacity /\ Count <= Distance(w, mCachedReadIdx)
          /\ Distance(w, mCachedReadIdx) \in Nat
      BY <1>2, IndexFacts DEF IInv, TypeOK, CachesOK, CountGrows, Count
    <3>2. Count < Modulus - 1 BY <1>h, <1>t, <3>1
    <3> QED BY <1>2, <1>t, <3>2, DistanceFacts DEF CountGrows, Count
  <2>4. ASSUME pc[o] = "again", Bracket(o)' = f PROVE Pair(o) \in seen[o]
    <3>1. w' # f
      <4>1. Distance(w', f) # 0 BY <1>t, <2>2 DEF Lead
      <4> QED BY <1>t, <4>1, DistanceFacts
    <3>2. Bracket(o) = f BY <1>2, <2>4, <3>1 DEF Bracket, CallKept, CountGrows
    <3> QED BY <1>c, <2>4, <3>2
  <2> QED BY <1>2, <1>c, <1>k, <1>t, <2>2, <2>3, <2>4 DEF CountGrows
<1>3. CASE CountShrinks(o)
  <2>1. r # w BY <1>3, CopySaysNonEmpty DEF IInv, CachesOK, CountShrinks
  <2>2. Count' = Count - 1 BY <1>3, <1>t, <2>1, DistanceFacts DEF Count, CountShrinks
  <2>3. Lead(o)' = Lead(o) BY <1>3, <1>t DEF Lead, CountShrinks
  <2>4. ASSUME pc[o] = "again", Bracket(o)' = f PROVE Pair(o) \in seen[o]
    <3>1. CASE attempt[o] % 2 = 0
      <4>1. Bracket(o) = f BY <1>3, <2>4, <3>1 DEF Bracket, CallKept, CountShrinks
      <4> QED BY <1>c, <2>4, <4>1
    <3>2. CASE attempt[o] % 2 # 0
      <4>1. r' = f BY <2>4, <3>2 DEF Bracket, CallKept
      <4>2. Count' = Lead(o) BY <1>3, <4>1 DEF Count, Lead, CountShrinks
      <4>3. Count <= Lead(o) BY <1>c, <1>k, <2>4, <3>2
      <4> QED BY <1>t, <2>2, <4>2, <4>3
    <3> QED BY <3>1, <3>2
  <2>5. pc'[Producer] = pc[Producer] /\ seen'[o] = seen[o] \cup {Count'} BY <1>3 DEF CountShrinks
  <2> QED BY <1>c, <1>k, <1>t, <2>2, <2>3, <2>4, <2>5
<1> QED BY <1>1, <1>2, <1>3

(* An observer's own step. *)
LEMMA CallKeptByOwner ==
  ASSUME IInv, NEW o \in Observers, CallOK(o), Observe(o)
  PROVE  CallOK(o)'
<1>t. /\ mWriteIdx \in Indices /\ mReadIdx \in Indices /\ first[o] \in Indices
      /\ DOMAIN pc = Threads /\ o \in Threads /\ Producer \in Threads /\ o # Producer
      /\ DOMAIN first = Observers /\ DOMAIN second = Observers /\ DOMAIN seen = Observers
      /\ DOMAIN attempt = Observers /\ attempt[o] \in Nat
      /\ Count \in Nat /\ Count <= Capacity
  BY ThreadsAssumption, IndexFacts DEF IInv, TypeOK, Threads, Count
<1>e. /\ mWriteIdx' = mWriteIdx /\ mReadIdx' = mReadIdx /\ Count' = Count
      /\ pc'[Producer] = pc[Producer]
  BY ObserveFrame DEF IInv, indices, Count
<1>z. Distance(mWriteIdx, mWriteIdx) = 0 /\ Distance(mWriteIdx, mReadIdx) = Count
  BY <1>t, DistanceFacts DEF Count
<1>h. /\ Modulus \in Nat /\ BufferSize \in Nat \ {0} /\ Capacity \in Nat
      /\ Capacity < BufferSize /\ Capacity < Modulus - 1
  BY HalfTheIndices
<1> USE <1>t DEF GoTo, At
<1>1. ASSUME NEW index \in {mWriteIdx, mReadIdx}, NEW label, LoadFirst(o, index, label),
             label \in {"fallback", "between", "emptyWrite", "emptyRead", "fullRead"},
             label = "fallback" => index = mReadIdx,
             label = "between" => index = Bracket(o) /\ attempt' = attempt
      PROVE  CallOK(o)'
  <2>1. /\ pc'[o] = label /\ first'[o] = index /\ Count' \in seen'[o]
    BY <1>1, <1>e DEF LoadFirst
  <2>2. Lead(o)' \in {0, Count} /\ (index = mReadIdx => Lead(o)' = Count)
    BY <1>1, <1>e, <1>z, <2>1 DEF Lead
  <2>3. Lead(o)' < Modulus - 1 BY <1>h, <2>2
  <2>4. ReadsFirst(o)' => index = mReadIdx BY <1>1, <2>1 DEF ReadsFirst, Bracket
  <2> QED BY <1>1, <1>e, <2>1, <2>2, <2>3, <2>4 DEF CallOK
<1>2. CASE SizeLoads(o)
  <2>1. Bracket(o) \in {mWriteIdx, mReadIdx} BY DEF Bracket
  <2> QED BY <1>1, <1>2, <2>1 DEF SizeLoads
<1>3. CASE SizeGivesUp(o) BY <1>1, <1>3 DEF SizeGivesUp
<1>4. CASE EmptyLoads(o) BY <1>1, <1>4 DEF EmptyLoads
<1>5. CASE FullLoads(o) BY <1>1, <1>5 DEF FullLoads
<1>6. ASSUME Returns(o) PROVE CallOK(o)'
  BY <1>6 DEF Returns, CallOK
<1>7. CASE SizeLoadsBetween(o)
  <2>1. /\ pc[o] = "between" /\ pc'[o] = "again" /\ second'[o] = Middle(o)
        /\ first' = first /\ attempt' = attempt /\ seen' = seen
    BY <1>7 DEF SizeLoadsBetween
  <2>2. Lead(o)' = Lead(o) /\ Bracket(o)' = Bracket(o) /\ (ReadsFirst(o)' <=> ReadsFirst(o))
    BY <1>e, <2>1 DEF Lead, Bracket, ReadsFirst
  <2>3. Bracket(o) = first[o] => Pair(o)' = Count
    BY <1>z, <2>1 DEF Bracket, Middle, Pair
  <2> QED BY <1>e, <2>1, <2>2, <2>3 DEF CallOK
<1>8. CASE SizeRetries(o)
  <2>1. /\ pc[o] = "again" /\ pc'[o] \in {"retry", "exhausted"} /\ first' = first /\ seen' = seen
    BY <1>8 DEF SizeRetries
  <2>2. Lead(o)' = Lead(o) BY <1>e, <2>1 DEF Lead
  <2> QED BY <1>e, <2>1, <2>2 DEF CallOK, ReadsFirst
<1> QED
  BY <1>2, <1>3, <1>4, <1>5, <1>6, <1>7, <1>8
     DEF Observe, SizeReturns, SizeEstimates, EmptyReturns, FullReturns

(* The step of another observer. *)
LEMMA CallKeptByOthers ==
  ASSUME IInv, NEW o \in Observers, CallOK(o), NEW u \in Observers \ {o}, Observe(u)
  PROVE  CallOK(o)'
<1>1. /\ mWriteIdx' = mWriteIdx /\ mReadIdx' = mReadIdx /\ pc'[Producer] = pc[Producer]
  BY ObserveFrame DEF IInv, indices
<1>2. CallKept(o) /\ seen'[o] = seen[o]
  <2>1. /\ pc'[o] = pc[o] /\ attempt'[o] = attempt[o] /\ first'[o] = first[o]
        /\ second'[o] = second[o] /\ seen'[o] = seen[o]
    <3>1. /\ o # u /\ o \in Threads /\ DOMAIN pc = Threads /\ DOMAIN attempt = Observers
          /\ DOMAIN first = Observers /\ DOMAIN second = Observers /\ DOMAIN seen = Observers
      BY DEF IInv, TypeOK, Threads
    <3> USE <3>1 DEF GoTo, LoadFirst, Returns
    <3>2. CASE SizeLoads(u) BY <3>2 DEF SizeLoads
    <3>3. CASE SizeLoadsBetween(u) BY <3>3 DEF SizeLoadsBetween
    <3>4. CASE SizeRetries(u) BY <3>4 DEF SizeRetries
    <3>5. CASE SizeGivesUp(u) BY <3>5 DEF SizeGivesUp
    <3>6. CASE EmptyLoads(u) BY <3>6 DEF EmptyLoads
    <3>7. CASE FullLoads(u) BY <3>7 DEF FullLoads
    <3>8. CASE Returns(u) BY <3>8
    <3> QED BY <3>2, <3>3, <3>4, <3>5, <3>6, <3>7, <3>8
            DEF Observe, SizeReturns, SizeEstimates, EmptyReturns, FullReturns
  <2> QED BY <2>1 DEF CallKept
<1>3. /\ Count' = Count /\ Lead(o)' = Lead(o) /\ (ReadsFirst(o)' <=> ReadsFirst(o))
      /\ Bracket(o)' = Bracket(o) /\ Pair(o)' = Pair(o)
  BY <1>1, <1>2 DEF Count, Lead, ReadsFirst, Bracket, Pair, CallKept
<1> QED BY <1>1, <1>2, <1>3 DEF CallOK, CallKept

LEMMA CallsStep ==
  ASSUME IInv, IInv', \A o \in Observers : CallOK(o), [Next]_vars
  PROVE  \A o \in Observers : CallOK(o)'
<1> SUFFICES ASSUME NEW o \in Observers PROVE CallOK(o)'
  OBVIOUS
<1>1. CASE Push \/ Pop \/ UNCHANGED vars
  <2>1. CASE pc[o] # "idle"
    BY <1>1, <2>1, EndsStep, CallKeptByEnds DEF IInv
  <2>2. CASE pc[o] = "idle"
    <3>1. pc'[o] = pc[o]
      <4>1. /\ DOMAIN pc = Threads /\ o \in Threads /\ o # Producer /\ o # Consumer
        BY ThreadsAssumption DEF IInv, TypeOK, Threads
      <4> QED BY <1>1, <4>1 DEF Push, PushCall, PushFails, PushRefreshes, PushRefresh,
                PushCopies, PushThrows, PushStores, Pop, PopCall, PopFails, PopRefreshes,
                PopRefresh, PopMoves, PopThrows, PopStores, front, vars, GoTo
    <3> QED BY <2>2, <3>1 DEF CallOK
  <2> QED BY <2>1, <2>2
<1>2. CASE Clear
  <2>1. pc'[o] = "idle" BY <1>2 DEF Clear, At, Threads
  <2> QED BY <2>1 DEF CallOK
<1>3. CASE \E u \in Observers : Observe(u) BY <1>3, CallKeptByOwner, CallKeptByOthers
<1> QED BY <1>1, <1>2, <1>3 DEF Next

(* size() takes no lock and loads its two indices one after the other.      *)
(* Whatever push() and pop() do between the loads, it returns a count the   *)
(* buffer had during the call, or, after four failed attempts, an estimate  *)
(* that is not below every one of them.                                     *)
THEOREM SizeFaithful == Spec => SizeIsFaithful
<1> DEFINE Calls == \A o \in Observers : CallOK(o)
           A == \A o \in Observers :
                  /\ \A n \in Indices : SizeReturns(o, n) => n \in seen[o]
                  /\ \A n \in 0 .. Capacity : SizeEstimates(o, n) => \E k \in seen[o] : k <= n
<1>1. Init => Calls BY DEF Init, CallOK, Threads
<1>2. IInv /\ IInv' /\ Calls /\ [Next]_vars => Calls' BY CallsStep
<1>3. IInv /\ Calls => A
  <2> SUFFICES ASSUME IInv, NEW o \in Observers, CallOK(o)
               PROVE  /\ \A n \in Indices : SizeReturns(o, n) => n \in seen[o]
                      /\ \A n \in 0 .. Capacity :
                           SizeEstimates(o, n) => \E k \in seen[o] : k <= n
    OBVIOUS
  <2>1. ASSUME NEW n \in Indices, SizeReturns(o, n) PROVE n \in seen[o]
    BY <2>1 DEF SizeReturns, CallOK, Pair, At
  <2>2. ASSUME NEW n \in 0 .. Capacity, SizeEstimates(o, n) PROVE \E k \in seen[o] : k <= n
    <3>1. Count \in Nat /\ Count <= Capacity /\ Lead(o) \in Nat /\ Capacity \in Nat
      BY IndexFacts DEF IInv, TypeOK, Count, Lead
    <3>2. Count \in seen[o] /\ Count <= Lead(o)
      BY <2>2 DEF SizeEstimates, CallOK, ReadsFirst, At
    <3>3. n = IF Lead(o) <= Capacity THEN Lead(o) ELSE Capacity
      BY <2>2 DEF SizeEstimates, Lead
    <3> QED BY <3>1, <3>2, <3>3
  <2> QED BY <2>1, <2>2
<1> HIDE DEF Calls, A
<1>4. Spec => [][A]_vars BY Inductive, <1>1, <1>2, <1>3, PTL DEF Spec
<1> QED BY <1>4 DEF A, SizeIsFaithful

-----------------------------------------------------------------------------
(* The buffer implements BoundedFifo. *)

(* The queued elements, as a sequence. *)
ContentsOK ==
  /\ Contents \in Seq(Values) /\ Len(Contents) = Count
  /\ \A i \in 1 .. Count : Contents[i] = mBuffer[SlotOf(mReadIdx + i - 1)]

LEMMA ContentsIs == IInv => ContentsOK
<1> SUFFICES ASSUME IInv PROVE ContentsOK OBVIOUS
<1>1. Count \in Nat /\ mReadIdx \in Nat BY IndexFacts DEF IInv, TypeOK, Count
<1>2. ASSUME NEW i \in 1 .. Count PROVE mBuffer[SlotOf(mReadIdx + i - 1)] \in Values
  <2>1. i - 1 \in 0 .. Count - 1 /\ mReadIdx + i - 1 = mReadIdx + (i - 1) BY <1>1
  <2> QED BY <2>1 DEF IInv, SlotsOK
<1>3. Contents \in [1 .. Count -> Values] BY <1>2 DEF Contents
<1>4. Contents \in Seq(Values) /\ Len(Contents) = Count BY <1>1, <1>3
<1> QED BY <1>1, <1>4 DEF Contents, ContentsOK

LEMMA ContentsNext == IInv' => ContentsOK'
  BY ContentsIs, PTL

(* A tail and an append at the other end do not interfere. *)
LEMMA TailOfAppend ==
  ASSUME NEW S, NEW s \in Seq(S), s # << >>, NEW v \in S
  PROVE  Tail(Append(s, v)) = Append(Tail(s), v)
  OBVIOUS

LEMMA FifoInit == Init => Fifo!Init
<1> SUFFICES ASSUME Init PROVE Fifo!Init OBVIOUS
<1>1. Contents = << >>
  <2>1. Count = 0 BY IndexFacts, DistanceFacts DEF Init, Count
  <2>2. IInv BY InitInv
  <2> QED BY <2>1, <2>2, ContentsIs, EmptySeq DEF ContentsOK
<1>2. ~Committed BY ThreadsAssumption DEF Init, Committed, Threads
<1> QED BY <1>1, <1>2 DEF Init, Fifo!Init

LEMMA FifoStep == IInv /\ IInv' /\ [Next]_vars => [Fifo!Next \/ Clear]_(Fifo!vars)
<1> SUFFICES ASSUME IInv, IInv', [Next]_vars PROVE [Fifo!Next \/ Clear]_(Fifo!vars)
  OBVIOUS
<1> DEFINE w == mWriteIdx  r == mReadIdx
<1>t. /\ w \in Indices /\ r \in Indices /\ w' \in Indices /\ r' \in Indices
      /\ w \in Nat /\ r \in Nat /\ Count \in Nat /\ Count' \in Nat
      /\ Count <= Capacity /\ Capacity \in Nat /\ (Count = 0 <=> r = w)
      /\ Producer # Consumer
      /\ DOMAIN pc = Threads /\ Producer \in Threads /\ Consumer \in Threads
      /\ item \in [{Producer, Consumer} -> Values \cup {NoValue}]
      /\ SlotOf(w) \in Slots /\ SlotOf(r) \in Slots
  BY ThreadsAssumption, IndexFacts, DistanceFacts, SlotFacts DEF IInv, TypeOK, Threads, Count
<1>c. /\ Contents \in Seq(Values) /\ Len(Contents) = Count
      /\ \A i \in 1 .. Count : Contents[i] = mBuffer[SlotOf(r + i - 1)]
      /\ Contents' \in Seq(Values) /\ Len(Contents') = Count'
      /\ \A i \in 1 .. Count' : Contents'[i] = mBuffer'[SlotOf(r' + i - 1)]
  <2>1. ContentsOK BY ContentsIs
  <2>2. ContentsOK' BY ContentsNext
  <2> QED BY <2>1, <2>2 DEF ContentsOK
<1>m. Committed => Contents # << >> /\ r # w /\ item[Consumer] = Head(Contents)
  <2> SUFFICES ASSUME Committed PROVE Contents # << >> /\ r # w /\ item[Consumer] = Head(Contents)
    OBVIOUS
  <2>1. r # w BY CopySaysNonEmpty DEF Committed, IInv, CachesOK
  <2>2. 1 \in 1 .. Count /\ r + 1 - 1 = r BY <1>t, <2>1
  <2>3. Contents # << >> /\ Head(Contents) = mBuffer[SlotOf(r)] BY <1>c, <2>2
  <2> QED BY <2>1, <2>3 DEF Committed, IInv, SlotsOK
<1>p. ASSUME Contents' = Contents, Committed' = Committed, item'[Consumer] = item[Consumer],
             popped' = popped
      PROVE  UNCHANGED Fifo!vars
  BY <1>p DEF Fifo!vars
<1>u. ASSUME UNCHANGED <<indices, mBuffer>> PROVE Contents' = Contents
  BY <1>u DEF Contents, Count, indices
<1>1. CASE \E v \in Values : PushCall(v)
  BY <1>1, <1>t, <1>p, <1>u DEF PushCall, At, GoTo, Committed
<1>2. CASE PushFails \/ PushRefreshes
  BY <1>2, <1>t, <1>p, <1>u DEF PushFails, PushRefreshes, PushRefresh, At, GoTo, Committed
<1>3. CASE PushCopies \/ PushThrows
  <2>1. PICK x :
           /\ UNCHANGED <<indices, popped, item>> /\ pc'[Consumer] = pc[Consumer]
           /\ mBuffer' = [mBuffer EXCEPT ![SlotOf(w)] = x]
           /\ pc[Producer] = "copy"
    BY <1>3, <1>t DEF PushCopies, PushThrows, At, GoTo
  <2>2. Count < Capacity
    <3>1. Distance(w, mCachedReadIdx) \in Nat BY IndexFacts DEF IInv, TypeOK
    <3> QED BY <1>t, <2>1, <3>1 DEF IInv, CachesOK, Count
  <2>3. Count' = Count /\ r' = r BY <2>1 DEF indices, Count
  <2>4. ASSUME NEW i \in 1 .. Count PROVE Contents'[i] = Contents[i]
    <3>1. i - 1 \in 0 .. Count - 1 /\ r + i - 1 = r + (i - 1) /\ i - 1 \in Nat BY <1>t
    <3>2. SlotOf(r + i - 1) # SlotOf(w) /\ SlotOf(r + i - 1) \in Slots
      BY <1>t, <2>2, <3>1, WriteSlotIsFree, SlotFacts DEF IInv
    <3>3. mBuffer'[SlotOf(r + i - 1)] = mBuffer[SlotOf(r + i - 1)]
      BY <2>1, <3>2 DEF IInv, TypeOK
    <3> QED BY <1>c, <2>3, <3>3
  <2>5. Contents' = Contents BY <1>c, <2>3, <2>4, SeqEqual
  <2> QED BY <1>p, <2>1, <2>5 DEF Committed
<1>4. CASE PushStores
  <2>1. /\ w' = Successor(w) /\ r' = r /\ UNCHANGED <<mBuffer, item, popped>>
        /\ pc[Producer] = "store" /\ Committed' = Committed
    BY <1>4, <1>t DEF PushStores, At, GoTo, Committed
  <2> DEFINE v == item[Producer]
  <2>2. v \in Values /\ mBuffer[SlotOf(w)] = v BY <2>1 DEF IInv, PcOK, SlotsOK
  <2>3. Count < Capacity /\ Count' = Count + 1
    <3>1. Distance(w, mCachedReadIdx) \in Nat /\ Modulus \in Nat /\ Capacity < Modulus
      BY IndexFacts DEF IInv, TypeOK
    <3>2. Count < Capacity BY <1>t, <2>1, <3>1 DEF IInv, CachesOK, Count
    <3>3. Count < Modulus - 1 BY <1>t, <3>1, <3>2
    <3> QED BY <1>t, <2>1, <3>2, <3>3, DistanceFacts DEF Count
  <2>4. Contents' = Append(Contents, v)
    <3>1. mBuffer'[SlotOf(r' + (Count + 1) - 1)] = v
      <4>1. SlotOf(r + Count) = SlotOf(w) BY <1>t, SlotFacts DEF Count
      <4>2. r + (Count + 1) - 1 = r + Count BY <1>t
      <4> QED BY <2>1, <2>2, <4>1, <4>2
    <3> DEFINE a == Append(Contents, v)
    <3>2. /\ a \in Seq(Values) /\ Len(a) = Count + 1 /\ a[Count + 1] = v
          /\ \A i \in 1 .. Count : a[i] = Contents[i]
      BY <1>c, <2>2, AppendProperties
    <3> HIDE DEF a, v
    <3>3. ASSUME NEW i \in 1 .. Count + 1 PROVE Contents'[i] = a[i]
      <4>1. CASE i = Count + 1 BY <1>t, <1>c, <2>3, <3>1, <3>2, <4>1
      <4>2. CASE i \in 1 .. Count BY <1>t, <1>c, <2>1, <2>3, <3>2, <4>2
      <4> QED BY <1>t, <4>1, <4>2
    <3>4. Contents' = a BY <1>c, <2>3, <3>2, <3>3, SeqEqual
    <3> QED BY <3>4 DEF a
  <2> HIDE DEF v
  <2>5. CASE ~Committed
    <3>1. Len(Contents) < Capacity BY <1>c, <2>3
    <3>2. Fifo!Put(v) BY <2>1, <2>4, <2>5, <3>1 DEF Fifo!Put
    <3> QED BY <2>2, <3>2 DEF Fifo!Next
  <2>6. CASE Committed
    <3>1. Tail(Contents') = Append(Tail(Contents), v) BY <1>c, <1>m, <2>2, <2>4, <2>6, TailOfAppend
    <3>2. Len(Tail(Contents)) < Capacity BY <1>c, <1>m, <1>t, <2>6
    <3>3. Fifo!Put(v) BY <2>1, <2>6, <3>1, <3>2 DEF Fifo!Put
    <3> QED BY <2>2, <3>3 DEF Fifo!Next
  <2> QED BY <2>5, <2>6
<1>5. CASE PopCall BY <1>5, <1>t, <1>p, <1>u DEF PopCall, At, GoTo, Committed
<1>6. CASE PopFails \/ PopRefreshes
  BY <1>6, <1>t, <1>p, <1>u DEF PopFails, PopRefreshes, PopRefresh, At, GoTo, Committed
<1>7. CASE PopMoves
  <2>1. /\ UNCHANGED <<indices, mBuffer, popped>> /\ ~Committed /\ Committed'
        /\ item'[Consumer] = mBuffer[SlotOf(r)] /\ pc[Consumer] = "move"
    BY <1>7, <1>t DEF PopMoves, At, GoTo, Committed
  <2>2. r # w BY <2>1, CopySaysNonEmpty DEF IInv, CachesOK
  <2>3. 1 \in 1 .. Count /\ r + 1 - 1 = r BY <1>t, <2>2
  <2>4. Contents # << >> /\ Head(Contents) = mBuffer[SlotOf(r)] BY <1>c, <2>3
  <2>5. Contents' = Contents BY <1>u, <2>1
  <2>6. Fifo!Take(Consumer) BY <2>1, <2>4, <2>5 DEF Fifo!Take
  <2> QED BY <2>6 DEF Fifo!Next
<1>8. CASE PopThrows BY <1>8, <1>t, <1>p, <1>u DEF PopThrows, At, GoTo, Committed
<1>9. CASE PopStores
  <2>1. /\ r' = Successor(r) /\ w' = w /\ UNCHANGED <<mBuffer, item>>
        /\ Committed /\ ~Committed' /\ popped' = item[Consumer]
    BY <1>9, <1>t DEF PopStores, At, GoTo, Committed
  <2>2. Contents # << >> /\ r # w /\ item[Consumer] = Head(Contents) BY <1>m, <2>1
  <2>3. Count' = Count - 1 BY <1>t, <2>1, <2>2, DistanceFacts DEF Count
  <2>4. /\ Tail(Contents) \in Seq(Values) /\ Len(Tail(Contents)) = Count - 1
        /\ \A i \in 1 .. Count - 1 : Tail(Contents)[i] = Contents[i + 1]
        /\ item[Consumer] \in Values
    BY <1>c, <2>2, HeadTailProperties
  <2>5. ASSUME NEW i \in 1 .. Count - 1 PROVE Contents'[i] = Tail(Contents)[i]
    <3>1. i - 1 \in Nat /\ r' + i - 1 = r' + (i - 1) /\ r + 1 + (i - 1) = r + (i + 1) - 1
          /\ i + 1 \in 1 .. Count
      BY <1>t, IndexFacts
    <3>2. SlotOf(r' + i - 1) = SlotOf(r + (i + 1) - 1) BY <1>t, <2>1, <3>1, SlotFacts
    <3> QED BY <1>c, <2>1, <2>3, <2>4, <3>1, <3>2
  <2>6. Contents' = Tail(Contents) BY <1>c, <2>3, <2>4, <2>5, SeqEqual
  <2>7. Fifo!HandOver(Consumer) BY <2>1, <2>4, <2>6, ValuesAssumption DEF Fifo!HandOver
  <2> QED BY <2>7 DEF Fifo!Next
<1>10. CASE front BY <1>10, <1>p, <1>u DEF front, Committed
<1>11. CASE Clear BY <1>11
<1>12. CASE \E o \in Observers : Observe(o)
  BY <1>12, <1>p, <1>u, ObserveFrame DEF IInv, Committed
<1>13. CASE UNCHANGED vars BY <1>13, <1>p, <1>u DEF vars, Committed
<1> QED
  BY <1>1, <1>2, <1>3, <1>4, <1>5, <1>6, <1>7, <1>8, <1>9, <1>10, <1>11, <1>12, <1>13
     DEF Next, Push, Pop

(* Every run of the buffer is a run of a FIFO bounded by Capacity that only *)
(* clear() may empty: no push(), pop(), exception or wrap of an index loses,*)
(* repeats or reorders an element.                                          *)
THEOREM BufferImplementsFifo == Spec => ImplementsFifo
<1>1. IInv /\ IInv' /\ [Next]_vars => [Fifo!Next \/ Clear]_(Fifo!vars) BY FifoStep
<1> QED BY Inductive, FifoInit, <1>1, PTL DEF Spec, ImplementsFifo


-----------------------------------------------------------------------------
(* The arithmetic of positions that wrap. *)

LEMMA RingSizes ==
  /\ mCapacity \in Nat \ {0} /\ PosModulus \in Nat \ {0}
  /\ mCapacity < PosModulus /\ PosModulus % mCapacity = 0
  /\ Positions \subseteq Nat /\ 0 \in Positions
<1>1. /\ PosModulus \in Nat \ {0} /\ mCapacity \in 1 .. PosModulus \div 2
      /\ PosModulus % mCapacity = 0
  BY RingAssumption
<1>2. PosModulus \div 2 \in Nat /\ PosModulus \div 2 < PosModulus BY <1>1, Z3
<1>3. mCapacity \in Nat \ {0} /\ mCapacity < PosModulus
  <2> DEFINE h == PosModulus \div 2
  <2>1. h \in Nat /\ h < PosModulus /\ mCapacity \in 1 .. h BY <1>1, <1>2
  <2> HIDE DEF h
  <2> QED BY <1>1, <2>1
<1> QED BY <1>1, <1>3 DEF Positions

NextPos(p) == (p + 1) % PosModulus

(* Distances are lengths; they grow and shrink by one with the positions. *)
LEMMA AheadFacts ==
  ASSUME NEW w \in Positions, NEW r \in Positions
  PROVE  /\ Ahead(w, r) \in 0 .. PosModulus - 1 /\ Ahead(w, r) \in Nat
         /\ Ahead(w, r) = 0 <=> w = r
         /\ NextPos(w) \in Positions
         /\ Ahead(w, r) < mCapacity => Ahead(NextPos(w), r) = Ahead(w, r) + 1
         /\ w # r => Ahead(w, NextPos(r)) = Ahead(w, r) - 1
<1>1. PosModulus \in Nat \ {0} /\ w \in 0 .. PosModulus - 1 /\ r \in 0 .. PosModulus - 1
      /\ mCapacity \in Nat \ {0} /\ mCapacity < PosModulus
  BY RingSizes DEF Positions
<1> DEFINE M == PosModulus
<1>2. \A a, b : Ahead(a, b) = Wrap(a - b, M) /\ NextPos(a) = Wrap(a + 1, M)
  BY Zenon DEF Ahead, NextPos, Wrap
<1>3. NextPos(w) = Wrap(w + 1, M) /\ NextPos(r) = Wrap(r + 1, M)
      /\ Ahead(w, r) = Wrap(w - r, M)
      /\ Ahead(NextPos(w), r) = Wrap(Wrap(w + 1, M) - r, M)
      /\ Ahead(w, NextPos(r)) = Wrap(w - Wrap(r + 1, M), M)
  BY <1>2, Zenon
<1> HIDE DEF M
<1>4. /\ Wrap(w - r, M) \in 0 .. M - 1
      /\ Wrap(w - r, M) = 0 <=> w = r
      /\ Wrap(w + 1, M) \in 0 .. M - 1
      /\ Wrap(w - r, M) < M - 1 => Wrap(Wrap(w + 1, M) - r, M) = Wrap(w - r, M) + 1
      /\ w # r => Wrap(w - Wrap(r + 1, M), M) = Wrap(w - r, M) - 1
  <2>1. M \in Nat \ {0} /\ w \in 0 .. M - 1 /\ r \in 0 .. M - 1 BY <1>1 DEF M
  <2> QED BY <2>1, WrapFacts
<1>5. M \in Nat \ {0} /\ mCapacity <= M - 1 BY <1>1 DEF M
<1>6. /\ Ahead(w, r) \in 0 .. M - 1 /\ (Ahead(w, r) = 0 <=> w = r) /\ NextPos(w) \in 0 .. M - 1
      /\ Ahead(w, r) < M - 1 => Ahead(NextPos(w), r) = Ahead(w, r) + 1
      /\ w # r => Ahead(w, NextPos(r)) = Ahead(w, r) - 1
  BY <1>3, <1>4
<1>7. Ahead(w, r) < mCapacity => Ahead(w, r) < M - 1 BY <1>1, <1>5, <1>6
<1>8. Ahead(w, r) \in Nat BY <1>5, <1>6
<1> QED BY <1>6, <1>7, <1>8 DEF Positions, M

(* The cell of a position does not depend on how often it has wrapped. *)
LEMMA CellFacts ==
  ASSUME NEW w \in Positions, NEW r \in Positions
  PROVE  /\ Cell(w) \in 0 .. mCapacity - 1
         /\ Cell(r + Ahead(w, r)) = Cell(w)
         /\ \A i \in Nat : Cell(NextPos(r) + i) = Cell(r + 1 + i) /\ Cell(r + i) \in 0 .. mCapacity - 1
<1>1. /\ PosModulus \in Nat \ {0} /\ w \in 0 .. PosModulus - 1 /\ r \in 0 .. PosModulus - 1
      /\ mCapacity \in Nat \ {0} /\ PosModulus % mCapacity = 0
  BY RingSizes DEF Positions
<1> DEFINE B == mCapacity
<1> HIDE DEF B
<1>2. SameSlots(B, PosModulus, w, r)
  <2>1. WholeLaps(B, PosModulus) BY <1>1 DEF B, WholeLaps
  <2> QED BY <1>1, <2>1, WrapSlots
<1> QED BY <1>2, Zenon DEF SameSlots, Cell, Ahead, NextPos, B

(* Positions less than a lap apart have different cells. *)
LEMMA CellsDiffer ==
  ASSUME NEW r \in Positions, NEW i \in Nat, NEW n \in Nat, i < n, n - i < mCapacity
  PROVE  Cell(r + i) # Cell(r + n)
<1> DEFINE j == r + i
           k == r + n
<1>1. r \in Nat /\ mCapacity \in Nat \ {0} BY RingSizes
<1>2. j \in Nat /\ k \in Nat /\ j < k /\ k - j < mCapacity BY <1>1
<1> HIDE DEF j, k
<1>3. j % mCapacity # k % mCapacity BY <1>1, <1>2, ModDistinct
<1> QED BY <1>3 DEF Cell, j, k

-----------------------------------------------------------------------------
(* The inductive invariant. *)

RingVarsOK ==
  /\ mWritePos \in Positions /\ mReadPos \in Positions
  /\ mCachedRead \in Positions /\ mCachedWrite \in Positions
  /\ mSlotArray \in [0 .. mCapacity - 1 -> RingValues \cup {NoRingValue}]
  /\ push \in [at : {"idle", "refresh", "copy", "publish"}, value : RingValues \cup {NoRingValue}]
  /\ pop \in [at : {"idle", "refresh", "copy", "publish"}, op : {"pop", "peek"},
              value : RingValues \cup {NoRingValue}]
  /\ lastPopped \in RingValues \cup {NoRingValue}

(* A cached position errs on the safe side only: the producer's copy of the *)
(* read position makes the ring look at least as full as it is, and the     *)
(* consumer's copy of the write position at least as empty.                 *)
RingCachesOK ==
  /\ Ahead(mWritePos, mCachedRead) <= mCapacity
  /\ Ahead(mWritePos, mReadPos) <= Ahead(mWritePos, mCachedRead)
  /\ Ahead(mCachedWrite, mReadPos) <= Ahead(mWritePos, mReadPos)
  /\ push.at \in {"copy", "publish"} => Ahead(mWritePos, mCachedRead) < mCapacity
  /\ pop.at \in {"copy", "publish"} => mCachedWrite # mReadPos

(* What the cells hold, and what the two threads have of them. *)
RingSlotsOK ==
  /\ \A i \in 0 .. Held - 1 : mSlotArray[Cell(mReadPos + i)] \in RingValues
  /\ push.at # "idle" => push.value \in RingValues
  /\ push.at = "publish" => mSlotArray[Cell(mWritePos)] = push.value
  /\ pop.value = IF pop.at = "publish" THEN mSlotArray[Cell(mReadPos)] ELSE NoRingValue

(* A thread that observes stays out of its own operations meanwhile, so one *)
(* of its two positions is the current one and the other one was.           *)
LooksOK ==
  look # NoLook =>
    /\ look \in [by : Lookers, write : Positions, seen : SUBSET (0 .. mCapacity)]
    /\ Held \in look.seen
    /\ look.by = "producer" => push.at = "idle" /\ look.write = mWritePos
    /\ look.by = "consumer" => pop.at = "idle" /\ Ahead(look.write, mReadPos) \in look.seen

RingIInv == RingVarsOK /\ RingCachesOK /\ RingSlotsOK /\ LooksOK

-----------------------------------------------------------------------------
(* What the invariant says in numbers: the cells are owned. *)
LEMMA RingCounts ==
  ASSUME RingIInv
  PROVE  /\ mCapacity \in Nat \ {0} /\ mWritePos \in Positions /\ mReadPos \in Positions
         /\ mCachedRead \in Positions /\ mCachedWrite \in Positions
         /\ mReadPos \in Nat /\ Held \in Nat /\ Held <= mCapacity
         /\ Ahead(mWritePos, mCachedRead) \in Nat /\ Ahead(mCachedWrite, mReadPos) \in Nat
         /\ (Held = 0 <=> mWritePos = mReadPos)
         /\ (push.at \in {"copy", "publish"} => Held < mCapacity)
         /\ (pop.at \in {"copy", "publish"} => Held > 0 /\ mWritePos # mReadPos)
<1>1. /\ mWritePos \in Positions /\ mReadPos \in Positions
      /\ mCachedRead \in Positions /\ mCachedWrite \in Positions
  BY DEF RingIInv, RingVarsOK
<1>2. /\ Ahead(mWritePos, mCachedRead) \in Nat /\ Ahead(mCachedWrite, mReadPos) \in Nat
      /\ Held \in Nat /\ (Held = 0 <=> mWritePos = mReadPos)
      /\ (Ahead(mCachedWrite, mReadPos) = 0 <=> mCachedWrite = mReadPos)
  BY <1>1, AheadFacts DEF Held
<1>3. mCapacity \in Nat \ {0} /\ mReadPos \in Nat BY <1>1, RingSizes
<1>4. Held <= mCapacity BY <1>2, <1>3 DEF RingIInv, RingCachesOK, Held
<1>5. push.at \in {"copy", "publish"} => Held < mCapacity
  BY <1>2, <1>3 DEF RingIInv, RingCachesOK, Held
<1>6. pop.at \in {"copy", "publish"} => Held > 0
  BY <1>2 DEF RingIInv, RingCachesOK, Held
<1> QED BY <1>1, <1>2, <1>3, <1>4, <1>5, <1>6

(* Observers are not disturbed by what moves no position. *)
LEMMA LooksKept ==
  ASSUME RingIInv, UNCHANGED <<look, mReadPos, mWritePos>>,
         push' = push \/ push.at # "idle" \/ ~Looking("producer"),
         pop' = pop \/ pop.at # "idle" \/ ~Looking("consumer")
  PROVE  LooksOK'
<1>1. Held' = Held BY DEF Held
<1> QED BY <1>1 DEF RingIInv, LooksOK, Looking

(* Steps of the producer. *)
LEMMA SpscPushKeeps ==
  ASSUME RingIInv, NEW v \in RingValues, SpscPush(v)
  PROVE  RingIInv'
<1>1. /\ UNCHANGED <<mWritePos, mCachedRead, mReadPos, mCachedWrite, pop, lastPopped, mSlotArray, look>>
      /\ push.at = "idle" /\ ~Looking("producer")
      /\ push' = [at |-> IF isFull(mWritePos, mCachedRead) THEN "refresh" ELSE "copy", value |-> v]
  BY DEF SpscPush, popVars
<1>2. push'.value = v /\ push'.at \in {"refresh", "copy"}
      /\ (push'.at = "copy" => ~isFull(mWritePos, mCachedRead))
  BY <1>1
<1>3. RingVarsOK' BY <1>1 DEF RingIInv, RingVarsOK
<1>4. RingCachesOK'
  <2>1. push'.at = "copy" => Ahead(mWritePos, mCachedRead) < mCapacity BY <1>2, RingCounts DEF isFull
  <2> QED BY <1>1, <1>2, <2>1 DEF RingIInv, RingCachesOK
<1>5. Held' = Held BY <1>1 DEF Held
<1>6. RingSlotsOK' BY <1>1, <1>2, <1>5 DEF RingIInv, RingSlotsOK
<1>7. LooksOK' BY <1>1, LooksKept
<1> QED BY <1>3, <1>4, <1>6, <1>7 DEF RingIInv

LEMMA RefreshForPushKeeps ==
  ASSUME RingIInv, RefreshForPush
  PROVE  RingIInv'
<1>1. /\ UNCHANGED <<mWritePos, mReadPos, mCachedWrite, pop, lastPopped, mSlotArray, look>>
      /\ push.at = "refresh" /\ mCachedRead' = mReadPos
      /\ push' = IF isFull(mWritePos, mReadPos) THEN [at |-> "idle", value |-> NoRingValue]
                 ELSE [push EXCEPT !.at = "copy"]
  BY DEF RefreshForPush, popVars
<1>2. push \in [at : {"idle", "refresh", "copy", "publish"}, value : RingValues \cup {NoRingValue}]
      /\ push.value \in RingValues
  BY <1>1 DEF RingIInv, RingVarsOK, RingSlotsOK
<1>3. \/ push' = [at |-> "idle", value |-> NoRingValue] /\ isFull(mWritePos, mReadPos)
      \/ push' = [at |-> "copy", value |-> push.value] /\ ~isFull(mWritePos, mReadPos)
  BY <1>1, <1>2
<1>4. RingVarsOK' BY <1>1, <1>2, <1>3 DEF RingIInv, RingVarsOK
<1>5. Held' = Held BY <1>1 DEF Held
<1>6. RingCachesOK'
  <2>1. push'.at = "copy" => Held < mCapacity BY <1>3, RingCounts DEF isFull, Held
  <2>2. push'.at # "publish" BY <1>3
  <2> QED BY <1>1, <2>1, <2>2, RingCounts DEF RingIInv, RingCachesOK, Held
<1>7. RingSlotsOK'
  <2>1. push'.at \in {"idle", "copy"} /\ (push'.at = "copy" => push'.value \in RingValues)
    BY <1>2, <1>3
  <2> QED BY <1>1, <1>5, <2>1 DEF RingIInv, RingSlotsOK
<1>8. LooksOK' BY <1>1, LooksKept
<1> QED BY <1>4, <1>6, <1>7, <1>8 DEF RingIInv

(* The producer writes a cell no element is in. *)
LEMMA PushCopyWrites ==
  ASSUME RingIInv, PushCopy
  PROVE  /\ mSlotArray' \in [0 .. mCapacity - 1 -> RingValues \cup {NoRingValue}]
         /\ mSlotArray'[Cell(mWritePos)] = push.value /\ push.value \in RingValues
         /\ \A i \in 0 .. Held - 1 : mSlotArray'[Cell(mReadPos + i)] = mSlotArray[Cell(mReadPos + i)]
<1>1. mSlotArray' = [mSlotArray EXCEPT ![Cell(mWritePos)] = push.value] /\ push.at = "copy"
  BY DEF PushCopy
<1>2. mSlotArray \in [0 .. mCapacity - 1 -> RingValues \cup {NoRingValue}] /\ push.value \in RingValues
  BY <1>1 DEF RingIInv, RingVarsOK, RingSlotsOK
<1>3. /\ mWritePos \in Positions /\ mReadPos \in Positions /\ Held \in Nat /\ Held < mCapacity
      /\ mCapacity \in Nat /\ Cell(mWritePos) \in 0 .. mCapacity - 1
  BY <1>1, RingCounts, CellFacts
<1>4. Cell(mReadPos + Held) = Cell(mWritePos) BY <1>3, CellFacts DEF Held
<1>5. ASSUME NEW i \in 0 .. Held - 1
      PROVE  mSlotArray'[Cell(mReadPos + i)] = mSlotArray[Cell(mReadPos + i)]
  <2>2. i \in Nat /\ i < Held /\ Held - i < mCapacity BY <1>3
  <2>3. Cell(mReadPos + i) # Cell(mReadPos + Held) BY <1>3, <2>2, CellsDiffer
  <2>4. Cell(mReadPos + i) \in 0 .. mCapacity - 1 BY <1>3, <2>2, CellFacts
  <2> QED BY <1>1, <1>2, <1>4, <2>3, <2>4
<1> QED BY <1>1, <1>2, <1>3, <1>5

LEMMA PushCopyKeeps ==
  ASSUME RingIInv, PushCopy
  PROVE  RingIInv'
<1>1. /\ UNCHANGED <<mWritePos, mCachedRead, mReadPos, mCachedWrite, pop, lastPopped, look>>
      /\ push.at = "copy" /\ push' = [push EXCEPT !.at = "publish"]
  BY DEF PushCopy, popVars
<1>2. push' = [at |-> "publish", value |-> push.value]
      /\ push \in [at : {"idle", "refresh", "copy", "publish"}, value : RingValues \cup {NoRingValue}]
  BY <1>1 DEF RingIInv, RingVarsOK
<1>3. push'.at = "publish" /\ push'.value = push.value BY <1>2
<1>4. RingVarsOK' BY <1>1, <1>2, PushCopyWrites DEF RingIInv, RingVarsOK
<1>5. Held' = Held BY <1>1 DEF Held
<1>6. RingCachesOK' BY <1>1, <1>3 DEF RingIInv, RingCachesOK
<1>7. RingSlotsOK'
  <2>1. \A i \in 0 .. Held' - 1 : mSlotArray'[Cell(mReadPos' + i)] \in RingValues
    BY <1>1, <1>5, PushCopyWrites DEF RingIInv, RingSlotsOK
  <2>2. pop.at = "publish" => mSlotArray'[Cell(mReadPos)] = mSlotArray[Cell(mReadPos)]
    <3>1. pop.at = "publish" => 0 \in 0 .. Held - 1 /\ mReadPos + 0 = mReadPos BY RingCounts
    <3> QED BY <3>1, PushCopyWrites
  <2> QED BY <1>1, <1>3, <2>1, <2>2, PushCopyWrites DEF RingIInv, RingSlotsOK
<1>8. LooksOK' BY <1>1, LooksKept
<1> QED BY <1>4, <1>6, <1>7, <1>8 DEF RingIInv

(* A position moves: whoever observes has that count among those it saw.    *)
LEMMA LookSees ==
  ASSUME RingIInv, NEW n \in 0 .. mCapacity, WitnessHeld(n), look # NoLook
  PROVE  /\ look' \in [by : Lookers, write : Positions, seen : SUBSET (0 .. mCapacity)]
         /\ look'.by = look.by /\ look'.write = look.write /\ look'.seen = look.seen \cup {n}
<1>1. look \in [by : Lookers, write : Positions, seen : SUBSET (0 .. mCapacity)]
      /\ look' = [look EXCEPT !.seen = look.seen \cup {n}]
  BY DEF RingIInv, LooksOK, WitnessHeld
<1> QED BY <1>1

LEMMA PushPublishKeeps ==
  ASSUME RingIInv, PushPublish
  PROVE  RingIInv' /\ Held' = Held + 1
<1>1. /\ UNCHANGED <<mCachedRead, mReadPos, mCachedWrite, pop, lastPopped, mSlotArray>>
      /\ push.at = "publish" /\ mWritePos' = NextPos(mWritePos)
      /\ push' = [at |-> "idle", value |-> NoRingValue] /\ WitnessHeld(Held + 1)
  BY DEF PushPublish, popVars, NextPos
<1>2. /\ mWritePos \in Positions /\ mReadPos \in Positions /\ mCachedRead \in Positions
      /\ mCachedWrite \in Positions /\ Held \in Nat /\ Held < mCapacity /\ mCapacity \in Nat
      /\ Ahead(mWritePos, mCachedRead) \in Nat /\ Ahead(mCachedWrite, mReadPos) \in Nat
      /\ mReadPos \in Nat
  BY <1>1, RingCounts
<1>3. Ahead(mWritePos, mCachedRead) < mCapacity /\ push.value \in RingValues
      /\ mSlotArray[Cell(mWritePos)] = push.value
  BY <1>1 DEF RingIInv, RingCachesOK, RingSlotsOK
<1>4. /\ mWritePos' \in Positions
      /\ Ahead(mWritePos', mReadPos) = Held + 1
      /\ Ahead(mWritePos', mCachedRead) = Ahead(mWritePos, mCachedRead) + 1
  BY <1>1, <1>2, <1>3, AheadFacts DEF Held
<1>5. Held' = Held + 1 BY <1>1, <1>4 DEF Held
<1>6. push'.at = "idle" BY <1>1
<1>7. RingVarsOK' BY <1>1, <1>4 DEF RingIInv, RingVarsOK
<1>8. RingCachesOK'
  BY <1>1, <1>2, <1>3, <1>4, <1>6 DEF RingIInv, RingCachesOK, Held
<1>9. RingSlotsOK'
  <2>1. Cell(mReadPos + Held) = Cell(mWritePos) BY <1>2, CellFacts DEF Held
  <2>2. ASSUME NEW i \in 0 .. Held' - 1 PROVE mSlotArray'[Cell(mReadPos' + i)] \in RingValues
    <3>1. i = Held \/ i \in 0 .. Held - 1 BY <1>2, <1>5
    <3> QED BY <1>1, <1>3, <2>1, <3>1 DEF RingIInv, RingSlotsOK
  <2> QED BY <1>1, <1>6, <2>2 DEF RingIInv, RingSlotsOK
<1>10. LooksOK'
  <2>1. CASE look = NoLook BY <1>1, <2>1 DEF WitnessHeld, LooksOK
  <2>2. CASE look # NoLook
    <3>1. Held + 1 \in 0 .. mCapacity BY <1>2
    <3>2. /\ look' \in [by : Lookers, write : Positions, seen : SUBSET (0 .. mCapacity)]
          /\ look'.by = look.by /\ look'.write = look.write /\ look'.seen = look.seen \cup {Held + 1}
      BY <1>1, <2>2, <3>1, LookSees
    <3>3. look.by # "producer" BY <1>1, <2>2 DEF RingIInv, LooksOK
    <3>4. look.by = "consumer" => pop.at = "idle" /\ Ahead(look.write, mReadPos) \in look.seen
      BY <2>2 DEF RingIInv, LooksOK
    <3> QED BY <1>1, <1>5, <3>2, <3>3, <3>4 DEF LooksOK
  <2> QED BY <2>1, <2>2
<1> QED BY <1>5, <1>7, <1>8, <1>9, <1>10 DEF RingIInv

-----------------------------------------------------------------------------
(* Steps of the consumer. *)
LEMMA SpscPopKeeps ==
  ASSUME RingIInv, NEW op \in {"pop", "peek"}, SpscPop(op)
  PROVE  RingIInv'
<1>1. /\ UNCHANGED <<mWritePos, mCachedRead, push, mReadPos, mCachedWrite, lastPopped, mSlotArray, look>>
      /\ pop.at = "idle" /\ ~Looking("consumer")
      /\ pop' = [pop EXCEPT !.op = op,
                            !.at = IF isEmpty(mCachedWrite, mReadPos) THEN "refresh" ELSE "copy"]
  BY DEF SpscPop, pushVars
<1>2. pop \in [at : {"idle", "refresh", "copy", "publish"}, op : {"pop", "peek"},
               value : RingValues \cup {NoRingValue}]
  BY DEF RingIInv, RingVarsOK
<1>3. \/ /\ pop' = [at |-> "refresh", op |-> op, value |-> pop.value]
      \/ /\ pop' = [at |-> "copy", op |-> op, value |-> pop.value]
         /\ mCachedWrite # mReadPos
  BY <1>1, <1>2 DEF isEmpty
<1>4. /\ pop'.value = pop.value /\ pop'.at \in {"refresh", "copy"}
      /\ (pop'.at = "copy" => mCachedWrite # mReadPos)
  BY <1>3
<1>5. RingVarsOK' BY <1>1, <1>2, <1>3 DEF RingIInv, RingVarsOK
<1>6. RingCachesOK' BY <1>1, <1>4 DEF RingIInv, RingCachesOK
<1>7. Held' = Held BY <1>1 DEF Held
<1>8. RingSlotsOK' BY <1>1, <1>4, <1>7 DEF RingIInv, RingSlotsOK
<1>9. LooksOK' BY <1>1, LooksKept
<1> QED BY <1>5, <1>6, <1>8, <1>9 DEF RingIInv

LEMMA RefreshForPopKeeps ==
  ASSUME RingIInv, RefreshForPop
  PROVE  RingIInv'
<1>1. /\ UNCHANGED <<mWritePos, mCachedRead, push, mReadPos, lastPopped, mSlotArray, look>>
      /\ pop.at = "refresh" /\ mCachedWrite' = mWritePos
      /\ pop' = [pop EXCEPT !.at = IF isEmpty(mWritePos, mReadPos) THEN "idle" ELSE "copy"]
  BY DEF RefreshForPop, pushVars
<1>2. pop \in [at : {"idle", "refresh", "copy", "publish"}, op : {"pop", "peek"},
               value : RingValues \cup {NoRingValue}]
  BY DEF RingIInv, RingVarsOK
<1>3. \/ /\ pop' = [at |-> "idle", op |-> pop.op, value |-> pop.value]
      \/ /\ pop' = [at |-> "copy", op |-> pop.op, value |-> pop.value]
         /\ mWritePos # mReadPos
  BY <1>1, <1>2 DEF isEmpty
<1>4. /\ pop'.value = pop.value /\ pop'.at \in {"idle", "copy"}
      /\ (pop'.at = "copy" => mWritePos # mReadPos)
  BY <1>3
<1>5. RingVarsOK' BY <1>1, <1>2, <1>3 DEF RingIInv, RingVarsOK
<1>6. RingCachesOK' BY <1>1, <1>4, RingCounts DEF RingIInv, RingCachesOK, Held
<1>7. Held' = Held BY <1>1 DEF Held
<1>8. RingSlotsOK' BY <1>1, <1>4, <1>7 DEF RingIInv, RingSlotsOK
<1>9. LooksOK' BY <1>1, LooksKept
<1> QED BY <1>5, <1>6, <1>8, <1>9 DEF RingIInv

LEMMA PopCopyKeeps ==
  ASSUME RingIInv, PopCopy
  PROVE  RingIInv'
<1>1. /\ UNCHANGED <<mWritePos, mCachedRead, push, mReadPos, mCachedWrite, lastPopped, mSlotArray, look>>
      /\ pop.at = "copy"
      /\ pop' = IF pop.op = "pop"
                THEN [pop EXCEPT !.at = "publish", !.value = mSlotArray[Cell(mReadPos)]]
                ELSE [pop EXCEPT !.at = "idle"]
  BY DEF PopCopy, pushVars
<1>2. pop \in [at : {"idle", "refresh", "copy", "publish"}, op : {"pop", "peek"},
               value : RingValues \cup {NoRingValue}] /\ pop.value = NoRingValue
  BY <1>1 DEF RingIInv, RingVarsOK, RingSlotsOK
<1>3. \/ pop' = [at |-> "publish", op |-> pop.op, value |-> mSlotArray[Cell(mReadPos)]]
      \/ pop' = [at |-> "idle", op |-> pop.op, value |-> NoRingValue]
  BY <1>1, <1>2
<1>4. mSlotArray[Cell(mReadPos)] \in RingValues \cup {NoRingValue}
  <2>1. mReadPos \in Positions BY RingCounts
  <2>2. Cell(mReadPos) \in 0 .. mCapacity - 1 BY <2>1, CellFacts
  <2> QED BY <2>2 DEF RingIInv, RingVarsOK
<1>5. RingVarsOK' BY <1>1, <1>2, <1>3, <1>4 DEF RingIInv, RingVarsOK
<1>6. pop'.at \in {"publish", "idle"} BY <1>3
<1>7. RingCachesOK' BY <1>1, <1>6 DEF RingIInv, RingCachesOK
<1>8. Held' = Held BY <1>1 DEF Held
<1>9. RingSlotsOK'
  <2>1. pop'.value = IF pop'.at = "publish" THEN mSlotArray[Cell(mReadPos)] ELSE NoRingValue BY <1>3
  <2> QED BY <1>1, <1>8, <2>1 DEF RingIInv, RingSlotsOK
<1>10. LooksOK' BY <1>1, LooksKept
<1> QED BY <1>5, <1>7, <1>9, <1>10 DEF RingIInv

LEMMA PopPublishKeeps ==
  ASSUME RingIInv, PopPublish
  PROVE  RingIInv' /\ Held' = Held - 1
<1>1. /\ UNCHANGED <<mCachedWrite, mWritePos, mCachedRead, push, mSlotArray>>
      /\ pop.at = "publish" /\ mReadPos' = NextPos(mReadPos)
      /\ pop' = [at |-> "idle", op |-> "pop", value |-> NoRingValue]
      /\ lastPopped' = pop.value /\ WitnessHeld(Held - 1)
  BY DEF PopPublish, pushVars, NextPos
<1>2. /\ mWritePos \in Positions /\ mReadPos \in Positions /\ mCachedRead \in Positions
      /\ mCachedWrite \in Positions /\ Held \in Nat /\ Held > 0 /\ Held <= mCapacity
      /\ mWritePos # mReadPos /\ mCapacity \in Nat /\ mReadPos \in Nat
      /\ Ahead(mWritePos, mCachedRead) \in Nat /\ Ahead(mCachedWrite, mReadPos) \in Nat
  BY <1>1, RingCounts
<1>3. mCachedWrite # mReadPos BY <1>1 DEF RingIInv, RingCachesOK
<1>4. /\ mReadPos' \in Positions
      /\ Ahead(mWritePos, mReadPos') = Held - 1
      /\ Ahead(mCachedWrite, mReadPos') = Ahead(mCachedWrite, mReadPos) - 1
  BY <1>1, <1>2, <1>3, AheadFacts DEF Held
<1>5. Held' = Held - 1 BY <1>1, <1>4 DEF Held
<1>6. pop'.at = "idle" /\ pop'.value = NoRingValue BY <1>1
<1>7. RingVarsOK' BY <1>1, <1>4 DEF RingIInv, RingVarsOK
<1>8. RingCachesOK' BY <1>1, <1>2, <1>4, <1>6 DEF RingIInv, RingCachesOK, Held
<1>9. RingSlotsOK'
  <2>1. ASSUME NEW i \in 0 .. Held' - 1 PROVE mSlotArray'[Cell(mReadPos' + i)] \in RingValues
    <3>1. i \in Nat /\ i + 1 \in 0 .. Held - 1 /\ mReadPos + 1 + i = mReadPos + (i + 1) BY <1>2, <1>5
    <3>2. Cell(mReadPos' + i) = Cell(mReadPos + (i + 1)) BY <1>1, <1>2, <3>1, CellFacts
    <3> QED BY <1>1, <3>1, <3>2 DEF RingIInv, RingSlotsOK
  <2> QED BY <1>1, <1>6, <2>1 DEF RingIInv, RingSlotsOK
<1>10. LooksOK'
  <2>1. CASE look = NoLook BY <1>1, <2>1 DEF WitnessHeld, LooksOK
  <2>2. CASE look # NoLook
    <3>1. Held - 1 \in 0 .. mCapacity BY <1>2
    <3>2. /\ look' \in [by : Lookers, write : Positions, seen : SUBSET (0 .. mCapacity)]
          /\ look'.by = look.by /\ look'.write = look.write /\ look'.seen = look.seen \cup {Held - 1}
      BY <1>1, <2>2, <3>1, LookSees
    <3>3. look.by # "consumer" BY <1>1, <2>2 DEF RingIInv, LooksOK
    <3>4. look.by = "producer" => push.at = "idle" /\ look.write = mWritePos
      BY <2>2 DEF RingIInv, LooksOK
    <3> QED BY <1>1, <1>5, <3>2, <3>3, <3>4 DEF LooksOK
  <2> QED BY <2>1, <2>2
<1> QED BY <1>5, <1>7, <1>8, <1>9, <1>10 DEF RingIInv

-----------------------------------------------------------------------------
(* Steps of an observer. *)
LEMMA LoadWritePosKeeps ==
  ASSUME RingIInv, NEW w \in Lookers, LoadWritePos(w)
  PROVE  RingIInv'
<1>1. /\ UNCHANGED <<mWritePos, mCachedRead, push, mReadPos, mCachedWrite, pop, lastPopped, mSlotArray>>
      /\ w = "producer" => push.at = "idle"
      /\ w = "consumer" => pop.at = "idle"
      /\ look' = [by |-> w, write |-> mWritePos, seen |-> {Held}]
  BY DEF LoadWritePos, pushVars, popVars
<1>2. Held' = Held BY <1>1 DEF Held
<1>3. Held \in 0 .. mCapacity /\ mWritePos \in Positions BY RingCounts
<1>4. LooksOK'
  <2>1. look' \in [by : Lookers, write : Positions, seen : SUBSET (0 .. mCapacity)] BY <1>1, <1>3
  <2>2. look'.by = w /\ look'.write = mWritePos /\ look'.seen = {Held} BY <1>1
  <2> QED BY <1>1, <1>2, <2>1, <2>2 DEF LooksOK, Held
<1>5. RingVarsOK' /\ RingCachesOK' BY <1>1 DEF RingIInv, RingVarsOK, RingCachesOK
<1>6. RingSlotsOK' BY <1>1, <1>2 DEF RingIInv, RingSlotsOK
<1> QED BY <1>4, <1>5, <1>6 DEF RingIInv

LEMMA LoadReadPosKeeps ==
  ASSUME RingIInv, LoadReadPos
  PROVE  RingIInv'
<1>1. /\ UNCHANGED <<mWritePos, mCachedRead, push, mReadPos, mCachedWrite, pop, lastPopped, mSlotArray>>
      /\ look' = NoLook
  BY DEF LoadReadPos, pushVars, popVars
<1>2. Held' = Held BY <1>1 DEF Held
<1>3. NoLook' = NoLook BY DEF NoLook
<1> QED BY <1>1, <1>2, <1>3 DEF RingIInv, RingVarsOK, RingCachesOK, RingSlotsOK, LooksOK

-----------------------------------------------------------------------------
LEMMA RingInitInv == RingInit => RingIInv
<1> SUFFICES ASSUME RingInit PROVE RingIInv OBVIOUS
<1>1. /\ mWritePos = 0 /\ mReadPos = 0 /\ mCachedRead = 0 /\ mCachedWrite = 0
      /\ mSlotArray = [i \in 0 .. mCapacity - 1 |-> NoRingValue]
      /\ push = [at |-> "idle", value |-> NoRingValue]
      /\ pop = [at |-> "idle", op |-> "pop", value |-> NoRingValue]
      /\ lastPopped = NoRingValue /\ look = NoLook
  BY DEF RingInit
<1>2. 0 \in Positions /\ mCapacity \in Nat \ {0} BY RingSizes
<1>3. Ahead(0, 0) = 0 BY <1>2, AheadFacts
<1>4. push.at = "idle" /\ pop.at = "idle" /\ pop.value = NoRingValue BY <1>1
<1>5. RingVarsOK
  <2>1. mSlotArray \in [0 .. mCapacity - 1 -> RingValues \cup {NoRingValue}] BY <1>1
  <2> QED BY <1>1, <1>2, <2>1 DEF RingVarsOK
<1>6. RingCachesOK BY <1>1, <1>2, <1>3, <1>4 DEF RingCachesOK
<1>7. RingSlotsOK BY <1>1, <1>3, <1>4 DEF RingSlotsOK, Held
<1>8. LooksOK BY <1>1 DEF LooksOK
<1> QED BY <1>5, <1>6, <1>7, <1>8 DEF RingIInv

LEMMA RingStutterKeeps ==
  ASSUME RingIInv, UNCHANGED ringVars
  PROVE  RingIInv'
<1>1. UNCHANGED <<mWritePos, mCachedRead, push, mReadPos, mCachedWrite, pop, lastPopped, mSlotArray, look>>
  BY DEF ringVars, pushVars, popVars
<1>2. Held' = Held BY <1>1 DEF Held
<1>3. RingVarsOK' /\ RingCachesOK' BY <1>1 DEF RingIInv, RingVarsOK, RingCachesOK
<1>4. RingSlotsOK' BY <1>1, <1>2 DEF RingIInv, RingSlotsOK
<1>5. LooksOK' BY <1>1, LooksKept
<1> QED BY <1>3, <1>4, <1>5 DEF RingIInv

LEMMA RingStepKeeps == RingIInv /\ [RingNext]_ringVars => RingIInv'
<1> SUFFICES ASSUME RingIInv, [RingNext]_ringVars PROVE RingIInv' OBVIOUS
<1>1. CASE \E v \in RingValues : SpscPush(v) BY <1>1, SpscPushKeeps
<1>2. CASE RefreshForPush BY <1>2, RefreshForPushKeeps
<1>3. CASE PushCopy BY <1>3, PushCopyKeeps
<1>4. CASE PushPublish BY <1>4, PushPublishKeeps
<1>5. CASE \E op \in {"pop", "peek"} : SpscPop(op) BY <1>5, SpscPopKeeps
<1>6. CASE RefreshForPop BY <1>6, RefreshForPopKeeps
<1>7. CASE PopCopy BY <1>7, PopCopyKeeps
<1>8. CASE PopPublish BY <1>8, PopPublishKeeps
<1>9. CASE \E w \in Lookers : LoadWritePos(w) BY <1>9, LoadWritePosKeeps
<1>10. CASE LoadReadPos BY <1>10, LoadReadPosKeeps
<1>11. CASE UNCHANGED ringVars BY <1>11, RingStutterKeeps
<1> QED
  BY <1>1, <1>2, <1>3, <1>4, <1>5, <1>6, <1>7, <1>8, <1>9, <1>10, <1>11 DEF RingNext

(* The invariant holds along every run of the producer, the consumer and    *)
(* any observing threads.                                                   *)
THEOREM RingInductive == RingSpec => []RingIInv
<1> QED BY RingInitInv, RingStepKeeps, PTL DEF RingSpec

(* size() is a length the ring can have, however its two loads race.        *)
LEMMA SizeIsALength ==
  ASSUME RingIInv, look # NoLook
  PROVE  size \in 0 .. mCapacity
<1>1. look.write \in Positions /\ mReadPos \in Positions /\ mCapacity \in Nat
  BY RingCounts DEF RingIInv, LooksOK
<1>2. Ahead(look.write, mReadPos) \in Nat BY <1>1, AheadFacts
<1> QED BY <1>1, <1>2 DEF size

(* Types, and size() within [0, capacity()] for every observing thread.     *)
THEOREM RingTypes == RingSpec => []RingTypeOK
<1>1. RingIInv => RingTypeOK
  <2> SUFFICES ASSUME RingIInv PROVE RingTypeOK OBVIOUS
  <2>1. /\ look.by \in Lookers \cup {"nobody"} /\ look.write \in Positions
        /\ look.seen \subseteq 0 .. mCapacity
    <3>1. CASE look = NoLook BY <3>1, RingSizes DEF NoLook
    <3>2. CASE look # NoLook BY <3>2 DEF RingIInv, LooksOK
    <3> QED BY <3>1, <3>2
  <2> QED BY <2>1, SizeIsALength DEF RingIInv, RingVarsOK, RingTypeOK
<1> QED BY RingInductive, <1>1, PTL

(* The two sides are never in the same cell, and what empty(), full() and   *)
(* size() tell the producer or the consumer was true during the call.       *)
THEOREM RingSound == RingSpec => []RingIsSound
<1>1. RingIInv => RingIsSound
  <2> SUFFICES ASSUME RingIInv PROVE RingIsSound OBVIOUS
  <2>1. CellsAreOwned BY RingCounts DEF CellsAreOwned
  <2>2. OwnersSeeTheTruth
    <3> SUFFICES ASSUME look.by \in {"producer", "consumer"}
                 PROVE  /\ size \in look.seen
                        /\ empty => 0 \in look.seen
                        /\ full => mCapacity \in look.seen
      BY DEF OwnersSeeTheTruth
    <3>1. look # NoLook BY DEF NoLook
    <3> DEFINE d == Ahead(look.write, mReadPos)
    <3>2. d \in look.seen
      <4>1. CASE look.by = "producer" BY <3>1, <4>1 DEF RingIInv, LooksOK, Held
      <4>2. CASE look.by = "consumer" BY <3>1, <4>2 DEF RingIInv, LooksOK
      <4> QED BY <4>1, <4>2
    <3>3. look.seen \subseteq 0 .. mCapacity /\ look.write \in Positions /\ mReadPos \in Positions
          /\ mCapacity \in Nat
      BY <3>1, RingCounts DEF RingIInv, LooksOK
    <3>4. d \in 0 .. mCapacity /\ (look.write = mReadPos => d = 0) BY <3>2, <3>3, AheadFacts
    <3>5. size = d BY <3>3, <3>4 DEF size
    <3>6. empty => d = 0 BY <3>4 DEF empty, isEmpty
    <3>7. full => d = mCapacity
      <4>1. full => d >= mCapacity BY DEF full, isFull
      <4> HIDE DEF d
      <4> QED BY <3>3, <3>4, <4>1
    <3> QED BY <3>2, <3>5, <3>6, <3>7
  <2> QED BY <2>1, <2>2 DEF RingIsSound
<1> QED BY RingInductive, <1>1, PTL

-----------------------------------------------------------------------------
(* The ring implements BoundedFifo. *)

Taken == IF pop.at = "publish" THEN 1 ELSE 0

(* The queued elements, as a sequence. *)
QueueOK ==
  /\ Held \in Nat /\ Taken \in {0, 1} /\ Taken <= Held
  /\ RingQueue \in Seq(RingValues) /\ Len(RingQueue) = Held - Taken
  /\ \A i \in 1 .. Held - Taken : RingQueue[i] = mSlotArray[Cell(mReadPos + Taken + i - 1)]

LEMMA QueueIs == RingIInv => QueueOK
<1> SUFFICES ASSUME RingIInv PROVE QueueOK OBVIOUS
<1>1. Held \in Nat /\ mReadPos \in Nat /\ (pop.at = "publish" => Held > 0) BY RingCounts
<1>2. Taken \in {0, 1} /\ Taken <= Held BY <1>1 DEF Taken
<1>3. RingQueue = [i \in 1 .. Held - Taken |-> mSlotArray[Cell(mReadPos + Taken + i - 1)]]
  BY DEF RingQueue, Taken
<1>4. ASSUME NEW i \in 1 .. Held - Taken
      PROVE  mSlotArray[Cell(mReadPos + Taken + i - 1)] \in RingValues
  <2>1. Taken + i - 1 \in 0 .. Held - 1 /\ mReadPos + Taken + i - 1 = mReadPos + (Taken + i - 1)
    BY <1>1, <1>2
  <2> QED BY <2>1 DEF RingIInv, RingSlotsOK
<1>5. RingQueue \in [1 .. Held - Taken -> RingValues] BY <1>3, <1>4
<1>6. Held - Taken \in Nat BY <1>1, <1>2
<1>7. RingQueue \in Seq(RingValues) /\ Len(RingQueue) = Held - Taken BY <1>5, <1>6
<1> QED BY <1>1, <1>2, <1>3, <1>7 DEF QueueOK

LEMMA QueueNext == RingIInv' => QueueOK'
  BY QueueIs, PTL

LEMMA RingFifoInit == RingInit => RingFifo!Init
<1> SUFFICES ASSUME RingInit PROVE RingFifo!Init OBVIOUS
<1>1. QueueOK BY RingInitInv, QueueIs
<1>2. Held = 0 /\ Taken = 0 /\ pop.value = NoRingValue /\ lastPopped = NoRingValue
  <2>1. 0 \in Positions BY RingSizes
  <2> QED BY <2>1, AheadFacts DEF RingInit, Held, Taken
<1>3. RingQueue = << >> BY <1>1, <1>2, EmptySeq DEF QueueOK
<1> QED BY <1>2, <1>3 DEF RingFifo!Init

(* A stored write position appends the element to the queue. *)
LEMMA PublishAppends ==
  ASSUME RingIInv, PushPublish
  PROVE  /\ push.value \in RingValues /\ Len(RingQueue) < mCapacity
         /\ RingQueue' = Append(RingQueue, push.value)
<1>1. /\ mReadPos' = mReadPos /\ Taken' = Taken /\ mSlotArray' = mSlotArray /\ push.at = "publish"
      /\ RingIInv' /\ Held' = Held + 1
  BY PushPublishKeeps DEF PushPublish, popVars, Taken
<1>2. /\ push.value \in RingValues /\ mSlotArray[Cell(mWritePos)] = push.value
      /\ Held < mCapacity /\ mCapacity \in Nat /\ mReadPos \in Nat
      /\ mReadPos \in Positions /\ mWritePos \in Positions
  BY <1>1, RingCounts DEF RingIInv, RingSlotsOK
<1>3. QueueOK /\ QueueOK' BY <1>1, QueueIs, QueueNext
<1> DEFINE n == Held - Taken
           a == Append(RingQueue, push.value)
<1>4. n \in Nat /\ Held' - Taken' = n + 1 /\ n < mCapacity /\ Len(RingQueue) = n
  BY <1>1, <1>2, <1>3 DEF QueueOK
<1>5. /\ RingQueue \in Seq(RingValues) /\ RingQueue' \in Seq(RingValues) /\ Len(RingQueue') = n + 1
      /\ \A i \in 1 .. n : RingQueue[i] = mSlotArray[Cell(mReadPos + Taken + i - 1)]
      /\ \A i \in 1 .. n + 1 : RingQueue'[i] = mSlotArray[Cell(mReadPos + Taken + i - 1)]
  BY <1>1, <1>3, <1>4 DEF QueueOK
<1>6. /\ a \in Seq(RingValues) /\ Len(a) = n + 1 /\ a[n + 1] = push.value
      /\ \A i \in 1 .. n : a[i] = RingQueue[i]
  BY <1>2, <1>4, <1>5, AppendProperties
<1>7. RingQueue'[n + 1] = push.value
  <2>1. mReadPos + Taken + (n + 1) - 1 = mReadPos + Held /\ n + 1 \in 1 .. n + 1
    BY <1>2, <1>3, <1>4 DEF QueueOK
  <2>2. Cell(mReadPos + Held) = Cell(mWritePos) BY <1>2, CellFacts DEF Held
  <2> QED BY <1>2, <1>5, <2>1, <2>2
<1>8. ASSUME NEW i \in 1 .. n + 1 PROVE RingQueue'[i] = a[i]
  <2> HIDE DEF n, a
  <2>1. i = n + 1 \/ i \in 1 .. n BY <1>4
  <2> QED BY <1>5, <1>6, <1>7, <2>1
<1> HIDE DEF n, a
<1>9. RingQueue' = a BY <1>4, <1>5, <1>6, <1>8, SeqEqual
<1> QED BY <1>2, <1>4, <1>9 DEF a

(* pop() takes the oldest element when it copies it out of its cell. *)
LEMMA CopyTakes ==
  ASSUME RingIInv, PopCopy, pop.op = "pop"
  PROVE  /\ RingQueue # << >> /\ RingQueue' = Tail(RingQueue)
         /\ pop.value = NoRingValue /\ pop'.value = Head(RingQueue)
<1>1. /\ UNCHANGED <<mReadPos, mWritePos, mSlotArray>> /\ pop.at = "copy"
      /\ pop' = [pop EXCEPT !.at = "publish", !.value = mSlotArray[Cell(mReadPos)]]
  BY DEF PopCopy, pushVars
<1>2. pop'.at = "publish" /\ pop'.value = mSlotArray[Cell(mReadPos)] /\ pop.value = NoRingValue
  BY <1>1 DEF RingIInv, RingVarsOK, RingSlotsOK
<1>3. Taken = 0 /\ Taken' = 1 /\ Held' = Held BY <1>1, <1>2 DEF Taken, Held
<1>4. QueueOK /\ QueueOK' /\ mReadPos \in Nat /\ Held \in Nat /\ Held > 0
  BY <1>1, PopCopyKeeps, QueueIs, QueueNext, RingCounts
<1>5. /\ RingQueue \in Seq(RingValues) /\ Len(RingQueue) = Held
      /\ \A i \in 1 .. Held : RingQueue[i] = mSlotArray[Cell(mReadPos + i - 1)]
  <2>1. Held - Taken = Held /\ mReadPos + Taken = mReadPos BY <1>3, <1>4
  <2> QED BY <1>4, <2>1 DEF QueueOK
<1>6. /\ RingQueue' \in Seq(RingValues) /\ Len(RingQueue') = Held - 1
      /\ \A i \in 1 .. Held - 1 : RingQueue'[i] = mSlotArray[Cell(mReadPos + 1 + i - 1)]
  BY <1>1, <1>3, <1>4 DEF QueueOK
<1>7. RingQueue # << >> /\ Head(RingQueue) = mSlotArray[Cell(mReadPos)]
  <2>1. 1 \in 1 .. Held /\ mReadPos + 1 - 1 = mReadPos BY <1>4
  <2> QED BY <1>4, <1>5, <2>1
<1>8. /\ Tail(RingQueue) \in Seq(RingValues) /\ Len(Tail(RingQueue)) = Held - 1
      /\ \A i \in 1 .. Held - 1 : Tail(RingQueue)[i] = RingQueue[i + 1]
  BY <1>5, <1>7, HeadTailProperties
<1>9. ASSUME NEW i \in 1 .. Held - 1 PROVE RingQueue'[i] = Tail(RingQueue)[i]
  <2>1. i + 1 \in 1 .. Held /\ mReadPos + 1 + i - 1 = mReadPos + (i + 1) - 1 BY <1>4
  <2> QED BY <1>5, <1>6, <1>8, <2>1
<1>10. RingQueue' = Tail(RingQueue) BY <1>4, <1>6, <1>8, <1>9, SeqEqual
<1> QED BY <1>2, <1>7, <1>10

(* Storing the read position takes nothing more out of the queue. *)
LEMMA PublishHandsOver ==
  ASSUME RingIInv, PopPublish
  PROVE  RingQueue' = RingQueue /\ pop.value \in RingValues
<1>1. /\ mSlotArray' = mSlotArray /\ pop.at = "publish" /\ pop'.at = "idle"
      /\ mReadPos' = NextPos(mReadPos) /\ RingIInv' /\ Held' = Held - 1
  BY PopPublishKeeps DEF PopPublish, NextPos
<1>2. Taken = 1 /\ Taken' = 0 BY <1>1 DEF Taken
<1>3. /\ QueueOK /\ QueueOK' /\ mReadPos \in Nat /\ Held \in Nat /\ Held > 0
      /\ mReadPos \in Positions /\ NextPos(mReadPos) \in Nat
  <2>1. mReadPos \in Positions /\ mReadPos' \in Nat BY <1>1, RingCounts, RingSizes DEF RingIInv, RingVarsOK
  <2> QED BY <1>1, <2>1, QueueIs, QueueNext, RingCounts
<1>4. /\ RingQueue \in Seq(RingValues) /\ Len(RingQueue) = Held - 1
      /\ \A i \in 1 .. Held - 1 : RingQueue[i] = mSlotArray[Cell(mReadPos + 1 + i - 1)]
  BY <1>2, <1>3 DEF QueueOK
<1>5. /\ RingQueue' \in Seq(RingValues) /\ Len(RingQueue') = Held - 1
      /\ \A i \in 1 .. Held - 1 : RingQueue'[i] = mSlotArray[Cell(NextPos(mReadPos) + i - 1)]
  <2>1. Held' - Taken' = Held - 1 /\ mReadPos' + Taken' = NextPos(mReadPos) BY <1>1, <1>2, <1>3
  <2> QED BY <1>1, <1>3, <2>1 DEF QueueOK
<1>6. ASSUME NEW i \in 1 .. Held - 1 PROVE RingQueue'[i] = RingQueue[i]
  <2>1. i - 1 \in Nat /\ mReadPos + 1 + i - 1 = mReadPos + 1 + (i - 1)
        /\ NextPos(mReadPos) + i - 1 = NextPos(mReadPos) + (i - 1)
    BY <1>3
  <2>2. Cell(NextPos(mReadPos) + (i - 1)) = Cell(mReadPos + 1 + (i - 1)) BY <1>3, <2>1, CellFacts
  <2> QED BY <1>4, <1>5, <2>1, <2>2
<1>7. RingQueue' = RingQueue BY <1>3, <1>4, <1>5, <1>6, SeqEqual
<1>8. pop.value \in RingValues
  <2>1. 0 \in 0 .. Held - 1 /\ mReadPos + 0 = mReadPos BY <1>3
  <2> QED BY <1>1, <2>1 DEF RingIInv, RingSlotsOK
<1> QED BY <1>7, <1>8

(* The producer's copy is outside the queue. *)
LEMMA CopyLeavesQueue ==
  ASSUME RingIInv, PushCopy
  PROVE  RingQueue' = RingQueue
<1>1. /\ UNCHANGED <<mReadPos, mWritePos, pop>> /\ RingIInv'
  BY PushCopyKeeps DEF PushCopy, popVars
<1>2. Held' = Held /\ Taken' = Taken BY <1>1 DEF Held, Taken
<1>3. QueueOK /\ QueueOK' /\ mReadPos \in Nat BY <1>1, QueueIs, QueueNext, RingCounts
<1>4. ASSUME NEW i \in 1 .. Held - Taken PROVE RingQueue'[i] = RingQueue[i]
  <2>1. Taken + i - 1 \in 0 .. Held - 1 /\ mReadPos + Taken + i - 1 = mReadPos + (Taken + i - 1)
    BY <1>3 DEF QueueOK
  <2>2. mSlotArray'[Cell(mReadPos + Taken + i - 1)] = mSlotArray[Cell(mReadPos + Taken + i - 1)]
    BY <2>1, PushCopyWrites
  <2> QED BY <1>1, <1>2, <1>3, <2>2 DEF QueueOK
<1> QED BY <1>2, <1>3, <1>4, SeqEqual DEF QueueOK

LEMMA RingFifoStep == RingIInv /\ [RingNext]_ringVars => [RingFifo!Next]_(RingFifo!vars)
<1> SUFFICES ASSUME RingIInv, [RingNext]_ringVars PROVE [RingFifo!Next]_(RingFifo!vars)
  OBVIOUS
<1>u. ASSUME UNCHANGED <<mWritePos, mReadPos, mSlotArray>>,
             pop.at # "publish", pop'.at # "publish"
      PROVE  RingQueue' = RingQueue
  BY <1>u DEF RingQueue, Held
<1>v. ASSUME UNCHANGED <<mWritePos, mReadPos, mSlotArray, pop>> PROVE RingQueue' = RingQueue
  BY <1>v DEF RingQueue, Held
<1>p. ASSUME RingQueue' = RingQueue, pop'.value = pop.value, lastPopped' = lastPopped
      PROVE  UNCHANGED RingFifo!vars
  BY <1>p DEF RingFifo!vars
<1>t. pop \in [at : {"idle", "refresh", "copy", "publish"}, op : {"pop", "peek"},
               value : RingValues \cup {NoRingValue}]
  BY DEF RingIInv, RingVarsOK
<1>1. CASE \E v \in RingValues : SpscPush(v)
  BY <1>1, <1>v, <1>p DEF SpscPush, popVars
<1>2. CASE RefreshForPush BY <1>2, <1>v, <1>p DEF RefreshForPush, popVars
<1>3. CASE PushCopy BY <1>3, <1>p, CopyLeavesQueue DEF PushCopy, popVars
<1>4. CASE PushPublish
  <2>1. RingFifo!Put(push.value)
    BY <1>4, PublishAppends DEF RingFifo!Put, PushPublish, popVars
  <2> QED BY <1>4, <2>1, PublishAppends DEF RingFifo!Next
<1>5. CASE \E op \in {"pop", "peek"} : SpscPop(op)
  <2>1. pop'.value = pop.value /\ pop.at # "publish" /\ pop'.at # "publish"
    BY <1>5, <1>t DEF SpscPop
  <2> QED BY <1>5, <1>u, <1>p, <2>1 DEF SpscPop, pushVars
<1>6. CASE RefreshForPop
  <2>1. pop'.value = pop.value /\ pop.at # "publish" /\ pop'.at # "publish"
    BY <1>6, <1>t DEF RefreshForPop
  <2> QED BY <1>6, <1>u, <1>p, <2>1 DEF RefreshForPop, pushVars
<1>7. CASE PopCopy /\ pop.op = "pop"
  <2>1. RingFifo!Take("consumer") BY <1>7, CopyTakes DEF RingFifo!Take, PopCopy
  <2> QED BY <2>1 DEF RingFifo!Next
<1>8. CASE PopCopy /\ pop.op # "pop"
  <2>1. pop'.value = pop.value /\ pop.at # "publish" /\ pop'.at # "publish"
    BY <1>8, <1>t DEF PopCopy
  <2> QED BY <1>8, <1>u, <1>p, <2>1 DEF PopCopy, pushVars
<1>9. CASE PopPublish
  <2>1. pop.value # NoRingValue BY <1>9, PublishHandsOver, RingAssumption
  <2>2. RingFifo!HandOver("consumer")
    BY <1>9, <2>1, PublishHandsOver DEF RingFifo!HandOver, PopPublish
  <2> QED BY <2>2 DEF RingFifo!Next
<1>10. CASE \E w \in Lookers : LoadWritePos(w)
  BY <1>10, <1>v, <1>p DEF LoadWritePos, pushVars, popVars
<1>11. CASE LoadReadPos BY <1>11, <1>v, <1>p DEF LoadReadPos, pushVars, popVars
<1>12. CASE UNCHANGED ringVars BY <1>12, <1>v, <1>p DEF ringVars, pushVars, popVars
<1> QED
  BY <1>1, <1>2, <1>3, <1>4, <1>5, <1>6, <1>7, <1>8, <1>9, <1>10, <1>11, <1>12 DEF RingNext

(* Every run of the ring is a run of a FIFO of capacity() elements: no push *)
(* or pop, stale cached position or wrap of one loses, repeats or reorders  *)
(* an element, whoever observes meanwhile.                                  *)
THEOREM RingFifoImplemented == RingSpec => RingImplementsFifo
<1> QED BY RingInductive, RingFifoInit, RingFifoStep, PTL DEF RingSpec, RingImplementsFifo

-----------------------------------------------------------------------------
(* FastHashMap.  Least numbers first. *)

(* A set of numbers has a least one, and so Min is in its set. *)
LEMMA LeastOf ==
  ASSUME NEW S \in SUBSET Nat, S # {}
  PROVE  \E n \in S : \A m \in S : n <= m
<1>1. PICK n \in S : \A m \in S : ~ (<<m, n>> \in OpToRel(<, Nat))
  BY NatLessThanWellFounded, WFMin
<1>2. ASSUME NEW m \in S, m < n PROVE FALSE
  <2>1. <<m, n>> \in Nat \X Nat /\ <<m, n>>[1] = m /\ <<m, n>>[2] = n OBVIOUS
  <2>2. <<m, n>> \in OpToRel(<, Nat) BY <1>2, <2>1 DEF OpToRel
  <2> QED BY <1>1, <2>2
<1> QED BY <1>2

LEMMA MinIsIn ==
  ASSUME NEW S \in SUBSET Nat, S # {}
  PROVE  Min(S) \in S /\ \A i \in S : Min(S) <= i
<1>1. \E x \in S : \A y \in S : x <= y
  BY LeastOf
<1>. QED
  BY <1>1 DEF Min

-----------------------------------------------------------------------------
(* Powers of two, as numbers without an odd divisor. *)

(* A number is even or odd. *)
LEMMA Parity ==
  ASSUME NEW n \in Nat
  PROVE  \/ n % 2 = 0 /\ \E h \in Nat : n = 2 * h
         \/ n % 2 = 1 /\ \E h \in Nat : n = 2 * h + 1
<1>. PICK M \in Nat \ {0} : M = 2
  OBVIOUS
<1>1. n % M \in 0 .. M - 1 /\ n \div M \in Nat /\ n = M * (n \div M) + (n % M)
  BY DivMod
<1>. QED
  BY <1>1

(* What is a multiple leaves nothing. *)
LEMMA Multiple ==
  ASSUME NEW M \in Nat \ {0}, NEW q \in Nat, NEW n, n = M * q
  PROVE  n % M = 0 /\ n \in Nat
<1>1. (0 + M * q) % M = 0 % M /\ M * q \in Nat
  BY ModLaps, Z3
<1>2. 0 % M = 0 /\ 0 + M * q = M * q
  BY ModSmall, Z3
<1>. QED
  BY <1>1, <1>2

(* What leaves nothing is a multiple. *)
LEMMA MultipleIs ==
  ASSUME NEW M \in Nat \ {0}, NEW n \in Nat, n % M = 0
  PROVE  \E q \in Nat : n = M * q
<1>1. n \div M \in Nat /\ n = M * (n \div M) + 0
  BY DivMod
<1>2. M * (n \div M) \in Int
  BY <1>1, Z3
<1>. QED
  BY <1>1, <1>2

(* An even power of two is twice a power of two, *)
LEMMA HalfIsPower ==
  ASSUME NEW p \in Nat \ {0}, PowerOfTwo(p), p # 1
  PROVE  \E h \in Nat \ {0} : p = 2 * h /\ h < p /\ PowerOfTwo(h)
<1>1. p % 2 # 1
  <2>1. p % p = 0 /\ p \in 1 .. p
    BY Multiple, p = p * 1
  <2>. QED
    BY <2>1 DEF PowerOfTwo
<1>2. PICK h \in Nat : p = 2 * h
  BY <1>1, Parity
<1>3. ASSUME NEW d \in 1 .. h, h % d = 0, d % 2 = 1 PROVE d = 1
  <2>1. PICK e \in Nat : h = d * e
    BY <1>3, MultipleIs
  <2>2. p = d * (2 * e) /\ d \in 1 .. p
    BY <1>2, <2>1, Z3
  <2>3. p % d = 0
    BY <2>2, Multiple, 2 * e \in Nat
  <2>. QED
    BY <1>3, <2>2, <2>3 DEF PowerOfTwo
<1>4. PowerOfTwo(h)
  BY <1>3 DEF PowerOfTwo
<1>. QED
  BY <1>2, <1>4

(* and twice a power of two is one. *)
LEMMA DoubleIsPower ==
  ASSUME NEW p \in Nat \ {0}, PowerOfTwo(p)
  PROVE  PowerOfTwo(2 * p)
<1>1. ASSUME NEW d \in 1 .. 2 * p, (2 * p) % d = 0, d % 2 = 1 PROVE d = 1
  <2>1. PICK e \in Nat : 2 * p = d * e
    BY <1>1, MultipleIs
  <2>2. PICK h \in Nat : d = 2 * h + 1
    BY <1>1, Parity
  <2>3. PICK f \in Nat : e = 2 * f
    <3>1. ASSUME NEW f \in Nat, e = 2 * f + 1 PROVE FALSE
      <4>1. d * e = 2 * (2 * (h * f) + h + f) + 1
        BY <2>2, <3>1, Z3
      <4>2. h * f \in Int
        BY Z3
      <4>. QED
        BY <2>1, <4>1, <4>2
    <3>. QED
      BY <3>1, Parity
  <2>4. p = d * f
    BY <2>1, <2>3, Z3
  <2>5. d <= p
    BY <2>3, <2>4, Z3
  <2>6. p % d = 0
    BY <2>4, Multiple
  <2>. QED
    BY <1>1, <2>5, <2>6 DEF PowerOfTwo
<1>. QED
  BY <1>1 DEF PowerOfTwo

(* An odd factor has no part in a power of two. *)
SameProduct(a, b, p, q) == a * b = p * q

(* A power of two that divides n times an odd number divides n. *)
LEMMA OddFactor ==
  ASSUME NEW p \in Nat \ {0}, PowerOfTwo(p), NEW a \in Nat, a % 2 = 1,
         NEW b \in Nat, NEW q \in Nat, SameProduct(a, b, p, q)
  PROVE  \E r \in Nat : b = p * r
<1>. USE DEF SameProduct
<1>. DEFINE Divides(n) == \A x, y \in Nat : a * x = n * y => \E r \in Nat : x = n * r
            Bad == {n \in Nat \ {0} : PowerOfTwo(n) /\ ~Divides(n)}
<1>1. SUFFICES ASSUME Bad # {} PROVE FALSE
  OBVIOUS
<1>2. PICK n \in Bad : \A m \in Bad : n <= m
  <2>1. Bad \in SUBSET Nat
    OBVIOUS
  <2>. HIDE DEF Bad
  <2>. QED
    BY <1>1, <2>1, LeastOf
<1>3. n # 1
  <2>1. \A x \in Nat : x = 1 * x
    OBVIOUS
  <2>. QED
    BY <1>2, <2>1
<1>4. PICK h \in Nat \ {0} : n = 2 * h /\ h < n /\ PowerOfTwo(h)
  BY <1>2, <1>3, HalfIsPower
<1>5. Divides(h)
  <2>1. h \notin Bad
    <3>1. ~(n <= h)
      BY <1>2, <1>4
    <3>. HIDE DEF Bad
    <3>. QED
      BY <1>2, <3>1
  <2>. QED
    BY <1>4, <2>1
<1>6. PICK x \in Nat, y \in Nat : a * x = n * y /\ ~\E r \in Nat : x = n * r
  BY <1>2
<1>7. PICK w \in Nat : a = 2 * w + 1
  BY Parity
<1>8. PICK z \in Nat : x = 2 * z
  <2>1. ASSUME NEW z \in Nat, x = 2 * z + 1 PROVE FALSE
    <3>1. a * x = 2 * (2 * (w * z) + w + z) + 1 /\ a * x = 2 * (h * y)
      BY <1>4, <1>6, <1>7, <2>1, Z3
    <3>2. w * z \in Int /\ h * y \in Int
      BY Z3
    <3>. QED
      BY <3>1, <3>2
  <2>. QED
    BY <2>1, Parity
<1>9. a * z = h * y
  BY <1>4, <1>6, <1>8, Z3
<1>10. PICK r \in Nat : z = h * r
  BY <1>5, <1>9
<1>11. x = n * r
  BY <1>4, <1>8, <1>10, Z3
<1>. QED
  BY <1>6, <1>11

-----------------------------------------------------------------------------
(* The groups of a probe sequence: every group is one of the first ones. *)

Triangular(n) == (n * (n + 1)) \div 2

LEMMA TriangularTwice ==
  ASSUME NEW n \in Nat
  PROVE  Triangular(n) \in Nat /\ 2 * Triangular(n) = n * (n + 1)
<1>1. PICK q \in Nat : n * (n + 1) = 2 * q
  <2>1. ASSUME NEW h \in Nat, n = 2 * h PROVE n * (n + 1) = 2 * (h * (n + 1)) /\ h * (n + 1) \in Nat
    BY <2>1, Z3
  <2>2. ASSUME NEW h \in Nat, n = 2 * h + 1 PROVE n * (n + 1) = 2 * (n * (h + 1)) /\ n * (h + 1) \in Nat
    BY <2>2, Z3
  <2>. QED
    BY <2>1, <2>2, Parity
<1>2. (2 * q) \div 2 = q
  OBVIOUS
<1>. QED
  BY <1>1, <1>2 DEF Triangular

(* The first numbers of groups that a probe sequence passes differ. *)
LEMMA TriangularDistinct ==
  ASSUME NEW p \in Nat \ {0}, PowerOfTwo(p), NEW k \in Nat, NEW n \in Nat, k < n, n < p
  PROVE  Triangular(k) % p # Triangular(n) % p
<1>. DEFINE x == Triangular(k)  y == Triangular(n)
<1>1. SUFFICES ASSUME x % p = y % p PROVE FALSE
  OBVIOUS
<1>2. x \in Nat /\ y \in Nat /\ 2 * x = k * (k + 1) /\ 2 * y = n * (n + 1)
  BY TriangularTwice
<1>14. PICK a \in Nat, b \in Nat : a = n - k /\ b = n + k + 1
  OBVIOUS
<1>3. a \in Nat \ {0} /\ b \in Nat \ {0} /\ a < p /\ b < 2 * p /\ b = a + (2 * k + 1)
  BY <1>14
<1>4. 2 * y - 2 * x = a * b
  BY <1>2, <1>14, Z3
<1>. HIDE DEF x, y
<1>5. PICK d \in Int : y - x = p * d
  <2>. DEFINE u == x \div p  v == y \div p  r == x % p
  <2>1. u \in Int /\ v \in Int /\ r \in Int /\ x = p * u + r /\ y = p * v + r
    BY <1>1, <1>2, DivMod
  <2>. HIDE DEF u, v, r
  <2>2. y - x = p * (v - u)
    BY <1>2, <2>1, Z3
  <2>3. v - u \in Int
    BY <2>1
  <2>. QED
    BY <2>2, <2>3
<1>6. a * b = (2 * p) * d /\ a * b > 0
  BY <1>2, <1>3, <1>4, <1>5, Z3
<1>7. d \in Nat
  BY <1>6, Z3
<1>15. PICK m \in Nat : m = 2 * p
  OBVIOUS
<1>8. m \in Nat \ {0} /\ PowerOfTwo(m) /\ SameProduct(a, b, m, d) /\ a * b = m * d
  BY <1>6, <1>15, DoubleIsPower DEF SameProduct
<1>9. a % 2 = 1 \/ b % 2 = 1
  <2>1. ASSUME NEW h \in Nat, a = 2 * h PROVE b % 2 = 1
    <3>1. b = 2 * (h + k) + 1 /\ h + k \in Nat
      BY <1>3, <2>1
    <3>. QED
      BY <3>1
  <2>. QED
    BY <1>3, <2>1, Parity
<1>12. b < m /\ a < m
  BY <1>3, <1>15
<1>13. a \in Nat /\ b \in Nat /\ d \in Nat
  BY <1>3, <1>7
<1>10. CASE a % 2 = 1
  <2>1. PICK r \in Nat : b = m * r
    BY <1>8, <1>10, <1>13, OddFactor
  <2>. QED
    BY <1>3, <1>8, <1>12, <2>1, Z3
<1>11. CASE b % 2 = 1
  <2>1. SameProduct(b, a, m, d)
    <3>1. b * a = m * d
      BY <1>3, <1>8, Z3
    <3>. QED
      BY <3>1 DEF SameProduct
  <2>2. PICK r \in Nat : a = m * r
    BY <1>8, <1>11, <1>13, <2>1, OddFactor
  <2>. QED
    BY <1>3, <1>8, <1>12, <2>2, Z3
<1>. QED
  BY <1>9, <1>10, <1>11

(* So the numbers below a power of two are what the triangular ones leave. *)
LEMMA TriangularReaches ==
  ASSUME NEW p \in Nat \ {0}, PowerOfTwo(p), NEW g \in 0 .. p - 1
  PROVE  \E n \in 0 .. p - 1 : Triangular(n) % p = g
<1>. DEFINE G == 0 .. p - 1
            f == [n \in G |-> Triangular(n) % p]
<1>1. f \in [G -> G]
  <2>1. ASSUME NEW n \in G PROVE Triangular(n) % p \in G
    <3>1. Triangular(n) \in Nat
      BY TriangularTwice
    <3>. QED
      BY <3>1, DivMod
  <2>. QED
    BY <2>1
<1>2. ASSUME NEW k \in G, NEW n \in G, f[k] = f[n] PROVE k = n
  <2>1. Triangular(k) % p = Triangular(n) % p
    BY <1>2
  <2>2. ~(k < n) /\ ~(n < k)
    BY <2>1, TriangularDistinct
  <2>. QED
    BY <2>2
<1>3. IsFiniteSet(G) /\ Cardinality(G) = Cardinality(G)
  BY FS_Interval
<1>4. f \in Injection(G, G)
  BY <1>1, <1>2 DEF Injection, IsInjective
<1>5. f \in Surjection(G, G)
  BY <1>3, <1>4, FS_Injection
<1>. QED
  BY <1>5 DEF Surjection

-----------------------------------------------------------------------------
(* Probe sequences of FastHashMap. *)

IsCapacity(c) == c \in Nat /\ \E p \in Nat \ {0} : c = kMinCapacity * p /\ PowerOfTwo(p)

(* The groups that a probe sequence has passed. *)
Passed(n) == IF deletion = "tombstone" THEN Triangular(n) ELSE n

(* A table is a number of groups, and that a power of two. *)
LEMMA CapacityIs ==
  ASSUME NEW c, IsCapacity(c)
  PROVE  /\ c \in Nat \ {0} /\ c >= 2 /\ kWidth \in Nat \ {0} /\ kWidth < c
         /\ \E g \in Nat \ {0} : c = kWidth * g /\ PowerOfTwo(g)
<1>1. kWidth \in Nat \ {0}
  BY HashAssumption
<1>2. PICK p \in Nat \ {0} : c = 2 * kWidth * p /\ PowerOfTwo(p)
  BY DEF IsCapacity, kMinCapacity
<1>3. c = kWidth * (2 * p) /\ c >= 2 * kWidth
  BY <1>1, <1>2, Z3
<1>4. PowerOfTwo(2 * p) /\ 2 * p \in Nat \ {0}
  BY <1>2, DoubleIsPower
<1>. QED
  BY <1>1, <1>3, <1>4 DEF IsCapacity

(* A remainder may be taken early. *)
LEMMA ModAdd ==
  ASSUME NEW M \in Nat \ {0}, NEW a \in Nat, NEW b \in Nat
  PROVE  ((a % M) + b) % M = (a + b) % M
<1>1. a % M \in Nat /\ a \div M \in Nat /\ a = M * (a \div M) + (a % M)
  BY DivMod
<1>2. PICK r \in Nat, q \in Nat, n \in Nat : r = a % M /\ q = a \div M /\ n = M * q
  BY <1>1, Z3
<1>3. PICK s \in Nat : s = r + b
  BY <1>2
<1>4. (s + M * q) % M = s % M
  BY ModLaps
<1>5. a + b = s + M * q
  BY <1>1, <1>2, <1>3
<1>. QED
  BY <1>2, <1>3, <1>4, <1>5

LEMMA PassedType == ASSUME NEW n \in Nat PROVE Passed(n) \in Nat /\ kWidth * Passed(n) \in Nat
<1>1. Passed(n) \in Nat
  BY TriangularTwice DEF Passed
<1>2. kWidth \in Nat
  BY HashAssumption
<1>. QED
  BY <1>1, <1>2, Z3

(* The group of a byte, and its place in it. *)
LEMMA GroupIs ==
  ASSUME NEW W \in Nat \ {0}, NEW n \in Nat, NEW o \in 0 .. W - 1, NEW p, p = W * n + o
  PROVE  p \div W = n /\ p % W = o /\ p \in Nat
<1>1. W * n \in Nat
  BY Z3
<1>2. p \in Nat
  BY <1>1
<1>3. p \div W \in Nat /\ p % W \in 0 .. W - 1 /\ p = W * (p \div W) + (p % W)
  BY <1>2, DivMod
<1>4. PICK q \in Nat, s \in 0 .. W - 1 : q = p \div W /\ s = p % W /\ p = W * q + s
  BY <1>3
<1>5. W * (q - n) = o - s
  BY <1>4, Z3
<1>6. q - n = 0
  BY <1>5, Z3
<1>7. q = n
  BY <1>6
<1>8. s = o
  BY <1>4, <1>7
<1>. QED
  BY <1>2, <1>4, <1>7, <1>8

LEMMA GroupsOf ==
  ASSUME NEW W \in Nat \ {0}, NEW p \in Nat
  PROVE  \E n \in Nat, o \in 0 .. W - 1 : p = W * n + o
BY DivMod

(* Byte p of a sequence is byte o of its n-th group. *)
ByteOf(p, n, o) == p = kWidth * n + o

(* A slot of a sequence, and the byte that is read for it. *)
LEMMA SlotIs ==
  ASSUME NEW t, IsCapacity(t.cap), NEW h \in Nat,
         NEW n \in Nat, NEW o \in 0 .. kWidth - 1, NEW p, ByteOf(p, n, o)
  PROVE  /\ SlotAt(t, h, p) \in 0 .. t.cap - 1
         /\ SlotAt(t, h, p) = (h + kWidth * Passed(n) + o) % t.cap
         /\ (\A i \in 0 .. kWidth - 1 : t.ctrl[t.cap + i] = t.ctrl[i])
            => CtrlAt(t, h, p) = t.ctrl[SlotAt(t, h, p)]
<1>0. PICK M \in Nat \ {0}, W \in Nat \ {0} : M = t.cap /\ W = kWidth /\ W < M
  BY CapacityIs
<1>1. p \div W = n /\ p % W = o
  <2>1. o \in 0 .. W - 1 /\ p = W * n + o
    BY <1>0 DEF ByteOf
  <2>. QED
    BY <2>1, GroupIs
<1>2. PICK a \in Nat : a = h + W * Passed(n)
  <2>1. W * Passed(n) \in Nat
    BY <1>0, PassedType
  <2>. QED
    BY <2>1
<1>3. PICK s \in 0 .. M - 1 : s = Offset(t, h, n) /\ s = a % M
  <2>1. Offset(t, h, n) = a % M
    BY <1>0, <1>2 DEF Offset, Passed, Triangular
  <2>2. a % M \in 0 .. M - 1
    BY DivMod
  <2>. QED
    BY <2>1, <2>2
<1>4. SlotAt(t, h, p) = (s + o) % M /\ CtrlAt(t, h, p) = t.ctrl[s + o]
  BY <1>0, <1>1, <1>3 DEF SlotAt, CtrlAt
<1>5. o \in Nat /\ o < W
  BY <1>0
<1>6. (s + o) % M = (a + o) % M
  <2>1. ((a % M) + o) % M = (a + o) % M
    BY <1>5, ModAdd
  <2>. QED
    BY <1>3, <2>1
<1>7. (s + o) % M \in 0 .. M - 1
  BY <1>5, DivMod, s + o \in Nat
<1>8. ASSUME \A i \in 0 .. W - 1 : t.ctrl[M + i] = t.ctrl[i]
      PROVE  t.ctrl[s + o] = t.ctrl[(s + o) % M]
  <2>1. CASE s + o < M
    BY <1>5, <2>1, ModSmall, s + o \in 0 .. M - 1
  <2>2. CASE ~(s + o < M)
    <3>1. PICK i \in 0 .. W - 1 : s + o = M + i
      <4>1. s + o - M \in 0 .. W - 1 /\ s + o = M + (s + o - M)
        BY <1>5, <2>2
      <4>. QED
        BY <4>1
    <3>2. (s + o) % M = i
      <4>1. i \in Nat /\ i \in 0 .. M - 1
        BY <1>0
      <4>2. (i + M) % M = i % M
        BY <4>1, ModPeriod
      <4>3. i % M = i
        BY <4>1, ModSmall
      <4>4. s + o = i + M
        BY <3>1
      <4>. QED
        BY <4>2, <4>3, <4>4
    <3>. QED
      BY <1>8, <3>1, <3>2
  <2>. QED
    BY <2>1, <2>2
<1>9. a + o = h + W * Passed(n) + o
  BY <1>2
<1>10. SlotAt(t, h, p) = (a + o) % M /\ SlotAt(t, h, p) \in 0 .. M - 1
  BY <1>4, <1>6, <1>7
<1>11. (\A i \in 0 .. W - 1 : t.ctrl[M + i] = t.ctrl[i]) => CtrlAt(t, h, p) = t.ctrl[SlotAt(t, h, p)]
  BY <1>4, <1>8
<1>. QED
  BY <1>0, <1>9, <1>10, <1>11

(* A byte that is read is that of its slot, in the table or in the mirror. *)
LEMMA SlotType ==
  ASSUME NEW t, IsCapacity(t.cap), NEW h \in Nat, NEW p \in Nat
  PROVE  /\ SlotAt(t, h, p) \in 0 .. t.cap - 1
         /\ (\A i \in 0 .. kWidth - 1 : t.ctrl[t.cap + i] = t.ctrl[i])
            => CtrlAt(t, h, p) = t.ctrl[SlotAt(t, h, p)]
<1>1. kWidth \in Nat \ {0}
  BY HashAssumption
<1>2. PICK n \in Nat, o \in 0 .. kWidth - 1 : ByteOf(p, n, o)
  BY <1>1, GroupsOf DEF ByteOf
<1>. QED
  BY <1>2, SlotIs

(* With linear probing the slots are those behind the home, one by one. *)
LEMMA LinearSlot ==
  ASSUME deletion = "shift", NEW t, IsCapacity(t.cap), NEW h \in Nat, NEW p \in Nat
  PROVE  SlotAt(t, h, p) = (h + p) % t.cap
<1>1. kWidth \in Nat \ {0}
  BY HashAssumption
<1>2. PICK n \in Nat, o \in 0 .. kWidth - 1 : p = kWidth * n + o /\ ByteOf(p, n, o)
  BY <1>1, GroupsOf DEF ByteOf
<1>3. SlotAt(t, h, p) = (h + kWidth * n + o) % t.cap
  BY <1>2, SlotIs DEF Passed
<1>4. h + kWidth * n + o = h + p
  <2>1. PICK x \in Nat : x = kWidth * n
    BY <1>1, Z3
  <2>. QED
    BY <1>2, <2>1
<1>. QED
  BY <1>3, <1>4

(* A sequence comes to every slot before it has read as many bytes. *)
LEMMA EverySlot ==
  ASSUME NEW t, IsCapacity(t.cap), NEW h \in Nat, NEW j \in 0 .. t.cap - 1
  PROVE  \E p \in 0 .. t.cap - 1 : SlotAt(t, h, p) = j
<1>1. PICK M \in Nat \ {0}, W \in Nat \ {0}, g \in Nat \ {0} :
        M = t.cap /\ W = kWidth /\ M = W * g /\ PowerOfTwo(g)
  BY CapacityIs
<1>2. PICK e \in 0 .. M - 1 : (h + e) % M = j
  <2>1. PICK r \in 0 .. M - 1 : r = h % M
    BY DivMod
  <2>2. PICK e \in 0 .. M - 1 : r + e = j \/ r + e = j + M
    <3>1. CASE r <= j
      <4>1. j - r \in 0 .. M - 1 /\ r + (j - r) = j
        BY <1>1, <3>1
      <4>. QED
        BY <4>1
    <3>2. CASE ~(r <= j)
      <4>1. j + M - r \in 0 .. M - 1 /\ r + (j + M - r) = j + M
        BY <1>1, <3>2
      <4>. QED
        BY <4>1
    <3>. QED
      BY <3>1, <3>2
  <2>3. (r + e) % M = j
    <3>1. j \in 0 .. M - 1 /\ j \in Nat
      BY <1>1
    <3>2. j % M = j
      BY <3>1, ModSmall
    <3>3. (j + M) % M = j % M
      BY <3>1, ModPeriod
    <3>. QED
      BY <2>2, <3>2, <3>3
  <2>4. (r + e) % M = (h + e) % M
    <3>1. e \in Nat
      BY <2>2
    <3>2. ((h % M) + e) % M = (h + e) % M
      BY <3>1, ModAdd
    <3>. QED
      BY <2>1, <3>2
  <2>. QED
    BY <2>3, <2>4
<1>3. PICK k \in Nat, o \in 0 .. W - 1 : e = W * k + o
  <2>1. e \div W \in Nat /\ e % W \in 0 .. W - 1 /\ e = W * (e \div W) + (e % W)
    <3>1. e \in Nat
      BY <1>2
    <3>. QED
      BY <3>1, DivMod
  <2>. QED
    BY <2>1
<1>4. k \in 0 .. g - 1
  <2>1. W * k < W * g
    BY <1>1, <1>3
  <2>. QED
    BY <2>1, <1>1, Z3
<1>5. PICK n \in 0 .. g - 1 : \E y \in Nat : Passed(n) = g * y + k
  <2>1. CASE deletion = "tombstone"
    <3>1. PICK n \in 0 .. g - 1 : Triangular(n) % g = k
      BY <1>1, <1>4, TriangularReaches
    <3>2. Triangular(n) \in Nat
      BY <3>1, TriangularTwice, n \in Nat
    <3>3. PICK y \in Nat : Triangular(n) = g * y + k
      <4>1. Triangular(n) \div g \in Nat /\ Triangular(n) = g * (Triangular(n) \div g) + (Triangular(n) % g)
        BY <3>2, DivMod
      <4>. QED
        BY <3>1, <4>1
    <3>. QED
      BY <2>1, <3>3 DEF Passed
  <2>2. CASE deletion # "tombstone"
    <3>1. k = g * 0 + k
      BY <1>3, Z3
    <3>. QED
      BY <1>4, <2>2, <3>1 DEF Passed
  <2>. QED
    BY <2>1, <2>2
<1>6. PICK y \in Nat : Passed(n) = g * y + k
  BY <1>5
<1>7. W * Passed(n) = M * y + W * k
  BY <1>1, <1>3, <1>6, Z3
<1>8. PICK p \in 0 .. M - 1 : p = W * n + o
  <2>1. W * n + o \in Nat /\ W * n + o < W * g
    BY <1>1, <1>3, Z3
  <2>. QED
    BY <1>1, <2>1
<1>9. SlotAt(t, h, p) = (h + W * Passed(n) + o) % M
  <2>1. ByteOf(p, n, o) /\ n \in Nat /\ o \in 0 .. kWidth - 1
    BY <1>1, <1>3, <1>8 DEF ByteOf
  <2>2. SlotAt(t, h, p) = (h + kWidth * Passed(n) + o) % t.cap
    BY <2>1, SlotIs
  <2>. QED
    BY <1>1, <2>2
<1>10. h + W * Passed(n) + o = h + e + M * y
  <2>1. W * k \in Nat /\ M * y \in Nat
    BY <1>1, <1>3, Z3
  <2>. QED
    BY <1>3, <1>7, <2>1
<1>11. (h + e + M * y) % M = (h + e) % M
  BY ModLaps, h + e \in Nat
<1>. QED
  BY <1>1, <1>2, <1>8, <1>9, <1>10, <1>11

-----------------------------------------------------------------------------
(* What a table of FastHashMap is, and what it says of its content c: the   *)
(* value under each key, 0 under one that is not there.                     *)

Full(t) == {i \in 0 .. t.cap - 1 : is_full(t.ctrl[i])}
Dead(t) == {i \in 0 .. t.cap - 1 : t.ctrl[i] = kDeleted}
KeyIn(t, i) == t.slots[i].key

ConfigOK == deletion \in {"tombstone", "shift"} /\ hash_key \in [HashKeys -> Hashes]

TableType(t) ==
  t \in [cap : Nat, size : Int, tombs : Int,
         ctrl : [0 .. t.cap + kWidth - 1 -> 0 .. 255],
         slots : [0 .. t.cap - 1 -> [key : Nat, value : Nat, home : Nat]]]

Mirrored(t) == \A i \in 0 .. kWidth - 1 : t.ctrl[t.cap + i] = t.ctrl[i]

ShapeOK(t) == (t.cap = 0 \/ IsCapacity(t.cap)) /\ TableType(t) /\ Mirrored(t)

(* An element bears the byte of its hash and knows its home. *)
SlotOK(t, i, c) ==
  LET e == t.slots[i] IN
  IF is_full(t.ctrl[i])
  THEN /\ e.key \in HashKeys /\ e.value = c[e.key] /\ e.value # 0
       /\ t.ctrl[i] = H2(hash_key[e.key]) /\ e.home = hash_key[e.key] % t.cap
  ELSE /\ e = NoElement
       /\ t.ctrl[i] = kEmpty \/ (t.ctrl[i] = kDeleted /\ deletion = "tombstone")

(* The probe sequence of a hash comes to a slot before an empty one. *)
Reach(t, h, i) ==
  \E p \in 0 .. t.cap - 1 :
    /\ SlotAt(t, h, p) = i
    /\ \A q \in 0 .. p - 1 : t.ctrl[SlotAt(t, h, q)] # kEmpty

KeysOnce(t) == \A i, j \in Full(t) : KeyIn(t, i) = KeyIn(t, j) => i = j

Content(t, c) ==
  /\ c \in [HashKeys -> MapValues \cup {0}]
  /\ \A i \in 0 .. t.cap - 1 : SlotOK(t, i, c)
  /\ \A k \in HashKeys : c[k] # 0 => \E i \in Full(t) : KeyIn(t, i) = k

Reached(t) == \A i \in Full(t) : Reach(t, hash_key[KeyIn(t, i)], i)

(* The counters are right, and leave a slot that is empty. *)
CountersOK(t) ==
  /\ t.size = Cardinality(Full(t)) /\ t.tombs = Cardinality(Dead(t))
  /\ t.cap # 0 => t.size + t.tombs <= t.cap - 1

Faithful(t, c) == ShapeOK(t) /\ Content(t, c) /\ KeysOnce(t) /\ Reached(t) /\ CountersOK(t)

(* Hashes and bytes. *)
LEMMA HashNumbers ==
  ASSUME ConfigOK, NEW k \in HashKeys
  PROVE  /\ hash_key[k] \in Nat /\ H2(hash_key[k]) \in 128 .. 255
         /\ is_full(H2(hash_key[k])) /\ k \in Nat \ {0}
<1>1. PICK h \in Nat, u \in Nat \ {0} : h = hash_key[k] /\ u = H2Unit /\ h < 128 * u
  <2>1. hash_key[k] \in Hashes
    BY DEF ConfigOK
  <2>2. PICK u \in Nat \ {0} : u = H2Unit
    BY HashAssumption
  <2>3. hash_key[k] \in 0 .. 128 * u - 1
    BY <2>1, <2>2, HashAssumption
  <2>. QED
    BY <2>2, <2>3
<1>2. h \div u \in Nat /\ h = u * (h \div u) + (h % u) /\ h % u \in 0 .. u - 1
  BY DivMod
<1>3. PICK q \in Nat : q = h \div u /\ u * q <= h
  BY <1>2
<1>4. q < 128
  BY <1>1, <1>3, Z3
<1>5. H2(h) = q + 128
  BY <1>1, <1>3 DEF H2
<1>. QED
  BY <1>1, <1>4, <1>5, HashAssumption DEF is_full

(* The full slots and the tombstones of a table are finitely many. *)
LEMMA SetsFinite ==
  ASSUME NEW t, t.cap \in Nat
  PROVE  /\ IsFiniteSet(Full(t)) /\ IsFiniteSet(Dead(t)) /\ Full(t) \cap Dead(t) = {}
         /\ Cardinality(Full(t)) \in Nat /\ Cardinality(Dead(t)) \in Nat
<1>1. IsFiniteSet(0 .. t.cap - 1)
  BY FS_Interval
<1>2. Full(t) \in SUBSET (0 .. t.cap - 1) /\ Dead(t) \in SUBSET (0 .. t.cap - 1)
  BY DEF Full, Dead
<1>3. IsFiniteSet(Full(t)) /\ IsFiniteSet(Dead(t))
  BY <1>1, <1>2, FS_Subset
<1>4. Full(t) \cap Dead(t) = {}
  BY DEF Full, Dead, is_full, kDeleted
<1>. QED
  BY <1>3, <1>4, FS_CardinalityType

(* A probe sequence comes to an empty slot. *)
LEMMA HasEmpty ==
  ASSUME NEW t, NEW c, ShapeOK(t), Content(t, c), CountersOK(t), t.cap # 0, NEW h \in Nat
  PROVE  \E p \in 0 .. t.cap - 1 : t.ctrl[SlotAt(t, h, p)] = kEmpty
<1>1. IsCapacity(t.cap) /\ t.cap \in Nat \ {0}
  BY CapacityIs DEF ShapeOK
<1>2. PICK j \in 0 .. t.cap - 1 : j \notin Full(t) \cup Dead(t)
  <2>1. /\ IsFiniteSet(Full(t)) /\ IsFiniteSet(Dead(t)) /\ Full(t) \cap Dead(t) = {}
        /\ Cardinality(Full(t)) \in Nat /\ Cardinality(Dead(t)) \in Nat
    BY <1>1, SetsFinite
  <2>2. Cardinality(Full(t) \cup Dead(t))
          = Cardinality(Full(t)) + Cardinality(Dead(t)) - Cardinality(Full(t) \cap Dead(t))
    BY <2>1, FS_Union
  <2>3. Cardinality(Full(t) \cap Dead(t)) = 0
    BY <2>1, FS_EmptySet
  <2>4. Cardinality(Full(t) \cup Dead(t)) <= t.cap - 1
    BY <1>1, <2>1, <2>2, <2>3 DEF CountersOK
  <2>5. Cardinality(0 .. t.cap - 1) = t.cap
    BY <1>1, FS_Interval
  <2>6. ASSUME Full(t) \cup Dead(t) = 0 .. t.cap - 1 PROVE FALSE
    <3>1. Cardinality(Full(t) \cup Dead(t)) = t.cap
      BY <2>5, <2>6
    <3>. HIDE DEF Full, Dead
    <3>. QED
      BY <1>1, <2>4, <3>1
  <2>7. Full(t) \cup Dead(t) \subseteq 0 .. t.cap - 1
    BY DEF Full, Dead
  <2>. QED
    BY <2>6, <2>7
<1>3. t.ctrl[j] = kEmpty
  BY <1>2 DEF Full, Dead, Content, SlotOK
<1>. QED
  BY <1>1, <1>3, EverySlot

(* The bytes that a lookup reads include those before the first empty one. *)
LEMMA ReadsBefore ==
  ASSUME NEW e \in Nat
  PROVE  (e \div kWidth + 1) * kWidth - 1 \in Int /\ e <= (e \div kWidth + 1) * kWidth - 1
<1>1. kWidth \in Nat \ {0}
  BY HashAssumption
<1>2. PICK n \in Nat, o \in 0 .. kWidth - 1 : e = kWidth * n + o
  BY <1>1, GroupsOf
<1>3. e \div kWidth = n
  BY <1>1, <1>2, GroupIs
<1>4. (n + 1) * kWidth = kWidth * n + kWidth /\ kWidth * n \in Nat
  BY <1>1, Z3
<1>. QED
  BY <1>1, <1>2, <1>3, <1>4

(* A lookup finds what is there under a key, or that nothing is. *)
LEMMA FindsIt ==
  ASSUME ConfigOK, NEW t, NEW c, Faithful(t, c), NEW k \in HashKeys
  PROVE  \/ find_slot(t, k) = NotFound /\ c[k] = 0
         \/ /\ find_slot(t, k) \in Full(t) /\ find_slot(t, k) # NotFound
            /\ KeyIn(t, find_slot(t, k)) = k
            /\ t.slots[find_slot(t, k)].value = c[k] /\ c[k] # 0
<1>. DEFINE h == hash_key[k]
            empties == With(t, h, {kEmpty})
            hits == {p \in Probed(t, h) : CtrlAt(t, h, p) = H2(h) /\ t.slots[SlotAt(t, h, p)].key = k}
<1>1. ShapeOK(t) /\ Content(t, c) /\ KeysOnce(t) /\ Reached(t) /\ CountersOK(t)
  BY DEF Faithful
<1>2. CASE t.cap = 0
  <2>1. Full(t) = {}
    BY <1>2 DEF Full
  <2>2. c[k] = 0
    BY <1>1, <2>1 DEF Content
  <2>. QED
    BY <1>2, <2>2 DEF find_slot
<1>3. CASE t.cap # 0
  <2>1. IsCapacity(t.cap) /\ t.cap \in Nat \ {0} /\ h \in Nat
    BY <1>1, <1>3, CapacityIs, HashNumbers DEF ShapeOK
  <2>2. ASSUME NEW p \in Nat
        PROVE  SlotAt(t, h, p) \in 0 .. t.cap - 1 /\ CtrlAt(t, h, p) = t.ctrl[SlotAt(t, h, p)]
    BY <1>1, <2>1, SlotType DEF ShapeOK, Mirrored
  <2>3. 0 .. t.cap - 1 \subseteq Bytes(t) /\ Bytes(t) \subseteq Nat
    BY <2>1 DEF Bytes
  <2>4. empties # {} /\ empties \in SUBSET Nat
    <3>1. PICK p \in 0 .. t.cap - 1 : t.ctrl[SlotAt(t, h, p)] = kEmpty
      BY <1>1, <1>3, <2>1, HasEmpty
    <3>. QED
      BY <2>2, <2>3, <3>1 DEF With
  <2>5. PICK e \in Nat : e = Min(empties) /\ CtrlAt(t, h, e) = kEmpty
    <3>1. Min(empties) \in empties
      BY <2>4, MinIsIn
    <3>. QED
      BY <2>4, <3>1 DEF With
  <2>6. Probed(t, h) = 0 .. (e \div kWidth + 1) * kWidth - 1
    BY <2>4, <2>5 DEF Probed
  <2>7. Probed(t, h) \subseteq Nat /\ \A p \in 0 .. e : p \in Probed(t, h)
    <3>1. PICK b \in Int : b = (e \div kWidth + 1) * kWidth - 1 /\ e <= b
      BY ReadsBefore
    <3>. QED
      BY <2>6, <3>1
  <2>. HIDE DEF empties
  <2>8. ASSUME NEW p \in hits
        PROVE  /\ SlotAt(t, h, p) \in Full(t) /\ KeyIn(t, SlotAt(t, h, p)) = k
    <3>1. p \in Nat /\ CtrlAt(t, h, p) = H2(h) /\ t.slots[SlotAt(t, h, p)].key = k
      BY <2>7
    <3>2. is_full(H2(h))
      BY HashNumbers
    <3>. QED
      BY <2>2, <3>1, <3>2 DEF Full, KeyIn
  <2>9. ASSUME NEW i \in Full(t), KeyIn(t, i) = k
        PROVE  t.slots[i].value = c[k] /\ c[k] # 0
    BY <1>1, <2>9 DEF Content, SlotOK, Full, KeyIn
  <2>10. CASE hits = {}
    <3>1. find_slot(t, k) = NotFound
      BY <2>10 DEF find_slot
    <3>2. ASSUME c[k] # 0 PROVE FALSE
      <4>1. PICK i \in Full(t) : KeyIn(t, i) = k
        BY <1>1, <3>2 DEF Content
      <4>2. PICK p \in 0 .. t.cap - 1 :
              SlotAt(t, h, p) = i /\ \A q \in 0 .. p - 1 : t.ctrl[SlotAt(t, h, q)] # kEmpty
        BY <1>1, <4>1 DEF Reached, Reach
      <4>3. t.ctrl[i] = H2(h) /\ is_full(t.ctrl[i])
        BY <1>1, <4>1 DEF Content, SlotOK, Full, KeyIn
      <4>4. CtrlAt(t, h, p) = H2(h) /\ p \in Nat /\ H2(h) # kEmpty
        BY <2>2, <4>2, <4>3 DEF is_full, kEmpty
      <4>5. ~(e < p) /\ e # p
        BY <2>2, <2>5, <4>2, <4>4
      <4>6. p \in hits
        BY <2>7, <4>1, <4>2, <4>4, <4>5 DEF KeyIn
      <4>. QED
        BY <2>10, <4>6
    <3>. QED
      BY <3>1, <3>2
  <2>11. CASE hits # {}
    <3>1. hits \in SUBSET Nat
      BY <2>7
    <3>2. Min(hits) \in hits
      BY <2>11, <3>1, MinIsIn
    <3>3. find_slot(t, k) = SlotAt(t, h, Min(hits))
      BY <1>3, <2>11 DEF find_slot
    <3>4. find_slot(t, k) \in Full(t) /\ KeyIn(t, find_slot(t, k)) = k
      BY <2>8, <3>2, <3>3
    <3>5. find_slot(t, k) # NotFound
      BY <3>4 DEF Full, NotFound
    <3>. QED
      BY <2>9, <3>4, <3>5
  <2>. QED
    BY <2>10, <2>11
<1>. QED
  BY <1>2, <1>3

-----------------------------------------------------------------------------
(* Tables of FastHashMap that differ in one slot. *)

Elements == [key : Nat, value : Nat, home : Nat]

(* u is t with element e and byte b in slot i. *)
Changed(t, u, i, e, b) ==
  /\ ShapeOK(u) /\ u.cap = t.cap
  /\ u.slots[i] = e /\ u.ctrl[i] = b
  /\ \A j \in 0 .. t.cap - 1 : j # i => u.slots[j] = t.slots[j] /\ u.ctrl[j] = t.ctrl[j]

(* w is t with element e in slot i, but for the counters and byte b. *)
Put(t, w, i, e, b) ==
  /\ ShapeOK(t) /\ t.cap # 0 /\ i \in 0 .. t.cap - 1 /\ e \in Elements /\ b \in 0 .. 255
  /\ w \in [cap : {t.cap}, size : Int, tombs : Int, ctrl : {t.ctrl},
            slots : {[t.slots EXCEPT ![i] = e]}]

(* set_ctrl() writes the byte and its mirror. *)
LEMMA ChangedIs ==
  ASSUME NEW t, NEW w, NEW i, NEW e, NEW b, Put(t, w, i, e, b)
  PROVE  /\ Changed(t, set_ctrl(w, i, b), i, e, b)
         /\ set_ctrl(w, i, b).size = w.size /\ set_ctrl(w, i, b).tombs = w.tombs
<1>. DEFINE u == set_ctrl(w, i, b)
            s == w.size
            d == w.tombs
<1>0. /\ ShapeOK(t) /\ t.cap # 0 /\ i \in 0 .. t.cap - 1 /\ e \in Elements /\ b \in 0 .. 255
      /\ s \in Int /\ d \in Int
      /\ w = [cap |-> t.cap, size |-> s, tombs |-> d, ctrl |-> t.ctrl,
              slots |-> [t.slots EXCEPT ![i] = e]]
  BY DEF Put
<1>. HIDE DEF s, d
<1>1. PICK M \in Nat \ {0}, W \in Nat \ {0} : M = t.cap /\ W = kWidth /\ W < M
  BY <1>0, CapacityIs DEF ShapeOK
<1>2. /\ t.ctrl \in [0 .. M + W - 1 -> 0 .. 255] /\ t.slots \in [0 .. M - 1 -> Elements]
      /\ \A x \in 0 .. W - 1 : t.ctrl[M + x] = t.ctrl[x]
  BY <1>0, <1>1 DEF ShapeOK, TableType, Mirrored, Elements
<1>. DEFINE ctrl == [j \in 0 .. M + W - 1 |-> IF j \in {i, M + i} THEN b ELSE t.ctrl[j]]
<1>3. u = [cap |-> t.cap, size |-> s, tombs |-> d, ctrl |-> ctrl,
           slots |-> [t.slots EXCEPT ![i] = e]]
  <2>1. w.ctrl = t.ctrl /\ w.cap = M /\ DOMAIN w.ctrl = 0 .. M + W - 1
    BY <1>0, <1>1, <1>2
  <2>2. [j \in DOMAIN w.ctrl |-> IF j \in {i, w.cap + i} THEN b ELSE w.ctrl[j]] = ctrl
    BY <2>1
  <2>3. u = [w EXCEPT !.ctrl = ctrl]
    BY <2>2 DEF set_ctrl
  <2>. HIDE DEF ctrl, u
  <2>. QED
    BY <1>0, <2>3
<1>4. ctrl \in [0 .. M + W - 1 -> 0 .. 255]
  BY <1>0, <1>2
<1>5. ASSUME NEW x \in 0 .. W - 1 PROVE ctrl[M + x] = ctrl[x]
  <2>1. x \in 0 .. M + W - 1 /\ M + x \in 0 .. M + W - 1 /\ x # M + i
    BY <1>0, <1>1
  <2>2. M + x \in {i, M + i} <=> x \in {i, M + i}
    BY <1>0, <1>1, <2>1
  <2>. QED
    BY <1>2, <2>1, <2>2
<1>6. \A j \in 0 .. M - 1 : ctrl[j] = IF j = i THEN b ELSE t.ctrl[j]
  BY <1>0, <1>1
<1>. DEFINE slots == [t.slots EXCEPT ![i] = e]
<1>7. slots \in [0 .. M - 1 -> Elements] /\ slots[i] = e
      /\ \A j \in 0 .. M - 1 : j # i => slots[j] = t.slots[j]
  BY <1>0, <1>1, <1>2
<1>. HIDE DEF ctrl, slots
<1>8. u.cap = M /\ u.size = s /\ u.tombs = d /\ u.ctrl = ctrl /\ u.slots = slots
  BY <1>1, <1>3 DEF slots
<1>9. TableType(u)
  <2>1. u = [cap |-> M, size |-> s, tombs |-> d, ctrl |-> ctrl, slots |-> slots] /\ M \in Nat
    BY <1>1, <1>3 DEF slots
  <2>2. u \in [cap : Nat, size : Int, tombs : Int,
               ctrl : [0 .. M + W - 1 -> 0 .. 255], slots : [0 .. M - 1 -> Elements]]
    <3>1. s \in Int /\ d \in Int
      BY <1>0
    <3>. HIDE DEF u
    <3>. QED
      BY <1>4, <1>7, <2>1, <3>1
  <2>. QED
    BY <1>1, <1>8, <2>2 DEF TableType, Elements
<1>. HIDE DEF u
<1>10. ShapeOK(u)
  BY <1>0, <1>1, <1>5, <1>8, <1>9 DEF ShapeOK, Mirrored
<1>. QED
  BY <1>0, <1>1, <1>6, <1>7, <1>8, <1>10 DEF Changed, u, s, d

(* A probe sequence depends on the capacity alone. *)
LEMMA SameProbe ==
  ASSUME NEW t, NEW u, u.cap = t.cap, NEW h, NEW p
  PROVE  SlotAt(u, h, p) = SlotAt(t, h, p)
BY DEF SlotAt, Offset

(* What is reached stays so as long as no byte becomes empty. *)
LEMMA ReachStays ==
  ASSUME NEW t, NEW u, u.cap = t.cap, ShapeOK(t), NEW h \in Nat, NEW i, Reach(t, h, i),
         \A j \in 0 .. t.cap - 1 : t.ctrl[j] # kEmpty => u.ctrl[j] # kEmpty
  PROVE  Reach(u, h, i)
<1>1. PICK p \in 0 .. t.cap - 1 :
        SlotAt(t, h, p) = i /\ \A q \in 0 .. p - 1 : t.ctrl[SlotAt(t, h, q)] # kEmpty
  BY DEF Reach
<1>2. IsCapacity(t.cap)
  BY <1>1 DEF ShapeOK
<1>3. \A q \in Nat : SlotAt(t, h, q) \in 0 .. t.cap - 1
  BY <1>2, SlotType
<1>4. \A q \in 0 .. p - 1 : u.ctrl[SlotAt(u, h, q)] # kEmpty
  BY <1>1, <1>3, SameProbe
<1>5. SlotAt(u, h, p) = i
  BY <1>1, SameProbe
<1>. QED
  BY <1>1, <1>4, <1>5 DEF Reach

(* The element of a slot that is full. *)
LEMMA FullSlot ==
  ASSUME ConfigOK, NEW t, NEW c, Content(t, c), NEW i \in Full(t)
  PROVE  /\ i \in 0 .. t.cap - 1 /\ is_full(t.ctrl[i])
         /\ KeyIn(t, i) \in HashKeys /\ t.slots[i].value = c[KeyIn(t, i)]
         /\ c[KeyIn(t, i)] # 0 /\ t.ctrl[i] # kEmpty /\ t.ctrl[i] # kDeleted
         /\ t.ctrl[i] = H2(hash_key[KeyIn(t, i)]) /\ t.slots[i].home = hash_key[KeyIn(t, i)] % t.cap
         /\ hash_key[KeyIn(t, i)] \in Nat
<1>1. i \in 0 .. t.cap - 1 /\ is_full(t.ctrl[i]) /\ SlotOK(t, i, c)
  BY DEF Full, Content
<1>2. t.ctrl[i] # kEmpty /\ t.ctrl[i] # kDeleted
  BY <1>1 DEF is_full, kEmpty, kDeleted
<1>3. KeyIn(t, i) \in HashKeys
  BY <1>1 DEF SlotOK, KeyIn
<1>. QED
  BY <1>1, <1>2, <1>3, HashNumbers DEF SlotOK, KeyIn

(* An empty table says that there is nothing. *)
LEMMA EmptyFaithful ==
  ASSUME NEW cap, cap = 0 \/ IsCapacity(cap), NEW c, c = [k \in HashKeys |-> 0]
  PROVE  Faithful(EmptyTable(cap), c)
<1>. DEFINE t == EmptyTable(cap)
<1>1. cap \in Nat /\ kWidth \in Nat \ {0}
  BY HashAssumption DEF IsCapacity
<1>2. /\ t.cap = cap /\ t.size = 0 /\ t.tombs = 0
      /\ t.ctrl = [i \in 0 .. cap + kWidth - 1 |-> kEmpty] /\ t.slots = [i \in 0 .. cap - 1 |-> NoElement]
  BY DEF EmptyTable
<1>3. TableType(t)
  BY <1>1 DEF TableType, EmptyTable, kEmpty, NoElement
<1>. HIDE DEF t
<1>4. \A i \in 0 .. t.cap - 1 : t.ctrl[i] = kEmpty /\ t.slots[i] = NoElement
  BY <1>1, <1>2
<1>5. Mirrored(t)
  BY <1>1, <1>2 DEF Mirrored
<1>6. ~is_full(kEmpty) /\ kEmpty # kDeleted
  BY DEF is_full, kEmpty, kDeleted
<1>7. Full(t) = {} /\ Dead(t) = {}
  BY <1>4, <1>6 DEF Full, Dead
<1>8. ShapeOK(t)
  BY <1>2, <1>3, <1>5 DEF ShapeOK
<1>9. Content(t, c)
  BY <1>4, <1>6 DEF Content, SlotOK
<1>10. CountersOK(t)
  BY <1>1, <1>2, <1>7, FS_EmptySet, CapacityIs DEF CountersOK
<1>. QED
  BY <1>7, <1>8, <1>9, <1>10 DEF Faithful, KeysOnce, Reached, t

-----------------------------------------------------------------------------
(* Elements of FastHashMap are put in and taken out. *)

Freed == IF deletion = "tombstone" THEN {kEmpty, kDeleted} ELSE {kEmpty}

(* The slot for a new element: the first on its way that may be used. *)
LEMMA InsertSlot ==
  ASSUME NEW t, NEW c, ShapeOK(t), Content(t, c), CountersOK(t), t.cap # 0, NEW h \in Nat
  PROVE  /\ find_insert_slot(t, h) \in 0 .. t.cap - 1
         /\ t.ctrl[find_insert_slot(t, h)] \in Freed
         /\ Reach(t, h, find_insert_slot(t, h))
<1>. DEFINE S == With(t, h, Freed)
            i == find_insert_slot(t, h)
<1>1. IsCapacity(t.cap) /\ t.cap \in Nat \ {0}
  BY CapacityIs DEF ShapeOK
<1>2. ASSUME NEW p \in Nat
      PROVE  SlotAt(t, h, p) \in 0 .. t.cap - 1 /\ CtrlAt(t, h, p) = t.ctrl[SlotAt(t, h, p)]
  BY <1>1, SlotType DEF ShapeOK, Mirrored
<1>3. 0 .. t.cap - 1 \subseteq Bytes(t) /\ Bytes(t) \subseteq Nat
  BY <1>1 DEF Bytes
<1>4. PICK p \in 0 .. t.cap - 1 : t.ctrl[SlotAt(t, h, p)] = kEmpty
  BY <1>1, HasEmpty
<1>5. p \in S /\ S \in SUBSET Nat
  BY <1>2, <1>3, <1>4 DEF With, Freed
<1>6. PICK m \in S : m = Min(S) /\ \A q \in S : m <= q
  BY <1>5, MinIsIn
<1>7. m \in Nat /\ m \in 0 .. t.cap - 1 /\ CtrlAt(t, h, m) \in Freed
  BY <1>1, <1>4, <1>5, <1>6 DEF With
<1>8. i = SlotAt(t, h, m)
  BY <1>6 DEF find_insert_slot, Freed
<1>9. ASSUME NEW q \in 0 .. m - 1 PROVE t.ctrl[SlotAt(t, h, q)] # kEmpty
  <2>1. q \in Bytes(t) /\ q \notin S
    BY <1>1, <1>3, <1>5, <1>6, <1>7
  <2>. QED
    BY <1>2, <1>3, <2>1 DEF With, Freed
<1>. QED
  BY <1>2, <1>7, <1>8, <1>9 DEF Reach

(* An element is put in (the second phase of an insertion). *)
LEMMA InsertFaithful ==
  ASSUME ConfigOK, NEW t, NEW c, Faithful(t, c), t.cap # 0, t.size + t.tombs < t.cap - 1,
         NEW k \in HashKeys, c[k] = 0, NEW v \in MapValues, NEW d, d = [c EXCEPT ![k] = v]
  PROVE  /\ Faithful(WithElement(t, k, v), d)
         /\ WithElement(t, k, v).cap = t.cap /\ WithElement(t, k, v).size = t.size + 1
         /\ WithElement(t, k, v).tombs <= t.tombs
<1>. SUFFICES ASSUME NEW h, h = hash_key[k], NEW i, i = find_insert_slot(t, h),
                     NEW u, u = WithElement(t, k, v)
              PROVE  Faithful(u, d) /\ u.cap = t.cap /\ u.size = t.size + 1 /\ u.tombs <= t.tombs
  OBVIOUS
<1>. DEFINE element == [key |-> k, value |-> v, home |-> h % t.cap]
            left == IF t.ctrl[i] = kDeleted THEN t.tombs - 1 ELSE t.tombs
            written == [t EXCEPT !.slots[i] = element, !.size = @ + 1, !.tombs = left]
<1>1. ShapeOK(t) /\ Content(t, c) /\ KeysOnce(t) /\ Reached(t) /\ CountersOK(t)
  BY DEF Faithful
<1>2. /\ h \in Nat /\ H2(h) \in 128 .. 255 /\ is_full(H2(h)) /\ k \in Nat \ {0}
      /\ v \in Nat \ {0}
  BY HashNumbers, HashAssumption
<1>3. t.cap \in Nat \ {0} /\ TableType(t)
  BY <1>1, CapacityIs DEF ShapeOK
<1>4. i \in 0 .. t.cap - 1 /\ t.ctrl[i] \in {kEmpty, kDeleted} /\ Reach(t, h, i)
  BY <1>1, <1>2, InsertSlot DEF Freed
<1>5. element \in Elements
  <2>1. PICK M \in Nat \ {0}, g \in Nat : M = t.cap /\ g = h
    BY <1>2, <1>3
  <2>2. g % M \in Nat
    BY DivMod
  <2>. QED
    BY <1>2, <2>1, <2>2 DEF Elements
<1>6. t.size \in Int /\ t.tombs \in Int /\ left \in Int /\ left <= t.tombs
  BY <1>3 DEF TableType
<1>. HIDE DEF element, left
<1>7. Put(t, written, i, element, H2(h)) /\ written.size = t.size + 1 /\ written.tombs = left
  <2>1. t \in [cap : {t.cap}, size : Int, tombs : Int, ctrl : {t.ctrl}, slots : {t.slots}]
    BY <1>3 DEF TableType
  <2>2. PICK s \in Int : s = t.size + 1
    BY <1>6
  <2>3. written = [t EXCEPT !.slots[i] = element, !.size = s, !.tombs = left]
    BY <2>2
  <2>. HIDE DEF written
  <2>4. /\ written \in [cap : {t.cap}, size : Int, tombs : Int, ctrl : {t.ctrl},
                 slots : {[t.slots EXCEPT ![i] = element]}]
        /\ written.size = s /\ written.tombs = left
    BY <1>6, <2>1, <2>3
  <2>5. H2(h) \in 0 .. 255
    BY <1>2
  <2>. QED
    BY <1>1, <1>4, <1>5, <2>2, <2>4, <2>5 DEF Put
<1>8. u = set_ctrl(written, i, H2(h))
  BY DEF WithElement, element, left
<1>. HIDE DEF written
<1>9. Changed(t, u, i, element, H2(h)) /\ u.size = t.size + 1 /\ u.tombs = left
  <2>2. /\ Changed(t, set_ctrl(written, i, H2(h)), i, element, H2(h))
        /\ set_ctrl(written, i, H2(h)).size = written.size /\ set_ctrl(written, i, H2(h)).tombs = written.tombs
    BY <1>7, ChangedIs
  <2>. QED
    BY <1>7, <1>8, <2>2
<1>10. /\ ShapeOK(u) /\ u.cap = t.cap /\ u.slots[i] = element /\ u.ctrl[i] = H2(h)
       /\ \A j \in 0 .. t.cap - 1 : j # i => u.slots[j] = t.slots[j] /\ u.ctrl[j] = t.ctrl[j]
  BY <1>9 DEF Changed
<1>11. ~is_full(t.ctrl[i]) /\ H2(h) # kDeleted /\ H2(h) # kEmpty
  BY <1>2, <1>4 DEF is_full, kEmpty, kDeleted
<1>12. Full(u) = Full(t) \cup {i} /\ i \notin Full(t) /\ Dead(u) = Dead(t) \ {i}
  BY <1>2, <1>4, <1>10, <1>11 DEF Full, Dead
<1>13. element.key = k /\ element.value = v /\ element.home = h % t.cap
  BY DEF element
<1>14. ASSUME NEW j \in Full(t)
       PROVE  KeyIn(u, j) = KeyIn(t, j) /\ KeyIn(t, j) \in HashKeys /\ KeyIn(t, j) # k /\ j # i
  BY <1>1, <1>10, <1>12, FullSlot DEF KeyIn, Full
<1>15. KeyIn(u, i) = k
  BY <1>10, <1>13 DEF KeyIn
<1>16. Content(u, d)
  <2>1. c \in [HashKeys -> MapValues \cup {0}]
    BY <1>1 DEF Content
  <2>2. d \in [HashKeys -> MapValues \cup {0}] /\ d[k] = v /\ \A x \in HashKeys \ {k} : d[x] = c[x]
    BY <2>1
  <2>3. ASSUME NEW j \in 0 .. u.cap - 1 PROVE SlotOK(u, j, d)
    <3>1. CASE j = i
      BY <1>2, <1>10, <1>13, <2>2, <3>1 DEF SlotOK
    <3>2. CASE j # i
      <4>1. SlotOK(t, j, c) /\ u.slots[j] = t.slots[j] /\ u.ctrl[j] = t.ctrl[j]
        BY <1>1, <1>10, <3>2 DEF Content
      <4>2. CASE is_full(t.ctrl[j])
        <5>1. j \in Full(t)
          BY <1>10, <4>2 DEF Full
        <5>2. t.slots[j].key # k
          BY <1>14, <5>1 DEF KeyIn
        <5>. QED
          BY <1>10, <2>2, <4>1, <4>2, <5>2 DEF SlotOK
      <4>3. CASE ~is_full(t.ctrl[j])
        BY <4>1, <4>3 DEF SlotOK
      <4>. QED
        BY <4>2, <4>3
    <3>. QED
      BY <3>1, <3>2
  <2>4. ASSUME NEW x \in HashKeys, d[x] # 0 PROVE \E j \in Full(u) : KeyIn(u, j) = x
    <3>1. CASE x = k
      BY <1>12, <1>15, <3>1
    <3>2. CASE x # k
      <4>1. PICK j \in Full(t) : KeyIn(t, j) = x
        BY <1>1, <2>2, <2>4, <3>2 DEF Content
      <4>. QED
        BY <1>12, <1>14, <4>1
    <3>. QED
      BY <3>1, <3>2
  <2>. QED
    BY <2>2, <2>3, <2>4 DEF Content
<1>17. KeysOnce(u)
  BY <1>1, <1>12, <1>14, <1>15 DEF KeysOnce
<1>18. \A j \in 0 .. t.cap - 1 : t.ctrl[j] # kEmpty => u.ctrl[j] # kEmpty
  BY <1>10, <1>11
<1>19. Reached(u)
  <2>1. ASSUME NEW j \in Full(t) PROVE Reach(u, hash_key[KeyIn(u, j)], j)
    <3>1. Reach(t, hash_key[KeyIn(t, j)], j) /\ hash_key[KeyIn(t, j)] \in Nat
      BY <1>1, FullSlot DEF Reached
    <3>. QED
      BY <1>1, <1>10, <1>14, <1>18, <3>1, ReachStays
  <2>2. Reach(u, hash_key[KeyIn(u, i)], i)
    <3>1. Reach(u, h, i)
      BY <1>1, <1>2, <1>4, <1>10, <1>18, ReachStays
    <3>. QED
      BY <1>15, <3>1
  <2>. QED
    BY <1>12, <2>1, <2>2 DEF Reached
<1>20. CountersOK(u)
  <2>1. /\ IsFiniteSet(Full(t)) /\ IsFiniteSet(Dead(t))
        /\ Cardinality(Full(t)) \in Nat /\ Cardinality(Dead(t)) \in Nat
    BY <1>3, SetsFinite
  <2>2. Cardinality(Full(t) \cup {i}) = Cardinality(Full(t)) + 1
    BY <1>12, <2>1, FS_AddElement
  <2>3. i \in Dead(t) <=> t.ctrl[i] = kDeleted
    BY <1>4 DEF Dead
  <2>4. Cardinality(Dead(u)) = left
    <3>1. CASE i \in Dead(t)
      <4>1. Cardinality(Dead(t) \ {i}) = Cardinality(Dead(t)) - 1
        BY <2>1, <3>1, FS_RemoveElement
      <4>. QED
        BY <1>1, <1>12, <2>3, <3>1, <4>1 DEF CountersOK, left
    <3>2. CASE i \notin Dead(t)
      <4>1. Dead(u) = Dead(t)
        BY <1>12, <3>2
      <4>. QED
        BY <1>1, <2>3, <3>2, <4>1 DEF CountersOK, left
    <3>. QED
      BY <3>1, <3>2
  <2>5. t.size = Cardinality(Full(t))
    BY <1>1 DEF CountersOK
  <2>. QED
    BY <1>3, <1>6, <1>9, <1>10, <1>12, <2>2, <2>4, <2>5 DEF CountersOK
<1>. QED
  BY <1>6, <1>9, <1>10, <1>16, <1>17, <1>19, <1>20 DEF Faithful

Assigned(t, i, v) == [t EXCEPT !.slots[i].value = v]

(* An element is given another value. *)
LEMMA AssignFaithful ==
  ASSUME ConfigOK, NEW t, NEW c, Faithful(t, c), NEW i \in Full(t),
         NEW v \in MapValues, NEW d, d = [c EXCEPT ![KeyIn(t, i)] = v]
  PROVE  Faithful(Assigned(t, i, v), d) /\ Assigned(t, i, v).cap = t.cap
<1>. SUFFICES ASSUME NEW u, u = Assigned(t, i, v) PROVE Faithful(u, d) /\ u.cap = t.cap
  OBVIOUS
<1>. DEFINE k == KeyIn(t, i)
            e == [t.slots[i] EXCEPT !.value = v]
<1>1. ShapeOK(t) /\ Content(t, c) /\ KeysOnce(t) /\ Reached(t) /\ CountersOK(t)
  BY DEF Faithful
<1>2. /\ i \in 0 .. t.cap - 1 /\ is_full(t.ctrl[i]) /\ k \in HashKeys
      /\ t.ctrl[i] = H2(hash_key[k]) /\ t.slots[i].home = hash_key[k] % t.cap
  BY <1>1, FullSlot
<1>3. v \in Nat \ {0}
  BY HashAssumption
<1>4. TableType(t)
  BY <1>1 DEF ShapeOK
<1>5. t.slots[i] \in [key : Nat, value : Nat, home : Nat]
  BY <1>2, <1>4 DEF TableType
<1>6. e \in [key : Nat, value : Nat, home : Nat] /\ e.key = k /\ e.value = v /\ e.home = t.slots[i].home
  BY <1>3, <1>5 DEF KeyIn
<1>7. u = [t EXCEPT !.slots[i] = e]
  BY DEF Assigned
<1>. HIDE DEF e
<1>8. /\ u \in [cap : {t.cap}, size : {t.size}, tombs : {t.tombs}, ctrl : {t.ctrl},
               slots : {[t.slots EXCEPT ![i] = e]}]
  <2>1. t \in [cap : {t.cap}, size : {t.size}, tombs : {t.tombs}, ctrl : {t.ctrl}, slots : {t.slots}]
    BY <1>4 DEF TableType
  <2>. QED
    BY <1>7, <2>1
<1>9. /\ u.cap = t.cap /\ u.size = t.size /\ u.tombs = t.tombs /\ u.ctrl = t.ctrl
      /\ u.slots = [t.slots EXCEPT ![i] = e]
  BY <1>8
<1>10. /\ u.slots[i] = e /\ u.slots \in [0 .. t.cap - 1 -> [key : Nat, value : Nat, home : Nat]]
       /\ \A j \in 0 .. t.cap - 1 : j # i => u.slots[j] = t.slots[j]
  <2>1. t.slots \in [0 .. t.cap - 1 -> [key : Nat, value : Nat, home : Nat]]
    BY <1>4 DEF TableType
  <2>2. u.slots \in [0 .. t.cap - 1 -> [key : Nat, value : Nat, home : Nat]]
    <3>1. PICK M, E, f : /\ M = 0 .. t.cap - 1 /\ E = [key : Nat, value : Nat, home : Nat]
                         /\ f = t.slots
      OBVIOUS
    <3>2. f \in [M -> E] /\ e \in E
      BY <1>6, <2>1, <3>1
    <3>3. [f EXCEPT ![i] = e] \in [M -> E]
      BY <3>2, Zenon
    <3>. QED
      BY <1>9, <3>1, <3>3, Zenon
  <2>3. u.slots[i] = e
    BY <1>2, <1>9, <2>1
  <2>4. \A j \in 0 .. t.cap - 1 : j # i => u.slots[j] = t.slots[j]
    BY <1>9, <2>1
  <2>. QED
    BY <2>2, <2>3, <2>4
<1>11. ShapeOK(u)
  <2>1. TableType(u)
    BY <1>4, <1>8, <1>9, <1>10 DEF TableType
  <2>. QED
    BY <1>1, <1>9, <2>1 DEF ShapeOK, Mirrored
<1>. HIDE <1>7, <1>8
<1>12. Full(u) = Full(t) /\ Dead(u) = Dead(t)
  BY <1>9 DEF Full, Dead
<1>13. \A j \in 0 .. t.cap - 1 : KeyIn(u, j) = KeyIn(t, j)
  BY <1>6, <1>10 DEF KeyIn
<1>14. Full(t) \subseteq 0 .. t.cap - 1
  BY DEF Full
<1>15. Content(u, d)
  <2>1. c \in [HashKeys -> MapValues \cup {0}]
    BY <1>1 DEF Content
  <2>2. d \in [HashKeys -> MapValues \cup {0}] /\ d[k] = v /\ \A x \in HashKeys \ {k} : d[x] = c[x]
    BY <1>2, <2>1
  <2>3. ASSUME NEW j \in 0 .. u.cap - 1 PROVE SlotOK(u, j, d)
    <3>1. CASE j = i
      BY <1>2, <1>3, <1>6, <1>9, <1>10, <2>2, <3>1 DEF SlotOK
    <3>2. CASE j # i
      <4>1. SlotOK(t, j, c) /\ u.slots[j] = t.slots[j] /\ u.ctrl[j] = t.ctrl[j]
        BY <1>1, <1>9, <1>10, <3>2 DEF Content
      <4>2. CASE is_full(t.ctrl[j])
        <5>1. j \in Full(t)
          BY <1>9, <4>2 DEF Full
        <5>2. t.slots[j].key # k
          BY <1>1, <3>2, <5>1 DEF KeysOnce, KeyIn
        <5>. QED
          BY <1>9, <2>2, <4>1, <4>2, <5>2 DEF SlotOK
      <4>3. CASE ~is_full(t.ctrl[j])
        BY <4>1, <4>3 DEF SlotOK
      <4>. QED
        BY <4>2, <4>3
    <3>. QED
      BY <3>1, <3>2
  <2>4. ASSUME NEW x \in HashKeys, d[x] # 0 PROVE \E j \in Full(u) : KeyIn(u, j) = x
    <3>1. CASE x = k
      BY <1>12, <1>13, <1>14, <3>1
    <3>2. CASE x # k
      <4>1. PICK j \in Full(t) : KeyIn(t, j) = x
        BY <1>1, <2>2, <2>4, <3>2 DEF Content
      <4>. QED
        BY <1>12, <1>13, <1>14, <4>1
    <3>. QED
      BY <3>1, <3>2
  <2>. QED
    BY <2>2, <2>3, <2>4 DEF Content
<1>16. KeysOnce(u)
  BY <1>1, <1>12, <1>13, <1>14 DEF KeysOnce
<1>17. Reached(u)
  <2>1. ASSUME NEW j \in Full(t) PROVE Reach(u, hash_key[KeyIn(t, j)], j)
    <3>1. Reach(t, hash_key[KeyIn(t, j)], j) /\ hash_key[KeyIn(t, j)] \in Nat
      BY <1>1, FullSlot DEF Reached
    <3>2. \A x \in 0 .. t.cap - 1 : t.ctrl[x] # kEmpty => u.ctrl[x] # kEmpty
      BY <1>9
    <3>3. ShapeOK(t) /\ u.cap = t.cap
      BY <1>1, <1>9
    <3>. QED
      BY <3>1, <3>2, <3>3, ReachStays
  <2>. QED
    BY <1>12, <1>13, <1>14, <2>1 DEF Reached
<1>18. CountersOK(u)
  BY <1>1, <1>9, <1>12 DEF CountersOK
<1>. QED
  BY <1>9, <1>11, <1>15, <1>16, <1>17, <1>18 DEF Faithful

(* The key in slot i is forgotten: d is the content of the other slots. *)
Forgotten(t, i, d) ==
  /\ d \in [HashKeys -> MapValues \cup {0}] /\ d[KeyIn(t, i)] = 0
  /\ \A j \in Full(t) \ {i} :
       t.slots[j].value = d[KeyIn(t, j)] /\ KeyIn(t, j) # KeyIn(t, i)
  /\ \A x \in HashKeys : d[x] # 0 => \E j \in Full(t) \ {i} : KeyIn(t, j) = x

(* The content without the element of slot i. *)
LEMMA Forgets ==
  ASSUME ConfigOK, NEW t, NEW c, Content(t, c), KeysOnce(t), NEW i \in Full(t),
         NEW d, d = [c EXCEPT ![KeyIn(t, i)] = 0]
  PROVE  Forgotten(t, i, d)
<1>. DEFINE k == KeyIn(t, i)
<1>1. k \in HashKeys
  BY FullSlot
<1>2. c \in [HashKeys -> MapValues \cup {0}]
  BY DEF Content
<1>3. d \in [HashKeys -> MapValues \cup {0}] /\ d[k] = 0 /\ \A x \in HashKeys \ {k} : d[x] = c[x]
  BY <1>1, <1>2
<1>4. ASSUME NEW j \in Full(t), j # i PROVE t.slots[j].value = d[KeyIn(t, j)] /\ KeyIn(t, j) # k
  <2>1. KeyIn(t, j) # k
    BY <1>4 DEF KeysOnce
  <2>2. t.slots[j].value = c[KeyIn(t, j)] /\ KeyIn(t, j) \in HashKeys
    BY FullSlot
  <2>. QED
    BY <1>3, <2>1, <2>2
<1>5. ASSUME NEW x \in HashKeys, d[x] # 0 PROVE \E j \in Full(t) \ {i} : KeyIn(t, j) = x
  <2>1. x # k /\ c[x] # 0
    BY <1>3, <1>5
  <2>2. PICK j \in Full(t) : KeyIn(t, j) = x
    BY <2>1 DEF Content
  <2>. QED
    BY <2>1, <2>2
<1>. QED
  BY <1>3, <1>4, <1>5 DEF Forgotten

(* An element makes room for a tombstone. *)
LEMMA TombstoneFaithful ==
  ASSUME ConfigOK, deletion = "tombstone", NEW t, NEW c, Faithful(t, c), NEW i \in Full(t),
         NEW d, d = [c EXCEPT ![KeyIn(t, i)] = 0]
  PROVE  Faithful(Erased(t, i), d) /\ Erased(t, i).cap = t.cap
<1>. SUFFICES ASSUME NEW u, u = Erased(t, i) PROVE Faithful(u, d) /\ u.cap = t.cap
  OBVIOUS
<1>. DEFINE written == [[t EXCEPT !.size = @ - 1] EXCEPT !.slots[i] = NoElement, !.tombs = @ + 1]
<1>1. ShapeOK(t) /\ Content(t, c) /\ KeysOnce(t) /\ Reached(t) /\ CountersOK(t)
  BY DEF Faithful
<1>2. i \in 0 .. t.cap - 1 /\ is_full(t.ctrl[i]) /\ TableType(t) /\ t.cap \in Nat \ {0}
  BY <1>1, FullSlot, CapacityIs DEF ShapeOK
<1>3. Put(t, written, i, NoElement, kDeleted) /\ written.size = t.size - 1 /\ written.tombs = t.tombs + 1
  <2>1. /\ t \in [cap : {t.cap}, size : Int, tombs : Int, ctrl : {t.ctrl}, slots : {t.slots}]
        /\ t.size \in Int /\ t.tombs \in Int
    BY <1>2 DEF TableType
  <2>2. PICK s \in Int, n \in Int : s = t.size - 1 /\ n = t.tombs + 1
    BY <2>1
  <2>3. PICK v : v = [t EXCEPT !.size = s]
    OBVIOUS
  <2>4. /\ v \in [cap : {t.cap}, size : Int, tombs : Int, ctrl : {t.ctrl}, slots : {t.slots}]
        /\ v.tombs = t.tombs /\ v.size = s /\ v.slots = t.slots
    BY <2>1, <2>3
  <2>5. written = [v EXCEPT !.slots[i] = NoElement, !.tombs = n]
    BY <2>2, <2>3, <2>4
  <2>. HIDE DEF written
  <2>6. /\ written \in [cap : {t.cap}, size : Int, tombs : Int, ctrl : {t.ctrl},
                 slots : {[t.slots EXCEPT ![i] = NoElement]}]
        /\ written.size = s /\ written.tombs = n
    BY <2>4, <2>5
  <2>7. NoElement \in Elements /\ kDeleted \in 0 .. 255
    BY DEF NoElement, Elements, kDeleted
  <2>. QED
    BY <1>1, <1>2, <2>2, <2>6, <2>7 DEF Put
<1>4. u = set_ctrl(written, i, kDeleted)
  BY DEF Erased
<1>. HIDE DEF written
<1>5. Changed(t, u, i, NoElement, kDeleted) /\ u.size = t.size - 1 /\ u.tombs = t.tombs + 1
  <2>1. /\ Changed(t, set_ctrl(written, i, kDeleted), i, NoElement, kDeleted)
        /\ set_ctrl(written, i, kDeleted).size = written.size
        /\ set_ctrl(written, i, kDeleted).tombs = written.tombs
    BY <1>3, ChangedIs
  <2>. QED
    BY <1>3, <1>4, <2>1
<1>6. /\ ShapeOK(u) /\ u.cap = t.cap /\ u.slots[i] = NoElement /\ u.ctrl[i] = kDeleted
      /\ \A j \in 0 .. t.cap - 1 : j # i => u.slots[j] = t.slots[j] /\ u.ctrl[j] = t.ctrl[j]
  BY <1>5 DEF Changed
<1>7. ~is_full(kDeleted) /\ kDeleted # kEmpty
  BY DEF is_full, kEmpty, kDeleted
<1>8. Full(u) = Full(t) \ {i} /\ i \in Full(t) /\ Dead(u) = Dead(t) \cup {i} /\ i \notin Dead(t)
  <2>1. t.ctrl[i] # kDeleted
    BY <1>2, <1>7
  <2>. QED
    BY <1>2, <1>6, <1>7, <2>1 DEF Full, Dead
<1>9. \A j \in Full(u) : j \in Full(t) /\ j # i /\ j \in 0 .. t.cap - 1 /\ KeyIn(u, j) = KeyIn(t, j)
  BY <1>6, <1>8 DEF KeyIn, Full
<1>10. Content(u, d)
  <2>1. Forgotten(t, i, d)
    BY <1>1, Forgets
  <2>2. ASSUME NEW j \in 0 .. u.cap - 1 PROVE SlotOK(u, j, d)
    <3>1. CASE j = i
      BY <1>6, <1>7, <3>1 DEF SlotOK
    <3>2. CASE j # i
      <4>1. SlotOK(t, j, c) /\ u.slots[j] = t.slots[j] /\ u.ctrl[j] = t.ctrl[j]
        BY <1>1, <1>6, <3>2 DEF Content
      <4>2. CASE is_full(t.ctrl[j])
        <5>1. j \in Full(t)
          BY <1>6, <4>2 DEF Full
        <5>2. t.slots[j].value = d[t.slots[j].key]
          BY <2>1, <3>2, <5>1 DEF Forgotten, KeyIn
        <5>. QED
          BY <1>6, <4>1, <4>2, <5>2 DEF SlotOK
      <4>3. CASE ~is_full(t.ctrl[j])
        BY <4>1, <4>3 DEF SlotOK
      <4>. QED
        BY <4>2, <4>3
    <3>. QED
      BY <3>1, <3>2
  <2>3. \A x \in HashKeys : d[x] # 0 => \E j \in Full(u) : KeyIn(u, j) = x
    BY <1>8, <1>9, <2>1 DEF Forgotten
  <2>. QED
    BY <2>1, <2>2, <2>3 DEF Content, Forgotten
<1>11. KeysOnce(u)
  BY <1>1, <1>9 DEF KeysOnce
<1>12. Reached(u)
  <2>1. ASSUME NEW j \in Full(u) PROVE Reach(u, hash_key[KeyIn(t, j)], j)
    <3>1. Reach(t, hash_key[KeyIn(t, j)], j) /\ hash_key[KeyIn(t, j)] \in Nat
      BY <1>1, <1>9, FullSlot DEF Reached
    <3>2. \A x \in 0 .. t.cap - 1 : t.ctrl[x] # kEmpty => u.ctrl[x] # kEmpty
      BY <1>6, <1>7
    <3>. QED
      BY <1>1, <1>6, <3>1, <3>2, ReachStays
  <2>. QED
    BY <1>9, <2>1 DEF Reached
<1>13. CountersOK(u)
  <2>1. /\ IsFiniteSet(Full(t)) /\ IsFiniteSet(Dead(t))
        /\ Cardinality(Full(t)) \in Nat /\ Cardinality(Dead(t)) \in Nat
    BY <1>2, SetsFinite
  <2>2. Cardinality(Full(t) \ {i}) = Cardinality(Full(t)) - 1
    BY <1>8, <2>1, FS_RemoveElement
  <2>3. Cardinality(Dead(t) \cup {i}) = Cardinality(Dead(t)) + 1
    BY <1>8, <2>1, FS_AddElement
  <2>. QED
    BY <1>1, <1>2, <1>5, <1>6, <1>8, <2>1, <2>2, <2>3 DEF CountersOK
<1>. QED
  BY <1>6, <1>10, <1>11, <1>12, <1>13 DEF Faithful

-----------------------------------------------------------------------------
(* rehash_internal() of FastHashMap. *)

RebuildStep(t, new, n) ==
  IF is_full(t.ctrl[n - 1])
  THEN WithElement(new, t.slots[n - 1].key, t.slots[n - 1].value) ELSE new

(* Function f gives the new table after the first n slots, for n up to N. *)
RebuildIs(t, cap, N, f) ==
  f = [n \in 0 .. N |-> IF n = 0 THEN EmptyTable(cap) ELSE RebuildStep(t, f[n - 1], n)]

(* rehash_internal() puts in the elements one by one. *)
LEMMA RebuildExists ==
  ASSUME NEW t, NEW cap, NEW N \in Nat
  PROVE  \E f : RebuildIs(t, cap, N, f)
<1>. SUFFICES ASSUME ~ \E f : RebuildIs(t, cap, N, f) PROVE FALSE
  OBVIOUS
<1>. DEFINE Bad == {m \in Nat : ~ \E f : RebuildIs(t, cap, m, f)}
<1>1. PICK m \in Bad : \A k \in Bad : m <= k
  <2>1. Bad \in SUBSET Nat /\ Bad # {}
    OBVIOUS
  <2>. HIDE DEF Bad
  <2>. QED
    BY <2>1, LeastOf
<1>2. m # 0
  <2>. DEFINE f == [n \in 0 .. 0 |-> EmptyTable(cap)]
  <2>1. RebuildIs(t, cap, 0, f)
    BY DEF RebuildIs
  <2>. QED
    BY <1>1, <2>1
<1>3. m \in Nat /\ m - 1 \in Nat /\ m - 1 \notin Bad
  BY <1>1, <1>2
<1>4. PICK f : RebuildIs(t, cap, m - 1, f)
  BY <1>3
<1>. DEFINE last == RebuildStep(t, f[m - 1], m)
            g == [n \in 0 .. m |-> IF n = m THEN last ELSE f[n]]
<1>5. ASSUME NEW n \in 0 .. m
      PROVE  g[n] = IF n = 0 THEN EmptyTable(cap) ELSE RebuildStep(t, g[n - 1], n)
  <2>1. CASE n = m
    <3>1. g[n] = last /\ g[n - 1] = f[m - 1]
      BY <1>2, <1>3, <2>1
    <3>. HIDE DEF g
    <3>. QED
      BY <1>2, <2>1, <3>1
  <2>2. CASE n # m
    <3>1. n \in 0 .. m - 1
      BY <1>3, <2>2
    <3>2. f[n] = IF n = 0 THEN EmptyTable(cap) ELSE RebuildStep(t, f[n - 1], n)
      BY <1>4, <3>1 DEF RebuildIs
    <3>3. n # 0 => g[n - 1] = f[n - 1]
      BY <1>3, <3>1
    <3>4. g[n] = f[n]
      BY <2>2
    <3>. HIDE DEF g
    <3>. QED
      BY <3>2, <3>3, <3>4
  <2>. QED
    BY <2>1, <2>2
<1>6. RebuildIs(t, cap, m, g)
  <2>1. g = [n \in 0 .. m |-> g[n]]
    OBVIOUS
  <2>. HIDE DEF g
  <2>. QED
    BY <1>5, <2>1 DEF RebuildIs
<1>. QED
  BY <1>1, <1>6

LEMMA RebuildGives ==
  ASSUME NEW t, t.cap \in Nat, NEW cap
  PROVE  \E f : RebuildIs(t, cap, t.cap, f) /\ rehash_internal(t, cap) = f[t.cap]
<1>. DEFINE new[n \in 0 .. t.cap] ==
              IF n = 0 THEN EmptyTable(cap)
              ELSE IF is_full(t.ctrl[n - 1])
                   THEN WithElement(new[n - 1], t.slots[n - 1].key, t.slots[n - 1].value)
                   ELSE new[n - 1]
<1>1. PICK f : RebuildIs(t, cap, t.cap, f)
  BY RebuildExists
<1>2. f = [n \in 0 .. t.cap |->
             IF n = 0 THEN EmptyTable(cap)
             ELSE IF is_full(t.ctrl[n - 1])
                  THEN WithElement(f[n - 1], t.slots[n - 1].key, t.slots[n - 1].value)
                  ELSE f[n - 1]]
  BY <1>1 DEF RebuildIs, RebuildStep
<1>3. new = [n \in 0 .. t.cap |->
               IF n = 0 THEN EmptyTable(cap)
               ELSE IF is_full(t.ctrl[n - 1])
                    THEN WithElement(new[n - 1], t.slots[n - 1].key, t.slots[n - 1].value)
                    ELSE new[n - 1]]
  BY <1>2
<1>4. rehash_internal(t, cap) = new[t.cap]
  BY DEF rehash_internal
<1>. HIDE DEF new
<1>. QED
  BY <1>3, <1>4 DEF RebuildIs, RebuildStep

(* The slots that are full among the first n, and what is under their keys. *)
FullTo(t, n) == Full(t) \cap (0 .. n - 1)
ContentTo(t, c, n) ==
  [k \in HashKeys |-> IF \E i \in FullTo(t, n) : KeyIn(t, i) = k THEN c[k] ELSE 0]

(* What the new table is after the first n slots. *)
RebuiltTo(t, c, cap, n, new) ==
  /\ Faithful(new, ContentTo(t, c, n)) /\ new.cap = cap
  /\ new.size = Cardinality(FullTo(t, n)) /\ new.tombs <= 0

LEMMA FullToFinite ==
  ASSUME NEW t, t.cap \in Nat, NEW n
  PROVE  /\ IsFiniteSet(FullTo(t, n)) /\ Cardinality(FullTo(t, n)) \in Nat
         /\ Cardinality(FullTo(t, n)) <= Cardinality(Full(t))
<1>1. FullTo(t, n) \in SUBSET Full(t)
  BY DEF FullTo
<1>. QED
  BY <1>1, SetsFinite, FS_Subset, FS_CardinalityType

(* What has been put in so far is faithful to what was read so far. *)
LEMMA RebuildStepFaithful ==
  ASSUME ConfigOK, NEW t, NEW c, Faithful(t, c), NEW cap, IsCapacity(cap), t.size < cap,
         NEW n \in 1 .. t.cap, NEW new, RebuiltTo(t, c, cap, n - 1, new)
  PROVE  RebuiltTo(t, c, cap, n, RebuildStep(t, new, n))
<1>. DEFINE i == n - 1
            k == KeyIn(t, i)
            before == ContentTo(t, c, n - 1)
            after == ContentTo(t, c, n)
<1>1. ShapeOK(t) /\ Content(t, c) /\ KeysOnce(t) /\ Reached(t) /\ CountersOK(t)
  BY DEF Faithful
<1>2. t.cap \in Nat /\ cap \in Nat \ {0} /\ n \in Nat /\ i \in 0 .. t.cap - 1
  BY <1>1, CapacityIs DEF ShapeOK, TableType
<1>3. /\ Faithful(new, before) /\ new.cap = cap
      /\ new.size = Cardinality(FullTo(t, n - 1)) /\ new.tombs <= 0
  BY DEF RebuiltTo
<1>4. CASE ~is_full(t.ctrl[i])
  <2>1. FullTo(t, n) = FullTo(t, n - 1)
    BY <1>2, <1>4 DEF FullTo, Full
  <2>2. RebuildStep(t, new, n) = new
    BY <1>4 DEF RebuildStep
  <2>. QED
    BY <2>1, <2>2 DEF RebuiltTo, ContentTo
<1>5. CASE is_full(t.ctrl[i])
  <2>1. i \in Full(t)
    BY <1>2, <1>5 DEF Full
  <2>2. FullTo(t, n) = FullTo(t, n - 1) \cup {i} /\ i \notin FullTo(t, n - 1)
    BY <1>2, <2>1 DEF FullTo, Full
  <2>3. k \in HashKeys /\ t.slots[i].value = c[k] /\ c[k] # 0 /\ c[k] \in MapValues
    <3>1. k \in HashKeys /\ t.slots[i].value = c[k] /\ c[k] # 0
      BY <1>1, <2>1, FullSlot
    <3>. QED
      BY <1>1, <3>1 DEF Content
  <2>4. \A j \in FullTo(t, n - 1) : KeyIn(t, j) # k
    BY <1>1, <2>1, <2>2 DEF KeysOnce, FullTo
  <2>5. before[k] = 0 /\ after = [before EXCEPT ![k] = c[k]]
    <3>1. before[k] = 0
      BY <2>3, <2>4 DEF ContentTo
    <3>2. after[k] = c[k]
      BY <2>2, <2>3 DEF ContentTo
    <3>3. \A x \in HashKeys \ {k} : after[x] = before[x]
      BY <2>2 DEF ContentTo
    <3>4. after = [x \in HashKeys |-> after[x]] /\ before = [x \in HashKeys |-> before[x]]
      BY DEF ContentTo
    <3>. HIDE DEF after, before
    <3>. QED
      BY <3>1, <3>2, <3>3, <3>4
  <2>6. Cardinality(FullTo(t, n)) = Cardinality(FullTo(t, n - 1)) + 1
    <3>1. IsFiniteSet(FullTo(t, n - 1))
      BY <1>2, FullToFinite
    <3>2. Cardinality(FullTo(t, n - 1) \cup {i}) = Cardinality(FullTo(t, n - 1)) + 1
      BY <2>2, <3>1, FS_AddElement
    <3>. QED
      BY <2>2, <3>2
  <2>7. new.cap # 0 /\ new.size + new.tombs < new.cap - 1
    <3>1. /\ Cardinality(FullTo(t, n)) <= Cardinality(Full(t)) /\ Cardinality(FullTo(t, n)) \in Nat
          /\ Cardinality(FullTo(t, n - 1)) \in Nat /\ Cardinality(Full(t)) \in Nat
      BY <1>2, FullToFinite, SetsFinite
    <3>2. t.size = Cardinality(Full(t))
      BY <1>1 DEF CountersOK
    <3>3. new.tombs \in Int
      BY <1>3 DEF Faithful, ShapeOK, TableType
    <3>. QED
      BY <1>2, <1>3, <2>6, <3>1, <3>2, <3>3
  <2>8. RebuildStep(t, new, n) = WithElement(new, k, c[k])
    BY <1>5, <2>3 DEF RebuildStep, KeyIn
  <2>9. PICK v \in MapValues, key \in HashKeys : v = c[k] /\ key = k
    BY <2>3
  <2>. PICK b, d : b = before /\ d = after
    OBVIOUS
  <2>. HIDE DEF before, after, k
  <2>10. /\ Faithful(WithElement(new, key, v), d)
         /\ WithElement(new, key, v).cap = new.cap /\ WithElement(new, key, v).size = new.size + 1
         /\ WithElement(new, key, v).tombs <= new.tombs
    <3>1. Faithful(new, b) /\ b[key] = 0 /\ d = [b EXCEPT ![key] = v]
      BY <1>3, <2>5, <2>9
    <3>. QED
      BY <2>7, <3>1, InsertFaithful
  <2>11. WithElement(new, key, v).tombs \in Int /\ new.tombs \in Int
    BY <1>3, <2>10 DEF Faithful, ShapeOK, TableType
  <2>. QED
    BY <1>3, <2>6, <2>8, <2>9, <2>10, <2>11 DEF RebuiltTo, after
<1>. QED
  BY <1>4, <1>5

(* A table that is rebuilt says the same, without tombstones. *)
LEMMA RehashFaithful ==
  ASSUME ConfigOK, NEW t, NEW c, Faithful(t, c), NEW cap, IsCapacity(cap), t.size < cap
  PROVE  /\ Faithful(rehash_internal(t, cap), c) /\ rehash_internal(t, cap).cap = cap
         /\ rehash_internal(t, cap).size = t.size /\ rehash_internal(t, cap).tombs <= 0
<1>1. ShapeOK(t) /\ Content(t, c) /\ CountersOK(t)
  BY DEF Faithful
<1>2. t.cap \in Nat
  BY <1>1 DEF ShapeOK, TableType
<1>3. PICK f : RebuildIs(t, cap, t.cap, f) /\ rehash_internal(t, cap) = f[t.cap]
  BY <1>2, RebuildGives
<1>4. ASSUME NEW n \in 0 .. t.cap
      PROVE  f[n] = IF n = 0 THEN EmptyTable(cap) ELSE RebuildStep(t, f[n - 1], n)
  BY <1>3 DEF RebuildIs
<1>. DEFINE Bad == {n \in 0 .. t.cap : ~RebuiltTo(t, c, cap, n, f[n])}
<1>5. Bad = {}
  <2>. SUFFICES ASSUME Bad # {} PROVE FALSE
    OBVIOUS
  <2>1. PICK n \in Bad : \A m \in Bad : n <= m
    <3>1. Bad \in SUBSET Nat
      BY <1>2
    <3>. HIDE DEF Bad
    <3>. QED
      BY <3>1, LeastOf
  <2>2. n # 0
    <3>1. f[0] = EmptyTable(cap)
      BY <1>2, <1>4
    <3>2. FullTo(t, 0) = {}
      BY DEF FullTo
    <3>3. ContentTo(t, c, 0) = [k \in HashKeys |-> 0]
      BY <3>2 DEF ContentTo
    <3>4. EmptyTable(cap).cap = cap /\ EmptyTable(cap).size = 0 /\ EmptyTable(cap).tombs = 0
      BY DEF EmptyTable
    <3>5. RebuiltTo(t, c, cap, 0, f[0])
      BY <3>1, <3>2, <3>3, <3>4, EmptyFaithful, FS_EmptySet DEF RebuiltTo
    <3>. QED
      BY <2>1, <3>5
  <2>3. n \in 1 .. t.cap /\ n - 1 \in 0 .. t.cap /\ ~(n <= n - 1)
    BY <1>2, <2>1, <2>2
  <2>4. RebuiltTo(t, c, cap, n - 1, f[n - 1])
    BY <2>1, <2>3
  <2>5. RebuiltTo(t, c, cap, n, RebuildStep(t, f[n - 1], n))
    BY <2>3, <2>4, RebuildStepFaithful
  <2>6. f[n] = RebuildStep(t, f[n - 1], n)
    BY <1>4, <2>2, <2>3
  <2>. QED
    BY <2>1, <2>5, <2>6
<1>6. RebuiltTo(t, c, cap, t.cap, f[t.cap])
  BY <1>2, <1>5
<1>7. FullTo(t, t.cap) = Full(t)
  BY DEF FullTo, Full
<1>8. ContentTo(t, c, t.cap) = c
  <2>1. c = [k \in HashKeys |-> c[k]]
    BY <1>1 DEF Content
  <2>2. \A k \in HashKeys : c[k] # 0 => \E i \in Full(t) : KeyIn(t, i) = k
    BY <1>1 DEF Content
  <2>. QED
    BY <1>7, <2>1, <2>2 DEF ContentTo
<1>9. t.size = Cardinality(Full(t))
  BY <1>1 DEF CountersOK
<1>. QED
  BY <1>3, <1>6, <1>7, <1>8, <1>9 DEF RebuiltTo

-----------------------------------------------------------------------------
(* A table of FastHashMap is made ready for one more element. *)

LEMMA CapacitiesGrow ==
  /\ IsCapacity(kMinCapacity)
  /\ \A cap : IsCapacity(cap) => IsCapacity(2 * cap)
  /\ \A cap \in Capacities : IsCapacity(cap)
<1>1. kMinCapacity \in Nat \ {0}
  BY HashAssumption DEF kMinCapacity
<1>2. IsCapacity(kMinCapacity)
  <2>1. PowerOfTwo(1)
    BY DEF PowerOfTwo
  <2>2. kMinCapacity = kMinCapacity * 1
    BY <1>1
  <2>. QED
    BY <1>1, <2>1, <2>2 DEF IsCapacity
<1>3. ASSUME NEW cap, IsCapacity(cap) PROVE IsCapacity(2 * cap)
  <2>1. PICK p \in Nat \ {0} : cap = kMinCapacity * p /\ PowerOfTwo(p)
    BY <1>3 DEF IsCapacity
  <2>2. PICK k \in Nat \ {0} : k = kMinCapacity
    BY <1>1
  <2>3. 2 * (k * p) = k * (2 * p) /\ 2 * p \in Nat \ {0} /\ 2 * (k * p) \in Nat
    BY Z3
  <2>4. PowerOfTwo(2 * p)
    BY <2>1, DoubleIsPower
  <2>5. 2 * cap = kMinCapacity * (2 * p) /\ 2 * cap \in Nat
    BY <2>1, <2>2, <2>3
  <2>. QED
    BY <2>3, <2>4, <2>5 DEF IsCapacity
<1>4. ASSUME NEW cap \in Capacities PROVE IsCapacity(cap)
  <2>1. cap \in Nat /\ \E p \in 1 .. cap : cap = kMinCapacity * p /\ PowerOfTwo(p)
    BY HashAssumption DEF Capacities
  <2>2. 1 .. cap \subseteq Nat \ {0}
    BY <2>1
  <2>. QED
    BY <2>1, <2>2 DEF IsCapacity
<1>. QED
  BY <1>2, <1>3, <1>4

(* The growth threshold leaves a slot empty. *)
LEMMA ThresholdIs ==
  ASSUME NEW cap \in Nat, cap >= 2
  PROVE  compute_growth_threshold(cap) \in 1 .. cap - 1
<1>. DEFINE q == (cap * LoadNum) \div LoadDen
            m == Min({cap - 1, q})
<1>1. q \in Nat
  <2>1. PICK a \in Nat, b \in Nat \ {0} : a = LoadNum /\ b = LoadDen
    BY HashAssumption
  <2>2. cap * a \in Nat
    BY Z3
  <2>3. PICK n \in Nat : n = cap * a
    BY <2>2
  <2>4. n \div b \in Nat
    BY DivMod
  <2>. QED
    BY <2>1, <2>3, <2>4
<1>. HIDE DEF q
<1>2. m \in {cap - 1, q} /\ m <= cap - 1
  <2>1. {cap - 1, q} \in SUBSET Nat
    BY <1>1
  <2>. QED
    BY <2>1, MinIsIn
<1>. HIDE DEF m
<1>3. m \in Nat
  BY <1>1, <1>2
<1>4. Max({1, m}) \in {1, m} /\ Max({1, m}) >= 1
  <2>1. \E x \in {1, m} : \A y \in {1, m} : x >= y
    BY <1>3
  <2>. QED
    BY <2>1 DEF Max
<1>5. Max({1, m}) \in 1 .. cap - 1
  BY <1>2, <1>3, <1>4
<1>. QED
  BY <1>5 DEF compute_growth_threshold, m, q

(* maybe_rehash() makes room for one more element. *)
LEMMA ReadyFaithful ==
  ASSUME ConfigOK, NEW t, NEW c, Faithful(t, c), t.cap # 0
  PROVE  /\ Faithful(maybe_rehash(t), c) /\ maybe_rehash(t).cap # 0
         /\ maybe_rehash(t).size + maybe_rehash(t).tombs < maybe_rehash(t).cap - 1
<1>. DEFINE u == maybe_rehash(t)
<1>1. ShapeOK(t) /\ CountersOK(t) /\ IsCapacity(t.cap)
  BY DEF Faithful, ShapeOK
<1>2. t.cap \in Nat \ {0} /\ t.cap >= 2 /\ IsCapacity(2 * t.cap)
  BY <1>1, CapacityIs, CapacitiesGrow
<1>3. PICK g \in 1 .. t.cap - 1 : g = compute_growth_threshold(t.cap)
  BY <1>2, ThresholdIs
<1>4. t.size \in Nat /\ t.tombs \in Nat /\ t.size <= t.cap - 1
  BY <1>1, <1>2, SetsFinite DEF CountersOK
<1>5. CASE t.size + t.tombs < g
  <2>1. u = t
    BY <1>3, <1>4, <1>5
        DEF maybe_rehash
  <2>. QED
    BY <1>2, <1>3, <1>4, <1>5, <2>1
<1>6. CASE t.size + t.tombs >= g
  <2>1. \/ u = rehash_internal(t, t.cap) /\ t.size < g \div 2
        \/ u = rehash_internal(t, 2 * t.cap)
    <3>1. ~(t.size + t.tombs < g)
      BY <1>3, <1>4, <1>6
    <3>. QED
      BY <1>3, <1>6, <3>1 DEF maybe_rehash
  <2>2. ASSUME NEW cap, IsCapacity(cap), t.size < cap - 1, u = rehash_internal(t, cap)
        PROVE  Faithful(u, c) /\ u.cap # 0 /\ u.size + u.tombs < u.cap - 1
    <3>1. cap \in Nat \ {0} /\ t.size < cap
      BY <1>4, <2>2, CapacityIs
    <3>2. Faithful(u, c) /\ u.cap = cap /\ u.size = t.size /\ u.tombs <= 0
      BY <2>2, <3>1, RehashFaithful
    <3>3. u.tombs \in Int
      BY <3>2 DEF Faithful, ShapeOK, TableType
    <3>. QED
      BY <1>4, <2>2, <3>1, <3>2, <3>3
  <2>3. CASE u = rehash_internal(t, t.cap) /\ t.size < g \div 2
    <3>1. t.size < t.cap - 1
      BY <1>2, <1>3, <1>4, <2>3
    <3>. QED
      BY <1>1, <2>2, <2>3, <3>1
  <2>4. CASE u = rehash_internal(t, 2 * t.cap)
    <3>1. t.size < 2 * t.cap - 1
      BY <1>2, <1>4
    <3>. QED
      BY <1>2, <2>2, <2>4, <3>1
  <2>. QED
    BY <2>1, <2>3, <2>4
<1>. QED
  BY <1>3, <1>4, <1>5, <1>6

LEMMA NothingIn ==
  ASSUME NEW t, NEW c, Faithful(t, c), t.cap = 0
  PROVE  c = [k \in HashKeys |-> 0]
<1>1. Content(t, c) /\ Full(t) = {}
  BY DEF Faithful, Full
<1>. QED
  BY <1>1 DEF Content

(* So does what every insertion starts with. *)
LEMMA PreparedFaithful ==
  ASSUME ConfigOK, Faithful(map, stored)
  PROVE  Faithful(Prepared, stored) /\ Prepared.cap # 0 /\ Prepared.size + Prepared.tombs < Prepared.cap - 1
<1>1. CASE map.cap = 0
  <2>1. Prepared = EmptyTable(kMinCapacity)
    BY <1>1 DEF Prepared
  <2>2. IsCapacity(kMinCapacity) /\ kMinCapacity \in Nat /\ kMinCapacity >= 2
    BY CapacitiesGrow, CapacityIs
  <2>3. stored = [k \in HashKeys |-> 0]
    BY <1>1, NothingIn
  <2>4. Faithful(EmptyTable(kMinCapacity), stored)
    BY <2>2, <2>3, EmptyFaithful
  <2>5. /\ EmptyTable(kMinCapacity).cap = kMinCapacity /\ EmptyTable(kMinCapacity).size = 0
        /\ EmptyTable(kMinCapacity).tombs = 0
    BY DEF EmptyTable
  <2>. QED
    BY <2>1, <2>2, <2>4, <2>5
<1>2. CASE map.cap # 0
  <2>1. Prepared = maybe_rehash(map)
    BY <1>2 DEF Prepared
  <2>. QED
    BY <1>2, <2>1, ReadyFaithful
<1>. QED
  BY <1>1, <1>2

-----------------------------------------------------------------------------
(* The backward shift of FastHashMap.  Slots are counted from that of the   *)
(* element that goes: slot x behind slot i is Later(t, i, x).                  *)

Later(t, i, x) == (i + x) % t.cap

(* A lap at most. *)
LEMMA Behind ==
  ASSUME NEW M \in Nat \ {0}, NEW i \in 0 .. M - 1, NEW x \in 0 .. M - 1
  PROVE  (i + x) % M = IF i + x < M THEN i + x ELSE i + x - M
<1>1. CASE i + x < M
  <2>1. i + x \in 0 .. M - 1
    BY <1>1
  <2>2. PICK n \in 0 .. M - 1 : n = i + x
    BY <2>1
  <2>3. n % M = n
    BY ModSmall
  <2>. QED
    BY <1>1, <2>2, <2>3
<1>2. CASE i + x >= M
  <2>1. i + x - M \in 0 .. M - 1
    BY <1>2
  <2>2. PICK n \in 0 .. M - 1 : n = i + x - M
    BY <2>1
  <2>3. n % M = n
    BY ModSmall
  <2>4. (n + M) % M = n % M
    <3>1. PICK k \in Nat : k = n
      OBVIOUS
    <3>2. (k + M) % M = k % M
      BY ModPeriod
    <3>. QED
      BY <3>1, <3>2
  <2>5. i + x = n + M
    BY <2>2
  <2>. QED
    BY <1>2, <2>2, <2>3, <2>4, <2>5
<1>. QED
  BY <1>1, <1>2

(* How far slot j is from the home of hash h. *)
Apart(M, h, j) == (j - (h % M)) % M

(* The steps from home h to slot j of a table of M slots. *)
LEMMA Distances ==
  ASSUME NEW M \in Nat \ {0}, NEW h \in Nat, NEW j \in 0 .. M - 1
  PROVE  /\ h % M \in 0 .. M - 1
         /\ Apart(M, h, j) \in 0 .. M - 1
         /\ (h + Apart(M, h, j)) % M = j
         /\ \A p \in 0 .. M - 1 : (h + p) % M = j => p = Apart(M, h, j)
<1>1. PICK home \in 0 .. M - 1 : home = h % M
  BY DivMod
<1>2. (j - home) % M = IF j >= home THEN j - home ELSE j - home + M
  BY WrapDistance
<1>3. ASSUME NEW p \in 0 .. M - 1
      PROVE  (h + p) % M = IF home + p < M THEN home + p ELSE home + p - M
  <2>1. ((h % M) + p) % M = (h + p) % M
    <3>1. PICK k \in Nat : k = p
      OBVIOUS
    <3>2. ((h % M) + k) % M = (h + k) % M
      BY ModAdd
    <3>. QED
      BY <3>1, <3>2
  <2>2. (home + p) % M = IF home + p < M THEN home + p ELSE home + p - M
    BY Behind
  <2>. QED
    BY <1>1, <2>1, <2>2
<1>4. PICK d : d = (j - home) % M /\ d = Apart(M, h, j)
  BY <1>1 DEF Apart
<1>5. d \in 0 .. M - 1
  BY <1>2, <1>4
<1>6. (h + d) % M = j
  BY <1>2, <1>3, <1>4, <1>5
<1>7. ASSUME NEW p \in 0 .. M - 1, (h + p) % M = j PROVE p = d
  BY <1>2, <1>3, <1>4, <1>7
<1>. QED
  BY <1>1, <1>4, <1>5, <1>6, <1>7

(* With p steps from home h in a table of M slots one is at slot j. *)
StepsTo(M, h, p, j) == (h + p) % M = j

LEMMA DistanceIs ==
  ASSUME NEW M \in Nat \ {0}, NEW h \in Nat, NEW j \in 0 .. M - 1
  PROVE  /\ Apart(M, h, j) \in 0 .. M - 1 /\ StepsTo(M, h, Apart(M, h, j), j)
         /\ \A p \in 0 .. M - 1 : StepsTo(M, h, p, j) => p = Apart(M, h, j)
BY Distances DEF StepsTo

LEMMA ApartType ==
  ASSUME NEW M \in Nat \ {0}, NEW h \in Nat, NEW j \in 0 .. M - 1
  PROVE  Apart(M, h, j) \in 0 .. M - 1
BY Distances

(* Slots of a lap are different, and are all. *)
LEMMA LaterIs ==
  ASSUME NEW t, t.cap \in Nat \ {0}, NEW i \in 0 .. t.cap - 1
  PROVE  /\ \A x \in 0 .. t.cap - 1 : Later(t, i, x) \in 0 .. t.cap - 1
         /\ Later(t, i, 0) = i
         /\ \A x, y \in 0 .. t.cap - 1 : Later(t, i, x) = Later(t, i, y) => x = y
<1>1. PICK M \in Nat \ {0} : M = t.cap
  OBVIOUS
<1>2. ASSUME NEW x \in 0 .. M - 1
      PROVE  Later(t, i, x) = IF i + x < M THEN i + x ELSE i + x - M
  BY <1>1, Behind DEF Later
<1>4. \A x, y \in 0 .. M - 1 : Later(t, i, x) = Later(t, i, y) => x = y
  BY <1>1, <1>2
<1>5. Later(t, i, 0) = i
  BY <1>1, <1>2
<1>6. \A x \in 0 .. M - 1 : Later(t, i, x) \in 0 .. M - 1
  BY <1>1, <1>2
<1>. QED
  BY <1>1, <1>4, <1>5, <1>6

(* Every slot is some steps behind slot i. *)
LEMMA LaterEvery ==
  ASSUME NEW t, t.cap \in Nat \ {0}, NEW i \in 0 .. t.cap - 1, NEW j \in 0 .. t.cap - 1
  PROVE  \E x \in 0 .. t.cap - 1 : Later(t, i, x) = j
<1>1. PICK M \in Nat \ {0} : M = t.cap
  OBVIOUS
<1>2. ASSUME NEW x \in 0 .. M - 1
      PROVE  Later(t, i, x) = IF i + x < M THEN i + x ELSE i + x - M
  BY <1>1, Behind DEF Later
<1>3. CASE j >= i
  <2>1. j - i \in 0 .. M - 1
    BY <1>1, <1>3
  <2>. QED
    BY <1>1, <1>2, <1>3, <2>1
<1>4. CASE j < i
  <2>1. j - i + M \in 0 .. M - 1
    BY <1>1, <1>4
  <2>. QED
    BY <1>1, <1>2, <1>4, <2>1
<1>. QED
  BY <1>1, <1>3, <1>4

(* Who comes from slot b to slot x, from beyond the gap g or from before b, *)
(* passes the gap.                                                          *)
RoundAbout(t, i, h, b, g, x, p, q) ==
  /\ t.cap \in Nat \ {0} /\ h \in Nat
  /\ {i, b, g, x, p, q} \subseteq 0 .. t.cap - 1
  /\ b < g /\ (x < b \/ x > g) /\ q < p
  /\ (h + p) % t.cap = Later(t, i, x) /\ (h + q) % t.cap = Later(t, i, b)

(* An element that does not probe past b is at home behind it. *)
LEMMA PassesGap ==
  ASSUME NEW t, NEW i, NEW h, NEW b, NEW g, NEW x, NEW p, NEW q,
         RoundAbout(t, i, h, b, g, x, p, q)
  PROVE  \E r \in 0 .. p - 1 : (h + r) % t.cap = Later(t, i, g)
<1>0. /\ t.cap \in Nat \ {0} /\ h \in Nat
      /\ i \in 0 .. t.cap - 1 /\ b \in 0 .. t.cap - 1 /\ g \in 0 .. t.cap - 1
      /\ x \in 0 .. t.cap - 1 /\ p \in 0 .. t.cap - 1 /\ q \in 0 .. p - 1
      /\ b < g /\ (x < b \/ x > g)
      /\ (h + p) % t.cap = Later(t, i, x) /\ (h + q) % t.cap = Later(t, i, b)
  BY DEF RoundAbout
<1>1. PICK M \in Nat \ {0} : M = t.cap
  BY <1>0
<1>2. PICK home \in 0 .. M - 1 : home = h % M
  BY <1>0, DivMod
<1>3. ASSUME NEW y \in 0 .. M - 1
      PROVE  /\ (h + y) % M = IF home + y < M THEN home + y ELSE home + y - M
             /\ Later(t, i, y) = IF i + y < M THEN i + y ELSE i + y - M
  <2>1. ((h % M) + y) % M = (h + y) % M
    <3>1. PICK k \in Nat : k = y
      OBVIOUS
    <3>2. ((h % M) + k) % M = (h + k) % M
      BY <1>0, ModAdd
    <3>. QED
      BY <3>1, <3>2
  <2>2. (home + y) % M = IF home + y < M THEN home + y ELSE home + y - M
    BY <1>0, Behind
  <2>3. (i + y) % M = IF i + y < M THEN i + y ELSE i + y - M
    BY <1>0, <1>1, Behind
  <2>. QED
    BY <1>0, <1>1, <1>2, <2>1, <2>2, <2>3 DEF Later
<1>4. PICK r \in Int : r = q + (g - b)
  BY <1>0, <1>1
<1>5. /\ (IF home + p < M THEN home + p ELSE home + p - M) = (IF i + x < M THEN i + x ELSE i + x - M)
      /\ (IF home + q < M THEN home + q ELSE home + q - M) = (IF i + b < M THEN i + b ELSE i + b - M)
  <2>1. q \in 0 .. M - 1
    BY <1>0, <1>1
  <2>. QED
    BY <1>0, <1>1, <1>3, <2>1
<1>6. r \in 0 .. p - 1
  BY <1>0, <1>1, <1>4, <1>5
<1>7. (IF home + r < M THEN home + r ELSE home + r - M) = (IF i + g < M THEN i + g ELSE i + g - M)
  BY <1>0, <1>1, <1>4, <1>5, <1>6
<1>8. r \in 0 .. M - 1
  BY <1>0, <1>1, <1>6
<1>9. (h + r) % M = Later(t, i, g)
  BY <1>0, <1>1, <1>3, <1>7, <1>8
<1>. QED
  BY <1>0, <1>1, <1>6, <1>9

(* With linear probing: what Reach says. *)
LEMMA LinearReach ==
  ASSUME deletion = "shift", NEW t, IsCapacity(t.cap), NEW h \in Nat, NEW j \in 0 .. t.cap - 1
  PROVE  /\ Apart(t.cap, h, j) \in 0 .. t.cap - 1
         /\ (h + Apart(t.cap, h, j)) % t.cap = j
         /\ Reach(t, h, j) <=>
              \A q \in 0 .. Apart(t.cap, h, j) - 1 : t.ctrl[(h + q) % t.cap] # kEmpty
<1>1. t.cap \in Nat \ {0}
  BY CapacityIs
<1>2. \A q \in Nat : SlotAt(t, h, q) = (h + q) % t.cap
  BY LinearSlot
<1>3. PICK M \in Nat \ {0} : M = t.cap
  BY <1>1
<1>4. PICK d \in 0 .. M - 1 :
        /\ d = Apart(M, h, j) /\ (h + d) % M = j
        /\ \A p \in 0 .. M - 1 : (h + p) % M = j => p = d
  <2>1. j \in 0 .. M - 1
    BY <1>3
  <2>2. /\ Apart(M, h, j) \in 0 .. M - 1 /\ (h + Apart(M, h, j)) % M = j
        /\ \A p \in 0 .. M - 1 : (h + p) % M = j => p = Apart(M, h, j)
    BY <2>1, Distances
  <2>. QED
    BY <2>2
<1>5. Reach(t, h, j) <=> \A q \in 0 .. d - 1 : t.ctrl[(h + q) % M] # kEmpty
  <2>1. ASSUME Reach(t, h, j), NEW q \in 0 .. d - 1 PROVE t.ctrl[(h + q) % M] # kEmpty
    <3>1. PICK p \in 0 .. M - 1 :
            SlotAt(t, h, p) = j /\ \A r \in 0 .. p - 1 : t.ctrl[SlotAt(t, h, r)] # kEmpty
      BY <1>3, <2>1 DEF Reach
    <3>2. p = d
      BY <1>2, <1>3, <1>4, <3>1
    <3>. QED
      BY <1>2, <1>3, <3>1, <3>2
  <2>2. ASSUME \A q \in 0 .. d - 1 : t.ctrl[(h + q) % M] # kEmpty PROVE Reach(t, h, j)
    <3>1. SlotAt(t, h, d) = j /\ \A q \in 0 .. d - 1 : t.ctrl[SlotAt(t, h, q)] # kEmpty
      BY <1>2, <1>3, <1>4, <2>2
    <3>. QED
      BY <1>3, <3>1 DEF Reach
  <2>. QED
    BY <2>1, <2>2
<1>. QED
  BY <1>3, <1>4, <1>5

ShiftStart(t, i) == [t |-> [t EXCEPT !.size = @ - 1], hole |-> i, over |-> FALSE]

(* Function f gives the state of the shift after n slots, for n up to N. *)
ShiftIs(t, i, N, f) ==
  f = [n \in 0 .. N |-> IF n = 0 THEN ShiftStart(t, i) ELSE ShiftStep(f[n - 1], Later(t, i, n))]

Closed(s) == set_ctrl([s.t EXCEPT !.slots[s.hole] = NoElement], s.hole, kEmpty)

(* The backward shift goes over the slots one by one. *)
LEMMA ShiftExists ==
  ASSUME NEW t, NEW i, NEW N \in Nat
  PROVE  \E f : ShiftIs(t, i, N, f)
<1>. SUFFICES ASSUME ~ \E f : ShiftIs(t, i, N, f) PROVE FALSE
  OBVIOUS
<1>. DEFINE Bad == {m \in Nat : ~ \E f : ShiftIs(t, i, m, f)}
<1>1. PICK m \in Bad : \A k \in Bad : m <= k
  <2>1. Bad \in SUBSET Nat /\ Bad # {}
    OBVIOUS
  <2>. HIDE DEF Bad
  <2>. QED
    BY <2>1, LeastOf
<1>2. m # 0
  <2>. DEFINE f == [n \in 0 .. 0 |-> ShiftStart(t, i)]
  <2>1. ShiftIs(t, i, 0, f)
    BY DEF ShiftIs
  <2>. QED
    BY <1>1, <2>1
<1>3. m \in Nat /\ m - 1 \in Nat /\ m - 1 \notin Bad
  BY <1>1, <1>2
<1>4. PICK f : ShiftIs(t, i, m - 1, f)
  BY <1>3
<1>. DEFINE last == ShiftStep(f[m - 1], Later(t, i, m))
            g == [n \in 0 .. m |-> IF n = m THEN last ELSE f[n]]
<1>5. ASSUME NEW n \in 0 .. m
      PROVE  g[n] = IF n = 0 THEN ShiftStart(t, i) ELSE ShiftStep(g[n - 1], Later(t, i, n))
  <2>1. CASE n = m
    <3>1. g[n] = last /\ g[n - 1] = f[m - 1]
      BY <1>2, <1>3, <2>1
    <3>. HIDE DEF g
    <3>. QED
      BY <1>2, <2>1, <3>1
  <2>2. CASE n # m
    <3>1. n \in 0 .. m - 1
      BY <1>3, <2>2
    <3>2. f[n] = IF n = 0 THEN ShiftStart(t, i) ELSE ShiftStep(f[n - 1], Later(t, i, n))
      BY <1>4, <3>1 DEF ShiftIs
    <3>3. n # 0 => g[n - 1] = f[n - 1]
      BY <1>3, <3>1
    <3>4. g[n] = f[n]
      BY <2>2
    <3>. HIDE DEF g
    <3>. QED
      BY <3>2, <3>3, <3>4
  <2>. QED
    BY <2>1, <2>2
<1>6. ShiftIs(t, i, m, g)
  <2>1. g = [n \in 0 .. m |-> g[n]]
    OBVIOUS
  <2>. HIDE DEF g
  <2>. QED
    BY <1>5, <2>1 DEF ShiftIs
<1>. QED
  BY <1>1, <1>6

LEMMA ShiftGives ==
  ASSUME deletion = "shift", NEW t, t.cap \in Nat, NEW i
  PROVE  \E f : ShiftIs(t, i, t.cap, f) /\ Erased(t, i) = Closed(f[t.cap])
<1>. DEFINE smaller == [t EXCEPT !.size = @ - 1]
            scanned[d \in 0 .. t.cap] ==
              IF d = 0 THEN [t |-> smaller, hole |-> i, over |-> FALSE]
              ELSE ShiftStep(scanned[d - 1], (i + d) % t.cap)
<1>1. PICK f : ShiftIs(t, i, t.cap, f)
  BY ShiftExists
<1>2. f = [d \in 0 .. t.cap |->
             IF d = 0 THEN [t |-> smaller, hole |-> i, over |-> FALSE]
             ELSE ShiftStep(f[d - 1], (i + d) % t.cap)]
  BY <1>1 DEF ShiftIs, ShiftStart, Later
<1>3. scanned = [d \in 0 .. t.cap |->
                   IF d = 0 THEN [t |-> smaller, hole |-> i, over |-> FALSE]
                   ELSE ShiftStep(scanned[d - 1], (i + d) % t.cap)]
  BY <1>2
<1>4. Erased(t, i) = Closed(scanned[t.cap])
  BY DEF Erased, Closed
<1>. HIDE DEF scanned
<1>. QED
  BY <1>3, <1>4 DEF ShiftIs, ShiftStart, Later

(* A table is right but for a slot, whose element is not counted. *)
Around(u, hole, e) ==
  /\ e \in [HashKeys -> MapValues \cup {0}]
  /\ \A j \in (0 .. u.cap - 1) \ {hole} : SlotOK(u, j, e)
  /\ \A j, k \in Full(u) \ {hole} : KeyIn(u, j) = KeyIn(u, k) => j = k
  /\ \A x \in HashKeys : e[x] # 0 => \E j \in Full(u) \ {hole} : KeyIn(u, j) = x
  /\ \A j \in Full(u) \ {hole} : Reach(u, hash_key[KeyIn(u, j)], j)

(* The way of slot j's element to it does not lead over the hole. *)
NotPast(u, hole, j) ==
  Apart(u.cap, hash_key[KeyIn(u, j)], j) <= Apart(u.cap, hash_key[KeyIn(u, j)], hole)

(* An element other than that of the hole. *)
LEMMA AroundSlot ==
  ASSUME ConfigOK, NEW u, NEW hole, NEW e, Around(u, hole, e), NEW j \in Full(u) \ {hole}
  PROVE  /\ j \in 0 .. u.cap - 1 /\ is_full(u.ctrl[j]) /\ u.ctrl[j] # kEmpty
         /\ KeyIn(u, j) \in HashKeys /\ hash_key[KeyIn(u, j)] \in Nat
         /\ u.slots[j].home = hash_key[KeyIn(u, j)] % u.cap
         /\ SlotOK(u, j, e) /\ Reach(u, hash_key[KeyIn(u, j)], j)
<1>1. j \in 0 .. u.cap - 1 /\ is_full(u.ctrl[j]) /\ SlotOK(u, j, e)
  BY DEF Full, Around
<1>2. u.ctrl[j] # kEmpty
  BY <1>1 DEF is_full, kEmpty
<1>3. KeyIn(u, j) \in HashKeys /\ u.slots[j].home = hash_key[KeyIn(u, j)] % u.cap
  BY <1>1 DEF SlotOK, KeyIn
<1>4. Reach(u, hash_key[KeyIn(u, j)], j)
  BY DEF Around
<1>. QED
  BY <1>1, <1>2, <1>3, <1>4, HashNumbers

(* An element moves into the hole, which lies on its way. *)
LEMMA ShiftMoves ==
  ASSUME ConfigOK, deletion = "shift", NEW u, ShapeOK(u), NEW hole \in Full(u),
         NEW scan \in Full(u) \ {hole}, NEW e, Around(u, hole, e), ~NotPast(u, hole, scan),
         NEW v, Changed(u, v, hole, u.slots[scan], u.ctrl[scan])
  PROVE  Around(v, scan, e) /\ Full(v) = Full(u)
<1>. DEFINE h == hash_key[KeyIn(u, scan)]
<1>1. hole \in 0 .. u.cap - 1 /\ scan \in 0 .. u.cap - 1 /\ is_full(u.ctrl[hole]) /\ is_full(u.ctrl[scan])
  BY DEF Full
<1>2. /\ v.cap = u.cap /\ v.slots[hole] = u.slots[scan] /\ v.ctrl[hole] = u.ctrl[scan]
      /\ \A j \in 0 .. u.cap - 1 : j # hole => v.slots[j] = u.slots[j] /\ v.ctrl[j] = u.ctrl[j]
  BY DEF Changed
<1>3. Full(v) = Full(u)
  BY <1>1, <1>2 DEF Full
<1>4. /\ KeyIn(v, hole) = KeyIn(u, scan)
      /\ \A j \in Full(u) \ {hole} : KeyIn(v, j) = KeyIn(u, j)
  BY <1>2 DEF KeyIn, Full
<1>5. ASSUME NEW j \in (0 .. v.cap - 1) \ {scan} PROVE SlotOK(v, j, e)
  <2>1. CASE j = hole
    <3>1. SlotOK(u, scan, e)
      BY AroundSlot
    <3>. QED
      BY <1>1, <1>2, <2>1, <3>1 DEF SlotOK
  <2>2. CASE j # hole
    <3>1. SlotOK(u, j, e) /\ v.slots[j] = u.slots[j] /\ v.ctrl[j] = u.ctrl[j]
      BY <1>2, <2>2 DEF Around
    <3>. QED
      BY <1>2, <3>1 DEF SlotOK
  <2>. QED
    BY <2>1, <2>2
<1>6. ASSUME NEW j \in Full(v) \ {scan}, NEW k \in Full(v) \ {scan}, KeyIn(v, j) = KeyIn(v, k)
      PROVE  j = k
  BY <1>3, <1>4, <1>6 DEF Around
<1>7. ASSUME NEW x \in HashKeys, e[x] # 0 PROVE \E j \in Full(v) \ {scan} : KeyIn(v, j) = x
  <2>1. PICK j \in Full(u) \ {hole} : KeyIn(u, j) = x
    BY <1>7 DEF Around
  <2>. QED
    BY <1>3, <1>4, <2>1
<1>8. \A j \in 0 .. u.cap - 1 : u.ctrl[j] # kEmpty => v.ctrl[j] # kEmpty
  BY <1>1, <1>2, AroundSlot
<1>9. IsCapacity(u.cap)
  BY <1>1 DEF ShapeOK
<1>10. Reach(u, h, hole) /\ h \in Nat
  <2>1. Reach(u, h, scan) /\ h \in Nat
    BY AroundSlot
  <2>2. /\ Apart(u.cap, h, scan) \in 0 .. u.cap - 1 /\ Apart(u.cap, h, hole) \in 0 .. u.cap - 1
        /\ Reach(u, h, scan) <=>
             \A q \in 0 .. Apart(u.cap, h, scan) - 1 : u.ctrl[(h + q) % u.cap] # kEmpty
        /\ Reach(u, h, hole) <=>
             \A q \in 0 .. Apart(u.cap, h, hole) - 1 : u.ctrl[(h + q) % u.cap] # kEmpty
    BY <1>1, <1>9, <2>1, LinearReach
  <2>3. PICK p \in Nat, q \in Nat : p = Apart(u.cap, h, scan) /\ q = Apart(u.cap, h, hole) /\ q < p
    BY <2>2 DEF NotPast
  <2>4. 0 .. q - 1 \subseteq 0 .. p - 1
    BY <2>3
  <2>. QED
    BY <2>1, <2>2, <2>3, <2>4
<1>11. ASSUME NEW j \in Full(v) \ {scan} PROVE Reach(v, hash_key[KeyIn(v, j)], j)
  <2>1. CASE j = hole
    <3>1. Reach(v, h, hole)
      BY <1>2, <1>8, <1>10, ReachStays
    <3>. QED
      BY <1>4, <2>1, <3>1
  <2>2. CASE j # hole
    <3>1. j \in Full(u) \ {hole} /\ KeyIn(v, j) = KeyIn(u, j)
      BY <1>3, <1>4, <2>2
    <3>2. Reach(u, hash_key[KeyIn(u, j)], j) /\ hash_key[KeyIn(u, j)] \in Nat
      BY <3>1, AroundSlot
    <3>3. Reach(v, hash_key[KeyIn(u, j)], j)
      BY <1>2, <1>8, <3>2, ReachStays
    <3>. QED
      BY <3>1, <3>3
  <2>. QED
    BY <2>1, <2>2
<1>. QED
  BY <1>3, <1>5, <1>6, <1>7, <1>11 DEF Around

(* The hole is closed, on no element's way. *)
LEMMA HoleCloses ==
  ASSUME ConfigOK, deletion = "shift", NEW u, ShapeOK(u), NEW hole \in Full(u),
         NEW e, Around(u, hole, e), \A j \in Full(u) \ {hole} : NotPast(u, hole, j),
         NEW v, Changed(u, v, hole, NoElement, kEmpty)
  PROVE  /\ Content(v, e) /\ KeysOnce(v) /\ Reached(v)
         /\ Full(v) = Full(u) \ {hole} /\ Dead(v) = {}
<1>1. hole \in 0 .. u.cap - 1 /\ IsCapacity(u.cap) /\ u.cap \in Nat \ {0}
  BY CapacityIs DEF Full, ShapeOK
<1>2. /\ v.cap = u.cap /\ v.slots[hole] = NoElement /\ v.ctrl[hole] = kEmpty
      /\ \A j \in 0 .. u.cap - 1 : j # hole => v.slots[j] = u.slots[j] /\ v.ctrl[j] = u.ctrl[j]
  BY DEF Changed
<1>3. ~is_full(kEmpty) /\ kEmpty # kDeleted
  BY DEF is_full, kEmpty, kDeleted
<1>4. Full(v) = Full(u) \ {hole}
  BY <1>2, <1>3 DEF Full
<1>5. \A j \in Full(v) : j \in Full(u) \ {hole} /\ KeyIn(v, j) = KeyIn(u, j)
  BY <1>2, <1>4 DEF KeyIn, Full
<1>6. ASSUME NEW j \in 0 .. v.cap - 1 PROVE SlotOK(v, j, e) /\ v.ctrl[j] # kDeleted
  <2>1. CASE j = hole
    BY <1>2, <1>3, <2>1 DEF SlotOK
  <2>2. CASE j # hole
    <3>1. SlotOK(u, j, e) /\ v.slots[j] = u.slots[j] /\ v.ctrl[j] = u.ctrl[j]
      BY <1>2, <2>2 DEF Around
    <3>2. ~is_full(kDeleted)
      BY DEF is_full, kDeleted
    <3>. QED
      BY <1>2, <1>3, <3>1, <3>2 DEF SlotOK
  <2>. QED
    BY <2>1, <2>2
<1>7. Content(v, e)
  BY <1>4, <1>5, <1>6 DEF Content, Around
<1>8. KeysOnce(v)
  BY <1>5 DEF KeysOnce, Around
<1>9. ASSUME NEW j \in Full(v) PROVE Reach(v, hash_key[KeyIn(v, j)], j)
  <2>1. PICK h \in Nat : h = hash_key[KeyIn(u, j)] /\ Reach(u, h, j) /\ j \in 0 .. u.cap - 1 /\ NotPast(u, hole, j)
    BY <1>5, AroundSlot
  <2>2. /\ Apart(u.cap, h, j) \in 0 .. u.cap - 1
        /\ Reach(u, h, j) <=>
             \A q \in 0 .. Apart(u.cap, h, j) - 1 : u.ctrl[(h + q) % u.cap] # kEmpty
    BY <1>1, <2>1, LinearReach
  <2>3. Reach(v, h, j) <=>
             \A q \in 0 .. Apart(u.cap, h, j) - 1 : v.ctrl[(h + q) % u.cap] # kEmpty
    <3>1. IsCapacity(v.cap) /\ j \in 0 .. v.cap - 1
      BY <1>1, <1>2, <2>1
    <3>2. Reach(v, h, j) <=>
             \A q \in 0 .. Apart(v.cap, h, j) - 1 : v.ctrl[(h + q) % v.cap] # kEmpty
      BY <3>1, LinearReach
    <3>. QED
      BY <1>2, <3>2
  <2>4. PICK p \in 0 .. u.cap - 1 : p = Apart(u.cap, h, j)
    BY <2>2
  <2>5. ASSUME NEW q \in 0 .. p - 1 PROVE v.ctrl[(h + q) % u.cap] # kEmpty
    <3>1. PICK x : x = (h + q) % u.cap
      OBVIOUS
    <3>2. x \in 0 .. u.cap - 1
      <4>1. PICK M \in Nat \ {0}, k \in Nat : M = u.cap /\ k = h + q
        BY <1>1
      <4>2. k % M \in 0 .. M - 1
        BY DivMod
      <4>. QED
        BY <3>1, <4>1, <4>2
    <3>3. u.ctrl[x] # kEmpty
      BY <2>1, <2>2, <2>4, <3>1
    <3>4. ASSUME x = hole PROVE FALSE
      <4>1. q \in 0 .. u.cap - 1
        BY <1>1, <2>4
      <4>2. q = Apart(u.cap, h, hole)
        <5>1. u.cap \in Nat \ {0} /\ hole \in 0 .. u.cap - 1
          BY <1>1
        <5>2. StepsTo(u.cap, h, q, hole)
          BY <3>1, <3>4 DEF StepsTo
        <5>. QED
          BY <4>1, <5>1, <5>2, DistanceIs
      <4>3. p <= q
        BY <2>1, <2>4, <4>2 DEF NotPast
      <4>. QED
        BY <1>1, <4>3
    <3>. QED
      BY <1>2, <3>1, <3>2, <3>3, <3>4
  <2>6. Reach(v, h, j)
    BY <2>3, <2>4, <2>5
  <2>. QED
    BY <1>5, <2>1, <2>6
<1>10. Dead(v) = {}
  BY <1>6 DEF Dead
<1>. QED
  BY <1>4, <1>7, <1>8, <1>9, <1>10 DEF Reached


(* The first slot behind slot i that is not full. *)
GapAt(t, i, g) ==
  /\ g \in 1 .. t.cap - 1 /\ Later(t, i, g) \notin Full(t)
  /\ \A x \in 0 .. g - 1 : Later(t, i, x) \in Full(t)

(* Behind a slot there is a first one that is not full. *)
LEMMA GapExists ==
  ASSUME deletion = "shift", NEW t, NEW c, Faithful(t, c), NEW i \in Full(t)
  PROVE  \E g : GapAt(t, i, g)
<1>1. ShapeOK(t) /\ Content(t, c) /\ CountersOK(t) /\ i \in 0 .. t.cap - 1
  BY DEF Faithful, Full
<1>2. IsCapacity(t.cap) /\ t.cap \in Nat \ {0} /\ i \in Nat /\ t.cap # 0
  BY <1>1, CapacityIs DEF ShapeOK
<1>3. /\ Later(t, i, 0) = i
      /\ \A x \in 0 .. t.cap - 1 : Later(t, i, x) \in 0 .. t.cap - 1
  BY <1>1, <1>2, LaterIs
<1>4. PICK p \in 0 .. t.cap - 1 : t.ctrl[SlotAt(t, i, p)] = kEmpty
  BY <1>1, <1>2, HasEmpty
<1>5. SlotAt(t, i, p) = Later(t, i, p)
  BY <1>2, LinearSlot DEF Later
<1>. DEFINE S == {x \in 0 .. t.cap - 1 : Later(t, i, x) \notin Full(t)}
<1>6. p \in S
  BY <1>4, <1>5 DEF Full, is_full, kEmpty
<1>7. PICK g \in S : \A x \in S : g <= x
  <2>1. S \in SUBSET Nat
    BY <1>2
  <2>. HIDE DEF S
  <2>. QED
    BY <1>6, <2>1, LeastOf
<1>8. g # 0
  BY <1>3, <1>7
<1>9. g \in 1 .. t.cap - 1
  BY <1>2, <1>7, <1>8
<1>10. ASSUME NEW x \in 0 .. g - 1 PROVE Later(t, i, x) \in Full(t)
  <2>1. x \in 0 .. t.cap - 1 /\ ~(g <= x)
    BY <1>2, <1>9
  <2>. QED
    BY <1>7, <2>1
<1>. QED
  BY <1>7, <1>9, <1>10 DEF GapAt

(* The shift after n slots: the hole is where slot b was, and what has been *)
(* seen behind it does not come over it.                                    *)
ShiftedTo(t, i, e, g, n, s) ==
  /\ s \in [t : {s.t}, hole : {s.hole}, over : BOOLEAN] /\ (s.over <=> n >= g)
  /\ ShapeOK(s.t) /\ s.t.cap = t.cap /\ s.t.size = t.size - 1 /\ s.t.tombs = t.tombs
  /\ Full(s.t) = Full(t) /\ Around(s.t, s.hole, e)
  /\ \E b \in 0 .. g - 1 :
       /\ b <= n /\ s.hole = Later(t, i, b)
       /\ \A x \in b + 1 .. g - 1 : x <= n => NotPast(s.t, s.hole, Later(t, i, x))

(* Before the first slot is scanned, *)
LEMMA ShiftStarts ==
  ASSUME ConfigOK, deletion = "shift", NEW t, NEW c, Faithful(t, c), NEW i \in Full(t),
         NEW e, e = [c EXCEPT ![KeyIn(t, i)] = 0], NEW g, GapAt(t, i, g)
  PROVE  ShiftedTo(t, i, e, g, 0, ShiftStart(t, i))
<1>1. ShapeOK(t) /\ Content(t, c) /\ KeysOnce(t) /\ Reached(t) /\ i \in 0 .. t.cap - 1
  BY DEF Faithful, Full
<1>2. t.cap \in Nat \ {0} /\ TableType(t)
  BY <1>1, CapacityIs DEF ShapeOK
<1>3. PICK u : u = [t EXCEPT !.size = @ - 1]
  OBVIOUS
<1>4. /\ u \in [cap : {t.cap}, size : {t.size - 1}, tombs : {t.tombs}, ctrl : {t.ctrl}, slots : {t.slots}]
      /\ t.size \in Int /\ t.tombs \in Int
  <2>1. t \in [cap : {t.cap}, size : Int, tombs : {t.tombs}, ctrl : {t.ctrl}, slots : {t.slots}]
        /\ t.size \in Int /\ t.tombs \in Int
    BY <1>2 DEF TableType
  <2>. QED
    BY <1>3, <2>1
<1>5. u.cap = t.cap /\ u.size = t.size - 1 /\ u.tombs = t.tombs /\ u.ctrl = t.ctrl /\ u.slots = t.slots
  BY <1>4
<1>6. ShapeOK(u)
  <2>1. TableType(u)
    BY <1>2, <1>4, <1>5 DEF TableType
  <2>. QED
    BY <1>1, <1>5, <2>1 DEF ShapeOK, Mirrored
<1>7. Full(u) = Full(t) /\ \A j : KeyIn(u, j) = KeyIn(t, j)
  BY <1>5 DEF Full, KeyIn
<1>8. Forgotten(t, i, e)
  BY <1>1, Forgets
<1>9. Around(u, i, e)
  <2>1. ASSUME NEW j \in (0 .. u.cap - 1) \ {i} PROVE SlotOK(u, j, e)
    <3>1. SlotOK(t, j, c) /\ u.slots[j] = t.slots[j] /\ u.ctrl[j] = t.ctrl[j]
      BY <1>1, <1>5 DEF Content
    <3>2. CASE is_full(t.ctrl[j])
      <4>1. j \in Full(t) \ {i}
        BY <1>5, <3>2 DEF Full
      <4>2. t.slots[j].value = e[t.slots[j].key]
        BY <1>8, <4>1 DEF Forgotten, KeyIn
      <4>. QED
        BY <1>5, <3>1, <3>2, <4>2 DEF SlotOK
    <3>3. CASE ~is_full(t.ctrl[j])
      BY <3>1, <3>3 DEF SlotOK
    <3>. QED
      BY <3>2, <3>3
  <2>2. \A j, k \in Full(u) \ {i} : KeyIn(u, j) = KeyIn(u, k) => j = k
    BY <1>1, <1>7 DEF KeysOnce
  <2>3. \A x \in HashKeys : e[x] # 0 => \E j \in Full(u) \ {i} : KeyIn(u, j) = x
    BY <1>7, <1>8 DEF Forgotten
  <2>4. ASSUME NEW j \in Full(u) \ {i} PROVE Reach(u, hash_key[KeyIn(u, j)], j)
    <3>1. Reach(t, hash_key[KeyIn(t, j)], j) /\ hash_key[KeyIn(t, j)] \in Nat
      BY <1>1, <1>7, FullSlot DEF Reached
    <3>2. \A x \in 0 .. t.cap - 1 : t.ctrl[x] # kEmpty => u.ctrl[x] # kEmpty
      BY <1>5
    <3>3. Reach(u, hash_key[KeyIn(t, j)], j)
      BY <1>1, <1>5, <3>1, <3>2, ReachStays
    <3>. QED
      BY <1>7, <3>3
  <2>5. e \in [HashKeys -> MapValues \cup {0}]
    BY <1>8 DEF Forgotten
  <2>. QED
    BY <2>1, <2>2, <2>3, <2>4, <2>5 DEF Around
<1>10. PICK s : s = ShiftStart(t, i) /\ s = [t |-> u, hole |-> i, over |-> FALSE]
  BY <1>3 DEF ShiftStart
<1>11. g \in Nat /\ g >= 1
  BY <1>2 DEF GapAt
<1>12. s.t = u /\ s.hole = i /\ ~s.over /\ s \in [t : {s.t}, hole : {s.hole}, over : BOOLEAN]
  BY <1>10
<1>13. Later(t, i, 0) = i
  BY <1>1, <1>2, LaterIs
<1>14. \E b \in 0 .. g - 1 :
         /\ b <= 0 /\ s.hole = Later(t, i, b)
         /\ \A x \in b + 1 .. g - 1 : x <= 0 => NotPast(s.t, s.hole, Later(t, i, x))
  <2>1. /\ 0 \in 0 .. g - 1 /\ 0 <= 0 /\ s.hole = Later(t, i, 0)
        /\ \A x \in 0 + 1 .. g - 1 : x <= 0 => NotPast(s.t, s.hole, Later(t, i, x))
    BY <1>11, <1>12, <1>13
  <2>. QED
    BY <2>1
<1>15. ~(0 >= g)
  BY <1>11
<1>. HIDE <1>3
<1>16. ShiftedTo(t, i, e, g, 0, s)
  BY <1>5, <1>6, <1>7, <1>9, <1>12, <1>14, <1>15 DEF ShiftedTo
<1>. QED
  BY <1>10, <1>16


(* What a step of the shift does: the hole is at distance a, the slot at b. *)
StepIs(s, scan, a, b, s1) ==
  /\ s.over => s1 = s
  /\ ~s.over /\ ~is_full(s.t.ctrl[scan]) => s1 = [s EXCEPT !.over = TRUE]
  /\ ~s.over /\ is_full(s.t.ctrl[scan]) /\ a >= b => s1 = s
  /\ ~s.over /\ is_full(s.t.ctrl[scan]) /\ ~(a >= b) =>
       s1 = [s EXCEPT !.hole = scan,
                      !.t = set_ctrl([s.t EXCEPT !.slots[s.hole] = s.t.slots[scan]],
                                     s.hole, s.t.ctrl[scan])]

LEMMA ShiftStepIs ==
  ASSUME NEW s, s.over \in BOOLEAN, NEW scan,
         NEW a, a = (s.hole - s.t.slots[scan].home) % s.t.cap,
         NEW b, b = (scan - s.t.slots[scan].home) % s.t.cap
  PROVE  StepIs(s, scan, a, b, ShiftStep(s, scan))
BY Zenon DEF ShiftStep, StepIs

(* A step that moves an element into the hole, *)
LEMMA Moved ==
  ASSUME NEW u, ShapeOK(u), NEW hole \in Full(u), NEW scan \in Full(u),
         NEW v, v = set_ctrl([u EXCEPT !.slots[hole] = u.slots[scan]], hole, u.ctrl[scan])
  PROVE  Changed(u, v, hole, u.slots[scan], u.ctrl[scan]) /\ v.size = u.size /\ v.tombs = u.tombs
<1>1. TableType(u) /\ hole \in 0 .. u.cap - 1 /\ scan \in 0 .. u.cap - 1 /\ u.cap # 0
  BY DEF ShapeOK, Full, TableType
<1>2. u.slots[scan] \in Elements /\ u.ctrl[scan] \in 0 .. 255
  <2>1. u.slots[scan] \in Elements
    BY <1>1 DEF TableType, Elements
  <2>2. kWidth \in Nat \ {0} /\ u.cap \in Nat
    BY <1>1, HashAssumption DEF TableType
  <2>3. scan \in 0 .. u.cap + kWidth - 1
    BY <1>1, <2>2
  <2>. QED
    BY <1>1, <2>1, <2>3 DEF TableType
<1>3. PICK e, b : e = u.slots[scan] /\ b = u.ctrl[scan]
  OBVIOUS
<1>. DEFINE written == [u EXCEPT !.slots[hole] = e]
<1>4. /\ written \in [cap : {u.cap}, size : Int, tombs : Int, ctrl : {u.ctrl},
                      slots : {[u.slots EXCEPT ![hole] = e]}]
      /\ written.size = u.size /\ written.tombs = u.tombs
  <2>1. u \in [cap : {u.cap}, size : Int, tombs : Int, ctrl : {u.ctrl}, slots : {u.slots}]
    BY <1>1 DEF TableType
  <2>. QED
    BY <2>1
<1>5. v = set_ctrl(written, hole, b)
  BY <1>3
<1>. HIDE DEF written
<1>6. Put(u, written, hole, e, b)
  BY <1>1, <1>2, <1>3, <1>4 DEF Put
<1>7. /\ Changed(u, set_ctrl(written, hole, b), hole, e, b)
      /\ set_ctrl(written, hole, b).size = written.size
      /\ set_ctrl(written, hole, b).tombs = written.tombs
  BY <1>6, ChangedIs
<1>. QED
  BY <1>3, <1>4, <1>5, <1>7

(* and after each, the elements are around the hole. *)
LEMMA ShiftGoesOn ==
  ASSUME ConfigOK, deletion = "shift", NEW t, IsCapacity(t.cap), NEW i \in 0 .. t.cap - 1,
         NEW e, NEW g, GapAt(t, i, g), NEW n \in 1 .. t.cap,
         NEW s, ShiftedTo(t, i, e, g, n - 1, s),
         NEW s1, s1 = ShiftStep(s, Later(t, i, n))
  PROVE  ShiftedTo(t, i, e, g, n, s1)
<1>1. t.cap \in Nat \ {0} /\ n \in Nat \ {0} /\ g \in Nat \ {0} /\ g < t.cap
  BY CapacityIs DEF GapAt
<1>2. PICK u, hole : u = s.t /\ hole = s.hole
  OBVIOUS
<1>3. /\ s \in [t : {s.t}, hole : {s.hole}, over : BOOLEAN] /\ (s.over <=> n - 1 >= g)
      /\ s.over \in BOOLEAN
      /\ ShapeOK(u) /\ u.cap = t.cap /\ u.size = t.size - 1 /\ u.tombs = t.tombs
      /\ Full(u) = Full(t) /\ Around(u, hole, e)
  BY <1>2 DEF ShiftedTo
<1>4. PICK b \in 0 .. g - 1 :
        /\ b <= n - 1 /\ hole = Later(t, i, b)
        /\ \A x \in b + 1 .. g - 1 : x <= n - 1 => NotPast(u, hole, Later(t, i, x))
  BY <1>2 DEF ShiftedTo
<1>5. PICK scan : scan = Later(t, i, n)
  OBVIOUS
<1>6. /\ \A x \in 0 .. t.cap - 1 : Later(t, i, x) \in 0 .. t.cap - 1
      /\ \A x, y \in 0 .. t.cap - 1 : Later(t, i, x) = Later(t, i, y) => x = y
  BY <1>1, LaterIs
<1>7. PICK from, to :
        /\ from = (hole - u.slots[scan].home) % u.cap /\ to = (scan - u.slots[scan].home) % u.cap
        /\ StepIs(s, scan, from, to, s1)
  <2>1. PICK from, to :
          /\ from = (s.hole - s.t.slots[scan].home) % s.t.cap
          /\ to = (scan - s.t.slots[scan].home) % s.t.cap
    OBVIOUS
  <2>2. StepIs(s, scan, from, to, ShiftStep(s, scan))
    BY <1>3, <2>1, ShiftStepIs
  <2>. QED
    BY <1>2, <1>5, <2>1, <2>2
<1>8. CASE n - 1 >= g
  <2>1. s1 = s /\ s.over /\ n >= g
    BY <1>1, <1>3, <1>7, <1>8 DEF StepIs
  <2>2. b <= n /\ \A x \in b + 1 .. g - 1 : x <= n => NotPast(u, hole, Later(t, i, x))
    BY <1>1, <1>4, <1>8
  <2>. QED
    BY <1>2, <1>3, <1>4, <2>1, <2>2 DEF ShiftedTo
<1>9. CASE n = g
  <2>1. ~s.over /\ ~is_full(u.ctrl[scan])
    <3>1. scan \in 0 .. t.cap - 1 /\ scan \notin Full(u)
      BY <1>1, <1>3, <1>5, <1>6, <1>9 DEF GapAt
    <3>. QED
      BY <1>1, <1>3, <1>9, <3>1 DEF Full
  <2>2. s1 = [s EXCEPT !.over = TRUE]
    BY <1>2, <1>7, <2>1 DEF StepIs
  <2>3. s1.t = u /\ s1.hole = hole /\ s1.over /\ s1 \in [t : {u}, hole : {hole}, over : BOOLEAN]
    BY <1>2, <1>3, <2>2
  <2>4. b <= n /\ \A x \in b + 1 .. g - 1 : x <= n => NotPast(u, hole, Later(t, i, x))
    BY <1>1, <1>4, <1>9
  <2>5. n >= g
    BY <1>1, <1>9
  <2>. HIDE <2>2
  <2>. QED
    BY <1>3, <1>4, <2>3, <2>4, <2>5 DEF ShiftedTo
<1>10. CASE n < g
  <2>1. ~s.over /\ ~(n >= g)
    BY <1>1, <1>3, <1>10
  <2>2. scan \in Full(u) \ {hole} /\ hole \in Full(u) /\ is_full(u.ctrl[scan])
    <3>1. n \in 0 .. g - 1 /\ n \in 0 .. t.cap - 1 /\ b \in 0 .. t.cap - 1 /\ b # n
      BY <1>1, <1>4, <1>10
    <3>2. scan \in Full(t) /\ hole \in Full(t) /\ scan # hole
      BY <1>4, <1>5, <1>6, <3>1 DEF GapAt
    <3>. QED
      BY <1>3, <3>2 DEF Full
  <2>3. PICK h \in Nat : h = hash_key[KeyIn(u, scan)] /\ u.slots[scan].home = h % u.cap
    BY <1>3, <2>2, AroundSlot
  <2>4. to = Apart(u.cap, h, scan) /\ from = Apart(u.cap, h, hole)
    BY <1>7, <2>3 DEF Apart
  <2>5. Apart(u.cap, h, scan) \in Nat /\ Apart(u.cap, h, hole) \in Nat
    <3>1. u.cap \in Nat \ {0} /\ scan \in 0 .. u.cap - 1 /\ hole \in 0 .. u.cap - 1
      BY <1>1, <1>3, <2>2 DEF Full
    <3>2. Apart(u.cap, h, scan) \in 0 .. u.cap - 1 /\ Apart(u.cap, h, hole) \in 0 .. u.cap - 1
      BY <3>1, ApartType, Zenon
    <3>. QED
      BY <3>1, <3>2
  <2>6. NotPast(u, hole, scan) <=> from >= to
    BY <2>3, <2>4, <2>5 DEF NotPast
  <2>7. CASE NotPast(u, hole, scan)
    <3>1. s1 = s
      BY <1>2, <1>7, <2>1, <2>2, <2>6, <2>7 DEF StepIs
    <3>2. b <= n /\ \A x \in b + 1 .. g - 1 : x <= n => NotPast(u, hole, Later(t, i, x))
      BY <1>1, <1>4, <1>5, <2>7
    <3>. QED
      BY <1>2, <1>3, <1>4, <2>1, <3>1, <3>2 DEF ShiftedTo
  <2>8. CASE ~NotPast(u, hole, scan)
    <3>1. PICK v : v = set_ctrl([u EXCEPT !.slots[hole] = u.slots[scan]], hole, u.ctrl[scan])
      OBVIOUS
    <3>2. s1 = [s EXCEPT !.hole = scan, !.t = v]
      BY <1>2, <1>7, <2>1, <2>2, <2>6, <2>8, <3>1 DEF StepIs
    <3>3. s1.t = v /\ s1.hole = scan /\ ~s1.over /\ s1 \in [t : {v}, hole : {scan}, over : BOOLEAN]
      BY <1>3, <2>1, <3>2
    <3>4. Changed(u, v, hole, u.slots[scan], u.ctrl[scan]) /\ v.size = u.size /\ v.tombs = u.tombs
      BY <1>3, <2>2, <3>1, Moved
    <3>. HIDE <3>1, <3>2
    <3>5. Around(v, scan, e) /\ Full(v) = Full(u)
      BY <1>3, <2>2, <2>8, <3>4, ShiftMoves
    <3>6. ShapeOK(v) /\ v.cap = u.cap
      BY <3>4 DEF Changed
    <3>7. /\ n \in 0 .. g - 1 /\ n <= n /\ scan = Later(t, i, n)
          /\ \A x \in n + 1 .. g - 1 : x <= n => NotPast(v, scan, Later(t, i, x))
      BY <1>1, <1>5, <1>10
    <3>. QED
      BY <1>3, <2>1, <3>3, <3>4, <3>5, <3>6, <3>7 DEF ShiftedTo
  <2>. QED
    BY <2>7, <2>8
<1>. QED
  BY <1>1, <1>8, <1>9, <1>10


(* Nothing comes over the hole in the end. *)
LEMMA NothingPast ==
  ASSUME ConfigOK, deletion = "shift", NEW t, IsCapacity(t.cap), NEW i \in 0 .. t.cap - 1,
         NEW e, NEW g, GapAt(t, i, g), NEW s, ShiftedTo(t, i, e, g, t.cap, s)
  PROVE  /\ s.hole \in Full(s.t) /\ \A j \in Full(s.t) \ {s.hole} : NotPast(s.t, s.hole, j)
<1>1. PICK u, hole : u = s.t /\ hole = s.hole
  OBVIOUS
<1>2. t.cap \in Nat \ {0} /\ g \in Nat \ {0} /\ g < t.cap
  BY CapacityIs DEF GapAt
<1>3. ShapeOK(u) /\ u.cap = t.cap /\ Full(u) = Full(t) /\ Around(u, hole, e)
  BY <1>1 DEF ShiftedTo
<1>4. PICK b \in 0 .. g - 1 :
        /\ hole = Later(t, i, b)
        /\ \A x \in b + 1 .. g - 1 : x <= t.cap => NotPast(u, hole, Later(t, i, x))
  BY <1>1 DEF ShiftedTo
<1>5. \A x \in 0 .. t.cap - 1 : Later(t, i, x) \in 0 .. t.cap - 1
  BY <1>2, LaterIs
<1>6. hole \in Full(u) /\ hole \in 0 .. t.cap - 1
  BY <1>3, <1>4 DEF GapAt, Full
<1>7. ASSUME NEW j \in Full(u) \ {hole}, ~NotPast(u, hole, j) PROVE FALSE
  <2>1. j \in 0 .. t.cap - 1
    BY <1>3, <1>7 DEF Full
  <2>2. PICK x \in 0 .. t.cap - 1 : Later(t, i, x) = j
    BY <1>2, <2>1, LaterEvery
  <2>3. x < b \/ x > g
    <3>1. x # b
      BY <1>4, <1>7, <2>2
    <3>2. x # g
      BY <1>3, <1>7, <2>2 DEF GapAt
    <3>3. ~(x \in b + 1 .. g - 1)
      <4>1. x <= t.cap
        BY <1>2, <2>2
      <4>. QED
        BY <1>4, <1>7, <2>2, <4>1
    <3>. QED
      BY <1>2, <3>1, <3>2, <3>3
  <2>4. PICK h \in Nat : h = hash_key[KeyIn(u, j)] /\ Reach(u, h, j)
    BY <1>3, <1>7, AroundSlot
  <2>5. /\ Apart(t.cap, h, j) \in 0 .. t.cap - 1 /\ Apart(t.cap, h, hole) \in 0 .. t.cap - 1
        /\ (h + Apart(t.cap, h, j)) % t.cap = j /\ (h + Apart(t.cap, h, hole)) % t.cap = hole
    <3>1. t.cap \in Nat \ {0} /\ j \in 0 .. t.cap - 1 /\ hole \in 0 .. t.cap - 1
      BY <1>2, <1>6, <2>1
    <3>2. /\ Apart(t.cap, h, j) \in 0 .. t.cap - 1 /\ Apart(t.cap, h, hole) \in 0 .. t.cap - 1
          /\ StepsTo(t.cap, h, Apart(t.cap, h, j), j)
          /\ StepsTo(t.cap, h, Apart(t.cap, h, hole), hole)
      BY <3>1, DistanceIs
    <3>. QED
      BY <3>2 DEF StepsTo
  <2>6. \A q \in 0 .. Apart(t.cap, h, j) - 1 : u.ctrl[(h + q) % t.cap] # kEmpty
    <3>1. IsCapacity(u.cap) /\ j \in 0 .. u.cap - 1
      BY <1>3, <2>1
    <3>2. Reach(u, h, j) <=>
             \A q \in 0 .. Apart(u.cap, h, j) - 1 : u.ctrl[(h + q) % u.cap] # kEmpty
      BY <3>1, LinearReach
    <3>. QED
      BY <1>3, <2>4, <3>2
  <2>7. PICK p \in 0 .. t.cap - 1, q \in Int :
          /\ p = Apart(t.cap, h, j) /\ q \in 0 .. p - 1
          /\ (h + p) % t.cap = Later(t, i, x) /\ (h + q) % t.cap = Later(t, i, b)
    <3>1. Apart(t.cap, h, hole) < Apart(t.cap, h, j)
      BY <1>2, <1>3, <1>7, <2>4, <2>5 DEF NotPast
    <3>2. PICK p, q : p = Apart(t.cap, h, j) /\ q = Apart(t.cap, h, hole)
      OBVIOUS
    <3>3. p \in 0 .. t.cap - 1 /\ q \in 0 .. p - 1
      BY <1>2, <2>5, <3>1, <3>2
    <3>4. (h + p) % t.cap = Later(t, i, x) /\ (h + q) % t.cap = Later(t, i, b)
      BY <1>4, <2>2, <2>5, <3>2
    <3>. QED
      BY <3>2, <3>3, <3>4
  <2>8. \E r \in 0 .. p - 1 : (h + r) % t.cap = Later(t, i, g)
    <3>1. RoundAbout(t, i, h, b, g, x, p, q)
      BY <1>2, <2>3, <2>7 DEF RoundAbout
    <3>. QED
      BY <3>1, PassesGap
  <2>9. u.ctrl[Later(t, i, g)] # kEmpty
    BY <2>6, <2>7, <2>8
  <2>10. u.ctrl[Later(t, i, g)] = kEmpty
    <3>1. g \in 0 .. t.cap - 1
      BY <1>2
    <3>2. Later(t, i, g) \in 0 .. u.cap - 1 /\ Later(t, i, g) \notin Full(u)
      BY <1>3, <1>5, <3>1 DEF GapAt
    <3>3. ~is_full(u.ctrl[Later(t, i, g)]) /\ Later(t, i, g) # hole
      BY <1>6, <3>2 DEF Full
    <3>4. SlotOK(u, Later(t, i, g), e)
      BY <1>3, <3>2, <3>3 DEF Around
    <3>. QED
      BY <3>3, <3>4 DEF SlotOK
  <2>. QED
    BY <2>9, <2>10
<1>. QED
  BY <1>1, <1>6, <1>7

(* An element goes, and those behind it close the gap. *)
LEMMA ShiftFaithful ==
  ASSUME ConfigOK, deletion = "shift", NEW t, NEW c, Faithful(t, c), NEW i \in Full(t),
         NEW e, e = [c EXCEPT ![KeyIn(t, i)] = 0]
  PROVE  Faithful(Erased(t, i), e) /\ Erased(t, i).cap = t.cap
<1>1. ShapeOK(t) /\ Content(t, c) /\ CountersOK(t) /\ i \in 0 .. t.cap - 1
  BY DEF Faithful, Full
<1>2. IsCapacity(t.cap) /\ t.cap \in Nat \ {0}
  BY <1>1, CapacityIs DEF ShapeOK
<1>3. PICK g : GapAt(t, i, g)
  BY GapExists
<1>4. PICK f : ShiftIs(t, i, t.cap, f) /\ Erased(t, i) = Closed(f[t.cap])
  BY <1>2, ShiftGives
<1>5. ASSUME NEW n \in 0 .. t.cap
      PROVE  f[n] = IF n = 0 THEN ShiftStart(t, i) ELSE ShiftStep(f[n - 1], Later(t, i, n))
  BY <1>4 DEF ShiftIs
<1>. DEFINE Bad == {n \in 0 .. t.cap : ~ShiftedTo(t, i, e, g, n, f[n])}
<1>6. Bad = {}
  <2>. SUFFICES ASSUME Bad # {} PROVE FALSE
    OBVIOUS
  <2>1. PICK n \in Bad : \A m \in Bad : n <= m
    <3>1. Bad \in SUBSET Nat
      BY <1>2
    <3>. HIDE DEF Bad
    <3>. QED
      BY <3>1, LeastOf
  <2>2. n # 0
    <3>1. f[0] = ShiftStart(t, i)
      BY <1>2, <1>5
    <3>2. ShiftedTo(t, i, e, g, 0, f[0])
      BY <1>3, <3>1, ShiftStarts
    <3>. QED
      BY <2>1, <3>2
  <2>3. n \in 1 .. t.cap /\ n - 1 \in 0 .. t.cap /\ ~(n <= n - 1)
    BY <1>2, <2>1, <2>2
  <2>4. ShiftedTo(t, i, e, g, n - 1, f[n - 1])
    BY <2>1, <2>3
  <2>5. f[n] = ShiftStep(f[n - 1], Later(t, i, n))
    BY <1>5, <2>2, <2>3
  <2>6. ShiftedTo(t, i, e, g, n, f[n])
    BY <1>1, <1>2, <1>3, <2>3, <2>4, <2>5, ShiftGoesOn
  <2>. QED
    BY <2>1, <2>6
<1>7. PICK s : s = f[t.cap]
  OBVIOUS
<1>8. ShiftedTo(t, i, e, g, t.cap, s)
  <2>1. t.cap \in 0 .. t.cap
    BY <1>2
  <2>. QED
    BY <1>6, <1>7, <2>1, Zenon
<1>9. PICK u, hole : u = s.t /\ hole = s.hole
  OBVIOUS
<1>10. /\ ShapeOK(u) /\ u.cap = t.cap /\ u.size = t.size - 1 /\ u.tombs = t.tombs
       /\ Full(u) = Full(t) /\ Around(u, hole, e)
  BY <1>8, <1>9 DEF ShiftedTo
<1>11. hole \in Full(u) /\ \A j \in Full(u) \ {hole} : NotPast(u, hole, j)
  BY <1>1, <1>2, <1>3, <1>8, <1>9, NothingPast
<1>12. PICK v : v = Closed(s)
  OBVIOUS
<1>13. Changed(u, v, hole, NoElement, kEmpty) /\ v.size = u.size /\ v.tombs = u.tombs
  <2>. DEFINE written == [u EXCEPT !.slots[hole] = NoElement]
  <2>1. /\ written \in [cap : {u.cap}, size : Int, tombs : Int, ctrl : {u.ctrl},
                        slots : {[u.slots EXCEPT ![hole] = NoElement]}]
        /\ written.size = u.size /\ written.tombs = u.tombs
    <3>1. u \in [cap : {u.cap}, size : Int, tombs : Int, ctrl : {u.ctrl}, slots : {u.slots}]
      BY <1>10 DEF ShapeOK, TableType
    <3>. QED
      BY <3>1
  <2>2. v = set_ctrl(written, hole, kEmpty)
    BY <1>9, <1>12 DEF Closed
  <2>3. NoElement \in Elements /\ kEmpty \in 0 .. 255 /\ hole \in 0 .. u.cap - 1 /\ u.cap # 0
    BY <1>2, <1>10, <1>11 DEF NoElement, Elements, kEmpty, Full
  <2>. HIDE DEF written
  <2>4. Put(u, written, hole, NoElement, kEmpty)
    BY <1>10, <2>1, <2>3 DEF Put
  <2>5. /\ Changed(u, set_ctrl(written, hole, kEmpty), hole, NoElement, kEmpty)
        /\ set_ctrl(written, hole, kEmpty).size = written.size
        /\ set_ctrl(written, hole, kEmpty).tombs = written.tombs
    BY <2>4, ChangedIs
  <2>. QED
    BY <2>1, <2>2, <2>5
<1>14. /\ Content(v, e) /\ KeysOnce(v) /\ Reached(v)
       /\ Full(v) = Full(u) \ {hole} /\ Dead(v) = {}
  BY <1>10, <1>11, <1>13, HoleCloses
<1>15. ShapeOK(v) /\ v.cap = t.cap
  BY <1>10, <1>13 DEF Changed
<1>16. CountersOK(v)
  <2>1. /\ IsFiniteSet(Full(t)) /\ Cardinality(Full(t)) \in Nat
    BY <1>2, SetsFinite
  <2>2. Cardinality(Full(v)) = Cardinality(Full(t)) - 1
    BY <1>10, <1>11, <1>14, <2>1, FS_RemoveElement
  <2>3. Dead(t) = {}
    <3>1. ASSUME NEW j \in 0 .. t.cap - 1, t.ctrl[j] = kDeleted PROVE FALSE
      <4>1. SlotOK(t, j, c) /\ ~is_full(t.ctrl[j]) /\ kDeleted # kEmpty
        BY <1>1, <3>1 DEF Content, is_full, kDeleted, kEmpty
      <4>. QED
        BY <3>1, <4>1 DEF SlotOK
    <3>. QED
      BY <3>1 DEF Dead
  <2>4. Cardinality({}) = 0
    BY FS_EmptySet
  <2>. QED
    BY <1>1, <1>2, <1>10, <1>13, <1>14, <1>15, <2>1, <2>2, <2>3, <2>4 DEF CountersOK
<1>. QED
  BY <1>4, <1>7, <1>12, <1>14, <1>15, <1>16 DEF Faithful

-----------------------------------------------------------------------------
(* The invariant of FastHashMap: the table is faithful to what was stored.  *)

HashInv == ConfigOK /\ Faithful(map, stored) /\ map.cap <= MaxCapacity

(* It holds next of a table and a content that are faithful now. *)
LEMMA NextFaithful ==
  ASSUME ConfigOK, UNCHANGED <<deletion, hash_key>>, NEW u, NEW c,
         map' = u, stored' = c, Faithful(u, c), u.cap <= MaxCapacity
  PROVE  HashInv'
<1>1. ConfigOK'
  BY DEF ConfigOK
<1>2. ShapeOK(map)' /\ KeysOnce(map)' /\ CountersOK(map)'
  BY DEF Faithful, ShapeOK, TableType, Mirrored, KeysOnce, Full, KeyIn, CountersOK, Dead
<1>3. Content(map, stored)'
  BY DEF Faithful, Content, SlotOK, Full, KeyIn
<1>4. Reached(map)'
  BY DEF Faithful, Reached, Full, KeyIn, Reach, SlotAt, Offset
<1>. QED
  BY <1>1, <1>2, <1>3, <1>4 DEF HashInv, Faithful

(* The counters of a table are within its capacity. *)
LEMMA CountersBound ==
  ASSUME NEW t, NEW c, Faithful(t, c)
  PROVE  /\ t.cap \in Nat /\ t.size \in 0 .. t.cap /\ t.tombs \in 0 .. t.cap
         /\ t.cap # 0 => t.size < t.cap
<1>1. t.cap \in Nat /\ t.size = Cardinality(Full(t)) /\ t.tombs = Cardinality(Dead(t))
  BY DEF Faithful, ShapeOK, TableType, CountersOK
<1>2. t.size \in Nat /\ t.tombs \in Nat
  BY <1>1, SetsFinite
<1>3. CASE t.cap = 0
  <2>1. Full(t) = {} /\ Dead(t) = {}
    BY <1>3 DEF Full, Dead
  <2>. QED
    BY <1>1, <1>3, <2>1, FS_EmptySet
<1>4. CASE t.cap # 0
  <2>1. t.size + t.tombs <= t.cap - 1
    BY <1>4 DEF Faithful, CountersOK
  <2>. QED
    BY <1>1, <1>2, <2>1
<1>. QED
  BY <1>3, <1>4

(* Table t, with content c, has element k in slot i, or room for it: d is   *)
(* the content with value v under k.                                        *)
Insertable(t, c, d, i, k, v) ==
  /\ Faithful(t, c) /\ t.cap <= MaxCapacity
  /\ \/ /\ i = NotFound /\ c[k] = 0 /\ WithElement(t, k, v).cap = t.cap
        /\ Faithful(WithElement(t, k, v), d)
     \/ i # NotFound /\ i \in Full(t) /\ KeyIn(t, i) = k /\ c[k] # 0

(* A table that has been made ready is so for every element. *)
LEMMA ReadyToInsert ==
  ASSUME HashInv, Prepared.cap <= MaxCapacity, NEW k \in HashKeys, NEW v \in MapValues
  PROVE  \E t, c, d, i :
           /\ t = Prepared /\ c = stored /\ i = find_slot(t, k) /\ d = [c EXCEPT ![k] = v]
           /\ Insertable(t, c, d, i, k, v)
<1>. PICK t, c, d, i : t = Prepared /\ c = stored /\ i = find_slot(t, k) /\ d = [c EXCEPT ![k] = v]
  OBVIOUS
<1>1. ConfigOK
  BY DEF HashInv
<1>2. Faithful(t, c) /\ t.cap # 0 /\ t.size + t.tombs < t.cap - 1
  BY PreparedFaithful DEF HashInv
<1>3. \/ i = NotFound /\ c[k] = 0
      \/ i # NotFound /\ i \in Full(t) /\ KeyIn(t, i) = k /\ c[k] # 0
  BY <1>1, <1>2, FindsIt
<1>4. CASE i = NotFound
  <2>1. Faithful(WithElement(t, k, v), d) /\ WithElement(t, k, v).cap = t.cap
    BY <1>1, <1>2, <1>3, <1>4, InsertFaithful
  <2>. QED
    BY <1>2, <1>3, <1>4, <2>1 DEF Insertable
<1>5. CASE i # NotFound
  BY <1>2, <1>3, <1>5 DEF Insertable
<1>. QED
  BY <1>4, <1>5

(* Each action keeps the invariant.                                         *)
LEMMA InsertKeeps ==
  ASSUME HashInv, NEW k \in HashKeys, NEW v \in MapValues, MapInsert(k, v)
  PROVE  HashInv'
<1>1. ConfigOK /\ UNCHANGED <<deletion, hash_key>> /\ Prepared.cap <= MaxCapacity
  BY DEF HashInv, MapInsert
<1>2. PICK t, c, d, i :
        /\ t = Prepared /\ c = stored /\ i = find_slot(t, k) /\ d = [c EXCEPT ![k] = v]
        /\ Insertable(t, c, d, i, k, v)
  BY <1>1, ReadyToInsert
<1>3. CASE i = NotFound
  <2>1. PICK u : u = WithElement(t, k, v)
    OBVIOUS
  <2>2. map' = u /\ stored' = d
    BY <1>2, <1>3, <2>1 DEF MapInsert, Insertable
  <2>3. Faithful(u, d) /\ u.cap <= MaxCapacity
    BY <1>2, <1>3, <2>1 DEF Insertable
  <2>. QED
    BY <1>1, <2>2, <2>3, NextFaithful
<1>4. CASE i # NotFound
  <2>1. map' = t /\ stored' = c
    BY <1>2, <1>4 DEF MapInsert, Insertable
  <2>. QED
    BY <1>1, <1>2, <2>1, NextFaithful DEF Insertable
<1>. QED
  BY <1>3, <1>4

LEMMA AssignKeeps ==
  ASSUME HashInv, NEW k \in HashKeys, NEW v \in MapValues, insert_or_assign(k, v)
  PROVE  HashInv'
<1>1. ConfigOK /\ UNCHANGED <<deletion, hash_key>> /\ Prepared.cap <= MaxCapacity
  BY DEF HashInv, insert_or_assign
<1>2. PICK t, c, d, i :
        /\ t = Prepared /\ c = stored /\ i = find_slot(t, k) /\ d = [c EXCEPT ![k] = v]
        /\ Insertable(t, c, d, i, k, v)
  BY <1>1, ReadyToInsert
<1>3. stored' = d
  BY <1>2 DEF insert_or_assign
<1>4. CASE i = NotFound
  <2>1. PICK u : u = WithElement(t, k, v)
    OBVIOUS
  <2>2. map' = u
    BY <1>2, <1>4, <2>1 DEF insert_or_assign
  <2>3. Faithful(u, d) /\ u.cap <= MaxCapacity
    BY <1>2, <1>4, <2>1 DEF Insertable
  <2>. QED
    BY <1>1, <1>3, <2>2, <2>3, NextFaithful
<1>5. CASE i # NotFound
  <2>1. PICK u : u = Assigned(t, i, v)
    OBVIOUS
  <2>2. map' = u
    BY <1>2, <1>5, <2>1 DEF insert_or_assign, Assigned
  <2>3. d = [c EXCEPT ![KeyIn(t, i)] = v] /\ i \in Full(t)
    BY <1>2, <1>5 DEF Insertable
  <2>4. Faithful(u, d) /\ u.cap = t.cap
    <3>1. ConfigOK /\ Faithful(t, c) /\ i \in Full(t) /\ v \in MapValues
      BY <1>1, <1>2, <2>3 DEF Insertable
    <3>2. d = [c EXCEPT ![KeyIn(t, i)] = v]
      BY <2>3
    <3>3. Faithful(Assigned(t, i, v), d) /\ Assigned(t, i, v).cap = t.cap
      BY <3>1, <3>2, AssignFaithful
    <3>. QED
      BY <2>1, <3>3
  <2>. QED
    BY <1>1, <1>2, <1>3, <2>2, <2>4, NextFaithful DEF Insertable
<1>. QED
  BY <1>4, <1>5

LEMMA EraseKeeps ==
  ASSUME HashInv, NEW k \in HashKeys, MapErase(k)
  PROVE  HashInv'
<1>1. ConfigOK /\ UNCHANGED <<deletion, hash_key>>
  BY DEF HashInv, MapErase
<1>2. PICK t, c, d, i : t = map /\ c = stored /\ i = find_slot(t, k) /\ d = [c EXCEPT ![k] = 0]
  OBVIOUS
<1>3. Faithful(t, c) /\ t.cap <= MaxCapacity /\ stored' = d
  BY <1>2 DEF HashInv, MapErase
<1>4. \/ i = NotFound /\ c[k] = 0
      \/ i # NotFound /\ i \in Full(t) /\ KeyIn(t, i) = k
  BY <1>1, <1>2, <1>3, FindsIt
<1>5. CASE i = NotFound
  <2>1. c \in [HashKeys -> MapValues \cup {0}]
    BY <1>3 DEF Faithful, Content
  <2>2. map' = t /\ d = c
    BY <1>2, <1>4, <1>5, <2>1 DEF MapErase
  <2>. QED
    BY <1>1, <1>3, <2>2, NextFaithful
<1>6. CASE i # NotFound
  <2>1. PICK u : u = Erased(t, i)
    OBVIOUS
  <2>2. map' = u /\ i \in Full(t) /\ d = [c EXCEPT ![KeyIn(t, i)] = 0]
    BY <1>2, <1>4, <1>6, <2>1 DEF MapErase
  <2>3. deletion = "tombstone" \/ deletion = "shift"
    BY <1>1 DEF ConfigOK
  <2>4. Faithful(u, d) /\ u.cap = t.cap
    BY <1>1, <1>3, <2>1, <2>2, <2>3, TombstoneFaithful, ShiftFaithful
  <2>. QED
    BY <1>1, <1>3, <2>2, <2>4, NextFaithful
<1>. QED
  BY <1>5, <1>6

LEMMA ReserveKeeps ==
  ASSUME HashInv, NEW n \in 0 .. MaxCapacity, Reserve(n)
  PROVE  HashInv'
<1>1. ConfigOK /\ UNCHANGED <<deletion, hash_key>> /\ stored' = stored
  BY DEF HashInv, Reserve
<1>2. PICK t, c : t = map /\ c = stored /\ Faithful(t, c) /\ t.cap <= MaxCapacity
  BY DEF HashInv
<1>. DEFINE required == (n * LoadDen) \div LoadNum + 1
<1>3. PICK cap \in Capacities :
        /\ CapacityFor(required, cap)
        /\ map' = IF required > t.cap THEN rehash_internal(t, cap) ELSE t
  BY <1>2 DEF Reserve
<1>4. required \in Int /\ IsCapacity(cap) /\ cap \in 1 .. MaxCapacity
  <2>1. PICK a \in Nat, b \in Nat \ {0} : a = n * LoadDen /\ b = LoadNum
    <3>1. n \in Nat /\ LoadDen \in Nat /\ LoadNum \in Nat \ {0}
      BY HashAssumption
    <3>. QED
      BY <3>1, Z3
  <2>2. a \div b \in Nat
    BY <2>1, DivMod
  <2>. QED
    BY <2>1, <2>2, CapacitiesGrow DEF Capacities
<1>. HIDE DEF required
<1>5. CASE required > t.cap
  <2>1. t.size < cap
    BY <1>2, <1>3, <1>4, <1>5, CountersBound, HashAssumption DEF CapacityFor
  <2>2. PICK u : u = rehash_internal(t, cap)
    OBVIOUS
  <2>3. map' = u /\ stored' = c
    BY <1>1, <1>2, <1>3, <1>5, <2>2
  <2>4. Faithful(u, c) /\ u.cap <= MaxCapacity
    BY <1>1, <1>2, <1>4, <2>1, <2>2, RehashFaithful, HashAssumption
  <2>. QED
    BY <1>1, <2>3, <2>4, NextFaithful
<1>6. CASE ~(required > t.cap)
  BY <1>1, <1>2, <1>3, <1>6, NextFaithful
<1>. QED
  BY <1>5, <1>6

LEMMA RehashKeeps ==
  ASSUME HashInv, ~ShrinksBelow, NEW n \in 0 .. MaxCapacity, Rehash(n)
  PROVE  HashInv'
<1>1. ConfigOK /\ UNCHANGED <<deletion, hash_key>> /\ stored' = stored
  BY DEF HashInv, Rehash
<1>2. PICK t, c : t = map /\ c = stored /\ Faithful(t, c) /\ t.cap <= MaxCapacity
  BY DEF HashInv
<1>3. PICK cap \in Capacities :
        LET due == cap > t.cap \/ t.tombs > t.size \div 4 IN
        /\ due => t.size < cap
        /\ map' = IF due THEN rehash_internal(t, cap) ELSE t
  BY <1>2 DEF Rehash
<1>. DEFINE due == cap > t.cap \/ t.tombs > t.size \div 4
<1>4. IsCapacity(cap) /\ cap <= MaxCapacity
  BY CapacitiesGrow, HashAssumption DEF Capacities
<1>5. CASE due
  <2>1. t.size < cap
    BY <1>3, <1>5
  <2>2. PICK u : u = rehash_internal(t, cap)
    OBVIOUS
  <2>3. map' = u /\ stored' = c
    BY <1>1, <1>2, <1>3, <1>5, <2>2
  <2>4. Faithful(u, c) /\ u.cap <= MaxCapacity
    BY <1>1, <1>2, <1>4, <2>1, <2>2, RehashFaithful
  <2>. QED
    BY <1>1, <2>3, <2>4, NextFaithful
<1>6. CASE ~due
  BY <1>1, <1>2, <1>3, <1>6, NextFaithful
<1>. QED
  BY <1>5, <1>6

LEMMA EmptiedKeeps ==
  ASSUME HashInv, NEW cap, cap = 0 \/ IsCapacity(cap), cap <= MaxCapacity, Emptied(cap)
  PROVE  HashInv'
<1>1. PICK u, c : u = EmptyTable(cap) /\ c = [k \in HashKeys |-> 0]
  OBVIOUS
<1>2. Faithful(u, c) /\ u.cap = cap
  BY <1>1, EmptyFaithful DEF EmptyTable
<1>3. map' = u /\ stored' = c /\ ConfigOK /\ UNCHANGED <<deletion, hash_key>>
  BY <1>1 DEF Emptied, HashInv
<1>. QED
  BY <1>2, <1>3, NextFaithful

LEMMA HashInvInit == HashInit => HashInv
<1>. SUFFICES ASSUME HashInit PROVE HashInv
  OBVIOUS
<1>1. Faithful(map, stored) /\ map.cap = 0
  <2>1. PICK c : c = [k \in HashKeys |-> 0]
    OBVIOUS
  <2>2. Faithful(EmptyTable(0), c)
    BY <2>1, EmptyFaithful
  <2>. QED
    BY <2>1, <2>2 DEF HashInit, EmptyTable
<1>2. ConfigOK
  BY DEF HashInit, ConfigOK
<1>. QED
  BY <1>1, <1>2, HashAssumption DEF HashInv

(* The invariant is inductive. *)
LEMMA HashInvNext ==
  ASSUME ~ShrinksBelow, HashInv, [HashNext]_hashVars
  PROVE  HashInv'
<1>1. PICK t, c : t = map /\ c = stored /\ Faithful(t, c) /\ t.cap <= MaxCapacity /\ ConfigOK
  BY DEF HashInv
<1>2. CASE InsertionThrows
  <2>1. PICK u : u = Prepared
    OBVIOUS
  <2>2. Faithful(u, c)
    BY <1>1, <2>1, PreparedFaithful
  <2>3. map' = u /\ stored' = c /\ u.cap <= MaxCapacity /\ UNCHANGED <<deletion, hash_key>>
    BY <1>1, <1>2, <2>1 DEF InsertionThrows
  <2>. QED
    BY <1>1, <2>2, <2>3, NextFaithful
<1>3. CASE ClearTable
  <2>1. Emptied(t.cap) /\ (t.cap = 0 \/ IsCapacity(t.cap))
    BY <1>1, <1>3 DEF ClearTable, Faithful, ShapeOK
  <2>. QED
    BY <1>1, <2>1, EmptiedKeeps
<1>4. CASE MovedFrom
  BY <1>4, EmptiedKeeps, HashAssumption DEF MovedFrom
<1>5. CASE UNCHANGED hashVars
  BY <1>1, <1>5, NextFaithful DEF hashVars
<1>. QED
  BY <1>2, <1>3, <1>4, <1>5, InsertKeeps, AssignKeeps, EraseKeeps, ReserveKeeps, RehashKeeps
     DEF HashNext

-----------------------------------------------------------------------------
(* What is checked follows from the invariant. *)

(* A capacity within the bound is among those of the model. *)
LEMMA WithinCapacities ==
  ASSUME NEW cap, IsCapacity(cap), cap <= MaxCapacity
  PROVE  cap \in Capacities
<1>1. PICK p \in Nat \ {0} : cap = kMinCapacity * p /\ PowerOfTwo(p)
  BY DEF IsCapacity
<1>2. PICK k \in Nat \ {0} : k = kMinCapacity
  BY HashAssumption DEF kMinCapacity
<1>3. k * p \in Nat /\ p <= k * p
  BY Z3
<1>4. cap \in Nat /\ p \in 1 .. cap /\ cap \in 1 .. MaxCapacity
  BY <1>1, <1>2, <1>3, HashAssumption
<1>. QED
  BY <1>1, <1>4 DEF Capacities

(* The invariant implies the type invariant, *)
LEMMA HashTyped == HashInv => HashTypeOK
<1>. SUFFICES ASSUME HashInv PROVE HashTypeOK
  OBVIOUS
<1>1. ConfigOK /\ Faithful(map, stored) /\ map.cap <= MaxCapacity
  BY DEF HashInv
<1>2. map.cap \in {0} \cup Capacities
  BY <1>1, WithinCapacities DEF Faithful, ShapeOK
<1>3. ASSUME NEW i \in 0 .. map.cap - 1
      PROVE  /\ map.ctrl[i] \in {kEmpty, kDeleted} \cup {H2(h) : h \in Hashes}
             /\ map.slots[i] = NoElement <=> ~is_full(map.ctrl[i])
  <2>1. SlotOK(map, i, stored)
    BY <1>1 DEF Faithful, Content
  <2>2. CASE is_full(map.ctrl[i])
    <3>1. PICK k \in HashKeys : k = map.slots[i].key /\ map.ctrl[i] = H2(hash_key[k])
      BY <2>1, <2>2 DEF SlotOK
    <3>2. hash_key[k] \in Hashes /\ k # 0
      BY <1>1, HashAssumption DEF ConfigOK
    <3>3. map.slots[i] # NoElement
      BY <3>1, <3>2 DEF NoElement
    <3>. QED
      BY <2>2, <3>1, <3>2, <3>3
  <2>3. CASE ~is_full(map.ctrl[i])
    BY <2>1, <2>3 DEF SlotOK
  <2>. QED
    BY <2>2, <2>3
<1>4. map.size \in 0 .. map.cap /\ map.tombs \in 0 .. map.cap
  BY <1>1, CountersBound
<1>5. stored \in [HashKeys -> MapValues \cup {0}]
  BY <1>1 DEF Faithful, Content
<1>. QED
  BY <1>2, <1>3, <1>4, <1>5 DEF HashTypeOK

(* As many slots are full as there are keys with a value: each holds one. *)
LEMMA KeysCounted ==
  ASSUME ConfigOK, NEW t, NEW c, Faithful(t, c)
  PROVE  Cardinality({k \in HashKeys : c[k] # 0}) = Cardinality(Full(t))
<1>. DEFINE there == {k \in HashKeys : c[k] # 0}
            keyOf == [i \in Full(t) |-> KeyIn(t, i)]
<1>1. ShapeOK(t) /\ Content(t, c) /\ KeysOnce(t)
  BY DEF Faithful
<1>2. keyOf \in [Full(t) -> there]
  BY <1>1, FullSlot
<1>3. \A i, j \in Full(t) : keyOf[i] = keyOf[j] => i = j
  BY <1>1 DEF KeysOnce
<1>4. \A k \in there : \E i \in Full(t) : keyOf[i] = k
  BY <1>1 DEF Content
<1>. HIDE DEF there, keyOf
<1>5. keyOf \in Bijection(Full(t), there)
  BY <1>2, <1>3, <1>4, Fun_IsBij
<1>6. IsFiniteSet(Full(t)) /\ ExistsBijection(Full(t), there)
  BY <1>1, <1>5, SetsFinite DEF ExistsBijection, ShapeOK, TableType
<1>. QED
  BY <1>6, FS_Bijection DEF there

(* and that the map is faithful. *)
LEMMA HashFaithful == HashInv => MapIsFaithful
<1>. SUFFICES ASSUME HashInv PROVE MapIsFaithful
  OBVIOUS
<1>1. ConfigOK /\ Faithful(map, stored) /\ ShapeOK(map) /\ Content(map, stored) /\ CountersOK(map)
  BY DEF HashInv, Faithful
<1>2. PICK t, c : t = map /\ c = stored
  OBVIOUS
<1>3. ASSUME NEW k \in HashKeys
      PROVE  LET i == find_slot(map, k) IN
             stored[k] = IF i = NotFound THEN 0 ELSE map.slots[i].value
  <2>1. PICK i : i = find_slot(t, k)
    OBVIOUS
  <2>2. \/ i = NotFound /\ c[k] = 0
        \/ i # NotFound /\ t.slots[i].value = c[k]
    BY <1>1, <1>2, <2>1, FindsIt
  <2>. QED
    BY <1>2, <2>1, <2>2
<1>4. map.size = Cardinality({k \in HashKeys : stored[k] # 0})
  <2>1. Cardinality({k \in HashKeys : c[k] # 0}) = Cardinality(Full(t))
    BY <1>1, <1>2, KeysCounted
  <2>. QED
    BY <1>1, <1>2, <2>1 DEF CountersOK
<1>5. /\ map.size = Cardinality({i \in 0 .. map.cap - 1 : is_full(map.ctrl[i])})
      /\ map.tombs = Cardinality({i \in 0 .. map.cap - 1 : map.ctrl[i] = kDeleted})
  BY <1>1 DEF CountersOK, Full, Dead
<1>6. ASSUME map.cap > 0, NEW k \in HashKeys PROVE Ends(map, hash_key[k])
  <2>1. PICK h \in Nat : h = hash_key[k]
    BY <1>1, HashNumbers
  <2>2. IsCapacity(t.cap) /\ t.cap \in Nat \ {0} /\ Mirrored(t)
    BY <1>1, <1>2, <1>6, CapacityIs DEF ShapeOK
  <2>3. PICK p \in 0 .. t.cap - 1 : t.ctrl[SlotAt(t, h, p)] = kEmpty
    BY <1>1, <1>2, <2>2, HasEmpty
  <2>4. p \in Nat /\ p \in Bytes(t)
    BY <2>2 DEF Bytes
  <2>5. CtrlAt(t, h, p) = t.ctrl[SlotAt(t, h, p)]
    BY <2>2, <2>4, SlotType DEF Mirrored
  <2>6. p \in With(t, h, {kEmpty})
    BY <2>3, <2>4, <2>5 DEF With
  <2>. QED
    BY <1>2, <2>1, <2>6 DEF Ends
<1>. QED
  BY <1>3, <1>4, <1>5, <1>6 DEF MapIsFaithful

(* The state of the table keeps its type, and its bytes tell whether slots  *)
(* hold an element (set_ctrl, and what writes the slots, FastHashMap.h).    *)
THEOREM HashTableTyped == ASSUME ~ShrinksBelow PROVE HashSpec => []HashTypeOK
<1>1. HashInv /\ [HashNext]_hashVars => HashInv'
  BY HashInvNext
<1>. QED
  BY HashInvInit, HashTyped, <1>1, PTL DEF HashSpec

(* Whatever is put in, assigned and erased, and whenever the table is       *)
(* rebuilt, a lookup finds what was last put under its key and nothing that *)
(* was erased, and ends at an empty slot; the counters that decide on       *)
(* rehashing count what is there (insert, erase, rehash_internal,           *)
(* find_slot).  No caller asks rehash() for fewer slots than it needs.      *)
THEOREM HashTableIsFaithful == ASSUME ~ShrinksBelow PROVE HashSpec => []MapIsFaithful
<1>1. HashInv /\ [HashNext]_hashVars => HashInv'
  BY HashInvNext
<1>. QED
  BY HashInvInit, HashFaithful, <1>1, PTL DEF HashSpec
=============================================================================
