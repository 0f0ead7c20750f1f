------------------------------- MODULE SlotMap -------------------------------
(***************************************************************************)
(* include/fat_p/SlotMap.h, a container for one thread: elements live in a  *)
(* dense array, a handle names a slot and the generation it was issued in,  *)
(* and an erased element's place is filled by the last one.  An element is  *)
(* the number of the call that inserted it, so that issued[n] is the handle *)
(* its client got.  Data indices count from 0, sequences from 1.            *)
(*                                                                         *)
(* The vectors for slots and free indices are taken to grow without fail;   *)
(* the element's constructor and the erase map may throw (ways 1 and 2).    *)
(***************************************************************************)
EXTENDS Integers, Sequences, FiniteSets, SequencesExt

CONSTANTS
  MaxSlots,       \* bound: slots, and the hints given to insert_at()
  MaxChanges,     \* bound: calls that change the map
  GenModulus,     \* 2^w for generations of w bits
  kNoIndex        \* numeric_limits<size_type>::max()

ASSUME SlotMapAssumption ==
  /\ MaxSlots \in Nat \ {0} /\ MaxChanges \in Nat
  /\ GenModulus \in Nat /\ GenModulus > 2
  /\ kNoIndex \in Nat /\ kNoIndex >= MaxSlots

VARIABLES
  mData, mEraseMap, mSlots, mFreeList,
  issued,    \* history: issued[n]: the handle returned for element n
  live,      \* history: the elements that were inserted and not removed since
  changes    \* the calls made

slotMapVars == <<mData, mEraseMap, mSlots, mFreeList, issued, live, changes>>

SlotMapInit ==
  /\ mData = << >> /\ mEraseMap = << >> /\ mSlots = << >> /\ mFreeList = << >>
  /\ issued = << >> /\ live = {} /\ changes = 0

-----------------------------------------------------------------------------
NewSlot == [generation |-> 0, data_index |-> 0]

(* ++generation, which skips 0 when it wraps. *)
NextGeneration(g) == IF (g + 1) % GenModulus = 0 THEN 1 ELSE g + 1
Advance(slots, s) == [slots EXCEPT ![s + 1].generation = NextGeneration(@)]

IsFree(slot) == slot.generation = 0 \/ slot.data_index = kNoIndex
is_valid(h) == h.index < Len(mSlots) /\ mSlots[h.index + 1].generation = h.generation
Get(h) == mData[mSlots[h.index + 1].data_index + 1]

Counted == changes < MaxChanges /\ changes' = changes + 1

(* The element goes into slot s of slots, which is no longer free. *)
Occupy(slots, s, free) ==
  LET g == NextGeneration(slots[s + 1].generation) IN
  /\ mData' = Append(mData, Len(issued) + 1)
  /\ mEraseMap' = Append(mEraseMap, s)
  /\ mSlots' = [slots EXCEPT ![s + 1] = [generation |-> g, data_index |-> Len(mData)]]
  /\ mFreeList' = free
  /\ issued' = Append(issued, [index |-> s, generation |-> g])
  /\ live' = live \cup {Len(issued) + 1}

(* insert(), emplace() and insert_fast(): the last free slot, or a new one. *)
InsertDone ==
  \/ mFreeList # << >> /\ Occupy(mSlots, Last(mFreeList), Front(mFreeList))
  \/ /\ mFreeList = << >> /\ Len(mSlots) < MaxSlots
     /\ Occupy(Append(mSlots, NewSlot), Len(mSlots), << >>)

insert == Counted /\ InsertDone

(* insert() throws, wherever it does: a slot from the free list goes back   *)
(* with its generation advanced, a new one is popped.                       *)
insert_throws ==
  /\ Counted
  /\ mSlots' = IF mFreeList = << >> THEN mSlots ELSE Advance(mSlots, Last(mFreeList))
  /\ UNCHANGED <<mData, mEraseMap, mFreeList, issued, live>>

(* insert_at() with a hint that is free: the slots up to the hint exist     *)
(* from now on, the ones before it free and never used.                     *)
Grown(hint) ==
  mSlots \o [i \in 1 .. hint + 1 - Len(mSlots) |->
               IF i = hint + 1 - Len(mSlots) THEN NewSlot
               ELSE [generation |-> 0, data_index |-> kNoIndex]]
Gap(hint) == [i \in 1 .. hint - Len(mSlots) |-> Len(mSlots) + i - 1]

InRange(hint) == hint < Len(mSlots)
FreeWithout(hint) ==
  IF InRange(hint) THEN RemoveFirst(mFreeList, hint) ELSE mFreeList \o Gap(hint)

insert_at(hint) ==
  /\ Counted
  /\ IF InRange(hint)
     THEN IF IsFree(mSlots[hint + 1])
          THEN Occupy(mSlots, hint, FreeWithout(hint))
          ELSE InsertDone
     ELSE Occupy(Grown(hint), hint, FreeWithout(hint))

TakenBack(g) == (NextGeneration(g) - 1) % GenModulus

(* insert_at() throws: the generation is taken back, the slot is free.  At  *)
(* an occupied hint it is insert() that throws.                             *)
insert_at_throws(hint) ==
  /\ InRange(hint) => IsFree(mSlots[hint + 1])
  /\ Counted
  /\ mSlots' = IF InRange(hint)
               THEN [mSlots EXCEPT ![hint + 1].generation = TakenBack(@)]
               ELSE Grown(hint)
  /\ mFreeList' = Append(FreeWithout(hint), hint)
  /\ UNCHANGED <<mData, mEraseMap, issued, live>>

-----------------------------------------------------------------------------
(* The slot of the last element points to its new place. *)
Repoint(slots, d) == [slots EXCEPT ![Last(mEraseMap) + 1].data_index = d]

Invalidate(slots, s) ==
  [slots EXCEPT ![s + 1] = [generation |-> NextGeneration(@.generation), data_index |-> kNoIndex]]

(* erase() of a handle that was issued: the last element fills the hole. *)
erase(h) ==
  /\ is_valid(h) /\ Counted
  /\ LET d == mSlots[h.index + 1].data_index
         last == Len(mData) - 1
         hole(seq) == Front(IF d < last THEN [seq EXCEPT ![d + 1] = Last(seq)] ELSE seq) IN
       /\ mData' = hole(mData)
       /\ mEraseMap' = hole(mEraseMap)
       /\ mSlots' = Invalidate(IF d < last THEN Repoint(mSlots, d) ELSE mSlots, h.index)
  /\ mFreeList' = Append(mFreeList, h.index)
  /\ live' = {n \in live : issued[n] # h}
  /\ UNCHANGED issued

(* Fault: clears the slots, too. *)
Fault_ClearSlots == << >>

(* clear(): "Do NOT clear mSlots": every slot gets a new generation. *)
ClearedSlots ==
  [s \in 1 .. Len(mSlots) |->
     [generation |-> NextGeneration(mSlots[s].generation), data_index |-> kNoIndex]]

ClearMap ==
  /\ Counted
  /\ mData' = << >> /\ mEraseMap' = << >>
  /\ mSlots' = ClearedSlots
  /\ mFreeList' = [i \in 1 .. Len(mSlots') |-> i - 1]
  /\ live' = {}
  /\ UNCHANGED issued

SlotMapNext ==
  \/ insert \/ insert_throws
  \/ \E hint \in 0 .. MaxSlots - 1 : insert_at(hint) \/ insert_at_throws(hint)
  \/ \E n \in 1 .. Len(issued) : erase(issued[n])
  \/ ClearMap

SlotMapSpec == SlotMapInit /\ [][SlotMapNext]_slotMapVars

-----------------------------------------------------------------------------
SlotMapTypeOK ==
  /\ mSlots \in Seq([generation : 0 .. GenModulus - 1, data_index : 0 .. MaxSlots - 1 \cup {kNoIndex}])
  /\ Len(mSlots) <= MaxSlots
  /\ mEraseMap \in Seq(0 .. MaxSlots - 1) /\ mFreeList \in Seq(0 .. MaxSlots - 1)
  /\ mData \in Seq(1 .. MaxChanges) /\ Len(issued) <= changes
  /\ changes \in 0 .. MaxChanges

(* Dense array, erase map, slots and free list describe the same contents,  *)
(* after failed insertions too: every slot is in use, with the two maps     *)
(* inverse to each other, or on the free list, once.                        *)
MapsAgree ==
  /\ Len(mEraseMap) = Len(mData)
  /\ \A d \in 1 .. Len(mData) : mSlots[mEraseMap[d] + 1].data_index = d - 1
  /\ IsInjective(mEraseMap \o mFreeList)
  /\ ToSet(mEraseMap \o mFreeList) = 0 .. Len(mSlots) - 1

(* "Stale handles return nullptr, never wrong data": a handle is valid as   *)
(* long as its own element is in the map, and then that element is what     *)
(* get() finds, however often slots were reused and elements moved.  (Before *)
(* the generation of a slot wraps.)                                         *)
HandlesAreTrue ==
  \A n \in 1 .. Len(issued) :
    /\ is_valid(issued[n]) <=> n \in live
    /\ n \in live => Get(issued[n]) = n

(* The four vectors agree, and every handle finds its own element or none.  *)
SlotsAreSound == MapsAgree /\ HandlesAreTrue
=============================================================================
