------------------------------- MODULE Signal -------------------------------
(***************************************************************************)
(* include/fat_p/Signal.h: a list of slots that emissions iterate under a   *)
(* shared lock while the slots they call, and other threads, connect and    *)
(* disconnect.  A thread is a stack of calls, because a slot may call the   *)
(* signal again.  One action per lock region or atomic access that another  *)
(* thread can see in between; an exclusive region is one action.  The       *)
(* micro-lock mPendingLock only covers single operations and is not shown.  *)
(***************************************************************************)
EXTENDS Integers, Sequences, FiniteSets, SequencesExt

CONSTANTS
  Threads,
  Priorities,  \* the priorities passed to connectManual()
  MaxCalls,    \* bound: calls a thread makes, those of its slots included
  MaxSlots,    \* bound: connections ever made
  Propagates,  \* the values of propagates that behaviours start with
  WritersFirst \* the std::shared_mutex lets no reader in while a writer waits

ASSUME BoundsAssumption == MaxCalls \in Nat /\ MaxSlots \in Nat
ASSUME ThreadsAssumption == IsFiniteSet(Threads)
ASSUME PrioritiesAssumption == Priorities \subseteq Int
ASSUME PolicyAssumption ==
  Propagates \subseteq BOOLEAN /\ WritersFirst \in BOOLEAN

VARIABLES
  propagates,  \* EmissionPolicy is PropagateExceptionPolicy
  mSlots, mPendingConnects, mNextId, mRecursionDepth, mNeedsCleanup,
  shared,   \* shared[t]: how often t holds the policy's shared lock
  stack,    \* stack[t]: the calls t is in, innermost last
  calls,    \* calls[t]: how many t has made
  known,    \* history: ids that connectManual() has returned
  dropped   \* history: ids disconnected

lists == <<mSlots, mPendingConnects>>
flags == <<mNextId, mRecursionDepth, mNeedsCleanup>>
history == <<known, dropped>>
vars == <<propagates, lists, flags, shared, stack, calls, history>>

Ids == 1 .. MaxSlots
Slot == [id : Ids, priority : Priorities, active : BOOLEAN]

Init ==
  /\ propagates \in Propagates
  /\ mSlots = << >>
  /\ mPendingConnects = << >>
  /\ mNextId = 1
  /\ mRecursionDepth = 0
  /\ mNeedsCleanup = FALSE
  /\ shared = [t \in Threads |-> 0]
  /\ stack = [t \in Threads |-> << >>]
  /\ calls = [t \in Threads |-> 0]
  /\ known = {}
  /\ dropped = {}

-----------------------------------------------------------------------------
(* Calls.  A frame is a call in progress: its operation and place, the slot *)
(* it connects or the id it disconnects, and the index it is at.            *)

Frame(op, pc, slot) ==
  [op |-> op, pc |-> pc, slot |-> slot, at |-> 1, outermost |-> FALSE, threw |-> FALSE]
NoSlot == [id |-> 0, priority |-> 0, active |-> FALSE]

Top(t) == Last(stack[t])
At(t, op, pc) == stack[t] # << >> /\ Top(t).op = op /\ Top(t).pc = pc
SetTop(t, frame) == stack' = [stack EXCEPT ![t] = [@ EXCEPT ![Len(@)] = frame]]
GoTo(t, pc) == SetTop(t, [Top(t) EXCEPT !.pc = pc])
Return(t) == stack' = [stack EXCEPT ![t] = Front(@)]

Call(t, frame) ==
  /\ stack[t] = << >> \/ At(t, "emit", "callback")
  /\ calls[t] < MaxCalls
  /\ calls' = [calls EXCEPT ![t] = @ + 1]
  /\ stack' = [stack EXCEPT ![t] = Append(@, frame)]

(* The lock of SharedMutexPolicy.  The standard leaves open whether new     *)
(* readers pass a waiting writer: WritersFirst.                             *)
Free == \A t \in Threads : shared[t] = 0
WriterWaits == \E t \in Threads : stack[t] # << >> /\ Top(t).pc \in {"exclusive", "cleanup"}
CanShare == WritersFirst => ~WriterWaits
Acquire(t) == CanShare /\ shared' = [shared EXCEPT ![t] = @ + 1]
Release(t) == shared' = [shared EXCEPT ![t] = @ - 1]

-----------------------------------------------------------------------------
IdsOf(slots) == {slots[i].id : i \in DOMAIN slots}
ActiveIds == {mSlots[i].id : i \in {j \in DOMAIN mSlots : mSlots[j].active}}
ParkedIds == IdsOf(mPendingConnects)

(* find and erase(): the first slot that has the id goes. *)
Without(slots, id) == RemoveAt(slots, SelectInSeq(slots, LAMBDA s : s.id = id))

(* insertByPriority(): behind every slot of the same or a higher priority. *)
InsertByPriority(slots, s) ==
  InsertAt(slots, 1 + Cardinality({i \in DOMAIN slots : slots[i].priority >= s.priority}), s)

(* performDeferredCleanup(): the slots that are active, in their order, and  *)
(* the parked ones inserted among them one by one.                          *)
Compacted(slots) ==
  LET kept[n \in 0 .. Len(slots)] ==
        IF n = 0 THEN << >>
        ELSE IF slots[n].active THEN Append(kept[n - 1], slots[n]) ELSE kept[n - 1]
  IN  kept[Len(slots)]

Activated(slots, parked) ==
  LET list[n \in 0 .. Len(parked)] ==
        IF n = 0 THEN slots ELSE InsertByPriority(list[n - 1], parked[n])
  IN  list[Len(parked)]

(* What a disconnect that found id leaves behind. *)
Drop(id) ==
  /\ dropped' = dropped \cup {id}
  /\ UNCHANGED known

(* erasePending() *)
ErasePending(id) ==
  IF id \in ParkedIds
  THEN mPendingConnects' = Without(mPendingConnects, id) /\ Drop(id)
  ELSE UNCHANGED <<mPendingConnects, history>>

-----------------------------------------------------------------------------
(* Faults: each is an action of this module with one plausible mistake.     *)
(* They are never part of Next.                                             *)

(* Every call goes for the exclusive lock. *)
Fault_AlwaysExclusive(t) ==
  /\ stack[t] # << >>
  /\ Top(t).pc = "depth"
  /\ GoTo(t, "exclusive")
  /\ UNCHANGED <<lists, flags, shared, calls, history>>

(* connectManual() does not look again whether the emission is over. *)
Fault_NoDrain(t) ==
  /\ At(t, "connect", "recheck")
  /\ known' = known \cup {Top(t).slot.id}
  /\ Return(t)
  /\ UNCHANGED <<lists, flags, shared, calls, dropped>>

(* The soft delete asks for a cleanup and leaves the slot active. *)
Fault_KillOnlyFlags(t) ==
  /\ At(t, "disconnect", "kill")
  /\ mNeedsCleanup' = TRUE
  /\ Drop(Top(t).slot.id)
  /\ Release(t)
  /\ Return(t)
  /\ UNCHANGED <<lists, mNextId, mRecursionDepth, calls>>

(* An emission does not take the shared lock. *)
Fault_EnterUnlocked(t) ==
  /\ At(t, "emit", "enter")
  /\ mRecursionDepth' = mRecursionDepth + 1
  /\ GoTo(t, "scan")
  /\ UNCHANGED <<lists, mNextId, mNeedsCleanup, shared, calls, history>>

(* The depth is not restored when a slot throws. *)
Fault_ThrowSkipsGuard(t) ==
  /\ propagates
  /\ At(t, "emit", "callback")
  /\ SetTop(t, [Top(t) EXCEPT !.pc = "testFlag", !.threw = TRUE])
  /\ UNCHANGED <<lists, flags, shared, calls, history>>

-----------------------------------------------------------------------------
(* connectManual() *)

ConnectCall(t, priority) ==
  /\ mNextId <= MaxSlots
  /\ Call(t, Frame("connect", "depth", [id |-> mNextId, priority |-> priority, active |-> TRUE]))
  /\ mNextId' = mNextId + 1
  /\ UNCHANGED <<lists, mRecursionDepth, mNeedsCleanup, shared, history>>

Connected(t) ==
  /\ known' = known \cup {Top(t).slot.id}
  /\ Return(t)

(* The unlocked read of mRecursionDepth that starts every call but emit(). *)
SeeDepth(t) ==
  /\ stack[t] # << >>
  /\ Top(t).pc = "depth"
  /\ GoTo(t, IF mRecursionDepth > 0 THEN "sharedLock" ELSE "exclusive")
  /\ UNCHANGED <<lists, flags, shared, calls, history>>

ConnectPark(t) ==
  /\ At(t, "connect", "sharedLock")
  /\ Acquire(t)
  /\ mPendingConnects' = Append(mPendingConnects, Top(t).slot)
  /\ GoTo(t, "flag")
  /\ UNCHANGED <<mSlots, flags, calls, history>>

ConnectFlag(t) ==
  /\ At(t, "connect", "flag")
  /\ mNeedsCleanup' = TRUE
  /\ Release(t)
  /\ GoTo(t, "recheck")
  /\ UNCHANGED <<lists, mNextId, mRecursionDepth, calls, history>>

ConnectDrains(t) ==
  /\ At(t, "connect", "recheck")
  /\ mRecursionDepth = 0
  /\ GoTo(t, "cleanup")
  /\ UNCHANGED <<lists, flags, shared, calls, history>>

ConnectLeavesParked(t) ==
  /\ At(t, "connect", "recheck")
  /\ mRecursionDepth > 0
  /\ Connected(t)
  /\ UNCHANGED <<lists, flags, shared, calls, dropped>>

(* Under the exclusive lock the depth is 0 (DepthCountsEmissions): the      *)
(* second look at it, here and in the disconnects, never finds anything.    *)
ConnectInsert(t) ==
  /\ At(t, "connect", "exclusive")
  /\ Free
  /\ mSlots' = InsertByPriority(mSlots, Top(t).slot)
  /\ Connected(t)
  /\ UNCHANGED <<mPendingConnects, flags, shared, calls, dropped>>

(* performDeferredCleanup(), of connectManual() and of the emissions. *)
Cleanup(t) ==
  /\ stack[t] # << >>
  /\ Top(t).pc = "cleanup"
  /\ Free
  /\ IF mRecursionDepth = 0
     THEN /\ mSlots' = Activated(Compacted(mSlots), mPendingConnects)
          /\ mPendingConnects' = << >>
          /\ mNeedsCleanup' = FALSE
     ELSE UNCHANGED <<lists, mNeedsCleanup>>
  /\ IF Top(t).op = "connect" THEN Connected(t) ELSE Return(t) /\ UNCHANGED known
  /\ UNCHANGED <<mNextId, mRecursionDepth, shared, calls, dropped>>

-----------------------------------------------------------------------------
(* disconnect(), disconnectAll() *)

DisconnectCall(t, id) ==
  /\ id \in known
  /\ Call(t, Frame("disconnect", "depth", [NoSlot EXCEPT !.id = id]))
  /\ UNCHANGED <<lists, flags, shared, history>>

DisconnectFinds(t, i) ==
  /\ At(t, "disconnect", "sharedLock")
  /\ i \in DOMAIN mSlots
  /\ mSlots[i].id = Top(t).slot.id
  /\ mSlots[i].active
  /\ Acquire(t)
  /\ SetTop(t, [Top(t) EXCEPT !.pc = "kill", !.at = i])
  /\ UNCHANGED <<lists, flags, calls, history>>

DisconnectKills(t) ==
  /\ At(t, "disconnect", "kill")
  /\ mSlots' = [mSlots EXCEPT ![Top(t).at].active = FALSE]
  /\ mNeedsCleanup' = TRUE
  /\ Drop(Top(t).slot.id)
  /\ Release(t)
  /\ Return(t)
  /\ UNCHANGED <<mPendingConnects, mNextId, mRecursionDepth, calls>>

DisconnectParked(t) ==
  /\ At(t, "disconnect", "sharedLock")
  /\ CanShare
  /\ Top(t).slot.id \notin ActiveIds
  /\ ErasePending(Top(t).slot.id)
  /\ Return(t)
  /\ UNCHANGED <<mSlots, flags, shared, calls>>

DisconnectErases(t) ==
  /\ At(t, "disconnect", "exclusive")
  /\ Free
  /\ LET id == Top(t).slot.id IN
       IF id \in IdsOf(mSlots)
       THEN mSlots' = Without(mSlots, id) /\ Drop(id) /\ UNCHANGED mPendingConnects
       ELSE ErasePending(id) /\ UNCHANGED mSlots
  /\ Return(t)
  /\ UNCHANGED <<flags, shared, calls>>

DisconnectAllCall(t) ==
  /\ Call(t, Frame("disconnectAll", "depth", NoSlot))
  /\ UNCHANGED <<lists, flags, shared, history>>

(* The loop is one action: emissions read one slot at a time.              *)
DisconnectAllKills(t) ==
  /\ At(t, "disconnectAll", "sharedLock")
  /\ CanShare
  /\ mSlots' = [i \in DOMAIN mSlots |-> [mSlots[i] EXCEPT !.active = FALSE]]
  /\ mPendingConnects' = << >>
  /\ mNeedsCleanup' = TRUE
  /\ dropped' = dropped \cup IdsOf(mSlots) \cup ParkedIds
  /\ Return(t)
  /\ UNCHANGED <<mNextId, mRecursionDepth, shared, calls, known>>

DisconnectAllClears(t) ==
  /\ At(t, "disconnectAll", "exclusive")
  /\ Free
  /\ mSlots' = << >>
  /\ mPendingConnects' = << >>
  /\ dropped' = dropped \cup IdsOf(mSlots) \cup ParkedIds
  /\ Return(t)
  /\ UNCHANGED <<flags, shared, calls, known>>

-----------------------------------------------------------------------------
(* emit(), emitCollect(), emitUntil() *)

EmitCall(t) ==
  /\ Call(t, Frame("emit", "enter", NoSlot))
  /\ UNCHANGED <<lists, flags, shared, history>>

EmitEnter(t) ==
  /\ At(t, "emit", "enter")
  /\ Acquire(t)
  /\ mRecursionDepth' = mRecursionDepth + 1
  /\ GoTo(t, "scan")
  /\ UNCHANGED <<lists, mNextId, mNeedsCleanup, calls, history>>

Here(t) == mSlots[Top(t).at]
Scanning(t) == At(t, "emit", "scan") /\ Top(t).at <= Len(mSlots)

EmitSkips(t) ==
  /\ Scanning(t)
  /\ ~Here(t).active
  /\ SetTop(t, [Top(t) EXCEPT !.at = @ + 1])
  /\ UNCHANGED <<lists, flags, shared, calls, history>>

EmitChecks(t) ==
  /\ Scanning(t)
  /\ Here(t).active
  /\ GoTo(t, "invoke")
  /\ UNCHANGED <<lists, flags, shared, calls, history>>

EmitInvokes(t) ==
  /\ At(t, "emit", "invoke")
  /\ GoTo(t, "callback")
  /\ UNCHANGED <<lists, flags, shared, calls, history>>

(* The slot returns, or throws what the policy or emitCollect() swallows. *)
SlotReturns(t) ==
  /\ At(t, "emit", "callback")
  /\ SetTop(t, [Top(t) EXCEPT !.pc = "scan", !.at = @ + 1])
  /\ UNCHANGED <<lists, flags, shared, calls, history>>

SlotThrows(t) ==
  /\ propagates
  /\ At(t, "emit", "callback")
  /\ SetTop(t, [Top(t) EXCEPT !.pc = "leave", !.threw = TRUE])
  /\ UNCHANGED <<lists, flags, shared, calls, history>>

(* emitUntil() breaks out of its loop. *)
SlotAnswers(t) ==
  /\ At(t, "emit", "callback")
  /\ GoTo(t, "leave")
  /\ UNCHANGED <<lists, flags, shared, calls, history>>

EmitEnds(t) ==
  /\ At(t, "emit", "scan")
  /\ Top(t).at > Len(mSlots)
  /\ GoTo(t, "leave")
  /\ UNCHANGED <<lists, flags, shared, calls, history>>

(* depthGuard runs on every way out, and the lock is released after it. *)
EmitLeaves(t) ==
  /\ At(t, "emit", "leave")
  /\ mRecursionDepth' = mRecursionDepth - 1
  /\ SetTop(t, [Top(t) EXCEPT !.pc = "testFlag", !.outermost = mRecursionDepth = 1])
  /\ UNCHANGED <<lists, mNextId, mNeedsCleanup, shared, calls, history>>

(* An exception leaves emit() before it comes to its cleanup. *)
EmitTestsFlag(t) ==
  /\ At(t, "emit", "testFlag")
  /\ Release(t)
  /\ IF Top(t).outermost /\ mNeedsCleanup /\ ~Top(t).threw
     THEN GoTo(t, "cleanup")
     ELSE Return(t)
  /\ UNCHANGED <<lists, flags, calls, history>>

-----------------------------------------------------------------------------
Step(t) ==
  \/ SeeDepth(t) \/ Cleanup(t)
  \/ ConnectPark(t) \/ ConnectFlag(t) \/ ConnectDrains(t)
  \/ ConnectLeavesParked(t) \/ ConnectInsert(t)
  \/ (\E i \in Ids : DisconnectFinds(t, i)) \/ DisconnectKills(t)
  \/ DisconnectParked(t) \/ DisconnectErases(t)
  \/ DisconnectAllKills(t) \/ DisconnectAllClears(t)
  \/ EmitEnter(t) \/ EmitSkips(t) \/ EmitChecks(t) \/ EmitInvokes(t)
  \/ SlotReturns(t) \/ SlotThrows(t) \/ SlotAnswers(t)
  \/ EmitEnds(t) \/ EmitLeaves(t) \/ EmitTestsFlag(t)

Next ==
  /\ UNCHANGED propagates
  /\ \E t \in Threads :
    \/ \E priority \in Priorities : ConnectCall(t, priority)
    \/ \E id \in Ids : DisconnectCall(t, id)
    \/ DisconnectAllCall(t)
    \/ EmitCall(t)
    \/ Step(t)

Spec == Init /\ [][Next]_vars

(* Threads run and slots return. *)
FairSpec == Spec /\ \A t \in Threads : WF_vars(Step(t) /\ UNCHANGED propagates)

-----------------------------------------------------------------------------
TypeOK ==
  /\ propagates \in BOOLEAN
  /\ mSlots \in Seq(Slot) /\ mPendingConnects \in Seq(Slot)
  /\ mNextId \in 1 .. MaxSlots + 1
  /\ mRecursionDepth \in Nat
  /\ mNeedsCleanup \in BOOLEAN
  /\ shared \in [Threads -> Nat]
  /\ calls \in [Threads -> 0 .. MaxCalls]
  /\ \A t \in Threads : Len(stack[t]) <= calls[t]
  /\ known \subseteq Ids /\ dropped \subseteq Ids

(* Emissions in their loop, with the shared lock. *)
Emitting(t) == {k \in DOMAIN stack[t] : stack[t][k].op = "emit"
                  /\ stack[t][k].pc \in {"scan", "invoke", "callback", "leave"}}

(* mRecursionDepth counts the emissions in progress, on whatever way they   *)
(* end, and each of them holds the lock: a thread that has the lock to      *)
(* itself finds 0, so nothing else need be done there.                      *)
DepthCountsEmissions ==
  /\ mRecursionDepth = Cardinality({e \in Threads \X (1 .. MaxCalls) : e[2] \in Emitting(e[1])})
  /\ \A t \in Threads : Cardinality(Emitting(t)) <= shared[t]

(* The types, and the count of emissions that everybody decides on.         *)
DepthIsSound == TypeOK /\ DepthCountsEmissions

(* insertByPriority(): direct and parked connections keep the list sorted. *)
SlotsAreOrdered ==
  \A i, j \in DOMAIN mSlots : i < j => mSlots[i].priority >= mSlots[j].priority

(* A connection is in the list or parked, once, until it is disconnected,   *)
(* and then it is in neither: no race between a callback that connects, the *)
(* end of the emission and another thread loses or doubles it.              *)
EachSlotInOnePlace ==
  \A id \in known :
    Cardinality({i \in DOMAIN mSlots : mSlots[i].id = id /\ mSlots[i].active})
      + Cardinality({i \in DOMAIN mPendingConnects : mPendingConnects[i].id = id})
    = IF id \in dropped THEN 0 ELSE 1

(* No connection is lost, doubled or out of order.                          *)
SlotsAreKept == EachSlotInOnePlace /\ SlotsAreOrdered

(* The comment of mPendingConnects: nobody inserts into, erases from or     *)
(* sorts the list while an emission, of whatever thread, iterates it.       *)
ListFixedWhileEmitting ==
  [][(\E t \in Threads : Emitting(t) # {}) =>
       Len(mSlots') = Len(mSlots)
         /\ \A i \in DOMAIN mSlots : mSlots'[i].id = mSlots[i].id]_vars

(* emit()'s note: a disconnected slot is skipped for the rest of every      *)
(* emission that has not come to it.                                        *)
DisconnectedAreSkipped ==
  [][\A t \in Threads : EmitChecks(t) => Here(t).id \notin dropped]_vars

(* What an emission relies on while it calls slots without a lock of its own: *)
(* the list stands still, and who is disconnected is not called.            *)
EmissionsAreSafe == ListFixedWhileEmitting /\ DisconnectedAreSkipped

Quiet == \A t \in Threads : stack[t] = << >>

(* emit()'s note: a parked connection is activated when the outermost       *)
(* emission is over, unless it threw.                                       *)
ParkedAreActivated == Quiet /\ ~propagates => mPendingConnects = << >>

(* "Deadlock-free even when slots modify the signal": every call returns. *)
CallsReturn == \A t \in Threads : stack[t] # << >> ~> stack[t] = << >>

=============================================================================
