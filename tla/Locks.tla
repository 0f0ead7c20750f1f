------------------------------- MODULE Locks --------------------------------
(***************************************************************************)
(* include/fat_p/ConcurrencyPolicies.h: the exclusive locks that are not    *)
(* a standard mutex: SpinlockSynchronizationPolicy, TicketLockPolicy,       *)
(* MCSLockPolicy and AdaptiveLockPolicy.  A behaviour uses one of them,     *)
(* chosen in LocksInit.  One action per atomic access; memory is sequentially    *)
(* consistent.  Statistics (mContention of the spinlock) are left out.      *)
(***************************************************************************)
EXTENDS Integers, Sequences, FiniteSets

CONSTANTS
  Lockers,
  Policies,       \* the locks a behaviour may be about
  NoThread,       \* nullptr, and the owner of a free mutex
  Modulus,        \* ticket numbers wrap here (2^64 in the code)
  SPIN_THRESHOLD,
  ADAPT_WINDOW

ASSUME LocksAssumption == IsFiniteSet(Lockers) /\ NoThread \notin Lockers
ASSUME PoliciesAssumption == Policies \subseteq {"spin", "ticket", "mcs", "adaptive"}
ASSUME ModulusAssumption == Modulus \in Nat /\ Cardinality(Lockers) < Modulus
ASSUME AdaptAssumption == SPIN_THRESHOLD \in Nat /\ ADAPT_WINDOW \in Nat

VARIABLES
  policy,
  locking,            \* where each thread is in its guard; "in" inside it
  flag,          \* mLockFlag of the spinlock, mSpinLock of the adaptive lock
  mNextTicket, mNowServing,
  mine,          \* mMyTicket, or the ticket a try_lock() has loaded
  mTail, next, locked,
  prev,          \* the node an MCS guard found at the tail
  mMutex, mContentionCounter, mUseMutex,
  spins,
  arrived        \* history: who drew a ticket or a queue place, not yet done

ticketVars == <<mNextTicket, mNowServing, mine>>
mcsVars == <<mTail, next, locked, prev>>
adaptVars == <<mMutex, mContentionCounter, mUseMutex, spins>>
locksVars == <<policy, locking, flag, ticketVars, mcsVars, adaptVars, arrived>>

LockPlaces == {"idle", "wait", "in", "kept", "try", "try_cas", "link", "swap", "follow",
           "handover", "spin", "exhausted", "switch", "mutex", "flagged", "clear",
           "adapt", "reset"}

LocksInit ==
  /\ policy \in Policies
  /\ locking = [t \in Lockers |-> "idle"]
  /\ flag = FALSE
  /\ mNextTicket = 0 /\ mNowServing = 0
  /\ mine = [t \in Lockers |-> 0]
  /\ mTail = NoThread
  /\ next = [t \in Lockers |-> NoThread]
  /\ locked = [t \in Lockers |-> FALSE]
  /\ prev = [t \in Lockers |-> NoThread]
  /\ mMutex = NoThread /\ mContentionCounter = 0 /\ mUseMutex = FALSE
  /\ spins = [t \in Lockers |-> 0]
  /\ arrived = << >>

(* A guard exists: "kept" is a successful try_lock() of the ticket and the  *)
(* adaptive lock, which have no operation that gives the lock back.         *)
Inside(t) == locking[t] \in {"in", "kept"}
Trying(t) == locking[t] \notin {"idle", "in", "kept"}

Step(t, lock, from, to) ==
  /\ policy = lock
  /\ locking[t] \in from
  /\ locking' = [locking EXCEPT ![t] = to]
  /\ UNCHANGED policy

-----------------------------------------------------------------------------
(* SpinlockSynchronizationPolicy: test_and_set until it was clear. *)
SpinLock(t) ==
  /\ Step(t, "spin", {"idle", "wait"}, IF flag THEN "wait" ELSE "in")
  /\ flag' = TRUE
  /\ UNCHANGED <<ticketVars, mcsVars, adaptVars, arrived>>

(* try_lock() returns at once, with the lock or without. *)
SpinTryLock(t) ==
  /\ Step(t, "spin", {"idle"}, IF flag THEN "idle" ELSE "in")
  /\ flag' = TRUE
  /\ UNCHANGED <<ticketVars, mcsVars, adaptVars, arrived>>

SpinUnlock(t) ==
  /\ Step(t, "spin", {"in"}, "idle")
  /\ flag' = FALSE
  /\ UNCHANGED <<ticketVars, mcsVars, adaptVars, arrived>>

-----------------------------------------------------------------------------
(* TicketLockPolicy.  Bound: a try_lock() between its loads and its compare *)
(* and exchange is not overtaken by Modulus tickets.                        *)
NotLapped ==
  \A u \in Lockers : locking[u] \in {"try", "try_cas"} => (mNextTicket + 1) % Modulus # mine[u]

TicketDraw(t) ==
  /\ NotLapped
  /\ mNextTicket' = (mNextTicket + 1) % Modulus
  /\ arrived' = Append(arrived, t)

TicketLock(t) ==
  /\ Step(t, "ticket", {"idle"}, "wait")
  /\ TicketDraw(t)
  /\ mine' = [mine EXCEPT ![t] = mNextTicket]
  /\ UNCHANGED <<flag, mNowServing, mcsVars, adaptVars>>

TicketWait(t) ==
  /\ Step(t, "ticket", {"wait"}, "in")
  /\ mNowServing = mine[t]
  /\ UNCHANGED <<flag, ticketVars, mcsVars, adaptVars, arrived>>

TicketUnlock(t) ==
  /\ Step(t, "ticket", {"in"}, "idle")
  /\ mNowServing' = (mNowServing + 1) % Modulus
  /\ arrived' = Tail(arrived)
  /\ UNCHANGED <<flag, mNextTicket, mine, mcsVars, adaptVars>>

(* try_lock(): load mNowServing, load mNextTicket, compare and exchange. *)
TicketTryLock(t) ==
  /\ Step(t, "ticket", {"idle"}, "try")
  /\ mine' = [mine EXCEPT ![t] = mNowServing]
  /\ UNCHANGED <<flag, mNextTicket, mNowServing, mcsVars, adaptVars, arrived>>

TicketTryCompare(t) ==
  /\ Step(t, "ticket", {"try"}, IF mine[t] = mNextTicket THEN "try_cas" ELSE "idle")
  /\ UNCHANGED <<flag, ticketVars, mcsVars, adaptVars, arrived>>

TicketTryWins(t) ==
  /\ Step(t, "ticket", {"try_cas"}, "kept")
  /\ mNextTicket = mine[t]
  /\ TicketDraw(t)
  /\ UNCHANGED <<flag, mNowServing, mine, mcsVars, adaptVars>>

TicketTryFails(t) ==
  /\ Step(t, "ticket", {"try_cas"}, "idle")
  /\ mNextTicket # mine[t]
  /\ UNCHANGED <<flag, ticketVars, mcsVars, adaptVars, arrived>>

-----------------------------------------------------------------------------
(* MCSLockPolicy.  The node of a guard is named by its thread.              *)
McsLock(t) ==
  /\ Step(t, "mcs", {"idle"}, IF mTail = NoThread THEN "in" ELSE "link")
  /\ next' = [next EXCEPT ![t] = NoThread]
  /\ locked' = [locked EXCEPT ![t] = TRUE]
  /\ prev' = [prev EXCEPT ![t] = mTail]
  /\ mTail' = t
  /\ arrived' = Append(arrived, t)
  /\ UNCHANGED <<flag, ticketVars, adaptVars>>

McsLink(t) ==
  /\ Step(t, "mcs", {"link"}, "wait")
  /\ next' = [next EXCEPT ![prev[t]] = t]
  /\ UNCHANGED <<flag, ticketVars, mTail, locked, prev, adaptVars, arrived>>

McsWait(t) ==
  /\ Step(t, "mcs", {"wait"}, "in")
  /\ ~locked[t]
  /\ UNCHANGED <<flag, ticketVars, mcsVars, adaptVars, arrived>>

McsUnlock(t) ==
  /\ Step(t, "mcs", {"in"}, IF next[t] = NoThread THEN "swap" ELSE "handover")
  /\ UNCHANGED <<flag, ticketVars, mcsVars, adaptVars, arrived>>

(* Nobody has come: the compare and exchange empties the queue.             *)
McsSwapWins(t) ==
  /\ Step(t, "mcs", {"swap"}, "idle")
  /\ mTail = t
  /\ mTail' = NoThread
  /\ arrived' = Tail(arrived)
  /\ UNCHANGED <<flag, ticketVars, next, locked, prev, adaptVars>>

(* Fault: the guard ends although a thread has taken its place behind it. *)
Fault_LeaveUnlinked(t) ==
  /\ Step(t, "mcs", {"swap"}, "idle")
  /\ mTail # t
  /\ UNCHANGED <<flag, ticketVars, mcsVars, adaptVars, arrived>>

McsSwapFails(t) ==
  /\ Step(t, "mcs", {"swap"}, "follow")
  /\ mTail # t
  /\ UNCHANGED <<flag, ticketVars, mcsVars, adaptVars, arrived>>

McsFollow(t) ==
  /\ Step(t, "mcs", {"follow"}, "handover")
  /\ next[t] # NoThread
  /\ UNCHANGED <<flag, ticketVars, mcsVars, adaptVars, arrived>>

McsHandOver(t) ==
  /\ Step(t, "mcs", {"handover"}, "idle")
  /\ locked' = [locked EXCEPT ![next[t]] = FALSE]
  /\ arrived' = Tail(arrived)
  /\ UNCHANGED <<flag, ticketVars, mTail, next, prev, adaptVars>>

-----------------------------------------------------------------------------
(* AdaptiveLockPolicy: a few spins on a flag, then mMutex in every case.    *)
AdaptLock(t) ==
  /\ Step(t, "adaptive", {"idle"}, IF mUseMutex THEN "mutex" ELSE "spin")
  /\ spins' = [spins EXCEPT ![t] = 0]
  /\ UNCHANGED <<flag, ticketVars, mcsVars, mMutex, mContentionCounter, mUseMutex, arrived>>

AdaptSpinWins(t) ==
  /\ Step(t, "adaptive", {"spin"}, "flagged")
  /\ ~flag
  /\ flag' = TRUE
  /\ UNCHANGED <<ticketVars, mcsVars, adaptVars, arrived>>

(* Fault: the spinning has no limit. *)
Fault_SpinOn(t) ==
  /\ Step(t, "adaptive", {"spin"}, "spin")
  /\ flag
  /\ spins' = [spins EXCEPT ![t] = @ + 1]
  /\ UNCHANGED <<flag, ticketVars, mcsVars, mMutex, mContentionCounter, mUseMutex, arrived>>

AdaptSpinFails(t) ==
  /\ Step(t, "adaptive", {"spin"}, IF spins[t] >= SPIN_THRESHOLD THEN "exhausted" ELSE "spin")
  /\ flag
  /\ spins' = [spins EXCEPT ![t] = @ + 1]
  /\ UNCHANGED <<flag, ticketVars, mcsVars, mMutex, mContentionCounter, mUseMutex, arrived>>

AdaptCount(t) ==
  /\ Step(t, "adaptive", {"exhausted"},
          IF mContentionCounter > ADAPT_WINDOW \div 10 THEN "switch" ELSE "mutex")
  /\ mContentionCounter' = mContentionCounter + 1
  /\ UNCHANGED <<flag, ticketVars, mcsVars, mMutex, mUseMutex, spins, arrived>>

AdaptSwitch(t) ==
  /\ Step(t, "adaptive", {"switch"}, "mutex")
  /\ mUseMutex' = TRUE
  /\ UNCHANGED <<flag, ticketVars, mcsVars, mMutex, mContentionCounter, spins, arrived>>

AdaptMutexLock(t) ==
  /\ Step(t, "adaptive", {"mutex"}, "in")
  /\ mMutex = NoThread
  /\ mMutex' = t
  /\ UNCHANGED <<flag, ticketVars, mcsVars, mContentionCounter, mUseMutex, spins, arrived>>

(* Fault: the flag is taken for the lock. *)
Fault_FlagIsEnough(t) ==
  /\ Step(t, "adaptive", {"flagged"}, "clear")
  /\ mMutex' = t
  /\ UNCHANGED <<flag, ticketVars, mcsVars, mContentionCounter, mUseMutex, spins, arrived>>

AdaptFlaggedLock(t) ==
  /\ Step(t, "adaptive", {"flagged"}, "clear")
  /\ mMutex = NoThread
  /\ mMutex' = t
  /\ UNCHANGED <<flag, ticketVars, mcsVars, mContentionCounter, mUseMutex, spins, arrived>>

AdaptClear(t) ==
  /\ Step(t, "adaptive", {"clear"}, "adapt")
  /\ flag' = FALSE
  /\ UNCHANGED <<ticketVars, mcsVars, adaptVars, arrived>>

(* The back-off: past the window the counter starts again, and the spin     *)
(* path is allowed again if the counter is less than a tenth past it.       *)
AdaptBackOff(t) ==
  /\ Step(t, "adaptive", {"adapt"}, IF mContentionCounter > ADAPT_WINDOW THEN "reset" ELSE "in")
  /\ mUseMutex' = (mUseMutex /\ ~(mContentionCounter > ADAPT_WINDOW
                                  /\ mContentionCounter < ADAPT_WINDOW + ADAPT_WINDOW \div 10))
  /\ UNCHANGED <<flag, ticketVars, mcsVars, mMutex, mContentionCounter, spins, arrived>>

AdaptReset(t) ==
  /\ Step(t, "adaptive", {"reset"}, "in")
  /\ mContentionCounter' = 0
  /\ UNCHANGED <<flag, ticketVars, mcsVars, mMutex, mUseMutex, spins, arrived>>

AdaptUnlock(t) ==
  /\ Step(t, "adaptive", {"in"}, "idle")
  /\ mMutex' = NoThread
  /\ UNCHANGED <<flag, ticketVars, mcsVars, mContentionCounter, mUseMutex, spins, arrived>>

AdaptTryLock(t) ==
  /\ Step(t, "adaptive", {"idle"}, "kept")
  /\ mMutex = NoThread
  /\ mMutex' = t
  /\ UNCHANGED <<flag, ticketVars, mcsVars, mContentionCounter, mUseMutex, spins, arrived>>

-----------------------------------------------------------------------------
(* What a thread does of itself once it has called; Call is up to the user. *)
Run(t) ==
  \/ locking[t] # "idle" /\ SpinLock(t)
  \/ SpinUnlock(t)
  \/ TicketWait(t) \/ TicketUnlock(t)
  \/ TicketTryCompare(t) \/ TicketTryWins(t) \/ TicketTryFails(t)
  \/ McsLink(t) \/ McsWait(t) \/ McsUnlock(t) \/ McsSwapWins(t) \/ McsSwapFails(t)
  \/ McsFollow(t) \/ McsHandOver(t)
  \/ AdaptSpinWins(t) \/ AdaptSpinFails(t) \/ AdaptCount(t) \/ AdaptSwitch(t)
  \/ AdaptMutexLock(t) \/ AdaptFlaggedLock(t) \/ AdaptClear(t) \/ AdaptBackOff(t)
  \/ AdaptReset(t) \/ AdaptUnlock(t)

Call(t) ==
  \/ locking[t] = "idle" /\ SpinLock(t)
  \/ SpinTryLock(t)
  \/ TicketLock(t) \/ TicketTryLock(t)
  \/ McsLock(t)
  \/ AdaptLock(t) \/ AdaptTryLock(t)

LocksNext == \E t \in Lockers : Run(t) \/ Call(t)

LocksSpec == LocksInit /\ [][LocksNext]_locksVars

(* The scheduler runs every thread, and critical sections end. *)
LocksFairness == \A t \in Lockers : WF_locksVars(Run(t))

-----------------------------------------------------------------------------
LocksTypeOK ==
  /\ policy \in Policies
  /\ locking \in [Lockers -> LockPlaces]
  /\ flag \in BOOLEAN /\ mUseMutex \in BOOLEAN
  /\ mNextTicket \in 0 .. Modulus - 1 /\ mNowServing \in 0 .. Modulus - 1
  /\ mine \in [Lockers -> 0 .. Modulus - 1]
  /\ mTail \in Lockers \cup {NoThread} /\ mMutex \in Lockers \cup {NoThread}
  /\ next \in [Lockers -> Lockers \cup {NoThread}]
  /\ prev \in [Lockers -> Lockers \cup {NoThread}]
  /\ locked \in [Lockers -> BOOLEAN]
  /\ mContentionCounter \in Nat
  /\ spins \in [Lockers -> 0 .. SPIN_THRESHOLD + 1]
  /\ arrived \in Seq(Lockers)

(* No two threads are inside a guard of the same lock, however lock() and   *)
(* try_lock(), the spinning and the mutex path of the adaptive lock, and    *)
(* the wrap of the ticket numbers interleave.                               *)
MutualExclusion == \A t, u \in Lockers : Inside(t) /\ Inside(u) => t = u

(* The ticket and the MCS lock serve threads in the order in which they     *)
(* arrived: "FIFO ordering guaranteed" (is_fair_policy_v).                  *)
FifoOrder ==
  policy \in {"ticket", "mcs"} =>
    \A t \in Lockers : Inside(t) => arrived # << >> /\ Head(arrived) = t

(* The node of an MCS guard dies with the guard.  A thread that is about to *)
(* link itself finds the guard it follows alive, still without a successor; *)
(* one that is about to hand over finds its successor waiting.              *)
NodesOutliveTheirUse ==
  \A t \in Lockers :
    /\ locking[t] = "link" => locking[prev[t]] # "idle" /\ next[prev[t]] = NoThread
    /\ locking[t] = "handover" => locking[next[t]] = "wait" /\ locked[next[t]]

(* A thread that waits for a ticket or in the MCS queue gets the lock,      *)
(* unless a successful try_lock() has taken the ticket lock for good.       *)
FairEntry ==
  \A t \in Lockers :
    policy \in {"ticket", "mcs"} /\ locking[t] \in {"wait", "link"}
      ~> Inside(t) \/ \E u \in Lockers : locking[u] = "kept"

(* The spinlock and the adaptive lock are never lost: while a thread tries, *)
(* some thread is or will be inside.                                        *)
SomeoneEnters ==
  policy \in {"spin", "adaptive"} /\ (\E t \in Lockers : Trying(t))
    ~> \E t \in Lockers : Inside(t)

(* A lock is held by one thread at a time, in the order it promises, and    *)
(* touches no node of a guard that is gone.                                 *)
LocksAreSafe == MutualExclusion /\ FifoOrder /\ NodesOutliveTheirUse

(* No thread is left behind by a fair lock, and no unfair lock is lost.     *)
LocksProgress == FairEntry /\ SomeoneEnters
=============================================================================
