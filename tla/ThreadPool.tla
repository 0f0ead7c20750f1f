----------------------------- MODULE ThreadPool -----------------------------
(***************************************************************************)
(* include/fat_p/ThreadPool.h: workers that take tasks from one global      *)
(* priority queue and from a deque each, two atomic counters that account   *)
(* for the tasks, and two condition variables.  One action per lock         *)
(* region or atomic access that another thread can see in between.  The     *)
(* deques' own mutexes only cover single operations and are not shown.      *)
(***************************************************************************)
EXTENDS Integers, Sequences, FiniteSets

CONSTANTS
  Clients,      \* threads outside the pool
  NumThreads,   \* mNumThreads
  Tasks,        \* the tasks that may be submitted, each at most once
  PriorityOf,   \* PriorityOf[t]: the Priority t is submitted with
  Spawns,       \* Spawns[t]: the tasks the body of t may submit
  Batches,      \* the vectors clients may pass to submit_batch()
  AllocFails,   \* tasks whose push into a queue may throw
  MayWait,      \* clients that may call wait_idle()
  MayShutdown,  \* clients that may call shutdown()
  None          \* not a thread and not a task

Low == 0
Normal == 1
High == 2
Critical == 3

Workers == 0 .. NumThreads - 1
Threads == Clients \cup Workers
BatchTasks == UNION {{b[i] : i \in DOMAIN b} : b \in Batches}
ClientTasks == Tasks \ (BatchTasks \cup UNION {Spawns[t] : t \in Tasks})

ASSUME NumThreadsAssumption == NumThreads \in Nat \ {0}
ASSUME ThreadsAssumption == Clients \cap Workers = {} /\ None \notin Threads
ASSUME ClientsAssumption == MayWait \subseteq Clients /\ MayShutdown \subseteq Clients
ASSUME TasksAssumption ==
  /\ IsFiniteSet(Tasks) /\ None \notin Tasks /\ AllocFails \subseteq Tasks
  /\ PriorityOf \in [Tasks -> Low .. Critical]
  /\ Spawns \in [Tasks -> SUBSET Tasks]
  /\ Batches \subseteq Seq(Tasks) \ {<< >>}
  /\ \A t \in BatchTasks : PriorityOf[t] = Normal

(* A task stands for one call's callable: no two places of the batches and  *)
(* bodies name the same one.                                                *)
ASSUME BatchesAssumption ==
  /\ \A b \in Batches : \A i, j \in DOMAIN b : b[i] = b[j] => i = j
  /\ \A a, b \in Batches :
       (\E i \in DOMAIN a : \E j \in DOMAIN b : a[i] = b[j]) => a = b
  /\ \A t \in Tasks : Spawns[t] \cap BatchTasks = {}

VARIABLES
  mStop, mPendingTasks, mActiveTasks, mNextQueue,
  mGlobalQueue,      \* the set of tasks in the global priority queue
  mWorkerQueues,     \* mWorkerQueues[w]: w's deque, front first
  mSubmissionMutex, mGlobalMutex, mIdle_mutex, mShutdownMutex,  \* their owners
  pc,                \* where each thread is in its loop or call
  call,              \* where each thread is in submit() or submit_batch()
  arg,               \* the tasks that call has still to push
  task,              \* task[w]: the task w holds
  mId,               \* mId[t]: ThreadPoolTask::mId, 0 before construction
  admitted,          \* history: tasks past the shutdown cutoff
  finished,          \* history: tasks that have run
  owed,              \* history: tasks admitted, not finished, at wait_idle()
  sawIdle            \* history: wait_idle() calls during which all was done

counters == <<mStop, mPendingTasks, mActiveTasks, mNextQueue>>
queues == <<mGlobalQueue, mWorkerQueues>>
locks == <<mSubmissionMutex, mGlobalMutex, mIdle_mutex, mShutdownMutex>>
threads == <<pc, call, arg, task>>
history == <<admitted, finished, owed, sawIdle>>
vars == <<counters, queues, locks, threads, mId, history>>

Init ==
  /\ mStop = FALSE
  /\ mPendingTasks = 0
  /\ mActiveTasks = 0
  /\ mNextQueue = 0
  /\ mGlobalQueue = {}
  /\ mWorkerQueues = [w \in Workers |-> << >>]
  /\ mSubmissionMutex = None
  /\ mGlobalMutex = None
  /\ mIdle_mutex = None
  /\ mShutdownMutex = None
  /\ pc = [t \in Threads |-> IF t \in Workers THEN "popGlobal" ELSE "idle"]
  /\ call = [t \in Threads |-> "none"]
  /\ arg = [t \in Threads |-> << >>]
  /\ task = [w \in Workers |-> None]
  /\ mId = [t \in Tasks |-> 0]
  /\ admitted = {}
  /\ finished = {}
  /\ owed = [c \in Clients |-> {}]
  /\ sawIdle = {}

-----------------------------------------------------------------------------
GoTo(t, label) == pc' = [pc EXCEPT ![t] = label]
CallTo(t, label) == call' = [call EXCEPT ![t] = label]
EndCall(s) == CallTo(s, "none") /\ arg' = [arg EXCEPT ![s] = << >>]

Asleep == {w \in Workers : pc[w] = "asleep"}
IdleWaiters == {c \in Clients : pc[c] = "waiting"}

(* Notified threads have to get the mutex back before they look again. *)
Wake(ws, label) == pc' = [t \in Threads |-> IF t \in ws THEN label ELSE pc[t]]

NotifyOneWorker ==
  \/ Asleep = {} /\ UNCHANGED pc
  \/ \E w \in Asleep : Wake({w}, "idling")

NextId == 1 + Cardinality({t \in Tasks : mId[t] # 0})

(* priority_queue::top() under ThreadPoolTask::operator<. *)
Above(t, u) ==
  \/ PriorityOf[t] > PriorityOf[u]
  \/ PriorityOf[t] = PriorityOf[u] /\ mId[t] < mId[u]
Top == CHOOSE t \in mGlobalQueue : \A u \in mGlobalQueue \ {t} : Above(t, u)

InWaitIdle(c) == pc[c] \in {"waitPending", "waitActive", "waiting", "woken"}

(* Once the pool has done all it accepted, running wait_idle() calls saw it. *)
Witness(accepted, done) ==
  sawIdle' = IF accepted \subseteq done
             THEN sawIdle \cup {c \in Clients : InWaitIdle(c)}
             ELSE sawIdle

-----------------------------------------------------------------------------
(* Faults: each is an action of this module with one plausible mistake.     *)
(* They are never part of Next.                                             *)

(* The handler leaves the rejected task counted. *)
Fault_NoRollback(s) ==
  /\ call[s] = "push"
  /\ Head(arg[s]) \in AllocFails
  /\ admitted' = admitted \ {Head(arg[s])}
  /\ CallTo(s, "abort")
  /\ UNCHANGED <<counters, queues, locks, pc, arg, task, mId, finished, owed, sawIdle>>

(* The handler does not wake the threads in wait_idle(). *)
Fault_AbortSilently(s) ==
  /\ call[s] = "abort"
  /\ mSubmissionMutex' = None
  /\ EndCall(s)
  /\ UNCHANGED <<counters, queues, mGlobalMutex, mIdle_mutex, mShutdownMutex, pc,
                 task, mId, history>>

(* The thief reads the front of the deque and does not remove it. *)
Fault_StealLeaves(w, victim) ==
  /\ pc[w] = "steal"
  /\ victim # w
  /\ mWorkerQueues[victim] # << >>
  /\ task' = [task EXCEPT ![w] = Head(mWorkerQueues[victim])]
  /\ GoTo(w, "taken")
  /\ UNCHANGED <<counters, queues, locks, call, arg, mId, history>>

(* A stopped worker leaves as soon as its scan found nothing. *)
Fault_ExitOnStop(w) ==
  /\ pc[w] = "noWork"
  /\ mStop
  /\ GoTo(w, "exited")
  /\ UNCHANGED <<counters, queues, locks, call, arg, task, mId, history>>

(* The wait has no timeout. *)
Fault_WaitForever(w) ==
  /\ pc[w] = "asleep" /\ FALSE
  /\ UNCHANGED vars

(* wait_idle() only looks at the pending tasks. *)
Fault_IgnoreActive(c) ==
  /\ pc[c] = "waitActive"
  /\ mIdle_mutex' = None
  /\ owed' = [owed EXCEPT ![c] = {}]
  /\ sawIdle' = sawIdle \ {c}
  /\ GoTo(c, "idle")
  /\ UNCHANGED <<counters, queues, mSubmissionMutex, mGlobalMutex, mShutdownMutex,
                 call, arg, task, mId, admitted, finished>>

-----------------------------------------------------------------------------
(* submit_priority(), enqueue_task() *)

MaySubmit(s, t) ==
  /\ call[s] = "none"
  /\ \/ s \in Clients /\ pc[s] = "idle" /\ t \in ClientTasks
     \/ s \in Workers /\ pc[s] = "running" /\ t \in Spawns[task[s]]

SubmitCall(s, t) ==
  /\ MaySubmit(s, t)
  /\ mId[t] = 0
  /\ mId' = [mId EXCEPT ![t] = NextId]
  /\ arg' = [arg EXCEPT ![s] = <<t>>]
  /\ CallTo(s, "admit")
  /\ UNCHANGED <<counters, queues, locks, pc, task, history>>

(* reject_shutdown() throws, in enqueue_task() and in submit_batch(). *)
SubmitRejected(s) ==
  /\ call[s] \in {"admit", "batchAdmit"}
  /\ mSubmissionMutex = None
  /\ mStop
  /\ EndCall(s)
  /\ UNCHANGED <<counters, queues, locks, pc, task, mId, history>>

SubmitAdmit(s) ==
  /\ call[s] = "admit"
  /\ mSubmissionMutex = None
  /\ ~mStop
  /\ mSubmissionMutex' = s
  /\ mPendingTasks' = mPendingTasks + 1
  /\ admitted' = admitted \cup {Head(arg[s])}
  /\ CallTo(s, "push")
  /\ UNCHANGED <<mStop, mActiveTasks, mNextQueue, queues, mGlobalMutex, mIdle_mutex,
                 mShutdownMutex, pc, arg, task, mId, finished, owed, sawIdle>>

SubmitPushGlobal(s) ==
  /\ call[s] = "push"
  /\ PriorityOf[Head(arg[s])] >= High
  /\ mGlobalMutex = None
  /\ mGlobalQueue' = mGlobalQueue \cup {Head(arg[s])}
  /\ CallTo(s, "notify")
  /\ UNCHANGED <<counters, mWorkerQueues, locks, pc, arg, task, mId, history>>

SubmitPushLocal(s) ==
  /\ call[s] = "push"
  /\ PriorityOf[Head(arg[s])] < High
  /\ mNextQueue' = mNextQueue + 1
  /\ mWorkerQueues' =
       [mWorkerQueues EXCEPT ![mNextQueue % NumThreads] = Append(@, Head(arg[s]))]
  /\ CallTo(s, "notify")
  /\ UNCHANGED <<mStop, mPendingTasks, mActiveTasks, mGlobalQueue, locks, pc, arg,
                 task, mId, history>>

SubmitPushThrows(s) ==
  /\ call[s] = "push"
  /\ Head(arg[s]) \in AllocFails
  /\ PriorityOf[Head(arg[s])] >= High => mGlobalMutex = None
  /\ mNextQueue' = IF PriorityOf[Head(arg[s])] < High THEN mNextQueue + 1 ELSE mNextQueue
  /\ mPendingTasks' = mPendingTasks - 1
  /\ admitted' = admitted \ {Head(arg[s])}
  /\ Witness(admitted', finished)
  /\ CallTo(s, "abort")
  /\ UNCHANGED <<mStop, mActiveTasks, queues, locks, pc, arg, task, mId, finished, owed>>

(* The handler wakes wait_idle() and rethrows; the guards unlock. *)
SubmitAbort(s) ==
  /\ call[s] = "abort"
  /\ mIdle_mutex = None
  /\ Wake(IdleWaiters, "woken")
  /\ mSubmissionMutex' = None
  /\ EndCall(s)
  /\ UNCHANGED <<counters, queues, mGlobalMutex, mIdle_mutex, mShutdownMutex,
                 task, mId, history>>

SubmitNotify(s) ==
  /\ call[s] = "notify"
  /\ NotifyOneWorker
  /\ mSubmissionMutex' = None
  /\ EndCall(s)
  /\ UNCHANGED <<counters, queues, mGlobalMutex, mIdle_mutex, mShutdownMutex,
                 task, mId, history>>

-----------------------------------------------------------------------------
(* submit_batch() *)

BatchCall(c, batch) ==
  /\ call[c] = "none"
  /\ pc[c] = "idle"
  /\ \A i \in DOMAIN batch : mId[batch[i]] = 0
  /\ \A s \in Threads : arg[s] # batch
  /\ arg' = [arg EXCEPT ![c] = batch]
  /\ CallTo(c, "batchAdmit")
  /\ UNCHANGED <<counters, queues, locks, pc, task, mId, history>>

BatchAdmit(c) ==
  /\ call[c] = "batchAdmit"
  /\ mSubmissionMutex = None
  /\ ~mStop
  /\ mSubmissionMutex' = c
  /\ CallTo(c, "batchLock")
  /\ UNCHANGED <<counters, queues, mGlobalMutex, mIdle_mutex, mShutdownMutex, pc,
                 arg, task, mId, history>>

BatchLock(c) ==
  /\ call[c] = "batchLock"
  /\ mGlobalMutex = None
  /\ mGlobalMutex' = c
  /\ CallTo(c, "batchPush")
  /\ UNCHANGED <<counters, queues, mSubmissionMutex, mIdle_mutex, mShutdownMutex, pc,
                 arg, task, mId, history>>

BatchPush(c) ==
  /\ call[c] = "batchPush"
  /\ arg[c] # << >>
  /\ LET t == Head(arg[c]) IN
       /\ mId' = [mId EXCEPT ![t] = NextId]
       /\ mGlobalQueue' = mGlobalQueue \cup {t}
       /\ admitted' = admitted \cup {t}
  /\ mPendingTasks' = mPendingTasks + 1
  /\ arg' = [arg EXCEPT ![c] = Tail(@)]
  /\ UNCHANGED <<mStop, mActiveTasks, mNextQueue, mWorkerQueues, locks, pc, call,
                 task, finished, owed, sawIdle>>

(* The lock on the queue ends with the loop, or with its exception, which   *)
(* leaves the tasks before it in the queue.                                 *)
BatchUnlock(c) ==
  /\ call[c] = "batchPush"
  /\ arg[c] # << >> => Head(arg[c]) \in AllocFails
  /\ mGlobalMutex' = None
  /\ CallTo(c, "batchNotify")
  /\ UNCHANGED <<counters, queues, mSubmissionMutex, mIdle_mutex, mShutdownMutex, pc,
                 arg, task, mId, history>>

BatchNotify(c) ==
  /\ call[c] = "batchNotify"
  /\ Wake(Asleep, "idling")
  /\ mSubmissionMutex' = None
  /\ EndCall(c)
  /\ UNCHANGED <<counters, queues, mGlobalMutex, mIdle_mutex, mShutdownMutex,
                 task, mId, history>>

SubmitStep(s) ==
  \/ SubmitRejected(s) \/ SubmitAdmit(s)
  \/ SubmitPushGlobal(s) \/ SubmitPushLocal(s) \/ SubmitPushThrows(s)
  \/ SubmitAbort(s) \/ SubmitNotify(s)

BatchStep(c) ==
  \/ BatchAdmit(c) \/ BatchLock(c) \/ BatchPush(c) \/ BatchUnlock(c) \/ BatchNotify(c)

-----------------------------------------------------------------------------
(* worker_thread() *)

Holds(w, t, label) ==
  /\ task' = [task EXCEPT ![w] = t]
  /\ GoTo(w, label)

PopGlobal(w) ==
  /\ pc[w] = "popGlobal"
  /\ mGlobalMutex = None
  /\ mGlobalQueue # {}
  /\ mGlobalQueue' = mGlobalQueue \ {Top}
  /\ Holds(w, Top, "taken")
  /\ UNCHANGED <<counters, mWorkerQueues, locks, call, arg, mId, history>>

GlobalEmpty(w) ==
  /\ pc[w] = "popGlobal"
  /\ mGlobalMutex = None
  /\ mGlobalQueue = {}
  /\ GoTo(w, "popLocal")
  /\ UNCHANGED <<counters, queues, locks, call, arg, task, mId, history>>

PopLocal(w) ==
  /\ pc[w] = "popLocal"
  /\ mWorkerQueues[w] # << >>
  /\ LET q == mWorkerQueues[w] IN
       /\ mWorkerQueues' = [mWorkerQueues EXCEPT ![w] = SubSeq(q, 1, Len(q) - 1)]
       /\ Holds(w, q[Len(q)], "taken")
  /\ UNCHANGED <<counters, mGlobalQueue, locks, call, arg, mId, history>>

LocalEmpty(w) ==
  /\ pc[w] = "popLocal"
  /\ mWorkerQueues[w] = << >>
  /\ GoTo(w, "steal")
  /\ UNCHANGED <<counters, queues, locks, call, arg, task, mId, history>>

Steal(w, victim) ==
  /\ pc[w] = "steal"
  /\ victim # w
  /\ mWorkerQueues[victim] # << >>
  /\ mWorkerQueues' = [mWorkerQueues EXCEPT ![victim] = Tail(@)]
  /\ Holds(w, Head(mWorkerQueues[victim]), "taken")
  /\ UNCHANGED <<counters, mGlobalQueue, locks, call, arg, mId, history>>

(* The victims are visited one by one, and try_to_lock gives up on a deque  *)
(* in use: each may have been empty or locked when its turn came.           *)
StealNothing(w) ==
  /\ pc[w] = "steal"
  /\ GoTo(w, "noWork")
  /\ UNCHANGED <<counters, queues, locks, call, arg, task, mId, history>>

CountActive(w) ==
  /\ pc[w] = "taken"
  /\ mActiveTasks' = mActiveTasks + 1
  /\ GoTo(w, "active")
  /\ UNCHANGED <<mStop, mPendingTasks, mNextQueue, queues, locks, call, arg, task,
                 mId, history>>

UncountPending(w) ==
  /\ pc[w] = "active"
  /\ mPendingTasks' = mPendingTasks - 1
  /\ GoTo(w, "running")
  /\ UNCHANGED <<mStop, mActiveTasks, mNextQueue, queues, locks, call, arg, task,
                 mId, history>>

(* The body ends, by returning or by throwing. *)
FinishTask(w) ==
  /\ pc[w] = "running"
  /\ call[w] = "none"
  /\ mActiveTasks' = mActiveTasks - 1
  /\ finished' = finished \cup {task[w]}
  /\ Witness(admitted, finished')
  /\ Holds(w, None, "checkPending")
  /\ UNCHANGED <<mStop, mPendingTasks, mNextQueue, queues, locks, call, arg, mId,
                 admitted, owed>>

SeePending(w) ==
  /\ pc[w] = "checkPending"
  /\ GoTo(w, IF mPendingTasks = 0 THEN "checkActive" ELSE "popGlobal")
  /\ UNCHANGED <<counters, queues, locks, call, arg, task, mId, history>>

SeeActive(w) ==
  /\ pc[w] = "checkActive"
  /\ GoTo(w, IF mActiveTasks = 0 THEN "notifyIdle" ELSE "popGlobal")
  /\ UNCHANGED <<counters, queues, locks, call, arg, task, mId, history>>

NotifyIdle(w) ==
  /\ pc[w] = "notifyIdle"
  /\ mIdle_mutex = None
  /\ pc' = [t \in Threads |-> CASE t = w -> "popGlobal"
                               [] t \in IdleWaiters -> "woken"
                               [] OTHER -> pc[t]]
  /\ UNCHANGED <<counters, queues, locks, call, arg, task, mId, history>>

(* After mStop: scan again until nothing is pending, then leave the loop. *)
Drain(w) ==
  /\ pc[w] = "noWork"
  /\ mStop
  /\ mPendingTasks # 0
  /\ GoTo(w, "popGlobal")
  /\ UNCHANGED <<counters, queues, locks, call, arg, task, mId, history>>

Exit(w) ==
  /\ pc[w] = "noWork"
  /\ mStop
  /\ mPendingTasks = 0
  /\ GoTo(w, "exited")
  /\ UNCHANGED <<counters, queues, locks, call, arg, task, mId, history>>

Idle(w) ==
  /\ pc[w] = "noWork"
  /\ ~mStop
  /\ GoTo(w, "idling")
  /\ UNCHANGED <<counters, queues, locks, call, arg, task, mId, history>>

(* The spin loop, or the wait's predicate, finds a reason to scan again. *)
Recheck(w) ==
  /\ pc[w] = "idling"
  /\ mStop \/ mPendingTasks > 0
  /\ GoTo(w, "popGlobal")
  /\ UNCHANGED <<counters, queues, locks, call, arg, task, mId, history>>

(* wait_for(): the predicate reads mStop and then mPendingTasks under the   *)
(* mutex, which the notifiers do not hold.                                  *)
PredicateStop(w) ==
  /\ pc[w] = "idling"
  /\ mGlobalMutex = None
  /\ ~mStop
  /\ mGlobalMutex' = w
  /\ GoTo(w, "predicate")
  /\ UNCHANGED <<counters, queues, mSubmissionMutex, mIdle_mutex, mShutdownMutex,
                 call, arg, task, mId, history>>

PredicateTrue(w) ==
  /\ pc[w] = "predicate"
  /\ mPendingTasks > 0
  /\ mGlobalMutex' = None
  /\ GoTo(w, "popGlobal")
  /\ UNCHANGED <<counters, queues, mSubmissionMutex, mIdle_mutex, mShutdownMutex,
                 call, arg, task, mId, history>>

PredicateFalse(w) ==
  /\ pc[w] = "predicate"
  /\ mPendingTasks = 0
  /\ GoTo(w, "blocking")
  /\ UNCHANGED <<counters, queues, locks, call, arg, task, mId, history>>

Sleep(w) ==
  /\ pc[w] = "blocking"
  /\ mGlobalMutex' = None
  /\ GoTo(w, "asleep")
  /\ UNCHANGED <<counters, queues, mSubmissionMutex, mIdle_mutex, mShutdownMutex,
                 call, arg, task, mId, history>>

(* The 10 ms are over: whatever the predicate now says, the loop goes on. *)
TimeOut(w) ==
  /\ pc[w] = "asleep"
  /\ mGlobalMutex = None
  /\ GoTo(w, "popGlobal")
  /\ UNCHANGED <<counters, queues, locks, call, arg, task, mId, history>>

WorkerStep(w) ==
  \/ PopGlobal(w) \/ GlobalEmpty(w) \/ PopLocal(w) \/ LocalEmpty(w)
  \/ (\E v \in Workers : Steal(w, v)) \/ StealNothing(w)
  \/ CountActive(w) \/ UncountPending(w) \/ FinishTask(w)
  \/ SeePending(w) \/ SeeActive(w) \/ NotifyIdle(w)
  \/ Drain(w) \/ Exit(w) \/ Idle(w) \/ Recheck(w)
  \/ PredicateStop(w) \/ PredicateTrue(w) \/ PredicateFalse(w)
  \/ Sleep(w) \/ TimeOut(w)

-----------------------------------------------------------------------------
(* wait_idle() *)

WaitCall(c) ==
  /\ pc[c] = "idle"
  /\ call[c] = "none"
  /\ mIdle_mutex = None
  /\ mIdle_mutex' = c
  /\ owed' = [owed EXCEPT ![c] = admitted \ finished]
  /\ sawIdle' = IF admitted \subseteq finished THEN sawIdle \cup {c} ELSE sawIdle \ {c}
  /\ GoTo(c, "waitPending")
  /\ UNCHANGED <<counters, queues, mSubmissionMutex, mGlobalMutex, mShutdownMutex,
                 call, arg, task, mId, admitted, finished>>

WaitSeesPending(c) ==
  /\ pc[c] = "waitPending"
  /\ mPendingTasks = 0
  /\ GoTo(c, "waitActive")
  /\ UNCHANGED <<counters, queues, locks, call, arg, task, mId, history>>

(* The predicate is false: the wait unlocks and blocks in one step. *)
WaitBlocks(c) ==
  /\ \/ pc[c] = "waitPending" /\ mPendingTasks # 0
     \/ pc[c] = "waitActive" /\ mActiveTasks # 0
  /\ mIdle_mutex' = None
  /\ GoTo(c, "waiting")
  /\ UNCHANGED <<counters, queues, mSubmissionMutex, mGlobalMutex, mShutdownMutex,
                 call, arg, task, mId, history>>

WaitWakes(c) ==
  /\ pc[c] = "woken"
  /\ mIdle_mutex = None
  /\ mIdle_mutex' = c
  /\ GoTo(c, "waitPending")
  /\ UNCHANGED <<counters, queues, mSubmissionMutex, mGlobalMutex, mShutdownMutex,
                 call, arg, task, mId, history>>

WaitReturns(c) ==
  /\ pc[c] = "waitActive"
  /\ mActiveTasks = 0
  /\ mIdle_mutex' = None
  /\ owed' = [owed EXCEPT ![c] = {}]
  /\ sawIdle' = sawIdle \ {c}
  /\ GoTo(c, "idle")
  /\ UNCHANGED <<counters, queues, mSubmissionMutex, mGlobalMutex, mShutdownMutex,
                 call, arg, task, mId, admitted, finished>>

WaitStep(c) ==
  \/ WaitSeesPending(c) \/ WaitBlocks(c) \/ WaitWakes(c) \/ WaitReturns(c)

-----------------------------------------------------------------------------
(* shutdown() by a thread that is not a worker; a worker's call throws      *)
(* before it changes anything.                                              *)

ShutdownCall(c) ==
  /\ pc[c] = "idle"
  /\ call[c] = "none"
  /\ mShutdownMutex = None
  /\ mShutdownMutex' = c
  /\ GoTo(c, "cutoff")
  /\ UNCHANGED <<counters, queues, mSubmissionMutex, mGlobalMutex, mIdle_mutex, call,
                 arg, task, mId, history>>

Cutoff(c) ==
  /\ pc[c] = "cutoff"
  /\ mSubmissionMutex = None
  /\ ~mStop
  /\ mStop' = TRUE
  /\ GoTo(c, "wakeAll")
  /\ UNCHANGED <<mPendingTasks, mActiveTasks, mNextQueue, queues, locks, call, arg,
                 task, mId, history>>

(* Somebody else's shutdown() is complete. *)
AlreadyShutdown(c) ==
  /\ pc[c] = "cutoff"
  /\ mSubmissionMutex = None
  /\ mStop
  /\ mShutdownMutex' = None
  /\ GoTo(c, "idle")
  /\ UNCHANGED <<counters, queues, mSubmissionMutex, mGlobalMutex, mIdle_mutex, call,
                 arg, task, mId, history>>

WakeAll(c) ==
  /\ pc[c] = "wakeAll"
  /\ pc' = [t \in Threads |-> CASE t = c -> "join"
                               [] t \in Asleep -> "idling"
                               [] OTHER -> pc[t]]
  /\ UNCHANGED <<counters, queues, locks, call, arg, task, mId, history>>

Join(c) ==
  /\ pc[c] = "join"
  /\ \A w \in Workers : pc[w] = "exited"
  /\ GoTo(c, "joined")
  /\ UNCHANGED <<counters, queues, locks, call, arg, task, mId, history>>

ShutdownReturns(c) ==
  /\ pc[c] = "joined"
  /\ mIdle_mutex = None
  /\ mShutdownMutex' = None
  /\ pc' = [t \in Threads |-> CASE t = c -> "idle"
                               [] t \in IdleWaiters -> "woken"
                               [] OTHER -> pc[t]]
  /\ UNCHANGED <<counters, queues, mSubmissionMutex, mGlobalMutex, mIdle_mutex, call,
                 arg, task, mId, history>>

ShutdownStep(c) ==
  \/ Cutoff(c) \/ AlreadyShutdown(c) \/ WakeAll(c) \/ Join(c) \/ ShutdownReturns(c)

-----------------------------------------------------------------------------
Next ==
  \/ \E s \in Threads : (\E t \in Tasks : SubmitCall(s, t)) \/ SubmitStep(s)
  \/ \E c \in Clients : (\E b \in Batches : BatchCall(c, b)) \/ BatchStep(c)
  \/ \E w \in Workers : WorkerStep(w)
  \/ \E c \in MayWait : WaitCall(c) \/ WaitStep(c)
  \/ \E c \in MayShutdown : ShutdownCall(c) \/ ShutdownStep(c)

Spec == Init /\ [][Next]_vars

(* Every running thread is scheduled, the bodies of tasks end, the timed    *)
(* wait times out, and no thread is kept out of a mutex for ever that is    *)
(* free again and again.  Nobody is obliged to call anything.               *)
ClientStep(c) ==
  \/ SubmitStep(c) \/ BatchStep(c)
  \/ c \in MayWait /\ WaitStep(c)
  \/ c \in MayShutdown /\ ShutdownStep(c)

Fairness ==
  /\ \A w \in Workers : SF_vars(SubmitStep(w) \/ WorkerStep(w))
  /\ \A c \in Clients : SF_vars(ClientStep(c))

FairSpec == Spec /\ Fairness

-----------------------------------------------------------------------------
TypeOK ==
  /\ mStop \in BOOLEAN
  /\ mPendingTasks \in Nat /\ mActiveTasks \in Nat /\ mNextQueue \in Nat
  /\ mGlobalQueue \subseteq Tasks
  /\ mWorkerQueues \in [Workers -> Seq(Tasks)]
  /\ {mSubmissionMutex, mGlobalMutex, mIdle_mutex, mShutdownMutex}
       \subseteq Threads \cup {None}
  /\ DOMAIN pc = Threads /\ DOMAIN call = Threads
  /\ arg \in [Threads -> Seq(Tasks)]
  /\ task \in [Workers -> Tasks \cup {None}]
  /\ mId \in [Tasks -> Nat]
  /\ admitted \subseteq Tasks /\ finished \subseteq admitted
  /\ owed \in [Clients -> SUBSET Tasks]
  /\ sawIdle \subseteq Clients

(* Where t is: each admitted task is in exactly one place, so none is lost  *)
(* between the submitter, the queues, the thieves and the owners, and none  *)
(* is run twice.                                                            *)
Places(t) ==
  {<<"pushing", s>> : s \in {u \in Threads : call[u] = "push" /\ Head(arg[u]) = t}}
    \cup {<<"global", 0>> : x \in {t} \cap mGlobalQueue}
    \cup (UNION {{<<"local", w, i>> : i \in {j \in DOMAIN mWorkerQueues[w] :
                                              mWorkerQueues[w][j] = t}} : w \in Workers})
    \cup {<<"held", w>> : w \in {v \in Workers : task[v] = t}}
    \cup {<<"finished", 0>> : x \in {t} \cap finished}

EachTaskInOnePlace ==
  \A t \in Tasks : Cardinality(Places(t)) = IF t \in admitted THEN 1 ELSE 0

(* The two counters: a task is pending from its admission until a worker    *)
(* runs it, and counted active before it stops being counted pending.       *)
Started == {task[w] : w \in {v \in Workers : pc[v] = "running"}}
Waiting == admitted \ (finished \cup Started)

CountersAgree ==
  /\ mPendingTasks = Cardinality(Waiting)
  /\ mActiveTasks = Cardinality({w \in Workers : pc[w] \in {"active", "running"}})

(* The variables keep their types and the counters count, through failed    *)
(* pushes, stolen tasks and tasks that submit others.                       *)
CountersAreSound == TypeOK /\ CountersAgree

(* Lines 499-502: when a worker leaves its loop, nothing is left to take    *)
(* and nothing more is admitted; when shutdown() has joined the workers,    *)
(* every admitted task has run.                                             *)
ShutdownDrains ==
  /\ (\E w \in Workers : pc[w] = "exited") => mStop /\ Waiting = {}
  /\ (\E c \in Clients : pc[c] = "joined") => admitted = finished

(* wait_idle() returns only after every task admitted before the call.      *)
WaitIdleCovers ==
  [][\A c \in MayWait : WaitReturns(c) => owed[c] \cap admitted \subseteq finished]_vars

(* Every admitted task runs, although a notification may be lost. *)
TasksRun == \A t \in Tasks : t \in admitted ~> (t \in finished \/ t \notin admitted)

(* submit(), submit_batch(), wait_idle() and shutdown() return. *)
Between(c) == pc[c] = "idle" /\ call[c] = "none"
CallsReturn == \A c \in Clients : ~Between(c) ~> Between(c)

-----------------------------------------------------------------------------
(* What the comments and the manual say and the code does not do. *)

(* Line 483, "Wait until all tasks are finished and no tasks are running":  *)
(* wait_idle() returns only if that was so at some moment of the call.      *)
WaitIdleSeesIdle == [][\A c \in MayWait : WaitReturns(c) => c \in sawIdle]_vars
=============================================================================
