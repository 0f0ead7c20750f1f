-------------------------- MODULE ThreadPoolProofs --------------------------
(***************************************************************************)
(* Theorems about ThreadPool, for any number of workers and clients and any *)
(* finite set of tasks.                                                     *)
(***************************************************************************)
EXTENDS ThreadPool, FiniteSetTheorems, SequenceTheorems, TLAPS

-----------------------------------------------------------------------------
(* The inductive invariant. *)

WorkerLabels == {"popGlobal", "popLocal", "steal", "noWork", "taken", "active", "running",
                 "checkPending", "checkActive", "notifyIdle", "idling", "predicate",
                 "blocking", "asleep", "exited"}
ClientLabels == {"idle", "waitPending", "waitActive", "waiting", "woken", "cutoff", "wakeAll",
                 "join", "joined"}
CallLabels == {"none", "admit", "push", "abort", "notify", "batchAdmit", "batchLock",
               "batchPush", "batchNotify"}

LabelsOK ==
  /\ pc \in [Threads -> WorkerLabels \cup ClientLabels]
  /\ call \in [Threads -> CallLabels]
  /\ \A w \in Workers : pc[w] \in WorkerLabels
  /\ \A c \in Clients : pc[c] \in ClientLabels

(* Past its admission a call holds mSubmissionMutex until it returns, and   *)
(* the pool is not stopped meanwhile.                                       *)
Admitting == {"push", "abort", "notify", "batchLock", "batchPush", "batchNotify"}

CallsOK ==
  \A s \in Threads :
    /\ call[s] # "none" => pc[s] = IF s \in Workers THEN "running" ELSE "idle"
    /\ call[s] \in Admitting => mSubmissionMutex = s /\ ~mStop
    /\ call[s] \in {"admit", "push"} => arg[s] # << >>

(* Task numbers are given once each, in order. *)
Used == {t \in Tasks : mId[t] # 0}

IdsOK ==
  /\ \A t \in Tasks : mId[t] <= Cardinality(Used)
  /\ \A t, u \in Used : mId[t] = mId[u] => t = u
  /\ admitted \subseteq Used
  /\ \A c \in Clients : owed[c] \subseteq Used

(* A task that waits for its admission was never admitted, and is one       *)
(* call's only.                                                             *)
AdmitOK ==
  \A s \in Threads : call[s] = "admit" =>
    /\ Head(arg[s]) \in Used \ admitted
    /\ \A c \in Clients : Head(arg[s]) \notin owed[c]
    /\ \A r \in Threads \ {s} : call[r] = "admit" => Head(arg[r]) # Head(arg[s])

(* The rest of a batch is new, and one call's only. *)
BatchOpen(c) == call[c] \in {"batchAdmit", "batchLock", "batchPush"}

BatchOK ==
  \A c \in Threads : BatchOpen(c) =>
    /\ c \in Clients
    /\ \A i \in DOMAIN arg[c] : mId[arg[c][i]] = 0
    /\ \A i, j \in DOMAIN arg[c] : arg[c][i] = arg[c][j] => i = j
    /\ \A d \in Threads \ {c} : BatchOpen(d) =>
         \A i \in DOMAIN arg[c], j \in DOMAIN arg[d] : arg[c][i] # arg[d][j]
    /\ \E b \in Batches :
         /\ \A i \in DOMAIN arg[c] : \E j \in DOMAIN b : arg[c][i] = b[j]
         /\ arg[c] = b \/ \E j \in DOMAIN b : mId[b[j]] # 0

(* The admitted tasks, divided among the places where one can be. *)
Pushing == {t \in Tasks : \E s \in Threads : call[s] = "push" /\ Head(arg[s]) = t}
Queued == {t \in Tasks : \E w \in Workers : \E i \in DOMAIN mWorkerQueues[w] :
                           mWorkerQueues[w][i] = t}
Held == {t \in Tasks : \E w \in Workers : task[w] = t}

Divided ==
  /\ admitted = Pushing \cup mGlobalQueue \cup Queued \cup Held \cup finished
  /\ Pushing \cap (mGlobalQueue \cup Queued \cup Held \cup finished) = {}
  /\ mGlobalQueue \cap (Queued \cup Held \cup finished) = {}
  /\ Queued \cap (Held \cup finished) = {}
  /\ Held \cap finished = {}

(* No place has a task twice. *)
DequesOK ==
  \A v, w \in Workers : \A i \in DOMAIN mWorkerQueues[v], j \in DOMAIN mWorkerQueues[w] :
    mWorkerQueues[v][i] = mWorkerQueues[w][j] => v = w /\ i = j

HeldOK ==
  /\ \A w \in Workers : task[w] # None <=> pc[w] \in {"taken", "active", "running"}
  /\ \A v, w \in Workers : task[v] = task[w] /\ task[v] # None => v = w

(* Nothing waits, and nothing is admitted, once a worker has left. *)
ExitOK ==
  /\ \A w \in Workers : pc[w] = "exited" => mStop /\ Waiting = {}
  /\ \A c \in Clients : pc[c] = "joined" => \A w \in Workers : pc[w] = "exited"

(* Between its two loads a wait_idle() has seen that nothing it waits for   *)
(* is still pending.                                                        *)
WaitOK ==
  \A c \in Clients : pc[c] = "waitActive" => owed[c] \cap admitted \subseteq finished \cup Started

IInv ==
  /\ TypeOK /\ LabelsOK /\ CallsOK /\ IdsOK /\ AdmitOK /\ BatchOK
  /\ Divided /\ DequesOK /\ HeldOK /\ CountersAgree /\ ExitOK /\ WaitOK

-----------------------------------------------------------------------------
LEMMA Basics ==
  /\ NumThreads \in Nat \ {0} /\ 0 \in Workers /\ IsFiniteSet(Workers)
  /\ \A k \in Nat : k % NumThreads \in Workers
  /\ Clients \cap Workers = {} /\ Threads = Clients \cup Workers
  /\ MayWait \subseteq Clients /\ MayShutdown \subseteq Clients
  /\ None \notin Threads /\ None \notin Tasks /\ IsFiniteSet(Tasks)
  /\ PriorityOf \in [Tasks -> 0 .. 3]
  /\ Spawns \in [Tasks -> SUBSET Tasks]
<1>1. NumThreads \in Nat \ {0} BY NumThreadsAssumption
<1>2. 0 \in Workers /\ IsFiniteSet(Workers)
  <2>1. IsFiniteSet(0 .. NumThreads - 1) BY <1>1, FS_Interval, NumThreads - 1 \in Int
  <2> QED BY <1>1, <2>1 DEF Workers
<1>3. \A k \in Nat : k % NumThreads \in Workers BY <1>1, Z3 DEF Workers
<1> QED BY <1>1, <1>2, <1>3, ThreadsAssumption, ClientsAssumption, TasksAssumption
        DEF Threads, Low, Critical

(* A set of numbers that is not empty has a least one. *)
LEMMA LeastOf ==
  ASSUME NEW S \in SUBSET Nat, S # {}
  PROVE  \E n \in S : \A m \in S : n <= m
<1>1. PICK n \in S : \A m \in S : ~ (<<m, n>> \in OpToRel(<, Nat))
  BY NatLessThanWellFounded, WFMin
<1>2. ASSUME NEW m \in S, m < n PROVE FALSE
  <2>1. <<m, n>> \in Nat \X Nat /\ <<m, n>>[1] = m /\ <<m, n>>[2] = n OBVIOUS
  <2>2. <<m, n>> \in OpToRel(<, Nat) BY <1>2, <2>1 DEF OpToRel
  <2> QED BY <1>1, <2>2
<1> QED BY <1>2

(* priority_queue::top() is in the queue: numbers tell equal priorities     *)
(* apart.                                                                   *)
LEMMA TopIsQueued ==
  ASSUME mGlobalQueue \in SUBSET Used, mGlobalQueue # {}, mId \in [Tasks -> Nat],
         \A t, u \in Used : mId[t] = mId[u] => t = u
  PROVE  Top \in mGlobalQueue
<1> DEFINE Q == mGlobalQueue
<1>1. Q \in SUBSET Tasks /\ PriorityOf \in [Tasks -> 0 .. 3] BY Basics DEF Used
<1>2. PICK t1 \in Q : \A u \in Q : PriorityOf[t1] >= PriorityOf[u]
  <2> DEFINE P == {3 - PriorityOf[u] : u \in Q}
  <2>1. P \in SUBSET Nat /\ P # {} BY <1>1
  <2>2. PICK n \in P : \A m \in P : n <= m BY <2>1, LeastOf
  <2>3. PICK t1 \in Q : n = 3 - PriorityOf[t1] BY <2>2
  <2>4. \A u \in Q : PriorityOf[t1] >= PriorityOf[u] BY <1>1, <2>2, <2>3
  <2> QED BY <2>4
<1> DEFINE R == {u \in Q : PriorityOf[u] = PriorityOf[t1]}
<1>3. PICK t \in R : \A u \in R : mId[t] <= mId[u]
  <2> DEFINE I == {mId[u] : u \in R}
  <2>1. I \in SUBSET Nat /\ I # {} BY <1>1
  <2>2. PICK n \in I : \A m \in I : n <= m BY <2>1, LeastOf
  <2> QED BY <2>2
<1>4. ASSUME NEW u \in Q \ {t} PROVE Above(t, u)
  <2>1. CASE u \in R
    <3>1. mId[t] # mId[u] BY <1>3
    <3>2. mId[t] \in Nat /\ mId[u] \in Nat BY <1>1, <1>3
    <3> QED BY <1>3, <2>1, <3>1, <3>2 DEF Above
  <2>2. CASE u \notin R
    <3>1. PriorityOf[t] > PriorityOf[u] BY <1>1, <1>2, <1>3, <2>2
    <3> QED BY <3>1 DEF Above
  <2> QED BY <2>1, <2>2
<1>5. \E x \in Q : \A u \in Q \ {x} : Above(x, u) BY <1>3, <1>4
<1> QED BY <1>5 DEF Top

-----------------------------------------------------------------------------
(* One thread moves to another label. *)
LEMMA Goes ==
  ASSUME LabelsOK, NEW u \in Threads, NEW l, GoTo(u, l),
         l \in IF u \in Workers THEN WorkerLabels ELSE ClientLabels, call' \in [Threads -> CallLabels]
  PROVE  LabelsOK' /\ pc'[u] = l /\ \A v \in Threads \ {u} : pc'[v] = pc[v]
<1>1. pc \in [Threads -> WorkerLabels \cup ClientLabels] /\ pc' = [pc EXCEPT ![u] = l]
  BY DEF LabelsOK, GoTo
<1>2. pc'[u] = l /\ \A v \in Threads \ {u} : pc'[v] = pc[v] BY <1>1
<1>3. pc' \in [Threads -> WorkerLabels \cup ClientLabels] BY <1>1
<1>4. \A w \in Workers : pc'[w] \in WorkerLabels BY <1>2, Basics DEF LabelsOK
<1>5. \A c \in Clients : pc'[c] \in ClientLabels BY <1>2, Basics DEF LabelsOK
<1> QED BY <1>2, <1>3, <1>4, <1>5 DEF LabelsOK

(* Threads keep to the labels of their kind. *)
LEMMA LabelsMove ==
  ASSUME LabelsOK, pc' \in [Threads -> WorkerLabels \cup ClientLabels],
         call' \in [Threads -> CallLabels],
         \A u \in Threads : pc'[u] # pc[u] =>
           \/ u \in Workers /\ pc'[u] \in WorkerLabels
           \/ u \in Clients /\ pc'[u] \in ClientLabels
  PROVE  LabelsOK'
<1>1. \A w \in Workers : w \in Threads /\ w \notin Clients BY Basics
<1>2. \A c \in Clients : c \in Threads /\ c \notin Workers BY Basics
<1>3. \A w \in Workers : pc'[w] \in WorkerLabels BY <1>1 DEF LabelsOK
<1>4. \A c \in Clients : pc'[c] \in ClientLabels BY <1>2 DEF LabelsOK
<1> QED BY <1>3, <1>4 DEF LabelsOK

(* Steps that only move threads about: the tasks, the counters and the      *)
(* calls to submit stay as they are.                                        *)
Busy == {"taken", "active", "running"}

Moves(u) ==
  /\ call[u] = "none" /\ pc[u] \notin Busy \cup {"exited"} /\ pc'[u] \notin Busy
  /\ pc'[u] = "exited" => mStop /\ mPendingTasks = 0
  /\ pc'[u] = "joined" => \A w \in Workers : pc[w] = "exited"
  /\ pc'[u] = "waitActive" => mPendingTasks = 0

Quiet ==
  /\ UNCHANGED <<mPendingTasks, mActiveTasks, mNextQueue, queues, call, arg, task, mId,
                 admitted, finished, mSubmissionMutex>>
  /\ mStop' \in BOOLEAN
  /\ mStop' # mStop => mStop' /\ mSubmissionMutex = None
  /\ {mGlobalMutex', mIdle_mutex', mShutdownMutex'} \subseteq Threads \cup {None}
  /\ owed' \in [Clients -> SUBSET Tasks] /\ sawIdle' \subseteq Clients
  /\ \A c \in Clients : owed'[c] # owed[c] => owed'[c] \subseteq admitted /\ pc'[c] # "waitActive"
  /\ LabelsOK'
  /\ \A u \in Threads : pc'[u] # pc[u] => Moves(u)

(* What a worker does between two tasks. *)
LEMMA ScanIsQuiet ==
  ASSUME IInv, NEW w \in Workers,
         \/ GlobalEmpty(w) \/ LocalEmpty(w) \/ StealNothing(w) \/ SeePending(w) \/ SeeActive(w)
         \/ NotifyIdle(w) \/ Drain(w) \/ Exit(w) \/ Idle(w) \/ Recheck(w) \/ PredicateStop(w)
         \/ PredicateTrue(w) \/ PredicateFalse(w) \/ Sleep(w) \/ TimeOut(w)
  PROVE  Quiet
<1> DEFINE From == {"popGlobal", "popLocal", "steal", "checkPending", "checkActive", "noWork",
                    "idling", "predicate", "blocking", "asleep"}
           Plain == UNCHANGED <<mStop, mPendingTasks, mActiveTasks, mNextQueue, queues, call, arg,
                    task, mId, admitted, finished, mSubmissionMutex, owed, sawIdle>>
                    /\ {mGlobalMutex', mIdle_mutex', mShutdownMutex'} \subseteq Threads \cup {None}
<1>1. /\ LabelsOK /\ mStop \in BOOLEAN /\ sawIdle \subseteq Clients
      /\ {mGlobalMutex, mIdle_mutex, mShutdownMutex} \subseteq Threads \cup {None}
      /\ owed \in [Clients -> SUBSET Tasks]
      /\ \A u \in Threads : call[u] # "none" => pc[u] = IF u \in Workers THEN "running" ELSE "idle"
      /\ w \in Threads /\ call \in [Threads -> CallLabels]
  BY Basics DEF IInv, TypeOK, CallsOK, LabelsOK
<1>2. ASSUME NEW l \in WorkerLabels \ Busy, pc[w] \in From, GoTo(w, l), Plain,
             l = "exited" => mStop /\ mPendingTasks = 0
      PROVE  Quiet
  <2>1. LabelsOK' /\ pc'[w] = l /\ \A v \in Threads \ {w} : pc'[v] = pc[v] BY <1>1, <1>2, Goes
  <2>2. Moves(w) BY <1>1, <1>2, <2>1 DEF Moves, Busy, WorkerLabels
  <2> QED BY <1>1, <1>2, <2>1, <2>2 DEF Quiet
<1>3. ASSUME NotifyIdle(w) PROVE Quiet
  <2> USE <1>3 DEF NotifyIdle
  <2>0. \A u \in Threads : pc'[u] = CASE u = w -> "popGlobal"
                                        [] u \in IdleWaiters -> "woken"
                                        [] OTHER -> pc[u]
    BY Zenon
  <2>a. \A u \in IdleWaiters : u # w BY <1>1, Basics DEF IdleWaiters
  <2>b. \A u \in Threads \ (IdleWaiters \cup {w}) : pc'[u] = pc[u] BY <2>0, Zenon
  <2>c. \A u \in IdleWaiters \cap Threads : pc'[u] = "woken" BY <2>0, <2>a, Zenon
  <2>d. pc'[w] = "popGlobal" BY <1>1, <2>0, <2>a, Zenon
  <2>1. \A u \in Threads : pc'[u] # pc[u] =>
          \/ u = w /\ pc'[u] = "popGlobal"
          \/ u \in Clients /\ pc[u] = "waiting" /\ pc'[u] = "woken"
    <3> TAKE u \in Threads
    <3> HAVE pc'[u] # pc[u]
    <3>1. u = w \/ u \in IdleWaiters BY <2>b, Zenon
    <3>2. CASE u = w BY <2>d, <3>2, Zenon
    <3>3. CASE u \in IdleWaiters BY <2>c, <3>3 DEF IdleWaiters
    <3> QED BY <3>1, <3>2, <3>3
  <2>2. Plain BY <1>1 DEF counters, locks, history
  <2>3. pc' \in [Threads -> WorkerLabels \cup ClientLabels]
    BY <1>1 DEF LabelsOK, WorkerLabels, ClientLabels
  <2>4. LabelsOK'
    <3>1. call' \in [Threads -> CallLabels] BY <1>1, <2>2
    <3>2. \A u \in Threads : pc'[u] # pc[u] =>
            \/ u \in Workers /\ pc'[u] \in WorkerLabels
            \/ u \in Clients /\ pc'[u] \in ClientLabels
      BY <2>1 DEF WorkerLabels, ClientLabels
    <3> QED BY <1>1, <2>3, <3>1, <3>2, LabelsMove
  <2>5. \A u \in Threads : pc'[u] # pc[u] => Moves(u) BY <1>1, <2>1, Basics DEF Moves, Busy
  <2> QED BY <1>1, <2>2, <2>4, <2>5 DEF Quiet
<1> USE <1>1, <1>2 DEF Busy, WorkerLabels, counters, locks, history
<1>4. CASE GlobalEmpty(w) BY <1>4 DEF GlobalEmpty
<1>5. CASE LocalEmpty(w) BY <1>5 DEF LocalEmpty
<1>6. CASE StealNothing(w) BY <1>6 DEF StealNothing
<1>7. CASE SeePending(w) BY <1>7 DEF SeePending
<1>8. CASE SeeActive(w) BY <1>8 DEF SeeActive
<1>9. CASE Drain(w) BY <1>9 DEF Drain
<1>10. CASE Exit(w) BY <1>10 DEF Exit
<1>11. CASE Idle(w) BY <1>11 DEF Idle
<1>12. CASE Recheck(w) BY <1>12 DEF Recheck
<1>13. CASE PredicateStop(w) BY <1>13 DEF PredicateStop
<1>14. CASE PredicateTrue(w) BY <1>14 DEF PredicateTrue
<1>15. CASE PredicateFalse(w) BY <1>15 DEF PredicateFalse
<1>16. CASE Sleep(w) BY <1>16 DEF Sleep
<1>17. CASE TimeOut(w) BY <1>17 DEF TimeOut
<1> QED BY <1>3, <1>4, <1>5, <1>6, <1>7, <1>8, <1>9, <1>10, <1>11, <1>12, <1>13, <1>14, <1>15,
           <1>16, <1>17

(* wait_idle() and shutdown(). *)
LEMMA ClientIsQuiet ==
  ASSUME IInv, NEW c \in Clients,
         \/ WaitCall(c) \/ WaitSeesPending(c) \/ WaitBlocks(c) \/ WaitWakes(c) \/ WaitReturns(c)
         \/ ShutdownCall(c) \/ Cutoff(c) \/ AlreadyShutdown(c) \/ WakeAll(c) \/ Join(c)
         \/ ShutdownReturns(c)
  PROVE  Quiet
<1> DEFINE Plain == UNCHANGED <<mPendingTasks, mActiveTasks, mNextQueue, queues, call, arg,
                    task, mId, admitted, finished, mSubmissionMutex>>
                    /\ {mGlobalMutex', mIdle_mutex', mShutdownMutex'} \subseteq Threads \cup {None}
           Same == UNCHANGED <<mStop, owed, sawIdle>>
<1>1. /\ LabelsOK /\ mStop \in BOOLEAN /\ sawIdle \subseteq Clients
      /\ {mGlobalMutex, mIdle_mutex, mShutdownMutex} \subseteq Threads \cup {None}
      /\ owed \in [Clients -> SUBSET Tasks] /\ admitted \subseteq Tasks
      /\ \A u \in Threads : call[u] # "none" => pc[u] = IF u \in Workers THEN "running" ELSE "idle"
      /\ c \in Threads /\ c \notin Workers /\ call \in [Threads -> CallLabels]
  BY Basics DEF IInv, TypeOK, CallsOK, LabelsOK
<1>2. ASSUME NEW l \in ClientLabels, call[c] = "none", GoTo(c, l), Plain,
             mStop' \in BOOLEAN, mStop' # mStop => mStop' /\ mSubmissionMutex = None,
             owed' \in [Clients -> SUBSET Tasks], sawIdle' \subseteq Clients,
             \A d \in Clients : owed'[d] # owed[d] =>
               d = c /\ owed'[d] \subseteq admitted /\ l # "waitActive",
             l = "waitActive" => mPendingTasks = 0,
             l = "joined" => \A w \in Workers : pc[w] = "exited"
      PROVE  Quiet
  <2>1. LabelsOK' /\ pc'[c] = l /\ \A v \in Threads \ {c} : pc'[v] = pc[v] BY <1>1, <1>2, Goes
  <2>2. pc[c] \in ClientLabels BY <1>1 DEF LabelsOK
  <2>3. Moves(c) BY <1>1, <1>2, <2>1, <2>2 DEF Moves, Busy, ClientLabels
  <2> QED BY <1>1, <1>2, <2>1, <2>3 DEF Quiet
<1>3. pc[c] # "idle" => call[c] = "none" BY <1>1
<1>4. CASE WakeAll(c)
  <2> USE <1>4 DEF WakeAll
  <2>0. \A u \in Threads : pc'[u] = CASE u = c -> "join"
                                        [] u \in Asleep -> "idling"
                                        [] OTHER -> pc[u]
    BY Zenon
  <2>a. \A u \in Asleep : u # c BY <1>1, Basics DEF Asleep
  <2>b. \A u \in Threads \ (Asleep \cup {c}) : pc'[u] = pc[u] BY <2>0, Zenon
  <2>c. \A u \in Asleep \cap Threads : pc'[u] = "idling" BY <2>0, <2>a, Zenon
  <2>d. pc'[c] = "join" BY <1>1, <2>0, <2>a, Zenon
  <2>1. \A u \in Threads : pc'[u] # pc[u] =>
          \/ u = c /\ pc'[u] = "join"
          \/ u \in Workers /\ pc[u] = "asleep" /\ pc'[u] = "idling"
    <3> TAKE u \in Threads
    <3> HAVE pc'[u] # pc[u]
    <3>1. u = c \/ u \in Asleep BY <2>b, Zenon
    <3>2. CASE u = c BY <2>d, <3>2, Zenon
    <3>3. CASE u \in Asleep BY <2>c, <3>3 DEF Asleep
    <3> QED BY <3>1, <3>2, <3>3
  <2>2. Plain /\ Same BY <1>1 DEF counters, locks, history
  <2>3. pc' \in [Threads -> WorkerLabels \cup ClientLabels]
    BY <1>1 DEF LabelsOK, WorkerLabels, ClientLabels
  <2>4. LabelsOK'
    <3>1. call' \in [Threads -> CallLabels] BY <1>1, <2>2
    <3>2. \A u \in Threads : pc'[u] # pc[u] =>
            \/ u \in Workers /\ pc'[u] \in WorkerLabels
            \/ u \in Clients /\ pc'[u] \in ClientLabels
      BY <2>1 DEF WorkerLabels, ClientLabels
    <3> QED BY <1>1, <2>3, <3>1, <3>2, LabelsMove
  <2>5. \A u \in Threads : pc'[u] # pc[u] => Moves(u) BY <1>1, <2>1, Basics DEF Moves, Busy
  <2> QED BY <1>1, <2>2, <2>4, <2>5 DEF Quiet
<1>5. CASE ShutdownReturns(c)
  <2> USE <1>5 DEF ShutdownReturns
  <2>0. \A u \in Threads : pc'[u] = CASE u = c -> "idle"
                                        [] u \in IdleWaiters -> "woken"
                                        [] OTHER -> pc[u]
    BY Zenon
  <2>a. \A u \in IdleWaiters : u # c BY <1>1, Basics DEF IdleWaiters
  <2>b. \A u \in Threads \ (IdleWaiters \cup {c}) : pc'[u] = pc[u] BY <2>0, Zenon
  <2>c. \A u \in IdleWaiters \cap Threads : pc'[u] = "woken" BY <2>0, <2>a, Zenon
  <2>d. pc'[c] = "idle" BY <1>1, <2>0, <2>a, Zenon
  <2>1. \A u \in Threads : pc'[u] # pc[u] =>
          \/ u = c /\ pc'[u] = "idle"
          \/ u \in Clients /\ pc[u] = "waiting" /\ pc'[u] = "woken"
    <3> TAKE u \in Threads
    <3> HAVE pc'[u] # pc[u]
    <3>1. u = c \/ u \in IdleWaiters BY <2>b, Zenon
    <3>2. CASE u = c BY <2>d, <3>2, Zenon
    <3>3. CASE u \in IdleWaiters BY <2>c, <3>3 DEF IdleWaiters
    <3> QED BY <3>1, <3>2, <3>3
  <2>2. Plain /\ Same BY <1>1 DEF counters, locks, history
  <2>3. pc' \in [Threads -> WorkerLabels \cup ClientLabels]
    BY <1>1 DEF LabelsOK, WorkerLabels, ClientLabels
  <2>4. LabelsOK'
    <3>1. call' \in [Threads -> CallLabels] BY <1>1, <2>2
    <3>2. \A u \in Threads : pc'[u] # pc[u] =>
            \/ u \in Workers /\ pc'[u] \in WorkerLabels
            \/ u \in Clients /\ pc'[u] \in ClientLabels
      BY <2>1 DEF WorkerLabels, ClientLabels
    <3> QED BY <1>1, <2>3, <3>1, <3>2, LabelsMove
  <2>5. \A u \in Threads : pc'[u] # pc[u] => Moves(u) BY <1>1, <2>1, Basics DEF Moves, Busy
  <2> QED BY <1>1, <2>2, <2>4, <2>5 DEF Quiet
<1> USE <1>1, <1>2, <1>3 DEF ClientLabels, counters, locks, history
<1>6. CASE WaitCall(c) BY <1>6 DEF WaitCall
<1>7. CASE WaitSeesPending(c) BY <1>7 DEF WaitSeesPending
<1>8. CASE WaitBlocks(c) BY <1>8 DEF WaitBlocks
<1>9. CASE WaitWakes(c) BY <1>9 DEF WaitWakes
<1>10. CASE WaitReturns(c) BY <1>10 DEF WaitReturns
<1>11. CASE ShutdownCall(c) BY <1>11 DEF ShutdownCall
<1>12. CASE Cutoff(c) BY <1>12 DEF Cutoff
<1>13. CASE AlreadyShutdown(c) BY <1>13 DEF AlreadyShutdown
<1>14. CASE Join(c) BY <1>14 DEF Join
<1> QED BY <1>4, <1>5, <1>6, <1>7, <1>8, <1>9, <1>10, <1>11, <1>12, <1>13, <1>14

-----------------------------------------------------------------------------
(* What a step keeps that leaves some of the state alone. *)

Actives == {w \in Workers : pc[w] \in {"active", "running"}}

(* No worker takes, counts or ends a task. *)
LEMMA SameBusy ==
  ASSUME task' = task,
         \A w \in Workers : pc'[w] # pc[w] => pc[w] \notin Busy /\ pc'[w] \notin Busy
  PROVE  Started' = Started /\ Actives' = Actives /\ (HeldOK => HeldOK')
<1>1. \A w \in Workers : /\ pc'[w] = "running" <=> pc[w] = "running"
                         /\ pc'[w] \in {"active", "running"} <=> pc[w] \in {"active", "running"}
                         /\ pc'[w] \in Busy <=> pc[w] \in Busy
  BY DEF Busy
<1>2. {v \in Workers : pc'[v] = "running"} = {v \in Workers : pc[v] = "running"} BY <1>1
<1>3. Started' = Started BY <1>2, Zenon DEF Started
<1>4. Actives' = Actives BY <1>1 DEF Actives
<1>5. HeldOK => HeldOK' BY <1>1 DEF HeldOK, Busy
<1> QED BY <1>3, <1>4, <1>5

LEMMA SameCounts ==
  ASSUME UNCHANGED <<mPendingTasks, mActiveTasks, admitted, finished>>,
         Started' = Started, Actives' = Actives
  PROVE  Waiting' = Waiting /\ (CountersAgree => CountersAgree')
<1>1. Waiting' = Waiting BY DEF Waiting
<1> QED BY <1>1 DEF CountersAgree, Actives

LEMMA SamePlaces ==
  ASSUME UNCHANGED <<queues, task, admitted, finished>>, Pushing' = Pushing
  PROVE  (Divided => Divided') /\ (DequesOK => DequesOK')
BY DEF Divided, DequesOK, Queued, Held, queues

(* No call to submit moves on. *)
LEMMA SameCalls ==
  ASSUME IInv, UNCHANGED <<call, arg, mId, admitted, owed, mSubmissionMutex, mStop>>,
         \A u \in Threads : pc'[u] # pc[u] => call[u] = "none"
  PROVE  CallsOK' /\ IdsOK' /\ AdmitOK' /\ BatchOK' /\ Pushing' = Pushing
<1>1. CallsOK' BY DEF IInv, CallsOK
<1>2. IdsOK' /\ Used' = Used BY DEF IInv, IdsOK, Used
<1>3. AdmitOK' BY <1>2 DEF IInv, AdmitOK
<1>4. BatchOK' BY DEF IInv, BatchOK, BatchOpen
<1> QED BY <1>1, <1>2, <1>3, <1>4 DEF Pushing

(* Nobody leaves the pool, joins it or has a new reason to return from      *)
(* wait_idle().                                                             *)
LEMMA SameEnds ==
  ASSUME IInv, UNCHANGED <<owed, finished>>, mStop => mStop', Waiting = {} => Waiting' = {},
         \A u \in Threads : pc'[u] # pc[u] =>
            pc[u] # "exited" /\ pc'[u] \notin {"exited", "joined", "waitActive"},
         \A c \in Clients : owed[c] \cap (admitted' \ admitted) = {},
         Started \subseteq Started'
  PROVE  ExitOK' /\ WaitOK'
<1>1. ExitOK /\ WaitOK BY DEF IInv
<1>2. \A u \in Workers \cup Clients : pc'[u] # pc[u] =>
            pc[u] # "exited" /\ pc'[u] \notin {"exited", "joined", "waitActive"}
  BY Basics
<1>3. \A w \in Workers : pc'[w] = "exited" <=> pc[w] = "exited" BY <1>2
<1>4. \A c \in Clients : /\ pc'[c] = "joined" => pc[c] = "joined"
                         /\ pc'[c] = "waitActive" => pc[c] = "waitActive"
  BY <1>2
<1>5. ExitOK' BY <1>1, <1>3, <1>4 DEF ExitOK
<1>6. ASSUME NEW c \in Clients, pc'[c] = "waitActive"
      PROVE  owed'[c] \cap admitted' \subseteq finished' \cup Started'
  <2>1. owed[c] \cap admitted \subseteq finished \cup Started BY <1>1, <1>4, <1>6 DEF WaitOK
  <2> QED BY <2>1
<1> QED BY <1>5, <1>6 DEF WaitOK

(* The number of tasks that wait is 0 only if none does. *)
LEMMA NoneWaiting ==
  ASSUME IInv, mPendingTasks = 0
  PROVE  Waiting = {}
<1>1. IsFiniteSet(Waiting)
  <2>1. Waiting \in SUBSET Tasks BY DEF IInv, TypeOK, Waiting
  <2> QED BY <2>1, Basics, FS_Subset
<1>2. Cardinality(Waiting) = 0 BY DEF IInv, CountersAgree
<1> QED BY <1>1, <1>2, FS_EmptySet

LEMMA QuietKeeps ==
  ASSUME IInv, Quiet
  PROVE  IInv'
<1>1. TypeOK'
  BY DEF IInv, Quiet, TypeOK, LabelsOK, queues
<1>2. \A u \in Threads : pc'[u] # pc[u] => Moves(u) BY DEF Quiet
<1>3. Started' = Started /\ Actives' = Actives /\ HeldOK'
  <2>1. \A w \in Workers : pc'[w] # pc[w] => pc[w] \notin Busy /\ pc'[w] \notin Busy
    BY <1>2, Basics DEF Moves
  <2>2. task' = task /\ HeldOK BY DEF Quiet, IInv
  <2> QED BY <2>1, <2>2, SameBusy
<1>4. Waiting' = Waiting /\ CountersAgree'
  BY <1>3, SameCounts DEF Quiet, IInv
<1>5. CallsOK'
  <2>1. ASSUME NEW s \in Threads
        PROVE  /\ call'[s] # "none" => pc'[s] = IF s \in Workers THEN "running" ELSE "idle"
               /\ call'[s] \in Admitting => mSubmissionMutex' = s /\ ~mStop'
               /\ call'[s] \in {"admit", "push"} => arg'[s] # << >>
    <3>1. call'[s] = call[s] /\ arg'[s] = arg[s] /\ mSubmissionMutex' = mSubmissionMutex
      BY DEF Quiet
    <3>2. call[s] # "none" => pc'[s] = pc[s] BY <1>2 DEF Moves
    <3>3. mStop' # mStop => mSubmissionMutex # s BY Basics DEF Quiet
    <3> QED BY <3>1, <3>2, <3>3 DEF IInv, CallsOK
  <2> QED BY <2>1 DEF CallsOK
<1>6. \A c \in Clients : owed'[c] \subseteq owed[c] \cup admitted BY DEF Quiet
<1>7. IdsOK' /\ Used' = Used
  <2>1. Used' = Used BY DEF Quiet, Used
  <2> QED BY <1>6, <2>1 DEF Quiet, IInv, IdsOK
<1>8. AdmitOK' BY <1>6, <1>7 DEF Quiet, IInv, AdmitOK
<1>9. BatchOK' BY DEF Quiet, IInv, BatchOK, BatchOpen
<1>10. Divided' /\ DequesOK'
  <2>1. Pushing' = Pushing BY DEF Quiet, Pushing
  <2> QED BY <2>1, SamePlaces DEF Quiet, IInv
<1>11. ExitOK'
  <2>1. \A w \in Workers : pc[w] = "exited" => pc'[w] = "exited" BY <1>2, Basics DEF Moves
  <2>2. ASSUME NEW w \in Workers, pc'[w] = "exited" PROVE mStop' /\ Waiting' = {}
    <3>1. mStop /\ Waiting = {}
      <4>1. CASE pc[w] = "exited" BY <4>1 DEF IInv, ExitOK
      <4>2. CASE pc[w] # "exited" BY <1>2, <2>2, <4>2, NoneWaiting, Basics DEF Moves
      <4> QED BY <4>1, <4>2
    <3> QED BY <1>4, <3>1 DEF Quiet
  <2>3. ASSUME NEW c \in Clients, pc'[c] = "joined" PROVE \A w \in Workers : pc'[w] = "exited"
    <3>1. \A w \in Workers : pc[w] = "exited"
      <4>1. CASE pc[c] = "joined" BY <4>1 DEF IInv, ExitOK
      <4>2. CASE pc[c] # "joined" BY <1>2, <2>3, <4>2, Basics DEF Moves
      <4> QED BY <4>1, <4>2
    <3> QED BY <2>1, <3>1
  <2> QED BY <2>2, <2>3 DEF ExitOK
<1>12. WaitOK'
  <2>1. ASSUME NEW c \in Clients, pc'[c] = "waitActive"
        PROVE  owed'[c] \cap admitted' \subseteq finished' \cup Started'
    <3>1. owed'[c] = owed[c] /\ admitted' = admitted /\ finished' = finished BY <2>1 DEF Quiet
    <3>2. CASE pc[c] = "waitActive" BY <1>3, <3>1, <3>2 DEF IInv, WaitOK
    <3>3. CASE pc[c] # "waitActive"
      <4>1. Waiting = {} BY <1>2, <2>1, <3>3, NoneWaiting, Basics DEF Moves
      <4> QED BY <1>3, <3>1, <4>1 DEF Waiting
    <3> QED BY <3>2, <3>3
  <2> QED BY <2>1 DEF WaitOK
<1>13. LabelsOK' BY DEF Quiet
<1> QED BY <1>1, <1>3, <1>4, <1>5, <1>7, <1>8, <1>9, <1>10, <1>11, <1>12, <1>13 DEF IInv

-----------------------------------------------------------------------------
(* A worker takes a task that waits in a queue. *)
LEMMA TakeKeeps ==
  ASSUME IInv, NEW w \in Workers, NEW t \in mGlobalQueue \cup Queued,
         pc[w] \in {"popGlobal", "popLocal", "steal"}, Holds(w, t, "taken"),
         UNCHANGED <<counters, locks, call, arg, mId, history>>,
         mWorkerQueues' \in [Workers -> Seq(Tasks)], DequesOK',
         mGlobalQueue' \subseteq mGlobalQueue, Queued' \subseteq Queued,
         mGlobalQueue' \cup Queued' = (mGlobalQueue \cup Queued) \ {t}
  PROVE  IInv'
<1>1. w \in Threads /\ t \in Tasks /\ None # t /\ w \notin Clients
  BY Basics DEF IInv, TypeOK, Queued
<1>2. UNCHANGED <<mStop, mPendingTasks, mActiveTasks, mNextQueue, mSubmissionMutex, mGlobalMutex,
                  mIdle_mutex, mShutdownMutex, admitted, finished, owed, sawIdle>>
  BY DEF counters, locks, history
<1>3. LabelsOK' /\ pc'[w] = "taken" /\ \A v \in Threads \ {w} : pc'[v] = pc[v]
  BY <1>1, Goes DEF IInv, Holds, WorkerLabels, LabelsOK
<1>4. task' = [task EXCEPT ![w] = t] /\ task \in [Workers -> Tasks \cup {None}] /\ task[w] = None
  BY DEF Holds, IInv, TypeOK, HeldOK
<1>5. task'[w] = t /\ \A v \in Workers \ {w} : task'[v] = task[v] BY <1>4
<1>6. TypeOK'
  BY <1>1, <1>2, <1>3, <1>4 DEF IInv, TypeOK, LabelsOK
<1>7. call[w] = "none" BY <1>1 DEF IInv, CallsOK
<1>8. CallsOK' /\ IdsOK' /\ AdmitOK' /\ BatchOK' /\ Pushing' = Pushing
  BY <1>2, <1>3, <1>7, SameCalls
<1>9. Held' = Held \cup {t}
  <2>1. \A v \in Workers : task'[v] = IF v = w THEN t ELSE task[v] BY <1>5
  <2> QED BY <1>1, <1>4, <2>1, Basics DEF Held
<1>10. t \notin Held /\ Divided BY DEF IInv, Divided
<1>11. Divided' BY <1>2, <1>8, <1>9, <1>10 DEF Divided
<1>12. HeldOK'
  <2>1. \A v \in Workers : task[v] # t BY <1>1, <1>10 DEF Held
  <2>2. \A v \in Workers : pc'[v] = (IF v = w THEN "taken" ELSE pc[v])
    BY <1>3, Basics
  <2>3. \A v \in Workers : task'[v] # None <=> pc'[v] \in {"taken", "active", "running"}
    BY <1>1, <1>5, <2>2 DEF IInv, HeldOK
  <2>4. \A u, v \in Workers : task'[u] = task'[v] /\ task'[u] # None => u = v
    BY <1>5, <2>1 DEF IInv, HeldOK
  <2> QED BY <2>3, <2>4 DEF HeldOK
<1>13. Started' = Started /\ Actives' = Actives
  <2>1. \A v \in Workers : pc'[v] = (IF v = w THEN "taken" ELSE pc[v]) BY <1>3, Basics
  <2>2. {v \in Workers : pc'[v] = "running"} = {v \in Workers : pc[v] = "running"} BY <2>1
  <2>3. \A v \in {u \in Workers : pc[u] = "running"} : task'[v] = task[v] BY <1>5
  <2>4. Started' = Started BY <2>2, <2>3 DEF Started
  <2>5. Actives' = Actives BY <2>1 DEF Actives
  <2> QED BY <2>4, <2>5
<1>14. Waiting' = Waiting /\ CountersAgree' BY <1>2, <1>13, SameCounts DEF IInv
<1>15. ExitOK' /\ WaitOK'
  <2>1. \A u \in Threads : pc'[u] # pc[u] =>
            pc[u] # "exited" /\ pc'[u] \notin {"exited", "joined", "waitActive"}
    BY <1>3
  <2> QED BY <1>2, <1>13, <1>14, <2>1, SameEnds
<1> QED BY <1>3, <1>6, <1>8, <1>11, <1>12, <1>14, <1>15 DEF IInv

LEMMA PopGlobalKeeps ==
  ASSUME IInv, NEW w \in Workers, PopGlobal(w)
  PROVE  IInv'
<1>1. Top \in mGlobalQueue
  <2>1. mGlobalQueue \in SUBSET Used BY DEF IInv, Divided, IdsOK
  <2> QED BY <2>1, TopIsQueued DEF PopGlobal, IInv, IdsOK, TypeOK
<1> DEFINE t == Top
<1>2. mGlobalQueue' = mGlobalQueue \ {t} /\ mWorkerQueues' = mWorkerQueues BY DEF PopGlobal
<1>3. Queued' = Queued /\ DequesOK' /\ mWorkerQueues' \in [Workers -> Seq(Tasks)]
  BY <1>2 DEF Queued, IInv, DequesOK, TypeOK
<1>4. t \notin Queued BY <1>1 DEF IInv, Divided
<1>5. pc[w] \in {"popGlobal", "popLocal", "steal"} /\ Holds(w, t, "taken")
      /\ UNCHANGED <<counters, locks, call, arg, mId, history>>
  BY DEF PopGlobal
<1>6. t \in mGlobalQueue \cup Queued BY <1>1
<1> HIDE DEF t
<1> QED BY <1>2, <1>3, <1>4, <1>5, <1>6, TakeKeeps

(* A deque loses the element at one of its ends. *)
LEMMA DequeLoses ==
  ASSUME mWorkerQueues \in [Workers -> Seq(Tasks)], DequesOK, NEW v \in Workers,
         NEW k \in 1 .. Len(mWorkerQueues[v]), NEW q \in Seq(Tasks),
         Len(q) = Len(mWorkerQueues[v]) - 1,
         \/ k = Len(mWorkerQueues[v]) /\ \A i \in 1 .. Len(q) : q[i] = mWorkerQueues[v][i]
         \/ k = 1 /\ \A i \in 1 .. Len(q) : q[i] = mWorkerQueues[v][i + 1],
         mWorkerQueues' = [mWorkerQueues EXCEPT ![v] = q]
  PROVE  /\ DequesOK' /\ mWorkerQueues' \in [Workers -> Seq(Tasks)]
         /\ Queued' = Queued \ {mWorkerQueues[v][k]} /\ mWorkerQueues[v][k] \in Queued
<1> DEFINE old == mWorkerQueues[v]
<1>1. old \in Seq(Tasks) /\ mWorkerQueues'[v] = q /\ DOMAIN old = 1 .. Len(old)
      /\ DOMAIN q = 1 .. Len(q) /\ Len(old) \in Nat /\ Len(q) \in Nat
  OBVIOUS
<1>2. \A u \in Workers \ {v} : mWorkerQueues'[u] = mWorkerQueues[u] OBVIOUS
<1>0. PICK d \in {0, 1} : /\ d = 0 => k = Len(old)
                          /\ d = 1 => k = 1
                          /\ \A i \in 1 .. Len(q) : q[i] = old[i + d]
  <2>1. CASE k = Len(old) /\ \A i \in 1 .. Len(q) : q[i] = old[i]
    <3>1. \A i \in 1 .. Len(q) : i + 0 = i OBVIOUS
    <3> QED BY <2>1, <3>1
  <2>2. CASE k = 1 /\ \A i \in 1 .. Len(q) : q[i] = old[i + 1] BY <2>2
  <2> QED BY <2>1, <2>2
<1>3. ASSUME NEW i \in DOMAIN q PROVE i + d \in DOMAIN old /\ i + d # k /\ q[i] = old[i + d]
  <2>1. i \in Nat /\ 1 <= i /\ i <= Len(old) - 1 BY <1>1
  <2>2. CASE d = 0 BY <1>0, <1>1, <2>1, <2>2
  <2>3. CASE d = 1 BY <1>0, <1>1, <2>1, <2>3
  <2> QED BY <1>0, <2>2, <2>3
<1>4. ASSUME NEW j \in DOMAIN old, j # k PROVE j - d \in DOMAIN q /\ q[j - d] = old[j]
  <2>1. j \in Nat /\ 1 <= j /\ j <= Len(old) BY <1>1
  <2>2. CASE d = 0 BY <1>0, <1>1, <1>4, <2>1, <2>2
  <2>3. CASE d = 1 BY <1>0, <1>1, <1>4, <2>1, <2>3
  <2> QED BY <1>0, <2>2, <2>3
<1>5. old[k] \in Tasks /\ k \in DOMAIN old BY <1>1
<1>6. DequesOK'
  <2>1. ASSUME NEW x \in Workers, NEW y \in Workers, NEW i \in DOMAIN mWorkerQueues'[x],
               NEW j \in DOMAIN mWorkerQueues'[y], mWorkerQueues'[x][i] = mWorkerQueues'[y][j]
        PROVE  x = y /\ i = j
    <3>1. CASE x = v /\ y = v
      <4>1. i + d \in DOMAIN old /\ j + d \in DOMAIN old /\ old[i + d] = old[j + d]
        BY <1>1, <1>3, <2>1, <3>1
      <4>2. i + d = j + d BY <4>1 DEF DequesOK
      <4>3. i \in Int /\ j \in Int BY <1>1, <3>1
      <4> QED BY <3>1, <4>2, <4>3
    <3>2. CASE x = v /\ y # v
      BY <1>1, <1>2, <1>3, <2>1, <3>2 DEF DequesOK
    <3>3. CASE x # v /\ y = v
      BY <1>1, <1>2, <1>3, <2>1, <3>3 DEF DequesOK
    <3>4. CASE x # v /\ y # v
      BY <1>2, <2>1, <3>4 DEF DequesOK
    <3> QED BY <3>1, <3>2, <3>3, <3>4
  <2> QED BY <2>1 DEF DequesOK
<1>7. old[k] \in Queued BY <1>5 DEF Queued
<1>8. ASSUME NEW t \in Queued' PROVE t \in Queued \ {old[k]}
  <2>1. PICK u \in Workers : \E i \in DOMAIN mWorkerQueues'[u] : mWorkerQueues'[u][i] = t
    BY DEF Queued
  <2>2. PICK i \in DOMAIN mWorkerQueues'[u] : mWorkerQueues'[u][i] = t BY <2>1
  <2>3. t \in Tasks BY DEF Queued
  <2>4. CASE u = v
    <3>1. i + d \in DOMAIN old /\ i + d # k /\ old[i + d] = t BY <1>1, <1>3, <2>2, <2>4
    <3>2. old[i + d] # old[k] BY <1>5, <3>1 DEF DequesOK
    <3> QED BY <2>3, <3>1, <3>2 DEF Queued
  <2>5. CASE u # v
    <3>1. i \in DOMAIN mWorkerQueues[u] /\ mWorkerQueues[u][i] = t BY <1>2, <2>2, <2>5
    <3>2. mWorkerQueues[u][i] # old[k] BY <1>5, <2>5, <3>1 DEF DequesOK
    <3> QED BY <2>3, <3>1, <3>2 DEF Queued
  <2> QED BY <2>4, <2>5
<1>9. ASSUME NEW t \in Queued \ {old[k]} PROVE t \in Queued'
  <2>1. PICK u \in Workers : \E i \in DOMAIN mWorkerQueues[u] : mWorkerQueues[u][i] = t
    BY DEF Queued
  <2>2. PICK i \in DOMAIN mWorkerQueues[u] : mWorkerQueues[u][i] = t BY <2>1
  <2>3. t \in Tasks BY DEF Queued
  <2>4. CASE u = v
    <3>1. i - d \in DOMAIN q /\ q[i - d] = t BY <1>4, <2>2, <2>4
    <3>2. i - d \in DOMAIN mWorkerQueues'[v] /\ mWorkerQueues'[v][i - d] = t BY <1>1, <3>1
    <3> QED BY <2>3, <3>2 DEF Queued
  <2>5. CASE u # v
    <3>1. i \in DOMAIN mWorkerQueues'[u] /\ mWorkerQueues'[u][i] = t BY <1>2, <2>2, <2>5
    <3> QED BY <2>3, <3>1 DEF Queued
  <2> QED BY <2>4, <2>5
<1> QED BY <1>6, <1>7, <1>8, <1>9

LEMMA PopLocalKeeps ==
  ASSUME IInv, NEW w \in Workers, PopLocal(w)
  PROVE  IInv'
<1> DEFINE q == mWorkerQueues[w]
           n == Len(q)
           t == q[n]
           r == SubSeq(q, 1, n - 1)
<1>1. mWorkerQueues \in [Workers -> Seq(Tasks)] /\ DequesOK BY DEF IInv, TypeOK
<1>2. q \in Seq(Tasks) /\ q # << >> /\ n \in Nat /\ n # 0
  BY <1>1 DEF PopLocal
<1>3. r \in Seq(Tasks) /\ Len(r) = n - 1 /\ \A i \in 1 .. Len(r) : r[i] = q[i] BY <1>2
<1>4. mWorkerQueues' = [mWorkerQueues EXCEPT ![w] = r] BY DEF PopLocal
<1>5. n \in 1 .. Len(mWorkerQueues[w]) BY <1>2
<1> HIDE DEF r
<1>6. /\ DequesOK' /\ mWorkerQueues' \in [Workers -> Seq(Tasks)]
      /\ Queued' = Queued \ {t} /\ t \in Queued
  BY <1>1, <1>3, <1>4, <1>5, DequeLoses
<1>7. t \notin mGlobalQueue BY <1>6 DEF IInv, Divided
<1>8. mGlobalQueue' = mGlobalQueue /\ pc[w] \in {"popGlobal", "popLocal", "steal"}
      /\ Holds(w, t, "taken") /\ UNCHANGED <<counters, locks, call, arg, mId, history>>
  BY DEF PopLocal
<1> HIDE DEF t
<1>9. t \in mGlobalQueue \cup Queued BY <1>6
<1> QED BY <1>6, <1>7, <1>8, <1>9, TakeKeeps

LEMMA StealKeeps ==
  ASSUME IInv, NEW w \in Workers, NEW v \in Workers, Steal(w, v)
  PROVE  IInv'
<1> DEFINE q == mWorkerQueues[v]
           t == q[1]
           r == Tail(q)
<1>1. mWorkerQueues \in [Workers -> Seq(Tasks)] /\ DequesOK BY DEF IInv, TypeOK
<1>2. q \in Seq(Tasks) /\ q # << >> /\ Len(q) \in Nat /\ Len(q) # 0 BY <1>1 DEF Steal
<1>3. r \in Seq(Tasks) /\ Len(r) = Len(q) - 1 /\ \A i \in 1 .. Len(r) : r[i] = q[i + 1]
  BY <1>2
<1>4. mWorkerQueues' = [mWorkerQueues EXCEPT ![v] = r] /\ Holds(w, t, "taken")
  BY <1>1, <1>2 DEF Steal
<1>5. 1 \in 1 .. Len(mWorkerQueues[v]) BY <1>2
<1> HIDE DEF r
<1>6. /\ DequesOK' /\ mWorkerQueues' \in [Workers -> Seq(Tasks)]
      /\ Queued' = Queued \ {t} /\ t \in Queued
  BY <1>1, <1>3, <1>4, <1>5, DequeLoses
<1>7. t \notin mGlobalQueue BY <1>6 DEF IInv, Divided
<1>8. mGlobalQueue' = mGlobalQueue /\ pc[w] \in {"popGlobal", "popLocal", "steal"}
      /\ UNCHANGED <<counters, locks, call, arg, mId, history>>
  BY DEF Steal
<1> HIDE DEF t
<1>9. t \in mGlobalQueue \cup Queued BY <1>6
<1> QED BY <1>4, <1>6, <1>7, <1>8, <1>9, TakeKeeps

-----------------------------------------------------------------------------
(* The tasks that run are held. *)
LEMMA StartedAreHeld ==
  ASSUME IInv
  PROVE  Started \subseteq Held /\ Held \cap finished = {} /\ Held \subseteq admitted
<1>1. ASSUME NEW v \in Workers, pc[v] = "running" PROVE task[v] \in Held
  BY <1>1 DEF IInv, HeldOK, TypeOK, Held
<1>2. Started \subseteq Held BY <1>1 DEF Started
<1> QED BY <1>2 DEF IInv, Divided

LEMMA FiniteParts ==
  ASSUME IInv
  PROVE  IsFiniteSet(Waiting) /\ IsFiniteSet(Actives)
<1>1. Waiting \in SUBSET Tasks /\ Actives \in SUBSET Workers
  BY DEF IInv, TypeOK, Waiting, Actives
<1> QED BY <1>1, Basics, FS_Subset

(* A worker counts its task active, and then no longer pending. *)
LEMMA CountActiveKeeps ==
  ASSUME IInv, NEW w \in Workers, CountActive(w)
  PROVE  IInv'
<1>1. w \in Threads /\ w \notin Clients /\ pc[w] = "taken" BY Basics DEF CountActive
<1>2. UNCHANGED <<mStop, mPendingTasks, mNextQueue, queues, mSubmissionMutex, mGlobalMutex,
                  mIdle_mutex, mShutdownMutex, call, arg, task, mId, admitted, finished, owed,
                  sawIdle>> /\ mActiveTasks' = mActiveTasks + 1
  BY DEF CountActive, locks, history
<1>3. LabelsOK' /\ pc'[w] = "active" /\ \A v \in Threads \ {w} : pc'[v] = pc[v]
  BY <1>1, Goes DEF IInv, CountActive, WorkerLabels, LabelsOK
<1>4. \A v \in Workers : pc'[v] = (IF v = w THEN "active" ELSE pc[v]) BY <1>3, Basics
<1>5. TypeOK' BY <1>2, <1>3 DEF IInv, TypeOK, LabelsOK, queues
<1>6. CallsOK' /\ IdsOK' /\ AdmitOK' /\ BatchOK' /\ Pushing' = Pushing
  <2>1. call[w] = "none" BY <1>1 DEF IInv, CallsOK
  <2> QED BY <1>2, <1>3, <2>1, SameCalls
<1>7. Divided' /\ DequesOK' BY <1>2, <1>6, SamePlaces DEF IInv
<1>8. HeldOK' BY <1>1, <1>2, <1>4 DEF IInv, HeldOK
<1>9. Started' = Started
  <2>1. {v \in Workers : pc'[v] = "running"} = {v \in Workers : pc[v] = "running"} BY <1>1, <1>4
  <2> QED BY <1>2, <2>1 DEF Started
<1>10. Waiting' = Waiting BY <1>2, <1>9 DEF Waiting
<1>11. CountersAgree'
  <2>1. Actives' = Actives \cup {w} /\ w \notin Actives BY <1>1, <1>4 DEF Actives
  <2>2. Cardinality(Actives') = Cardinality(Actives) + 1 BY <2>1, FiniteParts, FS_AddElement
  <2> QED BY <1>2, <1>10, <2>2 DEF IInv, CountersAgree, Actives
<1>12. ExitOK' /\ WaitOK'
  <2>1. \A u \in Threads : pc'[u] # pc[u] =>
            pc[u] # "exited" /\ pc'[u] \notin {"exited", "joined", "waitActive"}
    BY <1>1, <1>3
  <2> QED BY <1>2, <1>9, <1>10, <2>1, SameEnds
<1> QED BY <1>3, <1>5, <1>6, <1>7, <1>8, <1>11, <1>12 DEF IInv

LEMMA UncountPendingKeeps ==
  ASSUME IInv, NEW w \in Workers, UncountPending(w)
  PROVE  IInv'
<1>1. w \in Threads /\ w \notin Clients /\ pc[w] = "active" BY Basics DEF UncountPending
<1>2. UNCHANGED <<mStop, mActiveTasks, mNextQueue, queues, mSubmissionMutex, mGlobalMutex,
                  mIdle_mutex, mShutdownMutex, call, arg, task, mId, admitted, finished, owed,
                  sawIdle>> /\ mPendingTasks' = mPendingTasks - 1
  BY DEF UncountPending, locks, history
<1>3. LabelsOK' /\ pc'[w] = "running" /\ \A v \in Threads \ {w} : pc'[v] = pc[v]
  BY <1>1, Goes DEF IInv, UncountPending, WorkerLabels, LabelsOK
<1>4. \A v \in Workers : pc'[v] = (IF v = w THEN "running" ELSE pc[v]) BY <1>3, Basics
<1>5. Started' = Started \cup {task[w]}
  <2>1. {v \in Workers : pc'[v] = "running"} = {v \in Workers : pc[v] = "running"} \cup {w}
    BY <1>4
  <2>2. Started' = {task[v] : v \in {u \in Workers : pc[u] = "running"} \cup {w}}
    BY <1>2, <2>1 DEF Started
  <2> QED BY <2>2 DEF Started
<1>6. task[w] # None /\ task[w] \in Held
  BY <1>1 DEF IInv, HeldOK, TypeOK, Held
<1>7. task[w] \notin Started
  <2>1. \A v \in Workers : pc[v] = "running" => task[v] # task[w] BY <1>1, <1>6 DEF IInv, HeldOK
  <2> QED BY <2>1 DEF Started
<1>8. Waiting' = Waiting \ {task[w]} /\ task[w] \in Waiting
  <2>1. task[w] \in admitted \ finished BY <1>6, StartedAreHeld
  <2> QED BY <1>2, <1>5, <1>7, <2>1 DEF Waiting
<1>9. Cardinality(Waiting') = Cardinality(Waiting) - 1 /\ Cardinality(Waiting) \in Nat
      /\ Cardinality(Waiting) # 0
  <2>1. Cardinality(Waiting') = Cardinality(Waiting) - 1
    BY <1>8, FiniteParts, FS_RemoveElement
  <2>2. Cardinality(Waiting) \in Nat BY FiniteParts, FS_CardinalityType
  <2>3. Cardinality(Waiting) # 0 BY <1>8, FiniteParts, FS_EmptySet
  <2> QED BY <2>1, <2>2, <2>3
<1>10. Actives' = Actives BY <1>1, <1>4 DEF Actives
<1>11. CountersAgree' /\ mPendingTasks' \in Nat
  BY <1>2, <1>9, <1>10 DEF IInv, CountersAgree, Actives
<1>12. TypeOK' BY <1>2, <1>3, <1>11 DEF IInv, TypeOK, LabelsOK, queues
<1>13. CallsOK' /\ IdsOK' /\ AdmitOK' /\ BatchOK' /\ Pushing' = Pushing
  <2>1. call[w] = "none" BY <1>1 DEF IInv, CallsOK
  <2> QED BY <1>2, <1>3, <2>1, SameCalls
<1>14. Divided' /\ DequesOK' BY <1>2, <1>13, SamePlaces DEF IInv
<1>15. HeldOK' BY <1>1, <1>2, <1>4 DEF IInv, HeldOK
<1>16. ExitOK' /\ WaitOK'
  <2>1. \A u \in Threads : pc'[u] # pc[u] =>
            pc[u] # "exited" /\ pc'[u] \notin {"exited", "joined", "waitActive"}
    BY <1>1, <1>3
  <2>2. Waiting = {} => Waiting' = {} BY <1>8
  <2>3. Started \subseteq Started' BY <1>5
  <2> QED BY <1>2, <2>1, <2>2, <2>3, SameEnds
<1> QED BY <1>3, <1>11, <1>12, <1>13, <1>14, <1>15, <1>16 DEF IInv

(* The body of a task ends. *)
LEMMA FinishTaskKeeps ==
  ASSUME IInv, NEW w \in Workers, FinishTask(w)
  PROVE  IInv'
<1>1. w \in Threads /\ w \notin Clients /\ pc[w] = "running" /\ call[w] = "none"
  BY Basics DEF FinishTask
<1> DEFINE t == task[w]
<1>2. UNCHANGED <<mStop, mPendingTasks, mNextQueue, queues, mSubmissionMutex, mGlobalMutex,
                  mIdle_mutex, mShutdownMutex, call, arg, mId, admitted, owed>>
      /\ mActiveTasks' = mActiveTasks - 1 /\ finished' = finished \cup {t}
  BY DEF FinishTask, locks
<1>3. LabelsOK' /\ pc'[w] = "checkPending" /\ \A v \in Threads \ {w} : pc'[v] = pc[v]
  BY <1>1, Goes DEF IInv, FinishTask, Holds, WorkerLabels, LabelsOK
<1>4. \A v \in Workers : pc'[v] = (IF v = w THEN "checkPending" ELSE pc[v]) BY <1>3, Basics
<1>5. task' = [task EXCEPT ![w] = None] /\ task \in [Workers -> Tasks \cup {None}]
  BY DEF FinishTask, Holds, IInv, TypeOK
<1>6. \A v \in Workers : task'[v] = (IF v = w THEN None ELSE task[v]) BY <1>5
<1>7. t # None /\ t \in Tasks /\ t \in Held /\ t \in admitted /\ t \notin finished
  <2>1. t # None /\ t \in Tasks BY <1>1 DEF IInv, HeldOK, TypeOK
  <2>2. t \in Held BY <2>1 DEF Held
  <2> QED BY <2>1, <2>2, StartedAreHeld
<1>8. \A v \in Workers : v # w => task[v] # t BY <1>7 DEF IInv, HeldOK
<1>9. sawIdle' \subseteq Clients BY DEF FinishTask, Witness, IInv, TypeOK
<1>10. Held' = Held \ {t}
  <2>1. \A x \in Tasks : (\E v \in Workers : task'[v] = x) <=>
                         (\E v \in Workers : task[v] = x) /\ x # t
    <3> TAKE x \in Tasks
    <3>1. x # None BY Basics
    <3>2. ASSUME NEW v \in Workers, task'[v] = x PROVE task[v] = x /\ x # t
      BY <1>6, <1>8, <3>1, <3>2
    <3>3. ASSUME NEW v \in Workers, task[v] = x, x # t PROVE task'[v] = x BY <1>6, <3>3
    <3> QED BY <3>2, <3>3
  <2> QED BY <2>1 DEF Held
<1>11. Started' = Started \ {t} /\ t \in Started
  <2>1. {v \in Workers : pc'[v] = "running"} = {v \in Workers : pc[v] = "running"} \ {w}
    BY <1>4
  <2>2. \A v \in {u \in Workers : pc[u] = "running"} \ {w} : task'[v] = task[v] BY <1>6
  <2>3. Started' = {task[v] : v \in {u \in Workers : pc[u] = "running"} \ {w}}
    BY <2>1, <2>2 DEF Started
  <2>4. \A v \in {u \in Workers : pc[u] = "running"} \ {w} : task[v] # t BY <1>8
  <2>5. w \in {u \in Workers : pc[u] = "running"} BY <1>1
  <2> QED BY <2>3, <2>4, <2>5 DEF Started
<1>12. Waiting' = Waiting BY <1>2, <1>11 DEF Waiting
<1>13. Actives' = Actives \ {w} /\ w \in Actives BY <1>1, <1>4 DEF Actives
<1>14. Cardinality(Actives') = Cardinality(Actives) - 1 /\ Cardinality(Actives) \in Nat
       /\ Cardinality(Actives) # 0
  <2>1. Cardinality(Actives') = Cardinality(Actives) - 1
    BY <1>13, FiniteParts, FS_RemoveElement
  <2>2. Cardinality(Actives) \in Nat BY FiniteParts, FS_CardinalityType
  <2>3. Cardinality(Actives) # 0 BY <1>13, FiniteParts, FS_EmptySet
  <2> QED BY <2>1, <2>2, <2>3
<1>15. CountersAgree' /\ mActiveTasks' \in Nat
  BY <1>2, <1>12, <1>14 DEF IInv, CountersAgree, Actives
<1>16. TypeOK'
  <2>1. task' \in [Workers -> Tasks \cup {None}] BY <1>5
  <2>2. finished' \subseteq admitted' BY <1>2, <1>7 DEF IInv, TypeOK
  <2> QED BY <1>2, <1>3, <1>9, <1>15, <2>1, <2>2 DEF IInv, TypeOK, LabelsOK, queues
<1>17. CallsOK' /\ IdsOK' /\ AdmitOK' /\ BatchOK' /\ Pushing' = Pushing
  BY <1>1, <1>2, <1>3, SameCalls
<1>18. DequesOK' /\ Queued' = Queued BY <1>2 DEF IInv, DequesOK, Queued, queues
<1>19. Divided' 
  <2>1. mGlobalQueue' = mGlobalQueue BY <1>2 DEF queues
  <2> QED BY <1>2, <1>7, <1>10, <1>17, <1>18, <2>1 DEF IInv, Divided
<1>20. HeldOK' BY <1>1, <1>4, <1>6 DEF IInv, HeldOK
<1>21. ExitOK'
  <2>1. \A v \in Workers : pc'[v] = "exited" <=> pc[v] = "exited" BY <1>1, <1>4
  <2>2. \A c \in Clients : pc'[c] = pc[c] BY <1>1, <1>3, Basics
  <2> QED BY <1>2, <1>12, <2>1, <2>2 DEF IInv, ExitOK
<1>22. WaitOK'
  <2>1. \A c \in Clients : pc'[c] = pc[c] BY <1>1, <1>3, Basics
  <2>2. finished' \cup Started' = finished \cup Started BY <1>2, <1>11
  <2> QED BY <1>2, <2>1, <2>2 DEF IInv, WaitOK
<1> QED BY <1>3, <1>15, <1>16, <1>17, <1>18, <1>19, <1>20, <1>21, <1>22 DEF IInv

-----------------------------------------------------------------------------
(* submit() and submit_batch() *)

LEMMA CallGoes ==
  ASSUME LabelsOK, NEW s \in Threads, NEW l \in CallLabels, CallTo(s, l)
  PROVE  /\ call' \in [Threads -> CallLabels] /\ call'[s] = l
         /\ \A r \in Threads \ {s} : call'[r] = call[r]
         /\ pc' = pc => LabelsOK'
<1>1. call \in [Threads -> CallLabels] BY DEF LabelsOK
<1>2. call' \in [Threads -> CallLabels] /\ call'[s] = l
      /\ \A r \in Threads \ {s} : call'[r] = call[r]
  BY <1>1 DEF CallTo
<1> QED BY <1>2 DEF LabelsOK

(* One call is past its admission at a time. *)
LEMMA OneAdmitting ==
  ASSUME IInv, NEW s \in Threads, mSubmissionMutex \in {s, None}
  PROVE  \A r \in Threads \ {s} : call[r] \notin Admitting
BY Basics DEF IInv, CallsOK

LEMMA HeadOfArg ==
  ASSUME IInv, NEW s \in Threads, arg[s] # << >>
  PROVE  /\ Head(arg[s]) \in Tasks /\ 1 \in DOMAIN arg[s] /\ Head(arg[s]) = arg[s][1]
BY DEF IInv, TypeOK

LEMMA OnePusher ==
  ASSUME IInv, NEW s \in Threads, call[s] = "push"
  PROVE  /\ Pushing = {Head(arg[s])} /\ Head(arg[s]) \in Tasks
         /\ mSubmissionMutex = s /\ ~mStop
         /\ \A r \in Threads \ {s} : call[r] \notin Admitting
<1>1. mSubmissionMutex = s /\ ~mStop /\ arg[s] # << >> BY DEF IInv, CallsOK, Admitting
<1>2. \A r \in Threads \ {s} : call[r] \notin Admitting BY <1>1, OneAdmitting
<1>3. Head(arg[s]) \in Tasks BY <1>1, HeadOfArg
<1>4. Pushing = {Head(arg[s])} BY <1>2, <1>3 DEF Pushing, Admitting
<1> QED BY <1>1, <1>2, <1>3, <1>4

(* What a batch has still to push is in it. *)
LEMMA ArgOfBatch ==
  ASSUME IInv, NEW c \in Threads, BatchOpen(c), NEW i \in DOMAIN arg[c]
  PROVE  arg[c][i] \in BatchTasks /\ arg[c][i] \in Tasks
<1>1. PICK b \in Batches : \A k \in DOMAIN arg[c] : \E j \in DOMAIN b : arg[c][k] = b[j]
  BY DEF IInv, BatchOK
<1>2. PICK j \in DOMAIN b : arg[c][i] = b[j] BY <1>1
<1>3. b[j] \in BatchTasks BY DEF BatchTasks
<1>4. arg[c] \in Seq(Tasks) BY DEF IInv, TypeOK
<1> QED BY <1>2, <1>3, <1>4

(* Open batches are kept by what numbers other tasks. *)
LEMMA BatchesKept ==
  ASSUME IInv, \A r \in Threads : BatchOpen(r)' => BatchOpen(r) /\ arg'[r] = arg[r],
         \A t \in Tasks : mId'[t] # mId[t] => t \notin BatchTasks
  PROVE  BatchOK'
<1>1. SUFFICES ASSUME NEW c \in Threads, BatchOpen(c)'
               PROVE  /\ c \in Clients
                      /\ \A i \in DOMAIN arg'[c] : mId'[arg'[c][i]] = 0
                      /\ \A i, j \in DOMAIN arg'[c] : arg'[c][i] = arg'[c][j] => i = j
                      /\ \A d \in Threads \ {c} : BatchOpen(d)' =>
                           \A i \in DOMAIN arg'[c], j \in DOMAIN arg'[d] : arg'[c][i] # arg'[d][j]
                      /\ \E b \in Batches :
                           /\ \A i \in DOMAIN arg'[c] : \E j \in DOMAIN b : arg'[c][i] = b[j]
                           /\ arg'[c] = b \/ \E j \in DOMAIN b : mId'[b[j]] # 0
  BY DEF BatchOK
<1>2. BatchOpen(c) /\ arg'[c] = arg[c] BY <1>1
<1>3. c \in Clients BY <1>2 DEF IInv, BatchOK
<1>4. \A i, j \in DOMAIN arg'[c] : arg'[c][i] = arg'[c][j] => i = j BY <1>2 DEF IInv, BatchOK
<1>5. ASSUME NEW i \in DOMAIN arg'[c] PROVE mId'[arg'[c][i]] = 0
  <2>1. arg[c][i] \in BatchTasks /\ arg[c][i] \in Tasks BY <1>2, ArgOfBatch
  <2>2. mId[arg[c][i]] = 0 BY <1>2 DEF IInv, BatchOK
  <2> QED BY <1>2, <2>1, <2>2
<1>6. ASSUME NEW d \in Threads \ {c}, BatchOpen(d)', NEW i \in DOMAIN arg'[c],
             NEW j \in DOMAIN arg'[d]
      PROVE  arg'[c][i] # arg'[d][j]
  <2>1. BatchOpen(d) /\ arg'[d] = arg[d] BY <1>6
  <2> QED BY <1>2, <2>1 DEF IInv, BatchOK
<1>7. PICK b \in Batches : /\ \A i \in DOMAIN arg[c] : \E j \in DOMAIN b : arg[c][i] = b[j]
                           /\ arg[c] = b \/ \E j \in DOMAIN b : mId[b[j]] # 0
  BY <1>2 DEF IInv, BatchOK
<1>8. ASSUME NEW j \in DOMAIN b, mId[b[j]] # 0 PROVE mId'[b[j]] # 0
  <2>1. b[j] \in BatchTasks BY DEF BatchTasks
  <2>2. b[j] \in Tasks
    <3>1. b \in Seq(Tasks) BY TasksAssumption
    <3> QED BY <3>1
  <2> QED BY <1>8, <2>1, <2>2
<1> QED BY <1>2, <1>3, <1>4, <1>5, <1>6, <1>7, <1>8

(* A notification moves sleepers only. *)
Woken ==
  \A u \in Threads : pc'[u] # pc[u] => \/ pc[u] = "waiting" /\ pc'[u] = "woken"
                                       \/ pc[u] = "asleep" /\ pc'[u] = "idling"

LEMMA Wakes ==
  ASSUME LabelsOK, call' \in [Threads -> CallLabels], NEW ws, NEW b, Wake(ws, b),
         \/ ws \subseteq IdleWaiters /\ b = "woken"
         \/ ws \subseteq Asleep /\ b = "idling"
  PROVE  LabelsOK' /\ Woken
<1>1. pc' = [t \in Threads |-> IF t \in ws THEN b ELSE pc[t]] BY DEF Wake
<1>2. b \in WorkerLabels \cup ClientLabels BY DEF WorkerLabels, ClientLabels
<1>3. pc' \in [Threads -> WorkerLabels \cup ClientLabels]
  <2>1. pc \in [Threads -> WorkerLabels \cup ClientLabels] BY DEF LabelsOK
  <2> HIDE DEF WorkerLabels, ClientLabels
  <2> QED BY <1>1, <1>2, <2>1
<1>4. \A u \in Threads : pc'[u] # pc[u] => u \in ws /\ pc'[u] = b BY <1>1
<1>5. \A u \in Threads : pc'[u] # pc[u] =>
         \/ u \in Clients /\ pc[u] = "waiting" /\ pc'[u] = "woken"
         \/ u \in Workers /\ pc[u] = "asleep" /\ pc'[u] = "idling"
  BY <1>4 DEF IdleWaiters, Asleep
<1>6. \A u \in Threads : pc'[u] # pc[u] =>
         \/ u \in Workers /\ pc'[u] \in WorkerLabels
         \/ u \in Clients /\ pc'[u] \in ClientLabels
  BY <1>5 DEF WorkerLabels, ClientLabels
<1> QED BY <1>3, <1>5, <1>6, LabelsMove DEF Woken

(* The steps of a call that move no task: it is refused, takes a mutex or   *)
(* returns.                                                                 *)
LEMMA PassKeeps ==
  ASSUME IInv, NEW s \in Threads, NEW l \in CallLabels, CallTo(s, l),
         call[s] \notin {"none", "push"}, l \notin {"admit", "push"},
         l \in {"batchAdmit", "batchLock", "batchPush"} => BatchOpen(s) /\ arg'[s] = arg[s],
         arg' \in [Threads -> Seq(Tasks)],
         \A r \in Threads \ {s} : arg'[r] = arg[r],
         l \in Admitting => mSubmissionMutex' = s /\ ~mStop,
         mSubmissionMutex' = mSubmissionMutex \/ mSubmissionMutex \in {s, None},
         {mSubmissionMutex', mGlobalMutex', mIdle_mutex', mShutdownMutex'}
           \subseteq Threads \cup {None},
         UNCHANGED <<counters, queues, task, mId, history>>, LabelsOK', Woken
  PROVE  IInv'
<1>1. UNCHANGED <<mStop, mPendingTasks, mActiveTasks, mNextQueue, admitted, finished, owed, sawIdle>>
  BY DEF counters, history
<1>2. call'[s] = l /\ \A r \in Threads \ {s} : call'[r] = call[r] BY CallGoes DEF IInv
<1>3. TypeOK' BY <1>1 DEF IInv, TypeOK, LabelsOK, queues
<1>4. ASSUME NEW u \in Threads, call[u] # "none" PROVE pc'[u] = pc[u]
  BY <1>4 DEF Woken, IInv, CallsOK
<1>5. CallsOK'
  <2>1. ASSUME NEW r \in Threads
        PROVE  /\ call'[r] # "none" => pc'[r] = IF r \in Workers THEN "running" ELSE "idle"
               /\ call'[r] \in Admitting => mSubmissionMutex' = r /\ ~mStop'
               /\ call'[r] \in {"admit", "push"} => arg'[r] # << >>
    <3>1. call'[r] # "none" => pc'[r] = IF r \in Workers THEN "running" ELSE "idle"
      <4>1. call'[r] # "none" => call[r] # "none" BY <1>2
      <4> QED BY <1>4, <4>1 DEF IInv, CallsOK
    <3>2. call'[r] \in Admitting => mSubmissionMutex' = r /\ ~mStop'
      <4>1. CASE r = s BY <1>1, <1>2, <4>1
      <4>2. CASE r # s
        <5>1. CASE mSubmissionMutex' = mSubmissionMutex
          BY <1>1, <1>2, <4>2, <5>1 DEF IInv, CallsOK
        <5>2. CASE mSubmissionMutex \in {s, None} BY <1>2, <4>2, <5>2, OneAdmitting
        <5> QED BY <5>1, <5>2
      <4> QED BY <4>1, <4>2
    <3>3. call'[r] \in {"admit", "push"} => arg'[r] # << >> BY <1>2 DEF IInv, CallsOK
    <3> QED BY <3>1, <3>2, <3>3
  <2> QED BY <2>1 DEF CallsOK
<1>6. Used' = Used /\ IdsOK'
  <2>1. Used' = Used BY DEF Used
  <2> QED BY <1>1, <2>1 DEF IInv, IdsOK
<1>7. AdmitOK'
  <2>1. \A r \in Threads : call'[r] = "admit" => r # s /\ call[r] = "admit" /\ arg'[r] = arg[r]
    BY <1>2
  <2> QED BY <1>1, <1>6, <2>1 DEF IInv, AdmitOK
<1>8. BatchOK'
  <2>1. \A r \in Threads : BatchOpen(r)' => BatchOpen(r) /\ arg'[r] = arg[r]
    BY <1>2 DEF BatchOpen
  <2>2. mId' = mId OBVIOUS
  <2> QED BY <2>1, <2>2, BatchesKept
<1>9. Divided' /\ DequesOK'
  <2>1. \A r \in Threads : /\ call'[r] = "push" <=> call[r] = "push"
                           /\ call[r] = "push" => arg'[r] = arg[r]
    BY <1>2
  <2>2. Pushing' = Pushing BY <2>1 DEF Pushing
  <2> QED BY <1>1, <2>2, SamePlaces DEF IInv
<1>10. Started' = Started /\ Actives' = Actives /\ HeldOK'
  <2>1. \A w \in Workers : pc'[w] # pc[w] => pc[w] \notin Busy /\ pc'[w] \notin Busy
    BY Basics DEF Woken, Busy
  <2> QED BY <2>1, SameBusy DEF IInv
<1>11. Waiting' = Waiting /\ CountersAgree' BY <1>1, <1>10, SameCounts DEF IInv
<1>12. ExitOK' /\ WaitOK'
  <2>1. \A u \in Threads : pc'[u] # pc[u] =>
            pc[u] # "exited" /\ pc'[u] \notin {"exited", "joined", "waitActive"}
    BY DEF Woken
  <2> QED BY <1>1, <1>10, <1>11, <2>1, SameEnds
<1> QED BY <1>3, <1>5, <1>6, <1>7, <1>8, <1>9, <1>10, <1>11, <1>12 DEF IInv

LEMMA Returns ==
  ASSUME IInv, NEW s \in Threads, EndCall(s)
  PROVE  /\ arg' \in [Threads -> Seq(Tasks)] /\ \A r \in Threads \ {s} : arg'[r] = arg[r]
         /\ CallTo(s, "none") /\ "none" \in CallLabels /\ call' \in [Threads -> CallLabels]
         /\ "none" \notin Admitting /\ LabelsOK /\ (pc' = pc => LabelsOK')
<1>1. CallTo(s, "none") /\ "none" \in CallLabels /\ "none" \notin Admitting /\ LabelsOK
  BY DEF EndCall, CallLabels, Admitting, IInv
<1>2. call' \in [Threads -> CallLabels] /\ (pc' = pc => LabelsOK') BY <1>1, CallGoes
<1>3. arg \in [Threads -> Seq(Tasks)] /\ << >> \in Seq(Tasks) BY DEF IInv, TypeOK
<1>4. arg' \in [Threads -> Seq(Tasks)] /\ \A r \in Threads \ {s} : arg'[r] = arg[r]
  BY <1>3 DEF EndCall
<1> QED BY <1>1, <1>2, <1>4

LEMMA PassesKeep ==
  ASSUME IInv, NEW s \in Threads,
         \/ SubmitRejected(s) \/ SubmitAbort(s) \/ SubmitNotify(s)
         \/ BatchAdmit(s) \/ BatchLock(s) \/ BatchUnlock(s) \/ BatchNotify(s)
  PROVE  IInv'
<1>1. /\ {mSubmissionMutex, mGlobalMutex, mIdle_mutex, mShutdownMutex} \subseteq Threads \cup {None}
      /\ arg \in [Threads -> Seq(Tasks)] /\ LabelsOK
  BY DEF IInv, TypeOK
<1>2. call[s] \in Admitting => mSubmissionMutex = s /\ ~mStop BY DEF IInv, CallsOK
<1>3. pc' = pc => Woken BY DEF Woken
<1>4. CASE SubmitRejected(s)
  <2>1. UNCHANGED <<mSubmissionMutex, mGlobalMutex, mIdle_mutex, mShutdownMutex>> /\ pc' = pc
        /\ UNCHANGED <<counters, queues, task, mId, history>>
    BY <1>4 DEF SubmitRejected, locks
  <2>2. EndCall(s) /\ call[s] \notin {"none", "push"} BY <1>4 DEF SubmitRejected
  <2> QED BY <1>1, <1>3, <2>1, <2>2, Returns, PassKeeps
<1>5. CASE SubmitAbort(s)
  <2>1. EndCall(s) /\ call[s] \notin {"none", "push"} /\ mSubmissionMutex' = None
        /\ UNCHANGED <<mGlobalMutex, mIdle_mutex, mShutdownMutex>>
        /\ UNCHANGED <<counters, queues, task, mId, history>>
        /\ Wake(IdleWaiters, "woken") /\ call[s] \in Admitting
    BY <1>5 DEF SubmitAbort, Admitting
  <2>2. LabelsOK' /\ Woken BY <2>1, Returns, Wakes
  <2> QED BY <1>1, <1>2, <2>1, <2>2, Returns, PassKeeps
<1>6. CASE SubmitNotify(s)
  <2>1. EndCall(s) /\ call[s] \notin {"none", "push"} /\ mSubmissionMutex' = None
        /\ UNCHANGED <<mGlobalMutex, mIdle_mutex, mShutdownMutex>>
        /\ UNCHANGED <<counters, queues, task, mId, history>>
        /\ NotifyOneWorker /\ call[s] \in Admitting
    BY <1>6 DEF SubmitNotify, Admitting
  <2>2. LabelsOK' /\ Woken
    <3>1. CASE UNCHANGED pc BY <1>3, <2>1, <3>1, Returns
    <3>2. CASE \E w \in Asleep : Wake({w}, "idling")
      <4>1. PICK w \in Asleep : Wake({w}, "idling") BY <3>2
      <4>2. {w} \subseteq Asleep OBVIOUS
      <4> QED BY <2>1, <4>1, <4>2, Returns, Wakes
    <3> QED BY <2>1, <3>1, <3>2 DEF NotifyOneWorker
  <2> QED BY <1>1, <1>2, <2>1, <2>2, Returns, PassKeeps
<1>7. CASE BatchNotify(s)
  <2>1. EndCall(s) /\ call[s] \notin {"none", "push"} /\ mSubmissionMutex' = None
        /\ UNCHANGED <<mGlobalMutex, mIdle_mutex, mShutdownMutex>>
        /\ UNCHANGED <<counters, queues, task, mId, history>>
        /\ Wake(Asleep, "idling") /\ call[s] \in Admitting
    BY <1>7 DEF BatchNotify, Admitting
  <2>2. LabelsOK' /\ Woken BY <2>1, Returns, Wakes
  <2> QED BY <1>1, <1>2, <2>1, <2>2, Returns, PassKeeps
<1>8. CASE BatchAdmit(s)
  <2>1. /\ CallTo(s, "batchLock") /\ "batchLock" \in CallLabels /\ call[s] \notin {"none", "push"}
        /\ BatchOpen(s) /\ mSubmissionMutex' = s /\ ~mStop /\ mSubmissionMutex = None
        /\ UNCHANGED <<mGlobalMutex, mIdle_mutex, mShutdownMutex>> /\ pc' = pc /\ arg' = arg
        /\ UNCHANGED <<counters, queues, task, mId, history>>
    BY <1>8 DEF BatchAdmit, CallLabels, BatchOpen
  <2>2. LabelsOK' /\ Woken BY <1>1, <1>3, <2>1, CallGoes
  <2> QED BY <1>1, <2>1, <2>2, PassKeeps
<1>9. CASE BatchLock(s)
  <2>1. /\ CallTo(s, "batchPush") /\ "batchPush" \in CallLabels /\ call[s] \notin {"none", "push"}
        /\ BatchOpen(s) /\ mSubmissionMutex' = mSubmissionMutex /\ mGlobalMutex' = s
        /\ call[s] \in Admitting
        /\ UNCHANGED <<mIdle_mutex, mShutdownMutex>> /\ pc' = pc /\ arg' = arg
        /\ UNCHANGED <<counters, queues, task, mId, history>>
    BY <1>9 DEF BatchLock, CallLabels, BatchOpen, Admitting
  <2>2. LabelsOK' /\ Woken BY <1>1, <1>3, <2>1, CallGoes
  <2> QED BY <1>1, <1>2, <2>1, <2>2, PassKeeps
<1>10. CASE BatchUnlock(s)
  <2>1. /\ CallTo(s, "batchNotify") /\ "batchNotify" \in CallLabels
        /\ call[s] \notin {"none", "push"}
        /\ BatchOpen(s) /\ mSubmissionMutex' = mSubmissionMutex /\ mGlobalMutex' = None
        /\ call[s] \in Admitting
        /\ UNCHANGED <<mIdle_mutex, mShutdownMutex>> /\ pc' = pc /\ arg' = arg
        /\ UNCHANGED <<counters, queues, task, mId, history>>
    BY <1>10 DEF BatchUnlock, CallLabels, BatchOpen, Admitting
  <2>2. LabelsOK' /\ Woken BY <1>1, <1>3, <2>1, CallGoes
  <2> QED BY <1>1, <1>2, <2>1, <2>2, PassKeeps
<1> QED BY <1>4, <1>5, <1>6, <1>7, <1>8, <1>9, <1>10

(* A task of which none was numbered yet gets the next number. *)
LEMMA NewNumber ==
  ASSUME IInv, NEW t \in Tasks, mId[t] = 0, mId' = [mId EXCEPT ![t] = NextId]
  PROVE  /\ mId' \in [Tasks -> Nat] /\ Used' = Used \cup {t} /\ t \notin Used
         /\ \A u \in Tasks \ {t} : mId'[u] = mId[u]
         /\ \A u \in Tasks : mId'[u] <= Cardinality(Used')
         /\ \A u, v \in Used' : mId'[u] = mId'[v] => u = v
<1>1. mId \in [Tasks -> Nat] /\ Used \in SUBSET Tasks BY DEF IInv, TypeOK, Used
<1>2. IsFiniteSet(Used) /\ Cardinality(Used) \in Nat
  BY <1>1, Basics, FS_Subset, FS_CardinalityType
<1>3. NextId = 1 + Cardinality(Used) BY DEF NextId, Used
<1>4. mId' \in [Tasks -> Nat] /\ mId'[t] = NextId /\ \A u \in Tasks \ {t} : mId'[u] = mId[u]
  BY <1>1, <1>2, <1>3
<1>5. Used' = Used \cup {t} /\ t \notin Used
  BY <1>2, <1>3, <1>4 DEF Used
<1>6. Cardinality(Used') = Cardinality(Used) + 1 BY <1>2, <1>5, FS_AddElement
<1>7. \A u \in Tasks : mId[u] <= Cardinality(Used) BY DEF IInv, IdsOK
<1>8. \A u \in Tasks : mId'[u] <= Cardinality(Used') BY <1>1, <1>2, <1>3, <1>4, <1>6, <1>7
<1>9. ASSUME NEW u \in Used', NEW v \in Used', mId'[u] = mId'[v] PROVE u = v
  <2>1. \A x \in Used : mId'[x] = mId[x] /\ mId'[x] # NextId
    BY <1>1, <1>2, <1>3, <1>4, <1>5, <1>7
  <2>2. CASE u = t \/ v = t BY <1>4, <1>5, <1>9, <2>1, <2>2
  <2>3. CASE u \in Used /\ v \in Used BY <1>9, <2>1, <2>3 DEF IInv, IdsOK
  <2> QED BY <1>5, <2>2, <2>3
<1> QED BY <1>4, <1>5, <1>8, <1>9

(* Where no thread moves, the tasks held and counted stay the same. *)
LEMMA Still ==
  ASSUME IInv, pc' = pc, task' = task
  PROVE  Started' = Started /\ Actives' = Actives /\ HeldOK' /\ Held' = Held
<1>1. Held' = Held BY DEF Held
<1> QED BY <1>1, SameBusy DEF IInv

LEMMA SubmitCallKeeps ==
  ASSUME IInv, NEW s \in Threads, NEW t \in Tasks, SubmitCall(s, t)
  PROVE  IInv'
<1>1. /\ UNCHANGED <<mStop, mPendingTasks, mActiveTasks, mNextQueue, mSubmissionMutex, mGlobalMutex,
                     mIdle_mutex, mShutdownMutex, admitted, finished, owed, sawIdle>>
      /\ UNCHANGED <<queues, pc, task>>
      /\ call[s] = "none" /\ mId[t] = 0 /\ mId' = [mId EXCEPT ![t] = NextId]
      /\ arg' = [arg EXCEPT ![s] = <<t>>] /\ CallTo(s, "admit")
  BY DEF SubmitCall, MaySubmit, counters, locks, history
<1>2. /\ call' \in [Threads -> CallLabels] /\ call'[s] = "admit" /\ LabelsOK'
      /\ \A r \in Threads \ {s} : call'[r] = call[r]
  <2>1. "admit" \in CallLabels BY DEF CallLabels
  <2> QED BY <1>1, <2>1, CallGoes DEF IInv
<1>3. arg' \in [Threads -> Seq(Tasks)] /\ arg'[s] = <<t>> /\ arg'[s] # << >>
      /\ Head(arg'[s]) = t /\ \A r \in Threads \ {s} : arg'[r] = arg[r]
  <2>1. arg \in [Threads -> Seq(Tasks)] /\ <<t>> \in Seq(Tasks) /\ <<t>> # << >> /\ Head(<<t>>) = t
    BY DEF IInv, TypeOK
  <2> QED BY <1>1, <2>1
<1>4. /\ mId' \in [Tasks -> Nat] /\ Used' = Used \cup {t} /\ t \notin Used
      /\ \A u \in Tasks \ {t} : mId'[u] = mId[u]
      /\ \A u \in Tasks : mId'[u] <= Cardinality(Used')
      /\ \A u, v \in Used' : mId'[u] = mId'[v] => u = v
  BY <1>1, NewNumber
<1>5. t \notin BatchTasks
  <2>1. CASE t \in ClientTasks BY <2>1 DEF ClientTasks
  <2>2. CASE s \in Workers /\ pc[s] = "running" /\ t \in Spawns[task[s]]
    <3>1. task[s] \in Tasks BY <2>2 DEF IInv, HeldOK, TypeOK
    <3> QED BY <2>2, <3>1, BatchesAssumption
  <2> QED BY <2>1, <2>2 DEF SubmitCall, MaySubmit
<1>6. TypeOK' BY <1>1, <1>2, <1>3, <1>4 DEF IInv, TypeOK, LabelsOK, queues
<1>7. CallsOK'
  <2>1. pc[s] = IF s \in Workers THEN "running" ELSE "idle"
    BY Basics DEF SubmitCall, MaySubmit
  <2> QED BY <1>1, <1>2, <1>3, <2>1 DEF IInv, CallsOK, Admitting
<1>8. IdsOK' BY <1>1, <1>4 DEF IInv, IdsOK
<1>9. AdmitOK'
  <2>1. ASSUME NEW r \in Threads, call'[r] = "admit"
        PROVE  /\ Head(arg'[r]) \in Used' \ admitted'
               /\ \A c \in Clients : Head(arg'[r]) \notin owed'[c]
               /\ \A x \in Threads \ {r} : call'[x] = "admit" => Head(arg'[x]) # Head(arg'[r])
    <3>1. \A x \in Threads \ {s} : call'[x] = "admit" => call[x] = "admit" /\ Head(arg'[x]) = Head(arg[x])
                                     /\ Head(arg[x]) \in Used
      BY <1>2, <1>3 DEF IInv, AdmitOK
    <3>2. CASE r = s BY <1>1, <1>3, <1>4, <3>1, <3>2 DEF IInv, IdsOK
    <3>3. CASE r # s BY <1>1, <1>2, <1>3, <1>4, <2>1, <3>1, <3>3 DEF IInv, AdmitOK
    <3> QED BY <3>2, <3>3
  <2> QED BY <2>1 DEF AdmitOK
<1>10. BatchOK'
  <2>1. \A r \in Threads : BatchOpen(r)' => BatchOpen(r) /\ arg'[r] = arg[r]
    BY <1>2, <1>3 DEF BatchOpen
  <2> QED BY <1>4, <1>5, <2>1, BatchesKept
<1>11. Divided' /\ DequesOK'
  <2>1. \A r \in Threads : /\ call'[r] = "push" <=> call[r] = "push"
                           /\ call[r] = "push" => arg'[r] = arg[r]
    BY <1>1, <1>2, <1>3
  <2>2. Pushing' = Pushing BY <2>1 DEF Pushing
  <2> QED BY <1>1, <2>2, SamePlaces DEF IInv
<1>12. Started' = Started /\ Actives' = Actives /\ HeldOK' BY <1>1, Still
<1>13. Waiting' = Waiting /\ CountersAgree' BY <1>1, <1>12, SameCounts DEF IInv
<1>14. ExitOK' /\ WaitOK' BY <1>1, <1>12, <1>13, SameEnds
<1> QED BY <1>2, <1>6, <1>7, <1>8, <1>9, <1>10, <1>11, <1>12, <1>13, <1>14 DEF IInv

(* The step of a call after which one task more is admitted: it waits.      *)
LEMMA OneMoreWaits ==
  ASSUME IInv, NEW t \in Tasks, t \notin admitted, admitted' = admitted \cup {t},
         mPendingTasks' = mPendingTasks + 1, UNCHANGED <<mActiveTasks, finished, owed, mStop, pc, task>>,
         ~mStop, \A c \in Clients : t \notin owed[c]
  PROVE  /\ CountersAgree' /\ HeldOK' /\ ExitOK' /\ WaitOK' /\ Held' = Held
         /\ finished' \subseteq admitted' /\ admitted' \subseteq Tasks
<1>1. Started' = Started /\ Actives' = Actives /\ HeldOK' /\ Held' = Held BY Still
<1>2. Waiting' = Waiting \cup {t} /\ t \notin Waiting
  <2>1. t \notin Started /\ t \notin finished BY StartedAreHeld DEF IInv, TypeOK
  <2> QED BY <1>1, <2>1 DEF Waiting
<1>3. Cardinality(Waiting') = Cardinality(Waiting) + 1 BY <1>2, FiniteParts, FS_AddElement
<1>4. CountersAgree' BY <1>1, <1>3 DEF IInv, CountersAgree, Actives
<1>5. ExitOK' BY DEF IInv, ExitOK
<1>6. WaitOK' BY <1>1 DEF IInv, WaitOK
<1> QED BY <1>1, <1>4, <1>5, <1>6 DEF IInv, TypeOK

LEMMA SubmitAdmitKeeps ==
  ASSUME IInv, NEW s \in Threads, SubmitAdmit(s)
  PROVE  IInv'
<1> DEFINE t == Head(arg[s])
<1>1. /\ UNCHANGED <<mStop, mActiveTasks, mNextQueue, queues, mGlobalMutex, mIdle_mutex,
                     mShutdownMutex, pc, arg, task, mId, finished, owed, sawIdle>>
      /\ call[s] = "admit" /\ mSubmissionMutex = None /\ ~mStop /\ mSubmissionMutex' = s
      /\ mPendingTasks' = mPendingTasks + 1 /\ admitted' = admitted \cup {t} /\ CallTo(s, "push")
  BY DEF SubmitAdmit
<1>2. /\ call' \in [Threads -> CallLabels] /\ call'[s] = "push" /\ LabelsOK'
      /\ \A r \in Threads \ {s} : call'[r] = call[r]
  <2>1. "push" \in CallLabels BY DEF CallLabels
  <2> QED BY <1>1, <2>1, CallGoes DEF IInv
<1>3. arg[s] # << >> BY <1>1 DEF IInv, CallsOK
<1>4. t \in Tasks BY <1>3, HeadOfArg
<1>5. /\ t \in Used \ admitted /\ \A c \in Clients : t \notin owed[c]
      /\ \A r \in Threads \ {s} : call[r] = "admit" => Head(arg[r]) # t
  BY <1>1 DEF IInv, AdmitOK
<1>6. \A r \in Threads \ {s} : call[r] \notin Admitting BY <1>1, OneAdmitting
<1> HIDE DEF t
<1>7. /\ CountersAgree' /\ HeldOK' /\ ExitOK' /\ WaitOK' /\ Held' = Held
      /\ finished' \subseteq admitted' /\ admitted' \subseteq Tasks
  BY <1>1, <1>4, <1>5, OneMoreWaits
<1>8. TypeOK' BY <1>1, <1>2, <1>7 DEF IInv, TypeOK, LabelsOK, queues
<1>9. CallsOK'
  BY <1>1, <1>2, <1>3, <1>6 DEF IInv, CallsOK
<1>10. Used' = Used /\ IdsOK'
  <2>1. Used' = Used BY <1>1 DEF Used
  <2> QED BY <1>1, <1>5, <2>1 DEF IInv, IdsOK
<1>11. AdmitOK'
  <2>1. \A r \in Threads : call'[r] = "admit" => r # s /\ call[r] = "admit" /\ Head(arg[r]) # t
    BY <1>2, <1>5
  <2> QED BY <1>1, <1>10, <2>1 DEF IInv, AdmitOK
<1>12. BatchOK'
  <2>1. \A r \in Threads : BatchOpen(r)' => BatchOpen(r) /\ arg'[r] = arg[r]
    BY <1>1, <1>2 DEF BatchOpen
  <2> QED BY <1>1, <2>1, BatchesKept
<1>13. Pushing = {} /\ Pushing' = {t}
  <2>1. Pushing = {} BY <1>1, <1>6 DEF Pushing, Admitting
  <2>2. \A r \in Threads : call'[r] = "push" <=> r = s BY <1>2, <1>6 DEF Admitting
  <2>3. Pushing' = {t} BY <1>1, <1>4, <2>2 DEF Pushing, t
  <2> QED BY <2>1, <2>3
<1>14. Divided' /\ DequesOK'
  <2>1. mGlobalQueue' = mGlobalQueue /\ Queued' = Queued /\ DequesOK'
    BY <1>1 DEF queues, Queued, IInv, DequesOK
  <2> QED BY <1>1, <1>5, <1>7, <1>13, <2>1 DEF IInv, Divided
<1> QED BY <1>2, <1>7, <1>8, <1>9, <1>10, <1>11, <1>12, <1>14 DEF IInv

(* The push of a task into a queue ends, well or badly. *)
LEMMA PushEnds ==
  ASSUME IInv, NEW s \in Threads, call[s] = "push", NEW l \in {"notify", "abort"}, CallTo(s, l),
         UNCHANGED <<mStop, mSubmissionMutex, pc, arg, mId, owed>>, admitted' \subseteq admitted
  PROVE  LabelsOK' /\ CallsOK' /\ IdsOK' /\ AdmitOK' /\ BatchOK' /\ Pushing' = {}
<1>1. /\ call' \in [Threads -> CallLabels] /\ call'[s] = l /\ LabelsOK'
      /\ \A r \in Threads \ {s} : call'[r] = call[r]
  <2>1. l \in CallLabels BY DEF CallLabels
  <2> QED BY <2>1, CallGoes DEF IInv
<1>2. CallsOK' BY <1>1 DEF IInv, CallsOK, Admitting
<1>3. Used' = Used /\ IdsOK'
  <2>1. Used' = Used BY DEF Used
  <2> QED BY <2>1 DEF IInv, IdsOK
<1>4. AdmitOK' 
  <2>1. \A r \in Threads : call'[r] = "admit" => call[r] = "admit" BY <1>1
  <2> QED BY <1>3, <2>1 DEF IInv, AdmitOK
<1>5. BatchOK'
  <2>1. \A r \in Threads : BatchOpen(r)' => BatchOpen(r) /\ arg'[r] = arg[r]
    BY <1>1 DEF BatchOpen
  <2> QED BY <2>1, BatchesKept
<1>6. Pushing' = {}
  <2>1. \A r \in Threads \ {s} : call[r] \notin Admitting BY OnePusher
  <2>2. \A r \in Threads : call'[r] # "push" BY <1>1, <2>1 DEF Admitting
  <2> QED BY <2>2 DEF Pushing
<1> QED BY <1>1, <1>2, <1>3, <1>4, <1>5, <1>6

LEMMA SubmitPushGlobalKeeps ==
  ASSUME IInv, NEW s \in Threads, SubmitPushGlobal(s)
  PROVE  IInv'
<1> DEFINE t == Head(arg[s])
<1>1. /\ UNCHANGED <<mStop, mPendingTasks, mActiveTasks, mNextQueue, mWorkerQueues, mSubmissionMutex,
                     mGlobalMutex, mIdle_mutex, mShutdownMutex, pc, arg, task, mId, admitted,
                     finished, owed, sawIdle>>
      /\ call[s] = "push" /\ mGlobalQueue' = mGlobalQueue \cup {t} /\ CallTo(s, "notify")
  BY DEF SubmitPushGlobal, counters, locks, history
<1>2. LabelsOK' /\ CallsOK' /\ IdsOK' /\ AdmitOK' /\ BatchOK' /\ Pushing' = {}
  BY <1>1, PushEnds
<1>3. Pushing = {t} /\ t \in Tasks BY <1>1, OnePusher
<1> HIDE DEF t
<1>4. TypeOK' BY <1>1, <1>2, <1>3 DEF IInv, TypeOK, LabelsOK
<1>5. Started' = Started /\ Actives' = Actives /\ HeldOK' /\ Held' = Held BY <1>1, Still
<1>6. Waiting' = Waiting /\ CountersAgree' BY <1>1, <1>5, SameCounts DEF IInv
<1>7. ExitOK' /\ WaitOK' BY <1>1, <1>5, <1>6, SameEnds
<1>8. Queued' = Queued /\ DequesOK' BY <1>1 DEF Queued, IInv, DequesOK
<1>9. Divided' BY <1>1, <1>2, <1>3, <1>5, <1>8 DEF IInv, Divided
<1> QED BY <1>2, <1>4, <1>5, <1>6, <1>7, <1>8, <1>9 DEF IInv

(* A deque gets a task at its back. *)
LEMMA DequeGains ==
  ASSUME mWorkerQueues \in [Workers -> Seq(Tasks)], DequesOK, NEW v \in Workers,
         NEW t \in Tasks, t \notin Queued,
         mWorkerQueues' = [mWorkerQueues EXCEPT ![v] = Append(mWorkerQueues[v], t)]
  PROVE  /\ DequesOK' /\ mWorkerQueues' \in [Workers -> Seq(Tasks)]
         /\ Queued' = Queued \cup {t}
<1> DEFINE old == mWorkerQueues[v]
           q == Append(old, t)
<1>1. /\ old \in Seq(Tasks) /\ Len(old) \in Nat /\ DOMAIN old = 1 .. Len(old)
      /\ q \in Seq(Tasks) /\ DOMAIN q = 1 .. Len(old) + 1 /\ q[Len(old) + 1] = t
      /\ \A i \in 1 .. Len(old) : q[i] = old[i]
  OBVIOUS
<1>2. mWorkerQueues'[v] = q /\ mWorkerQueues' \in [Workers -> Seq(Tasks)]
      /\ \A u \in Workers \ {v} : mWorkerQueues'[u] = mWorkerQueues[u]
  BY <1>1
<1>3. \A u \in Workers : \A i \in DOMAIN mWorkerQueues[u] : mWorkerQueues[u][i] # t
  BY DEF Queued
<1> HIDE DEF q
(* A place of the new deques is an old one, or the new one. *)
<1>4. ASSUME NEW u \in Workers, NEW i \in DOMAIN mWorkerQueues'[u]
      PROVE  \/ i \in DOMAIN mWorkerQueues[u] /\ mWorkerQueues'[u][i] = mWorkerQueues[u][i]
             \/ u = v /\ i = Len(old) + 1 /\ mWorkerQueues'[u][i] = t
  <2>1. CASE u = v
    <3>1. i \in 1 .. Len(old) + 1 BY <1>1, <1>2, <2>1
    <3>2. i \in 1 .. Len(old) \/ i = Len(old) + 1 BY <1>1, <3>1
    <3> QED BY <1>1, <1>2, <2>1, <3>2
  <2>2. CASE u # v BY <1>2, <2>2
  <2> QED BY <2>1, <2>2
<1>5. DequesOK'
  <2>1. ASSUME NEW x \in Workers, NEW y \in Workers, NEW i \in DOMAIN mWorkerQueues'[x],
               NEW j \in DOMAIN mWorkerQueues'[y], mWorkerQueues'[x][i] = mWorkerQueues'[y][j]
        PROVE  x = y /\ i = j
    BY <1>3, <1>4, <2>1 DEF DequesOK
  <2> QED BY <2>1 DEF DequesOK
<1>6. \A u \in Workers : \A i \in DOMAIN mWorkerQueues[u] :
         i \in DOMAIN mWorkerQueues'[u] /\ mWorkerQueues'[u][i] = mWorkerQueues[u][i]
  <2> TAKE u \in Workers
  <2> TAKE i \in DOMAIN mWorkerQueues[u]
  <2>1. CASE u = v
    <3>1. i \in 1 .. Len(old) BY <1>1, <2>1
    <3>2. i \in 1 .. Len(old) + 1 BY <1>1, <3>1
    <3> QED BY <1>1, <1>2, <2>1, <3>1, <3>2
  <2>2. CASE u # v BY <1>2, <2>2
  <2> QED BY <2>1, <2>2
<1>7. Queued \subseteq Queued'
  <2>1. ASSUME NEW x \in Queued PROVE x \in Queued'
    <3>1. PICK u \in Workers : \E i \in DOMAIN mWorkerQueues[u] : mWorkerQueues[u][i] = x
      BY DEF Queued
    <3>2. PICK i \in DOMAIN mWorkerQueues[u] : mWorkerQueues[u][i] = x BY <3>1
    <3>3. x \in Tasks BY DEF Queued
    <3> QED BY <1>6, <3>2, <3>3 DEF Queued
  <2> QED BY <2>1
<1>8. t \in Queued'
  <2>1. Len(old) + 1 \in DOMAIN mWorkerQueues'[v] /\ mWorkerQueues'[v][Len(old) + 1] = t
    BY <1>1, <1>2
  <2> QED BY <2>1 DEF Queued
<1>9. Queued' \subseteq Queued \cup {t}
  <2>1. ASSUME NEW x \in Queued', x # t PROVE x \in Queued
    <3>1. PICK u \in Workers : \E i \in DOMAIN mWorkerQueues'[u] : mWorkerQueues'[u][i] = x
      BY DEF Queued
    <3>2. PICK i \in DOMAIN mWorkerQueues'[u] : mWorkerQueues'[u][i] = x BY <3>1
    <3>3. x \in Tasks BY DEF Queued
    <3>4. i \in DOMAIN mWorkerQueues[u] /\ mWorkerQueues[u][i] = x BY <1>4, <2>1, <3>2
    <3> QED BY <3>3, <3>4 DEF Queued
  <2> QED BY <2>1
<1> QED BY <1>2, <1>5, <1>7, <1>8, <1>9

LEMMA SubmitPushLocalKeeps ==
  ASSUME IInv, NEW s \in Threads, SubmitPushLocal(s)
  PROVE  IInv'
<1> DEFINE t == Head(arg[s])
           v == mNextQueue % NumThreads
<1>1. /\ UNCHANGED <<mStop, mPendingTasks, mActiveTasks, mGlobalQueue, mSubmissionMutex,
                     mGlobalMutex, mIdle_mutex, mShutdownMutex, pc, arg, task, mId, admitted,
                     finished, owed, sawIdle>>
      /\ call[s] = "push" /\ mNextQueue' = mNextQueue + 1 /\ CallTo(s, "notify")
  BY DEF SubmitPushLocal, locks, history
<1>2. LabelsOK' /\ CallsOK' /\ IdsOK' /\ AdmitOK' /\ BatchOK' /\ Pushing' = {}
  BY <1>1, PushEnds
<1>3. Pushing = {t} /\ t \in Tasks BY <1>1, OnePusher
<1>4. v \in Workers BY Basics DEF IInv, TypeOK
<1>5. mWorkerQueues \in [Workers -> Seq(Tasks)] /\ DequesOK BY DEF IInv, TypeOK
<1>6. mWorkerQueues' = [mWorkerQueues EXCEPT ![v] = Append(mWorkerQueues[v], t)]
  BY <1>4, <1>5 DEF SubmitPushLocal
<1>7. t \notin Queued BY <1>3 DEF IInv, Divided
<1> HIDE DEF t, v
<1>8. DequesOK' /\ mWorkerQueues' \in [Workers -> Seq(Tasks)] /\ Queued' = Queued \cup {t}
  BY <1>3, <1>4, <1>5, <1>6, <1>7, DequeGains
<1>9. TypeOK' BY <1>1, <1>2, <1>8 DEF IInv, TypeOK, LabelsOK
<1>10. Started' = Started /\ Actives' = Actives /\ HeldOK' /\ Held' = Held BY <1>1, Still
<1>11. Waiting' = Waiting /\ CountersAgree' BY <1>1, <1>10, SameCounts DEF IInv
<1>12. ExitOK' /\ WaitOK' BY <1>1, <1>10, <1>11, SameEnds
<1>13. Divided' BY <1>1, <1>2, <1>3, <1>8, <1>10 DEF IInv, Divided
<1> QED BY <1>2, <1>8, <1>9, <1>10, <1>11, <1>12, <1>13 DEF IInv

(* The allocation fails: the handler takes the task back. *)
LEMMA SubmitPushThrowsKeeps ==
  ASSUME IInv, NEW s \in Threads, SubmitPushThrows(s)
  PROVE  IInv'
<1> DEFINE t == Head(arg[s])
<1>1. /\ UNCHANGED <<mStop, mActiveTasks, queues, mSubmissionMutex, mGlobalMutex, mIdle_mutex,
                     mShutdownMutex, pc, arg, task, mId, finished, owed>>
      /\ call[s] = "push" /\ mNextQueue' \in {mNextQueue, mNextQueue + 1}
      /\ mPendingTasks' = mPendingTasks - 1 /\ admitted' = admitted \ {t} /\ CallTo(s, "abort")
  BY DEF SubmitPushThrows, locks
<1>2. LabelsOK' /\ CallsOK' /\ IdsOK' /\ AdmitOK' /\ BatchOK' /\ Pushing' = {}
  BY <1>1, PushEnds
<1>3. Pushing = {t} /\ t \in Tasks /\ ~mStop BY <1>1, OnePusher
<1>4. sawIdle' \subseteq Clients BY DEF SubmitPushThrows, Witness, IInv, TypeOK
<1> HIDE DEF t
<1>5. Started' = Started /\ Actives' = Actives /\ HeldOK' /\ Held' = Held BY <1>1, Still
<1>6. t \in admitted /\ t \notin mGlobalQueue \cup Queued \cup Held \cup finished
  BY <1>3 DEF IInv, Divided
<1>7. Waiting' = Waiting \ {t} /\ t \in Waiting
  <2>1. t \notin Started BY <1>6, StartedAreHeld
  <2> QED BY <1>1, <1>5, <1>6, <2>1 DEF Waiting
<1>8. /\ Cardinality(Waiting') = Cardinality(Waiting) - 1 /\ Cardinality(Waiting) \in Nat
      /\ Cardinality(Waiting) # 0
  <2>1. Cardinality(Waiting') = Cardinality(Waiting) - 1
    BY <1>7, FiniteParts, FS_RemoveElement
  <2>2. Cardinality(Waiting) \in Nat BY FiniteParts, FS_CardinalityType
  <2>3. Cardinality(Waiting) # 0 BY <1>7, FiniteParts, FS_EmptySet
  <2> QED BY <2>1, <2>2, <2>3
<1>9. CountersAgree' /\ mPendingTasks' \in Nat
  BY <1>1, <1>5, <1>8 DEF IInv, CountersAgree, Actives
<1>10. TypeOK'
  <2>1. finished' \subseteq admitted' /\ admitted' \subseteq Tasks
    BY <1>1, <1>6 DEF IInv, TypeOK
  <2>2. mNextQueue' \in Nat BY <1>1 DEF IInv, TypeOK
  <2> QED BY <1>1, <1>2, <1>4, <1>9, <2>1, <2>2 DEF IInv, TypeOK, LabelsOK, queues
<1>11. ExitOK' /\ WaitOK'
  <2>1. Waiting = {} => Waiting' = {} BY <1>7
  <2>2. admitted' \ admitted = {} BY <1>1
  <2> QED BY <1>1, <1>5, <2>1, <2>2, SameEnds
<1>12. Queued' = Queued /\ DequesOK' /\ mGlobalQueue' = mGlobalQueue
  BY <1>1 DEF Queued, IInv, DequesOK, queues
<1>13. Divided' BY <1>1, <1>2, <1>3, <1>5, <1>6, <1>12 DEF IInv, Divided
<1> QED BY <1>2, <1>5, <1>9, <1>10, <1>11, <1>12, <1>13 DEF IInv

LEMMA BatchCallKeeps ==
  ASSUME IInv, NEW c \in Clients, NEW batch \in Batches, BatchCall(c, batch)
  PROVE  IInv'
<1>1. /\ UNCHANGED <<mStop, mPendingTasks, mActiveTasks, mNextQueue, mSubmissionMutex, mGlobalMutex,
                     mIdle_mutex, mShutdownMutex, admitted, finished, owed, sawIdle>>
      /\ UNCHANGED <<queues, pc, task, mId>> /\ call[c] = "none" /\ pc[c] = "idle"
      /\ \A i \in DOMAIN batch : mId[batch[i]] = 0
      /\ \A s \in Threads : arg[s] # batch
      /\ arg' = [arg EXCEPT ![c] = batch] /\ CallTo(c, "batchAdmit") /\ c \in Threads /\ c \notin Workers
  BY Basics DEF BatchCall, counters, locks, history
<1>2. /\ call' \in [Threads -> CallLabels] /\ call'[c] = "batchAdmit" /\ LabelsOK'
      /\ \A r \in Threads \ {c} : call'[r] = call[r]
  <2>1. "batchAdmit" \in CallLabels BY DEF CallLabels
  <2> QED BY <1>1, <2>1, CallGoes DEF IInv
<1>3. batch \in Seq(Tasks) BY TasksAssumption
<1>4. arg' \in [Threads -> Seq(Tasks)] /\ arg'[c] = batch
      /\ \A r \in Threads \ {c} : arg'[r] = arg[r]
  <2>1. arg \in [Threads -> Seq(Tasks)] BY DEF IInv, TypeOK
  <2> QED BY <1>1, <1>3, <2>1
<1>5. TypeOK' BY <1>1, <1>2, <1>4 DEF IInv, TypeOK, LabelsOK, queues
<1>6. CallsOK' BY <1>1, <1>2, <1>4 DEF IInv, CallsOK, Admitting
<1>7. Used' = Used /\ IdsOK'
  <2>1. Used' = Used BY <1>1 DEF Used
  <2> QED BY <1>1, <2>1 DEF IInv, IdsOK
<1>8. AdmitOK'
  <2>1. \A r \in Threads : call'[r] = "admit" => call[r] = "admit" /\ arg'[r] = arg[r]
    BY <1>2, <1>4
  <2> QED BY <1>1, <1>7, <2>1 DEF IInv, AdmitOK
<1>9. \A r \in Threads \ {c} : BatchOpen(r)' => BatchOpen(r) /\ arg'[r] = arg[r]
  BY <1>2, <1>4 DEF BatchOpen
(* An open batch that shared a task with this one would be this one, which  *)
(* is neither still whole nor begun.                                        *)
<1>10. ASSUME NEW d \in Threads \ {c}, BatchOpen(d), NEW i \in DOMAIN batch, NEW j \in DOMAIN arg[d]
       PROVE  batch[i] # arg[d][j]
  <2>1. PICK b \in Batches : /\ \A k \in DOMAIN arg[d] : \E m \in DOMAIN b : arg[d][k] = b[m]
                             /\ arg[d] = b \/ \E m \in DOMAIN b : mId[b[m]] # 0
    BY <1>10 DEF IInv, BatchOK
  <2>2. b # batch BY <1>1, <2>1
  <2>3. PICK m \in DOMAIN b : arg[d][j] = b[m] BY <2>1
  <2>4. batch[i] # b[m] BY <2>2, BatchesAssumption
  <2> QED BY <2>3, <2>4
<1>11. BatchOK'
  <2>1. SUFFICES ASSUME NEW r \in Threads, BatchOpen(r)'
                 PROVE  /\ r \in Clients
                        /\ \A i \in DOMAIN arg'[r] : mId'[arg'[r][i]] = 0
                        /\ \A i, j \in DOMAIN arg'[r] : arg'[r][i] = arg'[r][j] => i = j
                        /\ \A d \in Threads \ {r} : BatchOpen(d)' =>
                             \A i \in DOMAIN arg'[r], j \in DOMAIN arg'[d] : arg'[r][i] # arg'[d][j]
                        /\ \E b \in Batches :
                             /\ \A i \in DOMAIN arg'[r] : \E j \in DOMAIN b : arg'[r][i] = b[j]
                             /\ arg'[r] = b \/ \E j \in DOMAIN b : mId'[b[j]] # 0
    BY DEF BatchOK
  <2>2. CASE r = c
    <3>1. \A i, j \in DOMAIN batch : batch[i] = batch[j] => i = j BY BatchesAssumption
    <3>2. ASSUME NEW d \in Threads \ {c}, BatchOpen(d)', NEW i \in DOMAIN batch,
                 NEW j \in DOMAIN arg'[d]
          PROVE  batch[i] # arg'[d][j]
      BY <1>9, <1>10, <3>2
    <3> QED BY <1>1, <1>4, <2>2, <3>1, <3>2
  <2>3. CASE r # c
    <3>1. BatchOpen(r) /\ arg'[r] = arg[r] BY <1>9, <2>1, <2>3
    <3>2. ASSUME NEW d \in Threads \ {r}, BatchOpen(d)', NEW i \in DOMAIN arg'[r],
                 NEW j \in DOMAIN arg'[d]
          PROVE  arg'[r][i] # arg'[d][j]
      <4>1. CASE d = c BY <1>4, <1>10, <2>3, <3>1, <3>2, <4>1
      <4>2. CASE d # c
        <5>1. BatchOpen(d) /\ arg'[d] = arg[d] BY <1>9, <3>2, <4>2
        <5> QED BY <3>1, <3>2, <5>1 DEF IInv, BatchOK
      <4> QED BY <4>1, <4>2
    <3>3. /\ r \in Clients
          /\ \A i \in DOMAIN arg[r] : mId[arg[r][i]] = 0
          /\ \A i, j \in DOMAIN arg[r] : arg[r][i] = arg[r][j] => i = j
          /\ \E b \in Batches :
               /\ \A i \in DOMAIN arg[r] : \E j \in DOMAIN b : arg[r][i] = b[j]
               /\ arg[r] = b \/ \E j \in DOMAIN b : mId[b[j]] # 0
      BY <3>1 DEF IInv, BatchOK
    <3> QED BY <1>1, <3>1, <3>2, <3>3
  <2> QED BY <2>2, <2>3
<1>12. Divided' /\ DequesOK'
  <2>1. \A r \in Threads : /\ call'[r] = "push" <=> call[r] = "push"
                           /\ call[r] = "push" => arg'[r] = arg[r]
    BY <1>1, <1>2, <1>4
  <2>2. Pushing' = Pushing BY <2>1 DEF Pushing
  <2> QED BY <1>1, <2>2, SamePlaces DEF IInv
<1>13. Started' = Started /\ Actives' = Actives /\ HeldOK' BY <1>1, Still
<1>14. Waiting' = Waiting /\ CountersAgree' BY <1>1, <1>13, SameCounts DEF IInv
<1>15. ExitOK' /\ WaitOK' BY <1>1, <1>13, <1>14, SameEnds
<1> QED BY <1>2, <1>5, <1>6, <1>7, <1>8, <1>11, <1>12, <1>13, <1>14, <1>15 DEF IInv

(* One task of a batch is numbered, admitted and queued. *)
LEMMA BatchPushKeeps ==
  ASSUME IInv, NEW c \in Clients, BatchPush(c)
  PROVE  IInv'
<1> DEFINE t == Head(arg[c])
<1>1. /\ UNCHANGED <<mStop, mActiveTasks, mNextQueue, mWorkerQueues, mSubmissionMutex, mGlobalMutex,
                     mIdle_mutex, mShutdownMutex, pc, call, task, finished, owed, sawIdle>>
      /\ call[c] = "batchPush" /\ arg[c] # << >> /\ c \in Threads /\ c \notin Workers
      /\ mId' = [mId EXCEPT ![t] = NextId] /\ mGlobalQueue' = mGlobalQueue \cup {t}
      /\ admitted' = admitted \cup {t} /\ mPendingTasks' = mPendingTasks + 1
      /\ arg' = [arg EXCEPT ![c] = Tail(arg[c])]
  <2>1. arg \in [Threads -> Seq(Tasks)] /\ c \in Threads /\ c \notin Workers
    BY Basics DEF IInv, TypeOK
  <2> QED BY <2>1 DEF BatchPush, locks
<1>2. BatchOpen(c) /\ ~mStop BY <1>1 DEF BatchOpen, IInv, CallsOK, Admitting
<1>3. /\ arg[c] \in Seq(Tasks) /\ Len(arg[c]) \in Nat /\ t = arg[c][1] /\ 1 \in DOMAIN arg[c]
      /\ Tail(arg[c]) \in Seq(Tasks) /\ t \in Tasks
      /\ \A i \in DOMAIN Tail(arg[c]) : /\ i + 1 \in DOMAIN arg[c] /\ i + 1 # 1
                                        /\ Tail(arg[c])[i] = arg[c][i + 1] /\ i \in Nat
  BY <1>1 DEF IInv, TypeOK
<1>4. mId[t] = 0 BY <1>1, <1>2, <1>3 DEF IInv, BatchOK
<1>5. arg' \in [Threads -> Seq(Tasks)] /\ arg'[c] = Tail(arg[c])
      /\ \A r \in Threads \ {c} : arg'[r] = arg[r]
  <2>1. arg \in [Threads -> Seq(Tasks)] BY DEF IInv, TypeOK
  <2> QED BY <1>1, <1>3, <2>1
<1> HIDE DEF t
<1>6. /\ mId' \in [Tasks -> Nat] /\ Used' = Used \cup {t} /\ t \notin Used
      /\ \A u \in Tasks \ {t} : mId'[u] = mId[u]
      /\ \A u \in Tasks : mId'[u] <= Cardinality(Used')
      /\ \A u, v \in Used' : mId'[u] = mId'[v] => u = v
  BY <1>1, <1>3, <1>4, NewNumber
<1>7. t \notin admitted /\ \A d \in Clients : t \notin owed[d] BY <1>6 DEF IInv, IdsOK
<1>8. /\ CountersAgree' /\ HeldOK' /\ ExitOK' /\ WaitOK' /\ Held' = Held
      /\ finished' \subseteq admitted' /\ admitted' \subseteq Tasks
  BY <1>1, <1>2, <1>3, <1>7, OneMoreWaits
<1>9. LabelsOK' BY <1>1 DEF IInv, LabelsOK
<1>10. TypeOK'
  <2>1. mGlobalQueue' \subseteq Tasks BY <1>1, <1>3 DEF IInv, TypeOK
  <2> QED BY <1>1, <1>5, <1>6, <1>8, <1>9, <2>1 DEF IInv, TypeOK, LabelsOK
<1>11. CallsOK'
  <2>1. \A r \in Threads : call[r] \in {"admit", "push"} => arg'[r] = arg[r] BY <1>1, <1>5
  <2> QED BY <1>1, <2>1 DEF IInv, CallsOK
<1>12. IdsOK' BY <1>1, <1>6 DEF IInv, IdsOK
<1>13. AdmitOK'
  <2>1. \A r \in Threads : call'[r] = "admit" =>
          /\ call[r] = "admit" /\ Head(arg'[r]) = Head(arg[r]) /\ Head(arg[r]) \in Used \ admitted
          /\ Head(arg[r]) # t
    BY <1>1, <1>5, <1>6 DEF IInv, AdmitOK
  <2> QED BY <1>1, <1>6, <2>1 DEF IInv, AdmitOK
<1>14. \A r \in Threads : BatchOpen(r)' <=> BatchOpen(r) BY <1>1 DEF BatchOpen
(* What is left of an open batch is a part of what was left. *)
<1>15. ASSUME NEW r \in Threads, BatchOpen(r), NEW i \in DOMAIN arg'[r]
       PROVE  /\ arg'[r][i] # t
              /\ \E k \in DOMAIN arg[r] : arg'[r][i] = arg[r][k]
  <2>1. CASE r = c
    <3>1. i + 1 \in DOMAIN arg[c] /\ i + 1 # 1 /\ arg'[c][i] = arg[c][i + 1]
      BY <1>3, <1>5, <1>15, <2>1
    <3>2. arg[c][i + 1] # arg[c][1] BY <1>1, <1>2, <1>3, <3>1 DEF IInv, BatchOK
    <3> QED BY <1>3, <2>1, <3>1, <3>2
  <2>2. CASE r # c
    <3>1. arg'[r] = arg[r] BY <1>5, <2>2
    <3>2. arg[r][i] # arg[c][1] BY <1>1, <1>2, <1>3, <1>15, <2>2, <3>1 DEF IInv, BatchOK
    <3> QED BY <1>3, <1>15, <3>1, <3>2
  <2> QED BY <2>1, <2>2
<1>16. BatchOK'
  <2>1. SUFFICES ASSUME NEW r \in Threads, BatchOpen(r)'
                 PROVE  /\ r \in Clients
                        /\ \A i \in DOMAIN arg'[r] : mId'[arg'[r][i]] = 0
                        /\ \A i, j \in DOMAIN arg'[r] : arg'[r][i] = arg'[r][j] => i = j
                        /\ \A d \in Threads \ {r} : BatchOpen(d)' =>
                             \A i \in DOMAIN arg'[r], j \in DOMAIN arg'[d] : arg'[r][i] # arg'[d][j]
                        /\ \E b \in Batches :
                             /\ \A i \in DOMAIN arg'[r] : \E j \in DOMAIN b : arg'[r][i] = b[j]
                             /\ arg'[r] = b \/ \E j \in DOMAIN b : mId'[b[j]] # 0
    BY DEF BatchOK
  <2>2. BatchOpen(r) BY <1>14, <2>1
  <2>3. r \in Clients BY <2>2 DEF IInv, BatchOK
  <2>4. ASSUME NEW i \in DOMAIN arg'[r] PROVE mId'[arg'[r][i]] = 0
    <3>1. PICK k \in DOMAIN arg[r] : arg'[r][i] = arg[r][k] BY <1>15, <2>2
    <3>2. arg[r][k] \in Tasks /\ mId[arg[r][k]] = 0 BY <2>2, ArgOfBatch DEF IInv, BatchOK
    <3> QED BY <1>6, <1>15, <2>2, <3>1, <3>2
  <2>5. ASSUME NEW i \in DOMAIN arg'[r], NEW j \in DOMAIN arg'[r], arg'[r][i] = arg'[r][j]
        PROVE  i = j
    <3>1. CASE r = c
      <4>1. /\ i + 1 \in DOMAIN arg[c] /\ j + 1 \in DOMAIN arg[c] /\ arg[c][i + 1] = arg[c][j + 1]
            /\ i \in Nat /\ j \in Nat
        BY <1>3, <1>5, <2>5, <3>1
      <4>2. i + 1 = j + 1 BY <1>1, <1>2, <4>1 DEF IInv, BatchOK
      <4> QED BY <4>1, <4>2
    <3>2. CASE r # c
      <4>1. arg'[r] = arg[r] BY <1>5, <3>2
      <4> QED BY <2>2, <2>5, <4>1 DEF IInv, BatchOK
    <3> QED BY <3>1, <3>2
  <2>6. ASSUME NEW d \in Threads \ {r}, BatchOpen(d)', NEW i \in DOMAIN arg'[r],
               NEW j \in DOMAIN arg'[d]
        PROVE  arg'[r][i] # arg'[d][j]
    <3>1. BatchOpen(d) BY <1>14, <2>6
    <3>2. PICK k \in DOMAIN arg[r] : arg'[r][i] = arg[r][k] BY <1>15, <2>2
    <3>3. PICK m \in DOMAIN arg[d] : arg'[d][j] = arg[d][m] BY <1>15, <3>1
    <3>4. arg[r][k] # arg[d][m] BY <2>2, <3>1 DEF IInv, BatchOK
    <3> QED BY <3>2, <3>3, <3>4
  <2>7. PICK b \in Batches : /\ \A k \in DOMAIN arg[r] : \E j \in DOMAIN b : arg[r][k] = b[j]
                             /\ arg[r] = b \/ \E j \in DOMAIN b : mId[b[j]] # 0
    BY <2>2 DEF IInv, BatchOK
  <2>8. \A i \in DOMAIN arg'[r] : \E j \in DOMAIN b : arg'[r][i] = b[j] BY <1>15, <2>2, <2>7
  <2>9. ASSUME NEW j \in DOMAIN b PROVE b[j] \in Tasks /\ (mId[b[j]] # 0 => mId'[b[j]] # 0)
    <3>1. b \in Seq(Tasks) BY TasksAssumption
    <3>2. b[j] \in Tasks BY <3>1
    <3> QED BY <1>4, <1>6, <3>2
  <2>10. arg'[r] = b \/ \E j \in DOMAIN b : mId'[b[j]] # 0
    <3>1. CASE r = c
      <4>1. PICK j \in DOMAIN b : t = b[j] BY <1>3, <2>7, <3>1
      <4>2. mId'[t] # 0 BY <1>6 DEF Used
      <4> QED BY <4>1, <4>2
    <3>2. CASE r # c BY <1>5, <2>7, <2>9, <3>2
    <3> QED BY <3>1, <3>2
  <2> QED BY <2>3, <2>4, <2>5, <2>6, <2>8, <2>10
<1>17. DequesOK' /\ Queued' = Queued BY <1>1 DEF IInv, DequesOK, Queued
<1>18. Pushing' = Pushing
  <2>1. \A r \in Threads : /\ call'[r] = call[r] 
                           /\ call[r] = "push" => arg'[r] = arg[r]
    BY <1>1, <1>5
  <2> QED BY <2>1 DEF Pushing
<1>19. Divided' BY <1>1, <1>7, <1>8, <1>17, <1>18 DEF IInv, Divided
<1> QED BY <1>8, <1>9, <1>10, <1>11, <1>12, <1>13, <1>16, <1>17, <1>19 DEF IInv

-----------------------------------------------------------------------------
LEMMA InitOK ==
  ASSUME Init
  PROVE  IInv
<1> USE DEF Init
<1>1. pc = [t \in Threads |-> IF t \in Workers THEN "popGlobal" ELSE "idle"] OBVIOUS
<1>2. LabelsOK
  <2>1. \A w \in Workers : w \in Threads /\ pc[w] = "popGlobal" BY Basics
  <2>2. \A c \in Clients : c \in Threads /\ pc[c] = "idle" BY Basics
  <2>3. pc \in [Threads -> WorkerLabels \cup ClientLabels] BY DEF WorkerLabels, ClientLabels
  <2>4. call \in [Threads -> CallLabels] BY DEF CallLabels
  <2> QED BY <2>1, <2>2, <2>3, <2>4 DEF LabelsOK, WorkerLabels, ClientLabels
<1>3. TypeOK
  <2>1. << >> \in Seq(Tasks) OBVIOUS
  <2>2. mWorkerQueues \in [Workers -> Seq(Tasks)] /\ arg \in [Threads -> Seq(Tasks)] BY <2>1
  <2>3. task \in [Workers -> Tasks \cup {None}] /\ mId \in [Tasks -> Nat] OBVIOUS
  <2>4. owed \in [Clients -> SUBSET Tasks] OBVIOUS
  <2>5. DOMAIN pc = Threads /\ DOMAIN call = Threads OBVIOUS
  <2> QED BY <2>2, <2>3, <2>4, <2>5 DEF TypeOK
<1>4. CallsOK BY DEF CallsOK, Admitting
<1>5. Used = {} BY DEF Used
<1>6. IdsOK BY <1>5, FS_EmptySet DEF IdsOK
<1>7. AdmitOK /\ BatchOK BY DEF AdmitOK, BatchOK, BatchOpen
<1>8. Pushing = {} /\ Queued = {} /\ Held = {}
  <2>1. Pushing = {} BY DEF Pushing
  <2>2. \A w \in Workers : DOMAIN mWorkerQueues[w] = {} OBVIOUS
  <2>3. Queued = {} BY <2>2 DEF Queued
  <2>4. Held = {} BY Basics DEF Held
  <2> QED BY <2>1, <2>3, <2>4
<1>9. Divided /\ DequesOK BY <1>8 DEF Divided, DequesOK
<1>10. \A w \in Workers : pc[w] = "popGlobal" BY Basics
<1>11. HeldOK BY <1>10 DEF HeldOK
<1>12. Waiting = {} /\ Actives = {} BY <1>10 DEF Waiting, Actives
<1>13. CountersAgree BY <1>12, FS_EmptySet DEF CountersAgree, Actives
<1>14. \A c \in Clients : pc[c] = "idle" BY Basics
<1>15. ExitOK /\ WaitOK BY <1>10, <1>14 DEF ExitOK, WaitOK
<1> QED BY <1>2, <1>3, <1>4, <1>6, <1>7, <1>9, <1>11, <1>13, <1>15 DEF IInv

LEMMA StutterKeeps ==
  ASSUME IInv, UNCHANGED vars
  PROVE  IInv'
<1>1. Quiet
  BY DEF vars, counters, queues, locks, threads, history, Quiet, IInv, TypeOK, LabelsOK
<1> QED BY <1>1, QuietKeeps

LEMMA NextKeeps ==
  ASSUME IInv, [Next]_vars
  PROVE  IInv'
<1>1. ASSUME NEW s \in Threads, NEW t \in Tasks, SubmitCall(s, t) PROVE IInv'
  BY <1>1, SubmitCallKeeps
<1>2. ASSUME NEW s \in Threads, SubmitStep(s) PROVE IInv'
  BY <1>2, PassesKeep, SubmitAdmitKeeps, SubmitPushGlobalKeeps, SubmitPushLocalKeeps,
     SubmitPushThrowsKeeps DEF SubmitStep
<1>3. ASSUME NEW c \in Clients, NEW b \in Batches, BatchCall(c, b) PROVE IInv'
  BY <1>3, BatchCallKeeps
<1>4. ASSUME NEW c \in Clients, BatchStep(c) PROVE IInv'
  <2>1. c \in Threads BY Basics
  <2> QED BY <1>4, <2>1, PassesKeep, BatchPushKeeps DEF BatchStep
<1>5. ASSUME NEW w \in Workers, WorkerStep(w) PROVE IInv'
  <2>1. \/ PopGlobal(w) \/ PopLocal(w) \/ (\E v \in Workers : Steal(w, v))
        \/ CountActive(w) \/ UncountPending(w) \/ FinishTask(w) \/ Quiet
    BY <1>5, ScanIsQuiet DEF WorkerStep
  <2> QED BY <2>1, PopGlobalKeeps, PopLocalKeeps, StealKeeps, CountActiveKeeps,
             UncountPendingKeeps, FinishTaskKeeps, QuietKeeps
<1>6. ASSUME NEW c \in MayWait, WaitCall(c) \/ WaitStep(c) PROVE IInv'
  BY <1>6, Basics, ClientIsQuiet, QuietKeeps DEF WaitStep
<1>7. ASSUME NEW c \in MayShutdown, ShutdownCall(c) \/ ShutdownStep(c) PROVE IInv'
  BY <1>7, Basics, ClientIsQuiet, QuietKeeps DEF ShutdownStep
<1>8. CASE Next BY <1>1, <1>2, <1>3, <1>4, <1>5, <1>6, <1>7, <1>8 DEF Next
<1> QED BY <1>8, StutterKeeps

(* The invariant is inductive: it holds in every reachable state, for any   *)
(* number of threads and any finite set of tasks.                           *)
THEOREM Inductive == Spec => []IInv
<1>1. Init => IInv BY InitOK
<1>2. IInv /\ [Next]_vars => IInv' BY NextKeeps
<1> QED BY <1>1, <1>2, PTL DEF Spec

-----------------------------------------------------------------------------
(* The places of EachTaskInOnePlace are the parts of Divided. *)

LEMMA PlacesOf ==
  ASSUME IInv, NEW t \in Tasks
  PROVE  \A p : p \in Places(t) <=>
           \/ \E s \in Threads : call[s] = "push" /\ Head(arg[s]) = t /\ p = <<"pushing", s>>
           \/ t \in mGlobalQueue /\ p = <<"global", 0>>
           \/ \E w \in Workers : \E i \in DOMAIN mWorkerQueues[w] :
                mWorkerQueues[w][i] = t /\ p = <<"local", w, i>>
           \/ \E w \in Workers : task[w] = t /\ p = <<"held", w>>
           \/ t \in finished /\ p = <<"finished", 0>>
<1> DEFINE A == {<<"pushing", s>> : s \in {u \in Threads : call[u] = "push" /\ Head(arg[u]) = t}}
           B == {<<"global", 0>> : x \in {t} \cap mGlobalQueue}
           L(w) == {<<"local", w, i>> : i \in {j \in DOMAIN mWorkerQueues[w] :
                                                mWorkerQueues[w][j] = t}}
           C == UNION {L(w) : w \in Workers}
           D == {<<"held", w>> : w \in {v \in Workers : task[v] = t}}
           E == {<<"finished", 0>> : x \in {t} \cap finished}
<1>1. Places(t) = A \cup B \cup C \cup D \cup E BY DEF Places
<1> TAKE p
<1>2. p \in A <=> \E s \in Threads : call[s] = "push" /\ Head(arg[s]) = t /\ p = <<"pushing", s>>
  BY Zenon
<1>3. p \in B <=> t \in mGlobalQueue /\ p = <<"global", 0>> BY Zenon
<1>4. p \in C <=> \E w \in Workers : \E i \in DOMAIN mWorkerQueues[w] :
                     mWorkerQueues[w][i] = t /\ p = <<"local", w, i>>
  <2>1. \A w : p \in L(w) <=> \E i \in DOMAIN mWorkerQueues[w] :
                                mWorkerQueues[w][i] = t /\ p = <<"local", w, i>>
    BY Zenon
  <2> HIDE DEF L
  <2>2. p \in C <=> \E w \in Workers : p \in L(w) BY Zenon
  <2> QED BY <2>1, <2>2, Zenon
<1>5. p \in D <=> \E w \in Workers : task[w] = t /\ p = <<"held", w>> BY Zenon
<1>6. p \in E <=> t \in finished /\ p = <<"finished", 0>> BY Zenon
<1> HIDE DEF A, B, C, D, E
<1> QED BY <1>1, <1>2, <1>3, <1>4, <1>5, <1>6, Zenon

(* A task that is nowhere was not admitted. *)
LEMMA NoPlace ==
  ASSUME IInv, NEW t \in Tasks, t \notin admitted
  PROVE  Places(t) = {}
<1>1. t \notin Pushing \cup mGlobalQueue \cup Queued \cup Held \cup finished
  BY DEF IInv, Divided
<1>2. ASSUME NEW p \in Places(t) PROVE FALSE
  BY <1>1, <1>2, PlacesOf DEF Pushing, Queued, Held
<1> QED BY <1>2

LEMMA OnePlace ==
  ASSUME IInv, NEW t \in Tasks, t \in admitted
  PROVE  \E p : Places(t) = {p}
<1>1. Divided /\ DequesOK /\ HeldOK BY DEF IInv
<1>2. t \in Pushing <=> \E s \in Threads : call[s] = "push" /\ Head(arg[s]) = t BY DEF Pushing
<1>3. t \in Queued <=> \E w \in Workers : \E i \in DOMAIN mWorkerQueues[w] : mWorkerQueues[w][i] = t
  BY DEF Queued
<1>4. t \in Held <=> \E w \in Workers : task[w] = t BY DEF Held
<1>5. CASE t \in Pushing
  <2>1. PICK s \in Threads : call[s] = "push" /\ Head(arg[s]) = t BY <1>2, <1>5
  <2>2. \A r \in Threads : call[r] = "push" => r = s BY <2>1, OnePusher DEF Admitting
  <2>3. t \notin mGlobalQueue \cup Queued \cup Held \cup finished BY <1>1, <1>5 DEF Divided
  <2>4. \A p : p \in Places(t) <=> p = <<"pushing", s>>
    <3> TAKE p
    <3>1. p \in Places(t) <=>
            \E r \in Threads : call[r] = "push" /\ Head(arg[r]) = t /\ p = <<"pushing", r>>
      <4>1. ~ \E w \in Workers : \E i \in DOMAIN mWorkerQueues[w] :
                mWorkerQueues[w][i] = t /\ p = <<"local", w, i>>
        BY <1>3, <2>3, Zenon
      <4>2. ~ \E w \in Workers : task[w] = t /\ p = <<"held", w>> BY <1>4, <2>3, Zenon
      <4>3. t \notin mGlobalQueue /\ t \notin finished BY <2>3, Zenon
      <4> QED BY <4>1, <4>2, <4>3, PlacesOf, Zenon
    <3> QED BY <2>1, <2>2, <3>1, Zenon
  <2>5. Places(t) = {<<"pushing", s>>} BY <2>4, Zenon
  <2> QED BY <2>5, Zenon
<1>6. CASE t \in mGlobalQueue
  <2>1. t \notin Pushing \cup Queued \cup Held \cup finished BY <1>1, <1>6 DEF Divided
  <2>2. \A p : p \in Places(t) <=> p = <<"global", 0>>
    BY <1>2, <1>3, <1>4, <1>6, <2>1, PlacesOf, Zenon
  <2>3. Places(t) = {<<"global", 0>>} BY <2>2, Zenon
  <2> QED BY <2>3, Zenon
<1>7. CASE t \in Queued
  <2>1. PICK w \in Workers : \E i \in DOMAIN mWorkerQueues[w] : mWorkerQueues[w][i] = t
    BY <1>3, <1>7
  <2>2. PICK i \in DOMAIN mWorkerQueues[w] : mWorkerQueues[w][i] = t BY <2>1
  <2>3. \A v \in Workers : \A j \in DOMAIN mWorkerQueues[v] : mWorkerQueues[v][j] = t => v = w /\ j = i
    BY <1>1, <2>2 DEF DequesOK
  <2>4. t \notin Pushing \cup mGlobalQueue \cup Held \cup finished BY <1>1, <1>7 DEF Divided
  <2>5. \A p : p \in Places(t) <=> p = <<"local", w, i>>
    BY <1>2, <1>4, <2>2, <2>3, <2>4, PlacesOf, ZenonT(30)
  <2>6. Places(t) = {<<"local", w, i>>} BY <2>5, Zenon
  <2> QED BY <2>6, Zenon
<1>8. CASE t \in Held
  <2>1. PICK w \in Workers : task[w] = t BY <1>4, <1>8
  <2>2. \A v \in Workers : task[v] = t => v = w BY <1>1, <2>1, Basics DEF HeldOK
  <2>3. t \notin Pushing \cup mGlobalQueue \cup Queued \cup finished BY <1>1, <1>8 DEF Divided
  <2>4. \A p : p \in Places(t) <=> p = <<"held", w>>
    BY <1>2, <1>3, <2>1, <2>2, <2>3, PlacesOf, Zenon
  <2>5. Places(t) = {<<"held", w>>} BY <2>4, Zenon
  <2> QED BY <2>5, Zenon
<1>9. CASE t \in finished
  <2>1. t \notin Pushing \cup mGlobalQueue \cup Queued \cup Held BY <1>1, <1>9 DEF Divided
  <2>2. \A p : p \in Places(t) <=> p = <<"finished", 0>>
    BY <1>2, <1>3, <1>4, <1>9, <2>1, PlacesOf, Zenon
  <2>3. Places(t) = {<<"finished", 0>>} BY <2>2, Zenon
  <2> QED BY <2>3, Zenon
<1> QED BY <1>1, <1>5, <1>6, <1>7, <1>8, <1>9 DEF Divided

(* No task is lost and none is run twice: each admitted task is with its    *)
(* submitter, in one queue once, with one worker or done, and a task that   *)
(* was refused or taken back is nowhere, however submitters, owners and     *)
(* thieves interleave (submit(), submit_batch(), worker_thread()).          *)
THEOREM TasksAreKept == Spec => []EachTaskInOnePlace
<1>1. IInv => EachTaskInOnePlace
  <2>1. ASSUME IInv, NEW t \in Tasks
        PROVE  Cardinality(Places(t)) = IF t \in admitted THEN 1 ELSE 0
    <3>1. CASE t \in admitted
      <4>1. PICK p : Places(t) = {p} BY <2>1, <3>1, OnePlace
      <4>2. Cardinality({p}) = 1 BY FS_Singleton
      <4> QED BY <3>1, <4>1, <4>2
    <3>2. CASE t \notin admitted BY <2>1, <3>2, NoPlace, FS_EmptySet
    <3> QED BY <3>1, <3>2
  <2> QED BY <2>1 DEF EachTaskInOnePlace
<1> QED BY <1>1, Inductive, PTL

(* mPendingTasks is the number of admitted tasks that do not run yet, and   *)
(* mActiveTasks that of the workers between their fetch_add and fetch_sub;  *)
(* neither decrement goes below 0, and the variables keep their types.      *)
THEOREM CountersCount == Spec => []CountersAreSound
<1>1. IInv => CountersAreSound BY DEF IInv, CountersAreSound
<1> QED BY <1>1, Inductive, PTL

(* A worker leaves its loop only when nothing is left to take or will be,   *)
(* and once shutdown() has joined the workers every admitted task has run.  *)
THEOREM DrainsOnShutdown == Spec => []ShutdownDrains
<1>1. ASSUME IInv PROVE ShutdownDrains
  <2>1. ASSUME NEW c \in Clients, pc[c] = "joined" PROVE admitted = finished
    <3>1. \A w \in Workers : pc[w] = "exited" BY <1>1, <2>1 DEF IInv, ExitOK
    <3>2. Started = {} BY <3>1 DEF Started
    <3>3. Waiting = {} BY <1>1, <3>1, Basics DEF IInv, ExitOK
    <3>4. finished \subseteq admitted BY <1>1 DEF IInv, TypeOK
    <3> QED BY <3>2, <3>3, <3>4 DEF Waiting
  <2> QED BY <1>1, <2>1 DEF IInv, ExitOK, ShutdownDrains
<1>2. IInv => ShutdownDrains BY <1>1
<1> QED BY <1>2, Inductive, PTL

(* wait_idle() loads mPendingTasks and then mActiveTasks, not both at once: *)
(* still every task admitted before the call, and not taken back, has run   *)
(* when it returns.                                                         *)
THEOREM WaitCovers == Spec => WaitIdleCovers
<1>1. ASSUME IInv, NEW c \in MayWait, WaitReturns(c)
      PROVE  owed[c] \cap admitted \subseteq finished
  <2>1. c \in Clients /\ pc[c] = "waitActive" /\ mActiveTasks = 0
    BY <1>1, Basics DEF WaitReturns
  <2>2. owed[c] \cap admitted \subseteq finished \cup Started BY <1>1, <2>1 DEF IInv, WaitOK
  <2>3. Actives = {}
    <3>1. Cardinality(Actives) = 0 BY <1>1, <2>1 DEF IInv, CountersAgree, Actives
    <3> QED BY <1>1, <3>1, FiniteParts, FS_EmptySet
  <2>4. Started = {} BY <2>3 DEF Started, Actives
  <2> QED BY <2>2, <2>4
<1>2. IInv /\ [Next]_vars =>
        [\A c \in MayWait : WaitReturns(c) => owed[c] \cap admitted \subseteq finished]_vars
  BY <1>1
<1> QED BY <1>2, Inductive, PTL DEF Spec, WaitIdleCovers
=============================================================================
