------------------------------ MODULE WorkQueue ------------------------------
(***************************************************************************)
(* include/fat_p/WorkQueue.h: values spread over shards, each a bounded     *)
(* LockFreeQueue.  enqueueImpl() and dequeueImpl() try the shard of the     *)
(* token, then probe, then scan; they share their control, which is here    *)
(* once for both.  A shard is what LockFreeQueue is shown to be: a bounded  *)
(* FIFO whose operation may also fail while a thread of the other side is   *)
(* inside that shard.  One action per operation on a shard.                 *)
(***************************************************************************)
EXTENDS Naturals, Sequences

CONSTANTS
  Putters, Getters,    \* the threads that enqueue and those that dequeue
  MaxItems,            \* bound: the values that exist; value i is the i-th new one
  ShardCount, ShardCapacity,
  kEnqueueProbeCount, kDequeueProbeCount,
  kScanCount,          \* kEnqueueScanCount and kDequeueScanCount, 0 for "all"
  Stride,              \* of the StrideRoutingPolicy
  MaxAttempts          \* bound: the attempts of tryDequeue()

ASSUME WorkQueueAssumption ==
  /\ ShardCount \in Nat \ {0}
  /\ ShardCapacity \in Nat \ {0, 1}    \* what LockFreeQueue needs to be a queue
  /\ kEnqueueProbeCount \in Nat /\ kDequeueProbeCount \in Nat
  /\ kScanCount \in Nat /\ Stride \in Nat \ {0} /\ MaxAttempts \in Nat \ {0}
  /\ MaxItems \in Nat /\ Putters \cap Getters = {}

Shards == 0 .. ShardCount - 1
Workers == Putters \cup Getters
Items == 1 .. MaxItems
NoItem == 0

VARIABLES
  routing,    \* the RoutingPolicy
  mShards,    \* mShards[s]: the values in shard s, oldest first
  token,      \* token[t].mShardIndex
  call,       \* call[t]: the phase of a call, the shard it is at, the loop counter,
              \* the start of the scan, the value, the attempts left to tryDequeue()
  ready,      \* history: the shards that could have served the call at every moment
  taken       \* history: taken[x]: how often x was handed to a consumer

wqVars == <<routing, mShards, token, call, ready, taken>>

NoCall == [phase |-> "idle", at |-> 0, i |-> 0, start |-> 0, item |-> NoItem, tries |-> 0]

WqInit ==
  /\ routing \in {"random", "round robin", "stride"}
  /\ mShards = [s \in Shards |-> << >>]
  /\ token \in [Workers -> Shards]      \* makeProducerToken(): a hash of the thread
  /\ call = [t \in Workers |-> NoCall]
  /\ ready = [t \in Workers |-> {}]
  /\ taken = [x \in Items |-> 0]

-----------------------------------------------------------------------------
(* The shards the i-th probe may go to, and those a scan may start from. *)
ProbeShards(t, i) ==
  CASE routing = "random" -> Shards
    [] routing = "round robin" -> {(token[t] + 1 + i) % ShardCount}
    [] routing = "stride" -> {(token[t] + Stride * (i + 1)) % ShardCount}

ScanStarts(t) == IF routing = "random" THEN Shards ELSE {token[t]}

ProbeCount(t) == IF t \in Putters THEN kEnqueueProbeCount ELSE kDequeueProbeCount

(* Fault: one shard is left out of the scan. *)
Fault_ScanShort == ShardCount - 1

EffectiveScanCount ==
  IF kScanCount = 0 \/ kScanCount > ShardCount THEN ShardCount ELSE kScanCount

CanServe(shards, t, s) ==
  IF t \in Putters THEN Len(shards[s]) < ShardCapacity ELSE shards[s] # << >>

(* A thread of the other side is inside the shard. *)
Contended(t, s) ==
  \E u \in Workers : /\ call[u].phase \in {"first", "probe", "scan"} /\ call[u].at = s
                     /\ (u \in Putters) # (t \in Putters)

Begin(t, item, tries) ==
  /\ call' = [call EXCEPT ![t] =
       [NoCall EXCEPT !.phase = "first", !.at = token[t], !.item = item, !.tries = tries]]
  /\ ready' = [ready EXCEPT ![t] = {s \in Shards : CanServe(mShards, t, s)}]
  /\ UNCHANGED <<routing, mShards, token, taken>>

InUse(x) ==
  \/ \E s \in Shards : \E i \in 1 .. Len(mShards[s]) : mShards[s][i] = x
  \/ taken[x] > 0
  \/ \E p \in Putters : call[p].item = x

WqEnqueue(p, x) ==
  /\ call[p].phase = "idle" /\ ~InUse(x) /\ \A y \in 1 .. x - 1 : InUse(y)
  /\ Begin(p, x, 1)

(* dequeue() is tryDequeue() with one attempt. *)
WqDequeue(c, tries) ==
  /\ call[c].phase = "idle"
  /\ Begin(c, NoItem, tries)

-----------------------------------------------------------------------------
(* The shard serves the call: the token remembers it and the call returns. *)
Served(t) ==
  /\ call[t].phase \in {"first", "probe", "scan"} /\ CanServe(mShards, t, call[t].at)
  /\ LET s == call[t].at IN
       /\ mShards' = [mShards EXCEPT ![s] =
                        IF t \in Putters THEN Append(@, call[t].item) ELSE Tail(@)]
       /\ taken' = IF t \in Putters THEN taken ELSE [taken EXCEPT ![Head(mShards[s])] = @ + 1]
       /\ token' = [token EXCEPT ![t] = s]
       /\ call' = [call EXCEPT ![t] = NoCall]
       /\ ready' = [u \in Workers |-> {r \in ready[u] : u # t /\ CanServe(mShards', u, r)}]
  /\ UNCHANGED routing

(* The shard refuses.  A refusal in the scan for no better reason than a    *)
(* thread of the other side ends what the history asks of that shard.       *)
Refused(t) ==
  /\ ~CanServe(mShards, t, call[t].at) \/ Contended(t, call[t].at)
  /\ ready' = IF call[t].phase = "scan" THEN [ready EXCEPT ![t] = @ \ {call[t].at}] ELSE ready
  /\ UNCHANGED <<routing, mShards, token, taken>>

NextProbe(t) ==
  LET i == IF call[t].phase = "first" THEN 0 ELSE call[t].i + 1 IN
    /\ call[t].phase \in {"first", "probe"} /\ i < ProbeCount(t)
    /\ \E s \in ProbeShards(t, i) :
         call' = [call EXCEPT ![t].phase = "probe", ![t].i = i, ![t].at = s]
    /\ Refused(t)

StartScan(t) ==
  LET i == IF call[t].phase = "first" THEN 0 ELSE call[t].i + 1 IN
    /\ call[t].phase \in {"first", "probe"} /\ i >= ProbeCount(t)
    /\ \E s \in ScanStarts(t) :
         call' = [call EXCEPT ![t].phase = "scan", ![t].i = 0, ![t].at = s, ![t].start = s]
    /\ Refused(t)

(* Fault: the shard of the scan is not reduced modulo ShardCount. *)
Fault_ScanBeyond(t) ==
  LET i == call[t].i + 1 IN
    /\ call[t].phase = "scan"
    /\ call' = IF i < EffectiveScanCount
               THEN [call EXCEPT ![t].i = i, ![t].at = call[t].start + i]
               ELSE [call EXCEPT ![t].phase = "failed"]
    /\ Refused(t)

ScanOn(t) ==
  LET i == call[t].i + 1 IN
    /\ call[t].phase = "scan"
    /\ call' = IF i < EffectiveScanCount
               THEN [call EXCEPT ![t].i = i, ![t].at = (call[t].start + i) % ShardCount]
               ELSE [call EXCEPT ![t].phase = "failed"]
    /\ Refused(t)

ReturnsFalse(t) ==
  /\ call[t].phase = "failed" /\ call[t].tries = 1
  /\ call' = [call EXCEPT ![t] = NoCall]
  /\ ready' = [ready EXCEPT ![t] = {}]
  /\ UNCHANGED <<routing, mShards, token, taken>>

(* tryDequeue() pauses and calls dequeue() again. *)
TriesAgain(t) ==
  /\ call[t].phase = "failed" /\ call[t].tries > 1
  /\ Begin(t, NoItem, call[t].tries - 1)

-----------------------------------------------------------------------------
WqNext ==
  \/ \E p \in Putters, x \in Items : WqEnqueue(p, x)
  \/ \E c \in Getters, n \in 1 .. MaxAttempts : WqDequeue(c, n)
  \/ \E t \in Workers :
       \/ Served(t) \/ NextProbe(t) \/ StartScan(t) \/ ScanOn(t)
       \/ ReturnsFalse(t) \/ TriesAgain(t)

WqSpec == WqInit /\ [][WqNext]_wqVars

-----------------------------------------------------------------------------
WqTypeOK ==
  /\ \A s \in Shards : mShards[s] \in Seq(Items) /\ Len(mShards[s]) <= ShardCapacity
  /\ token \in [Workers -> Shards]
  /\ \A t \in Workers :
       /\ call[t].phase \in {"idle", "first", "probe", "scan", "failed"}
       /\ call[t].at \in Shards /\ call[t].start \in Shards
       /\ call[t].i \in 0 .. kEnqueueProbeCount + kDequeueProbeCount + ShardCount
       /\ call[t].item \in Items \cup {NoItem} /\ call[t].tries \in 0 .. MaxAttempts
       /\ ready[t] \subseteq Shards
  /\ taken \in [Items -> Nat]

(* A value accepted by enqueue() is in one shard until one consumer gets    *)
(* it, however many shards the call tried: it is nowhere twice.             *)
DeliveredOnce ==
  \A x \in Items :
    LET places == {c \in Shards \X (1 .. ShardCapacity) :
                     c[2] <= Len(mShards[c[1]]) /\ mShards[c[1]][c[2]] = x}
    IN  taken[x] <= 1 /\ \A a, b \in places : a = b /\ taken[x] = 0

(* false is an honest answer although the scan sees one shard at a time:    *)
(* dequeue() returns false only if no shard had values all through the call *)
(* (enqueue(): had room), shards in contention apart.                       *)
RefusalIsHonest ==
  \A t \in Workers : call[t].phase = "failed" => ready[t] = {}

(* An item is neither lost nor doubled between the shards, and a caller is  *)
(* refused only with a reason.                                              *)
WorkIsDelivered == DeliveredOnce /\ RefusalIsHonest
=============================================================================
