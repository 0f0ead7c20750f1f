----------------------------- MODULE ObjectPool -----------------------------
(***************************************************************************)
(* include/fat_p/ObjectPool.h.  T's constructor and destructor run inside   *)
(* acquire() and release(): with SingleThreadedPolicy they may call the     *)
(* pool again, and constructors may throw.  busy is the stack of the calls  *)
(* that are running T's code.  With a locking policy nobody else gets in    *)
(* meanwhile, so that only the steps with an empty stack remain.            *)
(*                                                                         *)
(* Nodes are numbered, BlockSize to a block.                                *)
(***************************************************************************)
EXTENDS Naturals, Sequences, FiniteSets, SequencesExt

CONSTANTS
  BlockSize,   \* mBlockSize
  MaxBlocks,   \* bound: blocks allocated
  MaxBusy      \* bound: constructors and destructors nested

ASSUME PoolAssumption ==
  BlockSize \in Nat \ {0} /\ MaxBlocks \in Nat \ {0} /\ MaxBusy \in Nat

VARIABLES
  freeList,        \* the chain that starts at mFreeList
  mFreeCount,
  blocks,          \* mBlocks.size()
  mAcquiredCount,  \* of debug builds
  held,            \* the nodes whose object a client has
  busy,            \* the nodes whose constructor or destructor runs
  cut              \* history: a compaction failed, and none has succeeded since

poolVars == <<freeList, mFreeCount, blocks, mAcquiredCount, held, busy, cut>>

BlockNodes(b) == [i \in 1 .. BlockSize |-> (b - 1) * BlockSize + i]
Capacity_ == blocks * BlockSize

(* allocate_block() weaves the nodes in one by one: the last comes first. *)
WithBlock(list) == Reverse(BlockNodes(blocks + 1)) \o list

PoolInit ==
  /\ blocks = 1 /\ freeList = Reverse(BlockNodes(1)) /\ mFreeCount = BlockSize
  /\ mAcquiredCount = 0 /\ held = {} /\ busy = << >> /\ cut = FALSE

-----------------------------------------------------------------------------
Enter(kind, node) == busy' = Append(busy, [kind |-> kind, node |-> node])
Leave == busy' = Front(busy)

(* Takes the first free node off the list, from a new block if need be. *)
TakeNode(mayGrow) ==
  \/ /\ freeList # << >>
     /\ freeList' = Tail(freeList) /\ mFreeCount' = mFreeCount - 1
     /\ UNCHANGED blocks
  \/ /\ freeList = << >> /\ mayGrow /\ blocks < MaxBlocks
     /\ freeList' = Tail(WithBlock(<< >>)) /\ mFreeCount' = mFreeCount + BlockSize - 1
     /\ blocks' = blocks + 1

Taken == IF freeList # << >> THEN Head(freeList) ELSE (blocks + 1) * BlockSize

(* acquire() and try_acquire(), up to the constructor. *)
AcquireNode(mayGrow) ==
  /\ Len(busy) < MaxBusy
  /\ TakeNode(mayGrow)
  /\ Enter("construct", Taken)
  /\ UNCHANGED <<mAcquiredCount, held, cut>>

(* acquire_uninitialized() and acquire_zeroed(): no constructor. *)
AcquireRaw ==
  /\ TakeNode(TRUE)
  /\ mAcquiredCount' = mAcquiredCount + 1
  /\ held' = held \cup {Taken}
  /\ UNCHANGED <<busy, cut>>

Constructed ==
  /\ busy # << >> /\ Last(busy).kind = "construct"
  /\ mAcquiredCount' = mAcquiredCount + 1
  /\ held' = held \cup {Last(busy).node}
  /\ Leave
  /\ UNCHANGED <<freeList, mFreeCount, blocks, cut>>

(* The node becomes the first free one. *)
GiveBack(node) ==
  freeList' = <<node>> \o freeList /\ mFreeCount' = mFreeCount + 1

ConstructorThrows ==
  /\ busy # << >> /\ Last(busy).kind = "construct"
  /\ GiveBack(Last(busy).node)
  /\ Leave
  /\ UNCHANGED <<blocks, mAcquiredCount, held, cut>>

(* Fault: the node is free while its object is still being destroyed. *)
Fault_ReleaseEarly(node) ==
  /\ node \in held /\ Len(busy) < MaxBusy
  /\ mAcquiredCount' = mAcquiredCount - 1
  /\ held' = held \ {node}
  /\ GiveBack(node)
  /\ Enter("destroy", node)
  /\ UNCHANGED <<blocks, cut>>

(* release(), also from PooledObject, up to the destructor. *)
ReleaseObject(node) ==
  /\ node \in held /\ Len(busy) < MaxBusy
  /\ mAcquiredCount' = mAcquiredCount - 1
  /\ held' = held \ {node}
  /\ Enter("destroy", node)
  /\ UNCHANGED <<freeList, mFreeCount, blocks, cut>>

Destroyed ==
  /\ busy # << >> /\ Last(busy).kind = "destroy"
  /\ GiveBack(Last(busy).node)
  /\ Leave
  /\ UNCHANGED <<blocks, mAcquiredCount, held, cut>>

(* reserve_blocks(n) allocates one block after the other. *)
reserve_blocks ==
  /\ blocks < MaxBlocks
  /\ freeList' = WithBlock(freeList)
  /\ mFreeCount' = mFreeCount + BlockSize
  /\ blocks' = blocks + 1
  /\ UNCHANGED <<mAcquiredCount, held, busy, cut>>

(* try_compact_free_list(): the free list in the order of the blocks'       *)
(* addresses, whatever that is.                                             *)
try_compact_free_list(order) ==
  /\ mFreeCount = Capacity_
  /\ freeList' = [n \in 1 .. Capacity_ |->
                    BlockNodes(order[((n - 1) \div BlockSize) + 1])[((n - 1) % BlockSize) + 1]]
  /\ cut' = FALSE
  /\ UNCHANGED <<mFreeCount, blocks, mAcquiredCount, held, busy>>

(* Its vector of blocks cannot be allocated: the list was cut off already. *)
CompactThrows ==
  /\ mFreeCount = Capacity_
  /\ freeList' = << >> /\ cut' = TRUE
  /\ UNCHANGED <<mFreeCount, blocks, mAcquiredCount, held, busy>>

PoolNext ==
  \/ \E mayGrow \in BOOLEAN : AcquireNode(mayGrow)
  \/ AcquireRaw \/ Constructed \/ ConstructorThrows \/ Destroyed
  \/ \E node \in held : ReleaseObject(node)
  \/ reserve_blocks \/ CompactThrows
  \/ \E order \in SetToSeqs(1 .. blocks) : try_compact_free_list(order)

PoolSpec == PoolInit /\ [][PoolNext]_poolVars

-----------------------------------------------------------------------------
Nodes == 1 .. Capacity_
BusyNodes == {busy[i].node : i \in 1 .. Len(busy)}

PoolTypeOK ==
  /\ cut \in BOOLEAN
  /\ freeList \in Seq(Nodes) /\ held \subseteq Nodes
  /\ mFreeCount \in 0 .. Capacity_ /\ mAcquiredCount \in 0 .. Capacity_
  /\ blocks \in 1 .. MaxBlocks
  /\ Len(busy) <= MaxBusy /\ BusyNodes \subseteq Nodes

(* No storage is handed out while an object is in it: a node is free, with  *)
(* a client, or under construction or destruction, and only one of them,    *)
(* though T's code may have used the pool in between.                       *)
OneUserPerNode ==
  /\ IsInjective(freeList)
  /\ \A i, j \in 1 .. Len(busy) : i # j => busy[i].node # busy[j].node
  /\ held \cap BusyNodes = {}
  /\ ToSet(freeList) \cap (held \cup BusyNodes) = {}

(* mFreeCount counts the nodes nobody uses.  A node that is under           *)
(* construction or destruction is in neither counter: the assertion of      *)
(* stats() (line 557) holds unless T's code is running, and fails then.     *)
(* The nodes counted as free are the free list ("Objects currently in free  *)
(* list", line 537) unless a compaction has failed: that took nodes off the *)
(* list and goes on counting them.  Compaction trusts the counter ("Counter *)
(* mismatch"), waits for the last object and then finds them all again.     *)
CountersAddUp ==
  /\ mFreeCount = Capacity_ - Cardinality(held) - Len(busy)
  /\ mAcquiredCount = Cardinality(held)
  /\ ~cut => mFreeCount = Len(freeList)

(* Every node has one user, and the counters count them.                    *)
PoolIsSound == OneUserPerNode /\ CountersAddUp
=============================================================================
