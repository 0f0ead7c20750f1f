-------------------------- MODULE ContainersProofs --------------------------
(***************************************************************************)
(* Theorems about the components of MCContainers.  ServiceLocator: for      *)
(* every set of threads, keys and registrations and every depth of the      *)
(* chain of locators.  StringPool: for all threads and strings.  WorkQueue: *)
(* for every number of shards, threads and items.  ObjectPool: for every    *)
(* size and number of blocks and every depth of nested calls.  SlotMap: for *)
(* every number of slots and every width of the generations, before a       *)
(* generation wraps.                                                        *)
(***************************************************************************)
EXTENDS ServiceLocator, StringPool, WorkQueue, ObjectPool, SlotMap,
        RingLemmas, FiniteSetTheorems, SequenceTheorems, TLAPS

-----------------------------------------------------------------------------
(* ServiceLocator: the inductive invariant. *)

SvTypes ==
  /\ overwrite \in BOOLEAN /\ regs \in 0 .. MaxRegs /\ calls \in 0 .. MaxCalls
  /\ registry \in [Locators -> [Keys -> Entries]]
  /\ creating \in [Regs -> Resolvers \cup {NoResolver}]
  /\ value \in [Regs -> BOOLEAN] /\ made \in [Regs -> Nat]
  /\ gate \in [owner : Resolvers \cup {NoResolver}, depth : Nat]
  /\ frames \in [Resolvers -> Seq(Frames)]
  /\ \A t \in Resolvers : Len(frames[t]) <= MaxNest

(* An entry is a registration that was made, and caches nothing or its own. *)
RegistryOK ==
  \A l \in Locators, k \in Keys :
    /\ registry[l][k] = NoEntry \/ registry[l][k].reg \in 1 .. regs
    /\ registry[l][k].shared \in {0, registry[l][k].reg}

(* Only the innermost call of a thread is outside a factory; the gate is    *)
(* held from behind it on; a factory runs for its creator, and whoever goes *)
(* for the gate is not creating what it wants.                              *)
FrameOK(t, i) ==
  LET f == frames[t][i] IN
  /\ i < Len(frames[t]) => f.pc \in {"transient", "factory"}
  /\ f.pc \in {"check", "wait", "gate", "recheck", "factory", "publish"} => f.reg \in Regs
  /\ f.pc \in {"find", "transient", "state", "check", "wait", "gate"} => ~f.gated
  /\ f.pc \in {"recheck", "factory"} => f.gated
  /\ f.pc = "factory" => creating[f.reg] = t
  /\ f.pc \in {"wait", "gate", "recheck"} => creating[f.reg] # t
  /\ f.pc = "return" /\ f.code = "CircularDependency" =>
       \E j \in 1 .. Len(frames[t]) - 1 : frames[t][j].pc = "factory" /\ frames[t][j].reg = f.reg

FramesOK == \A t \in Resolvers : \A i \in 1 .. Len(frames[t]) : FrameOK(t, i)

(* A creator is in the factory, in one call, and nothing is made yet. *)
CreatorsOK ==
  /\ \A r \in Regs : creating[r] # NoResolver =>
       /\ ~value[r]
       /\ \E i \in 1 .. Len(frames[creating[r]]) :
            frames[creating[r]][i].pc = "factory" /\ frames[creating[r]][i].reg = r
  /\ \A t \in Resolvers : \A i, j \in 1 .. Len(frames[t]) :
       frames[t][i].pc = "factory" /\ frames[t][j].pc = "factory"
         /\ frames[t][i].reg = frames[t][j].reg => i = j
  /\ \A r \in Regs : made[r] = IF value[r] THEN 1 ELSE 0

(* The gate counts the calls of its owner that are behind it. *)
GatedCalls(s) == {i \in 1 .. Len(s) : s[i].gated}

GateOK ==
  /\ gate.owner = NoResolver => gate.depth = 0
  /\ gate.owner # NoResolver =>
       gate.depth > 0 /\ gate.depth = Cardinality(GatedCalls(frames[gate.owner]))
  /\ \A t \in Resolvers : gate.owner # t => GatedCalls(frames[t]) = {}

SvIInv == SvTypes /\ RegistryOK /\ FramesOK /\ CreatorsOK /\ GateOK

-----------------------------------------------------------------------------
(* The stack of a thread. *)

LEMMA TopIs ==
  ASSUME SvTypes, NEW t \in Resolvers, Busy(t)
  PROVE  /\ Len(frames[t]) \in Nat \ {0} /\ Len(frames[t]) \in 1 .. Len(frames[t])
         /\ Top(t) = frames[t][Len(frames[t])] /\ Top(t) \in Frames
         /\ frames[t] \in Seq(Frames)
<1>1. frames[t] \in Seq(Frames) /\ frames[t] # << >> BY DEF SvTypes, Busy
<1>2. Len(frames[t]) \in Nat \ {0} BY <1>1, EmptySeq
<1>3. Len(frames[t]) \in 1 .. Len(frames[t]) BY <1>2
<1>4. frames[t][Len(frames[t])] \in Frames BY <1>1, <1>3, ElementOfSeq
<1> QED BY <1>1, <1>2, <1>3, <1>4 DEF Top

LEMMA TopSets ==
  ASSUME SvTypes, NEW t \in Resolvers, Busy(t), NEW f \in Frames, SetTop(t, f)
  PROVE  /\ frames' \in [Resolvers -> Seq(Frames)]
         /\ Len(frames'[t]) = Len(frames[t]) /\ frames'[t][Len(frames[t])] = f
         /\ \A i \in 1 .. Len(frames[t]) - 1 : frames'[t][i] = frames[t][i]
         /\ \A u \in Resolvers \ {t} : frames'[u] = frames[u]
<1> DEFINE s == frames[t]
           n == Len(frames[t])
           z == [s EXCEPT ![n] = f]
<1>1. n \in Nat \ {0} /\ n \in 1 .. n /\ s \in Seq(Frames) BY TopIs
<1>2. frames \in [Resolvers -> Seq(Frames)] BY DEF SvTypes
<1>3. frames' = [frames EXCEPT ![t] = z] BY DEF SetTop
<1>4. z \in Seq(Frames) /\ Len(z) = n /\ z[n] = f /\ \A i \in 1 .. n - 1 : z[i] = s[i]
  <2> HIDE DEF n
  <2>1. s \in [1 .. n -> Frames] BY <1>1, LenProperties DEF n
  <2>2. z \in [1 .. n -> Frames] BY <2>1, <1>1
  <2>3. z \in Seq(Frames) /\ Len(z) = n BY <1>1, <2>2
  <2> QED BY <1>1, <2>1, <2>3
<1> HIDE DEF z
<1> QED BY <1>2, <1>3, <1>4

(* What the innermost call of t has to be like. *)
TopOK(t, f) ==
  /\ f \in Frames
  /\ f.pc \in {"check", "wait", "gate", "recheck", "factory", "publish"} => f.reg \in Regs
  /\ f.pc \in {"find", "transient", "state", "check", "wait", "gate"} => ~f.gated
  /\ f.pc \in {"recheck", "factory"} => f.gated
  /\ f.pc = "factory" => creating'[f.reg] = t
  /\ f.pc \in {"wait", "gate", "recheck"} => creating'[f.reg] # t
  /\ f.pc = "return" /\ f.code = "CircularDependency" =>
       \E j \in 1 .. Len(frames[t]) - 1 : frames[t][j].pc = "factory" /\ frames[t][j].reg = f.reg

(* t may have begun or ended a creation, for which nobody else is in the    *)
(* factory.                                                                 *)
CreatingMoves(t) ==
  \A r \in Regs : creating'[r] = creating[r]
    \/ /\ creating'[r] \in {t, NoResolver}
       /\ \A u \in Resolvers : \A i \in 1 .. Len(frames[u]) :
            (u # t \/ i < Len(frames[t])) => ~(frames[u][i].pc = "factory" /\ frames[u][i].reg = r)

LEMMA FramesKept ==
  ASSUME SvIInv, NEW t \in Resolvers, Busy(t), NEW f \in Frames, SetTop(t, f),
         TopOK(t, f), CreatingMoves(t)
  PROVE  FramesOK'
<1>1. /\ Len(frames[t]) \in Nat \ {0} /\ Len(frames'[t]) = Len(frames[t])
      /\ frames'[t][Len(frames[t])] = f
      /\ \A i \in 1 .. Len(frames[t]) - 1 : frames'[t][i] = frames[t][i]
      /\ \A u \in Resolvers \ {t} : frames'[u] = frames[u]
  BY TopIs, TopSets DEF SvIInv
<1> SUFFICES ASSUME NEW u \in Resolvers, NEW i \in 1 .. Len(frames'[u])
             PROVE  FrameOK(u, i)'
  BY DEF FramesOK
<1>2. CASE u = t /\ i = Len(frames[t])
  <2>1. frames'[u][i] = f /\ ~(i < Len(frames'[u])) BY <1>1, <1>2
  <2>2. \A j \in 1 .. Len(frames[t]) - 1 : frames'[t][j] = frames[t][j] BY <1>1
  <2> QED BY <1>1, <1>2, <2>1, <2>2 DEF FrameOK, TopOK
<1>3. CASE u # t \/ i < Len(frames[t])
  <2>1. /\ frames'[u][i] = frames[u][i] /\ i \in 1 .. Len(frames[u])
        /\ Len(frames'[u]) = Len(frames[u]) /\ (u = t => i \in 1 .. Len(frames[t]) - 1)
    BY <1>1, <1>3
  <2> DEFINE g == frames[u][i]
  <2>2. FrameOK(u, i) /\ g \in Frames
    <3>1. frames[u] \in Seq(Frames) BY DEF SvIInv, SvTypes
    <3> QED BY <2>1, <3>1, ElementOfSeq DEF SvIInv, FramesOK
  <2>3. g.pc = "factory" => creating'[g.reg] = u
    <3>1. g.pc = "factory" => g.reg \in Regs /\ creating[g.reg] = u BY <2>2 DEF FrameOK
    <3> QED BY <1>3, <2>1, <3>1 DEF CreatingMoves
  <2>4. g.pc \in {"wait", "gate", "recheck"} => creating'[g.reg] # u
    <3> SUFFICES ASSUME g.pc \in {"wait", "gate", "recheck"} PROVE creating'[g.reg] # u OBVIOUS
    <3>1. g.reg \in Regs /\ creating[g.reg] # u BY <2>2 DEF FrameOK
    <3>2. u # t BY <1>3, <2>1, <2>2 DEF FrameOK
    <3>3. creating'[g.reg] \in {creating[g.reg], t, NoResolver} BY <3>1 DEF CreatingMoves
    <3> QED BY <3>1, <3>2, <3>3, ServicesAssumption
  <2>5. \A j \in 1 .. Len(frames[u]) - 1 : frames'[u][j] = frames[u][j] BY <1>1
  <2> QED BY <2>1, <2>2, <2>3, <2>4, <2>5 DEF FrameOK
<1> QED BY <1>1, <1>2, <1>3

(* A step that enters and leaves no factory. *)
LEMMA CreatorsKept ==
  ASSUME SvIInv, NEW t \in Resolvers, Busy(t), NEW f \in Frames, SetTop(t, f),
         Top(t).pc # "factory", f.pc # "factory", UNCHANGED <<creating, value, made>>
  PROVE  CreatorsOK'
<1>1. /\ Len(frames[t]) \in Nat \ {0} /\ Len(frames'[t]) = Len(frames[t])
      /\ frames'[t][Len(frames[t])] = f /\ frames[t][Len(frames[t])].pc # "factory"
      /\ \A i \in 1 .. Len(frames[t]) - 1 : frames'[t][i] = frames[t][i]
      /\ \A u \in Resolvers \ {t} : frames'[u] = frames[u]
  BY TopIs, TopSets DEF SvIInv
<1>2. ASSUME NEW u \in Resolvers
      PROVE  /\ Len(frames'[u]) = Len(frames[u])
             /\ \A i \in 1 .. Len(frames[u]) :
                  \/ frames'[u][i] = frames[u][i]
                  \/ frames'[u][i].pc # "factory" /\ frames[u][i].pc # "factory"
  <2>1. CASE u # t BY <1>1, <2>1
  <2>2. CASE u = t
    <3>1. \A i \in 1 .. Len(frames[t]) : i = Len(frames[t]) \/ i \in 1 .. Len(frames[t]) - 1 BY <1>1
    <3> QED BY <1>1, <2>2, <3>1
  <2> QED BY <2>1, <2>2
<1>3. ASSUME NEW r \in Regs, creating[r] # NoResolver
      PROVE  /\ ~value[r]
             /\ \E i \in 1 .. Len(frames'[creating[r]]) :
                  frames'[creating[r]][i].pc = "factory" /\ frames'[creating[r]][i].reg = r
  <2>1. creating[r] \in Resolvers BY <1>3 DEF SvIInv, SvTypes
  <2>2. ~value[r] /\ \E i \in 1 .. Len(frames[creating[r]]) :
           frames[creating[r]][i].pc = "factory" /\ frames[creating[r]][i].reg = r
    BY <1>3 DEF SvIInv, CreatorsOK
  <2> QED BY <1>2, <2>1, <2>2
<1>4. ASSUME NEW u \in Resolvers, NEW i \in 1 .. Len(frames'[u]), NEW j \in 1 .. Len(frames'[u]),
             frames'[u][i].pc = "factory", frames'[u][j].pc = "factory",
             frames'[u][i].reg = frames'[u][j].reg
      PROVE  i = j
  BY <1>2, <1>4 DEF SvIInv, CreatorsOK
<1> QED BY <1>3, <1>4 DEF SvIInv, CreatorsOK

LEMMA GateKept ==
  ASSUME SvIInv, NEW t \in Resolvers, Busy(t), NEW f \in Frames, SetTop(t, f),
         f.gated = Top(t).gated, UNCHANGED gate
  PROVE  GateOK'
<1>1. /\ Len(frames[t]) \in Nat \ {0} /\ Len(frames'[t]) = Len(frames[t])
      /\ frames'[t][Len(frames[t])] = f /\ f.gated = frames[t][Len(frames[t])].gated
      /\ \A i \in 1 .. Len(frames[t]) - 1 : frames'[t][i] = frames[t][i]
      /\ \A u \in Resolvers \ {t} : frames'[u] = frames[u]
  BY TopIs, TopSets DEF SvIInv
<1>2. \A i \in 1 .. Len(frames[t]) : frames'[t][i].gated = frames[t][i].gated
  <2>1. \A i \in 1 .. Len(frames[t]) : i = Len(frames[t]) \/ i \in 1 .. Len(frames[t]) - 1 BY <1>1
  <2> QED BY <1>1, <2>1
<1>3. \A u \in Resolvers : GatedCalls(frames'[u]) = GatedCalls(frames[u])
  <2>1. GatedCalls(frames'[t]) = GatedCalls(frames[t]) BY <1>1, <1>2 DEF GatedCalls
  <2> QED BY <1>1, <2>1
<1>4. gate.owner # NoResolver => gate.owner \in Resolvers BY DEF SvIInv, SvTypes
<1> QED BY <1>3, <1>4 DEF SvIInv, GateOK

(* A step of t that stays outside the factory and does not pass the gate.   *)
LEMMA MoveKeeps ==
  ASSUME SvIInv, NEW t \in Resolvers, Busy(t), NEW f, SetTop(t, f), TopOK(t, f),
         Top(t).pc # "factory", f.pc # "factory", f.gated = Top(t).gated,
         UNCHANGED <<overwrite, regs, creating, value, gate, calls, made>>
  PROVE  /\ FramesOK' /\ CreatorsOK' /\ GateOK'
         /\ registry' \in [Locators -> [Keys -> Entries]] => SvTypes'
<1>1. f \in Frames BY DEF TopOK
<1>2. CreatingMoves(t) BY DEF CreatingMoves
<1>3. FramesOK' /\ CreatorsOK' /\ GateOK' BY <1>1, <1>2, FramesKept, CreatorsKept, GateKept
<1>4. frames' \in [Resolvers -> Seq(Frames)] /\ \A u \in Resolvers : Len(frames'[u]) <= MaxNest
  BY <1>1, TopSets DEF SvIInv, SvTypes
<1> QED BY <1>3, <1>4 DEF SvIInv, SvTypes

LEMMA TopFacts ==
  ASSUME SvIInv, NEW t \in Resolvers, Busy(t)
  PROVE  LET f == Top(t) IN
         /\ f \in Frames
         /\ f.pc \in {"check", "wait", "gate", "recheck", "factory", "publish"} => f.reg \in Regs
         /\ f.pc \in {"find", "transient", "state", "check", "wait", "gate"} => ~f.gated
         /\ f.pc \in {"recheck", "factory"} => f.gated
         /\ f.pc = "factory" => creating[f.reg] = t
         /\ f.pc \in {"wait", "gate", "recheck"} => creating[f.reg] # t
<1>1. Top(t) = frames[t][Len(frames[t])] /\ Top(t) \in Frames /\ Len(frames[t]) \in 1 .. Len(frames[t])
  BY TopIs DEF SvIInv
<1>2. FrameOK(t, Len(frames[t])) BY <1>1 DEF SvIInv, FramesOK
<1> QED BY <1>1, <1>2 DEF FrameOK

(* The entry that t looks at. *)
LEMMA EntryFacts ==
  ASSUME SvIInv, NEW t \in Resolvers, Busy(t)
  PROVE  /\ Entry(t) \in Entries /\ (Entry(t) = NoEntry \/ Entry(t).reg \in Regs)
         /\ Entry(t).shared \in {0, Entry(t).reg} /\ Top(t).loc \in Locators /\ Top(t).key \in Keys
<1>1. Top(t).loc \in Locators /\ Top(t).key \in Keys BY TopFacts DEF Frames
<1>2. Entry(t) \in Entries BY <1>1 DEF SvIInv, SvTypes, Entry
<1>3. (Entry(t) = NoEntry \/ Entry(t).reg \in 1 .. regs) /\ Entry(t).shared \in {0, Entry(t).reg}
  BY <1>1 DEF SvIInv, RegistryOK, Entry
<1>4. 1 .. regs \subseteq Regs BY ServicesAssumption DEF SvIInv, SvTypes, Regs
<1> QED BY <1>1, <1>2, <1>3, <1>4

(* A decision that is not CircularDependency. *)
LEMMA DecideOK ==
  ASSUME SvIInv, NEW t \in Resolvers, Busy(t), NEW code \in Codes, code # "CircularDependency"
  PROVE  TopOK(t, [Top(t) EXCEPT !.pc = "return", !.code = code])
<1>1. Top(t) \in Frames BY TopFacts
<1>2. [Top(t) EXCEPT !.pc = "return", !.code = code] \in Frames BY <1>1 DEF Frames
<1> QED BY <1>1, <1>2 DEF TopOK, Frames

LEMMA RegistryKept ==
  ASSUME SvIInv, UNCHANGED <<registry, regs>>
  PROVE  RegistryOK' /\ registry' \in [Locators -> [Keys -> Entries]]
  BY DEF SvIInv, SvTypes, RegistryOK

LEMMA VerdictIs ==
  ASSUME NEW e, NEW op
  PROVE  Verdict(e, op) = "" \/ (Verdict(e, op) \in Codes /\ Verdict(e, op) # "CircularDependency")
  BY DEF Verdict, Codes

LEMMA LookUpKeeps ==
  ASSUME SvIInv, NEW t \in Resolvers, NEW op \in Ops, LookUp(t, op)
  PROVE  SvIInv'
<1>1. /\ Busy(t) /\ Top(t).pc = "find"
      /\ UNCHANGED <<overwrite, registry, regs, creating, value, gate, calls, made>>
  BY DEF LookUp, AtTop
<1>2. Top(t) \in Frames /\ ~Top(t).gated BY <1>1, TopFacts
<1>3. PICK f : SetTop(t, f) /\ TopOK(t, f) /\ f.pc # "factory" /\ f.gated = Top(t).gated
  <2> DEFINE v == Verdict(Entry(t), op)
  <2>1. CASE v # "" /\ Decide(t, v)
    <3>1. v \in Codes /\ v # "CircularDependency" BY <2>1, VerdictIs
    <3> HIDE DEF v
    <3> DEFINE f == [Top(t) EXCEPT !.pc = "return", !.code = v]
    <3>2. SetTop(t, f) /\ TopOK(t, f) BY <1>1, <2>1, <3>1, DecideOK DEF Decide
    <3>3. f.pc # "factory" /\ f.gated = Top(t).gated BY <1>2 DEF Frames
    <3> QED BY <3>2, <3>3
  <2>2. CASE GoOn(t, "state")
    <3> DEFINE f == [Top(t) EXCEPT !.pc = "state"]
    <3>1. f \in Frames /\ f.pc = "state" /\ f.gated = Top(t).gated BY <1>2 DEF Frames
    <3>2. SetTop(t, f) BY <2>2 DEF GoOn
    <3> HIDE DEF f
    <3> QED BY <1>2, <3>1, <3>2 DEF TopOK
  <2>3. CASE SetTop(t, [Top(t) EXCEPT !.pc = "transient", !.fac = TRUE])
    <3> DEFINE f == [Top(t) EXCEPT !.pc = "transient", !.fac = TRUE]
    <3>1. f \in Frames /\ f.pc = "transient" /\ f.gated = Top(t).gated BY <1>2 DEF Frames
    <3>2. SetTop(t, f) BY <2>3
    <3> HIDE DEF f
    <3> QED BY <1>2, <3>1, <3>2 DEF TopOK
  <2> QED BY <2>1, <2>2, <2>3 DEF LookUp
<1> QED BY <1>1, <1>3, MoveKeeps, RegistryKept DEF SvIInv

LEMMA AskParentKeeps ==
  ASSUME SvIInv, NEW t \in Resolvers, AskParent(t)
  PROVE  SvIInv'
<1>1. /\ Busy(t) /\ Top(t).pc = "find"
      /\ UNCHANGED <<overwrite, registry, regs, creating, value, gate, calls, made>>
  BY DEF AskParent, AtTop
<1>2. Top(t) \in Frames /\ ~Top(t).gated BY <1>1, TopFacts
<1>3. PICK f : SetTop(t, f) /\ TopOK(t, f) /\ f.pc # "factory" /\ f.gated = Top(t).gated
  <2>1. CASE Top(t).loc < Depth
    <3> DEFINE f == [Top(t) EXCEPT !.loc = Top(t).loc + 1]
    <3>1. Top(t).loc + 1 \in Locators BY <1>2, <2>1, ServicesAssumption DEF Frames, Locators
    <3>2. f \in Frames /\ f.pc = "find" /\ f.gated = Top(t).gated BY <1>1, <1>2, <3>1 DEF Frames
    <3>3. SetTop(t, f) BY <2>1 DEF AskParent
    <3> HIDE DEF f
    <3> QED BY <1>2, <3>2, <3>3 DEF TopOK
  <2>2. CASE ~(Top(t).loc < Depth)
    <3> DEFINE f == [Top(t) EXCEPT !.pc = "return", !.code = "ServiceNotFound"]
    <3>1. SetTop(t, f) /\ TopOK(t, f) BY <1>1, <2>2, DecideOK DEF AskParent, Decide, Codes
    <3>2. f.pc # "factory" /\ f.gated = Top(t).gated BY <1>2 DEF Frames
    <3> QED BY <3>1, <3>2
  <2> QED BY <2>1, <2>2
<1> QED BY <1>1, <1>3, MoveKeeps, RegistryKept DEF SvIInv

LEMMA TransientReturnsKeeps ==
  ASSUME SvIInv, NEW t \in Resolvers, NEW code \in {"ok", "FactoryReturnedNull", "FactoryThrew"},
         TransientReturns(t, code)
  PROVE  SvIInv'
<1>1. /\ Busy(t) /\ Top(t).pc = "transient" /\ Decide(t, code)
      /\ UNCHANGED <<overwrite, registry, regs, creating, value, gate, calls, made>>
  BY DEF TransientReturns, AtTop
<1> DEFINE f == [Top(t) EXCEPT !.pc = "return", !.code = code]
<1>2. SetTop(t, f) /\ TopOK(t, f) BY <1>1, DecideOK DEF Decide, Codes
<1>3. f.pc # "factory" /\ f.gated = Top(t).gated BY <1>1, TopFacts DEF Frames
<1> HIDE DEF f
<1> QED BY <1>1, <1>2, <1>3, MoveKeeps, RegistryKept DEF SvIInv

LEMMA FetchStateKeeps ==
  ASSUME SvIInv, NEW t \in Resolvers, FetchState(t)
  PROVE  SvIInv'
<1>1. /\ Busy(t) /\ Top(t).pc = "state"
      /\ UNCHANGED <<overwrite, registry, regs, creating, value, gate, calls, made>>
  BY DEF FetchState, AtTop
<1>2. Top(t) \in Frames /\ ~Top(t).gated BY <1>1, TopFacts
<1>3. PICK f : SetTop(t, f) /\ TopOK(t, f) /\ f.pc # "factory" /\ f.gated = Top(t).gated
  <2>1. ASSUME NEW c \in {"ServiceNotFound", "InvalidLifetime", "ok"}, Decide(t, c)
        PROVE  \E f : SetTop(t, f) /\ TopOK(t, f) /\ f.pc # "factory" /\ f.gated = Top(t).gated
    <3> DEFINE f == [Top(t) EXCEPT !.pc = "return", !.code = c]
    <3>1. SetTop(t, f) /\ TopOK(t, f) BY <1>1, <2>1, DecideOK DEF Decide, Codes
    <3>2. f.pc # "factory" /\ f.gated = Top(t).gated BY <1>2 DEF Frames
    <3> QED BY <3>1, <3>2
  <2> DEFINE e == Entry(t)
             f == [Top(t) EXCEPT !.pc = "check", !.reg = e.reg, !.fac = (e.kind = "singleton")]
  <2>2. CASE e.kind \in {"instance", "singleton"} /\ SetTop(t, f)
    <3>1. e # NoEntry BY <2>2 DEF NoEntry
    <3>2. e.reg \in Regs /\ e.reg \in 0 .. MaxRegs BY <1>1, <3>1, EntryFacts DEF Entries
    <3>3. f \in Frames /\ f.pc = "check" /\ f.gated = Top(t).gated /\ f.reg = e.reg
      <4> HIDE DEF e
      <4> QED BY <1>2, <3>2 DEF Frames
    <3> HIDE DEF f, e
    <3> QED BY <1>2, <2>2, <3>2, <3>3 DEF TopOK
  <2> QED BY <2>1, <2>2 DEF FetchState
<1> QED BY <1>1, <1>3, MoveKeeps, RegistryKept DEF SvIInv

(* creating[r] is t: a factory below is running for r. *)
LEMMA CreatorIsBelow ==
  ASSUME SvIInv, NEW t \in Resolvers, Busy(t), Top(t).pc # "factory",
         NEW r \in Regs, creating[r] = t
  PROVE  \E j \in 1 .. Len(frames[t]) - 1 : frames[t][j].pc = "factory" /\ frames[t][j].reg = r
<1>1. PICK j \in 1 .. Len(frames[t]) : frames[t][j].pc = "factory" /\ frames[t][j].reg = r
  BY ServicesAssumption DEF SvIInv, CreatorsOK
<1>2. Len(frames[t]) \in Nat \ {0} /\ frames[t][Len(frames[t])].pc # "factory" BY TopIs DEF SvIInv
<1>3. j # Len(frames[t]) BY <1>1, <1>2
<1>4. j \in 1 .. Len(frames[t]) - 1 BY <1>2, <1>3
<1> QED BY <1>1, <1>4

LEMMA CheckStateKeeps ==
  ASSUME SvIInv, NEW t \in Resolvers, CheckState(t)
  PROVE  SvIInv'
<1>1. /\ Busy(t) /\ Top(t).pc = "check"
      /\ UNCHANGED <<overwrite, registry, regs, creating, value, gate, calls, made>>
  BY DEF CheckState, AtTop
<1>2. Top(t) \in Frames /\ ~Top(t).gated /\ Top(t).reg \in Regs BY <1>1, TopFacts
<1>3. PICK f : SetTop(t, f) /\ TopOK(t, f) /\ f.pc # "factory" /\ f.gated = Top(t).gated
  <2>1. ASSUME NEW p \in {"publish", "wait", "gate"}, GoOn(t, p),
               p \in {"wait", "gate"} => creating[Top(t).reg] # t
        PROVE  \E f : SetTop(t, f) /\ TopOK(t, f) /\ f.pc # "factory" /\ f.gated = Top(t).gated
    <3> DEFINE f == [Top(t) EXCEPT !.pc = p]
    <3>1. f \in Frames /\ f.pc = p /\ f.gated = Top(t).gated /\ f.reg = Top(t).reg
      BY <1>2 DEF Frames
    <3>2. SetTop(t, f) BY <2>1 DEF GoOn
    <3> HIDE DEF f
    <3> QED BY <1>1, <1>2, <2>1, <3>1, <3>2 DEF TopOK
  <2>2. CASE creating[Top(t).reg] = t /\ Decide(t, "CircularDependency")
    <3> DEFINE f == [Top(t) EXCEPT !.pc = "return", !.code = "CircularDependency"]
    <3>1. f \in Frames /\ f.pc = "return" /\ f.gated = Top(t).gated /\ f.reg = Top(t).reg
      BY <1>2 DEF Frames, Codes
    <3>2. SetTop(t, f) BY <2>2 DEF Decide
    <3>3. \E j \in 1 .. Len(frames[t]) - 1 :
             frames[t][j].pc = "factory" /\ frames[t][j].reg = Top(t).reg
      BY <1>1, <1>2, <2>2, CreatorIsBelow
    <3> HIDE DEF f
    <3> QED BY <3>1, <3>2, <3>3 DEF TopOK
  <2>3. t # NoResolver BY ServicesAssumption
  <2> QED BY <2>1, <2>2, <2>3 DEF CheckState
<1> QED BY <1>1, <1>3, MoveKeeps, RegistryKept DEF SvIInv

LEMMA WaitForCreatorKeeps ==
  ASSUME SvIInv, NEW t \in Resolvers, WaitForCreator(t)
  PROVE  SvIInv'
<1>1. /\ Busy(t) /\ Top(t).pc = "wait"
      /\ UNCHANGED <<overwrite, registry, regs, creating, value, gate, calls, made>>
  BY DEF WaitForCreator, AtTop
<1>2. Top(t) \in Frames /\ ~Top(t).gated /\ Top(t).reg \in Regs /\ creating[Top(t).reg] # t
  BY <1>1, TopFacts
<1>3. PICK p \in {"publish", "gate"} : GoOn(t, p) BY DEF WaitForCreator
<1> DEFINE f == [Top(t) EXCEPT !.pc = p]
<1>4. f \in Frames /\ f.pc = p /\ f.gated = Top(t).gated /\ f.reg = Top(t).reg
  BY <1>2 DEF Frames
<1>5. SetTop(t, f) BY <1>3 DEF GoOn
<1> HIDE DEF f
<1>6. TopOK(t, f) BY <1>1, <1>2, <1>4 DEF TopOK
<1> QED BY <1>1, <1>4, <1>5, <1>6, MoveKeeps, RegistryKept DEF SvIInv

LEMMA PublishSingletonKeeps ==
  ASSUME SvIInv, NEW t \in Resolvers, PublishSingleton(t)
  PROVE  SvIInv'
<1>1. /\ Busy(t) /\ Top(t).pc = "publish"
      /\ UNCHANGED <<overwrite, regs, creating, value, gate, calls, made>>
  BY DEF PublishSingleton, AtTop
<1>2. PICK c \in {"ServiceNotFound", "ok"} : Decide(t, c) BY DEF PublishSingleton
<1> DEFINE f == [Top(t) EXCEPT !.pc = "return", !.code = c]
<1>3. SetTop(t, f) /\ TopOK(t, f) BY <1>1, <1>2, DecideOK DEF Decide, Codes
<1>4. f.pc # "factory" /\ f.gated = Top(t).gated BY <1>1, TopFacts DEF Frames
<1> HIDE DEF f
<1>5. registry' \in [Locators -> [Keys -> Entries]] /\ RegistryOK'
  <2>1. CASE UNCHANGED registry BY <1>1, <2>1, RegistryKept
  <2> DEFINE l == Top(t).loc
             k == Top(t).key
             e == registry[l][k]
             z == [e EXCEPT !.shared = Top(t).reg]
  <2>2. CASE SameEntry(t) /\ registry' = [registry EXCEPT ![l][k].shared = Top(t).reg]
    <3>1. /\ e \in Entries /\ (e = NoEntry \/ e.reg \in 1 .. regs) /\ e.shared \in {0, e.reg}
          /\ l \in Locators /\ k \in Keys /\ e.reg = Top(t).reg
      BY <1>1, <2>2, EntryFacts DEF SvIInv, RegistryOK, Entry, SameEntry
    <3>2. e # NoEntry BY <2>2 DEF SameEntry, Entry, NoEntry
    <3>3. z \in Entries /\ z.reg = e.reg /\ z.shared = e.reg /\ z.reg \in 1 .. regs
      <4> HIDE DEF e
      <4> QED BY <3>1, <3>2 DEF Entries
    <3>4. registry' = [registry EXCEPT ![l] = [registry[l] EXCEPT ![k] = z]] BY <2>2
    <3>5. registry \in [Locators -> [Keys -> Entries]] BY DEF SvIInv, SvTypes
    <3> HIDE DEF l, k, e, z
    <3>6. registry' \in [Locators -> [Keys -> Entries]] BY <3>1, <3>3, <3>4, <3>5
    <3>7. \A a \in Locators, b \in Keys :
             registry'[a][b] = IF a = l /\ b = k THEN z ELSE registry[a][b]
      BY <3>1, <3>4, <3>5
    <3>8. RegistryOK' BY <1>1, <3>3, <3>7 DEF SvIInv, RegistryOK
    <3> QED BY <3>6, <3>8
  <2> QED BY <2>1, <2>2 DEF PublishSingleton
<1> QED BY <1>1, <1>3, <1>4, <1>5, MoveKeeps DEF SvIInv

-----------------------------------------------------------------------------
(* Passing the gate. *)
LEMMA GatedFinite ==
  ASSUME NEW s \in Seq(Frames)
  PROVE  IsFiniteSet(GatedCalls(s)) /\ Cardinality(GatedCalls(s)) \in Nat
<1>1. Len(s) \in Nat BY LenProperties
<1>2. IsFiniteSet(1 .. Len(s)) BY <1>1, FS_Interval
<1>3. GatedCalls(s) \subseteq 1 .. Len(s) BY DEF GatedCalls
<1> QED BY <1>2, <1>3, FS_Subset, FS_CardinalityType

LEMMA GateEnterKeeps ==
  ASSUME SvIInv, NEW t \in Resolvers, GateEnter(t)
  PROVE  SvIInv'
<1>1. /\ Busy(t) /\ Top(t).pc = "gate" /\ (gate.depth = 0 \/ gate.owner = t)
      /\ gate' = [owner |-> t, depth |-> gate.depth + 1]
      /\ SetTop(t, [Top(t) EXCEPT !.pc = "recheck", !.gated = TRUE])
      /\ UNCHANGED <<overwrite, registry, regs, creating, value, calls, made>>
  BY DEF GateEnter, AtTop
<1>2. /\ Top(t) \in Frames /\ ~Top(t).gated /\ Top(t).reg \in Regs /\ creating[Top(t).reg] # t
  BY <1>1, TopFacts
<1> DEFINE f == [Top(t) EXCEPT !.pc = "recheck", !.gated = TRUE]
           n == Len(frames[t])
<1>3. f \in Frames /\ f.pc = "recheck" /\ f.gated /\ f.reg = Top(t).reg BY <1>2 DEF Frames
<1>4. SetTop(t, f) BY <1>1
<1> HIDE DEF f
<1>5. TopOK(t, f) /\ CreatingMoves(t) BY <1>1, <1>2, <1>3 DEF TopOK, CreatingMoves
<1>6. FramesOK' BY <1>1, <1>3, <1>4, <1>5, FramesKept
<1>7. CreatorsOK' BY <1>1, <1>3, <1>4, CreatorsKept
<1>8. /\ n \in Nat \ {0} /\ Len(frames'[t]) = n /\ frames'[t][n] = f /\ ~frames[t][n].gated
      /\ \A i \in 1 .. n - 1 : frames'[t][i] = frames[t][i]
      /\ \A u \in Resolvers \ {t} : frames'[u] = frames[u]
      /\ frames' \in [Resolvers -> Seq(Frames)] /\ frames[t] \in Seq(Frames)
  BY <1>1, <1>2, <1>3, <1>4, TopIs, TopSets DEF SvIInv
<1>9. GatedCalls(frames'[t]) = GatedCalls(frames[t]) \cup {n} /\ n \notin GatedCalls(frames[t])
  <2>1. \A i \in 1 .. n : i = n \/ i \in 1 .. n - 1 BY <1>8
  <2>2. n \in 1 .. n /\ (1 .. n - 1) \subseteq 1 .. n BY <1>8
  <2> QED BY <1>3, <1>8, <2>1, <2>2 DEF GatedCalls
<1>10. gate.depth \in Nat /\ gate.depth = Cardinality(GatedCalls(frames[t]))
       /\ (gate.owner = NoResolver \/ gate.owner = t)
  <2>1. gate.depth \in Nat BY DEF SvIInv, SvTypes
  <2>2. CASE gate.owner = t BY <2>1, <2>2, ServicesAssumption DEF SvIInv, GateOK
  <2>3. CASE gate.owner # t
    <3>1. gate.depth = 0 BY <1>1, <2>3
    <3>2. gate.owner = NoResolver BY <3>1 DEF SvIInv, GateOK
    <3>3. GatedCalls(frames[t]) = {} BY <2>3 DEF SvIInv, GateOK
    <3> QED BY <3>1, <3>2, <3>3, FS_EmptySet
  <2> QED BY <2>2, <2>3
<1>11. Cardinality(GatedCalls(frames'[t])) = gate.depth + 1
  <2> DEFINE G == GatedCalls(frames[t])
  <2>1. IsFiniteSet(G) BY <1>8, GatedFinite
  <2> HIDE DEF G
  <2>2. n \notin G => Cardinality(G \cup {n}) = Cardinality(G) + 1 BY <2>1, FS_AddElement
  <2> QED BY <1>9, <1>10, <2>2 DEF G
<1>12. GateOK'
  <2>1. gate'.owner = t /\ gate'.depth = gate.depth + 1 /\ t # NoResolver
    BY <1>1, ServicesAssumption
  <2>2. \A u \in Resolvers : u # t => GatedCalls(frames'[u]) = {}
    BY <1>8, <1>10, ServicesAssumption DEF SvIInv, GateOK
  <2> QED BY <1>10, <1>11, <2>1, <2>2 DEF GateOK
<1>13. SvTypes'
  <2>1. gate' \in [owner : Resolvers \cup {NoResolver}, depth : Nat] BY <1>1, <1>10
  <2>2. \A u \in Resolvers : Len(frames'[u]) <= MaxNest BY <1>8 DEF SvIInv, SvTypes
  <2> QED BY <1>1, <1>8, <2>1, <2>2 DEF SvIInv, SvTypes
<1> QED BY <1>1, <1>6, <1>7, <1>12, <1>13, RegistryKept DEF SvIInv

(* Becoming the creator. *)
LEMMA CreationBegins ==
  ASSUME SvIInv, NEW t \in Resolvers, Busy(t), Top(t).pc = "recheck", NEW f \in Frames, SetTop(t, f),
         f.pc = "factory", f.reg = Top(t).reg, ~value[f.reg], creating[f.reg] = NoResolver,
         creating' = [creating EXCEPT ![f.reg] = t], UNCHANGED <<value, made>>
  PROVE  CreatingMoves(t) /\ CreatorsOK' /\ creating'[f.reg] = t
<1> DEFINE r == f.reg
           n == Len(frames[t])
<1>1. r \in Regs BY TopFacts
<1>2. creating \in [Regs -> Resolvers \cup {NoResolver}] BY DEF SvIInv, SvTypes
<1>3. creating'[r] = t /\ \A q \in Regs \ {r} : creating'[q] = creating[q] BY <1>1, <1>2
<1>4. \A u \in Resolvers : \A i \in 1 .. Len(frames[u]) :
         ~(frames[u][i].pc = "factory" /\ frames[u][i].reg = r)
  <2> SUFFICES ASSUME NEW u \in Resolvers, NEW i \in 1 .. Len(frames[u]),
                      frames[u][i].pc = "factory", frames[u][i].reg = r
               PROVE  FALSE
    OBVIOUS
  <2>1. creating[r] = u BY DEF SvIInv, FramesOK, FrameOK
  <2> QED BY <2>1, ServicesAssumption
<1>5. CreatingMoves(t) BY <1>3, <1>4 DEF CreatingMoves
<1>6. /\ n \in Nat \ {0} /\ n \in 1 .. n /\ Len(frames'[t]) = n /\ frames'[t][n] = f
      /\ frames[t][n].pc # "factory"
      /\ \A i \in 1 .. n - 1 : frames'[t][i] = frames[t][i]
      /\ \A u \in Resolvers \ {t} : frames'[u] = frames[u]
  BY TopIs, TopSets DEF SvIInv
<1>7. \A i \in 1 .. n : i = n \/ i \in 1 .. n - 1 BY <1>6
<1> HIDE DEF n
<1>8. ASSUME NEW q \in Regs, creating'[q] # NoResolver
      PROVE  /\ ~value[q]
             /\ \E i \in 1 .. Len(frames'[creating'[q]]) :
                  frames'[creating'[q]][i].pc = "factory" /\ frames'[creating'[q]][i].reg = q
  <2>1. CASE q = r BY <1>3, <1>6, <2>1
  <2>2. CASE q # r
    <3>1. creating'[q] = creating[q] /\ creating[q] \in Resolvers BY <1>2, <1>3, <1>8, <2>2
    <3>2. ~value[q] /\ \E i \in 1 .. Len(frames[creating[q]]) :
             frames[creating[q]][i].pc = "factory" /\ frames[creating[q]][i].reg = q
      BY <1>8, <3>1 DEF SvIInv, CreatorsOK
    <3>3. PICK i \in 1 .. Len(frames[creating[q]]) :
             frames[creating[q]][i].pc = "factory" /\ frames[creating[q]][i].reg = q
      BY <3>2
    <3>4. i \in 1 .. Len(frames'[creating[q]]) /\ frames'[creating[q]][i] = frames[creating[q]][i]
      <4>1. CASE creating[q] = t
        <5>1. i \in 1 .. n /\ i # n BY <1>6, <3>3, <4>1 DEF n
        <5> QED BY <1>6, <1>7, <4>1, <5>1
      <4>2. CASE creating[q] # t BY <1>6, <3>1, <3>3, <4>2
      <4> QED BY <4>1, <4>2
    <3> QED BY <3>1, <3>2, <3>3, <3>4
  <2> QED BY <2>1, <2>2
<1>9. ASSUME NEW u \in Resolvers, NEW i \in 1 .. Len(frames'[u]), NEW j \in 1 .. Len(frames'[u]),
             frames'[u][i].pc = "factory", frames'[u][j].pc = "factory",
             frames'[u][i].reg = frames'[u][j].reg
      PROVE  i = j
  <2>1. CASE u # t BY <1>6, <1>9, <2>1 DEF SvIInv, CreatorsOK
  <2>2. CASE u = t
    <3>1. i \in 1 .. n /\ j \in 1 .. n BY <1>6, <2>2
    <3>2. ASSUME NEW k \in 1 .. n - 1, frames'[t][k].pc = "factory" PROVE frames'[t][k].reg # r
      BY <1>4, <1>6, <3>2 DEF n
    <3>3. CASE i = n \/ j = n BY <1>6, <1>7, <1>9, <2>2, <3>1, <3>2, <3>3
    <3>4. CASE i # n /\ j # n
      <4>1. frames'[t][i] = frames[t][i] /\ frames'[t][j] = frames[t][j] BY <1>6, <1>7, <3>1, <3>4
      <4> QED BY <1>9, <2>2, <3>1, <4>1 DEF SvIInv, CreatorsOK, n
    <3> QED BY <3>3, <3>4
  <2> QED BY <2>1, <2>2
<1>10. \A q \in Regs : made'[q] = IF value'[q] THEN 1 ELSE 0 BY DEF SvIInv, CreatorsOK
<1>11. CreatorsOK'
  <2>1. \A q \in Regs : creating'[q] # NoResolver =>
           /\ ~value'[q]
           /\ \E i \in 1 .. Len(frames'[creating'[q]]) :
                frames'[creating'[q]][i].pc = "factory" /\ frames'[creating'[q]][i].reg = q
    BY <1>8
  <2> QED BY <1>9, <1>10, <2>1 DEF CreatorsOK
<1> QED BY <1>3, <1>5, <1>11

LEMMA RecheckKeeps ==
  ASSUME SvIInv, NEW t \in Resolvers, Recheck(t)
  PROVE  SvIInv'
<1>1. /\ Busy(t) /\ Top(t).pc = "recheck"
      /\ UNCHANGED <<overwrite, registry, regs, value, gate, calls, made>>
  BY DEF Recheck, AtTop
<1>2. Top(t) \in Frames /\ Top(t).gated /\ Top(t).reg \in Regs BY <1>1, TopFacts
<1>3. CASE UNCHANGED creating /\ GoOn(t, "publish")
  <2> DEFINE f == [Top(t) EXCEPT !.pc = "publish"]
  <2>1. f \in Frames /\ f.pc = "publish" /\ f.gated = Top(t).gated /\ f.reg = Top(t).reg
    BY <1>2 DEF Frames
  <2>2. SetTop(t, f) BY <1>3 DEF GoOn
  <2> HIDE DEF f
  <2>3. TopOK(t, f) BY <1>2, <2>1 DEF TopOK
  <2> QED BY <1>1, <1>3, <2>1, <2>2, <2>3, MoveKeeps, RegistryKept DEF SvIInv
<1>4. CASE /\ ~value[Top(t).reg] /\ creating[Top(t).reg] = NoResolver
           /\ creating' = [creating EXCEPT ![Top(t).reg] = t] /\ GoOn(t, "factory")
  <2> DEFINE f == [Top(t) EXCEPT !.pc = "factory"]
  <2>1. f \in Frames /\ f.pc = "factory" /\ f.gated = Top(t).gated /\ f.reg = Top(t).reg
    BY <1>2 DEF Frames
  <2>2. SetTop(t, f) BY <1>4 DEF GoOn
  <2> HIDE DEF f
  <2>3. CreatingMoves(t) /\ CreatorsOK' /\ creating'[f.reg] = t
    BY <1>1, <1>4, <2>1, <2>2, CreationBegins
  <2>4. TopOK(t, f) BY <1>2, <2>1, <2>3 DEF TopOK
  <2>5. FramesOK' /\ GateOK' BY <1>1, <2>1, <2>2, <2>3, <2>4, FramesKept, GateKept
  <2>6. SvTypes'
    <3>1. creating' \in [Regs -> Resolvers \cup {NoResolver}] BY <1>4 DEF SvIInv, SvTypes
    <3>2. frames' \in [Resolvers -> Seq(Frames)] /\ \A u \in Resolvers : Len(frames'[u]) <= MaxNest
      BY <1>1, <2>1, <2>2, TopSets DEF SvIInv, SvTypes
    <3> QED BY <1>1, <3>1, <3>2 DEF SvIInv, SvTypes
  <2> QED BY <1>1, <2>3, <2>5, <2>6, RegistryKept DEF SvIInv
<1> QED BY <1>3, <1>4 DEF Recheck

(* The factory returns or throws: its object, if any, is the first one. *)
LEMMA CreationEnds ==
  ASSUME SvIInv, NEW t \in Resolvers, Busy(t), Top(t).pc = "factory", NEW f \in Frames, SetTop(t, f),
         f.pc # "factory", creating' = [creating EXCEPT ![Top(t).reg] = NoResolver],
         \/ UNCHANGED <<value, made>>
         \/ /\ value' = [value EXCEPT ![Top(t).reg] = TRUE]
            /\ made' = [made EXCEPT ![Top(t).reg] = made[Top(t).reg] + 1]
  PROVE  CreatingMoves(t) /\ CreatorsOK'
<1> DEFINE r == Top(t).reg
           n == Len(frames[t])
<1>1. r \in Regs /\ creating[r] = t /\ t # NoResolver BY TopFacts, ServicesAssumption
<1>2. creating \in [Regs -> Resolvers \cup {NoResolver}] /\ value \in [Regs -> BOOLEAN]
      /\ made \in [Regs -> Nat]
  BY DEF SvIInv, SvTypes
<1>3. creating'[r] = NoResolver /\ \A q \in Regs \ {r} : creating'[q] = creating[q] BY <1>1, <1>2
<1>4. /\ n \in Nat \ {0} /\ n \in 1 .. n /\ Len(frames'[t]) = n /\ frames'[t][n] = f
      /\ frames[t][n].pc = "factory" /\ frames[t][n].reg = r
      /\ \A i \in 1 .. n - 1 : frames'[t][i] = frames[t][i]
      /\ \A u \in Resolvers \ {t} : frames'[u] = frames[u]
  BY TopIs, TopSets DEF SvIInv
<1>5. \A i \in 1 .. n : i = n \/ i \in 1 .. n - 1 BY <1>4
<1>6. \A u \in Resolvers : \A i \in 1 .. Len(frames[u]) :
         (u # t \/ i < n) => ~(frames[u][i].pc = "factory" /\ frames[u][i].reg = r)
  <2> SUFFICES ASSUME NEW u \in Resolvers, NEW i \in 1 .. Len(frames[u]), u # t \/ i < n,
                      frames[u][i].pc = "factory", frames[u][i].reg = r
               PROVE  FALSE
    OBVIOUS
  <2>1. u = t BY <1>1 DEF SvIInv, FramesOK, FrameOK
  <2>2. i = n BY <1>4, <2>1 DEF SvIInv, CreatorsOK
  <2> QED BY <1>4, <2>1, <2>2
<1>7. CreatingMoves(t) BY <1>3, <1>6 DEF CreatingMoves
<1>8. /\ ~value[r] /\ made[r] = 0 BY <1>1 DEF SvIInv, CreatorsOK
<1>9. \A q \in Regs : made'[q] = IF value'[q] THEN 1 ELSE 0
  <2>1. \A q \in Regs : made[q] = IF value[q] THEN 1 ELSE 0 BY DEF SvIInv, CreatorsOK
  <2> QED BY <1>1, <1>2, <1>8, <2>1
<1> HIDE DEF n, r
<1>10. ASSUME NEW q \in Regs, creating'[q] # NoResolver
       PROVE  /\ ~value'[q]
              /\ \E i \in 1 .. Len(frames'[creating'[q]]) :
                   frames'[creating'[q]][i].pc = "factory" /\ frames'[creating'[q]][i].reg = q
  <2>1. q # r /\ creating'[q] = creating[q] /\ creating[q] \in Resolvers BY <1>2, <1>3, <1>10
  <2>2. ~value[q] /\ \E i \in 1 .. Len(frames[creating[q]]) :
           frames[creating[q]][i].pc = "factory" /\ frames[creating[q]][i].reg = q
    BY <1>10, <2>1 DEF SvIInv, CreatorsOK
  <2>3. PICK i \in 1 .. Len(frames[creating[q]]) :
           frames[creating[q]][i].pc = "factory" /\ frames[creating[q]][i].reg = q
    BY <2>2
  <2>4. i \in 1 .. Len(frames'[creating[q]]) /\ frames'[creating[q]][i] = frames[creating[q]][i]
    <3>1. CASE creating[q] = t
      <4>1. i \in 1 .. n /\ i # n BY <1>4, <2>1, <2>3, <3>1 DEF n
      <4> QED BY <1>4, <1>5, <3>1, <4>1
    <3>2. CASE creating[q] # t BY <1>4, <2>1, <2>3, <3>2
    <3> QED BY <3>1, <3>2
  <2>5. value'[q] = value[q] BY <1>1, <1>2, <2>1 DEF r
  <2> QED BY <2>1, <2>2, <2>3, <2>4, <2>5
<1>11. ASSUME NEW u \in Resolvers, NEW i \in 1 .. Len(frames'[u]), NEW j \in 1 .. Len(frames'[u]),
              frames'[u][i].pc = "factory", frames'[u][j].pc = "factory",
              frames'[u][i].reg = frames'[u][j].reg
       PROVE  i = j
  <2>1. CASE u # t BY <1>4, <1>11, <2>1 DEF SvIInv, CreatorsOK
  <2>2. CASE u = t
    <3>1. i \in 1 .. n /\ j \in 1 .. n /\ i # n /\ j # n BY <1>4, <1>11, <2>2
    <3>2. frames'[t][i] = frames[t][i] /\ frames'[t][j] = frames[t][j] BY <1>4, <1>5, <3>1
    <3> QED BY <1>11, <2>2, <3>1, <3>2 DEF SvIInv, CreatorsOK, n
  <2> QED BY <2>1, <2>2
<1>12. CreatorsOK' BY <1>9, <1>10, <1>11 DEF CreatorsOK
<1> QED BY <1>7, <1>12

LEMMA FactoryFailsKeeps ==
  ASSUME SvIInv, NEW t \in Resolvers, NEW code \in {"FactoryReturnedNull", "FactoryThrew"},
         FactoryFails(t, code)
  PROVE  SvIInv'
<1>1. /\ Busy(t) /\ Top(t).pc = "factory" /\ Decide(t, code)
      /\ creating' = [creating EXCEPT ![Top(t).reg] = NoResolver]
      /\ UNCHANGED <<overwrite, registry, regs, value, gate, calls, made>>
  BY DEF FactoryFails, AtTop
<1>2. Top(t) \in Frames BY <1>1, TopFacts
<1> DEFINE f == [Top(t) EXCEPT !.pc = "return", !.code = code]
<1>3. SetTop(t, f) /\ TopOK(t, f) BY <1>1, DecideOK DEF Decide, Codes
<1>4. f \in Frames /\ f.pc # "factory" /\ f.gated = Top(t).gated
  BY <1>2 DEF Frames, Codes
<1> HIDE DEF f
<1>5. CreatingMoves(t) /\ CreatorsOK' BY <1>1, <1>3, <1>4, CreationEnds
<1>6. FramesOK' /\ GateOK' BY <1>1, <1>3, <1>4, <1>5, FramesKept, GateKept
<1>7. SvTypes'
  <2>1. creating' \in [Regs -> Resolvers \cup {NoResolver}] BY <1>1 DEF SvIInv, SvTypes
  <2>2. frames' \in [Resolvers -> Seq(Frames)] /\ \A u \in Resolvers : Len(frames'[u]) <= MaxNest
    BY <1>1, <1>3, <1>4, TopSets DEF SvIInv, SvTypes
  <2> QED BY <1>1, <2>1, <2>2 DEF SvIInv, SvTypes
<1> QED BY <1>1, <1>5, <1>6, <1>7, RegistryKept DEF SvIInv

LEMMA FactoryMakesKeeps ==
  ASSUME SvIInv, NEW t \in Resolvers, FactoryMakes(t)
  PROVE  SvIInv'
<1>1. /\ Busy(t) /\ Top(t).pc = "factory" /\ GoOn(t, "publish")
      /\ creating' = [creating EXCEPT ![Top(t).reg] = NoResolver]
      /\ value' = [value EXCEPT ![Top(t).reg] = TRUE]
      /\ made' = [made EXCEPT ![Top(t).reg] = made[Top(t).reg] + 1]
      /\ UNCHANGED <<overwrite, registry, regs, gate, calls>>
  BY DEF FactoryMakes, AtTop
<1>2. Top(t) \in Frames /\ Top(t).gated /\ Top(t).reg \in Regs BY <1>1, TopFacts
<1> DEFINE f == [Top(t) EXCEPT !.pc = "publish"]
<1>3. f \in Frames /\ f.pc = "publish" /\ f.gated = Top(t).gated /\ f.reg = Top(t).reg
  BY <1>2 DEF Frames
<1>4. SetTop(t, f) BY <1>1 DEF GoOn
<1> HIDE DEF f
<1>5. TopOK(t, f) BY <1>2, <1>3 DEF TopOK
<1>6. CreatingMoves(t) /\ CreatorsOK' BY <1>1, <1>3, <1>4, CreationEnds
<1>7. FramesOK' /\ GateOK' BY <1>1, <1>3, <1>4, <1>5, <1>6, FramesKept, GateKept
<1>8. SvTypes'
  <2>1. /\ creating' \in [Regs -> Resolvers \cup {NoResolver}] /\ value' \in [Regs -> BOOLEAN]
        /\ made' \in [Regs -> Nat]
    BY <1>1, <1>2 DEF SvIInv, SvTypes
  <2>2. frames' \in [Resolvers -> Seq(Frames)] /\ \A u \in Resolvers : Len(frames'[u]) <= MaxNest
    BY <1>1, <1>3, <1>4, TopSets DEF SvIInv, SvTypes
  <2> QED BY <1>1, <2>1, <2>2 DEF SvIInv, SvTypes
<1> QED BY <1>1, <1>6, <1>7, <1>8, RegistryKept DEF SvIInv

-----------------------------------------------------------------------------
(* A call begins, and a call ends. *)

(* Factories that run are the same, and nobody else moves. *)
LEMMA ResolveCallKeeps ==
  ASSUME SvIInv, NEW t \in Resolvers, NEW l \in Locators, NEW k \in Keys, ResolveCall(t, l, k)
  PROVE  SvIInv'
<1> DEFINE n == Len(frames[t])
           f == [loc |-> l, key |-> k, pc |-> "find", reg |-> 0, fac |-> FALSE,
                 gated |-> FALSE, code |-> "ok"]
<1>1. /\ (Busy(t) => InFactory(t)) /\ n < MaxNest /\ calls < MaxCalls /\ calls' = calls + 1
      /\ frames' = [frames EXCEPT ![t] = Append(frames[t], f)]
      /\ UNCHANGED <<overwrite, registry, regs, creating, value, gate, made>>
  BY DEF ResolveCall
<1>2. f \in Frames /\ f.pc = "find" /\ ~f.gated BY ServicesAssumption DEF Frames, Codes
<1> HIDE DEF f
<1>3. frames \in [Resolvers -> Seq(Frames)] /\ frames[t] \in Seq(Frames) /\ n \in Nat
  BY LenProperties DEF SvIInv, SvTypes
<1>4. /\ frames' \in [Resolvers -> Seq(Frames)] /\ Len(frames'[t]) = n + 1 /\ frames'[t][n + 1] = f
      /\ \A i \in 1 .. n : frames'[t][i] = frames[t][i]
      /\ \A u \in Resolvers \ {t} : frames'[u] = frames[u]
  <2>1. /\ Append(frames[t], f) \in Seq(Frames) /\ Len(Append(frames[t], f)) = n + 1
        /\ Append(frames[t], f)[n + 1] = f
        /\ \A i \in 1 .. n : Append(frames[t], f)[i] = frames[t][i]
    BY <1>2, <1>3, AppendProperties
  <2> QED BY <1>1, <1>3, <2>1
<1>5. \A i \in 1 .. n : frames[t][i].pc \in {"transient", "factory"}
  <2> SUFFICES ASSUME NEW i \in 1 .. n PROVE frames[t][i].pc \in {"transient", "factory"} OBVIOUS
  <2>1. CASE i < n BY <2>1 DEF SvIInv, FramesOK, FrameOK
  <2>2. CASE i = n
    <3>1. Busy(t) BY <1>3, EmptySeq DEF Busy
    <3> QED BY <1>1, <2>2, <3>1 DEF InFactory, AtTop, Top
  <2> QED BY <1>3, <2>1, <2>2
<1>6. \A i \in 1 .. n + 1 : i = n + 1 \/ i \in 1 .. n BY <1>3
<1>7. n + 1 \in 1 .. n + 1 /\ (1 .. n) \subseteq 1 .. n + 1 BY <1>3
<1> HIDE DEF n
<1>8. FramesOK'
  <2> SUFFICES ASSUME NEW u \in Resolvers, NEW i \in 1 .. Len(frames'[u]) PROVE FrameOK(u, i)'
    BY DEF FramesOK
  <2>1. CASE u # t
    <3>1. FrameOK(u, i) /\ frames'[u] = frames[u] BY <1>4, <2>1 DEF SvIInv, FramesOK
    <3> QED BY <1>1, <3>1 DEF FrameOK
  <2>2. CASE u = t /\ i = n + 1 BY <1>2, <1>3, <1>4, <2>2 DEF FrameOK
  <2>3. CASE u = t /\ i \in 1 .. n
    <3>1. FrameOK(t, i) /\ frames'[t][i] = frames[t][i] /\ frames[t][i].pc \in {"transient", "factory"}
      BY <1>4, <1>5, <2>3 DEF SvIInv, FramesOK, n
    <3> QED BY <1>1, <2>3, <3>1 DEF FrameOK
  <2> QED BY <1>4, <1>6, <2>1, <2>2, <2>3
<1>9. CreatorsOK'
  <2>1. ASSUME NEW r \in Regs, creating[r] # NoResolver
        PROVE  /\ ~value[r]
               /\ \E i \in 1 .. Len(frames'[creating[r]]) :
                    frames'[creating[r]][i].pc = "factory" /\ frames'[creating[r]][i].reg = r
    <3>1. creating[r] \in Resolvers BY <2>1 DEF SvIInv, SvTypes
    <3>2. ~value[r] /\ \E i \in 1 .. Len(frames[creating[r]]) :
             frames[creating[r]][i].pc = "factory" /\ frames[creating[r]][i].reg = r
      BY <2>1 DEF SvIInv, CreatorsOK
    <3> QED BY <1>4, <1>7, <3>1, <3>2 DEF n
  <2>2. ASSUME NEW u \in Resolvers, NEW i \in 1 .. Len(frames'[u]), NEW j \in 1 .. Len(frames'[u]),
               frames'[u][i].pc = "factory", frames'[u][j].pc = "factory",
               frames'[u][i].reg = frames'[u][j].reg
        PROVE  i = j
    <3>1. CASE u # t BY <1>4, <2>2, <3>1 DEF SvIInv, CreatorsOK
    <3>2. CASE u = t
      <4>1. i \in 1 .. n /\ j \in 1 .. n BY <1>2, <1>4, <1>6, <2>2, <3>2
      <4> QED BY <1>4, <2>2, <3>2, <4>1 DEF SvIInv, CreatorsOK, n
    <3> QED BY <3>1, <3>2
  <2> QED BY <1>1, <2>1, <2>2 DEF SvIInv, CreatorsOK
<1>10. GateOK'
  <2>1. GatedCalls(frames'[t]) = GatedCalls(frames[t])
    BY <1>2, <1>4, <1>6, <1>7 DEF GatedCalls, n
  <2>2. \A u \in Resolvers : GatedCalls(frames'[u]) = GatedCalls(frames[u]) BY <1>4, <2>1
  <2>3. gate.owner # NoResolver => gate.owner \in Resolvers BY DEF SvIInv, SvTypes
  <2> QED BY <1>1, <2>2, <2>3 DEF SvIInv, GateOK
<1>11. SvTypes'
  <2>1. \A u \in Resolvers : Len(frames'[u]) <= MaxNest
    BY <1>1, <1>3, <1>4, ServicesAssumption DEF SvIInv, SvTypes, n
  <2>2. calls' \in 0 .. MaxCalls BY <1>1, ServicesAssumption DEF SvIInv, SvTypes
  <2> QED BY <1>1, <1>4, <2>1, <2>2 DEF SvIInv, SvTypes
<1> QED BY <1>1, <1>8, <1>9, <1>10, <1>11, RegistryKept DEF SvIInv

LEMMA ResolveReturnsKeeps ==
  ASSUME SvIInv, NEW t \in Resolvers, ResolveReturns(t)
  PROVE  SvIInv'
<1> DEFINE n == Len(frames[t])
<1>1. /\ Busy(t) /\ Top(t).pc = "return"
      /\ gate' = IF Top(t).gated THEN GateExit ELSE gate
      /\ frames' = [frames EXCEPT ![t] = SubSeq(frames[t], 1, n - 1)]
      /\ UNCHANGED <<overwrite, registry, regs, creating, value, calls, made>>
  BY DEF ResolveReturns, AtTop
<1>2. /\ n \in Nat \ {0} /\ n \in 1 .. n /\ frames[t] \in Seq(Frames) /\ Top(t) = frames[t][n]
      /\ frames \in [Resolvers -> Seq(Frames)] /\ Top(t) \in Frames
  BY <1>1, TopIs DEF SvIInv, SvTypes
<1>3. /\ frames' \in [Resolvers -> Seq(Frames)] /\ Len(frames'[t]) = n - 1
      /\ \A i \in 1 .. n - 1 : frames'[t][i] = frames[t][i]
      /\ \A u \in Resolvers \ {t} : frames'[u] = frames[u]
  <2> DEFINE z == SubSeq(frames[t], 1, n - 1)
  <2>1. /\ z \in Seq(Frames) /\ Len(z) = n - 1 /\ \A i \in 1 .. n - 1 : z[i] = frames[t][i]
    <3>1. z = [i \in 1 .. n - 1 |-> frames[t][i]]
      <4>1. 1 .. (n - 1) - 1 + 1 = 1 .. n - 1 /\ \A i \in 1 .. n - 1 : i + 1 - 1 = i BY <1>2
      <4> QED BY <1>2, <4>1
    <3>2. \A i \in 1 .. n - 1 : frames[t][i] \in Frames
      <4>1. \A i \in 1 .. n - 1 : i \in 1 .. n BY <1>2
      <4> QED BY <1>2, <4>1, ElementOfSeq
    <3>3. z \in [1 .. n - 1 -> Frames] BY <3>1, <3>2
    <3>4. n - 1 \in Nat BY <1>2
    <3> HIDE DEF z
    <3> QED BY <3>1, <3>3, <3>4
  <2> HIDE DEF z
  <2> QED BY <1>1, <1>2, <2>1 DEF z
<1>4. \A i \in 1 .. n : i = n \/ i \in 1 .. n - 1 BY <1>2
<1>5. (1 .. n - 1) \subseteq 1 .. n /\ n \notin 1 .. n - 1 /\ \A i \in 1 .. n - 1 : i < n BY <1>2
<1> HIDE DEF n
<1>6. FramesOK'
  <2> SUFFICES ASSUME NEW u \in Resolvers, NEW i \in 1 .. Len(frames'[u]) PROVE FrameOK(u, i)'
    BY DEF FramesOK
  <2>1. CASE u # t
    <3>1. FrameOK(u, i) /\ frames'[u] = frames[u] BY <1>3, <2>1 DEF SvIInv, FramesOK
    <3> QED BY <1>1, <3>1 DEF FrameOK
  <2>2. CASE u = t
    <3>1. i \in 1 .. n - 1 /\ i \in 1 .. n /\ i < n BY <1>3, <1>5, <2>2
    <3>2. FrameOK(t, i) /\ frames'[t][i] = frames[t][i] BY <1>3, <3>1 DEF SvIInv, FramesOK, n
    <3>3. frames[t][i].pc \in {"transient", "factory"} BY <3>1, <3>2 DEF FrameOK, n
    <3> QED BY <1>1, <2>2, <3>2, <3>3 DEF FrameOK
  <2> QED BY <2>1, <2>2
<1>7. CreatorsOK'
  <2>1. ASSUME NEW r \in Regs, creating[r] # NoResolver
        PROVE  /\ ~value[r]
               /\ \E i \in 1 .. Len(frames'[creating[r]]) :
                    frames'[creating[r]][i].pc = "factory" /\ frames'[creating[r]][i].reg = r
    <3>1. creating[r] \in Resolvers BY <2>1 DEF SvIInv, SvTypes
    <3>2. ~value[r] /\ \E i \in 1 .. Len(frames[creating[r]]) :
             frames[creating[r]][i].pc = "factory" /\ frames[creating[r]][i].reg = r
      BY <2>1 DEF SvIInv, CreatorsOK
    <3>3. frames[t][n].pc # "factory" BY <1>1, <1>2
    <3> QED BY <1>3, <1>4, <3>1, <3>2, <3>3 DEF n
  <2>2. ASSUME NEW u \in Resolvers, NEW i \in 1 .. Len(frames'[u]), NEW j \in 1 .. Len(frames'[u]),
               frames'[u][i].pc = "factory", frames'[u][j].pc = "factory",
               frames'[u][i].reg = frames'[u][j].reg
        PROVE  i = j
    <3>1. CASE u # t BY <1>3, <2>2, <3>1 DEF SvIInv, CreatorsOK
    <3>2. CASE u = t
      <4>1. i \in 1 .. n /\ j \in 1 .. n /\ frames'[t][i] = frames[t][i] /\ frames'[t][j] = frames[t][j]
        BY <1>3, <1>5, <3>2
      <4> QED BY <2>2, <3>2, <4>1 DEF SvIInv, CreatorsOK, n
    <3> QED BY <3>1, <3>2
  <2>3. \A r \in Regs : made'[r] = IF value'[r] THEN 1 ELSE 0 BY <1>1 DEF SvIInv, CreatorsOK
  <2>4. creating' = creating /\ value' = value BY <1>1
  <2> QED BY <2>1, <2>2, <2>3, <2>4 DEF CreatorsOK
<1> DEFINE G == GatedCalls(frames[t])
<1>8. GatedCalls(frames'[t]) = G \ {n} /\ (n \in G <=> Top(t).gated)
  BY <1>2, <1>3, <1>4, <1>5 DEF GatedCalls, n
<1>9. IsFiniteSet(G) /\ Cardinality(G) \in Nat BY <1>2, GatedFinite
<1>10. gate.depth \in Nat /\ gate.owner \in Resolvers \cup {NoResolver} /\ t # NoResolver
  BY ServicesAssumption DEF SvIInv, SvTypes
<1>11. /\ gate' \in [owner : Resolvers \cup {NoResolver}, depth : Nat] /\ GateOK'
  <2>1. CASE Top(t).gated
    <3>1. gate.owner = t /\ gate.depth > 0 /\ gate.depth = Cardinality(G)
      <4>1. G # {} BY <1>8, <2>1
      <4>2. gate.owner = t BY <4>1 DEF SvIInv, GateOK
      <4> QED BY <1>10, <4>2 DEF SvIInv, GateOK
    <3>2. gate'.owner = (IF gate.depth = 1 THEN NoResolver ELSE t) /\ gate'.depth = gate.depth - 1
          /\ gate' = [owner |-> IF gate.depth = 1 THEN NoResolver ELSE t, depth |-> gate.depth - 1]
      BY <1>1, <2>1, <3>1 DEF GateExit
    <3>3. Cardinality(G \ {n}) = Cardinality(G) - 1 /\ IsFiniteSet(G \ {n})
      <4>1. n \in G BY <1>8, <2>1
      <4> HIDE DEF G
      <4> QED BY <1>9, <4>1, FS_RemoveElement
    <3>4. gate.depth = 1 => G \ {n} = {}
      <4> HIDE DEF G
      <4>1. gate.depth = 1 => Cardinality(G \ {n}) = 0 BY <3>1, <3>3
      <4> QED BY <3>3, <4>1, FS_EmptySet
    <3>5. \A u \in Resolvers : u # t => GatedCalls(frames'[u]) = {}
      BY <1>3, <3>1 DEF SvIInv, GateOK
    <3>6. gate'.owner = t => /\ gate'.depth > 0 /\ gate'.depth = Cardinality(GatedCalls(frames'[t]))
      BY <1>8, <1>10, <3>1, <3>2, <3>3
    <3>7. gate'.owner = NoResolver => gate'.depth = 0 BY <1>10, <3>2
    <3>8. gate'.owner # t => GatedCalls(frames'[t]) = {} BY <1>8, <3>2, <3>4
    <3>9. gate'.owner \in {t, NoResolver} BY <3>2
    <3>10. gate' \in [owner : Resolvers \cup {NoResolver}, depth : Nat] BY <1>10, <3>1, <3>2
    <3> QED BY <3>5, <3>6, <3>7, <3>8, <3>9, <3>10 DEF GateOK
  <2>2. CASE ~Top(t).gated
    <3>1. gate' = gate BY <1>1, <2>2
    <3>2. \A u \in Resolvers : GatedCalls(frames'[u]) = GatedCalls(frames[u])
      <4>1. G \ {n} = G BY <1>8, <2>2
      <4> QED BY <1>3, <1>8, <4>1
    <3> QED BY <1>10, <3>1, <3>2 DEF SvIInv, SvTypes, GateOK
  <2> QED BY <2>1, <2>2
<1>12. SvTypes'
  <2>1. \A u \in Resolvers : Len(frames[u]) <= MaxNest BY DEF SvIInv, SvTypes
  <2>2. n - 1 <= MaxNest BY <1>2, <2>1, ServicesAssumption DEF n
  <2>3. \A u \in Resolvers : Len(frames'[u]) <= MaxNest BY <1>3, <2>1, <2>2
  <2> QED BY <1>1, <1>3, <1>11, <2>3 DEF SvIInv, SvTypes
<1> QED BY <1>1, <1>6, <1>7, <1>11, <1>12, RegistryKept DEF SvIInv

-----------------------------------------------------------------------------
(* Registrations: the calls under way do not move. *)
LEMMA RegistrationKeeps ==
  ASSUME SvIInv, UNCHANGED <<overwrite, creating, value, gate, frames, calls, made>>,
         registry' \in [Locators -> [Keys -> Entries]], regs' \in 0 .. MaxRegs, RegistryOK'
  PROVE  SvIInv'
<1>1. SvTypes' BY DEF SvIInv, SvTypes
<1>2. FramesOK' BY DEF SvIInv, FramesOK, FrameOK
<1>3. CreatorsOK' /\ GateOK' BY DEF SvIInv, CreatorsOK, GateOK
<1> QED BY <1>1, <1>2, <1>3 DEF SvIInv

LEMMA RegisterServiceKeeps ==
  ASSUME SvIInv, NEW l \in Locators, NEW k \in Keys, NEW kind \in EntryKinds,
         RegisterService(l, k, kind)
  PROVE  SvIInv'
<1> DEFINE e == [kind |-> kind, reg |-> regs + 1, shared |-> IF kind = "shared" THEN regs + 1 ELSE 0]
<1>1. /\ regs < MaxRegs /\ regs' = regs + 1
      /\ registry' = [registry EXCEPT ![l] = [registry[l] EXCEPT ![k] = e]]
      /\ UNCHANGED <<overwrite, creating, value, gate, frames, calls, made>>
  BY DEF RegisterService
<1>2. regs \in 0 .. MaxRegs /\ MaxRegs \in Nat /\ registry \in [Locators -> [Keys -> Entries]]
  BY ServicesAssumption DEF SvIInv, SvTypes
<1>3. regs' \in 0 .. MaxRegs /\ regs + 1 \in 1 .. regs' /\ 1 .. regs \subseteq 1 .. regs'
      /\ regs + 1 \in 0 .. MaxRegs /\ 0 \in 0 .. MaxRegs
  BY <1>1, <1>2
<1>4. e \in Entries /\ e.reg = regs + 1 /\ e.shared \in {0, e.reg} BY <1>3 DEF Entries
<1> HIDE DEF e
<1>5. registry' \in [Locators -> [Keys -> Entries]] BY <1>1, <1>2, <1>4
<1>6. \A a \in Locators, b \in Keys :
         registry'[a][b] = IF a = l /\ b = k THEN e ELSE registry[a][b]
  BY <1>1, <1>2
<1>7. RegistryOK' BY <1>3, <1>4, <1>6 DEF SvIInv, RegistryOK
<1> QED BY <1>1, <1>3, <1>5, <1>7, RegistrationKeeps

LEMMA NoEntryOK == NoEntry \in Entries /\ NoEntry.shared = 0
  BY ServicesAssumption DEF NoEntry, Entries

LEMMA UnregisterKeeps ==
  ASSUME SvIInv, NEW l \in Locators, NEW k \in Keys, Unregister(l, k)
  PROVE  SvIInv'
<1>1. /\ registry' = [registry EXCEPT ![l] = [registry[l] EXCEPT ![k] = NoEntry]]
      /\ UNCHANGED <<overwrite, regs, creating, value, gate, frames, calls, made>>
  BY DEF Unregister
<1>2. regs \in 0 .. MaxRegs /\ registry \in [Locators -> [Keys -> Entries]] BY DEF SvIInv, SvTypes
<1>3. registry' \in [Locators -> [Keys -> Entries]] BY <1>1, <1>2, NoEntryOK
<1>4. \A a \in Locators, b \in Keys :
         registry'[a][b] = IF a = l /\ b = k THEN NoEntry ELSE registry[a][b]
  BY <1>1, <1>2
<1>5. RegistryOK' BY <1>1, <1>4, NoEntryOK DEF SvIInv, RegistryOK
<1> QED BY <1>1, <1>2, <1>3, <1>5, RegistrationKeeps

LEMMA ClearServicesKeeps ==
  ASSUME SvIInv, NEW l \in Locators, ClearServices(l)
  PROVE  SvIInv'
<1>1. /\ registry' = [registry EXCEPT ![l] = [k \in Keys |-> NoEntry]]
      /\ UNCHANGED <<overwrite, regs, creating, value, gate, frames, calls, made>>
  BY DEF ClearServices
<1>2. regs \in 0 .. MaxRegs /\ registry \in [Locators -> [Keys -> Entries]] BY DEF SvIInv, SvTypes
<1>3. registry' \in [Locators -> [Keys -> Entries]] BY <1>1, <1>2, NoEntryOK
<1>4. \A a \in Locators, b \in Keys :
         registry'[a][b] = IF a = l THEN NoEntry ELSE registry[a][b]
  BY <1>1, <1>2
<1>5. RegistryOK' BY <1>1, <1>4, NoEntryOK DEF SvIInv, RegistryOK
<1> QED BY <1>1, <1>2, <1>3, <1>5, RegistrationKeeps

-----------------------------------------------------------------------------
LEMMA SvInitInv == ServicesInit => SvIInv
<1> SUFFICES ASSUME ServicesInit PROVE SvIInv OBVIOUS
<1>1. frames \in [Resolvers -> Seq(Frames)]
      /\ \A t \in Resolvers : frames[t] = << >> /\ Len(frames[t]) = 0 /\ 1 .. Len(frames[t]) = {}
  BY EmptySeq DEF ServicesInit
<1>2. SvTypes
  <2>1. registry \in [Locators -> [Keys -> Entries]] BY NoEntryOK DEF ServicesInit
  <2>2. 0 <= MaxNest /\ 0 \in 0 .. MaxRegs /\ 0 \in 0 .. MaxCalls /\ 0 \in Nat BY ServicesAssumption
  <2> QED BY <1>1, <2>1, <2>2 DEF ServicesInit, SvTypes
<1>3. RegistryOK BY NoEntryOK DEF ServicesInit, RegistryOK
<1>4. FramesOK BY <1>1 DEF FramesOK
<1>5. CreatorsOK BY <1>1 DEF ServicesInit, CreatorsOK
<1>6. GateOK BY <1>1 DEF ServicesInit, GateOK, GatedCalls
<1> QED BY <1>2, <1>3, <1>4, <1>5, <1>6 DEF SvIInv

LEMMA SvStepKeeps == SvIInv /\ [ServicesNext]_servicesVars => SvIInv'
<1> SUFFICES ASSUME SvIInv, [ServicesNext]_servicesVars PROVE SvIInv' OBVIOUS
<1>1. CASE \E l \in Locators, k \in Keys, kind \in EntryKinds : RegisterService(l, k, kind)
  BY <1>1, RegisterServiceKeeps
<1>2. CASE \E l \in Locators, k \in Keys : Unregister(l, k) BY <1>2, UnregisterKeeps
<1>3. CASE \E l \in Locators : ClearServices(l) BY <1>3, ClearServicesKeeps
<1>4. CASE \E t \in Resolvers, l \in Locators, k \in Keys : ResolveCall(t, l, k)
  BY <1>4, ResolveCallKeeps
<1>5. ASSUME NEW t \in Resolvers, ResolverStep(t) PROVE SvIInv'
  <2>1. CASE \E op \in Ops : LookUp(t, op) BY <2>1, LookUpKeeps
  <2>2. CASE AskParent(t) BY <2>2, AskParentKeeps
  <2>3. CASE FetchState(t) BY <2>3, FetchStateKeeps
  <2>4. CASE CheckState(t) BY <2>4, CheckStateKeeps
  <2>5. CASE WaitForCreator(t) BY <2>5, WaitForCreatorKeeps
  <2>6. CASE GateEnter(t) BY <2>6, GateEnterKeeps
  <2>7. CASE Recheck(t) BY <2>7, RecheckKeeps
  <2>8. CASE FactoryMakes(t) BY <2>8, FactoryMakesKeeps
  <2>9. CASE PublishSingleton(t) BY <2>9, PublishSingletonKeeps
  <2>10. CASE ResolveReturns(t) BY <2>10, ResolveReturnsKeeps
  <2>11. CASE \E code \in {"FactoryReturnedNull", "FactoryThrew"} : FactoryFails(t, code)
    BY <2>11, FactoryFailsKeeps
  <2>12. CASE \E code \in {"ok", "FactoryReturnedNull", "FactoryThrew"} : TransientReturns(t, code)
    BY <2>12, TransientReturnsKeeps
  <2> QED
    BY <1>5, <2>1, <2>2, <2>3, <2>4, <2>5, <2>6, <2>7, <2>8, <2>9, <2>10, <2>11, <2>12 DEF ResolverStep
<1>6. CASE UNCHANGED servicesVars
  <2>1. UNCHANGED <<overwrite, registry, regs, creating, value, gate, frames, calls, made>>
    BY <1>6 DEF servicesVars
  <2>2. RegistryOK' /\ registry' \in [Locators -> [Keys -> Entries]] BY <2>1, RegistryKept
  <2>3. regs' \in 0 .. MaxRegs BY <2>1 DEF SvIInv, SvTypes
  <2> QED BY <2>1, <2>2, <2>3, RegistrationKeeps
<1> QED BY <1>1, <1>2, <1>3, <1>4, <1>5, <1>6 DEF ServicesNext

(* The invariant holds along every run: registrations come and go while any *)
(* number of threads resolve services, through factories that resolve more. *)
THEOREM ServicesInductive == ServicesSpec => []SvIInv
<1> QED BY SvInitInv, SvStepKeeps, PTL DEF ServicesSpec

(* The calls behind the gate are not more than the calls there are. *)
LEMMA DepthIsBounded ==
  ASSUME SvIInv
  PROVE  gate.depth \in 0 .. MaxNest
<1>1. gate.depth \in Nat /\ MaxNest \in Nat BY ServicesAssumption DEF SvIInv, SvTypes
<1>2. CASE gate.owner = NoResolver BY <1>1, <1>2 DEF SvIInv, GateOK
<1>3. CASE gate.owner # NoResolver
  <2> DEFINE s == frames[gate.owner]
  <2>1. gate.owner \in Resolvers BY <1>3 DEF SvIInv, SvTypes
  <2>2. s \in Seq(Frames) /\ Len(s) \in Nat /\ Len(s) <= MaxNest
    BY <2>1, LenProperties DEF SvIInv, SvTypes
  <2>3. gate.depth = Cardinality(GatedCalls(s)) BY <1>3 DEF SvIInv, GateOK
  <2> HIDE DEF s
  <2>4. IsFiniteSet(1 .. Len(s)) /\ Cardinality(1 .. Len(s)) = Len(s) BY <2>2, FS_Interval
  <2>5. GatedCalls(s) \subseteq 1 .. Len(s) BY DEF GatedCalls
  <2>6. Cardinality(GatedCalls(s)) <= Cardinality(1 .. Len(s)) BY <2>4, <2>5, FS_Subset
  <2> QED BY <1>1, <2>2, <2>3, <2>4, <2>6
<1> QED BY <1>2, <1>3

(* The locator keeps its types: the gate's depth in particular is at most   *)
(* the depth to which factories nest.                                       *)
THEOREM ServicesTypes == ServicesSpec => []ServicesTypeOK
<1>1. SvIInv => ServicesTypeOK
  <2> SUFFICES ASSUME SvIInv PROVE ServicesTypeOK OBVIOUS
  <2>1. \A t \in Resolvers : \A i \in 1 .. Len(frames[t]) : frames[t][i] \in Frames
    BY ElementOfSeq DEF SvIInv, SvTypes
  <2>2. gate \in [owner : Resolvers \cup {NoResolver}, depth : 0 .. MaxNest]
    BY DepthIsBounded DEF SvIInv, SvTypes
  <2> QED BY <2>1, <2>2 DEF SvIInv, SvTypes, ServicesTypeOK
<1> QED BY ServicesInductive, <1>1, PTL

(* Whoever creates has a factory running, and owns the gate. *)
LEMMA CreatorOwnsGate ==
  ASSUME SvIInv
  PROVE  /\ \A t \in Resolvers : \A i \in 1 .. Len(frames[t]) : frames[t][i].gated => gate.owner = t
         /\ \A r \in Regs : creating[r] # NoResolver => creating[r] \in Resolvers /\ gate.owner = creating[r]
<1>1. ASSUME NEW t \in Resolvers, NEW i \in 1 .. Len(frames[t]), frames[t][i].gated
      PROVE  gate.owner = t
  <2>1. i \in GatedCalls(frames[t]) BY <1>1 DEF GatedCalls
  <2> QED BY <2>1 DEF SvIInv, GateOK
<1>2. ASSUME NEW r \in Regs, creating[r] # NoResolver
      PROVE  creating[r] \in Resolvers /\ gate.owner = creating[r]
  <2>1. creating[r] \in Resolvers BY <1>2 DEF SvIInv, SvTypes
  <2>2. PICK i \in 1 .. Len(frames[creating[r]]) :
           frames[creating[r]][i].pc = "factory" /\ frames[creating[r]][i].reg = r
    BY <1>2 DEF SvIInv, CreatorsOK
  <2>3. frames[creating[r]][i].gated BY <2>1, <2>2 DEF SvIInv, FramesOK, FrameOK
  <2> QED BY <1>1, <2>1, <2>2, <2>3
<1> QED BY <1>1, <1>2

(* "Factory execution is guaranteed exactly once per registration", one     *)
(* chain of factories at a time, and no object is cached under a            *)
(* registration that is not its own.                                        *)
THEOREM SingletonsSound == ServicesSpec => []SingletonsAreSound
<1>1. SvIInv => SingletonsAreSound
  <2> SUFFICES ASSUME SvIInv PROVE SingletonsAreSound OBVIOUS
  <2>1. SingletonMadeOnce
    <3>1. \A r \in Regs : made[r] = IF value[r] THEN 1 ELSE 0 BY DEF SvIInv, CreatorsOK
    <3> QED BY <3>1 DEF SingletonMadeOnce
  <2>2. OneChainOfFactories
    <3>1. ASSUME NEW t \in Resolvers, NEW i \in 1 .. Len(frames[t]), frames[t][i].pc = "factory"
          PROVE  gate.owner = t /\ creating[frames[t][i].reg] = t
      <4>1. frames[t][i].gated /\ creating[frames[t][i].reg] = t
        BY <3>1 DEF SvIInv, FramesOK, FrameOK
      <4> QED BY <4>1, CreatorOwnsGate
    <3> QED BY <3>1 DEF OneChainOfFactories
  <2>3. CachedObjectIsOwn BY DEF SvIInv, RegistryOK, CachedObjectIsOwn
  <2> QED BY <2>1, <2>2, <2>3 DEF SingletonsAreSound
<1> QED BY ServicesInductive, <1>1, PTL

(* Nobody who may have to wait for him is waited for by the gate's owner. *)
LEMMA OwnerDoesNotWait ==
  ASSUME SvIInv, NEW t \in Resolvers, gate.owner = t
  PROVE  WaitsFor(t) = NoResolver
<1>1. ASSUME Busy(t), Top(t).pc \in {"wait", "recheck"} PROVE creating[Top(t).reg] = NoResolver
  <2>1. Top(t).reg \in Regs /\ creating[Top(t).reg] # t BY <1>1, TopFacts
  <2> QED BY <2>1, CreatorOwnsGate
<1> QED BY <1>1 DEF WaitsFor, AtTop

(* Who waits for a creation or for the gate waits for one that does not     *)
(* wait, never for itself; who is told of a circular dependency is in one.  *)
THEOREM WaitsSound == ServicesSpec => []WaitsAreSound
<1>1. SvIInv => WaitsAreSound
  <2> SUFFICES ASSUME SvIInv PROVE WaitsAreSound OBVIOUS
  <2>1. ASSUME NEW t \in Resolvers, WaitsFor(t) # NoResolver
        PROVE  ~AtTop(t, "recheck") /\ WaitsFor(t) # t /\ WaitsFor(WaitsFor(t)) = NoResolver
    <3>1. CASE AtTop(t, "recheck")
      <4>1. Busy(t) /\ Top(t).pc = "recheck" BY <3>1 DEF AtTop
      <4>2. Top(t).gated /\ Top(t) = frames[t][Len(frames[t])] /\ Len(frames[t]) \in 1 .. Len(frames[t])
        BY <4>1, TopFacts, TopIs DEF SvIInv
      <4>3. gate.owner = t BY <4>2, CreatorOwnsGate
      <4> QED BY <2>1, <4>3, OwnerDoesNotWait
    <3>2. CASE AtTop(t, "wait")
      <4>1. Busy(t) /\ Top(t).pc = "wait" /\ WaitsFor(t) = creating[Top(t).reg]
        BY <3>2 DEF AtTop, WaitsFor
      <4>2. Top(t).reg \in Regs /\ creating[Top(t).reg] # t BY <4>1, TopFacts
      <4>3. WaitsFor(t) \in Resolvers /\ gate.owner = WaitsFor(t) BY <2>1, <4>1, <4>2, CreatorOwnsGate
      <4>4. WaitsFor(WaitsFor(t)) = NoResolver BY <4>3, OwnerDoesNotWait
      <4> QED BY <4>1, <4>2, <4>4 DEF AtTop
    <3>3. CASE ~AtTop(t, "recheck") /\ ~AtTop(t, "wait")
      <4>1. AtTop(t, "gate") /\ gate.depth > 0 /\ gate.owner # t /\ WaitsFor(t) = gate.owner
        BY <2>1, <3>3 DEF WaitsFor
      <4>2. gate.owner \in Resolvers BY <2>1, <4>1 DEF SvIInv, SvTypes
      <4>3. WaitsFor(gate.owner) = NoResolver BY <4>2, OwnerDoesNotWait
      <4> QED BY <3>3, <4>1, <4>3
    <3> QED BY <3>1, <3>2, <3>3
  <2>2. ASSUME NEW t \in Resolvers, AtTop(t, "return"), Top(t).code = "CircularDependency"
        PROVE  \E i \in 1 .. Len(frames[t]) - 1 :
                 frames[t][i].pc = "factory" /\ frames[t][i].reg = Top(t).reg
    <3>1. Busy(t) /\ Top(t).pc = "return" BY <2>2 DEF AtTop
    <3>2. Top(t) = frames[t][Len(frames[t])] /\ Len(frames[t]) \in 1 .. Len(frames[t])
      BY <3>1, TopIs DEF SvIInv
    <3>3. FrameOK(t, Len(frames[t])) BY <3>2 DEF SvIInv, FramesOK
    <3> QED BY <2>2, <3>1, <3>2, <3>3 DEF FrameOK
  <2> QED BY <2>1, <2>2 DEF WaitsAreSound, WaitsAreShort, CircularityIsReal
<1> QED BY ServicesInductive, <1>1, PTL

-----------------------------------------------------------------------------
(* StringPool: the inductive invariant. *)

StTypes ==
  /\ mStrings \in [Strings -> Nat] /\ \A s \in Strings : mStrings[s] <= allocated
  /\ total_interns \in Nat /\ content_bytes \in Nat /\ memory_saved \in Nat
  /\ intern \in [Interners -> [at : {"idle", "look", "hit", "insert"}, str : Strings, ptr : Nat]]
  /\ allocated \in Nat /\ interns \in 0 .. MaxInterns

(* A call that looks has no pointer yet; any other pointer is the pool's.   *)
PointersOK ==
  \A t \in Interners :
    /\ In(t, "look") \/ In(t, "insert") => intern[t].ptr = 0
    /\ intern[t].ptr # 0 => intern[t].ptr = mStrings[intern[t].str]

(* The threads at certain places, and the strings in the pool. *)
ThreadsAt(places) == {t \in Interners : intern[t].at \in places}
Stored == {s \in Strings : mStrings[s] # 0}
Searching == Cardinality(ThreadsAt({"look", "insert"}))
Hits == Cardinality(ThreadsAt({"hit"}))

(* What was counted, copied or is still looking was called for. *)
CountsOK ==
  /\ total_interns = Unique + memory_saved + Hits
  /\ content_bytes = Unique
  /\ total_interns + Searching <= interns
  /\ allocated + Searching <= interns

StIInv == StTypes /\ PointersOK /\ CountsOK

(* Counting the threads at certain places when one of them moves. *)
LEMMA ThreadMoves ==
  ASSUME StTypes, NEW t \in Interners, NEW z, intern' = [intern EXCEPT ![t] = z], NEW places
  PROVE  LET before == Cardinality(ThreadsAt(places))
             after == Cardinality(ThreadsAt(places)')
         IN  /\ before \in Nat /\ after \in Nat
             /\ (z.at \in places <=> intern[t].at \in places) => after = before
             /\ (z.at \in places /\ intern[t].at \notin places) => after = before + 1
             /\ (z.at \notin places /\ intern[t].at \in places) => after = before - 1
<1> DEFINE A == ThreadsAt(places)
           B == {u \in Interners : intern'[u].at \in places}
<1>1. ThreadsAt(places)' = B BY DEF ThreadsAt
<1>2. /\ intern'[t] = z /\ \A u \in Interners \ {t} : intern'[u] = intern[u]
  BY DEF StTypes
<1>3. IsFiniteSet(A) /\ Cardinality(A) \in Nat
  <2>1. A \subseteq Interners BY DEF ThreadsAt
  <2> QED BY <2>1, FS_Subset, FS_CardinalityType, StringsAssumption
<1>4. t \in A <=> intern[t].at \in places BY DEF ThreadsAt
<1>5. B = IF z.at \in places THEN A \cup {t} ELSE A \ {t} BY <1>2 DEF ThreadsAt
<1> HIDE DEF A, B
<1>6. /\ IsFiniteSet(A \cup {t}) /\ Cardinality(A \cup {t}) = IF t \in A THEN Cardinality(A) ELSE Cardinality(A) + 1
      /\ IsFiniteSet(A \ {t}) /\ Cardinality(A \ {t}) = IF t \in A THEN Cardinality(A) - 1 ELSE Cardinality(A)
  BY <1>3, FS_AddElement, FS_RemoveElement
<1>7. Cardinality(B) \in Nat
  <2>1. IsFiniteSet(B) BY <1>5, <1>6
  <2> QED BY <2>1, FS_CardinalityType
<1> QED BY <1>1, <1>3, <1>4, <1>5, <1>6, <1>7 DEF A

LEMMA StoredFinite ==
  IsFiniteSet(Stored) /\ Cardinality(Stored) \in Nat /\ Unique = Cardinality(Stored)
<1>1. Stored \subseteq Strings BY DEF Stored
<1>2. Unique = Cardinality(Stored) BY DEF Unique, Stored
<1> QED BY <1>1, <1>2, FS_Subset, FS_CardinalityType, StringsAssumption

(* The pool is as it was, and so is what it has of each string. *)
LEMMA UniqueKept ==
  ASSUME UNCHANGED mStrings
  PROVE  Unique' = Unique
  BY DEF Unique

(* A step of one thread that moves to z and does not copy a string. *)
LEMMA MovesPointersOK ==
  ASSUME StIInv, NEW t \in Interners, UNCHANGED mStrings,
         NEW z \in [at : {"idle", "look", "hit", "insert"}, str : Strings, ptr : Nat],
         intern' = [intern EXCEPT ![t] = z],
         z.at \in {"look", "insert"} => z.ptr = 0,
         z.ptr # 0 => z.ptr = mStrings[z.str]
  PROVE  PointersOK' /\ intern' \in [Interners -> [at : {"idle", "look", "hit", "insert"},
                                                   str : Strings, ptr : Nat]]
<1>1. /\ intern'[t] = z /\ \A u \in Interners \ {t} : intern'[u] = intern[u]
      /\ intern' \in [Interners -> [at : {"idle", "look", "hit", "insert"}, str : Strings, ptr : Nat]]
  BY DEF StIInv, StTypes
<1>2. ASSUME NEW u \in Interners
      PROVE  /\ intern'[u].at \in {"look", "insert"} => intern'[u].ptr = 0
             /\ intern'[u].ptr # 0 => intern'[u].ptr = mStrings[intern'[u].str]
  <2>1. CASE u = t BY <1>1, <2>1
  <2>2. CASE u # t BY <1>1, <2>2 DEF StIInv, PointersOK, In
  <2> QED BY <2>1, <2>2
<1> QED BY <1>1, <1>2 DEF PointersOK, In

(* Where the counters and the thread move to. *)
LEMMA InternSteps ==
  ASSUME StIInv, NEW t \in Interners
  PROVE  /\ Hits \in Nat /\ Searching \in Nat /\ Unique \in Nat /\ interns \in Nat
         /\ total_interns \in Nat /\ memory_saved \in Nat /\ content_bytes \in Nat /\ allocated \in Nat
         /\ MaxInterns \in Nat /\ mStrings[intern[t].str] \in Nat /\ intern[t].str \in Strings
         /\ intern[t] \in [at : {"idle", "look", "hit", "insert"}, str : Strings, ptr : Nat]
<1>1. IsFiniteSet(ThreadsAt({"hit"})) /\ IsFiniteSet(ThreadsAt({"look", "insert"}))
  <2>1. ThreadsAt({"hit"}) \subseteq Interners /\ ThreadsAt({"look", "insert"}) \subseteq Interners
    BY DEF ThreadsAt
  <2> QED BY <2>1, FS_Subset, StringsAssumption
<1>2. Hits \in Nat /\ Searching \in Nat BY <1>1, FS_CardinalityType DEF Hits, Searching
<1>3. MaxInterns \in Nat /\ interns \in Nat BY StringsAssumption DEF StIInv, StTypes
<1>4. intern[t] \in [at : {"idle", "look", "hit", "insert"}, str : Strings, ptr : Nat]
  BY DEF StIInv, StTypes
<1>5. intern[t].str \in Strings /\ mStrings[intern[t].str] \in Nat BY <1>4 DEF StIInv, StTypes
<1> QED BY <1>2, <1>3, <1>4, <1>5, StoredFinite DEF StIInv, StTypes

LEMMA InternCallKeeps ==
  ASSUME StIInv, NEW t \in Interners, NEW s \in Strings, InternCall(t, s)
  PROVE  StIInv'
<1> DEFINE z == [at |-> "look", str |-> s, ptr |-> 0]
<1>1. /\ intern[t].at = "idle" /\ interns < MaxInterns /\ interns' = interns + 1
      /\ intern' = [intern EXCEPT ![t] = z]
      /\ UNCHANGED <<mStrings, total_interns, content_bytes, memory_saved, allocated>>
  BY DEF InternCall, In
<1>2. z.at = "look" /\ z.ptr = 0
      /\ z \in [at : {"idle", "look", "hit", "insert"}, str : Strings, ptr : Nat]
  OBVIOUS
<1> HIDE DEF z
<1>3. PointersOK' /\ intern' \in [Interners -> [at : {"idle", "look", "hit", "insert"},
                                                str : Strings, ptr : Nat]]
  BY <1>1, <1>2, MovesPointersOK
<1>4. Hits' = Hits /\ Searching' = Searching + 1
  BY <1>1, <1>2, ThreadMoves DEF StIInv, Hits, Searching
<1>5. StTypes' BY <1>1, <1>3, InternSteps DEF StIInv, StTypes
<1>6. CountsOK' BY <1>1, <1>4, InternSteps, UniqueKept DEF StIInv, CountsOK
<1> QED BY <1>3, <1>5, <1>6 DEF StIInv

(* The two fields that SetIntern changes. *)
LEMMA SetInternIs ==
  ASSUME StIInv, NEW t \in Interners, NEW at \in {"idle", "look", "hit", "insert"}, NEW ptr \in Nat,
         SetIntern(t, at, ptr)
  PROVE  \E z \in [at : {"idle", "look", "hit", "insert"}, str : Strings, ptr : Nat] :
            /\ intern' = [intern EXCEPT ![t] = z]
            /\ z.at = at /\ z.ptr = ptr /\ z.str = intern[t].str
<1> DEFINE z == [at |-> at, str |-> intern[t].str, ptr |-> ptr]
<1>1. intern[t] \in [at : {"idle", "look", "hit", "insert"}, str : Strings, ptr : Nat]
      /\ intern \in [Interners -> [at : {"idle", "look", "hit", "insert"}, str : Strings, ptr : Nat]]
  BY DEF StIInv, StTypes
<1>2. \A x \in [at : {"idle", "look", "hit", "insert"}, str : Strings, ptr : Nat] :
         /\ [x EXCEPT !.at = at] = [at |-> at, str |-> x.str, ptr |-> x.ptr]
         /\ [x EXCEPT !.ptr = ptr] = [at |-> x.at, str |-> x.str, ptr |-> ptr]
  OBVIOUS
<1>2a. [at |-> at, str |-> intern[t].str, ptr |-> intern[t].ptr]
         \in [at : {"idle", "look", "hit", "insert"}, str : Strings, ptr : Nat]
  BY <1>1
<1>2b. [[intern[t] EXCEPT !.at = at] EXCEPT !.ptr = ptr] = z
  BY <1>1, <1>2, <1>2a
<1>3. intern' = [intern EXCEPT ![t] = [[intern[t] EXCEPT !.at = at] EXCEPT !.ptr = ptr]]
  BY <1>1 DEF SetIntern
<1> QED BY <1>1, <1>2b, <1>3

LEMMA LookUpSharedKeeps ==
  ASSUME StIInv, NEW t \in Interners, LookUpShared(t)
  PROVE  StIInv'
<1> DEFINE p == mStrings[intern[t].str]
<1>1. /\ intern[t].at = "look" /\ p \in Nat
      /\ UNCHANGED <<mStrings, content_bytes, memory_saved, allocated, interns>>
  BY InternSteps DEF LookUpShared, In
<1>2. CASE p # 0 /\ SetIntern(t, "hit", p) /\ total_interns' = total_interns + 1
  <2>1. PICK z \in [at : {"idle", "look", "hit", "insert"}, str : Strings, ptr : Nat] :
           intern' = [intern EXCEPT ![t] = z] /\ z.at = "hit" /\ z.ptr = p /\ z.str = intern[t].str
    BY <1>1, <1>2, SetInternIs
  <2>2. PointersOK' /\ intern' \in [Interners -> [at : {"idle", "look", "hit", "insert"},
                                                  str : Strings, ptr : Nat]]
    BY <1>1, <2>1, MovesPointersOK
  <2>3. Hits' = Hits + 1 /\ Searching' = Searching - 1
    <3>1. "hit" \in {"hit"} /\ "look" \notin {"hit"} OBVIOUS
    <3>2. Hits' = Hits + 1 BY <1>1, <2>1, <3>1, ThreadMoves DEF StIInv, Hits
    <3>3. "hit" \notin {"look", "insert"} /\ "look" \in {"look", "insert"} OBVIOUS
    <3>4. Searching' = Searching - 1 BY <1>1, <2>1, <3>3, ThreadMoves DEF StIInv, Searching
    <3> QED BY <3>2, <3>4
  <2>4. StTypes' BY <1>1, <1>2, <2>2, InternSteps DEF StIInv, StTypes
  <2>5. CountsOK' BY <1>1, <1>2, <2>3, InternSteps, UniqueKept DEF StIInv, CountsOK
  <2> QED BY <2>2, <2>4, <2>5 DEF StIInv
<1>3. CASE SetIntern(t, "insert", 0) /\ UNCHANGED total_interns
  <2>1. PICK z \in [at : {"idle", "look", "hit", "insert"}, str : Strings, ptr : Nat] :
           intern' = [intern EXCEPT ![t] = z] /\ z.at = "insert" /\ z.ptr = 0
    BY <1>3, SetInternIs
  <2>2. PointersOK' /\ intern' \in [Interners -> [at : {"idle", "look", "hit", "insert"},
                                                  str : Strings, ptr : Nat]]
    BY <1>1, <2>1, MovesPointersOK
  <2>3. Hits' = Hits /\ Searching' = Searching
    <3>1. "insert" \notin {"hit"} /\ "look" \notin {"hit"} OBVIOUS
    <3>2. Hits' = Hits BY <1>1, <2>1, <3>1, ThreadMoves DEF StIInv, Hits
    <3> DEFINE P == {"look", "insert"}
    <3>3. z.at \in P /\ intern[t].at \in P BY <1>1, <2>1
    <3>4. Searching' = Searching
      <4> HIDE DEF P
      <4>1. Cardinality(ThreadsAt(P)') = Cardinality(ThreadsAt(P))
        BY <2>1, <3>3, ThreadMoves DEF StIInv
      <4> QED BY <4>1 DEF Searching, P
    <3> QED BY <3>2, <3>4
  <2>4. StTypes' BY <1>1, <1>3, <2>2 DEF StIInv, StTypes
  <2>5. CountsOK' BY <1>1, <1>3, <2>3, InternSteps, UniqueKept DEF StIInv, CountsOK
  <2> QED BY <2>2, <2>4, <2>5 DEF StIInv
<1> QED BY <1>2, <1>3 DEF LookUpShared

LEMMA CountSavedKeeps ==
  ASSUME StIInv, NEW t \in Interners, CountSaved(t)
  PROVE  StIInv'
<1>1. /\ intern[t].at = "hit" /\ memory_saved' = memory_saved + 1 /\ SetIntern(t, "idle", intern[t].ptr)
      /\ UNCHANGED <<mStrings, total_interns, content_bytes, allocated, interns>>
  BY DEF CountSaved, In
<1>2. intern[t].ptr \in Nat BY InternSteps
<1>3. PICK z \in [at : {"idle", "look", "hit", "insert"}, str : Strings, ptr : Nat] :
         /\ intern' = [intern EXCEPT ![t] = z]
         /\ z.at = "idle" /\ z.ptr = intern[t].ptr /\ z.str = intern[t].str
  BY <1>1, <1>2, SetInternIs
<1>4. z.ptr # 0 => z.ptr = mStrings[z.str] BY <1>3 DEF StIInv, PointersOK
<1>5. PointersOK' /\ intern' \in [Interners -> [at : {"idle", "look", "hit", "insert"},
                                                str : Strings, ptr : Nat]]
  BY <1>1, <1>3, <1>4, MovesPointersOK
<1>6. Hits' = Hits - 1 /\ Searching' = Searching
  BY <1>1, <1>3, ThreadMoves DEF StIInv, Hits, Searching
<1>7. StTypes' BY <1>1, <1>5, InternSteps DEF StIInv, StTypes
<1>8. CountsOK' BY <1>1, <1>6, InternSteps, UniqueKept DEF StIInv, CountsOK
<1> QED BY <1>5, <1>7, <1>8 DEF StIInv

LEMMA InsertThrowsKeeps ==
  ASSUME StIInv, NEW t \in Interners, InsertThrows(t)
  PROVE  StIInv'
<1>1. /\ intern[t].at = "insert" /\ SetIntern(t, "idle", 0)
      /\ UNCHANGED <<mStrings, total_interns, content_bytes, memory_saved, allocated, interns>>
  BY DEF InsertThrows, In
<1>2. PICK z \in [at : {"idle", "look", "hit", "insert"}, str : Strings, ptr : Nat] :
         intern' = [intern EXCEPT ![t] = z] /\ z.at = "idle" /\ z.ptr = 0
  BY <1>1, SetInternIs
<1>3. PointersOK' /\ intern' \in [Interners -> [at : {"idle", "look", "hit", "insert"},
                                                str : Strings, ptr : Nat]]
  BY <1>1, <1>2, MovesPointersOK
<1>4. Hits' = Hits /\ Searching' = Searching - 1
  BY <1>1, <1>2, ThreadMoves DEF StIInv, Hits, Searching
<1>5. StTypes' BY <1>1, <1>3 DEF StIInv, StTypes
<1>6. CountsOK' BY <1>1, <1>4, InternSteps, UniqueKept DEF StIInv, CountsOK
<1> QED BY <1>3, <1>5, <1>6 DEF StIInv

LEMMA InsertExclusiveKeeps ==
  ASSUME StIInv, NEW t \in Interners, InsertExclusive(t)
  PROVE  StIInv'
<1> DEFINE s == intern[t].str
           p == mStrings[s]
<1>1. /\ intern[t].at = "insert" /\ p \in Nat /\ s \in Strings
      /\ total_interns' = total_interns + 1 /\ interns' = interns
  BY InternSteps DEF InsertExclusive, In
<1>2. CASE /\ p # 0 /\ memory_saved' = memory_saved + 1 /\ SetIntern(t, "idle", p)
           /\ UNCHANGED <<mStrings, content_bytes, allocated>>
  <2>1. PICK z \in [at : {"idle", "look", "hit", "insert"}, str : Strings, ptr : Nat] :
           intern' = [intern EXCEPT ![t] = z] /\ z.at = "idle" /\ z.ptr = p /\ z.str = s
    BY <1>1, <1>2, SetInternIs
  <2>2. PointersOK' /\ intern' \in [Interners -> [at : {"idle", "look", "hit", "insert"},
                                                  str : Strings, ptr : Nat]]
    BY <1>2, <2>1, MovesPointersOK
  <2>3. Hits' = Hits /\ Searching' = Searching - 1
    BY <1>1, <2>1, ThreadMoves DEF StIInv, Hits, Searching
  <2>4. StTypes' BY <1>1, <1>2, <2>2, InternSteps DEF StIInv, StTypes
  <2>5. CountsOK' BY <1>1, <1>2, <2>3, InternSteps, UniqueKept DEF StIInv, CountsOK
  <2> QED BY <2>2, <2>4, <2>5 DEF StIInv
<1>3. CASE p = 0 /\ Emplace(t)
  <2>1. /\ allocated' = allocated + 1 /\ mStrings' = [mStrings EXCEPT ![s] = allocated + 1]
        /\ content_bytes' = content_bytes + 1 /\ memory_saved' = memory_saved
        /\ SetIntern(t, "idle", allocated + 1)
    BY <1>3 DEF Emplace
  <2>2. allocated + 1 \in Nat \ {0} BY InternSteps
  <2>3. PICK z \in [at : {"idle", "look", "hit", "insert"}, str : Strings, ptr : Nat] :
           intern' = [intern EXCEPT ![t] = z] /\ z.at = "idle" /\ z.ptr = allocated + 1 /\ z.str = s
    BY <1>1, <2>1, <2>2, SetInternIs
  <2>4. /\ mStrings'[s] = allocated + 1 /\ \A q \in Strings \ {s} : mStrings'[q] = mStrings[q]
        /\ mStrings' \in [Strings -> Nat]
    BY <1>1, <2>1, <2>2 DEF StIInv, StTypes
  <2>5. /\ intern'[t] = z /\ \A u \in Interners \ {t} : intern'[u] = intern[u]
        /\ intern' \in [Interners -> [at : {"idle", "look", "hit", "insert"}, str : Strings, ptr : Nat]]
    BY <2>3 DEF StIInv, StTypes
  <2>6. PointersOK'
    <3>1. ASSUME NEW u \in Interners
          PROVE  /\ intern'[u].at \in {"look", "insert"} => intern'[u].ptr = 0
                 /\ intern'[u].ptr # 0 => intern'[u].ptr = mStrings'[intern'[u].str]
      <4>1. CASE u = t BY <2>3, <2>4, <2>5, <4>1
      <4>2. CASE u # t
        <5>1. intern'[u] = intern[u] /\ intern[u].str \in Strings BY <2>5, <4>2, InternSteps
        <5>2. intern[u].ptr # 0 => intern[u].str # s BY <1>3 DEF StIInv, PointersOK
        <5> QED BY <2>4, <5>1, <5>2 DEF StIInv, PointersOK, In
      <4> QED BY <4>1, <4>2
    <3> QED BY <3>1 DEF PointersOK, In
  <2>7. StTypes'
    <3>1. \A q \in Strings : mStrings'[q] <= allocated'
      BY <2>1, <2>2, <2>4, InternSteps DEF StIInv, StTypes
    <3> QED BY <1>1, <2>1, <2>2, <2>4, <2>5, <3>1, InternSteps DEF StIInv, StTypes
  <2>8. Hits' = Hits /\ Searching' = Searching - 1
    BY <1>1, <2>3, ThreadMoves DEF StIInv, Hits, Searching
  <2>9. Unique' = Unique + 1
    <3>1. Stored' = Stored \cup {s} /\ s \notin Stored BY <1>1, <1>3, <2>2, <2>4 DEF Stored
    <3>2. Unique' = Cardinality(Stored') BY DEF Unique, Stored
    <3> QED BY <3>1, <3>2, StoredFinite, FS_AddElement
  <2>10. CountsOK' BY <1>1, <2>1, <2>8, <2>9, InternSteps DEF StIInv, CountsOK
  <2> QED BY <2>6, <2>7, <2>10 DEF StIInv
<1> QED BY <1>2, <1>3 DEF InsertExclusive

(* Whoever holds the lock alone finds no hit being counted. *)
LEMMA UnsharedMeansNoHits ==
  ASSUME Unshared
  PROVE  ThreadsAt({"hit"}) = {} /\ Hits = 0
<1>1. ThreadsAt({"hit"}) = {} BY DEF Unshared, In, ThreadsAt
<1> QED BY <1>1, FS_EmptySet DEF Hits

LEMMA ClearStringsKeeps ==
  ASSUME StIInv, ClearStrings
  PROVE  StIInv'
<1>1. /\ Unshared /\ mStrings' = [s \in Strings |-> 0]
      /\ total_interns' = 0 /\ content_bytes' = 0 /\ memory_saved' = 0
      /\ intern' = [t \in Interners |-> IF In(t, "hit") THEN intern[t] ELSE [intern[t] EXCEPT !.ptr = 0]]
      /\ allocated' = allocated /\ interns' = interns
  BY DEF ClearStrings, ClearAll
<1>2. \A t \in Interners : /\ intern'[t] = [intern[t] EXCEPT !.ptr = 0]
                           /\ intern[t] \in [at : {"idle", "look", "hit", "insert"}, str : Strings, ptr : Nat]
  BY <1>1, InternSteps DEF Unshared
<1>3. \A t \in Interners : /\ intern'[t].ptr = 0 /\ intern'[t].at = intern[t].at
                           /\ intern'[t] \in [at : {"idle", "look", "hit", "insert"}, str : Strings, ptr : Nat]
  <2>1. \A x \in [at : {"idle", "look", "hit", "insert"}, str : Strings, ptr : Nat] :
           [x EXCEPT !.ptr = 0] = [at |-> x.at, str |-> x.str, ptr |-> 0]
    OBVIOUS
  <2>2. \A t \in Interners : intern'[t] = [at |-> intern[t].at, str |-> intern[t].str, ptr |-> 0]
    BY <1>2, <2>1
  <2> SUFFICES ASSUME NEW t \in Interners
               PROVE  /\ intern'[t].ptr = 0 /\ intern'[t].at = intern[t].at
                      /\ intern'[t] \in [at : {"idle", "look", "hit", "insert"}, str : Strings, ptr : Nat]
    OBVIOUS
  <2>3. intern'[t] = [at |-> intern[t].at, str |-> intern[t].str, ptr |-> 0] BY <2>2
  <2>4. intern[t].at \in {"idle", "look", "hit", "insert"} /\ intern[t].str \in Strings BY <1>2
  <2> HIDE <1>2, <2>1, <2>2
  <2> QED BY <2>3, <2>4
<1>4. intern' \in [Interners -> [at : {"idle", "look", "hit", "insert"}, str : Strings, ptr : Nat]]
  BY <1>1, <1>3
<1>5. PointersOK' BY <1>3 DEF PointersOK
<1>6. StTypes' BY <1>1, <1>4 DEF StIInv, StTypes
<1>7. Hits' = Hits /\ Searching' = Searching /\ Hits = 0
  <2>1. ThreadsAt({"hit"})' = ThreadsAt({"hit"})
        /\ ThreadsAt({"look", "insert"})' = ThreadsAt({"look", "insert"})
    BY <1>3 DEF ThreadsAt
  <2> QED BY <1>1, <2>1, UnsharedMeansNoHits DEF Hits, Searching
<1>8. Unique' = 0
  <2>1. Stored' = {} BY <1>1 DEF Stored
  <2>2. Unique' = Cardinality(Stored') BY DEF Unique, Stored
  <2> QED BY <2>1, <2>2, FS_EmptySet
<1>9. Searching \in Nat /\ interns \in Nat
  <2>1. IsFiniteSet(ThreadsAt({"look", "insert"}))
    <3>1. ThreadsAt({"look", "insert"}) \subseteq Interners BY DEF ThreadsAt
    <3> QED BY <3>1, FS_Subset, StringsAssumption
  <2> QED BY <2>1, FS_CardinalityType, StringsAssumption DEF Searching, StIInv, StTypes
<1>10. CountsOK'
  <2>1. allocated + Searching <= interns /\ allocated \in Nat BY DEF StIInv, CountsOK, StTypes
  <2> QED BY <1>1, <1>7, <1>8, <1>9, <2>1 DEF CountsOK
<1> QED BY <1>5, <1>6, <1>10 DEF StIInv

LEMMA ResetStatsKeeps ==
  ASSUME StIInv, reset_stats
  PROVE  StIInv'
<1>1. /\ Unshared /\ total_interns' = Unique /\ memory_saved' = 0
      /\ UNCHANGED <<mStrings, content_bytes, intern, allocated, interns>>
  BY DEF reset_stats
<1>2. Hits' = Hits /\ Searching' = Searching /\ Hits = 0 /\ Unique' = Unique
  BY <1>1, UnsharedMeansNoHits, UniqueKept DEF Hits, Searching, ThreadsAt
<1>3. PointersOK' BY <1>1 DEF StIInv, PointersOK, In
<1>4. Unique \in Nat BY StoredFinite
<1>5. StTypes' BY <1>1, <1>4 DEF StIInv, StTypes
<1>6. Searching \in Nat /\ interns \in Nat
  <2>1. IsFiniteSet(ThreadsAt({"look", "insert"}))
    <3>1. ThreadsAt({"look", "insert"}) \subseteq Interners BY DEF ThreadsAt
    <3> QED BY <3>1, FS_Subset, StringsAssumption
  <2> QED BY <2>1, FS_CardinalityType, StringsAssumption DEF Searching, StIInv, StTypes
<1>7. CountsOK'
  <2>1. /\ total_interns = Unique + memory_saved + Hits /\ content_bytes = Unique
        /\ total_interns + Searching <= interns /\ allocated + Searching <= interns
        /\ memory_saved \in Nat
    BY DEF StIInv, CountsOK, StTypes
  <2> QED BY <1>1, <1>2, <1>4, <1>6, <2>1 DEF CountsOK
<1> QED BY <1>3, <1>5, <1>7 DEF StIInv

LEMMA StInitInv == StringsInit => StIInv
<1> SUFFICES ASSUME StringsInit PROVE StIInv OBVIOUS
<1>1. (CHOOSE s \in Strings : TRUE) \in Strings BY StringsAssumption
<1>2. \A t \in Interners : intern[t].at = "idle" /\ intern[t].ptr = 0 BY DEF StringsInit
<1>3. StTypes
  <2>1. intern \in [Interners -> [at : {"idle", "look", "hit", "insert"}, str : Strings, ptr : Nat]]
    BY <1>1 DEF StringsInit
  <2> QED BY <2>1, StringsAssumption DEF StringsInit, StTypes
<1>4. PointersOK BY <1>2 DEF PointersOK
<1>5. Hits = 0 /\ Searching = 0
  <2>1. ThreadsAt({"hit"}) = {} /\ ThreadsAt({"look", "insert"}) = {} BY <1>2 DEF ThreadsAt
  <2> QED BY <2>1, FS_EmptySet DEF Hits, Searching
<1>6. Unique = 0
  <2>1. Stored = {} BY DEF StringsInit, Stored
  <2> QED BY <2>1, StoredFinite, FS_EmptySet
<1>7. CountsOK BY <1>5, <1>6 DEF StringsInit, CountsOK
<1> QED BY <1>3, <1>4, <1>7 DEF StIInv

LEMMA StStepKeeps == StIInv /\ [StringsNext]_stringsVars => StIInv'
<1> SUFFICES ASSUME StIInv, [StringsNext]_stringsVars PROVE StIInv' OBVIOUS
<1>1. CASE \E t \in Interners : \E s \in Strings : InternCall(t, s) BY <1>1, InternCallKeeps
<1>2. CASE \E t \in Interners : LookUpShared(t) BY <1>2, LookUpSharedKeeps
<1>3. CASE \E t \in Interners : CountSaved(t) BY <1>3, CountSavedKeeps
<1>4. CASE \E t \in Interners : InsertExclusive(t) BY <1>4, InsertExclusiveKeeps
<1>5. CASE \E t \in Interners : InsertThrows(t) BY <1>5, InsertThrowsKeeps
<1>6. CASE ClearStrings BY <1>6, ClearStringsKeeps
<1>7. CASE reset_stats BY <1>7, ResetStatsKeeps
<1>8. CASE UNCHANGED stringsVars
  BY <1>8 DEF stringsVars, StIInv, StTypes, PointersOK, In, CountsOK, Unique, Hits, Searching, ThreadsAt
<1> QED BY <1>1, <1>2, <1>3, <1>4, <1>5, <1>6, <1>7, <1>8 DEF StringsNext

(* The invariant holds along every run of any number of threads that        *)
(* intern, clear and reset.                                                 *)
THEOREM StringsInductive == StringsSpec => []StIInv
<1> QED BY StInitInv, StStepKeeps, PTL DEF StringsSpec

(* What intern() returned is the pool's only copy of the string until       *)
(* clear(), and hits() subtracts numbers whose difference is not negative,  *)
(* while other threads are in the middle of counting.                       *)
THEOREM StringsSound == StringsSpec => []StringsAreSound
<1>1. StIInv => StringsAreSound
  <2> SUFFICES ASSUME StIInv PROVE StringsAreSound OBVIOUS
  <2>1. OneCopyPerString BY DEF StIInv, PointersOK, OneCopyPerString
  <2>2. {t \in Interners : In(t, "hit")} = ThreadsAt({"hit"}) BY DEF In, ThreadsAt
  <2>3. StatisticsAddUp BY <2>2 DEF StIInv, CountsOK, Hits, StatisticsAddUp
  <2> QED BY <2>1, <2>3 DEF StringsAreSound
<1> QED BY StringsInductive, <1>1, PTL

(* Types: no counter, no pointer and no number of copies ever exceeds the   *)
(* number of calls made.                                                    *)
THEOREM StringsTypes == StringsSpec => []StringsTypeOK
<1>1. StIInv => StringsTypeOK
  <2> SUFFICES ASSUME StIInv PROVE StringsTypeOK OBVIOUS
  <2>1. /\ IsFiniteSet(ThreadsAt({"hit"})) /\ IsFiniteSet(ThreadsAt({"look", "insert"}))
    <3>1. ThreadsAt({"hit"}) \subseteq Interners /\ ThreadsAt({"look", "insert"}) \subseteq Interners
      BY DEF ThreadsAt
    <3> QED BY <3>1, FS_Subset, StringsAssumption
  <2>2. /\ Hits \in Nat /\ Searching \in Nat /\ Unique \in Nat
    BY <2>1, FS_CardinalityType, StoredFinite DEF Hits, Searching
  <2>3. /\ total_interns \in Nat /\ memory_saved \in Nat /\ content_bytes \in Nat
        /\ allocated \in Nat /\ interns \in 0 .. MaxInterns /\ MaxInterns \in Nat
        /\ total_interns = Unique + memory_saved + Hits /\ content_bytes = Unique
        /\ total_interns + Searching <= interns /\ allocated + Searching <= interns
    BY StringsAssumption DEF StIInv, StTypes, CountsOK
  <2>4. {total_interns, content_bytes, memory_saved} \subseteq 0 .. MaxInterns
    <3>1. total_interns <= MaxInterns /\ content_bytes <= MaxInterns /\ memory_saved <= MaxInterns
      BY <2>2, <2>3
    <3> QED BY <2>3, <3>1
  <2>5. allocated \in 0 .. interns BY <2>2, <2>3
  <2>6. mStrings \in [Strings -> 0 .. allocated]
    <3>1. mStrings \in [Strings -> Nat] /\ \A s \in Strings : mStrings[s] <= allocated
      BY DEF StIInv, StTypes
    <3> QED BY <2>3, <3>1
  <2>7. intern \in [Interners -> [at : {"idle", "look", "hit", "insert"}, str : Strings,
                                  ptr : 0 .. allocated]]
    <3>1. intern \in [Interners -> [at : {"idle", "look", "hit", "insert"}, str : Strings, ptr : Nat]]
      BY DEF StIInv, StTypes
    <3>2. ASSUME NEW t \in Interners
          PROVE  intern[t] \in [at : {"idle", "look", "hit", "insert"}, str : Strings, ptr : 0 .. allocated]
      <4>1. intern[t] \in [at : {"idle", "look", "hit", "insert"}, str : Strings, ptr : Nat] BY <3>1
      <4>2. intern[t].ptr \in 0 .. allocated
        <5>1. intern[t].ptr = 0 \/ intern[t].ptr = mStrings[intern[t].str] BY DEF StIInv, PointersOK
        <5>2. mStrings[intern[t].str] \in 0 .. allocated BY <2>6, <4>1
        <5> QED BY <2>3, <5>1, <5>2
      <4> QED BY <4>1, <4>2
    <3> QED BY <3>1, <3>2
  <2> QED BY <2>3, <2>4, <2>5, <2>6, <2>7 DEF StringsTypeOK
<1> QED BY StringsInductive, <1>1, PTL

-----------------------------------------------------------------------------
(* WorkQueue: the inductive invariant. *)

Phases == {"idle", "first", "probe", "scan", "failed"}
CallRec == [phase : Phases, at : Shards, i : Nat, start : Shards, item : Nat, tries : Nat]

WqTypes ==
  /\ routing \in {"random", "round robin", "stride"}
  /\ mShards \in [Shards -> Seq(Items)]
  /\ token \in [Workers -> Shards]
  /\ call \in [Workers -> CallRec]
  /\ ready \in [Workers -> SUBSET Shards]
  /\ taken \in [Items -> Nat]

(* A producer carries its value as long as its call lasts. *)
CallOK(t, c) ==
  /\ c.i < ProbeCount(t) + ShardCount
  /\ c.tries <= MaxAttempts /\ (t \in Putters => c.tries <= 1)
  /\ IF t \in Putters /\ c.phase # "idle" THEN c.item \in Items ELSE c.item = NoItem

CallsOK == \A t \in Workers : CallOK(t, call[t])

(* A value is in one place of one shard, or taken, or carried. *)
PlacesOK ==
  /\ \A s \in Shards : Len(mShards[s]) <= ShardCapacity
  /\ \A s, r \in Shards : \A i \in 1 .. Len(mShards[s]) : \A j \in 1 .. Len(mShards[r]) :
       mShards[s][i] = mShards[r][j] => s = r /\ i = j
  /\ \A s \in Shards : \A i \in 1 .. Len(mShards[s]) : taken[mShards[s][i]] = 0
  /\ \A x \in Items : taken[x] <= 1

CarriedOK ==
  \A p \in Workers : call[p].item # NoItem =>
    /\ taken[call[p].item] = 0
    /\ \A s \in Shards : \A i \in 1 .. Len(mShards[s]) : mShards[s][i] # call[p].item
    /\ \A q \in Workers : call[q].item = call[p].item => q = p

(* Where a scan is after i shards, and that it has not left a ready one.    *)
ScanShard(start, i) == (start + i) % ShardCount

ScanOK(c, r) ==
  /\ c.phase = "scan" => /\ c.at = ScanShard(c.start, c.i)
                         /\ \A j \in 0 .. c.i - 1 : ScanShard(c.start, j) \notin r
  /\ c.phase = "failed" /\ EffectiveScanCount = ShardCount => r = {}

ScansOK == \A t \in Workers : ScanOK(call[t], ready[t])

WqIInv == WqTypes /\ CallsOK /\ PlacesOK /\ CarriedOK /\ ScansOK

LEMMA WqShards ==
  /\ ShardCount \in Nat \ {0} /\ 0 \in Shards /\ Items \subseteq Nat /\ NoItem \notin Items
  /\ EffectiveScanCount \in 1 .. ShardCount
  /\ \A t \in Workers : ProbeCount(t) \in Nat
  BY WorkQueueAssumption DEF Shards, Items, NoItem, EffectiveScanCount, ProbeCount

(* A scan stays within the shards, starts where it starts, and comes to     *)
(* every shard.                                                             *)
LEMMA ScanShards ==
  ASSUME NEW s \in Shards
  PROVE  /\ \A j \in Nat : ScanShard(s, j) \in Shards
         /\ ScanShard(s, 0) = s
         /\ \A r \in Shards : \E j \in 0 .. ShardCount - 1 : ScanShard(s, j) = r
<1>1. ShardCount \in Nat \ {0} /\ s \in 0 .. ShardCount - 1 BY WqShards DEF Shards
<1>2. \A j \in Nat : ScanShard(s, j) \in Shards
  <2> SUFFICES ASSUME NEW j \in Nat PROVE ScanShard(s, j) \in Shards OBVIOUS
  <2>1. s + j \in Nat BY <1>1
  <2> QED BY <1>1, <2>1, DivMod DEF ScanShard, Shards
<1>3. ScanShard(s, 0) = s
  <2>1. s + 0 = s BY <1>1
  <2> QED BY <1>1, <2>1, ModSmall DEF ScanShard
<1>4. ASSUME NEW r \in Shards
      PROVE  \E j \in 0 .. ShardCount - 1 : ScanShard(s, j) = r
  <2>1. r \in 0 .. ShardCount - 1 /\ r % ShardCount = r BY <1>1, ModSmall DEF Shards
  <2>2. CASE r >= s
    <3>1. r - s \in 0 .. ShardCount - 1 /\ s + (r - s) = r BY <1>1, <2>1, <2>2
    <3> QED BY <2>1, <3>1 DEF ScanShard
  <2>3. CASE r < s
    <3>1. r + ShardCount - s \in 0 .. ShardCount - 1 /\ s + (r + ShardCount - s) = r + ShardCount
      BY <1>1, <2>1, <2>3
    <3>2. r \in Nat BY <1>1, <2>1
    <3>3. (r + ShardCount) % ShardCount = r % ShardCount BY <1>1, <3>2, ModPeriod, Zenon
    <3> QED BY <2>1, <3>1, <3>3 DEF ScanShard
  <2> QED BY <1>1, <2>1, <2>2, <2>3
<1> QED BY <1>2, <1>3, <1>4

(* Where a probe and a scan go to is a shard. *)
LEMMA RoutingShards ==
  ASSUME WqTypes, NEW t \in Workers
  PROVE  /\ \A i \in Nat : ProbeShards(t, i) \subseteq Shards
         /\ ScanStarts(t) \subseteq Shards
<1>1. token[t] \in Shards /\ ShardCount \in Nat \ {0} /\ token[t] \in Nat
  <2>1. token[t] \in Shards BY DEF WqTypes
  <2>2. ShardCount \in Nat \ {0} BY WqShards
  <2> QED BY <2>1, <2>2 DEF Shards
<1>2. ScanStarts(t) \subseteq Shards BY <1>1 DEF ScanStarts
<1>3. ASSUME NEW i \in Nat PROVE ProbeShards(t, i) \subseteq Shards
  <2>1. token[t] + 1 + i \in Nat BY <1>1
  <2>2. Stride * (i + 1) \in Nat BY WorkQueueAssumption
  <2>3. token[t] + Stride * (i + 1) \in Nat BY <1>1, <2>2
  <2>4. (token[t] + 1 + i) % ShardCount \in Shards BY <1>1, <2>1, DivMod DEF Shards
  <2>5. (token[t] + Stride * (i + 1)) % ShardCount \in Shards BY <1>1, <2>3, DivMod DEF Shards
  <2> QED BY <2>4, <2>5 DEF ProbeShards, WqTypes
<1> QED BY <1>2, <1>3

(* A thread's call becomes z, and the shards stay as they are. *)
LEMMA CallMoves ==
  ASSUME WqIInv, NEW t \in Workers, NEW z \in CallRec, NEW r \in SUBSET Shards,
         call' = [call EXCEPT ![t] = z], ready' = [ready EXCEPT ![t] = r],
         UNCHANGED <<routing, mShards, token, taken>>,
         CallOK(t, z), ScanOK(z, r),
         \/ z.item = call[t].item
         \/ z.item = NoItem
         \/ z.item \in Items /\ ~InUse(z.item)
  PROVE  WqIInv'
<1>1. /\ call'[t] = z /\ \A u \in Workers \ {t} : call'[u] = call[u]
      /\ ready'[t] = r /\ \A u \in Workers \ {t} : ready'[u] = ready[u]
  BY DEF WqIInv, WqTypes
<1>2. WqTypes' BY DEF WqIInv, WqTypes
<1>3. CallsOK'
  <2>1. \A u \in Workers : CallOK(u, call'[u]) BY <1>1 DEF WqIInv, CallsOK
  <2> QED BY <2>1 DEF CallsOK, CallOK
<1>4. PlacesOK' BY DEF WqIInv, PlacesOK
<1>5. ScansOK'
  <2>1. \A u \in Workers : ScanOK(call'[u], ready'[u]) BY <1>1 DEF WqIInv, ScansOK
  <2> QED BY <2>1 DEF ScansOK, ScanOK
<1>6. CarriedOK'
  <2>1. ASSUME z.item # NoItem
        PROVE  /\ taken[z.item] = 0
               /\ \A s \in Shards : \A i \in 1 .. Len(mShards[s]) : mShards[s][i] # z.item
               /\ \A q \in Workers \ {t} : call[q].item # z.item
    <3>1. CASE z.item = call[t].item BY <2>1, <3>1 DEF WqIInv, CarriedOK
    <3>2. CASE z.item \in Items /\ ~InUse(z.item)
      <4>1. taken[z.item] \in Nat /\ ~(taken[z.item] > 0) BY <3>2 DEF InUse, WqIInv, WqTypes
      <4>2. \A s \in Shards : \A i \in 1 .. Len(mShards[s]) : mShards[s][i] # z.item
        BY <3>2 DEF InUse
      <4>3. ASSUME NEW q \in Workers PROVE call[q].item # z.item
        <5>1. CASE q \in Putters BY <3>2, <5>1 DEF InUse
        <5>2. CASE q \notin Putters BY <2>1, <5>2 DEF WqIInv, CallsOK, CallOK
        <5> QED BY <5>1, <5>2
      <4> QED BY <4>1, <4>2, <4>3
    <3> QED BY <2>1, <3>1, <3>2
  <2>2. ASSUME NEW p \in Workers, call'[p].item # NoItem
        PROVE  /\ taken[call'[p].item] = 0
               /\ \A s \in Shards : \A i \in 1 .. Len(mShards[s]) : mShards[s][i] # call'[p].item
               /\ \A q \in Workers : call'[q].item = call'[p].item => q = p
    <3>1. CASE p = t BY <1>1, <2>1, <2>2, <3>1
    <3>2. CASE p # t
      <4>1. call'[p] = call[p] BY <1>1, <3>2
      <4>2. \A q \in Workers : call'[q].item = call'[p].item => q = p
        <5> SUFFICES ASSUME NEW q \in Workers, call'[q].item = call'[p].item PROVE q = p OBVIOUS
        <5>1. CASE q = t BY <1>1, <2>1, <2>2, <3>2, <4>1, <5>1
        <5>2. CASE q # t
          <6>1. call'[q] = call[q] BY <1>1, <5>2
          <6> QED BY <2>2, <4>1, <6>1 DEF WqIInv, CarriedOK
        <5> QED BY <5>1, <5>2
      <4> QED BY <2>2, <4>1, <4>2 DEF WqIInv, CarriedOK
    <3> QED BY <3>1, <3>2
  <2> QED BY <2>2 DEF CarriedOK
<1> QED BY <1>2, <1>3, <1>4, <1>5, <1>6 DEF WqIInv

-----------------------------------------------------------------------------
(* WorkQueue: the actions. *)

LEMMA CallFields ==
  ASSUME WqIInv, NEW t \in Workers
  PROVE  /\ call[t] \in CallRec /\ ready[t] \in SUBSET Shards /\ token[t] \in Shards
         /\ call[t].phase \in Phases /\ call[t].at \in Shards /\ call[t].i \in Nat
         /\ call[t].start \in Shards /\ call[t].item \in Nat /\ call[t].tries \in Nat
         /\ CallOK(t, call[t]) /\ ScanOK(call[t], ready[t])
<1>1. call[t] \in CallRec BY DEF WqIInv, WqTypes
<1>2. ready[t] \in SUBSET Shards /\ token[t] \in Shards BY DEF WqIInv, WqTypes
<1>3. CallOK(t, call[t]) /\ ScanOK(call[t], ready[t]) BY DEF WqIInv, CallsOK, ScansOK
<1>4. /\ call[t].phase \in Phases /\ call[t].at \in Shards /\ call[t].i \in Nat
      /\ call[t].start \in Shards /\ call[t].item \in Nat /\ call[t].tries \in Nat
  BY <1>1 DEF CallRec
<1> QED BY <1>1, <1>2, <1>3, <1>4

LEMMA BeginKeeps ==
  ASSUME WqIInv, NEW t \in Workers, NEW item \in Nat, NEW tries \in 1 .. MaxAttempts,
         Begin(t, item, tries),
         IF t \in Putters THEN item \in Items /\ tries = 1 /\ ~InUse(item) ELSE item = NoItem
  PROVE  WqIInv'
<1> DEFINE z == [phase |-> "first", at |-> token[t], i |-> 0, start |-> 0, item |-> item, tries |-> tries]
           r == {s \in Shards : CanServe(mShards, t, s)}
<1>1. tries \in Nat /\ tries <= MaxAttempts BY WorkQueueAssumption
<1>2. z \in CallRec BY <1>1, WqShards, CallFields DEF CallRec, Phases
<1>3. call' = [call EXCEPT ![t] = z]
  <2> DEFINE a == [NoCall EXCEPT !.phase = "first"]
             b == [a EXCEPT !.at = token[t]]
             c == [b EXCEPT !.item = item]
  <2>1. a = [phase |-> "first", at |-> 0, i |-> 0, start |-> 0, item |-> NoItem, tries |-> 0]
    BY DEF NoCall
  <2> HIDE DEF a
  <2>2. b = [phase |-> "first", at |-> token[t], i |-> 0, start |-> 0, item |-> NoItem, tries |-> 0]
    BY <2>1
  <2> HIDE DEF b
  <2>3. c = [phase |-> "first", at |-> token[t], i |-> 0, start |-> 0, item |-> item, tries |-> 0]
    BY <2>2
  <2> HIDE DEF c
  <2>4. [c EXCEPT !.tries = tries] = z BY <2>3
  <2> QED BY <2>4 DEF Begin, a, b, c
<1>4. ready' = [ready EXCEPT ![t] = r] /\ r \in SUBSET Shards BY DEF Begin
<1>5. UNCHANGED <<routing, mShards, token, taken>> BY DEF Begin
<1>6. CallOK(t, z) BY <1>1, WqShards DEF CallOK
<1>7. ScanOK(z, r) BY DEF ScanOK
<1>8. z.item = NoItem \/ (z.item \in Items /\ ~InUse(z.item))
  <2>1. z.item = item OBVIOUS
  <2> HIDE DEF z
  <2> QED BY <2>1
<1> HIDE DEF z, r
<1> QED BY <1>2, <1>3, <1>4, <1>5, <1>6, <1>7, <1>8, CallMoves

LEMMA WqCallsKeep ==
  ASSUME WqIInv
  PROVE  /\ \A p \in Putters, x \in Items : WqEnqueue(p, x) => WqIInv'
         /\ \A c \in Getters, n \in 1 .. MaxAttempts : WqDequeue(c, n) => WqIInv'
         /\ \A t \in Workers : TriesAgain(t) => WqIInv'
<1>1. ASSUME NEW p \in Putters, NEW x \in Items, WqEnqueue(p, x) PROVE WqIInv'
  <2>1. /\ p \in Workers /\ x \in Nat /\ 1 \in 1 .. MaxAttempts
        /\ Begin(p, x, 1) /\ ~InUse(x)
    BY <1>1, WqShards, WorkQueueAssumption DEF WqEnqueue, Workers
  <2> QED BY <1>1, <2>1, BeginKeeps
<1>2. ASSUME NEW c \in Getters, NEW n \in 1 .. MaxAttempts, WqDequeue(c, n) PROVE WqIInv'
  <2>1. c \in Workers /\ c \notin Putters /\ Begin(c, NoItem, n) /\ NoItem \in Nat
    BY <1>2, WorkQueueAssumption DEF WqDequeue, Workers, NoItem
  <2> QED BY <1>2, <2>1, BeginKeeps
<1>3. ASSUME NEW t \in Workers, TriesAgain(t) PROVE WqIInv'
  <2>1. call[t].tries > 1 /\ Begin(t, NoItem, call[t].tries - 1) BY <1>3 DEF TriesAgain
  <2>2. /\ t \notin Putters /\ call[t].tries \in Nat /\ call[t].tries <= MaxAttempts
    BY <2>1, CallFields DEF CallOK
  <2>3. call[t].tries - 1 \in 1 .. MaxAttempts /\ NoItem \in Nat
    BY <2>1, <2>2, WorkQueueAssumption DEF NoItem
  <2> QED BY <2>1, <2>2, <2>3, BeginKeeps
<1> QED BY <1>1, <1>2, <1>3

LEMMA ReturnsFalseKeeps ==
  ASSUME WqIInv, NEW t \in Workers, ReturnsFalse(t)
  PROVE  WqIInv'
<1>1. NoCall \in CallRec /\ NoCall.item = NoItem /\ NoCall.phase = "idle" /\ NoCall.i = 0 /\ NoCall.tries = 0
  BY WqShards DEF NoCall, CallRec, Phases, NoItem
<1>2. CallOK(t, NoCall) BY <1>1, WqShards, WorkQueueAssumption DEF CallOK
<1>3. ScanOK(NoCall, {}) BY <1>1 DEF ScanOK
<1> QED BY <1>1, <1>2, <1>3, CallMoves DEF ReturnsFalse

(* What a refusal does to the history. *)
LEMMA RefusedReady ==
  ASSUME WqIInv, NEW t \in Workers, Refused(t)
  PROVE  /\ ready' = [ready EXCEPT ![t] = IF call[t].phase = "scan" THEN ready[t] \ {call[t].at}
                                                                  ELSE ready[t]]
         /\ UNCHANGED <<routing, mShards, token, taken>>
<1>1. ready \in [Workers -> SUBSET Shards] BY DEF WqIInv, WqTypes
<1> QED BY <1>1 DEF Refused

LEMMA NextProbeKeeps ==
  ASSUME WqIInv, NEW t \in Workers, NextProbe(t)
  PROVE  WqIInv'
<1> DEFINE i == IF call[t].phase = "first" THEN 0 ELSE call[t].i + 1
<1>1. PICK s \in ProbeShards(t, i) :
         call' = [call EXCEPT ![t].phase = "probe", ![t].i = i, ![t].at = s]
  BY DEF NextProbe
<1>2. /\ i < ProbeCount(t) /\ Refused(t) /\ call[t].phase \in {"first", "probe"}
      /\ i \in Nat
  BY CallFields DEF NextProbe
<1>3. s \in Shards BY <1>2, RoutingShards DEF WqIInv
<1> HIDE DEF i
<1> DEFINE z == call'[t]
<1>4. call[t] \in CallRec /\ call \in [Workers -> CallRec] BY CallFields DEF WqIInv, WqTypes
<1>5. /\ call' = [call EXCEPT ![t] = z] /\ z \in CallRec
      /\ z.phase = "probe" /\ z.i = i /\ z.item = call[t].item /\ z.tries = call[t].tries
  BY <1>1, <1>2, <1>3, <1>4 DEF CallRec, Phases
<1> HIDE DEF z
<1>6. CallOK(t, z)
  <2>1. i < ProbeCount(t) + ShardCount BY <1>2, WqShards
  <2>2. call[t].phase # "idle" BY <1>2
  <2> QED BY <1>5, <2>1, <2>2, CallFields DEF CallOK
<1>7. ScanOK(z, ready[t]) BY <1>5 DEF ScanOK
<1>8. ready' = [ready EXCEPT ![t] = ready[t]] /\ UNCHANGED <<routing, mShards, token, taken>>
  BY <1>2, RefusedReady
<1> QED BY <1>5, <1>6, <1>7, <1>8, CallFields, CallMoves

LEMMA StartScanKeeps ==
  ASSUME WqIInv, NEW t \in Workers, StartScan(t)
  PROVE  WqIInv'
<1>1. PICK s \in ScanStarts(t) :
         call' = [call EXCEPT ![t].phase = "scan", ![t].i = 0, ![t].at = s, ![t].start = s]
  BY DEF StartScan
<1>2. Refused(t) /\ call[t].phase \in {"first", "probe"} BY DEF StartScan
<1>3. s \in Shards BY RoutingShards DEF WqIInv
<1> DEFINE z == call'[t]
<1>4. call[t] \in CallRec /\ call \in [Workers -> CallRec] BY CallFields DEF WqIInv, WqTypes
<1>5. /\ call' = [call EXCEPT ![t] = z] /\ z \in CallRec
      /\ z.phase = "scan" /\ z.i = 0 /\ z.at = s /\ z.start = s
      /\ z.item = call[t].item /\ z.tries = call[t].tries
  BY <1>1, <1>3, <1>4 DEF CallRec, Phases
<1> HIDE DEF z
<1>6. CallOK(t, z)
  <2>1. 0 < ProbeCount(t) + ShardCount BY WqShards
  <2>2. call[t].phase # "idle" BY <1>2
  <2> QED BY <1>5, <2>1, <2>2, CallFields DEF CallOK
<1>7. ScanOK(z, ready[t]) BY <1>3, <1>5, ScanShards DEF ScanOK
<1>8. ready' = [ready EXCEPT ![t] = ready[t]] /\ UNCHANGED <<routing, mShards, token, taken>>
  BY <1>2, RefusedReady
<1> QED BY <1>5, <1>6, <1>7, <1>8, CallFields, CallMoves

(* The scan goes on, or has been everywhere. *)
LEMMA ScanOnKeeps ==
  ASSUME WqIInv, NEW t \in Workers, ScanOn(t)
  PROVE  WqIInv'
<1> DEFINE i == call[t].i + 1
           r == ready[t] \ {call[t].at}
<1>1. Refused(t) /\ call[t].phase = "scan" BY DEF ScanOn
<1>2. ready' = [ready EXCEPT ![t] = r] /\ UNCHANGED <<routing, mShards, token, taken>>
  BY <1>1, RefusedReady
<1>3. i \in Nat /\ i - 1 = call[t].i /\ r \in SUBSET Shards BY CallFields
<1>4. \A j \in 0 .. i - 1 : ScanShard(call[t].start, j) \notin r
  <2> SUFFICES ASSUME NEW j \in 0 .. i - 1 PROVE ScanShard(call[t].start, j) \notin r OBVIOUS
  <2>1. CASE j = call[t].i BY <1>1, <2>1, CallFields DEF ScanOK
  <2>2. CASE j # call[t].i
    <3>1. j \in 0 .. call[t].i - 1 BY <1>3, <2>2
    <3> QED BY <1>1, <3>1, CallFields DEF ScanOK
  <2> QED BY <2>1, <2>2
<1>5. call[t] \in CallRec /\ call \in [Workers -> CallRec] BY CallFields DEF WqIInv, WqTypes
<1>6. CASE i < EffectiveScanCount
  <2> DEFINE s == (call[t].start + i) % ShardCount
             z == call'[t]
  <2>1. s = ScanShard(call[t].start, i) BY DEF ScanShard
  <2>2. call' = [call EXCEPT ![t].i = i, ![t].at = s] BY <1>6 DEF ScanOn
  <2> HIDE DEF i, s, r
  <2>3. s \in Shards BY <1>3, <2>1, CallFields, ScanShards
  <2>4. /\ call' = [call EXCEPT ![t] = z] /\ z \in CallRec
        /\ z.phase = "scan" /\ z.i = i /\ z.at = s /\ z.start = call[t].start
        /\ z.item = call[t].item /\ z.tries = call[t].tries
    BY <1>1, <1>3, <1>5, <2>2, <2>3 DEF CallRec, Phases
  <2> HIDE DEF z
  <2>6. CallOK(t, z)
    <3>1. i < ProbeCount(t) + ShardCount BY <1>3, <1>6, WqShards
    <3>2. call[t].phase # "idle" BY <1>1
    <3> QED BY <2>4, <3>1, <3>2, CallFields DEF CallOK
  <2>7. ScanOK(z, r) BY <1>4, <2>1, <2>4 DEF ScanOK
  <2> QED BY <1>2, <1>3, <2>4, <2>6, <2>7, CallMoves
<1>7. CASE ~(i < EffectiveScanCount)
  <2> DEFINE z == call'[t]
  <2>1. call' = [call EXCEPT ![t].phase = "failed"] BY <1>7 DEF ScanOn
  <2>2. /\ call' = [call EXCEPT ![t] = z] /\ z \in CallRec /\ z.phase = "failed"
        /\ z.i = call[t].i /\ z.item = call[t].item /\ z.tries = call[t].tries
    BY <1>5, <2>1 DEF CallRec, Phases
  <2>3. EffectiveScanCount = ShardCount => r = {}
    <3> SUFFICES ASSUME EffectiveScanCount = ShardCount, NEW q \in r PROVE FALSE OBVIOUS
    <3>1. PICK j \in 0 .. ShardCount - 1 : ScanShard(call[t].start, j) = q
      BY <1>3, CallFields, ScanShards
    <3>2. j \in 0 .. i - 1 BY <1>3, <1>7, WqShards
    <3> QED BY <1>4, <3>1, <3>2
  <2> HIDE DEF z, i, r
  <2>4. CallOK(t, z) BY <1>1, <2>2, CallFields DEF CallOK
  <2>5. ScanOK(z, r) BY <2>2, <2>3 DEF ScanOK
  <2> QED BY <1>2, <1>3, <2>2, <2>4, <2>5, CallMoves
<1> QED BY <1>6, <1>7

(* What a service does, to the shard and to the caller. *)
LEMMA ServedFacts ==
  ASSUME WqIInv, NEW t \in Workers, Served(t)
  PROVE  LET s == call[t].at IN
         /\ s \in Shards /\ mShards[s] \in Seq(Items)
         /\ mShards' \in [Shards -> Seq(Items)]
         /\ \A r \in Shards \ {s} : mShards'[r] = mShards[r]
         /\ WqTypes'
         /\ call'[t] = NoCall /\ \A u \in Workers \ {t} : call'[u] = call[u]
         /\ ready'[t] = {} /\ \A u \in Workers \ {t} : ready'[u] \subseteq ready[u]
         /\ t \in Putters => /\ Len(mShards[s]) < ShardCapacity
                             /\ call[t].item \in Items
                             /\ mShards'[s] = Append(mShards[s], call[t].item)
                             /\ taken' = taken
         /\ t \notin Putters => /\ mShards[s] # << >> /\ Head(mShards[s]) \in Items
                                /\ mShards'[s] = Tail(mShards[s])
                                /\ taken' = [taken EXCEPT ![Head(mShards[s])] = @ + 1]
<1> DEFINE s == call[t].at
<1>1. /\ s \in Shards /\ mShards \in [Shards -> Seq(Items)] /\ mShards[s] \in Seq(Items)
      /\ taken \in [Items -> Nat]
  BY CallFields DEF WqIInv, WqTypes
<1>2. /\ call[t].phase \in {"first", "probe", "scan"} /\ CanServe(mShards, t, s)
      /\ mShards' = [mShards EXCEPT ![s] = IF t \in Putters THEN Append(@, call[t].item) ELSE Tail(@)]
      /\ taken' = IF t \in Putters THEN taken ELSE [taken EXCEPT ![Head(mShards[s])] = @ + 1]
      /\ token' = [token EXCEPT ![t] = s]
      /\ call' = [call EXCEPT ![t] = NoCall]
      /\ ready' = [u \in Workers |-> {r \in ready[u] : u # t /\ CanServe(mShards', u, r)}]
      /\ routing' = routing
  BY DEF Served
<1>3. NoCall \in CallRec BY WqShards DEF NoCall, CallRec, Phases, NoItem
<1> HIDE DEF s
<1>4. /\ call'[t] = NoCall /\ \A u \in Workers \ {t} : call'[u] = call[u]
      /\ call' \in [Workers -> CallRec]
  BY <1>2, <1>3 DEF WqIInv, WqTypes
<1>5. /\ ready'[t] = {} /\ \A u \in Workers \ {t} : ready'[u] \subseteq ready[u]
      /\ ready' \in [Workers -> SUBSET Shards]
  BY <1>2 DEF WqIInv, WqTypes
<1>6. token' \in [Workers -> Shards] BY <1>1, <1>2 DEF WqIInv, WqTypes
<1>7. CASE t \in Putters
  <2>1. call[t].item \in Items BY <1>2, <1>7, CallFields DEF CallOK
  <2>2. Append(mShards[s], call[t].item) \in Seq(Items) BY <1>1, <2>1, AppendProperties
  <2>3. Len(mShards[s]) < ShardCapacity BY <1>2, <1>7 DEF CanServe
  <2>4. /\ mShards' \in [Shards -> Seq(Items)] /\ mShards'[s] = Append(mShards[s], call[t].item)
        /\ \A r \in Shards \ {s} : mShards'[r] = mShards[r]
    BY <1>1, <1>2, <1>7, <2>2
  <2>5. taken' = taken BY <1>2, <1>7
  <2>6. WqTypes' BY <1>1, <1>2, <1>4, <1>5, <1>6, <2>4, <2>5 DEF WqIInv, WqTypes
  <2> QED BY <1>1, <1>4, <1>5, <1>7, <2>1, <2>3, <2>4, <2>5, <2>6 DEF s
<1>8. CASE t \notin Putters
  <2>1. mShards[s] # << >> BY <1>2, <1>8 DEF CanServe
  <2>2. Head(mShards[s]) \in Items /\ Tail(mShards[s]) \in Seq(Items) BY <1>1, <2>1, HeadTailProperties
  <2>3. /\ mShards' \in [Shards -> Seq(Items)] /\ mShards'[s] = Tail(mShards[s])
        /\ \A r \in Shards \ {s} : mShards'[r] = mShards[r]
    BY <1>1, <1>2, <1>8, <2>2
  <2>4. taken' = [taken EXCEPT ![Head(mShards[s])] = @ + 1] /\ taken' \in [Items -> Nat]
    BY <1>1, <1>2, <1>8, <2>2
  <2>5. WqTypes' BY <1>1, <1>2, <1>4, <1>5, <1>6, <2>3, <2>4 DEF WqIInv, WqTypes
  <2> QED BY <1>1, <1>4, <1>5, <1>8, <2>1, <2>2, <2>3, <2>4, <2>5 DEF s
<1> QED BY <1>7, <1>8

(* The caller has nothing to carry and to scan any more, the others have    *)
(* what they had, and may have fewer shards that are ready.                 *)
LEMMA ServedCallsOK ==
  ASSUME WqIInv, NEW t \in Workers, Served(t)
  PROVE  CallsOK' /\ ScansOK' /\ NoCall.item = NoItem
<1>1. NoCall.item = NoItem /\ NoCall.phase = "idle" /\ NoCall.i = 0 /\ NoCall.tries = 0
  BY DEF NoCall
<1>2. /\ call'[t] = NoCall /\ \A u \in Workers \ {t} : call'[u] = call[u]
      /\ ready'[t] = {} /\ \A u \in Workers \ {t} : ready'[u] \subseteq ready[u]
  BY ServedFacts
<1>3. \A u \in Workers : CallOK(u, call'[u])
  <2>1. CallOK(t, NoCall) BY <1>1, WqShards, WorkQueueAssumption DEF CallOK
  <2> QED BY <1>2, <2>1 DEF WqIInv, CallsOK
<1>4. ASSUME NEW u \in Workers PROVE ScanOK(call'[u], ready'[u])
  <2>1. CASE u = t BY <1>1, <1>2, <2>1 DEF ScanOK
  <2>2. CASE u # t BY <1>2, <2>2 DEF WqIInv, ScansOK, ScanOK
  <2> QED BY <2>1, <2>2
<1> QED BY <1>1, <1>3, <1>4 DEF CallsOK, CallOK, ScansOK, ScanOK

LEMMA ServedPutterKeeps ==
  ASSUME WqIInv, NEW t \in Workers, Served(t), t \in Putters
  PROVE  WqIInv'
<1> DEFINE s == call[t].at
           x == call[t].item
           n == Len(mShards[s])
<1>1. /\ s \in Shards /\ mShards[s] \in Seq(Items) /\ n < ShardCapacity /\ x \in Items
      /\ \A r \in Shards \ {s} : mShards'[r] = mShards[r]
      /\ mShards'[s] = Append(mShards[s], x) /\ taken' = taken /\ WqTypes'
      /\ call'[t] = NoCall /\ \A u \in Workers \ {t} : call'[u] = call[u]
  BY ServedFacts
<1>2. CallsOK' /\ ScansOK' /\ NoCall.item = NoItem BY ServedCallsOK
<1>3. /\ taken[x] = 0 /\ x # NoItem
      /\ \A r \in Shards : \A i \in 1 .. Len(mShards[r]) : mShards[r][i] # x
      /\ \A q \in Workers \ {t} : call[q].item # x
  <2>1. x # NoItem BY <1>1, WqShards
  <2> QED BY <2>1 DEF WqIInv, CarriedOK
<1>4. /\ n \in Nat /\ Len(mShards'[s]) = n + 1 /\ mShards'[s][n + 1] = x
      /\ \A i \in 1 .. n : mShards'[s][i] = mShards[s][i]
  BY <1>1, AppendProperties, LenProperties
<1> HIDE DEF s, x
<1>5. ASSUME NEW r \in Shards, NEW i \in 1 .. Len(mShards'[r])
      PROVE  \/ r = s /\ i = n + 1 /\ mShards'[r][i] = x
             \/ i \in 1 .. Len(mShards[r]) /\ mShards'[r][i] = mShards[r][i]
  <2>1. CASE r = s
    <3>1. i \in 1 .. n \/ i = n + 1 BY <1>4, <2>1
    <3> QED BY <1>4, <2>1, <3>1
  <2>2. CASE r # s BY <1>1, <2>2
  <2> QED BY <2>1, <2>2
<1>6. PlacesOK'
  <2>1. \A r \in Shards : Len(mShards'[r]) <= ShardCapacity
    <3> SUFFICES ASSUME NEW r \in Shards PROVE Len(mShards'[r]) <= ShardCapacity OBVIOUS
    <3>1. CASE r = s BY <1>1, <1>4, <3>1, WorkQueueAssumption
    <3>2. CASE r # s BY <1>1, <3>2 DEF WqIInv, PlacesOK
    <3> QED BY <3>1, <3>2
  <2>2. ASSUME NEW a \in Shards, NEW b \in Shards, NEW i \in 1 .. Len(mShards'[a]),
               NEW j \in 1 .. Len(mShards'[b]), mShards'[a][i] = mShards'[b][j]
        PROVE  a = b /\ i = j
    <3> HIDE DEF n
    <3>1. CASE i \in 1 .. Len(mShards[a]) /\ mShards'[a][i] = mShards[a][i]
      <4>1. mShards'[a][i] # x BY <1>3, <3>1
      <4>2. j \in 1 .. Len(mShards[b]) /\ mShards'[b][j] = mShards[b][j] BY <1>5, <2>2, <4>1
      <4>3. mShards[a][i] = mShards[b][j] BY <2>2, <3>1, <4>2
      <4> QED BY <3>1, <4>2, <4>3 DEF WqIInv, PlacesOK
    <3>2. CASE a = s /\ i = n + 1 /\ mShards'[a][i] = x
      BY <1>3, <1>5, <2>2, <3>2
    <3> QED BY <1>5, <3>1, <3>2
  <2>3. \A r \in Shards : \A i \in 1 .. Len(mShards'[r]) : taken'[mShards'[r][i]] = 0
    BY <1>1, <1>3, <1>5 DEF WqIInv, PlacesOK
  <2> QED BY <1>1, <2>1, <2>2, <2>3 DEF WqIInv, PlacesOK
<1>7. CarriedOK'
  <2>1. ASSUME NEW p \in Workers, call'[p].item # NoItem
        PROVE  /\ taken'[call'[p].item] = 0
               /\ \A r \in Shards : \A i \in 1 .. Len(mShards'[r]) : mShards'[r][i] # call'[p].item
               /\ \A q \in Workers : call'[q].item = call'[p].item => q = p
    <3>1. p # t /\ call'[p] = call[p] BY <1>1, <1>2, <2>1
    <3>2. call[p].item # x BY <1>3, <3>1
    <3>3. \A r \in Shards : \A i \in 1 .. Len(mShards'[r]) : mShards'[r][i] # call[p].item
      BY <1>5, <2>1, <3>1, <3>2 DEF WqIInv, CarriedOK
    <3>4. \A q \in Workers : call'[q].item = call[p].item => q = p
      BY <1>1, <1>2, <2>1, <3>1 DEF WqIInv, CarriedOK
    <3> QED BY <1>1, <2>1, <3>1, <3>3, <3>4 DEF WqIInv, CarriedOK
  <2> QED BY <2>1 DEF CarriedOK
<1> QED BY <1>1, <1>2, <1>6, <1>7 DEF WqIInv

LEMMA ServedGetterKeeps ==
  ASSUME WqIInv, NEW t \in Workers, Served(t), t \notin Putters
  PROVE  WqIInv'
<1> DEFINE s == call[t].at
           x == Head(mShards[s])
           n == Len(mShards[s])
<1>1. /\ s \in Shards /\ mShards[s] \in Seq(Items) /\ mShards[s] # << >> /\ x \in Items
      /\ \A r \in Shards \ {s} : mShards'[r] = mShards[r]
      /\ mShards'[s] = Tail(mShards[s]) /\ taken' = [taken EXCEPT ![x] = @ + 1] /\ WqTypes'
      /\ call'[t] = NoCall /\ \A u \in Workers \ {t} : call'[u] = call[u]
  BY ServedFacts
<1>2. CallsOK' /\ ScansOK' /\ NoCall.item = NoItem BY ServedCallsOK
<1>3. /\ n \in Nat /\ n > 0 /\ Len(mShards'[s]) = n - 1 /\ x = mShards[s][1]
      /\ \A i \in 1 .. n - 1 : mShards'[s][i] = mShards[s][i + 1]
  BY <1>1, HeadTailProperties, LenProperties, EmptySeq
<1>4. taken[x] = 0 /\ taken \in [Items -> Nat]
  <2>1. 1 \in 1 .. n BY <1>3
  <2>2. taken[mShards[s][1]] = 0 BY <1>1, <2>1 DEF WqIInv, PlacesOK
  <2>3. taken[x] = 0 BY <1>3, <2>2
  <2> QED BY <2>3 DEF WqIInv, WqTypes
<1> HIDE DEF x, s
<1>5. taken'[x] = 1 /\ \A y \in Items \ {x} : taken'[y] = taken[y] BY <1>1, <1>4
<1>6. ASSUME NEW r \in Shards, NEW i \in 1 .. Len(mShards'[r])
      PROVE  LET k == IF r = s THEN i + 1 ELSE i
             IN  /\ k \in 1 .. Len(mShards[r]) /\ mShards'[r][i] = mShards[r][k]
                 /\ mShards'[r][i] # x /\ mShards'[r][i] \in Items
  <2>1. mShards'[r][i] \in Items
    <3>1. mShards'[r] \in Seq(Items) BY <1>1 DEF WqTypes
    <3> QED BY <3>1, ElementOfSeq
  <2>2. CASE r = s
    <3>1. i \in 1 .. n - 1 /\ i + 1 \in 1 .. n /\ i + 1 # 1 /\ 1 \in 1 .. n BY <1>3, <2>2
    <3>2. mShards'[r][i] = mShards[r][i + 1] BY <1>3, <2>2, <3>1
    <3>3. mShards[s][i + 1] # mShards[s][1] BY <3>1, <1>1 DEF WqIInv, PlacesOK
    <3> QED BY <1>3, <2>1, <2>2, <3>1, <3>2, <3>3
  <2>3. CASE r # s
    <3>1. mShards'[r] = mShards[r] BY <1>1, <2>3
    <3>2. 1 \in 1 .. Len(mShards[s]) BY <1>3
    <3>3. mShards[r][i] # mShards[s][1] BY <1>1, <2>3, <3>1, <3>2 DEF WqIInv, PlacesOK
    <3> QED BY <1>3, <2>1, <2>3, <3>1, <3>3
  <2> QED BY <2>2, <2>3
<1>7. PlacesOK'
  <2>1. \A r \in Shards : Len(mShards'[r]) <= ShardCapacity
    <3> SUFFICES ASSUME NEW r \in Shards PROVE Len(mShards'[r]) <= ShardCapacity OBVIOUS
    <3>1. CASE r = s
      <4>1. n <= ShardCapacity BY <1>1 DEF WqIInv, PlacesOK
      <4> QED BY <1>3, <3>1, <4>1, WorkQueueAssumption
    <3>2. CASE r # s BY <1>1, <3>2 DEF WqIInv, PlacesOK
    <3> QED BY <3>1, <3>2
  <2>2. ASSUME NEW a \in Shards, NEW b \in Shards, NEW i \in 1 .. Len(mShards'[a]),
               NEW j \in 1 .. Len(mShards'[b]), mShards'[a][i] = mShards'[b][j]
        PROVE  a = b /\ i = j
    <3> DEFINE k == IF a = s THEN i + 1 ELSE i
               m == IF b = s THEN j + 1 ELSE j
    <3>1. /\ k \in 1 .. Len(mShards[a]) /\ mShards'[a][i] = mShards[a][k]
          /\ m \in 1 .. Len(mShards[b]) /\ mShards'[b][j] = mShards[b][m]
      BY <1>6
    <3> HIDE DEF k, m
    <3>2. a = b /\ k = m
      <4>1. mShards[a][k] = mShards[b][m] BY <2>2, <3>1
      <4> QED BY <3>1, <4>1 DEF WqIInv, PlacesOK
    <3>3. i \in Int /\ j \in Int OBVIOUS
    <3> QED BY <3>2, <3>3 DEF k, m
  <2>3. \A r \in Shards : \A i \in 1 .. Len(mShards'[r]) : taken'[mShards'[r][i]] = 0
    <3> SUFFICES ASSUME NEW r \in Shards, NEW i \in 1 .. Len(mShards'[r])
                 PROVE  taken'[mShards'[r][i]] = 0
      OBVIOUS
    <3> DEFINE k == IF r = s THEN i + 1 ELSE i
    <3>1. /\ k \in 1 .. Len(mShards[r]) /\ mShards'[r][i] = mShards[r][k]
          /\ mShards'[r][i] # x /\ mShards'[r][i] \in Items
      BY <1>6
    <3> HIDE DEF k
    <3> QED BY <1>5, <3>1 DEF WqIInv, PlacesOK
  <2>4. \A y \in Items : taken'[y] <= 1 BY <1>5 DEF WqIInv, PlacesOK
  <2> QED BY <2>1, <2>2, <2>3, <2>4 DEF PlacesOK
<1>8. CarriedOK'
  <2>1. ASSUME NEW p \in Workers, call'[p].item # NoItem
        PROVE  /\ taken'[call'[p].item] = 0
               /\ \A r \in Shards : \A i \in 1 .. Len(mShards'[r]) : mShards'[r][i] # call'[p].item
               /\ \A q \in Workers : call'[q].item = call'[p].item => q = p
    <3>1. p # t /\ call'[p] = call[p] BY <1>1, <1>2, <2>1
    <3>2. call[p].item \in Items BY <2>1, <3>1, CallFields DEF CallOK
    <3>3. call[p].item # x
      <4>1. 1 \in 1 .. Len(mShards[s]) BY <1>3
      <4> QED BY <1>1, <1>3, <2>1, <3>1, <4>1 DEF WqIInv, CarriedOK
    <3>4. taken'[call[p].item] = 0 BY <1>5, <2>1, <3>1, <3>2, <3>3 DEF WqIInv, CarriedOK
    <3>5. \A r \in Shards : \A i \in 1 .. Len(mShards'[r]) : mShards'[r][i] # call[p].item
      <4> SUFFICES ASSUME NEW r \in Shards, NEW i \in 1 .. Len(mShards'[r])
                   PROVE  mShards'[r][i] # call[p].item
        OBVIOUS
      <4> DEFINE k == IF r = s THEN i + 1 ELSE i
      <4>1. k \in 1 .. Len(mShards[r]) /\ mShards'[r][i] = mShards[r][k] BY <1>6
      <4> HIDE DEF k
      <4> QED BY <2>1, <3>1, <4>1 DEF WqIInv, CarriedOK
    <3>6. \A q \in Workers : call'[q].item = call[p].item => q = p
      BY <1>1, <1>2, <2>1, <3>1 DEF WqIInv, CarriedOK
    <3> QED BY <3>1, <3>4, <3>5, <3>6
  <2> QED BY <2>1 DEF CarriedOK
<1> QED BY <1>1, <1>2, <1>7, <1>8 DEF WqIInv

LEMMA WqInitInv == WqInit => WqIInv
<1> SUFFICES ASSUME WqInit PROVE WqIInv OBVIOUS
<1>1. /\ NoCall \in CallRec /\ NoCall.item = NoItem /\ NoCall.phase = "idle"
      /\ NoCall.i = 0 /\ NoCall.tries = 0
  BY WqShards DEF NoCall, CallRec, Phases, NoItem
<1>2. \A t \in Workers : call[t] = NoCall BY DEF WqInit
<1>3. \A s \in Shards : mShards[s] = << >> /\ Len(mShards[s]) = 0
  BY EmptySeq DEF WqInit
<1>4. WqTypes
  <2>1. << >> \in Seq(Items) BY EmptySeq
  <2> QED BY <1>1, <2>1 DEF WqInit, WqTypes
<1>5. CallsOK BY <1>1, <1>2, WqShards, WorkQueueAssumption DEF CallsOK, CallOK
<1>6. PlacesOK
  <2>1. \A s \in Shards : 1 .. Len(mShards[s]) = {} /\ Len(mShards[s]) <= ShardCapacity
    BY <1>3, WorkQueueAssumption
  <2>2. \A x \in Items : taken[x] <= 1
    <3>1. \A x \in Items : taken[x] = 0 BY DEF WqInit
    <3> QED BY <3>1
  <2> QED BY <2>1, <2>2 DEF PlacesOK
<1>7. CarriedOK BY <1>1, <1>2 DEF CarriedOK
<1>8. ScansOK BY <1>1, <1>2 DEF ScansOK, ScanOK
<1> QED BY <1>4, <1>5, <1>6, <1>7, <1>8 DEF WqIInv

LEMMA WqStepKeeps == WqIInv /\ [WqNext]_wqVars => WqIInv'
<1> SUFFICES ASSUME WqIInv, [WqNext]_wqVars PROVE WqIInv' OBVIOUS
<1>1. CASE \E p \in Putters, x \in Items : WqEnqueue(p, x) BY <1>1, WqCallsKeep
<1>2. CASE \E c \in Getters, n \in 1 .. MaxAttempts : WqDequeue(c, n) BY <1>2, WqCallsKeep
<1>3. CASE \E t \in Workers : TriesAgain(t) BY <1>3, WqCallsKeep
<1>4. CASE \E t \in Workers : ReturnsFalse(t) BY <1>4, ReturnsFalseKeeps
<1>5. CASE \E t \in Workers : NextProbe(t) BY <1>5, NextProbeKeeps
<1>6. CASE \E t \in Workers : StartScan(t) BY <1>6, StartScanKeeps
<1>7. CASE \E t \in Workers : ScanOn(t) BY <1>7, ScanOnKeeps
<1>8. CASE \E t \in Workers : Served(t) BY <1>8, ServedPutterKeeps, ServedGetterKeeps
<1>9. CASE UNCHANGED wqVars
  <2>1. WqTypes' /\ CallsOK' BY <1>9 DEF wqVars, WqIInv, WqTypes, CallsOK, CallOK
  <2>2. PlacesOK' /\ CarriedOK' BY <1>9 DEF wqVars, WqIInv, PlacesOK, CarriedOK
  <2>3. ScansOK' BY <1>9 DEF wqVars, WqIInv, ScansOK, ScanOK
  <2> QED BY <2>1, <2>2, <2>3 DEF WqIInv
<1> QED BY <1>1, <1>2, <1>3, <1>4, <1>5, <1>6, <1>7, <1>8, <1>9 DEF WqNext

(* The invariant holds for every number of shards, whatever the routing and *)
(* the numbers of probes and scans.                                         *)
THEOREM WorkInductive == WqSpec => []WqIInv
<1> QED BY WqInitInv, WqStepKeeps, PTL DEF WqSpec

(* Types: no probe, scan or token leaves the shards, no shard is overfull.  *)
THEOREM WorkTypes == WqSpec => []WqTypeOK
<1>1. WqIInv => WqTypeOK
  <2> SUFFICES ASSUME WqIInv PROVE WqTypeOK OBVIOUS
  <2>1. /\ \A s \in Shards : mShards[s] \in Seq(Items) /\ Len(mShards[s]) <= ShardCapacity
        /\ token \in [Workers -> Shards] /\ taken \in [Items -> Nat]
    BY DEF WqIInv, WqTypes, PlacesOK
  <2>2. ASSUME NEW t \in Workers
        PROVE  /\ call[t].phase \in {"idle", "first", "probe", "scan", "failed"}
               /\ call[t].at \in Shards /\ call[t].start \in Shards
               /\ call[t].i \in 0 .. kEnqueueProbeCount + kDequeueProbeCount + ShardCount
               /\ call[t].item \in Items \cup {NoItem} /\ call[t].tries \in 0 .. MaxAttempts
               /\ ready[t] \subseteq Shards
    <3>1. /\ call[t].phase \in Phases /\ call[t].at \in Shards /\ call[t].i \in Nat
          /\ call[t].start \in Shards /\ call[t].tries \in Nat /\ ready[t] \in SUBSET Shards
          /\ CallOK(t, call[t])
      BY CallFields
    <3>2. ProbeCount(t) <= kEnqueueProbeCount + kDequeueProbeCount
      BY WorkQueueAssumption DEF ProbeCount
    <3>3. call[t].i \in 0 .. kEnqueueProbeCount + kDequeueProbeCount + ShardCount
      BY <3>1, <3>2, WqShards, WorkQueueAssumption DEF CallOK
    <3>4. call[t].item \in Items \cup {NoItem} BY <3>1 DEF CallOK
    <3>5. call[t].tries \in 0 .. MaxAttempts BY <3>1, WorkQueueAssumption DEF CallOK
    <3> QED BY <3>1, <3>3, <3>4, <3>5 DEF Phases
  <2> QED BY <2>1, <2>2 DEF WqTypeOK
<1> QED BY WorkInductive, <1>1, PTL

(* However many shards are probed and scanned, a value is in one place of   *)
(* one shard until one consumer gets it.                                    *)
THEOREM WorkOnce == WqSpec => []DeliveredOnce
<1>1. WqIInv => DeliveredOnce
  <2> SUFFICES ASSUME WqIInv PROVE DeliveredOnce OBVIOUS
  <2> SUFFICES ASSUME NEW x \in Items
               PROVE  LET places == {c \in Shards \X (1 .. ShardCapacity) :
                                       c[2] <= Len(mShards[c[1]]) /\ mShards[c[1]][c[2]] = x}
                      IN  taken[x] <= 1 /\ \A a, b \in places : a = b /\ taken[x] = 0
    BY DEF DeliveredOnce
  <2>1. taken[x] <= 1 BY DEF WqIInv, PlacesOK
  <2>2. ASSUME NEW a \in Shards \X (1 .. ShardCapacity), a[2] <= Len(mShards[a[1]]),
               mShards[a[1]][a[2]] = x
        PROVE  a[1] \in Shards /\ a[2] \in 1 .. Len(mShards[a[1]]) /\ taken[x] = 0
    <3>1. a[1] \in Shards /\ a[2] \in 1 .. ShardCapacity OBVIOUS
    <3>2. mShards[a[1]] \in Seq(Items) BY <3>1 DEF WqIInv, WqTypes
    <3>3. Len(mShards[a[1]]) \in Nat BY <3>2, LenProperties
    <3>4. a[2] \in 1 .. Len(mShards[a[1]]) BY <2>2, <3>1, <3>3, WorkQueueAssumption
    <3> QED BY <2>2, <3>1, <3>4 DEF WqIInv, PlacesOK
  <2>3. ASSUME NEW a \in Shards \X (1 .. ShardCapacity), a[2] <= Len(mShards[a[1]]),
               NEW b \in Shards \X (1 .. ShardCapacity), b[2] <= Len(mShards[b[1]]),
               mShards[a[1]][a[2]] = x, mShards[b[1]][b[2]] = x
        PROVE  a = b
    <3>1. a[1] \in Shards /\ a[2] \in 1 .. Len(mShards[a[1]])
          /\ b[1] \in Shards /\ b[2] \in 1 .. Len(mShards[b[1]])
      BY <2>2, <2>3
    <3>2. a[1] = b[1] /\ a[2] = b[2] BY <2>3, <3>1 DEF WqIInv, PlacesOK
    <3> QED BY <3>2
  <2> QED BY <2>1, <2>2, <2>3
<1> QED BY WorkInductive, <1>1, PTL

(* If the scan goes round all shards, as with every routing policy of the   *)
(* library (kScanCount 0), a call that is refused had no shard that could   *)
(* have served it throughout.                                               *)
THEOREM WorkDelivered ==
  ASSUME EffectiveScanCount = ShardCount
  PROVE  WqSpec => []WorkIsDelivered
<1>1. WqIInv => RefusalIsHonest BY DEF WqIInv, ScansOK, ScanOK, RefusalIsHonest
<1>2. RefusalIsHonest /\ DeliveredOnce => WorkIsDelivered BY DEF WorkIsDelivered
<1> QED BY WorkInductive, WorkOnce, <1>1, <1>2, PTL

-----------------------------------------------------------------------------
(* ObjectPool: the inductive invariant. *)

PlTypes ==
  /\ freeList \in Seq(Nodes) /\ held \subseteq Nodes
  /\ busy \in Seq([kind : {"construct", "destroy"}, node : Nodes]) /\ Len(busy) <= MaxBusy
  /\ blocks \in 1 .. MaxBlocks

(* Nodes that are free, held and busy are different nodes. *)
Apart(f, h, b) ==
  /\ \A i, j \in 1 .. Len(f) : f[i] = f[j] => i = j
  /\ \A i, j \in 1 .. Len(b) : b[i].node = b[j].node => i = j
  /\ \A j \in 1 .. Len(b) : b[j].node \notin h
  /\ \A i \in 1 .. Len(f) : f[i] \notin h /\ \A j \in 1 .. Len(b) : f[i] # b[j].node

(* No more are free than nobody uses: a failed compaction loses some. *)
PlCounts ==
  /\ mFreeCount = Capacity_ - Cardinality(held) - Len(busy)
  /\ mAcquiredCount = Cardinality(held)
  /\ Len(freeList) + Cardinality(held) + Len(busy) <= Capacity_

PlIInv == PlTypes /\ Apart(freeList, held, busy) /\ PlCounts

(* A node that is nowhere else. *)
Fresh(x, f, h, b) ==
  /\ x \notin h
  /\ \A i \in 1 .. Len(f) : f[i] # x
  /\ \A j \in 1 .. Len(b) : b[j].node # x

(* What taking, giving back, holding and using a node does. *)
LEMMA ApartTake ==
  ASSUME NEW S, NEW f \in Seq(S), NEW h, NEW b, Apart(f, h, b), f # << >>
  PROVE  /\ Tail(f) \in Seq(S) /\ Head(f) \in S /\ Len(Tail(f)) = Len(f) - 1
         /\ Apart(Tail(f), h, b) /\ Fresh(Head(f), Tail(f), h, b)
<1> DEFINE n == Len(f)
<1>1. /\ n \in Nat \ {0} /\ Tail(f) \in Seq(S) /\ Head(f) \in S /\ Len(Tail(f)) = n - 1
      /\ Head(f) = f[1] /\ \A i \in 1 .. n - 1 : Tail(f)[i] = f[i + 1]
  BY HeadTailProperties, EmptySeq, LenProperties
<1>2. \A i \in 1 .. n - 1 : i + 1 \in 1 .. n /\ i + 1 # 1 /\ 1 \in 1 .. n BY <1>1
<1> HIDE DEF n
<1>3. Apart(Tail(f), h, b)
  <2>1. \A i, j \in 1 .. n - 1 : Tail(f)[i] = Tail(f)[j] => i = j
    <3> SUFFICES ASSUME NEW i \in 1 .. n - 1, NEW j \in 1 .. n - 1, Tail(f)[i] = Tail(f)[j]
                 PROVE  i = j
      OBVIOUS
    <3>1. f[i + 1] = f[j + 1] BY <1>1
    <3>2. i + 1 = j + 1 BY <1>2, <3>1 DEF Apart, n
    <3> QED BY <1>1, <3>2
  <2>2. \A i \in 1 .. n - 1 : Tail(f)[i] \notin h /\ \A j \in 1 .. Len(b) : Tail(f)[i] # b[j].node
    BY <1>1, <1>2 DEF Apart, n
  <2> QED BY <1>1, <2>1, <2>2 DEF Apart
<1>4. Fresh(Head(f), Tail(f), h, b)
  <2>1. 1 \in 1 .. n BY <1>1
  <2>2. f[1] \notin h /\ \A j \in 1 .. Len(b) : b[j].node # f[1] BY <2>1 DEF Apart, n
  <2>3. \A i \in 1 .. n - 1 : Tail(f)[i] # f[1] BY <1>1, <1>2 DEF Apart, n
  <2> QED BY <1>1, <2>2, <2>3 DEF Fresh
<1> QED BY <1>1, <1>3, <1>4 DEF n

LEMMA ApartFree ==
  ASSUME NEW S, NEW f \in Seq(S), NEW x \in S, NEW h, NEW b, Apart(f, h, b), Fresh(x, f, h, b)
  PROVE  /\ <<x>> \o f \in Seq(S) /\ Len(<<x>> \o f) = Len(f) + 1
         /\ Apart(<<x>> \o f, h, b)
<1> DEFINE g == <<x>> \o f
           n == Len(f)
<1>1. <<x>> \in Seq(S) /\ Len(<<x>>) = 1 /\ <<x>>[1] = x OBVIOUS
<1>2. /\ n \in Nat /\ g \in Seq(S) /\ Len(g) = n + 1
      /\ g[1] = x /\ \A i \in 2 .. n + 1 : g[i] = f[i - 1]
  <2>1. n \in Nat BY LenProperties
  <2>2. g \in Seq(S) /\ Len(g) = 1 + n
        /\ \A i \in 1 .. 1 + n : g[i] = IF i <= 1 THEN <<x>>[i] ELSE f[i - 1]
    BY <1>1, ConcatProperties
  <2> QED BY <1>1, <2>1, <2>2
<1> HIDE DEF g
<1>3. \A i \in 2 .. n + 1 : i - 1 \in 1 .. n BY <1>2
<1>4. \A i \in 1 .. n + 1 : i = 1 \/ i \in 2 .. n + 1 BY <1>2
<1>5. \A i, j \in 1 .. n + 1 : g[i] = g[j] => i = j
  <2> SUFFICES ASSUME NEW i \in 1 .. n + 1, NEW j \in 1 .. n + 1, g[i] = g[j] PROVE i = j OBVIOUS
  <2>1. CASE i = 1 /\ j = 1 BY <2>1
  <2>2. CASE i = 1 /\ j \in 2 .. n + 1 BY <1>2, <1>3, <2>2 DEF Fresh
  <2>3. CASE j = 1 /\ i \in 2 .. n + 1 BY <1>2, <1>3, <2>3 DEF Fresh
  <2>4. CASE i \in 2 .. n + 1 /\ j \in 2 .. n + 1
    <3>1. i - 1 = j - 1
      <4>1. f[i - 1] = f[j - 1] BY <1>2, <2>4
      <4> QED BY <1>3, <2>4, <4>1 DEF Apart
    <3> QED BY <2>4, <3>1
  <2> QED BY <1>4, <2>1, <2>2, <2>3, <2>4
<1>6. \A i \in 1 .. n + 1 : g[i] \notin h /\ \A j \in 1 .. Len(b) : g[i] # b[j].node
  <2> SUFFICES ASSUME NEW i \in 1 .. n + 1
               PROVE  g[i] \notin h /\ \A j \in 1 .. Len(b) : g[i] # b[j].node
    OBVIOUS
  <2>1. CASE i = 1 BY <1>2, <2>1 DEF Fresh
  <2>2. CASE i \in 2 .. n + 1 BY <1>2, <1>3, <2>2 DEF Apart
  <2> QED BY <1>4, <2>1, <2>2
<1>7. Apart(g, h, b) BY <1>2, <1>5, <1>6 DEF Apart
<1> QED BY <1>2, <1>7 DEF g

LEMMA ApartHold ==
  ASSUME NEW f, NEW h, NEW b, NEW x, Apart(f, h, b)
  PROVE  /\ Fresh(x, f, h, b) => Apart(f, h \cup {x}, b)
         /\ x \in h => Apart(f, h \ {x}, b) /\ Fresh(x, f, h \ {x}, b)
  BY DEF Apart, Fresh

Uses(S) == [kind : {"construct", "destroy"}, node : S]

LEMMA ApartEnter ==
  ASSUME NEW S, NEW f, NEW h, NEW b \in Seq(Uses(S)), NEW u \in Uses(S),
         Apart(f, h, b), Fresh(u.node, f, h, b)
  PROVE  /\ Append(b, u) \in Seq(Uses(S)) /\ Len(Append(b, u)) = Len(b) + 1
         /\ Apart(f, h, Append(b, u))
<1> DEFINE c == Append(b, u)
           n == Len(b)
<1>1. /\ n \in Nat /\ c \in Seq(Uses(S)) /\ Len(c) = n + 1
      /\ c[n + 1].node = u.node /\ \A i \in 1 .. n : c[i] = b[i]
  BY AppendProperties, LenProperties
<1> HIDE DEF c
<1>2. \A i \in 1 .. n + 1 : i = n + 1 \/ i \in 1 .. n BY <1>1
<1>3. \A i, j \in 1 .. n + 1 : c[i].node = c[j].node => i = j
  BY <1>1, <1>2 DEF Apart, Fresh
<1>4. \A j \in 1 .. n + 1 : c[j].node \notin h BY <1>1, <1>2 DEF Apart, Fresh
<1>5. \A i \in 1 .. Len(f) : f[i] \notin h /\ \A j \in 1 .. n + 1 : f[i] # c[j].node
  BY <1>1, <1>2 DEF Apart, Fresh
<1>6. Apart(f, h, c) BY <1>1, <1>3, <1>4, <1>5 DEF Apart
<1> QED BY <1>1, <1>6 DEF c

LEMMA ApartLeave ==
  ASSUME NEW S, NEW f, NEW h, NEW b \in Seq(Uses(S)), b # << >>, Apart(f, h, b)
  PROVE  /\ Front(b) \in Seq(Uses(S)) /\ Len(Front(b)) = Len(b) - 1 /\ Last(b).node \in S
         /\ Apart(f, h, Front(b)) /\ Fresh(Last(b).node, f, h, Front(b))
<1> DEFINE c == Front(b)
           n == Len(b)
<1>1. n \in Nat \ {0} BY EmptySeq, LenProperties
<1>2. /\ c \in Seq(Uses(S)) /\ Len(c) = n - 1 /\ \A i \in 1 .. n - 1 : c[i] = b[i]
  <2>1. \A i \in 1 .. n - 1 : b[i] \in Uses(S) BY <1>1, ElementOfSeq
  <2>2. 1 \in Int /\ n - 1 \in Int /\ n - 1 >= 0 BY <1>1
  <2> HIDE DEF n
  <2>3. LET s == SubSeq(b, 1, n - 1)
        IN  s \in Seq(Uses(S)) /\ Len(s) = n - 1 /\ \A i \in 1 .. n - 1 : s[i] = b[i]
    BY <2>1, <2>2, SubSeqProperties
  <2> QED BY <2>3 DEF Front, n
<1>3. n \in 1 .. n /\ \A i \in 1 .. n - 1 : i \in 1 .. n /\ i # n BY <1>1
<1>4. Last(b) = b[n] /\ Last(b).node \in S
  <2>1. Last(b) = b[n] BY DEF Last
  <2>2. b[n] \in Uses(S) BY <1>3, ElementOfSeq
  <2> QED BY <2>1, <2>2 DEF Uses
<1> HIDE DEF c
<1>5. \A i, j \in 1 .. n - 1 : c[i].node = c[j].node => i = j BY <1>2, <1>3 DEF Apart
<1>6. \A j \in 1 .. n - 1 : c[j].node \notin h /\ c[j].node # b[n].node BY <1>2, <1>3 DEF Apart
<1>7. \A i \in 1 .. Len(f) : f[i] \notin h /\ f[i] # b[n].node /\ \A j \in 1 .. n - 1 : f[i] # c[j].node
  BY <1>2, <1>3 DEF Apart
<1>8. Apart(f, h, c) BY <1>2, <1>5, <1>6, <1>7 DEF Apart
<1>9. Fresh(b[n].node, f, h, c)
  <2>1. b[n].node \notin h BY <1>3 DEF Apart
  <2> QED BY <1>2, <1>6, <1>7, <2>1 DEF Fresh
<1> QED BY <1>2, <1>4, <1>8, <1>9 DEF c

(* A block is so many nodes more. *)
LEMMA NodesGrow ==
  ASSUME PlTypes
  PROVE  /\ BlockSize \in Nat \ {0} /\ Capacity_ \in Nat /\ Nodes = 1 .. Capacity_
         /\ (blocks + 1) * BlockSize = Capacity_ + BlockSize
         /\ ((blocks + 1) - 1) * BlockSize = Capacity_
         /\ busy \in Seq(Uses(Nodes))
<1>1. BlockSize \in Nat \ {0} /\ blocks \in Nat BY PoolAssumption DEF PlTypes
<1>2. blocks * BlockSize \in Nat /\ (blocks + 1) * BlockSize = blocks * BlockSize + BlockSize
  BY <1>1, Z3
<1>3. (blocks + 1) - 1 = blocks BY <1>1
<1> QED BY <1>1, <1>2, <1>3 DEF Capacity_, Nodes, Uses, PlTypes

LEMMA UsesGrow ==
  ASSUME NEW S, NEW T, S \subseteq T
  PROVE  Seq(S) \subseteq Seq(T) /\ Seq(Uses(S)) \subseteq Seq(Uses(T))
<1>1. Uses(S) \subseteq Uses(T) BY DEF Uses
<1> QED BY <1>1, SeqMonotonic

(* A block of B nodes beyond C, last node first. *)
IsBlock(g, C, B) ==
  g \in Seq(1 .. C + B) /\ Len(g) = B /\ \A i \in 1 .. B : g[i] = C + B + 1 - i

LEMMA NewBlock ==
  ASSUME NEW C \in Nat, NEW b, (b - 1) * BlockSize = C
  PROVE  IsBlock(Reverse(BlockNodes(b)), C, BlockSize)
<1> DEFINE B == BlockSize
           g == [i \in 1 .. B |-> C + i]
           r == [i \in 1 .. B |-> C + B + 1 - i]
<1>0. B \in Nat BY PoolAssumption
<1>1. BlockNodes(b) = g BY DEF BlockNodes
<1> HIDE DEF B
<1>2. g \in [1 .. B -> Nat] OBVIOUS
<1>3. g \in Seq(Nat) /\ Len(g) = B BY <1>0, <1>2, SeqDef
<1> HIDE DEF g
<1>4. Reverse(g) = [i \in 1 .. B |-> g[(B - i) + 1]] BY <1>3 DEF Reverse
<1>5. \A i \in 1 .. B : (B - i) + 1 \in 1 .. B /\ g[(B - i) + 1] = C + B + 1 - i BY <1>0 DEF g
<1>6. Reverse(g) = r BY <1>4, <1>5
<1>7. r \in [1 .. B -> 1 .. C + B] BY <1>0
<1>8. r \in Seq(1 .. C + B) /\ Len(r) = B BY <1>0, <1>7, SeqDef
<1>9. IsBlock(Reverse(BlockNodes(b)), C, B) BY <1>1, <1>6, <1>8 DEF IsBlock
<1> QED BY <1>9 DEF B

LEMMA ApartGrow ==
  ASSUME NEW B \in Nat, NEW C \in Nat, NEW g, IsBlock(g, C, B), NEW f \in Seq(1 .. C),
         NEW h \in SUBSET (1 .. C), NEW b \in Seq(Uses(1 .. C)), Apart(f, h, b)
  PROVE  g \o f \in Seq(1 .. C + B) /\ Len(g \o f) = Len(f) + B /\ Apart(g \o f, h, b)
<1> DEFINE S == 1 .. C
           T == 1 .. C + B
           e == g \o f
           n == Len(f)
<1>1. S \subseteq T OBVIOUS
<1>2. f \in Seq(T) /\ n \in Nat BY <1>1, UsesGrow, LenProperties
<1>3. g \in Seq(T) /\ Len(g) = B /\ \A i \in 1 .. B : g[i] = C + B + 1 - i BY DEF IsBlock
<1> HIDE DEF n
<1>4. /\ e \in Seq(T) /\ Len(e) = B + n
      /\ \A i \in 1 .. B + n : e[i] = IF i <= B THEN g[i] ELSE f[i - B]
  BY <1>2, <1>3, ConcatProperties DEF n
<1> HIDE DEF T, e
<1>5. ASSUME NEW i \in 1 .. B + n
      PROVE  \/ i \in 1 .. B /\ e[i] = C + B + 1 - i
             \/ i \notin 1 .. B /\ i - B \in 1 .. n /\ e[i] = f[i - B] /\ e[i] \in S
  <2>1. CASE i <= B BY <1>2, <1>3, <1>4, <2>1
  <2>2. CASE ~(i <= B)
    <3>1. i - B \in 1 .. n /\ i \notin 1 .. B /\ e[i] = f[i - B] BY <1>2, <1>4, <2>2
    <3>2. f[i - B] \in S BY <3>1, ElementOfSeq DEF n
    <3> QED BY <3>1, <3>2
  <2> QED BY <2>1, <2>2
<1>6. \A i \in 1 .. B : C + B + 1 - i \notin S BY <1>2
<1>7. \A i, j \in 1 .. B + n : e[i] = e[j] => i = j
  <2> SUFFICES ASSUME NEW i \in 1 .. B + n, NEW j \in 1 .. B + n, e[i] = e[j] PROVE i = j OBVIOUS
  <2>1. CASE i \in 1 .. B /\ e[i] = C + B + 1 - i
    <3>1. j \in 1 .. B /\ e[j] = C + B + 1 - j BY <1>5, <1>6, <2>1
    <3>2. C + B + 1 - i = C + B + 1 - j BY <2>1, <3>1
    <3> HIDE DEF e
    <3> QED BY <2>1, <3>1, <3>2, Z3
  <2>2. CASE i \notin 1 .. B /\ i - B \in 1 .. n /\ e[i] = f[i - B] /\ e[i] \in S
    <3>1. j - B \in 1 .. n /\ e[j] = f[j - B] BY <1>5, <1>6, <2>2
    <3>2. i - B = j - B BY <2>2, <3>1 DEF Apart, n
    <3> QED BY <1>2, <3>2
  <2> QED BY <1>5, <2>1, <2>2
<1>8. \A j \in 1 .. Len(b) : b[j].node \in S
  <2> SUFFICES ASSUME NEW j \in 1 .. Len(b) PROVE b[j].node \in S OBVIOUS
  <2>1. b[j] \in Uses(S) BY ElementOfSeq
  <2> QED BY <2>1 DEF Uses
<1>9. \A i \in 1 .. B + n : e[i] \notin h /\ \A j \in 1 .. Len(b) : e[i] # b[j].node
  <2> SUFFICES ASSUME NEW i \in 1 .. B + n
               PROVE  e[i] \notin h /\ \A j \in 1 .. Len(b) : e[i] # b[j].node
    OBVIOUS
  <2>1. CASE i \in 1 .. B /\ e[i] = C + B + 1 - i BY <1>6, <1>8, <2>1
  <2>2. CASE i - B \in 1 .. n /\ e[i] = f[i - B] BY <2>2 DEF Apart, n
  <2> QED BY <1>5, <2>1, <2>2
<1>10. Apart(e, h, b) BY <1>4, <1>7, <1>9 DEF Apart
<1>11. Len(e) = n + B BY <1>2, <1>4
<1> QED BY <1>4, <1>10, <1>11 DEF e, T, n

(* The counts as numbers. *)
LEMMA PoolNumbers ==
  ASSUME PlIInv
  PROVE  /\ IsFiniteSet(held) /\ Cardinality(held) \in Nat /\ Len(busy) \in Nat
         /\ Len(freeList) \in Nat /\ Capacity_ \in Nat /\ BlockSize \in Nat \ {0}
         /\ MaxBusy \in Nat /\ MaxBlocks \in Nat /\ blocks \in Nat
<1>1. Capacity_ \in Nat /\ Nodes = 1 .. Capacity_ /\ BlockSize \in Nat \ {0} BY NodesGrow DEF PlIInv
<1>2. IsFiniteSet(Nodes) BY <1>1, FS_Interval
<1>3. IsFiniteSet(held) /\ Cardinality(held) \in Nat
  BY <1>2, FS_Subset, FS_CardinalityType DEF PlIInv, PlTypes
<1> QED BY <1>1, <1>3, LenProperties, PoolAssumption DEF PlIInv, PlTypes

(* The node that TakeNode takes is nobody's. *)
LEMMA TakeFacts ==
  ASSUME PlIInv, NEW mayGrow, TakeNode(mayGrow)
  PROVE  /\ Taken \in Nodes' /\ Nodes \subseteq Nodes' /\ freeList' \in Seq(Nodes')
         /\ Apart(freeList', held, busy) /\ Fresh(Taken, freeList', held, busy)
         /\ blocks' \in 1 .. MaxBlocks /\ Capacity_' \in Nat /\ mFreeCount' = mFreeCount + Capacity_' - Capacity_ - 1
         /\ Len(freeList') \in Nat /\ Len(freeList') = Len(freeList) + Capacity_' - Capacity_ - 1
<1>1. /\ BlockSize \in Nat \ {0} /\ Capacity_ \in Nat /\ Nodes = 1 .. Capacity_
      /\ (blocks + 1) * BlockSize = Capacity_ + BlockSize
      /\ ((blocks + 1) - 1) * BlockSize = Capacity_ /\ busy \in Seq(Uses(Nodes))
  BY NodesGrow DEF PlIInv
<1>2. mFreeCount \in Int BY PoolNumbers DEF PlIInv, PlCounts
<1>3. CASE /\ freeList # << >> /\ freeList' = Tail(freeList) /\ mFreeCount' = mFreeCount - 1
           /\ blocks' = blocks
  <2>1. Capacity_' = Capacity_ /\ Nodes' = Nodes BY <1>3 DEF Capacity_, Nodes
  <2>2. Taken = Head(freeList) BY <1>3 DEF Taken
  <2>3. /\ freeList' \in Seq(Nodes) /\ Taken \in Nodes /\ Len(freeList') = Len(freeList) - 1
        /\ Apart(freeList', held, busy) /\ Fresh(Taken, freeList', held, busy)
    BY <1>3, <2>2, ApartTake DEF PlIInv, PlTypes
  <2>4. Len(freeList') \in Nat BY <2>3, LenProperties
  <2>5. blocks' \in 1 .. MaxBlocks BY <1>3 DEF PlIInv, PlTypes
  <2> QED BY <1>1, <1>2, <1>3, <2>1, <2>3, <2>4, <2>5, PoolNumbers
<1>4. CASE /\ freeList = << >> /\ blocks < MaxBlocks /\ freeList' = Tail(WithBlock(<< >>))
           /\ mFreeCount' = mFreeCount + BlockSize - 1 /\ blocks' = blocks + 1
  <2> DEFINE C == Capacity_
             B == BlockSize
             g == Reverse(BlockNodes(blocks + 1))
             T == 1 .. C + B
  <2>1. Capacity_' = C + B /\ Nodes' = T BY <1>1, <1>4 DEF Capacity_, Nodes
  <2>2. IsBlock(g, C, B)
    <3> DEFINE b == blocks + 1
    <3>1. C \in Nat /\ (b - 1) * BlockSize = C BY <1>1, Zenon
    <3> HIDE DEF b, C
    <3>2. IsBlock(Reverse(BlockNodes(b)), C, BlockSize) BY <3>1, NewBlock
    <3> QED BY <3>2 DEF b, C
  <2> HIDE DEF g
  <2>3. /\ g \o freeList \in Seq(T) /\ Len(g \o freeList) = Len(freeList) + B
        /\ Apart(g \o freeList, held, busy)
    BY <1>1, <2>2, ApartGrow DEF PlIInv, PlTypes
  <2>4. g \o freeList = g
    <3>1. g \in Seq(T) BY <2>2 DEF IsBlock
    <3> QED BY <1>4, <3>1, ConcatEmptySeq
  <2>5. Len(freeList) = 0 BY <1>4, EmptySeq
  <2>6. g \in Seq(T) /\ Len(g) = B /\ g # << >> /\ Apart(g, held, busy) /\ Head(g) = C + B
    <3>1. g \in Seq(T) /\ Len(g) = B /\ g[1] = C + B + 1 - 1
      <4>1. 1 \in 1 .. B BY <1>1
      <4> QED BY <2>2, <4>1 DEF IsBlock
    <3>2. g # << >> BY <1>1, <3>1, EmptySeq
    <3>3. Head(g) = g[1] BY <3>1, <3>2, HeadTailProperties
    <3> QED BY <1>1, <2>3, <2>4, <3>1, <3>2, <3>3
  <2>7. freeList' = Tail(g)
    <3>1. WithBlock(<< >>) = g \o << >> BY DEF WithBlock, g
    <3>2. g \o << >> = g BY <2>6, ConcatEmptySeq
    <3> QED BY <1>4, <3>1, <3>2
  <2>8. Taken = Head(g) BY <1>1, <1>4, <2>6 DEF Taken
  <2>9. /\ freeList' \in Seq(T) /\ Taken \in T /\ Len(freeList') = B - 1
        /\ Apart(freeList', held, busy) /\ Fresh(Taken, freeList', held, busy)
    BY <2>6, <2>7, <2>8, ApartTake
  <2>10. Nodes \subseteq T BY <1>1
  <2>11. blocks' \in 1 .. MaxBlocks BY <1>4, PoolAssumption DEF PlIInv, PlTypes
  <2>12. /\ mFreeCount' = mFreeCount + Capacity_' - Capacity_ - 1
         /\ Len(freeList') \in Nat /\ Len(freeList') = Len(freeList) + Capacity_' - Capacity_ - 1
    BY <1>1, <1>2, <1>4, <2>1, <2>5, <2>9
  <2>13. Capacity_' \in Nat BY <1>1, <2>1
  <2> QED BY <2>1, <2>9, <2>10, <2>11, <2>12, <2>13
<1> QED BY <1>3, <1>4 DEF TakeNode

-----------------------------------------------------------------------------
(* ObjectPool: the actions. *)

LEMMA AcquireKeeps ==
  ASSUME PlIInv
  PROVE  /\ \A mayGrow \in BOOLEAN : AcquireNode(mayGrow) => PlIInv'
         /\ AcquireRaw => PlIInv'
<1>1. ASSUME NEW mayGrow \in BOOLEAN, TakeNode(mayGrow)
      PROVE  /\ Taken \in Nodes' /\ freeList' \in Seq(Nodes') /\ held \subseteq Nodes'
             /\ busy \in Seq(Uses(Nodes')) /\ Apart(freeList', held, busy)
             /\ Fresh(Taken, freeList', held, busy)
             /\ blocks' \in 1 .. MaxBlocks /\ Capacity_' \in Nat
             /\ mFreeCount' = Capacity_' - Cardinality(held) - Len(busy) - 1
             /\ Len(freeList') \in Nat
             /\ Len(freeList') + Cardinality(held) + Len(busy) + 1 <= Capacity_'
  <2>1. /\ Taken \in Nodes' /\ Nodes \subseteq Nodes' /\ freeList' \in Seq(Nodes')
        /\ Apart(freeList', held, busy) /\ Fresh(Taken, freeList', held, busy)
        /\ blocks' \in 1 .. MaxBlocks /\ Capacity_' \in Nat
        /\ mFreeCount' = mFreeCount + Capacity_' - Capacity_ - 1
        /\ Len(freeList') \in Nat /\ Len(freeList') = Len(freeList) + Capacity_' - Capacity_ - 1
    BY <1>1, TakeFacts
  <2>2. busy \in Seq(Uses(Nodes')) BY <2>1, NodesGrow, UsesGrow DEF PlIInv
  <2>3. held \subseteq Nodes' BY <2>1 DEF PlIInv, PlTypes
  <2>4. /\ mFreeCount' = Capacity_' - Cardinality(held) - Len(busy) - 1
        /\ Len(freeList') + Cardinality(held) + Len(busy) + 1 <= Capacity_'
    <3>1. /\ mFreeCount = Capacity_ - Cardinality(held) - Len(busy)
          /\ Len(freeList) + Cardinality(held) + Len(busy) <= Capacity_
      BY DEF PlIInv, PlCounts
    <3> DEFINE c == Capacity_
               d == Capacity_'
               h == Cardinality(held)
               b == Len(busy)
               l == Len(freeList)
    <3>2. c \in Nat /\ d \in Nat /\ h \in Nat /\ b \in Nat /\ l \in Nat BY <2>1, PoolNumbers
    <3>3. /\ mFreeCount' = (c - h - b) + d - c - 1 /\ Len(freeList') = l + d - c - 1 /\ l + h + b <= c
      BY <2>1, <3>1
    <3> HIDE DEF c, d, h, b, l
    <3>4. mFreeCount' = d - h - b - 1 BY <3>2, <3>3
    <3>5. Len(freeList') + h + b + 1 <= d BY <3>2, <3>3
    <3> QED BY <3>4, <3>5 DEF c, d, h, b, l
  <2> QED BY <2>1, <2>2, <2>3, <2>4
<1>2. ASSUME NEW mayGrow \in BOOLEAN, AcquireNode(mayGrow) PROVE PlIInv'
  <2>1. /\ Len(busy) < MaxBusy /\ TakeNode(mayGrow) /\ mAcquiredCount' = mAcquiredCount /\ held' = held
        /\ busy' = Append(busy, [kind |-> "construct", node |-> Taken])
    BY <1>2 DEF AcquireNode, Enter
  <2>2. /\ busy' \in Seq(Uses(Nodes')) /\ Len(busy') = Len(busy) + 1 /\ Apart(freeList', held, busy')
    <3> DEFINE S == Nodes'
               u == [kind |-> "construct", node |-> Taken]
    <3>1. u \in Uses(S) /\ u.node = Taken BY <1>1, <2>1 DEF Uses
    <3>2. /\ busy \in Seq(Uses(S)) /\ busy' = Append(busy, u)
          /\ Apart(freeList', held, busy) /\ Fresh(u.node, freeList', held, busy)
      BY <1>1, <2>1, <3>1
    <3> HIDE DEF S, u
    <3>3. busy' \in Seq(Uses(S)) /\ Len(busy') = Len(busy) + 1 /\ Apart(freeList', held, busy')
      BY <3>1, <3>2, ApartEnter
    <3> QED BY <3>3 DEF S
  <2>3. PlTypes' BY <1>1, <2>1, <2>2, PoolNumbers DEF PlTypes, Uses
  <2>4. PlCounts'
    <3>1. mAcquiredCount = Cardinality(held) BY DEF PlIInv, PlCounts
    <3>2. /\ mFreeCount' = Capacity_' - Cardinality(held) - Len(busy')
          /\ Len(freeList') + Cardinality(held) + Len(busy') <= Capacity_'
      <4> DEFINE d == Capacity_'
                 h == Cardinality(held)
                 b == Len(busy)
                 l == Len(freeList')
      <4>1. d \in Nat /\ h \in Nat /\ b \in Nat /\ l \in Nat BY <1>1, <2>1, PoolNumbers
      <4>2. Len(busy') = b + 1 /\ mFreeCount' = d - h - b - 1 /\ l + h + b + 1 <= d
        BY <1>1, <2>1, <2>2
      <4> HIDE DEF d, h, b, l
      <4>3. mFreeCount' = d - h - Len(busy') /\ l + h + Len(busy') <= d BY <4>1, <4>2
      <4> QED BY <4>3 DEF d, h, b, l
    <3> QED BY <2>1, <3>1, <3>2 DEF PlCounts
  <2> QED BY <2>1, <2>2, <2>3, <2>4 DEF PlIInv
<1>3. ASSUME AcquireRaw PROVE PlIInv'
  <2>1. /\ TakeNode(TRUE) /\ mAcquiredCount' = mAcquiredCount + 1 /\ held' = held \cup {Taken}
        /\ busy' = busy
    BY <1>3 DEF AcquireRaw
  <2>2. Apart(freeList', held', busy') BY <1>1, <2>1, ApartHold
  <2>3. PlTypes' BY <1>1, <2>1 DEF PlIInv, PlTypes, Uses
  <2>4. Cardinality(held') = Cardinality(held) + 1
    <3>1. Taken \notin held BY <1>1, <2>1 DEF Fresh
    <3> QED BY <2>1, <3>1, PoolNumbers, FS_AddElement
  <2>5. PlCounts'
    <3>1. mAcquiredCount' = Cardinality(held') BY <2>1, <2>4 DEF PlIInv, PlCounts
    <3>2. /\ mFreeCount' = Capacity_' - Cardinality(held') - Len(busy)
          /\ Len(freeList') + Cardinality(held') + Len(busy) <= Capacity_'
      <4> DEFINE d == Capacity_'
                 h == Cardinality(held)
                 b == Len(busy)
                 l == Len(freeList')
      <4>1. /\ d \in Nat /\ h \in Nat /\ b \in Nat /\ l \in Nat /\ Cardinality(held') = h + 1
            /\ mFreeCount' = d - h - b - 1 /\ l + h + b + 1 <= d
        BY <1>1, <2>1, <2>4, PoolNumbers
      <4> HIDE DEF d, h, b, l
      <4>2. mFreeCount' = d - Cardinality(held') - b /\ l + Cardinality(held') + b <= d BY <4>1
      <4> QED BY <4>2 DEF d, h, b, l
    <3> QED BY <2>1, <3>1, <3>2 DEF PlCounts
  <2> QED BY <2>2, <2>3, <2>5 DEF PlIInv
<1> QED BY <1>2, <1>3

(* T's code returns: its node leaves the stack. *)
LEMMA LeaveFacts ==
  ASSUME PlIInv, busy # << >>, Leave, UNCHANGED blocks
  PROVE  /\ Nodes' = Nodes /\ Capacity_' = Capacity_
         /\ busy' \in Seq(Uses(Nodes)) /\ Len(busy') = Len(busy) - 1 /\ Last(busy).node \in Nodes
         /\ Apart(freeList, held, busy') /\ Fresh(Last(busy).node, freeList, held, busy')
<1>1. Nodes' = Nodes /\ Capacity_' = Capacity_ BY DEF Nodes, Capacity_
<1>2. busy \in Seq(Uses(Nodes)) BY NodesGrow DEF PlIInv
<1> QED BY <1>1, <1>2, ApartLeave DEF Leave, PlIInv

LEMMA ConstructedKeeps ==
  ASSUME PlIInv, Constructed
  PROVE  PlIInv'
<1> DEFINE x == Last(busy).node
<1>1. /\ busy # << >> /\ Leave /\ mAcquiredCount' = mAcquiredCount + 1 /\ held' = held \cup {x}
      /\ UNCHANGED <<freeList, mFreeCount, blocks>>
  BY DEF Constructed
<1>2. /\ Nodes' = Nodes /\ Capacity_' = Capacity_
      /\ busy' \in Seq(Uses(Nodes)) /\ Len(busy') = Len(busy) - 1 /\ x \in Nodes
      /\ Apart(freeList, held, busy') /\ Fresh(x, freeList, held, busy')
  BY <1>1, LeaveFacts
<1> HIDE DEF x
<1>3. Apart(freeList', held', busy') BY <1>1, <1>2, ApartHold
<1>4. Cardinality(held') = Cardinality(held) + 1
  <2>1. x \notin held BY <1>2 DEF Fresh
  <2> QED BY <1>1, <2>1, PoolNumbers, FS_AddElement
<1>5. PlTypes' BY <1>1, <1>2, PoolNumbers DEF PlIInv, PlTypes, Uses
<1>6. PlCounts'
  <2>1. /\ mFreeCount = Capacity_ - Cardinality(held) - Len(busy) /\ mAcquiredCount = Cardinality(held)
        /\ Len(freeList) + Cardinality(held) + Len(busy) <= Capacity_
    BY DEF PlIInv, PlCounts
  <2>2. /\ mFreeCount' = Capacity_' - Cardinality(held') - Len(busy')
        /\ Len(freeList') + Cardinality(held') + Len(busy') <= Capacity_'
    <3> DEFINE d == Capacity_
               h == Cardinality(held)
               b == Len(busy)
               l == Len(freeList)
    <3>1. /\ d \in Nat /\ h \in Nat /\ b \in Nat /\ l \in Nat /\ Cardinality(held') = h + 1
          /\ Len(busy') = b - 1 /\ Len(freeList') = l /\ Capacity_' = d
          /\ mFreeCount' = d - h - b /\ l + h + b <= d
      BY <1>1, <1>2, <1>4, <2>1, PoolNumbers
    <3> HIDE DEF d, h, b, l
    <3>2. mFreeCount' = d - (h + 1) - (b - 1) /\ l + (h + 1) + (b - 1) <= d BY <3>1
    <3> QED BY <3>1, <3>2
  <2> QED BY <1>1, <1>4, <2>1, <2>2 DEF PlCounts
<1> QED BY <1>3, <1>5, <1>6 DEF PlIInv

(* A constructor has thrown or a destructor is done: the node is free. *)
LEMMA GivenBackKeeps ==
  ASSUME PlIInv, busy # << >>, GiveBack(Last(busy).node), Leave,
         UNCHANGED <<blocks, mAcquiredCount, held>>
  PROVE  PlIInv'
<1> DEFINE x == Last(busy).node
<1>1. freeList' = <<x>> \o freeList /\ mFreeCount' = mFreeCount + 1 BY DEF GiveBack
<1>2. /\ Nodes' = Nodes /\ Capacity_' = Capacity_
      /\ busy' \in Seq(Uses(Nodes)) /\ Len(busy') = Len(busy) - 1 /\ x \in Nodes
      /\ Apart(freeList, held, busy') /\ Fresh(x, freeList, held, busy')
  BY LeaveFacts
<1> HIDE DEF x
<1>3. /\ freeList' \in Seq(Nodes) /\ Len(freeList') = Len(freeList) + 1
      /\ Apart(freeList', held, busy')
  BY <1>1, <1>2, ApartFree DEF PlIInv, PlTypes
<1>4. PlTypes' BY <1>2, <1>3, PoolNumbers DEF PlIInv, PlTypes, Uses
<1>5. PlCounts'
  <2>1. /\ mFreeCount = Capacity_ - Cardinality(held) - Len(busy) /\ mAcquiredCount = Cardinality(held)
        /\ Len(freeList) + Cardinality(held) + Len(busy) <= Capacity_
    BY DEF PlIInv, PlCounts
  <2>2. /\ mFreeCount' = Capacity_ - Cardinality(held) - Len(busy')
        /\ Len(freeList') + Cardinality(held) + Len(busy') <= Capacity_
    <3> DEFINE d == Capacity_
               h == Cardinality(held)
               b == Len(busy)
               l == Len(freeList)
    <3>1. d \in Nat /\ h \in Nat /\ b \in Nat /\ l \in Nat BY PoolNumbers
    <3>2. /\ mFreeCount' = (d - h - b) + 1 /\ Len(freeList') = l + 1 /\ Len(busy') = b - 1
          /\ l + h + b <= d
      BY <1>1, <1>2, <1>3, <2>1
    <3> HIDE DEF d, h, b, l
    <3>3. mFreeCount' = d - h - Len(busy') /\ Len(freeList') + h + Len(busy') <= d BY <3>1, <3>2
    <3> QED BY <3>3 DEF d, h
  <2> QED BY <1>2, <2>1, <2>2 DEF PlCounts
<1> QED BY <1>3, <1>4, <1>5 DEF PlIInv

LEMMA ReleaseObjectKeeps ==
  ASSUME PlIInv, NEW x \in held, ReleaseObject(x)
  PROVE  PlIInv'
<1>1. /\ Len(busy) < MaxBusy /\ mAcquiredCount' = mAcquiredCount - 1 /\ held' = held \ {x}
      /\ busy' = Append(busy, [kind |-> "destroy", node |-> x])
      /\ UNCHANGED <<freeList, mFreeCount, blocks>>
  BY DEF ReleaseObject, Enter
<1>2. Nodes' = Nodes /\ Capacity_' = Capacity_ BY <1>1 DEF Nodes, Capacity_
<1>3. Apart(freeList, held', busy) /\ Fresh(x, freeList, held', busy)
  BY <1>1, ApartHold DEF PlIInv
<1>4. x \in Nodes /\ busy \in Seq(Uses(Nodes)) BY NodesGrow DEF PlIInv, PlTypes
<1>5. busy' \in Seq(Uses(Nodes)) /\ Len(busy') = Len(busy) + 1 /\ Apart(freeList, held', busy')
  <2> DEFINE u == [kind |-> "destroy", node |-> x]
  <2>1. u \in Uses(Nodes) /\ u.node = x /\ busy' = Append(busy, u) BY <1>1, <1>4 DEF Uses
  <2>2. Fresh(u.node, freeList, held', busy) BY <1>3, <2>1
  <2> HIDE DEF u
  <2> QED BY <1>3, <1>4, <2>1, <2>2, ApartEnter
<1>6. Cardinality(held') = Cardinality(held) - 1 BY <1>1, PoolNumbers, FS_RemoveElement
<1>7. PlTypes' BY <1>1, <1>2, <1>5, PoolNumbers DEF PlIInv, PlTypes, Uses
<1>8. PlCounts'
  <2>1. /\ mFreeCount = Capacity_ - Cardinality(held) - Len(busy) /\ mAcquiredCount = Cardinality(held)
        /\ Len(freeList) + Cardinality(held) + Len(busy) <= Capacity_
    BY DEF PlIInv, PlCounts
  <2>2. /\ mFreeCount' = Capacity_ - Cardinality(held') - Len(busy')
        /\ Len(freeList') + Cardinality(held') + Len(busy') <= Capacity_
    <3> DEFINE d == Capacity_
               h == Cardinality(held)
               b == Len(busy)
               l == Len(freeList)
    <3>1. d \in Nat /\ h \in Nat /\ b \in Nat /\ l \in Nat BY PoolNumbers
    <3>2. /\ mFreeCount' = d - h - b /\ Len(freeList') = l /\ Len(busy') = b + 1
          /\ Cardinality(held') = h - 1 /\ l + h + b <= d
      BY <1>1, <1>5, <1>6, <2>1
    <3> HIDE DEF d, h, b, l
    <3>3. /\ mFreeCount' = d - Cardinality(held') - Len(busy')
          /\ Len(freeList') + Cardinality(held') + Len(busy') <= d
      BY <3>1, <3>2
    <3> QED BY <3>3 DEF d
  <2>3. mAcquiredCount' = Cardinality(held') BY <1>1, <1>6, <2>1
  <2> QED BY <1>2, <2>2, <2>3 DEF PlCounts
<1> QED BY <1>1, <1>5, <1>7, <1>8 DEF PlIInv

LEMMA ReserveKeeps ==
  ASSUME PlIInv, reserve_blocks
  PROVE  PlIInv'
<1> DEFINE C == Capacity_
           B == BlockSize
           b == blocks + 1
           g == Reverse(BlockNodes(b))
<1>1. /\ B \in Nat \ {0} /\ C \in Nat /\ Nodes = 1 .. C /\ b * B = C + B /\ (b - 1) * BlockSize = C
      /\ busy \in Seq(Uses(Nodes))
  BY NodesGrow, Zenon DEF PlIInv
<1>2. /\ blocks < MaxBlocks /\ freeList' = g \o freeList /\ mFreeCount' = mFreeCount + B /\ blocks' = b
      /\ UNCHANGED <<mAcquiredCount, held, busy>>
  BY DEF reserve_blocks, WithBlock
<1>3. Capacity_' = C + B /\ Nodes' = 1 .. C + B
  <2>1. Capacity_' = b * B BY <1>2 DEF Capacity_
  <2> HIDE DEF C, B, b
  <2>2. Capacity_' = C + B BY <1>1, <2>1
  <2> QED BY <2>2 DEF Nodes
<1> HIDE DEF b, C
<1>4. IsBlock(g, C, BlockSize) BY <1>1, NewBlock
<1> HIDE DEF g
<1>5. freeList \in Seq(Nodes) /\ held \subseteq Nodes /\ Apart(freeList, held, busy)
  BY DEF PlIInv, PlTypes
<1>6. /\ freeList' \in Seq(1 .. C + B) /\ Len(freeList') = Len(freeList) + B
      /\ Apart(freeList', held, busy)
  BY <1>1, <1>2, <1>4, <1>5, ApartGrow
<1>7. held \subseteq Nodes' /\ busy \in Seq(Uses(Nodes'))
  <2>1. Nodes \subseteq Nodes' BY <1>1, <1>3
  <2> QED BY <1>1, <1>5, <2>1, UsesGrow
<1>8. blocks' \in 1 .. MaxBlocks BY <1>2, PoolAssumption DEF PlIInv, PlTypes, b
<1>9. PlTypes' BY <1>2, <1>3, <1>6, <1>7, <1>8 DEF PlIInv, PlTypes, Uses
<1>10. PlCounts'
  <2>1. /\ mFreeCount = C - Cardinality(held) - Len(busy) /\ mAcquiredCount = Cardinality(held)
        /\ Len(freeList) + Cardinality(held) + Len(busy) <= C
    BY DEF PlIInv, PlCounts, C
  <2>2. /\ mFreeCount' = Capacity_' - Cardinality(held) - Len(busy)
        /\ Len(freeList') + Cardinality(held) + Len(busy) <= Capacity_'
    <3> DEFINE h == Cardinality(held)
               n == Len(busy)
               l == Len(freeList)
    <3>1. /\ C \in Nat /\ B \in Nat /\ h \in Nat /\ n \in Nat /\ l \in Nat
          /\ Len(freeList') = l + B /\ Capacity_' = C + B
          /\ mFreeCount' = (C - h - n) + B /\ l + h + n <= C
      BY <1>1, <1>2, <1>3, <1>6, <2>1, PoolNumbers
    <3> HIDE DEF B, h, n, l
    <3>2. mFreeCount' = (C + B) - h - n /\ (l + B) + h + n <= C + B BY <3>1
    <3> QED BY <3>1, <3>2 DEF h, n, l
  <2> QED BY <1>2, <2>1, <2>2 DEF PlCounts
<1> QED BY <1>2, <1>6, <1>9, <1>10 DEF PlIInv

(* Compaction begins when all nodes are free, by the counter. *)
LEMMA AllFree ==
  ASSUME PlIInv, mFreeCount = Capacity_
  PROVE  held = {} /\ busy = << >>
<1>1. Cardinality(held) = 0 /\ Len(busy) = 0 BY PoolNumbers DEF PlIInv, PlCounts
<1>2. held = {} BY <1>1, PoolNumbers, FS_EmptySet
<1>3. busy = << >> BY <1>1, EmptySeq DEF PlIInv, PlTypes
<1> QED BY <1>2, <1>3

(* The blocks in whatever order: each node once. *)
LEMMA CompactNodes ==
  ASSUME NEW B \in Nat \ {0}, NEW m \in Nat, NEW order \in [1 .. m -> 1 .. m],
         \A i, j \in 1 .. m : i # j => order[i] # order[j]
  PROVE  LET node(n) == (order[((n - 1) \div B) + 1] - 1) * B + (((n - 1) % B) + 1)
         IN  /\ \A n \in 1 .. m * B : /\ node(n) \in 1 .. m * B
                                      /\ ((n - 1) \div B) + 1 \in 1 .. m /\ ((n - 1) % B) + 1 \in 1 .. B
             /\ \A n, k \in 1 .. m * B : node(n) = node(k) => n = k
<1>1. ASSUME NEW n \in 1 .. m * B
      PROVE  LET q == (n - 1) \div B
                 r == (n - 1) % B
             IN  q \in 0 .. m - 1 /\ r \in 0 .. B - 1 /\ n - 1 = B * q + r
  <2> DEFINE q == (n - 1) \div B
             r == (n - 1) % B
  <2>1. m * B \in Nat /\ n - 1 \in Nat BY Z3
  <2>2. q \in Nat /\ r \in 0 .. B - 1 /\ n - 1 = B * q + r BY <2>1, DivMod
  <2> HIDE DEF q, r
  <2>3. q <= m - 1
    <3> SUFFICES ASSUME ~(q <= m - 1) PROVE FALSE OBVIOUS
    <3>1. q >= m BY <2>2
    <3>2. B * q >= m * B BY <2>2, <3>1, Z3
    <3> QED BY <2>1, <2>2, <3>2
  <2> QED BY <2>2, <2>3 DEF q, r
<1>2. ASSUME NEW o \in 1 .. m, NEW r \in 0 .. B - 1
      PROVE  (o - 1) * B + (r + 1) \in 1 .. m * B
  <2>1. (o - 1) * B >= 0 /\ (o - 1) * B + B <= m * B /\ (o - 1) * B \in Int /\ m * B \in Int BY Z3
  <2> QED BY <2>1
<1>3. ASSUME NEW o \in 1 .. m, NEW p \in 1 .. m, NEW r \in 0 .. B - 1, NEW s \in 0 .. B - 1,
             (o - 1) * B + (r + 1) = (p - 1) * B + (s + 1)
      PROVE  o = p /\ r = s
  <2>1. (o - 1) * B \in Int /\ (p - 1) * B \in Int /\ (o - p) * B = (o - 1) * B - (p - 1) * B BY Z3
  <2>2. (o - p) * B = s - r BY <1>3, <2>1
  <2>3. CASE o - p >= 1
    <3>1. (o - p) * B >= B BY <2>3, Z3
    <3> QED BY <2>2, <3>1
  <2>4. CASE o - p <= -1
    <3>1. (o - p) * B <= -B BY <2>4, Z3
    <3> QED BY <2>2, <3>1
  <2>5. CASE o - p = 0
    <3>1. (o - p) * B = 0 BY <2>5
    <3> QED BY <2>2, <2>5, <3>1
  <2> QED BY <2>3, <2>4, <2>5
<1> DEFINE Q(n) == (n - 1) \div B
           R(n) == (n - 1) % B
<1>4. \A n \in 1 .. m * B : Q(n) \in 0 .. m - 1 /\ R(n) \in 0 .. B - 1 /\ n - 1 = B * Q(n) + R(n)
  BY <1>1
<1> HIDE DEF Q, R
<1>5. \A n \in 1 .. m * B : /\ Q(n) + 1 \in 1 .. m /\ order[Q(n) + 1] \in 1 .. m /\ R(n) + 1 \in 1 .. B
                            /\ (order[Q(n) + 1] - 1) * B + (R(n) + 1) \in 1 .. m * B
  <2> SUFFICES ASSUME NEW n \in 1 .. m * B
               PROVE  /\ Q(n) + 1 \in 1 .. m /\ order[Q(n) + 1] \in 1 .. m /\ R(n) + 1 \in 1 .. B
                      /\ (order[Q(n) + 1] - 1) * B + (R(n) + 1) \in 1 .. m * B
    OBVIOUS
  <2>1. Q(n) \in 0 .. m - 1 /\ R(n) \in 0 .. B - 1 BY <1>4
  <2>2. Q(n) + 1 \in 1 .. m /\ R(n) + 1 \in 1 .. B BY <2>1
  <2>3. order[Q(n) + 1] \in 1 .. m BY <2>2
  <2> QED BY <1>2, <2>1, <2>2, <2>3
<1>6. ASSUME NEW n \in 1 .. m * B, NEW k \in 1 .. m * B,
             (order[Q(n) + 1] - 1) * B + (R(n) + 1) = (order[Q(k) + 1] - 1) * B + (R(k) + 1)
      PROVE  n = k
  <2> DEFINE o == order[Q(n) + 1]
             p == order[Q(k) + 1]
             r == R(n)
             s == R(k)
  <2>0. /\ o \in 1 .. m /\ p \in 1 .. m /\ r \in 0 .. B - 1 /\ s \in 0 .. B - 1
        /\ (o - 1) * B + (r + 1) = (p - 1) * B + (s + 1)
    BY <1>4, <1>5, <1>6, Zenon
  <2> HIDE DEF o, p, r, s
  <2>1a. o = p /\ r = s BY <1>3, <2>0
  <2>1. order[Q(n) + 1] = order[Q(k) + 1] /\ R(n) = R(k) BY <2>1a DEF o, p, r, s
  <2>2. Q(n) + 1 = Q(k) + 1 BY <1>5, <2>1
  <2>3. Q(n) = Q(k) BY <1>4, <2>2
  <2>4. n - 1 = k - 1 BY <1>4, <2>1, <2>3
  <2> QED BY <2>4
<1> QED BY <1>5, <1>6 DEF Q, R

LEMMA CompactKeeps ==
  ASSUME PlIInv
  PROVE  /\ \A order \in SetToSeqs(1 .. blocks) : try_compact_free_list(order) => PlIInv'
         /\ CompactThrows => PlIInv'
<1>1. ASSUME mFreeCount = Capacity_, UNCHANGED <<mFreeCount, blocks, mAcquiredCount, held, busy>>,
             freeList' \in Seq(Nodes), Len(freeList') <= Capacity_,
             \A i, j \in 1 .. Len(freeList') : freeList'[i] = freeList'[j] => i = j
      PROVE  PlIInv'
  <2>1. held = {} /\ busy = << >> BY <1>1, AllFree
  <2>2. Nodes' = Nodes /\ Capacity_' = Capacity_ BY <1>1 DEF Nodes, Capacity_
  <2>3. Len(busy) = 0 /\ Cardinality(held) = 0 BY <2>1, EmptySeq, FS_EmptySet
  <2>4. Apart(freeList', held', busy') BY <1>1, <2>1, <2>3 DEF Apart
  <2>5. PlTypes' BY <1>1, <2>2 DEF PlIInv, PlTypes
  <2>6. Len(freeList') \in Nat BY <1>1, LenProperties
  <2>7. PlCounts' BY <1>1, <2>2, <2>3, <2>6, PoolNumbers DEF PlIInv, PlCounts
  <2> QED BY <2>4, <2>5, <2>7 DEF PlIInv
<1>2. ASSUME CompactThrows PROVE PlIInv'
  <2>1. freeList' = << >> BY <1>2 DEF CompactThrows
  <2>2. freeList' \in Seq(Nodes) /\ Len(freeList') = 0 BY <2>1, EmptySeq
  <2>3. 1 .. Len(freeList') = {} BY <2>2
  <2> QED BY <1>1, <1>2, <2>2, <2>3, PoolNumbers DEF CompactThrows
<1>3. ASSUME NEW order \in SetToSeqs(1 .. blocks), try_compact_free_list(order) PROVE PlIInv'
  <2> DEFINE B == BlockSize
             m == blocks
             node(n) == (order[((n - 1) \div B) + 1] - 1) * B + (((n - 1) % B) + 1)
  <2>1. B \in Nat \ {0} /\ m \in Nat /\ Capacity_ = m * B /\ Nodes = 1 .. m * B /\ m * B \in Nat
    BY PoolNumbers DEF Nodes, Capacity_
  <2>2. order \in [1 .. m -> 1 .. m] /\ \A i, j \in 1 .. m : i # j => order[i] # order[j]
    <3>1. Cardinality(1 .. m) = m BY <2>1, FS_Interval
    <3> QED BY <3>1 DEF SetToSeqs
  <2>3. freeList' = [n \in 1 .. m * B |->
                       BlockNodes(order[((n - 1) \div B) + 1])[((n - 1) % B) + 1]]
    BY <1>3 DEF try_compact_free_list, Capacity_
  <2> HIDE DEF m
  <2>4. /\ \A n \in 1 .. m * B : /\ node(n) \in 1 .. m * B
                                 /\ ((n - 1) \div B) + 1 \in 1 .. m /\ ((n - 1) % B) + 1 \in 1 .. B
        /\ \A n, k \in 1 .. m * B : node(n) = node(k) => n = k
    BY <2>1, <2>2, CompactNodes
  <2>5. \A o : \A i \in 1 .. B : BlockNodes(o)[i] = (o - 1) * B + i BY DEF BlockNodes
  <2>6. \A n \in 1 .. m * B : freeList'[n] = node(n) BY <2>3, <2>4, <2>5
  <2> HIDE DEF node
  <2>7. freeList' \in [1 .. m * B -> 1 .. m * B] BY <2>3, <2>4, <2>6
  <2>8. freeList' \in Seq(Nodes) /\ Len(freeList') = m * B BY <2>1, <2>7, SeqDef
  <2>9. \A i, j \in 1 .. Len(freeList') : freeList'[i] = freeList'[j] => i = j
    BY <2>4, <2>6, <2>8
  <2> QED BY <1>1, <1>3, <2>1, <2>8, <2>9 DEF try_compact_free_list
<1> QED BY <1>2, <1>3

LEMMA PlInitInv == PoolInit => PlIInv
<1> SUFFICES ASSUME PoolInit PROVE PlIInv OBVIOUS
<1> DEFINE g == Reverse(BlockNodes(1))
           B == BlockSize
<1>1. B \in Nat \ {0} /\ MaxBlocks \in Nat \ {0} /\ MaxBusy \in Nat BY PoolAssumption
<1>2. /\ blocks = 1 /\ freeList = g /\ mFreeCount = B /\ mAcquiredCount = 0
      /\ held = {} /\ busy = << >>
  BY DEF PoolInit
<1>3. Capacity_ = B /\ Nodes = 1 .. B BY <1>1, <1>2 DEF Capacity_, Nodes
<1>4. IsBlock(g, 0, BlockSize)
  <2>1. (1 - 1) * BlockSize = 0 BY <1>1
  <2> QED BY <2>1, NewBlock
<1> HIDE DEF g
<1>5. g \in Seq(1 .. B) /\ Len(g) = B /\ \A i \in 1 .. B : g[i] = 0 + B + 1 - i
  <2>1. 0 + B = B BY <1>1
  <2> QED BY <1>4, <2>1 DEF IsBlock
<1>6. Len(busy) = 0 /\ Cardinality(held) = 0 BY <1>2, EmptySeq, FS_EmptySet
<1>7. \A i, j \in 1 .. B : g[i] = g[j] => i = j
  <2> SUFFICES ASSUME NEW i \in 1 .. B, NEW j \in 1 .. B, g[i] = g[j] PROVE i = j OBVIOUS
  <2>1. 0 + B + 1 - i = 0 + B + 1 - j BY <1>5
  <2> QED BY <1>1, <2>1
<1>8. Apart(freeList, held, busy) BY <1>2, <1>5, <1>6, <1>7 DEF Apart
<1>9. PlTypes
  <2>1. << >> \in Seq([kind : {"construct", "destroy"}, node : Nodes]) OBVIOUS
  <2> QED BY <1>1, <1>2, <1>3, <1>5, <1>6, <2>1 DEF PlTypes
<1>10. PlCounts
  <2> HIDE DEF B
  <2>1. Len(freeList) = B BY <1>2, <1>5
  <2>2. B = B - 0 - 0 /\ B + 0 + 0 <= B BY <1>1
  <2> QED BY <1>2, <1>3, <1>6, <2>1, <2>2 DEF PlCounts
<1> QED BY <1>8, <1>9, <1>10 DEF PlIInv

LEMMA PlStepKeeps == PlIInv /\ [PoolNext]_poolVars => PlIInv'
<1> SUFFICES ASSUME PlIInv, [PoolNext]_poolVars PROVE PlIInv' OBVIOUS
<1>1. CASE \E mayGrow \in BOOLEAN : AcquireNode(mayGrow) BY <1>1, AcquireKeeps
<1>2. CASE AcquireRaw BY <1>2, AcquireKeeps
<1>3. CASE Constructed BY <1>3, ConstructedKeeps
<1>4. CASE ConstructorThrows BY <1>4, GivenBackKeeps DEF ConstructorThrows
<1>5. CASE Destroyed BY <1>5, GivenBackKeeps DEF Destroyed
<1>6. CASE \E node \in held : ReleaseObject(node) BY <1>6, ReleaseObjectKeeps
<1>7. CASE reserve_blocks BY <1>7, ReserveKeeps
<1>8. CASE CompactThrows BY <1>8, CompactKeeps
<1>9. CASE \E order \in SetToSeqs(1 .. blocks) : try_compact_free_list(order) BY <1>9, CompactKeeps
<1>10. CASE UNCHANGED poolVars
  <2>1. UNCHANGED <<freeList, mFreeCount, blocks, mAcquiredCount, held, busy>> BY <1>10 DEF poolVars
  <2>2. PlTypes' BY <2>1 DEF PlIInv, PlTypes, Nodes, Capacity_
  <2>3. PlCounts' BY <2>1 DEF PlIInv, PlCounts, Capacity_
  <2> QED BY <2>1, <2>2, <2>3 DEF PlIInv
<1> QED BY <1>1, <1>2, <1>3, <1>4, <1>5, <1>6, <1>7, <1>8, <1>9, <1>10 DEF PoolNext

(* While no compaction has failed, what is counted free is on the list. *)
PlListed == cut \in BOOLEAN /\ (cut \/ Len(freeList) = mFreeCount)

LEMMA PlListedInit == PoolInit => PlListed
<1> SUFFICES ASSUME PoolInit PROVE PlListed OBVIOUS
<1>1. BlockSize \in Nat /\ (1 - 1) * BlockSize = 0 BY PoolAssumption
<1>2. IsBlock(Reverse(BlockNodes(1)), 0, BlockSize) BY <1>1, NewBlock
<1> QED BY <1>2 DEF IsBlock, PoolInit, PlListed

LEMMA PlListedKeeps == PlIInv /\ PlListed /\ [PoolNext]_poolVars => PlListed'
<1> SUFFICES ASSUME PlIInv, PlListed, [PoolNext]_poolVars PROVE PlListed' OBVIOUS
<1>0. Len(freeList) \in Nat /\ mFreeCount \in Int /\ Capacity_ \in Nat
  BY PoolNumbers DEF PlIInv, PlCounts
<1>1. ASSUME NEW mayGrow, TakeNode(mayGrow), UNCHANGED cut PROVE PlListed'
  <2>1. /\ mFreeCount' = mFreeCount + Capacity_' - Capacity_ - 1 /\ Capacity_' \in Nat
        /\ Len(freeList') = Len(freeList) + Capacity_' - Capacity_ - 1
    BY <1>1, TakeFacts
  <2> QED BY <1>0, <1>1, <2>1 DEF PlListed
<1>2. ASSUME NEW node, GiveBack(node), UNCHANGED cut PROVE PlListed'
  <2>1. freeList \in Seq(Nodes \cup {node})
    <3>1. freeList \in Seq(Nodes) BY DEF PlIInv, PlTypes
    <3> QED BY <3>1, UsesGrow
  <2>2. <<node>> \in Seq(Nodes \cup {node}) /\ Len(<<node>>) = 1 OBVIOUS
  <2>3. Len(freeList') = 1 + Len(freeList) /\ mFreeCount' = mFreeCount + 1
    BY <1>2, <2>1, <2>2, ConcatProperties DEF GiveBack
  <2> QED BY <1>0, <1>2, <2>3 DEF PlListed
<1>3. CASE \E mayGrow \in BOOLEAN : AcquireNode(mayGrow) BY <1>1, <1>3 DEF AcquireNode
<1>4. CASE AcquireRaw BY <1>1, <1>4 DEF AcquireRaw
<1>5. CASE Constructed BY <1>5 DEF Constructed, PlListed
<1>6. CASE ConstructorThrows BY <1>2, <1>6 DEF ConstructorThrows
<1>7. CASE Destroyed BY <1>2, <1>7 DEF Destroyed
<1>8. CASE \E node \in held : ReleaseObject(node) BY <1>8 DEF ReleaseObject, PlListed
<1>9. CASE reserve_blocks
  <2> DEFINE b == blocks + 1
             g == Reverse(BlockNodes(b))
             S == 1 .. Capacity_ + BlockSize
  <2>1. Capacity_ \in Nat /\ (b - 1) * BlockSize = Capacity_ /\ BlockSize \in Nat
    BY NodesGrow, Zenon DEF PlIInv
  <2>2. freeList' = g \o freeList /\ mFreeCount' = mFreeCount + BlockSize /\ cut' = cut
    BY <1>9 DEF reserve_blocks, WithBlock
  <2> HIDE DEF b
  <2>3. g \in Seq(S) /\ Len(g) = BlockSize BY <2>1, NewBlock DEF IsBlock
  <2> HIDE DEF g
  <2>4. freeList \in Seq(S)
    <3>1. freeList \in Seq(Nodes) /\ Nodes = 1 .. Capacity_ BY NodesGrow DEF PlIInv, PlTypes
    <3>2. Nodes \subseteq S BY <2>1, <3>1
    <3> QED BY <3>1, <3>2, UsesGrow
  <2>5. Len(freeList') = BlockSize + Len(freeList) BY <2>2, <2>3, <2>4, ConcatProperties
  <2> HIDE DEF S
  <2>6. cut' \in BOOLEAN BY <2>2 DEF PlListed
  <2>7. CASE cut BY <2>2, <2>6, <2>7 DEF PlListed
  <2>8. CASE ~cut
    <3>1. Len(freeList) = mFreeCount BY <2>8 DEF PlListed
    <3>2. Len(freeList') = mFreeCount' BY <1>0, <2>1, <2>2, <2>5, <3>1
    <3> QED BY <2>6, <3>2 DEF PlListed
  <2> QED BY <2>7, <2>8
<1>10. CASE CompactThrows BY <1>10 DEF CompactThrows, PlListed
<1>11. ASSUME NEW order \in SetToSeqs(1 .. blocks), try_compact_free_list(order) PROVE PlListed'
  <2>1. DOMAIN freeList' = 1 .. Capacity_ /\ mFreeCount' = Capacity_ /\ cut' = FALSE
    BY <1>11 DEF try_compact_free_list
  <2>2. freeList' \in Seq(Nodes') BY <1>11, CompactKeeps DEF PlIInv, PlTypes
  <2>3. Len(freeList') \in Nat /\ DOMAIN freeList' = 1 .. Len(freeList') BY <2>2, LenProperties
  <2>4. Len(freeList') = Capacity_
    <3> DEFINE l == Len(freeList')
               c == Capacity_
    <3>1. l \in Nat /\ c \in Nat /\ 1 .. l = 1 .. c BY <1>0, <2>1, <2>3
    <3> HIDE DEF l, c
    <3>2. Cardinality(1 .. l) = l /\ Cardinality(1 .. c) = c BY <3>1, FS_Interval
    <3>3. l = c BY <3>1, <3>2, Zenon
    <3> QED BY <3>3 DEF l, c
  <2> QED BY <2>1, <2>4 DEF PlListed
<1>12. CASE \E order \in SetToSeqs(1 .. blocks) : try_compact_free_list(order) BY <1>11, <1>12
<1>13. CASE UNCHANGED poolVars BY <1>13 DEF poolVars, PlListed
<1> QED BY <1>3, <1>4, <1>5, <1>6, <1>7, <1>8, <1>9, <1>10, <1>12, <1>13 DEF PoolNext

(* The invariant holds for every block size and however deep constructors  *)
(* and destructors that use the pool are nested.                            *)
THEOREM PoolInductive == PoolSpec => [](PlIInv /\ PlListed)
<1>1. PoolInit => PlIInv /\ PlListed BY PlInitInv, PlListedInit
<1>2. (PlIInv /\ PlListed) /\ [PoolNext]_poolVars => (PlIInv /\ PlListed)'
  BY PlStepKeeps, PlListedKeeps
<1> QED BY <1>1, <1>2, PTL DEF PoolSpec

(* A node is free, held or busy and never two of these, and the counters   *)
(* count the users and, unless a compaction has failed, the free list,      *)
(* though T's code calls back into the pool.                                *)
THEOREM PoolSound == PoolSpec => []PoolIsSound
<1>1. PlIInv /\ PlListed => PoolIsSound
  <2> SUFFICES ASSUME PlIInv, PlListed PROVE PoolIsSound OBVIOUS
  <2>1. Apart(freeList, held, busy) /\ freeList \in Seq(Nodes) BY DEF PlIInv, PlTypes
  <2>2. IsInjective(freeList)
    <3>1. DOMAIN freeList = 1 .. Len(freeList) BY <2>1
    <3> QED BY <2>1, <3>1 DEF IsInjective, Apart
  <2>3. \A i, j \in 1 .. Len(busy) : i # j => busy[i].node # busy[j].node BY <2>1 DEF Apart
  <2>4. held \cap BusyNodes = {} BY <2>1 DEF Apart, BusyNodes
  <2>5. ToSet(freeList) \cap (held \cup BusyNodes) = {}
    <3>1. DOMAIN freeList = 1 .. Len(freeList) BY <2>1
    <3>2. \A y \in ToSet(freeList) : \E i \in 1 .. Len(freeList) : y = freeList[i]
      BY <3>1 DEF ToSet
    <3> QED BY <2>1, <3>2 DEF Apart, BusyNodes
  <2>6. CountersAddUp BY DEF PlIInv, PlCounts, PlListed, CountersAddUp
  <2> QED BY <2>2, <2>3, <2>4, <2>5, <2>6 DEF PoolIsSound, OneUserPerNode
<1> QED BY <1>1, PoolInductive, PTL

(* The pool's state keeps its type; in particular no counter wraps below   *)
(* zero.                                                                    *)
THEOREM PoolTypes == PoolSpec => []PoolTypeOK
<1>1. PlIInv /\ PlListed => PoolTypeOK
  <2> SUFFICES ASSUME PlIInv, PlListed PROVE PoolTypeOK OBVIOUS
  <2>1. mFreeCount \in 0 .. Capacity_ /\ mAcquiredCount \in 0 .. Capacity_
    <3> DEFINE c == Capacity_
               h == Cardinality(held)
               b == Len(busy)
               l == Len(freeList)
    <3>1. /\ c \in Nat /\ h \in Nat /\ b \in Nat /\ l \in Nat /\ l + h + b <= c
          /\ mFreeCount = c - h - b /\ mAcquiredCount = h
      BY PoolNumbers DEF PlIInv, PlCounts
    <3> HIDE DEF c, h, b, l
    <3>2. mFreeCount \in 0 .. c /\ mAcquiredCount \in 0 .. c BY <3>1
    <3> QED BY <3>2 DEF c
  <2>2. BusyNodes \subseteq Nodes
    <3>1. busy \in Seq(Uses(Nodes)) BY NodesGrow DEF PlIInv
    <3>2. \A i \in 1 .. Len(busy) : busy[i] \in Uses(Nodes) BY <3>1, ElementOfSeq
    <3> QED BY <3>2 DEF BusyNodes, Uses
  <2> QED BY <2>1, <2>2 DEF PlIInv, PlTypes, PlListed, PoolTypeOK
<1> QED BY <1>1, PoolInductive, PTL

-----------------------------------------------------------------------------
(* SlotMap: the inductive invariant. *)

SlotRecord == [generation : 0 .. GenModulus - 1, data_index : 0 .. MaxSlots - 1 \cup {kNoIndex}]
Handle == [index : Nat, generation : Nat]
Indices == 0 .. Len(mSlots) - 1

SmTypes ==
  /\ mSlots \in Seq(SlotRecord) /\ Len(mSlots) <= MaxSlots
  /\ mData \in Seq(1 .. MaxChanges) /\ issued \in Seq(Handle)
  /\ changes \in 0 .. MaxChanges /\ Len(issued) <= changes

(* The sequence q has each element of S, and has it once. *)
Lists(q, S) ==
  /\ q \in Seq(S)
  /\ \A i, j \in 1 .. Len(q) : q[i] = q[j] => i = j
  /\ \A x \in S : \E i \in 1 .. Len(q) : q[i] = x

FilledSlots == {mEraseMap[d] : d \in 1 .. Len(mEraseMap)}

(* A slot in use knows its place in the array and does not look free.  All *)
(* the others are on the free list, whatever they look like.                *)
SmMaps ==
  /\ Len(mEraseMap) = Len(mData) /\ FilledSlots \subseteq Indices
  /\ Lists(mEraseMap, FilledSlots) /\ Lists(mFreeList, Indices \ FilledSlots)
  /\ \A d \in 1 .. Len(mData) : /\ mSlots[mEraseMap[d] + 1].data_index = d - 1
                                /\ mSlots[mEraseMap[d] + 1].generation # 0

(* Generations only grow, by at most one in a call. *)
GenerationsBounded == \A i \in 1 .. Len(mSlots) : mSlots[i].generation <= changes

SmHandles ==
  /\ live \subseteq 1 .. Len(issued) /\ Lists(mData, live)
  /\ \A n \in 1 .. Len(issued) :
       /\ issued[n].index \in Indices
       /\ n \notin live => issued[n].generation < mSlots[issued[n].index + 1].generation
  /\ \A d \in 1 .. Len(mData) :
       /\ issued[mData[d]].index = mEraseMap[d]
       /\ issued[mData[d]].generation = mSlots[mEraseMap[d] + 1].generation

(* A generation that wraps makes a stale handle valid, and erasing it puts *)
(* a free slot on the free list again.  Before that:                        *)
NoWrap == MaxChanges < GenModulus

SmIInv == SmTypes /\ SmMaps /\ GenerationsBounded /\ SmHandles

(* Lists that grow and shrink. *)
LEMMA ListsAppend ==
  ASSUME NEW S, NEW q, Lists(q, S), NEW x, x \notin S
  PROVE  /\ Lists(Append(q, x), S \cup {x}) /\ Len(Append(q, x)) = Len(q) + 1
         /\ Append(q, x)[Len(q) + 1] = x /\ \A i \in 1 .. Len(q) : Append(q, x)[i] = q[i]
<1> DEFINE T == S \cup {x}
           r == Append(q, x)
           n == Len(q)
<1>1. q \in Seq(S) /\ n \in Nat BY LenProperties DEF Lists
<1>2. q \in Seq(T) BY <1>1, SeqMonotonic
<1>3. /\ r \in Seq(T) /\ Len(r) = n + 1 /\ r[n + 1] = x /\ \A i \in 1 .. n : r[i] = q[i]
  BY <1>1, <1>2, AppendProperties
<1>4. \A i \in 1 .. n : q[i] \in S BY <1>1, ElementOfSeq
<1>5. \A i \in 1 .. n + 1 : i = n + 1 \/ i \in 1 .. n BY <1>1
<1>6. \A i \in 1 .. n : i \in 1 .. n + 1 /\ n + 1 \in 1 .. n + 1 BY <1>1
<1>6a. n + 1 \in 1 .. n + 1 BY <1>1
<1> HIDE DEF r, n
<1>7. \A i, j \in 1 .. n + 1 : r[i] = r[j] => i = j
  <2>1. \A i, j \in 1 .. n : q[i] = q[j] => i = j BY DEF Lists, n
  <2> QED BY <1>3, <1>4, <1>5, <2>1
<1>8. \A y \in T : \E i \in 1 .. n + 1 : r[i] = y
  <2>1. \A y \in S : \E i \in 1 .. n : q[i] = y BY DEF Lists, n
  <2> QED BY <1>3, <1>6, <1>6a, <2>1
<1>9. Lists(r, T) BY <1>3, <1>7, <1>8 DEF Lists
<1> QED BY <1>3, <1>9 DEF r, n

(* r is q without its k-th, in an order that p tells. *)
DropsAt(q, r, k, p) ==
  /\ p \in [1 .. Len(r) -> 1 .. Len(q)]
  /\ \A i \in 1 .. Len(r) : r[i] = q[p[i]] /\ p[i] # k
  /\ \A i, j \in 1 .. Len(r) : p[i] = p[j] => i = j
  /\ \A m \in 1 .. Len(q) : m # k => \E i \in 1 .. Len(r) : p[i] = m

LEMMA ListsDrop ==
  ASSUME NEW S, NEW q, Lists(q, S), NEW k \in 1 .. Len(q), NEW r \in Seq(S),
         NEW p, DropsAt(q, r, k, p)
  PROVE  Lists(r, S \ {q[k]})
<1> DEFINE n == Len(q)
           m == Len(r)
<1>1. q \in Seq(S) /\ \A i, j \in 1 .. n : q[i] = q[j] => i = j BY DEF Lists
<1>2. \A y \in S : \E i \in 1 .. n : q[i] = y BY DEF Lists
<1>2a. /\ p \in [1 .. m -> 1 .. n] /\ k \in 1 .. n
       /\ \A i \in 1 .. m : r[i] = q[p[i]] /\ p[i] # k
       /\ \A i, j \in 1 .. m : p[i] = p[j] => i = j
       /\ \A i \in 1 .. n : i # k => \E j \in 1 .. m : p[j] = i
  BY DEF DropsAt
<1>3. \A i \in 1 .. m : r[i] \in S BY ElementOfSeq
<1> HIDE DEF n
<1>4. \A i \in 1 .. m : r[i] # q[k] BY <1>1, <1>2a
<1>5. r \in Seq(S \ {q[k]})
  <2>1. m \in Nat /\ r \in [1 .. m -> S] BY LenProperties
  <2>2. r \in [1 .. m -> S \ {q[k]}] BY <1>4, <2>1
  <2> QED BY <2>1, <2>2, SeqDef
<1>6. ASSUME NEW i \in 1 .. m, NEW j \in 1 .. m, r[i] = r[j] PROVE i = j
  <2>1. p[i] \in 1 .. n /\ p[j] \in 1 .. n BY <1>2a
  <2>2. r[i] = q[p[i]] /\ r[j] = q[p[j]] BY <1>2a
  <2>3. p[i] = p[j] BY <1>1, <1>6, <2>1, <2>2
  <2> QED BY <1>2a, <2>3
<1>7. \A y \in S \ {q[k]} : \E i \in 1 .. m : r[i] = y
  <2> SUFFICES ASSUME NEW y \in S \ {q[k]} PROVE \E i \in 1 .. m : r[i] = y OBVIOUS
  <2>1. PICK j \in 1 .. n : q[j] = y BY <1>2
  <2>2. PICK i \in 1 .. m : p[i] = j BY <1>2a, <2>1
  <2> QED BY <1>2a, <2>1, <2>2
<1> QED BY <1>5, <1>6, <1>7 DEF Lists

LEMMA ListsFront ==
  ASSUME NEW S, NEW q, Lists(q, S), q # << >>
  PROVE  /\ Last(q) \in S /\ Len(q) \in Nat \ {0} /\ Last(q) = q[Len(q)]
         /\ Lists(Front(q), S \ {Last(q)})
         /\ Len(Front(q)) = Len(q) - 1 /\ \A i \in 1 .. Len(q) - 1 : Front(q)[i] = q[i]
<1> DEFINE n == Len(q)
           r == Front(q)
<1>1. q \in Seq(S) /\ n \in Nat \ {0} BY EmptySeq, LenProperties DEF Lists
<1>2. /\ r \in Seq(S) /\ Len(r) = n - 1 /\ \A i \in 1 .. n - 1 : r[i] = q[i]
  <2>1. \A i \in 1 .. n - 1 : q[i] \in S BY <1>1, ElementOfSeq
  <2>2. 1 \in Int /\ n - 1 \in Int /\ n - 1 >= 0 BY <1>1
  <2> HIDE DEF n
  <2>3. LET s == SubSeq(q, 1, n - 1)
        IN  s \in Seq(S) /\ Len(s) = n - 1 /\ \A i \in 1 .. n - 1 : s[i] = q[i]
    BY <2>1, <2>2, SubSeqProperties
  <2> QED BY <2>3 DEF Front, n
<1>3. Last(q) = q[n] /\ n \in 1 .. n BY <1>1 DEF Last
<1>4. q[n] \in S BY <1>1, <1>3, ElementOfSeq
<1> HIDE DEF n, r
<1> DEFINE p == [i \in 1 .. n - 1 |-> i]
<1>5. Lists(r, S \ {q[n]})
  <2>1. p \in [1 .. n - 1 -> 1 .. n] /\ \A i \in 1 .. n - 1 : p[i] # n /\ r[i] = q[p[i]]
    BY <1>1, <1>2
  <2>2. \A i, j \in 1 .. n - 1 : p[i] = p[j] => i = j OBVIOUS
  <2>3. \A m \in 1 .. n : m # n => m \in 1 .. n - 1 /\ p[m] = m BY <1>1
  <2> HIDE DEF p
  <2>4. \A m \in 1 .. n : m # n => \E i \in 1 .. n - 1 : p[i] = m BY <2>3
  <2>5. DropsAt(q, r, n, p) BY <1>2, <2>1, <2>2, <2>4 DEF DropsAt, n
  <2> QED BY <1>2, <1>3, <2>5, ListsDrop DEF n
<1> QED BY <1>1, <1>2, <1>3, <1>4, <1>5 DEF n, r

LEMMA ListsRemove ==
  ASSUME NEW S, NEW q, Lists(q, S), NEW x \in S
  PROVE  Lists(RemoveFirst(q, x), S \ {x})
<1> DEFINE n == Len(q)
           r == RemoveFirst(q, x)
<1>1. q \in Seq(S) /\ n \in Nat BY LenProperties DEF Lists
<1>2. PICK k \in 1 .. n : q[k] = x BY DEF Lists
<1>3. {i \in 1 .. n : q[i] = x} = {k} BY <1>2 DEF Lists
<1>4. Min({k}) = k BY DEF Min
<1>5. SelectInSeq(q, LAMBDA v : v = x) = k BY <1>3, <1>4 DEF SelectInSeq
<1>6. r = SubSeq(q, 1, k - 1) \o SubSeq(q, k + 1, n) BY <1>2, <1>5 DEF RemoveFirst, RemoveAt
<1> HIDE DEF n, r
<1>7. LET s == SubSeq(q, 1, k - 1)
      IN  s \in Seq(S) /\ Len(s) = k - 1 /\ \A i \in 1 .. k - 1 : s[i] = q[i]
  <2>1. \A i \in 1 .. k - 1 : i \in 1 .. n BY <1>1
  <2>2. \A i \in 1 .. k - 1 : q[i] \in S BY <1>1, <2>1, ElementOfSeq DEF n
  <2>3. 1 \in Int /\ k - 1 \in Int /\ k - 1 >= 0 BY <1>1
  <2> QED BY <2>2, <2>3, SubSeqProperties
<1>8. LET s == SubSeq(q, k + 1, n)
      IN  s \in Seq(S) /\ Len(s) = n - k /\ \A i \in 1 .. n - k : s[i] = q[i + k]
  <2>1. \A i \in k + 1 .. n : i \in 1 .. n BY <1>1
  <2>2. \A i \in k + 1 .. n : q[i] \in S BY <1>1, <2>1, ElementOfSeq DEF n
  <2>3. k + 1 \in Int /\ n \in Int /\ k + 1 <= n + 1 BY <1>1
  <2>4. LET s == SubSeq(q, k + 1, n)
        IN  s \in Seq(S) /\ Len(s) = (IF k + 1 <= n THEN n - (k + 1) + 1 ELSE 0)
            /\ \A i \in 1 .. n - (k + 1) + 1 : s[i] = q[k + 1 + i - 1]
    BY <2>2, <2>3, SubSeqProperties
  <2> QED BY <1>1, <2>4
<1>9. /\ r \in Seq(S) /\ Len(r) = n - 1
      /\ \A i \in 1 .. n - 1 : r[i] = IF i < k THEN q[i] ELSE q[i + 1]
  <2> DEFINE a == SubSeq(q, 1, k - 1)
             b == SubSeq(q, k + 1, n)
  <2>1. /\ a \in Seq(S) /\ b \in Seq(S) /\ Len(a) = k - 1 /\ Len(b) = n - k
        /\ \A i \in 1 .. k - 1 : a[i] = q[i]
        /\ \A i \in 1 .. n - k : b[i] = q[i + k]
    BY <1>7, <1>8
  <2> HIDE DEF a, b
  <2>2. /\ a \o b \in Seq(S) /\ Len(a \o b) = Len(a) + Len(b)
        /\ \A i \in 1 .. Len(a) + Len(b) : (a \o b)[i] = IF i <= Len(a) THEN a[i] ELSE b[i - Len(a)]
    BY <2>1, ConcatProperties
  <2>3. (k - 1) + (n - k) = n - 1 BY <1>1
  <2>4. r = a \o b BY <1>6 DEF a, b
  <2>5. ASSUME NEW i \in 1 .. n - 1 PROVE r[i] = IF i < k THEN q[i] ELSE q[i + 1]
    <3>1. r[i] = IF i <= k - 1 THEN a[i] ELSE b[i - (k - 1)] BY <2>1, <2>2, <2>3, <2>4
    <3>2. CASE i < k
      <4>1. i <= k - 1 /\ i \in 1 .. k - 1 BY <1>1, <3>2
      <4> QED BY <2>1, <3>1, <3>2, <4>1
    <3>3. CASE ~(i < k)
      <4>1. ~(i <= k - 1) /\ i - (k - 1) \in 1 .. n - k /\ (i - (k - 1)) + k = i + 1 BY <1>1, <3>3
      <4> QED BY <2>1, <3>1, <3>3, <4>1
    <3> QED BY <3>2, <3>3
  <2> QED BY <2>1, <2>2, <2>3, <2>4, <2>5
<1> DEFINE p == [i \in 1 .. n - 1 |-> IF i < k THEN i ELSE i + 1]
<1>10. p \in [1 .. n - 1 -> 1 .. n] /\ \A i \in 1 .. n - 1 : p[i] # k /\ r[i] = q[p[i]]
  <2>1. ASSUME NEW i \in 1 .. n - 1 PROVE p[i] \in 1 .. n /\ p[i] # k /\ r[i] = q[p[i]]
    BY <1>1, <1>9
  <2> QED BY <2>1
<1>11. \A i, j \in 1 .. n - 1 : p[i] = p[j] => i = j BY <1>1
<1>12. \A m \in 1 .. n : m # k => \E i \in 1 .. n - 1 : p[i] = m
  <2> SUFFICES ASSUME NEW m \in 1 .. n, m # k PROVE \E i \in 1 .. n - 1 : p[i] = m OBVIOUS
  <2>1. CASE m < k
    <3>1. m \in 1 .. n - 1 /\ p[m] = m BY <1>1, <2>1
    <3> QED BY <3>1
  <2>2. CASE m > k
    <3>1. m - 1 \in 1 .. n - 1 /\ p[m - 1] = m BY <1>1, <2>2
    <3> QED BY <3>1
  <2> QED BY <2>1, <2>2
<1> HIDE DEF p
<1>13. DropsAt(q, r, k, p) BY <1>9, <1>10, <1>11, <1>12 DEF DropsAt, n
<1>14. Lists(r, S \ {q[k]}) BY <1>9, <1>13, ListsDrop DEF n
<1> QED BY <1>2, <1>14 DEF r

(* The last one moves to the place that becomes vacant. *)
Filled(q, k) == Front(IF k < Len(q) THEN [q EXCEPT ![k] = Last(q)] ELSE q)

LEMMA ListsFill ==
  ASSUME NEW S, NEW q, Lists(q, S), NEW k \in 1 .. Len(q)
  PROVE  /\ Lists(Filled(q, k), S \ {q[k]}) /\ Len(Filled(q, k)) = Len(q) - 1
         /\ \A i \in 1 .. Len(q) - 1 : Filled(q, k)[i] = IF i = k THEN q[Len(q)] ELSE q[i]
<1> DEFINE n == Len(q)
           f == IF k < n THEN [q EXCEPT ![k] = Last(q)] ELSE q
           r == Front(f)
<1>1. q \in Seq(S) /\ n \in Nat \ {0} /\ q \in [1 .. n -> S] BY LenProperties DEF Lists
<1>2. Last(q) = q[n] /\ n \in 1 .. n /\ q[n] \in S /\ k \in 1 .. n BY <1>1 DEF Last
<1> HIDE DEF n
<1>3. f \in Seq(S) /\ Len(f) = n /\ \A i \in 1 .. n - 1 : f[i] = IF i = k THEN q[n] ELSE q[i]
  <2>1. f \in [1 .. n -> S] BY <1>1, <1>2
  <2>2. f \in Seq(S) /\ Len(f) = n BY <1>1, <2>1, SeqDef
  <2>3. \A i \in 1 .. n - 1 : f[i] = IF i = k THEN q[n] ELSE q[i]
    <3> SUFFICES ASSUME NEW i \in 1 .. n - 1 PROVE f[i] = IF i = k THEN q[n] ELSE q[i] OBVIOUS
    <3>1. i \in 1 .. n BY <1>1
    <3>2. CASE k < n BY <1>1, <1>2, <3>1, <3>2
    <3>3. CASE ~(k < n)
      <4>1. i # k BY <1>1, <3>3
      <4> QED BY <3>3, <4>1
    <3> QED BY <3>2, <3>3
  <2> QED BY <2>2, <2>3
<1> HIDE DEF f
<1>4. r \in Seq(S) /\ Len(r) = n - 1 /\ \A i \in 1 .. n - 1 : r[i] = f[i]
  <2>1. \A i \in 1 .. n - 1 : f[i] \in S BY <1>1, <1>3, ElementOfSeq
  <2>2. 1 \in Int /\ n - 1 \in Int /\ n - 1 >= 0 BY <1>1
  <2>3. LET s == SubSeq(f, 1, n - 1)
        IN  s \in Seq(S) /\ Len(s) = n - 1 /\ \A i \in 1 .. n - 1 : s[i] = f[i]
    BY <2>1, <2>2, SubSeqProperties
  <2> QED BY <1>3, <2>3 DEF Front
<1> HIDE DEF r
<1> DEFINE p == [i \in 1 .. n - 1 |-> IF i = k THEN n ELSE i]
<1>5. p \in [1 .. n - 1 -> 1 .. n] /\ \A i \in 1 .. n - 1 : p[i] # k /\ r[i] = q[p[i]]
  <2>1. ASSUME NEW i \in 1 .. n - 1 PROVE p[i] \in 1 .. n /\ p[i] # k /\ r[i] = q[p[i]]
    BY <1>1, <1>3, <1>4
  <2> QED BY <2>1
<1>6. \A i, j \in 1 .. n - 1 : p[i] = p[j] => i = j BY <1>1
<1>7. \A m \in 1 .. n : m # k => \E i \in 1 .. n - 1 : p[i] = m
  <2> SUFFICES ASSUME NEW m \in 1 .. n, m # k PROVE \E i \in 1 .. n - 1 : p[i] = m OBVIOUS
  <2>1. CASE m = n
    <3>1. k \in 1 .. n - 1 /\ p[k] = m BY <1>1, <1>2, <2>1
    <3> QED BY <3>1
  <2>2. CASE m # n
    <3>1. m \in 1 .. n - 1 /\ p[m] = m BY <1>1, <2>2
    <3> QED BY <3>1
  <2> QED BY <2>1, <2>2
<1> HIDE DEF p
<1>8. Lists(r, S \ {q[k]})
  <2>1. DropsAt(q, r, k, p) BY <1>4, <1>5, <1>6, <1>7 DEF DropsAt, n
  <2> QED BY <1>4, <2>1, ListsDrop DEF n
<1> QED BY <1>3, <1>4, <1>8 DEF Filled, r, f, n

(* The slots that insert_at() skips. *)
LEMMA ListsGap ==
  ASSUME NEW n \in Nat, NEW h \in Nat, n <= h, NEW S, S \subseteq 0 .. n - 1, NEW q, Lists(q, S)
  PROVE  Lists(q \o [i \in 1 .. h - n |-> n + i - 1], S \cup (n .. h - 1))
<1> DEFINE T == S \cup (n .. h - 1)
           g == [i \in 1 .. h - n |-> n + i - 1]
           r == q \o g
           l == Len(q)
<1>1. q \in Seq(S) /\ l \in Nat /\ S \subseteq T /\ h - n \in Nat BY LenProperties DEF Lists
<1>2. q \in Seq(T) BY <1>1, SeqMonotonic
<1>3. \A i \in 1 .. l : q[i] \in S BY <1>1, ElementOfSeq
<1>4. g \in Seq(T) /\ Len(g) = h - n
  <2>1. g \in [1 .. h - n -> T]
    <3>1. \A i \in 1 .. h - n : n + i - 1 \in n .. h - 1 BY <1>1
    <3> QED BY <3>1
  <2> QED BY <1>1, <2>1, SeqDef
<1>5. \A i \in 1 .. h - n : g[i] = n + i - 1 OBVIOUS
<1> HIDE DEF l, g
<1>6. /\ r \in Seq(T) /\ Len(r) = l + (h - n)
      /\ \A i \in 1 .. l + (h - n) : r[i] = IF i <= l THEN q[i] ELSE g[i - l]
  BY <1>2, <1>4, ConcatProperties DEF l
<1> HIDE DEF r
<1>7. ASSUME NEW i \in 1 .. l + (h - n)
      PROVE  \/ i \in 1 .. l /\ r[i] = q[i] /\ r[i] \in S
             \/ i \notin 1 .. l /\ r[i] = n + (i - l) - 1 /\ r[i] \notin S
  <2>1. CASE i <= l
    <3>1. i \in 1 .. l BY <1>1, <2>1
    <3> QED BY <1>3, <1>6, <2>1, <3>1
  <2>2. CASE ~(i <= l)
    <3>1. i \notin 1 .. l /\ i - l \in 1 .. h - n BY <1>1, <2>2
    <3>2. r[i] = n + (i - l) - 1 BY <1>5, <1>6, <2>2, <3>1
    <3>3. r[i] \notin 0 .. n - 1 BY <1>1, <3>1, <3>2
    <3> QED BY <3>1, <3>2, <3>3
  <2> QED BY <2>1, <2>2
<1>8. \A i, j \in 1 .. l + (h - n) : r[i] = r[j] => i = j
  <2> SUFFICES ASSUME NEW i \in 1 .. l + (h - n), NEW j \in 1 .. l + (h - n), r[i] = r[j]
               PROVE  i = j
    OBVIOUS
  <2>1. CASE i \in 1 .. l /\ r[i] = q[i] /\ r[i] \in S
    <3>1. j \in 1 .. l /\ r[j] = q[j] BY <1>7, <2>1
    <3> QED BY <2>1, <3>1 DEF Lists, l
  <2>2. CASE i \notin 1 .. l /\ r[i] = n + (i - l) - 1 /\ r[i] \notin S
    <3>1. r[j] = n + (j - l) - 1 BY <1>7, <2>2
    <3>2. n + (i - l) - 1 = n + (j - l) - 1 BY <2>2, <3>1
    <3> QED BY <1>1, <3>2
  <2> QED BY <1>7, <2>1, <2>2
<1>9. \A y \in T : \E i \in 1 .. l + (h - n) : r[i] = y
  <2> SUFFICES ASSUME NEW y \in T PROVE \E i \in 1 .. l + (h - n) : r[i] = y OBVIOUS
  <2>1. CASE y \in S
    <3>1. PICK i \in 1 .. l : q[i] = y BY <2>1 DEF Lists, l
    <3>2. i \in 1 .. l + (h - n) /\ i <= l BY <1>1
    <3> QED BY <1>6, <3>1, <3>2
  <2>2. CASE y \in n .. h - 1
    <3> DEFINE i == l + (y - n) + 1
    <3>1. i \in 1 .. l + (h - n) /\ ~(i <= l) /\ i - l = (y - n) + 1 /\ i - l \in 1 .. h - n
      BY <1>1, <2>2
    <3>2. r[i] = g[i - l] BY <1>6, <3>1
    <3>3. g[i - l] = n + ((y - n) + 1) - 1 BY <1>5, <3>1
    <3>4. r[i] = y BY <2>2, <3>2, <3>3
    <3> QED BY <3>1, <3>4
  <2> QED BY <2>1, <2>2
<1> QED BY <1>6, <1>8, <1>9 DEF Lists, r, g

(* Whoever lists some of n numbers, and not all, is shorter than n. *)
LEMMA ListsShorter ==
  ASSUME NEW n \in Nat, NEW s \in 0 .. n - 1, NEW S, S \subseteq (0 .. n - 1) \ {s},
         NEW q, Lists(q, S)
  PROVE  Len(q) \in Nat /\ Len(q) < n
<1> DEFINE l == Len(q)
           T == (0 .. n - 1) \ {s}
           D == 1 .. l
<1>1. l \in Nat /\ q \in [D -> S] /\ \A i, j \in D : q[i] = q[j] => i = j
  BY LenProperties DEF Lists
<1>2. IsFiniteSet(T) /\ Cardinality(T) = n - 1
  <2>1. IsFiniteSet(0 .. n - 1) /\ Cardinality(0 .. n - 1) = n
    <3>1. 0 \in Int /\ n - 1 \in Int /\ 0 <= n - 1 /\ (n - 1) - 0 + 1 = n OBVIOUS
    <3> QED BY <3>1, FS_Interval
  <2> QED BY <2>1, FS_RemoveElement
<1>3. IsFiniteSet(D) /\ Cardinality(D) = l
  <2>1. IsFiniteSet(1 .. l) /\ Cardinality(1 .. l) = IF 1 > l THEN 0 ELSE l - 1 + 1
    BY <1>1, FS_Interval
  <2> QED BY <1>1, <2>1
<1>4. q \in [D -> T] BY <1>1
<1> HIDE DEF l, D, T
<1>5. ~(n - 1 < l) BY <1>1, <1>2, <1>3, <1>4, FS_PigeonHole
<1> QED BY <1>1, <1>5 DEF l

LEMMA ListsImage ==
  ASSUME NEW S, NEW q, Lists(q, S)
  PROVE  S = {q[i] : i \in 1 .. Len(q)}
<1>1. \A i \in 1 .. Len(q) : q[i] \in S BY ElementOfSeq DEF Lists
<1> QED BY <1>1 DEF Lists

-----------------------------------------------------------------------------
(* SlotMap: the actions. *)

(* What a client's calls find, before a generation wraps. *)
LEMMA SmFacts ==
  ASSUME NoWrap, SmIInv
  PROVE  /\ Len(mSlots) \in Nat /\ Len(mData) \in Nat /\ Len(issued) \in Nat
         /\ MaxSlots \in Nat \ {0} /\ MaxChanges \in Nat /\ GenModulus \in Nat \ {0} /\ GenModulus > 2
         /\ changes \in Nat /\ kNoIndex \in Nat /\ kNoIndex >= MaxSlots
         /\ \A i \in 1 .. Len(mSlots) :
              /\ mSlots[i] \in SlotRecord
              /\ mSlots[i].generation \in Nat /\ mSlots[i].generation <= changes
         /\ \A d \in 1 .. Len(mData) : /\ mEraseMap[d] \in FilledSlots /\ mEraseMap[d] \in Indices
                                       /\ mEraseMap[d] + 1 \in 1 .. Len(mSlots)
         /\ \A u \in Indices : u + 1 \in 1 .. Len(mSlots)
<1>1. /\ MaxSlots \in Nat \ {0} /\ MaxChanges \in Nat /\ GenModulus \in Nat \ {0} /\ GenModulus > 2
      /\ kNoIndex \in Nat /\ kNoIndex >= MaxSlots
  BY SlotMapAssumption
<1>2. Len(mSlots) \in Nat /\ Len(mData) \in Nat /\ Len(issued) \in Nat /\ changes \in Nat
  BY <1>1, LenProperties DEF SmIInv, SmTypes
<1>3. \A i \in 1 .. Len(mSlots) : mSlots[i] \in SlotRecord
  BY ElementOfSeq DEF SmIInv, SmTypes
<1>4. \A i \in 1 .. Len(mSlots) : mSlots[i].generation \in Nat BY <1>1, <1>3 DEF SlotRecord
<1>5. \A u \in Indices : u + 1 \in 1 .. Len(mSlots) BY <1>2 DEF Indices
<1>6. \A d \in 1 .. Len(mData) : mEraseMap[d] \in FilledSlots BY DEF SmIInv, SmMaps, FilledSlots
<1>7. FilledSlots \subseteq Indices BY DEF SmIInv, SmMaps
<1> QED BY <1>1, <1>2, <1>3, <1>4, <1>5, <1>6, <1>7 DEF SmIInv, GenerationsBounded

LEMMA GenerationSteps ==
  ASSUME NoWrap, NEW g \in Nat, g <= changes, changes < MaxChanges, changes \in Nat
  PROVE  /\ NextGeneration(g) = g + 1 /\ g + 1 \in 0 .. GenModulus - 1 /\ g + 1 # 0
         /\ TakenBack(g) = g
<1>1. MaxChanges \in Nat /\ GenModulus \in Nat \ {0} BY SlotMapAssumption
<1>2. g \in 0 .. GenModulus - 1 /\ g + 1 \in 0 .. GenModulus - 1 /\ g + 1 # 0 BY <1>1 DEF NoWrap
<1>3. (g + 1) % GenModulus = g + 1 /\ g % GenModulus = g BY <1>1, <1>2, ModSmall
<1>4. NextGeneration(g) = g + 1 BY <1>2, <1>3 DEF NextGeneration
<1>5. (g + 1) - 1 = g OBVIOUS
<1>6. TakenBack(g) = g BY <1>3, <1>4, <1>5 DEF TakenBack
<1> QED BY <1>2, <1>4, <1>6

(* The element goes into a slot that is not in use. *)
LEMMA OccupyKeeps ==
  ASSUME NoWrap, SmIInv, Counted,
         NEW slots \in Seq(SlotRecord), Len(mSlots) <= Len(slots), Len(slots) <= MaxSlots,
         \A i \in 1 .. Len(mSlots) : slots[i] = mSlots[i],
         \A i \in 1 .. Len(slots) : slots[i].generation <= changes,
         NEW s \in 0 .. Len(slots) - 1, s \notin FilledSlots,
         NEW free, Lists(free, (0 .. Len(slots) - 1) \ (FilledSlots \cup {s})),
         Occupy(slots, s, free)
  PROVE  SmIInv'
<1> DEFINE n == Len(slots)
           m == Len(issued) + 1
           l == Len(mData)
           old == slots[s + 1].generation
           g == old + 1
           z == [generation |-> g, data_index |-> l]
           h == [index |-> s, generation |-> g]
<1>1. /\ n \in Nat /\ Len(mSlots) \in Nat /\ l \in Nat /\ Len(issued) \in Nat /\ MaxSlots \in Nat
      /\ MaxChanges \in Nat /\ changes \in Nat /\ kNoIndex \in Nat /\ kNoIndex >= MaxSlots
  BY SmFacts, LenProperties
<1>2. changes < MaxChanges /\ changes' = changes + 1 BY DEF Counted
<1>3. s \in Nat /\ s + 1 \in 1 .. n /\ \A i \in 1 .. n : slots[i] \in SlotRecord BY <1>1, ElementOfSeq
<1>4. old \in Nat /\ old <= changes BY <1>3, SlotMapAssumption DEF SlotRecord
<1>5. NextGeneration(old) = g /\ g \in 0 .. GenModulus - 1 /\ g # 0
  BY <1>1, <1>2, <1>4, GenerationSteps
<1>6. /\ mData' = Append(mData, m) /\ mEraseMap' = Append(mEraseMap, s)
      /\ mSlots' = [slots EXCEPT ![s + 1] = z] /\ mFreeList' = free
      /\ issued' = Append(issued, h) /\ live' = live \cup {m}
  BY <1>5 DEF Occupy
<1>7. FilledSlots \subseteq Indices /\ Lists(mEraseMap, FilledSlots) /\ Len(mEraseMap) = l
  BY DEF SmIInv, SmMaps
<1>8. l < n
  <2>1. FilledSlots \subseteq (0 .. n - 1) \ {s} BY <1>1, <1>7 DEF Indices
  <2> QED BY <1>1, <1>7, <2>1, ListsShorter
<1>9. z \in SlotRecord
  <2>1. l \in 0 .. MaxSlots - 1 BY <1>1, <1>8
  <2> QED BY <1>5, <2>1 DEF SlotRecord
<1>10. z.generation = g /\ z.data_index = l /\ h.index = s /\ h.generation = g /\ h \in Handle
  BY <1>3, <1>4 DEF Handle
<1> HIDE DEF z, h
<1>11. /\ mSlots' \in Seq(SlotRecord) /\ Len(mSlots') = n /\ mSlots'[s + 1] = z
       /\ \A i \in 1 .. n : i # s + 1 => mSlots'[i] = slots[i]
  BY <1>3, <1>6, <1>9, ExceptSeq
<1>12. /\ Lists(mEraseMap', FilledSlots \cup {s}) /\ Len(mEraseMap') = l + 1
       /\ mEraseMap'[l + 1] = s /\ \A d \in 1 .. l : mEraseMap'[d] = mEraseMap[d]
  BY <1>6, <1>7, ListsAppend
<1>13. FilledSlots' = FilledSlots \cup {s}
  <2> DEFINE T == FilledSlots \cup {s}
  <2>1. Lists(mEraseMap', T) BY <1>12
  <2> HIDE DEF T
  <2>2. T = {mEraseMap'[d] : d \in 1 .. Len(mEraseMap')} BY <2>1, ListsImage
  <2>3. FilledSlots' = T BY <2>2 DEF FilledSlots
  <2> QED BY <2>3 DEF T
<1>14. /\ mData' \in Seq(1 .. MaxChanges) /\ Len(mData') = l + 1 /\ mData'[l + 1] = m
       /\ \A d \in 1 .. l : mData'[d] = mData[d]
  <2>1. m \in 1 .. MaxChanges BY <1>1, <1>2 DEF SmIInv, SmTypes
  <2>2. mData \in Seq(1 .. MaxChanges) BY DEF SmIInv, SmTypes
  <2> QED BY <1>6, <2>1, <2>2, AppendProperties
<1>15. /\ issued' \in Seq(Handle) /\ Len(issued') = m /\ issued'[m] = h
       /\ \A i \in 1 .. m - 1 : issued'[i] = issued[i]
  <2>1. m - 1 = Len(issued) BY <1>1
  <2>2. issued \in Seq(Handle) BY DEF SmIInv, SmTypes
  <2> QED BY <1>6, <1>10, <2>1, <2>2, AppendProperties
<1>16. SmTypes'
  <2>1. changes' \in 0 .. MaxChanges /\ Len(issued') <= changes'
    BY <1>1, <1>2, <1>15 DEF SmIInv, SmTypes
  <2> QED BY <1>11, <1>14, <1>15, <2>1 DEF SmTypes
<1>17. Indices' = 0 .. n - 1 BY <1>11 DEF Indices
<1>18. \A d \in 1 .. l : /\ mEraseMap[d] + 1 \in 1 .. Len(mSlots) /\ mEraseMap[d] + 1 \in 1 .. n
                         /\ mEraseMap[d] \in FilledSlots /\ mEraseMap[d] + 1 # s + 1
                         /\ mSlots'[mEraseMap[d] + 1] = mSlots[mEraseMap[d] + 1]
  <2> SUFFICES ASSUME NEW d \in 1 .. l
               PROVE  /\ mEraseMap[d] + 1 \in 1 .. Len(mSlots) /\ mEraseMap[d] + 1 \in 1 .. n
                      /\ mEraseMap[d] \in FilledSlots /\ mEraseMap[d] + 1 # s + 1
                      /\ mSlots'[mEraseMap[d] + 1] = mSlots[mEraseMap[d] + 1]
    OBVIOUS
  <2>1. mEraseMap[d] \in FilledSlots /\ mEraseMap[d] + 1 \in 1 .. Len(mSlots) /\ mEraseMap[d] \in Indices
    BY SmFacts
  <2>2. mEraseMap[d] \in Int /\ mEraseMap[d] # s BY <1>1, <2>1 DEF Indices
  <2>3. mEraseMap[d] + 1 # s + 1 /\ mEraseMap[d] + 1 \in 1 .. n BY <1>1, <1>3, <2>1, <2>2
  <2> QED BY <1>11, <2>1, <2>3
<1>19. \A d \in 1 .. l + 1 : d = l + 1 \/ d \in 1 .. l BY <1>1
<1>20. SmMaps'
  <2>1. Len(mEraseMap') = Len(mData') BY <1>12, <1>14
  <2>2. FilledSlots' \subseteq Indices' BY <1>1, <1>7, <1>13, <1>17 DEF Indices
  <2>3. Lists(mEraseMap', FilledSlots') BY <1>12, <1>13
  <2>4. Lists(mFreeList', Indices' \ FilledSlots') BY <1>6, <1>13, <1>17
  <2>5. ASSUME NEW d \in 1 .. l + 1
        PROVE  /\ mSlots'[mEraseMap'[d] + 1].data_index = d - 1
               /\ mSlots'[mEraseMap'[d] + 1].generation # 0
    <3>1. CASE d = l + 1
      <4>1. mSlots'[mEraseMap'[d] + 1] = z BY <1>11, <1>12, <3>1
      <4>2. d - 1 = l BY <1>1, <3>1
      <4> QED BY <1>5, <1>10, <4>1, <4>2
    <3>2. CASE d \in 1 .. l
      <4>1. mSlots'[mEraseMap'[d] + 1] = mSlots[mEraseMap[d] + 1] BY <1>12, <1>18, <3>2
      <4> QED BY <3>2, <4>1 DEF SmIInv, SmMaps
    <3> QED BY <1>19, <3>1, <3>2
  <2> QED BY <1>14, <2>1, <2>2, <2>3, <2>4, <2>5 DEF SmMaps
<1>21. GenerationsBounded'
  <2>1. ASSUME NEW i \in 1 .. n PROVE mSlots'[i].generation <= changes'
    <3>1. CASE i = s + 1 BY <1>1, <1>2, <1>4, <1>10, <1>11, <3>1
    <3>2. CASE i # s + 1
      <4>1. slots[i].generation \in Int /\ slots[i].generation <= changes
        BY <1>3, SlotMapAssumption DEF SlotRecord
      <4> QED BY <1>1, <1>2, <1>11, <3>2, <4>1
    <3> QED BY <3>1, <3>2
  <2> QED BY <1>11, <2>1 DEF GenerationsBounded
<1>22. SmHandles'
  <2>1. live \subseteq 1 .. Len(issued) /\ Lists(mData, live) BY DEF SmIInv, SmHandles
  <2>2. live' \subseteq 1 .. Len(issued')
    <3>1. 1 .. Len(issued) \subseteq 1 .. m /\ m \in 1 .. m BY <1>1
    <3> QED BY <1>6, <1>15, <2>1, <3>1
  <2>3. m \notin live BY <1>1, <2>1
  <2>4. Lists(mData', live') BY <1>6, <2>1, <2>3, ListsAppend
  <2>5. ASSUME NEW i \in 1 .. m
        PROVE  /\ issued'[i].index \in Indices'
               /\ i \notin live' => issued'[i].generation < mSlots'[issued'[i].index + 1].generation
    <3>1. CASE i = m BY <1>1, <1>6, <1>10, <1>15, <1>17, <3>1
    <3>2. CASE i # m
      <4> DEFINE x == issued[i].index
                 e == issued[i].generation
      <4>1. i \in 1 .. m - 1 /\ i \in 1 .. Len(issued) BY <1>1, <3>2
      <4>2. issued'[i] = issued[i] /\ issued[i] \in Handle
        BY <1>15, <4>1, ElementOfSeq DEF SmIInv, SmTypes
      <4>3. x \in Indices /\ (i \notin live => e < mSlots[x + 1].generation)
        BY <4>1 DEF SmIInv, SmHandles
      <4>4. /\ e \in Int /\ x \in Nat /\ x + 1 \in 1 .. Len(mSlots) /\ x + 1 \in 1 .. n
            /\ mSlots[x + 1].generation \in Nat
        <5>1. e \in Nat /\ x \in Nat BY <4>2 DEF Handle
        <5>2. x + 1 \in 1 .. Len(mSlots) BY <4>3, SmFacts
        <5> HIDE DEF x, e
        <5>3. mSlots[x + 1].generation \in Nat BY <5>2, SmFacts
        <5> QED BY <1>1, <5>1, <5>2, <5>3
      <4>5. mSlots[x + 1].generation <= mSlots'[x + 1].generation /\ mSlots'[x + 1].generation \in Int
        <5>1. CASE x + 1 = s + 1
          <6>1. mSlots[x + 1].generation = old BY <4>4, <5>1
          <6> QED BY <1>4, <1>10, <1>11, <5>1, <6>1
        <5>2. CASE x + 1 # s + 1 BY <1>11, <4>4, <5>2, SMTT(20)
        <5> QED BY <5>1, <5>2
      <4>6. x \in Indices' BY <1>1, <1>17, <4>3 DEF Indices
      <4> HIDE DEF x, e
      <4>7. i \notin live' => e < mSlots'[x + 1].generation BY <1>6, <4>3, <4>4, <4>5, SMTT(20)
      <4> QED BY <4>2, <4>6, <4>7 DEF x, e
    <3> QED BY <3>1, <3>2
  <2>6. ASSUME NEW d \in 1 .. l + 1
        PROVE  /\ issued'[mData'[d]].index = mEraseMap'[d]
               /\ issued'[mData'[d]].generation = mSlots'[mEraseMap'[d] + 1].generation
    <3>1. CASE d = l + 1 BY <1>10, <1>11, <1>12, <1>14, <1>15, <3>1
    <3>2. CASE d \in 1 .. l
      <4>1. mData[d] \in live BY <2>1, <3>2, ElementOfSeq DEF Lists
      <4>2. mData[d] \in 1 .. m - 1
        <5>1. mData[d] \in 1 .. Len(issued) BY <2>1, <4>1
        <5>2. m - 1 = Len(issued) BY <1>1
        <5> HIDE DEF m
        <5> QED BY <5>1, <5>2
      <4>3. issued'[mData'[d]] = issued[mData[d]] BY <1>14, <1>15, <3>2, <4>2
      <4>4. mEraseMap'[d] = mEraseMap[d] /\ mSlots'[mEraseMap[d] + 1] = mSlots[mEraseMap[d] + 1]
        BY <1>12, <1>18, <3>2
      <4> QED BY <3>2, <4>3, <4>4 DEF SmIInv, SmHandles
    <3> QED BY <1>19, <3>1, <3>2
  <2> QED BY <1>14, <1>15, <2>2, <2>4, <2>5, <2>6 DEF SmHandles
<1> QED BY <1>16, <1>20, <1>21, <1>22 DEF SmIInv

(* Only slots that are not in use change, and no element does. *)
LEMMA FreeSlotsKeep ==
  ASSUME NoWrap, SmIInv, Counted, UNCHANGED <<mData, mEraseMap, issued, live>>,
         mSlots' \in Seq(SlotRecord), Len(mSlots) <= Len(mSlots'), Len(mSlots') <= MaxSlots,
         \A u \in FilledSlots : mSlots'[u + 1] = mSlots[u + 1],
         \A i \in 1 .. Len(mSlots) : mSlots[i].generation <= mSlots'[i].generation,
         \A i \in 1 .. Len(mSlots') : mSlots'[i].generation <= changes + 1,
         Lists(mFreeList', (0 .. Len(mSlots') - 1) \ FilledSlots)
  PROVE  SmIInv'
<1>1. /\ Len(mSlots) \in Nat /\ Len(mSlots') \in Nat /\ changes \in Nat /\ MaxChanges \in Nat
  BY SmFacts, LenProperties
<1>2. changes < MaxChanges /\ changes' = changes + 1 BY DEF Counted
<1>3. FilledSlots' = FilledSlots BY DEF FilledSlots
<1>4. Indices' = 0 .. Len(mSlots') - 1 /\ Indices \subseteq Indices' BY <1>1 DEF Indices
<1>5. SmTypes' BY <1>1, <1>2, SmFacts DEF SmIInv, SmTypes
<1>6. \A d \in 1 .. Len(mData) : mEraseMap[d] \in FilledSlots BY SmFacts
<1>7. SmMaps' BY <1>3, <1>4, <1>6 DEF SmIInv, SmMaps
<1>8. GenerationsBounded' BY <1>2 DEF GenerationsBounded
<1>9. SmHandles'
  <2>1. ASSUME NEW i \in 1 .. Len(issued), i \notin live
        PROVE  issued[i].generation < mSlots'[issued[i].index + 1].generation
    <3> DEFINE x == issued[i].index
               e == issued[i].generation
    <3>1. issued[i] \in Handle BY ElementOfSeq DEF SmIInv, SmTypes
    <3>2. x \in Indices /\ e < mSlots[x + 1].generation BY <2>1 DEF SmIInv, SmHandles
    <3>3. e \in Int /\ x + 1 \in 1 .. Len(mSlots) /\ mSlots[x + 1].generation \in Nat
      BY <3>1, <3>2, SmFacts, SMTT(20) DEF Handle
    <3>4. x + 1 \in 1 .. Len(mSlots') BY <1>1, <3>3
    <3> HIDE DEF x, e
    <3>5. mSlots'[x + 1].generation \in Nat
      <4>1. mSlots'[x + 1] \in SlotRecord BY <3>4, ElementOfSeq
      <4> QED BY <4>1, SlotMapAssumption DEF SlotRecord
    <3>6. e < mSlots'[x + 1].generation BY <3>2, <3>3, <3>5
    <3> QED BY <3>6 DEF x, e
  <2> QED BY <1>4, <1>6, <2>1 DEF SmIInv, SmHandles
<1> QED BY <1>5, <1>7, <1>8, <1>9 DEF SmIInv

LEMMA InsertKeeps == NoWrap /\ SmIInv /\ Counted /\ InsertDone => SmIInv'
<1> SUFFICES ASSUME NoWrap, SmIInv, Counted, InsertDone PROVE SmIInv' OBVIOUS
<1> DEFINE n == Len(mSlots)
<1>1. n \in Nat /\ n <= MaxSlots /\ mSlots \in Seq(SlotRecord) /\ FilledSlots \subseteq Indices
      /\ Lists(mFreeList, Indices \ FilledSlots)
  BY SmFacts DEF SmIInv, SmTypes, SmMaps
<1>2. \A i \in 1 .. n : mSlots[i].generation <= changes BY SmFacts
<1>3. CASE mFreeList # << >> /\ Occupy(mSlots, Last(mFreeList), Front(mFreeList))
  <2> DEFINE s == Last(mFreeList)
             free == Front(mFreeList)
  <2>1. s \in Indices \ FilledSlots /\ Lists(free, (Indices \ FilledSlots) \ {s}) BY <1>1, <1>3, ListsFront
  <2> HIDE DEF s, free
  <2>2. (Indices \ FilledSlots) \ {s} = (0 .. n - 1) \ (FilledSlots \cup {s}) BY DEF Indices
  <2>3. s \in 0 .. n - 1 /\ s \notin FilledSlots /\ Lists(free, (0 .. n - 1) \ (FilledSlots \cup {s}))
    BY <2>1, <2>2 DEF Indices
  <2>4. Occupy(mSlots, s, free) BY <1>3 DEF s, free
  <2> QED BY <1>1, <1>2, <2>3, <2>4, OccupyKeeps
<1>4. CASE /\ mFreeList = << >> /\ n < MaxSlots
           /\ Occupy(Append(mSlots, NewSlot), n, << >>)
  <2> DEFINE slots == Append(mSlots, NewSlot)
             free == << >>
  <2>1. NewSlot \in SlotRecord /\ NewSlot.generation = 0
    BY SlotMapAssumption DEF NewSlot, SlotRecord
  <2>2. /\ slots \in Seq(SlotRecord) /\ Len(slots) = n + 1 /\ slots[n + 1] = NewSlot
        /\ \A i \in 1 .. n : slots[i] = mSlots[i]
    BY <1>1, <2>1, AppendProperties
  <2> HIDE DEF slots
  <2>3. \A i \in 1 .. n + 1 : slots[i].generation <= changes
    <3>1. \A i \in 1 .. n + 1 : i = n + 1 \/ i \in 1 .. n BY <1>1
    <3>2. 0 <= changes BY SmFacts
    <3> QED BY <1>2, <2>1, <2>2, <3>1, <3>2
  <2>4. n \in 0 .. Len(slots) - 1 /\ n \notin FilledSlots BY <1>1, <2>2 DEF Indices
  <2>5. Lists(free, (0 .. Len(slots) - 1) \ (FilledSlots \cup {n}))
    <3>1. Indices \ FilledSlots = {} BY <1>1, <1>4, EmptySeq DEF Lists
    <3>2. (0 .. Len(slots) - 1) \ (FilledSlots \cup {n}) = Indices \ FilledSlots
      BY <1>1, <2>2 DEF Indices
    <3> QED BY <1>1, <1>4, <3>2
  <2>6. Len(mSlots) <= Len(slots) /\ Len(slots) <= MaxSlots BY <1>1, <1>4, <2>2, SlotMapAssumption
  <2>7. Occupy(slots, n, free) BY <1>4 DEF slots
  <2> HIDE DEF n, free
  <2>8. /\ \A i \in 1 .. Len(mSlots) : slots[i] = mSlots[i]
        /\ \A i \in 1 .. Len(slots) : slots[i].generation <= changes
    BY <2>2, <2>3 DEF n
  <2> QED BY <2>2, <2>4, <2>5, <2>6, <2>7, <2>8, OccupyKeeps
<1> QED BY <1>3, <1>4 DEF InsertDone

(* A slot changes nothing but its generation. *)
LEMMA SetGeneration ==
  ASSUME NEW q \in Seq(SlotRecord), NEW k \in 1 .. Len(q), NEW g \in 0 .. GenModulus - 1,
         NEW r, r = [q EXCEPT ![k].generation = g]
  PROVE  /\ r \in Seq(SlotRecord) /\ Len(r) = Len(q) /\ r[k].generation = g
         /\ \A i \in 1 .. Len(q) : i # k => r[i] = q[i]
<1> DEFINE e == [q[k] EXCEPT !.generation = g]
<1>1. q[k] \in SlotRecord BY ElementOfSeq
<1>2. e \in SlotRecord /\ e.generation = g BY <1>1 DEF SlotRecord
<1>3. r = [q EXCEPT ![k] = e] OBVIOUS
<1> HIDE DEF e
<1> QED BY <1>2, <1>3, ExceptSeq

LEMMA SmInsertThrowsKeeps == NoWrap /\ SmIInv /\ insert_throws => SmIInv'
<1> SUFFICES ASSUME NoWrap, SmIInv, insert_throws PROVE SmIInv' OBVIOUS
<1> DEFINE n == Len(mSlots)
<1>1. n \in Nat /\ n <= MaxSlots /\ mSlots \in Seq(SlotRecord) /\ FilledSlots \subseteq Indices
      /\ Lists(mFreeList, Indices \ FilledSlots) /\ Indices = 0 .. n - 1 /\ changes \in Nat
  BY SmFacts DEF SmIInv, SmTypes, SmMaps, Indices
<1>2. \A i \in 1 .. n : mSlots[i].generation \in Nat /\ mSlots[i].generation <= changes BY SmFacts
<1>3. /\ Counted /\ UNCHANGED <<mData, mEraseMap, mFreeList, issued, live>>
      /\ mSlots' = IF mFreeList = << >> THEN mSlots ELSE Advance(mSlots, Last(mFreeList))
  BY DEF insert_throws
<1>4. CASE mFreeList = << >>
  <2>1. mSlots' = mSlots BY <1>3, <1>4
  <2>2. \A i \in 1 .. n : /\ mSlots[i].generation <= mSlots'[i].generation
                          /\ mSlots'[i].generation <= changes + 1
    BY <1>1, <1>2, <2>1
  <2>3. /\ mSlots' \in Seq(SlotRecord) /\ n <= Len(mSlots') /\ Len(mSlots') <= MaxSlots
        /\ \A u \in FilledSlots : mSlots'[u + 1] = mSlots[u + 1]
        /\ Lists(mFreeList', (0 .. Len(mSlots') - 1) \ FilledSlots)
        /\ \A i \in 1 .. Len(mSlots') : mSlots'[i].generation <= changes + 1
    <3>1. n <= n BY <1>1
    <3>2. Lists(mFreeList', (0 .. n - 1) \ FilledSlots) BY <1>1, <1>3, Zenon
    <3> QED BY <1>1, <2>1, <2>2, <3>1, <3>2
  <2> QED BY <1>3, <2>2, <2>3, FreeSlotsKeep
<1>5. CASE mFreeList # << >>
  <2> DEFINE s == Last(mFreeList)
             old == mSlots[s + 1].generation
             g == NextGeneration(old)
  <2>1. s \in 0 .. n - 1 /\ s \notin FilledSlots
    <3> DEFINE S == Indices \ FilledSlots
    <3>1. Lists(mFreeList, S) BY <1>1
    <3> HIDE DEF S
    <3>2. s \in S BY <1>5, <3>1, ListsFront
    <3> QED BY <1>1, <3>2 DEF S
  <2>2. mSlots' = [mSlots EXCEPT ![s + 1].generation = g] BY <1>3, <1>5 DEF Advance
  <2> HIDE DEF s
  <2>3. s \in Nat /\ s + 1 \in 1 .. n BY <1>1, <2>1
  <2>4. old \in Nat /\ old <= changes BY <1>2, <2>3
  <2>5. g = old + 1 /\ g \in 0 .. GenModulus - 1
    BY <1>1, <1>3, <2>4, GenerationSteps DEF Counted
  <2> HIDE DEF g
  <2>6. /\ mSlots' \in Seq(SlotRecord) /\ Len(mSlots') = n /\ mSlots'[s + 1].generation = g
        /\ \A i \in 1 .. n : i # s + 1 => mSlots'[i] = mSlots[i]
    BY <1>1, <2>2, <2>3, <2>5, SetGeneration
  <2>7. \A u \in FilledSlots : mSlots'[u + 1] = mSlots[u + 1]
    <3>1. \A u \in FilledSlots : u \in Nat /\ u + 1 \in 1 .. n /\ u # s BY <1>1, <2>1
    <3>2. \A u \in FilledSlots : u + 1 # s + 1 BY <2>3, <3>1
    <3> QED BY <2>6, <3>1, <3>2
  <2>8. \A i \in 1 .. n : /\ mSlots[i].generation <= mSlots'[i].generation
                          /\ mSlots'[i].generation <= changes + 1
    <3> SUFFICES ASSUME NEW i \in 1 .. n
                 PROVE  /\ mSlots[i].generation <= mSlots'[i].generation
                        /\ mSlots'[i].generation <= changes + 1
      OBVIOUS
    <3>1. CASE i = s + 1 BY <1>1, <2>4, <2>5, <2>6, <3>1
    <3>2. CASE i # s + 1 BY <1>1, <1>2, <2>6, <3>2
    <3> QED BY <3>1, <3>2
  <2>9. n <= n BY <1>1
  <2> QED BY <1>1, <1>3, <2>6, <2>7, <2>8, <2>9, FreeSlotsKeep
<1> QED BY <1>4, <1>5

(* The slots up to a hint beyond them. *)
LEMMA GrownFacts ==
  ASSUME NoWrap, SmIInv, NEW hint \in 0 .. MaxSlots - 1, ~InRange(hint)
  PROVE  /\ Grown(hint) \in Seq(SlotRecord) /\ Len(Grown(hint)) = hint + 1
         /\ Len(mSlots) <= hint + 1 /\ hint + 1 <= MaxSlots /\ hint \notin FilledSlots
         /\ \A i \in 1 .. Len(mSlots) : Grown(hint)[i] = mSlots[i]
         /\ \A i \in 1 .. hint + 1 : Grown(hint)[i].generation <= changes
         /\ Lists(FreeWithout(hint), (0 .. hint) \ (FilledSlots \cup {hint}))
<1> DEFINE n == Len(mSlots)
           k == hint + 1 - n
           new == [i \in 1 .. k |-> IF i = k THEN NewSlot
                                    ELSE [generation |-> 0, data_index |-> kNoIndex]]
<1>1. /\ n \in Nat /\ mSlots \in Seq(SlotRecord) /\ FilledSlots \subseteq 0 .. n - 1
      /\ Lists(mFreeList, (0 .. n - 1) \ FilledSlots) /\ changes \in Nat
  BY SmFacts DEF SmIInv, SmTypes, SmMaps, Indices
<1>2. hint \in Nat /\ n <= hint /\ k \in Nat /\ n + k = hint + 1 /\ hint + 1 <= MaxSlots
  BY <1>1, SlotMapAssumption DEF InRange
<1>3. \A i \in 1 .. n : mSlots[i].generation \in Nat /\ mSlots[i].generation <= changes BY SmFacts
<1>4. \A i \in 1 .. k : new[i] \in SlotRecord /\ new[i].generation = 0
  BY SlotMapAssumption DEF NewSlot, SlotRecord
<1>5. new \in [1 .. k -> SlotRecord] BY <1>4
<1>6. Grown(hint) = mSlots \o new BY DEF Grown
<1> HIDE DEF n, k, new
<1>7. new \in Seq(SlotRecord) /\ Len(new) = k BY <1>2, <1>5, SeqDef
<1>8. /\ Grown(hint) \in Seq(SlotRecord) /\ Len(Grown(hint)) = n + k
      /\ \A i \in 1 .. n + k : Grown(hint)[i] = IF i <= n THEN mSlots[i] ELSE new[i - n]
  <2> DEFINE g == mSlots \o new
  <2>1. /\ g \in Seq(SlotRecord) /\ Len(g) = Len(mSlots) + Len(new)
        /\ \A i \in 1 .. Len(mSlots) + Len(new) :
             g[i] = IF i <= Len(mSlots) THEN mSlots[i] ELSE new[i - Len(mSlots)]
    BY <1>1, <1>7, ConcatProperties
  <2>2. Len(mSlots) = n BY DEF n
  <2> HIDE DEF g
  <2>3. g = Grown(hint) BY <1>6 DEF g
  <2> QED BY <1>7, <2>1, <2>2, <2>3
<1>9. \A i \in 1 .. n : Grown(hint)[i] = mSlots[i]
  <2>1. \A i \in 1 .. n : i \in 1 .. n + k /\ i <= n BY <1>1, <1>2
  <2> QED BY <1>8, <2>1
<1>10. \A i \in 1 .. n + k : Grown(hint)[i].generation <= changes
  <2> SUFFICES ASSUME NEW i \in 1 .. n + k PROVE Grown(hint)[i].generation <= changes OBVIOUS
  <2>1. CASE i <= n
    <3>1. i \in 1 .. n BY <1>1, <2>1
    <3> QED BY <1>3, <1>9, <3>1
  <2>2. CASE ~(i <= n)
    <3>1. i - n \in 1 .. k /\ Grown(hint)[i] = new[i - n] BY <1>1, <1>2, <1>8, <2>2
    <3>2. Grown(hint)[i].generation = 0 BY <1>4, <3>1
    <3> QED BY <1>1, <3>2
  <2> QED BY <2>1, <2>2
<1>11. hint \notin FilledSlots BY <1>1, <1>2
<1>12. Lists(FreeWithout(hint), (0 .. hint) \ (FilledSlots \cup {hint}))
  <2> DEFINE S == (0 .. n - 1) \ FilledSlots
  <2>1. FreeWithout(hint) = mFreeList \o [i \in 1 .. hint - n |-> n + i - 1]
    BY DEF FreeWithout, Gap, n
  <2>2. S \subseteq 0 .. n - 1 /\ Lists(mFreeList, S) BY <1>1
  <2>3. S \cup (n .. hint - 1) = (0 .. hint) \ (FilledSlots \cup {hint}) BY <1>1, <1>2
  <2> HIDE DEF S
  <2>4. Lists(FreeWithout(hint), S \cup (n .. hint - 1)) BY <1>1, <1>2, <2>1, <2>2, ListsGap
  <2> QED BY <2>3, <2>4
<1> QED BY <1>2, <1>8, <1>9, <1>10, <1>11, <1>12 DEF n

(* A slot of the map that looks free is on the free list. *)
LEMMA HintIsFree ==
  ASSUME NoWrap, SmIInv, NEW hint \in 0 .. MaxSlots - 1, InRange(hint), IsFree(mSlots[hint + 1])
  PROVE  /\ hint \in 0 .. Len(mSlots) - 1 /\ hint \notin FilledSlots
         /\ Lists(FreeWithout(hint), (0 .. Len(mSlots) - 1) \ (FilledSlots \cup {hint}))
<1> DEFINE n == Len(mSlots)
<1>1. n \in Nat /\ hint \in 0 .. n - 1 BY SmFacts, SlotMapAssumption DEF InRange
<1>2. Lists(mFreeList, (0 .. n - 1) \ FilledSlots) BY DEF SmIInv, SmMaps, Indices
<1>3. hint \notin FilledSlots
  <2> SUFFICES ASSUME hint \in FilledSlots PROVE FALSE OBVIOUS
  <2>1. PICK d \in 1 .. Len(mData) : mEraseMap[d] = hint BY DEF FilledSlots, SmIInv, SmMaps
  <2>2. mSlots[hint + 1].data_index = d - 1 /\ mSlots[hint + 1].generation # 0
    BY <2>1 DEF SmIInv, SmMaps
  <2>3. d - 1 = kNoIndex BY <2>2 DEF IsFree
  <2>4. Len(mData) <= n
    <3>1. Lists(mEraseMap, FilledSlots) /\ FilledSlots \subseteq 0 .. n - 1 /\ Len(mEraseMap) = Len(mData)
      BY DEF SmIInv, SmMaps, Indices
    <3>2. FilledSlots \subseteq (0 .. (n + 1) - 1) \ {n} BY <1>1, <3>1
    <3>3. n \in 0 .. (n + 1) - 1 /\ n + 1 \in Nat BY <1>1
    <3>4. Len(mEraseMap) \in Nat /\ Len(mEraseMap) < n + 1 BY <3>1, <3>2, <3>3, ListsShorter
    <3> QED BY <1>1, <3>1, <3>4
  <2>5. n <= MaxSlots /\ Len(mData) \in Nat BY SmFacts DEF SmIInv, SmTypes
  <2> QED BY <1>1, <2>3, <2>4, <2>5, SlotMapAssumption
<1>4. FreeWithout(hint) = RemoveFirst(mFreeList, hint) BY DEF FreeWithout
<1>5. hint \in (0 .. n - 1) \ FilledSlots BY <1>1, <1>3
<1>6. Lists(FreeWithout(hint), ((0 .. n - 1) \ FilledSlots) \ {hint}) BY <1>2, <1>4, <1>5, ListsRemove
<1>7. ((0 .. n - 1) \ FilledSlots) \ {hint} = (0 .. n - 1) \ (FilledSlots \cup {hint}) OBVIOUS
<1> QED BY <1>1, <1>3, <1>6, <1>7

LEMMA InsertAtKeeps ==
  ASSUME NoWrap, SmIInv, NEW hint \in 0 .. MaxSlots - 1
  PROVE  /\ insert_at(hint) => SmIInv'
         /\ insert_at_throws(hint) => SmIInv'
<1> DEFINE n == Len(mSlots)
<1>1. n \in Nat /\ n <= MaxSlots /\ mSlots \in Seq(SlotRecord) /\ changes \in Nat
      /\ FilledSlots \subseteq 0 .. n - 1
  BY SmFacts DEF SmIInv, SmTypes, SmMaps, Indices
<1>2. \A i \in 1 .. n : mSlots[i].generation \in Nat /\ mSlots[i].generation <= changes BY SmFacts
<1>3. ASSUME insert_at(hint) PROVE SmIInv'
  <2>0. Counted BY <1>3 DEF insert_at
  <2>1. CASE InRange(hint) /\ IsFree(mSlots[hint + 1])
    <3> DEFINE free == FreeWithout(hint)
    <3>1. hint \in 0 .. n - 1 /\ hint \notin FilledSlots /\ Lists(free, (0 .. n - 1) \ (FilledSlots \cup {hint}))
      BY <2>1, HintIsFree
    <3>2. Occupy(mSlots, hint, free) BY <1>3, <2>1 DEF insert_at
    <3>3. n <= n BY <1>1
    <3> HIDE DEF free
    <3> QED BY <1>1, <1>2, <2>0, <3>1, <3>2, <3>3, OccupyKeeps
  <2>2. CASE InRange(hint) /\ ~IsFree(mSlots[hint + 1])
    BY <1>3, <2>0, <2>2, InsertKeeps DEF insert_at
  <2>3. CASE ~InRange(hint)
    <3> DEFINE slots == Grown(hint)
               free == FreeWithout(hint)
    <3>1. /\ slots \in Seq(SlotRecord) /\ Len(slots) = hint + 1
          /\ n <= hint + 1 /\ hint + 1 <= MaxSlots /\ hint \notin FilledSlots
          /\ \A i \in 1 .. n : slots[i] = mSlots[i]
          /\ \A i \in 1 .. hint + 1 : slots[i].generation <= changes
          /\ Lists(free, (0 .. hint) \ (FilledSlots \cup {hint}))
      BY <2>3, GrownFacts
    <3>2. Occupy(slots, hint, free) BY <1>3, <2>3 DEF insert_at
    <3> HIDE DEF slots, free
    <3>3. Len(slots) - 1 = hint /\ hint \in 0 .. hint BY <3>1, SlotMapAssumption
    <3>4. Lists(free, (0 .. Len(slots) - 1) \ (FilledSlots \cup {hint})) BY <3>1, <3>3
    <3> QED BY <2>0, <3>1, <3>2, <3>3, <3>4, OccupyKeeps
  <2> QED BY <2>1, <2>2, <2>3
<1>4. ASSUME insert_at_throws(hint) PROVE SmIInv'
  <2>0. Counted /\ UNCHANGED <<mData, mEraseMap, issued, live>>
        /\ mFreeList' = Append(FreeWithout(hint), hint)
    BY <1>4 DEF insert_at_throws
  <2>1. CASE InRange(hint)
    <3> DEFINE free == FreeWithout(hint)
               old == mSlots[hint + 1].generation
               g == TakenBack(old)
    <3>1. hint \in 0 .. n - 1 /\ hint \notin FilledSlots /\ Lists(free, (0 .. n - 1) \ (FilledSlots \cup {hint}))
      BY <1>4, <2>1, HintIsFree DEF insert_at_throws
    <3>2. mSlots' = [mSlots EXCEPT ![hint + 1].generation = g]
      BY <1>4, <2>1 DEF insert_at_throws
    <3>3. hint \in Nat /\ hint + 1 \in 1 .. n BY <1>1, <3>1
    <3>4. old \in Nat /\ old <= changes BY <1>2, <3>3
    <3>5. g = old /\ g \in 0 .. GenModulus - 1
      <4>1. g = old BY <1>1, <2>0, <3>4, GenerationSteps DEF Counted
      <4>2. old \in 0 .. GenModulus - 1
        <5>1. mSlots[hint + 1] \in SlotRecord BY <3>3, SmFacts
        <5> QED BY <5>1 DEF SlotRecord
      <4> QED BY <4>1, <4>2
    <3>6. Lists(mFreeList', (0 .. n - 1) \ FilledSlots)
      <4> DEFINE S == (0 .. n - 1) \ (FilledSlots \cup {hint})
      <4>1. hint \notin S /\ S \cup {hint} = (0 .. n - 1) \ FilledSlots BY <3>1
      <4> HIDE DEF S, free
      <4>2. Lists(Append(free, hint), S \cup {hint}) BY <3>1, <4>1, ListsAppend DEF S
      <4> QED BY <2>0, <4>1, <4>2 DEF free
    <3> HIDE DEF g
    <3>7. /\ mSlots' \in Seq(SlotRecord) /\ Len(mSlots') = n /\ mSlots'[hint + 1].generation = g
          /\ \A i \in 1 .. n : i # hint + 1 => mSlots'[i] = mSlots[i]
      BY <1>1, <3>2, <3>3, <3>5, SetGeneration
    <3>8. \A u \in FilledSlots : mSlots'[u + 1] = mSlots[u + 1]
      <4>1. \A u \in FilledSlots : u \in Nat /\ u + 1 \in 1 .. n /\ u # hint BY <1>1, <3>1
      <4>2. \A u \in FilledSlots : u + 1 # hint + 1 BY <3>3, <4>1
      <4> QED BY <3>7, <4>1, <4>2
    <3>9. \A i \in 1 .. n : /\ mSlots[i].generation <= mSlots'[i].generation
                            /\ mSlots'[i].generation <= changes + 1
      <4> SUFFICES ASSUME NEW i \in 1 .. n
                   PROVE  /\ mSlots[i].generation <= mSlots'[i].generation
                          /\ mSlots'[i].generation <= changes + 1
        OBVIOUS
      <4>1. mSlots'[i].generation = mSlots[i].generation BY <3>5, <3>7
      <4> QED BY <1>1, <1>2, <4>1
    <3>10. n <= n BY <1>1
    <3> QED BY <1>1, <2>0, <3>6, <3>7, <3>8, <3>9, <3>10, FreeSlotsKeep
  <2>2. CASE ~InRange(hint)
    <3> DEFINE slots == Grown(hint)
               free == FreeWithout(hint)
    <3>1. /\ slots \in Seq(SlotRecord) /\ Len(slots) = hint + 1
          /\ n <= hint + 1 /\ hint + 1 <= MaxSlots /\ hint \notin FilledSlots
          /\ \A i \in 1 .. n : slots[i] = mSlots[i]
          /\ \A i \in 1 .. hint + 1 : slots[i].generation <= changes
          /\ Lists(free, (0 .. hint) \ (FilledSlots \cup {hint}))
      BY <2>2, GrownFacts
    <3>2. mSlots' = slots BY <1>4, <2>2 DEF insert_at_throws
    <3>3. mFreeList' = Append(free, hint) BY <2>0
    <3> HIDE DEF slots, free
    <3>4. Len(slots) - 1 = hint /\ hint \in 0 .. hint BY <3>1, SlotMapAssumption
    <3>5. Lists(mFreeList', (0 .. Len(mSlots') - 1) \ FilledSlots)
      <4> DEFINE S == (0 .. hint) \ (FilledSlots \cup {hint})
      <4>1. hint \notin S /\ S \cup {hint} = (0 .. hint) \ FilledSlots BY <3>1, <3>4
      <4> HIDE DEF S
      <4>2. Lists(Append(free, hint), S \cup {hint}) BY <3>1, <4>1, ListsAppend DEF S
      <4> QED BY <3>2, <3>3, <3>4, <4>1, <4>2
    <3>6. \A u \in FilledSlots : mSlots'[u + 1] = mSlots[u + 1]
      <4>1. \A u \in FilledSlots : u + 1 \in 1 .. n BY <1>1
      <4> QED BY <3>1, <3>2, <4>1
    <3>7. \A i \in 1 .. n : mSlots[i].generation <= mSlots'[i].generation BY <1>2, <3>1, <3>2
    <3>8. \A i \in 1 .. Len(mSlots') : mSlots'[i].generation <= changes + 1
      <4> SUFFICES ASSUME NEW i \in 1 .. hint + 1 PROVE slots[i].generation <= changes + 1
        BY <3>1, <3>2
      <4>1. slots[i] \in SlotRecord BY <3>1, ElementOfSeq
      <4>2. slots[i].generation \in Nat BY <4>1, SlotMapAssumption DEF SlotRecord
      <4> QED BY <1>1, <3>1, <4>2
    <3> QED BY <2>0, <3>1, <3>2, <3>5, <3>6, <3>7, <3>8, FreeSlotsKeep
  <2> QED BY <2>1, <2>2
<1> QED BY <1>3, <1>4

(* A valid handle names an element of the array, and nobody else's. *)
LEMMA ValidFacts ==
  ASSUME NoWrap, SmIInv, NEW m \in 1 .. Len(issued), is_valid(issued[m])
  PROVE  /\ \E k \in 1 .. Len(mData) :
              /\ mData[k] = m /\ mEraseMap[k] = issued[m].index
              /\ mSlots[issued[m].index + 1].data_index = k - 1
              /\ mSlots[issued[m].index + 1].generation = issued[m].generation
         /\ m \in live
         /\ {i \in live : issued[i] # issued[m]} = live \ {m}
<1>1. m \in live
  <2> SUFFICES ASSUME m \notin live PROVE FALSE OBVIOUS
  <2>1. issued[m].generation < mSlots[issued[m].index + 1].generation
    BY DEF SmIInv, SmHandles
  <2>2. issued[m].generation = mSlots[issued[m].index + 1].generation BY DEF is_valid
  <2>3. issued[m].generation \in Nat
    <3>1. issued[m] \in Handle BY ElementOfSeq DEF SmIInv, SmTypes
    <3> QED BY <3>1 DEF Handle
  <2> QED BY <2>1, <2>2, <2>3
<1>2. ASSUME NEW i \in live PROVE \E k \in 1 .. Len(mData) : mData[k] = i /\ issued[i].index = mEraseMap[k]
  BY DEF SmIInv, SmHandles, Lists
<1>3. PICK k \in 1 .. Len(mData) : mData[k] = m /\ issued[m].index = mEraseMap[k] BY <1>1, <1>2
<1>4. /\ mSlots[issued[m].index + 1].data_index = k - 1
      /\ mSlots[issued[m].index + 1].generation = issued[m].generation
  BY <1>3 DEF SmIInv, SmMaps, SmHandles
<1>5. ASSUME NEW i \in live, issued[i] = issued[m] PROVE i = m
  <2>1. PICK j \in 1 .. Len(mData) : mData[j] = i /\ issued[i].index = mEraseMap[j] BY <1>2
  <2>2. mEraseMap[j] = mEraseMap[k] BY <1>3, <1>5, <2>1
  <2>3. j = k BY <2>2 DEF SmIInv, SmMaps, Lists
  <2> QED BY <1>3, <2>1, <2>3
<1> QED BY <1>1, <1>3, <1>4, <1>5

(* Two slots change. *)
LEMMA ErasedSlots ==
  ASSUME NEW q \in Seq(SlotRecord), NEW e \in 1 .. Len(q), NEW f \in 1 .. Len(q), e # f,
         NEW y \in SlotRecord, NEW z \in SlotRecord
  PROVE  LET r == [[q EXCEPT ![f] = y] EXCEPT ![e] = z]
         IN  /\ r \in Seq(SlotRecord) /\ Len(r) = Len(q) /\ r[e] = z /\ r[f] = y
             /\ \A i \in 1 .. Len(q) : i # e /\ i # f => r[i] = q[i]
<1> DEFINE mid == [q EXCEPT ![f] = y]
           r == [mid EXCEPT ![e] = z]
<1>1. /\ mid \in Seq(SlotRecord) /\ Len(mid) = Len(q)
      /\ \A i \in 1 .. Len(q) : mid[i] = IF i = f THEN y ELSE q[i]
  BY ExceptSeq
<1> HIDE DEF mid
<1>2. /\ r \in Seq(SlotRecord) /\ Len(r) = Len(mid)
      /\ \A i \in 1 .. Len(mid) : r[i] = IF i = e THEN z ELSE mid[i]
  BY <1>1, ExceptSeq
<1> HIDE DEF r
<1>3. r[e] = z /\ r[f] = y BY <1>1, <1>2
<1>4. \A i \in 1 .. Len(q) : i # e /\ i # f => r[i] = q[i] BY <1>1, <1>2
<1> QED BY <1>1, <1>2, <1>3, <1>4 DEF r, mid

LEMMA EraseKeeps ==
  ASSUME NoWrap, SmIInv, NEW m \in 1 .. Len(issued), erase(issued[m])
  PROVE  SmIInv'
<1> DEFINE h == issued[m]
           e == h.index
           n == Len(mSlots)
           l == Len(mData)
<1>1. /\ n \in Nat /\ n <= MaxSlots /\ mSlots \in Seq(SlotRecord) /\ changes \in Nat /\ l \in Nat
      /\ FilledSlots \subseteq 0 .. n - 1 /\ Indices = 0 .. n - 1 /\ Lists(mEraseMap, FilledSlots)
      /\ Lists(mFreeList, (0 .. n - 1) \ FilledSlots) /\ Len(mEraseMap) = l
      /\ Lists(mData, live) /\ MaxChanges \in Nat /\ MaxSlots \in Nat
  BY SmFacts DEF SmIInv, SmTypes, SmMaps, SmHandles, Indices
<1>2. Counted /\ is_valid(h) /\ UNCHANGED issued /\ changes < MaxChanges /\ changes' = changes + 1
  BY DEF erase, Counted
<1>3. PICK k \in 1 .. l : /\ mData[k] = m /\ mEraseMap[k] = e
                          /\ mSlots[e + 1].data_index = k - 1
                          /\ mSlots[e + 1].generation = h.generation
  BY <1>2, ValidFacts
<1>4. m \in live /\ live' = live \ {m}
  <2>1. live' = {i \in live : issued[i] # h} BY DEF erase
  <2> QED BY <1>2, <2>1, ValidFacts
<1> DEFINE f == mEraseMap[l]
           d == k - 1
           moved == k < l
           mid == IF moved THEN [mSlots EXCEPT ![f + 1].data_index = d] ELSE mSlots
           g == NextGeneration(mid[e + 1].generation)
<1>4d. /\ mEraseMap[l] = f /\ \A i, j \in 1 .. l : mEraseMap[i] = mEraseMap[j] => i = j
       /\ \A i \in 1 .. l : mEraseMap[i] \in FilledSlots
  BY <1>1 DEF Lists, FilledSlots
<1>5. l \in 1 .. l /\ e \in FilledSlots /\ f \in FilledSlots /\ (moved => e # f)
  <2>1. l \in 1 .. l BY <1>1
  <2> HIDE DEF e, f
  <2>2. e \in FilledSlots /\ f \in FilledSlots BY <1>3, <1>4d, <2>1
  <2>3. moved => e # f BY <1>1, <1>3, <1>4d, <2>1
  <2> QED BY <2>1, <2>2, <2>3
<1>6. e \in Nat /\ f \in Nat /\ e + 1 \in 1 .. n /\ f + 1 \in 1 .. n
  <2> HIDE DEF e, f, n
  <2> QED BY <1>1, <1>5
<1>7. /\ mData' = Filled(mData, k) /\ mEraseMap' = Filled(mEraseMap, k)
      /\ mSlots' = [mid EXCEPT ![e + 1] = [generation |-> g, data_index |-> kNoIndex]]
      /\ mFreeList' = Append(mFreeList, e)
  <2>1. d + 1 = k /\ (d < l - 1 <=> k < l) BY <1>1
  <2>2. Last(mEraseMap) = f BY <1>1 DEF Last
  <2>3. mSlots' = Invalidate(mid, e)
    BY <1>3, <2>1, <2>2 DEF erase, Repoint
  <2>4. mSlots' = [mid EXCEPT ![e + 1] = [generation |-> NextGeneration(mid[e + 1].generation),
                                          data_index |-> kNoIndex]]
    BY <2>3 DEF Invalidate
  <2>5. mData' = Filled(mData, k) /\ mEraseMap' = Filled(mEraseMap, k) BY <1>1, <1>3, <2>1 DEF erase, Filled
  <2> QED BY <2>4, <2>5 DEF erase
<1>8. /\ Lists(mEraseMap', FilledSlots \ {e}) /\ Len(mEraseMap') = l - 1
      /\ \A i \in 1 .. l - 1 : mEraseMap'[i] = IF i = k THEN f ELSE mEraseMap[i]
  <2>1. k \in 1 .. Len(mEraseMap) BY <1>1
  <2>2. /\ Lists(Filled(mEraseMap, k), FilledSlots \ {mEraseMap[k]})
        /\ Len(Filled(mEraseMap, k)) = Len(mEraseMap) - 1
        /\ \A i \in 1 .. Len(mEraseMap) - 1 :
             Filled(mEraseMap, k)[i] = IF i = k THEN mEraseMap[Len(mEraseMap)] ELSE mEraseMap[i]
    BY <1>1, <2>1, ListsFill
  <2> QED BY <1>1, <1>3, <1>7, <2>2
<1>9. /\ Lists(mData', live \ {m}) /\ Len(mData') = l - 1
      /\ \A i \in 1 .. l - 1 : mData'[i] = IF i = k THEN mData[l] ELSE mData[i]
  <2>1. Lists(mData, live) BY <1>1
  <2>2. /\ Lists(Filled(mData, k), live \ {mData[k]})
        /\ Len(Filled(mData, k)) = Len(mData) - 1
        /\ \A i \in 1 .. Len(mData) - 1 :
             Filled(mData, k)[i] = IF i = k THEN mData[Len(mData)] ELSE mData[i]
    BY <2>1, ListsFill
  <2> QED BY <1>3, <1>7, <2>2
<1>10. Lists(mFreeList', (0 .. n - 1) \ (FilledSlots \ {e}))
  <2> DEFINE S == (0 .. n - 1) \ FilledSlots
  <2>1. e \notin S /\ S \cup {e} = (0 .. n - 1) \ (FilledSlots \ {e}) BY <1>1, <1>5
  <2> HIDE DEF S
  <2>2. Lists(mFreeList, S) BY <1>1 DEF S
  <2>3. Lists(Append(mFreeList, e), S \cup {e}) BY <2>1, <2>2, ListsAppend
  <2> QED BY <1>7, <2>1, <2>3
<1>11. FilledSlots' = FilledSlots \ {e}
  <2> DEFINE T == FilledSlots \ {e}
  <2>1. Lists(mEraseMap', T) BY <1>8
  <2> HIDE DEF T
  <2>2. T = {mEraseMap'[i] : i \in 1 .. Len(mEraseMap')} BY <2>1, ListsImage
  <2>3. FilledSlots' = T BY <2>2 DEF FilledSlots
  <2> QED BY <2>3 DEF T
<1> DEFINE old == mSlots[e + 1].generation
<1>12. old \in Nat /\ old <= changes BY <1>6, SmFacts
<1>13. NextGeneration(old) = old + 1 /\ old + 1 \in 0 .. GenModulus - 1
  BY <1>1, <1>2, <1>12, GenerationSteps
<1>14. /\ mSlots' \in Seq(SlotRecord) /\ Len(mSlots') = n /\ mSlots'[e + 1].generation = old + 1
       /\ moved => /\ mSlots'[f + 1].data_index = d
                   /\ mSlots'[f + 1].generation = mSlots[f + 1].generation
       /\ \A i \in 1 .. n : i # e + 1 /\ (moved => i # f + 1) => mSlots'[i] = mSlots[i]
  <2>1. CASE moved
    <3>1. e + 1 # f + 1 BY <1>5, <1>6, <2>1
    <3>2. l <= MaxSlots
      <4>1. FilledSlots \subseteq (0 .. (n + 1) - 1) \ {n} BY <1>1
      <4>2. n \in 0 .. (n + 1) - 1 /\ n + 1 \in Nat BY <1>1
      <4>3. l < n + 1 BY <1>1, <4>1, <4>2, ListsShorter
      <4> QED BY <1>1, <4>3
    <3>3. d \in 0 .. MaxSlots - 1 BY <1>1, <3>2
    <3>4. mid[e + 1] = mSlots[e + 1] BY <1>1, <1>6, <2>1, <3>1
    <3>5. g = old + 1 BY <1>13, <3>4
    <3>6. g \in 0 .. GenModulus - 1 BY <1>13, <3>5
    <3> DEFINE p == e + 1
               o == f + 1
               z == [generation |-> g, data_index |-> kNoIndex]
               y == [mSlots[o] EXCEPT !.data_index = d]
    <3>7. mid = [mSlots EXCEPT ![o] = y] BY <2>1
    <3>8. mSlots' = [mid EXCEPT ![p] = z] BY <1>7
    <3>9. p \in 1 .. n /\ o \in 1 .. n /\ p # o BY <1>6, <3>1
    <3>10. z \in SlotRecord /\ z.generation = g BY <3>6 DEF SlotRecord
    <3> HIDE DEF p, o, mid, g, d, z
    <3>11. y \in SlotRecord /\ y.data_index = d /\ y.generation = mSlots[o].generation
      <4>1. mSlots[o] \in SlotRecord BY <3>9, SmFacts
      <4> QED BY <3>3, <4>1 DEF SlotRecord
    <3> HIDE DEF y, n
    <3>12. /\ mSlots' \in Seq(SlotRecord) /\ Len(mSlots') = n /\ mSlots'[p] = z /\ mSlots'[o] = y
           /\ \A i \in 1 .. n : i # p /\ i # o => mSlots'[i] = mSlots[i]
      <4>1. mSlots' = [[mSlots EXCEPT ![o] = y] EXCEPT ![p] = z] BY <3>7, <3>8
      <4> QED BY <1>1, <3>9, <3>10, <3>11, <4>1, ErasedSlots DEF n
    <3> QED BY <2>1, <3>5, <3>10, <3>11, <3>12 DEF p, o
  <2>2. CASE ~moved
    <3>1. mid = mSlots BY <2>2
    <3>2. g = old + 1 BY <1>13, <3>1
    <3> DEFINE z == [generation |-> g, data_index |-> kNoIndex]
    <3>3. z \in SlotRecord /\ z.generation = old + 1 BY <1>13, <3>2 DEF SlotRecord
    <3>4. mSlots' = [mSlots EXCEPT ![e + 1] = z] BY <1>7, <3>1
    <3> HIDE DEF z
    <3>5. /\ mSlots' \in Seq(SlotRecord) /\ Len(mSlots') = n
          /\ \A i \in 1 .. n : mSlots'[i] = IF i = e + 1 THEN z ELSE mSlots[i]
      BY <1>1, <1>6, <3>3, <3>4, ExceptSeq
    <3> QED BY <1>6, <2>2, <3>3, <3>5
  <2> QED BY <2>1, <2>2
<1> HIDE DEF g, mid
<1>15. \A i \in 1 .. n : /\ mSlots[i].generation <= mSlots'[i].generation
                         /\ mSlots'[i].generation <= changes' /\ mSlots'[i].generation \in Nat
  <2> SUFFICES ASSUME NEW i \in 1 .. n
               PROVE  /\ mSlots[i].generation <= mSlots'[i].generation
                      /\ mSlots'[i].generation <= changes' /\ mSlots'[i].generation \in Nat
    OBVIOUS
  <2>1. mSlots[i].generation \in Nat /\ mSlots[i].generation <= changes BY SmFacts
  <2>2. CASE i = e + 1
    <3>1. mSlots[i].generation = old /\ mSlots'[i].generation = old + 1 BY <1>14, <2>2
    <3>2. changes' = changes + 1 /\ changes \in Nat BY <1>1, <1>2
    <3> HIDE DEF old
    <3> QED BY <1>12, <3>1, <3>2
  <2>3. CASE i # e + 1
    <3>1. mSlots'[i].generation = mSlots[i].generation BY <1>14, <2>3
    <3> QED BY <1>1, <1>2, <2>1, <3>1
  <2> QED BY <2>2, <2>3
<1>16. \A i \in 1 .. l - 1 :
         /\ i \in 1 .. l /\ (i = k => moved) /\ mEraseMap'[i] + 1 # e + 1
         /\ i # k => /\ mEraseMap'[i] = mEraseMap[i]
                     /\ mSlots'[mEraseMap[i] + 1] = mSlots[mEraseMap[i] + 1]
  <2> SUFFICES ASSUME NEW i \in 1 .. l - 1
               PROVE  /\ i \in 1 .. l /\ (i = k => moved) /\ mEraseMap'[i] + 1 # e + 1
                      /\ i # k => /\ mEraseMap'[i] = mEraseMap[i]
                                  /\ mSlots'[mEraseMap[i] + 1] = mSlots[mEraseMap[i] + 1]
    OBVIOUS
  <2>1. i \in 1 .. l /\ i # l /\ (i = k => moved) BY <1>1
  <2>2. mEraseMap[i] \in Indices /\ mEraseMap[i] + 1 \in 1 .. n BY <2>1, SmFacts
  <2> HIDE DEF e, f
  <2>3. i # k => mEraseMap[i] # e /\ mEraseMap[i] # f BY <1>3, <1>4d, <1>5, <2>1
  <2>4. mEraseMap[i] \in Int BY <1>1, <2>2
  <2>5. i # k => mEraseMap[i] + 1 # e + 1 /\ mEraseMap[i] + 1 # f + 1 BY <1>6, <2>3, <2>4
  <2>6. i = k => mEraseMap'[i] = f /\ f + 1 # e + 1 BY <1>5, <1>6, <1>8, <2>1
  <2>7. i # k => mEraseMap'[i] = mEraseMap[i] BY <1>8
  <2>8. i # k => mSlots'[mEraseMap[i] + 1] = mSlots[mEraseMap[i] + 1] BY <1>14, <2>2, <2>5
  <2>9. mEraseMap'[i] + 1 # e + 1 BY <2>5, <2>6, <2>7
  <2> QED BY <2>1, <2>7, <2>8, <2>9
<1>17. SmTypes'
  <2>1. changes' \in 0 .. MaxChanges /\ Len(issued') <= changes' /\ issued' \in Seq(Handle)
    <3>1. Len(issued) \in Nat /\ Len(issued) <= changes /\ issued \in Seq(Handle)
      BY SmFacts DEF SmIInv, SmTypes
    <3> QED BY <1>1, <1>2, <3>1
  <2>2. mData' \in Seq(1 .. MaxChanges)
    <3>1. live \subseteq 1 .. Len(issued) /\ Len(issued) \in Nat /\ Len(issued) <= changes
      BY SmFacts DEF SmIInv, SmTypes, SmHandles
    <3>2. live \ {m} \subseteq 1 .. MaxChanges BY <1>1, <1>2, <3>1
    <3> QED BY <1>9, <3>2, SeqMonotonic DEF Lists
  <2> QED BY <1>1, <1>14, <2>1, <2>2 DEF SmTypes
<1>18. SmMaps'
  <2>1. Indices' = 0 .. n - 1 BY <1>14 DEF Indices
  <2>2. ASSUME NEW i \in 1 .. l - 1
        PROVE  /\ mSlots'[mEraseMap'[i] + 1].data_index = i - 1
               /\ mSlots'[mEraseMap'[i] + 1].generation # 0
    <3>1. \A j \in 1 .. l : /\ mSlots[mEraseMap[j] + 1].data_index = j - 1
                            /\ mSlots[mEraseMap[j] + 1].generation # 0
      BY DEF SmIInv, SmMaps
    <3>2. CASE i = k
      <4>1. moved /\ mEraseMap'[i] = f BY <1>8, <1>16, <3>2
      <4>2. mSlots[f + 1].generation # 0 BY <1>5, <3>1
      <4> QED BY <1>14, <3>2, <4>1, <4>2
    <3>3. CASE i # k BY <1>16, <3>1, <3>3
    <3> QED BY <3>2, <3>3
  <2>3. FilledSlots' \subseteq Indices' BY <1>1, <1>11, <2>1
  <2>4. Lists(mEraseMap', FilledSlots') /\ Lists(mFreeList', Indices' \ FilledSlots')
    BY <1>8, <1>10, <1>11, <2>1
  <2> QED BY <1>8, <1>9, <2>2, <2>3, <2>4 DEF SmMaps
<1>19. GenerationsBounded' BY <1>14, <1>15 DEF GenerationsBounded
<1>20. SmHandles'
  <2>1. live' \subseteq 1 .. Len(issued') BY <1>2, <1>4 DEF SmIInv, SmHandles
  <2>2. Indices' = Indices BY <1>14 DEF Indices
  <2>3. ASSUME NEW i \in 1 .. Len(issued)
        PROVE  /\ issued[i].index \in Indices
               /\ i \notin live' => issued[i].generation < mSlots'[issued[i].index + 1].generation
    <3> DEFINE x == issued[i].index
               b == issued[i].generation
    <3>1. x \in Indices /\ (i \notin live => b < mSlots[x + 1].generation)
      BY DEF SmIInv, SmHandles
    <3>2. b \in Nat
      <4>1. issued[i] \in Handle BY ElementOfSeq DEF SmIInv, SmTypes
      <4> QED BY <4>1 DEF Handle
    <3>3. i = m => x = e /\ b = old BY <1>3
    <3>4. x + 1 \in 1 .. n BY <3>1, SmFacts
    <3> HIDE DEF x, b
    <3>5. mSlots[x + 1].generation \in Nat /\ mSlots'[x + 1].generation \in Nat
          /\ mSlots[x + 1].generation <= mSlots'[x + 1].generation
      BY <1>15, <3>4, SmFacts
    <3>6. i \notin live' => b < mSlots'[x + 1].generation
      <4>1. CASE i = m
        <5>1. b = old /\ mSlots'[x + 1].generation = old + 1 BY <1>14, <3>3, <4>1
        <5> QED BY <1>12, <5>1
      <4>2. CASE i \notin live BY <3>1, <3>2, <3>5, <4>2
      <4> QED BY <1>4, <4>1, <4>2
    <3> QED BY <3>1, <3>6 DEF x, b
  <2>4. ASSUME NEW i \in 1 .. l - 1
        PROVE  /\ issued[mData'[i]].index = mEraseMap'[i]
               /\ issued[mData'[i]].generation = mSlots'[mEraseMap'[i] + 1].generation
    <3>1. \A j \in 1 .. l : /\ issued[mData[j]].index = mEraseMap[j]
                            /\ issued[mData[j]].generation = mSlots[mEraseMap[j] + 1].generation
      BY DEF SmIInv, SmHandles
    <3>2. CASE i = k
      <4>1. moved /\ mEraseMap'[i] = f /\ mData'[i] = mData[l] BY <1>8, <1>9, <1>16, <3>2
      <4>2. issued[mData[l]].index = f /\ issued[mData[l]].generation = mSlots[f + 1].generation
        BY <1>5, <3>1
      <4> QED BY <1>14, <4>1, <4>2
    <3>3. CASE i # k
      <4>1. /\ i \in 1 .. l /\ mEraseMap'[i] = mEraseMap[i] /\ mData'[i] = mData[i]
            /\ mSlots'[mEraseMap[i] + 1] = mSlots[mEraseMap[i] + 1]
        BY <1>9, <1>16, <3>3
      <4> QED BY <3>1, <4>1
    <3> QED BY <3>2, <3>3
  <2> QED BY <1>2, <1>4, <1>9, <2>1, <2>2, <2>3, <2>4 DEF SmHandles
<1> QED BY <1>17, <1>18, <1>19, <1>20 DEF SmIInv

LEMMA ClearKeeps == NoWrap /\ SmIInv /\ ClearMap => SmIInv'
<1> SUFFICES ASSUME NoWrap, SmIInv, ClearMap PROVE SmIInv' OBVIOUS
<1> DEFINE n == Len(mSlots)
           z(i) == [generation |-> NextGeneration(mSlots[i].generation), data_index |-> kNoIndex]
<1>1. n \in Nat /\ n <= MaxSlots /\ changes \in Nat /\ MaxChanges \in Nat
  BY SmFacts DEF SmIInv, SmTypes
<1>2. Counted /\ UNCHANGED issued /\ changes < MaxChanges /\ changes' = changes + 1
  BY DEF ClearMap, Counted
<1>3. /\ mData' = << >> /\ mEraseMap' = << >> /\ live' = {}
      /\ mSlots' = [i \in 1 .. n |-> z(i)] /\ mFreeList' = [i \in 1 .. Len(mSlots') |-> i - 1]
  BY DEF ClearMap, ClearedSlots
<1>4. \A i \in 1 .. n : /\ mSlots[i].generation \in Nat /\ mSlots[i].generation <= changes
                        /\ z(i) \in SlotRecord /\ z(i).generation = mSlots[i].generation + 1
  <2> SUFFICES ASSUME NEW i \in 1 .. n
               PROVE  /\ mSlots[i].generation \in Nat /\ mSlots[i].generation <= changes
                      /\ z(i) \in SlotRecord /\ z(i).generation = mSlots[i].generation + 1
    OBVIOUS
  <2> DEFINE g == mSlots[i].generation
  <2>1. g \in Nat /\ g <= changes BY SmFacts
  <2>2. NextGeneration(g) = g + 1 /\ g + 1 \in 0 .. GenModulus - 1
    BY <1>1, <1>2, <2>1, GenerationSteps
  <2> QED BY <2>1, <2>2 DEF SlotRecord
<1> HIDE DEF z, n
<1>5. /\ mSlots' \in Seq(SlotRecord) /\ Len(mSlots') = n
      /\ \A i \in 1 .. n : /\ mSlots'[i].generation = mSlots[i].generation + 1
                           /\ mSlots'[i].generation <= changes'
  <2>1. mSlots' \in [1 .. n -> SlotRecord] BY <1>3, <1>4
  <2>2. mSlots' \in Seq(SlotRecord) /\ Len(mSlots') = n BY <1>1, <2>1, SeqDef
  <2>3. \A i \in 1 .. n : mSlots'[i] = z(i) BY <1>3
  <2>4. \A i \in 1 .. n : mSlots[i].generation + 1 <= changes' BY <1>1, <1>2, <1>4
  <2> QED BY <1>4, <2>2, <2>3, <2>4
<1>6. Len(mData') = 0 /\ Len(mEraseMap') = 0 /\ 1 .. 0 = {} BY <1>3, EmptySeq
<1>7. FilledSlots' = {} BY <1>6 DEF FilledSlots
<1>8. Indices' = 0 .. n - 1 BY <1>5 DEF Indices
<1>9. \A S : Lists(<< >>, {}) BY EmptySeq DEF Lists
<1>10. Lists(mFreeList', Indices' \ FilledSlots')
  <2> DEFINE S == 0 .. n - 1
             q == [i \in 1 .. n |-> i - 1]
  <2>1. mFreeList' = q BY <1>3, <1>5
  <2>2. q \in [1 .. n -> S] BY <1>1
  <2>3. q \in Seq(S) /\ Len(q) = n BY <1>1, <2>2, SeqDef
  <2>4. \A i, j \in 1 .. n : q[i] = q[j] => i = j BY <1>1
  <2>5. \A x \in S : \E i \in 1 .. n : q[i] = x
    <3> SUFFICES ASSUME NEW x \in S PROVE \E i \in 1 .. n : q[i] = x OBVIOUS
    <3>1. x + 1 \in 1 .. n /\ q[x + 1] = x BY <1>1
    <3> QED BY <3>1
  <2> HIDE DEF q
  <2>6. Lists(q, S) BY <2>3, <2>4, <2>5 DEF Lists
  <2>7. Indices' \ FilledSlots' = S BY <1>7, <1>8
  <2> HIDE DEF S
  <2> QED BY <2>1, <2>6, <2>7
<1>11. SmTypes'
  <2>1. Len(issued) \in Nat /\ Len(issued) <= changes /\ issued \in Seq(Handle)
    BY SmFacts DEF SmIInv, SmTypes
  <2>2. mData' \in Seq(1 .. MaxChanges) BY <1>3
  <2>3. changes' \in 0 .. MaxChanges /\ Len(issued) <= changes' BY <1>1, <1>2, <2>1
  <2> QED BY <1>1, <1>2, <1>5, <2>1, <2>2, <2>3 DEF SmTypes, n
<1>12. SmMaps' BY <1>3, <1>6, <1>7, <1>9, <1>10 DEF SmMaps
<1>13. GenerationsBounded' BY <1>5 DEF GenerationsBounded
<1>14. SmHandles'
  <2>1. ASSUME NEW i \in 1 .. Len(issued)
        PROVE  /\ issued[i].index \in Indices'
               /\ issued[i].generation < mSlots'[issued[i].index + 1].generation
    <3> DEFINE x == issued[i].index
               b == issued[i].generation
    <3>1. x \in Indices /\ (i \notin live => b < mSlots[x + 1].generation)
      BY DEF SmIInv, SmHandles
    <3>2. b \in Nat
      <4>1. issued[i] \in Handle BY ElementOfSeq DEF SmIInv, SmTypes
      <4> QED BY <4>1 DEF Handle
    <3>3. i \in live => b = mSlots[x + 1].generation
      <4> SUFFICES ASSUME i \in live PROVE b = mSlots[x + 1].generation OBVIOUS
      <4>1. PICK d \in 1 .. Len(mData) : mData[d] = i BY DEF SmIInv, SmHandles, Lists
      <4> QED BY <4>1 DEF SmIInv, SmHandles
    <3>4. x + 1 \in 1 .. n BY <3>1, SmFacts DEF n
    <3> HIDE DEF x, b
    <3>5. b < mSlots'[x + 1].generation BY <1>4, <1>5, <3>1, <3>2, <3>3, <3>4
    <3>6. x \in Indices' BY <1>8, <3>1 DEF Indices, n
    <3> QED BY <3>5, <3>6 DEF x, b
  <2> QED BY <1>2, <1>3, <1>6, <1>9, <2>1 DEF SmHandles
<1> QED BY <1>11, <1>12, <1>13, <1>14 DEF SmIInv

LEMMA SmInitInv == SlotMapInit => SmIInv
<1> SUFFICES ASSUME SlotMapInit PROVE SmIInv OBVIOUS
<1>1. /\ mData = << >> /\ mEraseMap = << >> /\ mSlots = << >> /\ mFreeList = << >>
      /\ issued = << >> /\ live = {} /\ changes = 0
  BY DEF SlotMapInit
<1>2. Len(mData) = 0 /\ Len(mEraseMap) = 0 /\ Len(mSlots) = 0 /\ Len(issued) = 0
      /\ 1 .. 0 = {} /\ 0 .. 0 - 1 = {}
  BY <1>1, EmptySeq
<1>3. FilledSlots = {} /\ Indices = {} BY <1>2 DEF FilledSlots, Indices
<1>4. Lists(<< >>, {}) BY EmptySeq DEF Lists
<1>5. SmTypes BY <1>1, <1>2, SlotMapAssumption DEF SmTypes
<1>6. SmMaps BY <1>1, <1>2, <1>3, <1>4 DEF SmMaps
<1>7. GenerationsBounded BY <1>2 DEF GenerationsBounded
<1>8. SmHandles BY <1>1, <1>2, <1>4 DEF SmHandles
<1> QED BY <1>5, <1>6, <1>7, <1>8 DEF SmIInv

LEMMA SmStepKeeps == NoWrap /\ SmIInv /\ [SlotMapNext]_slotMapVars => SmIInv'
<1> SUFFICES ASSUME NoWrap, SmIInv, [SlotMapNext]_slotMapVars PROVE SmIInv' OBVIOUS
<1>1. CASE insert BY <1>1, InsertKeeps DEF insert
<1>2. CASE insert_throws BY <1>2, SmInsertThrowsKeeps
<1>3. CASE \E hint \in 0 .. MaxSlots - 1 : insert_at(hint) \/ insert_at_throws(hint)
  BY <1>3, InsertAtKeeps
<1>4. CASE \E n \in 1 .. Len(issued) : erase(issued[n]) BY <1>4, EraseKeeps
<1>5. CASE ClearMap BY <1>5, ClearKeeps
<1>6. CASE UNCHANGED slotMapVars
  <2>1. UNCHANGED <<mData, mEraseMap, mSlots, mFreeList, issued, live, changes>>
    BY <1>6 DEF slotMapVars
  <2>2. SmTypes' BY <2>1 DEF SmIInv, SmTypes
  <2>3. SmMaps' BY <2>1 DEF SmIInv, SmMaps, FilledSlots, Indices
  <2>4. GenerationsBounded' /\ SmHandles'
    BY <2>1 DEF SmIInv, GenerationsBounded, SmHandles, Indices
  <2> QED BY <2>2, <2>3, <2>4 DEF SmIInv
<1> QED BY <1>1, <1>2, <1>3, <1>4, <1>5, <1>6 DEF SlotMapNext

(* Whatever is inserted, erased and cleared, and wherever an insertion      *)
(* fails, as long as no generation wraps.                                   *)
THEOREM SlotsInductive ==
  ASSUME NoWrap
  PROVE  SlotMapSpec => []SmIInv
<1>1. SmIInv /\ [SlotMapNext]_slotMapVars => SmIInv' BY SmStepKeeps
<1> QED BY <1>1, SmInitInv, PTL DEF SlotMapSpec

(* The four vectors describe the same elements, and a handle finds its own *)
(* element or none: with fewer calls than a generation has values, no slot  *)
(* reuse, no relocation and no failed insertion makes a stale handle valid. *)
THEOREM SlotsSound ==
  ASSUME NoWrap
  PROVE  SlotMapSpec => []SlotsAreSound
<1>1. SmIInv => SlotsAreSound
  <2> SUFFICES ASSUME SmIInv PROVE SlotsAreSound OBVIOUS
  <2>1. MapsAgree
    <3> DEFINE q == mEraseMap \o mFreeList
               F == Indices \ FilledSlots
               a == Len(mEraseMap)
               b == Len(mFreeList)
    <3>1. /\ mEraseMap \in Seq(FilledSlots) /\ \A i, j \in 1 .. a : mEraseMap[i] = mEraseMap[j] => i = j
          /\ \A x \in FilledSlots : \E i \in 1 .. a : mEraseMap[i] = x
          /\ mFreeList \in Seq(F) /\ \A i, j \in 1 .. b : mFreeList[i] = mFreeList[j] => i = j
          /\ \A x \in F : \E i \in 1 .. b : mFreeList[i] = x
          /\ FilledSlots \subseteq Indices /\ a = Len(mData)
      BY DEF SmIInv, SmMaps, Lists
    <3>2. a \in Nat /\ b \in Nat BY <3>1, LenProperties
    <3>3. mEraseMap \in Seq(Indices) /\ mFreeList \in Seq(Indices)
      <4>1. F \subseteq Indices OBVIOUS
      <4> QED BY <3>1, <4>1, SeqMonotonic
    <3>4. \A i \in 1 .. a : mEraseMap[i] \in FilledSlots BY <3>1, ElementOfSeq
    <3>5. \A i \in 1 .. b : mFreeList[i] \in F BY <3>1, ElementOfSeq
    <3> HIDE DEF a, b
    <3>6. /\ q \in Seq(Indices) /\ Len(q) = a + b
          /\ \A i \in 1 .. a + b : q[i] = IF i <= a THEN mEraseMap[i] ELSE mFreeList[i - a]
      BY <3>3, ConcatProperties DEF a, b
    <3> HIDE DEF q
    <3>7. ASSUME NEW i \in 1 .. a + b
          PROVE  \/ i \in 1 .. a /\ q[i] = mEraseMap[i] /\ q[i] \in FilledSlots
                 \/ i - a \in 1 .. b /\ q[i] = mFreeList[i - a] /\ q[i] \in F
      <4>1. CASE i <= a
        <5>1. i \in 1 .. a BY <3>2, <4>1
        <5> QED BY <3>4, <3>6, <4>1, <5>1
      <4>2. CASE ~(i <= a)
        <5>1. i - a \in 1 .. b BY <3>2, <4>2
        <5> QED BY <3>5, <3>6, <4>2, <5>1
      <4> QED BY <4>1, <4>2
    <3>8. IsInjective(q)
      <4>1. DOMAIN q = 1 .. a + b BY <3>6
      <4> SUFFICES ASSUME NEW i \in 1 .. a + b, NEW j \in 1 .. a + b, q[i] = q[j] PROVE i = j
        BY <4>1 DEF IsInjective
      <4>2. CASE i \in 1 .. a /\ q[i] = mEraseMap[i] /\ q[i] \in FilledSlots
        <5>1. j \in 1 .. a /\ q[j] = mEraseMap[j] BY <3>7, <4>2
        <5> QED BY <3>1, <4>2, <5>1 DEF a
      <4>3. CASE i - a \in 1 .. b /\ q[i] = mFreeList[i - a] /\ q[i] \in F
        <5>1. j - a \in 1 .. b /\ q[j] = mFreeList[j - a] BY <3>7, <4>3
        <5>2. i - a = j - a BY <3>1, <4>3, <5>1 DEF b
        <5> QED BY <3>2, <5>2
      <4> QED BY <3>7, <4>2, <4>3
    <3>9. ToSet(q) = Indices
      <4>1. DOMAIN q = 1 .. a + b BY <3>6
      <4>2. \A i \in 1 .. a + b : q[i] \in Indices BY <3>6, ElementOfSeq
      <4>3. ASSUME NEW x \in Indices PROVE \E i \in 1 .. a + b : q[i] = x
        <5>1. CASE x \in FilledSlots
          <6>1. PICK i \in 1 .. a : mEraseMap[i] = x BY <3>1, <5>1 DEF a
          <6>2. i \in 1 .. a + b /\ i <= a BY <3>2
          <6> QED BY <3>6, <6>1, <6>2
        <5>2. CASE x \notin FilledSlots
          <6>1. PICK i \in 1 .. b : mFreeList[i] = x BY <3>1, <5>2 DEF b
          <6>2. a + i \in 1 .. a + b /\ ~(a + i <= a) /\ (a + i) - a = i BY <3>2
          <6>3. q[a + i] = mFreeList[i] BY <3>6, <6>2
          <6> QED BY <6>1, <6>2, <6>3
        <5> QED BY <5>1, <5>2
      <4> QED BY <4>1, <4>2, <4>3 DEF ToSet
    <3>10. \A d \in 1 .. Len(mData) : mSlots[mEraseMap[d] + 1].data_index = d - 1
      BY DEF SmIInv, SmMaps
    <3> QED BY <3>1, <3>8, <3>9, <3>10 DEF MapsAgree, Indices, q, a
  <2>2. HandlesAreTrue
    <3> SUFFICES ASSUME NEW i \in 1 .. Len(issued)
                 PROVE  /\ is_valid(issued[i]) <=> i \in live
                        /\ i \in live => Get(issued[i]) = i
      BY DEF HandlesAreTrue
    <3>1. is_valid(issued[i]) => i \in live BY ValidFacts
    <3>2. ASSUME i \in live PROVE is_valid(issued[i]) /\ Get(issued[i]) = i
      <4>1. PICK d \in 1 .. Len(mData) : mData[d] = i BY <3>2 DEF SmIInv, SmHandles, Lists
      <4>2. /\ issued[i].index = mEraseMap[d]
            /\ issued[i].generation = mSlots[mEraseMap[d] + 1].generation
        BY <4>1 DEF SmIInv, SmHandles
      <4>3. mSlots[mEraseMap[d] + 1].data_index = d - 1 BY DEF SmIInv, SmMaps
      <4>4. mEraseMap[d] \in Indices /\ Len(mSlots) \in Nat /\ Len(mData) \in Nat BY SmFacts
      <4>5. mEraseMap[d] < Len(mSlots) /\ (d - 1) + 1 = d BY <4>4 DEF Indices
      <4> QED BY <4>1, <4>2, <4>3, <4>5 DEF is_valid, Get
    <3> QED BY <3>1, <3>2
  <2> QED BY <2>1, <2>2 DEF SlotsAreSound
<1> QED BY <1>1, SlotsInductive, PTL

(* Indices and generations stay in range, in every vector.                 *)
THEOREM SlotsTypes ==
  ASSUME NoWrap
  PROVE  SlotMapSpec => []SlotMapTypeOK
<1>1. SmIInv => SlotMapTypeOK
  <2> SUFFICES ASSUME SmIInv PROVE SlotMapTypeOK OBVIOUS
  <2>1. Indices \subseteq 0 .. MaxSlots - 1 BY SmFacts DEF SmIInv, SmTypes, Indices
  <2>2. FilledSlots \subseteq 0 .. MaxSlots - 1 /\ Indices \ FilledSlots \subseteq 0 .. MaxSlots - 1
    BY <2>1 DEF SmIInv, SmMaps
  <2>3. mEraseMap \in Seq(0 .. MaxSlots - 1) /\ mFreeList \in Seq(0 .. MaxSlots - 1)
    BY <2>2, SeqMonotonic DEF SmIInv, SmMaps, Lists
  <2> QED BY <2>3 DEF SmIInv, SmTypes, SlotMapTypeOK, SlotRecord
<1> QED BY <1>1, SlotsInductive, PTL
=============================================================================
