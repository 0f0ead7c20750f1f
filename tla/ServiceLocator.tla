--------------------------- MODULE ServiceLocator ---------------------------
(***************************************************************************)
(* include/fat_p/ServiceLocator.h with SharedMutexPolicy: a family of       *)
(* locators 1 .. Depth, the parent of locator l being l + 1.  Services are  *)
(* registered, removed and replaced while threads resolve them; a singleton *)
(* factory runs with no lock held and may resolve other services itself.    *)
(*                                                                         *)
(* A key stands for a type and a name.  A registration is a number; since   *)
(* an entry gets at most one SingletonState, a state goes by the number of  *)
(* its registration, and so does the object its factory makes.  A thread is *)
(* the stack of the resolve calls it is in.  One action per critical        *)
(* section of the registry's lock, of a SingletonState and of the gate.     *)
(***************************************************************************)
EXTENDS Naturals, Sequences

CONSTANTS
  Resolvers,   \* the threads
  NoResolver,  \* std::thread::id{}
  Keys,        \* (type, name) pairs
  Depth,       \* the length of the chain of locators
  MaxRegs,     \* bound: registrations made
  MaxNest,     \* bound: resolve calls nested through factories
  MaxCalls     \* bound: resolve calls made

ASSUME ServicesAssumption ==
  /\ NoResolver \notin Resolvers
  /\ Depth \in Nat \ {0} /\ MaxNest \in Nat \ {0}
  /\ MaxRegs \in Nat /\ MaxCalls \in Nat

Locators == 1 .. Depth
Regs == 1 .. MaxRegs
EntryKinds == {"instance", "shared", "singleton", "transient"}
Ops == {"resolve", "resolveShared", "create"}
Codes == {"ok", "ServiceNotFound", "FactoryNotRegistered", "TransientRequiresCreate",
          "InvalidLifetime", "CircularDependency", "FactoryReturnedNull", "FactoryThrew"}

VARIABLES
  overwrite,   \* the RegistrationPolicy: replace a registration, or refuse
  registry,    \* registry[l][k]: the ServiceEntry; shared: whose object it caches
  regs,        \* the registrations made so far
  creating,    \* creating[r]: SingletonState::creatingThread, NoResolver if not creating
  value,       \* value[r]: SingletonState::value is set
  gate,        \* the SingletonFactoryGate of the family: mOwnerThread and mDepth
  frames,      \* frames[t]: the resolve calls of t, outermost first
  calls,       \* the resolve calls made so far
  made         \* history: made[r]: the objects the factory of r has made

servicesVars == <<overwrite, registry, regs, creating, value, gate, frames, calls, made>>

NoEntry == [kind |-> "none", reg |-> 0, shared |-> 0]

ServicesInit ==
  /\ overwrite \in BOOLEAN
  /\ registry = [l \in Locators |-> [k \in Keys |-> NoEntry]]
  /\ regs = 0
  /\ creating = [r \in Regs |-> NoResolver]
  /\ value = [r \in Regs |-> FALSE]
  /\ gate = [owner |-> NoResolver, depth |-> 0]
  /\ frames = [t \in Resolvers |-> << >>]
  /\ calls = 0
  /\ made = [r \in Regs |-> 0]

-----------------------------------------------------------------------------
(* registerInstance(), registerShared() and registerFactory(): one critical *)
(* section.  A refused registration changes nothing.                        *)
RegisterService(l, k, kind) ==
  /\ regs < MaxRegs
  /\ overwrite \/ registry[l][k] = NoEntry
  /\ regs' = regs + 1
  /\ registry' = [registry EXCEPT ![l][k] =
       [kind |-> kind, reg |-> regs', shared |-> IF kind = "shared" THEN regs' ELSE 0]]
  /\ UNCHANGED <<overwrite, creating, value, gate, frames, calls, made>>

(* unregister() and Registration::reset(). *)
Unregister(l, k) ==
  /\ registry[l][k] # NoEntry
  /\ registry' = [registry EXCEPT ![l][k] = NoEntry]
  /\ UNCHANGED <<overwrite, regs, creating, value, gate, frames, calls, made>>

ClearServices(l) ==
  /\ registry' = [registry EXCEPT ![l] = [k \in Keys |-> NoEntry]]
  /\ registry' # registry
  /\ UNCHANGED <<overwrite, regs, creating, value, gate, frames, calls, made>>

-----------------------------------------------------------------------------
Busy(t) == frames[t] # << >>
Top(t) == frames[t][Len(frames[t])]
AtTop(t, pc) == Busy(t) /\ Top(t).pc = pc
Entry(t) == registry[Top(t).loc][Top(t).key]
InFactory(t) == (AtTop(t, "transient") \/ AtTop(t, "factory")) /\ Top(t).fac

SetTop(t, f) == frames' = [frames EXCEPT ![t][Len(frames[t])] = f]
GoOn(t, pc) == SetTop(t, [Top(t) EXCEPT !.pc = pc])
Decide(t, code) == SetTop(t, [Top(t) EXCEPT !.pc = "return", !.code = code])

(* tryResolve(), resolveExpected(), resolveSharedExpected(), createExpected() *)
(* and what is built on them, called by a client or by a factory.  Which of   *)
(* them it is makes no difference before the look-up that finds an entry.     *)
ResolveCall(t, l, k) ==
  /\ Busy(t) => InFactory(t)
  /\ Len(frames[t]) < MaxNest /\ calls < MaxCalls
  /\ calls' = calls + 1
  /\ frames' = [frames EXCEPT ![t] = Append(@,
       [loc |-> l, key |-> k, pc |-> "find", reg |-> 0, fac |-> FALSE,
        gated |-> FALSE, code |-> "ok"])]
  /\ UNCHANGED <<overwrite, registry, regs, creating, value, gate, made>>

(* What the look-up under the shared lock decides, "" if it decides nothing. *)
Verdict(e, op) ==
  CASE e.kind = "transient" /\ op # "create" -> "TransientRequiresCreate"
    [] e.kind = "instance" /\ op = "resolve" -> "ok"
    [] e.kind = "instance" /\ op = "resolveShared" -> "ServiceNotFound"
    [] e.kind \in {"instance", "shared"} /\ op = "create" -> "FactoryNotRegistered"
    [] e.kind \in {"shared", "singleton"} /\ e.shared # 0 -> "ok"
    [] OTHER -> ""

LookUp(t, op) ==
  /\ AtTop(t, "find")
  /\ LET e == Entry(t)
         verdict == Verdict(e, op) IN
       \/ verdict # "" /\ Decide(t, verdict)
       \/ verdict = "" /\ e.kind = "singleton" /\ GoOn(t, "state")
       \/ verdict = "" /\ e.kind = "transient" /\ SetTop(t, [Top(t) EXCEPT !.pc = "transient", !.fac = TRUE])
  /\ UNCHANGED <<overwrite, registry, regs, creating, value, gate, calls, made>>

AskParent(t) ==
  /\ AtTop(t, "find") /\ Entry(t) = NoEntry
  /\ IF Top(t).loc < Depth
     THEN SetTop(t, [Top(t) EXCEPT !.loc = @ + 1])
     ELSE Decide(t, "ServiceNotFound")
  /\ UNCHANGED <<overwrite, registry, regs, creating, value, gate, calls, made>>

TransientReturns(t, code) ==
  /\ AtTop(t, "transient")
  /\ Decide(t, code)
  /\ UNCHANGED <<overwrite, registry, regs, creating, value, gate, calls, made>>

-----------------------------------------------------------------------------
(* resolveOrCreateSingleton() *)

(* Under the registry's lock: the entry may have changed since the look-up. *)
FetchState(t) ==
  /\ AtTop(t, "state")
  /\ LET e == Entry(t) IN
       \/ e = NoEntry /\ Decide(t, "ServiceNotFound")
       \/ e.kind = "transient" /\ Decide(t, "InvalidLifetime")
       \/ e.shared # 0 /\ Decide(t, "ok")
       \/ /\ e.kind \in {"instance", "singleton"} /\ e.shared = 0
          /\ SetTop(t, [Top(t) EXCEPT !.pc = "check", !.reg = e.reg,
                                      !.fac = (e.kind = "singleton")])
  /\ UNCHANGED <<overwrite, registry, regs, creating, value, gate, calls, made>>

(* Fault: does not ask who is creating. *)
Fault_WaitForSelf(t) ==
  /\ AtTop(t, "check")
  /\ LET r == Top(t).reg IN
       \/ value[r] /\ GoOn(t, "publish")
       \/ ~value[r] /\ creating[r] # NoResolver /\ GoOn(t, "wait")
       \/ ~value[r] /\ creating[r] = NoResolver /\ GoOn(t, "gate")
  /\ UNCHANGED <<overwrite, registry, regs, creating, value, gate, calls, made>>

(* Under the state's mutex, before the gate. *)
CheckState(t) ==
  /\ AtTop(t, "check")
  /\ LET r == Top(t).reg IN
       \/ value[r] /\ GoOn(t, "publish")
       \/ ~value[r] /\ creating[r] = t /\ Decide(t, "CircularDependency")
       \/ ~value[r] /\ creating[r] \notin {t, NoResolver} /\ GoOn(t, "wait")
       \/ ~value[r] /\ creating[r] = NoResolver /\ GoOn(t, "gate")
  /\ UNCHANGED <<overwrite, registry, regs, creating, value, gate, calls, made>>

WaitForCreator(t) ==
  /\ AtTop(t, "wait") /\ creating[Top(t).reg] = NoResolver
  /\ GoOn(t, IF value[Top(t).reg] THEN "publish" ELSE "gate")
  /\ UNCHANGED <<overwrite, registry, regs, creating, value, gate, calls, made>>

GateEnter(t) ==
  /\ AtTop(t, "gate") /\ (gate.depth = 0 \/ gate.owner = t)
  /\ gate' = [owner |-> t, depth |-> gate.depth + 1]
  /\ SetTop(t, [Top(t) EXCEPT !.pc = "recheck", !.gated = TRUE])
  /\ UNCHANGED <<overwrite, registry, regs, creating, value, calls, made>>

(* Fault: trusts what was seen before the gate. *)
Fault_GateOnly(t) ==
  /\ AtTop(t, "recheck")
  /\ creating' = [creating EXCEPT ![Top(t).reg] = t]
  /\ GoOn(t, "factory")
  /\ UNCHANGED <<overwrite, registry, regs, value, gate, calls, made>>

(* Under the state's mutex, behind the gate: publish the value if there is  *)
(* one, else become the creator.  "Under the gate, only this thread should  *)
(* be able to be creating", and this thread gave up before the gate if it   *)
(* was: WaitsAreShort shows that nobody meets 1449 to 1467.                 *)
Recheck(t) ==
  /\ AtTop(t, "recheck")
  /\ LET r == Top(t).reg IN
       \/ value[r] /\ GoOn(t, "publish") /\ UNCHANGED creating
       \/ /\ ~value[r] /\ creating[r] = NoResolver
          /\ creating' = [creating EXCEPT ![r] = t]
          /\ GoOn(t, "factory")
  /\ UNCHANGED <<overwrite, registry, regs, value, gate, calls, made>>

(* A state fetched from an entry that is not a factory has no factory to    *)
(* call: the result is null.                                                *)
FactoryFails(t, code) ==
  /\ AtTop(t, "factory")
  /\ Top(t).fac \/ code = "FactoryReturnedNull"
  /\ creating' = [creating EXCEPT ![Top(t).reg] = NoResolver]
  /\ Decide(t, code)
  /\ UNCHANGED <<overwrite, registry, regs, value, gate, calls, made>>

FactoryMakes(t) ==
  /\ AtTop(t, "factory") /\ Top(t).fac
  /\ creating' = [creating EXCEPT ![Top(t).reg] = NoResolver]
  /\ value' = [value EXCEPT ![Top(t).reg] = TRUE]
  /\ made' = [made EXCEPT ![Top(t).reg] = @ + 1]
  /\ GoOn(t, "publish")
  /\ UNCHANGED <<overwrite, registry, regs, gate, calls>>

SameEntry(t) == Entry(t).kind = "singleton" /\ Entry(t).reg = Top(t).reg

PublishSingleton(t) ==
  /\ AtTop(t, "publish")
  /\ \/ ~SameEntry(t) /\ Decide(t, "ServiceNotFound") /\ UNCHANGED registry
     \/ /\ SameEntry(t)
        /\ registry' = [registry EXCEPT ![Top(t).loc][Top(t).key].shared = Top(t).reg]
        /\ Decide(t, "ok")
  /\ UNCHANGED <<overwrite, regs, creating, value, gate, calls, made>>

GateExit ==
  [owner |-> IF gate.depth = 1 THEN NoResolver ELSE gate.owner, depth |-> gate.depth - 1]

(* The destructor of the gate's Guard runs when the call returns. *)
ResolveReturns(t) ==
  /\ AtTop(t, "return")
  /\ gate' = IF Top(t).gated THEN GateExit ELSE gate
  /\ frames' = [frames EXCEPT ![t] = SubSeq(@, 1, Len(@) - 1)]
  /\ UNCHANGED <<overwrite, registry, regs, creating, value, calls, made>>

-----------------------------------------------------------------------------
ResolverStep(t) ==
  \/ (\E op \in Ops : LookUp(t, op)) \/ AskParent(t) \/ FetchState(t) \/ CheckState(t)
  \/ WaitForCreator(t) \/ GateEnter(t) \/ Recheck(t)
  \/ FactoryMakes(t) \/ PublishSingleton(t) \/ ResolveReturns(t)
  \/ \E code \in {"FactoryReturnedNull", "FactoryThrew"} : FactoryFails(t, code)
  \/ \E code \in {"ok", "FactoryReturnedNull", "FactoryThrew"} : TransientReturns(t, code)

ServicesNext ==
  \/ \E l \in Locators, k \in Keys :
       (\E kind \in EntryKinds : RegisterService(l, k, kind)) \/ Unregister(l, k)
  \/ \E l \in Locators : ClearServices(l)
  \/ \E t \in Resolvers :
       \/ \E l \in Locators, k \in Keys : ResolveCall(t, l, k)
       \/ ResolverStep(t)

ServicesSpec == ServicesInit /\ [][ServicesNext]_servicesVars

-----------------------------------------------------------------------------
Entries == [kind : EntryKinds \cup {"none"}, reg : 0 .. MaxRegs, shared : 0 .. MaxRegs]

Frames ==
  [loc : Locators, key : Keys, reg : 0 .. MaxRegs, fac : BOOLEAN, gated : BOOLEAN,
   pc : {"find", "transient", "state", "check", "wait", "gate", "recheck", "factory",
         "publish", "return"}, code : Codes]

ServicesTypeOK ==
  /\ overwrite \in BOOLEAN
  /\ registry \in [Locators -> [Keys -> Entries]]
  /\ regs \in 0 .. MaxRegs
  /\ creating \in [Regs -> Resolvers \cup {NoResolver}]
  /\ value \in [Regs -> BOOLEAN]
  /\ gate \in [owner : Resolvers \cup {NoResolver}, depth : 0 .. MaxNest]
  /\ \A t \in Resolvers : \A i \in 1 .. Len(frames[t]) : frames[t][i] \in Frames
  /\ calls \in 0 .. MaxCalls
  /\ made \in [Regs -> Nat]

(* "Factory execution is guaranteed exactly once per registration": once    *)
(* it has made an object it is never run again, whoever resolves, removes   *)
(* or replaces the entry meanwhile.                                         *)
SingletonMadeOnce == \A r \in Regs : made[r] <= 1

(* The singleton factories that are running at one time belong to the call  *)
(* chain of one thread, the owner of the gate.                              *)
OneChainOfFactories ==
  \A t \in Resolvers : \A i \in 1 .. Len(frames[t]) :
    frames[t][i].pc = "factory" =>
      gate.owner = t /\ creating[frames[t][i].reg] = t

(* What an entry caches was made by its own factory: an object created for  *)
(* a registration that was removed or replaced meanwhile is not published   *)
(* under the new one.                                                       *)
CachedObjectIsOwn ==
  \A l \in Locators, k \in Keys : registry[l][k].shared \in {0, registry[l][k].reg}

(* CircularDependency is reported only to a call that a factory of the very *)
(* registration is waiting for.                                             *)
CircularityIsReal ==
  \A t \in Resolvers : AtTop(t, "return") /\ Top(t).code = "CircularDependency" =>
    \E i \in 1 .. Len(frames[t]) - 1 :
      frames[t][i].pc = "factory" /\ frames[t][i].reg = Top(t).reg

(* A thread that has to wait, for the creator of a singleton or for the    *)
(* gate, waits for another one that can go on, whatever the factories       *)
(* resolve: no ring of waiting threads, and nobody waits for itself or for  *)
(* a creator while it holds the gate.                                       *)
WaitsFor(t) ==
  CASE AtTop(t, "wait") -> creating[Top(t).reg]
    [] AtTop(t, "recheck") /\ ~value[Top(t).reg] -> creating[Top(t).reg]
    [] AtTop(t, "gate") /\ gate.depth > 0 /\ gate.owner # t -> gate.owner
    [] OTHER -> NoResolver

WaitsAreShort ==
  \A t \in Resolvers : WaitsFor(t) # NoResolver =>
    ~AtTop(t, "recheck") /\ WaitsFor(t) # t /\ WaitsFor(WaitsFor(t)) = NoResolver

(* Factories, which run without the locator's locks, are run one chain at a *)
(* time, once per singleton, and what they made stays their own.            *)
SingletonsAreSound == SingletonMadeOnce /\ OneChainOfFactories /\ CachedObjectIsOwn

(* Who waits for a creation waits for one that ends, and who is told of a   *)
(* circularity is in one.                                                   *)
WaitsAreSound == WaitsAreShort /\ CircularityIsReal
=============================================================================
