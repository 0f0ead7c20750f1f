--------------------------- MODULE FeatureManager ---------------------------
(***************************************************************************)
(* include/fat_p/FeatureManager.h: features that require, imply, entail,    *)
(* preempt or conflict with each other.  enable(), disable(), replace() and *)
(* forceExclusive() plan the state they want, validate it and commit it in  *)
(* one critical section; a ScopedFeatureChange takes one to remember the    *)
(* state, one to change it, one to note what changed, and one to undo it.   *)
(*                                                                         *)
(* A plan is the set of features it wants on and the order it turned them   *)
(* off and on; planning is a function.  Features are numbers, visited in    *)
(* their order, as FlatSet does; so are those that the code takes from the  *)
(* table mFeatures in the order of their hashes.  MutuallyExclusive is      *)
(* checked wherever Conflicts is, and stands under its name.  The features  *)
(* are registered at the start.  A check that fails fails the whole plan,   *)
(* and nothing has changed then: where that shows, it is an outcome of its  *)
(* own.                                                                     *)
(***************************************************************************)
EXTENDS Naturals, Sequences, SequencesExt

CONSTANTS
  FeatureCount,
  kMaxValidationDepth,
  MaxEdges              \* bound: relationships added

ASSUME FeaturesAssumption ==
  FeatureCount \in Nat \ {0} /\ kMaxValidationDepth \in Nat /\ MaxEdges \in Nat

Features == 1 .. FeatureCount
Relationships == {"Requires", "Implies", "Entails", "Preempts", "Conflicts"}
Dependencies == {"Requires", "Implies", "Entails"}

VARIABLES
  rel,        \* rel[type]: the pairs <<from, to>> of FeatureNode::relationships
  enabled,    \* the features whose FeatureNode::enabled is set
  edges,      \* calls of addRelationship() that were accepted
  scope,      \* the ScopedFeatureChange: the state before, what it will undo
  changed     \* history: who has changed what since the scope began

featuresVars == <<rel, enabled, edges, scope, changed>>

NoScope == [at |-> "none", pre |-> {}, wasOn |-> {}, wasOff |-> {}]

(* What the operation of the scope changed; what others changed before the  *)
(* scope has compared the states, and after; what was changed back is not.  *)
NoChange == [own |-> {}, meanwhile |-> {}, since |-> {}]

FeaturesInit ==
  /\ rel = [type \in Relationships |-> {}]
  /\ enabled = {} /\ edges = 0 /\ scope = NoScope /\ changed = NoChange

Targets(type, f) == {g \in Features : <<f, g>> \in rel[type]}
Sources(type, f) == {g \in Features : <<g, f>> \in rel[type]}

-----------------------------------------------------------------------------
(* The features reached from S along pairs of R, S included. *)
Reached(R, S) ==
  {f \in Features : \A C \in SUBSET Features :
                     S \subseteq C /\ (\A p \in R : p[1] \in C => p[2] \in C) => f \in C}

(* addRelationshipUnlocked() *)
Contradicts(from, type, to) ==
  \/ type = "Preempts" /\ \E other \in Dependencies : to \in Targets(other, from)
  \/ type \in Dependencies /\ to \in Targets("Preempts", from)

addRelationship(from, type, to) ==
  /\ edges < MaxEdges
  /\ from # to /\ <<from, to>> \notin rel[type]
  /\ ~Contradicts(from, type, to)
  /\ type \in {"Preempts", "Entails"} => from \notin Reached(rel[type], {to})
  /\ rel' = [rel EXCEPT ![type] =
               @ \cup {<<from, to>>} \cup (IF type = "Conflicts" THEN {<<to, from>>} ELSE {})]
  /\ edges' = edges + 1
  /\ UNCHANGED <<enabled, scope, changed>>

-----------------------------------------------------------------------------
(* What a loop of n steps makes of start. *)
After(step, start, n) ==
  LET state[k \in 0 .. n] == IF k = 0 THEN start ELSE step[k][state[k - 1]] IN state[n]

(* TransactionPlan, and what a failed one is. *)
Plans == [ok : BOOLEAN, on : SUBSET Features,
          disableOrder : Seq(Features), enableOrder : Seq(Features)]

NewPlan(on) == [ok |-> TRUE, on |-> on, disableOrder |-> << >>, enableOrder |-> << >>]
Fail(plan) == [plan EXCEPT !.ok = FALSE]
TurnOff(plan, f) ==
  [plan EXCEPT !.on = @ \ {f}, !.disableOrder = Append(@, f)]
TurnOn(plan, f) ==
  [plan EXCEPT !.on = @ \cup {f}, !.enableOrder = Append(@, f)]

(* Fault: the feature that goes is counted with the owners that stay. *)
Fault_CountsItself(on, f, target) == FALSE

(* No other feature that is to be on entails the target. *)
Unowned(on, f, target) == \A g \in on \ {f} : target \notin Targets("Entails", g)

Uses(g, f) == f \in Targets("Requires", g) \cup Targets("Implies", g)

(* A call of a planning operator may nest as many more as kMaxValidationDepth *)
(* leaves to its depth.                                                     *)
Calls == 0 .. kMaxValidationDepth + 1

(* planDisableClosure(): first what requires or implies f, then f, then     *)
(* the features it entails that nobody else does; nested is what a call     *)
(* from inside does.                                                        *)
DisableClosure(nested, f, plan) ==
  LET users == [g \in Features |-> [p \in Plans |->
                  IF p.ok /\ g \in p.on \ {f} /\ Uses(g, f) THEN nested[g][p] ELSE p]]
      entailed == [g \in Features |-> [p \in Plans |->
                     IF p.ok /\ g \in Targets("Entails", f) /\ Unowned(p.on, f, g)
                     THEN nested[g][p] ELSE p]]
      alone == After(users, plan, FeatureCount)
  IN  IF f \notin plan.on THEN plan
      ELSE IF alone.ok THEN After(entailed, TurnOff(alone, f), FeatureCount)
      ELSE alone

PlanDisable[calls \in Calls] ==
  [f \in Features |-> [plan \in Plans |->
     IF calls = 0 THEN Fail(plan) ELSE DisableClosure(PlanDisable[calls - 1], f, plan)]]

(* planEnableRecursive(): what f requires, implies and entails, then what   *)
(* it preempts, then the conflicts and the check, then f.  The chain is the *)
(* features that are being enabled.                                         *)
EnableClosure(nested, disable, f, plan, chain) ==
  LET needed(type) == [g \in Features |-> [p \in Plans |->
                         IF p.ok /\ g \in Targets(type, f)
                         THEN nested[g][p][chain \cup {f}] ELSE p]]
      preempted == [g \in Features |-> [p \in Plans |->
                      IF p.ok /\ g \in Targets("Preempts", f) THEN disable[g][p] ELSE p]]
      required == After(needed("Requires"), plan, FeatureCount)
      implied == After(needed("Implies"), required, FeatureCount)
      complete == After(needed("Entails"), implied, FeatureCount)
      ready == After(preempted, complete, FeatureCount)
  IN  IF f \in plan.on THEN plan
      ELSE IF Sources("Preempts", f) \cap plan.on # {} \/ f \in chain THEN Fail(plan)
      ELSE IF ready.ok /\ Targets("Conflicts", f) \cap ready.on = {} THEN TurnOn(ready, f)
      ELSE Fail(ready)

PlanEnable[calls \in Calls] ==
  [f \in Features |-> [plan \in Plans |-> [chain \in SUBSET Features |->
     IF calls = 0 THEN Fail(plan)
     ELSE EnableClosure(PlanEnable[calls - 1], PlanDisable[calls - 1], f, plan, chain)]]]

(* validateDesiredState(), the checks apart. *)
Consistent(on) ==
  \A f \in on :
    /\ \A type \in Dependencies : Targets(type, f) \subseteq on
    /\ \A type \in {"Preempts", "Conflicts"} : Targets(type, f) \cap on = {}

Validated(plan) == IF plan.ok /\ ~Consistent(plan.on) THEN Fail(plan) ELSE plan

-----------------------------------------------------------------------------
(* "Batch root policy": every root is on in the end. *)
WithRoots(names, plan) == IF plan.ok /\ ~(ToSet(names) \subseteq plan.on) THEN Fail(plan) ELSE plan

Enabled(f, plan) ==
  IF plan.ok THEN PlanEnable[kMaxValidationDepth + 1][f][plan][{}] ELSE plan

(* enable(name) is batchEnable({name}). *)
BatchEnable(names) ==
  LET roots == [i \in 1 .. Len(names) |-> [p \in Plans |-> Enabled(names[i], p)]]
  IN  Validated(WithRoots(names, After(roots, NewPlan(enabled), Len(names))))

(* The cascade of batchDisable(), until nothing changes: what was disabled  *)
(* in this transaction no longer entails it, and nobody else does.          *)
Abandoned(plan) ==
  {t \in plan.on : \E f \in ToSet(plan.disableOrder) :
                     t \in Targets("Entails", f) /\ Unowned(plan.on, f, t)}

Cascade(plan) ==
  LET step == [n \in Features |-> [p \in Plans |->
                 IF Abandoned(p) = {} THEN p ELSE TurnOff(p, Min(Abandoned(p)))]]
  IN  After(step, plan, FeatureCount)

Dropped(f, plan) == IF f \in plan.on THEN TurnOff(plan, f) ELSE plan

(* disable(name) is batchDisable({name}).  What is still required or        *)
(* implied may not go: Consistent() refuses the same plans (2400 to 2443).  *)
BatchDisable(names) ==
  LET drop == [i \in 1 .. Len(names) |-> [p \in Plans |-> Dropped(names[i], p)]]
  IN  Validated(Cascade(After(drop, NewPlan(enabled), Len(names))))

Replace(from, to) ==
  LET plan == NewPlan(enabled)
      without == PlanDisable[kMaxValidationDepth + 1][from][plan]
  IN  IF from = to \/ from \notin enabled THEN Fail(plan)
      ELSE Validated(WithRoots(<<to>>, Enabled(to, without)))

ForceExclusive(f) ==
  LET drop == [g \in Features |-> [p \in Plans |-> Dropped(g, p)]]
  IN  Validated(Enabled(f, After(drop, NewPlan(enabled), FeatureCount)))

(* buildTransactionChanges(): what the observers are told. *)
Changes(plan) ==
  LET order == plan.disableOrder \o plan.enableOrder
      step == [i \in 1 .. Len(order) |-> [told \in Seq(Features) |->
                 IF (order[i] \in enabled) # (order[i] \in plan.on)
                 THEN Append(told, order[i]) ELSE told]]
  IN  After(step, << >>, Len(order))

-----------------------------------------------------------------------------
(* detectCyclesUnlocked(): a depth-first search with a list of work, the    *)
(* last item of which is the next.                                          *)
OnPath(visit) == visit = "Visiting"

Walks == [found : {"nothing", "cycle", "depth"},
          visits : [Features -> {"Unvisited", "Visiting", "Visited"}],
          work : Seq([kind : {"Enter", "Exit"}, name : Features, depth : Nat])]

Needs == UNION {rel[type] : type \in Dependencies}
NeededBy(f) == {g \in Features : <<f, g>> \in Needs}

Listed(S) ==
  LET step == [f \in Features |-> [s \in Seq(Features) |-> IF f \in S THEN Append(s, f) ELSE s]]
  IN  After(step, << >>, FeatureCount)

(* What f needs of those that are not visited, the last to be visited first. *)
ToVisit(f, visits) ==
  LET unvisited(type) == Listed({g \in Targets(type, f) : visits[g] = "Unvisited"})
  IN  Reverse(unvisited("Requires") \o unvisited("Implies") \o unvisited("Entails"))

Visit(w) ==
  LET item == Last(w.work)
      f == item.name
      rest == Front(w.work)
      entered == [w.visits EXCEPT ![f] = "Visiting"]
      ahead == ToVisit(f, entered)
  IN  IF item.kind = "Exit" THEN [w EXCEPT !.visits[f] = "Visited", !.work = rest]
      ELSE IF item.depth > kMaxValidationDepth THEN [w EXCEPT !.found = "depth"]
      ELSE IF OnPath(w.visits[f]) THEN [w EXCEPT !.found = "cycle"]
      ELSE IF w.visits[f] = "Visited" THEN [w EXCEPT !.work = rest]
      ELSE IF \E g \in NeededBy(f) : OnPath(entered[g]) THEN [w EXCEPT !.found = "cycle"]
      ELSE [w EXCEPT !.visits = entered,
                     !.work = Append(rest, [item EXCEPT !.kind = "Exit"])
                                \o [i \in 1 .. Len(ahead) |->
                                      [kind |-> "Enter", name |-> ahead[i], depth |-> item.depth + 1]]]

(* A feature is entered once, and puts an item on the list for itself and   *)
(* at most three for each feature: the list is empty after so many visits.  *)
MaxVisits == 1 + FeatureCount * (1 + 3 * FeatureCount)

Walk(f, start) ==
  LET step == [n \in 1 .. MaxVisits |-> [w \in Walks |->
                 IF w.found # "nothing" \/ w.work = << >> THEN w ELSE Visit(w)]]
  IN  After(step, [start EXCEPT !.work = <<[kind |-> "Enter", name |-> f, depth |-> 0]>>], MaxVisits)

Detected ==
  LET step == [f \in Features |-> [w \in Walks |->
                 IF w.found # "nothing" \/ w.visits[f] # "Unvisited" THEN w ELSE Walk(f, w)]]
      start == [found |-> "nothing", visits |-> [f \in Features |-> "Unvisited"], work |-> << >>]
  IN  After(step, start, FeatureCount).found

-----------------------------------------------------------------------------
(* Committing a plan; a plan that fails changes nothing. *)
Commit(plan) == plan.ok /\ enabled' = plan.on

Batches == {<<f>> : f \in Features} \cup {s \in Features \X Features : s[1] # s[2]}

Transaction ==
  \/ \E names \in Batches : Commit(BatchEnable(names))
  \/ \E names \in Batches : Commit(BatchDisable(names))
  \/ \E from, to \in Features : Commit(Replace(from, to))
  \/ \E f \in Features : Commit(ForceExclusive(f))

(* A step that does not belong to the scope. *)
ByOthers ==
  LET moved == SymDiff(enabled, enabled') IN
  changed' = CASE scope.at = "none" -> changed
               [] scope.at \in {"operate", "compare"} ->
                    [changed EXCEPT !.meanwhile = SymDiff(@, moved)]
               [] scope.at = "alive" -> [changed EXCEPT !.since = SymDiff(@, moved)]

Transact == Transaction /\ ByOthers /\ UNCHANGED <<rel, edges, scope>>

(* The constructor of ScopedFeatureChange, in three critical sections. *)
ScopeSnapshot ==
  /\ scope.at = "none"
  /\ scope' = [NoScope EXCEPT !.at = "operate", !.pre = enabled]
  /\ UNCHANGED <<rel, enabled, edges, changed>>

ScopeOperate(plan) ==
  /\ scope.at = "operate"
  /\ \/ /\ plan.ok /\ enabled' = plan.on /\ scope' = [scope EXCEPT !.at = "compare"]
        /\ changed' = [changed EXCEPT !.own = SymDiff(enabled, plan.on)]
     \/ UNCHANGED enabled /\ scope' = NoScope /\ changed' = NoChange
  /\ UNCHANGED <<rel, edges>>

ScopeCompare ==
  /\ scope.at = "compare"
  /\ scope' = [scope EXCEPT !.at = "alive", !.pre = {}, !.wasOn = scope.pre \ enabled,
                            !.wasOff = enabled \ scope.pre]
  /\ UNCHANGED <<rel, enabled, edges, changed>>

(* What is still as the scope left it goes back to what it was; what is not *)
(* is back already.                                                         *)
RolledBack == (enabled \cup scope.wasOn) \ scope.wasOff

(* Fault: the destructor undoes what can be undone and leaves the rest. *)
Fault_UndoInPart ==
  /\ scope.at = "alive"
  /\ \E undo \in SUBSET (scope.wasOn \cup scope.wasOff) :
       /\ Consistent((enabled \cup (scope.wasOn \cap undo)) \ (scope.wasOff \cap undo))
       /\ enabled' = (enabled \cup (scope.wasOn \cap undo)) \ (scope.wasOff \cap undo)
  /\ scope' = NoScope /\ changed' = NoChange
  /\ UNCHANGED <<rel, edges>>

(* Its destructor: all of it or, if that were inconsistent, nothing. *)
ScopeEnds ==
  /\ scope.at = "alive"
  /\ \/ Consistent(RolledBack) /\ enabled' = RolledBack
     \/ UNCHANGED enabled
  /\ scope' = NoScope /\ changed' = NoChange
  /\ UNCHANGED <<rel, edges>>

(* clear(), after which the features are registered again. *)
clear ==
  /\ rel' = [type \in Relationships |-> {}]
  /\ enabled' = {} /\ edges' = 0 /\ ByOthers
  /\ UNCHANGED scope

FeaturesNext ==
  \/ \E from, to \in Features, type \in Relationships : addRelationship(from, type, to)
  \/ Transact \/ clear
  \/ ScopeSnapshot \/ ScopeCompare \/ ScopeEnds
  \/ \E f \in Features : ScopeOperate(BatchEnable(<<f>>))
  \/ \E f \in Features : ScopeOperate(BatchDisable(<<f>>))

FeaturesSpec == FeaturesInit /\ [][FeaturesNext]_featuresVars
-----------------------------------------------------------------------------
(* The variables keep their types, and a scope undoes no change both ways. *)
FeaturesTypeOK ==
  /\ rel \in [Relationships -> SUBSET (Features \X Features)]
  /\ enabled \subseteq Features
  /\ edges \in 0 .. MaxEdges
  /\ scope \in [at : {"none", "operate", "compare", "alive"}, pre : SUBSET Features,
               wasOn : SUBSET Features, wasOff : SUBSET Features]
  /\ scope.wasOn \cap scope.wasOff = {}
  /\ changed \in [own : SUBSET Features, meanwhile : SUBSET Features, since : SUBSET Features]

(* The next three properties are about the relationships and what is on,    *)
(* which a scope under way shares with other states.                        *)
Settled == edges > 0 /\ scope = NoScope

(* validate() reports a cycle of dependencies only if there is one, finds   *)
(* no fault only if there is none, in whatever order the features are       *)
(* visited and shared, and too great a depth only among so many features.   *)
CycleDetectionIsExact ==
  Settled =>
  /\ Detected = "nothing" => \A f \in Features : f \notin Reached(Needs, NeededBy(f))
  /\ Detected = "cycle" => \E f \in Features : f \in Reached(Needs, NeededBy(f))
  /\ Detected = "depth" => FeatureCount > kMaxValidationDepth

(* What a successful transaction did has a cause: it turned features on for *)
(* the asked ones, it turned off what was dropped or is preempted and what  *)
(* hangs on that, and an entailed feature stays on only if it is entailed   *)
(* or needed still ("ref-counted cascade").                                 *)
HangsOn == {<<p[2], p[1]>> : p \in rel["Requires"] \cup rel["Implies"]} \cup rel["Entails"]

Explained(plan, asked, dropped) ==
  LET off == enabled \ plan.on
      preempted == {f \in Features : Sources("Preempts", f) \cap plan.on # {}} IN
  /\ asked \subseteq plan.on
  /\ plan.on \ enabled \subseteq Reached(Needs, asked)
  /\ off \subseteq Reached(HangsOn, dropped \cup preempted)
  /\ \A f \in plan.on : Sources("Entails", f) \cap off # {} =>
       Sources("Entails", f) \cap plan.on # {} \/ f \in Reached(Needs, asked)

ChangesHaveACause ==
  Settled =>
  /\ \A names \in Batches :
       /\ LET p == BatchEnable(names) IN p.ok => Explained(p, ToSet(names), {})
       /\ LET p == BatchDisable(names) IN p.ok => Explained(p, {}, ToSet(names))
  /\ \A from, to \in Features :
       LET p == Replace(from, to) IN p.ok => Explained(p, {to}, {from})
  /\ \A f \in Features :
       LET p == ForceExclusive(f) IN p.ok => p.on = Reached(Needs, {f})

(* The batch observers are told of every feature whose state changed, and   *)
(* of no other, though a plan may turn features off and on again.           *)
ReportsAreTrue ==
  Settled =>
  LET told(p) == p.ok => ToSet(Changes(p)) = (enabled \ p.on) \cup (p.on \ enabled) IN
  /\ \A names \in Batches : told(BatchEnable(names)) /\ told(BatchDisable(names))
  /\ \A from, to \in Features : told(Replace(from, to)) /\ told(ForceExclusive(to))

(* The end of a scope undoes what its operation changed and nobody has      *)
(* changed since, cascades included, or nothing at all; what others changed *)
(* and left changed after it had compared the states stays, and the state   *)
(* it makes satisfies the relationships there are then.  A scope that was   *)
(* alone restores the state that it found.  What others changed while it    *)
(* was under construction it takes for its own, though line 1619 says that  *)
(* rollback considers what "this guard set".                                *)
Ending == scope.at = "alive" /\ scope'.at = "none"
ScopeUndid == SymDiff(enabled, enabled')

ScopesUndoTheirOwn ==
  [][Ending /\ ScopeUndid # {} =>
       /\ ScopeUndid = SymDiff(changed.own, changed.meanwhile) \ changed.since
       /\ Consistent(enabled)']_featuresVars

(* A plan is refused for a cycle only if there is one, does nothing that    *)
(* was not asked for, and is reported as it was carried out.                *)
PlansAreSound == CycleDetectionIsExact /\ ChangesHaveACause /\ ReportsAreTrue
=============================================================================
