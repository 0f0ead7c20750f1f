---------------------------- MODULE IdGenerator ----------------------------
(* IdGenerator: identifiers are drawn from a counter or taken back from a   *)
(* recycling policy, of which the sparse one owns the whole domain as free  *)
(* intervals and lets callers claim an identifier by value.  Every call     *)
(* holds the policy's lock throughout, so a call is a step.                 *)
EXTENDS Integers, FiniteSets, Sequences, FiniteSetsExt

CONSTANTS
  MaxId,      \* the largest value of the underlying type
  mBaseId,    \* the first identifier
  IdGuards,   \* IdGuard objects
  Caller, Nobody

ASSUME IdAssumption ==
  /\ MaxId \in Nat /\ mBaseId \in 0 .. MaxId - 1
  /\ Caller # Nobody /\ {Caller, Nobody} \cap IdGuards = {}

VARIABLES
  idPolicies,  \* the policies, mUpperBound, and whether MaxId is a sentinel
  gen,         \* the generator: counter, active identifiers and pool
  guardIds,    \* the identifier that each guard holds, or NoId
  owner,       \* history: to whom each identifier was given
  ahead,       \* history: what had come back before each, and is still free
  used         \* history: the identifiers given to anybody since the start

idVars == <<idPolicies, gen, guardIds, owner, ahead, used>>

NoId == -1
Ids == mBaseId .. MaxId
Sparse == idPolicies.recycling = "sparse"
mUpperBound == idPolicies.upper
Domain == mBaseId .. mUpperBound

(* BoundedSequentialAllocationPolicy ends at its bound, the other at MaxId. *)
LastId == IF idPolicies.allocation = "bounded" THEN mUpperBound ELSE MaxId

FreshIds(upper) ==
  [next |-> mBaseId, exhausted |-> FALSE, saturated |-> FALSE,
   active |-> {}, max |-> 0, maxValid |-> FALSE, token |-> [i \in Ids |-> Nobody],
   pool |-> <<>>, heap |-> {}, free |-> {[lower |-> mBaseId, upper |-> upper]}, credits |-> 0]

(* Only a policy that is told of a bound can have one below the default,    *)
(* which is MaxId, or one less where that is the sentinel.                  *)
IdInit ==
  /\ idPolicies \in {p \in [allocation : {"sequential", "bounded"},
                            recycling : {"fifo", "min", "none", "sparse"},
                            sentinel : BOOLEAN, upper : {MaxId - 1, MaxId}] :
                       /\ p.sentinel => p.upper = MaxId - 1
                       /\ p.upper = MaxId - 1 => \/ p.sentinel
                                                 \/ p.allocation = "bounded"
                                                 \/ p.recycling = "sparse"}
  /\ gen = FreshIds(idPolicies.upper)
  /\ guardIds = [g \in IdGuards |-> NoId]
  /\ owner = [i \in Ids |-> Nobody]
  /\ ahead = [i \in Ids |-> {}] /\ used = {}

-----------------------------------------------------------------------------
(* ActiveIdTracker, whose maximum is found again when it is asked for. *)
Tracked(s, i) ==
  [s EXCEPT !.active = @ \cup {i},
            !.max = IF s.active = {} \/ (s.maxValid /\ i > @) THEN i ELSE @,
            !.maxValid = @ \/ s.active = {}]

Untracked(s, ids) ==
  [s EXCEPT !.active = @ \ ids,
            !.token = [i \in Ids |-> IF i \in ids THEN Nobody ELSE @[i]],
            !.maxValid = @ /\ s.max \notin ids]

max_element(s) ==
  IF s.active = {} \/ s.maxValid THEN s ELSE [s EXCEPT !.max = Max(s.active), !.maxValid = TRUE]

(* The counter of the sequential policies. *)
next_id(s) ==
  LET first == s.active = {}
      candidate == IF first THEN s.next ELSE Max({s.next, s.max + 1})
      spent == s.exhausted \/ (~first /\ s.max >= LastId)
  IN  IF spent
      THEN [state |-> [s EXCEPT !.exhausted = idPolicies.allocation = "sequential"], id |-> NoId]
      ELSE [state |-> [s EXCEPT !.next = IF candidate = LastId THEN candidate ELSE candidate + 1,
                                !.saturated = @ \/ candidate = LastId],
            id |-> candidate]

revert(s, count) ==
  LET rewound == IF s.saturated THEN count - 1 ELSE count IN
  IF count = 0 THEN s
  ELSE [s EXCEPT !.exhausted = FALSE, !.saturated = FALSE,
                 !.next = Max({mBaseId, @ - rewound})]

(* The sparse policy: disjoint intervals of free identifiers, and a credit  *)
(* for every active one, which pays for the interval its return may need.   *)
FreeIds(s) == UNION {f.lower .. f.upper : f \in s.free}

Interval(lower, upper) == IF lower > upper THEN {} ELSE {[lower |-> lower, upper |-> upper]}

claim_at(s, i) ==
  LET f == CHOOSE x \in s.free : i \in x.lower .. x.upper
  IN  [s EXCEPT !.free = (@ \ {f}) \cup Interval(f.lower, i - 1) \cup Interval(i + 1, f.upper),
                !.credits = @ + 1]

Merged(s, i) ==
  LET left == {f \in s.free : i > mBaseId /\ f.upper = i - 1}
      right == {f \in s.free : i < mUpperBound /\ f.lower = i + 1}
      Lower == Min({i} \cup {f.lower : f \in left})
      Upper == Max({i} \cup {f.upper : f \in right})
  IN  [s EXCEPT !.free = (@ \ (left \cup right)) \cup Interval(Lower, Upper),
                !.credits = @ - 1]

(* The immediate policy queues what comes back, the minimal one sorts it. *)
add_recycled(s, i) ==
  IF Sparse THEN Merged(s, i)
  ELSE IF idPolicies.recycling = "fifo" THEN [s EXCEPT !.pool = Append(@, i)]
  ELSE IF idPolicies.recycling = "min" THEN [s EXCEPT !.heap = @ \cup {i}]
  ELSE s

restore_recycled(s, i) ==
  IF idPolicies.recycling = "fifo" THEN [s EXCEPT !.pool = <<i>> \o @] ELSE add_recycled(s, i)

-----------------------------------------------------------------------------
(* An identifier taken out of the policies, not yet active; the sentinel,   *)
(* though drawn, is nobody's.                                               *)
Recycled(s) ==
  IF Sparse
  THEN LET lowest == Min({f.lower : f \in s.free})
       IN  [state |-> claim_at(s, lowest), id |-> lowest, pooled |-> TRUE]
  ELSE IF s.heap # {}
       THEN [state |-> [s EXCEPT !.heap = @ \ {Min(@)}], id |-> Min(s.heap), pooled |-> TRUE]
       ELSE [state |-> [s EXCEPT !.pool = Tail(@)], id |-> Head(s.pool), pooled |-> TRUE]

Drawn(s) ==
  LET drawn == next_id(max_element(s))
  IN  [state |-> drawn.state, pooled |-> FALSE,
       id |-> IF idPolicies.sentinel /\ drawn.id = MaxId THEN NoId ELSE drawn.id]

NextTaken(s) ==
  IF IF Sparse THEN s.free # {} ELSE s.heap # {} \/ s.pool # <<>> THEN Recycled(s)
  ELSE IF Sparse THEN [state |-> s, id |-> NoId, pooled |-> TRUE]
  ELSE Drawn(s)

(* It cannot be made active after all. *)
PutBack(t) ==
  IF t.id = NoId THEN t.state
  ELSE IF t.pooled THEN restore_recycled(t.state, t.id) ELSE revert(t.state, 1)

Overflows == NextTaken(gen).id = NoId

Give(ids, o) ==
  /\ owner' = [i \in Ids |-> IF i \in ids THEN o ELSE owner[i]]
  /\ ahead' = [i \in Ids |-> IF i \in ids THEN {} ELSE ahead[i] \ ids]
  /\ used' = used \cup ids

Holds(i, o) == guardIds' = IF o = Caller THEN guardIds ELSE [guardIds EXCEPT ![o] = i]

Guarded(s, i, o) == IF o = Caller THEN s ELSE [s EXCEPT !.token[i] = o]

FreeGuard(o) == o # Caller => guardIds[o] = NoId

OwnersStay == UNCHANGED <<idPolicies, guardIds, owner, ahead, used>>

(* generate(), and scoped_id() of a guard. *)
Generate(o) ==
  LET t == NextTaken(gen) IN
  /\ FreeGuard(o) /\ t.id # NoId
  /\ gen' = Guarded(Tracked(t.state, t.id), t.id, o)
  /\ Give({t.id}, o) /\ Holds(t.id, o)
  /\ UNCHANGED idPolicies

GenerateFails == Overflows /\ gen' = NextTaken(gen).state /\ OwnersStay

GenerateThrows == ~Overflows /\ gen' = PutBack(NextTaken(gen)) /\ OwnersStay

(* claim() and scoped_claim(); refused for whatever is not free. *)
Claim(i, o) ==
  /\ Sparse /\ FreeGuard(o)
  /\ i \in FreeIds(gen) \ gen.active
  /\ gen' = Guarded(Tracked(claim_at(gen, i), i), i, o)
  /\ Give({i}, o) /\ Holds(i, o)
  /\ UNCHANGED idPolicies

-----------------------------------------------------------------------------
Fresh(taken) == {k \in DOMAIN taken : ~taken[k].pooled}

(* All are made inactive, then what was pooled goes back, the last first.   *)
rollback_batch(s, taken) ==
  LET n == Len(taken)
      restored[k \in 0 .. n] ==
        IF k = 0 THEN Untracked(s, {taken[m].id : m \in 1 .. n})
        ELSE LET t == taken[n + 1 - k]
             IN  IF t.pooled THEN restore_recycled(restored[k - 1], t.id) ELSE restored[k - 1]
  IN  revert(restored[n], Cardinality(Fresh(taken)))

(* One more is asked for, unless that failed before; to commit it may throw. *)
Another(b, throws) ==
  LET t == NextTaken(b.state) IN
  IF b.failed THEN b
  ELSE IF t.id = NoId THEN [b EXCEPT !.state = t.state, !.failed = TRUE]
  ELSE IF throws THEN [b EXCEPT !.state = PutBack(t), !.failed = TRUE]
  ELSE [state |-> Tracked(t.state, t.id), failed |-> FALSE,
        taken |-> Append(b.taken, [id |-> t.id, pooled |-> t.pooled])]

(* The state after count identifiers were asked for, and which were taken;  *)
(* committing the last of them may throw.                                   *)
Batch(count, throws) ==
  LET after[k \in 0 .. count] ==
        IF k = 0 THEN [state |-> gen, taken |-> <<>>, failed |-> FALSE]
                 ELSE Another(after[k - 1], throws /\ k = count)
  IN  after[count]

Feasible(count) == count <= Cardinality(Domain) - Cardinality(gen.active)

GenerateBatch(count) ==
  LET b == Batch(count, FALSE) IN
  /\ Feasible(count) /\ ~b.failed
  /\ gen' = b.state
  /\ Give({b.taken[k].id : k \in DOMAIN b.taken}, Caller)
  /\ UNCHANGED <<idPolicies, guardIds>>

BatchFails(count, throws) ==
  LET b == Batch(count, throws) IN
  /\ Feasible(count) /\ b.failed
  /\ gen' = rollback_batch(b.state, b.taken)
  /\ OwnersStay

-----------------------------------------------------------------------------
Returned(s, i) == add_recycled(Untracked(s, {i}), i)

Waiting == {i \in used : owner[i] = Nobody}

ComesBack(i) ==
  /\ owner' = [owner EXCEPT ![i] = Nobody]
  /\ ahead' = [ahead EXCEPT ![i] = Waiting]

(* release(), by value, also of what a guard holds. *)
ReleaseId(i) ==
  /\ i \in gen.active
  /\ gen' = Returned(gen, i)
  /\ ComesBack(i)
  /\ UNCHANGED <<idPolicies, guardIds, used>>

(* release_batch() stops at the first that is not active. *)
ReleaseBatch(i, j) ==
  /\ i \in gen.active
  /\ IF j \in gen.active \ {i}
     THEN /\ gen' = Returned(Returned(gen, i), j)
          /\ owner' = [owner EXCEPT ![i] = Nobody, ![j] = Nobody]
          /\ ahead' = [ahead EXCEPT ![i] = Waiting, ![j] = Waiting \cup {i}]
     ELSE gen' = Returned(gen, i) /\ ComesBack(i)
  /\ UNCHANGED <<idPolicies, guardIds, used>>

(* Fault: trusts the identifier, whoever has it by now. *)
Fault_ReleaseById(g) == guardIds[g] \in gen.active

release_if_current(g) == guardIds[g] \in Ids /\ gen.token[guardIds[g]] = g

(* ~IdGuard() *)
GuardEnds(g) ==
  LET i == guardIds[g] IN
  /\ i # NoId
  /\ gen' = IF release_if_current(g) THEN Returned(gen, i) ELSE gen
  /\ IF owner[i] = g THEN ComesBack(i) ELSE UNCHANGED <<owner, ahead>>
  /\ guardIds' = [guardIds EXCEPT ![g] = NoId]
  /\ UNCHANGED <<idPolicies, used>>

(* The identifier becomes the caller's. *)
release_ownership(g) ==
  LET i == guardIds[g] IN
  /\ i # NoId
  /\ gen' = IF gen.token[i] = g THEN [gen EXCEPT !.token[i] = Nobody] ELSE gen
  /\ owner' = IF owner[i] = g THEN [owner EXCEPT ![i] = Caller] ELSE owner
  /\ guardIds' = [guardIds EXCEPT ![g] = NoId]
  /\ UNCHANGED <<idPolicies, ahead, used>>

ResetIds ==
  /\ gen' = FreshIds(mUpperBound)
  /\ owner' = [i \in Ids |-> Nobody]
  /\ ahead' = [i \in Ids |-> {}] /\ used' = {}
  /\ UNCHANGED <<idPolicies, guardIds>>

IdNext ==
  \/ \E o \in IdGuards \cup {Caller} : Generate(o) \/ \E i \in Ids : Claim(i, o)
  \/ GenerateFails \/ GenerateThrows
  \/ \E count \in 2 .. Cardinality(Ids) :
       GenerateBatch(count) \/ \E throws \in BOOLEAN : BatchFails(count, throws)
  \/ \E i \in Ids : ReleaseId(i) \/ \E j \in Ids : ReleaseBatch(i, j)
  \/ \E g \in IdGuards : GuardEnds(g) \/ release_ownership(g)
  \/ ResetIds

IdSpec == IdInit /\ [][IdNext]_idVars

-----------------------------------------------------------------------------
Pooled(s) == s.heap \cup Range(s.pool)

IdTypeOK ==
  /\ gen.next \in Ids /\ gen.active \subseteq Domain
  /\ gen.exhausted \in BOOLEAN /\ gen.saturated \in BOOLEAN
  /\ Pooled(gen) \subseteq Domain /\ FreeIds(gen) \subseteq Domain
  /\ gen.token \in [Ids -> IdGuards \cup {Nobody}]
  /\ guardIds \in [IdGuards -> Ids \cup {NoId}]
  /\ owner \in [Ids -> IdGuards \cup {Caller, Nobody}]

(* Active is what somebody has: a batch that fails, a call that throws and  *)
(* a guard that outlives its identifier take nothing from its next owner    *)
(* and leave nothing behind.                                                *)
OwnersAreKept ==
  /\ gen.active = {i \in Ids : owner[i] # Nobody}
  /\ gen.maxValid /\ gen.active # {} => gen.max = Max(gen.active)

(* With a pool, every identifier the counter has passed is in it or active, *)
(* in the order of return where that counts; without, none comes twice      *)
(* before the counter has come to its end.                                  *)
Passed == mBaseId .. (IF gen.saturated /\ gen.next = mUpperBound THEN gen.next ELSE gen.next - 1)

PoolIsDense ==
  /\ idPolicies.recycling \in {"fifo", "min"} =>
       /\ gen.active \cap Pooled(gen) = {} /\ gen.active \cup Pooled(gen) = Passed
       /\ Overflows => gen.active = Domain
  /\ idPolicies.recycling = "fifo" =>
       \A k \in 1 .. Len(gen.pool) : ahead[gen.pool[k]] = {gen.pool[m] : m \in 1 .. k - 1}
  /\ idPolicies.recycling = "none" => (NextTaken(gen).id \in used => NextTaken(gen).id = LastId)

(* The free intervals are as few as they can be, are the rest of the domain *)
(* and can take every active identifier back without an allocation.         *)
IntervalsAreSound ==
  Sparse =>
    /\ FreeIds(gen) = Domain \ gen.active
    /\ \A f, h \in gen.free : f # h => f.upper + 1 < h.lower \/ h.upper + 1 < f.lower
    /\ gen.credits = Cardinality(gen.active)

IdsAreSound == OwnersAreKept /\ PoolIsDense /\ IntervalsAreSound
=============================================================================
