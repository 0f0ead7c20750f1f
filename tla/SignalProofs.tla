---------------------------- MODULE SignalProofs ----------------------------
(***************************************************************************)
(* Theorems about Signal, for any finite number of threads, any slots,      *)
(* connections and bounds, reentrant to any depth below the bound: the      *)
(* depth counts the emissions, no connection is lost, none stays parked,    *)
(* and the list an emission iterates does not change under it.              *)
(***************************************************************************)
EXTENDS Signal, RingLemmas, FiniteSetTheorems, SequenceTheorems, WellFoundedInduction

-----------------------------------------------------------------------------
(* Lists of slots. *)
ActiveIn(q) == {q[i].id : i \in {j \in 1 .. Len(q) : q[j].active}}
DistinctIds(q) == \A i, j \in 1 .. Len(q) : q[i].id = q[j].id => i = j
Sorted(q) == \A i, j \in 1 .. Len(q) : i < j => q[i].priority >= q[j].priority

(* r is what q has at the indices of K, in their order. *)
PartOf(q, r, K, p) ==
  /\ p \in [1 .. Len(r) -> K]
  /\ \A i \in 1 .. Len(r) : r[i] = q[p[i]]
  /\ \A i, j \in 1 .. Len(r) : i < j => p[i] < p[j]
  /\ \A k \in K : \E i \in 1 .. Len(r) : p[i] = k

LEMMA IdsAre ==
  ASSUME NEW q \in Seq(Slot)
  PROVE  IdsOf(q) = {q[i].id : i \in 1 .. Len(q)} /\ ActiveIn(q) \subseteq IdsOf(q)
<1>1. DOMAIN q = 1 .. Len(q) OBVIOUS
<1> QED BY <1>1 DEF IdsOf, ActiveIn

LEMMA PartFacts ==
  ASSUME NEW q \in Seq(Slot), NEW r \in Seq(Slot), NEW K \in SUBSET (1 .. Len(q)),
         NEW p, PartOf(q, r, K, p)
  PROVE  /\ DistinctIds(q) => DistinctIds(r)
         /\ Sorted(q) => Sorted(r)
         /\ IdsOf(r) = {q[k].id : k \in K}
         /\ ActiveIn(r) = {q[k].id : k \in {j \in K : q[j].active}}
<1> DEFINE n == Len(q)
           m == Len(r)
<1>1. n \in Nat /\ m \in Nat BY LenProperties
<1>2. /\ p \in [1 .. m -> K] /\ \A i \in 1 .. m : p[i] \in 1 .. n /\ r[i] = q[p[i]]
      /\ \A i, j \in 1 .. m : i < j => p[i] < p[j]
      /\ \A k \in K : \E i \in 1 .. m : p[i] = k
  BY DEF PartOf
<1>3. IdsOf(r) = {r[i].id : i \in 1 .. m} BY IdsAre
<1> HIDE DEF n, m
<1>4. ASSUME DistinctIds(q) PROVE DistinctIds(r)
  <2>1. SUFFICES ASSUME NEW i \in 1 .. m, NEW j \in 1 .. m, r[i].id = r[j].id, i # j PROVE FALSE
    BY DEF DistinctIds, m
  <2>2. p[i] = p[j] BY <1>2, <1>4, <2>1 DEF DistinctIds, n
  <2>3. i \in Nat /\ j \in Nat /\ p[i] \in Nat BY <1>1, <1>2
  <2>4. CASE i < j BY <1>2, <2>2, <2>3, <2>4
  <2>5. CASE j < i BY <1>2, <2>2, <2>3, <2>5
  <2> QED BY <2>1, <2>3, <2>4, <2>5
<1>5. ASSUME Sorted(q) PROVE Sorted(r)
  <2> SUFFICES ASSUME NEW i \in 1 .. m, NEW j \in 1 .. m, i < j
               PROVE  r[i].priority >= r[j].priority
    BY DEF Sorted, m
  <2>1. p[i] < p[j] /\ p[i] \in 1 .. n /\ p[j] \in 1 .. n BY <1>2
  <2>2. q[p[i]].priority >= q[p[j]].priority BY <1>5, <2>1 DEF Sorted, n
  <2> QED BY <1>2, <2>2
<1>6. {r[i].id : i \in 1 .. m} = {q[k].id : k \in K}
  <2>1. ASSUME NEW i \in 1 .. m PROVE r[i].id \in {q[k].id : k \in K} BY <1>2
  <2>2. ASSUME NEW k \in K PROVE q[k].id \in {r[i].id : i \in 1 .. m}
    <3>1. PICK i \in 1 .. m : p[i] = k BY <1>2
    <3>2. q[k].id = r[i].id BY <1>2, <3>1
    <3> QED BY <3>2
  <2> QED BY <2>1, <2>2
<1>7. ActiveIn(r) = {q[k].id : k \in {j \in K : q[j].active}}
  <2> DEFINE A == {q[k].id : k \in {j \in K : q[j].active}}
             R == {r[i].id : i \in {j \in 1 .. m : r[j].active}}
  <2>1. ASSUME NEW i \in 1 .. m, r[i].active PROVE r[i].id \in A
    <3>1. p[i] \in K /\ r[i] = q[p[i]] BY <1>2
    <3> QED BY <2>1, <3>1
  <2>2. ASSUME NEW k \in K, q[k].active PROVE q[k].id \in R
    <3>1. PICK i \in 1 .. m : p[i] = k BY <1>2
    <3>2. r[i] = q[k] BY <1>2, <3>1
    <3>3. r[i].id \in R BY <2>2, <3>2
    <3> QED BY <3>2, <3>3
  <2>3. ActiveIn(r) = R BY DEF ActiveIn, m
  <2> QED BY <2>1, <2>2, <2>3
<1> QED BY <1>3, <1>4, <1>5, <1>6, <1>7

-----------------------------------------------------------------------------
(* The inductive invariant. *)

Ops == {"connect", "disconnect", "disconnectAll", "emit"}
PcsOf(op) ==
  CASE op = "connect" -> {"depth", "sharedLock", "flag", "recheck", "cleanup", "exclusive"}
    [] op = "disconnect" -> {"depth", "sharedLock", "kill", "exclusive"}
    [] op = "disconnectAll" -> {"depth", "sharedLock", "exclusive"}
    [] op = "emit" -> {"enter", "scan", "invoke", "callback", "leave", "testFlag", "cleanup"}

Frames == [op : Ops, pc : UNION {PcsOf(op) : op \in Ops},
           slot : [id : 0 .. MaxSlots, priority : Int, active : BOOLEAN],
           at : Nat, outermost : BOOLEAN, threw : BOOLEAN]

SgTypes ==
  /\ propagates \in BOOLEAN /\ mNeedsCleanup \in BOOLEAN
  /\ mSlots \in Seq(Slot) /\ mPendingConnects \in Seq(Slot)
  /\ mNextId \in 1 .. MaxSlots + 1 /\ mRecursionDepth \in Nat
  /\ shared \in [Threads -> Nat] /\ stack \in [Threads -> Seq(Frames)]
  /\ calls \in [Threads -> 0 .. MaxCalls] /\ \A t \in Threads : Len(stack[t]) <= calls[t]
  /\ known \subseteq 1 .. mNextId - 1 /\ dropped \subseteq 1 .. mNextId - 1

(* A call is at a place of its operation; the index a disconnect found      *)
(* still has its slot.                                                      *)
FrameOK(f) ==
  /\ f.pc \in PcsOf(f.op) /\ f.at # 0
  /\ f.threw => propagates
  /\ f.op = "connect" => f.slot \in Slot /\ f.slot.active /\ f.slot.id < mNextId
  /\ f.op = "disconnect" => f.slot.id \in known
  /\ f.pc = "kill" => f.at <= Len(mSlots) /\ mSlots[f.at].id = f.slot.id

(* Only the innermost call of a thread is not waiting for a slot to return. *)
Waits(f) == f.op = "emit" /\ f.pc = "callback"

FramesOK ==
  \A t \in Threads : \A k \in 1 .. Len(stack[t]) :
    FrameOK(stack[t][k]) /\ (k < Len(stack[t]) => Waits(stack[t][k]))

(* A call that holds the shared lock: all the outer ones do. *)
Holds(f) == f.pc \in {"scan", "invoke", "callback", "leave", "testFlag", "flag", "kill"}

LocksOK ==
  \A t \in Threads :
    shared[t] = IF stack[t] = << >> THEN 0
                ELSE IF Holds(Top(t)) THEN Len(stack[t]) ELSE Len(stack[t]) - 1

Counted(f) == f.op = "emit" /\ f.pc \in {"scan", "invoke", "callback", "leave"}
EmissionsOf(s) ==
  {e \in Threads \X (1 .. MaxCalls) : e[2] \in DOMAIN s[e[1]] /\ Counted(s[e[1]][e[2]])}
Emissions == EmissionsOf(stack)
DepthOK == mRecursionDepth = Cardinality(Emissions)

(* The two lists: no id twice, the parked slots active, all ids given. *)
ListsOK ==
  /\ DistinctIds(mSlots) /\ DistinctIds(mPendingConnects) /\ Sorted(mSlots)
  /\ IdsOf(mSlots) \cap IdsOf(mPendingConnects) = {}
  /\ IdsOf(mSlots) \cup IdsOf(mPendingConnects) \subseteq 1 .. mNextId - 1
  /\ \A i \in 1 .. Len(mPendingConnects) : mPendingConnects[i].active

(* What a thread is about: an idle one is as one that waits for a slot. *)
Job(t) == IF stack[t] = << >> THEN Frame("emit", "callback", NoSlot) ELSE Top(t)

(* A call of connectManual(), and one that has not put its slot anywhere. *)
Connecting(f) == f.op = "connect"
Unborn(f) == Connecting(f) /\ f.pc \in {"depth", "sharedLock", "exclusive"}

ConnectsOK ==
  /\ \A t \in Threads : Connecting(Job(t)) => Job(t).slot.id \notin known
  /\ \A t, u \in Threads : Connecting(Job(t)) /\ Connecting(Job(u))
                             /\ Job(t).slot.id = Job(u).slot.id => t = u
  /\ \A t \in Threads : Unborn(Job(t)) =>
       Job(t).slot.id \notin IdsOf(mSlots) \cup IdsOf(mPendingConnects) \cup dropped

(* Every id given is in one of the lists, dropped, or still to be placed. *)
Placed == ActiveIn(mSlots) \cup IdsOf(mPendingConnects)

PlacedOK ==
  /\ dropped \cap Placed = {}
  /\ \A id \in 1 .. mNextId - 1 :
       id \in Placed \cup dropped \/ \E t \in Threads : Unborn(Job(t)) /\ Job(t).slot.id = id

(* Who will look after the parked slots. *)
WillClean(f) == f.pc \in {"cleanup", "flag", "recheck"} \/ (f.pc = "testFlag" /\ f.outermost)
WillFlag(f) == f.op = "connect" /\ f.pc = "flag"

DutyOK ==
  mPendingConnects # << >> =>
    /\ mNeedsCleanup \/ \E t \in Threads : WillFlag(Job(t))
    /\ propagates \/ mRecursionDepth > 0 \/ \E t \in Threads : WillClean(Job(t))

Control == SgTypes /\ FramesOK /\ LocksOK /\ DepthOK
Places == ListsOK /\ ConnectsOK /\ PlacedOK

IInv == Control /\ Places /\ DutyOK

LEMMA Prefix ==
  ASSUME NEW S, NEW q \in Seq(S), NEW k \in 0 .. Len(q)
  PROVE  /\ SubSeq(q, 1, k) \in Seq(S) /\ Len(SubSeq(q, 1, k)) = k
         /\ \A i \in 1 .. k : SubSeq(q, 1, k)[i] = q[i]
<1>1. Len(q) \in Nat BY LenProperties
<1>2. \A i \in 1 .. k : i \in 1 .. Len(q) BY <1>1
<1>3. \A i \in 1 .. k : q[i] \in S BY <1>2, ElementOfSeq
<1>4. 1 \in Int /\ k \in Int /\ k >= 0 BY <1>1
<1>5. LET s == SubSeq(q, 1, k)
      IN  s \in Seq(S) /\ Len(s) = (IF 1 <= k THEN k - 1 + 1 ELSE 0)
          /\ \A i \in 1 .. k - 1 + 1 : s[i] = q[1 + i - 1]
  BY <1>3, <1>4, SubSeqProperties
<1> QED BY <1>4, <1>5

LEMMA Suffix ==
  ASSUME NEW S, NEW q \in Seq(S), NEW k \in 0 .. Len(q)
  PROVE  /\ SubSeq(q, k + 1, Len(q)) \in Seq(S) /\ Len(SubSeq(q, k + 1, Len(q))) = Len(q) - k
         /\ \A i \in 1 .. Len(q) - k : SubSeq(q, k + 1, Len(q))[i] = q[i + k]
<1> DEFINE n == Len(q)
<1>1. n \in Nat BY LenProperties
<1>2. \A i \in k + 1 .. n : i \in 1 .. n BY <1>1
<1>3. \A i \in k + 1 .. n : q[i] \in S BY <1>2, ElementOfSeq
<1> HIDE DEF n
<1>4. k + 1 \in Int /\ n \in Int /\ k + 1 <= n + 1 BY <1>1 DEF n
<1>5. LET s == SubSeq(q, k + 1, n)
      IN  s \in Seq(S) /\ Len(s) = (IF k + 1 <= n THEN n - (k + 1) + 1 ELSE 0)
          /\ \A i \in 1 .. n - (k + 1) + 1 : s[i] = q[k + 1 + i - 1]
  BY <1>3, <1>4, SubSeqProperties
<1>6. n - (k + 1) + 1 = n - k /\ \A i \in 1 .. n - k : k + 1 + i - 1 = i + k BY <1>1, <1>4
<1>7. (IF k + 1 <= n THEN n - (k + 1) + 1 ELSE 0) = n - k BY <1>1, <1>4
<1> DEFINE s == SubSeq(q, k + 1, n)
<1>8. s \in Seq(S) /\ Len(s) = n - k /\ \A i \in 1 .. n - k : s[i] = q[k + 1 + i - 1]
  BY <1>5, <1>6, <1>7
<1> HIDE DEF s
<1>9. \A i \in 1 .. n - k : s[i] = q[i + k] BY <1>6, <1>8
<1> QED BY <1>8, <1>9 DEF n, s

(* The slot with an id leaves, and nothing else changes. *)
LEMMA WithoutFacts ==
  ASSUME NEW q \in Seq(Slot), DistinctIds(q), NEW id \in IdsOf(q)
  PROVE  /\ Without(q, id) \in Seq(Slot) /\ DistinctIds(Without(q, id))
         /\ Sorted(q) => Sorted(Without(q, id))
         /\ IdsOf(Without(q, id)) = IdsOf(q) \ {id}
         /\ ActiveIn(Without(q, id)) = ActiveIn(q) \ {id}
         /\ (\A i \in 1 .. Len(q) : q[i].active) =>
              \A i \in 1 .. Len(Without(q, id)) : Without(q, id)[i].active
<1> DEFINE n == Len(q)
           r == Without(q, id)
<1>1. n \in Nat /\ IdsOf(q) = {q[i].id : i \in 1 .. n} BY LenProperties, IdsAre
<1>2. PICK k \in 1 .. n : q[k].id = id BY <1>1
<1>3. {i \in 1 .. n : q[i].id = id} = {k} BY <1>2 DEF DistinctIds
<1>4. Min({k}) = k BY DEF Min
<1>5. SelectInSeq(q, LAMBDA s : s.id = id) = k BY <1>3, <1>4 DEF SelectInSeq
<1> DEFINE a == SubSeq(q, 1, k - 1)
           b == SubSeq(q, k + 1, n)
<1>6. r = a \o b BY <1>5 DEF Without, RemoveAt
<1>7. k - 1 \in 0 .. n /\ k \in 0 .. n /\ k - 1 \in Nat /\ k \in Nat BY <1>1
<1>8. a \in Seq(Slot) /\ Len(a) = k - 1 /\ \A i \in 1 .. k - 1 : a[i] = q[i] BY <1>7, Prefix
<1>9. b \in Seq(Slot) /\ Len(b) = n - k /\ \A i \in 1 .. n - k : b[i] = q[i + k] BY <1>7, Suffix
<1> HIDE DEF n, r, a, b
<1>10. /\ r \in Seq(Slot) /\ Len(r) = (k - 1) + (n - k)
       /\ \A i \in 1 .. (k - 1) + (n - k) : r[i] = IF i <= k - 1 THEN a[i] ELSE b[i - (k - 1)]
  <2>1. /\ a \o b \in Seq(Slot) /\ Len(a \o b) = Len(a) + Len(b)
        /\ \A i \in 1 .. Len(a) + Len(b) : (a \o b)[i] = IF i <= Len(a) THEN a[i] ELSE b[i - Len(a)]
    BY <1>8, <1>9, ConcatProperties
  <2>2. Len(a) = k - 1 /\ Len(b) = n - k BY <1>8, <1>9
  <2> QED BY <1>6, <2>1, <2>2
<1>11. (k - 1) + (n - k) = n - 1 BY <1>1, <1>7
<1> DEFINE K == (1 .. n) \ {k}
           p == [i \in 1 .. n - 1 |-> IF i < k THEN i ELSE i + 1]
<1>12. ASSUME NEW i \in 1 .. n - 1 PROVE p[i] \in K /\ r[i] = q[p[i]]
  <2>1. CASE i < k
    <3>1. i <= k - 1 /\ i \in 1 .. k - 1 /\ p[i] = i /\ i \in K BY <1>1, <1>7, <2>1
    <3> QED BY <1>8, <1>10, <1>11, <3>1
  <2>2. CASE ~(i < k)
    <3>1. /\ ~(i <= k - 1) /\ i - (k - 1) \in 1 .. n - k /\ (i - (k - 1)) + k = i + 1
          /\ p[i] = i + 1 /\ i + 1 \in K
      BY <1>1, <1>7, <2>2
    <3> QED BY <1>9, <1>10, <1>11, <3>1
  <2> QED BY <2>1, <2>2
<1>13. \A i, j \in 1 .. n - 1 : i < j => p[i] < p[j] BY <1>1, <1>7
<1>14. ASSUME NEW m \in K PROVE \E i \in 1 .. n - 1 : p[i] = m
  <2>1. CASE m < k
    <3>1. m \in 1 .. n - 1 /\ p[m] = m BY <1>1, <1>7, <2>1
    <3> QED BY <3>1
  <2>2. CASE m > k
    <3>1. m - 1 \in 1 .. n - 1 /\ p[m - 1] = m BY <1>1, <1>7, <2>2
    <3> QED BY <3>1
  <2> QED BY <1>7, <2>1, <2>2
<1>15. p \in [1 .. n - 1 -> K] BY <1>12
<1> HIDE DEF p
<1>16. PartOf(q, r, K, p) BY <1>10, <1>11, <1>12, <1>13, <1>14, <1>15 DEF PartOf
<1>17. K \in SUBSET (1 .. n) OBVIOUS
<1>18. /\ DistinctIds(r) /\ (Sorted(q) => Sorted(r)) /\ IdsOf(r) = {q[j].id : j \in K}
       /\ ActiveIn(r) = {q[j].id : j \in {m \in K : q[m].active}}
  BY <1>10, <1>16, <1>17, PartFacts DEF n
<1>19. \A j \in 1 .. n : q[j].id = id <=> j = k BY <1>2 DEF DistinctIds, n
<1>20. {q[j].id : j \in K} = {q[j].id : j \in 1 .. n} \ {id} BY <1>19
<1>21. {q[j].id : j \in {m \in K : q[m].active}} = {q[j].id : j \in {m \in 1 .. n : q[m].active}} \ {id}
  BY <1>19
<1>22. (\A i \in 1 .. n : q[i].active) => \A i \in 1 .. Len(r) : r[i].active
  BY <1>10, <1>11, <1>12
<1> QED BY <1>1, <1>10, <1>18, <1>20, <1>21, <1>22 DEF ActiveIn, n, r

(* A set of numbers that is not empty has a least one. *)
LEMMA LeastOf ==
  ASSUME NEW S \in SUBSET Nat, S # {}
  PROVE  \E n \in S : \A m \in S : n <= m
<1>1. PICK n \in S : \A m \in S : ~ (<<m, n>> \in OpToRel(<, Nat))
  BY NatLessThanWellFounded, WFMin
<1>2. ASSUME NEW m \in S, m < n PROVE FALSE
  <2>1. <<m, n>> \in Nat \X Nat /\ <<m, n>>[1] = m /\ <<m, n>>[2] = n OBVIOUS
  <2>2. <<m, n>> \in OpToRel(<, Nat) BY <1>2, <2>1 DEF OpToRel
  <2> QED BY <1>1, <2>2
<1> QED BY <1>2

(* The recursive definition of Compacted defines something. *)
KeptIs(q, N, f) ==
  f = [n \in 0 .. N |-> IF n = 0 THEN << >>
                        ELSE IF q[n].active THEN Append(f[n - 1], q[n]) ELSE f[n - 1]]

LEMMA KeptExists ==
  ASSUME NEW q, NEW N \in Nat
  PROVE  \E f : KeptIs(q, N, f)
<1> SUFFICES ASSUME ~ \E f : KeptIs(q, N, f) PROVE FALSE OBVIOUS
<1> DEFINE Bad == {m \in Nat : ~ \E f : KeptIs(q, m, f)}
<1>1. PICK m \in Bad : \A k \in Bad : m <= k
  <2>1. Bad \in SUBSET Nat /\ Bad # {} OBVIOUS
  <2> HIDE DEF Bad
  <2> QED BY <2>1, LeastOf
<1>2. m # 0
  <2> DEFINE f == [n \in 0 .. 0 |-> << >>]
  <2>1. KeptIs(q, 0, f) BY DEF KeptIs
  <2> QED BY <1>1, <2>1
<1>3. m \in Nat /\ m - 1 \in Nat /\ m - 1 \notin Bad BY <1>1, <1>2
<1>4. PICK f : KeptIs(q, m - 1, f) BY <1>3
<1> DEFINE last == IF q[m].active THEN Append(f[m - 1], q[m]) ELSE f[m - 1]
           g == [n \in 0 .. m |-> IF n = m THEN last ELSE f[n]]
<1>5. ASSUME NEW n \in 0 .. m
      PROVE  g[n] = IF n = 0 THEN << >>
                    ELSE IF q[n].active THEN Append(g[n - 1], q[n]) ELSE g[n - 1]
  <2>1. CASE n = m BY <1>2, <1>3, <2>1
  <2>2. CASE n # m
    <3>1. n \in 0 .. m - 1 BY <1>3, <2>2
    <3>2. f[n] = IF n = 0 THEN << >>
                 ELSE IF q[n].active THEN Append(f[n - 1], q[n]) ELSE f[n - 1]
      BY <1>4, <3>1 DEF KeptIs
    <3>3. n # 0 => g[n - 1] = f[n - 1] BY <1>3, <3>1
    <3>4. g[n] = f[n] BY <2>2
    <3> HIDE DEF g
    <3> QED BY <3>2, <3>3, <3>4
  <2> QED BY <2>1, <2>2
<1>6. KeptIs(q, m, g)
  <2>1. g = [n \in 0 .. m |-> g[n]] OBVIOUS
  <2> HIDE DEF g
  <2> QED BY <1>5, <2>1 DEF KeptIs
<1> QED BY <1>1, <1>6

LEMMA KeptGives ==
  ASSUME NEW q, Len(q) \in Nat
  PROVE  \E f : KeptIs(q, Len(q), f) /\ Compacted(q) = f[Len(q)]
<1> DEFINE kept[n \in 0 .. Len(q)] ==
             IF n = 0 THEN << >>
             ELSE IF q[n].active THEN Append(kept[n - 1], q[n]) ELSE kept[n - 1]
<1>1. PICK f : KeptIs(q, Len(q), f) BY KeptExists
<1>2. f = [n \in 0 .. Len(q) |-> IF n = 0 THEN << >>
             ELSE IF q[n].active THEN Append(f[n - 1], q[n]) ELSE f[n - 1]]
  BY <1>1 DEF KeptIs
<1>3. kept = [n \in 0 .. Len(q) |-> IF n = 0 THEN << >>
             ELSE IF q[n].active THEN Append(kept[n - 1], q[n]) ELSE kept[n - 1]]
  BY <1>2
<1>4. Compacted(q) = kept[Len(q)] BY DEF Compacted
<1> HIDE DEF kept
<1> QED BY <1>3, <1>4 DEF KeptIs

(* What is kept are the active slots, in their order. *)
LEMMA KeptPart ==
  ASSUME NEW q \in Seq(Slot), NEW f, KeptIs(q, Len(q), f), NEW n \in 0 .. Len(q)
  PROVE  f[n] \in Seq(Slot) /\ \E p : PartOf(q, f[n], {i \in 1 .. n : q[i].active}, p)
<1> DEFINE Good(m) == f[m] \in Seq(Slot) /\ \E p : PartOf(q, f[m], {i \in 1 .. m : q[i].active}, p)
           Bad == {m \in 0 .. Len(q) : ~Good(m)}
<1>1. Len(q) \in Nat BY LenProperties
<1> SUFFICES ASSUME Bad # {} PROVE FALSE BY DEF Bad
<1>2. PICK m \in Bad : \A k \in Bad : m <= k
  <2>1. Bad \in SUBSET Nat BY <1>1
  <2> HIDE DEF Bad
  <2> QED BY <2>1, LeastOf
<1>3. m \in 0 .. Len(q)
      /\ f[m] = IF m = 0 THEN << >> ELSE IF q[m].active THEN Append(f[m - 1], q[m]) ELSE f[m - 1]
  BY <1>2 DEF KeptIs
<1>4. CASE m = 0
  <2> DEFINE p == [i \in 1 .. 0 |-> i]
  <2>1. f[m] = << >> /\ Len(<< >>) = 0 BY <1>3, <1>4
  <2>2. << >> \in Seq(Slot) OBVIOUS
  <2>3. PartOf(q, << >>, {i \in 1 .. m : q[i].active}, p) BY <1>4 DEF PartOf
  <2> QED BY <1>2, <2>1, <2>2, <2>3
<1>5. CASE m # 0
  <2>1. m \in 1 .. Len(q) /\ m - 1 \in 0 .. Len(q) /\ ~(m <= m - 1) /\ m \in Nat BY <1>1, <1>3, <1>5
  <2>2. Good(m - 1) BY <1>2, <2>1
  <2> DEFINE r == f[m - 1]
             l == Len(r)
             J == {i \in 1 .. m - 1 : q[i].active}
             K == {i \in 1 .. m : q[i].active}
  <2>3. PICK p : PartOf(q, r, J, p) BY <2>2
  <2>4. r \in Seq(Slot) /\ l \in Nat BY <2>2, LenProperties
  <2>5. q[m] \in Slot BY <2>1, ElementOfSeq
  <2>6. /\ p \in [1 .. l -> J] /\ \A i \in 1 .. l : r[i] = q[p[i]]
        /\ \A i, j \in 1 .. l : i < j => p[i] < p[j]
        /\ \A k \in J : \E i \in 1 .. l : p[i] = k
    BY <2>3 DEF PartOf
  <2>7. CASE ~q[m].active
    <3>1. f[m] = r BY <1>3, <1>5, <2>7
    <3>2. J = K BY <2>1, <2>7
    <3> QED BY <1>2, <2>2, <3>1, <3>2
  <2>8. CASE q[m].active
    <3> DEFINE s == Append(r, q[m])
               o == [i \in 1 .. l + 1 |-> IF i = l + 1 THEN m ELSE p[i]]
    <3>1. f[m] = s BY <1>3, <1>5, <2>8
    <3>2. K = J \cup {m} /\ m \notin J BY <2>1, <2>8
    <3>3. s \in Seq(Slot) /\ Len(s) = l + 1 /\ s[l + 1] = q[m] /\ \A i \in 1 .. l : s[i] = r[i]
      BY <2>4, <2>5, AppendProperties
    <3> HIDE DEF s, l, r
    <3>4. ASSUME NEW i \in 1 .. l + 1 PROVE o[i] \in K /\ s[i] = q[o[i]]
      <4>1. CASE i = l + 1 BY <3>2, <3>3, <4>1
      <4>2. CASE i # l + 1
        <5>1. i \in 1 .. l /\ o[i] = p[i] BY <2>4, <4>2
        <5>2. p[i] \in J BY <2>6, <5>1
        <5> QED BY <2>6, <3>2, <3>3, <5>1, <5>2
      <4> QED BY <4>1, <4>2
    <3>5. ASSUME NEW i \in 1 .. l + 1, NEW j \in 1 .. l + 1, i < j PROVE o[i] < o[j]
      <4>1. i \in 1 .. l /\ o[i] = p[i] BY <2>4, <3>5
      <4>2. CASE j = l + 1
        <5>1. p[i] \in 1 .. m - 1 BY <2>6, <4>1
        <5> QED BY <2>1, <4>1, <4>2, <5>1
      <4>3. CASE j # l + 1
        <5>1. j \in 1 .. l /\ o[j] = p[j] BY <2>4, <4>3
        <5> QED BY <2>6, <3>5, <4>1, <5>1
      <4> QED BY <4>2, <4>3
    <3>6. ASSUME NEW k \in K PROVE \E i \in 1 .. l + 1 : o[i] = k
      <4>1. CASE k = m
        <5>1. l + 1 \in 1 .. l + 1 /\ o[l + 1] = m BY <2>4
        <5> QED BY <4>1, <5>1
      <4>2. CASE k # m
        <5>1. k \in J BY <3>2, <4>2
        <5>2. PICK i \in 1 .. l : p[i] = k BY <2>6, <5>1
        <5>3. i \in 1 .. l + 1 /\ o[i] = k BY <2>4, <5>2
        <5> QED BY <5>3
      <4> QED BY <4>1, <4>2
    <3>7. o \in [1 .. l + 1 -> K] BY <3>4
    <3> HIDE DEF o, J, K
    <3>8. PartOf(q, s, K, o) BY <3>3, <3>4, <3>5, <3>6, <3>7 DEF PartOf
    <3> QED BY <1>2, <3>1, <3>3, <3>8 DEF K
  <2> QED BY <2>7, <2>8
<1> QED BY <1>4, <1>5

LEMMA CompactedFacts ==
  ASSUME NEW q \in Seq(Slot)
  PROVE  /\ Compacted(q) \in Seq(Slot)
         /\ DistinctIds(q) => DistinctIds(Compacted(q))
         /\ Sorted(q) => Sorted(Compacted(q))
         /\ IdsOf(Compacted(q)) = ActiveIn(q) /\ ActiveIn(Compacted(q)) = ActiveIn(q)
<1> DEFINE n == Len(q)
           K == {i \in 1 .. n : q[i].active}
           r == Compacted(q)
<1>1. n \in Nat /\ n \in 0 .. n BY LenProperties
<1>2. PICK f : KeptIs(q, n, f) /\ r = f[n] BY <1>1, KeptGives
<1>3. r \in Seq(Slot) /\ \E p : PartOf(q, r, K, p) BY <1>1, <1>2, KeptPart
<1>4. PICK p : PartOf(q, r, K, p) BY <1>3
<1>5. K \in SUBSET (1 .. Len(q)) OBVIOUS
<1> HIDE DEF r, K
<1>6. /\ DistinctIds(q) => DistinctIds(r)
      /\ Sorted(q) => Sorted(r)
      /\ IdsOf(r) = {q[k].id : k \in K}
      /\ ActiveIn(r) = {q[k].id : k \in {j \in K : q[j].active}}
  BY <1>3, <1>4, <1>5, PartFacts
<1>7. {j \in K : q[j].active} = K /\ ActiveIn(q) = {q[k].id : k \in K} BY DEF K, ActiveIn
<1> QED BY <1>3, <1>6, <1>7 DEF r

(* insertByPriority() keeps the list sorted and adds the one slot. *)
LEMMA InsertFacts ==
  ASSUME NEW q \in Seq(Slot), NEW s \in Slot, Sorted(q)
  PROVE  /\ InsertByPriority(q, s) \in Seq(Slot) /\ Sorted(InsertByPriority(q, s))
         /\ DistinctIds(q) /\ s.id \notin IdsOf(q) => DistinctIds(InsertByPriority(q, s))
         /\ IdsOf(InsertByPriority(q, s)) = IdsOf(q) \cup {s.id}
         /\ ActiveIn(InsertByPriority(q, s)) = ActiveIn(q) \cup (IF s.active THEN {s.id} ELSE {})
<1> DEFINE n == Len(q)
           r == InsertByPriority(q, s)
           Before == {i \in 1 .. n : q[i].priority >= s.priority}
           c == Cardinality(Before)
<1>1. n \in Nat /\ DOMAIN q = 1 .. n BY LenProperties
<1>2. \A i \in 1 .. n : q[i] \in Slot /\ q[i].priority \in Int
  <2>1. \A i \in 1 .. n : q[i] \in Slot BY ElementOfSeq
  <2> QED BY <2>1, PrioritiesAssumption DEF Slot
<1>3. s.priority \in Int BY PrioritiesAssumption DEF Slot
<1>4. c \in 0 .. n /\ Before = 1 .. c
  <2> DEFINE After == (1 .. n + 1) \ Before
  <2>1. After \in SUBSET Nat /\ n + 1 \in After BY <1>1
  <2>2. PICK m \in After : \A k \in After : m <= k
    <3> HIDE DEF After
    <3> QED BY <2>1, LeastOf
  <2>3. m \in 1 .. n + 1 /\ m - 1 \in 0 .. n BY <1>1, <2>2
  <2>4. ASSUME NEW i \in 1 .. n PROVE i \in Before <=> i <= m - 1
    <3>1. CASE i < m
      <4>1. i \notin After BY <1>1, <2>2, <2>3, <3>1
      <4>2. i \in 1 .. n + 1 BY <1>1
      <4>3. i \in Before BY <4>1, <4>2
      <4> QED BY <2>3, <3>1, <4>3
    <3>2. CASE m <= i
      <4>1. m \in 1 .. n /\ m \notin Before BY <1>1, <2>2, <2>3, <3>2
      <4>2. q[m].priority < s.priority BY <1>2, <1>3, <4>1
      <4>3. q[m].priority >= q[i].priority BY <1>2, <3>2, <4>1 DEF Sorted
      <4>4. q[i].priority < s.priority BY <1>2, <1>3, <4>1, <4>2, <4>3
      <4>5. i \notin Before BY <1>2, <1>3, <4>4
      <4> QED BY <2>3, <3>2, <4>5
    <3> QED BY <2>3, <3>1, <3>2
  <2>5. Before = 1 .. m - 1 BY <1>1, <2>3, <2>4
  <2> HIDE DEF Before
  <2>6. Cardinality(1 .. m - 1) = m - 1
    <3>1. 1 \in Int /\ m - 1 \in Int /\ (IF 1 > m - 1 THEN 0 ELSE m - 1 - 1 + 1) = m - 1 BY <2>3
    <3>2. Cardinality(1 .. m - 1) = IF 1 > m - 1 THEN 0 ELSE m - 1 - 1 + 1 BY <3>1, FS_Interval
    <3> QED BY <3>1, <3>2
  <2> QED BY <2>3, <2>5, <2>6
<1>5. r = SubSeq(q, 1, (1 + c) - 1) \o <<s>> \o SubSeq(q, 1 + c, n)
  <2>1. {i \in DOMAIN q : q[i].priority >= s.priority} = Before BY <1>1
  <2> QED BY <2>1 DEF InsertByPriority, InsertAt
<1> HIDE DEF n, r, Before, c
<1>6. (1 + c) - 1 = c /\ 1 + c = c + 1 BY <1>4
<1> DEFINE a == SubSeq(q, 1, c)
           b == SubSeq(q, c + 1, n)
<1>7. r = (a \o <<s>>) \o b BY <1>5, <1>6
<1>8. a \in Seq(Slot) /\ Len(a) = c /\ \A i \in 1 .. c : a[i] = q[i] BY <1>4, Prefix DEF n
<1>9. b \in Seq(Slot) /\ Len(b) = n - c /\ \A i \in 1 .. n - c : b[i] = q[i + c] BY <1>4, Suffix DEF n
<1> HIDE DEF a, b
<1> DEFINE d == a \o <<s>>
<1>10. /\ d \in Seq(Slot) /\ Len(d) = c + 1 /\ d[c + 1] = s /\ \A i \in 1 .. c : d[i] = a[i]
  <2>1. d = Append(a, s) BY <1>8
  <2> QED BY <1>8, <2>1, AppendProperties
<1> HIDE DEF d
<1>11. /\ r \in Seq(Slot) /\ Len(r) = n + 1
       /\ \A i \in 1 .. n + 1 : r[i] = IF i <= c + 1 THEN d[i] ELSE b[i - (c + 1)]
  <2>1. /\ d \o b \in Seq(Slot) /\ Len(d \o b) = Len(d) + Len(b)
        /\ \A i \in 1 .. Len(d) + Len(b) : (d \o b)[i] = IF i <= Len(d) THEN d[i] ELSE b[i - Len(d)]
    BY <1>9, <1>10, ConcatProperties
  <2>2. Len(d) = c + 1 /\ Len(b) = n - c /\ Len(d) + Len(b) = n + 1 BY <1>1, <1>4, <1>9, <1>10
  <2>3. r = d \o b BY <1>7 DEF d
  <2> QED BY <2>1, <2>2, <2>3
<1> DEFINE p == [i \in 1 .. n + 1 |-> IF i <= c THEN i ELSE i - 1]
<1>12. c + 1 \in 1 .. n + 1 /\ r[c + 1] = s BY <1>1, <1>4, <1>10, <1>11
<1>13. ASSUME NEW i \in 1 .. n + 1, i # c + 1 PROVE p[i] \in 1 .. n /\ r[i] = q[p[i]]
  <2>1. CASE i <= c
    <3>1. i \in 1 .. c /\ i <= c + 1 /\ p[i] = i /\ i \in 1 .. n BY <1>1, <1>4, <2>1
    <3> QED BY <1>8, <1>10, <1>11, <3>1
  <2>2. CASE ~(i <= c)
    <3>1. /\ ~(i <= c + 1) /\ i - (c + 1) \in 1 .. n - c /\ (i - (c + 1)) + c = i - 1
          /\ p[i] = i - 1 /\ i - 1 \in 1 .. n
      BY <1>1, <1>4, <1>13, <2>2
    <3> QED BY <1>9, <1>11, <3>1
  <2> QED BY <2>1, <2>2
<1>14. ASSUME NEW i \in 1 .. n + 1, NEW j \in 1 .. n + 1, i < j, i # c + 1, j # c + 1
       PROVE  p[i] < p[j]
  BY <1>1, <1>4, <1>14
<1>15. ASSUME NEW k \in 1 .. n PROVE \E i \in 1 .. n + 1 : i # c + 1 /\ p[i] = k
  <2>1. CASE k <= c
    <3>1. k \in 1 .. n + 1 /\ k # c + 1 /\ p[k] = k BY <1>1, <1>4, <2>1
    <3> QED BY <3>1
  <2>2. CASE ~(k <= c)
    <3>1. k + 1 \in 1 .. n + 1 /\ k + 1 # c + 1 /\ p[k + 1] = k BY <1>1, <1>4, <2>2
    <3> QED BY <3>1
  <2> QED BY <2>1, <2>2
<1>16. /\ \A i \in 1 .. c : p[i] = i
       /\ \A i \in 1 .. n + 1 : i > c + 1 => p[i] = i - 1
  BY <1>1, <1>4
<1> HIDE DEF p
<1>17. Sorted(r)
  <2> SUFFICES ASSUME NEW i \in 1 .. n + 1, NEW j \in 1 .. n + 1, i < j
               PROVE  r[i].priority >= r[j].priority
    BY <1>11 DEF Sorted
  <2>1. CASE i = c + 1
    <3>1. j # c + 1 /\ j > c + 1 BY <1>4, <2>1
    <3>2. p[j] \in 1 .. n /\ r[j] = q[p[j]] /\ p[j] = j - 1 BY <1>13, <1>16, <3>1
    <3>3. p[j] \notin Before BY <1>1, <1>4, <3>1, <3>2
    <3>4. q[p[j]].priority < s.priority BY <1>2, <1>3, <3>2, <3>3 DEF Before
    <3>5. r[i].priority = s.priority /\ r[j].priority = q[p[j]].priority BY <1>12, <2>1, <3>2
    <3> QED BY <1>2, <1>3, <3>2, <3>4, <3>5
  <2>2. CASE j = c + 1
    <3>1. i # c + 1 /\ i \in 1 .. c BY <1>4, <2>2
    <3>2. p[i] \in 1 .. n /\ r[i] = q[p[i]] /\ p[i] = i BY <1>13, <1>16, <3>1
    <3>3. p[i] \in Before BY <1>4, <3>1, <3>2
    <3>4. q[p[i]].priority >= s.priority BY <3>3 DEF Before
    <3> QED BY <1>12, <2>2, <3>2, <3>4
  <2>3. CASE i # c + 1 /\ j # c + 1
    <3>1. p[i] < p[j] BY <1>14, <2>3
    <3>2. p[i] \in 1 .. n /\ p[j] \in 1 .. n /\ r[i] = q[p[i]] /\ r[j] = q[p[j]] BY <1>13, <2>3
    <3> QED BY <3>1, <3>2 DEF Sorted, n
  <2> QED BY <2>1, <2>2, <2>3
<1>18. IdsOf(q) = {q[i].id : i \in 1 .. n} /\ IdsOf(r) = {r[i].id : i \in 1 .. n + 1}
  BY <1>11, IdsAre DEF n
<1>19. ASSUME DistinctIds(q), s.id \notin IdsOf(q) PROVE DistinctIds(r)
  <2> SUFFICES ASSUME NEW i \in 1 .. n + 1, NEW j \in 1 .. n + 1, r[i].id = r[j].id, i # j
               PROVE  FALSE
    BY <1>11 DEF DistinctIds
  <2>1. \A k \in 1 .. n : q[k].id # s.id BY <1>18, <1>19
  <2>2. CASE i = c + 1 BY <1>12, <1>13, <2>1, <2>2
  <2>3. CASE j = c + 1 BY <1>12, <1>13, <2>1, <2>3
  <2>4. CASE i # c + 1 /\ j # c + 1
    <3>1. p[i] \in 1 .. n /\ p[j] \in 1 .. n /\ r[i] = q[p[i]] /\ r[j] = q[p[j]] BY <1>13, <2>4
    <3>2. p[i] = p[j] BY <1>19, <3>1 DEF DistinctIds, n
    <3>3. i < j \/ j < i BY <1>1
    <3>4. p[i] < p[j] \/ p[j] < p[i] BY <1>14, <2>4, <3>3
    <3> QED BY <3>1, <3>2, <3>4
  <2> QED BY <2>2, <2>3, <2>4
<1>20. IdsOf(r) = IdsOf(q) \cup {s.id}
  <2>1. ASSUME NEW i \in 1 .. n + 1 PROVE r[i].id \in IdsOf(q) \cup {s.id}
    BY <1>12, <1>13, <1>18
  <2>2. ASSUME NEW k \in 1 .. n PROVE q[k].id \in IdsOf(r)
    <3>1. PICK i \in 1 .. n + 1 : i # c + 1 /\ p[i] = k BY <1>15
    <3>2. r[i] = q[k] BY <1>13, <3>1
    <3> QED BY <1>18, <3>2
  <2>3. s.id \in IdsOf(r) BY <1>12, <1>18
  <2> QED BY <1>18, <2>1, <2>2, <2>3
<1>21. ActiveIn(r) = ActiveIn(q) \cup (IF s.active THEN {s.id} ELSE {})
  <2>1. /\ ActiveIn(r) = {r[i].id : i \in {j \in 1 .. n + 1 : r[j].active}}
        /\ ActiveIn(q) = {q[i].id : i \in {j \in 1 .. n : q[j].active}}
    BY <1>11 DEF ActiveIn, n
  <2>2. ASSUME NEW i \in 1 .. n + 1, r[i].active
        PROVE  r[i].id \in ActiveIn(q) \cup (IF s.active THEN {s.id} ELSE {})
    <3>1. CASE i = c + 1 BY <1>12, <2>2, <3>1
    <3>2. CASE i # c + 1
      <4>1. p[i] \in 1 .. n /\ r[i] = q[p[i]] BY <1>13, <3>2
      <4> QED BY <2>1, <2>2, <4>1
    <3> QED BY <3>1, <3>2
  <2>3. ASSUME NEW k \in 1 .. n, q[k].active PROVE q[k].id \in ActiveIn(r)
    <3>1. PICK i \in 1 .. n + 1 : i # c + 1 /\ p[i] = k BY <1>15
    <3>2. r[i] = q[k] BY <1>13, <3>1
    <3> QED BY <2>1, <2>3, <3>2
  <2>4. s.active => s.id \in ActiveIn(r) BY <1>12, <2>1
  <2> QED BY <2>1, <2>2, <2>3, <2>4
<1> QED BY <1>11, <1>17, <1>19, <1>20, <1>21 DEF r

(* The same for Activated. *)
ListIs(q, p, N, f) ==
  f = [n \in 0 .. N |-> IF n = 0 THEN q ELSE InsertByPriority(f[n - 1], p[n])]

LEMMA ListExists ==
  ASSUME NEW q, NEW p, NEW N \in Nat
  PROVE  \E f : ListIs(q, p, N, f)
<1> SUFFICES ASSUME ~ \E f : ListIs(q, p, N, f) PROVE FALSE OBVIOUS
<1> DEFINE Bad == {m \in Nat : ~ \E f : ListIs(q, p, m, f)}
<1>1. PICK m \in Bad : \A k \in Bad : m <= k
  <2>1. Bad \in SUBSET Nat /\ Bad # {} OBVIOUS
  <2> HIDE DEF Bad
  <2> QED BY <2>1, LeastOf
<1>2. m # 0
  <2> DEFINE f == [n \in 0 .. 0 |-> q]
  <2>1. ListIs(q, p, 0, f) BY DEF ListIs
  <2> QED BY <1>1, <2>1
<1>3. m \in Nat /\ m - 1 \in Nat /\ m - 1 \notin Bad BY <1>1, <1>2
<1>4. PICK f : ListIs(q, p, m - 1, f) BY <1>3
<1> DEFINE g == [n \in 0 .. m |-> IF n = m THEN InsertByPriority(f[m - 1], p[m]) ELSE f[n]]
<1>5. ASSUME NEW n \in 0 .. m
      PROVE  g[n] = IF n = 0 THEN q ELSE InsertByPriority(g[n - 1], p[n])
  <2>1. CASE n = m
    <3>1. g[m - 1] = f[m - 1] /\ g[m] = InsertByPriority(f[m - 1], p[m]) BY <1>3
    <3> HIDE DEF g
    <3> QED BY <1>2, <2>1, <3>1
  <2>2. CASE n # m
    <3>1. n \in 0 .. m - 1 BY <1>3, <2>2
    <3>2. f[n] = IF n = 0 THEN q ELSE InsertByPriority(f[n - 1], p[n]) BY <1>4, <3>1 DEF ListIs
    <3>3. n # 0 => g[n - 1] = f[n - 1] BY <1>3, <3>1
    <3>4. g[n] = f[n] BY <2>2
    <3> HIDE DEF g
    <3> QED BY <3>2, <3>3, <3>4
  <2> QED BY <2>1, <2>2
<1>6. ListIs(q, p, m, g)
  <2>1. g = [n \in 0 .. m |-> g[n]] OBVIOUS
  <2> HIDE DEF g
  <2> QED BY <1>5, <2>1 DEF ListIs
<1> QED BY <1>1, <1>6

LEMMA ListGives ==
  ASSUME NEW q, NEW p, Len(p) \in Nat
  PROVE  \E f : ListIs(q, p, Len(p), f) /\ Activated(q, p) = f[Len(p)]
<1> DEFINE list[n \in 0 .. Len(p)] ==
             IF n = 0 THEN q ELSE InsertByPriority(list[n - 1], p[n])
<1>1. PICK f : ListIs(q, p, Len(p), f) BY ListExists
<1>2. f = [n \in 0 .. Len(p) |-> IF n = 0 THEN q ELSE InsertByPriority(f[n - 1], p[n])]
  BY <1>1 DEF ListIs
<1>3. list = [n \in 0 .. Len(p) |-> IF n = 0 THEN q ELSE InsertByPriority(list[n - 1], p[n])]
  BY <1>2
<1>4. Activated(q, p) = list[Len(p)] BY DEF Activated
<1> HIDE DEF list
<1> QED BY <1>3, <1>4 DEF ListIs

(* What holds of a list once the first n parked slots are in it. *)
Merged(q, p, n, r) ==
  /\ r \in Seq(Slot) /\ Sorted(r) /\ DistinctIds(r)
  /\ IdsOf(r) = IdsOf(q) \cup {p[i].id : i \in 1 .. n}
  /\ ActiveIn(r) = ActiveIn(q) \cup {p[i].id : i \in 1 .. n}

LEMMA ListMerges ==
  ASSUME NEW q \in Seq(Slot), Sorted(q), DistinctIds(q),
         NEW p \in Seq(Slot), DistinctIds(p), \A i \in 1 .. Len(p) : p[i].active,
         IdsOf(q) \cap IdsOf(p) = {},
         NEW f, ListIs(q, p, Len(p), f), NEW n \in 0 .. Len(p)
  PROVE  Merged(q, p, n, f[n])
<1> DEFINE Bad == {m \in 0 .. Len(p) : ~Merged(q, p, m, f[m])}
<1>1. Len(p) \in Nat BY LenProperties
<1> SUFFICES ASSUME Bad # {} PROVE FALSE BY DEF Bad
<1>2. PICK m \in Bad : \A k \in Bad : m <= k
  <2>1. Bad \in SUBSET Nat BY <1>1
  <2> HIDE DEF Bad
  <2> QED BY <2>1, LeastOf
<1>3. m \in 0 .. Len(p) /\ f[m] = IF m = 0 THEN q ELSE InsertByPriority(f[m - 1], p[m])
  BY <1>2 DEF ListIs
<1>4. CASE m = 0
  <2>1. {p[i].id : i \in 1 .. m} = {} BY <1>4
  <2> QED BY <1>2, <1>3, <1>4, <2>1 DEF Merged
<1>5. CASE m # 0
  <2>1. m \in 1 .. Len(p) /\ m - 1 \in 0 .. Len(p) /\ ~(m <= m - 1) /\ m \in Nat BY <1>1, <1>3, <1>5
  <2> DEFINE r == f[m - 1]
  <2>2. Merged(q, p, m - 1, r) BY <1>2, <2>1
  <2>3. p[m] \in Slot /\ p[m].active BY <2>1, ElementOfSeq
  <2>4. p[m].id \notin IdsOf(r)
    <3>1. p[m].id \in IdsOf(p) BY <2>1, IdsAre
    <3>2. ASSUME NEW i \in 1 .. m - 1 PROVE p[i].id # p[m].id
      <4>1. i \in 1 .. Len(p) /\ i # m BY <1>1, <2>1
      <4> QED BY <2>1, <4>1 DEF DistinctIds
    <3> QED BY <2>2, <3>1, <3>2 DEF Merged
  <2>5. f[m] = InsertByPriority(r, p[m]) BY <1>3, <1>5
  <2>6. {p[i].id : i \in 1 .. m} = {p[i].id : i \in 1 .. m - 1} \cup {p[m].id}
    <3>1. 1 .. m = (1 .. m - 1) \cup {m} BY <2>1
    <3> QED BY <3>1
  <2> HIDE DEF r
  <2>7. r \in Seq(Slot) /\ Sorted(r) /\ DistinctIds(r) BY <2>2 DEF Merged
  <2>8. /\ f[m] \in Seq(Slot) /\ Sorted(f[m]) /\ DistinctIds(f[m])
        /\ IdsOf(f[m]) = IdsOf(r) \cup {p[m].id}
        /\ ActiveIn(f[m]) = ActiveIn(r) \cup {p[m].id}
    <3> DEFINE s == p[m]
    <3>1. s \in Slot /\ s.active /\ s.id \notin IdsOf(r) BY <2>3, <2>4
    <3> HIDE DEF s
    <3>2. /\ InsertByPriority(r, s) \in Seq(Slot) /\ Sorted(InsertByPriority(r, s))
          /\ DistinctIds(InsertByPriority(r, s))
          /\ IdsOf(InsertByPriority(r, s)) = IdsOf(r) \cup {s.id}
          /\ ActiveIn(InsertByPriority(r, s)) = ActiveIn(r) \cup {s.id}
      BY <2>7, <3>1, InsertFacts
    <3> QED BY <2>5, <3>2 DEF s
  <2>9. Merged(q, p, m, f[m]) BY <2>2, <2>6, <2>8 DEF Merged
  <2> QED BY <1>2, <2>9
<1> QED BY <1>4, <1>5

LEMMA ActivatedFacts ==
  ASSUME NEW q \in Seq(Slot), Sorted(q), DistinctIds(q),
         NEW p \in Seq(Slot), DistinctIds(p), \A i \in 1 .. Len(p) : p[i].active,
         IdsOf(q) \cap IdsOf(p) = {}
  PROVE  /\ Activated(q, p) \in Seq(Slot)
         /\ Sorted(Activated(q, p)) /\ DistinctIds(Activated(q, p))
         /\ IdsOf(Activated(q, p)) = IdsOf(q) \cup IdsOf(p)
         /\ ActiveIn(Activated(q, p)) = ActiveIn(q) \cup IdsOf(p)
<1>1. Len(p) \in Nat /\ Len(p) \in 0 .. Len(p) BY LenProperties
<1>2. PICK f : ListIs(q, p, Len(p), f) /\ Activated(q, p) = f[Len(p)] BY <1>1, ListGives
<1>3. Merged(q, p, Len(p), f[Len(p)]) BY <1>1, <1>2, ListMerges
<1>4. IdsOf(p) = {p[i].id : i \in 1 .. Len(p)} BY IdsAre
<1> QED BY <1>2, <1>3, <1>4 DEF Merged

-----------------------------------------------------------------------------
(* What a step does to the stacks: t keeps its n outer calls and is then in *)
(* f, or its innermost call returns.                                        *)
Others(t) == \A u \in Threads : u # t => stack'[u] = stack[u]

Into(t, n, f) ==
  /\ stack' \in [Threads -> Seq(Frames)] /\ Others(t)
  /\ Len(stack'[t]) = n + 1 /\ Last(stack'[t]) = f /\ stack'[t][n + 1] = f
  /\ \A k \in 1 .. n : stack'[t][k] = stack[t][k]

OutOf(t) ==
  /\ stack' \in [Threads -> Seq(Frames)] /\ Others(t)
  /\ Len(stack'[t]) = Len(stack[t]) - 1
  /\ \A k \in 1 .. Len(stack[t]) - 1 : stack'[t][k] = stack[t][k]

LEMMA TopFacts ==
  ASSUME stack \in [Threads -> Seq(Frames)], NEW t \in Threads, stack[t] # << >>
  PROVE  /\ Top(t) \in Frames /\ Top(t) = stack[t][Len(stack[t])] /\ Len(stack[t]) \in Nat \ {0}
         /\ Job(t) = Top(t)
<1>1. stack[t] \in Seq(Frames) OBVIOUS
<1>2. Len(stack[t]) \in Nat /\ Len(stack[t]) # 0 BY <1>1, EmptySeq, LenProperties
<1>3. Len(stack[t]) \in 1 .. Len(stack[t]) BY <1>2
<1>4. stack[t][Len(stack[t])] \in Frames BY <1>1, <1>3, ElementOfSeq
<1> QED BY <1>2, <1>4 DEF Top, Last, Job

LEMMA Calls ==
  ASSUME stack \in [Threads -> Seq(Frames)], NEW t \in Threads, NEW f \in Frames,
         stack' = [stack EXCEPT ![t] = Append(@, f)]
  PROVE  Into(t, Len(stack[t]), f)
<1> DEFINE q == stack[t]
<1>1. q \in Seq(Frames) OBVIOUS
<1>2. stack'[t] = Append(q, f) /\ Others(t) BY DEF Others
<1> HIDE DEF q
<1>3. /\ Append(q, f) \in Seq(Frames) /\ Len(Append(q, f)) = Len(q) + 1
      /\ Append(q, f)[Len(q) + 1] = f /\ \A k \in 1 .. Len(q) : Append(q, f)[k] = q[k]
  BY <1>1, AppendProperties
<1>4. stack' \in [Threads -> Seq(Frames)] BY <1>3 DEF q
<1>5. Last(stack'[t]) = f BY <1>2, <1>3 DEF Last
<1> QED BY <1>2, <1>3, <1>4, <1>5 DEF Into, q

LEMMA Sets ==
  ASSUME stack \in [Threads -> Seq(Frames)], NEW t \in Threads, stack[t] # << >>,
         NEW f \in Frames, SetTop(t, f)
  PROVE  Into(t, Len(stack[t]) - 1, f)
<1> DEFINE q == stack[t]
           r == [q EXCEPT ![Len(q)] = f]
<1>1. q \in Seq(Frames) /\ Len(q) \in Nat \ {0} BY TopFacts
<1>2. stack'[t] = r /\ Others(t) BY DEF Others, SetTop
<1>3. stack' = [stack EXCEPT ![t] = r] BY DEF SetTop
<1> HIDE DEF q
<1>4. Len(q) \in 1 .. Len(q) BY <1>1
<1>5. /\ r \in Seq(Frames) /\ Len(r) = Len(q)
      /\ \A k \in 1 .. Len(q) : r[k] = IF k = Len(q) THEN f ELSE q[k]
  BY <1>1, <1>4, ExceptSeq
<1> HIDE DEF r
<1>6. stack' \in [Threads -> Seq(Frames)] BY <1>3, <1>5 DEF q
<1>7. Last(stack'[t]) = f /\ stack'[t][(Len(q) - 1) + 1] = f /\ Len(stack'[t]) = (Len(q) - 1) + 1
  BY <1>1, <1>2, <1>4, <1>5 DEF Last
<1>8. \A k \in 1 .. Len(q) - 1 : stack'[t][k] = q[k] BY <1>1, <1>2, <1>5
<1> QED BY <1>2, <1>6, <1>7, <1>8 DEF Into, q

LEMMA Returns ==
  ASSUME stack \in [Threads -> Seq(Frames)], NEW t \in Threads, stack[t] # << >>, Return(t)
  PROVE  OutOf(t)
<1> DEFINE q == stack[t]
<1>1. q \in Seq(Frames) /\ Len(q) \in Nat \ {0} BY TopFacts
<1>2. stack'[t] = Front(q) /\ Others(t) /\ stack' = [stack EXCEPT ![t] = Front(q)]
  BY DEF Others, Return
<1> HIDE DEF q
<1>3. Front(q) = SubSeq(q, 1, Len(q) - 1) BY DEF Front
<1>4. Len(q) - 1 \in 0 .. Len(q) BY <1>1
<1>5. /\ Front(q) \in Seq(Frames) /\ Len(Front(q)) = Len(q) - 1
      /\ \A k \in 1 .. Len(q) - 1 : Front(q)[k] = q[k]
  <2> DEFINE k == Len(q) - 1
  <2>1. k \in 0 .. Len(q) /\ Front(q) = SubSeq(q, 1, k) BY <1>3, <1>4
  <2> HIDE DEF k
  <2>2. /\ SubSeq(q, 1, k) \in Seq(Frames) /\ Len(SubSeq(q, 1, k)) = k
        /\ \A i \in 1 .. k : SubSeq(q, 1, k)[i] = q[i]
    BY <1>1, <2>1, Prefix
  <2> QED BY <2>1, <2>2 DEF k
<1>6. stack' \in [Threads -> Seq(Frames)] BY <1>2, <1>5 DEF q
<1> QED BY <1>2, <1>5, <1>6 DEF OutOf, q

(* No list of slots moves under a thread that holds the lock. *)
SlotsStay ==
  Free \/ (/\ Len(mSlots') = Len(mSlots)
           /\ \A i \in 1 .. Len(mSlots) : mSlots'[i].id = mSlots[i].id)

(* What a step of the specification leaves true of every call in progress.  *)
Steady ==
  /\ propagates' = propagates /\ mNextId' \in Nat /\ mNextId <= mNextId' /\ known \subseteq known'
  /\ SlotsStay

LEMMA FrameStays ==
  ASSUME SgTypes, Steady, NEW f \in Frames, FrameOK(f), f.pc = "kill" => ~Free
  PROVE  FrameOK(f)'
<1>1. f.at \in Nat /\ f.slot.id \in Nat BY DEF Frames
<1>2. mNextId \in Nat /\ Len(mSlots) \in Nat BY LenProperties DEF SgTypes
<1>3. f.pc = "kill" => f.at <= Len(mSlots') /\ mSlots'[f.at].id = f.slot.id
  <2> SUFFICES ASSUME f.pc = "kill" PROVE f.at <= Len(mSlots') /\ mSlots'[f.at].id = f.slot.id
    OBVIOUS
  <2>1. f.at \in 1 .. Len(mSlots) BY <1>1, <1>2 DEF FrameOK
  <2> QED BY <2>1 DEF FrameOK, Steady, SlotsStay
<1>4. f.op = "connect" => f.slot.id < mNextId' BY <1>1, <1>2 DEF FrameOK, Steady
<1> QED BY <1>3, <1>4 DEF FrameOK, Steady

LEMMA KillsHold ==
  ASSUME SgTypes, FramesOK, LocksOK, NEW t \in Threads, NEW k \in 1 .. Len(stack[t]),
         stack[t][k].pc = "kill"
  PROVE  ~Free
<1>1. stack \in [Threads -> Seq(Frames)] /\ Len(stack[t]) \in Nat BY LenProperties DEF SgTypes
<1>2. stack[t] # << >> BY <1>1
<1>3. k = Len(stack[t]) BY <1>1 DEF FramesOK, Waits
<1>4. Top(t).pc = "kill" /\ Len(stack[t]) # 0 BY <1>1, <1>2, <1>3, TopFacts
<1>5. shared[t] = Len(stack[t]) BY <1>2, <1>4 DEF LocksOK, Holds
<1> QED BY <1>4, <1>5 DEF Free

(* The calls in progress after a step: t is in f, whose outer calls wait, or *)
(* has returned.                                                            *)
LEMMA OldFrames ==
  ASSUME SgTypes, FramesOK, LocksOK, Steady, NEW u \in Threads, NEW k \in 1 .. Len(stack[u]),
         NEW g, g = stack[u][k]
  PROVE  FrameOK(g)' /\ (k < Len(stack[u]) => Waits(g))
<1>1. stack[u] \in Seq(Frames) BY DEF SgTypes
<1>2. g \in Frames BY <1>1, ElementOfSeq
<1>3. FrameOK(g) BY DEF FramesOK
<1>4. g.pc = "kill" => ~Free BY KillsHold
<1> QED BY <1>2, <1>3, <1>4, FrameStays DEF FramesOK

LEMMA FramesAre ==
  ASSUME \A u \in Threads : \A k \in 1 .. Len(stack'[u]) : \A g :
           g = stack'[u][k] => FrameOK(g)' /\ (k < Len(stack'[u]) => Waits(g))
  PROVE  FramesOK'
<1> SUFFICES ASSUME NEW u \in Threads, NEW k \in 1 .. Len(stack'[u]),
                    NEW g, g = stack'[u][k]
             PROVE  FrameOK(g)' /\ (k < Len(stack'[u]) => Waits(g))
  BY DEF FramesOK, FrameOK, Waits
<1> QED OBVIOUS

(* FrameOK in the next state. *)
FrameNext(f) ==
  /\ f.pc \in PcsOf(f.op) /\ f.at # 0
  /\ f.threw => propagates'
  /\ f.op = "connect" => f.slot \in Slot /\ f.slot.active /\ f.slot.id < mNextId'
  /\ f.op = "disconnect" => f.slot.id \in known'
  /\ f.pc = "kill" => f.at <= Len(mSlots') /\ mSlots'[f.at].id = f.slot.id

LEMMA FramesInto ==
  ASSUME SgTypes, FramesOK, LocksOK, Steady, NEW t \in Threads, NEW f \in Frames, FrameNext(f),
         NEW n \in Nat, Into(t, n, f),
         Len(stack[t]) = n + 1 \/ (Len(stack[t]) = n /\ (stack[t] # << >> => Waits(Top(t))))
  PROVE  FramesOK'
<1> SUFFICES ASSUME NEW u \in Threads, NEW k \in 1 .. Len(stack'[u]), NEW g, g = stack'[u][k]
             PROVE  FrameOK(g)' /\ (k < Len(stack'[u]) => Waits(g))
  BY FramesAre
<1>1. CASE u # t
  <2>1. stack'[u] = stack[u] BY <1>1 DEF Into, Others
  <2> QED BY <2>1, OldFrames
<1>2. CASE u = t /\ k = n + 1
  BY <1>2 DEF Into, FrameNext, FrameOK
<1>3. CASE u = t /\ k # n + 1
  <2>1. Len(stack[t]) \in Nat BY LenProperties DEF SgTypes
  <2>2. k \in 1 .. n /\ k \in 1 .. Len(stack[t]) /\ g = stack[t][k] BY <1>3, <2>1 DEF Into
  <2>3. FrameOK(g)' /\ (k < Len(stack[t]) => Waits(g)) BY <2>2, OldFrames
  <2>4. Waits(g)
    <3>1. CASE k < Len(stack[t]) BY <2>3, <3>1
    <3>2. CASE k = Len(stack[t])
      <4>1. stack[t] # << >> /\ n = Len(stack[t]) BY <2>1, <2>2, <3>2
      <4>2. Len(stack[t]) # n + 1 BY <2>1, <4>1
      <4>3. Waits(Top(t)) BY <4>1, <4>2
      <4>4. Top(t) = stack[t][Len(stack[t])] BY <4>1, TopFacts DEF SgTypes
      <4> QED BY <2>2, <3>2, <4>3, <4>4
    <3> QED BY <2>1, <2>2, <3>1, <3>2
  <2> QED BY <2>3, <2>4
<1> QED BY <1>1, <1>2, <1>3

LEMMA FramesOutOf ==
  ASSUME SgTypes, FramesOK, LocksOK, Steady, NEW t \in Threads, stack[t] # << >>, OutOf(t)
  PROVE  FramesOK'
<1> SUFFICES ASSUME NEW u \in Threads, NEW k \in 1 .. Len(stack'[u]), NEW g, g = stack'[u][k]
             PROVE  FrameOK(g)' /\ (k < Len(stack'[u]) => Waits(g))
  BY FramesAre
<1>1. CASE u # t
  <2>1. stack'[u] = stack[u] BY <1>1 DEF OutOf, Others
  <2> QED BY <2>1, OldFrames
<1>2. CASE u = t
  <2>1. Len(stack[t]) \in Nat BY LenProperties DEF SgTypes
  <2>2. k \in 1 .. Len(stack[t]) /\ k < Len(stack[t]) /\ g = stack[t][k]
    BY <1>2, <2>1 DEF OutOf
  <2> QED BY <2>2, OldFrames
<1> QED BY <1>1, <1>2

(* What a thread is about after it. *)
LEMMA JobInto ==
  ASSUME stack \in [Threads -> Seq(Frames)], NEW t \in Threads, NEW n \in Nat, NEW f, Into(t, n, f)
  PROVE  Job(t)' = f /\ stack'[t] # << >> /\ \A u \in Threads : u # t => Job(u)' = Job(u)
<1>1. stack'[t] # << >> BY EmptySeq DEF Into
<1> QED BY <1>1 DEF Into, Others, Job, Top

LEMMA JobOutOf ==
  ASSUME SgTypes, FramesOK, NEW t \in Threads, stack[t] # << >>, OutOf(t)
  PROVE  Waits(Job(t)') /\ \A u \in Threads : u # t => Job(u)' = Job(u)
<1>1. stack \in [Threads -> Seq(Frames)] /\ Len(stack[t]) \in Nat \ {0} BY TopFacts DEF SgTypes
<1>2. CASE stack'[t] = << >>
  <2>1. Job(t)' = Frame("emit", "callback", NoSlot) BY <1>2 DEF Job
  <2> QED BY <2>1 DEF Waits, Frame, OutOf, Others, Job, Top
<1>3. CASE stack'[t] # << >>
  <2>1. stack'[t] \in Seq(Frames) BY DEF OutOf
  <2>2. Len(stack'[t]) # 0 /\ Len(stack'[t]) \in Nat BY <1>3, <2>1, EmptySeq, LenProperties
  <2> DEFINE k == Len(stack[t]) - 1
  <2>3. k \in 1 .. k /\ Len(stack'[t]) = k /\ k \in 1 .. Len(stack[t]) /\ k < Len(stack[t])
    BY <1>1, <2>2 DEF OutOf
  <2>4. stack'[t][k] = stack[t][k] /\ Waits(stack[t][k]) BY <2>3 DEF OutOf, FramesOK
  <2>5. Job(t)' = stack[t][k] BY <1>3, <2>3, <2>4 DEF Job, Top, Last
  <2> QED BY <2>4, <2>5 DEF OutOf, Others, Job, Top
<1> QED BY <1>2, <1>3

LEMMA LocksInto ==
  ASSUME SgTypes, LocksOK, NEW t \in Threads, NEW n \in Nat, NEW f \in Frames, Into(t, n, f),
         \A u \in Threads : u # t => shared'[u] = shared[u],
         shared'[t] = IF Holds(f) THEN n + 1 ELSE n
  PROVE  LocksOK'
<1>1. stack \in [Threads -> Seq(Frames)] BY DEF SgTypes
<1>2. stack'[t] # << >> /\ Last(stack'[t]) = f /\ Len(stack'[t]) = n + 1 BY <1>1, JobInto DEF Into
<1>3. shared'[t] = IF stack'[t] = << >> THEN 0
                   ELSE IF Holds(Last(stack'[t])) THEN Len(stack'[t]) ELSE Len(stack'[t]) - 1
  BY <1>2
<1>4. ASSUME NEW u \in Threads, u # t
      PROVE  shared'[u] = IF stack'[u] = << >> THEN 0
                          ELSE IF Holds(Last(stack'[u])) THEN Len(stack'[u]) ELSE Len(stack'[u]) - 1
  BY <1>4 DEF LocksOK, Into, Others, Top
<1> QED BY <1>3, <1>4 DEF LocksOK, Holds, Top

LEMMA LocksOutOf ==
  ASSUME SgTypes, FramesOK, LocksOK, NEW t \in Threads, stack[t] # << >>, OutOf(t),
         \A u \in Threads : u # t => shared'[u] = shared[u],
         shared'[t] = Len(stack[t]) - 1
  PROVE  LocksOK'
<1>1. stack \in [Threads -> Seq(Frames)] BY DEF SgTypes
<1>2. Len(stack'[t]) = Len(stack[t]) - 1 /\ stack'[t] \in Seq(Frames) BY DEF OutOf
<1>3. shared'[t] = IF stack'[t] = << >> THEN 0
                   ELSE IF Holds(Last(stack'[t])) THEN Len(stack'[t]) ELSE Len(stack'[t]) - 1
  <2>1. CASE stack'[t] = << >>
    <3>1. Len(stack'[t]) = 0 BY <2>1
    <3> QED BY <1>2, <2>1, <3>1
  <2>2. CASE stack'[t] # << >>
    <3>1. Waits(Last(stack'[t])) BY <2>2, JobOutOf DEF Job, Top
    <3> QED BY <1>2, <2>2, <3>1 DEF Waits, Holds
  <2> QED BY <2>1, <2>2
<1>4. ASSUME NEW u \in Threads, u # t
      PROVE  shared'[u] = IF stack'[u] = << >> THEN 0
                          ELSE IF Holds(Last(stack'[u])) THEN Len(stack'[u]) ELSE Len(stack'[u]) - 1
  BY <1>4 DEF LocksOK, OutOf, Others, Top
<1> QED BY <1>3, <1>4 DEF LocksOK, Holds, Top

(* The emissions in progress. *)
LEMMA EmissionsFinite == IsFiniteSet(Emissions)
<1>1. IsFiniteSet(Threads) /\ IsFiniteSet(1 .. MaxCalls)
  BY ThreadsAssumption, BoundsAssumption, FS_Interval
<1>2. IsFiniteSet(Threads \X (1 .. MaxCalls)) BY <1>1, FS_Product
<1>3. Emissions \subseteq Threads \X (1 .. MaxCalls) BY DEF Emissions, EmissionsOf
<1> QED BY <1>2, <1>3, FS_Subset

Stacks == {s \in [Threads -> Seq(Frames)] : \A u \in Threads : Len(s[u]) <= MaxCalls}

LEMMA EmissionsAre ==
  ASSUME NEW s \in Stacks, NEW e
  PROVE  e \in EmissionsOf(s) <=>
           \E u \in Threads : \E k \in 1 .. Len(s[u]) : e = <<u, k>> /\ Counted(s[u][k])
<1>1. ASSUME NEW u \in Threads
      PROVE  DOMAIN s[u] = 1 .. Len(s[u]) /\ Len(s[u]) \in Nat /\ Len(s[u]) <= MaxCalls
  <2>1. s[u] \in Seq(Frames) /\ Len(s[u]) <= MaxCalls BY DEF Stacks
  <2> QED BY <2>1, LenProperties
<1>2. ASSUME e \in EmissionsOf(s)
      PROVE  \E u \in Threads : \E k \in 1 .. Len(s[u]) : e = <<u, k>> /\ Counted(s[u][k])
  <2>1. PICK u \in Threads, k \in 1 .. MaxCalls : e = <<u, k>> BY <1>2 DEF EmissionsOf
  <2>2. k \in DOMAIN s[u] /\ Counted(s[u][k]) BY <1>2, <2>1 DEF EmissionsOf
  <2> QED BY <1>1, <2>1, <2>2
<1>3. ASSUME NEW u \in Threads, NEW k \in 1 .. Len(s[u]), e = <<u, k>>, Counted(s[u][k])
      PROVE  e \in EmissionsOf(s)
  <2>1. k \in 1 .. MaxCalls /\ k \in DOMAIN s[u] BY <1>1, BoundsAssumption
  <2> QED BY <1>3, <2>1 DEF EmissionsOf
<1> QED BY <1>2, <1>3

LEMMA StacksFacts ==
  ASSUME SgTypes
  PROVE  stack \in Stacks
<1>1. ASSUME NEW u \in Threads PROVE Len(stack[u]) <= MaxCalls
  <2>1. stack[u] \in Seq(Frames) /\ calls[u] \in 0 .. MaxCalls /\ Len(stack[u]) <= calls[u]
    BY DEF SgTypes
  <2> QED BY <2>1, LenProperties, BoundsAssumption
<1> QED BY <1>1 DEF Stacks, SgTypes

LEMMA TopCounts ==
  ASSUME SgTypes, NEW t \in Threads, stack[t] # << >>
  PROVE  <<t, Len(stack[t])>> \in Emissions <=> Counted(Top(t))
<1>1. Top(t) = stack[t][Len(stack[t])] /\ Len(stack[t]) \in Nat \ {0} BY TopFacts DEF SgTypes
<1>2. Len(stack[t]) \in 1 .. Len(stack[t]) BY <1>1
<1>3. stack \in Stacks BY StacksFacts
<1> QED BY <1>1, <1>2, <1>3, EmissionsAre DEF Emissions

LEMMA EmissionsInto ==
  ASSUME SgTypes, stack' \in Stacks, NEW t \in Threads, NEW f \in Frames, NEW n \in Nat, Into(t, n, f),
         n = Len(stack[t]) - 1 \/ n = Len(stack[t])
  PROVE  Emissions' = (Emissions \ {<<t, n + 1>>})
                        \cup (IF Counted(f) THEN {<<t, n + 1>>} ELSE {})
<1> DEFINE s == stack
           r == stack'
<1>0. s \in Stacks /\ r \in Stacks /\ Emissions = EmissionsOf(s) /\ Emissions' = EmissionsOf(r)
  BY StacksFacts DEF Emissions, EmissionsOf, Counted
<1>1. ASSUME NEW e
      PROVE  e \in EmissionsOf(r) <=>
               \E u \in Threads : \E k \in 1 .. Len(r[u]) : e = <<u, k>> /\ Counted(r[u][k])
  <2> HIDE DEF r
  <2> QED BY <1>0, EmissionsAre
<1>2. /\ Len(stack'[t]) = n + 1 /\ stack'[t][n + 1] = f
      /\ \A k \in 1 .. n : stack'[t][k] = stack[t][k]
      /\ \A u \in Threads : u # t => stack'[u] = stack[u]
  BY DEF Into, Others
<1>3. Len(stack[t]) \in Nat BY LenProperties DEF SgTypes
<1>4. ASSUME NEW u \in Threads, NEW k \in 1 .. Len(stack'[u]), Counted(stack'[u][k])
      PROVE  <<u, k>> \in (Emissions \ {<<t, n + 1>>}) \cup (IF Counted(f) THEN {<<t, n + 1>>} ELSE {})
  <2>1. CASE u = t /\ k = n + 1 BY <1>2, <1>4, <2>1
  <2>2. CASE u = t /\ k # n + 1
    <3>1. k \in 1 .. Len(stack[t]) /\ Counted(stack[t][k]) BY <1>2, <1>3, <1>4, <2>2
    <3> QED BY <2>2, <3>1, <1>0, EmissionsAre
  <2>3. CASE u # t
    <3>1. k \in 1 .. Len(stack[u]) /\ Counted(stack[u][k]) BY <1>2, <1>4, <2>3
    <3> QED BY <2>3, <3>1, <1>0, EmissionsAre
  <2> QED BY <2>1, <2>2, <2>3
<1>5. ASSUME NEW u \in Threads, NEW k \in 1 .. Len(stack[u]), Counted(stack[u][k]),
             <<u, k>> # <<t, n + 1>>
      PROVE  <<u, k>> \in Emissions'
  <2>1. k \in 1 .. Len(stack'[u]) /\ stack'[u][k] = stack[u][k] BY <1>2, <1>3, <1>5
  <2> QED BY <1>0, <1>1, <1>5, <2>1
<1>6. Counted(f) => <<t, n + 1>> \in Emissions'
  <2>1. n + 1 \in 1 .. Len(stack'[t]) BY <1>2
  <2> QED BY <1>0, <1>1, <1>2, <2>1
<1>7. ASSUME NEW e \in Emissions'
      PROVE  e \in (Emissions \ {<<t, n + 1>>}) \cup (IF Counted(f) THEN {<<t, n + 1>>} ELSE {})
  BY <1>0, <1>1, <1>4
<1>8. ASSUME NEW e \in Emissions, e # <<t, n + 1>> PROVE e \in Emissions'
  BY <1>5, <1>8, <1>0, EmissionsAre
<1> QED BY <1>6, <1>7, <1>8

LEMMA EmissionsOutOf ==
  ASSUME SgTypes, stack' \in Stacks, NEW t \in Threads, stack[t] # << >>, OutOf(t)
  PROVE  Emissions' = Emissions \ {<<t, Len(stack[t])>>}
<1> DEFINE s == stack
           r == stack'
<1>0. s \in Stacks /\ r \in Stacks /\ Emissions = EmissionsOf(s) /\ Emissions' = EmissionsOf(r)
  BY StacksFacts DEF Emissions, EmissionsOf, Counted
<1>1. ASSUME NEW e
      PROVE  e \in EmissionsOf(r) <=>
               \E u \in Threads : \E k \in 1 .. Len(r[u]) : e = <<u, k>> /\ Counted(r[u][k])
  <2> HIDE DEF r
  <2> QED BY <1>0, EmissionsAre
<1>2. /\ Len(stack'[t]) = Len(stack[t]) - 1
      /\ \A k \in 1 .. Len(stack[t]) - 1 : stack'[t][k] = stack[t][k]
      /\ \A u \in Threads : u # t => stack'[u] = stack[u]
  BY DEF OutOf, Others
<1>3. Len(stack[t]) \in Nat BY LenProperties DEF SgTypes
<1>4. ASSUME NEW u \in Threads, NEW k \in 1 .. Len(stack'[u]), Counted(stack'[u][k])
      PROVE  <<u, k>> \in Emissions \ {<<t, Len(stack[t])>>}
  <2>1. k \in 1 .. Len(stack[u]) /\ Counted(stack[u][k]) /\ <<u, k>> # <<t, Len(stack[t])>>
    BY <1>2, <1>3, <1>4
  <2> QED BY <2>1, <1>0, EmissionsAre
<1>5. ASSUME NEW u \in Threads, NEW k \in 1 .. Len(stack[u]), Counted(stack[u][k]),
             <<u, k>> # <<t, Len(stack[t])>>
      PROVE  <<u, k>> \in Emissions'
  <2>1. k \in 1 .. Len(stack'[u]) /\ stack'[u][k] = stack[u][k] BY <1>2, <1>3, <1>5
  <2> QED BY <1>0, <1>1, <1>5, <2>1
<1>6. ASSUME NEW e \in Emissions' PROVE e \in Emissions \ {<<t, Len(stack[t])>>} BY <1>0, <1>1, <1>4
<1>7. ASSUME NEW e \in Emissions, e # <<t, Len(stack[t])>> PROVE e \in Emissions'
  BY <1>5, <1>7, <1>0, EmissionsAre
<1> QED BY <1>6, <1>7

(* The stacks, the lock and the depth after a step. *)
DataTypes ==
  /\ mNeedsCleanup \in BOOLEAN /\ mSlots \in Seq(Slot) /\ mPendingConnects \in Seq(Slot)
  /\ mNextId \in 1 .. MaxSlots + 1
  /\ known \subseteq 1 .. mNextId - 1 /\ dropped \subseteq 1 .. mNextId - 1

JobIs(t, f) == Job(t)' = f /\ \A u \in Threads : u # t => Job(u)' = Job(u)

LEMMA ControlSets ==
  ASSUME Control, Steady, DataTypes', NEW t \in Threads, stack[t] # << >>,
         NEW f \in Frames, SetTop(t, f), FrameNext(f), calls' = calls,
         \/ shared' = shared /\ (Holds(f) <=> Holds(Top(t)))
         \/ shared' = [shared EXCEPT ![t] = @ + 1] /\ Holds(f) /\ ~Holds(Top(t))
         \/ shared' = [shared EXCEPT ![t] = @ - 1] /\ ~Holds(f) /\ Holds(Top(t)),
         \/ mRecursionDepth' = mRecursionDepth /\ (Counted(f) <=> Counted(Top(t)))
         \/ mRecursionDepth' = mRecursionDepth + 1 /\ Counted(f) /\ ~Counted(Top(t))
         \/ mRecursionDepth' = mRecursionDepth - 1 /\ ~Counted(f) /\ Counted(Top(t))
  PROVE  Control' /\ JobIs(t, f)
<1>0. stack \in [Threads -> Seq(Frames)] /\ Len(stack[t]) \in Nat \ {0} /\ Job(t) = Top(t)
  BY TopFacts DEF Control, SgTypes
<1> PICK n \in Nat : n = Len(stack[t]) - 1 BY <1>0
<1>1. /\ stack \in [Threads -> Seq(Frames)] /\ Len(stack[t]) \in Nat \ {0} /\ n \in Nat
      /\ Into(t, n, f) /\ Job(t) = Top(t)
  BY <1>0, Sets
<1>2. Len(stack'[t]) = Len(stack[t]) BY <1>1 DEF Into
<1>3. shared \in [Threads -> Nat] /\ mRecursionDepth \in Nat BY DEF Control, SgTypes
<1>4. shared[t] = IF Holds(Top(t)) THEN n + 1 ELSE n
  BY <1>1 DEF Control, LocksOK
<1>5. shared' \in [Threads -> Nat] /\ shared'[t] = (IF Holds(f) THEN n + 1 ELSE n)
      /\ \A u \in Threads : u # t => shared'[u] = shared[u]
  <2>1. CASE shared' = shared /\ (Holds(f) <=> Holds(Top(t))) BY <1>3, <1>4, <2>1
  <2>2. CASE shared' = [shared EXCEPT ![t] = @ + 1] /\ Holds(f) /\ ~Holds(Top(t))
    BY <1>1, <1>3, <1>4, <2>2
  <2>3. CASE shared' = [shared EXCEPT ![t] = @ - 1] /\ ~Holds(f) /\ Holds(Top(t))
    BY <1>1, <1>3, <1>4, <2>3
  <2> QED BY <2>1, <2>2, <2>3
<1>6. /\ stack' \in [Threads -> Seq(Frames)] /\ calls' \in [Threads -> 0 .. MaxCalls]
      /\ \A u \in Threads : Len(stack'[u]) <= calls'[u]
  BY <1>1, <1>2 DEF Control, SgTypes, Into, Others
<1>7. stack' \in Stacks
  <2>1. ASSUME NEW u \in Threads PROVE Len(stack'[u]) <= MaxCalls
    <3>1. stack'[u] \in Seq(Frames) /\ calls'[u] \in 0 .. MaxCalls /\ Len(stack'[u]) <= calls'[u]
      BY <1>6
    <3> QED BY <3>1, LenProperties, BoundsAssumption
  <2> QED BY <1>6, <2>1 DEF Stacks
<1>8. mRecursionDepth' \in Nat /\ DepthOK'
  <2> DEFINE e == <<t, n + 1>>
  <2>1. Emissions' = (Emissions \ {e}) \cup (IF Counted(f) THEN {e} ELSE {})
    BY <1>1, <1>7, EmissionsInto DEF Control
  <2>2. e \in Emissions <=> Counted(Top(t)) BY <1>1, TopCounts DEF Control
  <2>3. IsFiniteSet(Emissions) /\ mRecursionDepth = Cardinality(Emissions)
    BY EmissionsFinite DEF Control, DepthOK
  <2> HIDE DEF e
  <2>4. CASE mRecursionDepth' = mRecursionDepth /\ (Counted(f) <=> Counted(Top(t)))
    <3>1. Emissions' = Emissions BY <2>1, <2>2, <2>4
    <3> QED BY <1>3, <2>3, <2>4, <3>1 DEF DepthOK
  <2>5. CASE mRecursionDepth' = mRecursionDepth + 1 /\ Counted(f) /\ ~Counted(Top(t))
    <3>1. Emissions' = Emissions \cup {e} /\ e \notin Emissions BY <2>1, <2>2, <2>5
    <3>2. Cardinality(Emissions') = Cardinality(Emissions) + 1 BY <2>3, <3>1, FS_AddElement
    <3> QED BY <1>3, <2>3, <2>5, <3>2 DEF DepthOK
  <2>6. CASE mRecursionDepth' = mRecursionDepth - 1 /\ ~Counted(f) /\ Counted(Top(t))
    <3>1. Emissions' = Emissions \ {e} /\ e \in Emissions BY <2>1, <2>2, <2>6
    <3>2. IsFiniteSet(Emissions') /\ Cardinality(Emissions') = Cardinality(Emissions) - 1
      BY <2>3, <3>1, FS_RemoveElement
    <3>3. Cardinality(Emissions') \in Nat BY <3>2, FS_CardinalityType
    <3> QED BY <1>3, <2>3, <2>6, <3>2, <3>3 DEF DepthOK
  <2> QED BY <2>4, <2>5, <2>6
<1>9. SgTypes' BY <1>5, <1>6, <1>8 DEF SgTypes, Control, DataTypes, Steady
<1>10. FramesOK' BY <1>1, FramesInto DEF Control
<1>11. LocksOK' BY <1>1, <1>5, LocksInto DEF Control
<1>12. JobIs(t, f) BY <1>1, JobInto DEF JobIs
<1> QED BY <1>8, <1>9, <1>10, <1>11, <1>12 DEF Control

LEMMA ControlReturns ==
  ASSUME Control, Steady, DataTypes', NEW t \in Threads, stack[t] # << >>, Return(t),
         calls' = calls, mRecursionDepth' = mRecursionDepth, ~Counted(Top(t)),
         \/ shared' = shared /\ ~Holds(Top(t))
         \/ shared' = [shared EXCEPT ![t] = @ - 1] /\ Holds(Top(t))
  PROVE  Control' /\ \E g : JobIs(t, g) /\ Waits(g)
<1> DEFINE n == Len(stack[t]) - 1
<1>1. /\ stack \in [Threads -> Seq(Frames)] /\ Len(stack[t]) \in Nat \ {0} /\ n \in Nat /\ OutOf(t)
  BY TopFacts, Returns DEF Control, SgTypes
<1>2. Len(stack'[t]) = n BY <1>1 DEF OutOf
<1>3. shared \in [Threads -> Nat] /\ mRecursionDepth \in Nat BY DEF Control, SgTypes
<1>4. shared[t] = IF Holds(Top(t)) THEN n + 1 ELSE n
  BY <1>1 DEF Control, LocksOK
<1>5. shared' \in [Threads -> Nat] /\ shared'[t] = Len(stack[t]) - 1
      /\ \A u \in Threads : u # t => shared'[u] = shared[u]
  <2> HIDE DEF n
  <2>1. CASE shared' = shared /\ ~Holds(Top(t)) BY <1>3, <1>4, <2>1 DEF n
  <2>2. CASE shared' = [shared EXCEPT ![t] = @ - 1] /\ Holds(Top(t))
    <3>1. shared[t] = n + 1 BY <1>4, <2>2
    <3> QED BY <1>1, <1>3, <2>2, <3>1 DEF n
  <2> QED BY <2>1, <2>2
<1>6. /\ stack' \in [Threads -> Seq(Frames)] /\ calls' \in [Threads -> 0 .. MaxCalls]
      /\ \A u \in Threads : Len(stack'[u]) <= calls'[u]
  <2>1. ASSUME NEW u \in Threads PROVE Len(stack'[u]) <= calls'[u]
    <3>1. Len(stack[u]) <= calls[u] /\ calls[u] \in 0 .. MaxCalls BY DEF Control, SgTypes
    <3>2. CASE u = t
      <4>1. n <= calls[u] BY <1>1, <3>1, <3>2, BoundsAssumption
      <4> QED BY <1>2, <3>2, <4>1
    <3>3. CASE u # t BY <1>1, <3>1, <3>3 DEF OutOf, Others
    <3> QED BY <3>2, <3>3
  <2> QED BY <1>1, <2>1 DEF Control, SgTypes, OutOf
<1>7. stack' \in Stacks
  <2>1. ASSUME NEW u \in Threads PROVE Len(stack'[u]) <= MaxCalls
    <3>1. stack'[u] \in Seq(Frames) /\ calls'[u] \in 0 .. MaxCalls /\ Len(stack'[u]) <= calls'[u]
      BY <1>6
    <3> QED BY <3>1, LenProperties, BoundsAssumption
  <2> QED BY <1>6, <2>1 DEF Stacks
<1>8. mRecursionDepth' \in Nat /\ DepthOK'
  <2> DEFINE e == <<t, Len(stack[t])>>
  <2>1. Emissions' = Emissions \ {e} BY <1>1, <1>7, EmissionsOutOf DEF Control
  <2>2. e \notin Emissions BY TopCounts DEF Control
  <2> HIDE DEF e
  <2>3. Emissions' = Emissions BY <2>1, <2>2
  <2> QED BY <1>3, <2>3 DEF DepthOK, Control
<1>9. SgTypes' BY <1>5, <1>6, <1>8 DEF SgTypes, Control, DataTypes, Steady
<1>10. FramesOK' BY <1>1, FramesOutOf DEF Control
<1>11. LocksOK' BY <1>1, <1>5, LocksOutOf DEF Control
<1>12. Waits(Job(t)') /\ \A u \in Threads : u # t => Job(u)' = Job(u)
  BY <1>1, JobOutOf DEF Control
<1> DEFINE g == Job(t)'
<1>13. JobIs(t, g) /\ Waits(g) BY <1>12 DEF JobIs
<1> HIDE DEF g
<1> QED BY <1>8, <1>9, <1>10, <1>11, <1>13 DEF Control

LEMMA ControlCalls ==
  ASSUME Control, Steady, DataTypes', NEW t \in Threads, NEW f \in Frames, Call(t, f), FrameNext(f),
         shared' = shared, mRecursionDepth' = mRecursionDepth, ~Holds(f), ~Counted(f)
  PROVE  Control' /\ JobIs(t, f) /\ Waits(Job(t))
<1> DEFINE n == Len(stack[t])
<1>1. /\ stack \in [Threads -> Seq(Frames)] /\ n \in Nat
      /\ stack' = [stack EXCEPT ![t] = Append(@, f)]
  BY LenProperties DEF Control, SgTypes, Call
<1>2. Into(t, n, f) BY <1>1, Calls
<1>3. stack[t] # << >> => Waits(Top(t)) BY DEF Call, At, Waits
<1>4. Waits(Job(t)) BY <1>3 DEF Job, Waits, Frame
<1>5. shared \in [Threads -> Nat] /\ mRecursionDepth \in Nat BY DEF Control, SgTypes
<1>6. shared[t] = n
  <2>1. CASE stack[t] = << >>
    <3>1. n = 0 BY <2>1
    <3> QED BY <2>1, <3>1 DEF Control, LocksOK
  <2>2. CASE stack[t] # << >>
    <3>1. Holds(Top(t)) BY <1>3, <2>2 DEF Waits, Holds
    <3> QED BY <2>2, <3>1 DEF Control, LocksOK
  <2> QED BY <2>1, <2>2
<1>7. /\ stack' \in [Threads -> Seq(Frames)] /\ calls' \in [Threads -> 0 .. MaxCalls]
      /\ \A u \in Threads : Len(stack'[u]) <= calls'[u]
  <2>1. calls \in [Threads -> 0 .. MaxCalls] /\ calls[t] < MaxCalls
        /\ calls' = [calls EXCEPT ![t] = @ + 1] /\ MaxCalls \in Nat
    BY BoundsAssumption DEF Control, SgTypes, Call
  <2>2. ASSUME NEW u \in Threads PROVE Len(stack'[u]) <= calls'[u]
    <3>1. Len(stack[u]) <= calls[u] /\ calls[u] \in 0 .. MaxCalls BY DEF Control, SgTypes
    <3>2. CASE u = t BY <1>1, <1>2, <2>1, <3>1, <3>2 DEF Into
    <3>3. CASE u # t BY <1>2, <2>1, <3>1, <3>3 DEF Into, Others
    <3> QED BY <3>2, <3>3
  <2> QED BY <1>2, <2>1, <2>2 DEF Into
<1>8. stack' \in Stacks
  <2>1. ASSUME NEW u \in Threads PROVE Len(stack'[u]) <= MaxCalls
    <3>1. stack'[u] \in Seq(Frames) /\ calls'[u] \in 0 .. MaxCalls /\ Len(stack'[u]) <= calls'[u]
      BY <1>7
    <3> QED BY <3>1, LenProperties, BoundsAssumption
  <2> QED BY <1>7, <2>1 DEF Stacks
<1>9. mRecursionDepth' \in Nat /\ DepthOK'
  <2> DEFINE e == <<t, n + 1>>
  <2>1. Emissions' = Emissions \ {e} BY <1>1, <1>2, <1>8, EmissionsInto DEF Control
  <2>2. e \notin Emissions
    <3>1. SUFFICES ASSUME e \in Emissions PROVE FALSE OBVIOUS
    <3>2. \E u \in Threads : \E k \in 1 .. Len(stack[u]) : e = <<u, k>>
      <4>1. stack \in Stacks BY StacksFacts DEF Control
      <4> HIDE DEF e
      <4> QED BY <3>1, <4>1, EmissionsAre DEF Emissions
    <3>3. PICK u \in Threads : \E k \in 1 .. Len(stack[u]) : e = <<u, k>> BY <3>2
    <3>4. PICK k \in 1 .. Len(stack[u]) : e = <<u, k>> BY <3>3
    <3> QED BY <1>1, <3>4
  <2> HIDE DEF e
  <2>3. Emissions' = Emissions BY <2>1, <2>2
  <2> QED BY <1>5, <2>3 DEF DepthOK, Control
<1>10. SgTypes' BY <1>5, <1>7, <1>9 DEF SgTypes, Control, DataTypes, Steady
<1>11. FramesOK' BY <1>1, <1>2, <1>3, FramesInto DEF Control
<1>12. LocksOK' BY <1>1, <1>2, <1>5, <1>6, LocksInto DEF Control
<1>13. JobIs(t, f) BY <1>1, <1>2, JobInto DEF JobIs
<1> QED BY <1>4, <1>9, <1>10, <1>11, <1>12, <1>13 DEF Control

-----------------------------------------------------------------------------
(* Who has the lock to himself finds no emission. *)
LEMMA FreeMeansIdle ==
  ASSUME Control, Free
  PROVE  mRecursionDepth = 0 /\ \A t \in Threads : stack[t] = << >> \/ ~Holds(Top(t))
<1>1. ASSUME NEW t \in Threads, stack[t] # << >>
      PROVE  ~Holds(Top(t)) /\ Len(stack[t]) = 1
  <2>1. Len(stack[t]) \in Nat \ {0} BY <1>1, TopFacts DEF Control, SgTypes
  <2>2. shared[t] = 0 BY DEF Free
  <2>3. shared[t] = IF Holds(Top(t)) THEN Len(stack[t]) ELSE Len(stack[t]) - 1
    BY <1>1 DEF Control, LocksOK
  <2>4. CASE Holds(Top(t))
    <3>1. Len(stack[t]) = 0 BY <2>2, <2>3, <2>4
    <3> QED BY <2>1, <3>1
  <2>5. CASE ~Holds(Top(t))
    <3>1. 0 = Len(stack[t]) - 1 BY <2>2, <2>3, <2>5
    <3> QED BY <2>1, <2>5, <3>1
  <2> QED BY <2>4, <2>5
<1>2. ASSUME NEW e \in Emissions PROVE FALSE
  <2>1. stack \in Stacks BY StacksFacts DEF Control
  <2>2. \E u \in Threads : \E k \in 1 .. Len(stack[u]) : e = <<u, k>> /\ Counted(stack[u][k])
    BY <2>1, EmissionsAre DEF Emissions
  <2>3. PICK u \in Threads : \E k \in 1 .. Len(stack[u]) : Counted(stack[u][k]) BY <2>2
  <2>4. PICK k \in 1 .. Len(stack[u]) : Counted(stack[u][k]) BY <2>3
  <2>5. stack[u] \in Seq(Frames) /\ Len(stack[u]) \in Nat BY LenProperties DEF Control, SgTypes
  <2>6. stack[u] # << >> BY <2>4, <2>5
  <2>7. k = Len(stack[u])
    <3>1. Len(stack[u]) = 1 BY <1>1, <2>6
    <3> QED BY <2>5, <3>1
  <2>8. Counted(Top(u)) BY <2>4, <2>6, <2>7, TopFacts DEF Control, SgTypes
  <2> QED BY <1>1, <2>6, <2>8 DEF Counted, Holds
<1>3. Emissions = {} BY <1>2
<1>4. Cardinality(Emissions) = 0 BY <1>3, FS_EmptySet
<1> QED BY <1>1, <1>4 DEF Control, DepthOK

(* A step that moves nobody's slot. *)
LEMMA SamePlaces ==
  ASSUME Places, NEW t \in Threads, NEW g, JobIs(t, g), lists' = lists, history' = history,
         mNextId' = mNextId, Unborn(g) <=> Unborn(Job(t)),
         Connecting(g) => Connecting(Job(t)) /\ g.slot.id = Job(t).slot.id
  PROVE  Places'
<1>1. /\ mSlots' = mSlots /\ mPendingConnects' = mPendingConnects /\ mNextId' = mNextId
      /\ known' = known /\ dropped' = dropped
  BY DEF lists, history
<1>2. ListsOK'
  BY <1>1 DEF Places, ListsOK
<1>3. Job(t)' = g /\ \A u \in Threads : u # t => Job(u)' = Job(u) BY DEF JobIs
<1>4. Unborn(g) => Connecting(g) BY DEF Unborn
<1>5. ConnectsOK'
  <2>1. \A u \in Threads : Connecting(Job(u)') =>
          Connecting(Job(u)) /\ Job(u)'.slot.id = Job(u).slot.id
    BY <1>3
  <2>2. \A u \in Threads : Unborn(Job(u)') => Unborn(Job(u)) /\ Connecting(Job(u)')
    BY <1>3 DEF Unborn
  <2>3. \A u \in Threads : Connecting(Job(u)') => Job(u)'.slot.id \notin known'
    BY <1>1, <2>1 DEF Places, ConnectsOK
  <2>4. \A u, v \in Threads : Connecting(Job(u)') /\ Connecting(Job(v)')
                                /\ Job(u)'.slot.id = Job(v)'.slot.id => u = v
    BY <2>1 DEF Places, ConnectsOK
  <2>5. \A u \in Threads : Unborn(Job(u)') =>
          Job(u)'.slot.id \notin IdsOf(mSlots) \cup IdsOf(mPendingConnects) \cup dropped
    BY <2>1, <2>2 DEF Places, ConnectsOK
  <2>6. IdsOf(mSlots)' = IdsOf(mSlots) /\ IdsOf(mPendingConnects)' = IdsOf(mPendingConnects)
    BY <1>1 DEF IdsOf
  <2> QED BY <1>1, <2>3, <2>4, <2>5, <2>6 DEF ConnectsOK, Unborn, Connecting
<1>6. PlacedOK'
  <2>1. Placed' = Placed BY <1>1 DEF Placed, ActiveIn, IdsOf
  <2>2. ASSUME NEW u \in Threads, Unborn(Job(u))
        PROVE  Unborn(Job(u)') /\ Job(u)'.slot.id = Job(u).slot.id
    BY <1>3, <1>4, <2>2
  <2>3. dropped' \cap Placed' = {} BY <1>1, <2>1 DEF Places, PlacedOK
  <2>4. \A i \in 1 .. mNextId - 1 :
          i \in Placed \cup dropped \/ \E u \in Threads : Unborn(Job(u)') /\ Job(u)'.slot.id = i
    BY <2>2 DEF Places, PlacedOK
  <2> QED BY <1>1, <2>1, <2>3, <2>4 DEF PlacedOK, Unborn, Connecting
<1> QED BY <1>2, <1>5, <1>6 DEF Places

(* A step that leaves the parked slots to the same or another call. *)
LEMMA SameDuty ==
  ASSUME DutyOK, NEW t \in Threads, NEW g, JobIs(t, g), propagates' = propagates,
         mPendingConnects' # << >> => mPendingConnects # << >>,
         mNeedsCleanup \/ WillFlag(Job(t)) => mNeedsCleanup' \/ WillFlag(g),
         mRecursionDepth > 0 \/ WillClean(Job(t)) =>
           propagates \/ mRecursionDepth' > 0 \/ WillClean(g)
  PROVE  DutyOK'
<1> SUFFICES ASSUME mPendingConnects' # << >>
             PROVE  /\ mNeedsCleanup' \/ \E u \in Threads : WillFlag(Job(u)')
                    /\ propagates' \/ mRecursionDepth' > 0 \/ \E u \in Threads : WillClean(Job(u)')
  BY DEF DutyOK, WillFlag, WillClean
<1>1. Job(t)' = g /\ \A u \in Threads : u # t => Job(u)' = Job(u) BY DEF JobIs
<1>2. mNeedsCleanup' \/ \E u \in Threads : WillFlag(Job(u)')
  BY <1>1 DEF DutyOK
<1>3. propagates' \/ mRecursionDepth' > 0 \/ \E u \in Threads : WillClean(Job(u)')
  BY <1>1 DEF DutyOK
<1> QED BY <1>2, <1>3

(* A step within a call that changes neither list. *)
LEMMA QuietSets ==
  ASSUME IInv, propagates' = propagates, NEW t \in Threads, stack[t] # << >>,
         NEW f \in Frames, SetTop(t, f), FrameOK(f),
         lists' = lists, history' = history, mNextId' = mNextId, calls' = calls,
         mNeedsCleanup' \in BOOLEAN,
         f.op = Top(t).op, f.slot = Top(t).slot, Unborn(f) <=> Unborn(Top(t)),
         \/ shared' = shared /\ (Holds(f) <=> Holds(Top(t)))
         \/ shared' = [shared EXCEPT ![t] = @ + 1] /\ Holds(f) /\ ~Holds(Top(t))
         \/ shared' = [shared EXCEPT ![t] = @ - 1] /\ ~Holds(f) /\ Holds(Top(t)),
         \/ mRecursionDepth' = mRecursionDepth /\ (Counted(f) <=> Counted(Top(t)))
         \/ mRecursionDepth' = mRecursionDepth + 1 /\ Counted(f) /\ ~Counted(Top(t))
         \/ mRecursionDepth' = mRecursionDepth - 1 /\ ~Counted(f) /\ Counted(Top(t))
  PROVE  Control' /\ Places' /\ JobIs(t, f) /\ Job(t) = Top(t)
<1>1. /\ mSlots' = mSlots /\ mPendingConnects' = mPendingConnects
      /\ known' = known /\ dropped' = dropped
  BY DEF lists, history
<1>2. Control /\ Places /\ SgTypes /\ stack \in [Threads -> Seq(Frames)]
  BY DEF IInv, Control, SgTypes
<1>3. Steady /\ DataTypes' /\ FrameNext(f)
  BY <1>1, <1>2 DEF Steady, SlotsStay, SgTypes, DataTypes, FrameNext, FrameOK
<1>4. Control' /\ JobIs(t, f) BY <1>2, <1>3, ControlSets
<1>5. Job(t) = Top(t) BY <1>2, TopFacts
<1>6. Places' BY <1>2, <1>4, <1>5, SamePlaces DEF Connecting
<1> QED BY <1>4, <1>5, <1>6

(* A frame that differs from the innermost one in its place and index. *)
LEMMA FrameMoves ==
  ASSUME IInv, NEW t \in Threads, stack[t] # << >>
  PROVE  /\ Top(t) \in Frames /\ FrameOK(Top(t)) /\ stack \in [Threads -> Seq(Frames)]
         /\ \A pc \in PcsOf(Top(t).op) :
              /\ [Top(t) EXCEPT !.pc = pc] \in Frames
              /\ \A i \in Nat : [Top(t) EXCEPT !.pc = pc, !.at = i] \in Frames
              /\ \A b \in BOOLEAN : [Top(t) EXCEPT !.pc = pc, !.threw = b] \in Frames
              /\ \A b \in BOOLEAN : [Top(t) EXCEPT !.pc = pc, !.outermost = b] \in Frames
<1>1. stack \in [Threads -> Seq(Frames)] BY DEF IInv, Control, SgTypes
<1>2. Top(t) \in Frames /\ Top(t) = stack[t][Len(stack[t])] /\ Len(stack[t]) \in Nat \ {0}
  BY <1>1, TopFacts
<1>3. Len(stack[t]) \in 1 .. Len(stack[t]) BY <1>2
<1>4. FrameOK(Top(t)) BY <1>2, <1>3 DEF IInv, Control, FramesOK
<1>5. PcsOf(Top(t).op) \subseteq UNION {PcsOf(op) : op \in Ops} BY <1>2 DEF Frames
<1> QED BY <1>1, <1>2, <1>4, <1>5 DEF Frames

LEMMA SeeDepthKeeps ==
  ASSUME IInv, propagates' = propagates, NEW t \in Threads, SeeDepth(t)
  PROVE  IInv'
<1> DEFINE pc == IF mRecursionDepth > 0 THEN "sharedLock" ELSE "exclusive"
           f == [Top(t) EXCEPT !.pc = pc]
<1>1. stack[t] # << >> /\ Top(t).pc = "depth" /\ SetTop(t, f)
  BY DEF SeeDepth, GoTo
<1>2. /\ lists' = lists /\ history' = history /\ calls' = calls /\ shared' = shared
      /\ mNextId' = mNextId /\ mRecursionDepth' = mRecursionDepth /\ mNeedsCleanup' = mNeedsCleanup
  BY DEF SeeDepth, flags
<1>3. Top(t) \in Frames /\ FrameOK(Top(t)) BY <1>1, FrameMoves
<1>4. pc \in PcsOf(Top(t).op) BY <1>1, <1>3 DEF FrameOK, PcsOf, Frames, Ops
<1>5. f \in Frames BY <1>1, <1>4, FrameMoves
<1>6. f.op = Top(t).op /\ f.slot = Top(t).slot /\ f.at = Top(t).at /\ f.threw = Top(t).threw
      /\ f.pc = pc
  BY <1>3 DEF Frames
<1>7. pc \in {"sharedLock", "exclusive"} OBVIOUS
<1> HIDE DEF f, pc
<1>8. FrameOK(f) BY <1>3, <1>4, <1>6, <1>7 DEF FrameOK
<1>9. Unborn(f) <=> Unborn(Top(t)) BY <1>1, <1>6, <1>7 DEF Unborn, Connecting
<1>10. ~Holds(f) /\ ~Holds(Top(t)) /\ ~Counted(f) /\ ~Counted(Top(t))
       /\ ~WillFlag(Top(t)) /\ ~WillClean(Top(t))
  BY <1>1, <1>6, <1>7 DEF Holds, Counted, WillFlag, WillClean
<1>11. mNeedsCleanup \in BOOLEAN BY DEF IInv, Control, SgTypes
<1>12. Control' /\ Places' /\ JobIs(t, f) /\ Job(t) = Top(t)
  BY <1>1, <1>2, <1>5, <1>6, <1>8, <1>9, <1>10, <1>11, QuietSets
<1>13. DutyOK' BY <1>2, <1>10, <1>12, SameDuty DEF IInv, lists
<1> QED BY <1>12, <1>13 DEF IInv

(* The loop of an emission. *)
EmissionGoesOn(t) ==
  \/ EmitSkips(t) \/ EmitChecks(t) \/ EmitInvokes(t)
  \/ SlotReturns(t) \/ SlotThrows(t) \/ SlotAnswers(t) \/ EmitEnds(t)

InLoop(f) == f.op = "emit" /\ f.pc \in {"scan", "invoke", "callback", "leave"}

LEMMA LoopFrames ==
  ASSUME IInv, NEW t \in Threads, stack[t] # << >>, InLoop(Top(t)),
         NEW pc \in {"scan", "invoke", "callback", "leave"}
  PROVE  /\ LET f == [Top(t) EXCEPT !.pc = pc]
            IN  f \in Frames /\ InLoop(f) /\ f.slot = Top(t).slot /\ FrameOK(f)
         /\ LET f == [Top(t) EXCEPT !.pc = pc, !.at = @ + 1]
            IN  f \in Frames /\ InLoop(f) /\ f.slot = Top(t).slot /\ FrameOK(f)
         /\ propagates =>
              LET f == [Top(t) EXCEPT !.pc = pc, !.threw = TRUE]
              IN  f \in Frames /\ InLoop(f) /\ f.slot = Top(t).slot /\ FrameOK(f)
<1> DEFINE g == Top(t)
<1>1. g \in Frames /\ FrameOK(g) BY FrameMoves
<1>2. g.op = "emit" /\ g.at \in Nat /\ g.at + 1 \in Nat BY <1>1 DEF InLoop, Frames
<1>3. pc \in PcsOf("emit") /\ pc # "kill" BY DEF PcsOf
<1>4. g.at # 0 /\ g.at + 1 # 0 BY <1>1, <1>2 DEF FrameOK
<1>5. /\ [g EXCEPT !.pc = pc] \in Frames /\ [g EXCEPT !.pc = pc, !.at = g.at + 1] \in Frames
      /\ [g EXCEPT !.pc = pc, !.threw = TRUE] \in Frames
  BY <1>2, <1>3, FrameMoves
<1> HIDE DEF g
<1>6. LET f == [g EXCEPT !.pc = pc] IN InLoop(f) /\ f.slot = g.slot /\ FrameOK(f)
  BY <1>1, <1>2, <1>3, <1>4 DEF FrameOK, InLoop, Frames
<1>7. LET f == [g EXCEPT !.pc = pc, !.at = @ + 1] IN InLoop(f) /\ f.slot = g.slot /\ FrameOK(f)
  BY <1>1, <1>2, <1>3, <1>4 DEF FrameOK, InLoop, Frames
<1>8. propagates =>
        LET f == [g EXCEPT !.pc = pc, !.threw = TRUE] IN InLoop(f) /\ f.slot = g.slot /\ FrameOK(f)
  BY <1>1, <1>2, <1>3, <1>4 DEF FrameOK, InLoop, Frames
<1> QED BY <1>5, <1>6, <1>7, <1>8 DEF g

LEMMA EmissionGoesOnKeeps ==
  ASSUME IInv, propagates' = propagates, NEW t \in Threads, EmissionGoesOn(t)
  PROVE  IInv'
<1>1. /\ lists' = lists /\ history' = history /\ calls' = calls /\ shared' = shared
      /\ mNextId' = mNextId /\ mRecursionDepth' = mRecursionDepth /\ mNeedsCleanup' = mNeedsCleanup
  BY DEF EmissionGoesOn, EmitSkips, EmitChecks, EmitInvokes, SlotReturns, SlotThrows, SlotAnswers,
         EmitEnds, flags
<1>2. stack[t] # << >> /\ InLoop(Top(t))
  BY DEF EmissionGoesOn, EmitSkips, EmitChecks, EmitInvokes, SlotReturns, SlotThrows, SlotAnswers,
         EmitEnds, Scanning, At, InLoop
<1>3. \E f \in Frames : SetTop(t, f) /\ InLoop(f) /\ f.slot = Top(t).slot /\ FrameOK(f)
  <2> DEFINE g == Top(t)
  <2>1. CASE EmitSkips(t)
    <3>1. SetTop(t, [g EXCEPT !.at = @ + 1]) /\ g.pc = "scan"
      BY <2>1 DEF EmitSkips, Scanning, At
    <3>2. g \in Frames BY <1>2, FrameMoves
    <3>3. [g EXCEPT !.at = @ + 1] = [g EXCEPT !.pc = "scan", !.at = @ + 1]
      BY <3>1, <3>2 DEF Frames
    <3> QED BY <1>2, <3>1, <3>3, LoopFrames
  <2>2. CASE EmitChecks(t)
    <3>1. SetTop(t, [g EXCEPT !.pc = "invoke"]) BY <2>2 DEF EmitChecks, GoTo
    <3> QED BY <1>2, <3>1, LoopFrames
  <2>3. CASE EmitInvokes(t)
    <3>1. SetTop(t, [g EXCEPT !.pc = "callback"]) BY <2>3 DEF EmitInvokes, GoTo
    <3> QED BY <1>2, <3>1, LoopFrames
  <2>4. CASE SlotReturns(t)
    <3>1. SetTop(t, [g EXCEPT !.pc = "scan", !.at = @ + 1]) BY <2>4 DEF SlotReturns
    <3> QED BY <1>2, <3>1, LoopFrames
  <2>5. CASE SlotThrows(t)
    <3>1. propagates /\ SetTop(t, [g EXCEPT !.pc = "leave", !.threw = TRUE]) BY <2>5 DEF SlotThrows
    <3> QED BY <1>2, <3>1, LoopFrames
  <2>6. CASE SlotAnswers(t)
    <3>1. SetTop(t, [g EXCEPT !.pc = "leave"]) BY <2>6 DEF SlotAnswers, GoTo
    <3> QED BY <1>2, <3>1, LoopFrames
  <2>7. CASE EmitEnds(t)
    <3>1. SetTop(t, [g EXCEPT !.pc = "leave"]) BY <2>7 DEF EmitEnds, GoTo
    <3> QED BY <1>2, <3>1, LoopFrames
  <2> QED BY <2>1, <2>2, <2>3, <2>4, <2>5, <2>6, <2>7 DEF EmissionGoesOn
<1>4. PICK f \in Frames : SetTop(t, f) /\ InLoop(f) /\ f.slot = Top(t).slot /\ FrameOK(f)
  BY <1>3
<1>5. f.op = Top(t).op /\ ~Unborn(f) /\ ~Unborn(Top(t)) /\ Holds(f) /\ Holds(Top(t))
      /\ Counted(f) /\ Counted(Top(t)) /\ ~WillFlag(Top(t)) /\ ~WillClean(Top(t))
  BY <1>2, <1>4 DEF InLoop, Unborn, Connecting, Holds, Counted, WillFlag, WillClean
<1>6. mNeedsCleanup \in BOOLEAN BY DEF IInv, Control, SgTypes
<1>7. Control' /\ Places' /\ JobIs(t, f) /\ Job(t) = Top(t)
  BY <1>1, <1>2, <1>4, <1>5, <1>6, QuietSets
<1>8. DutyOK' BY <1>1, <1>5, <1>7, SameDuty DEF IInv, lists
<1> QED BY <1>7, <1>8 DEF IInv

(* The other steps within a call that leave the lists alone. *)
LEMMA ConnectFlagKeeps ==
  ASSUME IInv, propagates' = propagates, NEW t \in Threads, ConnectFlag(t)
  PROVE  IInv'
<1> DEFINE f == [Top(t) EXCEPT !.pc = "recheck"]
<1>1. /\ stack[t] # << >> /\ Top(t).op = "connect" /\ Top(t).pc = "flag" /\ SetTop(t, f)
      /\ lists' = lists /\ history' = history /\ calls' = calls /\ mNextId' = mNextId
      /\ mRecursionDepth' = mRecursionDepth /\ mNeedsCleanup' = TRUE
      /\ shared' = [shared EXCEPT ![t] = @ - 1]
  BY DEF ConnectFlag, At, GoTo, Release
<1>2. Top(t) \in Frames /\ FrameOK(Top(t)) BY <1>1, FrameMoves
<1>3. f \in Frames BY <1>1, FrameMoves DEF PcsOf
<1>4. f.op = "connect" /\ f.slot = Top(t).slot /\ f.at = Top(t).at /\ f.threw = Top(t).threw
      /\ f.pc = "recheck"
  BY <1>1, <1>2 DEF Frames
<1> HIDE DEF f
<1>5. FrameOK(f) BY <1>1, <1>2, <1>4 DEF FrameOK, PcsOf
<1>6. /\ ~Unborn(f) /\ ~Unborn(Top(t)) /\ ~Holds(f) /\ Holds(Top(t)) /\ ~Counted(f)
      /\ ~Counted(Top(t)) /\ WillClean(f)
  BY <1>1, <1>4 DEF Unborn, Connecting, Holds, Counted, WillClean
<1>7. Control' /\ Places' /\ JobIs(t, f) /\ Job(t) = Top(t)
  BY <1>1, <1>3, <1>4, <1>5, <1>6, QuietSets
<1>8. DutyOK' BY <1>1, <1>6, <1>7, SameDuty DEF IInv, lists
<1> QED BY <1>7, <1>8 DEF IInv

LEMMA ConnectDrainsKeeps ==
  ASSUME IInv, propagates' = propagates, NEW t \in Threads, ConnectDrains(t)
  PROVE  IInv'
<1> DEFINE f == [Top(t) EXCEPT !.pc = "cleanup"]
<1>1. /\ stack[t] # << >> /\ Top(t).op = "connect" /\ Top(t).pc = "recheck" /\ SetTop(t, f)
      /\ lists' = lists /\ history' = history /\ calls' = calls /\ mNextId' = mNextId
      /\ mRecursionDepth' = mRecursionDepth /\ mNeedsCleanup' = mNeedsCleanup /\ shared' = shared
  BY DEF ConnectDrains, At, GoTo, flags
<1>2. Top(t) \in Frames /\ FrameOK(Top(t)) BY <1>1, FrameMoves
<1>3. f \in Frames BY <1>1, FrameMoves DEF PcsOf
<1>4. f.op = "connect" /\ f.slot = Top(t).slot /\ f.at = Top(t).at /\ f.threw = Top(t).threw
      /\ f.pc = "cleanup"
  BY <1>1, <1>2 DEF Frames
<1> HIDE DEF f
<1>5. FrameOK(f) BY <1>1, <1>2, <1>4 DEF FrameOK, PcsOf
<1>6. /\ ~Unborn(f) /\ ~Unborn(Top(t)) /\ ~Holds(f) /\ ~Holds(Top(t)) /\ ~Counted(f)
      /\ ~Counted(Top(t)) /\ WillClean(f) /\ ~WillFlag(Top(t))
  BY <1>1, <1>4 DEF Unborn, Connecting, Holds, Counted, WillClean, WillFlag
<1>7. mNeedsCleanup \in BOOLEAN BY DEF IInv, Control, SgTypes
<1>8. Control' /\ Places' /\ JobIs(t, f) /\ Job(t) = Top(t)
  BY <1>1, <1>3, <1>4, <1>5, <1>6, <1>7, QuietSets
<1>9. DutyOK' BY <1>1, <1>6, <1>8, SameDuty DEF IInv, lists
<1> QED BY <1>8, <1>9 DEF IInv

LEMMA DisconnectFindsKeeps ==
  ASSUME IInv, propagates' = propagates, NEW t \in Threads, NEW i \in Ids, DisconnectFinds(t, i)
  PROVE  IInv'
<1> DEFINE f == [Top(t) EXCEPT !.pc = "kill", !.at = i]
<1>1. /\ stack[t] # << >> /\ Top(t).op = "disconnect" /\ Top(t).pc = "sharedLock" /\ SetTop(t, f)
      /\ lists' = lists /\ history' = history /\ calls' = calls /\ mNextId' = mNextId
      /\ mRecursionDepth' = mRecursionDepth /\ mNeedsCleanup' = mNeedsCleanup
      /\ shared' = [shared EXCEPT ![t] = @ + 1]
      /\ i \in DOMAIN mSlots /\ mSlots[i].id = Top(t).slot.id
  BY DEF DisconnectFinds, At, Acquire, flags
<1>2. Top(t) \in Frames /\ FrameOK(Top(t)) BY <1>1, FrameMoves
<1>3. f \in Frames
  <2>1. i \in Nat /\ "kill" \in PcsOf(Top(t).op) BY <1>1, BoundsAssumption DEF Ids, PcsOf
  <2> QED BY <1>1, <2>1, FrameMoves
<1>4. f.op = "disconnect" /\ f.slot = Top(t).slot /\ f.at = i /\ f.threw = Top(t).threw
      /\ f.pc = "kill"
  BY <1>1, <1>2 DEF Frames
<1>5. mSlots \in Seq(Slot) /\ mNeedsCleanup \in BOOLEAN BY DEF IInv, Control, SgTypes
<1>6. i \in 1 .. Len(mSlots) BY <1>1, <1>5
<1> HIDE DEF f
<1>7. FrameOK(f) BY <1>1, <1>2, <1>4, <1>5, <1>6 DEF FrameOK, PcsOf
<1>8. /\ ~Unborn(f) /\ ~Unborn(Top(t)) /\ Holds(f) /\ ~Holds(Top(t)) /\ ~Counted(f)
      /\ ~Counted(Top(t)) /\ ~WillClean(Top(t)) /\ ~WillFlag(Top(t))
  BY <1>1, <1>4 DEF Unborn, Connecting, Holds, Counted, WillClean, WillFlag
<1>9. Control' /\ Places' /\ JobIs(t, f) /\ Job(t) = Top(t)
  BY <1>1, <1>3, <1>4, <1>5, <1>7, <1>8, QuietSets
<1>10. DutyOK' BY <1>1, <1>8, <1>9, SameDuty DEF IInv, lists
<1> QED BY <1>9, <1>10 DEF IInv

LEMMA EmitEnterKeeps ==
  ASSUME IInv, propagates' = propagates, NEW t \in Threads, EmitEnter(t)
  PROVE  IInv'
<1> DEFINE f == [Top(t) EXCEPT !.pc = "scan"]
<1>1. /\ stack[t] # << >> /\ Top(t).op = "emit" /\ Top(t).pc = "enter" /\ SetTop(t, f)
      /\ lists' = lists /\ history' = history /\ calls' = calls /\ mNextId' = mNextId
      /\ mRecursionDepth' = mRecursionDepth + 1 /\ mNeedsCleanup' = mNeedsCleanup
      /\ shared' = [shared EXCEPT ![t] = @ + 1]
  BY DEF EmitEnter, At, GoTo, Acquire
<1>2. Top(t) \in Frames /\ FrameOK(Top(t)) BY <1>1, FrameMoves
<1>3. f \in Frames BY <1>1, FrameMoves DEF PcsOf
<1>4. f.op = "emit" /\ f.slot = Top(t).slot /\ f.at = Top(t).at /\ f.threw = Top(t).threw
      /\ f.pc = "scan"
  BY <1>1, <1>2 DEF Frames
<1> HIDE DEF f
<1>5. FrameOK(f) BY <1>1, <1>2, <1>4 DEF FrameOK, PcsOf
<1>6. /\ ~Unborn(f) /\ ~Unborn(Top(t)) /\ Holds(f) /\ ~Holds(Top(t)) /\ Counted(f)
      /\ ~Counted(Top(t)) /\ ~WillFlag(Top(t))
  BY <1>1, <1>4 DEF Unborn, Connecting, Holds, Counted, WillFlag
<1>7. mNeedsCleanup \in BOOLEAN /\ mRecursionDepth \in Nat BY DEF IInv, Control, SgTypes
<1>8. Control' /\ Places' /\ JobIs(t, f) /\ Job(t) = Top(t)
  BY <1>1, <1>3, <1>4, <1>5, <1>6, <1>7, QuietSets
<1>9. mRecursionDepth' > 0 BY <1>1, <1>7
<1>10. DutyOK' BY <1>1, <1>6, <1>8, <1>9, SameDuty DEF IInv, lists
<1> QED BY <1>8, <1>10 DEF IInv

LEMMA EmitLeavesKeeps ==
  ASSUME IInv, propagates' = propagates, NEW t \in Threads, EmitLeaves(t)
  PROVE  IInv'
<1> DEFINE f == [Top(t) EXCEPT !.pc = "testFlag", !.outermost = mRecursionDepth = 1]
<1>1. /\ stack[t] # << >> /\ Top(t).op = "emit" /\ Top(t).pc = "leave" /\ SetTop(t, f)
      /\ lists' = lists /\ history' = history /\ calls' = calls /\ mNextId' = mNextId
      /\ mRecursionDepth' = mRecursionDepth - 1 /\ mNeedsCleanup' = mNeedsCleanup
      /\ shared' = shared
  BY DEF EmitLeaves, At
<1>2. Top(t) \in Frames /\ FrameOK(Top(t)) BY <1>1, FrameMoves
<1>3. f \in Frames BY <1>1, FrameMoves DEF PcsOf
<1>4. f.op = "emit" /\ f.slot = Top(t).slot /\ f.at = Top(t).at /\ f.threw = Top(t).threw
      /\ f.pc = "testFlag" /\ (f.outermost <=> mRecursionDepth = 1)
  BY <1>1, <1>2 DEF Frames
<1> HIDE DEF f
<1>5. FrameOK(f) BY <1>1, <1>2, <1>4 DEF FrameOK, PcsOf
<1>6. /\ ~Unborn(f) /\ ~Unborn(Top(t)) /\ Holds(f) /\ Holds(Top(t)) /\ ~Counted(f)
      /\ Counted(Top(t)) /\ ~WillFlag(Top(t)) /\ ~WillClean(Top(t))
  BY <1>1, <1>4 DEF Unborn, Connecting, Holds, Counted, WillFlag, WillClean
<1>7. mNeedsCleanup \in BOOLEAN /\ mRecursionDepth \in Nat BY DEF IInv, Control, SgTypes
<1>8. Control' /\ Places' /\ JobIs(t, f) /\ Job(t) = Top(t)
  BY <1>1, <1>3, <1>4, <1>5, <1>6, <1>7, QuietSets
<1>9. mRecursionDepth > 0 => mRecursionDepth' > 0 \/ WillClean(f)
  BY <1>1, <1>4, <1>7 DEF WillClean
<1>10. DutyOK' BY <1>1, <1>6, <1>8, <1>9, SameDuty DEF IInv, lists
<1> QED BY <1>8, <1>10 DEF IInv

LEMMA EmitTestsFlagKeeps ==
  ASSUME IInv, propagates' = propagates, NEW t \in Threads, EmitTestsFlag(t)
  PROVE  IInv'
<1> DEFINE g == Top(t)
           Cleans == g.outermost /\ mNeedsCleanup /\ ~g.threw
<1>1. /\ stack[t] # << >> /\ g.op = "emit" /\ g.pc = "testFlag"
      /\ lists' = lists /\ history' = history /\ calls' = calls /\ mNextId' = mNextId
      /\ mRecursionDepth' = mRecursionDepth /\ mNeedsCleanup' = mNeedsCleanup
      /\ shared' = [shared EXCEPT ![t] = @ - 1]
  BY DEF EmitTestsFlag, At, Release, flags
<1>2. g \in Frames /\ FrameOK(g) /\ stack \in [Threads -> Seq(Frames)] BY <1>1, FrameMoves
<1>3. mNeedsCleanup \in BOOLEAN /\ mRecursionDepth \in Nat BY DEF IInv, Control, SgTypes
<1>4. ~Unborn(g) /\ Holds(g) /\ ~Counted(g) /\ ~WillFlag(g) /\ ~Connecting(g)
  BY <1>1 DEF Unborn, Connecting, Holds, Counted, WillFlag
<1>5. CASE Cleans
  <2> DEFINE f == [g EXCEPT !.pc = "cleanup"]
  <2>1. SetTop(t, f) BY <1>5 DEF EmitTestsFlag, GoTo
  <2>2. f \in Frames BY <1>1, FrameMoves DEF PcsOf
  <2>3. f.op = "emit" /\ f.slot = g.slot /\ f.at = g.at /\ f.threw = g.threw /\ f.pc = "cleanup"
    BY <1>1, <1>2 DEF Frames
  <2> HIDE DEF f
  <2>4. FrameOK(f) BY <1>1, <1>2, <2>3 DEF FrameOK, PcsOf
  <2>5. ~Unborn(f) /\ ~Holds(f) /\ ~Counted(f) /\ WillClean(f)
    BY <2>3 DEF Unborn, Connecting, Holds, Counted, WillClean
  <2>6. Control' /\ Places' /\ JobIs(t, f) /\ Job(t) = g
    BY <1>1, <1>3, <1>4, <2>1, <2>2, <2>3, <2>4, <2>5, QuietSets
  <2>7. DutyOK' BY <1>1, <1>4, <2>5, <2>6, SameDuty DEF IInv, lists
  <2> QED BY <2>6, <2>7 DEF IInv
<1>6. CASE ~Cleans
  <2>1. Return(t) BY <1>6 DEF EmitTestsFlag
  <2>2. Control /\ Places /\ DutyOK /\ SgTypes BY DEF IInv, Control
  <2>3. mSlots' = mSlots /\ mPendingConnects' = mPendingConnects /\ known' = known /\ dropped' = dropped
    BY <1>1 DEF lists, history
  <2>4. Steady /\ DataTypes' BY <1>1, <2>2, <2>3 DEF Steady, SlotsStay, SgTypes, DataTypes
  <2>5. Control' /\ \E h : JobIs(t, h) /\ Waits(h)
    BY <1>1, <1>4, <2>1, <2>2, <2>4, ControlReturns
  <2>6. PICK h : JobIs(t, h) /\ Waits(h) BY <2>5
  <2>7. Job(t) = g BY <1>1, <1>2, TopFacts
  <2>8. ~Unborn(h) /\ ~Connecting(h) BY <2>6 DEF Waits, Unborn, Connecting
  <2>9. Places' BY <1>1, <1>4, <2>2, <2>6, <2>7, <2>8, SamePlaces
  <2>10. DutyOK'
    <3>1. CASE mNeedsCleanup
      <4>1. WillClean(g) => propagates
        <5>1. WillClean(g) => g.outermost BY <1>1 DEF WillClean
        <5>2. g.outermost => g.threw BY <1>6, <3>1
        <5> QED BY <1>2, <5>1, <5>2 DEF FrameOK
      <4> QED BY <1>1, <2>2, <2>3, <2>6, <2>7, <3>1, <4>1, SameDuty
    <3>2. CASE ~mNeedsCleanup
      <4>1. SUFFICES ASSUME mPendingConnects # << >>
                     PROVE  \E u \in Threads : WillFlag(Job(u)') /\ WillClean(Job(u)')
        BY <2>3 DEF DutyOK, WillFlag, WillClean
      <4>2. PICK u \in Threads : WillFlag(Job(u)) BY <2>2, <3>2, <4>1 DEF DutyOK
      <4>3. Job(u)' = Job(u) BY <1>4, <2>6, <2>7, <4>2 DEF JobIs
      <4>4. WillClean(Job(u)) BY <4>2 DEF WillFlag, WillClean
      <4> QED BY <4>2, <4>3, <4>4
    <3> QED BY <3>1, <3>2
  <2> QED BY <2>5, <2>9, <2>10 DEF IInv
<1> QED BY <1>5, <1>6

-----------------------------------------------------------------------------
(* Calls. *)
Slots == [id : 0 .. MaxSlots, priority : Int, active : BOOLEAN]

LEMMA AllPcs ==
  ASSUME NEW op \in Ops
  PROVE  PcsOf(op) \subseteq UNION {PcsOf(o) : o \in Ops}
OBVIOUS

LEMMA NewSlots ==
  /\ NoSlot \in Slots
  /\ \A id \in 0 .. MaxSlots : [NoSlot EXCEPT !.id = id] \in Slots /\ [NoSlot EXCEPT !.id = id].id = id
<1>1. 0 \in 0 .. MaxSlots BY BoundsAssumption
<1>2. NoSlot \in Slots BY <1>1 DEF NoSlot, Slots
<1> QED BY <1>2 DEF Slots

(* A call that brings no slot. *)
LEMMA CallKeeps ==
  ASSUME IInv, propagates' = propagates, NEW t \in Threads, NEW f \in Frames, Call(t, f),
         FrameOK(f), ~Holds(f), ~Counted(f), ~Connecting(f),
         lists' = lists, flags' = flags, shared' = shared, history' = history
  PROVE  IInv'
<1>1. /\ mSlots' = mSlots /\ mPendingConnects' = mPendingConnects /\ known' = known
      /\ dropped' = dropped /\ mNextId' = mNextId /\ mNeedsCleanup' = mNeedsCleanup
      /\ mRecursionDepth' = mRecursionDepth
  BY DEF lists, history, flags
<1>2. Control /\ Places /\ DutyOK /\ SgTypes BY DEF IInv, Control
<1>3. Steady /\ DataTypes' /\ FrameNext(f)
  BY <1>1, <1>2 DEF Steady, SlotsStay, SgTypes, DataTypes, FrameNext, FrameOK
<1>4. Control' /\ JobIs(t, f) /\ Waits(Job(t)) BY <1>1, <1>2, <1>3, ControlCalls
<1>5. ~Unborn(f) /\ ~Unborn(Job(t)) /\ ~WillFlag(Job(t)) /\ ~WillClean(Job(t))
  BY <1>4 DEF Waits, Unborn, Connecting, WillFlag, WillClean
<1>6. Places' BY <1>1, <1>2, <1>4, <1>5, SamePlaces
<1>7. DutyOK' BY <1>1, <1>2, <1>4, <1>5, SameDuty
<1> QED BY <1>4, <1>6, <1>7 DEF IInv

LEMMA DisconnectCallKeeps ==
  ASSUME IInv, propagates' = propagates, NEW t \in Threads, NEW id \in Ids, DisconnectCall(t, id)
  PROVE  IInv'
<1> DEFINE s == [NoSlot EXCEPT !.id = id]
           f == Frame("disconnect", "depth", s)
<1>1. /\ id \in known /\ Call(t, f) /\ lists' = lists /\ flags' = flags /\ shared' = shared
      /\ history' = history
  BY DEF DisconnectCall
<1>3. id \in 0 .. MaxSlots /\ "disconnect" \in Ops /\ "depth" \in PcsOf("disconnect")
  BY BoundsAssumption DEF Ids, Ops, PcsOf
<1>4. f \in Frames /\ f.op = "disconnect" /\ f.pc = "depth" /\ f.slot.id = id /\ f.at = 1
      /\ f.threw = FALSE
  <2>1. s \in Slots /\ s.id = id BY <1>3, NewSlots
  <2>2. "depth" \in UNION {PcsOf(o) : o \in Ops} BY <1>3, AllPcs
  <2> HIDE DEF s
  <2> QED BY <1>3, <2>1, <2>2 DEF Frame, Frames, Slots
<1> HIDE DEF f
<1>5. FrameOK(f) BY <1>1, <1>3, <1>4 DEF FrameOK
<1>6. ~Holds(f) /\ ~Counted(f) /\ ~Connecting(f) BY <1>4 DEF Holds, Counted, Connecting
<1> QED BY <1>1, <1>4, <1>5, <1>6, CallKeeps

LEMMA OtherCallsKeep ==
  ASSUME IInv, propagates' = propagates, NEW t \in Threads, DisconnectAllCall(t) \/ EmitCall(t)
  PROVE  IInv'
<1>1. /\ NoSlot \in Slots
      /\ "disconnectAll" \in Ops /\ "emit" \in Ops /\ "depth" \in PcsOf("disconnectAll")
      /\ "enter" \in PcsOf("emit")
  BY NewSlots DEF Ops, PcsOf
<1>2. "depth" \in UNION {PcsOf(o) : o \in Ops} /\ "enter" \in UNION {PcsOf(o) : o \in Ops}
  BY <1>1, AllPcs
<1>3. CASE DisconnectAllCall(t)
  <2> DEFINE f == Frame("disconnectAll", "depth", NoSlot)
  <2>1. Call(t, f) /\ lists' = lists /\ flags' = flags /\ shared' = shared /\ history' = history
    BY <1>3 DEF DisconnectAllCall
  <2>2. f \in Frames /\ f.op = "disconnectAll" /\ f.pc = "depth" /\ f.at = 1 /\ f.threw = FALSE
    BY <1>1, <1>2 DEF Frame, Frames, Slots
  <2> HIDE DEF f
  <2>3. FrameOK(f) /\ ~Holds(f) /\ ~Counted(f) /\ ~Connecting(f)
    BY <1>1, <2>2 DEF FrameOK, Holds, Counted, Connecting
  <2> QED BY <2>1, <2>2, <2>3, CallKeeps
<1>4. CASE EmitCall(t)
  <2> DEFINE f == Frame("emit", "enter", NoSlot)
  <2>1. Call(t, f) /\ lists' = lists /\ flags' = flags /\ shared' = shared /\ history' = history
    BY <1>4 DEF EmitCall
  <2>2. f \in Frames /\ f.op = "emit" /\ f.pc = "enter" /\ f.at = 1 /\ f.threw = FALSE
    BY <1>1, <1>2 DEF Frame, Frames, Slots
  <2> HIDE DEF f
  <2>3. FrameOK(f) /\ ~Holds(f) /\ ~Counted(f) /\ ~Connecting(f)
    BY <1>1, <2>2 DEF FrameOK, Holds, Counted, Connecting
  <2> QED BY <2>1, <2>2, <2>3, CallKeeps
<1> QED BY <1>3, <1>4

LEMMA ConnectCallKeeps ==
  ASSUME IInv, propagates' = propagates, NEW t \in Threads, NEW priority \in Priorities,
         ConnectCall(t, priority)
  PROVE  IInv'
<1>1. /\ mNextId <= MaxSlots /\ mNextId' = mNextId + 1
      /\ mSlots' = mSlots /\ mPendingConnects' = mPendingConnects /\ known' = known
      /\ dropped' = dropped /\ mNeedsCleanup' = mNeedsCleanup
      /\ mRecursionDepth' = mRecursionDepth /\ shared' = shared
  BY DEF ConnectCall, lists, history
<1>2. Control /\ Places /\ DutyOK /\ SgTypes BY DEF IInv, Control
<1>3. mNextId \in 1 .. MaxSlots + 1 /\ MaxSlots \in Nat BY <1>2, BoundsAssumption DEF SgTypes
<1> DEFINE new == [id |-> mNextId, priority |-> priority, active |-> TRUE]
           frame == Frame("connect", "depth", new)
<1>4. new \in Slot /\ new \in Slots /\ new.active /\ new.id = mNextId
  BY <1>1, <1>3, PrioritiesAssumption DEF Slot, Slots, Ids
<1>5. Call(t, frame) BY DEF ConnectCall
<1>6. "connect" \in Ops /\ "depth" \in PcsOf("connect") BY DEF Ops, PcsOf
<1>7. "depth" \in UNION {PcsOf(o) : o \in Ops} BY <1>6, AllPcs
<1> HIDE DEF new
<1>8. /\ frame \in Frames /\ frame.op = "connect" /\ frame.pc = "depth" /\ frame.slot = new
      /\ frame.at = 1 /\ frame.threw = FALSE
  BY <1>4, <1>6, <1>7 DEF Frame, Frames, Slots
<1> HIDE DEF frame
<1> PICK f \in Frames : f = frame BY <1>8
<1>9. /\ Call(t, f) /\ f.op = "connect" /\ f.pc = "depth" /\ f.slot = new /\ f.at = 1 /\ f.threw = FALSE
      /\ f.slot.id = mNextId
  BY <1>4, <1>5, <1>8
<1>10. Steady /\ DataTypes'
  BY <1>1, <1>2, <1>3 DEF Steady, SlotsStay, SgTypes, DataTypes
<1>11. FrameNext(f) BY <1>1, <1>3, <1>4, <1>6, <1>9 DEF FrameNext
<1>12. ~Holds(f) /\ ~Counted(f) /\ Unborn(f) /\ Connecting(f)
  BY <1>9 DEF Holds, Counted, Unborn, Connecting
<1>13. Control' /\ JobIs(t, f) /\ Waits(Job(t))
  BY <1>1, <1>2, <1>9, <1>10, <1>11, <1>12, ControlCalls
<1>14. ~Connecting(Job(t)) /\ ~Unborn(Job(t)) /\ ~WillFlag(Job(t)) /\ ~WillClean(Job(t))
  BY <1>13 DEF Waits, Unborn, Connecting, WillFlag, WillClean
<1>15. Job(t)' = f /\ \A u \in Threads : u # t => Job(u)' = Job(u) BY <1>13 DEF JobIs
<1>16. ASSUME NEW u \in Threads, Connecting(Job(u)) PROVE Job(u).slot.id < mNextId
  <2>1. stack[u] # << >> BY <1>16 DEF Job, Connecting, Frame
  <2>2. Job(u) = Top(u) BY <2>1 DEF Job
  <2>3. FrameOK(Top(u)) BY <2>1, FrameMoves
  <2> QED BY <1>16, <2>2, <2>3 DEF FrameOK, Connecting
<1> DEFINE S == IdsOf(mSlots)
           P == IdsOf(mPendingConnects)
<1>17. S \cup P \cup dropped \cup known \subseteq 1 .. mNextId - 1 /\ mNextId \notin 1 .. mNextId - 1
  <2>1. S \cup P \subseteq 1 .. mNextId - 1 BY <1>2 DEF Places, ListsOK
  <2>2. known \cup dropped \subseteq 1 .. mNextId - 1 BY <1>2 DEF SgTypes
  <2>3. mNextId \notin 1 .. mNextId - 1 BY <1>3
  <2> HIDE DEF S, P
  <2> QED BY <2>1, <2>2, <2>3
<1>18. ListsOK'
  <2>1. 1 .. mNextId - 1 \subseteq 1 .. mNextId' - 1 BY <1>1, <1>3
  <2> QED BY <1>1, <1>2, <2>1 DEF Places, ListsOK
<1> HIDE DEF S, P
<1>19. /\ \A u \in Threads : Connecting(Job(u)') => Job(u)'.slot.id \notin known
       /\ \A u, v \in Threads : Connecting(Job(u)') /\ Connecting(Job(v)')
                                  /\ Job(u)'.slot.id = Job(v)'.slot.id => u = v
       /\ \A u \in Threads : Unborn(Job(u)') => Job(u)'.slot.id \notin S \cup P \cup dropped
  <2>1. /\ \A u \in Threads : Connecting(Job(u)') /\ u # t =>
             Connecting(Job(u)) /\ Job(u)' = Job(u) /\ Job(u).slot.id # mNextId
    BY <1>3, <1>15, <1>16
  <2>2. Job(t)'.slot.id = mNextId BY <1>9, <1>15
  <2>3. \A u \in Threads : Unborn(Job(u)') => Connecting(Job(u)') BY DEF Unborn
  <2>4. ASSUME NEW u \in Threads, Connecting(Job(u)') PROVE Job(u)'.slot.id \notin known
    BY <1>2, <1>17, <2>1, <2>2, <2>4 DEF Places, ConnectsOK
  <2>5. ASSUME NEW u \in Threads, NEW v \in Threads, Connecting(Job(u)'), Connecting(Job(v)'),
               Job(u)'.slot.id = Job(v)'.slot.id
        PROVE  u = v
    BY <1>2, <2>1, <2>2, <2>5 DEF Places, ConnectsOK
  <2>6. ASSUME NEW u \in Threads, Unborn(Job(u)') PROVE Job(u)'.slot.id \notin S \cup P \cup dropped
    <3>1. CASE u = t BY <1>17, <2>2, <3>1
    <3>2. CASE u # t
      <4>1. Job(u)' = Job(u) /\ Unborn(Job(u)) BY <2>1, <2>3, <2>6, <3>2
      <4> QED BY <1>2, <4>1 DEF Places, ConnectsOK, S, P
    <3> QED BY <3>1, <3>2
  <2> QED BY <2>4, <2>5, <2>6
<1>20. ConnectsOK' BY <1>1, <1>19 DEF ConnectsOK, Connecting, Unborn, S, P, IdsOf
<1>21. PlacedOK'
  <2>1. Placed' = Placed BY <1>1 DEF Placed, ActiveIn, IdsOf
  <2>2. dropped' \cap Placed' = {} BY <1>1, <1>2, <2>1 DEF Places, PlacedOK
  <2>3. ASSUME NEW i \in 1 .. mNextId' - 1
        PROVE  i \in Placed \cup dropped \/ \E u \in Threads : Unborn(Job(u)') /\ Job(u)'.slot.id = i
    <3>1. CASE i = mNextId BY <1>9, <1>12, <1>15, <3>1
    <3>2. CASE i # mNextId
      <4>1. i \in 1 .. mNextId - 1 BY <1>1, <1>3, <3>2
      <4>2. i \in Placed \cup dropped \/ \E u \in Threads : Unborn(Job(u)) /\ Job(u).slot.id = i
        BY <1>2, <4>1 DEF Places, PlacedOK
      <4> QED BY <1>14, <1>15, <4>2
    <3> QED BY <3>1, <3>2
  <2> QED BY <1>1, <2>1, <2>2, <2>3 DEF PlacedOK, Connecting, Unborn
<1>22. DutyOK' BY <1>1, <1>2, <1>13, <1>14, SameDuty
<1> QED BY <1>13, <1>18, <1>20, <1>21, <1>22 DEF IInv, Places

-----------------------------------------------------------------------------
(* A step that places, moves or drops slots.  New is the slot of the call   *)
(* of connectManual() that t is in.                                         *)
LEMMA PlacesMove ==
  ASSUME Places, NEW t \in Threads, NEW g, JobIs(t, g), mNextId' = mNextId, ListsOK',
         ~Unborn(g),
         NEW New, New = IF Connecting(Job(t)) THEN {Job(t).slot.id} ELSE {},
         Connecting(g) => Connecting(Job(t)) /\ g.slot.id = Job(t).slot.id /\ known' = known,
         known' \subseteq known \cup New,
         IdsOf(mSlots') \cup IdsOf(mPendingConnects')
           \subseteq IdsOf(mSlots) \cup IdsOf(mPendingConnects) \cup New,
         dropped' \subseteq dropped \cup IdsOf(mSlots) \cup IdsOf(mPendingConnects),
         NEW Now, Now = ActiveIn(mSlots') \cup IdsOf(mPendingConnects'),
         Placed \cup dropped \subseteq Now \cup dropped', dropped' \cap Now = {},
         Unborn(Job(t)) => Job(t).slot.id \in Now
  PROVE  Places'
<1>1. Job(t)' = g /\ \A u \in Threads : u # t => Job(u)' = Job(u) BY DEF JobIs
<1>2. \A f : Unborn(f) => Connecting(f) BY DEF Unborn
<1>3. ASSUME NEW u \in Threads, Connecting(Job(u)')
      PROVE  /\ Connecting(Job(u)) /\ Job(u)'.slot.id = Job(u).slot.id
             /\ Job(u)'.slot.id \notin known'
  <2>1. CASE u = t BY <1>1, <1>3, <2>1 DEF Places, ConnectsOK
  <2>2. CASE u # t
    <3>1. Connecting(Job(u)) /\ Job(u)' = Job(u) BY <1>1, <1>3, <2>2
    <3>2. Job(u).slot.id \notin New BY <2>2, <3>1 DEF Places, ConnectsOK
    <3> QED BY <3>1, <3>2 DEF Places, ConnectsOK
  <2> QED BY <2>1, <2>2
<1>4. ASSUME NEW u \in Threads, NEW v \in Threads, Connecting(Job(u)'), Connecting(Job(v)'),
             Job(u)'.slot.id = Job(v)'.slot.id
      PROVE  u = v
  <2>1. Connecting(Job(u)) /\ Connecting(Job(v)) /\ Job(u).slot.id = Job(v).slot.id BY <1>3, <1>4
  <2> QED BY <2>1 DEF Places, ConnectsOK
<1>5. ASSUME NEW u \in Threads, Unborn(Job(u)')
      PROVE  Job(u)'.slot.id \notin IdsOf(mSlots') \cup IdsOf(mPendingConnects') \cup dropped'
  <2>1. u # t BY <1>1, <1>5
  <2>2. Job(u)' = Job(u) /\ Unborn(Job(u)) /\ Connecting(Job(u)) BY <1>1, <1>2, <1>5, <2>1
  <2>3. Job(u).slot.id \notin New BY <2>1, <2>2 DEF Places, ConnectsOK
  <2>4. Job(u).slot.id \notin IdsOf(mSlots) \cup IdsOf(mPendingConnects) \cup dropped
    BY <2>2 DEF Places, ConnectsOK
  <2> QED BY <2>2, <2>3, <2>4
<1>6. ConnectsOK'
  <2>1. IdsOf(mSlots)' = IdsOf(mSlots') /\ IdsOf(mPendingConnects)' = IdsOf(mPendingConnects')
    BY DEF IdsOf
  <2>2. \A u \in Threads : Connecting(Job(u)') => Job(u)'.slot.id \notin known' BY <1>3
  <2>3. \A u, v \in Threads : Connecting(Job(u)') /\ Connecting(Job(v)')
                                /\ Job(u)'.slot.id = Job(v)'.slot.id => u = v
    BY <1>4
  <2>4. \A u \in Threads : Unborn(Job(u)') =>
          Job(u)'.slot.id \notin IdsOf(mSlots') \cup IdsOf(mPendingConnects') \cup dropped'
    BY <1>5
  <2> QED BY <2>1, <2>2, <2>3, <2>4 DEF ConnectsOK, Unborn, Connecting
<1>7. PlacedOK'
  <2>1. Placed' = Now BY DEF Placed, ActiveIn, IdsOf
  <2>2. ASSUME NEW i \in 1 .. mNextId - 1
        PROVE  i \in Now \cup dropped' \/ \E u \in Threads : Unborn(Job(u)') /\ Job(u)'.slot.id = i
    <3>1. CASE i \in Placed \cup dropped BY <3>1
    <3>2. CASE i \notin Placed \cup dropped
      <4>1. PICK u \in Threads : Unborn(Job(u)) /\ Job(u).slot.id = i
        BY <3>2 DEF Places, PlacedOK
      <4>2. CASE u = t BY <4>1, <4>2
      <4>3. CASE u # t BY <1>1, <4>1, <4>3
      <4> QED BY <4>2, <4>3
    <3> QED BY <3>1, <3>2
  <2> QED BY <2>1, <2>2 DEF PlacedOK, Unborn, Connecting
<1> QED BY <1>6, <1>7 DEF Places

-----------------------------------------------------------------------------
(* What the operations do to the lists. *)
LEMMA AppendFacts ==
  ASSUME NEW q \in Seq(Slot), NEW s \in Slot
  PROVE  /\ Append(q, s) \in Seq(Slot) /\ Append(q, s) # << >>
         /\ DistinctIds(q) /\ s.id \notin IdsOf(q) => DistinctIds(Append(q, s))
         /\ IdsOf(Append(q, s)) = IdsOf(q) \cup {s.id}
         /\ (\A i \in 1 .. Len(q) : q[i].active) /\ s.active =>
              \A i \in 1 .. Len(Append(q, s)) : Append(q, s)[i].active
<1> DEFINE r == Append(q, s)
           n == Len(q)
<1>1. /\ r \in Seq(Slot) /\ Len(r) = n + 1 /\ r[n + 1] = s /\ \A i \in 1 .. n : r[i] = q[i]
      /\ n \in Nat
  BY AppendProperties, LenProperties
<1>2. r # << >> BY <1>1, EmptySeq
<1>3. IdsOf(q) = {q[i].id : i \in 1 .. n} /\ IdsOf(r) = {r[i].id : i \in 1 .. Len(r)}
  BY <1>1, IdsAre
<1> HIDE DEF r, n
<1>4. IdsOf(r) = IdsOf(q) \cup {s.id}
  <2>1. ASSUME NEW i \in 1 .. n + 1 PROVE r[i].id \in IdsOf(q) \cup {s.id} BY <1>1, <1>3
  <2>2. ASSUME NEW i \in 1 .. n PROVE q[i].id \in IdsOf(r)
    <3>1. i \in 1 .. n + 1 BY <1>1
    <3> QED BY <1>1, <1>3, <3>1
  <2>3. s.id \in IdsOf(r)
    <3>1. n + 1 \in 1 .. n + 1 BY <1>1
    <3> QED BY <1>1, <1>3, <3>1
  <2>4. ASSUME NEW e \in IdsOf(r) PROVE e \in IdsOf(q) \cup {s.id} BY <1>1, <1>3, <2>1
  <2>5. ASSUME NEW e \in IdsOf(q) PROVE e \in IdsOf(r) BY <1>3, <2>2
  <2> QED BY <2>3, <2>4, <2>5
<1>5. ASSUME DistinctIds(q), s.id \notin IdsOf(q) PROVE DistinctIds(r)
  <2> SUFFICES ASSUME NEW i \in 1 .. n + 1, NEW j \in 1 .. n + 1, r[i].id = r[j].id PROVE i = j
    BY <1>1 DEF DistinctIds
  <2>1. ASSUME NEW k \in 1 .. n PROVE q[k].id # s.id BY <1>3, <1>5
  <2>2. CASE i = n + 1 /\ j = n + 1 BY <2>2
  <2>3. CASE i = n + 1 /\ j # n + 1
    <3>1. j \in 1 .. n BY <1>1, <2>3
    <3> QED BY <1>1, <2>1, <2>3, <3>1
  <2>4. CASE i # n + 1 /\ j = n + 1
    <3>1. i \in 1 .. n BY <1>1, <2>4
    <3> QED BY <1>1, <2>1, <2>4, <3>1
  <2>5. CASE i # n + 1 /\ j # n + 1
    <3>1. i \in 1 .. n /\ j \in 1 .. n BY <1>1, <2>5
    <3> QED BY <1>1, <1>5, <3>1 DEF DistinctIds, n
  <2> QED BY <2>2, <2>3, <2>4, <2>5
<1>6. ASSUME \A i \in 1 .. n : q[i].active, s.active
      PROVE  \A i \in 1 .. Len(r) : r[i].active
  BY <1>1, <1>6
<1> QED BY <1>1, <1>2, <1>4, <1>5, <1>6 DEF r, n

(* Slots that differ in nothing but being active. *)
LEMMA SameSlotsFacts ==
  ASSUME NEW q \in Seq(Slot), NEW r \in Seq(Slot), Len(r) = Len(q),
         \A i \in 1 .. Len(q) : r[i].id = q[i].id /\ r[i].priority = q[i].priority
  PROVE  /\ DistinctIds(q) => DistinctIds(r)
         /\ Sorted(q) => Sorted(r)
         /\ IdsOf(r) = IdsOf(q)
<1>1. IdsOf(r) = {r[i].id : i \in 1 .. Len(q)} /\ IdsOf(q) = {q[i].id : i \in 1 .. Len(q)}
  BY IdsAre
<1>2. IdsOf(r) = IdsOf(q) BY <1>1
<1>3. DistinctIds(q) => DistinctIds(r) BY DEF DistinctIds
<1>4. Sorted(q) => Sorted(r) BY DEF Sorted
<1> QED BY <1>2, <1>3, <1>4

Killed(q, k) == [q EXCEPT ![k].active = FALSE]

LEMMA KillFacts ==
  ASSUME NEW q \in Seq(Slot), NEW k \in 1 .. Len(q), DistinctIds(q),
         NEW r, r = Killed(q, k)
  PROVE  /\ r \in Seq(Slot) /\ Len(r) = Len(q) /\ \A i \in 1 .. Len(q) : r[i].id = q[i].id
         /\ DistinctIds(r) /\ (Sorted(q) => Sorted(r)) /\ IdsOf(r) = IdsOf(q)
         /\ ActiveIn(r) = ActiveIn(q) \ {q[k].id}
<1> DEFINE s == [q[k] EXCEPT !.active = FALSE]
           n == Len(q)
<1>1. q[k] \in Slot BY ElementOfSeq
<1>2. s \in Slot /\ s.id = q[k].id /\ s.priority = q[k].priority /\ s.active = FALSE
  BY <1>1 DEF Slot
<1>3. r = [q EXCEPT ![k] = s] BY DEF Killed
<1> HIDE DEF s
<1>4. r \in Seq(Slot) /\ Len(r) = n /\ \A i \in 1 .. n : r[i] = IF i = k THEN s ELSE q[i]
  <2> DEFINE z == [q EXCEPT ![k] = s]
  <2>1. z \in Seq(Slot) /\ Len(z) = n /\ \A i \in 1 .. n : z[i] = IF i = k THEN s ELSE q[i]
    BY <1>2, ExceptSeq
  <2>2. r = z BY <1>3
  <2> HIDE DEF z
  <2> QED BY <2>1, <2>2
<1>5. \A i \in 1 .. n : /\ r[i].id = q[i].id /\ r[i].priority = q[i].priority
                        /\ r[i].active <=> i # k /\ q[i].active
  BY <1>2, <1>4
<1>6. ActiveIn(r) = ActiveIn(q) \ {q[k].id}
  <2>1. /\ ActiveIn(r) = {r[i].id : i \in {j \in 1 .. n : r[j].active}}
        /\ ActiveIn(q) = {q[i].id : i \in {j \in 1 .. n : q[j].active}}
    BY <1>4 DEF ActiveIn
  <2>2. ASSUME NEW i \in 1 .. n, i # k PROVE q[i].id # q[k].id BY <2>2 DEF DistinctIds
  <2>3. ASSUME NEW e \in ActiveIn(r) PROVE e \in ActiveIn(q) \ {q[k].id}
    <3>1. PICK i \in 1 .. n : r[i].active /\ e = r[i].id BY <2>1
    <3>2. i # k /\ q[i].active /\ e = q[i].id BY <1>5, <3>1
    <3> QED BY <2>1, <2>2, <3>1, <3>2
  <2>4. ASSUME NEW e \in ActiveIn(q), e # q[k].id PROVE e \in ActiveIn(r)
    <3>1. PICK i \in 1 .. n : q[i].active /\ e = q[i].id BY <2>1
    <3>2. r[i].active /\ e = r[i].id BY <1>5, <2>4, <3>1
    <3> QED BY <2>1, <3>1, <3>2
  <2> QED BY <2>3, <2>4
<1>7. DistinctIds(r) /\ (Sorted(q) => Sorted(r)) /\ IdsOf(r) = IdsOf(q)
  BY <1>4, <1>5, SameSlotsFacts
<1> QED BY <1>4, <1>5, <1>6, <1>7

LEMMA KillAllFacts ==
  ASSUME NEW q \in Seq(Slot), DistinctIds(q),
         NEW r, r = [i \in DOMAIN q |-> [q[i] EXCEPT !.active = FALSE]]
  PROVE  /\ r \in Seq(Slot) /\ Len(r) = Len(q) /\ \A i \in 1 .. Len(q) : r[i].id = q[i].id
         /\ DistinctIds(r) /\ (Sorted(q) => Sorted(r)) /\ IdsOf(r) = IdsOf(q)
         /\ ActiveIn(r) = {}
<1> DEFINE n == Len(q)
<1>1. n \in Nat /\ DOMAIN q = 1 .. n BY LenProperties
<1>2. ASSUME NEW i \in 1 .. n
      PROVE  /\ r[i] \in Slot /\ r[i].id = q[i].id /\ r[i].priority = q[i].priority
             /\ r[i].active = FALSE
  <2>1. q[i] \in Slot BY ElementOfSeq
  <2>2. r[i] = [q[i] EXCEPT !.active = FALSE] BY <1>1
  <2> QED BY <2>1, <2>2 DEF Slot
<1>3. r = [i \in 1 .. n |-> r[i]] BY <1>1
<1> HIDE DEF n
<1>4. r \in Seq(Slot) /\ Len(r) = n
  <2>1. r \in [1 .. n -> Slot] BY <1>2, <1>3
  <2> QED BY <1>1, <2>1, SeqDef
<1>5. ActiveIn(r) = {} BY <1>2, <1>4 DEF ActiveIn
<1>6. DistinctIds(r) /\ (Sorted(q) => Sorted(r)) /\ IdsOf(r) = IdsOf(q)
  BY <1>2, <1>4, SameSlotsFacts DEF n
<1> QED BY <1>2, <1>4, <1>5, <1>6 DEF n

LEMMA EmptyFacts ==
  /\ << >> \in Seq(Slot) /\ Len(<< >>) = 0 /\ IdsOf(<< >>) = {} /\ ActiveIn(<< >>) = {}
  /\ DistinctIds(<< >>) /\ Sorted(<< >>)
BY DEF IdsOf, ActiveIn, DistinctIds, Sorted

LEMMA ActiveIdsAre ==
  ASSUME mSlots \in Seq(Slot)
  PROVE  ActiveIds = ActiveIn(mSlots) /\ ParkedIds = IdsOf(mPendingConnects)
<1>1. DOMAIN mSlots = 1 .. Len(mSlots) OBVIOUS
<1> QED BY <1>1 DEF ActiveIds, ActiveIn, ParkedIds

(* The innermost call. *)
LEMMA TopOK ==
  ASSUME IInv, NEW t \in Threads, stack[t] # << >>
  PROVE  /\ Top(t) \in Frames /\ FrameOK(Top(t)) /\ Job(t) = Top(t)
         /\ Top(t).op = "connect" =>
              /\ Top(t).slot \in Slot /\ Top(t).slot.active
              /\ Top(t).slot.id \in 1 .. mNextId - 1
<1>1. Top(t) \in Frames /\ FrameOK(Top(t)) /\ stack \in [Threads -> Seq(Frames)] BY FrameMoves
<1>2. Job(t) = Top(t) BY <1>1, TopFacts
<1>3. mNextId \in Nat BY DEF IInv, Control, SgTypes
<1> QED BY <1>1, <1>2, <1>3 DEF FrameOK, Slot, Ids

-----------------------------------------------------------------------------
(* The steps that place a slot. *)
LEMMA ConnectParkKeeps ==
  ASSUME IInv, propagates' = propagates, NEW t \in Threads, ConnectPark(t)
  PROVE  IInv'
<1> DEFINE f == [Top(t) EXCEPT !.pc = "flag"]
           s == Top(t).slot
           q == mPendingConnects
<1>1. /\ stack[t] # << >> /\ Top(t).op = "connect" /\ Top(t).pc = "sharedLock" /\ SetTop(t, f)
      /\ mSlots' = mSlots /\ q' = Append(q, s) /\ known' = known /\ dropped' = dropped
      /\ calls' = calls /\ mNextId' = mNextId /\ mRecursionDepth' = mRecursionDepth
      /\ mNeedsCleanup' = mNeedsCleanup /\ shared' = [shared EXCEPT ![t] = @ + 1]
  BY DEF ConnectPark, At, GoTo, Acquire, flags, history
<1>2. Control /\ Places /\ DutyOK /\ SgTypes /\ ListsOK /\ ConnectsOK /\ PlacedOK
  BY DEF IInv, Control, Places
<1>3. /\ Top(t) \in Frames /\ FrameOK(Top(t)) /\ Job(t) = Top(t)
      /\ s \in Slot /\ s.active /\ s.id \in 1 .. mNextId - 1
  BY <1>1, TopOK
<1>4. f \in Frames BY <1>1, FrameMoves DEF PcsOf
<1>5. f.op = "connect" /\ f.slot = s /\ f.at = Top(t).at /\ f.threw = Top(t).threw
      /\ f.pc = "flag"
  BY <1>1, <1>3 DEF Frames
<1>6. Unborn(Job(t)) /\ Connecting(Job(t)) /\ Job(t).slot.id = s.id
  BY <1>1, <1>3 DEF Unborn, Connecting
<1>7. q \in Seq(Slot) BY <1>2 DEF SgTypes
<1>8. s.id \notin IdsOf(mSlots) \cup IdsOf(q) \cup dropped BY <1>2, <1>6 DEF ConnectsOK
<1> HIDE DEF f, s, q
<1>9. /\ q' \in Seq(Slot) /\ q' # << >> /\ DistinctIds(q') /\ IdsOf(q') = IdsOf(q) \cup {s.id}
      /\ \A i \in 1 .. Len(q') : q'[i].active
  <2>1. DistinctIds(q) /\ \A i \in 1 .. Len(q) : q[i].active BY <1>2 DEF ListsOK, q
  <2>2. q' = Append(q, s) BY <1>1
  <2>3. /\ Append(q, s) \in Seq(Slot) /\ Append(q, s) # << >> /\ DistinctIds(Append(q, s))
        /\ IdsOf(Append(q, s)) = IdsOf(q) \cup {s.id}
        /\ \A i \in 1 .. Len(Append(q, s)) : Append(q, s)[i].active
    BY <1>3, <1>7, <1>8, <2>1, AppendFacts
  <2> QED BY <2>2, <2>3
<1>10. Steady /\ DataTypes'
  BY <1>1, <1>2, <1>9 DEF Steady, SlotsStay, SgTypes, DataTypes, q
<1>11. FrameNext(f) BY <1>1, <1>2, <1>3, <1>5, <1>10 DEF FrameNext, FrameOK, PcsOf, Steady
<1>12. Holds(f) /\ ~Holds(Top(t)) /\ ~Counted(f) /\ ~Counted(Top(t)) /\ ~Unborn(f)
       /\ WillFlag(f) /\ WillClean(f)
  BY <1>1, <1>5 DEF Holds, Counted, Unborn, Connecting, WillFlag, WillClean
<1>13. Control' /\ JobIs(t, f)
  BY <1>1, <1>2, <1>4, <1>10, <1>11, <1>12, ControlSets
<1>14. ListsOK'
  <2>1. /\ DistinctIds(mSlots) /\ Sorted(mSlots) /\ IdsOf(mSlots) \cap IdsOf(q') = {}
        /\ IdsOf(mSlots) \cup IdsOf(q') \subseteq 1 .. mNextId - 1
    BY <1>2, <1>3, <1>8, <1>9 DEF ListsOK, q
  <2> QED BY <1>1, <1>9, <2>1 DEF ListsOK, q
<1> DEFINE Now == ActiveIn(mSlots') \cup IdsOf(q')
<1>15. Now = Placed \cup {s.id} BY <1>1, <1>9 DEF Placed, q
<1>16. dropped' \cap Now = {} BY <1>1, <1>2, <1>8, <1>15 DEF PlacedOK
<1> DEFINE New == IF Connecting(Job(t)) THEN {Job(t).slot.id} ELSE {}
<1>17. New = {s.id} BY <1>6
<1>18. Connecting(f) => Connecting(Job(t)) /\ f.slot.id = Job(t).slot.id /\ known' = known
  BY <1>1, <1>5, <1>6
<1>19. Places'
  <2>1. /\ known' \subseteq known \cup New
        /\ IdsOf(mSlots') \cup IdsOf(q') \subseteq IdsOf(mSlots) \cup IdsOf(q) \cup New
        /\ dropped' \subseteq dropped \cup IdsOf(mSlots) \cup IdsOf(q)
    BY <1>1, <1>9, <1>17
  <2>2. Placed \cup dropped \subseteq Now \cup dropped' /\ Job(t).slot.id \in Now
    BY <1>1, <1>6, <1>15
  <2> HIDE DEF Now, New
  <2>3. New = (IF Connecting(Job(t)) THEN {Job(t).slot.id} ELSE {})
        /\ Now = ActiveIn(mSlots') \cup IdsOf(q')
    BY DEF New, Now
  <2> QED BY <1>1, <1>2, <1>12, <1>13, <1>14, <1>16, <1>18, <2>1, <2>2, <2>3, PlacesMove, ZenonT(40) DEF q
<1>20. DutyOK'
  <2>1. Job(t)' = f BY <1>13 DEF JobIs
  <2> QED BY <1>12, <2>1 DEF DutyOK, WillFlag, WillClean
<1> QED BY <1>13, <1>19, <1>20 DEF IInv

(* What a call that returns leaves in the lists. *)
Rearranged(New) ==
  /\ mSlots' \in Seq(Slot) /\ mPendingConnects' \in Seq(Slot) /\ SlotsStay
  /\ DistinctIds(mSlots') /\ DistinctIds(mPendingConnects') /\ Sorted(mSlots')
  /\ IdsOf(mSlots') \cap IdsOf(mPendingConnects') = {}
  /\ \A i \in 1 .. Len(mPendingConnects') : mPendingConnects'[i].active
  /\ known \subseteq known' /\ known' \subseteq known \cup New
  /\ IdsOf(mSlots') \cup IdsOf(mPendingConnects')
       \subseteq IdsOf(mSlots) \cup IdsOf(mPendingConnects) \cup New
  /\ dropped' \subseteq dropped \cup IdsOf(mSlots) \cup IdsOf(mPendingConnects)

Present == ActiveIn(mSlots') \cup IdsOf(mPendingConnects')

LEMMA ReturnKeeps ==
  ASSUME IInv, propagates' = propagates, NEW t \in Threads, stack[t] # << >>, Return(t),
         calls' = calls, mRecursionDepth' = mRecursionDepth, mNextId' = mNextId,
         mNeedsCleanup' \in BOOLEAN, ~Counted(Top(t)),
         \/ shared' = shared /\ ~Holds(Top(t))
         \/ shared' = [shared EXCEPT ![t] = @ - 1] /\ Holds(Top(t)),
         NEW New, New = IF Connecting(Top(t)) THEN {Top(t).slot.id} ELSE {},
         Rearranged(New),
         Placed \cup dropped \subseteq Present \cup dropped', dropped' \cap Present = {},
         Unborn(Top(t)) => Top(t).slot.id \in Present,
         mPendingConnects' # << >> =>
           /\ mPendingConnects # << >>
           /\ mNeedsCleanup \/ WillFlag(Top(t)) => mNeedsCleanup'
           /\ WillClean(Top(t)) => propagates \/ mRecursionDepth > 0
  PROVE  IInv'
<1>1. Control /\ Places /\ DutyOK /\ SgTypes /\ ListsOK
  BY DEF IInv, Control, Places
<1>2. /\ Job(t) = Top(t)
      /\ Connecting(Top(t)) => Top(t).slot.id \in 1 .. mNextId - 1
  BY TopOK DEF Connecting
<1>3. New \subseteq 1 .. mNextId - 1 BY <1>2
<1>4. IdsOf(mSlots) \cup IdsOf(mPendingConnects) \subseteq 1 .. mNextId - 1 BY <1>1 DEF ListsOK
<1>5. Steady /\ DataTypes'
  <2>1. known' \subseteq 1 .. mNextId - 1 /\ dropped' \subseteq 1 .. mNextId - 1
    BY <1>1, <1>3, <1>4 DEF Rearranged, SgTypes
  <2> QED BY <1>1, <2>1 DEF Steady, SgTypes, DataTypes, Rearranged
<1>6. Control' /\ \E g : JobIs(t, g) /\ Waits(g) BY <1>1, <1>5, ControlReturns
<1>7. PICK g : JobIs(t, g) /\ Waits(g) BY <1>6
<1>8. ~Unborn(g) /\ ~Connecting(g) BY <1>7 DEF Waits, Unborn, Connecting
<1>9. ListsOK'
  <2>1. IdsOf(mSlots') \cup IdsOf(mPendingConnects') \subseteq 1 .. mNextId' - 1
    BY <1>3, <1>4 DEF Rearranged
  <2> QED BY <2>1 DEF ListsOK, Rearranged
<1>10. Places'
  <2>1. New = (IF Connecting(Job(t)) THEN {Job(t).slot.id} ELSE {}) BY <1>2
  <2>2. \E Now : Now = Present OBVIOUS
  <2>3. PICK Now : Now = ActiveIn(mSlots') \cup IdsOf(mPendingConnects') BY <2>2 DEF Present
  <2>4. /\ known' \subseteq known \cup New
        /\ IdsOf(mSlots') \cup IdsOf(mPendingConnects')
             \subseteq IdsOf(mSlots) \cup IdsOf(mPendingConnects) \cup New
        /\ dropped' \subseteq dropped \cup IdsOf(mSlots) \cup IdsOf(mPendingConnects)
    BY DEF Rearranged
  <2>5. /\ Placed \cup dropped \subseteq Now \cup dropped' /\ dropped' \cap Now = {}
        /\ Unborn(Job(t)) => Job(t).slot.id \in Now
    BY <1>2, <2>3 DEF Present
  <2> QED BY <1>1, <1>7, <1>8, <1>9, <2>1, <2>3, <2>4, <2>5, PlacesMove
<1>11. DutyOK'
  <2>1. SUFFICES ASSUME mPendingConnects' # << >> PROVE DutyOK' BY DEF DutyOK
  <2>2. mRecursionDepth > 0 \/ WillClean(Job(t)) =>
          propagates \/ mRecursionDepth' > 0 \/ WillClean(g)
    BY <1>2, <2>1
  <2>3. mNeedsCleanup \/ WillFlag(Job(t)) => mNeedsCleanup' \/ WillFlag(g) BY <1>2, <2>1
  <2> QED BY <1>1, <1>7, <2>1, <2>2, <2>3, SameDuty
<1> QED BY <1>6, <1>10, <1>11 DEF IInv

LEMMA ConnectLeavesParkedKeeps ==
  ASSUME IInv, propagates' = propagates, NEW t \in Threads, ConnectLeavesParked(t)
  PROVE  IInv'
<1> DEFINE New == {Top(t).slot.id}
<1>1. /\ stack[t] # << >> /\ Top(t).op = "connect" /\ Top(t).pc = "recheck" /\ Return(t)
      /\ mSlots' = mSlots /\ mPendingConnects' = mPendingConnects /\ dropped' = dropped
      /\ known' = known \cup New /\ calls' = calls /\ mNextId' = mNextId
      /\ mRecursionDepth' = mRecursionDepth /\ mRecursionDepth > 0
      /\ mNeedsCleanup' = mNeedsCleanup /\ shared' = shared
  BY DEF ConnectLeavesParked, Connected, At, lists, flags
<1>2. SgTypes /\ ListsOK /\ PlacedOK BY DEF IInv, Control, Places
<1>3. /\ Connecting(Top(t)) /\ ~Unborn(Top(t)) /\ ~Counted(Top(t)) /\ ~Holds(Top(t))
      /\ ~WillFlag(Top(t))
  BY <1>1 DEF Connecting, Unborn, Counted, Holds, WillFlag
<1>4. New = IF Connecting(Top(t)) THEN {Top(t).slot.id} ELSE {} BY <1>3
<1> HIDE DEF New
<1>5. Rearranged(New) BY <1>1, <1>2 DEF Rearranged, SlotsStay, SgTypes, ListsOK
<1>6. Present = Placed BY <1>1 DEF Present, Placed
<1>7. dropped' \cap Present = {} BY <1>1, <1>2, <1>6 DEF PlacedOK
<1>8. mNeedsCleanup' \in BOOLEAN BY <1>1, <1>2 DEF SgTypes
<1> QED BY <1>1, <1>3, <1>4, <1>5, <1>6, <1>7, <1>8, ReturnKeeps

LEMMA ConnectInsertKeeps ==
  ASSUME IInv, propagates' = propagates, NEW t \in Threads, ConnectInsert(t)
  PROVE  IInv'
<1> DEFINE s == Top(t).slot
           New == {s.id}
<1>1. /\ stack[t] # << >> /\ Top(t).op = "connect" /\ Top(t).pc = "exclusive" /\ Return(t) /\ Free
      /\ mSlots' = InsertByPriority(mSlots, s) /\ mPendingConnects' = mPendingConnects
      /\ dropped' = dropped /\ known' = known \cup New /\ calls' = calls /\ mNextId' = mNextId
      /\ mRecursionDepth' = mRecursionDepth /\ mNeedsCleanup' = mNeedsCleanup /\ shared' = shared
  BY DEF ConnectInsert, Connected, At, flags
<1>2. SgTypes /\ ListsOK /\ PlacedOK /\ ConnectsOK BY DEF IInv, Control, Places
<1>3. /\ Connecting(Top(t)) /\ Unborn(Top(t)) /\ ~Counted(Top(t)) /\ ~Holds(Top(t))
      /\ ~WillFlag(Top(t)) /\ ~WillClean(Top(t))
  BY <1>1 DEF Connecting, Unborn, Counted, Holds, WillFlag, WillClean
<1>4. New = IF Connecting(Top(t)) THEN {Top(t).slot.id} ELSE {} BY <1>3
<1>5. s \in Slot /\ s.active /\ Job(t) = Top(t) BY <1>1, TopOK
<1>6. s.id \notin IdsOf(mSlots) \cup IdsOf(mPendingConnects) \cup dropped
  BY <1>2, <1>3, <1>5 DEF ConnectsOK
<1> HIDE DEF s
<1>7. /\ mSlots' \in Seq(Slot) /\ Sorted(mSlots') /\ DistinctIds(mSlots')
      /\ IdsOf(mSlots') = IdsOf(mSlots) \cup {s.id}
      /\ ActiveIn(mSlots') = ActiveIn(mSlots) \cup {s.id}
  <2>1. mSlots \in Seq(Slot) /\ Sorted(mSlots) /\ DistinctIds(mSlots)
    BY <1>2 DEF SgTypes, ListsOK
  <2> QED BY <1>1, <1>5, <1>6, <2>1, InsertFacts
<1>8. Rearranged(New)
  BY <1>1, <1>2, <1>6, <1>7 DEF Rearranged, SlotsStay, SgTypes, ListsOK
<1>9. Present = Placed \cup {s.id} BY <1>1, <1>7 DEF Present, Placed
<1>10. dropped' \cap Present = {} BY <1>1, <1>2, <1>6, <1>9 DEF PlacedOK
<1>11. mNeedsCleanup' \in BOOLEAN BY <1>1, <1>2 DEF SgTypes
<1>12. Top(t).slot.id \in Present BY <1>9 DEF s
<1> HIDE DEF New
<1> QED BY <1>1, <1>3, <1>4, <1>8, <1>9, <1>10, <1>11, <1>12, ReturnKeeps

(* performDeferredCleanup() has the lock to itself, and so finds no emission. *)
LEMMA CleanupKeeps ==
  ASSUME IInv, propagates' = propagates, NEW t \in Threads, Cleanup(t)
  PROVE  IInv'
<1> DEFINE New == IF Connecting(Top(t)) THEN {Top(t).slot.id} ELSE {}
           q == Compacted(mSlots)
           p == mPendingConnects
<1>1. stack[t] # << >> /\ Top(t).pc = "cleanup" /\ Free BY DEF Cleanup
<1>2. Control /\ SgTypes /\ ListsOK /\ PlacedOK BY DEF IInv, Control, Places
<1>3. mRecursionDepth = 0 BY <1>1, <1>2, FreeMeansIdle
<1>4. /\ Return(t) /\ mSlots' = Activated(q, p) /\ p' = << >>
      /\ mNeedsCleanup' = FALSE /\ mNextId' = mNextId /\ mRecursionDepth' = mRecursionDepth
      /\ shared' = shared /\ calls' = calls /\ dropped' = dropped
  BY <1>3 DEF Cleanup, Connected
<1>5. known' = known \cup New BY DEF Cleanup, Connected, Connecting
<1>6. ~Counted(Top(t)) /\ ~Holds(Top(t)) /\ ~Unborn(Top(t))
  BY <1>1 DEF Counted, Holds, Unborn
<1>7. mSlots \in Seq(Slot) /\ Sorted(mSlots) /\ DistinctIds(mSlots) /\ p \in Seq(Slot)
      /\ DistinctIds(p) /\ IdsOf(mSlots) \cap IdsOf(p) = {} /\ \A i \in 1 .. Len(p) : p[i].active
  BY <1>2 DEF SgTypes, ListsOK
<1>8. /\ q \in Seq(Slot) /\ Sorted(q) /\ DistinctIds(q)
      /\ IdsOf(q) = ActiveIn(mSlots) /\ ActiveIn(q) = ActiveIn(mSlots)
  BY <1>7, CompactedFacts
<1>9. ActiveIn(mSlots) \subseteq IdsOf(mSlots) BY <1>7, IdsAre
<1> HIDE DEF q, p
<1>10. /\ Activated(q, p) \in Seq(Slot) /\ Sorted(Activated(q, p)) /\ DistinctIds(Activated(q, p))
       /\ IdsOf(Activated(q, p)) = IdsOf(q) \cup IdsOf(p)
       /\ ActiveIn(Activated(q, p)) = ActiveIn(q) \cup IdsOf(p)
  <2>1. IdsOf(q) \cap IdsOf(p) = {} BY <1>7, <1>8, <1>9
  <2> QED BY <1>7, <1>8, <2>1, ActivatedFacts
<1>11. /\ mSlots' \in Seq(Slot) /\ Sorted(mSlots') /\ DistinctIds(mSlots')
       /\ IdsOf(mSlots') = Placed /\ ActiveIn(mSlots') = Placed
       /\ Placed \subseteq IdsOf(mSlots) \cup IdsOf(mPendingConnects)
  BY <1>4, <1>8, <1>9, <1>10 DEF Placed, p
<1>12. /\ p' \in Seq(Slot) /\ Len(p') = 0 /\ DistinctIds(p') /\ IdsOf(p') = {}
  BY <1>4, EmptyFacts
<1> HIDE DEF New
<1>13. Rearranged(New)
  <2>1. \A i \in 1 .. Len(p') : p'[i].active BY <1>12
  <2> QED BY <1>1, <1>4, <1>5, <1>11, <1>12, <2>1 DEF Rearranged, SlotsStay, p
<1>14. Present = Placed BY <1>11, <1>12 DEF Present, p
<1>15. dropped' \cap Present = {} BY <1>2, <1>4, <1>14 DEF PlacedOK
<1>16. mPendingConnects' = << >> BY <1>4 DEF p
<1>17. New = IF Connecting(Top(t)) THEN {Top(t).slot.id} ELSE {} BY DEF New
<1> QED BY <1>1, <1>4, <1>6, <1>13, <1>14, <1>15, <1>16, <1>17, ReturnKeeps

LEMMA DisconnectKillsKeeps ==
  ASSUME IInv, propagates' = propagates, NEW t \in Threads, DisconnectKills(t)
  PROVE  IInv'
<1> DEFINE k == Top(t).at
           id == Top(t).slot.id
<1>1. /\ stack[t] # << >> /\ Top(t).op = "disconnect" /\ Top(t).pc = "kill" /\ Return(t)
      /\ mSlots' = [mSlots EXCEPT ![k].active = FALSE] /\ mPendingConnects' = mPendingConnects
      /\ dropped' = dropped \cup {id} /\ known' = known /\ calls' = calls /\ mNextId' = mNextId
      /\ mRecursionDepth' = mRecursionDepth /\ mNeedsCleanup' = TRUE
      /\ shared' = [shared EXCEPT ![t] = @ - 1]
  BY DEF DisconnectKills, At, Drop, Release
<1>2. SgTypes /\ ListsOK /\ PlacedOK BY DEF IInv, Control, Places
<1>3. /\ ~Connecting(Top(t)) /\ ~Unborn(Top(t)) /\ ~Counted(Top(t)) /\ Holds(Top(t))
      /\ ~WillFlag(Top(t)) /\ ~WillClean(Top(t))
  BY <1>1 DEF Connecting, Unborn, Counted, Holds, WillFlag, WillClean
<1>4. Top(t) \in Frames /\ FrameOK(Top(t)) BY <1>1, TopOK
<1>5. mSlots \in Seq(Slot) /\ DistinctIds(mSlots) /\ Sorted(mSlots) BY <1>2 DEF SgTypes, ListsOK
<1>6. k \in 1 .. Len(mSlots) /\ mSlots[k].id = id
  <2>1. k \in Nat /\ k # 0 /\ k <= Len(mSlots) /\ mSlots[k].id = id
    BY <1>1, <1>4 DEF FrameOK, Frames
  <2>2. Len(mSlots) \in Nat BY <1>5, LenProperties
  <2> QED BY <2>1, <2>2
<1> HIDE DEF k, id
<1>7. /\ mSlots' \in Seq(Slot) /\ Len(mSlots') = Len(mSlots)
      /\ \A i \in 1 .. Len(mSlots) : mSlots'[i].id = mSlots[i].id
      /\ DistinctIds(mSlots') /\ Sorted(mSlots') /\ IdsOf(mSlots') = IdsOf(mSlots)
      /\ ActiveIn(mSlots') = ActiveIn(mSlots) \ {id}
  <2>1. PICK r : r = mSlots' OBVIOUS
  <2>2. PICK j \in 1 .. Len(mSlots) : j = k BY <1>6
  <2>3. r = Killed(mSlots, j) /\ mSlots[j].id = id BY <1>1, <1>6, <2>1, <2>2 DEF Killed
  <2>4. /\ r \in Seq(Slot) /\ Len(r) = Len(mSlots) /\ \A i \in 1 .. Len(mSlots) : r[i].id = mSlots[i].id
        /\ DistinctIds(r) /\ Sorted(r) /\ IdsOf(r) = IdsOf(mSlots)
        /\ ActiveIn(r) = ActiveIn(mSlots) \ {mSlots[j].id}
    BY <1>5, <2>3, KillFacts
  <2> QED BY <2>1, <2>3, <2>4
<1>8. id \in IdsOf(mSlots) /\ id \notin IdsOf(mPendingConnects)
  <2>1. id \in IdsOf(mSlots) BY <1>5, <1>6, IdsAre
  <2> QED BY <1>2, <2>1 DEF ListsOK
<1>9. Rearranged({})
  BY <1>1, <1>2, <1>7, <1>8 DEF Rearranged, SlotsStay, SgTypes, ListsOK
<1>10. Present = Placed \ {id} BY <1>1, <1>7, <1>8 DEF Present, Placed
<1>11. Placed \cup dropped \subseteq Present \cup dropped' /\ dropped' \cap Present = {}
  BY <1>1, <1>2, <1>10 DEF PlacedOK
<1>12. {} = IF Connecting(Top(t)) THEN {Top(t).slot.id} ELSE {} BY <1>3
<1> QED BY <1>1, <1>3, <1>9, <1>11, <1>12, ReturnKeeps

LEMMA DisconnectAllKillsKeeps ==
  ASSUME IInv, propagates' = propagates, NEW t \in Threads, DisconnectAllKills(t)
  PROVE  IInv'
<1>1. /\ stack[t] # << >> /\ Top(t).op = "disconnectAll" /\ Top(t).pc = "sharedLock" /\ Return(t)
      /\ mSlots' = [i \in DOMAIN mSlots |-> [mSlots[i] EXCEPT !.active = FALSE]]
      /\ mPendingConnects' = << >> /\ known' = known /\ calls' = calls /\ mNextId' = mNextId
      /\ dropped' = dropped \cup IdsOf(mSlots) \cup IdsOf(mPendingConnects)
      /\ mRecursionDepth' = mRecursionDepth /\ mNeedsCleanup' = TRUE /\ shared' = shared
  BY DEF DisconnectAllKills, At, ParkedIds
<1>2. SgTypes /\ ListsOK /\ PlacedOK BY DEF IInv, Control, Places
<1>3. /\ ~Connecting(Top(t)) /\ ~Unborn(Top(t)) /\ ~Counted(Top(t)) /\ ~Holds(Top(t))
  BY <1>1 DEF Connecting, Unborn, Counted, Holds
<1>4. mSlots \in Seq(Slot) /\ DistinctIds(mSlots) /\ Sorted(mSlots) BY <1>2 DEF SgTypes, ListsOK
<1>5. /\ mSlots' \in Seq(Slot) /\ Len(mSlots') = Len(mSlots)
      /\ \A i \in 1 .. Len(mSlots) : mSlots'[i].id = mSlots[i].id
      /\ DistinctIds(mSlots') /\ Sorted(mSlots') /\ IdsOf(mSlots') = IdsOf(mSlots)
      /\ ActiveIn(mSlots') = {}
  BY <1>1, <1>4, KillAllFacts
<1>6. /\ mPendingConnects' \in Seq(Slot) /\ Len(mPendingConnects') = 0
      /\ DistinctIds(mPendingConnects') /\ IdsOf(mPendingConnects') = {}
  BY <1>1, EmptyFacts
<1>7. Rearranged({})
  <2>1. \A i \in 1 .. Len(mPendingConnects') : mPendingConnects'[i].active BY <1>6
  <2> QED BY <1>1, <1>5, <1>6, <2>1 DEF Rearranged, SlotsStay
<1>8. Present = {} BY <1>5, <1>6 DEF Present
<1>9. Placed \subseteq IdsOf(mSlots) \cup IdsOf(mPendingConnects) BY <1>4, IdsAre DEF Placed
<1>10. Placed \cup dropped \subseteq Present \cup dropped' /\ dropped' \cap Present = {}
  BY <1>1, <1>8, <1>9
<1>11. {} = IF Connecting(Top(t)) THEN {Top(t).slot.id} ELSE {} BY <1>3
<1> QED BY <1>1, <1>3, <1>7, <1>10, <1>11, ReturnKeeps

LEMMA DisconnectAllClearsKeeps ==
  ASSUME IInv, propagates' = propagates, NEW t \in Threads, DisconnectAllClears(t)
  PROVE  IInv'
<1>1. /\ stack[t] # << >> /\ Top(t).op = "disconnectAll" /\ Top(t).pc = "exclusive" /\ Return(t)
      /\ Free /\ mSlots' = << >> /\ mPendingConnects' = << >> /\ known' = known
      /\ calls' = calls /\ mNextId' = mNextId
      /\ dropped' = dropped \cup IdsOf(mSlots) \cup IdsOf(mPendingConnects)
      /\ mRecursionDepth' = mRecursionDepth /\ mNeedsCleanup' = mNeedsCleanup /\ shared' = shared
  BY DEF DisconnectAllClears, At, ParkedIds, flags
<1>2. SgTypes /\ ListsOK /\ PlacedOK BY DEF IInv, Control, Places
<1>3. /\ ~Connecting(Top(t)) /\ ~Unborn(Top(t)) /\ ~Counted(Top(t)) /\ ~Holds(Top(t))
  BY <1>1 DEF Connecting, Unborn, Counted, Holds
<1>4. mSlots \in Seq(Slot) /\ mNeedsCleanup' \in BOOLEAN BY <1>1, <1>2 DEF SgTypes
<1>5. /\ mSlots' \in Seq(Slot) /\ DistinctIds(mSlots') /\ Sorted(mSlots') /\ IdsOf(mSlots') = {}
      /\ ActiveIn(mSlots') = {}
      /\ mPendingConnects' \in Seq(Slot) /\ Len(mPendingConnects') = 0
      /\ DistinctIds(mPendingConnects') /\ IdsOf(mPendingConnects') = {}
  BY <1>1, EmptyFacts
<1>6. Rearranged({})
  <2>1. \A i \in 1 .. Len(mPendingConnects') : mPendingConnects'[i].active BY <1>5
  <2> QED BY <1>1, <1>5, <2>1 DEF Rearranged, SlotsStay
<1>7. Present = {} BY <1>5 DEF Present
<1>8. Placed \subseteq IdsOf(mSlots) \cup IdsOf(mPendingConnects) BY <1>4, IdsAre DEF Placed
<1>9. Placed \cup dropped \subseteq Present \cup dropped' /\ dropped' \cap Present = {}
  BY <1>1, <1>7, <1>8
<1>10. {} = IF Connecting(Top(t)) THEN {Top(t).slot.id} ELSE {} BY <1>3
<1> QED BY <1>1, <1>3, <1>4, <1>6, <1>9, <1>10, ReturnKeeps

(* Without on one of the lists. *)
LEMMA DisconnectParkedKeeps ==
  ASSUME IInv, propagates' = propagates, NEW t \in Threads, DisconnectParked(t)
  PROVE  IInv'
<1> DEFINE id == Top(t).slot.id
           p == mPendingConnects
<1>1. /\ stack[t] # << >> /\ Top(t).op = "disconnect" /\ Top(t).pc = "sharedLock" /\ Return(t)
      /\ id \notin ActiveIds /\ ErasePending(id)
      /\ mSlots' = mSlots /\ calls' = calls /\ mNextId' = mNextId /\ shared' = shared
      /\ mRecursionDepth' = mRecursionDepth /\ mNeedsCleanup' = mNeedsCleanup
  BY DEF DisconnectParked, At, flags
<1>2. SgTypes /\ ListsOK /\ PlacedOK BY DEF IInv, Control, Places
<1>3. /\ ~Connecting(Top(t)) /\ ~Unborn(Top(t)) /\ ~Counted(Top(t)) /\ ~Holds(Top(t))
      /\ ~WillFlag(Top(t)) /\ ~WillClean(Top(t))
  BY <1>1 DEF Connecting, Unborn, Counted, Holds, WillFlag, WillClean
<1>4. /\ mSlots \in Seq(Slot) /\ DistinctIds(mSlots) /\ Sorted(mSlots)
      /\ p \in Seq(Slot) /\ DistinctIds(p) /\ \A i \in 1 .. Len(p) : p[i].active
      /\ mNeedsCleanup \in BOOLEAN
  BY <1>2 DEF SgTypes, ListsOK
<1>5. id \notin ActiveIn(mSlots) /\ ParkedIds = IdsOf(p) BY <1>1, <1>4, ActiveIdsAre
<1>6. ActiveIn(mSlots) \cap IdsOf(p) = {} BY <1>2, <1>4, IdsAre DEF ListsOK
<1> HIDE DEF id, p
<1>7. {} = IF Connecting(Top(t)) THEN {Top(t).slot.id} ELSE {} BY <1>3
<1>8. CASE id \in IdsOf(p)
  <2>1. p' = Without(p, id) /\ dropped' = dropped \cup {id} /\ known' = known
    BY <1>1, <1>5, <1>8 DEF ErasePending, Drop, p
  <2>2. /\ Without(p, id) \in Seq(Slot) /\ DistinctIds(Without(p, id))
        /\ IdsOf(Without(p, id)) = IdsOf(p) \ {id}
        /\ \A i \in 1 .. Len(Without(p, id)) : Without(p, id)[i].active
    BY <1>4, <1>8, WithoutFacts
  <2>3. p' \in Seq(Slot) /\ DistinctIds(p') /\ IdsOf(p') = IdsOf(p) \ {id}
        /\ \A i \in 1 .. Len(p') : p'[i].active
    BY <2>1, <2>2
  <2>4. Rearranged({})
    BY <1>1, <1>2, <1>4, <1>8, <2>1, <2>3 DEF Rearranged, SlotsStay, ListsOK, p
  <2>5. Present = Placed \ {id} BY <1>1, <1>5, <2>3 DEF Present, Placed, p
  <2>6. Placed \cup dropped \subseteq Present \cup dropped' /\ dropped' \cap Present = {}
    BY <1>2, <2>1, <2>5 DEF PlacedOK
  <2>7. mPendingConnects # << >> BY <1>8, EmptyFacts DEF p
  <2> QED BY <1>1, <1>3, <1>4, <1>7, <2>4, <2>6, <2>7, ReturnKeeps
<1>9. CASE id \notin IdsOf(p)
  <2>1. mPendingConnects' = mPendingConnects /\ dropped' = dropped /\ known' = known
    BY <1>1, <1>5, <1>9 DEF ErasePending, history
  <2>2. Rearranged({})
    BY <1>1, <1>2, <1>4, <2>1 DEF Rearranged, SlotsStay, ListsOK, p
  <2>3. Present = Placed BY <1>1, <2>1 DEF Present, Placed
  <2>4. Placed \cup dropped \subseteq Present \cup dropped' /\ dropped' \cap Present = {}
    BY <1>2, <2>1, <2>3 DEF PlacedOK
  <2> QED BY <1>1, <1>3, <1>4, <1>7, <2>1, <2>2, <2>4, ReturnKeeps
<1> QED BY <1>8, <1>9

LEMMA DisconnectErasesKeeps ==
  ASSUME IInv, propagates' = propagates, NEW t \in Threads, DisconnectErases(t)
  PROVE  IInv'
<1> DEFINE id == Top(t).slot.id
           p == mPendingConnects
<1>1. /\ stack[t] # << >> /\ Top(t).op = "disconnect" /\ Top(t).pc = "exclusive" /\ Return(t) /\ Free
      /\ calls' = calls /\ mNextId' = mNextId /\ shared' = shared
      /\ mRecursionDepth' = mRecursionDepth /\ mNeedsCleanup' = mNeedsCleanup
  BY DEF DisconnectErases, At, flags
<1>2. SgTypes /\ ListsOK /\ PlacedOK BY DEF IInv, Control, Places
<1>3. /\ ~Connecting(Top(t)) /\ ~Unborn(Top(t)) /\ ~Counted(Top(t)) /\ ~Holds(Top(t))
      /\ ~WillFlag(Top(t)) /\ ~WillClean(Top(t))
  BY <1>1 DEF Connecting, Unborn, Counted, Holds, WillFlag, WillClean
<1>4. /\ mSlots \in Seq(Slot) /\ DistinctIds(mSlots) /\ Sorted(mSlots)
      /\ p \in Seq(Slot) /\ DistinctIds(p) /\ \A i \in 1 .. Len(p) : p[i].active
      /\ mNeedsCleanup \in BOOLEAN /\ ParkedIds = IdsOf(p)
      /\ ActiveIn(mSlots) \subseteq IdsOf(mSlots) /\ IdsOf(mSlots) \cap IdsOf(p) = {}
  BY <1>2, IdsAre DEF SgTypes, ListsOK, ParkedIds
<1>5. {} = IF Connecting(Top(t)) THEN {Top(t).slot.id} ELSE {} BY <1>3
<1>6. CASE id \in IdsOf(mSlots)
  <2>1. mSlots' = Without(mSlots, id) /\ p' = p /\ dropped' = dropped \cup {id} /\ known' = known
    BY <1>6 DEF DisconnectErases, Drop
  <2> HIDE DEF id, p
  <2>2. /\ Without(mSlots, id) \in Seq(Slot) /\ DistinctIds(Without(mSlots, id))
        /\ Sorted(Without(mSlots, id))
        /\ IdsOf(Without(mSlots, id)) = IdsOf(mSlots) \ {id}
        /\ ActiveIn(Without(mSlots, id)) = ActiveIn(mSlots) \ {id}
    BY <1>4, <1>6, WithoutFacts
  <2>3. /\ mSlots' \in Seq(Slot) /\ DistinctIds(mSlots') /\ Sorted(mSlots')
        /\ IdsOf(mSlots') = IdsOf(mSlots) \ {id} /\ ActiveIn(mSlots') = ActiveIn(mSlots) \ {id}
    BY <2>1, <2>2
  <2>4. Rearranged({})
    BY <1>1, <1>4, <1>6, <2>1, <2>3 DEF Rearranged, SlotsStay, p
  <2>5. Present = Placed \ {id} BY <1>4, <1>6, <2>1, <2>3 DEF Present, Placed, p
  <2>6. Placed \cup dropped \subseteq Present \cup dropped' /\ dropped' \cap Present = {}
    BY <1>2, <2>1, <2>5 DEF PlacedOK
  <2>7. mPendingConnects' = mPendingConnects BY <2>1 DEF p
  <2> QED BY <1>1, <1>3, <1>4, <1>5, <2>4, <2>6, <2>7, ReturnKeeps
<1>7. CASE id \notin IdsOf(mSlots) /\ id \in IdsOf(p)
  <2>1. mSlots' = mSlots /\ p' = Without(p, id) /\ dropped' = dropped \cup {id} /\ known' = known
    BY <1>4, <1>7 DEF DisconnectErases, ErasePending, Drop
  <2> HIDE DEF id, p
  <2>2. /\ Without(p, id) \in Seq(Slot) /\ DistinctIds(Without(p, id))
        /\ IdsOf(Without(p, id)) = IdsOf(p) \ {id}
        /\ \A i \in 1 .. Len(Without(p, id)) : Without(p, id)[i].active
    BY <1>4, <1>7, WithoutFacts
  <2>3. p' \in Seq(Slot) /\ DistinctIds(p') /\ IdsOf(p') = IdsOf(p) \ {id}
        /\ \A i \in 1 .. Len(p') : p'[i].active
    BY <2>1, <2>2
  <2>4. Rearranged({})
    BY <1>1, <1>4, <1>7, <2>1, <2>3 DEF Rearranged, SlotsStay, p
  <2>5. Present = Placed \ {id} BY <1>4, <1>7, <2>1, <2>3 DEF Present, Placed, p
  <2>6. Placed \cup dropped \subseteq Present \cup dropped' /\ dropped' \cap Present = {}
    BY <1>2, <2>1, <2>5 DEF PlacedOK
  <2>7. mPendingConnects # << >> BY <1>7, EmptyFacts DEF p
  <2> QED BY <1>1, <1>3, <1>4, <1>5, <2>4, <2>6, <2>7, ReturnKeeps
<1>8. CASE id \notin IdsOf(mSlots) /\ id \notin IdsOf(p)
  <2>1. mSlots' = mSlots /\ mPendingConnects' = mPendingConnects /\ dropped' = dropped /\ known' = known
    BY <1>4, <1>8 DEF DisconnectErases, ErasePending, history
  <2> HIDE DEF id
  <2>2. Rearranged({}) BY <1>1, <1>4, <2>1 DEF Rearranged, SlotsStay
  <2>3. Present = Placed BY <2>1 DEF Present, Placed
  <2>4. Placed \cup dropped \subseteq Present \cup dropped' /\ dropped' \cap Present = {}
    BY <1>2, <2>1, <2>3 DEF PlacedOK
  <2> QED BY <1>1, <1>3, <1>4, <1>5, <2>1, <2>2, <2>4, ReturnKeeps
<1> QED BY <1>6, <1>7, <1>8

-----------------------------------------------------------------------------
(* The invariant holds. *)
LEMMA InitIInv == Init => IInv
<1> SUFFICES ASSUME Init PROVE IInv OBVIOUS
<1>1. /\ propagates \in BOOLEAN /\ mSlots = << >> /\ mPendingConnects = << >> /\ mNextId = 1
      /\ mRecursionDepth = 0 /\ mNeedsCleanup = FALSE
      /\ shared = [t \in Threads |-> 0] /\ stack = [t \in Threads |-> << >>]
      /\ calls = [t \in Threads |-> 0] /\ known = {} /\ dropped = {}
  BY PolicyAssumption DEF Init
<1>2. SgTypes
  <2>1. 0 \in 0 .. MaxCalls /\ 1 \in 1 .. MaxSlots + 1 BY BoundsAssumption
  <2>2. << >> \in Seq(Frames) /\ Len(<< >>) = 0 /\ << >> \in Seq(Slot) BY EmptyFacts
  <2>3. stack \in [Threads -> Seq(Frames)] /\ shared \in [Threads -> Nat]
        /\ calls \in [Threads -> 0 .. MaxCalls]
    BY <1>1, <2>1, <2>2
  <2>4. \A t \in Threads : Len(stack[t]) <= calls[t] BY <1>1
  <2> QED BY <1>1, <2>1, <2>2, <2>3, <2>4 DEF SgTypes
<1>3. \A t \in Threads : stack[t] = << >> /\ Len(stack[t]) = 0 BY <1>1
<1>4. FramesOK /\ LocksOK BY <1>1, <1>3 DEF FramesOK, LocksOK
<1>5. DepthOK
  <2>1. stack \in Stacks BY <1>2, StacksFacts
  <2>2. ASSUME NEW e \in Emissions PROVE FALSE
    BY <1>3, <2>1, <2>2, EmissionsAre DEF Emissions
  <2>3. Emissions = {} BY <2>2
  <2> QED BY <1>1, <2>3, FS_EmptySet DEF DepthOK
<1>6. ListsOK
  <2>1. \A i \in 1 .. Len(mPendingConnects) : mPendingConnects[i].active BY <1>1
  <2> QED BY <1>1, <2>1, EmptyFacts DEF ListsOK
<1>7. ASSUME NEW t \in Threads PROVE ~Connecting(Job(t)) /\ ~Unborn(Job(t))
  <2>1. Job(t) = Frame("emit", "callback", NoSlot) BY <1>3 DEF Job
  <2> QED BY <2>1 DEF Connecting, Unborn, Frame
<1>8. ConnectsOK BY <1>7 DEF ConnectsOK
<1>9. PlacedOK BY <1>1 DEF PlacedOK
<1>10. DutyOK BY <1>1 DEF DutyOK
<1> QED BY <1>2, <1>4, <1>5, <1>6, <1>8, <1>9, <1>10 DEF IInv, Control, Places

LEMMA StepKeeps ==
  ASSUME IInv, propagates' = propagates, NEW t \in Threads, Step(t)
  PROVE  IInv'
<1>1. CASE SeeDepth(t) BY <1>1, SeeDepthKeeps
<1>2. CASE Cleanup(t) BY <1>2, CleanupKeeps
<1>3. CASE ConnectPark(t) BY <1>3, ConnectParkKeeps
<1>4. CASE ConnectFlag(t) BY <1>4, ConnectFlagKeeps
<1>5. CASE ConnectDrains(t) BY <1>5, ConnectDrainsKeeps
<1>6. CASE ConnectLeavesParked(t) BY <1>6, ConnectLeavesParkedKeeps
<1>7. CASE ConnectInsert(t) BY <1>7, ConnectInsertKeeps
<1>8. CASE \E i \in Ids : DisconnectFinds(t, i) BY <1>8, DisconnectFindsKeeps
<1>9. CASE DisconnectKills(t) BY <1>9, DisconnectKillsKeeps
<1>10. CASE DisconnectParked(t) BY <1>10, DisconnectParkedKeeps
<1>11. CASE DisconnectErases(t) BY <1>11, DisconnectErasesKeeps
<1>12. CASE DisconnectAllKills(t) BY <1>12, DisconnectAllKillsKeeps
<1>13. CASE DisconnectAllClears(t) BY <1>13, DisconnectAllClearsKeeps
<1>14. CASE EmitEnter(t) BY <1>14, EmitEnterKeeps
<1>15. CASE EmissionGoesOn(t) BY <1>15, EmissionGoesOnKeeps
<1>16. CASE EmitLeaves(t) BY <1>16, EmitLeavesKeeps
<1>17. CASE EmitTestsFlag(t) BY <1>17, EmitTestsFlagKeeps
<1> QED
  BY <1>1, <1>2, <1>3, <1>4, <1>5, <1>6, <1>7, <1>8, <1>9, <1>10, <1>11, <1>12, <1>13, <1>14,
     <1>15, <1>16, <1>17 DEF Step, EmissionGoesOn

LEMMA NextKeeps == IInv /\ [Next]_vars => IInv'
<1> SUFFICES ASSUME IInv, [Next]_vars PROVE IInv' OBVIOUS
<1>1. CASE Next
  <2>1. PICK t \in Threads :
          \/ \E priority \in Priorities : ConnectCall(t, priority)
          \/ \E id \in Ids : DisconnectCall(t, id)
          \/ DisconnectAllCall(t)
          \/ EmitCall(t)
          \/ Step(t)
    BY <1>1 DEF Next
  <2>2. propagates' = propagates BY <1>1 DEF Next
  <2>3. CASE \E priority \in Priorities : ConnectCall(t, priority) BY <2>2, <2>3, ConnectCallKeeps
  <2>4. CASE \E id \in Ids : DisconnectCall(t, id) BY <2>2, <2>4, DisconnectCallKeeps
  <2>5. CASE DisconnectAllCall(t) \/ EmitCall(t) BY <2>2, <2>5, OtherCallsKeep
  <2>6. CASE Step(t) BY <2>2, <2>6, StepKeeps
  <2> QED BY <2>1, <2>3, <2>4, <2>5, <2>6
<1>2. CASE vars' = vars
  <2>1. /\ propagates' = propagates /\ mSlots' = mSlots /\ mPendingConnects' = mPendingConnects
        /\ mNextId' = mNextId /\ mRecursionDepth' = mRecursionDepth
        /\ mNeedsCleanup' = mNeedsCleanup /\ shared' = shared /\ stack' = stack /\ calls' = calls
        /\ known' = known /\ dropped' = dropped
    BY <1>2 DEF vars, lists, flags, history
  <2>2. /\ (\A t \in Threads : Job(t)' = Job(t))
        /\ IdsOf(mSlots)' = IdsOf(mSlots) /\ IdsOf(mPendingConnects)' = IdsOf(mPendingConnects)
        /\ Placed' = Placed /\ Emissions' = Emissions
    BY <2>1 DEF Job, Top, IdsOf, Placed, ActiveIn, Emissions, EmissionsOf, Counted
  <2>3. Control'
    <3>1. SgTypes' BY <2>1 DEF IInv, Control, SgTypes
    <3>2. FramesOK' BY <2>1 DEF IInv, Control, FramesOK, FrameOK, Waits
    <3>3. LocksOK' BY <2>1 DEF IInv, Control, LocksOK, Holds, Top
    <3>4. DepthOK' BY <2>1, <2>2 DEF IInv, Control, DepthOK
    <3> QED BY <3>1, <3>2, <3>3, <3>4 DEF Control
  <2>4. Places'
    <3>1. ListsOK' BY <2>1, <2>2 DEF IInv, Places, ListsOK
    <3>2. ConnectsOK' BY <2>1, <2>2 DEF IInv, Places, ConnectsOK, Connecting, Unborn
    <3>3. PlacedOK' BY <2>1, <2>2 DEF IInv, Places, PlacedOK, Connecting, Unborn
    <3> QED BY <3>1, <3>2, <3>3 DEF Places
  <2>5. DutyOK' BY <2>1, <2>2 DEF IInv, DutyOK, WillFlag, WillClean
  <2> QED BY <2>3, <2>4, <2>5 DEF IInv
<1> QED BY <1>1, <1>2

LEMMA Invariant == Spec => []IInv
BY InitIInv, NextKeeps, PTL DEF Spec

-----------------------------------------------------------------------------
LEMMA DepthFollows == IInv => DepthIsSound
<1> SUFFICES ASSUME IInv PROVE DepthIsSound OBVIOUS
<1>1. SgTypes /\ FramesOK /\ LocksOK /\ DepthOK BY DEF IInv, Control
<1>2. TypeOK
  <2>1. 1 .. mNextId - 1 \subseteq Ids BY <1>1, BoundsAssumption DEF SgTypes, Ids
  <2> QED BY <1>1, <2>1 DEF SgTypes, TypeOK
<1>3. mRecursionDepth = Cardinality({e \in Threads \X (1 .. MaxCalls) : e[2] \in Emitting(e[1])})
  <2>1. {e \in Threads \X (1 .. MaxCalls) : e[2] \in Emitting(e[1])} = Emissions
    BY DEF Emissions, EmissionsOf, Emitting, Counted
  <2> QED BY <1>1, <2>1 DEF DepthOK
<1>4. ASSUME NEW t \in Threads PROVE Cardinality(Emitting(t)) <= shared[t]
  <2>1. stack[t] \in Seq(Frames) /\ shared[t] \in Nat BY <1>1 DEF SgTypes
  <2>2. Len(stack[t]) \in Nat /\ DOMAIN stack[t] = 1 .. Len(stack[t]) BY <2>1, LenProperties
  <2>3. Emitting(t) \subseteq 1 .. shared[t]
    <3>1. SUFFICES ASSUME NEW k \in Emitting(t) PROVE k \in 1 .. shared[t] OBVIOUS
    <3>2. k \in 1 .. Len(stack[t]) /\ Counted(stack[t][k]) BY <2>2, <3>1 DEF Emitting, Counted
    <3>3. stack[t] # << >> BY <2>2, <3>2
    <3>4. CASE k = Len(stack[t])
      <4>1. Holds(Top(t)) BY <1>1, <3>2, <3>3, <3>4, TopFacts DEF SgTypes, Counted, Holds
      <4>2. shared[t] = Len(stack[t]) BY <1>1, <3>3, <4>1 DEF LocksOK
      <4> QED BY <3>2, <4>2
    <3>5. CASE k # Len(stack[t])
      <4>1. shared[t] = Len(stack[t]) \/ shared[t] = Len(stack[t]) - 1 BY <1>1, <3>3 DEF LocksOK
      <4> QED BY <2>2, <3>2, <3>5, <4>1
    <3> QED BY <3>4, <3>5
  <2>4. IsFiniteSet(1 .. shared[t]) /\ Cardinality(1 .. shared[t]) = shared[t]
    <3>1. PICK n \in Nat : n = shared[t] BY <2>1
    <3>2. IsFiniteSet(1 .. n) /\ Cardinality(1 .. n) = IF 1 > n THEN 0 ELSE n - 1 + 1
      BY FS_Interval
    <3> QED BY <3>1, <3>2
  <2> QED BY <2>3, <2>4, FS_Subset
<1> QED BY <1>2, <1>3, <1>4 DEF DepthIsSound, DepthCountsEmissions

(* In a list without doubles an id is at no place, or at one. *)
LEMMA AtOnePlace ==
  ASSUME NEW q \in Seq(Slot), DistinctIds(q), NEW id,
         NEW K \in SUBSET (1 .. Len(q)), \A i \in K : q[i].id = id
  PROVE  Cardinality(K) = IF K = {} THEN 0 ELSE 1
<1>1. CASE K = {} BY <1>1, FS_EmptySet
<1>2. CASE K # {}
  <2>1. PICK i \in K : TRUE BY <1>2
  <2>2. K = {i} BY <2>1 DEF DistinctIds
  <2> QED BY <1>2, <2>2, FS_Singleton
<1> QED BY <1>1, <1>2

LEMMA SlotsFollow == IInv => SlotsAreKept
<1> SUFFICES ASSUME IInv PROVE SlotsAreKept OBVIOUS
<1>1. SgTypes /\ ListsOK /\ ConnectsOK /\ PlacedOK BY DEF IInv, Control, Places
<1>2. /\ mSlots \in Seq(Slot) /\ mPendingConnects \in Seq(Slot)
      /\ DOMAIN mSlots = 1 .. Len(mSlots)
      /\ DOMAIN mPendingConnects = 1 .. Len(mPendingConnects)
  BY <1>1 DEF SgTypes
<1>3. SlotsAreOrdered BY <1>1, <1>2 DEF ListsOK, Sorted, SlotsAreOrdered
<1>4. ASSUME NEW id \in known
      PROVE  Cardinality({i \in DOMAIN mSlots : mSlots[i].id = id /\ mSlots[i].active})
               + Cardinality({i \in DOMAIN mPendingConnects : mPendingConnects[i].id = id})
             = IF id \in dropped THEN 0 ELSE 1
  <2> DEFINE A == {i \in DOMAIN mSlots : mSlots[i].id = id /\ mSlots[i].active}
             P == {i \in DOMAIN mPendingConnects : mPendingConnects[i].id = id}
  <2>1. A # {} <=> id \in ActiveIn(mSlots)
    BY <1>2 DEF ActiveIn
  <2>2. P # {} <=> id \in IdsOf(mPendingConnects) BY DEF IdsOf
  <2>3. Cardinality(A) = IF A = {} THEN 0 ELSE 1
    <3>1. A \in SUBSET (1 .. Len(mSlots)) /\ \A i \in A : mSlots[i].id = id BY <1>2
    <3> HIDE DEF A
    <3> QED BY <1>1, <1>2, <3>1, AtOnePlace DEF ListsOK
  <2>4. Cardinality(P) = IF P = {} THEN 0 ELSE 1
    <3>1. P \in SUBSET (1 .. Len(mPendingConnects)) /\ \A i \in P : mPendingConnects[i].id = id
      BY <1>2
    <3> HIDE DEF P
    <3> QED BY <1>1, <1>2, <3>1, AtOnePlace DEF ListsOK
  <2> HIDE DEF A, P
  <2>5. id \in 1 .. mNextId - 1 BY <1>1 DEF SgTypes
  <2>6. \A u \in Threads : Unborn(Job(u)) => Job(u).slot.id # id
    BY <1>1 DEF ConnectsOK, Unborn
  <2>7. id \in Placed \cup dropped BY <1>1, <2>5, <2>6 DEF PlacedOK
  <2>8. id \in dropped => id \notin Placed BY <1>1 DEF PlacedOK
  <2>9. ~(id \in ActiveIn(mSlots) /\ id \in IdsOf(mPendingConnects))
    BY <1>1, <1>2, IdsAre DEF ListsOK
  <2>10. CASE id \in dropped
    <3>1. A = {} /\ P = {} BY <2>1, <2>2, <2>8, <2>10 DEF Placed
    <3> QED BY <2>3, <2>4, <2>10, <3>1 DEF A, P
  <2>11. CASE id \notin dropped
    <3>1. (A = {} /\ P # {}) \/ (A # {} /\ P = {}) BY <2>1, <2>2, <2>7, <2>9, <2>11 DEF Placed
    <3>2. Cardinality(A) + Cardinality(P) = 1 BY <2>3, <2>4, <3>1
    <3> QED BY <2>11, <3>2 DEF A, P
  <2> QED BY <2>10, <2>11
<1> QED BY <1>3, <1>4 DEF SlotsAreKept, EachSlotInOnePlace

LEMMA ParkedFollow == IInv => ParkedAreActivated
<1> SUFFICES ASSUME IInv, Quiet, ~propagates, mPendingConnects # << >> PROVE FALSE
  BY DEF ParkedAreActivated
<1>1. SgTypes /\ DepthOK /\ DutyOK BY DEF IInv, Control
<1>2. \A t \in Threads : stack[t] = << >> /\ Len(stack[t]) = 0 BY DEF Quiet
<1>3. mRecursionDepth = 0
  <2>1. stack \in Stacks BY <1>1, StacksFacts
  <2>2. ASSUME NEW e \in Emissions PROVE FALSE
    BY <1>2, <2>1, <2>2, EmissionsAre DEF Emissions
  <2>3. Emissions = {} BY <2>2
  <2> QED BY <1>1, <2>3, FS_EmptySet DEF DepthOK
<1>4. PICK t \in Threads : WillClean(Job(t)) BY <1>1, <1>3 DEF DutyOK
<1>5. Job(t) = Frame("emit", "callback", NoSlot) BY <1>2 DEF Job
<1> QED BY <1>4, <1>5 DEF WillClean, Frame

(* Only who has the lock to itself changes more of the list than who is active. *)
LEMMA StepsStay ==
  ASSUME IInv, Next
  PROVE  SlotsStay
<1>1. PICK t \in Threads :
        \/ \E priority \in Priorities : ConnectCall(t, priority)
        \/ \E id \in Ids : DisconnectCall(t, id)
        \/ DisconnectAllCall(t)
        \/ EmitCall(t)
        \/ Step(t)
  BY DEF Next
<1>2. mSlots \in Seq(Slot) /\ DistinctIds(mSlots) BY DEF IInv, Control, SgTypes, Places, ListsOK
<1>3. mSlots' = mSlots => SlotsStay BY DEF SlotsStay
<1>4. Free => SlotsStay BY DEF SlotsStay
<1>5. CASE ~Step(t)
  BY <1>1, <1>3, <1>5 DEF ConnectCall, DisconnectCall, DisconnectAllCall, EmitCall, lists
<1>6. CASE DisconnectKills(t)
  <2>1. stack[t] # << >> /\ Top(t).op = "disconnect" /\ Top(t).pc = "kill"
        /\ mSlots' = [mSlots EXCEPT ![Top(t).at].active = FALSE]
    BY <1>6 DEF DisconnectKills, At
  <2>2. Top(t) \in Frames /\ FrameOK(Top(t)) BY <2>1, TopOK
  <2>3. Top(t).at \in 1 .. Len(mSlots)
    <3>1. Len(mSlots) \in Nat BY <1>2, LenProperties
    <3> QED BY <2>1, <2>2, <3>1 DEF FrameOK, Frames
  <2>4. PICK k \in 1 .. Len(mSlots) : k = Top(t).at BY <2>3
  <2>5. PICK r : r = mSlots' OBVIOUS
  <2>6. r = Killed(mSlots, k) BY <2>1, <2>4, <2>5 DEF Killed
  <2>7. Len(r) = Len(mSlots) /\ \A i \in 1 .. Len(mSlots) : r[i].id = mSlots[i].id
    BY <1>2, <2>6, KillFacts
  <2> QED BY <2>5, <2>7 DEF SlotsStay
<1>7. CASE DisconnectAllKills(t)
  <2>1. mSlots' = [i \in DOMAIN mSlots |-> [mSlots[i] EXCEPT !.active = FALSE]]
    BY <1>7 DEF DisconnectAllKills
  <2>2. Len(mSlots') = Len(mSlots) /\ \A i \in 1 .. Len(mSlots) : mSlots'[i].id = mSlots[i].id
    BY <1>2, <2>1, KillAllFacts
  <2> QED BY <2>2 DEF SlotsStay
<1>8. CASE Step(t) /\ ~DisconnectKills(t) /\ ~DisconnectAllKills(t)
  <2>1. mSlots' = mSlots \/ Free
    BY <1>8 DEF Step, SeeDepth, Cleanup, ConnectPark, ConnectFlag, ConnectDrains,
       ConnectLeavesParked, ConnectInsert, DisconnectFinds, DisconnectParked, DisconnectErases,
       DisconnectAllClears, EmitEnter, EmitSkips, EmitChecks, EmitInvokes, SlotReturns, SlotThrows,
       SlotAnswers, EmitEnds, EmitLeaves, EmitTestsFlag, lists
  <2> QED BY <1>3, <1>4, <2>1
<1> QED BY <1>1, <1>5, <1>6, <1>7, <1>8

-----------------------------------------------------------------------------
(* mRecursionDepth, read without the lock and decided on by everybody, is   *)
(* the number of emissions in progress, and each of them holds the lock.    *)
THEOREM SignalDepth == Spec => []DepthIsSound
BY Invariant, DepthFollows, PTL

(* A connection is in one place until it is disconnected, and in none then; *)
(* the list stays in the order of priorities.                               *)
THEOREM SignalSlots == Spec => []SlotsAreKept
BY Invariant, SlotsFollow, PTL

(* When every call has returned nobody is left parked, unless one threw.    *)
THEOREM SignalParked == Spec => []ParkedAreActivated
BY Invariant, ParkedFollow, PTL

(* Nobody inserts into, erases from or sorts the list while any emission    *)
(* iterates it, and no emission calls who is disconnected.                  *)
THEOREM SignalEmissions == Spec => EmissionsAreSafe
<1>1. IInv /\ [Next]_vars =>
        [(\E t \in Threads : Emitting(t) # {}) =>
           Len(mSlots') = Len(mSlots)
             /\ \A i \in DOMAIN mSlots : mSlots'[i].id = mSlots[i].id]_vars
  <2> SUFFICES ASSUME IInv, Next, NEW t \in Threads, Emitting(t) # {}
               PROVE  Len(mSlots') = Len(mSlots)
                        /\ \A i \in DOMAIN mSlots : mSlots'[i].id = mSlots[i].id
    OBVIOUS
  <2>1. SgTypes /\ LocksOK /\ FramesOK BY DEF IInv, Control
  <2>2. mSlots \in Seq(Slot) /\ DOMAIN mSlots = 1 .. Len(mSlots) BY <2>1 DEF SgTypes
  <2>3. Cardinality(Emitting(t)) <= shared[t] BY DepthFollows DEF DepthIsSound, DepthCountsEmissions
  <2>4. shared[t] # 0
    <3>1. stack[t] \in Seq(Frames) BY <2>1 DEF SgTypes
    <3>2. DOMAIN stack[t] = 1 .. Len(stack[t]) /\ Len(stack[t]) \in Nat BY <3>1, LenProperties
    <3>3. IsFiniteSet(Emitting(t))
      <4>1. Emitting(t) \subseteq 1 .. Len(stack[t]) BY <3>2 DEF Emitting
      <4>2. PICK n \in Nat : n = Len(stack[t]) BY <3>2
      <4>3. IsFiniteSet(1 .. n) BY FS_Interval
      <4> QED BY <4>1, <4>2, <4>3, FS_Subset
    <3>4. Cardinality(Emitting(t)) # 0 /\ Cardinality(Emitting(t)) \in Nat
      BY <3>3, FS_EmptySet, FS_CardinalityType
    <3>5. shared[t] \in Nat BY <2>1 DEF SgTypes
    <3> QED BY <2>3, <3>4, <3>5
  <2>5. ~Free BY <2>4 DEF Free
  <2>6. SlotsStay BY StepsStay
  <2> QED BY <2>2, <2>5, <2>6 DEF SlotsStay
<1>2. IInv => \A t \in Threads : EmitChecks(t) => Here(t).id \notin dropped
  <2> SUFFICES ASSUME IInv, NEW t \in Threads, EmitChecks(t) PROVE Here(t).id \notin dropped
    OBVIOUS
  <2>1. SgTypes /\ PlacedOK BY DEF IInv, Control, Places
  <2>2. stack[t] # << >> /\ Top(t).at <= Len(mSlots) /\ Here(t) = mSlots[Top(t).at] /\ Here(t).active
    BY DEF EmitChecks, Scanning, At, Here
  <2>3. Top(t) \in Frames /\ FrameOK(Top(t)) BY <2>2, TopOK
  <2>4. Len(mSlots) \in Nat BY <2>1, LenProperties DEF SgTypes
  <2>5. Top(t).at \in 1 .. Len(mSlots) BY <2>2, <2>3, <2>4 DEF FrameOK, Frames
  <2>6. Here(t).id \in ActiveIn(mSlots) BY <2>2, <2>5 DEF ActiveIn
  <2> QED BY <2>1, <2>6 DEF PlacedOK, Placed
<1>3. IInv /\ [Next]_vars =>
        [\A t \in Threads : EmitChecks(t) => Here(t).id \notin dropped]_vars
  BY <1>2
<1> QED BY <1>1, <1>3, Invariant, PTL DEF Spec, EmissionsAreSafe, ListFixedWhileEmitting,
                                         DisconnectedAreSkipped
=============================================================================
