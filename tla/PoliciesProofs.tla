--------------------------- MODULE PoliciesProofs ---------------------------
(***************************************************************************)
(* Theorems about Locks, for any number of threads, every width of the      *)
(* ticket numbers that has room for them, and every threshold; and about    *)
(* HazardPointers, for any number of threads, nodes and hazard pointers,    *)
(* and every threshold; and about OptimisticReads, for any number of        *)
(* readers and writers, and every MAX_RETRIES.  The last theorem is about   *)
(* MCPolicies, which composes the three.                                    *)
(***************************************************************************)
EXTENDS MCPolicies, RingLemmas, FiniteSetTheorems, WellFoundedInduction

-----------------------------------------------------------------------------
(* The locks.                                                               *)

LEMMA Sizes ==
  /\ Modulus \in Nat \ {0} /\ Cardinality(Lockers) < Modulus
  /\ Cardinality(Lockers) \in Nat /\ IsFiniteSet(Lockers)
  /\ SPIN_THRESHOLD \in Nat /\ ADAPT_WINDOW \in Nat /\ NoThread \notin Lockers
<1>1. IsFiniteSet(Lockers) BY LocksAssumption
<1>2. Cardinality(Lockers) \in Nat BY <1>1, FS_CardinalityType
<1> QED BY <1>1, <1>2, LocksAssumption, ModulusAssumption, AdaptAssumption

-----------------------------------------------------------------------------
(* A queue that lists the members of a set, each once. *)
Lists(q, S) ==
  /\ q \in Seq(Lockers)
  /\ \A k \in 1 .. Len(q) : q[k] \in S
  /\ \A t \in S : \E k \in 1 .. Len(q) : q[k] = t
  /\ \A j, k \in 1 .. Len(q) : q[j] = q[k] => j = k
  /\ Len(q) = Cardinality(S)

LEMMA ListsNone == Lists(<< >>, {})
BY EmptySeq, FS_EmptySet DEF Lists

LEMMA ListsAppend ==
  ASSUME NEW q, NEW S \in SUBSET Lockers, Lists(q, S), NEW t \in Lockers, t \notin S
  PROVE  /\ Lists(Append(q, t), S \cup {t})
         /\ Len(q) \in Nat /\ Len(Append(q, t)) = Len(q) + 1
         /\ Append(q, t)[Len(q) + 1] = t
         /\ \A k \in 1 .. Len(q) : Append(q, t)[k] = q[k]
<1> DEFINE r == Append(q, t)  T == S \cup {t}  n == Len(q)
<1>1. q \in Seq(Lockers) /\ n \in Nat BY LenProperties DEF Lists
<1>2. /\ r \in Seq(Lockers) /\ Len(r) = n + 1
      /\ r[n + 1] = t /\ \A k \in 1 .. n : r[k] = q[k]
  BY <1>1, AppendProperties
<1>3. Cardinality(T) = Cardinality(S) + 1 /\ IsFiniteSet(S)
  <2>1. IsFiniteSet(S) BY Sizes, FS_Subset
  <2> QED BY <2>1, FS_AddElement
<1> HIDE DEF r
<1>4. \A k \in 1 .. n + 1 : k = n + 1 \/ k \in 1 .. n BY <1>1
<1>5. \A k \in 1 .. n : q[k] \in S BY DEF Lists
<1>6. \A k \in 1 .. Len(r) : r[k] \in T BY <1>2, <1>4, <1>5
<1>7. ASSUME NEW u \in T PROVE \E k \in 1 .. Len(r) : r[k] = u
  <2>1. CASE u = t
    <3>1. n + 1 \in 1 .. Len(r) BY <1>1, <1>2
    <3> QED BY <1>2, <2>1, <3>1
  <2>2. CASE u \in S
    <3>1. PICK k \in 1 .. n : q[k] = u BY <2>2 DEF Lists
    <3>2. k \in 1 .. Len(r) /\ r[k] = u BY <1>1, <1>2, <3>1
    <3> QED BY <3>2
  <2> QED BY <2>1, <2>2
<1>8. ASSUME NEW j \in 1 .. Len(r), NEW k \in 1 .. Len(r), r[j] = r[k] PROVE j = k
  <2>1. \A i \in 1 .. n : r[i] # t BY <1>2, <1>5
  <2>2. CASE j = n + 1 \/ k = n + 1 BY <1>2, <1>4, <1>8, <2>1, <2>2
  <2>3. CASE j \in 1 .. n /\ k \in 1 .. n
    <3>1. q[j] = q[k] BY <1>2, <1>8, <2>3
    <3> QED BY <2>3, <3>1 DEF Lists
  <2> QED BY <1>2, <1>4, <2>2, <2>3
<1>9. Len(r) = Cardinality(T) BY <1>2, <1>3 DEF Lists
<1>10. Lists(r, T) BY <1>2, <1>6, <1>7, <1>8, <1>9 DEF Lists
<1> QED BY <1>1, <1>2, <1>10 DEF r

LEMMA ListsTail ==
  ASSUME NEW q, NEW S \in SUBSET Lockers, Lists(q, S), Len(q) > 0
  PROVE  /\ Lists(Tail(q), S \ {q[1]}) /\ q[1] \in S /\ Head(q) = q[1]
         /\ Len(q) \in Nat /\ Len(Tail(q)) = Len(q) - 1
         /\ \A k \in 1 .. Len(q) - 1 : Tail(q)[k] = q[k + 1]
<1> DEFINE r == Tail(q)  T == S \ {q[1]}  n == Len(q)
<1>1. q \in Seq(Lockers) /\ n \in Nat \ {0} BY LenProperties DEF Lists
<1>2. q # << >> BY <1>1, EmptySeq
<1>3. r \in Seq(Lockers) /\ Len(r) = n - 1 /\ \A k \in 1 .. n - 1 : r[k] = q[k + 1]
  BY <1>1, <1>2, HeadTailProperties
<1>4. Head(q) = q[1] BY <1>1, <1>2
<1>5. q[1] \in S BY <1>1, 1 \in 1 .. n DEF Lists
<1>6. Cardinality(T) = Cardinality(S) - 1
  <2>1. IsFiniteSet(S) BY Sizes, FS_Subset
  <2> QED BY <1>5, <2>1, FS_RemoveElement
<1> HIDE DEF r
<1>7. ASSUME NEW k \in 1 .. n - 1 PROVE r[k] \in T
  <2>1. k + 1 \in 1 .. n /\ 1 \in 1 .. n /\ k + 1 # 1 BY <1>1
  <2>2. q[k + 1] \in S /\ q[k + 1] # q[1] BY <2>1 DEF Lists
  <2> QED BY <1>3, <2>2
<1>8. ASSUME NEW u \in T PROVE \E k \in 1 .. n - 1 : r[k] = u
  <2>1. PICK k \in 1 .. n : q[k] = u BY DEF Lists
  <2>2. k # 1 BY <2>1
  <2>3. k - 1 \in 1 .. n - 1 /\ (k - 1) + 1 = k BY <1>1, <2>1, <2>2
  <2>4. r[k - 1] = u BY <1>3, <2>1, <2>3
  <2> QED BY <2>3, <2>4
<1>9. ASSUME NEW j \in 1 .. n - 1, NEW k \in 1 .. n - 1, r[j] = r[k] PROVE j = k
  <2>1. j + 1 \in 1 .. n /\ k + 1 \in 1 .. n BY <1>1
  <2>2. q[j + 1] = q[k + 1] BY <1>3, <1>9
  <2>3. j + 1 = k + 1 BY <2>1, <2>2 DEF Lists
  <2> QED BY <1>1, <2>3
<1>10. Lists(r, T) BY <1>3, <1>6, <1>7, <1>8, <1>9 DEF Lists
<1> QED BY <1>1, <1>3, <1>4, <1>5, <1>10 DEF r

LEMMA ListsBound ==
  ASSUME NEW q, NEW S \in SUBSET Lockers, Lists(q, S)
  PROVE  Len(q) \in Nat /\ Len(q) < Modulus
<1>1. Cardinality(S) <= Cardinality(Lockers) /\ Cardinality(S) \in Nat
  BY Sizes, FS_Subset, FS_CardinalityType
<1> QED BY <1>1, Sizes DEF Lists

-----------------------------------------------------------------------------
(* Tickets. *)
LEMMA ModAdd ==
  ASSUME NEW M \in Nat \ {0}, NEW x \in Nat, NEW y \in Nat
  PROVE  ((x % M) + y) % M = (x + y) % M
<1> DEFINE q == x \div M  r == x % M
<1>1. q \in Nat /\ r \in Nat /\ x = M * q + r BY DivMod
<1> HIDE DEF q, r
<1>2. r + y \in Nat BY <1>1
<1>3. (r + y + M * q) % M = (r + y) % M BY <1>1, <1>2, ModLaps
<1>4. r + y + M * q = x + y BY <1>1, M * q \in Nat
<1> QED BY <1>3, <1>4 DEF r

(* A ticket that is less than a lap away is the same only if it is none. *)
LEMMA SameTicket ==
  ASSUME NEW M \in Nat \ {0}, NEW x \in 0 .. M - 1, NEW d \in 0 .. M - 1, (x + d) % M = x
  PROVE  d = 0
<1>1. x % M = x BY ModSmall
<1> SUFFICES ASSUME d # 0 PROVE FALSE OBVIOUS
<1>2. x < x + d /\ (x + d) - x < M /\ x \in Nat /\ x + d \in Nat OBVIOUS
<1>3. x % M # (x + d) % M BY <1>2, ModDistinct
<1> QED BY <1>1, <1>3

LEMMA NextTicket ==
  ASSUME NEW M \in Nat \ {0}, NEW x \in Nat, NEW d \in Nat
  PROVE  /\ (((x + d) % M) + 1) % M = (x + (d + 1)) % M
         /\ (((x + 1) % M) + d) % M = (x + (d + 1)) % M
         /\ x % M \in 0 .. M - 1
<1>1. (((x + d) % M) + 1) % M = (x + d + 1) % M BY ModAdd, x + d \in Nat
<1>2. (((x + 1) % M) + d) % M = (x + 1 + d) % M BY ModAdd, x + 1 \in Nat
<1>3. x + d + 1 = x + (d + 1) /\ x + 1 + d = x + (d + 1) OBVIOUS
<1> QED BY <1>1, <1>2, <1>3, DivMod

-----------------------------------------------------------------------------
(* The inductive invariant. *)

(* Where the threads of each policy can be. *)
PlacesOK ==
  \A t \in Lockers :
    /\ policy = "spin" => locking[t] \in {"idle", "wait", "in"}
    /\ policy = "ticket" => locking[t] \in {"idle", "wait", "in", "try", "try_cas", "kept"}
    /\ policy = "mcs" =>
         locking[t] \in {"idle", "link", "wait", "in", "swap", "follow", "handover"}
    /\ policy = "adaptive" =>
         locking[t] \in {"idle", "spin", "exhausted", "switch", "mutex", "flagged", "clear",
                         "adapt", "reset", "in", "kept"}

(* The flag of the spinlock is set while a thread is inside. *)
SpinOK ==
  policy = "spin" =>
    /\ \A t \in Lockers : Inside(t) => flag
    /\ \A t, u \in Lockers : Inside(t) /\ Inside(u) => t = u

(* The tickets out are consecutive, in the order in which they were drawn,  *)
(* from the one that is served.  A try_lock() has loaded a ticket that was  *)
(* served then: at least as many have been drawn since as are out now.      *)
TicketHolders == {t \in Lockers : locking[t] \in {"wait", "in", "kept"}}

TicketOK ==
  policy = "ticket" =>
    /\ Lists(arrived, TicketHolders)
    /\ mNextTicket = (mNowServing + Len(arrived)) % Modulus
    /\ \A k \in 1 .. Len(arrived) : mine[arrived[k]] = (mNowServing + (k - 1)) % Modulus
    /\ \A t \in Lockers : Inside(t) => Len(arrived) > 0 /\ arrived[1] = t
    /\ \A t \in Lockers : locking[t] \in {"try", "try_cas"} =>
         \E d \in Len(arrived) .. Modulus - 1 : mNextTicket = (mine[t] + d) % Modulus

(* The nodes form a list from the thread that has the lock to the tail, in  *)
(* which only a thread that has not linked itself yet is missing.           *)
McsHolders == {t \in Lockers : locking[t] # "idle"}

(* The k-th of the queue. *)
McsNode(k) ==
  /\ k = 1 => /\ locking[arrived[k]] # "link"
              /\ locking[arrived[k]] = "wait" => ~ locked[arrived[k]]
  /\ k > 1 => /\ locking[arrived[k]] \in {"link", "wait"} /\ locked[arrived[k]]
              /\ locking[arrived[k]] = "link" => prev[arrived[k]] = arrived[k - 1]
  /\ next[arrived[k]] = IF k < Len(arrived) /\ locking[arrived[k + 1]] # "link"
                        THEN arrived[k + 1] ELSE NoThread
  /\ locking[arrived[k]] = "handover" => next[arrived[k]] # NoThread

McsOK ==
  policy = "mcs" =>
    /\ Lists(arrived, McsHolders)
    /\ mTail = IF Len(arrived) = 0 THEN NoThread ELSE arrived[Len(arrived)]
    /\ \A k \in 1 .. Len(arrived) : McsNode(k)

(* Past its acquisition a thread of the adaptive lock owns the mutex. *)
AdaptOK ==
  policy = "adaptive" =>
    \A t \in Lockers :
      /\ locking[t] \in {"clear", "adapt", "reset", "in", "kept"} => mMutex = t
      /\ locking[t] = "spin" => spins[t] <= SPIN_THRESHOLD

LocksInv == LocksTypeOK /\ PlacesOK /\ SpinOK /\ TicketOK /\ McsOK /\ AdaptOK

-----------------------------------------------------------------------------
(* The steps of each policy. *)
LEMMA PolicySteps ==
  ASSUME LocksNext
  PROVE  /\ policy' = policy
         /\ policy = "spin" => \E t \in Lockers : SpinLock(t) \/ SpinTryLock(t) \/ SpinUnlock(t)
         /\ policy = "ticket" => \E t \in Lockers :
              \/ TicketLock(t) \/ TicketWait(t) \/ TicketUnlock(t)
              \/ TicketTryLock(t) \/ TicketTryCompare(t) \/ TicketTryWins(t) \/ TicketTryFails(t)
         /\ policy = "mcs" => \E t \in Lockers :
              \/ McsLock(t) \/ McsLink(t) \/ McsWait(t) \/ McsUnlock(t)
              \/ McsSwapWins(t) \/ McsSwapFails(t) \/ McsFollow(t) \/ McsHandOver(t)
         /\ policy = "adaptive" => \E t \in Lockers :
              \/ AdaptLock(t) \/ AdaptSpinWins(t) \/ AdaptSpinFails(t) \/ AdaptCount(t)
              \/ AdaptSwitch(t) \/ AdaptMutexLock(t) \/ AdaptFlaggedLock(t) \/ AdaptClear(t)
              \/ AdaptBackOff(t) \/ AdaptReset(t) \/ AdaptUnlock(t) \/ AdaptTryLock(t)
<1> USE DEF Step
<1>1. PICK t \in Lockers : Run(t) \/ Call(t) BY DEF LocksNext
<1>2. CASE SpinLock(t) \/ SpinTryLock(t) \/ SpinUnlock(t)
  BY <1>2 DEF SpinLock, SpinTryLock, SpinUnlock
<1>3. CASE \/ TicketLock(t) \/ TicketWait(t) \/ TicketUnlock(t)
           \/ TicketTryLock(t) \/ TicketTryCompare(t) \/ TicketTryWins(t) \/ TicketTryFails(t)
  BY <1>3 DEF TicketLock, TicketWait, TicketUnlock, TicketTryLock, TicketTryCompare,
              TicketTryWins, TicketTryFails
<1>4. CASE \/ McsLock(t) \/ McsLink(t) \/ McsWait(t) \/ McsUnlock(t)
           \/ McsSwapWins(t) \/ McsSwapFails(t) \/ McsFollow(t) \/ McsHandOver(t)
  BY <1>4 DEF McsLock, McsLink, McsWait, McsUnlock, McsSwapWins, McsSwapFails, McsFollow,
              McsHandOver
<1>5. CASE \/ AdaptLock(t) \/ AdaptSpinWins(t) \/ AdaptSpinFails(t) \/ AdaptCount(t)
           \/ AdaptSwitch(t) \/ AdaptMutexLock(t) \/ AdaptFlaggedLock(t) \/ AdaptClear(t)
           \/ AdaptBackOff(t) \/ AdaptReset(t) \/ AdaptUnlock(t) \/ AdaptTryLock(t)
  BY <1>5 DEF AdaptLock, AdaptSpinWins, AdaptSpinFails, AdaptCount, AdaptSwitch, AdaptMutexLock,
              AdaptFlaggedLock, AdaptClear, AdaptBackOff, AdaptReset, AdaptUnlock, AdaptTryLock
<1> QED BY <1>1, <1>2, <1>3, <1>4, <1>5 DEF Run, Call

(* The spinlock. *)
LEMMA SpinStep ==
  ASSUME LocksInv, LocksNext, policy = "spin"
  PROVE  LocksTypeOK' /\ PlacesOK' /\ SpinOK'
<1> USE DEF LocksInv, LocksTypeOK, LockPlaces, PlacesOK, SpinOK, Inside, Step
<1> USE DEF ticketVars, mcsVars, adaptVars
<1>1. PICK t \in Lockers : SpinLock(t) \/ SpinTryLock(t) \/ SpinUnlock(t) BY PolicySteps
<1>2. CASE SpinLock(t) BY <1>2 DEF SpinLock
<1>3. CASE SpinTryLock(t) BY <1>3 DEF SpinTryLock
<1>4. CASE SpinUnlock(t) BY <1>4 DEF SpinUnlock
<1> QED BY <1>1, <1>2, <1>3, <1>4

(* The adaptive lock. *)
LEMMA AdaptStep ==
  ASSUME LocksInv, LocksNext, policy = "adaptive"
  PROVE  LocksTypeOK' /\ PlacesOK' /\ AdaptOK'
<1> USE Sizes DEF LocksInv, LocksTypeOK, LockPlaces, PlacesOK, AdaptOK, Step
<1> USE DEF ticketVars, mcsVars, adaptVars
<1>1. PICK t \in Lockers :
        \/ AdaptLock(t) \/ AdaptSpinWins(t) \/ AdaptSpinFails(t) \/ AdaptCount(t)
        \/ AdaptSwitch(t) \/ AdaptMutexLock(t) \/ AdaptFlaggedLock(t) \/ AdaptClear(t)
        \/ AdaptBackOff(t) \/ AdaptReset(t) \/ AdaptUnlock(t) \/ AdaptTryLock(t)
  BY PolicySteps
<1>2. CASE AdaptLock(t) BY <1>2 DEF AdaptLock
<1>3. CASE AdaptSpinWins(t) BY <1>3 DEF AdaptSpinWins
<1>4. CASE AdaptSpinFails(t) BY <1>4 DEF AdaptSpinFails
<1>5. CASE AdaptCount(t) BY <1>5 DEF AdaptCount
<1>6. CASE AdaptSwitch(t) BY <1>6 DEF AdaptSwitch
<1>7. CASE AdaptMutexLock(t) BY <1>7 DEF AdaptMutexLock
<1>8. CASE AdaptFlaggedLock(t) BY <1>8 DEF AdaptFlaggedLock
<1>9. CASE AdaptClear(t) BY <1>9 DEF AdaptClear
<1>10. CASE AdaptBackOff(t) BY <1>10 DEF AdaptBackOff
<1>11. CASE AdaptReset(t) BY <1>11 DEF AdaptReset
<1>12. CASE AdaptUnlock(t) BY <1>12 DEF AdaptUnlock
<1>13. CASE AdaptTryLock(t) BY <1>13 DEF AdaptTryLock
<1> QED BY <1>1, <1>2, <1>3, <1>4, <1>5, <1>6, <1>7, <1>8, <1>9, <1>10, <1>11, <1>12, <1>13

(* The ticket lock: drawing a ticket, by lock() or by a try_lock() that     *)
(* wins, puts the thread at the end of the queue.                           *)
LEMMA DrawKeeps ==
  ASSUME LocksInv, policy = "ticket", NEW t \in Lockers, t \notin TicketHolders, TicketDraw(t),
         NEW p \in {"wait", "kept"},
         locking' = [locking EXCEPT ![t] = p],
         mine' = [mine EXCEPT ![t] = mNextTicket],
         mNowServing' = mNowServing,
         p = "kept" => Len(arrived) = 0
  PROVE  TicketOK'
<1> DEFINE M == Modulus  n == Len(arrived)
<1>1. /\ M \in Nat \ {0} /\ mNowServing \in 0 .. M - 1 /\ mNextTicket \in 0 .. M - 1
      /\ \A u \in Lockers : mine[u] \in 0 .. M - 1
      /\ locking \in [Lockers -> LockPlaces] /\ mine \in [Lockers -> 0 .. M - 1]
  BY Sizes DEF LocksInv, LocksTypeOK
<1>2. /\ Lists(arrived, TicketHolders) /\ TicketHolders \in SUBSET Lockers
      /\ mNextTicket = (mNowServing + n) % M
      /\ \A k \in 1 .. n : mine[arrived[k]] = (mNowServing + (k - 1)) % M
      /\ \A u \in Lockers : Inside(u) => n > 0 /\ arrived[1] = u
      /\ \A u \in Lockers : locking[u] \in {"try", "try_cas"} =>
           \E d \in n .. M - 1 : mNextTicket = (mine[u] + d) % M
  BY DEF LocksInv, TicketOK, TicketHolders
<1>3. /\ arrived' = Append(arrived, t) /\ mNextTicket' = (mNextTicket + 1) % M
      /\ \A u \in Lockers : locking[u] \in {"try", "try_cas"} => (mNextTicket + 1) % M # mine[u]
  BY DEF TicketDraw, NotLapped
<1>4. \A u \in Lockers : /\ locking'[u] = IF u = t THEN p ELSE locking[u]
                         /\ mine'[u] = IF u = t THEN mNextTicket ELSE mine[u]
  BY <1>1
<1>5. TicketHolders' = TicketHolders \cup {t} BY <1>4 DEF TicketHolders
<1>6. /\ Lists(arrived', TicketHolders') /\ n \in Nat /\ Len(arrived') = n + 1
      /\ arrived'[n + 1] = t /\ \A k \in 1 .. n : arrived'[k] = arrived[k]
  BY <1>2, <1>3, <1>5, ListsAppend
<1> HIDE DEF M, n
<1>7. mNextTicket' = (mNowServing + (n + 1)) % M
  <2>1. n \in Nat /\ mNowServing \in Nat BY <1>1, <1>6
  <2>2. (((mNowServing + n) % M) + 1) % M = (mNowServing + (n + 1)) % M BY <1>1, <2>1, NextTicket
  <2> QED BY <1>2, <1>3, <2>2 DEF M
<1>8. ASSUME NEW k \in 1 .. n + 1 PROVE mine'[arrived'[k]] = (mNowServing + (k - 1)) % M
  <2>1. CASE k = n + 1
    <3>1. mine'[arrived'[k]] = mNextTicket BY <1>4, <1>6, <2>1
    <3>2. k - 1 = n BY <1>6, <2>1
    <3> QED BY <1>2, <3>1, <3>2
  <2>2. CASE k # n + 1
    <3>1. k \in 1 .. n BY <1>6, <2>2
    <3>2. arrived'[k] = arrived[k] /\ arrived[k] \in TicketHolders
      BY <1>2, <1>6, <3>1 DEF Lists, n
    <3>3. arrived[k] # t /\ arrived[k] \in Lockers BY <3>2 DEF TicketHolders
    <3> QED BY <1>2, <1>4, <3>1, <3>2, <3>3
  <2> QED BY <2>1, <2>2
<1>9. ASSUME NEW u \in Lockers, Inside(u)' PROVE Len(arrived') > 0 /\ arrived'[1] = u
  <2>1. CASE u = t
    <3>1. n = 0 BY <1>4, <1>9, <2>1 DEF Inside, n
    <3> QED BY <1>6, <2>1, <3>1
  <2>2. CASE u # t
    <3>1. n > 0 /\ arrived[1] = u BY <1>2, <1>4, <1>9, <2>2 DEF Inside
    <3>2. 1 \in 1 .. n BY <1>6, <3>1
    <3> QED BY <1>6, <3>1, <3>2
  <2> QED BY <2>1, <2>2
<1>10. ASSUME NEW u \in Lockers, locking'[u] \in {"try", "try_cas"}
       PROVE  \E d \in n + 1 .. M - 1 : mNextTicket' = (mine'[u] + d) % M
  <2>1. u # t /\ locking[u] \in {"try", "try_cas"} /\ mine'[u] = mine[u] BY <1>4, <1>10
  <2>2. PICK d \in n .. M - 1 : mNextTicket = (mine[u] + d) % M BY <1>2, <2>1
  <2>3. d \in Nat /\ mine[u] \in Nat BY <1>1, <1>6, <2>2
  <2>4. mNextTicket' = (mine[u] + (d + 1)) % M BY <1>1, <1>3, <2>2, <2>3, NextTicket
  <2>5. d + 1 # M
    <3> SUFFICES ASSUME d + 1 = M PROVE FALSE OBVIOUS
    <3>1. (mine[u] + M) % M = mine[u] BY <1>1, <2>3, ModPeriod, ModSmall
    <3>2. (mNextTicket + 1) % M = mine[u] BY <1>3, <2>4, <3>1
    <3> QED BY <1>3, <2>1, <3>2
  <2>6. d + 1 \in n + 1 .. M - 1 BY <1>1, <1>6, <2>2, <2>5
  <2> QED BY <2>1, <2>4, <2>6
<1> QED BY <1>6, <1>7, <1>8, <1>9, <1>10 DEF TicketOK, M

LEMMA TicketStep ==
  ASSUME LocksInv, LocksNext, policy = "ticket"
  PROVE  LocksTypeOK' /\ PlacesOK' /\ TicketOK'
<1> DEFINE M == Modulus  n == Len(arrived)
<1>1. PICK t \in Lockers :
        \/ TicketLock(t) \/ TicketWait(t) \/ TicketUnlock(t)
        \/ TicketTryLock(t) \/ TicketTryCompare(t) \/ TicketTryWins(t) \/ TicketTryFails(t)
  BY PolicySteps
<1>2. /\ M \in Nat \ {0} /\ mNowServing \in 0 .. M - 1 /\ mNextTicket \in 0 .. M - 1
      /\ \A u \in Lockers : mine[u] \in 0 .. M - 1
      /\ locking \in [Lockers -> LockPlaces] /\ mine \in [Lockers -> 0 .. M - 1]
  BY Sizes DEF LocksInv, LocksTypeOK
<1>3. /\ Lists(arrived, TicketHolders) /\ TicketHolders \in SUBSET Lockers
      /\ mNextTicket = (mNowServing + n) % M
      /\ \A k \in 1 .. n : mine[arrived[k]] = (mNowServing + (k - 1)) % M
      /\ \A u \in Lockers : Inside(u) => n > 0 /\ arrived[1] = u
      /\ \A u \in Lockers : locking[u] \in {"try", "try_cas"} =>
           \E d \in n .. M - 1 : mNextTicket = (mine[u] + d) % M
  BY DEF LocksInv, TicketOK, TicketHolders
<1>4. n \in Nat /\ n < M BY <1>3, ListsBound
<1>5. (mNextTicket + 1) % M \in 0 .. M - 1 /\ (mNowServing + 1) % M \in 0 .. M - 1
  BY <1>2, DivMod, mNextTicket + 1 \in Nat, mNowServing + 1 \in Nat
<1>6. arrived \in Seq(Lockers) /\ Append(arrived, t) \in Seq(Lockers)
  BY <1>3, AppendProperties DEF Lists
<1> USE DEF LocksInv, LocksTypeOK, LockPlaces, PlacesOK, Step, ticketVars, mcsVars, adaptVars
<1>7. CASE TicketLock(t)
  <2>1. LocksTypeOK' /\ PlacesOK' BY <1>2, <1>5, <1>6, <1>7 DEF TicketLock, TicketDraw
  <2>2. t \notin TicketHolders BY <1>7 DEF TicketLock, TicketHolders
  <2>3. TicketOK' BY <1>7, <2>2, DrawKeeps DEF TicketLock
  <2> QED BY <2>1, <2>3
<1>8. CASE TicketWait(t)
  <2>1. LocksTypeOK' /\ PlacesOK' BY <1>8 DEF TicketWait
  <2>2. /\ locking[t] = "wait" /\ mNowServing = mine[t]
        /\ \A u \in Lockers : locking'[u] = IF u = t THEN "in" ELSE locking[u]
        /\ UNCHANGED <<mNextTicket, mNowServing, mine, arrived>>
    BY <1>2, <1>8 DEF TicketWait
  <2>3. PICK k \in 1 .. n : arrived[k] = t BY <1>3, <2>2 DEF TicketHolders, Lists
  <2>4. (mNowServing + (k - 1)) % M = mNowServing BY <1>3, <2>2, <2>3
  <2>5. k - 1 \in 0 .. M - 1 BY <1>2, <1>4, <2>3
  <2>6. k = 1
    <3>1. k - 1 = 0 BY <1>2, <2>4, <2>5, SameTicket
    <3> QED BY <2>3, <3>1
  <2>7. TicketHolders' = TicketHolders BY <2>2 DEF TicketHolders
  <2>8. \A u \in Lockers : Inside(u)' => n > 0 /\ arrived[1] = u
    BY <1>3, <1>4, <2>2, <2>3, <2>6 DEF Inside
  <2> HIDE DEF M, n
  <2>9. \A u \in Lockers : locking'[u] \in {"try", "try_cas"} =>
          \E d \in n .. M - 1 : mNextTicket' = (mine'[u] + d) % M
    <3> SUFFICES ASSUME NEW u \in Lockers, locking'[u] \in {"try", "try_cas"}
                 PROVE  \E d \in n .. M - 1 : mNextTicket' = (mine'[u] + d) % M
      OBVIOUS
    <3>1. locking[u] \in {"try", "try_cas"} BY <2>2
    <3>2. PICK d \in n .. M - 1 : mNextTicket = (mine[u] + d) % M BY <1>3, <3>1
    <3> QED BY <2>2, <3>2
  <2>10. TicketOK' BY <1>3, <2>2, <2>7, <2>8, <2>9 DEF TicketOK, M, n
  <2> QED BY <2>1, <2>10
<1>9. CASE TicketUnlock(t)
  <2>1. /\ locking[t] = "in" /\ mNowServing' = (mNowServing + 1) % M
        /\ \A u \in Lockers : locking'[u] = IF u = t THEN "idle" ELSE locking[u]
        /\ UNCHANGED <<mNextTicket, mine>> /\ arrived' = Tail(arrived)
    BY <1>2, <1>9 DEF TicketUnlock
  <2>2. n > 0 /\ arrived[1] = t BY <1>3, <2>1 DEF Inside
  <2>3. TicketHolders' = TicketHolders \ {t} BY <2>1 DEF TicketHolders
  <2>4. /\ Lists(arrived', TicketHolders') /\ Len(arrived') = n - 1
        /\ \A k \in 1 .. n - 1 : arrived'[k] = arrived[k + 1]
    BY <1>3, <2>1, <2>2, <2>3, ListsTail
  <2>5. LocksTypeOK' /\ PlacesOK' BY <1>5, <1>9, <2>4 DEF TicketUnlock, Lists
  <2>6. mNextTicket' = (mNowServing' + (n - 1)) % M
    <3>1. n - 1 \in Nat /\ (n - 1) + 1 = n /\ mNowServing \in Nat BY <1>2, <1>4, <2>2
    <3>2. (((mNowServing + 1) % M) + (n - 1)) % M = (mNowServing + ((n - 1) + 1)) % M
      BY <1>2, <3>1, NextTicket
    <3> QED BY <1>3, <2>1, <3>1, <3>2
  <2>7. ASSUME NEW k \in 1 .. n - 1 PROVE mine'[arrived'[k]] = (mNowServing' + (k - 1)) % M
    <3>1. k - 1 \in Nat /\ (k - 1) + 1 = k /\ mNowServing \in Nat /\ k + 1 \in 1 .. n
          /\ (k + 1) - 1 = k
      BY <1>2, <1>4
    <3>2. (((mNowServing + 1) % M) + (k - 1)) % M = (mNowServing + ((k - 1) + 1)) % M
      BY <1>2, <3>1, NextTicket
    <3>3. mine[arrived[k + 1]] = (mNowServing + ((k + 1) - 1)) % M BY <1>3, <3>1
    <3>4. mine'[arrived'[k]] = mine[arrived[k + 1]] BY <2>1, <2>4
    <3> QED BY <2>1, <3>1, <3>2, <3>3, <3>4
  <2>8. \A u \in Lockers : ~ Inside(u)' BY <1>3, <2>1, <2>2 DEF Inside
  <2>9. ASSUME NEW u \in Lockers, locking'[u] \in {"try", "try_cas"}
        PROVE  \E d \in n - 1 .. M - 1 : mNextTicket' = (mine'[u] + d) % M
    <3>1. locking[u] \in {"try", "try_cas"} BY <2>1, <2>9
    <3>2. PICK d \in n .. M - 1 : mNextTicket = (mine[u] + d) % M BY <1>3, <3>1
    <3>3. d \in n - 1 .. M - 1 BY <1>4, <3>2
    <3> QED BY <2>1, <3>2, <3>3
  <2> HIDE DEF M, n
  <2>10. TicketOK' BY <2>4, <2>6, <2>7, <2>8, <2>9 DEF TicketOK, M
  <2> QED BY <2>5, <2>10
<1>10. CASE TicketTryLock(t)
  <2>1. LocksTypeOK' /\ PlacesOK' BY <1>2, <1>10 DEF TicketTryLock
  <2>2. /\ locking[t] = "idle"
        /\ \A u \in Lockers : /\ locking'[u] = IF u = t THEN "try" ELSE locking[u]
                              /\ mine'[u] = IF u = t THEN mNowServing ELSE mine[u]
        /\ UNCHANGED <<mNextTicket, mNowServing, arrived>>
    BY <1>2, <1>10 DEF TicketTryLock
  <2>3. TicketHolders' = TicketHolders BY <2>2 DEF TicketHolders
  <2>4. \A k \in 1 .. n : mine'[arrived[k]] = mine[arrived[k]]
    <3> TAKE k \in 1 .. n
    <3>1. arrived[k] \in TicketHolders BY <1>3 DEF Lists
    <3>2. arrived[k] \in Lockers /\ arrived[k] # t BY <2>2, <3>1 DEF TicketHolders
    <3> QED BY <2>2, <3>2
  <2>5. \A u \in Lockers : Inside(u)' <=> Inside(u) BY <2>2 DEF Inside
  <2>6. ASSUME NEW u \in Lockers, locking'[u] \in {"try", "try_cas"}
        PROVE  \E d \in n .. M - 1 : mNextTicket' = (mine'[u] + d) % M
    <3>1. CASE u = t
      <4>1. n \in n .. M - 1 BY <1>2, <1>4
      <4>2. mNextTicket' = (mine'[u] + n) % M BY <1>3, <2>2, <3>1
      <4> QED BY <4>1, <4>2
    <3>2. CASE u # t
      <4>1. locking[u] \in {"try", "try_cas"} /\ mine'[u] = mine[u] BY <2>2, <2>6, <3>2
      <4>2. PICK d \in n .. M - 1 : mNextTicket = (mine[u] + d) % M BY <1>3, <4>1
      <4> QED BY <2>2, <4>1, <4>2
    <3> QED BY <3>1, <3>2
  <2> HIDE DEF M, n
  <2>7. TicketOK' BY <1>3, <2>2, <2>3, <2>4, <2>5, <2>6 DEF TicketOK, M, n
  <2> QED BY <2>1, <2>7
<1>11. CASE TicketTryCompare(t)
  <2>1. LocksTypeOK' /\ PlacesOK' BY <1>11 DEF TicketTryCompare
  <2>2. /\ locking[t] = "try" /\ locking'[t] \in {"try_cas", "idle"}
        /\ \A u \in Lockers : u # t => locking'[u] = locking[u]
        /\ UNCHANGED <<mNextTicket, mNowServing, mine, arrived>>
    BY <1>2, <1>11 DEF TicketTryCompare
  <2>3. TicketHolders' = TicketHolders BY <2>2 DEF TicketHolders
  <2>4. \A u \in Lockers : /\ Inside(u)' <=> Inside(u)
                           /\ locking'[u] \in {"try", "try_cas"} => locking[u] \in {"try", "try_cas"}
    BY <2>2 DEF Inside
  <2> HIDE DEF M, n
  <2>5. \A u \in Lockers : locking'[u] \in {"try", "try_cas"} =>
          \E d \in n .. M - 1 : mNextTicket' = (mine'[u] + d) % M
    <3> SUFFICES ASSUME NEW u \in Lockers, locking'[u] \in {"try", "try_cas"}
                 PROVE  \E d \in n .. M - 1 : mNextTicket' = (mine'[u] + d) % M
      OBVIOUS
    <3>1. locking[u] \in {"try", "try_cas"} BY <2>4
    <3>2. PICK d \in n .. M - 1 : mNextTicket = (mine[u] + d) % M BY <1>3, <3>1
    <3> QED BY <2>2, <3>2
  <2>6. TicketOK' BY <1>3, <2>2, <2>3, <2>4, <2>5 DEF TicketOK, M, n
  <2> QED BY <2>1, <2>6
<1>12. CASE TicketTryWins(t)
  <2>1. LocksTypeOK' /\ PlacesOK' BY <1>2, <1>5, <1>6, <1>12 DEF TicketTryWins, TicketDraw
  <2>2. locking[t] = "try_cas" /\ mNextTicket = mine[t] BY <1>12 DEF TicketTryWins
  <2>3. t \notin TicketHolders BY <2>2 DEF TicketHolders
  <2>4. PICK d \in n .. M - 1 : mNextTicket = (mine[t] + d) % M BY <1>3, <2>2
  <2>5. n = 0
    <3>1. d \in 0 .. M - 1 BY <1>4, <2>4
    <3>2. d = 0 BY <1>2, <2>2, <2>4, <3>1, SameTicket
    <3> QED BY <1>4, <2>4, <3>2
  <2>6. mine' = [mine EXCEPT ![t] = mNextTicket] BY <1>2, <1>12, <2>2 DEF TicketTryWins
  <2>7. TicketOK' BY <1>12, <2>3, <2>5, <2>6, DrawKeeps DEF TicketTryWins
  <2> QED BY <2>1, <2>7
<1>13. CASE TicketTryFails(t)
  <2>1. LocksTypeOK' /\ PlacesOK' BY <1>13 DEF TicketTryFails
  <2>2. /\ locking[t] = "try_cas"
        /\ \A u \in Lockers : locking'[u] = IF u = t THEN "idle" ELSE locking[u]
        /\ UNCHANGED <<mNextTicket, mNowServing, mine, arrived>>
    BY <1>2, <1>13 DEF TicketTryFails
  <2>3. TicketHolders' = TicketHolders BY <2>2 DEF TicketHolders
  <2>4. \A u \in Lockers : /\ Inside(u)' => Inside(u)
                           /\ locking'[u] \in {"try", "try_cas"} => locking[u] \in {"try", "try_cas"}
    BY <2>2 DEF Inside
  <2> HIDE DEF M, n
  <2>5. \A u \in Lockers : locking'[u] \in {"try", "try_cas"} =>
          \E d \in n .. M - 1 : mNextTicket' = (mine'[u] + d) % M
    <3> SUFFICES ASSUME NEW u \in Lockers, locking'[u] \in {"try", "try_cas"}
                 PROVE  \E d \in n .. M - 1 : mNextTicket' = (mine'[u] + d) % M
      OBVIOUS
    <3>1. locking[u] \in {"try", "try_cas"} BY <2>4
    <3>2. PICK d \in n .. M - 1 : mNextTicket = (mine[u] + d) % M BY <1>3, <3>1
    <3> QED BY <2>2, <3>2
  <2>6. TicketOK' BY <1>3, <2>2, <2>3, <2>4, <2>5 DEF TicketOK, M, n
  <2> QED BY <2>1, <2>6
<1> QED BY <1>1, <1>7, <1>8, <1>9, <1>10, <1>11, <1>12, <1>13

-----------------------------------------------------------------------------
(* The MCS lock. *)
McsFacts ==
  /\ locking \in [Lockers -> LockPlaces] /\ locked \in [Lockers -> BOOLEAN]
  /\ next \in [Lockers -> Lockers \cup {NoThread}]
  /\ prev \in [Lockers -> Lockers \cup {NoThread}]
  /\ Len(arrived) \in Nat /\ McsHolders \in SUBSET Lockers
  /\ Lists(arrived, McsHolders)
  /\ mTail = IF Len(arrived) = 0 THEN NoThread ELSE arrived[Len(arrived)]
  /\ \A k \in 1 .. Len(arrived) :
       arrived[k] \in Lockers /\ locking[arrived[k]] # "idle" /\ McsNode(k)
  /\ \A j, k \in 1 .. Len(arrived) : arrived[j] = arrived[k] => j = k
  /\ \A t \in Lockers : locking[t] # "idle" => \E k \in 1 .. Len(arrived) : arrived[k] = t

LEMMA McsFactsHold ==
  ASSUME LocksInv, policy = "mcs"
  PROVE  McsFacts
<1>1. /\ locking \in [Lockers -> LockPlaces] /\ locked \in [Lockers -> BOOLEAN]
      /\ next \in [Lockers -> Lockers \cup {NoThread}]
      /\ prev \in [Lockers -> Lockers \cup {NoThread}]
  BY DEF LocksInv, LocksTypeOK
<1>2. /\ Lists(arrived, McsHolders) /\ McsHolders \in SUBSET Lockers
      /\ mTail = IF Len(arrived) = 0 THEN NoThread ELSE arrived[Len(arrived)]
      /\ \A k \in 1 .. Len(arrived) : McsNode(k)
  BY DEF LocksInv, McsOK, McsHolders
<1>3. Len(arrived) \in Nat BY <1>2, LenProperties DEF Lists
<1>4. \A k \in 1 .. Len(arrived) : arrived[k] \in Lockers /\ locking[arrived[k]] # "idle"
  BY <1>2 DEF Lists, McsHolders
<1>5. \A t \in Lockers : locking[t] # "idle" => \E k \in 1 .. Len(arrived) : arrived[k] = t
  BY <1>2 DEF Lists, McsHolders
<1>6. \A j, k \in 1 .. Len(arrived) : arrived[j] = arrived[k] => j = k BY <1>2 DEF Lists
<1> QED BY <1>1, <1>2, <1>3, <1>4, <1>5, <1>6 DEF McsFacts

(* A thread that is neither new nor waiting to be released is the first.    *)
LEMMA McsFirst ==
  ASSUME McsFacts, NEW t \in Lockers, locking[t] \notin {"idle", "link"},
         locking[t] = "wait" => ~ locked[t]
  PROVE  Len(arrived) > 0 /\ arrived[1] = t
<1>1. PICK k \in 1 .. Len(arrived) : arrived[k] = t BY DEF McsFacts
<1>2. McsNode(k) BY DEF McsFacts
<1>3. k = 1 BY <1>1, <1>2 DEF McsNode
<1> QED BY <1>1, <1>3 DEF McsFacts

(* The first thread moves on and leaves the queue alone. *)
LEMMA McsMoves ==
  ASSUME McsFacts, NEW t \in Lockers, Len(arrived) > 0, arrived[1] = t, locking[t] # "link",
         NEW p \in {"in", "swap", "follow", "handover"},
         locking' = [locking EXCEPT ![t] = p], UNCHANGED <<mcsVars, arrived>>,
         p = "handover" => next[t] # NoThread
  PROVE  McsOK'
<1>1. /\ \A u \in Lockers : locking'[u] = IF u = t THEN p ELSE locking[u]
      /\ UNCHANGED <<mTail, next, locked, prev, arrived>>
  BY DEF McsFacts, mcsVars
<1>2. locking[t] # "idle" BY 1 \in 1 .. Len(arrived) DEF McsFacts
<1>3. McsHolders' = McsHolders BY <1>1, <1>2 DEF McsHolders
<1>4. ASSUME NEW k \in 1 .. Len(arrived) PROVE McsNode(k)'
  <2>1. /\ McsNode(k) /\ arrived[k] \in Lockers /\ Len(arrived) \in Nat
        /\ k # 1 => arrived[k] # t
    BY 1 \in 1 .. Len(arrived) DEF McsFacts
  <2>2. k < Len(arrived) =>
          arrived[k + 1] \in Lockers /\ (locking'[arrived[k + 1]] = "link"
                                           <=> locking[arrived[k + 1]] = "link")
    <3> SUFFICES ASSUME k < Len(arrived)
                 PROVE  arrived[k + 1] \in Lockers /\ (locking'[arrived[k + 1]] = "link"
                                           <=> locking[arrived[k + 1]] = "link")
      OBVIOUS
    <3>1. k + 1 \in 1 .. Len(arrived) BY <2>1
    <3>2. arrived[k + 1] \in Lockers BY <3>1 DEF McsFacts
    <3> QED BY <1>1, <3>2
  <2>3. CASE k = 1 BY <1>1, <2>1, <2>2, <2>3 DEF McsNode
  <2>4. CASE k # 1 BY <1>1, <2>1, <2>2, <2>4 DEF McsNode
  <2> QED BY <2>3, <2>4
<1> QED BY <1>1, <1>3, <1>4 DEF McsFacts, McsOK

(* A thread takes its place behind the tail. *)
LEMMA McsLockKeeps ==
  ASSUME McsFacts, NEW t \in Lockers, McsLock(t)
  PROVE  McsOK'
<1> DEFINE n == Len(arrived)
<1>0. /\ n \in Nat /\ McsHolders \in SUBSET Lockers /\ Lists(arrived, McsHolders)
      /\ mTail = IF n = 0 THEN NoThread ELSE arrived[n]
      /\ \A k \in 1 .. n : arrived[k] \in Lockers /\ locking[arrived[k]] # "idle" /\ McsNode(k)
  BY DEF McsFacts
<1>1. locking[t] = "idle" BY DEF McsLock, Step
<1>2. n > 0 => mTail # NoThread
  <2> SUFFICES ASSUME n > 0 PROVE mTail # NoThread OBVIOUS
  <2>1. arrived[n] \in Lockers /\ mTail = arrived[n] BY <1>0
  <2> QED BY <2>1, Sizes
<1>3. \A u \in Lockers :
        /\ locking'[u] = IF u = t THEN IF n = 0 THEN "in" ELSE "link" ELSE locking[u]
        /\ next'[u] = IF u = t THEN NoThread ELSE next[u]
        /\ locked'[u] = IF u = t THEN TRUE ELSE locked[u]
        /\ prev'[u] = IF u = t THEN mTail ELSE prev[u]
  BY <1>0, <1>2 DEF McsLock, Step, McsFacts
<1>4. arrived' = Append(arrived, t) /\ mTail' = t BY DEF McsLock
<1>5. t \notin McsHolders /\ McsHolders' = McsHolders \cup {t} BY <1>1, <1>3 DEF McsHolders
<1>6. /\ Lists(arrived', McsHolders') /\ Len(arrived') = n + 1
      /\ arrived'[n + 1] = t /\ \A k \in 1 .. n : arrived'[k] = arrived[k]
  BY <1>0, <1>4, <1>5, ListsAppend
<1> HIDE DEF n
<1>7. ASSUME NEW k \in 1 .. n + 1 PROVE McsNode(k)'
  <2>1. CASE k = n + 1
    <3>0. arrived'[k] = t /\ Len(arrived') = k BY <1>6, <2>1
    <3>a. /\ next'[t] = NoThread /\ locked'[t] = TRUE /\ prev'[t] = mTail
          /\ locking'[t] = IF n = 0 THEN "in" ELSE "link"
      BY <1>3
    <3>1. next'[arrived'[k]] = NoThread /\ ~(k < Len(arrived'))
      <4>1. k \in Nat BY <1>0, <2>1
      <4>2. ~(k < k) BY <4>1
      <4> QED BY <3>0, <3>a, <4>2
    <3>2. CASE n = 0
      <4>1. k = 1 /\ locking'[arrived'[k]] = "in" BY <2>1, <3>0, <3>2, <3>a
      <4> QED BY <3>1, <4>1 DEF McsNode
    <3>3. CASE n # 0
      <4>1. k > 1 BY <1>0, <2>1, <3>3
      <4>2. locking'[arrived'[k]] = "link" /\ locked'[arrived'[k]] BY <3>0, <3>3, <3>a
      <4>3. k - 1 = n /\ n \in 1 .. n BY <1>0, <2>1, <3>3
      <4>4. arrived'[k - 1] = arrived[n] BY <1>6, <4>3
      <4>5. prev'[arrived'[k]] = arrived[n] BY <1>0, <3>0, <3>3, <3>a
      <4> QED BY <3>1, <4>1, <4>2, <4>4, <4>5 DEF McsNode
    <3> QED BY <3>2, <3>3
  <2>2. CASE k # n + 1
    <3>1. k \in 1 .. n BY <1>0, <2>2
    <3>2. arrived'[k] = arrived[k] /\ arrived[k] \in Lockers /\ arrived[k] # t /\ McsNode(k)
      BY <1>0, <1>1, <1>6, <3>1
    <3>3. /\ locking'[arrived'[k]] = locking[arrived[k]]
          /\ next'[arrived'[k]] = next[arrived[k]]
          /\ locked'[arrived'[k]] = locked[arrived[k]]
          /\ prev'[arrived'[k]] = prev[arrived[k]]
      BY <1>3, <3>2
    <3>4. k > 1 => arrived'[k - 1] = arrived[k - 1]
      <4> SUFFICES ASSUME k > 1 PROVE arrived'[k - 1] = arrived[k - 1] OBVIOUS
      <4>1. k - 1 \in 1 .. n BY <1>0, <3>1
      <4> QED BY <1>6, <4>1
    <3>5. (k < Len(arrived') /\ locking'[arrived'[k + 1]] # "link")
            <=> (k < n /\ locking[arrived[k + 1]] # "link")
      <4>1. CASE k = n
        <5>1. arrived'[k + 1] = t /\ n # 0 BY <1>6, <3>1, <4>1
        <5>2. locking'[arrived'[k + 1]] = "link" BY <1>3, <5>1
        <5> QED BY <1>0, <4>1, <5>2
      <4>2. CASE k # n
        <5>1. k + 1 \in 1 .. n /\ k < n /\ k < n + 1 BY <1>0, <3>1, <4>2
        <5>2. arrived'[k + 1] = arrived[k + 1] /\ arrived[k + 1] \in Lockers
              /\ arrived[k + 1] # t
          BY <1>0, <1>1, <1>6, <5>1
        <5> QED BY <1>3, <1>6, <5>1, <5>2
      <4> QED BY <4>1, <4>2
    <3>6. k < n => arrived'[k + 1] = arrived[k + 1]
      <4> SUFFICES ASSUME k < n PROVE arrived'[k + 1] = arrived[k + 1] OBVIOUS
      <4>1. k + 1 \in 1 .. n BY <1>0, <3>1
      <4> QED BY <1>6, <4>1
    <3> QED BY <3>1, <3>2, <3>3, <3>4, <3>5, <3>6 DEF McsNode, n
  <2> QED BY <2>1, <2>2
<1>8. mTail' = IF Len(arrived') = 0 THEN NoThread ELSE arrived'[Len(arrived')]
  BY <1>0, <1>4, <1>6
<1> QED BY <1>6, <1>7, <1>8 DEF McsOK

(* A thread links itself behind the one it found at the tail. *)
LEMMA McsLinkKeeps ==
  ASSUME McsFacts, NEW t \in Lockers, McsLink(t)
  PROVE  McsOK'
<1> DEFINE n == Len(arrived)
<1>0. /\ n \in Nat /\ Lists(arrived, McsHolders)
      /\ \A k \in 1 .. n : arrived[k] \in Lockers /\ locking[arrived[k]] # "idle" /\ McsNode(k)
      /\ \A j, k \in 1 .. n : arrived[j] = arrived[k] => j = k
  BY DEF McsFacts
<1>1. locking[t] = "link" BY DEF McsLink, Step
<1>2. PICK i \in 1 .. n : arrived[i] = t BY <1>1 DEF McsFacts
<1>3. i > 1 /\ prev[t] = arrived[i - 1] /\ locked[t] BY <1>0, <1>1, <1>2 DEF McsNode
<1>4. i - 1 \in 1 .. n /\ (i - 1) + 1 = i /\ i - 1 < n BY <1>0, <1>2, <1>3
<1> HIDE DEF n
<1>5. \A u \in Lockers :
        /\ locking'[u] = IF u = t THEN "wait" ELSE locking[u]
        /\ next'[u] = IF u = arrived[i - 1] THEN t ELSE next[u]
  BY <1>3 DEF McsLink, Step, McsFacts
<1>6. UNCHANGED <<mTail, locked, prev, arrived>> BY DEF McsLink
<1>7. McsHolders' = McsHolders BY <1>1, <1>5 DEF McsHolders
<1>8. ASSUME NEW k \in 1 .. n PROVE McsNode(k)'
  <2>1. /\ McsNode(k) /\ arrived[k] \in Lockers /\ n = Len(arrived)
        /\ k # i => arrived[k] # t
        /\ k # i - 1 => arrived[k] # arrived[i - 1]
    BY <1>0, <1>2, <1>4 DEF n
  <2>2. k < n /\ k # i - 1 =>
          arrived[k + 1] \in Lockers /\ (locking'[arrived[k + 1]] = "link"
                                           <=> locking[arrived[k + 1]] = "link")
    <3> SUFFICES ASSUME k < n, k # i - 1
                 PROVE  arrived[k + 1] \in Lockers /\ (locking'[arrived[k + 1]] = "link"
                                           <=> locking[arrived[k + 1]] = "link")
      OBVIOUS
    <3>1. k + 1 \in 1 .. n /\ k + 1 # i BY <1>0, <1>4
    <3>2. arrived[k + 1] \in Lockers /\ arrived[k + 1] # t BY <1>0, <1>2, <3>1
    <3> QED BY <1>5, <3>2
  <2>3. CASE k = i - 1
    <3>1. next'[arrived[k]] = t /\ arrived[k + 1] = t /\ k < n
      BY <1>2, <1>4, <1>5, <2>1, <2>3
    <3>2. locking'[arrived[k + 1]] = "wait" BY <1>5, <3>1
    <3>3. k # i /\ locking'[arrived[k]] = locking[arrived[k]] BY <1>4, <1>5, <2>1, <2>3
    <3>4. t # NoThread BY Sizes
    <3> QED BY <1>6, <2>1, <3>1, <3>2, <3>3, <3>4 DEF McsNode
  <2>4. CASE k = i
    <3>1. k # i - 1 BY <1>4, <2>4
    <3>2. /\ k > 1 /\ locking'[arrived[k]] = "wait" /\ locked[arrived[k]]
          /\ next'[arrived[k]] = next[arrived[k]]
      BY <1>2, <1>3, <1>5, <2>1, <2>4, <3>1
    <3> QED BY <1>6, <2>1, <2>2, <3>1, <3>2 DEF McsNode
  <2>5. CASE k # i /\ k # i - 1
    <3>1. locking'[arrived[k]] = locking[arrived[k]] /\ next'[arrived[k]] = next[arrived[k]]
      BY <1>5, <2>1, <2>5
    <3> QED BY <1>6, <2>1, <2>2, <2>5, <3>1 DEF McsNode
  <2> QED BY <2>3, <2>4, <2>5
<1> QED BY <1>0, <1>6, <1>7, <1>8 DEF McsOK, McsFacts, n

(* The first thread leaves: the lock is free, or the second one's. *)
LEMMA McsLeaveKeeps ==
  ASSUME McsFacts, NEW t \in Lockers, McsSwapWins(t) \/ McsHandOver(t)
  PROVE  McsOK' /\ arrived' \in Seq(Lockers) /\ locked' \in [Lockers -> BOOLEAN]
<1> DEFINE n == Len(arrived)
<1>0. /\ n \in Nat /\ McsHolders \in SUBSET Lockers /\ Lists(arrived, McsHolders)
      /\ mTail = IF n = 0 THEN NoThread ELSE arrived[n]
      /\ \A k \in 1 .. n : arrived[k] \in Lockers /\ locking[arrived[k]] # "idle" /\ McsNode(k)
      /\ \A j, k \in 1 .. n : arrived[j] = arrived[k] => j = k
  BY DEF McsFacts
<1>1. /\ locking[t] \in {"swap", "handover"} /\ arrived' = Tail(arrived)
      /\ locking' = [locking EXCEPT ![t] = "idle"] /\ UNCHANGED <<next, prev>>
  BY DEF McsSwapWins, McsHandOver, Step
<1>2. \A u \in Lockers : locking'[u] = IF u = t THEN "idle" ELSE locking[u]
  BY <1>1 DEF McsFacts
<1>3. n > 0 /\ arrived[1] = t BY <1>1, McsFirst
<1>4. McsHolders' = McsHolders \ {t} BY <1>2 DEF McsHolders
<1>5. /\ Lists(arrived', McsHolders') /\ Len(arrived') = n - 1
      /\ \A k \in 1 .. n - 1 : arrived'[k] = arrived[k + 1]
  BY <1>0, <1>1, <1>3, <1>4, ListsTail
<1>6. arrived' \in Seq(Lockers) BY <1>5 DEF Lists
<1> HIDE DEF n
<1>7. CASE McsSwapWins(t)
  <2>1. mTail = t /\ mTail' = NoThread /\ locked' = locked BY <1>7 DEF McsSwapWins
  <2>2. n = 1
    <3>1. n \in 1 .. n /\ 1 \in 1 .. n /\ arrived[n] = t BY <1>0, <1>3, <2>1
    <3> QED BY <1>0, <1>3, <3>1
  <2>3. Len(arrived') = 0 BY <1>5, <2>2
  <2>4. locked' \in [Lockers -> BOOLEAN] BY <2>1 DEF McsFacts
  <2>5. \A k \in 1 .. Len(arrived') : McsNode(k)'
    <3>1. 1 .. Len(arrived') = {} BY <2>3
    <3> QED BY <3>1
  <2>6. McsOK' BY <1>5, <2>1, <2>3, <2>5 DEF McsOK
  <2> QED BY <1>6, <2>4, <2>6
<1>8. CASE McsHandOver(t)
  <2>1. /\ locking[t] = "handover" /\ mTail' = mTail
        /\ locked' = [locked EXCEPT ![next[t]] = FALSE]
    BY <1>8 DEF McsHandOver, Step
  <2>2. McsNode(1) /\ 1 \in 1 .. n BY <1>0, <1>3
  <2>3. next[t] # NoThread BY <1>3, <2>1, <2>2 DEF McsNode
  <2>4. n > 1 /\ locking[arrived[2]] # "link" /\ next[t] = arrived[2]
    BY <1>3, <2>2, <2>3 DEF McsNode, n
  <2>5. 2 \in 1 .. n BY <1>0, <2>4
  <2>6. arrived[2] \in Lockers /\ locking[arrived[2]] = "wait" BY <1>0, <2>4, <2>5 DEF McsNode
  <2>7. locked' \in [Lockers -> BOOLEAN]
        /\ \A u \in Lockers : locked'[u] = IF u = arrived[2] THEN FALSE ELSE locked[u]
    BY <2>1, <2>4, <2>6 DEF McsFacts
  <2>8. mTail' = IF Len(arrived') = 0 THEN NoThread ELSE arrived'[Len(arrived')]
    <3>1. Len(arrived') = n - 1 /\ n - 1 \in 1 .. n - 1 /\ (n - 1) + 1 = n BY <1>0, <1>5, <2>4
    <3>2. arrived'[n - 1] = arrived[n] BY <1>5, <3>1
    <3> QED BY <1>0, <2>1, <2>4, <3>1, <3>2
  <2>9. ASSUME NEW k \in 1 .. n - 1 PROVE McsNode(k)'
    <3>1. /\ k + 1 \in 1 .. n /\ k + 1 > 1 /\ (k + 1) - 1 = k /\ 1 \in 1 .. n
          /\ k + 1 # 1 /\ k \in 1 .. n
      BY <1>0, <2>4
    <3> DEFINE u == arrived[k + 1]
    <3>2. u \in Lockers /\ u # t /\ McsNode(k + 1) /\ arrived'[k] = u
      BY <1>0, <1>3, <1>5, <3>1
    <3> HIDE DEF u
    <3>3. locking'[u] = locking[u] /\ next'[u] = next[u] /\ prev'[u] = prev[u]
      BY <1>1, <1>2, <3>2
    <3>4. /\ locking[u] \in {"link", "wait"} /\ locked[u]
          /\ locking[u] = "link" => prev[u] = arrived[k]
          /\ next[u] = IF k + 1 < n /\ locking[arrived[k + 1 + 1]] # "link"
                       THEN arrived[k + 1 + 1] ELSE NoThread
      BY <3>1, <3>2 DEF McsNode, u, n
    <3>5. next'[u] = IF k < Len(arrived') /\ locking'[arrived'[k + 1]] # "link"
                     THEN arrived'[k + 1] ELSE NoThread
      <4>1. CASE k < n - 1
        <5>1. k + 1 \in 1 .. n - 1 /\ k + 1 + 1 \in 1 .. n /\ k + 1 + 1 # 1 /\ k + 1 < n
          BY <1>0, <3>1, <4>1
        <5>2. arrived'[k + 1] = arrived[k + 1 + 1] /\ arrived[k + 1 + 1] \in Lockers
              /\ arrived[k + 1 + 1] # t
          BY <1>0, <1>3, <1>5, <3>1, <5>1
        <5>3. locking'[arrived'[k + 1]] = locking[arrived[k + 1 + 1]] BY <1>2, <5>2
        <5> QED BY <1>5, <3>3, <3>4, <4>1, <5>1, <5>2, <5>3
      <4>2. CASE ~(k < n - 1)
        <5>1. ~(k + 1 < n) /\ ~(k < Len(arrived')) BY <1>0, <1>5, <3>1, <4>2
        <5> QED BY <3>3, <3>4, <5>1
      <4> QED BY <4>1, <4>2
    <3>6. CASE k = 1
      <4>1. u = arrived[2] BY <3>6 DEF u
      <4>2. locking'[u] = "wait" /\ ~ locked'[u] BY <2>6, <2>7, <3>3, <4>1
      <4> QED BY <3>2, <3>5, <3>6, <4>2 DEF McsNode
    <3>7. CASE k # 1
      <4>1. k > 1 /\ k + 1 # 2 /\ k - 1 \in 1 .. n - 1 /\ (k - 1) + 1 = k BY <1>0, <3>1, <3>7
      <4>2. u # arrived[2] BY <1>0, <2>5, <3>1, <4>1 DEF u
      <4>3. locked'[u] BY <2>7, <3>2, <3>4, <4>2
      <4>4. arrived'[k - 1] = arrived[k] BY <1>5, <4>1
      <4> QED BY <3>2, <3>3, <3>4, <3>5, <4>1, <4>3, <4>4 DEF McsNode
    <3> QED BY <3>6, <3>7
  <2> QED BY <1>5, <1>6, <2>7, <2>8, <2>9 DEF McsOK
<1> QED BY <1>7, <1>8

LEMMA McsStep ==
  ASSUME LocksInv, LocksNext, policy = "mcs"
  PROVE  LocksTypeOK' /\ PlacesOK' /\ McsOK'
<1>1. PICK t \in Lockers :
        \/ McsLock(t) \/ McsLink(t) \/ McsWait(t) \/ McsUnlock(t)
        \/ McsSwapWins(t) \/ McsSwapFails(t) \/ McsFollow(t) \/ McsHandOver(t)
  BY PolicySteps
<1>2. McsFacts BY McsFactsHold
<1>3. LocksTypeOK /\ PlacesOK BY DEF LocksInv
<1> USE DEF LocksTypeOK, LockPlaces, PlacesOK, Step, ticketVars, mcsVars, adaptVars
<1>4. CASE McsLock(t)
  <2>1. McsOK' BY <1>2, <1>4, McsLockKeeps
  <2>2. Append(arrived, t) \in Seq(Lockers) BY <1>3, AppendProperties
  <2>3. LocksTypeOK' /\ PlacesOK' BY <1>3, <1>4, <2>2 DEF McsLock
  <2> QED BY <2>1, <2>3
<1>5. CASE McsLink(t)
  <2>1. McsOK' BY <1>2, <1>5, McsLinkKeeps
  <2>2. LocksTypeOK' /\ PlacesOK' BY <1>3, <1>5 DEF McsLink
  <2> QED BY <2>1, <2>2
<1>6. CASE McsWait(t)
  <2>1. LocksTypeOK' /\ PlacesOK' BY <1>3, <1>6 DEF McsWait
  <2>2. Len(arrived) > 0 /\ arrived[1] = t BY <1>2, <1>6, McsFirst DEF McsWait
  <2>3. McsOK' BY <1>2, <1>6, <2>2, McsMoves DEF McsWait
  <2> QED BY <2>1, <2>3
<1>7. CASE McsUnlock(t)
  <2>1. LocksTypeOK' /\ PlacesOK' BY <1>3, <1>7 DEF McsUnlock
  <2>2. Len(arrived) > 0 /\ arrived[1] = t BY <1>2, <1>7, McsFirst DEF McsUnlock
  <2>3. locking[t] = "in" /\ UNCHANGED <<mcsVars, arrived>> BY <1>7 DEF McsUnlock
  <2>4. CASE next[t] = NoThread
    <3>1. locking' = [locking EXCEPT ![t] = "swap"] BY <1>7, <2>4 DEF McsUnlock
    <3>2. McsOK' BY <1>2, <2>2, <2>3, <3>1, McsMoves
    <3> QED BY <2>1, <3>2
  <2>5. CASE next[t] # NoThread
    <3>1. locking' = [locking EXCEPT ![t] = "handover"] BY <1>7, <2>5 DEF McsUnlock
    <3>2. McsOK' BY <1>2, <2>2, <2>3, <2>5, <3>1, McsMoves
    <3> QED BY <2>1, <3>2
  <2> QED BY <2>4, <2>5
<1>8. CASE McsSwapFails(t)
  <2>1. LocksTypeOK' /\ PlacesOK' BY <1>3, <1>8 DEF McsSwapFails
  <2>2. Len(arrived) > 0 /\ arrived[1] = t BY <1>2, <1>8, McsFirst DEF McsSwapFails
  <2>3. McsOK' BY <1>2, <1>8, <2>2, McsMoves DEF McsSwapFails
  <2> QED BY <2>1, <2>3
<1>9. CASE McsFollow(t)
  <2>1. LocksTypeOK' /\ PlacesOK' BY <1>3, <1>9 DEF McsFollow
  <2>2. Len(arrived) > 0 /\ arrived[1] = t BY <1>2, <1>9, McsFirst DEF McsFollow
  <2>3. McsOK' BY <1>2, <1>9, <2>2, McsMoves DEF McsFollow
  <2> QED BY <2>1, <2>3
<1>10. CASE McsSwapWins(t)
  <2>1. McsOK' /\ arrived' \in Seq(Lockers) BY <1>2, <1>10, McsLeaveKeeps
  <2>2. LocksTypeOK' /\ PlacesOK' BY <1>3, <1>10, <2>1 DEF McsSwapWins
  <2> QED BY <2>1, <2>2
<1>11. CASE McsHandOver(t)
  <2>1. McsOK' /\ arrived' \in Seq(Lockers) /\ locked' \in [Lockers -> BOOLEAN]
    BY <1>2, <1>11, McsLeaveKeeps
  <2>2. LocksTypeOK' /\ PlacesOK' BY <1>3, <1>11, <2>1 DEF McsHandOver
  <2> QED BY <2>1, <2>2
<1> QED BY <1>1, <1>4, <1>5, <1>6, <1>7, <1>8, <1>9, <1>10, <1>11

-----------------------------------------------------------------------------
LEMMA LocksInitInv ==
  ASSUME LocksInit
  PROVE  LocksInv
<1> USE DEF LocksInit
<1>1. LocksTypeOK
  <2>1. 0 \in 0 .. Modulus - 1 /\ 0 \in 0 .. SPIN_THRESHOLD + 1 BY Sizes
  <2>2. << >> \in Seq(Lockers) BY EmptySeq
  <2> QED BY <2>1, <2>2 DEF LocksTypeOK, LockPlaces
<1>2. PlacesOK /\ SpinOK /\ AdaptOK BY DEF PlacesOK, SpinOK, AdaptOK, Inside
<1>3. TicketHolders = {} /\ McsHolders = {} BY DEF TicketHolders, McsHolders
<1>4. Len(arrived) = 0 /\ 1 .. Len(arrived) = {} BY EmptySeq
<1>5. (mNowServing + Len(arrived)) % Modulus = mNextTicket
  <2>1. 0 % Modulus = 0 BY Sizes, 0 \in 0 .. Modulus - 1, ModSmall
  <2> QED BY <1>4, <2>1
<1>6. TicketOK BY <1>3, <1>4, <1>5, ListsNone DEF TicketOK, Inside
<1>7. McsOK BY <1>3, <1>4, ListsNone DEF McsOK
<1> QED BY <1>1, <1>2, <1>6, <1>7 DEF LocksInv

LEMMA LocksStepInv ==
  ASSUME LocksInv, [LocksNext]_locksVars
  PROVE  LocksInv'
<1>1. CASE LocksNext
  <2>1. policy' = policy BY <1>1, PolicySteps
  <2>2. policy \in {"spin", "ticket", "mcs", "adaptive"}
    BY PoliciesAssumption DEF LocksInv, LocksTypeOK
  <2>3. CASE policy = "spin"
    <3>1. LocksTypeOK' /\ PlacesOK' /\ SpinOK' BY <1>1, <2>3, SpinStep
    <3>2. TicketOK' /\ McsOK' /\ AdaptOK' BY <2>1, <2>3 DEF TicketOK, McsOK, AdaptOK
    <3> QED BY <3>1, <3>2 DEF LocksInv
  <2>4. CASE policy = "ticket"
    <3>1. LocksTypeOK' /\ PlacesOK' /\ TicketOK' BY <1>1, <2>4, TicketStep
    <3>2. SpinOK' /\ McsOK' /\ AdaptOK' BY <2>1, <2>4 DEF SpinOK, McsOK, AdaptOK
    <3> QED BY <3>1, <3>2 DEF LocksInv
  <2>5. CASE policy = "mcs"
    <3>1. LocksTypeOK' /\ PlacesOK' /\ McsOK' BY <1>1, <2>5, McsStep
    <3>2. SpinOK' /\ TicketOK' /\ AdaptOK' BY <2>1, <2>5 DEF SpinOK, TicketOK, AdaptOK
    <3> QED BY <3>1, <3>2 DEF LocksInv
  <2>6. CASE policy = "adaptive"
    <3>1. LocksTypeOK' /\ PlacesOK' /\ AdaptOK' BY <1>1, <2>6, AdaptStep
    <3>2. SpinOK' /\ TicketOK' /\ McsOK' BY <2>1, <2>6 DEF SpinOK, TicketOK, McsOK
    <3> QED BY <3>1, <3>2 DEF LocksInv
  <2> QED BY <2>2, <2>3, <2>4, <2>5, <2>6
<1>2. CASE UNCHANGED locksVars
  <2>1. UNCHANGED <<policy, locking, flag, mNextTicket, mNowServing, mine, mTail, next, locked,
                    prev, mMutex, mContentionCounter, mUseMutex, spins, arrived>>
    BY <1>2 DEF locksVars, ticketVars, mcsVars, adaptVars
  <2>2. LocksTypeOK' /\ PlacesOK' /\ SpinOK' /\ AdaptOK'
    BY <2>1 DEF LocksInv, LocksTypeOK, PlacesOK, SpinOK, AdaptOK, Inside
  <2>3. TicketOK' BY <2>1 DEF LocksInv, TicketOK, TicketHolders, Inside
  <2>4. McsOK' BY <2>1 DEF LocksInv, McsOK, McsHolders, McsNode
  <2> QED BY <2>2, <2>3, <2>4 DEF LocksInv
<1> QED BY <1>1, <1>2

(* What the invariant says of a lock that is in use. *)
LEMMA LocksInvSafe ==
  ASSUME LocksInv
  PROVE  LocksAreSafe
<1>1. policy \in {"spin", "ticket", "mcs", "adaptive"}
  BY PoliciesAssumption DEF LocksInv, LocksTypeOK
<1>2. policy = "mcs" => McsFacts BY McsFactsHold
<1>3. policy \in {"ticket", "mcs"} =>
        \A t \in Lockers : Inside(t) => Len(arrived) > 0 /\ arrived[1] = t
  <2>1. CASE policy = "ticket" BY <2>1 DEF LocksInv, TicketOK
  <2>2. CASE policy = "mcs"
    <3> SUFFICES ASSUME NEW t \in Lockers, Inside(t)
                 PROVE  Len(arrived) > 0 /\ arrived[1] = t
      OBVIOUS
    <3>1. locking[t] \notin {"idle", "link", "wait"} BY DEF Inside
    <3> QED BY <1>2, <2>2, <3>1, McsFirst
  <2> QED BY <2>1, <2>2
<1>4. MutualExclusion
  <2>1. CASE policy = "spin" BY <2>1 DEF LocksInv, SpinOK, MutualExclusion
  <2>2. CASE policy = "adaptive"
    <3> SUFFICES ASSUME NEW t \in Lockers, NEW u \in Lockers, Inside(t), Inside(u) PROVE t = u
      BY DEF MutualExclusion
    <3>1. mMutex = t /\ mMutex = u BY <2>2 DEF LocksInv, AdaptOK, Inside
    <3> QED BY <3>1
  <2>3. CASE policy \in {"ticket", "mcs"} BY <1>3, <2>3 DEF MutualExclusion
  <2> QED BY <1>1, <2>1, <2>2, <2>3
<1>5. FifoOrder
  <2> SUFFICES ASSUME policy \in {"ticket", "mcs"}, NEW t \in Lockers, Inside(t)
               PROVE  arrived # << >> /\ Head(arrived) = t
    BY DEF FifoOrder
  <2>1. Len(arrived) > 0 /\ arrived[1] = t BY <1>3
  <2>2. arrived \in Seq(Lockers) BY DEF LocksInv, LocksTypeOK
  <2>3. Len(arrived) # 0 BY <2>1
  <2>4. arrived # << >> BY <2>2, <2>3, EmptySeq
  <2>5. Head(arrived) = arrived[1] BY <2>2, <2>4
  <2> QED BY <2>1, <2>4, <2>5
<1>6. ASSUME NEW t \in Lockers, locking[t] \in {"link", "handover"} PROVE policy = "mcs"
  BY <1>1, <1>6 DEF LocksInv, PlacesOK
<1>7. ASSUME NEW t \in Lockers, locking[t] = "link"
      PROVE  locking[prev[t]] # "idle" /\ next[prev[t]] = NoThread
  <2>1. McsFacts BY <1>2, <1>6, <1>7
  <2>2. PICK k \in 1 .. Len(arrived) : arrived[k] = t BY <1>7, <2>1 DEF McsFacts
  <2>3. McsNode(k) /\ Len(arrived) \in Nat BY <2>1 DEF McsFacts
  <2>4. k > 1 /\ prev[t] = arrived[k - 1] BY <1>7, <2>2, <2>3 DEF McsNode
  <2>5. k - 1 \in 1 .. Len(arrived) /\ (k - 1) + 1 = k BY <2>3, <2>4
  <2>6. McsNode(k - 1) /\ locking[arrived[k - 1]] # "idle" BY <2>1, <2>5 DEF McsFacts
  <2>7. next[arrived[k - 1]] = NoThread BY <1>7, <2>2, <2>5, <2>6 DEF McsNode
  <2> QED BY <2>4, <2>6, <2>7
<1>8. ASSUME NEW t \in Lockers, locking[t] = "handover"
      PROVE  locking[next[t]] = "wait" /\ locked[next[t]]
  <2>1. McsFacts BY <1>2, <1>6, <1>8
  <2>2. Len(arrived) > 0 /\ arrived[1] = t BY <1>8, <2>1, McsFirst
  <2>3. Len(arrived) \in Nat /\ 1 \in 1 .. Len(arrived) BY <2>1, <2>2 DEF McsFacts
  <2>4. McsNode(1) BY <2>1, <2>3 DEF McsFacts
  <2>5. /\ 1 < Len(arrived) /\ locking[arrived[2]] # "link"
        /\ next[t] = arrived[2]
    BY <1>8, <2>2, <2>4 DEF McsNode
  <2>6. 2 \in 1 .. Len(arrived) BY <2>3, <2>5
  <2>7. McsNode(2) BY <2>1, <2>6 DEF McsFacts
  <2>8. locking[arrived[2]] = "wait" /\ locked[arrived[2]] BY <2>5, <2>7 DEF McsNode
  <2> QED BY <2>5, <2>8
<1>9. NodesOutliveTheirUse BY <1>7, <1>8 DEF NodesOutliveTheirUse
<1> QED BY <1>4, <1>5, <1>9 DEF LocksAreSafe

-----------------------------------------------------------------------------
(* Every variable of the four locks keeps its type: tickets stay below the  *)
(* wrap and a spinning thread stops one past SPIN_THRESHOLD.                *)
THEOREM LocksTypesHold == LocksSpec => []LocksTypeOK
<1>1. LocksInv => LocksTypeOK BY DEF LocksInv
<1> QED BY <1>1, LocksInitInv, LocksStepInv, PTL DEF LocksSpec

(* The spinlock, the ticket lock, the MCS lock and the adaptive lock admit  *)
(* one thread at a time; the ticket and the MCS lock admit them in the      *)
(* order in which they came; and no guard of the MCS lock touches the node  *)
(* of a guard that has ended.  For any number of threads below Modulus.     *)
THEOREM LocksStaySafe == LocksSpec => []LocksAreSafe
<1> QED BY LocksInitInv, LocksStepInv, LocksInvSafe, PTL DEF LocksSpec

-----------------------------------------------------------------------------
(* The hazard pointers.                                                     *)

Limit == Len(records) * HP_PER_THREAD

-----------------------------------------------------------------------------
(* The arithmetic of a scan: the position of a hazard pointer among those of *)
(* n records.                                                               *)
LEMMA PositionBounds ==
  ASSUME NEW H \in Nat \ {0}, NEW n \in Nat, NEW c \in Nat, c < n * H
  PROVE  c \div H \in 0 .. n - 1 /\ c % H \in 0 .. H - 1
<1> DEFINE q == c \div H  r == c % H
<1>1. q \in Nat /\ r \in 0 .. H - 1 /\ c = H * q + r BY DivMod
<1> HIDE DEF q, r
<1>2. q < n
  <2> SUFFICES ASSUME q >= n PROVE FALSE BY <1>1
  <2>1. H * q >= H * n BY <1>1, Z3
  <2>2. H * n = n * H BY Z3
  <2> QED BY <1>1, <2>1, <2>2, n * H \in Nat
<1> QED BY <1>1, <1>2 DEF q, r

LEMMA PositionIs ==
  ASSUME NEW H \in Nat \ {0}, NEW n \in Nat, NEW k \in 0 .. n - 1, NEW i \in 0 .. H - 1
  PROVE  /\ k * H + i \in 0 .. n * H - 1
         /\ (k * H + i) \div H = k /\ (k * H + i) % H = i
<1> DEFINE c == k * H + i  q == c \div H  r == c % H
<1>0. k * H \in Nat /\ n * H \in Nat /\ k * H = H * k BY Z3
<1>1. c \in Nat BY <1>0
<1>2. q \in Nat /\ r \in 0 .. H - 1 /\ c = H * q + r BY <1>1, DivMod
<1>3. c < n * H
  <2>1. (k + 1) * H <= n * H BY Z3
  <2>2. (k + 1) * H = k * H + H BY Z3
  <2> QED BY <1>0, <2>1, <2>2
<1> HIDE DEF q, r
<1>4. H * (q - k) = i - r
  <2>1. H * q + r = H * k + i BY <1>0, <1>2
  <2>2. H * (q - k) = H * q - H * k BY <1>2, Z3
  <2> QED BY <1>2, <2>1, <2>2, H * q \in Nat, H * k \in Nat
<1>5. q - k = 0
  <2>1. CASE q - k >= 1
    <3>1. H * (q - k) >= H BY <1>2, <2>1, Z3
    <3> QED BY <1>2, <1>4, <3>1
  <2>2. CASE q - k <= -1
    <3>1. H * (q - k) <= -H BY <1>2, <2>2, Z3
    <3> QED BY <1>2, <1>4, <3>1
  <2> QED BY <1>2, <2>1, <2>2
<1>6. q = k /\ r = i
  <2>1. q = k BY <1>2, <1>5
  <2>2. H * (q - k) = 0 BY <1>5, <1>2, Z3
  <2> QED BY <1>2, <1>4, <2>1, <2>2
<1>7. c \in 0 .. n * H - 1 BY <1>0, <1>1, <1>3
<1>8. c \div H = k /\ c % H = i BY <1>6 DEF q, r
<1> HIDE DEF c
<1> QED BY <1>7, <1>8 DEF c

LEMMA MoreRecords ==
  ASSUME NEW H \in Nat, NEW m \in Nat, NEW n \in Nat, m <= n
  PROVE  m * H \in Nat /\ m * H <= n * H
BY Z3

(* A set of nodes that is not empty has a first one. *)
LEMMA MinIsIn ==
  ASSUME NEW S \in SUBSET Nat, S # {}
  PROVE  Min(S) \in S
<1> DEFINE R == OpToRel(<, Nat)
<1>1. IsWellFoundedOn(R, Nat) BY NatLessThanWellFounded
<1>2. PICK x \in S : \A y \in S : <<y, x>> \notin R BY ONLY <1>1, WFMin, S \subseteq Nat, S # {}
<1>3. \A y \in S : x <= y
  <2> TAKE y \in S
  <2>1. ~ (y < x) BY <1>2 DEF OpToRel
  <2> QED BY <2>1
<1> QED BY <1>3 DEF Min

(* The node Unlink() links has never been linked. *)
LEMMA NewNodeIsNew ==
  NewNode \in Pointer /\ (NewNode # Null => NewNode \in Nodes \ Used)
<1>1. CASE Nodes \subseteq Used BY <1>1 DEF NewNode, Pointer
<1>2. CASE ~(Nodes \subseteq Used)
  <2>1. Min(Nodes \ Used) \in Nodes \ Used BY <1>2, NodesAssumption, MinIsIn
  <2> QED BY <1>2, <2>1 DEF NewNode, Pointer
<1> QED BY <1>1, <1>2

-----------------------------------------------------------------------------
(* The inductive invariant. *)

(* The records are those of the threads that have registered, once each;    *)
(* the active ones are those of the threads that have not exited.           *)
Registered == {t \in Users : place[t] # "new"}

RecordsOK ==
  /\ active = {t \in Users : place[t] \notin {"new", "exited"}}
  /\ \A t \in Users : place[t] # "new" => \E k \in 1 .. Len(records) : records[k] = t
  /\ Len(records) = Cardinality(Registered)

(* A node is in one place only: linked, in the hands of the thread that has *)
(* unlinked it, retired, or deleted.                                        *)
LinkOK ==
  /\ src \notin deleted
  /\ \A t \in Users :
       /\ src \notin retired_list[t]
       /\ place[t] = "retire" => ptr[t] \in Nodes /\ ptr[t] # src

(* What a guard has returned is in its hazard pointer, in an active record. *)
GuardsOK ==
  \A t \in Users :
    /\ \A i \in Index : mProtectedPtr[t][i] # Null =>
         mProtectedPtr[t][i] = hp[t][i] /\ t \in active
    /\ place[t] \in {"load", "publish", "verify"} => mProtectedPtr[t][index[t]] = Null
    /\ place[t] = "verify" => hp[t][index[t]] = ptr[t]

(* The scan of u has not loaded yet the i-th hazard pointer of t. *)
Ahead(u, t, i) ==
  \E c \in cursor[u] .. Limit - 1 :
    records[c \div HP_PER_THREAD + 1] = t /\ c % HP_PER_THREAD = i

(* A scan that runs holds the mutex, so the list of records stays as it is. *)
(* A retired node that a guard has returned has been seen by the scan, or   *)
(* the scan has its hazard pointer still to load.                           *)
ScansOK ==
  \A u \in Users :
    /\ place[u] = "scanning" => global_mutex = {u}
    /\ place[u] \notin {"scanning", "sweep"} => cursor[u] = 0 /\ protected[u] = {}
    /\ cursor[u] <= Limit
    /\ place[u] = "sweep" =>
         \A t \in Users, i \in Index : mProtectedPtr[t][i] \in retired_list[u] =>
           mProtectedPtr[t][i] \in protected[u]
    /\ place[u] = "scanning" =>
         \A t \in Users, i \in Index : mProtectedPtr[t][i] \in retired_list[u] =>
           mProtectedPtr[t][i] \in protected[u] \/ Ahead(u, t, i)

(* What a scan protects is bounded by what it has loaded. *)
GarbageOK ==
  \A u \in Users :
    /\ IsFiniteSet(retired_list[u]) /\ IsFiniteSet(protected[u])
    /\ Cardinality(protected[u]) <= cursor[u]
    /\ place[u] \notin {"retire", "scan", "scanning", "sweep"} =>
         \/ Cardinality(retired_list[u]) < RETIRED_THRESHOLD
         \/ Cardinality(retired_list[u]) <= Cardinality(Users) * HP_PER_THREAD

HazardInv ==
  /\ HazardTypeOK /\ RecordsOK /\ LinkOK /\ GuardsOK /\ ScansOK /\ GarbageOK
  /\ ProtectedIsAlive

-----------------------------------------------------------------------------
LEMMA Bounds ==
  /\ HP_PER_THREAD \in Nat \ {0} /\ RETIRED_THRESHOLD \in Nat \ {0}
  /\ IsFiniteSet(Users) /\ Nodes \subseteq Nat /\ Nodes # {} /\ Null \notin Nodes
  /\ 0 \in Index /\ Nodes \subseteq Pointer /\ Null \in Pointer
BY NodesAssumption, SizesAssumption DEF Index, Pointer

(* The hazard pointer a scan loads next exists. *)
LEMMA ScanTarget ==
  ASSUME HazardTypeOK, NEW t \in Users, cursor[t] < Len(records) * HP_PER_THREAD
  PROVE  /\ cursor[t] \div HP_PER_THREAD + 1 \in 1 .. Len(records)
         /\ records[cursor[t] \div HP_PER_THREAD + 1] \in Users
         /\ cursor[t] % HP_PER_THREAD \in Index
<1>1. cursor[t] \in Nat /\ records \in Seq(Users) /\ Len(records) \in Nat BY DEF HazardTypeOK
<1>2. /\ cursor[t] \div HP_PER_THREAD \in 0 .. Len(records) - 1
      /\ cursor[t] % HP_PER_THREAD \in 0 .. HP_PER_THREAD - 1
  BY <1>1, Bounds, PositionBounds
<1>3. cursor[t] \div HP_PER_THREAD + 1 \in 1 .. Len(records) BY <1>1, <1>2
<1> QED BY <1>1, <1>2, <1>3, ElementOfSeq DEF Index

(* Every step keeps the types. *)
LEMMA TypeStep ==
  ASSUME HazardInv, HazardNext
  PROVE  HazardTypeOK'
<1> USE Bounds
<1> USE DEF HazardTypeOK
<1>0. HazardTypeOK /\ LinkOK BY DEF HazardInv
<1>1. CASE \E t \in Users : Register(t)
  BY <1>0, <1>1 DEF Register, Move, guardVars, scanVars
<1>2. CASE \E t \in Users : ThreadExit(t)
  BY <1>0, <1>2 DEF ThreadExit, Move, guardVars, scanVars
<1>3. CASE \E t \in Users, i \in Index : Protect(t, i)
  BY <1>0, <1>3 DEF Protect, Move, guardVars, scanVars
<1>4. CASE \E t \in Users, i \in Index : Release(t, i)
  BY <1>0, <1>4 DEF Release, Move, guardVars, scanVars
<1>5. CASE \E t \in Users : ProtectLoad(t)
  BY <1>0, <1>5 DEF ProtectLoad, Move, guardVars, scanVars
<1>6. CASE \E t \in Users : ProtectPublish(t)
  BY <1>0, <1>6 DEF ProtectPublish, Move, guardVars, scanVars
<1>7. CASE \E t \in Users : ProtectVerified(t)
  BY <1>0, <1>7 DEF ProtectVerified, Move, guardVars, scanVars
<1>8. CASE \E t \in Users : ProtectAgain(t)
  BY <1>0, <1>8 DEF ProtectAgain, Move, guardVars, scanVars
<1>9. CASE \E t \in Users, n \in Pointer : Unlink(t, n)
  BY <1>0, <1>9 DEF Unlink, Move, guardVars, scanVars
<1>10. ASSUME NEW t \in Users, Retire(t) PROVE HazardTypeOK'
  <2>1. place[t] = "retire" /\ ptr[t] \in Nodes BY <1>0, <1>10 DEF Retire, Move, LinkOK
  <2>2. retired_list[t] \cup {ptr[t]} \in SUBSET Nodes BY <1>0, <2>1
  <2>3. retired_list' = [retired_list EXCEPT ![t] = retired_list[t] \cup {ptr[t]}]
    BY <1>10 DEF Retire
  <2>4. retired_list' \in [Users -> SUBSET Nodes] BY <1>0, <2>2, <2>3
  <2>5. place' \in [Users -> {"new", "idle", "exited", "load", "publish", "verify", "retire",
                              "scan", "scanning", "sweep"}]
    BY <1>0, <1>10 DEF Retire, Move
  <2> QED BY <1>0, <1>10, <2>4, <2>5 DEF Retire, guardVars, scanVars
<1>11. CASE \E t \in Users : ForceReclaim(t)
  BY <1>0, <1>11 DEF ForceReclaim, Move, guardVars, scanVars
<1>12. CASE \E t \in Users : ScanLock(t)
  BY <1>0, <1>12 DEF ScanLock, Move, guardVars, scanVars
<1>13. ASSUME NEW t \in Users, ScanLoad(t) PROVE HazardTypeOK'
  <2> DEFINE o == records[cursor[t] \div HP_PER_THREAD + 1]
  <2>1. o \in Users /\ cursor[t] % HP_PER_THREAD \in Index
    BY <1>0, <1>13, ScanTarget DEF ScanLoad
  <2>2. hp[o][cursor[t] % HP_PER_THREAD] \in Pointer BY <1>0, <2>1
  <2>3. Hazard(t) \in Pointer BY <2>2 DEF Hazard
  <2> DEFINE seen == IF o \in active THEN protected[t] \cup ({Hazard(t)} \ {Null})
                     ELSE protected[t]
  <2>4. protected' = [protected EXCEPT ![t] = seen] BY <1>13 DEF ScanLoad
  <2>5. seen \in SUBSET Nodes
    <3>1. protected[t] \in SUBSET Nodes BY <1>0
    <3>2. {Hazard(t)} \ {Null} \in SUBSET Nodes BY <2>3 DEF Pointer
    <3> QED BY <3>1, <3>2
  <2> HIDE DEF seen
  <2>6. protected' \in [Users -> SUBSET Nodes] BY <1>0, <2>4, <2>5
  <2> QED BY <1>0, <1>13, <2>6 DEF ScanLoad, guardVars, scanVars
<1>14. CASE \E t \in Users : ScanUnlock(t)
  BY <1>0, <1>14 DEF ScanUnlock, Move, guardVars, scanVars
<1>15. ASSUME NEW t \in Users, Sweep(t) PROVE HazardTypeOK'
  <2>1. retired_list' \in [Users -> SUBSET Nodes] /\ deleted' \subseteq Nodes
    BY <1>0, <1>15 DEF Sweep
  <2>2. protected' \in [Users -> SUBSET Nodes] /\ cursor' \in [Users -> Nat]
    BY <1>0, <1>15 DEF Sweep
  <2> QED BY <1>0, <1>15, <2>1, <2>2 DEF Sweep, Move, guardVars
<1> QED BY <1>1, <1>2, <1>3, <1>4, <1>5, <1>6, <1>7, <1>8, <1>9, <1>10, <1>11, <1>12, <1>13,
          <1>14, <1>15 DEF HazardNext

(* A node is linked once, and retired by the thread that has unlinked it. *)
LEMMA LinkStep ==
  ASSUME HazardInv, HazardNext
  PROVE  LinkOK'
<1> USE Bounds
<1> USE DEF LinkOK, HazardTypeOK
<1>0. HazardTypeOK /\ LinkOK BY DEF HazardInv
<1>1. CASE \E t \in Users : Register(t)
  BY <1>0, <1>1 DEF Register, Move, guardVars, scanVars
<1>2. CASE \E t \in Users : ThreadExit(t)
  BY <1>0, <1>2 DEF ThreadExit, Move, guardVars, scanVars
<1>3. CASE \E t \in Users, i \in Index : Protect(t, i)
  BY <1>0, <1>3 DEF Protect, Move, guardVars, scanVars
<1>4. CASE \E t \in Users, i \in Index : Release(t, i)
  BY <1>0, <1>4 DEF Release, Move, guardVars, scanVars
<1>5. CASE \E t \in Users : ProtectLoad(t)
  BY <1>0, <1>5 DEF ProtectLoad, Move, guardVars, scanVars
<1>6. CASE \E t \in Users : ProtectPublish(t)
  BY <1>0, <1>6 DEF ProtectPublish, Move, guardVars, scanVars
<1>7. CASE \E t \in Users : ProtectVerified(t)
  BY <1>0, <1>7 DEF ProtectVerified, Move, guardVars, scanVars
<1>8. CASE \E t \in Users : ProtectAgain(t)
  BY <1>0, <1>8 DEF ProtectAgain, Move, guardVars, scanVars
<1>9. ASSUME NEW t \in Users, NEW n \in Pointer, Unlink(t, n) PROVE LinkOK'
  <2>1. n = Null \/ n \in Nodes \ Used BY <1>9, NewNodeIsNew DEF Unlink
  <2>2. n # Null => /\ n \notin deleted /\ n # src
                    /\ \A u \in Users : n \notin retired_list[u] /\ n # ptr[u]
    <3> SUFFICES ASSUME n # Null
                 PROVE  /\ n \notin deleted /\ n # src
                        /\ \A u \in Users : n \notin retired_list[u] /\ n # ptr[u]
      OBVIOUS
    <3>1. n \notin Used BY <2>1
    <3>2. n \notin UNION {retired_list[u] \cup {ptr[u]} : u \in Users} BY <3>1 DEF Used
    <3>3. ASSUME NEW u \in Users PROVE n \notin retired_list[u] \cup {ptr[u]} BY <3>2
    <3>4. \A u \in Users : n \notin retired_list[u] /\ n # ptr[u] BY <3>3
    <3> QED BY <3>1, <3>4 DEF Used
  <2>3. src \in Nodes /\ n # src BY <1>0, <1>9, <2>2 DEF Unlink, Pointer
  <2> QED BY <1>0, <1>9, <2>2, <2>3 DEF Unlink, Move, HazardTypeOK
<1>10. CASE \E t \in Users : Retire(t)
  BY <1>0, <1>10 DEF Retire, Move, guardVars, scanVars
<1>11. CASE \E t \in Users : ForceReclaim(t)
  BY <1>0, <1>11 DEF ForceReclaim, Move, guardVars, scanVars
<1>12. CASE \E t \in Users : ScanLock(t)
  BY <1>0, <1>12 DEF ScanLock, Move, guardVars, scanVars
<1>13. CASE \E t \in Users : ScanLoad(t)
  BY <1>0, <1>13 DEF ScanLoad, Move, guardVars, scanVars
<1>14. CASE \E t \in Users : ScanUnlock(t)
  BY <1>0, <1>14 DEF ScanUnlock, Move, guardVars, scanVars
<1>15. ASSUME NEW t \in Users, Sweep(t) PROVE LinkOK'
  <2>1. src \notin deleted' /\ \A u \in Users : src \notin retired_list'[u]
    BY <1>0, <1>15 DEF Sweep, HazardTypeOK
  <2> QED BY <1>0, <1>15, <2>1 DEF Sweep, Move, guardVars, HazardTypeOK
<1> QED BY <1>1, <1>2, <1>3, <1>4, <1>5, <1>6, <1>7, <1>8, <1>9, <1>10, <1>11, <1>12, <1>13,
          <1>14, <1>15 DEF HazardNext

(* A guard keeps its hazard pointer until it is released or used again. *)
LEMMA GuardsStep ==
  ASSUME HazardInv, HazardNext
  PROVE  GuardsOK'
<1> USE Bounds
<1> USE DEF GuardsOK, HazardTypeOK, RecordsOK, NoHazard
<1>0. HazardTypeOK /\ GuardsOK /\ RecordsOK BY DEF HazardInv
<1>1. CASE \E t \in Users : Register(t)
  BY <1>0, <1>1 DEF Register, Move, guardVars, scanVars
<1>2. CASE \E t \in Users : ThreadExit(t)
  BY <1>0, <1>2 DEF ThreadExit, Move, guardVars, scanVars
<1>3. CASE \E t \in Users, i \in Index : Protect(t, i)
  BY <1>0, <1>3 DEF Protect, Move, guardVars, scanVars
<1>4. CASE \E t \in Users, i \in Index : Release(t, i)
  BY <1>0, <1>4 DEF Release, Move, guardVars, scanVars
<1>5. CASE \E t \in Users : ProtectLoad(t)
  BY <1>0, <1>5 DEF ProtectLoad, Move, guardVars, scanVars
<1>6. CASE \E t \in Users : ProtectPublish(t)
  BY <1>0, <1>6 DEF ProtectPublish, Move, guardVars, scanVars
<1>7. CASE \E t \in Users : ProtectVerified(t)
  BY <1>0, <1>7 DEF ProtectVerified, Move, guardVars, scanVars
<1>8. CASE \E t \in Users : ProtectAgain(t)
  BY <1>0, <1>8 DEF ProtectAgain, Move, guardVars, scanVars
<1>9. CASE \E t \in Users, n \in Pointer : Unlink(t, n)
  BY <1>0, <1>9 DEF Unlink, Move, guardVars, scanVars
<1>10. CASE \E t \in Users : Retire(t)
  BY <1>0, <1>10 DEF Retire, Move, guardVars, scanVars
<1>11. CASE \E t \in Users : ForceReclaim(t)
  BY <1>0, <1>11 DEF ForceReclaim, Move, guardVars, scanVars
<1>12. CASE \E t \in Users : ScanLock(t)
  BY <1>0, <1>12 DEF ScanLock, Move, guardVars, scanVars
<1>13. CASE \E t \in Users : ScanLoad(t)
  BY <1>0, <1>13 DEF ScanLoad, Move, guardVars, scanVars
<1>14. CASE \E t \in Users : ScanUnlock(t)
  BY <1>0, <1>14 DEF ScanUnlock, Move, guardVars, scanVars
<1>15. CASE \E t \in Users : Sweep(t)
  BY <1>0, <1>15 DEF Sweep, Move, guardVars, scanVars
<1> QED BY <1>1, <1>2, <1>3, <1>4, <1>5, <1>6, <1>7, <1>8, <1>9, <1>10, <1>11, <1>12, <1>13,
          <1>14, <1>15 DEF HazardNext

(* A thread gets one record, when it registers. *)
LEMMA RecordsStep ==
  ASSUME HazardInv, HazardNext
  PROVE  RecordsOK'
<1> USE Bounds
<1> USE DEF RecordsOK, HazardTypeOK
<1>0. HazardTypeOK /\ RecordsOK BY DEF HazardInv
<1>1. ASSUME NEW t \in Users, Register(t) PROVE RecordsOK'
  <2>1. Registered' = Registered \cup {t} /\ t \notin Registered
    BY <1>0, <1>1 DEF Register, Move, Registered
  <2>2. IsFiniteSet(Registered) BY FS_Subset DEF Registered
  <2>3. Cardinality(Registered') = Cardinality(Registered) + 1 BY <2>1, <2>2, FS_AddElement
  <2>4. /\ <<t>> \in Seq(Users) /\ Len(<<t>>) = 1 /\ <<t>>[1] = t
        /\ records \in Seq(Users) /\ Len(records) \in Nat
    BY <1>0
  <2>5. /\ Len(records') = 1 + Len(records)
        /\ \A k \in 1 .. 1 + Len(records) :
             records'[k] = IF k <= 1 THEN t ELSE records[k - 1]
    <3>1. records' = <<t>> \o records BY <1>1 DEF Register
    <3>2. /\ Len(<<t>> \o records) = Len(<<t>>) + Len(records)
          /\ \A k \in 1 .. Len(<<t>>) + Len(records) :
               (<<t>> \o records)[k] = IF k <= Len(<<t>>) THEN <<t>>[k] ELSE records[k - Len(<<t>>)]
      BY <2>4, ConcatProperties
    <3> QED BY <2>4, <3>1, <3>2
  <2>6. ASSUME NEW u \in Users, place'[u] # "new" PROVE \E k \in 1 .. Len(records') : records'[k] = u
    <3>1. CASE u = t
      <4>1. 1 \in 1 .. 1 + Len(records) BY <2>4
      <4>2. 1 \in 1 .. Len(records') /\ records'[1] = u BY <2>5, <3>1, <4>1
      <4> QED BY <4>2
    <3>2. CASE u # t
      <4>1. place[u] # "new" BY <1>0, <1>1, <2>6, <3>2 DEF Register, Move
      <4>2. PICK k \in 1 .. Len(records) : records[k] = u BY <1>0, <4>1
      <4>3. k + 1 \in 1 .. Len(records') /\ records'[k + 1] = u BY <2>4, <2>5, <4>2
      <4> QED BY <4>3
    <3> QED BY <3>1, <3>2
  <2>7. active' = {u \in Users : place'[u] \notin {"new", "exited"}}
    BY <1>0, <1>1 DEF Register, Move
  <2>8. Len(records') = Cardinality(Registered') BY <1>0, <2>3, <2>4, <2>5
  <2> QED BY <2>6, <2>7, <2>8
<1>2. ASSUME NEW t \in Users, ThreadExit(t) PROVE RecordsOK'
  <2>1. Registered' = Registered /\ records' = records
    BY <1>0, <1>2 DEF ThreadExit, Move, Registered
  <2>2. active' = {u \in Users : place'[u] \notin {"new", "exited"}}
    BY <1>0, <1>2 DEF ThreadExit, Move
  <2>3. \A u \in Users : place'[u] # "new" => place[u] # "new"
    BY <1>0, <1>2 DEF ThreadExit, Move
  <2> QED BY <1>0, <2>1, <2>2, <2>3
<1>3. ASSUME NEW t \in Users, NEW i \in Index, Protect(t, i) PROVE RecordsOK'
  <2>1. Registered' = Registered /\ records' = records BY <1>0, <1>3 DEF Protect, Move, Registered
  <2> QED BY <1>0, <1>3, <2>1 DEF Protect, Move, guardVars, scanVars
<1>4. ASSUME NEW t \in Users, NEW i \in Index, Release(t, i) PROVE RecordsOK'
  <2>1. Registered' = Registered BY <1>4 DEF Release, Registered
  <2> QED BY <1>0, <1>4, <2>1 DEF Release, scanVars
<1>5. ASSUME NEW t \in Users, ProtectLoad(t) PROVE RecordsOK'
  <2>1. Registered' = Registered /\ records' = records BY <1>0, <1>5 DEF ProtectLoad, Move,
      Registered
  <2> QED BY <1>0, <1>5, <2>1 DEF ProtectLoad, Move, guardVars, scanVars
<1>6. ASSUME NEW t \in Users, ProtectPublish(t) PROVE RecordsOK'
  <2>1. Registered' = Registered /\ records' = records BY <1>0, <1>6 DEF ProtectPublish, Move,
      Registered
  <2> QED BY <1>0, <1>6, <2>1 DEF ProtectPublish, Move, guardVars, scanVars
<1>7. ASSUME NEW t \in Users, ProtectVerified(t) PROVE RecordsOK'
  <2>1. Registered' = Registered /\ records' = records BY <1>0, <1>7 DEF ProtectVerified, Move,
      Registered
  <2> QED BY <1>0, <1>7, <2>1 DEF ProtectVerified, Move, guardVars, scanVars
<1>8. ASSUME NEW t \in Users, ProtectAgain(t) PROVE RecordsOK'
  <2>1. Registered' = Registered /\ records' = records BY <1>0, <1>8 DEF ProtectAgain, Move,
      Registered
  <2> QED BY <1>0, <1>8, <2>1 DEF ProtectAgain, Move, guardVars, scanVars
<1>9. ASSUME NEW t \in Users, NEW n \in Pointer, Unlink(t, n) PROVE RecordsOK'
  <2>1. Registered' = Registered /\ records' = records BY <1>0, <1>9 DEF Unlink, Move, Registered
  <2> QED BY <1>0, <1>9, <2>1 DEF Unlink, Move, guardVars, scanVars
<1>10. ASSUME NEW t \in Users, Retire(t) PROVE RecordsOK'
  <2>1. Registered' = Registered /\ records' = records BY <1>0, <1>10 DEF Retire, Move, Registered
  <2> QED BY <1>0, <1>10, <2>1 DEF Retire, Move, guardVars, scanVars
<1>11. ASSUME NEW t \in Users, ForceReclaim(t) PROVE RecordsOK'
  <2>1. Registered' = Registered /\ records' = records BY <1>0, <1>11 DEF ForceReclaim, Move,
      Registered
  <2> QED BY <1>0, <1>11, <2>1 DEF ForceReclaim, Move, guardVars, scanVars
<1>12. ASSUME NEW t \in Users, ScanLock(t) PROVE RecordsOK'
  <2>1. Registered' = Registered /\ records' = records BY <1>0, <1>12 DEF ScanLock, Move, Registered
  <2> QED BY <1>0, <1>12, <2>1 DEF ScanLock, Move, guardVars, scanVars
<1>13. ASSUME NEW t \in Users, ScanLoad(t) PROVE RecordsOK'
  <2>1. Registered' = Registered BY <1>13 DEF ScanLoad, Registered
  <2> QED BY <1>0, <1>13, <2>1 DEF ScanLoad, scanVars
<1>14. ASSUME NEW t \in Users, ScanUnlock(t) PROVE RecordsOK'
  <2>1. Registered' = Registered /\ records' = records BY <1>0, <1>14 DEF ScanUnlock, Move,
      Registered
  <2> QED BY <1>0, <1>14, <2>1 DEF ScanUnlock, Move, guardVars, scanVars
<1>15. ASSUME NEW t \in Users, Sweep(t) PROVE RecordsOK'
  <2>1. Registered' = Registered /\ records' = records BY <1>0, <1>15 DEF Sweep, Move, Registered
  <2> QED BY <1>0, <1>15, <2>1 DEF Sweep, Move, guardVars, scanVars
<1> QED BY <1>1, <1>2, <1>3, <1>4, <1>5, <1>6, <1>7, <1>8, <1>9, <1>10, <1>11, <1>12, <1>13,
          <1>14, <1>15 DEF HazardNext

(* What a step must leave alone for the scans to stay right: their own state, *)
(* the records and the mutex. What a guard returns is the linked node.      *)
LEMMA ScansKept ==
  ASSUME HazardTypeOK, LinkOK, ScansOK,
         records' = records, cursor' = cursor, protected' = protected,
         global_mutex' = global_mutex,
         \A u \in Users :
           /\ place'[u] # place[u] => {place[u], place'[u]} \cap {"scanning", "sweep"} = {}
           /\ place[u] \in {"scanning", "sweep"} => retired_list'[u] = retired_list[u],
         \A t \in Users, i \in Index :
           mProtectedPtr'[t][i] \in {mProtectedPtr[t][i], Null, src},
         HazardTypeOK'
  PROVE  ScansOK'
<1>1. Limit' = Limit BY DEF Limit
<1>2. \A u, t \in Users, i \in Index : Ahead(u, t, i)' <=> Ahead(u, t, i) BY <1>1 DEF Ahead
<1>3. ASSUME NEW u \in Users, place'[u] \in {"scanning", "sweep"},
             NEW t \in Users, NEW i \in Index, mProtectedPtr'[t][i] \in retired_list'[u]
      PROVE  mProtectedPtr'[t][i] = mProtectedPtr[t][i]
  <2>1. place[u] = place'[u] /\ retired_list'[u] = retired_list[u] BY <1>3
  <2>2. retired_list[u] \subseteq Nodes BY DEF HazardTypeOK
  <2>3. mProtectedPtr'[t][i] # Null BY <1>3, <2>1, <2>2, Bounds
  <2>4. mProtectedPtr'[t][i] # src BY <1>3, <2>1 DEF LinkOK
  <2> QED BY <2>3, <2>4
<1> QED
  <2> SUFFICES ASSUME NEW u \in Users
               PROVE  /\ place'[u] = "scanning" => global_mutex' = {u}
                      /\ place'[u] \notin {"scanning", "sweep"} =>
                           cursor'[u] = 0 /\ protected'[u] = {}
                      /\ cursor'[u] <= Limit'
                      /\ place'[u] \in {"scanning", "sweep"} =>
                         \A t \in Users, i \in Index : mProtectedPtr'[t][i] \in retired_list'[u] =>
                           \/ mProtectedPtr'[t][i] \in protected'[u]
                           \/ place'[u] = "scanning" /\ Ahead(u, t, i)'
    BY DEF ScansOK
  <2>1. \/ place'[u] = place[u]
        \/ place[u] \notin {"scanning", "sweep"} /\ place'[u] \notin {"scanning", "sweep"}
    OBVIOUS
  <2>2. /\ place'[u] = "scanning" => global_mutex' = {u}
        /\ place'[u] \notin {"scanning", "sweep"} => cursor'[u] = 0 /\ protected'[u] = {}
        /\ cursor'[u] <= Limit'
    BY <1>1, <2>1 DEF ScansOK
  <2>3. ASSUME place'[u] \in {"scanning", "sweep"},
               NEW t \in Users, NEW i \in Index, mProtectedPtr'[t][i] \in retired_list'[u]
        PROVE  \/ mProtectedPtr'[t][i] \in protected'[u]
               \/ place'[u] = "scanning" /\ Ahead(u, t, i)'
    <3>1. mProtectedPtr'[t][i] = mProtectedPtr[t][i] BY <1>3, <2>3
    <3>2. place[u] = place'[u] /\ retired_list'[u] = retired_list[u] BY <2>1, <2>3
    <3>3. mProtectedPtr[t][i] \in retired_list[u] BY <2>3, <3>1, <3>2
    <3>4. CASE place[u] = "scanning"
      <4>1. mProtectedPtr[t][i] \in protected[u] \/ Ahead(u, t, i) BY <3>3, <3>4 DEF ScansOK
      <4> QED BY <1>2, <3>1, <3>2, <3>4, <4>1
    <3>5. CASE place[u] = "sweep"
      <4>1. mProtectedPtr[t][i] \in protected[u] BY <3>3, <3>5 DEF ScansOK
      <4> QED BY <3>1, <4>1
    <3> QED BY <2>3, <3>2, <3>4, <3>5
  <2> QED BY <2>2, <2>3

(* A scan misses no hazard pointer of a retired node. *)
LEMMA ScansStep ==
  ASSUME HazardInv, HazardNext
  PROVE  ScansOK'
<1> USE Bounds
<1> USE DEF HazardTypeOK
<1>0. HazardTypeOK /\ RecordsOK /\ LinkOK /\ GuardsOK /\ ScansOK BY DEF HazardInv
<1>1. ASSUME NEW t \in Users, Register(t) PROVE ScansOK'
  <2>1. Limit <= Limit'
    <3>1. Len(records) \in Nat BY <1>0
    <3>2. <<t>> \in Seq(Users) /\ Len(<<t>>) = 1 OBVIOUS
    <3>3. Len(records') = 1 + Len(records)
      BY <1>0, <1>1, <3>2, ConcatProperties DEF Register
    <3> QED BY <3>1, <3>3, MoreRecords DEF Limit
  <2>2. Limit \in Nat /\ Limit' \in Nat BY <1>0, TypeStep, MoreRecords DEF Limit
  <2>3. \A u \in Users : place[u] # "scanning"
    BY <1>0, <1>1 DEF Register, ScansOK
  <2>4. \A u \in Users : cursor'[u] <= Limit'
    <3> TAKE u \in Users
    <3>1. cursor[u] <= Limit /\ cursor'[u] = cursor[u] /\ cursor[u] \in Nat
      BY <1>0, <1>1 DEF Register, scanVars, ScansOK
    <3> QED BY <2>1, <2>2, <3>1
  <2>5. \A u \in Users : place'[u] = place[u] \/ (place[u] = "new" /\ place'[u] = "idle")
    <3>1. place[t] = "new" /\ place' = [place EXCEPT ![t] = "idle"] BY <1>1 DEF Register, Move
    <3>2. place = [u \in Users |-> place[u]] BY <1>0
    <3>3. \A u \in Users : place'[u] = IF u = t THEN "idle" ELSE place[u] BY <3>1, <3>2
    <3> QED BY <3>1, <3>3
  <2> QED BY <1>0, <1>1, <2>3, <2>4, <2>5 DEF Register, guardVars, scanVars, ScansOK
<1>2. ASSUME NEW t \in Users, ThreadExit(t) PROVE ScansOK'
  <2>1. \A t1 \in Users, j \in Index :
          mProtectedPtr'[t1][j] \in {mProtectedPtr[t1][j], Null, src}
    BY <1>0, <1>2 DEF ThreadExit, guardVars
  <2>2. \A u \in Users :
          /\ place'[u] # place[u] => {place[u], place'[u]} \cap {"scanning", "sweep"} = {}
          /\ place[u] \in {"scanning", "sweep"} => retired_list'[u] = retired_list[u]
    BY <1>0, <1>2 DEF ThreadExit, Move
  <2> QED BY <1>0, <1>2, <2>1, <2>2, TypeStep, ScansKept DEF ThreadExit, scanVars
<1>3. ASSUME NEW t \in Users, NEW i \in Index, Protect(t, i) PROVE ScansOK'
  <2>1. \A t1 \in Users, j \in Index :
          mProtectedPtr'[t1][j] \in {mProtectedPtr[t1][j], Null, src}
    BY <1>0, <1>3 DEF Protect, guardVars
  <2>2. \A u \in Users :
          /\ place'[u] # place[u] => {place[u], place'[u]} \cap {"scanning", "sweep"} = {}
          /\ place[u] \in {"scanning", "sweep"} => retired_list'[u] = retired_list[u]
    BY <1>0, <1>3 DEF Protect, Move
  <2> QED BY <1>0, <1>3, <2>1, <2>2, TypeStep, ScansKept DEF Protect, scanVars
<1>4. ASSUME NEW t \in Users, NEW i \in Index, Release(t, i) PROVE ScansOK'
  <2>1. \A t1 \in Users, j \in Index :
          mProtectedPtr'[t1][j] \in {mProtectedPtr[t1][j], Null, src}
    BY <1>0, <1>4 DEF Release, guardVars
  <2>2. \A u \in Users :
          /\ place'[u] # place[u] => {place[u], place'[u]} \cap {"scanning", "sweep"} = {}
          /\ place[u] \in {"scanning", "sweep"} => retired_list'[u] = retired_list[u]
    BY <1>0, <1>4 DEF Release, Move
  <2> QED BY <1>0, <1>4, <2>1, <2>2, TypeStep, ScansKept DEF Release, scanVars
<1>5. ASSUME NEW t \in Users, ProtectLoad(t) PROVE ScansOK'
  <2>1. \A t1 \in Users, j \in Index :
          mProtectedPtr'[t1][j] \in {mProtectedPtr[t1][j], Null, src}
    BY <1>0, <1>5 DEF ProtectLoad, guardVars
  <2>2. \A u \in Users :
          /\ place'[u] # place[u] => {place[u], place'[u]} \cap {"scanning", "sweep"} = {}
          /\ place[u] \in {"scanning", "sweep"} => retired_list'[u] = retired_list[u]
    BY <1>0, <1>5 DEF ProtectLoad, Move
  <2> QED BY <1>0, <1>5, <2>1, <2>2, TypeStep, ScansKept DEF ProtectLoad, scanVars
<1>6. ASSUME NEW t \in Users, ProtectPublish(t) PROVE ScansOK'
  <2>1. \A t1 \in Users, j \in Index :
          mProtectedPtr'[t1][j] \in {mProtectedPtr[t1][j], Null, src}
    BY <1>0, <1>6 DEF ProtectPublish, guardVars
  <2>2. \A u \in Users :
          /\ place'[u] # place[u] => {place[u], place'[u]} \cap {"scanning", "sweep"} = {}
          /\ place[u] \in {"scanning", "sweep"} => retired_list'[u] = retired_list[u]
    BY <1>0, <1>6 DEF ProtectPublish, Move
  <2> QED BY <1>0, <1>6, <2>1, <2>2, TypeStep, ScansKept DEF ProtectPublish, scanVars
<1>7. ASSUME NEW t \in Users, ProtectVerified(t) PROVE ScansOK'
  <2>1. \A t1 \in Users, j \in Index :
          mProtectedPtr'[t1][j] \in {mProtectedPtr[t1][j], Null, src}
    BY <1>0, <1>7 DEF ProtectVerified, guardVars
  <2>2. \A u \in Users :
          /\ place'[u] # place[u] => {place[u], place'[u]} \cap {"scanning", "sweep"} = {}
          /\ place[u] \in {"scanning", "sweep"} => retired_list'[u] = retired_list[u]
    BY <1>0, <1>7 DEF ProtectVerified, Move
  <2> QED BY <1>0, <1>7, <2>1, <2>2, TypeStep, ScansKept DEF ProtectVerified, scanVars
<1>8. ASSUME NEW t \in Users, ProtectAgain(t) PROVE ScansOK'
  <2>1. \A t1 \in Users, j \in Index :
          mProtectedPtr'[t1][j] \in {mProtectedPtr[t1][j], Null, src}
    BY <1>0, <1>8 DEF ProtectAgain, guardVars
  <2>2. \A u \in Users :
          /\ place'[u] # place[u] => {place[u], place'[u]} \cap {"scanning", "sweep"} = {}
          /\ place[u] \in {"scanning", "sweep"} => retired_list'[u] = retired_list[u]
    BY <1>0, <1>8 DEF ProtectAgain, Move
  <2> QED BY <1>0, <1>8, <2>1, <2>2, TypeStep, ScansKept DEF ProtectAgain, scanVars
<1>9. ASSUME NEW t \in Users, NEW n \in Pointer, Unlink(t, n) PROVE ScansOK'
  <2>1. \A t1 \in Users, j \in Index :
          mProtectedPtr'[t1][j] \in {mProtectedPtr[t1][j], Null, src}
    BY <1>0, <1>9 DEF Unlink, guardVars
  <2>2. \A u \in Users :
          /\ place'[u] # place[u] => {place[u], place'[u]} \cap {"scanning", "sweep"} = {}
          /\ place[u] \in {"scanning", "sweep"} => retired_list'[u] = retired_list[u]
    BY <1>0, <1>9 DEF Unlink, Move
  <2> QED BY <1>0, <1>9, <2>1, <2>2, TypeStep, ScansKept DEF Unlink, scanVars
<1>10. ASSUME NEW t \in Users, Retire(t) PROVE ScansOK'
  <2>1. \A t1 \in Users, j \in Index :
          mProtectedPtr'[t1][j] \in {mProtectedPtr[t1][j], Null, src}
    BY <1>0, <1>10 DEF Retire, guardVars
  <2>2. \A u \in Users :
          /\ place'[u] # place[u] => {place[u], place'[u]} \cap {"scanning", "sweep"} = {}
          /\ place[u] \in {"scanning", "sweep"} => retired_list'[u] = retired_list[u]
    BY <1>0, <1>10 DEF Retire, Move
  <2> QED BY <1>0, <1>10, <2>1, <2>2, TypeStep, ScansKept DEF Retire, scanVars
<1>11. ASSUME NEW t \in Users, ForceReclaim(t) PROVE ScansOK'
  <2>1. \A t1 \in Users, j \in Index :
          mProtectedPtr'[t1][j] \in {mProtectedPtr[t1][j], Null, src}
    BY <1>0, <1>11 DEF ForceReclaim, guardVars
  <2>2. \A u \in Users :
          /\ place'[u] # place[u] => {place[u], place'[u]} \cap {"scanning", "sweep"} = {}
          /\ place[u] \in {"scanning", "sweep"} => retired_list'[u] = retired_list[u]
    BY <1>0, <1>11 DEF ForceReclaim, Move
  <2> QED BY <1>0, <1>11, <2>1, <2>2, TypeStep, ScansKept DEF ForceReclaim, scanVars
<1>12. ASSUME NEW t \in Users, ScanLock(t) PROVE ScansOK'
  <2>1. \A u \in Users : place[u] # "scanning"
    BY <1>0, <1>12 DEF ScanLock, ScansOK
  <2>2. cursor[t] = 0 /\ protected[t] = {} BY <1>0, <1>12 DEF ScanLock, Move, ScansOK
  <2>3. Limit' = Limit /\ Limit \in Nat BY <1>0, <1>12, MoreRecords DEF ScanLock, Limit
  <2>4. ASSUME NEW t1 \in Users, NEW i \in Index, mProtectedPtr[t1][i] \in retired_list[t]
        PROVE  Ahead(t, t1, i)'
    <3>1. mProtectedPtr[t1][i] # Null BY <1>0, <2>4
    <3>2. place[t1] # "new" BY <1>0, <3>1 DEF GuardsOK, RecordsOK
    <3>3. PICK k \in 1 .. Len(records) : records[k] = t1 BY <1>0, <3>2 DEF RecordsOK
    <3>4. Len(records) \in Nat /\ k - 1 \in 0 .. Len(records) - 1 /\ i \in 0 .. HP_PER_THREAD - 1
      BY <1>0, <3>3 DEF Index
    <3>5. PICK c \in 0 .. Limit - 1 : c \div HP_PER_THREAD = k - 1 /\ c % HP_PER_THREAD = i
      <4> DEFINE n == Len(records)  j == k - 1  H == HP_PER_THREAD
      <4>1. n \in Nat /\ j \in 0 .. n - 1 /\ H \in Nat \ {0} /\ i \in 0 .. H - 1
        BY <3>4, Bounds
      <4> HIDE DEF n, j, H
      <4>2. j * H + i \in 0 .. n * H - 1 /\ (j * H + i) \div H = j /\ (j * H + i) % H = i
        BY <4>1, PositionIs
      <4> QED BY <4>2 DEF n, j, H, Limit
    <3>6. records[c \div HP_PER_THREAD + 1] = t1 /\ c % HP_PER_THREAD = i
      BY <3>3, <3>4, <3>5, (k - 1) + 1 = k
    <3>7. cursor'[t] = 0 /\ records' = records BY <1>12, <2>2 DEF ScanLock, scanVars
    <3>8. c \in cursor'[t] .. Limit' - 1 BY <2>3, <3>5, <3>7
    <3> QED BY <3>6, <3>7, <3>8 DEF Ahead
  <2>5. \A u \in Users : place'[u] = IF u = t THEN "scanning" ELSE place[u]
    BY <1>0, <1>12 DEF ScanLock, Move
  <2> QED BY <1>0, <1>12, <2>1, <2>2, <2>3, <2>4, <2>5 DEF ScanLock, guardVars, scanVars, ScansOK
<1>13. ASSUME NEW t \in Users, ScanLoad(t) PROVE ScansOK'
  <2> DEFINE h == cursor[t] % HP_PER_THREAD
             o == records[cursor[t] \div HP_PER_THREAD + 1]
  <2>1. /\ place[t] = "scanning" /\ cursor[t] < Limit /\ Limit' = Limit /\ Limit \in Nat
        /\ cursor[t] \in Nat /\ o \in Users /\ h \in Index
    BY <1>0, <1>13, ScanTarget, MoreRecords DEF ScanLoad, Limit
  <2>2. UNCHANGED <<records, place, mProtectedPtr, retired_list, global_mutex>>
    BY <1>13 DEF ScanLoad, guardVars
  <2> DEFINE seen == IF o \in active THEN protected[t] \cup ({Hazard(t)} \ {Null})
                     ELSE protected[t]
  <2>p. protected' = [protected EXCEPT ![t] = seen] BY <1>13 DEF ScanLoad
  <2>c. \A u \in Users : cursor'[u] = IF u = t THEN cursor[u] + 1 ELSE cursor[u]
    <3>1. cursor' = [cursor EXCEPT ![t] = cursor[t] + 1] BY <1>13 DEF ScanLoad
    <3>2. cursor \in [Users -> Nat] BY <1>0
    <3> QED BY <3>1, <3>2
  <2>h. Hazard(t) = hp[o][h] BY DEF Hazard
  <2>o. \A c \in {cursor[t]} : o = records[c \div HP_PER_THREAD + 1] /\ h = c % HP_PER_THREAD
    OBVIOUS
  <2>d. /\ protected'[t] = seen
        /\ \A u \in Users : u # t => protected'[u] = protected[u]
    <3> HIDE DEF seen
    <3> QED BY <1>0, <2>p
  <2>s. /\ o \in active => seen = protected[t] \cup ({Hazard(t)} \ {Null})
        /\ protected[t] \subseteq seen
    OBVIOUS
  <2> HIDE DEF o, h, seen
  <2>3. \A u \in Users : u # t => place[u] # "scanning"
    <3> SUFFICES ASSUME NEW u \in Users, u # t, place[u] = "scanning" PROVE FALSE OBVIOUS
    <3>1. global_mutex = {u} /\ global_mutex = {t} BY <1>0, <2>1 DEF ScansOK
    <3>2. u \in {t} BY <3>1
    <3> QED BY <3>2
  <2>4. ASSUME NEW t1 \in Users, NEW i \in Index, mProtectedPtr[t1][i] \in retired_list[t]
        PROVE  mProtectedPtr[t1][i] \in protected'[t] \/ Ahead(t, t1, i)'
    <3>1. CASE mProtectedPtr[t1][i] \in protected[t]
      BY <2>d, <2>s, <3>1
    <3>2. CASE mProtectedPtr[t1][i] \notin protected[t]
      <4>1. Ahead(t, t1, i) BY <1>0, <2>1, <2>4, <3>2 DEF ScansOK
      <4>2. PICK c \in cursor[t] .. Limit - 1 :
              records[c \div HP_PER_THREAD + 1] = t1 /\ c % HP_PER_THREAD = i
        BY <4>1 DEF Ahead
      <4>3. CASE c = cursor[t]
        <5>1. o = t1 /\ h = i BY <2>o, <4>2, <4>3
        <5>2. mProtectedPtr[t1][i] # Null BY <1>0, <2>4
        <5>3. mProtectedPtr[t1][i] = hp[t1][i] /\ t1 \in active BY <1>0, <5>2 DEF GuardsOK
        <5>4. Hazard(t) = hp[t1][i] /\ Hazard(t) # Null BY <2>h, <5>1, <5>2, <5>3
        <5>5. protected'[t] = protected[t] \cup ({Hazard(t)} \ {Null})
          BY <2>d, <2>s, <5>1, <5>3
        <5> QED BY <5>3, <5>4, <5>5
      <4>4. CASE c # cursor[t]
        <5>1. cursor'[t] = cursor[t] + 1 BY <2>c
        <5>2. c \in cursor'[t] .. Limit' - 1 BY <2>1, <4>2, <4>4, <5>1
        <5> QED BY <2>2, <4>2, <5>2 DEF Ahead
      <4> QED BY <4>3, <4>4
    <3> QED BY <3>1, <3>2
  <2>5. \A u \in Users : cursor'[u] <= Limit'
    <3> TAKE u \in Users
    <3>1. cursor[u] <= Limit /\ cursor[u] \in Nat BY <1>0 DEF ScansOK
    <3> QED BY <2>1, <2>c, <3>1
  <2>6. \A u \in Users : u # t => cursor'[u] = cursor[u] /\ protected'[u] = protected[u]
    BY <2>c, <2>d
  <2> QED BY <1>0, <2>1, <2>2, <2>3, <2>4, <2>5, <2>6, SMTT(20) DEF ScansOK
<1>14. ASSUME NEW t \in Users, ScanUnlock(t) PROVE ScansOK'
  <2>1. place[t] = "scanning" /\ cursor[t] = Limit /\ Limit' = Limit /\ Limit \in Nat
    BY <1>0, <1>14, MoreRecords DEF ScanUnlock, Move, Limit
  <2>2. \A u \in Users : u # t => place[u] # "scanning"
    <3> SUFFICES ASSUME NEW u \in Users, u # t, place[u] = "scanning" PROVE FALSE OBVIOUS
    <3>1. global_mutex = {u} /\ global_mutex = {t} BY <1>0, <2>1 DEF ScansOK
    <3>2. u \in {t} BY <3>1
    <3> QED BY <3>2
  <2>3. \A t1 \in Users, i \in Index : ~ Ahead(t, t1, i) BY <2>1 DEF Ahead
  <2>4. \A u \in Users : place'[u] = IF u = t THEN "sweep" ELSE place[u]
    BY <1>0, <1>14 DEF ScanUnlock, Move
  <2> QED BY <1>0, <1>14, <2>1, <2>2, <2>3, <2>4 DEF ScanUnlock, guardVars, scanVars, ScansOK
<1>15. ASSUME NEW t \in Users, Sweep(t) PROVE ScansOK'
  <2>1. Limit' = Limit /\ Limit \in Nat BY <1>0, <1>15, MoreRecords DEF Sweep, Limit
  <2>2. \A u \in Users : place'[u] = IF u = t THEN "idle" ELSE place[u]
    BY <1>0, <1>15 DEF Sweep, Move
  <2>3. /\ cursor'[t] = 0 /\ protected'[t] = {}
        /\ \A u \in Users : u # t =>
             /\ cursor'[u] = cursor[u] /\ protected'[u] = protected[u]
             /\ retired_list'[u] = retired_list[u]
        /\ UNCHANGED <<records, mProtectedPtr, global_mutex>>
    BY <1>0, <1>15 DEF Sweep, guardVars
  <2>4. \A u, t1 \in Users, i \in Index : u # t /\ Ahead(u, t1, i) => Ahead(u, t1, i)'
    BY <2>1, <2>3 DEF Ahead
  <2>5. \A u \in Users :
          /\ place'[u] = "scanning" => global_mutex' = {u}
          /\ place'[u] \notin {"scanning", "sweep"} => cursor'[u] = 0 /\ protected'[u] = {}
          /\ cursor'[u] <= Limit'
    BY <1>0, <2>1, <2>2, <2>3 DEF ScansOK
  <2>6. ASSUME NEW u \in Users, place'[u] \in {"scanning", "sweep"},
               NEW t1 \in Users, NEW i \in Index, mProtectedPtr'[t1][i] \in retired_list'[u]
        PROVE  \/ mProtectedPtr'[t1][i] \in protected'[u]
               \/ place'[u] = "scanning" /\ Ahead(u, t1, i)'
    <3>1. u # t /\ place'[u] = place[u] BY <2>2, <2>6
    <3>2. mProtectedPtr[t1][i] \in retired_list[u] /\ protected'[u] = protected[u]
      BY <2>3, <2>6, <3>1
    <3>3. CASE place[u] = "sweep" BY <1>0, <2>3, <3>2, <3>3 DEF ScansOK
    <3>4. CASE place[u] = "scanning"
      <4>1. mProtectedPtr[t1][i] \in protected[u] \/ Ahead(u, t1, i)
        BY <1>0, <3>2, <3>4 DEF ScansOK
      <4> QED BY <2>3, <2>4, <3>1, <3>2, <3>4, <4>1
    <3> QED BY <2>6, <3>1, <3>3, <3>4
  <2> QED BY <2>5, <2>6 DEF ScansOK
<1> QED BY <1>1, <1>2, <1>3, <1>4, <1>5, <1>6, <1>7, <1>8, <1>9, <1>10, <1>11, <1>12, <1>13,
          <1>14, <1>15 DEF HazardNext

(* The threads that have registered are at most all threads. *)
LEMMA RecordsAreBounded ==
  ASSUME HazardTypeOK, RecordsOK
  PROVE  /\ Cardinality(Users) \in Nat
         /\ Limit \in Nat /\ Cardinality(Users) * HP_PER_THREAD \in Nat
         /\ Limit <= Cardinality(Users) * HP_PER_THREAD
<1>1. Cardinality(Users) \in Nat BY Bounds, FS_CardinalityType
<1>2. Len(records) \in Nat BY DEF HazardTypeOK
<1>3. Cardinality(Registered) <= Cardinality(Users) BY Bounds, FS_Subset DEF Registered
<1>4. Len(records) <= Cardinality(Users) BY <1>3 DEF RecordsOK
<1> DEFINE n == Len(records)  m == Cardinality(Users)  H == HP_PER_THREAD
<1>5. n \in Nat /\ m \in Nat /\ n <= m /\ H \in Nat BY <1>1, <1>2, <1>4, Bounds
<1> HIDE DEF n, m, H
<1>6. n * H \in Nat /\ m * H \in Nat /\ n * H <= m * H BY <1>5, MoreRecords
<1> QED BY <1>1, <1>6 DEF n, m, H, Limit

(* A scan keeps no more nodes than there are hazard pointers. *)
LEMMA GarbageStep ==
  ASSUME HazardInv, HazardNext
  PROVE  GarbageOK'
<1> USE Bounds
<1> USE DEF HazardTypeOK, GarbageOK
<1>0. HazardTypeOK /\ RecordsOK /\ ScansOK /\ GarbageOK BY DEF HazardInv
<1>1. ASSUME NEW t \in Users, Register(t) PROVE GarbageOK'
  <2>1. \A u \in Users : place'[u] = place[u] \/ (place[u] = "new" /\ place'[u] = "idle")
    <3>1. place[t] = "new" /\ place' = [place EXCEPT ![t] = "idle"] BY <1>1 DEF Register, Move
    <3>2. place = [u \in Users |-> place[u]] BY <1>0
    <3>3. \A u \in Users : place'[u] = IF u = t THEN "idle" ELSE place[u] BY <3>1, <3>2
    <3> QED BY <3>1, <3>3
  <2> QED BY <1>0, <1>1, <2>1 DEF Register, scanVars
<1>2. CASE \E t \in Users : ThreadExit(t)
  BY <1>0, <1>2 DEF ThreadExit, Move, guardVars, scanVars
<1>3. CASE \E t \in Users, i \in Index : Protect(t, i)
  BY <1>0, <1>3 DEF Protect, Move, guardVars, scanVars
<1>4. CASE \E t \in Users, i \in Index : Release(t, i)
  BY <1>0, <1>4 DEF Release, Move, guardVars, scanVars
<1>5. CASE \E t \in Users : ProtectLoad(t)
  BY <1>0, <1>5 DEF ProtectLoad, Move, guardVars, scanVars
<1>6. CASE \E t \in Users : ProtectPublish(t)
  BY <1>0, <1>6 DEF ProtectPublish, Move, guardVars, scanVars
<1>7. CASE \E t \in Users : ProtectVerified(t)
  BY <1>0, <1>7 DEF ProtectVerified, Move, guardVars, scanVars
<1>8. CASE \E t \in Users : ProtectAgain(t)
  BY <1>0, <1>8 DEF ProtectAgain, Move, guardVars, scanVars
<1>9. CASE \E t \in Users, n \in Pointer : Unlink(t, n)
  BY <1>0, <1>9 DEF Unlink, Move, guardVars, scanVars
<1>10. ASSUME NEW t \in Users, Retire(t) PROVE GarbageOK'
  <2>1. IsFiniteSet(retired_list[t]) /\ Cardinality(retired_list[t]) \in Nat
    BY <1>0, FS_CardinalityType
  <2> DEFINE kept == retired_list[t] \cup {ptr[t]}
             c == Cardinality(retired_list[t])
  <2>2. IsFiniteSet(kept) /\ Cardinality(kept) <= c + 1 /\ Cardinality(kept) \in Nat
    <3>1. IsFiniteSet(kept) /\ Cardinality(kept) = IF ptr[t] \in retired_list[t] THEN c ELSE c + 1
      BY <2>1, FS_AddElement
    <3> QED BY <2>1, <3>1
  <2>3. retired_list' = [retired_list EXCEPT ![t] = kept] /\ UNCHANGED <<cursor, protected>>
    BY <1>10 DEF Retire, scanVars
  <2>4. /\ place[t] = "retire"
        /\ place' = [place EXCEPT ![t] = IF c + 1 >= RETIRED_THRESHOLD THEN "scan" ELSE "idle"]
    BY <1>10 DEF Retire, Move
  <2>5. \A u \in Users :
          place'[u] = IF u = t THEN IF c + 1 >= RETIRED_THRESHOLD THEN "scan" ELSE "idle"
                      ELSE place[u]
    <3>1. place = [u \in Users |-> place[u]] BY <1>0
    <3> HIDE DEF c
    <3> QED BY <2>4, <3>1
  <2>6. place'[t] = "idle" => Cardinality(kept) < RETIRED_THRESHOLD BY <2>1, <2>2, <2>5
  <2> HIDE DEF kept, c
  <2>7. \A u \in Users : retired_list'[u] = IF u = t THEN kept ELSE retired_list[u]
    BY <1>0, <2>3
  <2>8. place'[t] = "idle" \/ place'[t] = "scan" BY <2>5
  <2>9. \A u \in Users : u # t => place'[u] = place[u] BY <2>5
  <2> QED BY <1>0, <2>2, <2>3, <2>6, <2>7, <2>8, <2>9
<1>11. CASE \E t \in Users : ForceReclaim(t)
  BY <1>0, <1>11 DEF ForceReclaim, Move, guardVars, scanVars
<1>12. CASE \E t \in Users : ScanLock(t)
  BY <1>0, <1>12 DEF ScanLock, Move, guardVars, scanVars
<1>13. ASSUME NEW t \in Users, ScanLoad(t) PROVE GarbageOK'
  <2> DEFINE o == records[cursor[t] \div HP_PER_THREAD + 1]
             seen == IF o \in active THEN protected[t] \cup ({Hazard(t)} \ {Null})
                     ELSE protected[t]
  <2>1. /\ place[t] = "scanning" /\ UNCHANGED <<place, retired_list>>
        /\ cursor' = [cursor EXCEPT ![t] = cursor[t] + 1]
        /\ protected' = [protected EXCEPT ![t] = seen]
    BY <1>13 DEF ScanLoad
  <2>2. IsFiniteSet(protected[t]) /\ Cardinality(protected[t]) <= cursor[t]
        /\ Cardinality(protected[t]) \in Nat /\ cursor[t] \in Nat
    BY <1>0, FS_CardinalityType
  <2>3. IsFiniteSet(seen) /\ Cardinality(seen) <= cursor[t] + 1
    <3>1. seen = protected[t] \/ seen = protected[t] \cup {Hazard(t)} OBVIOUS
    <3> HIDE DEF seen
    <3>2. /\ IsFiniteSet(protected[t] \cup {Hazard(t)})
          /\ Cardinality(protected[t] \cup {Hazard(t)})
               = IF Hazard(t) \in protected[t] THEN Cardinality(protected[t])
                 ELSE Cardinality(protected[t]) + 1
      BY <2>2, FS_AddElement
    <3> QED BY <2>2, <3>1, <3>2
  <2> HIDE DEF seen, o
  <2>4. \A u \in Users : cursor'[u] = IF u = t THEN cursor[t] + 1 ELSE cursor[u]
    <3>1. cursor \in [Users -> Nat] BY <1>0
    <3> QED BY <2>1, <3>1
  <2>5. \A u \in Users : protected'[u] = IF u = t THEN seen ELSE protected[u]
    BY <1>0, <2>1
  <2> QED BY <1>0, <2>1, <2>3, <2>4, <2>5
<1>14. CASE \E t \in Users : ScanUnlock(t)
  BY <1>0, <1>14 DEF ScanUnlock, Move, guardVars, scanVars
<1>15. ASSUME NEW t \in Users, Sweep(t) PROVE GarbageOK'
  <2> DEFINE kept == retired_list[t] \cap protected[t]
             all == Cardinality(Users) * HP_PER_THREAD
  <2>1. /\ IsFiniteSet(protected[t]) /\ Cardinality(protected[t]) <= cursor[t]
        /\ cursor[t] <= Limit /\ cursor[t] \in Nat /\ Cardinality(protected[t]) \in Nat
    BY <1>0, FS_CardinalityType DEF ScansOK
  <2>2. Limit \in Nat /\ all \in Nat /\ Limit <= all BY <1>0, RecordsAreBounded
  <2>3. kept \subseteq protected[t] OBVIOUS
  <2>4. IsFiniteSet(kept) /\ Cardinality(kept) <= Cardinality(protected[t])
        /\ Cardinality(kept) \in Nat
    BY <2>1, <2>3, FS_Subset, FS_CardinalityType
  <2>5. /\ retired_list' = [retired_list EXCEPT ![t] = kept]
        /\ cursor' = [cursor EXCEPT ![t] = 0] /\ protected' = [protected EXCEPT ![t] = {}]
        /\ place' = [place EXCEPT ![t] = "idle"]
    BY <1>15 DEF Sweep, Move
  <2> HIDE DEF kept, all
  <2>6. Cardinality(kept) <= all BY <2>1, <2>2, <2>4
  <2>7. /\ retired_list'[t] = kept /\ cursor'[t] = 0 /\ protected'[t] = {}
        /\ \A u \in Users : u # t =>
             /\ retired_list'[u] = retired_list[u] /\ cursor'[u] = cursor[u]
             /\ protected'[u] = protected[u] /\ place'[u] = place[u]
    BY <1>0, <2>5
  <2>8. /\ IsFiniteSet(retired_list'[t]) /\ IsFiniteSet(protected'[t])
        /\ Cardinality(protected'[t]) <= cursor'[t]
    BY <2>4, <2>7, FS_EmptySet
  <2>9. Cardinality(retired_list'[t]) <= Cardinality(Users) * HP_PER_THREAD
    BY <2>6, <2>7 DEF all
  <2> QED BY <1>0, <2>7, <2>8, <2>9
<1> QED BY <1>1, <1>2, <1>3, <1>4, <1>5, <1>6, <1>7, <1>8, <1>9, <1>10, <1>11, <1>12, <1>13,
          <1>14, <1>15 DEF HazardNext

(* A sweep deletes nothing that a guard has returned. *)
LEMMA AliveStep ==
  ASSUME HazardInv, HazardNext
  PROVE  ProtectedIsAlive'
<1> USE Bounds
<1> USE DEF HazardTypeOK, ProtectedIsAlive
<1>0. HazardTypeOK /\ LinkOK /\ ScansOK /\ ProtectedIsAlive BY DEF HazardInv
<1>1. CASE \E t \in Users : Register(t)
  BY <1>0, <1>1 DEF Register, Move, guardVars, scanVars
<1>2. CASE \E t \in Users : ThreadExit(t)
  BY <1>0, <1>2 DEF ThreadExit, Move, guardVars, scanVars
<1>3. CASE \E t \in Users, i \in Index : Protect(t, i)
  BY <1>0, <1>3 DEF Protect, Move, guardVars, scanVars
<1>4. CASE \E t \in Users, i \in Index : Release(t, i)
  BY <1>0, <1>4 DEF Release, Move, guardVars, scanVars
<1>5. CASE \E t \in Users : ProtectLoad(t)
  BY <1>0, <1>5 DEF ProtectLoad, Move, guardVars, scanVars
<1>6. CASE \E t \in Users : ProtectPublish(t)
  BY <1>0, <1>6 DEF ProtectPublish, Move, guardVars, scanVars
<1>7. ASSUME NEW t \in Users, ProtectVerified(t) PROVE ProtectedIsAlive'
  <2>1. deleted' = deleted /\ \A t1 \in Users, j \in Index :
          mProtectedPtr'[t1][j] = mProtectedPtr[t1][j] \/ mProtectedPtr'[t1][j] = src
    BY <1>0, <1>7 DEF ProtectVerified
  <2> QED BY <1>0, <2>1 DEF LinkOK
<1>8. CASE \E t \in Users : ProtectAgain(t)
  BY <1>0, <1>8 DEF ProtectAgain, Move, guardVars, scanVars
<1>9. CASE \E t \in Users, n \in Pointer : Unlink(t, n)
  BY <1>0, <1>9 DEF Unlink, Move, guardVars, scanVars
<1>10. CASE \E t \in Users : Retire(t)
  BY <1>0, <1>10 DEF Retire, Move, guardVars, scanVars
<1>11. CASE \E t \in Users : ForceReclaim(t)
  BY <1>0, <1>11 DEF ForceReclaim, Move, guardVars, scanVars
<1>12. CASE \E t \in Users : ScanLock(t)
  BY <1>0, <1>12 DEF ScanLock, Move, guardVars, scanVars
<1>13. CASE \E t \in Users : ScanLoad(t)
  BY <1>0, <1>13 DEF ScanLoad, Move, guardVars, scanVars
<1>14. CASE \E t \in Users : ScanUnlock(t)
  BY <1>0, <1>14 DEF ScanUnlock, Move, guardVars, scanVars
<1>15. ASSUME NEW t \in Users, Sweep(t) PROVE ProtectedIsAlive'
  <2>1. mProtectedPtr' = mProtectedPtr /\ deleted' = deleted \cup (retired_list[t] \ protected[t])
    BY <1>15 DEF Sweep, guardVars
  <2>2. \A t1 \in Users, j \in Index :
          mProtectedPtr[t1][j] \in retired_list[t] => mProtectedPtr[t1][j] \in protected[t]
    BY <1>0, <1>15 DEF Sweep, Move, ScansOK
  <2> QED BY <1>0, <2>1, <2>2
<1> QED BY <1>1, <1>2, <1>3, <1>4, <1>5, <1>6, <1>7, <1>8, <1>9, <1>10, <1>11, <1>12, <1>13,
          <1>14, <1>15 DEF HazardNext

-----------------------------------------------------------------------------
LEMMA InitInv == HazardInit => HazardInv
<1> SUFFICES ASSUME HazardInit PROVE HazardInv OBVIOUS
<1> USE Bounds DEF HazardInit
<1>1. src \in Nodes BY MinIsIn
<1>2. HazardTypeOK BY <1>1 DEF HazardTypeOK, NoHazard
<1>3. RecordsOK
  <2>1. Registered = {} BY DEF Registered
  <2> QED BY <2>1, FS_EmptySet DEF RecordsOK
<1>4. LinkOK BY DEF LinkOK
<1>5. GuardsOK BY DEF GuardsOK, NoHazard
<1>6. ScansOK
  <2>1. Limit = 0 BY DEF Limit
  <2> QED BY <2>1 DEF ScansOK
<1>7. GarbageOK BY FS_EmptySet DEF GarbageOK
<1>8. ProtectedIsAlive BY DEF ProtectedIsAlive
<1> QED BY <1>2, <1>3, <1>4, <1>5, <1>6, <1>7, <1>8 DEF HazardInv

LEMMA StepInv == HazardInv /\ [HazardNext]_hpVars => HazardInv'
<1> SUFFICES ASSUME HazardInv, [HazardNext]_hpVars PROVE HazardInv' OBVIOUS
<1>1. CASE HazardNext
  BY <1>1, TypeStep, RecordsStep, LinkStep, GuardsStep, ScansStep, GarbageStep, AliveStep
  DEF HazardInv
<1>2. CASE UNCHANGED hpVars
  <2> USE <1>2 DEF hpVars, guardVars, scanVars
  <2>1. HazardTypeOK' BY DEF HazardInv, HazardTypeOK
  <2>2. RecordsOK'
    <3>1. Registered' = Registered BY DEF Registered
    <3> QED BY <3>1 DEF HazardInv, RecordsOK
  <2>3. LinkOK' BY DEF HazardInv, LinkOK
  <2>4. GuardsOK' BY DEF HazardInv, GuardsOK
  <2>5. ScansOK' BY DEF HazardInv, ScansOK, Ahead, Limit
  <2>6. GarbageOK' BY DEF HazardInv, GarbageOK
  <2>7. ProtectedIsAlive' BY DEF HazardInv, ProtectedIsAlive
  <2> QED BY <2>1, <2>2, <2>3, <2>4, <2>5, <2>6, <2>7 DEF HazardInv
<1> QED BY <1>1, <1>2

LEMMA InvSafe == HazardInv => HazardsAreSafe
<1> SUFFICES ASSUME HazardInv PROVE HazardsAreSafe OBVIOUS
<1>1. GarbageIsBounded BY DEF HazardInv, GarbageOK, GarbageIsBounded
<1> QED BY <1>1 DEF HazardInv, HazardsAreSafe

(* HazardPointerPolicy: the records, the hazard pointers and the scans keep *)
(* their types, whatever the threads do.                                    *)
THEOREM HazardTypesHold == HazardSpec => []HazardTypeOK
<1>1. HazardInv => HazardTypeOK BY DEF HazardInv
<1> QED BY <1>1, InitInv, StepInv, PTL DEF HazardSpec

(* protect(), retire() and scan_and_reclaim(): no node that a guard has     *)
(* returned is deleted, and what a thread keeps retired is bounded, for     *)
(* every number of threads, of hazard pointers and of nodes.                *)
THEOREM HazardPointersAreSafe == HazardSpec => []HazardsAreSafe
BY InitInv, StepInv, InvSafe, PTL DEF HazardSpec

-----------------------------------------------------------------------------
(* The optimistic reads.                                                    *)

(* Where a guard can be, by policy. *)
WriterPlaces ==
  IF kind = "seqlock" THEN {"idle", "enter", "word1", "word2", "written", "leave"}
  ELSE IF kind = "versioned" THEN {"idle", "word1", "word2", "written", "unlock"}
  ELSE {"idle", "locked", "copy", "word1", "word2", "written", "unlock"}
ReaderPlaces == {"idle", "begin", "copy1", "copy2", "end", "valid", "invalid"}

RdTypes ==
  /\ ReadsTypeOK
  /\ \A w \in Writers : at[w] \in WriterPlaces
  /\ \A r \in Readers : at[r] \in ReaderPlaces /\ (at[r] = "begin" => retries[r] <= MAX_RETRIES)

(* Writers exclude each other: by the mutex, or because a SeqLock has one. *)
AloneOK ==
  /\ \A v, w \in Writers : at[v] # "idle" /\ at[w] # "idle" => v = w
  /\ kind = "seqlock" => \A w \in Writers : at[w] # "idle" => w \in SeqWriters
  /\ kind # "seqlock" => \A w \in Writers : at[w] # "idle" <=> w \in mWriteMutex

(* The guards made are the writes complete and the one under way. *)
Undone(w) == at[w] \notin {"idle", "unlock"}
BegunOK ==
  /\ \A w \in Writers : Undone(w) => begun = done + 1
  /\ (\A w \in Writers : ~Undone(w)) => begun = done

(* What a writer has written of the object it changes. *)
Both(o, n) == heap[o][1] = n /\ heap[o][2] = n
FirstWritten == {"word2", "written", "leave"}

InPlaceOK ==
  kind # "rcu" =>
    /\ (\A w \in Writers : at[w] \notin FirstWritten) => Both(mData, done)
    /\ \A w \in Writers :
         /\ at[w] = "word2" => heap[mData][1] = done + 1 /\ heap[mData][2] = done
         /\ at[w] \in {"written", "leave"} => Both(mData, done + 1)

(* The sequence is odd while the data changes. *)
Calm == \A w \in Writers : at[w] \in {"idle", "enter"}
SequenceOK ==
  kind = "seqlock" =>
    /\ Calm => mSequence = 2 * done
    /\ ~Calm => mSequence = 2 * done + 1
    /\ \A w \in Writers : at[w] \in {"enter", "leave"} => loaded[w] = mSequence

(* An update works on an object of its own. *)
Building == {"word1", "word2", "written"}
UpdateOK ==
  kind = "rcu" =>
    /\ Both(mData, done)
    /\ \A w \in Writers :
         /\ at[w] \in Building \cup {"copy"} => loaded[w] = mData
         /\ at[w] \in Building =>
              fresh[w] # mData /\ \A r \in Readers : Reading(r) => loaded[r] # fresh[w]
         /\ at[w] = "word1" => Both(fresh[w], done)
         /\ at[w] = "word2" => heap[fresh[w]][1] = done + 1 /\ heap[fresh[w]][2] = done
         /\ at[w] = "written" => Both(fresh[w], done + 1)

WritesOK == AloneOK /\ BegunOK /\ InPlaceOK /\ SequenceOK /\ UpdateOK

(* What r has copied so far are words of the n-th write. *)
Copied(r, n) ==
  /\ at[r] \in {"copy2", "end"} => copy[r][1] = n
  /\ at[r] = "end" => copy[r][2] = n

(* A SeqLock's read that finds its sequence again has met no writer. *)
UnmovedOK(r) ==
  loaded[r] <= mSequence /\ (loaded[r] = mSequence => Calm /\ Copied(r, done))

(* A snapshot is whole, and nobody writes to it. *)
SnapshotOK(r) ==
  loaded[r] \in Objects
    /\ \E n \in doneAtStart[r] .. done : Both(loaded[r], n) /\ Copied(r, n)

ReadOK(r) ==
  /\ at[r] # "idle" => doneAtStart[r] <= done
  /\ Reading(r) /\ kind = "seqlock" => UnmovedOK(r)
  /\ Reading(r) /\ kind = "rcu" => SnapshotOK(r)
  /\ at[r] = "valid" /\ kind # "versioned" => WholeAndCurrent(r)

ReadersOK == \A r \in Readers : ReadOK(r)

RdIInv == RdTypes /\ WritesOK /\ ReadersOK

(* The one writer that may not be idle, and what it has done. *)
WriterOK(w) ==
  /\ \A v \in Writers : v # w => at[v] = "idle"
  /\ kind = "seqlock" /\ at[w] # "idle" => w \in SeqWriters
  /\ kind # "seqlock" => mWriteMutex = IF at[w] = "idle" THEN {} ELSE {w}
  /\ begun = IF Undone(w) THEN done + 1 ELSE done
  /\ kind # "rcu" =>
       /\ heap[mData][1] = IF at[w] \in FirstWritten THEN done + 1 ELSE done
       /\ heap[mData][2] = IF at[w] \in {"written", "leave"} THEN done + 1 ELSE done
  /\ kind = "seqlock" =>
       /\ mSequence = IF at[w] \in {"idle", "enter"} THEN 2 * done ELSE 2 * done + 1
       /\ at[w] \in {"enter", "leave"} => loaded[w] = mSequence
  /\ kind = "rcu" =>
       /\ Both(mData, done)
       /\ at[w] \in Building \cup {"copy"} => loaded[w] = mData
       /\ at[w] \in Building =>
            fresh[w] # mData /\ \A r \in Readers : Reading(r) => loaded[r] # fresh[w]
       /\ at[w] = "word1" => Both(fresh[w], done)
       /\ at[w] = "word2" => heap[fresh[w]][1] = done + 1 /\ heap[fresh[w]][2] = done
       /\ at[w] = "written" => Both(fresh[w], done + 1)

LEMMA WriterIs ==
  ASSUME RdTypes, WritesOK, NEW w \in Writers, \A v \in Writers : v # w => at[v] = "idle"
  PROVE  WriterOK(w) /\ (kind = "seqlock" => (Calm <=> at[w] \in {"idle", "enter"}))
<1>1. \A v \in Writers : at[v] # "idle" => v = w OBVIOUS
<1>2. Calm <=> at[w] \in {"idle", "enter"} BY DEF Calm
<1>3. kind # "seqlock" => mWriteMutex = IF at[w] = "idle" THEN {} ELSE {w}
  <2>1. mWriteMutex \subseteq Writers BY DEF RdTypes, ReadsTypeOK
  <2> QED BY <1>1, <2>1 DEF WritesOK, AloneOK
<1>4. begun = IF Undone(w) THEN done + 1 ELSE done BY <1>1 DEF WritesOK, BegunOK, Undone
<1>5. kind # "rcu" =>
       /\ heap[mData][1] = IF at[w] \in FirstWritten THEN done + 1 ELSE done
       /\ heap[mData][2] = IF at[w] \in {"written", "leave"} THEN done + 1 ELSE done
  BY <1>1 DEF WritesOK, InPlaceOK, FirstWritten, Both
<1>6. kind = "seqlock" =>
       /\ mSequence = IF at[w] \in {"idle", "enter"} THEN 2 * done ELSE 2 * done + 1
       /\ at[w] \in {"enter", "leave"} => loaded[w] = mSequence
  BY <1>2 DEF WritesOK, SequenceOK
<1>7. kind = "seqlock" /\ at[w] # "idle" => w \in SeqWriters BY DEF WritesOK, AloneOK
<1> QED BY <1>1, <1>2, <1>3, <1>4, <1>5, <1>6, <1>7 DEF WriterOK, WritesOK, UpdateOK

LEMMA WritesAre == \A w \in Writers : WriterOK(w) => WritesOK
<1> SUFFICES ASSUME NEW w \in Writers, WriterOK(w) PROVE WritesOK OBVIOUS
<1>1. \A v \in Writers : v # w => at[v] = "idle" BY DEF WriterOK
<1>2. Calm <=> at[w] \in {"idle", "enter"} BY <1>1 DEF Calm
<1>3. AloneOK BY <1>1 DEF WriterOK, AloneOK
<1>4. BegunOK BY <1>1 DEF WriterOK, BegunOK, Undone
<1>5. InPlaceOK BY <1>1 DEF WriterOK, InPlaceOK, Both, FirstWritten
<1>6. SequenceOK BY <1>1, <1>2 DEF WriterOK, SequenceOK
<1>7. UpdateOK BY <1>1 DEF WriterOK, UpdateOK, Building
<1> QED BY <1>3, <1>4, <1>5, <1>6, <1>7 DEF WritesOK

LEMMA WritesAreNext == (\A w \in Writers : WriterOK(w) => WritesOK)'
BY WritesAre, PTL

(* A step to another place. *)
LEMMA GoFacts ==
  ASSUME RdTypes, NEW t \in Parties, NEW kinds, NEW from, NEW to, Go(t, kinds, from, to)
  PROVE  /\ kind \in kinds /\ at[t] = from /\ at'[t] = to /\ kind' = kind
         /\ at' = [at EXCEPT ![t] = to]
         /\ \A u \in Parties : u # t => at'[u] = at[u]
         /\ WriterPlaces' = WriterPlaces /\ DOMAIN at' = Parties
BY DEF RdTypes, ReadsTypeOK, Go, WriterPlaces

LEMMA Apart ==
  /\ Readers \subseteq Parties /\ Writers \subseteq Parties
  /\ \A r \in Readers : \A w \in Writers : r # w
BY UsersAssumption DEF Parties

(* What a writer must leave alone for the readers. *)
ReadersMay ==
  /\ \A r \in Readers : at'[r] = at[r] /\ loaded'[r] = loaded[r]
  /\ done \in Nat /\ done' \in Nat /\ done <= done' /\ mSequence' \in Nat
  /\ kind = "seqlock" =>
       mSequence' > mSequence \/ (mSequence' = mSequence /\ done' = done /\ (Calm => Calm'))
  /\ kind = "rcu" => \A r \in Readers : Reading(r) => heap'[loaded[r]] = heap[loaded[r]]
  /\ UNCHANGED <<kind, readVars>>

LEMMA ReadersStay ==
  ASSUME RdTypes, ReadersOK, ReadersMay
  PROVE  ReadersOK'
<1> SUFFICES ASSUME NEW r \in Readers PROVE ReadOK(r)' BY DEF ReadersOK
<1>1. /\ at'[r] = at[r] /\ loaded'[r] = loaded[r] /\ doneAtStart'[r] = doneAtStart[r]
      /\ copy'[r] = copy[r] /\ kind' = kind
  BY DEF ReadersMay, readVars
<1>2. ReadOK(r) /\ doneAtStart[r] \in Nat /\ loaded[r] \in Nat /\ mSequence \in Nat
  BY Apart DEF ReadersOK, RdTypes, ReadsTypeOK
<1>3. Reading(r)' <=> Reading(r) BY <1>1 DEF Reading
<1>4. done \in Nat /\ done' \in Nat /\ done <= done' BY DEF ReadersMay
<1>5. at'[r] # "idle" => doneAtStart'[r] <= done' BY <1>1, <1>2, <1>4 DEF ReadOK
<1>6. ASSUME Reading(r), kind = "seqlock" PROVE UnmovedOK(r)'
  <2>1. UnmovedOK(r) BY <1>2, <1>6 DEF ReadOK
  <2>2. CASE mSequence' > mSequence
    <3>1. loaded'[r] # mSequence' /\ loaded'[r] <= mSequence'
      BY <1>1, <1>2, <2>1, <2>2 DEF UnmovedOK, ReadersMay
    <3> QED BY <3>1 DEF UnmovedOK
  <2>3. CASE mSequence' = mSequence /\ done' = done /\ (Calm => Calm')
    BY <1>1, <2>1, <2>3 DEF UnmovedOK, Copied
  <2> QED BY <1>6, <2>2, <2>3 DEF ReadersMay
<1>7. ASSUME Reading(r), kind = "rcu" PROVE SnapshotOK(r)'
  <2>1. SnapshotOK(r) /\ heap'[loaded[r]] = heap[loaded[r]] BY <1>2, <1>7 DEF ReadOK, ReadersMay
  <2>2. loaded[r] \in Objects /\ Objects' = Objects BY <2>1 DEF SnapshotOK, Objects, Parties
  <2>3. PICK n \in doneAtStart[r] .. done : Both(loaded[r], n) /\ Copied(r, n)
    BY <2>1 DEF SnapshotOK
  <2>4. n \in doneAtStart'[r] .. done' BY <1>1, <1>2, <1>4, <2>3
  <2>5. Both(loaded[r], n)' /\ Copied(r, n)' BY <1>1, <2>1, <2>3 DEF Both, Copied
  <2> QED BY <1>1, <2>2, <2>4, <2>5 DEF SnapshotOK, Both
<1>8. ASSUME at[r] = "valid", kind # "versioned" PROVE WholeAndCurrent(r)'
  <2>1. WholeAndCurrent(r) BY <1>2, <1>8 DEF ReadOK
  <2> QED BY <1>1, <1>2, <1>4, <2>1 DEF WholeAndCurrent
<1> QED BY <1>1, <1>3, <1>5, <1>6, <1>7, <1>8 DEF ReadOK

-----------------------------------------------------------------------------
(* The steps of a writer. *)
RdKept == RdTypes' /\ WritesOK' /\ ReadersOK'

LEMMA Known ==
  ASSUME RdIInv
  PROVE  /\ done \in Nat /\ begun \in Nat /\ mSequence \in Nat /\ MaxWrites \in Nat
         /\ done <= MaxWrites /\ begun <= MaxWrites /\ 2 * done \in Nat
         /\ mData \in Objects /\ kind \in {"seqlock", "versioned", "rcu"}
         /\ heap \in [Objects -> [Word -> Nat]] /\ loaded \in [Parties -> Nat]
         /\ fresh \in [Writers -> Objects] /\ mWriteMutex \subseteq Writers
         /\ \A o \in Objects : heap[o][1] \in Nat /\ heap[o][2] \in Nat
         /\ 0 \in Objects /\ \A o \in Objects : o \in Nat
<1>1. IsFiniteSet(Parties) BY UsersAssumption, FS_Union DEF Parties
<1>2. Cardinality(Parties) \in Nat BY <1>1, FS_CardinalityType
<1>3. 0 \in Objects /\ \A o \in Objects : o \in Nat BY <1>2 DEF Objects
<1> QED BY <1>3, KindsAssumption, LimitsAssumption DEF RdIInv, RdTypes, ReadsTypeOK, Word

LEMMA WriterTypes ==
  ASSUME RdIInv, NEW w \in Writers, NEW to \in WriterPlaces, at' = [at EXCEPT ![w] = to],
         UNCHANGED <<kind, readVars>>,
         mSequence' \in Nat, mWriteMutex' \subseteq Writers, heap' \in [Objects -> [Word -> Nat]],
         mData' \in Objects, loaded' \in [Parties -> Nat], fresh' \in [Writers -> Objects],
         begun' \in 0 .. MaxWrites, done' \in 0 .. MaxWrites
  PROVE  RdTypes'
<1>1. WriterPlaces' = WriterPlaces /\ Objects' = Objects /\ Parties' = Parties
  BY DEF WriterPlaces, Objects, Parties
<1>2. ReadsTypeOK /\ copy' = copy /\ retries' = retries /\ doneAtStart' = doneAtStart
  BY DEF RdIInv, RdTypes, readVars
<1>3. w \in Parties BY Apart
<1>4. to \in {"idle", "enter", "word1", "word2", "written", "leave", "locked", "copy", "unlock"}
  BY DEF WriterPlaces
<1>5. ReadsTypeOK' BY <1>1, <1>2, <1>3, <1>4 DEF ReadsTypeOK, Word
<1>6. \A v \in Writers : at'[v] \in WriterPlaces'
  BY <1>1, <1>2, Apart DEF RdIInv, RdTypes, ReadsTypeOK
<1>7. \A r \in Readers : at'[r] = at[r] BY <1>2, Apart DEF ReadsTypeOK
<1>8. \A r \in Readers : at'[r] \in ReaderPlaces /\ (at'[r] = "begin" => retries'[r] <= MAX_RETRIES)
  BY <1>2, <1>7 DEF RdIInv, RdTypes
<1> QED BY <1>5, <1>6, <1>8 DEF RdTypes, ReaderPlaces

(* A writer that is not idle is alone. *)
LEMMA Solo ==
  ASSUME RdIInv, NEW w \in Writers, at[w] # "idle"
  PROVE  /\ \A v \in Writers : v # w => at[v] = "idle"
         /\ WriterOK(w) /\ (kind = "seqlock" => (Calm <=> at[w] = "enter"))
<1>1. \A v \in Writers : v # w => at[v] = "idle" BY DEF RdIInv, WritesOK, AloneOK
<1> QED BY <1>1, WriterIs DEF RdIInv

(* One that begins is, too. *)
LEMMA SoloBegins ==
  ASSUME RdIInv, NEW w \in Writers, at[w] = "idle", \A v, u \in SeqWriters : v = u,
         kind = "seqlock" => w \in SeqWriters, kind # "seqlock" => mWriteMutex = {}
  PROVE  /\ \A v \in Writers : v # w => at[v] = "idle"
         /\ WriterOK(w) /\ (kind = "seqlock" => Calm)
<1>1. \A v \in Writers : v # w => at[v] = "idle" BY DEF RdIInv, WritesOK, AloneOK
<1> QED BY <1>1, WriterIs DEF RdIInv

LEMMA SeqLockKeeps ==
  ASSUME RdIInv, NEW w \in Writers, SeqLock(w),
         \A v, u \in SeqWriters : v = u
  PROVE  RdKept
<1>1. /\ kind = "seqlock" /\ at[w] = "idle" /\ at'[w] = "enter" /\ kind' = kind
      /\ at' = [at EXCEPT ![w] = "enter"] /\ \A u \in Parties : u # w => at'[u] = at[u]
      /\ "enter" \in WriterPlaces
  <2>1. /\ kind = "seqlock" /\ at[w] = "idle" /\ at'[w] = "enter" /\ kind' = kind
        /\ at' = [at EXCEPT ![w] = "enter"] /\ \A u \in Parties : u # w => at'[u] = at[u]
    BY GoFacts, Apart DEF RdIInv, SeqLock
  <2> QED BY <2>1, Zenon DEF WriterPlaces
<1>2. /\ \A v \in Writers : v # w => at[v] = "idle"
      /\ WriterOK(w) /\ (kind = "seqlock" => (Calm <=> at[w] \in {"idle", "enter"}))
  BY <1>1, SoloBegins DEF SeqLock
<1>3. RdTypes'
  <2>1. /\ mSequence' \in Nat /\ mWriteMutex' \subseteq Writers /\ heap' \in [Objects -> [Word -> Nat]]
        /\ mData' \in Objects /\ loaded' \in [Parties -> Nat] /\ fresh' \in [Writers -> Objects]
        /\ UNCHANGED readVars
    BY <1>1, <1>2, Known, Apart DEF SeqLock, NewGuard, SetLoaded, seqVars, dataVars, readVars
  <2>2. begun' \in 0 .. MaxWrites /\ done' \in 0 .. MaxWrites
    BY <1>1, <1>2, Known DEF SeqLock, NewGuard, SetLoaded, seqVars, dataVars, WriterOK, Undone
  <2> QED BY <1>1, <2>1, <2>2, WriterTypes
<1>4. WriterOK(w)'
  BY <1>1, <1>2, Apart, Known DEF SeqLock, NewGuard, SetLoaded, seqVars, dataVars, WriterOK,
     Undone, FirstWritten, Building,
     Both, RdIInv, RdTypes, ReadsTypeOK
<1>5. (Calm /\ at'[w] \in {"idle", "enter"}) => Calm' BY <1>1, <1>2, Apart DEF Calm
<1>6. ReadersMay
  BY <1>1, <1>2, <1>5, Apart, Known DEF SeqLock, NewGuard, SetLoaded, seqVars, dataVars,
     readVars, ReadersMay, WriterOK,
     RdIInv, RdTypes, ReadsTypeOK
<1>7. WritesOK' BY <1>4, WritesAreNext
<1> QED BY <1>3, <1>6, <1>7, ReadersStay DEF RdIInv, RdKept

LEMMA SeqEnterKeeps ==
  ASSUME RdIInv, NEW w \in Writers, SeqEnter(w)
  PROVE  RdKept
<1>1. /\ kind = "seqlock" /\ at[w] = "enter" /\ at'[w] = "word1" /\ kind' = kind
      /\ at' = [at EXCEPT ![w] = "word1"] /\ \A u \in Parties : u # w => at'[u] = at[u]
      /\ "word1" \in WriterPlaces
  <2>1. /\ kind = "seqlock" /\ at[w] = "enter" /\ at'[w] = "word1" /\ kind' = kind
        /\ at' = [at EXCEPT ![w] = "word1"] /\ \A u \in Parties : u # w => at'[u] = at[u]
    BY GoFacts, Apart DEF RdIInv, SeqEnter
  <2> QED BY <2>1, Zenon DEF WriterPlaces
<1>2. /\ \A v \in Writers : v # w => at[v] = "idle"
      /\ WriterOK(w) /\ (kind = "seqlock" => (Calm <=> at[w] \in {"idle", "enter"}))
  BY <1>1, Solo
<1>3. RdTypes'
  <2>1. /\ mSequence' \in Nat /\ mWriteMutex' \subseteq Writers /\ heap' \in [Objects -> [Word -> Nat]]
        /\ mData' \in Objects /\ loaded' \in [Parties -> Nat] /\ fresh' \in [Writers -> Objects]
        /\ UNCHANGED readVars
    BY <1>1, <1>2, Known, Apart DEF SeqEnter, seqVars, dataVars, readVars
  <2>2. begun' \in 0 .. MaxWrites /\ done' \in 0 .. MaxWrites
    BY <1>1, <1>2, Known DEF SeqEnter, seqVars, dataVars, WriterOK, Undone
  <2> QED BY <1>1, <2>1, <2>2, WriterTypes
<1>4. WriterOK(w)'
  BY <1>1, <1>2, Apart, Known DEF SeqEnter, seqVars, dataVars, WriterOK, Undone, FirstWritten,
     Building,
     Both, RdIInv, RdTypes, ReadsTypeOK
<1>5. (Calm /\ at'[w] \in {"idle", "enter"}) => Calm' BY <1>1, <1>2, Apart DEF Calm
<1>6. ReadersMay
  BY <1>1, <1>2, <1>5, Apart, Known DEF SeqEnter, seqVars, dataVars, readVars, ReadersMay, WriterOK,
     RdIInv, RdTypes, ReadsTypeOK
<1>7. WritesOK' BY <1>4, WritesAreNext
<1> QED BY <1>3, <1>6, <1>7, ReadersStay DEF RdIInv, RdKept

LEMMA SeqUnlockKeeps ==
  ASSUME RdIInv, NEW w \in Writers, SeqUnlock(w)
  PROVE  RdKept
<1>1. /\ kind = "seqlock" /\ at[w] = "written" /\ at'[w] = "leave" /\ kind' = kind
      /\ at' = [at EXCEPT ![w] = "leave"] /\ \A u \in Parties : u # w => at'[u] = at[u]
      /\ "leave" \in WriterPlaces
  <2>1. /\ kind = "seqlock" /\ at[w] = "written" /\ at'[w] = "leave" /\ kind' = kind
        /\ at' = [at EXCEPT ![w] = "leave"] /\ \A u \in Parties : u # w => at'[u] = at[u]
    BY GoFacts, Apart DEF RdIInv, SeqUnlock
  <2> QED BY <2>1, Zenon DEF WriterPlaces
<1>2. /\ \A v \in Writers : v # w => at[v] = "idle"
      /\ WriterOK(w) /\ (kind = "seqlock" => (Calm <=> at[w] \in {"idle", "enter"}))
  BY <1>1, Solo
<1>3. RdTypes'
  <2>1. /\ mSequence' \in Nat /\ mWriteMutex' \subseteq Writers /\ heap' \in [Objects -> [Word -> Nat]]
        /\ mData' \in Objects /\ loaded' \in [Parties -> Nat] /\ fresh' \in [Writers -> Objects]
        /\ UNCHANGED readVars
    BY <1>1, <1>2, Known, Apart DEF SeqUnlock, SetLoaded, seqVars, dataVars, readVars
  <2>2. begun' \in 0 .. MaxWrites /\ done' \in 0 .. MaxWrites
    BY <1>1, <1>2, Known DEF SeqUnlock, SetLoaded, seqVars, dataVars, WriterOK, Undone
  <2> QED BY <1>1, <2>1, <2>2, WriterTypes
<1>4. WriterOK(w)'
  BY <1>1, <1>2, Apart, Known DEF SeqUnlock, SetLoaded, seqVars, dataVars, WriterOK, Undone,
     FirstWritten, Building,
     Both, RdIInv, RdTypes, ReadsTypeOK
<1>5. (Calm /\ at'[w] \in {"idle", "enter"}) => Calm' BY <1>1, <1>2, Apart DEF Calm
<1>6. ReadersMay
  BY <1>1, <1>2, <1>5, Apart, Known DEF SeqUnlock, SetLoaded, seqVars, dataVars, readVars,
     ReadersMay, WriterOK,
     RdIInv, RdTypes, ReadsTypeOK
<1>7. WritesOK' BY <1>4, WritesAreNext
<1> QED BY <1>3, <1>6, <1>7, ReadersStay DEF RdIInv, RdKept

LEMMA SeqLeaveKeeps ==
  ASSUME RdIInv, NEW w \in Writers, SeqLeave(w)
  PROVE  RdKept
<1>1. /\ kind = "seqlock" /\ at[w] = "leave" /\ at'[w] = "idle" /\ kind' = kind
      /\ at' = [at EXCEPT ![w] = "idle"] /\ \A u \in Parties : u # w => at'[u] = at[u]
      /\ "idle" \in WriterPlaces
  <2>1. /\ kind = "seqlock" /\ at[w] = "leave" /\ at'[w] = "idle" /\ kind' = kind
        /\ at' = [at EXCEPT ![w] = "idle"] /\ \A u \in Parties : u # w => at'[u] = at[u]
    BY GoFacts, Apart DEF RdIInv, SeqLeave
  <2> QED BY <2>1, Zenon DEF WriterPlaces
<1>2. /\ \A v \in Writers : v # w => at[v] = "idle"
      /\ WriterOK(w) /\ (kind = "seqlock" => (Calm <=> at[w] \in {"idle", "enter"}))
  BY <1>1, Solo
<1>3. RdTypes'
  <2>1. /\ mSequence' \in Nat /\ mWriteMutex' \subseteq Writers /\ heap' \in [Objects -> [Word -> Nat]]
        /\ mData' \in Objects /\ loaded' \in [Parties -> Nat] /\ fresh' \in [Writers -> Objects]
        /\ UNCHANGED readVars
    BY <1>1, <1>2, Known, Apart DEF SeqLeave, seqVars, dataVars, readVars
  <2>2. begun' \in 0 .. MaxWrites /\ done' \in 0 .. MaxWrites
    BY <1>1, <1>2, Known DEF SeqLeave, seqVars, dataVars, WriterOK, Undone
  <2> QED BY <1>1, <2>1, <2>2, WriterTypes
<1>4. WriterOK(w)'
  BY <1>1, <1>2, Apart, Known DEF SeqLeave, seqVars, dataVars, WriterOK, Undone, FirstWritten,
     Building,
     Both, RdIInv, RdTypes, ReadsTypeOK
<1>5. (Calm /\ at'[w] \in {"idle", "enter"}) => Calm' BY <1>1, <1>2, Apart DEF Calm
<1>6. ReadersMay
  BY <1>1, <1>2, <1>5, Apart, Known DEF SeqLeave, seqVars, dataVars, readVars, ReadersMay, WriterOK,
     RdIInv, RdTypes, ReadsTypeOK
<1>7. WritesOK' BY <1>4, WritesAreNext
<1> QED BY <1>3, <1>6, <1>7, ReadersStay DEF RdIInv, RdKept

LEMMA VersionedLockKeeps ==
  ASSUME RdIInv, NEW w \in Writers, VersionedLock(w),
         \A v, u \in SeqWriters : v = u
  PROVE  RdKept
<1>1. /\ kind = "versioned" /\ at[w] = "idle" /\ at'[w] = "word1" /\ kind' = kind
      /\ at' = [at EXCEPT ![w] = "word1"] /\ \A u \in Parties : u # w => at'[u] = at[u]
      /\ "word1" \in WriterPlaces
  <2>1. /\ kind = "versioned" /\ at[w] = "idle" /\ at'[w] = "word1" /\ kind' = kind
        /\ at' = [at EXCEPT ![w] = "word1"] /\ \A u \in Parties : u # w => at'[u] = at[u]
    BY GoFacts, Apart DEF RdIInv, VersionedLock
  <2> QED BY <2>1, Zenon DEF WriterPlaces
<1>2. /\ \A v \in Writers : v # w => at[v] = "idle"
      /\ WriterOK(w) /\ (kind = "seqlock" => (Calm <=> at[w] \in {"idle", "enter"}))
  BY <1>1, SoloBegins DEF VersionedLock, TakeMutex
<1>3. RdTypes'
  <2>1. /\ mSequence' \in Nat /\ mWriteMutex' \subseteq Writers /\ heap' \in [Objects -> [Word -> Nat]]
        /\ mData' \in Objects /\ loaded' \in [Parties -> Nat] /\ fresh' \in [Writers -> Objects]
        /\ UNCHANGED readVars
    BY <1>1, <1>2, Known, Apart DEF VersionedLock, TakeMutex, NewGuard, SetLoaded, seqVars,
       dataVars, readVars
  <2>2. begun' \in 0 .. MaxWrites /\ done' \in 0 .. MaxWrites
    BY <1>1, <1>2, Known DEF VersionedLock, TakeMutex, NewGuard, SetLoaded, seqVars, dataVars,
       WriterOK, Undone
  <2> QED BY <1>1, <2>1, <2>2, WriterTypes
<1>4. WriterOK(w)'
  BY <1>1, <1>2, Apart, Known DEF VersionedLock, TakeMutex, NewGuard, SetLoaded, seqVars,
     dataVars, WriterOK, Undone, FirstWritten, Building,
     Both, RdIInv, RdTypes, ReadsTypeOK
<1>5. (Calm /\ at'[w] \in {"idle", "enter"}) => Calm' BY <1>1, <1>2, Apart DEF Calm
<1>6. ReadersMay
  BY <1>1, <1>2, <1>5, Apart, Known DEF VersionedLock, TakeMutex, NewGuard, SetLoaded, seqVars,
     dataVars, readVars, ReadersMay, WriterOK,
     RdIInv, RdTypes, ReadsTypeOK
<1>7. WritesOK' BY <1>4, WritesAreNext
<1> QED BY <1>3, <1>6, <1>7, ReadersStay DEF RdIInv, RdKept

LEMMA VersionedCommitKeeps ==
  ASSUME RdIInv, NEW w \in Writers, VersionedCommit(w)
  PROVE  RdKept
<1>1. /\ kind = "versioned" /\ at[w] = "written" /\ at'[w] = "unlock" /\ kind' = kind
      /\ at' = [at EXCEPT ![w] = "unlock"] /\ \A u \in Parties : u # w => at'[u] = at[u]
      /\ "unlock" \in WriterPlaces
  <2>1. /\ kind = "versioned" /\ at[w] = "written" /\ at'[w] = "unlock" /\ kind' = kind
        /\ at' = [at EXCEPT ![w] = "unlock"] /\ \A u \in Parties : u # w => at'[u] = at[u]
    BY GoFacts, Apart DEF RdIInv, VersionedCommit
  <2> QED BY <2>1, Zenon DEF WriterPlaces
<1>2. /\ \A v \in Writers : v # w => at[v] = "idle"
      /\ WriterOK(w) /\ (kind = "seqlock" => (Calm <=> at[w] \in {"idle", "enter"}))
  BY <1>1, Solo
<1>3. RdTypes'
  <2>1. /\ mSequence' \in Nat /\ mWriteMutex' \subseteq Writers /\ heap' \in [Objects -> [Word -> Nat]]
        /\ mData' \in Objects /\ loaded' \in [Parties -> Nat] /\ fresh' \in [Writers -> Objects]
        /\ UNCHANGED readVars
    BY <1>1, <1>2, Known, Apart DEF VersionedCommit, seqVars, dataVars, readVars
  <2>2. begun' \in 0 .. MaxWrites /\ done' \in 0 .. MaxWrites
    BY <1>1, <1>2, Known DEF VersionedCommit, seqVars, dataVars, WriterOK, Undone
  <2> QED BY <1>1, <2>1, <2>2, WriterTypes
<1>4. WriterOK(w)'
  BY <1>1, <1>2, Apart, Known DEF VersionedCommit, seqVars, dataVars, WriterOK, Undone,
     FirstWritten, Building,
     Both, RdIInv, RdTypes, ReadsTypeOK
<1>5. (Calm /\ at'[w] \in {"idle", "enter"}) => Calm' BY <1>1, <1>2, Apart DEF Calm
<1>6. ReadersMay
  BY <1>1, <1>2, <1>5, Apart, Known DEF VersionedCommit, seqVars, dataVars, readVars, ReadersMay,
     WriterOK,
     RdIInv, RdTypes, ReadsTypeOK
<1>7. WritesOK' BY <1>4, WritesAreNext
<1> QED BY <1>3, <1>6, <1>7, ReadersStay DEF RdIInv, RdKept

LEMMA RcuLockKeeps ==
  ASSUME RdIInv, NEW w \in Writers, RcuLock(w),
         \A v, u \in SeqWriters : v = u
  PROVE  RdKept
<1>1. /\ kind = "rcu" /\ at[w] = "idle" /\ at'[w] = "locked" /\ kind' = kind
      /\ at' = [at EXCEPT ![w] = "locked"] /\ \A u \in Parties : u # w => at'[u] = at[u]
      /\ "locked" \in WriterPlaces
  <2>1. /\ kind = "rcu" /\ at[w] = "idle" /\ at'[w] = "locked" /\ kind' = kind
        /\ at' = [at EXCEPT ![w] = "locked"] /\ \A u \in Parties : u # w => at'[u] = at[u]
    BY GoFacts, Apart DEF RdIInv, RcuLock
  <2> QED BY <2>1, Zenon DEF WriterPlaces
<1>2. /\ \A v \in Writers : v # w => at[v] = "idle"
      /\ WriterOK(w) /\ (kind = "seqlock" => (Calm <=> at[w] \in {"idle", "enter"}))
  BY <1>1, SoloBegins DEF RcuLock, TakeMutex
<1>3. RdTypes'
  <2>1. /\ mSequence' \in Nat /\ mWriteMutex' \subseteq Writers /\ heap' \in [Objects -> [Word -> Nat]]
        /\ mData' \in Objects /\ loaded' \in [Parties -> Nat] /\ fresh' \in [Writers -> Objects]
        /\ UNCHANGED readVars
    BY <1>1, <1>2, Known, Apart DEF RcuLock, TakeMutex, NewGuard, seqVars, dataVars, readVars
  <2>2. begun' \in 0 .. MaxWrites /\ done' \in 0 .. MaxWrites
    BY <1>1, <1>2, Known DEF RcuLock, TakeMutex, NewGuard, seqVars, dataVars, WriterOK, Undone
  <2> QED BY <1>1, <2>1, <2>2, WriterTypes
<1>4. WriterOK(w)'
  BY <1>1, <1>2, Apart, Known DEF RcuLock, TakeMutex, NewGuard, seqVars, dataVars, WriterOK,
     Undone, FirstWritten, Building,
     Both, RdIInv, RdTypes, ReadsTypeOK
<1>5. (Calm /\ at'[w] \in {"idle", "enter"}) => Calm' BY <1>1, <1>2, Apart DEF Calm
<1>6. ReadersMay
  BY <1>1, <1>2, <1>5, Apart, Known DEF RcuLock, TakeMutex, NewGuard, seqVars, dataVars,
     readVars, ReadersMay, WriterOK,
     RdIInv, RdTypes, ReadsTypeOK
<1>7. WritesOK' BY <1>4, WritesAreNext
<1> QED BY <1>3, <1>6, <1>7, ReadersStay DEF RdIInv, RdKept

LEMMA RcuLoadKeeps ==
  ASSUME RdIInv, NEW w \in Writers, RcuLoad(w)
  PROVE  RdKept
<1>1. /\ kind = "rcu" /\ at[w] = "locked" /\ at'[w] = "copy" /\ kind' = kind
      /\ at' = [at EXCEPT ![w] = "copy"] /\ \A u \in Parties : u # w => at'[u] = at[u]
      /\ "copy" \in WriterPlaces
  <2>1. /\ kind = "rcu" /\ at[w] = "locked" /\ at'[w] = "copy" /\ kind' = kind
        /\ at' = [at EXCEPT ![w] = "copy"] /\ \A u \in Parties : u # w => at'[u] = at[u]
    BY GoFacts, Apart DEF RdIInv, RcuLoad
  <2> QED BY <2>1, Zenon DEF WriterPlaces
<1>2. /\ \A v \in Writers : v # w => at[v] = "idle"
      /\ WriterOK(w) /\ (kind = "seqlock" => (Calm <=> at[w] \in {"idle", "enter"}))
  BY <1>1, Solo
<1>3. RdTypes'
  <2>1. /\ mSequence' \in Nat /\ mWriteMutex' \subseteq Writers /\ heap' \in [Objects -> [Word -> Nat]]
        /\ mData' \in Objects /\ loaded' \in [Parties -> Nat] /\ fresh' \in [Writers -> Objects]
        /\ UNCHANGED readVars
    BY <1>1, <1>2, Known, Apart DEF RcuLoad, SetLoaded, seqVars, dataVars, readVars
  <2>2. begun' \in 0 .. MaxWrites /\ done' \in 0 .. MaxWrites
    BY <1>1, <1>2, Known DEF RcuLoad, SetLoaded, seqVars, dataVars, WriterOK, Undone
  <2> QED BY <1>1, <2>1, <2>2, WriterTypes
<1>4. WriterOK(w)'
  BY <1>1, <1>2, Apart, Known DEF RcuLoad, SetLoaded, seqVars, dataVars, WriterOK, Undone,
     FirstWritten, Building,
     Both, RdIInv, RdTypes, ReadsTypeOK
<1>5. (Calm /\ at'[w] \in {"idle", "enter"}) => Calm' BY <1>1, <1>2, Apart DEF Calm
<1>6. ReadersMay
  BY <1>1, <1>2, <1>5, Apart, Known DEF RcuLoad, SetLoaded, seqVars, dataVars, readVars,
     ReadersMay, WriterOK,
     RdIInv, RdTypes, ReadsTypeOK
<1>7. WritesOK' BY <1>4, WritesAreNext
<1> QED BY <1>3, <1>6, <1>7, ReadersStay DEF RdIInv, RdKept

LEMMA RcuPublishKeeps ==
  ASSUME RdIInv, NEW w \in Writers, RcuPublish(w)
  PROVE  RdKept
<1>1. /\ kind = "rcu" /\ at[w] = "written" /\ at'[w] = "unlock" /\ kind' = kind
      /\ at' = [at EXCEPT ![w] = "unlock"] /\ \A u \in Parties : u # w => at'[u] = at[u]
      /\ "unlock" \in WriterPlaces
  <2>1. /\ kind = "rcu" /\ at[w] = "written" /\ at'[w] = "unlock" /\ kind' = kind
        /\ at' = [at EXCEPT ![w] = "unlock"] /\ \A u \in Parties : u # w => at'[u] = at[u]
    BY GoFacts, Apart DEF RdIInv, RcuPublish
  <2> QED BY <2>1, Zenon DEF WriterPlaces
<1>2. /\ \A v \in Writers : v # w => at[v] = "idle"
      /\ WriterOK(w) /\ (kind = "seqlock" => (Calm <=> at[w] \in {"idle", "enter"}))
  BY <1>1, Solo
<1>3. RdTypes'
  <2>1. /\ mSequence' \in Nat /\ mWriteMutex' \subseteq Writers /\ heap' \in [Objects -> [Word -> Nat]]
        /\ mData' \in Objects /\ loaded' \in [Parties -> Nat] /\ fresh' \in [Writers -> Objects]
        /\ UNCHANGED readVars
    BY <1>1, <1>2, Known, Apart DEF RcuPublish, seqVars, dataVars, readVars
  <2>2. begun' \in 0 .. MaxWrites /\ done' \in 0 .. MaxWrites
    BY <1>1, <1>2, Known DEF RcuPublish, seqVars, dataVars, WriterOK, Undone
  <2> QED BY <1>1, <2>1, <2>2, WriterTypes
<1>4. WriterOK(w)'
  BY <1>1, <1>2, Apart, Known DEF RcuPublish, seqVars, dataVars, WriterOK, Undone, FirstWritten,
     Building,
     Both, RdIInv, RdTypes, ReadsTypeOK
<1>5. (Calm /\ at'[w] \in {"idle", "enter"}) => Calm' BY <1>1, <1>2, Apart DEF Calm
<1>6. ReadersMay
  BY <1>1, <1>2, <1>5, Apart, Known DEF RcuPublish, seqVars, dataVars, readVars, ReadersMay,
     WriterOK,
     RdIInv, RdTypes, ReadsTypeOK
<1>7. WritesOK' BY <1>4, WritesAreNext
<1> QED BY <1>3, <1>6, <1>7, ReadersStay DEF RdIInv, RdKept

LEMMA RcuPublishFailsKeeps ==
  ASSUME RdIInv, NEW w \in Writers, RcuPublishFails(w)
  PROVE  RdKept
<1>1. /\ kind = "rcu" /\ at[w] = "written" /\ at'[w] = "copy" /\ kind' = kind
      /\ at' = [at EXCEPT ![w] = "copy"] /\ \A u \in Parties : u # w => at'[u] = at[u]
      /\ "copy" \in WriterPlaces
  <2>1. /\ kind = "rcu" /\ at[w] = "written" /\ at'[w] = "copy" /\ kind' = kind
        /\ at' = [at EXCEPT ![w] = "copy"] /\ \A u \in Parties : u # w => at'[u] = at[u]
    BY GoFacts, Apart DEF RdIInv, RcuPublishFails
  <2> QED BY <2>1, Zenon DEF WriterPlaces
<1>2. /\ \A v \in Writers : v # w => at[v] = "idle"
      /\ WriterOK(w) /\ (kind = "seqlock" => (Calm <=> at[w] \in {"idle", "enter"}))
  BY <1>1, Solo
<1>3. RdTypes'
  <2>1. /\ mSequence' \in Nat /\ mWriteMutex' \subseteq Writers /\ heap' \in [Objects -> [Word -> Nat]]
        /\ mData' \in Objects /\ loaded' \in [Parties -> Nat] /\ fresh' \in [Writers -> Objects]
        /\ UNCHANGED readVars
    BY <1>1, <1>2, Known, Apart DEF RcuPublishFails, SetLoaded, seqVars, dataVars, readVars
  <2>2. begun' \in 0 .. MaxWrites /\ done' \in 0 .. MaxWrites
    BY <1>1, <1>2, Known DEF RcuPublishFails, SetLoaded, seqVars, dataVars, WriterOK, Undone
  <2> QED BY <1>1, <2>1, <2>2, WriterTypes
<1>4. WriterOK(w)'
  BY <1>1, <1>2, Apart, Known DEF RcuPublishFails, SetLoaded, seqVars, dataVars, WriterOK,
     Undone, FirstWritten, Building,
     Both, RdIInv, RdTypes, ReadsTypeOK
<1>5. (Calm /\ at'[w] \in {"idle", "enter"}) => Calm' BY <1>1, <1>2, Apart DEF Calm
<1>6. ReadersMay
  BY <1>1, <1>2, <1>5, Apart, Known DEF RcuPublishFails, SetLoaded, seqVars, dataVars, readVars,
     ReadersMay, WriterOK,
     RdIInv, RdTypes, ReadsTypeOK
<1>7. WritesOK' BY <1>4, WritesAreNext
<1> QED BY <1>3, <1>6, <1>7, ReadersStay DEF RdIInv, RdKept

LEMMA ReleaseMutexKeeps ==
  ASSUME RdIInv, NEW w \in Writers, ReleaseMutex(w)
  PROVE  RdKept
<1>1. /\ kind \in {"versioned", "rcu"} /\ at[w] = "unlock" /\ at'[w] = "idle" /\ kind' = kind
      /\ at' = [at EXCEPT ![w] = "idle"] /\ \A u \in Parties : u # w => at'[u] = at[u]
      /\ "idle" \in WriterPlaces
  <2>1. /\ kind \in {"versioned", "rcu"} /\ at[w] = "unlock" /\ at'[w] = "idle" /\ kind' = kind
        /\ at' = [at EXCEPT ![w] = "idle"] /\ \A u \in Parties : u # w => at'[u] = at[u]
    BY GoFacts, Apart DEF RdIInv, ReleaseMutex
  <2> QED BY <2>1, Zenon DEF WriterPlaces
<1>2. WriterOK(w) BY <1>1, Solo
<1>3. RdTypes'
  <2>1. /\ mSequence' \in Nat /\ mWriteMutex' \subseteq Writers /\ heap' \in [Objects -> [Word -> Nat]]
        /\ mData' \in Objects /\ loaded' \in [Parties -> Nat] /\ fresh' \in [Writers -> Objects]
        /\ UNCHANGED readVars
    BY <1>1, Known, Apart DEF ReleaseMutex, SetLoaded, readVars
  <2>2. begun' \in 0 .. MaxWrites /\ done' \in 0 .. MaxWrites BY <1>1, Known DEF ReleaseMutex
  <2> QED BY <1>1, <2>1, <2>2, WriterTypes
<1>4. WriterOK(w)'
  BY <1>1, <1>2, Apart, Known DEF ReleaseMutex, SetLoaded, WriterOK, Undone, FirstWritten,
     Building, Both
<1>5. \A r \in Readers : at'[r] = at[r] /\ loaded'[r] = loaded[r]
  BY <1>1, Apart, Known DEF ReleaseMutex, SetLoaded
<1>6. ReadersMay BY <1>1, <1>5, Known DEF ReleaseMutex, readVars, ReadersMay
<1>7. WritesOK' BY <1>4, WritesAreNext
<1> QED BY <1>3, <1>6, <1>7, ReadersStay DEF RdIInv, RdKept

(* A word of the object that w changes goes up by one. *)
LEMMA WriteWordKeeps ==
  ASSUME RdIInv, NEW w \in Writers, NEW from, NEW i, NEW to, WriteWord(w, from, i, to),
         \/ from = "word1" /\ i = 1 /\ to = "word2"
         \/ from = "word2" /\ i = 2 /\ to = "written"
  PROVE  RdKept
<1> DEFINE o == Target(w)
<1>1. /\ at[w] = from /\ at'[w] = to /\ kind' = kind
      /\ at' = [at EXCEPT ![w] = to] /\ \A u \in Parties : u # w => at'[u] = at[u]
      /\ to \in WriterPlaces
  <2>1. /\ at[w] = from /\ at'[w] = to /\ kind' = kind
        /\ at' = [at EXCEPT ![w] = to] /\ \A u \in Parties : u # w => at'[u] = at[u]
    BY GoFacts, Apart DEF RdIInv, WriteWord
  <2>2. "word2" \in WriterPlaces /\ "written" \in WriterPlaces BY Zenon DEF WriterPlaces
  <2> QED BY <2>1, <2>2
<1>2. /\ \A v \in Writers : v # w => at[v] = "idle"
      /\ WriterOK(w) /\ (kind = "seqlock" => ~Calm)
  BY <1>1, Solo
<1>3. o \in Objects /\ i \in Word BY Known DEF Target, Word
<1>4. /\ heap' \in [Objects -> [Word -> Nat]]
      /\ heap'[o][i] = heap[o][i] + 1 /\ \A j \in Word : j # i => heap'[o][j] = heap[o][j]
      /\ \A p \in Objects : p # o => heap'[p] = heap[p]
  BY <1>3, Known DEF WriteWord
<1>5. UNCHANGED <<seqVars, mData, fresh, loaded, readVars, begun, done>> BY DEF WriteWord
<1>6. RdTypes'
  <2>1. begun' \in 0 .. MaxWrites /\ done' \in 0 .. MaxWrites BY <1>5, Known
  <2> QED BY <1>1, <1>4, <1>5, <2>1, Known, WriterTypes DEF seqVars
<1>7. o = IF kind = "rcu" THEN fresh[w] ELSE mData BY DEF Target
<1> HIDE DEF o
<1>8. WriterOK(w)'
  <2>1. 1 \in Word /\ 2 \in Word BY DEF Word
  <2>2. CASE from = "word1" /\ i = 1 /\ to = "word2"
    BY <1>1, <1>2, <1>3, <1>4, <1>5, <1>7, <2>1, <2>2, Apart, Known
       DEF seqVars, WriterOK, Undone, FirstWritten, Building, Both, Reading
  <2>3. CASE from = "word2" /\ i = 2 /\ to = "written"
    BY <1>1, <1>2, <1>3, <1>4, <1>5, <1>7, <2>1, <2>3, Apart, Known
       DEF seqVars, WriterOK, Undone, FirstWritten, Building, Both, Reading
  <2> QED BY <2>2, <2>3
<1>9. ASSUME kind = "rcu", NEW r \in Readers, Reading(r) PROVE heap'[loaded[r]] = heap[loaded[r]]
  <2>1. loaded[r] # o BY <1>1, <1>2, <1>7, <1>9 DEF WriterOK, Building
  <2>2. loaded[r] \in Objects BY <1>9 DEF RdIInv, ReadersOK, ReadOK, SnapshotOK
  <2> QED BY <1>4, <2>1, <2>2
<1>10. ReadersMay BY <1>1, <1>2, <1>5, <1>9, Apart, Known DEF seqVars, ReadersMay
<1>11. WritesOK' BY <1>8, WritesAreNext
<1> QED BY <1>6, <1>10, <1>11, ReadersStay DEF RdIInv, RdKept

(* There is an object that nobody refers to. *)
LEMMA FreeObject ==
  ASSUME RdIInv, NEW w \in Writers, kind = "rcu", at[w] = "copy"
  PROVE  Min(Objects \ Referred) \in Objects \ Referred
<1>1. (\A v \in Writers : v # w => at[v] = "idle") /\ loaded[w] = mData BY Solo DEF WriterOK
<1> DEFINE Q == {q \in Readers : Reading(q)}
           L == {loaded[r] : r \in Q}
           P == Readers \cup {w}
           n == Cardinality(Readers)
           m == Cardinality(Parties)
<1>2. IsFiniteSet(Readers) /\ IsFiniteSet(Parties) /\ n \in Nat /\ m \in Nat
  BY UsersAssumption, FS_Union, FS_CardinalityType DEF Parties
<1>3. m >= n + 1
  <2>1. Cardinality(P) = n + 1 BY <1>2, Apart, FS_AddElement
  <2>2. P \subseteq Parties BY DEF Parties
  <2> QED BY <1>2, <2>1, <2>2, FS_Subset
<1>4. IsFiniteSet(L) /\ Cardinality(L) \in Nat /\ Cardinality(L) <= n
  <2>1. IsFiniteSet(Q) /\ Cardinality(Q) <= n BY <1>2, FS_Subset
  <2> DEFINE f == [r \in Q |-> loaded[r]]
  <2>2. f \in [Q -> L] /\ \A x \in L : \E r \in Q : f[r] = x OBVIOUS
  <2> HIDE DEF f, L, Q
  <2>5. f \in Surjection(Q, L) BY <2>2 DEF Surjection
  <2>3. IsFiniteSet(L) /\ Cardinality(L) <= Cardinality(Q) BY <2>1, <2>5, FS_Surjection
  <2>4. Cardinality(L) \in Nat /\ Cardinality(Q) \in Nat BY <2>1, <2>3, FS_CardinalityType
  <2> QED BY <1>2, <2>1, <2>3, <2>4
<1>5. Referred = (L \cup {mData}) \cup {fresh[w]}
  <2>1. {v \in Writers : at[v] # "idle"} = {w} BY <1>1
  <2> QED BY <1>1, <2>1 DEF Referred
<1> DEFINE c == Cardinality(L)
           A == L \cup {mData}
           B == A \cup {fresh[w]}
<1> HIDE DEF L, n, m
<1>6. IsFiniteSet(B) /\ Cardinality(B) \in Nat /\ Cardinality(B) <= n + 2
  <2>1. IsFiniteSet(A) /\ Cardinality(A) <= c + 1 BY <1>4, FS_AddElement
  <2>2. Cardinality(A) \in Nat BY <2>1, FS_CardinalityType
  <2> HIDE DEF A, c
  <2>3. IsFiniteSet(B) /\ Cardinality(B) <= Cardinality(A) + 1 BY <2>1, <2>2, FS_AddElement
  <2>4. Cardinality(B) \in Nat BY <2>3, FS_CardinalityType
  <2>5. c \in Nat /\ c <= n BY <1>4 DEF c
  <2> QED BY <1>2, <2>5, <2>1, <2>2, <2>3, <2>4
<1>7. Cardinality(Objects) = m + 2
  <2>1. 0 \in Int /\ m + 1 \in Int BY <1>2
  <2>2. Cardinality(0 .. m + 1) = m + 2 BY <1>2, <2>1, FS_Interval
  <2> QED BY <2>2 DEF Objects, m
<1>8. ~(Objects \subseteq Referred)
  <2> SUFFICES ASSUME Objects \subseteq B PROVE FALSE BY <1>5
  <2>1. Cardinality(Objects) <= Cardinality(B) BY <1>6, FS_Subset
  <2> QED BY <1>2, <1>3, <1>6, <1>7, <2>1
<1> QED BY <1>8, Known, MinIsIn

LEMMA RcuCopyKeeps ==
  ASSUME RdIInv, NEW w \in Writers, RcuCopy(w)
  PROVE  RdKept
<1> DEFINE o == Min(Objects \ Referred)
<1>1. /\ kind = "rcu" /\ at[w] = "copy" /\ at'[w] = "word1" /\ kind' = kind
      /\ at' = [at EXCEPT ![w] = "word1"] /\ \A u \in Parties : u # w => at'[u] = at[u]
      /\ "word1" \in WriterPlaces
  <2>1. /\ kind = "rcu" /\ at[w] = "copy" /\ at'[w] = "word1" /\ kind' = kind
        /\ at' = [at EXCEPT ![w] = "word1"] /\ \A u \in Parties : u # w => at'[u] = at[u]
    BY GoFacts, Apart DEF RdIInv, RcuCopy
  <2> QED BY <2>1, Zenon DEF WriterPlaces
<1>2. WriterOK(w) /\ loaded[w] = mData BY <1>1, Solo DEF WriterOK
<1>3. o \in Objects \ Referred BY <1>1, FreeObject
<1>4. o # mData /\ \A r \in Readers : Reading(r) => loaded[r] # o BY <1>3 DEF Referred
<1>5. fresh' = [fresh EXCEPT ![w] = o] /\ heap' = [heap EXCEPT ![o] = heap[mData]]
  BY <1>2 DEF RcuCopy, Allocate
<1>6. UNCHANGED <<seqVars, mData, loaded, readVars, begun, done>> BY DEF RcuCopy
<1> HIDE DEF o
<1>7. /\ heap' \in [Objects -> [Word -> Nat]] /\ fresh' \in [Writers -> Objects]
      /\ heap'[o] = heap[mData] /\ heap'[mData] = heap[mData] /\ fresh'[w] = o
      /\ \A p \in Objects : p # o => heap'[p] = heap[p]
  BY <1>3, <1>4, <1>5, Known
<1>8. RdTypes'
  <2>1. begun' \in 0 .. MaxWrites /\ done' \in 0 .. MaxWrites BY <1>6, Known
  <2> QED BY <1>1, <1>6, <1>7, <2>1, Known, WriterTypes DEF seqVars
<1>9. WriterOK(w)'
  BY <1>1, <1>2, <1>4, <1>6, <1>7, Apart DEF seqVars, WriterOK, Undone, Building, Both, Reading
<1>10. ASSUME NEW r \in Readers, Reading(r) PROVE heap'[loaded[r]] = heap[loaded[r]]
  <2>1. loaded[r] \in Objects BY <1>1, <1>10 DEF RdIInv, ReadersOK, ReadOK, SnapshotOK
  <2> QED BY <1>4, <1>7, <1>10, <2>1
<1>11. ReadersMay BY <1>1, <1>6, <1>10, Apart, Known DEF seqVars, ReadersMay
<1>12. WritesOK' BY <1>9, WritesAreNext
<1> QED BY <1>8, <1>11, <1>12, ReadersStay DEF RdIInv, RdKept

-----------------------------------------------------------------------------
(* The steps of a reader. *)

(* A reader's step that loads nothing but what is current, and writes to no *)
(* memory that others see.                                                  *)
ReaderSteps(r, to) ==
  /\ at' = [at EXCEPT ![r] = to]
  /\ \A t \in Parties : t # r => loaded'[t] = loaded[t]
  /\ \A q \in Readers : q # r => copy'[q] = copy[q] /\ doneAtStart'[q] = doneAtStart[q]
  /\ \/ to \notin {"copy1", "copy2", "end"}
     \/ Reading(r) /\ loaded'[r] = loaded[r]
     \/ kind = "rcu" => loaded'[r] = mData
  /\ UNCHANGED <<kind, seqVars, dataVars, begun, done>>

LEMMA ReaderLeaves ==
  ASSUME RdIInv, NEW r \in Readers, NEW to \in ReaderPlaces, ReaderSteps(r, to)
  PROVE  /\ WritesOK' /\ at'[r] = to
         /\ \A q \in Readers : q # r => ReadOK(q)'
         /\ \A w \in Writers : at'[w] = at[w]
         /\ Calm' = Calm
<1>1. /\ at'[r] = to /\ \A t \in Parties : t # r => at'[t] = at[t] /\ loaded'[t] = loaded[t]
  BY Apart DEF ReaderSteps, RdIInv, RdTypes, ReadsTypeOK
<1>2. \A w \in Writers : at'[w] = at[w] /\ loaded'[w] = loaded[w] BY <1>1, Apart
<1>3. /\ kind' = kind /\ mSequence' = mSequence /\ mWriteMutex' = mWriteMutex /\ heap' = heap
      /\ mData' = mData /\ fresh' = fresh /\ begun' = begun /\ done' = done
  BY DEF ReaderSteps, seqVars, dataVars
<1>4. Calm' = Calm BY <1>2 DEF Calm
<1>5. ASSUME NEW q \in Readers, q # r PROVE ReadOK(q)'
  <2>1. at'[q] = at[q] /\ loaded'[q] = loaded[q] BY <1>1, <1>5, Apart
  <2>2. copy'[q] = copy[q] /\ doneAtStart'[q] = doneAtStart[q] BY <1>5 DEF ReaderSteps
  <2>3. ReadOK(q) BY DEF RdIInv, ReadersOK
  <2> QED BY <1>3, <1>4, <2>1, <2>2, <2>3 DEF ReadOK, UnmovedOK, SnapshotOK, WholeAndCurrent,
  Copied,
                                          Both, Reading, Objects, Parties
<1>6. AloneOK' BY <1>2, <1>3 DEF RdIInv, WritesOK, AloneOK
<1>7. BegunOK' BY <1>2, <1>3 DEF RdIInv, WritesOK, BegunOK, Undone
<1>8. InPlaceOK' BY <1>2, <1>3 DEF RdIInv, WritesOK, InPlaceOK, Both, FirstWritten
<1>9. SequenceOK' BY <1>2, <1>3, <1>4 DEF RdIInv, WritesOK, SequenceOK
<1>10. UpdateOK'
  <2> SUFFICES ASSUME kind = "rcu" PROVE UpdateOK' BY <1>3 DEF UpdateOK
  <2>1. UpdateOK BY DEF RdIInv, WritesOK
  <2>2. ASSUME NEW w \in Writers, at[w] \in Building, NEW q \in Readers, Reading(q)'
        PROVE  loaded'[q] # fresh[w]
    <3>1. CASE q # r
      <4>1. Reading(q) /\ loaded'[q] = loaded[q] BY <1>1, <2>2, <3>1, Apart DEF Reading
      <4> QED BY <2>1, <2>2, <4>1 DEF UpdateOK
    <3>2. CASE q = r
      <4>1. to \in {"copy1", "copy2", "end"} BY <1>1, <2>2, <3>2 DEF Reading
      <4>2. (Reading(r) /\ loaded'[r] = loaded[r]) \/ loaded'[r] = mData BY <4>1 DEF ReaderSteps
      <4> QED BY <2>1, <2>2, <3>2, <4>2 DEF UpdateOK
    <3> QED BY <3>1, <3>2
  <2> QED BY <1>2, <1>3, <2>1, <2>2 DEF UpdateOK, Both, Building
<1>11. WritesOK' BY <1>6, <1>7, <1>8, <1>9, <1>10 DEF WritesOK
<1> QED BY <1>1, <1>2, <1>4, <1>5, <1>11

LEMMA ReaderTypes ==
  ASSUME RdIInv, NEW r \in Readers, NEW to \in ReaderPlaces, ReaderSteps(r, to),
         loaded' \in [Parties -> Nat], copy' \in [Readers -> [Word -> Nat]],
         retries' \in [Readers -> 0 .. MAX_RETRIES + 1], doneAtStart' \in [Readers -> 0 .. MaxWrites],
         \A q \in Readers : q # r => retries'[q] = retries[q],
         to = "begin" => retries'[r] <= MAX_RETRIES
  PROVE  RdTypes'
<1>1. WriterPlaces' = WriterPlaces /\ Objects' = Objects /\ Parties' = Parties
  BY DEF ReaderSteps, WriterPlaces, Objects, Parties
<1>2. ReadsTypeOK BY DEF RdIInv, RdTypes
<1>3. to \in {"idle", "begin", "copy1", "copy2", "end", "valid", "invalid"} BY DEF ReaderPlaces
<1>4. r \in Parties BY Apart
<1>5. /\ at' = [at EXCEPT ![r] = to] /\ kind' = kind /\ mSequence' = mSequence
      /\ mWriteMutex' = mWriteMutex /\ heap' = heap
      /\ mData' = mData /\ fresh' = fresh /\ begun' = begun /\ done' = done
  BY DEF ReaderSteps, seqVars, dataVars
<1>6. ReadsTypeOK' BY <1>1, <1>2, <1>3, <1>4, <1>5 DEF ReadsTypeOK
<1>7. at'[r] = to /\ \A t \in Parties : t # r => at'[t] = at[t] BY <1>2, <1>4, <1>5 DEF ReadsTypeOK
<1>8. \A w \in Writers : at'[w] \in WriterPlaces' BY <1>1, <1>7, Apart DEF RdIInv, RdTypes
<1>9. \A q \in Readers : at'[q] \in ReaderPlaces /\ (at'[q] = "begin" => retries'[q] <= MAX_RETRIES)
  BY <1>7, Apart DEF RdIInv, RdTypes
<1> QED BY <1>6, <1>8, <1>9 DEF RdTypes, ReaderPlaces

LEMMA ReaderKeeps ==
  ASSUME RdIInv, NEW r \in Readers, NEW to \in ReaderPlaces, ReaderSteps(r, to), RdTypes', ReadOK(r)'
  PROVE  RdKept
<1>1. \A q \in Readers : q # r => ReadOK(q)' BY ReaderLeaves
<1>2. ReadersOK' BY <1>1 DEF ReadersOK
<1> QED BY <1>2, ReaderLeaves DEF RdKept

LEMMA ReaderKnown ==
  ASSUME RdIInv, NEW r \in Readers
  PROVE  /\ r \in Parties /\ ReadOK(r) /\ loaded \in [Parties -> Nat]
         /\ copy \in [Readers -> [Word -> Nat]] /\ retries \in [Readers -> 0 .. MAX_RETRIES + 1]
         /\ doneAtStart \in [Readers -> 0 .. MaxWrites]
         /\ done \in 0 .. MaxWrites /\ MaxWrites \in Nat /\ MAX_RETRIES \in Nat
BY Apart, LimitsAssumption DEF RdIInv, RdTypes, ReadsTypeOK, ReadersOK

LEMMA ReadCallKeeps ==
  ASSUME RdIInv, NEW r \in Readers, ReadCall(r)
  PROVE  RdKept
<1> DEFINE to == "begin"
<1>1. to \in ReaderPlaces /\ ReaderSteps(r, to)
  BY ReaderKnown DEF ReadCall, Go, ReaderPlaces, ReaderSteps, readVars
<1>2. at'[r] = to BY <1>1, ReaderLeaves
<1>3. RdTypes' BY <1>1, ReaderKnown, ReaderTypes DEF ReadCall
<1>4. ReadOK(r)'
  BY <1>2, ReaderKnown DEF ReadCall, ReadOK, Reading
<1> QED BY <1>1, <1>3, <1>4, ReaderKeeps

(* The sequence that is even is that of no write. *)
LEMMA EvenMeansCalm ==
  ASSUME RdIInv, kind = "seqlock", mSequence % 2 = 0
  PROVE  Calm
<1> SUFFICES ASSUME ~Calm PROVE FALSE OBVIOUS
<1>1. mSequence = 2 * done + 1 /\ done \in Nat BY Known DEF RdIInv, WritesOK, SequenceOK
<1> QED BY <1>1

LEMMA ReadBeginKeeps ==
  ASSUME RdIInv, NEW r \in Readers, ReadBegin(r)
  PROVE  RdKept
<1> DEFINE to == "copy1"
<1>1. /\ to \in ReaderPlaces /\ at[r] = "begin" /\ loaded' = [loaded EXCEPT ![r] = IF kind = "rcu" THEN mData ELSE mSequence]
      /\ copy' = copy /\ retries' = retries /\ doneAtStart' = doneAtStart
      /\ at' = [at EXCEPT ![r] = to] /\ kind' = kind
      /\ UNCHANGED <<seqVars, dataVars, begun, done>>
  BY DEF ReadBegin, Go, SetLoaded, ReaderPlaces, readVars
<1>2. loaded'[r] = (IF kind = "rcu" THEN mData ELSE mSequence) /\ \A t \in Parties : t # r => loaded'[t] = loaded[t]
  BY <1>1, ReaderKnown
<1>3. ReaderSteps(r, to) BY <1>1, <1>2 DEF ReaderSteps
<1>4. at'[r] = to /\ Calm' = Calm BY <1>1, <1>3, ReaderLeaves
<1>5. loaded' \in [Parties -> Nat] BY <1>1, Known, ReaderKnown
<1>6. RdTypes' BY <1>1, <1>3, <1>5, ReaderKnown, ReaderTypes
<1>7. doneAtStart[r] \in Nat /\ done \in Nat /\ doneAtStart[r] <= done BY <1>1,
ReaderKnown DEF ReadOK
<1>8. ASSUME kind = "seqlock" PROVE UnmovedOK(r)'
  <2>1. Calm BY <1>8, EvenMeansCalm DEF ReadBegin
  <2>2. mSequence' = mSequence /\ mSequence \in Nat BY <1>1, Known DEF seqVars
  <2> QED BY <1>2, <1>4, <1>8, <2>1, <2>2 DEF UnmovedOK, Copied
<1>9. ASSUME kind = "rcu" PROVE SnapshotOK(r)'
  <2>1. loaded'[r] = mData /\ mData \in Objects /\ Objects' = Objects BY <1>2, <1>9,
  Known DEF Objects, Parties
  <2>2. Both(mData, done) BY <1>9 DEF RdIInv, WritesOK, UpdateOK
  <2>3. heap' = heap /\ done' = done BY <1>1 DEF dataVars
  <2>4. done \in doneAtStart'[r] .. done' BY <1>1, <1>7, <2>3
  <2>5. Copied(r, done)' BY <1>4 DEF Copied
  <2>6. heap'[loaded'[r]][1] = done /\ heap'[loaded'[r]][2] = done BY <2>1, <2>2, <2>3 DEF Both
  <2> QED BY <2>1, <2>3, <2>4, <2>5, <2>6 DEF SnapshotOK, Both, Copied
<1>10. ReadOK(r)' BY <1>1, <1>4, <1>7, <1>8, <1>9 DEF ReadOK, Reading
<1> QED BY <1>1, <1>3, <1>6, <1>10, ReaderKeeps

LEMMA ReadRetryKeeps ==
  ASSUME RdIInv, NEW r \in Readers, ReadRetry(r)
  PROVE  RdKept
<1> DEFINE to == IF retries[r] >= MAX_RETRIES THEN "invalid" ELSE "begin"
<1>1. /\ to \in ReaderPlaces /\ at[r] = "begin" /\ retries' = [retries EXCEPT ![r] = @ + 1]
      /\ copy' = copy /\ loaded' = loaded /\ doneAtStart' = doneAtStart
      /\ at' = [at EXCEPT ![r] = to] /\ kind' = kind
      /\ UNCHANGED <<seqVars, dataVars, begun, done>>
  BY DEF ReadRetry, Go, ReaderPlaces
<1>2. ReaderSteps(r, to) BY <1>1 DEF ReaderSteps
<1>3. at'[r] = to BY <1>1, <1>2, ReaderLeaves
<1>4. retries[r] <= MAX_RETRIES BY <1>1 DEF RdIInv, RdTypes
<1>5. /\ retries' \in [Readers -> 0 .. MAX_RETRIES + 1] /\ \A q \in Readers : q # r => retries'[q] = retries[q]
      /\ to = "begin" => retries'[r] <= MAX_RETRIES
  BY <1>1, <1>4, ReaderKnown
<1>6. RdTypes' BY <1>1, <1>2, <1>5, ReaderKnown, ReaderTypes
<1>7. ReadOK(r)' BY <1>1, <1>3, ReaderKnown DEF ReadOK, Reading
<1> QED BY <1>1, <1>2, <1>6, <1>7, ReaderKeeps

LEMMA ReadWordKeeps ==
  ASSUME RdIInv, NEW r \in Readers, NEW from, NEW i, NEW to, ReadWord(r, from, i, to),
         \/ from = "copy1" /\ i = 1 /\ to = "copy2"
         \/ from = "copy2" /\ i = 2 /\ to = "end"
  PROVE  RdKept
<1> DEFINE o == IF kind = "rcu" THEN loaded[r] ELSE mData
<1>1. /\ to \in ReaderPlaces /\ at[r] = from /\ copy' = [copy EXCEPT ![r][i] = heap[o][i]]
      /\ loaded' = loaded /\ retries' = retries /\ doneAtStart' = doneAtStart
      /\ at' = [at EXCEPT ![r] = to] /\ kind' = kind
      /\ UNCHANGED <<seqVars, dataVars, begun, done>>
  BY DEF ReadWord, Go, ReaderPlaces
<1>2. i \in Word /\ Reading(r) BY <1>1 DEF Word, Reading
<1>3. o \in Objects
  <2>1. kind = "rcu" => loaded[r] \in Objects BY <1>2, ReaderKnown DEF ReadOK, SnapshotOK
  <2> QED BY <2>1, Known
<1>4. /\ copy' \in [Readers -> [Word -> Nat]] /\ copy'[r][i] = heap[o][i]
      /\ \A j \in Word : j # i => copy'[r][j] = copy[r][j]
      /\ \A q \in Readers : q # r => copy'[q] = copy[q]
  BY <1>1, <1>2, <1>3, Known, ReaderKnown
<1>5. ReaderSteps(r, to) BY <1>1, <1>2, <1>4 DEF ReaderSteps
<1>6. at'[r] = to /\ Calm' = Calm BY <1>1, <1>5, ReaderLeaves
<1>7. RdTypes'
  <2>1. to # "begin" OBVIOUS
  <2> QED BY <1>1, <1>4, <1>5, <2>1, ReaderKnown, ReaderTypes
<1>8. ReadOK(r) /\ mSequence' = mSequence /\ heap' = heap /\ mData' = mData /\ done' = done
  BY <1>1, ReaderKnown DEF seqVars, dataVars
<1>9. 1 \in Word /\ 2 \in Word BY DEF Word
<1>10. ASSUME NEW n, Copied(r, n), heap[o][1] = n /\ heap[o][2] = n PROVE Copied(r, n)'
  BY <1>1, <1>4, <1>6, <1>9, <1>10 DEF Copied
<1>11. ASSUME kind = "seqlock" PROVE UnmovedOK(r)'
  <2>1. UnmovedOK(r) BY <1>2, <1>8, <1>11 DEF ReadOK
  <2>2. ASSUME loaded[r] = mSequence PROVE Copied(r, done)'
    <3>1. Calm /\ Copied(r, done) BY <2>1, <2>2 DEF UnmovedOK
    <3>2. Both(mData, done) BY <1>11, <3>1 DEF RdIInv, WritesOK, InPlaceOK, Calm, FirstWritten
    <3>3. Copied(r, done)' BY <1>8, <1>11, <3>1, <3>2, <1>10 DEF Both, Copied
    <3> QED BY <3>3
  <2> QED BY <1>1, <1>6, <1>8, <2>1, <2>2 DEF UnmovedOK
<1>12. ASSUME kind = "rcu" PROVE SnapshotOK(r)'
  <2>1. SnapshotOK(r) BY <1>2, <1>8, <1>12 DEF ReadOK
  <2>2. PICK n \in doneAtStart[r] .. done : Both(loaded[r], n) /\ Copied(r,
  n) BY <2>1 DEF SnapshotOK
  <2>3. Copied(r, n)' BY <1>10, <1>12, <2>2 DEF Both
  <2>4. Objects' = Objects BY DEF Objects, Parties
  <2> QED BY <1>1, <1>8, <2>1, <2>2, <2>3, <2>4 DEF SnapshotOK, Both
<1>13. ReadOK(r)' BY <1>1, <1>2, <1>6, <1>8, <1>11, <1>12 DEF ReadOK, Reading
<1> QED BY <1>1, <1>5, <1>7, <1>13, ReaderKeeps

LEMMA ReadEndKeeps ==
  ASSUME RdIInv, NEW r \in Readers, ReadEnd(r)
  PROVE  RdKept
<1> DEFINE to == IF IsValid(r) THEN "valid" ELSE "invalid"
<1>1. /\ to \in ReaderPlaces /\ at[r] = "end" /\ copy' = copy
      /\ loaded' = loaded /\ retries' = retries /\ doneAtStart' = doneAtStart
      /\ at' = [at EXCEPT ![r] = to] /\ kind' = kind
      /\ UNCHANGED <<seqVars, dataVars, begun, done>>
  BY DEF ReadEnd, Go, ReaderPlaces, readVars
<1>2. ReaderSteps(r, to) BY <1>1 DEF ReaderSteps
<1>3. at'[r] = to BY <1>1, <1>2, ReaderLeaves
<1>4. RdTypes' BY <1>1, <1>2, ReaderKnown, ReaderTypes
<1>5. ReadOK(r) /\ Reading(r) /\ doneAtStart[r] \in Nat /\ done \in Nat BY <1>1,
ReaderKnown DEF Reading
<1>6. ASSUME IsValid(r), kind # "versioned" PROVE WholeAndCurrent(r)
  <2>1. CASE kind = "rcu"
    <3>1. PICK n \in doneAtStart[r] .. done : Copied(r, n) BY <1>5, <2>1 DEF ReadOK, SnapshotOK
    <3> QED BY <1>1, <3>1 DEF Copied, WholeAndCurrent
  <2>2. CASE kind = "seqlock"
    <3>1. loaded[r] = mSequence BY <1>6, <2>2 DEF IsValid
    <3>2. Copied(r, done) /\ doneAtStart[r] <= done BY <1>1, <1>5, <2>2, <3>1 DEF ReadOK, UnmovedOK
    <3> QED BY <1>1, <1>5, <3>2 DEF Copied, WholeAndCurrent
  <2> QED BY <1>6, <2>1, <2>2, Known
<1>7. ASSUME to = "valid", kind # "versioned" PROVE WholeAndCurrent(r)'
  BY <1>1, <1>6, <1>7 DEF WholeAndCurrent
<1>8. ReadOK(r)' BY <1>1, <1>3, <1>5, <1>7 DEF ReadOK, Reading
<1> QED BY <1>1, <1>2, <1>4, <1>8, ReaderKeeps

LEMMA ReadReturnKeeps ==
  ASSUME RdIInv, NEW r \in Readers, ReadReturn(r)
  PROVE  RdKept
<1> DEFINE to == "idle"
<1>1. /\ to \in ReaderPlaces /\ copy' = [copy EXCEPT ![r] = Blank]
      /\ loaded' = [loaded EXCEPT ![r] = 0] /\ retries' = retries /\ doneAtStart' = doneAtStart
      /\ at' = [at EXCEPT ![r] = to] /\ kind' = kind
      /\ UNCHANGED <<seqVars, dataVars, begun, done>>
  BY DEF ReadReturn, Go, SetLoaded, ReaderPlaces
<1>2. Blank \in [Word -> Nat] BY DEF Blank
<1>3. /\ copy' \in [Readers -> [Word -> Nat]] /\ loaded' \in [Parties -> Nat]
      /\ \A t \in Parties : t # r => loaded'[t] = loaded[t]
      /\ \A q \in Readers : q # r => copy'[q] = copy[q]
  BY <1>1, <1>2, ReaderKnown
<1>4. ReaderSteps(r, to) BY <1>1, <1>3 DEF ReaderSteps
<1>5. at'[r] = to BY <1>1, <1>4, ReaderLeaves
<1>6. RdTypes' BY <1>1, <1>3, <1>4, ReaderKnown, ReaderTypes
<1>7. ReadOK(r)' BY <1>1, <1>5 DEF ReadOK, Reading
<1> QED BY <1>1, <1>4, <1>6, <1>7, ReaderKeeps

-----------------------------------------------------------------------------
(* The invariant holds. *)
LEMMA RdInit == ReadsInit => RdIInv
<1> SUFFICES ASSUME ReadsInit PROVE RdIInv OBVIOUS
<1>1. IsFiniteSet(Parties) BY UsersAssumption, FS_Union DEF Parties
<1>2. Cardinality(Parties) \in Nat BY <1>1, FS_CardinalityType
<1>3. 0 \in Objects BY <1>2 DEF Objects
<1>4. Blank \in [Word -> Nat] /\ Blank[1] = 0 /\ Blank[2] = 0 BY DEF Blank, Word
<1>5. ReadsTypeOK BY <1>3, <1>4, LimitsAssumption DEF ReadsInit, ReadsTypeOK
<1>6. /\ \A t \in Parties : at[t] = "idle" /\ done = 0 /\ begun = 0 /\ mSequence = 0
      /\ mWriteMutex = {} /\ heap[mData] = Blank
  BY <1>3 DEF ReadsInit
<1>7. (\A w \in Writers : at[w] = "idle") /\ (\A r \in Readers : at[r] = "idle") BY <1>6, Apart
<1>8. "idle" \in WriterPlaces /\ "idle" \in ReaderPlaces BY Zenon DEF WriterPlaces, ReaderPlaces
<1>9. RdTypes BY <1>5, <1>7, <1>8 DEF RdTypes
<1>10. AloneOK /\ BegunOK
  <2>1. AloneOK BY <1>6, <1>7 DEF AloneOK, ReadsInit
  <2>2. BegunOK BY <1>6, <1>7, Apart DEF BegunOK, Undone, ReadsInit
  <2> QED BY <2>1, <2>2
<1>11. Both(mData, done)
  <2>1. done = 0 /\ heap[mData] = Blank BY <1>3 DEF ReadsInit
  <2> QED BY <1>4, <2>1 DEF Both
<1>12. InPlaceOK BY <1>7, <1>11 DEF InPlaceOK, FirstWritten
<1>13. SequenceOK
  <2>1. done = 0 /\ mSequence = 0 BY DEF ReadsInit
  <2>2. Calm BY <1>7 DEF Calm
  <2> QED BY <1>7, <2>1, <2>2 DEF SequenceOK
<1>14. UpdateOK BY <1>7, <1>11 DEF UpdateOK, Building
<1>15. ReadersOK BY <1>7 DEF ReadersOK, ReadOK, Reading
<1> QED BY <1>9, <1>10, <1>12, <1>13, <1>14, <1>15 DEF RdIInv, WritesOK

LEMMA RdStep ==
  ASSUME \A v, u \in SeqWriters : v = u
  PROVE  RdIInv /\ [ReadsNext]_readsVars => RdIInv'
<1> SUFFICES ASSUME RdIInv, [ReadsNext]_readsVars PROVE RdIInv' OBVIOUS
<1>1. ASSUME NEW w \in Writers, WriteStep(w) PROVE RdKept
  <2>1. CASE SeqLock(w) BY <2>1, SeqLockKeeps
  <2>2. CASE SeqEnter(w) BY <2>2, SeqEnterKeeps
  <2>3. CASE SeqUnlock(w) BY <2>3, SeqUnlockKeeps
  <2>4. CASE SeqLeave(w) BY <2>4, SeqLeaveKeeps
  <2>5. CASE VersionedLock(w) BY <2>5, VersionedLockKeeps
  <2>6. CASE VersionedCommit(w) BY <2>6, VersionedCommitKeeps
  <2>7. CASE ReleaseMutex(w) BY <2>7, ReleaseMutexKeeps
  <2>8. CASE WriteWord(w, "word1", 1, "word2") BY <2>8, WriteWordKeeps
  <2>9. CASE WriteWord(w, "word2", 2, "written") BY <2>9, WriteWordKeeps
  <2>10. CASE RcuLock(w) BY <2>10, RcuLockKeeps
  <2>11. CASE RcuLoad(w) BY <2>11, RcuLoadKeeps
  <2>12. CASE RcuCopy(w) BY <2>12, RcuCopyKeeps
  <2>13. CASE RcuPublish(w) BY <2>13, RcuPublishKeeps
  <2>14. CASE RcuPublishFails(w) BY <2>14, RcuPublishFailsKeeps
  <2> QED BY <1>1, <2>1, <2>2, <2>3, <2>4, <2>5, <2>6, <2>7, <2>8, <2>9, <2>10, <2>11, <2>12, <2>13,
             <2>14 DEF WriteStep
<1>2. ASSUME NEW r \in Readers, ReadCall(r) \/ ReadStep(r) PROVE RdKept
  <2>1. CASE ReadCall(r) BY <2>1, ReadCallKeeps
  <2>2. CASE ReadBegin(r) BY <2>2, ReadBeginKeeps
  <2>3. CASE ReadRetry(r) BY <2>3, ReadRetryKeeps
  <2>4. CASE ReadWord(r, "copy1", 1, "copy2") BY <2>4, ReadWordKeeps
  <2>5. CASE ReadWord(r, "copy2", 2, "end") BY <2>5, ReadWordKeeps
  <2>6. CASE ReadEnd(r) BY <2>6, ReadEndKeeps
  <2>7. CASE ReadReturn(r) BY <2>7, ReadReturnKeeps
  <2> QED BY <1>2, <2>1, <2>2, <2>3, <2>4, <2>5, <2>6, <2>7 DEF ReadStep
<1>3. CASE UNCHANGED readsVars
  <2>1. /\ kind' = kind /\ at' = at /\ mSequence' = mSequence /\ mWriteMutex' = mWriteMutex
        /\ heap' = heap /\ mData' = mData /\ fresh' = fresh /\ loaded' = loaded /\ copy' = copy
        /\ retries' = retries /\ doneAtStart' = doneAtStart /\ begun' = begun /\ done' = done
    BY <1>3 DEF readsVars, seqVars, dataVars, readVars
  <2>2. RdTypes' BY <2>1 DEF RdIInv, RdTypes, ReadsTypeOK, WriterPlaces, ReaderPlaces, Objects,
      Parties
  <2>3. AloneOK' /\ BegunOK' BY <2>1 DEF RdIInv, WritesOK, AloneOK, BegunOK, Undone
  <2>4. InPlaceOK' /\ SequenceOK' BY <2>1 DEF RdIInv, WritesOK, InPlaceOK, SequenceOK, Both, Calm
  <2>5. UpdateOK' BY <2>1 DEF RdIInv, WritesOK, UpdateOK, Both, Reading
  <2>6. ReadersMay
    <3>1. done \in Nat /\ mSequence \in Nat BY Known
    <3>2. Calm => Calm' BY <2>1 DEF Calm
    <3> QED BY <2>1, <3>1, <3>2 DEF ReadersMay, readVars
  <2>7. ReadersOK' BY <2>6, ReadersStay DEF RdIInv
  <2> QED BY <2>2, <2>3, <2>4, <2>5, <2>7 DEF RdIInv, WritesOK
<1> QED BY <1>1, <1>2, <1>3 DEF ReadsNext, RdIInv, RdKept

LEMMA RdInvariant ==
  ASSUME \A v, u \in SeqWriters : v = u
  PROVE  ReadsSpec => []RdIInv
BY RdInit, RdStep, PTL DEF ReadsSpec

(* The sequence, the objects and the guards of SeqLockPolicy, VersionedLock- *)
(* Policy and RCUPolicy keep their types; no more than MAX_RETRIES + 1       *)
(* retries are counted.  A SeqLock has one writer.                           *)
THEOREM ReadsTypesHold ==
  ASSUME \A v, u \in SeqWriters : v = u
  PROVE  ReadsSpec => []ReadsTypeOK
<1>1. RdIInv => ReadsTypeOK BY DEF RdIInv, RdTypes
<1> QED BY <1>1, RdInvariant, PTL

LEMMA RdSound ==
  ASSUME \A v, u \in SeqWriters : v = u, RdIInv
  PROVE  ReadsAreSound
<1>1. ValidReadIsWhole
  BY Known DEF ValidReadIsWhole, RdIInv, ReadersOK, ReadOK
<1>2. NoWriteIsLost
  <2> SUFFICES ASSUME \A w \in Writers : at[w] = "idle" PROVE heap[mData] = [i \in Word |-> done]
    BY DEF NoWriteIsLost
  <2>1. heap[mData] \in [Word -> Nat] BY Known
  <2>2. Both(mData, done) BY DEF RdIInv, WritesOK, InPlaceOK, UpdateOK, FirstWritten
  <2>3. \A i \in Word : i = 1 \/ i = 2 BY DEF Word
  <2> QED BY <2>1, <2>2, <2>3 DEF Both
<1> QED BY <1>1, <1>2 DEF ReadsAreSound

(* What a SeqLock's is_valid() accepts, and what an RCU snapshot shows, is   *)
(* the data of one write that was current during the read; concurrent write  *)
(* guards and the retries of update() neither lose nor repeat a write.  For  *)
(* any number of readers, and of writers where a mutex excludes them; a      *)
(* SeqLock, whose guards exclude nobody, has one writer.                     *)
THEOREM ReadsStaySound ==
  ASSUME \A v, u \in SeqWriters : v = u
  PROVE  ReadsSpec => []ReadsAreSound
<1>1. RdIInv => ReadsAreSound BY RdSound
<1> QED BY <1>1, RdInvariant, PTL

-----------------------------------------------------------------------------
(* The policies together.                                                   *)

PartsInv == LocksInv /\ RdIInv /\ HazardInv

LEMMA PartsStep ==
  ASSUME \A v, u \in SeqWriters : v = u, PartsInv,
         [PartsNext]_<<part, locksVars, readsVars, hpVars>>
  PROVE  PartsInv'
<1>1. [LocksNext]_locksVars /\ [ReadsNext]_readsVars /\ [HazardNext]_hpVars
  BY DEF PartsNext
<1>2. LocksInv' BY <1>1, LocksStepInv DEF PartsInv
<1>3. RdIInv' BY <1>1, RdStep DEF PartsInv
<1>4. HazardInv' BY <1>1, StepInv DEF PartsInv
<1> QED BY <1>2, <1>3, <1>4 DEF PartsInv

(* ConcurrencyPolicies.h as the runs compose it: whichever policy a          *)
(* behaviour is about, the variables of all of them keep their types, a lock *)
(* admits one thread, a validated read is whole and no protected node is     *)
(* deleted.                                                                  *)
THEOREM PoliciesStaySafe ==
  ASSUME \A v, u \in SeqWriters : v = u
  PROVE  PartsSpec => [](PoliciesTypeOK /\ LocksAreSafe /\ ReadsAreSound /\ HazardsAreSafe)
<1>1. PartsInit => PartsInv
  BY LocksInitInv, RdInit, InitInv DEF PartsInit, PartsInv
<1>2. PartsInv /\ [PartsNext]_<<part, locksVars, readsVars, hpVars>> => PartsInv'
  BY PartsStep
<1>3. PartsInv => PoliciesTypeOK
  BY DEF PartsInv, LocksInv, RdIInv, RdTypes, HazardInv, PoliciesTypeOK
<1>4. PartsInv => LocksAreSafe /\ ReadsAreSound /\ HazardsAreSafe
  BY LocksInvSafe, RdSound, InvSafe DEF PartsInv
<1> QED BY <1>1, <1>2, <1>3, <1>4, PTL DEF PartsSpec
=============================================================================
