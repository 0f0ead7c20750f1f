---------------------------- MODULE RingLemmas ----------------------------
(***************************************************************************)
(* Facts the proofs about ring buffers share: the arithmetic of "index &    *)
(* mask" for a ring of M slots, and what a window that slides along a log   *)
(* of values does when a value is logged or the window's start moves on.    *)
(***************************************************************************)
EXTENDS Integers, Sequences, SequenceTheorems, TLAPS

-----------------------------------------------------------------------------
(* Quotient and remainder of a counter by the number of slots. *)
LEMMA DivMod ==
  ASSUME NEW M \in Nat \ {0}, NEW k \in Nat
  PROVE  /\ k % M \in 0 .. M - 1
         /\ k \div M \in Nat
         /\ k = M * (k \div M) + (k % M)
  BY Z3

(* Counters less than a lap apart fall on different slots. *)
LEMMA ModDistinct ==
  ASSUME NEW M \in Nat \ {0}, NEW j \in Nat, NEW k \in Nat, j < k, k - j < M
  PROVE  j % M # k % M
<1> DEFINE dj == j \div M   dk == k \div M
<1> SUFFICES ASSUME j % M = k % M PROVE FALSE OBVIOUS
<1>1. dj \in Int /\ dk \in Int /\ M * dk - M * dj = k - j BY DivMod
<1>2. M * dk - M * dj = M * (dk - dj) BY <1>1, Z3
<1> HIDE DEF dj, dk
<1>3. CASE dk - dj <= 0
  <2>1. M * (dk - dj) <= 0 BY <1>1, <1>3, Z3
  <2> QED BY <1>1, <1>2, <2>1
<1>4. CASE dk - dj >= 1
  <2>1. M * (dk - dj) >= M BY <1>1, <1>4, Z3
  <2> QED BY <1>1, <1>2, <2>1
<1> QED BY <1>1, <1>3, <1>4

(* A counter one lap later falls on the same slot. *)
LEMMA ModPeriod ==
  ASSUME NEW M \in Nat \ {0}, NEW k \in Nat
  PROVE  (k + M) % M = k % M
<1> DEFINE a == k \div M  b == (k + M) \div M r == k % M s == (k+M) % M
<1>1. a \in Nat /\ b \in Nat /\ r \in 0 .. M-1 /\ s \in 0 .. M-1 /\ k = M*a + r /\ k + M = M*b + s
  BY DivMod, k + M \in Nat
<1> HIDE DEF a, b, r, s
<1>2. M * (b - a - 1) = r - s BY <1>1, Z3
<1>3. b - a - 1 = 0
  <2>1. CASE b - a - 1 >= 1
    <3>1. M * (b - a - 1) >= M BY <1>1, <2>1, Z3
    <3> QED BY <1>1, <1>2, <3>1
  <2>2. CASE b - a - 1 <= -1
    <3>1. M * (b - a - 1) <= -M BY <1>1, <2>2, Z3
    <3> QED BY <1>1, <1>2, <3>1
  <2> QED BY <1>1, <2>1, <2>2
<1> QED BY <1>1, <1>2, <1>3 DEF r, s

(* In the first lap a counter is its own slot. *)
LEMMA ModSmall ==
  ASSUME NEW M \in Nat \ {0}, NEW k \in 0 .. M - 1
  PROVE  k % M = k
  BY Z3

(* Whole laps do not change the slot. *)
LEMMA ModLaps ==
  ASSUME NEW M \in Nat \ {0}, NEW k \in Nat, NEW q \in Nat
  PROVE  (k + M * q) % M = k % M
<1> DEFINE n == k + M * q
           a == k \div M  b == n \div M  r == k % M  s == n % M
<1>0. M * q \in Nat BY Z3
<1>1. /\ a \in Nat /\ b \in Nat /\ r \in 0 .. M - 1 /\ s \in 0 .. M - 1
      /\ k = M * a + r /\ k + M * q = M * b + s
  BY <1>0, DivMod, n \in Nat
<1> HIDE DEF a, b, r, s
<1>2. M * (b - a - q) = r - s BY <1>1, Z3
<1>3. b - a - q = 0
  <2>1. CASE b - a - q >= 1
    <3>1. M * (b - a - q) >= M BY <1>1, <2>1, Z3
    <3> QED BY <1>1, <1>2, <3>1
  <2>2. CASE b - a - q <= -1
    <3>1. M * (b - a - q) <= -M BY <1>1, <2>2, Z3
    <3> QED BY <1>1, <1>2, <3>1
  <2> QED BY <1>1, <2>1, <2>2
<1>4. r = s
  <2>1. M * (b - a - q) = 0 BY <1>1, <1>3, Z3
  <2> QED BY <1>1, <1>2, <2>1
<1> QED BY <1>4 DEF r, s

-----------------------------------------------------------------------------
(* Indices that wrap at M: how far w is ahead of r, and the next index. *)
LEMMA WrapDistance ==
  ASSUME NEW M \in Nat \ {0}, NEW w \in 0 .. M - 1, NEW r \in 0 .. M - 1
  PROVE  (w - r) % M = IF w >= r THEN w - r ELSE w - r + M
<1>1. CASE w >= r BY <1>1, ModSmall, w - r \in 0 .. M - 1
<1>2. CASE w < r
  <2>1. (w - r) % M = w - r + M BY <1>2, Z3
  <2> QED BY <1>2, <2>1
<1> QED BY <1>1, <1>2

LEMMA WrapSuccessor ==
  ASSUME NEW M \in Nat \ {0}, NEW i \in 0 .. M - 1
  PROVE  (i + 1) % M = IF i + 1 = M THEN 0 ELSE i + 1
<1>1. CASE i + 1 = M
  <2>1. M % M = 0 BY Z3
  <2> QED BY <1>1, <2>1
<1>2. CASE i + 1 # M BY <1>2, ModSmall, i + 1 \in 0 .. M - 1
<1> QED BY <1>1, <1>2

(* Distances are lengths; they grow and shrink by one with the indices. *)
Wrap(k, M) == k % M

LEMMA WrapFacts ==
  ASSUME NEW M \in Nat \ {0}, NEW w \in 0 .. M - 1, NEW r \in 0 .. M - 1
  PROVE  /\ Wrap(w - r, M) \in 0 .. M - 1
         /\ Wrap(w - r, M) = 0 <=> w = r
         /\ Wrap(w + 1, M) \in 0 .. M - 1
         /\ Wrap(w - r, M) < M - 1 => Wrap(Wrap(w + 1, M) - r, M) = Wrap(w - r, M) + 1
         /\ w # r => Wrap(w - Wrap(r + 1, M), M) = Wrap(w - r, M) - 1
<1>1. /\ Wrap(w + 1, M) = (IF w + 1 = M THEN 0 ELSE w + 1)
      /\ Wrap(r + 1, M) = (IF r + 1 = M THEN 0 ELSE r + 1)
  BY WrapSuccessor, Zenon DEF Wrap
<1>2. ASSUME NEW a \in 0 .. M - 1, NEW b \in 0 .. M - 1
      PROVE  Wrap(a - b, M) = IF a >= b THEN a - b ELSE a - b + M
  BY WrapDistance, Zenon DEF Wrap
<1> DEFINE sw == Wrap(w + 1, M)
           sr == Wrap(r + 1, M)
<1>3. sw \in 0 .. M - 1 /\ sr \in 0 .. M - 1 BY <1>1
<1> HIDE DEF sw, sr
<1>4. Wrap(w - r, M) = IF w >= r THEN w - r ELSE w - r + M BY <1>2, Zenon
<1>5. Wrap(sw - r, M) = IF sw >= r THEN sw - r ELSE sw - r + M BY <1>2, <1>3, Zenon
<1>6. Wrap(w - sr, M) = IF w >= sr THEN w - sr ELSE w - sr + M BY <1>2, <1>3, Zenon
<1>7. sw = (IF w + 1 = M THEN 0 ELSE w + 1) /\ sr = (IF r + 1 = M THEN 0 ELSE r + 1)
  BY <1>1 DEF sw, sr
<1>8. /\ Wrap(w - r, M) \in 0 .. M - 1
      /\ Wrap(w - r, M) = 0 <=> w = r
      /\ Wrap(w - r, M) < M - 1 => Wrap(sw - r, M) = Wrap(w - r, M) + 1
      /\ w # r => Wrap(w - sr, M) = Wrap(w - r, M) - 1
  BY <1>3, <1>4, <1>5, <1>6, <1>7
<1> QED BY <1>3, <1>8 DEF sw, sr

(* The slot of an index does not depend on how often it has wrapped, when   *)
(* the indices wrap after a whole number of laps.                           *)
WholeLaps(B, M) == B \in Nat \ {0} /\ M \in Nat \ {0} /\ M % B = 0

SameSlots(B, M, w, r) ==
  /\ w % B \in 0 .. B - 1
  /\ (r + ((w - r) % M)) % B = w % B
  /\ \A i \in Nat : (((r + 1) % M) + i) % B = (r + 1 + i) % B /\ (r + i) % B \in 0 .. B - 1

LEMMA WrapSlots ==
  ASSUME NEW B, NEW M, WholeLaps(B, M), NEW w \in 0 .. M - 1, NEW r \in 0 .. M - 1
  PROVE  SameSlots(B, M, w, r)
<1>0. B \in Nat \ {0} /\ M \in Nat \ {0} /\ M % B = 0 BY DEF WholeLaps
<1>1. PICK q \in Nat : M = B * q
  <2> DEFINE q == M \div B
  <2>1. q \in Nat /\ M = B * q + (M % B) BY <1>0, DivMod
  <2> HIDE DEF q
  <2>2. B * q \in Int BY <1>0, <2>1
  <2>3. B * q + 0 = B * q BY <2>2
  <2>4. M = B * q BY <1>0, <2>1, <2>3
  <2> QED BY <2>1, <2>4
<1>2. ASSUME NEW k \in Nat PROVE (k + M) % B = k % B /\ k % B \in 0 .. B - 1
  BY <1>0, <1>1, ModLaps, DivMod
<1>3. (r + ((w - r) % M)) % B = w % B
  <2>1. CASE w >= r BY <1>0, <2>1, WrapDistance, r + (w - r) = w
  <2>2. CASE w < r
    <3>1. (w - r) % M = w - r + M BY <1>0, <2>2, WrapDistance
    <3>2. r + (w - r + M) = w + M BY <1>0
    <3>3. w \in Nat BY <1>0
    <3>4. (w + M) % B = w % B BY <1>2, <3>3, Zenon
    <3> QED BY <3>1, <3>2, <3>4, Zenon
  <2> QED BY <2>1, <2>2
<1>4. ASSUME NEW i \in Nat
      PROVE  (((r + 1) % M) + i) % B = (r + 1 + i) % B /\ (r + i) % B \in 0 .. B - 1
  <2>0. r + i \in Nat BY <1>0
  <2>1. (r + i) % B \in 0 .. B - 1 BY <1>2, <2>0
  <2>2. CASE r + 1 # M BY <1>0, <2>1, <2>2, WrapSuccessor
  <2>3. CASE r + 1 = M
    <3>1. ((r + 1) % M) + i = i /\ r + 1 + i = i + M BY <1>0, <2>3, WrapSuccessor
    <3>2. (i + M) % B = i % B BY <1>2
    <3> QED BY <2>1, <3>1, <3>2
  <2> QED BY <2>2, <2>3
<1>5. w % B \in 0 .. B - 1
  <2>1. w \in Nat BY <1>0
  <2> QED BY <1>2, <2>1
<1> QED BY <1>3, <1>4, <1>5, Zenon DEF SameSlots

-----------------------------------------------------------------------------
(* The values of a log from position d on. *)
Window(log, d) == SubSeq(log, d + 1, Len(log))

LEMMA WindowProperties ==
  ASSUME NEW S, NEW log \in Seq(S), NEW d \in 0 .. Len(log)
  PROVE  /\ Window(log, d) \in Seq(S)
         /\ Len(Window(log, d)) = Len(log) - d
         /\ \A i \in 1 .. Len(log) - d : Window(log, d)[i] = log[d + i]
<1>1. Len(log) \in Nat /\ \A i \in d + 1 .. Len(log) : log[i] \in S
  BY LenProperties, ElementOfSeq
<1>2. d + 1 \in Int /\ Len(log) \in Int BY <1>1
<1> QED BY <1>1, <1>2, SubSeqProperties DEF Window

(* Logging a value appends it to the window. *)
LEMMA WindowAppend ==
  ASSUME NEW S, NEW log \in Seq(S), NEW d \in 0 .. Len(log), NEW v \in S
  PROVE  Window(Append(log, v), d) = Append(Window(log, d), v)
<1> DEFINE L == Append(log, v)
           a == Window(L, d)
           b == Append(Window(log, d), v)
           n == Len(log) - d
<1>1. /\ L \in Seq(S) /\ Len(L) = Len(log) + 1 /\ Len(log) \in Nat
      /\ \A i \in 1 .. Len(log) : L[i] = log[i]
      /\ L[Len(log) + 1] = v
  BY AppendProperties, LenProperties
<1>2. /\ a \in Seq(S) /\ Len(a) = n + 1
      /\ \A i \in 1 .. n + 1 : a[i] = L[d + i]
  <2> HIDE DEF L
  <2>1. d \in 0 .. Len(L) BY <1>1
  <2>2. /\ a \in Seq(S) /\ Len(a) = Len(L) - d
        /\ \A i \in 1 .. Len(L) - d : a[i] = L[d + i]
    BY <1>1, <2>1, WindowProperties
  <2>3. Len(L) - d = n + 1 BY <1>1
  <2> QED BY <2>2, <2>3
<1>3. /\ Window(log, d) \in Seq(S) /\ Len(Window(log, d)) = n
      /\ \A i \in 1 .. n : Window(log, d)[i] = log[d + i]
  BY WindowProperties
<1>4. /\ b \in Seq(S) /\ Len(b) = n + 1
      /\ \A i \in 1 .. n : b[i] = log[d + i]
      /\ b[n + 1] = v
  BY <1>3, AppendProperties
<1> HIDE DEF L, a, b
<1>5. ASSUME NEW i \in 1 .. n + 1 PROVE a[i] = b[i]
  <2>1. CASE i = n + 1 BY <1>1, <1>2, <1>4, <2>1
  <2>2. CASE i \in 1 .. n BY <1>1, <1>2, <1>4, <2>2
  <2> QED BY <1>1, <2>1, <2>2
<1> HIDE DEF n
<1> QED BY <1>2, <1>4, <1>5, SeqEqual DEF L, a, b

(* Moving the window's start on drops its first value. *)
LEMMA WindowAdvance ==
  ASSUME NEW S, NEW log \in Seq(S), NEW d \in 0 .. Len(log) - 1
  PROVE  /\ Window(log, d) # << >>
         /\ Head(Window(log, d)) = log[d + 1]
         /\ Window(log, d + 1) = Tail(Window(log, d))
<1>1. Len(log) \in Nat BY LenProperties
<1>2. d + 1 \in 1 .. Len(log) /\ Len(log) \in d + 1 .. Len(log) BY <1>1
<1>3. /\ Head(Window(log, d)) = log[d + 1]
      /\ Tail(Window(log, d)) = SubSeq(log, d + 1 + 1, Len(log))
  BY <1>2, HeadTailOfSubSeq DEF Window
<1>4. Window(log, d) \in Seq(S) /\ Len(Window(log, d)) = Len(log) - d
  BY <1>1, WindowProperties, d \in 0 .. Len(log)
<1>5. Window(log, d) # << >> BY <1>1, <1>4, EmptySeq
<1> QED BY <1>3, <1>5 DEF Window
=============================================================================
