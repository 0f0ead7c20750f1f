--------------------------- MODULE ServicesProofs ---------------------------
(***************************************************************************)
(* Theorems about RateLimiter, for every rate, capacity and window: what    *)
(* each of the three limiters lets through in any interval of time; and     *)
(* about IdGenerator, for every domain and every policy: to whom the        *)
(* identifiers belong, and where those are that belong to nobody; and about *)
(* FeatureManager, for any number of features and any relationships: what   *)
(* its transactions did and told, what its scopes undo, and which cycles    *)
(* its search finds.                                                        *)
(***************************************************************************)
EXTENDS RateLimiter, IdGenerator, FeatureManager, FiniteSetTheorems, SequenceTheorems, WellFoundedInduction, TLAPS

-----------------------------------------------------------------------------
(* The invariant of the limiters. *)

(* The ticks that some tokens take. *)
Ticks(n) == n * TicksPerToken

(* The clock goes forward, and so do the times of what was let through. *)
TimesInOrder ==
  /\ limiter \in {"token", "window", "leaky"} /\ now \in Nat
  /\ granted \in Seq(0 .. now)
  /\ \A i, j \in 1 .. Len(granted) : i <= j => granted[i] <= granted[j]

(* What was let through since the i-th token, and what is in the bucket,    *)
(* come from a burst and from what was refilled since.                      *)
TokensAccounted ==
  limiter = "token" => \A i \in 1 .. Len(granted) :
    /\ granted[i] <= mLastRefill
    /\ Ticks(Len(granted) - i + 1) + mTokens <= Full + (mLastRefill - granted[i])

(* The timestamps are the last of the grants; the others are out of the window. *)
LatestKept ==
  limiter = "window" =>
    /\ Len(mTimestamps) <= Len(granted)
    /\ \A n \in 1 .. Len(mTimestamps) :
         mTimestamps[n] = granted[Len(granted) - Len(mTimestamps) + n]
    /\ \A i \in 1 .. Len(granted) - Len(mTimestamps) : granted[i] + WindowDuration < now

(* What was let through since the i-th request is still queued or has leaked. *)
RequestsAccounted ==
  limiter = "leaky" => \A i \in 1 .. Len(granted) :
    Ticks(Len(granted) - i + 1)
      < Ticks(mQueueSize) + (mLastLeak - granted[i]) + TicksPerToken

LimiterInv ==
  /\ LimiterTypeOK /\ TimesInOrder
  /\ TokensAccounted /\ LatestKept /\ RequestsAccounted
  /\ RatesAreKept

-----------------------------------------------------------------------------
(* Arithmetic of tokens and ticks. *)

(* The ticks of some tokens and of others are those of all of them. *)
LEMMA TicksAdd == \A a, b \in Int : Ticks(a + b) = Ticks(a) + Ticks(b)
BY LimiterAssumption, SMT DEF Ticks

(* The ticks of a number of tokens, of none, and of one. *)
LEMMA TicksType ==
  /\ TicksPerToken \in Nat \ {0} /\ Full \in Nat /\ Full = Ticks(BucketCapacity)
  /\ BucketCapacity \in Nat \ {0}
  /\ \A a \in Int : Ticks(a) \in Int
  /\ \A a \in Nat : Ticks(a) \in Nat
  /\ Ticks(1) = TicksPerToken /\ Ticks(0) = 0
BY LimiterAssumption, SMT DEF Full, Ticks

(* More tokens take more ticks. *)
LEMMA TicksGrow == \A a, b \in Int : a <= b => Ticks(a) <= Ticks(b)
<1>1. SUFFICES ASSUME NEW a \in Int, NEW b \in Int, a <= b
               PROVE  Ticks(a) <= Ticks(b)
  OBVIOUS
<1>2. Ticks(b) = Ticks(a) + Ticks(b - a)
  <2>1. b = a + (b - a) /\ b - a \in Int
    OBVIOUS
  <2>2. QED
    BY <2>1, TicksAdd
<1>3. Ticks(a) \in Int /\ Ticks(b - a) \in Nat
  <2>1. b - a \in Nat
    BY <1>1
  <2>2. QED
    BY <2>1, TicksType
<1>. QED
  BY <1>2, <1>3

(* What the windows have left is bounded by what they had, and by the time. *)
LEMMA SumsRefill ==
  ASSUME NEW u \in Int, NEW m \in Int, NEW f \in Int, NEW l \in Int, NEW g \in Int,
         NEW r \in Int, NEW n \in Int,
         u + m <= f + (l - g), r <= m + (n - l)
  PROVE  u + r <= f + (n - g)
OBVIOUS

LEMMA SumsShrink ==
  ASSUME NEW t \in Int, NEW u \in Int, NEW m \in Nat, NEW s \in Int,
         t <= u, u + m <= s
  PROVE  t <= s
OBVIOUS

(* A bound by one sum is a bound by a sum that is not less. *)
LEMMA SumsMove ==
  ASSUME NEW t \in Int, NEW g \in Int, NEW k \in Int,
         NEW q \in Int, NEW m \in Int, NEW a \in Int, NEW l \in Int,
         t < q + (m - g) + k, q + m <= a + l
  PROVE  t < a + (l - g) + k
OBVIOUS

(* What a call that lets tokens through does to the history. *)
LEMMA GrantedGrows ==
  ASSUME TimesInOrder, NEW count \in Nat \ {0}, Grant(count), now' = now, limiter' = limiter
  PROVE  /\ TimesInOrder'
         /\ Len(granted') = Len(granted) + count
         /\ \A i \in 1 .. Len(granted) : granted'[i] = granted[i]
         /\ \A i \in Len(granted) + 1 .. Len(granted) + count : granted'[i] = now
<1>. DEFINE new == [n \in 1 .. count |-> now]
<1>1. granted \in Seq(0 .. now) /\ now \in Nat /\ now \in 0 .. now
  BY DEF TimesInOrder
<1>2. new \in Seq(0 .. now) /\ Len(new) = count
  BY <1>1
<1>3. granted' = granted \o new
  BY DEF Grant
<1>. HIDE DEF new
<1>4. granted' \in Seq(0 .. now) /\ Len(granted') = Len(granted) + count
  BY <1>1, <1>2, <1>3, ConcatProperties
<1>5. \A i \in 1 .. Len(granted) : granted'[i] = granted[i]
  BY <1>1, <1>2, <1>3, ConcatProperties
<1>6. \A i \in Len(granted) + 1 .. Len(granted) + count : granted'[i] = now
  <2>1. SUFFICES ASSUME NEW i \in Len(granted) + 1 .. Len(granted) + count PROVE granted'[i] = now
    OBVIOUS
  <2>2. i \in Int /\ i - Len(granted) \in 1 .. count
    BY <1>1
  <2>3. granted'[i] = new[i - Len(granted)]
    BY <1>1, <1>2, <1>3, <2>2, ConcatProperties
  <2>4. QED
    BY <2>2, <2>3 DEF new
<1>7. TimesInOrder'
  <2>1. SUFFICES ASSUME NEW i \in 1 .. Len(granted'), NEW j \in 1 .. Len(granted'), i <= j
                 PROVE  granted'[i] <= granted'[j]
    BY <1>4 DEF TimesInOrder
  <2>2. i \in 1 .. Len(granted) \/ i \in Len(granted) + 1 .. Len(granted) + count
    BY <1>1, <1>4
  <2>3. j \in 1 .. Len(granted) \/ j \in Len(granted) + 1 .. Len(granted) + count
    BY <1>1, <1>4
  <2>4. CASE j \in 1 .. Len(granted)
    <3>1. i \in 1 .. Len(granted)
      BY <1>1, <1>4, <2>1, <2>2, <2>4
    <3>2. granted[i] <= granted[j]
      BY <2>1, <2>4, <3>1 DEF TimesInOrder
    <3>. QED
      BY <1>5, <2>4, <3>1, <3>2
  <2>5. CASE j \in Len(granted) + 1 .. Len(granted) + count
    <3>1. granted'[j] = now
      BY <1>6, <2>5
    <3>2. granted'[i] <= now
      <4>1. CASE i \in 1 .. Len(granted)
        BY <1>1, <1>5, <4>1
      <4>2. CASE i \in Len(granted) + 1 .. Len(granted) + count
        BY <1>1, <1>6, <4>2
      <4>. QED
        BY <2>2, <4>1, <4>2
    <3>. QED
      BY <3>1, <3>2
  <2>. QED
    BY <2>3, <2>4, <2>5
<1>. QED
  BY <1>4, <1>5, <1>6, <1>7

-----------------------------------------------------------------------------
(* The state of the limiters, as numbers. *)
LEMMA LimiterNumbers ==
  ASSUME LimiterTypeOK, TimesInOrder
  PROVE  /\ now \in Nat /\ Len(granted) \in Nat
         /\ mTokens \in Nat /\ mTokens <= Full /\ mLastRefill \in Nat /\ mLastRefill <= now
         /\ mQueueSize \in Nat /\ mQueueSize <= BucketCapacity
         /\ mLastLeak \in Nat /\ mLastLeak <= now
         /\ \A i \in 1 .. Len(granted) : granted[i] \in Nat /\ granted[i] <= now
<1>1. now \in Nat /\ granted \in Seq(0 .. now)
  BY DEF TimesInOrder
<1>2. \A i \in 1 .. Len(granted) : granted[i] \in Nat /\ granted[i] <= now
  BY <1>1
<1>. QED
  BY <1>1, <1>2, TicksType DEF LimiterTypeOK

(* refill_tokens() never fills above the capacity, nor by more than the time. *)
LEMMA RefilledIs ==
  ASSUME LimiterTypeOK, TimesInOrder
  PROVE  Refilled \in Nat /\ Refilled <= Full /\ Refilled <= mTokens + (now - mLastRefill)
<1>. DEFINE all == mTokens + (now - mLastRefill)
<1>1. all \in Nat /\ Full \in Nat
  BY TicksType DEF LimiterTypeOK, TimesInOrder
<1>2. Refilled = Min({all, Full})
  BY DEF Refilled
<1>. HIDE DEF all
<1>3. \E x \in {all, Full} : \A y \in {all, Full} : x <= y
  BY <1>1
<1>4. Refilled \in {all, Full} /\ Refilled <= all /\ Refilled <= Full
  BY <1>2, <1>3 DEF Min
<1>. QED
  BY <1>1, <1>4 DEF all

(* A call of the token bucket that lets tokens through keeps the account. *)
LEMMA TokensTaken ==
  ASSUME LimiterInv, limiter = "token", NEW count \in Nat \ {0},
         Refilled >= Ticks(count),
         mTokens' = Refilled - Ticks(count),
         Grant(count), mLastRefill' = now, UNCHANGED TokenOthers
  PROVE  LimiterInv'
<1>. DEFINE L == Len(granted)
<1>1. /\ LimiterTypeOK /\ TimesInOrder /\ TokensAccounted /\ RatesAreKept
      /\ limiter' = limiter /\ now' = now /\ L \in Nat /\ now \in Nat
  BY DEF LimiterInv, TokenOthers, TimesInOrder
<1>2. /\ TimesInOrder' /\ Len(granted') = L + count
      /\ \A i \in 1 .. L : granted'[i] = granted[i]
      /\ \A i \in L + 1 .. L + count : granted'[i] = now
  BY <1>1, GrantedGrows
<1>3. Refilled \in Nat /\ Refilled <= Full /\ Refilled <= mTokens + (now - mLastRefill)
  BY <1>1, RefilledIs
<1>4. Ticks(count) \in Nat /\ Full \in Nat /\ mTokens' \in 0 .. Full
  BY <1>3, TicksType
<1>5. LimiterTypeOK'
  BY <1>1, <1>4 DEF LimiterTypeOK, TokenOthers, Full
<1>6. \A i \in 1 .. L : granted[i] \in 0 .. now
  BY <1>1, LimiterNumbers
<1>7. mLastRefill \in Nat /\ mTokens \in Nat /\ now \in Nat /\ Full \in Nat /\ Refilled \in Nat
  BY <1>1, <1>3, <1>4, LimiterNumbers
<1>8. ASSUME NEW i \in 1 .. L + count
      PROVE  /\ granted'[i] <= now
             /\ Ticks(L + count - i + 1) + mTokens' <= Full + (now - granted'[i])
  <2>1. CASE i \in 1 .. L
    <3>1. Ticks(L - i + 1) + mTokens <= Full + (mLastRefill - granted[i])
      BY <1>1, <2>1 DEF TokensAccounted
    <3>2. Ticks(L + count - i + 1) = Ticks(L - i + 1) + Ticks(count)
      <4>1. L + count - i + 1 = (L - i + 1) + count /\ L - i + 1 \in Int /\ count \in Int
        BY <1>1
      <4>2. QED
        BY <4>1, TicksAdd
    <3>3. Ticks(L - i + 1) \in Int
      BY <1>1, TicksType
    <3>4. granted'[i] = granted[i] /\ granted[i] \in 0 .. now
      BY <1>2, <1>6, <2>1
    <3>5. Ticks(L + count - i + 1) + mTokens' = Ticks(L - i + 1) + Refilled
      BY <1>3, <1>4, <3>2, <3>3
    <3>6. Ticks(L - i + 1) + Refilled <= Full + (now - granted[i])
      <4>1. /\ mTokens \in Int /\ Full \in Int /\ mLastRefill \in Int /\ granted[i] \in Int
            /\ Refilled \in Int /\ now \in Int
        BY <1>7, <3>4
      <4>2. Refilled <= mTokens + (now - mLastRefill)
        BY <1>3
      <4>. QED
        BY <3>1, <3>3, <4>1, <4>2, SumsRefill
    <3>. QED
      BY <1>1, <3>4, <3>5, <3>6
  <2>2. CASE i \in L + 1 .. L + count
    <3>1. Ticks(L + count - i + 1) <= Ticks(count)
      <4>1. L + count - i + 1 \in Int /\ L + count - i + 1 <= count
        BY <1>1, <2>2
      <4>2. QED
        BY <4>1, TicksGrow
    <3>2. Ticks(L + count - i + 1) \in Int
      BY <1>1, TicksType
    <3>. QED
      BY <1>1, <1>2, <1>3, <1>4, <2>2, <3>1, <3>2
  <2>. QED
    BY <1>1, <2>1, <2>2
<1>9. TokensAccounted'
  BY <1>1, <1>2, <1>8 DEF TokensAccounted, Full
<1>10. RatesAreKept'
  <2>1. SUFFICES ASSUME NEW j \in 1 .. L + count, NEW i \in 1 .. j
                 PROVE  Ticks(j - i + 1) <= Full + (granted'[j] - granted'[i])
    BY <1>1, <1>2 DEF RatesAreKept, BurstThenRate, NoFullerWindow, QueueThenRate, Span, Ticks
  <2>2. CASE j \in 1 .. L
    <3>1. i \in 1 .. L
      BY <1>1, <2>2
    <3>2. Ticks(j - i + 1) <= Full + Span(i, j)
      BY <1>1, <2>2 DEF RatesAreKept, BurstThenRate, Ticks
    <3>3. granted'[j] - granted'[i] = Span(i, j)
      BY <1>2, <2>2, <3>1 DEF Span
    <3>. QED
      BY <3>2, <3>3
  <2>3. CASE j \in L + 1 .. L + count
    <3>1. granted'[j] = now
      BY <1>2, <2>3
    <3>2. i \in 1 .. L + count /\ Ticks(j - i + 1) <= Ticks(L + count - i + 1)
      BY <1>1, <2>3, TicksGrow
    <3>3. Ticks(j - i + 1) \in Int /\ Ticks(L + count - i + 1) \in Int
      <4>1. j - i + 1 \in Int /\ L + count - i + 1 \in Int
        BY <1>1, <2>3
      <4>2. QED
        BY <4>1, TicksType
    <3>4. granted'[i] \in Int
      BY <1>1, <1>2, <1>6, <3>2
    <3>5. Ticks(L + count - i + 1) + mTokens' <= Full + (now - granted'[i])
      BY <1>8, <3>2
    <3>6. mTokens' \in Nat /\ Full + (now - granted'[i]) \in Int
      BY <1>1, <1>4, <3>4
    <3>. QED
      BY <3>1, <3>2, <3>3, <3>5, <3>6, SumsShrink
  <2>. QED
    BY <1>1, <2>2, <2>3
<1>. QED
  BY <1>1, <1>2, <1>5, <1>9, <1>10 DEF LimiterInv, LatestKept, RequestsAccounted

(* One that lets none through, but refills, keeps it too. *)
LEMMA TokensRefilled ==
  ASSUME LimiterInv, limiter = "token",
         mTokens' = Refilled, mLastRefill' = now, UNCHANGED <<granted, TokenOthers>>
  PROVE  LimiterInv'
<1>1. /\ LimiterTypeOK /\ TimesInOrder /\ TokensAccounted /\ RatesAreKept
      /\ limiter' = limiter /\ now' = now /\ granted' = granted /\ now \in Nat
  BY DEF LimiterInv, TokenOthers, TimesInOrder
<1>2. Refilled \in Nat /\ Refilled <= Full /\ Refilled <= mTokens + (now - mLastRefill)
  BY <1>1, RefilledIs
<1>3. LimiterTypeOK' /\ TimesInOrder'
  BY <1>1, <1>2 DEF LimiterTypeOK, TokenOthers, Full, TimesInOrder
<1>4. TokensAccounted'
  <2>1. SUFFICES ASSUME NEW i \in 1 .. Len(granted)
                 PROVE  /\ granted[i] <= now
                        /\ Ticks(Len(granted) - i + 1) + Refilled
                             <= Full + (now - granted[i])
    BY <1>1 DEF TokensAccounted, Full
  <2>2. /\ granted[i] <= mLastRefill
        /\ Ticks(Len(granted) - i + 1) + mTokens <= Full + (mLastRefill - granted[i])
    BY <1>1 DEF TokensAccounted
  <2>3. /\ Ticks(Len(granted) - i + 1) \in Int /\ Full \in Nat
        /\ granted[i] \in Nat /\ mLastRefill \in Nat /\ mTokens \in Nat
    <3>1. Len(granted) - i + 1 \in Int
      BY <1>1, LimiterNumbers
    <3>2. Ticks(Len(granted) - i + 1) \in Int
      BY <3>1, TicksType
    <3>. QED
      BY <1>1, <3>2, LimiterNumbers, TicksType
  <2>4. Refilled - mTokens <= now - mLastRefill
    BY <1>1, <1>2, <2>3
  <2>5. granted[i] <= now
    BY <1>1, <2>2, <2>3, LimiterNumbers
  <2>6. Ticks(Len(granted) - i + 1) + mTokens <= Full + mLastRefill - granted[i]
    BY <2>2, <2>3
  <2>. QED
    BY <1>1, <1>2, <2>3, <2>4, <2>5, <2>6
<1>5. RatesAreKept'
  BY <1>1 DEF RatesAreKept, BurstThenRate, NoFullerWindow, QueueThenRate, Span, Full
<1>. QED
  BY <1>1, <1>3, <1>4, <1>5 DEF LimiterInv, LatestKept, RequestsAccounted

-----------------------------------------------------------------------------
(* The timestamps are in the order of time. *)
LEMMA StampsInOrder ==
  ASSUME LimiterTypeOK, TimesInOrder, LatestKept, limiter = "window"
  PROVE  /\ mTimestamps \in Seq(0 .. now) /\ now \in Nat /\ Len(mTimestamps) \in 0 .. Len(granted)
         /\ \A m, n \in 1 .. Len(mTimestamps) : m <= n => mTimestamps[m] <= mTimestamps[n]
<1>1. /\ mTimestamps \in Seq(0 .. now) /\ now \in Nat
      /\ Len(granted) \in Nat /\ Len(mTimestamps) \in Nat /\ Len(mTimestamps) <= Len(granted)
  BY DEF LimiterTypeOK, TimesInOrder, LatestKept
<1>2. SUFFICES ASSUME NEW m \in 1 .. Len(mTimestamps), NEW n \in 1 .. Len(mTimestamps), m <= n
               PROVE  mTimestamps[m] <= mTimestamps[n]
  BY <1>1
<1>. DEFINE past == Len(granted) - Len(mTimestamps)
<1>3. past + m \in 1 .. Len(granted) /\ past + n \in 1 .. Len(granted) /\ past + m <= past + n
  BY <1>1, <1>2
<1>4. mTimestamps[m] = granted[past + m] /\ mTimestamps[n] = granted[past + n]
  BY DEF LatestKept
<1>. HIDE DEF past
<1>. QED
  BY <1>3, <1>4 DEF TimesInOrder

(* A set of numbers that is not empty has a least one. *)
LEMMA LeastOf ==
  ASSUME NEW S \in SUBSET Nat, S # {}
  PROVE  \E n \in S : \A m \in S : n <= m
<1>1. PICK n \in S : \A m \in S : ~ (<<m, n>> \in OpToRel(<, Nat))
  BY NatLessThanWellFounded, WFMin
<1>2. ASSUME NEW m \in S, m < n PROVE FALSE
  <2>1. <<m, n>> \in Nat \X Nat /\ <<m, n>>[1] = m /\ <<m, n>>[2] = n OBVIOUS
  <2>2. <<m, n>> \in OpToRel(<, Nat) BY <1>2, <2>1 DEF OpToRel
  <2> QED BY <1>1, <2>2
<1> QED BY <1>2

(* A set of positions in a list, and none, has a largest element. *)
LEMMA MaxPosition ==
  ASSUME NEW n \in Nat, NEW S \in SUBSET (1 .. n)
  PROVE  /\ Max({0} \cup S) \in {0} \cup S
         /\ \A i \in S : i <= Max({0} \cup S)
<1>. DEFINE T == {0} \cup S
            Bounds == {b \in Nat : \A i \in T : i <= b}
<1>1. n \in Bounds
  OBVIOUS
<1>2. PICK b \in Bounds : \A c \in Bounds : b <= c
  <2>1. Bounds \subseteq Nat /\ Bounds # {}
    BY <1>1
  <2>. HIDE DEF Bounds
  <2>. QED
    BY <2>1, LeastOf
<1>3. b \in T
  <2>1. SUFFICES ASSUME b \notin T PROVE FALSE
    OBVIOUS
  <2>2. b # 0 /\ b \in Nat
    BY <2>1
  <2>3. b - 1 \in Bounds
    BY <2>1, <2>2
  <2>. QED
    BY <1>2, <2>2, <2>3
<1>4. \E x \in T : \A y \in T : x >= y
  BY <1>2, <1>3
<1>5. Max(T) \in T /\ \A y \in T : Max(T) >= y
  BY <1>4 DEF Max
<1>6. T \subseteq Nat
  OBVIOUS
<1>. QED
  BY <1>5, <1>6

(* cleanup_old_timestamps() leaves the timestamps that are in the window. *)
LEMMA RecentIs ==
  ASSUME LimiterTypeOK, TimesInOrder, LatestKept, limiter = "window"
  PROVE  \E k \in 0 .. Len(mTimestamps) :
           /\ Recent \in Seq(0 .. now)
           /\ Len(Recent) = Len(mTimestamps) - k
           /\ \A n \in 1 .. Len(mTimestamps) - k : Recent[n] = mTimestamps[k + n]
           /\ \A n \in 1 .. k : mTimestamps[n] + WindowDuration < now
<1>. DEFINE L == Len(mTimestamps)
            old == {n \in DOMAIN mTimestamps : mTimestamps[n] + WindowDuration < now}
            k == Max({0} \cup old)
<1>1. /\ mTimestamps \in Seq(0 .. now) /\ now \in Nat /\ L \in Nat
      /\ \A m, n \in 1 .. L : m <= n => mTimestamps[m] <= mTimestamps[n]
  BY StampsInOrder
<1>2. old \in SUBSET (1 .. L)
  BY <1>1
<1>3. k \in {0} \cup old
  <2>. HIDE DEF old
  <2>. QED
    BY <1>1, <1>2, MaxPosition
<1>4. k \in 0 .. L
  BY <1>1, <1>2, <1>3
<1>5. Recent = SubSeq(mTimestamps, k + 1, L)
  BY DEF Recent, Without
<1>6. \A n \in 1 .. k : mTimestamps[n] + WindowDuration < now
  <2>1. SUFFICES ASSUME NEW n \in 1 .. k PROVE mTimestamps[n] + WindowDuration < now
    OBVIOUS
  <2>2. k \in old /\ n \in 1 .. L /\ k \in 1 .. L /\ n <= k
    BY <1>1, <1>3, <1>4, <2>1
  <2>3. mTimestamps[k] + WindowDuration < now
    BY <2>2
  <2>. HIDE DEF k
  <2>4. mTimestamps[n] <= mTimestamps[k] /\ mTimestamps[n] \in Nat /\ mTimestamps[k] \in Nat
    BY <1>1, <2>2
  <2>5. WindowDuration \in Nat
    BY LimiterAssumption
  <2>. QED
    BY <1>1, <2>3, <2>4, <2>5
<1>. HIDE DEF k
<1>7. \A i \in k + 1 .. L : mTimestamps[i] \in 0 .. now
  BY <1>1, <1>4
<1>8. /\ Recent \in Seq(0 .. now) /\ Len(Recent) = L - k
      /\ \A n \in 1 .. L - k : Recent[n] = mTimestamps[k + n]
  <2>1. /\ SubSeq(mTimestamps, k + 1, L) \in Seq(0 .. now)
        /\ Len(SubSeq(mTimestamps, k + 1, L)) = IF k + 1 <= L THEN L - (k + 1) + 1 ELSE 0
        /\ \A n \in 1 .. L - (k + 1) + 1 : SubSeq(mTimestamps, k + 1, L)[n] = mTimestamps[k + 1 + n - 1]
    <3>1. k + 1 \in Int /\ L \in Int
      BY <1>1, <1>4
    <3>2. QED
      BY <1>7, <3>1, SubSeqProperties
  <2>2. \A n \in Int : k + 1 + n - 1 = k + n
    BY <1>4
  <2>3. L - (k + 1) + 1 = L - k /\ (IF k + 1 <= L THEN L - (k + 1) + 1 ELSE 0) = L - k
    BY <1>1, <1>4
  <2>4. \A n \in 1 .. L - k : n \in Int
    BY <1>1, <1>4
  <2>. QED
    BY <1>5, <2>1, <2>2, <2>3, <2>4
<1>. QED
  BY <1>4, <1>6, <1>8

(* A call that lets a request through keeps the latest. *)
LEMMA RequestStamped ==
  ASSUME LimiterInv, limiter = "window", Len(Recent) < MaxRequests,
         mTimestamps' = Append(Recent, now), Grant(1), UNCHANGED WindowOthers
  PROVE  LimiterInv'
<1>. DEFINE L == Len(granted)
            K == Len(mTimestamps)
<1>1. /\ LimiterTypeOK /\ TimesInOrder /\ LatestKept /\ RatesAreKept
      /\ limiter' = limiter /\ now' = now /\ now \in Nat /\ L \in Nat
  BY DEF LimiterInv, WindowOthers, TimesInOrder
<1>2. /\ TimesInOrder' /\ Len(granted') = L + 1
      /\ \A i \in 1 .. L : granted'[i] = granted[i]
      /\ granted'[L + 1] = now
  <2>1. /\ TimesInOrder' /\ Len(granted') = L + 1
        /\ \A i \in 1 .. L : granted'[i] = granted[i]
        /\ \A i \in L + 1 .. L + 1 : granted'[i] = now
    BY <1>1, GrantedGrows
  <2>2. L + 1 \in L + 1 .. L + 1
    BY <1>1
  <2>. QED
    BY <2>1, <2>2
<1>3. /\ mTimestamps \in Seq(0 .. now) /\ K \in 0 .. L
      /\ WindowDuration \in Nat /\ MaxRequests \in Nat
      /\ \A i \in 1 .. L : granted[i] \in Nat /\ granted[i] <= now
  BY <1>1, StampsInOrder, LimiterNumbers, LimiterAssumption
<1>4. PICK k \in 0 .. K :
        /\ Recent \in Seq(0 .. now) /\ Len(Recent) = K - k
        /\ \A n \in 1 .. K - k : Recent[n] = mTimestamps[k + n]
        /\ \A n \in 1 .. k : mTimestamps[n] + WindowDuration < now
  BY <1>1, RecentIs
<1>5. /\ mTimestamps' \in Seq(0 .. now) /\ Len(mTimestamps') = K - k + 1
      /\ \A n \in 1 .. K - k : mTimestamps'[n] = Recent[n]
      /\ mTimestamps'[K - k + 1] = now
  <2>1. now \in 0 .. now
    BY <1>1
  <2>. QED
    BY <1>4, <2>1, AppendProperties
<1>6. K - k + 1 <= MaxRequests
  BY <1>3, <1>4
<1>7. LimiterTypeOK'
  BY <1>1, <1>5, <1>6 DEF LimiterTypeOK, WindowOthers, Full
<1>8. \A n \in 1 .. K : mTimestamps[n] = granted[L - K + n]
  BY <1>1 DEF LatestKept
<1>9. ASSUME NEW n \in 1 .. K - k + 1
      PROVE  mTimestamps'[n] = granted'[L + 1 - (K - k + 1) + n]
  <2>1. CASE n \in 1 .. K - k
    <3>1. mTimestamps'[n] = mTimestamps[k + n] /\ k + n \in 1 .. K
      BY <1>3, <1>4, <1>5, <2>1
    <3>2. mTimestamps'[n] = granted[L - K + (k + n)]
      BY <1>8, <3>1
    <3>3. L - K + (k + n) \in 1 .. L /\ L - K + (k + n) = L + 1 - (K - k + 1) + n
      BY <1>1, <1>3, <1>4, <2>1
    <3>. QED
      BY <1>2, <3>2, <3>3
  <2>2. CASE n = K - k + 1
    <3>1. L + 1 - (K - k + 1) + n = L + 1
      BY <1>1, <1>3, <1>4, <2>2
    <3>. QED
      BY <1>2, <1>5, <2>2, <3>1
  <2>. QED
    BY <1>3, <1>4, <2>1, <2>2
<1>10. ASSUME NEW i \in 1 .. L + 1 - (K - k + 1)
       PROVE  i \in 1 .. L /\ granted[i] + WindowDuration < now
  <2>1. i \in 1 .. L
    BY <1>1, <1>3, <1>4
  <2>2. CASE i \in 1 .. L - K
    BY <1>1, <2>1, <2>2 DEF LatestKept
  <2>3. CASE i \notin 1 .. L - K
    <3>1. i - (L - K) \in 1 .. k /\ i - (L - K) \in 1 .. K /\ L - K + (i - (L - K)) = i
      <4>1. i \in Nat \ {0} /\ L \in Nat /\ K \in 0 .. L /\ k \in 0 .. K
        BY <1>1, <1>3, <2>1
      <4>2. L - K < i /\ i <= L - K + k
        BY <2>3, <4>1
      <4>. QED
        BY <4>1, <4>2
    <3>2. mTimestamps[i - (L - K)] = granted[i]
      BY <1>8, <3>1
    <3>. QED
      BY <1>4, <2>1, <3>1, <3>2
  <2>. QED
    BY <2>1, <2>2, <2>3
<1>11. LatestKept'
  <2>1. \A i \in 1 .. L + 1 - (K - k + 1) : granted'[i] + WindowDuration < now
    BY <1>2, <1>10
  <2>2. K - k + 1 <= L + 1
    BY <1>1, <1>3, <1>4
  <2>. QED
    BY <1>1, <1>2, <1>5, <1>9, <2>1, <2>2 DEF LatestKept
<1>12. RatesAreKept'
  <2>1. SUFFICES ASSUME NEW j \in 1 .. L + 1, NEW i \in 1 .. j,
                        granted'[j] - granted'[i] <= WindowDuration
                 PROVE  j - i < MaxRequests
    BY <1>1, <1>2 DEF RatesAreKept, BurstThenRate, NoFullerWindow, QueueThenRate, Span
  <2>2. CASE j \in 1 .. L
    <3>1. i \in 1 .. L
      BY <1>1, <2>2
    <3>2. Span(i, j) <= WindowDuration => j - i < MaxRequests
      BY <1>1, <2>2 DEF RatesAreKept, NoFullerWindow
    <3>3. granted'[j] - granted'[i] = Span(i, j)
      BY <1>2, <2>2, <3>1 DEF Span
    <3>. QED
      BY <2>1, <3>2, <3>3
  <2>3. CASE j = L + 1
    <3>1. i \notin 1 .. L + 1 - (K - k + 1)
      <4>1. SUFFICES ASSUME i \in 1 .. L + 1 - (K - k + 1) PROVE FALSE
        OBVIOUS
      <4>2. i \in 1 .. L /\ granted[i] + WindowDuration < now
        BY <1>10, <4>1
      <4>3. granted'[i] = granted[i] /\ granted'[j] = now
        BY <1>2, <2>3, <4>2
      <4>4. granted[i] \in Nat
        BY <1>3, <4>2
      <4>. QED
        BY <1>1, <1>3, <2>1, <4>2, <4>3, <4>4
    <3>. QED
      BY <1>1, <1>3, <1>4, <1>6, <2>3, <3>1
  <2>. QED
    BY <1>1, <2>2, <2>3
<1>. QED
  BY <1>1, <1>2, <1>7, <1>11, <1>12 DEF LimiterInv, TokensAccounted, RequestsAccounted

(* One that lets none through, but looks, keeps them too. *)
LEMMA StampsCleaned ==
  ASSUME LimiterInv, limiter = "window",
         mTimestamps' = Recent, UNCHANGED <<granted, WindowOthers>>
  PROVE  LimiterInv'
<1>. DEFINE L == Len(granted)
            K == Len(mTimestamps)
<1>1. /\ LimiterTypeOK /\ TimesInOrder /\ LatestKept /\ RatesAreKept
      /\ limiter' = limiter /\ now' = now /\ granted' = granted /\ now \in Nat /\ L \in Nat
  BY DEF LimiterInv, WindowOthers, TimesInOrder
<1>2. K \in 0 .. L /\ K <= MaxRequests /\ MaxRequests \in Nat
  BY <1>1, StampsInOrder, LimiterAssumption DEF LimiterTypeOK
<1>3. PICK k \in 0 .. K :
        /\ Recent \in Seq(0 .. now) /\ Len(Recent) = K - k
        /\ \A n \in 1 .. K - k : Recent[n] = mTimestamps[k + n]
        /\ \A n \in 1 .. k : mTimestamps[n] + WindowDuration < now
  BY <1>1, RecentIs
<1>4. LimiterTypeOK' /\ TimesInOrder'
  <2>1. K - k <= MaxRequests
    BY <1>2, <1>3
  <2>. QED
    BY <1>1, <1>3, <2>1 DEF LimiterTypeOK, WindowOthers, Full, TimesInOrder
<1>5. \A n \in 1 .. K : mTimestamps[n] = granted[L - K + n]
  BY <1>1 DEF LatestKept
<1>6. ASSUME NEW n \in 1 .. K - k
      PROVE  Recent[n] = granted[L - (K - k) + n]
  <2>1. k + n \in 1 .. K /\ L - K + (k + n) = L - (K - k) + n
    BY <1>1, <1>2, <1>3
  <2>. QED
    BY <1>3, <1>5, <2>1
<1>7. ASSUME NEW i \in 1 .. L - (K - k)
      PROVE  granted[i] + WindowDuration < now
  <2>1. CASE i \in 1 .. L - K
    BY <1>1, <2>1 DEF LatestKept
  <2>2. CASE i \notin 1 .. L - K
    <3>1. i - (L - K) \in 1 .. k /\ i - (L - K) \in 1 .. K /\ L - K + (i - (L - K)) = i
      BY <1>1, <1>2, <1>3, <2>2
    <3>2. mTimestamps[i - (L - K)] = granted[i]
      BY <1>5, <3>1
    <3>. QED
      BY <1>3, <3>1, <3>2
  <2>. QED
    BY <2>1, <2>2
<1>8. LatestKept'
  <2>1. K - k <= L
    BY <1>1, <1>2, <1>3
  <2>. QED
    BY <1>1, <1>3, <1>6, <1>7, <2>1 DEF LatestKept
<1>9. RatesAreKept'
  BY <1>1 DEF RatesAreKept, BurstThenRate, NoFullerWindow, QueueThenRate, Span, Full
<1>. QED
  BY <1>1, <1>4, <1>8, <1>9 DEF LimiterInv, TokensAccounted, RequestsAccounted

-----------------------------------------------------------------------------
(* leak() moves requests out of the queue for the time they take and leaves *)
(* less than one request's time for later.                                  *)
LEMMA LeakIs ==
  ASSUME LimiterTypeOK, TimesInOrder
  PROVE  /\ AfterLeak \in Nat /\ AfterLeak <= mQueueSize
         /\ LeakedUpTo \in Nat /\ LeakedUpTo <= now /\ now < LeakedUpTo + TicksPerToken
         /\ Ticks(mQueueSize) + mLastLeak <= Ticks(AfterLeak) + LeakedUpTo
<1>. DEFINE span == now - mLastLeak
<1>1. /\ span \in Nat /\ TicksPerToken \in Nat \ {0}
      /\ now \in Nat /\ mQueueSize \in Nat /\ mLastLeak \in Nat
  <2>1. now \in Nat /\ mLastLeak \in Nat /\ mLastLeak <= now
    BY LimiterNumbers
  <2>2. mQueueSize \in Nat /\ TicksPerToken \in Nat \ {0}
    BY LimiterNumbers, TicksType
  <2>. QED
    BY <2>1, <2>2
<1>2. Leaked \in Nat /\ span = TicksPerToken * Leaked + (span % TicksPerToken)
      /\ span % TicksPerToken \in 0 .. TicksPerToken - 1
  BY <1>1, SMT DEF Leaked
<1>3. LeakedUpTo = mLastLeak + Ticks(Leaked) /\ Ticks(Leaked) \in Nat
  <2>1. Ticks(Leaked) \in Nat
    BY <1>2, TicksType
  <2>. QED
    BY <2>1 DEF LeakedUpTo, Ticks
<1>4. TicksPerToken * Leaked = Ticks(Leaked)
  BY <1>1, <1>2 DEF Ticks
<1>5. LeakedUpTo \in Nat /\ LeakedUpTo <= now /\ now < LeakedUpTo + TicksPerToken
  BY <1>1, <1>2, <1>3, <1>4
<1>6. AfterLeak \in Nat /\ AfterLeak <= mQueueSize /\ mQueueSize <= AfterLeak + Leaked
  BY <1>1, <1>2 DEF AfterLeak
<1>7. Ticks(mQueueSize) <= Ticks(AfterLeak) + Ticks(Leaked)
  <2>1. Ticks(AfterLeak + Leaked) = Ticks(AfterLeak) + Ticks(Leaked)
    BY <1>2, <1>6, TicksAdd
  <2>. QED
    BY <1>1, <1>2, <1>6, <2>1, TicksGrow
<1>8. Ticks(AfterLeak) \in Nat /\ Ticks(mQueueSize) \in Nat
  BY <1>1, <1>6, TicksType
<1>. QED
  BY <1>1, <1>3, <1>5, <1>6, <1>7, <1>8

(* A call that queues a request keeps the account. *)
LEMMA RequestQueued ==
  ASSUME LimiterInv, limiter = "leaky", AfterLeak < BucketCapacity,
         mQueueSize' = AfterLeak + 1, mLastLeak' = LeakedUpTo, Grant(1), UNCHANGED LeakyOthers
  PROVE  LimiterInv'
<1>. DEFINE L == Len(granted)
<1>1. /\ LimiterTypeOK /\ TimesInOrder /\ RequestsAccounted /\ RatesAreKept
      /\ limiter' = limiter /\ now' = now /\ now \in Nat /\ L \in Nat
  BY DEF LimiterInv, LeakyOthers, TimesInOrder
<1>2. /\ TimesInOrder' /\ Len(granted') = L + 1
      /\ \A i \in 1 .. L : granted'[i] = granted[i]
      /\ granted'[L + 1] = now
  <2>1. /\ TimesInOrder' /\ Len(granted') = L + 1
        /\ \A i \in 1 .. L : granted'[i] = granted[i]
        /\ \A i \in L + 1 .. L + 1 : granted'[i] = now
    BY <1>1, GrantedGrows
  <2>2. L + 1 \in L + 1 .. L + 1
    BY <1>1
  <2>. QED
    BY <2>1, <2>2
<1>3. /\ AfterLeak \in Nat /\ LeakedUpTo \in Nat /\ LeakedUpTo <= now
      /\ now < LeakedUpTo + TicksPerToken
      /\ Ticks(mQueueSize) + mLastLeak <= Ticks(AfterLeak) + LeakedUpTo
  BY <1>1, LeakIs
<1>4. /\ Ticks(AfterLeak + 1) = Ticks(AfterLeak) + TicksPerToken
      /\ Ticks(AfterLeak) \in Nat /\ Ticks(mQueueSize) \in Nat
      /\ TicksPerToken \in Nat \ {0} /\ Full \in Nat /\ BucketCapacity \in Nat
  <2>1. mQueueSize \in Nat
    BY <1>1, LimiterNumbers
  <2>. QED
    BY <1>3, <2>1, TicksAdd, TicksType
<1>5. LimiterTypeOK'
  <2>1. AfterLeak + 1 \in 0 .. BucketCapacity /\ LeakedUpTo \in 0 .. now
    BY <1>1, <1>3, <1>4
  <2>. QED
    BY <1>1, <2>1 DEF LimiterTypeOK, LeakyOthers, Full
<1>6. mLastLeak \in Nat /\ \A i \in 1 .. L : granted[i] \in Nat /\ granted[i] <= now
  BY <1>1, LimiterNumbers
<1>7. ASSUME NEW i \in 1 .. L + 1
      PROVE  /\ granted'[i] \in Nat /\ granted'[i] <= now /\ Ticks(L + 1 - i + 1) \in Int
             /\ Ticks(L + 1 - i + 1)
                  < Ticks(AfterLeak + 1) + (LeakedUpTo - granted'[i]) + TicksPerToken
  <2>1. CASE i \in 1 .. L
    <3>1. Ticks(L - i + 1) < Ticks(mQueueSize) + (mLastLeak - granted[i]) + TicksPerToken
      BY <1>1, <2>1 DEF RequestsAccounted
    <3>2. Ticks(L + 1 - i + 1) = Ticks(L - i + 1) + TicksPerToken /\ Ticks(L - i + 1) \in Int
      <4>1. L + 1 - i + 1 = (L - i + 1) + 1 /\ L - i + 1 \in Int
        BY <1>1
      <4>2. QED
        <5>1. Ticks((L - i + 1) + 1) = Ticks(L - i + 1) + Ticks(1)
          BY <4>1, TicksAdd
        <5>2. Ticks(L - i + 1) \in Int /\ Ticks(1) = TicksPerToken
          BY <4>1, TicksType
        <5>. QED
          BY <4>1, <5>1, <5>2
    <3>3. granted'[i] = granted[i] /\ granted[i] \in Nat /\ granted[i] <= now
      BY <1>2, <1>6, <2>1
    <3>4. Ticks(L - i + 1) < Ticks(AfterLeak) + (LeakedUpTo - granted[i]) + TicksPerToken
      <4>1. /\ Ticks(L - i + 1) \in Int /\ granted[i] \in Int /\ LeakedUpTo \in Int
            /\ mLastLeak \in Int /\ Ticks(AfterLeak) \in Int /\ Ticks(mQueueSize) \in Int
            /\ TicksPerToken \in Int
        BY <1>3, <1>4, <1>6, <3>2, <3>3
      <4>2. Ticks(mQueueSize) + mLastLeak <= Ticks(AfterLeak) + LeakedUpTo
        BY <1>3
      <4>. QED
        BY <3>1, <4>1, <4>2, SumsMove
    <3>5. /\ Ticks(L - i + 1) \in Int /\ granted[i] \in Int /\ LeakedUpTo \in Int
          /\ Ticks(AfterLeak) \in Int /\ TicksPerToken \in Int
      BY <1>3, <1>4, <3>2, <3>3
    <3>6. Ticks(AfterLeak + 1) = Ticks(AfterLeak) + TicksPerToken
      BY <1>4
    <3>7. Ticks(L + 1 - i + 1)
            < Ticks(AfterLeak + 1) + (LeakedUpTo - granted[i]) + TicksPerToken
      BY <3>2, <3>4, <3>5, <3>6
    <3>. QED
      BY <3>2, <3>3, <3>5, <3>7
  <2>2. CASE i = L + 1
    <3>1. L + 1 - i + 1 = 1
      BY <1>1, <2>2
    <3>2. Ticks(L + 1 - i + 1) = TicksPerToken
      BY <3>1, TicksType
    <3>3. granted'[i] = now
      BY <1>2, <2>2
    <3>. QED
      BY <1>1, <1>3, <1>4, <3>2, <3>3
  <2>. QED
    BY <1>1, <2>1, <2>2
<1>8. RequestsAccounted'
  BY <1>1, <1>2, <1>7 DEF RequestsAccounted, Ticks
<1>9. ASSUME NEW j \in 1 .. L + 1, NEW i \in 1 .. j
      PROVE  Ticks(j - i + 1) < Full + (granted'[j] - granted'[i]) + TicksPerToken
  <2>1. CASE j \in 1 .. L
    <3>1. i \in 1 .. L
      BY <1>1, <2>1
    <3>2. Ticks(j - i + 1) < Full + Span(i, j) + TicksPerToken
      BY <1>1, <2>1 DEF RatesAreKept, QueueThenRate, Ticks
    <3>3. granted'[j] - granted'[i] = Span(i, j)
      BY <1>2, <2>1, <3>1 DEF Span
    <3>. QED
      BY <3>2, <3>3
  <2>2. CASE j = L + 1
    <3>1. Ticks(AfterLeak + 1) <= Full /\ Ticks(AfterLeak + 1) \in Int
      <4>1. AfterLeak + 1 \in Int /\ BucketCapacity \in Int /\ AfterLeak + 1 <= BucketCapacity
        BY <1>3, <1>4
      <4>2. QED
        BY <4>1, TicksType, TicksGrow
    <3>2. i \in 1 .. L + 1 /\ j - i + 1 = L + 1 - i + 1
      BY <1>1, <2>2
    <3>3. Ticks(L + 1 - i + 1) < Ticks(AfterLeak + 1) + (LeakedUpTo - granted'[i]) + TicksPerToken
          /\ granted'[i] \in Nat /\ Ticks(L + 1 - i + 1) \in Int
      BY <1>7, <3>2
    <3>4. granted'[j] = now
      BY <1>2, <2>2
    <3>5. LeakedUpTo \in Nat /\ LeakedUpTo <= now /\ now \in Nat /\ Full \in Nat /\ TicksPerToken \in Nat
      BY <1>1, <1>3, <1>4
    <3>6. Ticks(L + 1 - i + 1) < Full + (now - granted'[i]) + TicksPerToken
      <4>1. Ticks(AfterLeak + 1) + LeakedUpTo <= Full + now
        BY <3>1, <3>5, Z3
      <4>2. granted'[i] \in Int /\ LeakedUpTo \in Int /\ now \in Int /\ Full \in Int /\ TicksPerToken \in Int
        BY <3>3, <3>5
      <4>. QED
        BY <3>1, <3>3, <4>1, <4>2, SumsMove
    <3>. QED
      BY <3>2, <3>4, <3>6
  <2>. QED
    BY <1>1, <2>1, <2>2
<1>10. RatesAreKept'
  BY <1>1, <1>2, <1>9 DEF RatesAreKept, BurstThenRate, NoFullerWindow, QueueThenRate, Span, Ticks, Full
<1>. QED
  BY <1>1, <1>2, <1>5, <1>8, <1>10 DEF LimiterInv, TokensAccounted, LatestKept

(* One that queues none, but leaks, keeps it too. *)
LEMMA QueueLeaked ==
  ASSUME LimiterInv, limiter = "leaky",
         mQueueSize' = AfterLeak, mLastLeak' = LeakedUpTo, UNCHANGED <<granted, LeakyOthers>>
  PROVE  LimiterInv'
<1>1. /\ LimiterTypeOK /\ TimesInOrder /\ RequestsAccounted /\ RatesAreKept
      /\ limiter' = limiter /\ now' = now /\ granted' = granted
  BY DEF LimiterInv, LeakyOthers
<1>2. /\ AfterLeak \in Nat /\ AfterLeak <= mQueueSize /\ LeakedUpTo \in Nat /\ LeakedUpTo <= now
      /\ Ticks(mQueueSize) + mLastLeak <= Ticks(AfterLeak) + LeakedUpTo
  BY <1>1, LeakIs
<1>3. LimiterTypeOK' /\ TimesInOrder'
  <2>1. mQueueSize \in Nat /\ mQueueSize <= BucketCapacity /\ BucketCapacity \in Nat /\ now \in Nat
    BY <1>1, LimiterNumbers, TicksType
  <2>2. AfterLeak \in 0 .. BucketCapacity /\ LeakedUpTo \in 0 .. now
    BY <1>2, <2>1
  <2>. QED
    BY <1>1, <2>2 DEF LimiterTypeOK, LeakyOthers, Full, TimesInOrder
<1>4. RequestsAccounted'
  <2>1. SUFFICES ASSUME NEW i \in 1 .. Len(granted)
                 PROVE  Ticks(Len(granted) - i + 1)
                          < Ticks(AfterLeak) + (LeakedUpTo - granted[i]) + TicksPerToken
    BY <1>1 DEF RequestsAccounted, Ticks
  <2>2. Ticks(Len(granted) - i + 1)
          < Ticks(mQueueSize) + (mLastLeak - granted[i]) + TicksPerToken
    BY <1>1 DEF RequestsAccounted
  <2>3. Len(granted) - i + 1 \in Int /\ granted[i] \in Nat /\ mQueueSize \in Nat /\ mLastLeak \in Nat
    BY <1>1, LimiterNumbers
  <2>4. /\ Ticks(Len(granted) - i + 1) \in Int /\ Ticks(mQueueSize) \in Int
        /\ Ticks(AfterLeak) \in Int /\ TicksPerToken \in Nat
    BY <1>2, <2>3, TicksType
  <2>5. /\ granted[i] \in Int /\ LeakedUpTo \in Int /\ mLastLeak \in Int /\ TicksPerToken \in Int
        /\ Ticks(mQueueSize) + mLastLeak <= Ticks(AfterLeak) + LeakedUpTo
    BY <1>2, <2>3, <2>4
  <2>. QED
    BY <2>2, <2>4, <2>5, SumsMove
<1>5. RatesAreKept'
  BY <1>1 DEF RatesAreKept, BurstThenRate, NoFullerWindow, QueueThenRate, Span, Full
<1>. QED
  BY <1>1, <1>3, <1>4, <1>5 DEF LimiterInv, TokensAccounted, LatestKept

-----------------------------------------------------------------------------
(* The states from which everything starts again. *)
Anew ==
  /\ LimiterTypeOK /\ limiter \in {"token", "window", "leaky"} /\ granted = << >>
  /\ limiter = "window" => mTimestamps = << >>

LEMMA NothingGranted == Anew => LimiterInv
<1>. SUFFICES ASSUME Anew PROVE LimiterInv
  OBVIOUS
<1>. USE DEF Anew
<1>1. Len(granted) = 0 /\ now \in Nat
  BY DEF LimiterTypeOK
<1>2. TimesInOrder
  BY <1>1 DEF TimesInOrder
<1>3. TokensAccounted /\ RequestsAccounted /\ RatesAreKept
  BY <1>1 DEF TokensAccounted, RequestsAccounted,
              RatesAreKept, BurstThenRate, NoFullerWindow, QueueThenRate
<1>4. LatestKept
  BY <1>1 DEF LatestKept
<1>. QED
  BY <1>2, <1>3, <1>4 DEF LimiterInv

(* A call of reset() starts again. *)
LEMMA NothingGrantedNext == Anew' => LimiterInv'
BY NothingGranted, PTL

(* What the clock does alone. *)
LEMMA ClockTicks ==
  ASSUME LimiterInv, Tick
  PROVE  LimiterInv'
<1>1. /\ LimiterTypeOK /\ TimesInOrder /\ now < MaxNow /\ now' = now + 1 /\ now \in Nat
      /\ MaxNow \in Nat /\ WindowDuration \in Nat
      /\ UNCHANGED <<limiter, mTokens, mLastRefill, mTimestamps, mQueueSize, mLastLeak, granted>>
  BY LimiterAssumption DEF LimiterInv, Tick, TimesInOrder
<1>2. LimiterTypeOK'
  <2>1. mTimestamps \in Seq(0 .. now) /\ 0 .. now \subseteq 0 .. now + 1
    BY <1>1 DEF LimiterTypeOK
  <2>2. mTimestamps \in Seq(0 .. now + 1)
    BY <1>1, <2>1
  <2>. QED
    BY <1>1, <2>2 DEF LimiterTypeOK, Full
<1>3. TimesInOrder'
  <2>1. granted \in Seq(0 .. now) /\ 0 .. now \subseteq 0 .. now + 1
    BY <1>1 DEF TimesInOrder
  <2>2. granted \in Seq(0 .. now + 1)
    BY <1>1, <2>1
  <2>. QED
    BY <1>1, <2>2 DEF TimesInOrder
<1>4. LatestKept'
  <2>1. ASSUME NEW i \in 1 .. Len(granted) - Len(mTimestamps), limiter = "window"
        PROVE  granted[i] + WindowDuration < now + 1
    <3>1. granted[i] + WindowDuration < now
      BY <2>1 DEF LimiterInv, LatestKept
    <3>2. i \in 1 .. Len(granted)
      BY <1>1, <2>1 DEF LimiterTypeOK, TimesInOrder
    <3>3. granted[i] \in Nat
      BY <1>1, <3>2, LimiterNumbers
    <3>. QED
      BY <1>1, <3>1, <3>3
  <2>. QED
    BY <1>1, <2>1 DEF LatestKept, LimiterInv
<1>5. TokensAccounted' /\ RequestsAccounted' /\ RatesAreKept'
  BY <1>1 DEF LimiterInv, TokensAccounted, RequestsAccounted, Ticks, Full,
              RatesAreKept, BurstThenRate, NoFullerWindow, QueueThenRate, Span
<1>. QED
  BY <1>2, <1>3, <1>4, <1>5 DEF LimiterInv

(* Every limiter starts with nothing let through. *)
LEMMA LimiterInvInit == LimiterInit => LimiterInv
<1>1. SUFFICES ASSUME LimiterInit PROVE LimiterInv
  OBVIOUS
<1>2. LimiterTypeOK
  <2>1. Full \in Nat /\ MaxNow \in Nat /\ MaxRequests \in Nat /\ BucketCapacity \in Nat
    BY TicksType, LimiterAssumption
  <2>2. << >> \in Seq(0 .. 0) /\ Len(<< >>) = 0
    OBVIOUS
  <2>. QED
    BY <1>1, <2>1, <2>2 DEF LimiterInit, LimiterTypeOK
<1>. QED
  BY <1>1, <1>2, NothingGranted DEF Anew, LimiterInit

(* Every call of every limiter, and the clock, keep the accounts. *)
LEMMA LimiterInvNext == LimiterInv /\ [LimiterNext]_limiterVars => LimiterInv'
<1>1. SUFFICES ASSUME LimiterInv, [LimiterNext]_limiterVars PROVE LimiterInv'
  OBVIOUS
<1>2. LimiterTypeOK /\ TimesInOrder /\ limiter \in {"token", "window", "leaky"}
  BY <1>1 DEF LimiterInv, TimesInOrder
<1>3. now \in Nat /\ Full \in Nat
  BY <1>2, TicksType DEF TimesInOrder
<1>4. CASE UNCHANGED limiterVars
  BY <1>1, <1>4 DEF limiterVars, LimiterInv, LimiterTypeOK, TimesInOrder, Full, Span, Ticks,
     TokensAccounted, LatestKept, RequestsAccounted,
     RatesAreKept, BurstThenRate, NoFullerWindow, QueueThenRate
<1>5. CASE Tick
  BY <1>1, <1>5, ClockTicks
<1>6. CASE limiter = "token" /\ TokenNext
  <2>1. ASSUME NEW count \in 1 .. MaxCount, TryAcquireTokens(count)
        PROVE  LimiterInv'
    <3>1. count \in Nat \ {0}
      BY LimiterAssumption
    <3>2. CASE Refilled >= count * TicksPerToken
      <4>1. Ticks(count) \in Nat /\ Refilled \in Nat
        BY <1>2, <3>1, TicksType, RefilledIs
      <4>2. /\ mTokens' = Refilled - Ticks(count) /\ Grant(count)
            /\ mLastRefill' = now /\ UNCHANGED TokenOthers
        BY <2>1, <3>2, <4>1 DEF TryAcquireTokens, Ticks
      <4>. QED
        BY <1>1, <1>6, <3>1, <3>2, <4>2, TokensTaken DEF Ticks
    <3>3. CASE ~(Refilled >= count * TicksPerToken)
      BY <1>1, <1>6, <2>1, <3>3, TokensRefilled DEF TryAcquireTokens
    <3>. QED
      BY <3>2, <3>3
  <2>2. CASE AvailableTokens
    BY <1>1, <1>6, <2>2, TokensRefilled DEF AvailableTokens
  <2>3. CASE ResetTokens
    <3>1. LimiterTypeOK'
      BY <1>2, <1>3, <2>3 DEF ResetTokens, TokenOthers, LimiterTypeOK, Full
    <3>. QED
      BY <1>2, <1>6, <2>3, <3>1, NothingGrantedNext DEF Anew, ResetTokens, TokenOthers
  <2>. QED
    BY <1>6, <2>1, <2>2, <2>3 DEF TokenNext
<1>7. CASE limiter = "window" /\ WindowNext
  <2>1. CASE TryAcquireWindow
    BY <1>1, <1>7, <2>1, RequestStamped, StampsCleaned DEF TryAcquireWindow
  <2>2. CASE CurrentCount
    BY <1>1, <1>7, <2>2, StampsCleaned DEF CurrentCount
  <2>3. CASE ResetWindow
    <3>1. LimiterTypeOK'
      BY <1>2, <1>3, <2>3, LimiterAssumption DEF ResetWindow, WindowOthers, LimiterTypeOK, Full
    <3>. QED
      BY <1>2, <1>7, <2>3, <3>1, NothingGrantedNext DEF Anew, ResetWindow, WindowOthers
  <2>. QED
    BY <1>7, <2>1, <2>2, <2>3 DEF WindowNext
<1>8. CASE limiter = "leaky" /\ LeakyNext
  <2>1. CASE TryAcquireLeaky
    BY <1>1, <1>8, <2>1, RequestQueued, QueueLeaked DEF TryAcquireLeaky
  <2>2. CASE QueueSize
    BY <1>1, <1>8, <2>2, QueueLeaked DEF QueueSize
  <2>3. CASE ResetLeaky
    <3>1. LimiterTypeOK'
      BY <1>2, <1>3, <2>3, LimiterAssumption DEF ResetLeaky, LeakyOthers, LimiterTypeOK, Full
    <3>. QED
      BY <1>2, <1>8, <2>3, <3>1, NothingGrantedNext DEF Anew, ResetLeaky, LeakyOthers
  <2>. QED
    BY <1>8, <2>1, <2>2, <2>3 DEF LeakyNext
<1>. QED
  BY <1>1, <1>4, <1>5, <1>6, <1>7, <1>8 DEF LimiterNext

(* The limiters never let more through, in any interval of time, than the   *)
(* capacity and the rate (or the window) of their configuration allow,      *)
(* whatever is asked for, refused or reset.                                 *)
THEOREM LimitersKeepRates == LimiterSpec => []RatesAreKept
<1>1. LimiterInv => RatesAreKept
  BY DEF LimiterInv
<1>. QED
  BY <1>1, LimiterInvInit, LimiterInvNext, PTL DEF LimiterSpec

(* The numbers the limiters keep stay in their ranges. *)
THEOREM LimitersTyped == LimiterSpec => []LimiterTypeOK
<1>1. LimiterInv => LimiterTypeOK
  BY DEF LimiterInv
<1>. QED
  BY <1>1, LimiterInvInit, LimiterInvNext, PTL DEF LimiterSpec

-----------------------------------------------------------------------------
(* The invariant of the generator. *)

GenType ==
  [next : Int, exhausted : BOOLEAN, saturated : BOOLEAN,
   active : SUBSET Int, max : Int, maxValid : BOOLEAN,
   token : [Ids -> IdGuards \cup {Nobody}],
   pool : Seq(Int), heap : SUBSET Int,
   free : SUBSET [lower : Int, upper : Int], credits : Int]

PoliciesOK ==
  /\ idPolicies \in [allocation : {"sequential", "bounded"},
                     recycling : {"fifo", "min", "none", "sparse"},
                     sentinel : BOOLEAN, upper : {MaxId - 1, MaxId}]
  /\ idPolicies.sentinel => idPolicies.upper = MaxId - 1
  /\ idPolicies.upper = MaxId - 1 => \/ idPolicies.sentinel
                                     \/ idPolicies.allocation = "bounded"
                                     \/ idPolicies.recycling = "sparse"

Fifo == idPolicies.recycling = "fifo"
Lowest == idPolicies.recycling = "min"
Forgets == idPolicies.recycling = "none"

(* The counter and the tracker, whatever the policy. *)
StateOK(s) ==
  /\ s \in GenType
  /\ s.next \in mBaseId .. LastId
  /\ s.saturated => s.next = LastId
  /\ s.active \subseteq Domain
  /\ s.maxValid /\ s.active # {} => s.max \in s.active /\ \A i \in s.active : i <= s.max
  /\ ~Fifo => s.pool = << >>
  /\ ~Lowest => s.heap = {}
  /\ ~Sparse => s.free = {[lower |-> mBaseId, upper |-> mUpperBound]}

(* The highest identifier that the counter has passed. *)
HighestPassed(s) == IF s.saturated /\ s.next = mUpperBound THEN s.next ELSE s.next - 1
PassedBy(s) == mBaseId .. HighestPassed(s)

Different(q) == \A k, m \in 1 .. Len(q) : q[k] = q[m] => k = m

(* With a pool: what the counter has passed is active or in the pool. *)
PoolOK(s) ==
  /\ s.active \cap Pooled(s) = {}
  /\ s.active \cup Pooled(s) = PassedBy(s)
  /\ s.exhausted => PassedBy(s) = Domain
  /\ Different(s.pool)

(* Without: what was given out lies behind the counter. *)
NoneOK(s, given) ==
  /\ given \subseteq Domain /\ s.active \subseteq given
  /\ \A i \in given : i < s.next \/ i = LastId

(* Intervals that stand for what is not taken, and a credit for each taken. *)
IntervalsOK(free, credits, taken) ==
  /\ free \subseteq [lower : Int, upper : Int]
  /\ \A f \in free : f.lower <= f.upper
  /\ taken \subseteq Domain
  /\ \A i \in Int : (\E f \in free : f.lower <= i /\ i <= f.upper) <=> i \in Domain \ taken
  /\ \A f, h \in free : f # h => f.upper + 1 < h.lower \/ h.upper + 1 < f.lower
  /\ credits = Cardinality(taken)

GenOK(s, given) ==
  /\ StateOK(s)
  /\ Fifo \/ Lowest => PoolOK(s)
  /\ Forgets => NoneOK(s, given)
  /\ Sparse => IntervalsOK(s.free, s.credits, s.active)

(* Before each identifier of the queue came back those that precede it. *)
InOrder(before, q) ==
  \A k \in 1 .. Len(q) : before[q[k]] = {q[m] : m \in 1 .. k - 1}

(* What the history says of the generator s: which guard holds which        *)
(* identifier, to whom each was given, and what had come back before it.    *)
History(s, held, has, before, given) ==
  /\ held \in [IdGuards -> Ids \cup {NoId}]
  /\ has \in [Ids -> IdGuards \cup {Caller, Nobody}]
  /\ before \in [Ids -> SUBSET Int]
  /\ given \subseteq Domain
  /\ s.active = {i \in Ids : has[i] # Nobody}
  /\ \A i \in Ids : s.token[i] = IF has[i] \in IdGuards THEN has[i] ELSE Nobody
  /\ s.active \subseteq given
  /\ Fifo => /\ given = PassedBy(s)
             /\ InOrder(before, s.pool)

HistoryOK == History(gen, guardIds, owner, ahead, used)

IdInv == PoliciesOK /\ GenOK(gen, used) /\ HistoryOK

-----------------------------------------------------------------------------
(* Numbers. *)

(* A set of numbers below a bound that is not empty has a largest and a least. *)
LEMMA MaxIsIn ==
  ASSUME NEW n \in Nat, NEW S \in SUBSET (0 .. n), S # {}
  PROVE  Max(S) \in S /\ \A i \in S : i <= Max(S)
<1>. DEFINE Bounds == {b \in Nat : \A i \in S : i <= b}
<1>1. n \in Bounds /\ Bounds \subseteq Nat
  OBVIOUS
<1>2. PICK b \in Bounds : \A c \in Bounds : b <= c
  <2>1. Bounds # {}
    BY <1>1
  <2>. HIDE DEF Bounds
  <2>. QED
    BY <1>1, <2>1, LeastOf
<1>3. b \in S
  <2>1. SUFFICES ASSUME b \notin S PROVE FALSE
    OBVIOUS
  <2>2. b # 0 /\ b \in Nat
    <3>1. PICK e \in S : TRUE
      OBVIOUS
    <3>2. e \in 0 .. n /\ e <= b /\ e # b /\ b \in Nat
      BY <1>2, <2>1, <3>1
    <3>. QED
      BY <3>2
  <2>3. b - 1 \in Bounds
    BY <2>1, <2>2
  <2>. QED
    BY <1>2, <2>2, <2>3
<1>4. \E x \in S : \A y \in S : x >= y
  BY <1>2, <1>3
<1>. QED
  BY <1>4 DEF Max

(* The least is a member too. *)
LEMMA MinIsIn ==
  ASSUME NEW S \in SUBSET Nat, S # {}
  PROVE  Min(S) \in S /\ \A i \in S : Min(S) <= i
<1>1. \E x \in S : \A y \in S : x <= y
  BY LeastOf
<1>. QED
  BY <1>1 DEF Min

(* The larger of two. *)
LEMMA MaxOfTwo ==
  ASSUME NEW a \in Int, NEW b \in Int
  PROVE  Max({a, b}) = IF a <= b THEN b ELSE a
<1>1. \E x \in {a, b} : \A y \in {a, b} : x >= y
  OBVIOUS
<1>2. Max({a, b}) \in {a, b} /\ Max({a, b}) >= a /\ Max({a, b}) >= b
  BY <1>1 DEF Max
<1>. QED
  BY <1>2

(* The bounds of the domain and of the counter. *)
LEMMA IdNumbers ==
  ASSUME PoliciesOK
  PROVE  /\ mBaseId \in Nat /\ MaxId \in Nat /\ mUpperBound \in Nat /\ LastId \in Nat
         /\ mBaseId <= mUpperBound /\ mUpperBound <= LastId /\ LastId <= MaxId
         /\ ~Sparse /\ mUpperBound # LastId =>
              idPolicies.sentinel /\ LastId = MaxId /\ mUpperBound = MaxId - 1
         /\ idPolicies.sentinel => mUpperBound = MaxId - 1
         /\ Ids \subseteq Nat /\ Domain \subseteq Ids /\ NoId \notin Ids /\ NoId \notin Domain /\ NoId \in Int
         /\ IsFiniteSet(Domain) /\ IsFiniteSet(Ids) /\ Domain \subseteq 0 .. MaxId
         /\ Cardinality(Domain) \in Nat
<1>1. mBaseId \in Nat /\ MaxId \in Nat /\ mBaseId <= MaxId - 1
  BY IdAssumption
<1>2. mUpperBound \in {MaxId - 1, MaxId} /\ LastId \in {mUpperBound, MaxId}
      /\ (idPolicies.sentinel => mUpperBound = MaxId - 1)
  BY DEF PoliciesOK, mUpperBound, LastId
<1>3. IsFiniteSet(Domain) /\ IsFiniteSet(Ids)
  BY <1>1, <1>2, FS_Interval DEF Domain, Ids
<1>4. Cardinality(Domain) \in Nat
  BY <1>3, FS_CardinalityType
<1>5. ~Sparse /\ mUpperBound # LastId =>
              idPolicies.sentinel /\ LastId = MaxId /\ mUpperBound = MaxId - 1
  BY <1>1, <1>2 DEF PoliciesOK, mUpperBound, LastId, Sparse
<1>. QED
  BY <1>1, <1>2, <1>3, <1>4, <1>5 DEF Ids, Domain, NoId

(* The recycling policy is one of the four. *)
LEMMA PolicyKinds ==
  ASSUME PoliciesOK
  PROVE  /\ Fifo \/ Lowest \/ Forgets \/ Sparse
         /\ ~(Fifo /\ Lowest) /\ ~(Fifo /\ Forgets) /\ ~(Fifo /\ Sparse)
         /\ ~(Lowest /\ Forgets) /\ ~(Lowest /\ Sparse) /\ ~(Forgets /\ Sparse)
BY DEF PoliciesOK, Fifo, Lowest, Forgets, Sparse

-----------------------------------------------------------------------------
(* What the operators do to the fields of a generator. *)

(* What is in the pool, as the union of the heap and the queue. *)
LEMMA PooledIs ==
  ASSUME NEW s, s.pool \in Seq(Int)
  PROVE  Pooled(s) = s.heap \cup {s.pool[k] : k \in 1 .. Len(s.pool)}
<1>1. DOMAIN s.pool = 1 .. Len(s.pool)
  OBVIOUS
<1>. QED
  BY <1>1 DEF Pooled, Range

LEMMA TrackedIs ==
  ASSUME NEW s \in GenType, NEW i \in Int
  PROVE  /\ Tracked(s, i) \in GenType
         /\ Tracked(s, i).active = s.active \cup {i}
         /\ Tracked(s, i).max = IF s.active = {} \/ (s.maxValid /\ i > s.max) THEN i ELSE s.max
         /\ Tracked(s, i).maxValid = (s.maxValid \/ s.active = {})
         /\ Tracked(s, i).next = s.next /\ Tracked(s, i).exhausted = s.exhausted
         /\ Tracked(s, i).saturated = s.saturated /\ Tracked(s, i).token = s.token
         /\ Tracked(s, i).pool = s.pool /\ Tracked(s, i).heap = s.heap
         /\ Tracked(s, i).free = s.free /\ Tracked(s, i).credits = s.credits
BY DEF GenType, Tracked

LEMMA UntrackedIs ==
  ASSUME NEW s \in GenType, NEW ids
  PROVE  /\ Untracked(s, ids) \in GenType
         /\ Untracked(s, ids).active = s.active \ ids
         /\ Untracked(s, ids).max = s.max
         /\ Untracked(s, ids).maxValid = (s.maxValid /\ s.max \notin ids)
         /\ Untracked(s, ids).token = [i \in Ids |-> IF i \in ids THEN Nobody ELSE s.token[i]]
         /\ Untracked(s, ids).next = s.next /\ Untracked(s, ids).exhausted = s.exhausted
         /\ Untracked(s, ids).saturated = s.saturated
         /\ Untracked(s, ids).pool = s.pool /\ Untracked(s, ids).heap = s.heap
         /\ Untracked(s, ids).free = s.free /\ Untracked(s, ids).credits = s.credits
BY DEF GenType, Untracked

(* Finding the maximum again changes nothing else. *)
LEMMA FoundIs ==
  ASSUME NEW s \in GenType, NEW n \in Nat, s.active \subseteq 0 .. n
  PROVE  /\ max_element(s) \in GenType
         /\ max_element(s).active = s.active
         /\ max_element(s).next = s.next /\ max_element(s).exhausted = s.exhausted
         /\ max_element(s).saturated = s.saturated /\ max_element(s).token = s.token
         /\ max_element(s).pool = s.pool /\ max_element(s).heap = s.heap
         /\ max_element(s).free = s.free /\ max_element(s).credits = s.credits
         /\ (s.maxValid /\ s.active # {} => s.max \in s.active /\ \A i \in s.active : i <= s.max)
            => /\ (s.active # {} => /\ max_element(s).max \in s.active
                                    /\ \A i \in s.active : i <= max_element(s).max)
<1>1. s.active # {} => Max(s.active) \in s.active /\ \A i \in s.active : i <= Max(s.active)
  BY MaxIsIn DEF GenType
<1>2. s.active # {} => Max(s.active) \in Int
  BY <1>1 DEF GenType
<1>. QED
  BY <1>1, <1>2 DEF GenType, max_element

(* The counter, when it is advanced and when it is spent. *)
LEMMA AdvancedIs ==
  ASSUME NEW s \in GenType, NEW candidate \in Int
  PROVE  LET r == [s EXCEPT !.next = IF candidate = LastId THEN candidate ELSE candidate + 1,
                            !.saturated = @ \/ candidate = LastId]
         IN  /\ r \in GenType
             /\ r.next = IF candidate = LastId THEN candidate ELSE candidate + 1
             /\ r.saturated <=> (s.saturated \/ candidate = LastId)
             /\ r.exhausted = s.exhausted /\ r.active = s.active /\ r.max = s.max
             /\ r.maxValid = s.maxValid /\ r.token = s.token /\ r.pool = s.pool
             /\ r.heap = s.heap /\ r.free = s.free /\ r.credits = s.credits
<1>. DEFINE n == IF candidate = LastId THEN candidate ELSE candidate + 1
            e == s.saturated \/ candidate = LastId
<1>1. n \in Int /\ e \in BOOLEAN
  BY DEF GenType
<1>. HIDE DEF n, e
<1>. DEFINE r == [s EXCEPT !.next = n, !.saturated = e]
<1>2. /\ r \in GenType /\ r.next = n /\ r.saturated = e
      /\ r.exhausted = s.exhausted /\ r.active = s.active /\ r.max = s.max
      /\ r.maxValid = s.maxValid /\ r.token = s.token /\ r.pool = s.pool
      /\ r.heap = s.heap /\ r.free = s.free /\ r.credits = s.credits
  BY <1>1 DEF GenType
<1>. QED
  BY <1>2 DEF n, e

(* The flag of a counter that is spent. *)
LEMMA SpentIs ==
  ASSUME NEW s \in GenType, NEW e \in BOOLEAN
  PROVE  LET r == [s EXCEPT !.exhausted = e]
         IN  /\ r \in GenType /\ r.exhausted = e /\ r.next = s.next /\ r.saturated = s.saturated
             /\ r.active = s.active /\ r.max = s.max
             /\ r.maxValid = s.maxValid /\ r.token = s.token /\ r.pool = s.pool
             /\ r.heap = s.heap /\ r.free = s.free /\ r.credits = s.credits
BY DEF GenType

(* revert() takes the counter back and forgets that it came to its end. *)
LEMMA RevertedIs ==
  ASSUME NEW s \in GenType, NEW count \in Nat
  PROVE  /\ revert(s, count) \in GenType
         /\ count = 0 => revert(s, count) = s
         /\ revert(s, count).active = s.active /\ revert(s, count).max = s.max
         /\ revert(s, count).maxValid = s.maxValid /\ revert(s, count).token = s.token
         /\ revert(s, count).pool = s.pool /\ revert(s, count).heap = s.heap
         /\ revert(s, count).free = s.free /\ revert(s, count).credits = s.credits
         /\ count > 0 =>
              /\ ~revert(s, count).exhausted /\ ~revert(s, count).saturated
              /\ LET back == s.next - (IF s.saturated THEN count - 1 ELSE count)
                 IN  revert(s, count).next = IF mBaseId <= back THEN back ELSE mBaseId
<1>. DEFINE back == s.next - (IF s.saturated THEN count - 1 ELSE count)
<1>1. back \in Int /\ mBaseId \in Int
  BY IdAssumption DEF GenType
<1>2. Max({mBaseId, back}) = IF mBaseId <= back THEN back ELSE mBaseId
  BY <1>1, MaxOfTwo
<1>3. CASE count = 0
  BY <1>3 DEF revert
<1>4. CASE count # 0
  <2>1. revert(s, count) = [s EXCEPT !.exhausted = FALSE, !.saturated = FALSE,
                                     !.next = Max({mBaseId, back})]
    BY <1>4 DEF revert, GenType
  <2>. DEFINE m == Max({mBaseId, back})
  <2>2. m \in Int /\ m = IF mBaseId <= back THEN back ELSE mBaseId
    BY <1>1, <1>2
  <2>3. revert(s, count) = [s EXCEPT !.exhausted = FALSE, !.saturated = FALSE, !.next = m]
    BY <2>1
  <2>. HIDE DEF m
  <2>4. /\ revert(s, count) \in GenType
        /\ revert(s, count).active = s.active /\ revert(s, count).max = s.max
        /\ revert(s, count).maxValid = s.maxValid /\ revert(s, count).token = s.token
        /\ revert(s, count).pool = s.pool /\ revert(s, count).heap = s.heap
        /\ revert(s, count).free = s.free /\ revert(s, count).credits = s.credits
        /\ ~revert(s, count).exhausted /\ ~revert(s, count).saturated
        /\ revert(s, count).next = m
    BY <2>2, <2>3 DEF GenType
  <2>. QED
    BY <1>4, <2>2, <2>4
<1>. QED
  BY <1>3, <1>4

-----------------------------------------------------------------------------
(* Intervals. *)

LEMMA MinOfTwo ==
  ASSUME NEW a \in Int, NEW b \in Int
  PROVE  Min({a, b}) = IF a <= b THEN a ELSE b
<1>1. \E x \in {a, b} : \A y \in {a, b} : x <= y
  OBVIOUS
<1>2. Min({a, b}) \in {a, b} /\ Min({a, b}) <= a /\ Min({a, b}) <= b
  BY <1>1 DEF Min
<1>. QED
  BY <1>2

(* Other intervals and another count of credits. *)
Refreed(s, free, c) == [s EXCEPT !.free = free, !.credits = c]

LEMMA RefreedIs ==
  ASSUME NEW s \in GenType, NEW free, free \subseteq [lower : Int, upper : Int], NEW c \in Int
  PROVE  /\ Refreed(s, free, c) \in GenType
         /\ Refreed(s, free, c).free = free /\ Refreed(s, free, c).credits = c
         /\ Refreed(s, free, c).active = s.active /\ Refreed(s, free, c).max = s.max
         /\ Refreed(s, free, c).maxValid = s.maxValid /\ Refreed(s, free, c).token = s.token
         /\ Refreed(s, free, c).next = s.next /\ Refreed(s, free, c).exhausted = s.exhausted
         /\ Refreed(s, free, c).saturated = s.saturated
         /\ Refreed(s, free, c).pool = s.pool /\ Refreed(s, free, c).heap = s.heap
BY DEF GenType, Refreed

(* An identifier taken out of its interval leaves what is below and above. *)
LEMMA ClaimedIs ==
  ASSUME PoliciesOK, NEW s \in GenType, NEW taken, IntervalsOK(s.free, s.credits, taken),
         NEW i \in Domain \ taken
  PROVE  /\ claim_at(s, i) \in GenType
         /\ IntervalsOK(claim_at(s, i).free, claim_at(s, i).credits, taken \cup {i})
         /\ claim_at(s, i).active = s.active /\ claim_at(s, i).max = s.max
         /\ claim_at(s, i).maxValid = s.maxValid /\ claim_at(s, i).token = s.token
         /\ claim_at(s, i).next = s.next /\ claim_at(s, i).exhausted = s.exhausted
         /\ claim_at(s, i).saturated = s.saturated
         /\ claim_at(s, i).pool = s.pool /\ claim_at(s, i).heap = s.heap
<1>. DEFINE f == CHOOSE x \in s.free : i \in x.lower .. x.upper
            lo == f.lower
            hi == f.upper
            free == (s.free \ {f}) \cup Interval(lo, i - 1) \cup Interval(i + 1, hi)
<1>1. i \in Int /\ s.free \subseteq [lower : Int, upper : Int] /\ s.credits \in Int
  BY IdNumbers DEF GenType
<1>2. /\ \A g \in s.free : g.lower <= g.upper
      /\ taken \subseteq Domain /\ s.credits = Cardinality(taken)
      /\ \A j \in Int : (\E g \in s.free : g.lower <= j /\ j <= g.upper) <=> j \in Domain \ taken
      /\ \A g, h \in s.free : g # h => g.upper + 1 < h.lower \/ h.upper + 1 < g.lower
  BY DEF IntervalsOK
<1>3. \E x \in s.free : i \in x.lower .. x.upper
  <2>1. PICK x \in s.free : x.lower <= i /\ i <= x.upper
    BY <1>1, <1>2
  <2>2. x.lower \in Int /\ x.upper \in Int
    BY <1>1
  <2>. QED
    BY <1>1, <2>1, <2>2
<1>4. f \in s.free /\ i \in f.lower .. f.upper
  BY <1>3
<1>5. lo \in Int /\ hi \in Int /\ lo <= i /\ i <= hi
  BY <1>1, <1>4
<1>6. claim_at(s, i) = [s EXCEPT !.free = free, !.credits = @ + 1]
  BY DEF claim_at
<1>. HIDE DEF f, free
<1>7. free \subseteq [lower : Int, upper : Int]
  BY <1>1, <1>5 DEF free, Interval
<1>8. /\ claim_at(s, i) \in GenType
      /\ claim_at(s, i).free = free /\ claim_at(s, i).credits = s.credits + 1
      /\ claim_at(s, i).active = s.active /\ claim_at(s, i).max = s.max
      /\ claim_at(s, i).maxValid = s.maxValid /\ claim_at(s, i).token = s.token
      /\ claim_at(s, i).next = s.next /\ claim_at(s, i).exhausted = s.exhausted
      /\ claim_at(s, i).saturated = s.saturated
      /\ claim_at(s, i).pool = s.pool /\ claim_at(s, i).heap = s.heap
  <2>1. s.credits + 1 \in Int
    BY <1>1
  <2>2. claim_at(s, i) = Refreed(s, free, s.credits + 1)
    BY <1>6 DEF GenType, Refreed
  <2>. QED
    BY <1>7, <2>1, <2>2, RefreedIs
<1>9. \A g \in free : \/ g \in s.free /\ g # f
                      \/ g = [lower |-> lo, upper |-> i - 1] /\ lo <= i - 1
                      \/ g = [lower |-> i + 1, upper |-> hi] /\ i + 1 <= hi
  BY <1>1, <1>5 DEF free, Interval
<1>10. /\ \A g \in s.free : g # f => g \in free
       /\ lo <= i - 1 => [lower |-> lo, upper |-> i - 1] \in free
       /\ i + 1 <= hi => [lower |-> i + 1, upper |-> hi] \in free
  BY <1>1, <1>5 DEF free, Interval
<1>11. \A g \in free : \/ g \in s.free /\ g # f
                       \/ g.lower = lo /\ g.upper = i - 1 /\ lo <= i - 1
                       \/ g.lower = i + 1 /\ g.upper = hi /\ i + 1 <= hi
  BY <1>9
<1>12. \A g \in s.free : g.lower \in Int /\ g.upper \in Int
  BY <1>1
<1>13. \A g \in s.free : g # f => g.upper + 1 < lo \/ hi + 1 < g.lower
  BY <1>2, <1>4
<1>14. \A g \in free : g.lower <= g.upper
  BY <1>2, <1>11
<1>15. ASSUME NEW j \in Int
       PROVE  (\E g \in free : g.lower <= j /\ j <= g.upper) <=> j \in Domain \ (taken \cup {i})
  <2>1. ASSUME NEW g \in free, g.lower <= j, j <= g.upper
        PROVE  j \in Domain \ (taken \cup {i})
    <3>1. CASE g \in s.free /\ g # f
      <4>1. j \in Domain \ taken
        BY <1>2, <2>1, <3>1
      <4>2. j # i
        BY <1>1, <1>5, <1>12, <1>13, <2>1, <3>1
      <4>. QED
        BY <4>1, <4>2
    <3>2. CASE ~(g \in s.free /\ g # f)
      <4>1. lo <= j /\ j <= hi /\ j # i
        BY <1>1, <1>5, <1>11, <2>1, <3>2
      <4>2. j \in Domain \ taken
        BY <1>2, <1>4, <4>1
      <4>. QED
        BY <4>1, <4>2
    <3>. QED
      BY <3>1, <3>2
  <2>2. ASSUME j \in Domain \ (taken \cup {i})
        PROVE  \E g \in free : g.lower <= j /\ j <= g.upper
    <3>1. PICK g \in s.free : g.lower <= j /\ j <= g.upper
      BY <1>2, <2>2
    <3>2. CASE g # f
      BY <1>10, <3>1, <3>2
    <3>3. CASE g = f /\ j < i
      <4>1. lo <= i - 1 /\ j <= i - 1
        BY <1>1, <1>5, <3>1, <3>3
      <4>2. [lower |-> lo, upper |-> i - 1] \in free
        BY <1>10, <4>1
      <4>. QED
        BY <3>1, <3>3, <4>1, <4>2
    <3>4. CASE g = f /\ j > i
      <4>1. i + 1 <= hi /\ i + 1 <= j
        BY <1>1, <1>5, <3>1, <3>4
      <4>2. [lower |-> i + 1, upper |-> hi] \in free
        BY <1>10, <4>1
      <4>. QED
        BY <3>1, <3>4, <4>1, <4>2
    <3>. QED
      BY <1>1, <2>2, <3>2, <3>3, <3>4
  <2>. QED
    BY <2>1, <2>2
<1>16. ASSUME NEW g \in free, NEW h \in free, g # h
       PROVE  g.upper + 1 < h.lower \/ h.upper + 1 < g.lower
  <2>1. CASE g \in s.free /\ g # f /\ h \in s.free /\ h # f
    BY <1>2, <1>16, <2>1
  <2>2. CASE g \in s.free /\ g # f /\ ~(h \in s.free /\ h # f)
    BY <1>1, <1>5, <1>11, <1>12, <1>13, <2>2
  <2>3. CASE h \in s.free /\ h # f /\ ~(g \in s.free /\ g # f)
    BY <1>1, <1>5, <1>11, <1>12, <1>13, <2>3
  <2>4. CASE ~(g \in s.free /\ g # f) /\ ~(h \in s.free /\ h # f)
    BY <1>1, <1>5, <1>9, <1>16, <2>4
  <2>. QED
    BY <2>1, <2>2, <2>3, <2>4
<1>17. taken \cup {i} \subseteq Domain /\ s.credits + 1 = Cardinality(taken \cup {i})
  <2>1. IsFiniteSet(taken) /\ i \notin taken
    BY <1>2, IdNumbers, FS_Subset
  <2>2. Cardinality(taken \cup {i}) = Cardinality(taken) + 1
    BY <2>1, FS_AddElement
  <2>. QED
    BY <1>2, <2>2
<1>18. IntervalsOK(free, s.credits + 1, taken \cup {i})
  BY <1>7, <1>14, <1>15, <1>16, <1>17 DEF IntervalsOK
<1>. QED
  BY <1>8, <1>18

(* An identifier put back joins the intervals beside it. *)
LEMMA MergedIs ==
  ASSUME PoliciesOK, NEW s \in GenType, NEW taken, IntervalsOK(s.free, s.credits, taken),
         NEW i \in taken
  PROVE  /\ Merged(s, i) \in GenType
         /\ IntervalsOK(Merged(s, i).free, Merged(s, i).credits, taken \ {i})
         /\ Merged(s, i).active = s.active /\ Merged(s, i).max = s.max
         /\ Merged(s, i).maxValid = s.maxValid /\ Merged(s, i).token = s.token
         /\ Merged(s, i).next = s.next /\ Merged(s, i).exhausted = s.exhausted
         /\ Merged(s, i).saturated = s.saturated
         /\ Merged(s, i).pool = s.pool /\ Merged(s, i).heap = s.heap
<1>. DEFINE left == {f \in s.free : i > mBaseId /\ f.upper = i - 1}
            right == {f \in s.free : i < mUpperBound /\ f.lower = i + 1}
            lo == Min({i} \cup {f.lower : f \in left})
            hi == Max({i} \cup {f.upper : f \in right})
            free == (s.free \ (left \cup right)) \cup Interval(lo, hi)
<1>1. s.free \subseteq [lower : Int, upper : Int] /\ s.credits \in Int /\ taken \subseteq Domain
  BY DEF GenType, IntervalsOK
<1>2. /\ \A g \in s.free : g.lower <= g.upper /\ g.lower \in Int /\ g.upper \in Int
      /\ s.credits = Cardinality(taken)
      /\ \A j \in Int : (\E g \in s.free : g.lower <= j /\ j <= g.upper) <=> j \in Domain \ taken
      /\ \A g, h \in s.free : g # h => g.upper + 1 < h.lower \/ h.upper + 1 < g.lower
  BY <1>1 DEF IntervalsOK
<1>3. i \in Int /\ i \in Domain /\ i >= mBaseId /\ i <= mUpperBound
      /\ mBaseId \in Int /\ mUpperBound \in Int
  <2>1. i \in Domain
    BY <1>1
  <2>. QED
    BY <2>1, IdNumbers DEF Domain
<1>4. \A g \in s.free : g.lower \in Domain /\ g.upper \in Domain
  BY <1>2
<1>5. \A g \in s.free : g \in left <=> g.upper = i - 1
  <2>1. \A j \in Domain : j \in Int /\ j >= mBaseId
    BY IdNumbers DEF Domain
  <2>. QED
    BY <1>2, <1>3, <1>4, <2>1
<1>6. \A g \in s.free : g \in right <=> g.lower = i + 1
  <2>1. \A j \in Domain : j \in Int /\ j <= mUpperBound
    BY IdNumbers DEF Domain
  <2>. QED
    BY <1>2, <1>3, <1>4, <2>1
<1>7. left \subseteq s.free /\ right \subseteq s.free
  OBVIOUS
<1>. HIDE DEF left, right
<1>8. \/ left = {} /\ lo = i
      \/ \E l \in s.free : left = {l} /\ l.upper = i - 1 /\ lo = l.lower
  <2>1. CASE left = {}
    <3>1. {i} \cup {f.lower : f \in left} = {i, i}
      BY <2>1
    <3>. QED
      BY <1>3, <2>1, <3>1, MinOfTwo
  <2>2. CASE left # {}
    <3>1. PICK l \in left : TRUE
      BY <2>2
    <3>2. l \in s.free /\ l.upper = i - 1 /\ l.lower \in Int /\ l.lower <= i
      BY <1>2, <1>3, <1>5, <1>7, <3>1
    <3>3. left = {l}
      <4>1. ASSUME NEW g \in left, g # l PROVE FALSE
        <5>1. g \in s.free /\ g.upper = i - 1 /\ g.lower \in Int /\ g.lower <= g.upper
          BY <1>2, <1>5, <1>7, <4>1
        <5>. QED
          BY <1>2, <1>3, <3>2, <4>1, <5>1
      <4>. QED
        BY <3>1, <4>1
    <3>4. {i} \cup {f.lower : f \in left} = {i, l.lower}
      BY <3>3
    <3>5. Min({i, l.lower}) = IF i <= l.lower THEN i ELSE l.lower
      BY <1>3, <3>2, MinOfTwo
    <3>6. lo = l.lower
      BY <1>3, <3>2, <3>4, <3>5
    <3>. QED
      BY <3>2, <3>3, <3>6
  <2>. QED
    BY <2>1, <2>2
<1>9. \/ right = {} /\ hi = i
      \/ \E r \in s.free : right = {r} /\ r.lower = i + 1 /\ hi = r.upper
  <2>1. CASE right = {}
    <3>1. {i} \cup {f.upper : f \in right} = {i, i}
      BY <2>1
    <3>. QED
      BY <1>3, <2>1, <3>1, MaxOfTwo
  <2>2. CASE right # {}
    <3>1. PICK r \in right : TRUE
      BY <2>2
    <3>2. r \in s.free /\ r.lower = i + 1 /\ r.upper \in Int /\ i <= r.upper
      BY <1>2, <1>3, <1>6, <1>7, <3>1
    <3>3. right = {r}
      <4>1. ASSUME NEW g \in right, g # r PROVE FALSE
        <5>1. g \in s.free /\ g.lower = i + 1 /\ g.upper \in Int /\ g.lower <= g.upper
          BY <1>2, <1>6, <1>7, <4>1
        <5>. QED
          BY <1>2, <1>3, <3>2, <4>1, <5>1
      <4>. QED
        BY <3>1, <4>1
    <3>4. {i} \cup {f.upper : f \in right} = {i, r.upper}
      BY <3>3
    <3>5. hi = r.upper
      BY <1>3, <3>2, <3>4, MaxOfTwo
    <3>. QED
      BY <3>2, <3>3, <3>5
  <2>. QED
    BY <2>1, <2>2
<1>10. Merged(s, i) = [s EXCEPT !.free = free, !.credits = @ - 1]
  BY DEF Merged, left, right
<1>. HIDE DEF lo, hi
<1>11. lo \in Int /\ hi \in Int /\ lo <= i /\ i <= hi
  BY <1>2, <1>3, <1>8, <1>9
<1>12. Interval(lo, hi) = {[lower |-> lo, upper |-> hi]}
  BY <1>3, <1>11 DEF Interval
<1>13. /\ [lower |-> lo, upper |-> hi] \in free
       /\ \A g \in free : \/ g \in s.free /\ g.upper # i - 1 /\ g.lower # i + 1
                          \/ g = [lower |-> lo, upper |-> hi]
       /\ \A g \in s.free : g.upper # i - 1 /\ g.lower # i + 1 => g \in free
  BY <1>5, <1>6, <1>12
<1>. HIDE DEF free
<1>14. free \subseteq [lower : Int, upper : Int]
  BY <1>1, <1>11, <1>13
<1>15. /\ Merged(s, i) \in GenType
       /\ Merged(s, i).free = free /\ Merged(s, i).credits = s.credits - 1
       /\ Merged(s, i).active = s.active /\ Merged(s, i).max = s.max
       /\ Merged(s, i).maxValid = s.maxValid /\ Merged(s, i).token = s.token
       /\ Merged(s, i).next = s.next /\ Merged(s, i).exhausted = s.exhausted
       /\ Merged(s, i).saturated = s.saturated
       /\ Merged(s, i).pool = s.pool /\ Merged(s, i).heap = s.heap
  <2>1. s.credits - 1 \in Int
    BY <1>1
  <2>2. Merged(s, i) = Refreed(s, free, s.credits - 1)
    BY <1>10 DEF GenType, Refreed
  <2>. QED
    BY <1>14, <2>1, <2>2, RefreedIs
<1>16. \A g \in s.free : g.upper < i \/ i < g.lower
  BY <1>2, <1>3
<1>17. ASSUME NEW g \in s.free, g.upper # i - 1, g.lower # i + 1
       PROVE  g.upper + 1 < lo \/ hi + 1 < g.lower
  <2>1. CASE g.upper < i
    <3>1. g.upper + 1 < i
      BY <1>2, <1>3, <1>17, <2>1
    <3>2. CASE lo = i
      BY <3>1, <3>2
    <3>3. CASE lo # i
      <4>1. PICK l \in s.free : l.upper = i - 1 /\ lo = l.lower
        BY <1>8, <3>3
      <4>2. g.upper + 1 < l.lower \/ l.upper + 1 < g.lower
        BY <1>2, <1>17, <4>1
      <4>. QED
        BY <1>2, <1>3, <2>1, <4>1, <4>2
    <3>. QED
      BY <3>2, <3>3
  <2>2. CASE i < g.lower
    <3>1. i + 1 < g.lower
      BY <1>2, <1>3, <1>17, <2>2
    <3>2. CASE hi = i
      BY <3>1, <3>2
    <3>3. CASE hi # i
      <4>1. PICK r \in s.free : r.lower = i + 1 /\ hi = r.upper
        BY <1>9, <3>3
      <4>2. g.upper + 1 < r.lower \/ r.upper + 1 < g.lower
        BY <1>2, <1>17, <4>1
      <4>. QED
        BY <1>2, <1>3, <2>2, <4>1, <4>2
    <3>. QED
      BY <3>2, <3>3
  <2>. QED
    BY <1>16, <2>1, <2>2
<1>18. ASSUME NEW j \in Int
       PROVE  (\E g \in free : g.lower <= j /\ j <= g.upper) <=> j \in Domain \ (taken \ {i})
  <2>1. ASSUME NEW g \in free, g.lower <= j, j <= g.upper
        PROVE  j \in Domain \ (taken \ {i})
    <3>1. CASE g \in s.free
      BY <1>2, <2>1, <3>1
    <3>2. CASE g = [lower |-> lo, upper |-> hi]
      <4>1. lo <= j /\ j <= hi
        BY <2>1, <3>2
      <4>2. CASE j = i
        BY <1>3, <4>2
      <4>3. CASE j < i
        <5>1. lo # i
          BY <1>3, <1>11, <4>1, <4>3
        <5>2. PICK l \in s.free : l.upper = i - 1 /\ lo = l.lower
          BY <1>8, <5>1
        <5>3. l.lower <= j /\ j <= l.upper
          BY <1>3, <4>1, <4>3, <5>2
        <5>. QED
          BY <1>2, <5>3
      <4>4. CASE i < j
        <5>1. hi # i
          BY <1>3, <1>11, <4>1, <4>4
        <5>2. PICK r \in s.free : r.lower = i + 1 /\ hi = r.upper
          BY <1>9, <5>1
        <5>3. r.lower <= j /\ j <= r.upper
          BY <1>3, <4>1, <4>4, <5>2
        <5>. QED
          BY <1>2, <5>3
      <4>. QED
        BY <1>3, <4>2, <4>3, <4>4
    <3>. QED
      BY <1>13, <3>1, <3>2
  <2>2. ASSUME j \in Domain \ (taken \ {i})
        PROVE  \E g \in free : g.lower <= j /\ j <= g.upper
    <3>. DEFINE new == [lower |-> lo, upper |-> hi]
    <3>1. new \in free /\ new.lower = lo /\ new.upper = hi
      BY <1>13
    <3>2. CASE j = i
      BY <1>11, <3>1, <3>2
    <3>3. CASE j # i
      <4>1. PICK g \in s.free : g.lower <= j /\ j <= g.upper
        BY <1>2, <2>2, <3>3
      <4>2. CASE g.upper # i - 1 /\ g.lower # i + 1
        BY <1>13, <4>1, <4>2
      <4>3. CASE g.upper = i - 1
        <5>1. lo = g.lower
          BY <1>5, <1>8, <4>3
        <5>. QED
          BY <1>2, <1>3, <1>11, <3>1, <4>1, <4>3, <5>1
      <4>4. CASE g.lower = i + 1
        <5>1. hi = g.upper
          BY <1>6, <1>9, <4>4
        <5>. QED
          BY <1>2, <1>3, <1>11, <3>1, <4>1, <4>4, <5>1
      <4>. QED
        BY <4>2, <4>3, <4>4
    <3>. QED
      BY <3>2, <3>3
  <2>. QED
    BY <2>1, <2>2
<1>19. ASSUME NEW g \in free, NEW h \in free, g # h
       PROVE  g.upper + 1 < h.lower \/ h.upper + 1 < g.lower
  <2>. DEFINE new == [lower |-> lo, upper |-> hi]
  <2>1. new.lower = lo /\ new.upper = hi
    OBVIOUS
  <2>2. CASE g # new /\ h # new
    BY <1>2, <1>13, <1>19, <2>2
  <2>3. CASE g # new /\ h = new
    BY <1>13, <1>17, <2>1, <2>3
  <2>4. CASE g = new /\ h # new
    BY <1>13, <1>17, <2>1, <2>4
  <2>. QED
    BY <1>19, <2>2, <2>3, <2>4
<1>20. \A g \in free : g.lower <= g.upper
  BY <1>2, <1>3, <1>11, <1>13
<1>21. taken \ {i} \subseteq Domain /\ s.credits - 1 = Cardinality(taken \ {i})
  <2>1. IsFiniteSet(taken)
    BY <1>1, IdNumbers, FS_Subset
  <2>2. Cardinality(taken \ {i}) = Cardinality(taken) - 1
    BY <2>1, FS_RemoveElement
  <2>. QED
    BY <1>1, <1>2, <2>2
<1>22. IntervalsOK(free, s.credits - 1, taken \ {i})
  BY <1>14, <1>18, <1>19, <1>20, <1>21 DEF IntervalsOK
<1>. QED
  BY <1>15, <1>22

-----------------------------------------------------------------------------
(* An identifier taken out of the policies. *)

MaxOK(s) == s.maxValid /\ s.active # {} => s.max \in s.active /\ \A i \in s.active : i <= s.max

(* The counter stands still: it is spent. *)
DrawsNothing(s, r) ==
  /\ s.exhausted \/ LastId \in s.active
  /\ r.next = s.next /\ r.saturated = s.saturated

(* The counter comes to the identifier i, which nobody has. *)
DrawsTo(s, r, i) ==
  /\ ~s.exhausted /\ ~r.exhausted
  /\ i \in Int /\ s.next <= i /\ i <= LastId
  /\ i = s.next \/ \E j \in s.active : i = j + 1
  /\ \A j \in s.active : j < i
  /\ r.next = IF i = LastId THEN i ELSE i + 1
  /\ r.saturated <=> (s.saturated \/ i = LastId)

SameButCounter(s, r) ==
  /\ r \in GenType /\ r.active = s.active /\ r.token = s.token
  /\ r.pool = s.pool /\ r.heap = s.heap /\ r.free = s.free /\ r.credits = s.credits
  /\ MaxOK(r)

(* A sequential policy gives the next number nobody has, or nothing. *)
LEMMA NextIs ==
  ASSUME PoliciesOK, NEW s \in GenType, s.active \subseteq Domain, s.next \in Int, s.next <= LastId,
         s.active # {} => s.max \in s.active /\ \A i \in s.active : i <= s.max
  PROVE  /\ SameButCounter(s, next_id(s).state)
         /\ \/ next_id(s).id = NoId /\ DrawsNothing(s, next_id(s).state)
            \/ DrawsTo(s, next_id(s).state, next_id(s).id)
<1>. DEFINE first == s.active = {}
            candidate == IF first THEN s.next ELSE Max({s.next, s.max + 1})
            spent == s.exhausted \/ (~first /\ s.max >= LastId)
<1>1. LastId \in Int /\ \A i \in s.active : i \in Int /\ i <= LastId
  BY IdNumbers DEF Domain
<1>2. CASE spent
  <2>. DEFINE e == idPolicies.allocation = "sequential"
              r == [s EXCEPT !.exhausted = e]
  <2>1. next_id(s) = [state |-> r, id |-> NoId]
    BY <1>2 DEF next_id
  <2>2. e \in BOOLEAN
    OBVIOUS
  <2>. HIDE DEF e
  <2>3. /\ r \in GenType /\ r.exhausted = e /\ r.next = s.next /\ r.saturated = s.saturated
        /\ r.active = s.active /\ r.max = s.max
        /\ r.maxValid = s.maxValid /\ r.token = s.token /\ r.pool = s.pool
        /\ r.heap = s.heap /\ r.free = s.free /\ r.credits = s.credits
    BY <2>2, SpentIs
  <2>. HIDE DEF r
  <2>4. s.exhausted \/ LastId \in s.active
    BY <1>1, <1>2
  <2>. QED
    BY <2>1, <2>3, <2>4 DEF SameButCounter, DrawsNothing, MaxOK
<1>3. CASE ~spent
  <2>1. candidate \in Int /\ s.next <= candidate /\ candidate <= LastId
        /\ (candidate = s.next \/ (~first /\ candidate = s.max + 1))
        /\ \A j \in s.active : j < candidate
    <3>1. CASE first
      BY <1>1, <3>1
    <3>2. CASE ~first
      <4>1. s.max \in Int /\ s.max < LastId
        BY <1>1, <1>3, <3>2
      <4>2. Max({s.next, s.max + 1}) = IF s.next <= s.max + 1 THEN s.max + 1 ELSE s.next
        BY <4>1, MaxOfTwo
      <4>3. candidate \in Int /\ s.next <= candidate /\ candidate <= LastId
            /\ (candidate = s.next \/ candidate = s.max + 1) /\ s.max < candidate
        BY <1>1, <3>2, <4>1, <4>2
      <4>. HIDE DEF candidate
      <4>4. \A j \in s.active : j < candidate
        BY <1>1, <3>2, <4>1, <4>3
      <4>. QED
        BY <3>2, <4>3, <4>4
    <3>. QED
      BY <3>1, <3>2
  <2>. DEFINE r == [s EXCEPT !.next = IF candidate = LastId THEN candidate ELSE candidate + 1,
                             !.saturated = @ \/ candidate = LastId]
  <2>2. next_id(s) = [state |-> r, id |-> candidate]
    BY <1>3 DEF next_id
  <2>3. ~s.exhausted
    BY <1>3
  <2>. HIDE DEF candidate
  <2>4. /\ r \in GenType
        /\ r.next = IF candidate = LastId THEN candidate ELSE candidate + 1
        /\ r.saturated <=> (s.saturated \/ candidate = LastId)
        /\ r.exhausted = s.exhausted /\ r.active = s.active /\ r.max = s.max
        /\ r.maxValid = s.maxValid /\ r.token = s.token /\ r.pool = s.pool
        /\ r.heap = s.heap /\ r.free = s.free /\ r.credits = s.credits
    BY <2>1, AdvancedIs
  <2>. HIDE DEF r
  <2>5. SameButCounter(s, r)
    BY <2>4 DEF SameButCounter, MaxOK
  <2>6. DrawsTo(s, r, candidate)
    BY <2>1, <2>3, <2>4 DEF DrawsTo
  <2>. QED
    BY <2>2, <2>5, <2>6
<1>. QED
  BY <1>2, <1>3

(* The same with the sentinel, which is nobody's. *)
LEMMA DrawnIs ==
  ASSUME PoliciesOK, NEW s, StateOK(s), ~Sparse
  PROVE  /\ SameButCounter(s, Drawn(s).state) /\ ~Drawn(s).pooled
         /\ \/ Drawn(s).id = NoId /\ DrawsNothing(s, Drawn(s).state)
            \/ /\ Drawn(s).id = NoId /\ idPolicies.sentinel
               /\ LastId = MaxId /\ DrawsTo(s, Drawn(s).state, LastId)
            \/ /\ Drawn(s).id # NoId /\ Drawn(s).id \in Domain
               /\ DrawsTo(s, Drawn(s).state, Drawn(s).id)
<1>. DEFINE m == max_element(s)
            d == next_id(m)
<1>1. /\ s \in GenType /\ s.next \in mBaseId .. LastId /\ s.active \subseteq Domain /\ MaxOK(s)
  BY DEF StateOK, MaxOK
<1>2. MaxId \in Nat /\ s.active \subseteq 0 .. MaxId /\ mBaseId \in Nat /\ LastId \in Nat
  BY <1>1, IdNumbers
<1>3. /\ m \in GenType /\ m.active = s.active /\ m.next = s.next /\ m.exhausted = s.exhausted
      /\ m.saturated = s.saturated /\ m.token = s.token
      /\ m.pool = s.pool /\ m.heap = s.heap /\ m.free = s.free /\ m.credits = s.credits
      /\ (m.active # {} => m.max \in m.active /\ \A i \in m.active : i <= m.max)
  BY <1>1, <1>2, FoundIs DEF MaxOK
<1>. HIDE DEF m
<1>4. /\ SameButCounter(m, d.state)
      /\ \/ d.id = NoId /\ DrawsNothing(m, d.state)
         \/ DrawsTo(m, d.state, d.id)
  BY <1>1, <1>2, <1>3, NextIs
<1>. HIDE DEF d
<1>5. Drawn(s) = [state |-> d.state, pooled |-> FALSE,
                  id |-> IF idPolicies.sentinel /\ d.id = MaxId THEN NoId ELSE d.id]
  BY DEF Drawn, m, d
<1>6. SameButCounter(s, Drawn(s).state) /\ ~Drawn(s).pooled
  BY <1>3, <1>4, <1>5 DEF SameButCounter
<1>7. CASE d.id = NoId /\ DrawsNothing(m, d.state)
  <2>1. Drawn(s).id = NoId /\ DrawsNothing(s, Drawn(s).state)
    BY <1>3, <1>5, <1>7 DEF DrawsNothing
  <2>. QED
    BY <1>6, <2>1
<1>8. CASE DrawsTo(m, d.state, d.id)
  <2>1. DrawsTo(s, Drawn(s).state, d.id)
    BY <1>3, <1>5, <1>8 DEF DrawsTo
  <2>2. d.id \in Int /\ mBaseId <= d.id /\ d.id <= LastId
    BY <1>1, <1>2, <2>1 DEF DrawsTo
  <2>3. CASE idPolicies.sentinel /\ d.id = MaxId
    <3>1. LastId = MaxId
      BY <1>2, <2>2, <2>3, IdNumbers
    <3>. QED
      BY <1>5, <1>6, <2>1, <2>3, <3>1
  <2>4. CASE ~(idPolicies.sentinel /\ d.id = MaxId)
    <3>1. Drawn(s).id = d.id
      BY <1>5, <2>4
    <3>2. d.id # NoId
      BY <1>2, <2>2 DEF NoId
    <3>3. d.id <= mUpperBound
      BY <1>2, <2>2, <2>4, IdNumbers
    <3>. QED
      BY <1>2, <1>6, <2>1, <2>2, <3>1, <3>2, <3>3 DEF Domain
  <2>. QED
    BY <2>3, <2>4
<1>. QED
  BY <1>4, <1>7, <1>8

(* The counter moved over the identifier i, the next one. *)
Advanced(s, r, i) ==
  /\ ~s.saturated /\ ~s.exhausted /\ ~r.exhausted
  /\ i = s.next
  /\ r.next = IF i = LastId THEN i ELSE i + 1
  /\ r.saturated <=> i = LastId

(* What the counter has passed lies in the domain. *)
LEMMA PassedIs ==
  ASSUME PoliciesOK, NEW s, StateOK(s), ~Sparse
  PROVE  /\ s.next \in Int /\ HighestPassed(s) \in Int
         /\ HighestPassed(s) = s.next - 1 \/ HighestPassed(s) = s.next
         /\ HighestPassed(s) = s.next => s.saturated /\ s.next = mUpperBound /\ LastId = mUpperBound
         /\ HighestPassed(s) # s.next => ~s.saturated \/ s.next # mUpperBound
         /\ mBaseId - 1 <= HighestPassed(s) /\ HighestPassed(s) <= mUpperBound
         /\ PassedBy(s) \subseteq Domain
         /\ HighestPassed(s) = mUpperBound => PassedBy(s) = Domain
<1>1. /\ mBaseId \in Int /\ mUpperBound \in Int /\ LastId \in Int
      /\ LastId = mUpperBound \/ LastId = mUpperBound + 1
  BY IdNumbers
<1>2. s.next \in Int /\ mBaseId <= s.next /\ s.next <= LastId /\ (s.saturated => s.next = LastId)
  BY <1>1 DEF StateOK
<1>3. \/ s.saturated /\ s.next = mUpperBound /\ HighestPassed(s) = s.next
      \/ ~(s.saturated /\ s.next = mUpperBound) /\ HighestPassed(s) = s.next - 1
  BY DEF HighestPassed
<1>4. HighestPassed(s) \in Int /\ mBaseId - 1 <= HighestPassed(s) /\ HighestPassed(s) <= mUpperBound
  BY <1>1, <1>2, <1>3
<1>5. PassedBy(s) \subseteq Domain /\ (HighestPassed(s) = mUpperBound => PassedBy(s) = Domain)
  BY <1>1, <1>4 DEF PassedBy, Domain
<1>. QED
  BY <1>1, <1>2, <1>3, <1>4, <1>5

(* A counter that did not move has passed what it had passed. *)
LEMMA SamePassed ==
  ASSUME NEW s, NEW r, r.next = s.next, r.saturated = s.saturated
  PROVE  PassedBy(r) = PassedBy(s) /\ HighestPassed(r) = HighestPassed(s)
BY DEF PassedBy, HighestPassed

(* The counter behind an empty pool is the next after all that are active. *)
LEMMA PoolDrawn ==
  ASSUME PoliciesOK, NEW s, StateOK(s), PoolOK(s), ~Sparse, Pooled(s) = {}
  PROVE  LET r == Drawn(s).state
             i == Drawn(s).id
         IN  /\ r.next \in mBaseId .. LastId /\ (r.saturated => r.next = LastId)
             /\ \/ /\ i = NoId /\ s.active = Domain
                   /\ PassedBy(r) = Domain /\ PassedBy(s) = Domain
                \/ /\ i \in Domain \ s.active /\ i # NoId /\ Advanced(s, r, i)
                   /\ PassedBy(r) = PassedBy(s) \cup {i} /\ i \notin PassedBy(s)
<1>. DEFINE r == Drawn(s).state
            i == Drawn(s).id
            H == HighestPassed(s)
<1>1. /\ mBaseId \in Int /\ mUpperBound \in Int /\ LastId \in Int /\ MaxId \in Int
      /\ mBaseId <= mUpperBound /\ mUpperBound <= LastId
      /\ LastId = mUpperBound \/ LastId = mUpperBound + 1
      /\ idPolicies.sentinel => mUpperBound = MaxId - 1
  BY IdNumbers
<1>2. s.next \in Int /\ mBaseId <= s.next /\ s.next <= LastId /\ (s.saturated => s.next = LastId)
  BY <1>1 DEF StateOK
<1>3. /\ H \in Int /\ (H = s.next - 1 \/ H = s.next)
      /\ H = s.next => s.saturated /\ s.next = mUpperBound /\ LastId = mUpperBound
      /\ H # s.next => ~s.saturated \/ s.next # mUpperBound
      /\ mBaseId - 1 <= H /\ H <= mUpperBound
      /\ H = mUpperBound => PassedBy(s) = Domain
  BY PassedIs
<1>4. s.active = PassedBy(s) /\ PassedBy(s) = mBaseId .. H /\ (s.exhausted => PassedBy(s) = Domain)
  BY DEF PoolOK, PassedBy
<1>5. \A j \in s.active : j \in Int /\ mBaseId <= j /\ j <= H
  BY <1>1, <1>3, <1>4
<1>6. mBaseId <= H => H \in s.active
  BY <1>1, <1>3, <1>4
<1>. HIDE DEF H
<1>7. CASE i = NoId /\ DrawsNothing(s, r)
  <2>1. s.active = Domain
    <3>1. CASE s.exhausted
      BY <1>4, <3>1
    <3>2. CASE LastId \in s.active
      BY <1>1, <1>3, <1>4, <1>5, <3>2
    <3>. QED
      BY <1>7, <3>1, <3>2 DEF DrawsNothing
  <2>2. r.next = s.next /\ r.saturated = s.saturated
    BY <1>7 DEF DrawsNothing
  <2>3. PassedBy(r) = Domain
    BY <1>4, <2>1, <2>2, SamePassed
  <2>. QED
    BY <1>1, <1>2, <1>4, <1>7, <2>1, <2>2, <2>3
<1>8. CASE i = NoId /\ idPolicies.sentinel /\ LastId = MaxId /\ DrawsTo(s, r, LastId)
  <2>1. /\ LastId = s.next \/ \E j \in s.active : LastId = j + 1
        /\ r.next = LastId /\ r.saturated
    BY <1>8 DEF DrawsTo
  <2>2. LastId = mUpperBound + 1
    BY <1>1, <1>8
  <2>3. H = mUpperBound
    BY <1>1, <1>2, <1>3, <1>5, <2>1, <2>2
  <2>4. HighestPassed(r) = mUpperBound
    BY <1>1, <2>1, <2>2 DEF HighestPassed
  <2>5. PassedBy(r) = Domain
    BY <2>4 DEF PassedBy, Domain
  <2>. QED
    BY <1>1, <1>2, <1>3, <1>4, <1>8, <2>1, <2>3, <2>5
<1>9. CASE i # NoId /\ i \in Domain /\ DrawsTo(s, r, i)
  <2>1. /\ ~s.exhausted /\ ~r.exhausted
        /\ i \in Int /\ s.next <= i /\ i <= LastId
        /\ i = s.next \/ \E j \in s.active : i = j + 1
        /\ \A j \in s.active : j < i
        /\ r.next = IF i = LastId THEN i ELSE i + 1
        /\ r.saturated <=> (s.saturated \/ i = LastId)
    BY <1>9 DEF DrawsTo
  <2>2. i <= mUpperBound
    BY <1>1, <1>9 DEF Domain
  <2>3. H < i /\ H = s.next - 1 /\ ~s.saturated
    <3>1. H < i
      BY <1>1, <1>2, <1>3, <1>6, <2>1
    <3>2. H # s.next
      BY <1>1, <1>2, <1>3, <2>1, <2>2, <3>1
    <3>3. ASSUME s.saturated PROVE FALSE
      BY <1>1, <1>2, <1>3, <2>1, <2>2, <3>2, <3>3
    <3>. QED
      BY <1>3, <3>1, <3>2, <3>3
  <2>4. i = s.next
    BY <1>2, <1>3, <1>5, <2>1, <2>3
  <2>5. Advanced(s, r, i)
    BY <2>1, <2>3, <2>4 DEF Advanced
  <2>6. i \notin s.active
    BY <1>5, <2>1
  <2>7. HighestPassed(r) = i
    <3>1. CASE i = LastId
      BY <1>1, <2>1, <2>2, <3>1 DEF HighestPassed
    <3>2. CASE i # LastId
      BY <1>1, <2>1, <2>3, <3>2 DEF HighestPassed
    <3>. QED
      BY <3>1, <3>2
  <2>8. PassedBy(r) = mBaseId .. i
    BY <2>7 DEF PassedBy
  <2>9. PassedBy(r) = PassedBy(s) \cup {i}
    BY <1>1, <1>2, <1>4, <2>3, <2>4, <2>8
  <2>10. r.next \in mBaseId .. LastId /\ (r.saturated => r.next = LastId)
    BY <1>1, <1>2, <2>1, <2>3
  <2>. QED
    BY <1>4, <1>9, <2>5, <2>6, <2>9, <2>10
<1>. QED
  BY <1>7, <1>8, <1>9, DrawnIs

Kept(s, r) ==
  /\ r \in GenType /\ r.active = s.active /\ r.token = s.token /\ MaxOK(r)
  /\ ~Sparse => r.free = s.free

CounterStays(s, r) == r.next = s.next /\ r.exhausted = s.exhausted /\ r.saturated = s.saturated

CounterOK(r) == r.next \in mBaseId .. LastId /\ (r.saturated => r.next = LastId)

PoolStays(s, r) == r.pool = s.pool /\ r.heap = s.heap

(* The identifier i left the pool: the first of a queue, or any of a heap. *)
FromPool(s, r, i) ==
  IF Fifo THEN s.pool = <<i>> \o r.pool /\ r.heap = s.heap
          ELSE r.pool = s.pool /\ i \in s.heap /\ r.heap = s.heap \ {i}

(* What an identifier costs, by where it comes from. *)
FromIntervals(s, t) ==
  /\ t.pooled /\ CounterStays(s, t.state) /\ PoolStays(s, t.state)
  /\ t.id = NoId => t.state.free = s.free /\ t.state.credits = s.credits
  /\ t.id # NoId => IntervalsOK(t.state.free, t.state.credits, s.active \cup {t.id})

FromPoolOrCounter(s, t) ==
  \/ t.pooled /\ t.id # NoId /\ CounterStays(s, t.state) /\ FromPool(s, t.state, t.id)
  \/ /\ ~t.pooled /\ PoolStays(s, t.state) /\ Pooled(s) = {}
     /\ t.id = NoId => s.active = Domain /\ PassedBy(t.state) = Domain /\ PassedBy(s) = Domain
     /\ t.id # NoId => /\ Advanced(s, t.state, t.id)
                       /\ PassedBy(t.state) = PassedBy(s) \cup {t.id} /\ t.id \notin PassedBy(s)

FromCounter(s, t) ==
  /\ ~t.pooled /\ PoolStays(s, t.state)
  /\ \/ t.id = NoId /\ DrawsNothing(s, t.state)
     \/ t.id = NoId /\ idPolicies.sentinel /\ LastId = MaxId /\ DrawsTo(s, t.state, LastId)
     \/ t.id # NoId /\ DrawsTo(s, t.state, t.id)

Takes(s, t) ==
  /\ Kept(s, t.state) /\ CounterOK(t.state)
  /\ t.id = NoId \/ t.id \in Domain \ s.active
  /\ Sparse => FromIntervals(s, t)
  /\ Fifo \/ Lowest => FromPoolOrCounter(s, t)
  /\ Forgets => FromCounter(s, t)

(* The sparse policy gives the lowest free identifier. *)
LEMMA TakenFromIntervals ==
  ASSUME PoliciesOK, NEW s, NEW given, GenOK(s, given), Sparse
  PROVE  Takes(s, NextTaken(s))
<1>. DEFINE t == NextTaken(s)
            lowers == {f.lower : f \in s.free}
            lowest == Min(lowers)
<1>1. StateOK(s) /\ IntervalsOK(s.free, s.credits, s.active) /\ s \in GenType
  BY DEF GenOK, StateOK
<1>2. ~Fifo /\ ~Lowest /\ ~Forgets
  BY PolicyKinds
<1>3. Kept(s, s) /\ CounterOK(s) /\ CounterStays(s, s) /\ PoolStays(s, s)
  BY <1>1 DEF Kept, CounterOK, CounterStays, PoolStays, StateOK, MaxOK
<1>4. CASE s.free = {}
  <2>1. t = [state |-> s, id |-> NoId, pooled |-> TRUE]
    BY <1>4 DEF NextTaken
  <2>. HIDE DEF t
  <2>2. Takes(s, t)
    BY <1>2, <1>3, <2>1 DEF Takes, FromIntervals
  <2>. QED
    BY <2>2 DEF t
<1>5. CASE s.free # {}
  <2>1. t = [state |-> claim_at(s, lowest), id |-> lowest, pooled |-> TRUE]
    BY <1>5 DEF NextTaken, Recycled
  <2>2. lowest \in Domain \ s.active
    <3>1. /\ \A f \in s.free : f.lower \in Int /\ f.lower <= f.upper
          /\ \A i \in Int : (\E f \in s.free : f.lower <= i /\ i <= f.upper) <=> i \in Domain \ s.active
      BY <1>1 DEF IntervalsOK
    <3>2. \A f \in s.free : f.lower \in Domain \ s.active
      BY <3>1
    <3>3. lowers \subseteq Domain \ s.active /\ lowers # {}
      BY <1>5, <3>2
    <3>. HIDE DEF lowers
    <3>4. lowers \subseteq Nat
      BY <3>3, IdNumbers
    <3>5. Min(lowers) \in lowers
      BY <3>3, <3>4, MinIsIn
    <3>. QED
      BY <3>3, <3>5
  <2>. HIDE DEF t, lowest
  <2>3. /\ claim_at(s, lowest) \in GenType
        /\ IntervalsOK(claim_at(s, lowest).free, claim_at(s, lowest).credits, s.active \cup {lowest})
        /\ claim_at(s, lowest).active = s.active /\ claim_at(s, lowest).max = s.max
        /\ claim_at(s, lowest).maxValid = s.maxValid /\ claim_at(s, lowest).token = s.token
        /\ claim_at(s, lowest).next = s.next /\ claim_at(s, lowest).exhausted = s.exhausted
        /\ claim_at(s, lowest).saturated = s.saturated
        /\ claim_at(s, lowest).pool = s.pool /\ claim_at(s, lowest).heap = s.heap
    BY <1>1, <2>2, ClaimedIs
  <2>4. Kept(s, t.state) /\ CounterOK(t.state) /\ CounterStays(s, t.state) /\ PoolStays(s, t.state)
    BY <1>3, <2>1, <2>3 DEF Kept, CounterOK, CounterStays, PoolStays, MaxOK
  <2>5. t.id = lowest /\ t.id # NoId /\ t.pooled
        /\ IntervalsOK(t.state.free, t.state.credits, s.active \cup {t.id})
    BY <2>1, <2>2, <2>3, IdNumbers
  <2>6. Takes(s, t)
    BY <1>2, <2>2, <2>4, <2>5 DEF Takes, FromIntervals
  <2>. QED
    BY <2>6 DEF t
<1>. QED
  BY <1>4, <1>5

(* What an operator on the pool leaves alone. *)
LEMMA RepooledIs ==
  ASSUME NEW s \in GenType, NEW q \in Seq(Int), NEW h \in SUBSET Int
  PROVE  /\ [s EXCEPT !.pool = q] \in GenType /\ [s EXCEPT !.pool = q].pool = q
         /\ Kept(s, [s EXCEPT !.pool = q]) <=> MaxOK(s)
         /\ CounterStays(s, [s EXCEPT !.pool = q])
         /\ [s EXCEPT !.pool = q].heap = s.heap
         /\ [s EXCEPT !.pool = q].free = s.free /\ [s EXCEPT !.pool = q].credits = s.credits
         /\ [s EXCEPT !.heap = h] \in GenType /\ [s EXCEPT !.heap = h].heap = h
         /\ Kept(s, [s EXCEPT !.heap = h]) <=> MaxOK(s)
         /\ CounterStays(s, [s EXCEPT !.heap = h])
         /\ [s EXCEPT !.heap = h].pool = s.pool
         /\ [s EXCEPT !.heap = h].free = s.free /\ [s EXCEPT !.heap = h].credits = s.credits
BY DEF GenType, Kept, CounterStays, MaxOK

(* With a pool: first what is in it, then the counter's next. *)
LEMMA TakenFromPool ==
  ASSUME PoliciesOK, NEW s, NEW given, GenOK(s, given), Fifo \/ Lowest
  PROVE  Takes(s, NextTaken(s))
<1>. DEFINE t == NextTaken(s)
<1>1. StateOK(s) /\ PoolOK(s) /\ s \in GenType
  BY DEF GenOK, StateOK
<1>2. ~Sparse /\ ~Forgets /\ (Fifo => ~Lowest)
  BY PolicyKinds
<1>3. Kept(s, s) /\ CounterOK(s) /\ CounterStays(s, s) /\ PoolStays(s, s) /\ MaxOK(s)
  BY <1>1 DEF Kept, CounterOK, CounterStays, PoolStays, StateOK, MaxOK
<1>4. s.pool \in Seq(Int) /\ s.heap \subseteq Int /\ (~Fifo => s.pool = << >>) /\ (~Lowest => s.heap = {})
  BY <1>1 DEF GenType, StateOK
<1>5. Pooled(s) = s.heap \cup {s.pool[k] : k \in 1 .. Len(s.pool)}
  BY <1>4, PooledIs
<1>6. Pooled(s) \subseteq Domain \ s.active
  BY <1>1, <1>2, PassedIs DEF PoolOK
<1>7. CASE s.heap # {}
  <2>. DEFINE i == Min(s.heap)
              h == s.heap \ {i}
  <2>1. t = [state |-> [s EXCEPT !.heap = h], id |-> i, pooled |-> TRUE]
    BY <1>2, <1>7 DEF NextTaken, Recycled
  <2>2. s.heap \subseteq Nat
    BY <1>5, <1>6, IdNumbers
  <2>3. i \in s.heap
    BY <1>7, <2>2, MinIsIn
  <2>. HIDE DEF i
  <2>4. i \in Domain \ s.active /\ i # NoId /\ h \subseteq Int /\ ~Fifo
    BY <1>4, <1>5, <1>6, <1>7, <2>3, IdNumbers, PolicyKinds
  <2>. HIDE DEF t, h
  <2>. DEFINE r == [s EXCEPT !.heap = h]
  <2>5. r.heap = h /\ r.pool = s.pool /\ Kept(s, r) /\ CounterStays(s, r)
    <3>1. s \in GenType /\ s.pool \in Seq(Int) /\ h \in SUBSET Int /\ MaxOK(s)
      BY <1>1, <1>3, <1>4, <2>4
    <3>. QED
      BY <3>1, RepooledIs
  <2>. HIDE DEF r
  <2>6. CounterOK(r)
    BY <1>3, <2>5 DEF CounterOK, CounterStays
  <2>7. FromPool(s, r, i)
    BY <2>3, <2>4, <2>5 DEF FromPool, h
  <2>8. t.state = r /\ t.id = i /\ t.pooled
    BY <2>1 DEF r
  <2>9. Takes(s, t)
    BY <1>2, <2>4, <2>5, <2>6, <2>7, <2>8 DEF Takes, FromPoolOrCounter
  <2>. QED
    BY <2>9 DEF t
<1>8. CASE s.heap = {} /\ s.pool # << >>
  <2>. DEFINE i == Head(s.pool)
              q == Tail(s.pool)
  <2>1. t = [state |-> [s EXCEPT !.pool = q], id |-> i, pooled |-> TRUE]
    BY <1>2, <1>8 DEF NextTaken, Recycled
  <2>2. Len(s.pool) \in Nat /\ Len(s.pool) >= 1 /\ i = s.pool[1]
    BY <1>4, <1>8
  <2>3. i \in Pooled(s)
    BY <1>5, <2>2
  <2>4. q \in Seq(Int) /\ s.pool = <<i>> \o q /\ i \in Int
    <3>1. i \in Int /\ q \in Seq(Int) /\ Len(q) = Len(s.pool) - 1
          /\ \A k \in 1 .. Len(q) : q[k] = s.pool[k + 1]
      BY <1>4, <1>8, <2>2, HeadTailProperties
    <3>. HIDE DEF i, q
    <3>2. s.pool = <<i>> \o q
      BY <1>4, <2>2, <3>1
    <3>. QED
      BY <3>1, <3>2
  <2>. HIDE DEF i, q
  <2>5. i \in Domain \ s.active /\ i # NoId /\ Fifo
    BY <1>4, <1>6, <1>8, <2>3, IdNumbers
  <2>. HIDE DEF t
  <2>. DEFINE r == [s EXCEPT !.pool = q]
  <2>6. r.pool = q /\ r.heap = s.heap /\ Kept(s, r) /\ CounterStays(s, r)
    BY <1>1, <1>3, <1>4, <2>4, RepooledIs
  <2>. HIDE DEF r
  <2>7. CounterOK(r)
    BY <1>3, <2>6 DEF CounterOK, CounterStays
  <2>8. FromPool(s, r, i)
    BY <2>4, <2>5, <2>6 DEF FromPool
  <2>9. t.state = r /\ t.id = i /\ t.pooled
    BY <2>1 DEF r
  <2>10. Takes(s, t)
    BY <1>2, <2>5, <2>6, <2>7, <2>8, <2>9 DEF Takes, FromPoolOrCounter
  <2>. QED
    BY <2>10 DEF t
<1>9. CASE s.heap = {} /\ s.pool = << >>
  <2>1. t = Drawn(s)
    BY <1>2, <1>9 DEF NextTaken
  <2>2. Pooled(s) = {}
    BY <1>5, <1>9
  <2>3. SameButCounter(s, t.state) /\ ~t.pooled
    BY <1>1, <1>2, <2>1, DrawnIs
  <2>4. /\ CounterOK(t.state)
        /\ \/ /\ t.id = NoId /\ s.active = Domain
              /\ PassedBy(t.state) = Domain /\ PassedBy(s) = Domain
           \/ /\ t.id \in Domain \ s.active /\ t.id # NoId /\ Advanced(s, t.state, t.id)
              /\ PassedBy(t.state) = PassedBy(s) \cup {t.id} /\ t.id \notin PassedBy(s)
    BY <1>1, <1>2, <2>1, <2>2, PoolDrawn DEF CounterOK
  <2>. HIDE DEF t
  <2>5. Kept(s, t.state) /\ PoolStays(s, t.state)
    BY <2>3 DEF SameButCounter, Kept, PoolStays
  <2>6. Takes(s, t)
    BY <1>2, <2>2, <2>3, <2>4, <2>5 DEF Takes, FromPoolOrCounter
  <2>. QED
    BY <2>6 DEF t
<1>. QED
  BY <1>7, <1>8, <1>9

(* Without one: the counter's next, or nothing more. *)
LEMMA TakenFromCounter ==
  ASSUME PoliciesOK, NEW s, NEW given, GenOK(s, given), Forgets
  PROVE  Takes(s, NextTaken(s))
<1>. DEFINE t == NextTaken(s)
<1>1. StateOK(s) /\ s \in GenType /\ s.heap = {} /\ s.pool = << >> /\ ~Sparse /\ ~Fifo /\ ~Lowest
  BY PolicyKinds DEF GenOK, StateOK
<1>2. t = Drawn(s)
  BY <1>1 DEF NextTaken
<1>3. /\ SameButCounter(s, t.state) /\ ~t.pooled
      /\ \/ t.id = NoId /\ DrawsNothing(s, t.state)
         \/ /\ t.id = NoId /\ idPolicies.sentinel
            /\ LastId = MaxId /\ DrawsTo(s, t.state, LastId)
         \/ t.id # NoId /\ t.id \in Domain /\ DrawsTo(s, t.state, t.id)
  BY <1>1, <1>2, DrawnIs
<1>. HIDE DEF t
<1>4. Kept(s, t.state) /\ PoolStays(s, t.state)
  BY <1>3 DEF SameButCounter, Kept, PoolStays
<1>5. s.next \in Int /\ mBaseId <= s.next /\ s.next <= LastId /\ (s.saturated => s.next = LastId)
      /\ mBaseId \in Int /\ LastId \in Int
  BY <1>1, IdNumbers DEF StateOK
<1>6. CounterOK(t.state)
  BY <1>3, <1>5 DEF CounterOK, DrawsNothing, DrawsTo
<1>7. t.id = NoId \/ t.id \in Domain \ s.active
  BY <1>3 DEF DrawsTo
<1>8. Takes(s, t)
  BY <1>1, <1>3, <1>4, <1>6, <1>7 DEF Takes, FromCounter
<1>. QED
  BY <1>8 DEF t

(* What a call to take an identifier does, under every policy. *)
LEMMA TakenIs ==
  ASSUME PoliciesOK, NEW s, NEW given, GenOK(s, given)
  PROVE  Takes(s, NextTaken(s))
BY PolicyKinds, TakenFromIntervals, TakenFromPool, TakenFromCounter

-----------------------------------------------------------------------------
(* An identifier given back to the policies. *)

(* Everything but the pool and the intervals is as it was. *)
SameButPool(s, r) ==
  /\ r \in GenType /\ r.active = s.active /\ r.token = s.token
  /\ r.max = s.max /\ r.maxValid = s.maxValid /\ CounterStays(s, r)
  /\ ~Sparse => r.free = s.free

Adds(s, r, i, taken) ==
  /\ SameButPool(s, r)
  /\ r.pool = IF Fifo THEN Append(s.pool, i) ELSE s.pool
  /\ r.heap = IF Lowest THEN s.heap \cup {i} ELSE s.heap
  /\ Sparse => IntervalsOK(r.free, r.credits, taken \ {i})

Restores(s, r, i, taken) ==
  /\ SameButPool(s, r)
  /\ r.pool = IF Fifo THEN <<i>> \o s.pool ELSE s.pool
  /\ r.heap = IF Lowest THEN s.heap \cup {i} ELSE s.heap
  /\ Sparse => IntervalsOK(r.free, r.credits, taken \ {i})

(* What is added joins the end of the queue, the heap or the intervals. *)
LEMMA AddedIs ==
  ASSUME PoliciesOK, NEW s \in GenType, NEW taken, NEW i \in taken, taken \subseteq Domain,
         Sparse => IntervalsOK(s.free, s.credits, taken)
  PROVE  Adds(s, add_recycled(s, i), i, taken)
<1>. DEFINE a == add_recycled(s, i)
<1>1. i \in Int /\ s.pool \in Seq(Int) /\ s.heap \in SUBSET Int
  BY IdNumbers DEF GenType
<1>2. CASE Sparse
  <2>1. a = Merged(s, i) /\ ~Fifo /\ ~Lowest
    BY <1>2, PolicyKinds DEF add_recycled
  <2>2. /\ Merged(s, i) \in GenType
        /\ IntervalsOK(Merged(s, i).free, Merged(s, i).credits, taken \ {i})
        /\ Merged(s, i).active = s.active /\ Merged(s, i).max = s.max
        /\ Merged(s, i).maxValid = s.maxValid /\ Merged(s, i).token = s.token
        /\ Merged(s, i).next = s.next /\ Merged(s, i).exhausted = s.exhausted
        /\ Merged(s, i).saturated = s.saturated
        /\ Merged(s, i).pool = s.pool /\ Merged(s, i).heap = s.heap
    BY <1>2, MergedIs
  <2>3. SameButPool(s, a) /\ a.pool = s.pool /\ a.heap = s.heap
        /\ IntervalsOK(a.free, a.credits, taken \ {i})
    BY <1>2, <2>1, <2>2 DEF SameButPool, CounterStays
  <2>. HIDE DEF a
  <2>4. Adds(s, a, i, taken)
    BY <1>2, <2>1, <2>3 DEF Adds
  <2>. QED
    BY <2>4 DEF a
<1>3. CASE Fifo
  <2>. DEFINE q == Append(s.pool, i)
  <2>1. a = [s EXCEPT !.pool = q] /\ ~Sparse /\ ~Lowest
    BY <1>3, PolicyKinds DEF add_recycled, Fifo
  <2>2. q \in Seq(Int)
    BY <1>1
  <2>. HIDE DEF q
  <2>3. SameButPool(s, a) /\ a.pool = q /\ a.heap = s.heap
    BY <2>1, <2>2 DEF SameButPool, CounterStays, GenType
  <2>. HIDE DEF a
  <2>4. Adds(s, a, i, taken)
    BY <1>3, <2>1, <2>3 DEF q, Adds
  <2>. QED
    BY <2>4 DEF a
<1>4. CASE Lowest
  <2>. DEFINE h == s.heap \cup {i}
  <2>1. a = [s EXCEPT !.heap = h] /\ ~Sparse /\ ~Fifo
    BY <1>4, PolicyKinds DEF add_recycled, Fifo, Lowest
  <2>2. h \in SUBSET Int
    BY <1>1
  <2>. HIDE DEF h
  <2>3. SameButPool(s, a) /\ a.heap = h /\ a.pool = s.pool
    BY <2>1, <2>2 DEF SameButPool, CounterStays, GenType
  <2>. HIDE DEF a
  <2>4. Adds(s, a, i, taken)
    BY <1>4, <2>1, <2>3 DEF h, Adds
  <2>. QED
    BY <2>4 DEF a
<1>5. CASE Forgets
  <2>1. a = s /\ ~Sparse /\ ~Fifo /\ ~Lowest
    BY <1>5, PolicyKinds DEF add_recycled, Fifo, Lowest
  <2>2. SameButPool(s, s)
    BY DEF SameButPool, CounterStays
  <2>. HIDE DEF a
  <2>3. Adds(s, a, i, taken)
    BY <2>1, <2>2 DEF Adds
  <2>. QED
    BY <2>3 DEF a
<1>. QED
  BY <1>2, <1>3, <1>4, <1>5, PolicyKinds

(* What is restored joins the front of the queue. *)
LEMMA RestoredIs ==
  ASSUME PoliciesOK, NEW s \in GenType, NEW taken, NEW i \in taken, taken \subseteq Domain,
         Sparse => IntervalsOK(s.free, s.credits, taken)
  PROVE  Restores(s, restore_recycled(s, i), i, taken)
<1>. DEFINE a == restore_recycled(s, i)
<1>1. i \in Int /\ s.pool \in Seq(Int)
  BY IdNumbers DEF GenType
<1>2. CASE Fifo
  <2>. DEFINE q == <<i>> \o s.pool
  <2>1. a = [s EXCEPT !.pool = q] /\ ~Sparse /\ ~Lowest
    BY <1>2, PolicyKinds DEF restore_recycled, Fifo
  <2>2. q \in Seq(Int)
    BY <1>1
  <2>. HIDE DEF q
  <2>3. SameButPool(s, a) /\ a.pool = q /\ a.heap = s.heap
    BY <2>1, <2>2 DEF SameButPool, CounterStays, GenType
  <2>. HIDE DEF a
  <2>4. Restores(s, a, i, taken)
    BY <1>2, <2>1, <2>3 DEF q, Restores
  <2>. QED
    BY <2>4 DEF a
<1>3. CASE ~Fifo
  <2>1. a = add_recycled(s, i)
    BY <1>3 DEF restore_recycled, Fifo
  <2>2. Adds(s, add_recycled(s, i), i, taken)
    BY AddedIs
  <2>. HIDE DEF a
  <2>3. Restores(s, a, i, taken)
    BY <1>3, <2>1, <2>2 DEF Adds, Restores
  <2>. QED
    BY <2>3 DEF a
<1>. QED
  BY <1>2, <1>3

(* The pool, before an identifier left it and after. *)
LEMMA FromPoolIs ==
  ASSUME PoliciesOK, NEW s, NEW r, NEW i, StateOK(s), r \in GenType, FromPool(s, r, i),
         Different(s.pool), Fifo \/ Lowest, i \in Int
  PROVE  /\ Pooled(s) = Pooled(r) \cup {i} /\ i \notin Pooled(r)
         /\ Different(r.pool)
<1>1. /\ s.pool \in Seq(Int) /\ r.pool \in Seq(Int) /\ (~Fifo => s.pool = << >>) /\ (~Lowest => s.heap = {})
  BY DEF StateOK, GenType
<1>2. /\ Pooled(s) = s.heap \cup {s.pool[k] : k \in 1 .. Len(s.pool)}
      /\ Pooled(r) = r.heap \cup {r.pool[k] : k \in 1 .. Len(r.pool)}
  BY <1>1, PooledIs
<1>3. CASE Fifo
  <2>1. s.pool = <<i>> \o r.pool /\ r.heap = s.heap /\ s.heap = {}
    BY <1>1, <1>3, PolicyKinds DEF FromPool
  <2>2. /\ Len(s.pool) = Len(r.pool) + 1 /\ Len(r.pool) \in Nat /\ s.pool[1] = i
        /\ \A k \in 1 .. Len(r.pool) : s.pool[k + 1] = r.pool[k]
    BY <1>1, <2>1
  <2>3. \A k \in 1 .. Len(s.pool) : k = 1 \/ (k - 1 \in 1 .. Len(r.pool) /\ s.pool[k] = r.pool[k - 1])
    <3>1. ASSUME NEW k \in 1 .. Len(s.pool), k # 1
          PROVE  k - 1 \in 1 .. Len(r.pool) /\ s.pool[k] = r.pool[k - 1]
      <4>1. k - 1 \in 1 .. Len(r.pool) /\ (k - 1) + 1 = k
        BY <2>2, <3>1
      <4>. QED
        BY <2>2, <4>1
    <3>. QED
      BY <3>1
  <2>4. \A k, m \in 1 .. Len(s.pool) : s.pool[k] = s.pool[m] => k = m
    BY DEF Different
  <2>5. ASSUME NEW k \in 1 .. Len(r.pool), NEW m \in 1 .. Len(r.pool), r.pool[k] = r.pool[m]
        PROVE  k = m
    <3>1. k + 1 \in 1 .. Len(s.pool) /\ m + 1 \in 1 .. Len(s.pool) /\ s.pool[k + 1] = s.pool[m + 1]
      BY <2>2, <2>5
    <3>2. k + 1 = m + 1
      BY <2>4, <3>1
    <3>. QED
      BY <3>2
  <2>6. \A k \in 1 .. Len(r.pool) : r.pool[k] # i
    <3>1. ASSUME NEW k \in 1 .. Len(r.pool), r.pool[k] = i PROVE FALSE
      <4>1. k + 1 \in 1 .. Len(s.pool) /\ 1 \in 1 .. Len(s.pool) /\ s.pool[k + 1] = s.pool[1]
        BY <2>2, <3>1
      <4>2. k + 1 = 1
        BY <2>4, <4>1
      <4>. QED
        BY <4>2
    <3>. QED
      BY <3>1
  <2>7. {s.pool[k] : k \in 1 .. Len(s.pool)} = {r.pool[k] : k \in 1 .. Len(r.pool)} \cup {i}
    <3>1. ASSUME NEW k \in 1 .. Len(r.pool)
          PROVE  r.pool[k] \in {s.pool[m] : m \in 1 .. Len(s.pool)}
      <4>1. k + 1 \in 1 .. Len(s.pool) /\ r.pool[k] = s.pool[k + 1]
        BY <2>2
      <4>. QED
        BY <4>1
    <3>2. i \in {s.pool[m] : m \in 1 .. Len(s.pool)}
      BY <2>2
    <3>. QED
      <4>1. ASSUME NEW k \in 1 .. Len(s.pool)
            PROVE  s.pool[k] \in {r.pool[m] : m \in 1 .. Len(r.pool)} \cup {i}
        BY <2>2, <2>3
      <4>. QED
        BY <3>1, <3>2, <4>1
  <2>. QED
    BY <1>2, <2>1, <2>5, <2>6, <2>7 DEF Different
<1>4. CASE ~Fifo
  <2>1. r.pool = s.pool /\ i \in s.heap /\ r.heap = s.heap \ {i} /\ s.pool = << >>
    BY <1>1, <1>4 DEF FromPool
  <2>2. Different(r.pool)
    BY <2>1 DEF Different
  <2>3. {s.pool[k] : k \in 1 .. Len(s.pool)} = {} /\ {r.pool[k] : k \in 1 .. Len(r.pool)} = {}
    BY <2>1
  <2>. QED
    BY <1>2, <2>1, <2>2, <2>3
<1>. QED
  BY <1>3, <1>4

-----------------------------------------------------------------------------
(* One identifier more: what is kept when it becomes active. *)

(* To make a free identifier active keeps the tracker in order, *)
LEMMA TrackedKeeps ==
  ASSUME PoliciesOK, NEW s, NEW r, NEW i \in Domain \ s.active, StateOK(s),
         Kept(s, r), CounterOK(r), ~Fifo => r.pool = << >>, ~Lowest => r.heap = {}
  PROVE  /\ StateOK(Tracked(r, i)) /\ Tracked(r, i).active = s.active \cup {i}
         /\ Tracked(r, i).token = s.token
<1>1. r \in GenType /\ r.active = s.active /\ r.token = s.token /\ MaxOK(r) /\ i \in Int
      /\ (~Sparse => r.free = s.free)
  BY IdNumbers DEF Kept
<1>2. /\ Tracked(r, i) \in GenType
      /\ Tracked(r, i).active = r.active \cup {i}
      /\ Tracked(r, i).max = IF r.active = {} \/ (r.maxValid /\ i > r.max) THEN i ELSE r.max
      /\ Tracked(r, i).maxValid = (r.maxValid \/ r.active = {})
      /\ Tracked(r, i).next = r.next /\ Tracked(r, i).saturated = r.saturated
      /\ Tracked(r, i).token = r.token
      /\ Tracked(r, i).pool = r.pool /\ Tracked(r, i).heap = r.heap
      /\ Tracked(r, i).free = r.free
  BY <1>1, TrackedIs
<1>3. MaxOK(Tracked(r, i))
  <2>1. \A j \in r.active : j \in Int
    BY <1>1 DEF GenType
  <2>2. CASE r.active = {}
    BY <1>1, <1>2, <2>2 DEF MaxOK
  <2>3. CASE r.active # {}
    <3>1. SUFFICES ASSUME r.maxValid
                   PROVE  /\ Tracked(r, i).max \in r.active \cup {i}
                          /\ \A j \in r.active \cup {i} : j <= Tracked(r, i).max
      BY <1>2, <2>3 DEF MaxOK
    <3>2. r.max \in r.active /\ \A j \in r.active : j <= r.max
      BY <1>1, <2>3, <3>1 DEF MaxOK
    <3>. QED
      BY <1>1, <1>2, <2>1, <2>3, <3>1, <3>2
  <2>. QED
    BY <2>2, <2>3
<1>. QED
  BY <1>1, <1>2, <1>3 DEF StateOK, MaxOK, CounterOK

(* and the generator, if it was taken from it. *)
LEMMA TakenKeeps ==
  ASSUME PoliciesOK, NEW s, NEW given, GenOK(s, given), NEW t, Takes(s, t), t.id # NoId
  PROVE  GenOK(Tracked(t.state, t.id), given \cup {t.id})
<1>. DEFINE r == t.state
            i == t.id
            w == Tracked(r, i)
<1>1. StateOK(s) /\ s \in GenType
  BY DEF GenOK, StateOK
<1>2. Kept(s, r) /\ CounterOK(r) /\ i \in Domain \ s.active
  BY DEF Takes
<1>3. r \in GenType /\ r.active = s.active /\ i \in Int
  BY <1>2, IdNumbers DEF Kept
<1>4. /\ w \in GenType /\ w.next = r.next /\ w.saturated = r.saturated /\ w.exhausted = r.exhausted
      /\ w.pool = r.pool /\ w.heap = r.heap /\ w.free = r.free /\ w.credits = r.credits
  BY <1>3, TrackedIs
<1>5. (~Fifo => r.pool = << >>) /\ (~Lowest => r.heap = {})
  <2>1. (~Fifo => s.pool = << >>) /\ (~Lowest => s.heap = {})
    BY <1>1 DEF StateOK
  <2>2. PoolStays(s, r) \/ ((Fifo \/ Lowest) /\ FromPool(s, r, i))
    BY PolicyKinds DEF Takes, FromIntervals, FromPoolOrCounter, FromCounter
  <2>. QED
    BY <2>1, <2>2, PolicyKinds DEF PoolStays, FromPool
<1>6. StateOK(w) /\ w.active = s.active \cup {i}
  BY <1>1, <1>2, <1>5, TrackedKeeps
<1>. HIDE DEF w, r, i
<1>7. ASSUME Fifo \/ Lowest PROVE PoolOK(w)
  <2>1. ~Sparse
    BY <1>7, PolicyKinds
  <2>2. /\ s.active \cap Pooled(s) = {} /\ s.active \cup Pooled(s) = PassedBy(s)
        /\ (s.exhausted => PassedBy(s) = Domain) /\ Different(s.pool)
    BY <1>7 DEF GenOK, PoolOK
  <2>3. CASE CounterStays(s, r) /\ FromPool(s, r, i)
    <3>1. Pooled(s) = Pooled(r) \cup {i} /\ i \notin Pooled(r) /\ Different(r.pool)
      BY <1>1, <1>3, <1>7, <2>2, <2>3, FromPoolIs
    <3>2. Pooled(w) = Pooled(r)
      BY <1>4 DEF Pooled
    <3>3. PassedBy(w) = PassedBy(s) /\ w.exhausted = s.exhausted
      BY <1>4, <2>3, SamePassed DEF CounterStays
    <3>4. w.active \cap Pooled(w) = {} /\ w.active \cup Pooled(w) = PassedBy(w)
      BY <1>6, <2>2, <3>1, <3>2, <3>3
    <3>. QED
      BY <1>4, <2>2, <3>1, <3>3, <3>4 DEF PoolOK
  <2>4. CASE /\ PoolStays(s, r) /\ Pooled(s) = {}
             /\ Advanced(s, r, i) /\ PassedBy(r) = PassedBy(s) \cup {i}
    <3>1. Pooled(w) = {} /\ Different(w.pool)
      BY <1>4, <2>2, <2>4 DEF Pooled, PoolStays
    <3>2. PassedBy(w) = PassedBy(r)
      BY <1>4, SamePassed
    <3>3. ~w.exhausted
      BY <1>4, <2>4 DEF Advanced
    <3>. QED
      BY <1>6, <2>2, <2>4, <3>1, <3>2, <3>3 DEF PoolOK
  <2>. QED
    BY <1>7, <2>3, <2>4 DEF Takes, FromPoolOrCounter, r, i
<1>8. ASSUME Forgets PROVE NoneOK(w, given \cup {i})
  <2>1. given \subseteq Domain /\ s.active \subseteq given /\ \A j \in given : j < s.next \/ j = LastId
    BY <1>8 DEF GenOK, NoneOK
  <2>2. s.next <= i /\ r.next = IF i = LastId THEN i ELSE i + 1
    BY <1>8 DEF Takes, FromCounter, DrawsTo, r, i
  <2>3. \A j \in given : j \in Int
    BY <2>1, IdNumbers DEF Domain
  <2>4. \A j \in given \cup {i} : j < w.next \/ j = LastId
    <3>1. s.next \in Int /\ LastId \in Int
      BY <1>1, IdNumbers DEF GenType
    <3>. QED
      BY <1>3, <1>4, <2>1, <2>2, <2>3, <3>1 DEF i
  <2>. QED
    BY <1>2, <1>6, <2>1, <2>4 DEF NoneOK, i
<1>9. ASSUME Sparse PROVE IntervalsOK(w.free, w.credits, w.active)
  BY <1>4, <1>6, <1>9 DEF Takes, FromIntervals, r, i
<1>10. GenOK(w, given \cup {i})
  BY <1>6, <1>7, <1>8, <1>9 DEF GenOK
<1>. QED
  BY <1>10 DEF w, r, i

-----------------------------------------------------------------------------
(* No identifier more: none was found, or it was put back. *)

Ends(s, e) ==
  /\ Kept(s, e) /\ CounterOK(e) /\ PoolStays(s, e)
  /\ Sparse => IntervalsOK(e.free, e.credits, s.active)
  /\ Fifo \/ Lowest => /\ CounterStays(s, e) \/ s.active = Domain
                       /\ PassedBy(e) = PassedBy(s)
  /\ Forgets => /\ s.next <= e.next
                /\ LastId \notin s.active \/ (e.next = s.next /\ e.saturated = s.saturated)

(* A call that ends so leaves a generator in order. *)
LEMMA EndsOK ==
  ASSUME PoliciesOK, NEW s, NEW given, GenOK(s, given), NEW e, Ends(s, e)
  PROVE  GenOK(e, given)
<1>1. StateOK(s) /\ Kept(s, e) /\ CounterOK(e) /\ PoolStays(s, e)
  BY DEF GenOK, Ends
<1>2. e \in GenType /\ e.active = s.active /\ e.pool = s.pool /\ e.heap = s.heap
  BY <1>1 DEF Kept, PoolStays
<1>3. StateOK(e)
  BY <1>1, <1>2 DEF StateOK, Kept, CounterOK, MaxOK
<1>4. ASSUME Fifo \/ Lowest PROVE PoolOK(e)
  <2>1. /\ s.active \cap Pooled(s) = {} /\ s.active \cup Pooled(s) = PassedBy(s)
        /\ (s.exhausted => PassedBy(s) = Domain) /\ Different(s.pool)
    BY <1>4 DEF GenOK, PoolOK
  <2>2. PassedBy(e) = PassedBy(s) /\ (CounterStays(s, e) \/ s.active = Domain) /\ Pooled(e) = Pooled(s)
    BY <1>2, <1>4 DEF Ends, Pooled
  <2>3. PassedBy(s) \subseteq Domain
    BY <1>1, <1>4, PassedIs, PolicyKinds
  <2>4. e.exhausted => PassedBy(e) = Domain
    BY <2>1, <2>2, <2>3 DEF CounterStays
  <2>. QED
    BY <1>2, <2>1, <2>2, <2>4 DEF PoolOK
<1>5. ASSUME Forgets PROVE NoneOK(e, given)
  <2>1. given \subseteq Domain /\ s.active \subseteq given /\ \A j \in given : j < s.next \/ j = LastId
    BY <1>5 DEF GenOK, NoneOK
  <2>2. \A j \in given : j \in Int
    BY <2>1, IdNumbers DEF Domain
  <2>3. s.next \in Int /\ e.next \in Int /\ s.next <= e.next
    BY <1>1, <1>2, <1>5 DEF Ends, GenType, StateOK
  <2>4. \A j \in given : j < e.next \/ j = LastId
    BY <2>1, <2>2, <2>3
  <2>. QED
    BY <1>2, <2>1, <2>4 DEF NoneOK
<1>6. Sparse => IntervalsOK(e.free, e.credits, e.active)
  BY <1>2 DEF Ends
<1>. QED
  BY <1>3, <1>4, <1>5, <1>6 DEF GenOK

(* A call that got nothing does, and with a pool everything is taken. *)
LEMMA FailedEnds ==
  ASSUME PoliciesOK, NEW s, NEW given, GenOK(s, given), NEW t, Takes(s, t), t.id = NoId
  PROVE  Ends(s, t.state) /\ (Fifo \/ Lowest => s.active = Domain)
<1>. DEFINE e == t.state
<1>1. StateOK(s) /\ Kept(s, e) /\ CounterOK(e)
  BY DEF GenOK, Takes
<1>2. PoolStays(s, e)
  BY PolicyKinds DEF Takes, FromIntervals, FromPoolOrCounter, FromCounter
<1>3. Sparse => IntervalsOK(e.free, e.credits, s.active)
  BY DEF Takes, FromIntervals, GenOK
<1>4. Fifo \/ Lowest => s.active = Domain /\ PassedBy(e) = PassedBy(s)
  BY DEF Takes, FromPoolOrCounter
<1>5. ASSUME Forgets
      PROVE  /\ s.next <= e.next
             /\ LastId \notin s.active \/ (e.next = s.next /\ e.saturated = s.saturated)
  <2>1. s.next \in Int /\ LastId \in Int /\ s.next <= LastId
    BY <1>1, IdNumbers DEF StateOK
  <2>2. \/ DrawsNothing(s, e)
        \/ DrawsTo(s, e, LastId)
    BY <1>5 DEF Takes, FromCounter
  <2>3. CASE DrawsNothing(s, e)
    BY <2>1, <2>3 DEF DrawsNothing
  <2>4. CASE DrawsTo(s, e, LastId)
    BY <2>1, <2>4 DEF DrawsTo
  <2>. QED
    BY <2>2, <2>3, <2>4
<1>. QED
  BY <1>1, <1>2, <1>3, <1>4, <1>5 DEF Ends

(* So does one that put back what it got. *)
LEMMA PutBackEnds ==
  ASSUME PoliciesOK, NEW s, NEW given, GenOK(s, given), NEW t, Takes(s, t), t.id # NoId
  PROVE  Ends(s, PutBack(t)) /\ (Fifo \/ Lowest => CounterStays(s, PutBack(t)))
<1>. DEFINE r == t.state
            i == t.id
            e == PutBack(t)
<1>1. StateOK(s) /\ s \in GenType
  BY DEF GenOK, StateOK
<1>2. Kept(s, r) /\ CounterOK(r) /\ i \in Domain \ s.active
  BY DEF Takes
<1>3. r \in GenType /\ r.active = s.active /\ r.token = s.token /\ MaxOK(r) /\ i \in Int
      /\ (~Sparse => r.free = s.free)
  BY <1>2, IdNumbers DEF Kept
<1>4. (~Fifo => s.pool = << >>) /\ (~Lowest => s.heap = {}) /\ s.active \subseteq Domain /\ CounterOK(s)
  BY <1>1 DEF StateOK, CounterOK
<1>5. CASE t.pooled
  <2>. DEFINE taken == s.active \cup {i}
  <2>1. e = restore_recycled(r, i) /\ ~Forgets
    BY <1>5 DEF PutBack, Takes, FromCounter
  <2>2. CounterStays(s, r)
    BY <1>5, <2>1, PolicyKinds DEF Takes, FromIntervals, FromPoolOrCounter
  <2>3. i \in taken /\ taken \subseteq Domain /\ taken \ {i} = s.active
    BY <1>2, <1>4
  <2>4. Sparse => IntervalsOK(r.free, r.credits, taken)
    BY DEF Takes, FromIntervals
  <2>. HIDE DEF taken, r, i, e
  <2>5. /\ SameButPool(r, e)
        /\ e.pool = IF Fifo THEN <<i>> \o r.pool ELSE r.pool
        /\ e.heap = IF Lowest THEN r.heap \cup {i} ELSE r.heap
        /\ Sparse => IntervalsOK(e.free, e.credits, taken \ {i})
    <3>1. Restores(r, restore_recycled(r, i), i, taken)
      BY <1>3, <2>3, <2>4, RestoredIs
    <3>. QED
      BY <2>1, <3>1 DEF Restores
  <2>6. Kept(s, e) /\ CounterStays(s, e) /\ CounterOK(e)
    BY <1>2, <1>3, <2>2, <2>5 DEF SameButPool, Kept, MaxOK, CounterStays, CounterOK
  <2>7. PassedBy(e) = PassedBy(s)
    BY <2>6, SamePassed DEF CounterStays
  <2>8. PoolStays(s, e)
    <3>1. CASE Sparse
      <4>1. PoolStays(s, r) /\ ~Fifo /\ ~Lowest
        BY <3>1, PolicyKinds DEF Takes, FromIntervals, r
      <4>. QED
        BY <2>5, <4>1 DEF PoolStays
    <3>2. CASE Fifo \/ Lowest
      <4>1. FromPool(s, r, i)
        BY <1>5, <3>2 DEF Takes, FromPoolOrCounter, r, i
      <4>. QED
        BY <2>5, <3>2, <4>1, PolicyKinds DEF PoolStays, FromPool
    <3>. QED
      BY <2>1, <3>1, <3>2, PolicyKinds
  <2>9. Ends(s, e)
    BY <2>1, <2>3, <2>5, <2>6, <2>7, <2>8 DEF Ends
  <2>. QED
    BY <2>6, <2>9 DEF e
<1>6. CASE ~t.pooled
  <2>1. e = revert(r, 1) /\ ~Sparse
    BY <1>6 DEF PutBack, Takes, FromIntervals
  <2>2. PoolStays(s, r)
    BY <1>6, <2>1, PolicyKinds DEF Takes, FromPoolOrCounter, FromCounter
  <2>3. /\ e \in GenType
        /\ e.active = r.active /\ e.max = r.max
        /\ e.maxValid = r.maxValid /\ e.token = r.token
        /\ e.pool = r.pool /\ e.heap = r.heap /\ e.free = r.free
        /\ ~e.exhausted /\ ~e.saturated
        /\ LET back == r.next - (IF r.saturated THEN 1 - 1 ELSE 1)
           IN  e.next = IF mBaseId <= back THEN back ELSE mBaseId
    BY <1>3, <2>1, RevertedIs
  <2>. HIDE DEF e, r, i
  <2>4. Kept(s, e) /\ PoolStays(s, e)
    BY <1>3, <2>2, <2>3 DEF Kept, MaxOK, PoolStays
  <2>5. s.next \in Int /\ mBaseId \in Int /\ LastId \in Int /\ mBaseId <= s.next /\ s.next <= LastId
    BY <1>4, IdNumbers DEF CounterOK
  <2>6. CASE Fifo \/ Lowest
    <3>1. Advanced(s, r, i)
      BY <1>6, <2>6 DEF Takes, FromPoolOrCounter, r, i
    <3>2. /\ ~s.saturated /\ ~s.exhausted /\ i = s.next
          /\ r.next = IF i = LastId THEN i ELSE i + 1
          /\ r.saturated <=> i = LastId
      BY <3>1 DEF Advanced
    <3>3. e.next = s.next
      BY <2>3, <2>5, <3>2
    <3>4. e.exhausted = s.exhausted /\ e.saturated = s.saturated
      <4>1. s.exhausted \in BOOLEAN /\ s.saturated \in BOOLEAN /\ e.exhausted \in BOOLEAN /\ e.saturated \in BOOLEAN
        BY <1>1, <2>3 DEF GenType
      <4>. QED
        BY <2>3, <3>2, <4>1
    <3>5. CounterStays(s, e) /\ CounterOK(e) /\ PassedBy(e) = PassedBy(s)
      BY <1>4, <3>3, <3>4, SamePassed DEF CounterStays, CounterOK
    <3>6. Ends(s, e)
      BY <2>1, <2>4, <2>6, <3>5, PolicyKinds DEF Ends
    <3>. QED
      BY <3>5, <3>6 DEF e
  <2>7. CASE Forgets
    <3>1. DrawsTo(s, r, i)
      BY <2>7 DEF Takes, FromCounter, r, i
    <3>2. /\ i \in Int /\ s.next <= i /\ i <= LastId
          /\ \A j \in s.active : j < i
          /\ r.next = IF i = LastId THEN i ELSE i + 1
          /\ r.saturated <=> (s.saturated \/ i = LastId)
      BY <3>1 DEF DrawsTo
    <3>3. r.saturated <=> i = LastId
      BY <1>4, <2>5, <3>2 DEF CounterOK
    <3>4. e.next = i
      BY <2>3, <2>5, <3>2, <3>3
    <3>5. LastId \notin s.active
      BY <2>5, <3>2
    <3>6. CounterOK(e)
      BY <2>3, <2>5, <3>2, <3>4 DEF CounterOK
    <3>7. Ends(s, e)
      BY <2>1, <2>4, <2>7, <3>2, <3>4, <3>5, <3>6, PolicyKinds DEF Ends
    <3>. QED
      BY <2>7, <3>7, PolicyKinds DEF e
  <2>. QED
    BY <2>1, <2>6, <2>7, PolicyKinds
<1>. QED
  BY <1>5, <1>6

-----------------------------------------------------------------------------
(* An active identifier comes back. *)

(* One element more at the end of a queue. *)
LEMMA DifferentAppend ==
  ASSUME NEW q \in Seq(Int), Different(q), NEW i \in Int, \A k \in 1 .. Len(q) : q[k] # i
  PROVE  /\ Different(Append(q, i))
         /\ {Append(q, i)[k] : k \in 1 .. Len(Append(q, i))} = {q[k] : k \in 1 .. Len(q)} \cup {i}
<1>. DEFINE a == Append(q, i)
            n == Len(q)
<1>1. n \in Nat /\ Len(a) = n + 1 /\ a[n + 1] = i /\ \A k \in 1 .. n : a[k] = q[k]
  BY AppendProperties
<1>. HIDE DEF a, n
<1>2. \A k, m \in 1 .. n : q[k] = q[m] => k = m
  BY DEF Different, n
<1>3. \A k \in 1 .. n : q[k] # i
  BY DEF n
<1>4. \A k \in 1 .. n + 1 : k = n + 1 \/ k \in 1 .. n
  BY <1>1
<1>5. ASSUME NEW k \in 1 .. n + 1, NEW m \in 1 .. n + 1, a[k] = a[m] PROVE k = m
  BY <1>1, <1>2, <1>3, <1>4, <1>5
<1>6. Different(a)
  BY <1>1, <1>5 DEF Different
<1>7. {a[k] : k \in 1 .. n + 1} = {q[k] : k \in 1 .. n} \cup {i}
  <2>1. ASSUME NEW k \in 1 .. n + 1 PROVE a[k] \in {q[m] : m \in 1 .. n} \cup {i}
    BY <1>1, <1>4
  <2>2. ASSUME NEW k \in 1 .. n PROVE q[k] \in {a[m] : m \in 1 .. n + 1}
    <3>1. k \in 1 .. n + 1 /\ q[k] = a[k]
      BY <1>1
    <3>. QED
      BY <3>1
  <2>3. i \in {a[m] : m \in 1 .. n + 1}
    <3>1. n + 1 \in 1 .. n + 1 /\ i = a[n + 1]
      BY <1>1
    <3>. QED
      BY <3>1
  <2>. QED
    BY <2>1, <2>2, <2>3
<1>. QED
  BY <1>1, <1>6, <1>7 DEF a, n

Returns(s, r, i) ==
  /\ r.active = s.active \ {i}
  /\ r.token = [j \in Ids |-> IF j \in {i} THEN Nobody ELSE s.token[j]]
  /\ PassedBy(r) = PassedBy(s)
  /\ Fifo => r.pool = Append(s.pool, i)

(* To release an identifier keeps the generator in order. *)
LEMMA ReturnedIs ==
  ASSUME PoliciesOK, NEW s, NEW given, GenOK(s, given), NEW i \in s.active
  PROVE  GenOK(Returned(s, i), given) /\ Returns(s, Returned(s, i), i)
<1>. DEFINE u == Untracked(s, {i})
            r == Returned(s, i)
            taken == s.active
<1>1. StateOK(s) /\ s \in GenType /\ taken \subseteq Domain /\ i \in taken /\ i \in Int
      /\ taken \ {i} = s.active \ {i}
  BY IdNumbers DEF GenOK, StateOK, GenType
<1>2. /\ u \in GenType /\ u.active = s.active \ {i} /\ u.max = s.max
      /\ u.maxValid = (s.maxValid /\ s.max \notin {i})
      /\ u.token = [j \in Ids |-> IF j \in {i} THEN Nobody ELSE s.token[j]]
      /\ u.next = s.next /\ u.exhausted = s.exhausted /\ u.saturated = s.saturated
      /\ u.pool = s.pool /\ u.heap = s.heap /\ u.free = s.free /\ u.credits = s.credits
  BY <1>1, UntrackedIs
<1>3. Sparse => IntervalsOK(u.free, u.credits, taken)
  BY <1>2 DEF GenOK
<1>. HIDE DEF u, taken
<1>4. /\ SameButPool(u, r)
      /\ r.pool = IF Fifo THEN Append(u.pool, i) ELSE u.pool
      /\ r.heap = IF Lowest THEN u.heap \cup {i} ELSE u.heap
      /\ Sparse => IntervalsOK(r.free, r.credits, taken \ {i})
  <2>1. Adds(u, add_recycled(u, i), i, taken)
    BY <1>1, <1>2, <1>3, AddedIs
  <2>. QED
    BY <2>1 DEF Returned, u, Adds
<1>. HIDE DEF r
<1>6. /\ r \in GenType /\ r.active = s.active \ {i} /\ CounterStays(s, r)
      /\ r.token = [j \in Ids |-> IF j \in {i} THEN Nobody ELSE s.token[j]]
      /\ r.max = s.max /\ r.maxValid = (s.maxValid /\ s.max \notin {i})
  BY <1>2, <1>4 DEF SameButPool, CounterStays
<1>7. PassedBy(r) = PassedBy(s)
  BY <1>6, SamePassed DEF CounterStays
<1>8. StateOK(r)
  <2>1. MaxOK(s) /\ MaxOK(r)
    BY <1>1, <1>6 DEF StateOK, MaxOK
  <2>. QED
    BY <1>1, <1>2, <1>4, <1>6, <2>1 DEF StateOK, MaxOK, CounterStays, SameButPool
<1>9. ASSUME Fifo \/ Lowest PROVE PoolOK(r)
  <2>1. /\ s.active \cap Pooled(s) = {} /\ s.active \cup Pooled(s) = PassedBy(s)
        /\ (s.exhausted => PassedBy(s) = Domain) /\ Different(s.pool)
    BY <1>9 DEF GenOK, PoolOK
  <2>2. /\ s.pool \in Seq(Int) /\ r.pool \in Seq(Int) /\ (~Fifo => s.pool = << >>) /\ (~Lowest => s.heap = {})
    BY <1>1, <1>6 DEF StateOK, GenType
  <2>3. /\ Pooled(s) = s.heap \cup {s.pool[k] : k \in 1 .. Len(s.pool)}
        /\ Pooled(r) = r.heap \cup {r.pool[k] : k \in 1 .. Len(r.pool)}
    BY <2>2, PooledIs
  <2>4. Pooled(r) = Pooled(s) \cup {i} /\ Different(r.pool)
    <3>1. CASE Fifo
      <4>1. r.pool = Append(s.pool, i) /\ r.heap = s.heap
        BY <1>2, <1>4, <3>1, PolicyKinds
      <4>2. \A k \in 1 .. Len(s.pool) : s.pool[k] # i
        BY <1>1, <2>1, <2>3 DEF taken
      <4>3. /\ Different(Append(s.pool, i))
            /\ {Append(s.pool, i)[k] : k \in 1 .. Len(Append(s.pool, i))}
               = {s.pool[k] : k \in 1 .. Len(s.pool)} \cup {i}
        BY <1>1, <2>1, <2>2, <4>2, DifferentAppend
      <4>. QED
        BY <2>3, <4>1, <4>3
    <3>2. CASE ~Fifo
      <4>1. r.pool = s.pool /\ r.heap = s.heap \cup {i}
        BY <1>2, <1>4, <1>9, <3>2
      <4>. QED
        BY <2>1, <2>3, <4>1
    <3>. QED
      BY <3>1, <3>2
  <2>5. r.active \cap Pooled(r) = {} /\ r.active \cup Pooled(r) = PassedBy(r)
    BY <1>1, <1>6, <1>7, <2>1, <2>4 DEF taken
  <2>. QED
    BY <1>6, <1>7, <2>1, <2>4, <2>5 DEF PoolOK, CounterStays
<1>10. ASSUME Forgets PROVE NoneOK(r, given)
  <2>1. NoneOK(s, given)
    BY <1>10 DEF GenOK
  <2>. QED
    BY <1>6, <2>1 DEF NoneOK, CounterStays
<1>11. Sparse => IntervalsOK(r.free, r.credits, r.active)
  BY <1>1, <1>4, <1>6
<1>12. Returns(s, r, i)
  BY <1>2, <1>4, <1>6, <1>7 DEF Returns
<1>13. GenOK(r, given)
  BY <1>8, <1>9, <1>10, <1>11 DEF GenOK
<1>. QED
  BY <1>12, <1>13 DEF r

-----------------------------------------------------------------------------
(* The two loops over a batch, forward and back, as functions of the steps   *)
(* done.                                                                     *)

Undone(taken, k, x) ==
  LET t == taken[Len(taken) + 1 - k]
  IN  IF t.pooled THEN restore_recycled(x, t.id) ELSE x

Asked(count, throws, k, x) == Another(x, throws /\ k = count)

LoopStep(c, k, x) ==
  IF c.undo THEN Undone(c.taken, k, x) ELSE Asked(c.count, c.throws, k, x)

LoopIs(c, first, N, f) ==
  f = [k \in 0 .. N |-> IF k = 0 THEN first ELSE LoopStep(c, k, f[k - 1])]

(* The loop of a batch, or of its rollback, has a course. *)
LEMMA LoopExists ==
  ASSUME NEW c, NEW first, NEW N \in Nat
  PROVE  \E f : LoopIs(c, first, N, f)
<1>. SUFFICES ASSUME ~ \E f : LoopIs(c, first, N, f) PROVE FALSE
  OBVIOUS
<1>. DEFINE Bad == {m \in Nat : ~ \E f : LoopIs(c, first, m, f)}
<1>1. PICK m \in Bad : \A k \in Bad : m <= k
  <2>1. Bad \in SUBSET Nat /\ Bad # {}
    OBVIOUS
  <2>. HIDE DEF Bad
  <2>. QED
    BY <2>1, LeastOf
<1>2. m # 0
  <2>. DEFINE f == [k \in 0 .. 0 |-> first]
  <2>1. LoopIs(c, first, 0, f)
    BY DEF LoopIs
  <2>. QED
    BY <1>1, <2>1
<1>3. m \in Nat /\ m - 1 \in Nat /\ m - 1 \notin Bad
  BY <1>1, <1>2
<1>4. PICK f : LoopIs(c, first, m - 1, f)
  BY <1>3
<1>. DEFINE last == LoopStep(c, m, f[m - 1])
            g == [k \in 0 .. m |-> IF k = m THEN last ELSE f[k]]
<1>5. ASSUME NEW k \in 0 .. m
      PROVE  g[k] = IF k = 0 THEN first ELSE LoopStep(c, k, g[k - 1])
  <2>1. CASE k = m
    BY <1>2, <1>3, <2>1
  <2>2. CASE k # m
    <3>1. k \in 0 .. m - 1
      BY <1>3, <2>2
    <3>2. f[k] = IF k = 0 THEN first ELSE LoopStep(c, k, f[k - 1])
      BY <1>4, <3>1 DEF LoopIs
    <3>3. k # 0 => g[k - 1] = f[k - 1]
      BY <1>3, <3>1
    <3>4. g[k] = f[k]
      BY <2>2
    <3>. HIDE DEF g
    <3>. QED
      BY <3>2, <3>3, <3>4
  <2>. QED
    BY <2>1, <2>2
<1>6. LoopIs(c, first, m, g)
  <2>1. g = [k \in 0 .. m |-> g[k]]
    OBVIOUS
  <2>. HIDE DEF g
  <2>. QED
    BY <1>5, <2>1 DEF LoopIs
<1>. QED
  BY <1>1, <1>6

Forward(count, throws) == [undo |-> FALSE, count |-> count, throws |-> throws, taken |-> << >>]
Back(taken) == [undo |-> TRUE, count |-> 0, throws |-> FALSE, taken |-> taken]

(* A batch is such a loop, *)
LEMMA BatchLoops ==
  ASSUME NEW count \in Nat, NEW throws
  PROVE  \E f : /\ LoopIs(Forward(count, throws), [state |-> gen, taken |-> << >>, failed |-> FALSE], count, f)
                /\ Batch(count, throws) = f[count]
<1>. DEFINE c == Forward(count, throws)
            first == [state |-> gen, taken |-> << >>, failed |-> FALSE]
            after[k \in 0 .. count] ==
              IF k = 0 THEN [state |-> gen, taken |-> << >>, failed |-> FALSE]
                       ELSE Another(after[k - 1], throws /\ k = count)
<1>1. PICK f : LoopIs(c, first, count, f)
  BY LoopExists
<1>2. \A k, x : LoopStep(c, k, x) = Asked(count, throws, k, x)
  BY DEF LoopStep, Forward
<1>. HIDE DEF c
<1>3. f = [k \in 0 .. count |-> IF k = 0 THEN first ELSE Asked(count, throws, k, f[k - 1])]
  BY <1>1, <1>2 DEF LoopIs
<1>4. after = [k \in 0 .. count |-> IF k = 0 THEN first ELSE Asked(count, throws, k, after[k - 1])]
  BY <1>3 DEF Asked
<1>5. Batch(count, throws) = after[count]
  BY DEF Batch
<1>. HIDE DEF after
<1>6. LoopIs(c, first, count, after)
  BY <1>2, <1>4 DEF LoopIs
<1>. QED
  BY <1>5, <1>6 DEF c

(* and so is its rollback. *)
LEMMA RollbackLoops ==
  ASSUME NEW s, NEW taken, Len(taken) \in Nat
  PROVE  \E f : /\ LoopIs(Back(taken), Untracked(s, {taken[m].id : m \in 1 .. Len(taken)}), Len(taken), f)
                /\ rollback_batch(s, taken) = revert(f[Len(taken)], Cardinality(Fresh(taken)))
<1>. DEFINE n == Len(taken)
            c == Back(taken)
            first == Untracked(s, {taken[m].id : m \in 1 .. Len(taken)})
            restored[k \in 0 .. n] ==
              IF k = 0 THEN Untracked(s, {taken[m].id : m \in 1 .. n})
              ELSE LET t == taken[n + 1 - k]
                   IN  IF t.pooled THEN restore_recycled(restored[k - 1], t.id) ELSE restored[k - 1]
<1>1. PICK f : LoopIs(c, first, n, f)
  BY LoopExists
<1>2. \A k, x : LoopStep(c, k, x) = Undone(taken, k, x)
  BY DEF LoopStep, Back
<1>. HIDE DEF c
<1>3. f = [k \in 0 .. n |-> IF k = 0 THEN first ELSE Undone(taken, k, f[k - 1])]
  BY <1>1, <1>2 DEF LoopIs
<1>4. restored = [k \in 0 .. n |-> IF k = 0 THEN first ELSE Undone(taken, k, restored[k - 1])]
  BY <1>3 DEF Undone
<1>5. rollback_batch(s, taken) = revert(restored[n], Cardinality(Fresh(taken)))
  BY DEF rollback_batch
<1>. HIDE DEF restored
<1>6. LoopIs(c, first, n, restored)
  BY <1>2, <1>4 DEF LoopIs
<1>. QED
  BY <1>5, <1>6 DEF c

-----------------------------------------------------------------------------
(* A batch takes one identifier after the other until it has them all or one *)
(* cannot be taken or committed.                                             *)

TakenType == [id : Int, pooled : BOOLEAN]
BatchType == [state : GenType, taken : Seq(TakenType), failed : BOOLEAN]

Commits(s, r, c) ==
  LET t == NextTaken(s) IN
  /\ Takes(s, t) /\ t.id # NoId
  /\ c = [id |-> t.id, pooled |-> t.pooled] /\ r = Tracked(t.state, t.id)

GivesUp(s, e, last, throws) ==
  LET t == NextTaken(s) IN
  \/ t.id = NoId /\ e = t.state
  \/ t.id # NoId /\ throws /\ last /\ e = PutBack(t)

Ran(f, k, count, throws) ==
  LET b == f[k]
      n == Len(b.taken)
  IN  /\ b \in BatchType /\ n \in 0 .. k
      /\ \A m \in 0 .. n : \E given : GenOK(f[m].state, given)
      /\ \A m \in 0 .. n - 1 : Commits(f[m].state, f[m + 1].state, b.taken[m + 1])
      /\ ~b.failed => n = k
      /\ b.failed => n < k /\ GivesUp(f[n].state, b.state, n + 1 = count, throws)

LEMMA PooledOrNot ==
  ASSUME NEW s
  PROVE  NextTaken(s).pooled \in BOOLEAN
BY DEF NextTaken, Recycled, Drawn

(* One more round of a batch. *)
LEMMA AnotherRuns ==
  ASSUME PoliciesOK, NEW count \in Nat, NEW throws, NEW f, NEW k \in 1 .. count,
         Ran(f, k - 1, count, throws), f[k] = Asked(count, throws, k, f[k - 1])
  PROVE  Ran(f, k, count, throws)
<1>. DEFINE x == f[k - 1]
            n == Len(x.taken)
            s == x.state
            t == NextTaken(s)
            b == f[k]
<1>1. /\ x \in BatchType /\ n \in 0 .. k - 1
      /\ \A m \in 0 .. n : \E given : GenOK(f[m].state, given)
      /\ \A m \in 0 .. n - 1 : Commits(f[m].state, f[m + 1].state, x.taken[m + 1])
      /\ ~x.failed => n = k - 1
      /\ x.failed => n < k - 1 /\ GivesUp(f[n].state, x.state, n + 1 = count, throws)
  BY DEF Ran
<1>2. CASE x.failed
  <2>1. b = x
    BY <1>2 DEF Asked, Another
  <2>2. n \in 0 .. k /\ n < k
    BY <1>1, <1>2
  <2>. QED
    BY <1>1, <1>2, <2>1, <2>2 DEF Ran
<1>3. CASE ~x.failed
  <2>1. n = k - 1 /\ n \in Nat /\ f[n] = x /\ f[n].state = s
    BY <1>1, <1>3
  <2>2. PICK given : GenOK(s, given)
    BY <1>1, <2>1
  <2>3. Takes(s, t)
    BY <2>2, TakenIs
  <2>4. t.state \in GenType /\ t.pooled \in BOOLEAN /\ s \in GenType /\ x.taken \in Seq(TakenType)
    BY <1>1, <2>3, PooledOrNot DEF Takes, Kept, BatchType
  <2>5. CASE t.id = NoId
    <3>. DEFINE r == t.state
    <3>1. b = [x EXCEPT !.state = r, !.failed = TRUE]
      BY <1>3, <2>5 DEF Asked, Another
    <3>2. r \in GenType
      BY <2>4
    <3>. HIDE DEF r
    <3>3. b \in BatchType /\ b.state = r /\ b.failed /\ b.taken = x.taken
      BY <1>1, <3>1, <3>2 DEF BatchType
    <3>4. GivesUp(f[n].state, b.state, n + 1 = count, throws)
      BY <2>1, <2>5, <3>3 DEF GivesUp, r
    <3>5. n \in 0 .. k /\ n < k
      BY <1>1, <2>1
    <3>. QED
      BY <1>1, <3>3, <3>4, <3>5 DEF Ran
  <2>6. CASE t.id # NoId /\ throws /\ k = count
    <3>. DEFINE r == PutBack(t)
    <3>1. b = [x EXCEPT !.state = r, !.failed = TRUE]
      BY <1>3, <2>6 DEF Asked, Another
    <3>2. r \in GenType
      BY <2>2, <2>3, <2>6, PutBackEnds DEF Ends, Kept
    <3>. HIDE DEF r
    <3>3. b \in BatchType /\ b.state = r /\ b.failed /\ b.taken = x.taken
      BY <1>1, <3>1, <3>2 DEF BatchType
    <3>4. n + 1 = count
      BY <2>1, <2>6
    <3>5. GivesUp(f[n].state, b.state, n + 1 = count, throws)
      BY <2>1, <2>6, <3>3, <3>4 DEF GivesUp, r
    <3>6. n \in 0 .. k /\ n < k
      BY <1>1, <2>1
    <3>. QED
      BY <1>1, <3>3, <3>5, <3>6 DEF Ran
  <2>7. CASE t.id # NoId /\ ~(throws /\ k = count)
    <3>. DEFINE r == Tracked(t.state, t.id)
                c == [id |-> t.id, pooled |-> t.pooled]
                q == Append(x.taken, c)
    <3>1. b = [state |-> r, failed |-> FALSE, taken |-> q]
      BY <1>3, <2>7 DEF Asked, Another
    <3>2. t.id \in Int
      BY <2>3, <2>7, IdNumbers DEF Takes
    <3>3. r \in GenType
      BY <2>4, <3>2, TrackedIs
    <3>4. c \in TakenType
      BY <2>4, <3>2 DEF TakenType
    <3>5. Commits(s, r, c)
      BY <2>3, <2>7 DEF Commits
    <3>. HIDE DEF r, c
    <3>6. /\ q \in Seq(TakenType) /\ Len(q) = n + 1 /\ q[n + 1] = c
          /\ \A m \in 1 .. n : q[m] = x.taken[m]
      BY <2>4, <3>4, AppendProperties
    <3>. HIDE DEF q
    <3>7. b \in BatchType /\ b.state = r /\ ~b.failed /\ b.taken = q /\ Len(b.taken) = k
      BY <2>1, <3>1, <3>3, <3>6 DEF BatchType
    <3>8. ASSUME NEW m \in 0 .. k PROVE \E g : GenOK(f[m].state, g)
      <4>1. CASE m \in 0 .. n
        BY <1>1, <4>1
      <4>2. CASE m = k
        <5>1. GenOK(r, given \cup {t.id})
          BY <2>2, <2>3, <2>7, TakenKeeps DEF r
        <5>. QED
          BY <3>7, <4>2, <5>1
      <4>. QED
        BY <2>1, <3>8, <4>1, <4>2
    <3>9. ASSUME NEW m \in 0 .. k - 1
          PROVE  Commits(f[m].state, f[m + 1].state, b.taken[m + 1])
      <4>1. CASE m \in 0 .. n - 1
        <5>1. m + 1 \in 1 .. n
          BY <2>1, <4>1
        <5>. QED
          BY <1>1, <3>6, <3>7, <4>1, <5>1
      <4>2. CASE m = n
        <5>1. m + 1 = k /\ b.taken[m + 1] = c /\ f[m] = x
          BY <2>1, <3>6, <3>7, <4>2
        <5>. QED
          BY <3>5, <3>7, <5>1
      <4>. QED
        BY <2>1, <3>9, <4>1, <4>2
    <3>10. k \in 0 .. k
      OBVIOUS
    <3>. HIDE DEF b
    <3>11. Ran(f, k, count, throws)
      BY <3>7, <3>8, <3>9, <3>10 DEF Ran, b
    <3>. QED
      BY <3>11
  <2>. QED
    BY <2>5, <2>6, <2>7
<1>. QED
  BY <1>2, <1>3

(* The states of a batch, from s on, each with one identifier more. *)
Path(g, s, taken) ==
  /\ taken \in Seq(TakenType) /\ g[0] = s
  /\ \A m \in 0 .. Len(taken) - 1 : Commits(g[m], g[m + 1], taken[m + 1])

(* A batch takes identifiers one after the other until one fails. *)
LEMMA BatchPath ==
  ASSUME PoliciesOK, GenOK(gen, used), NEW count \in Nat, NEW throws
  PROVE  LET b == Batch(count, throws)
             n == Len(b.taken)
         IN  \E g : /\ Path(g, gen, b.taken) /\ n \in 0 .. count
                    /\ ~b.failed => n = count /\ b.state = g[n]
                    /\ b.failed => n < count /\ GivesUp(g[n], b.state, n + 1 = count, throws)
<1>. DEFINE first == [state |-> gen, taken |-> << >>, failed |-> FALSE]
<1>1. PICK f : LoopIs(Forward(count, throws), first, count, f) /\ Batch(count, throws) = f[count]
  BY BatchLoops
<1>2. f[0] = first /\ \A k \in 1 .. count : f[k] = Asked(count, throws, k, f[k - 1])
  <2>1. \A k \in 0 .. count : f[k] = IF k = 0 THEN first ELSE LoopStep(Forward(count, throws), k, f[k - 1])
    BY <1>1 DEF LoopIs
  <2>2. \A k, x : LoopStep(Forward(count, throws), k, x) = Asked(count, throws, k, x)
    BY DEF LoopStep, Forward
  <2>. HIDE DEF first
  <2>3. f[0] = first
    BY <2>1
  <2>4. ASSUME NEW k \in 1 .. count PROVE f[k] = Asked(count, throws, k, f[k - 1])
    <3>1. k \in 0 .. count /\ k # 0
      OBVIOUS
    <3>. QED
      BY <2>1, <2>2, <3>1
  <2>. QED
    BY <2>3, <2>4
<1>3. Ran(f, 0, count, throws)
  <2>1. first \in BatchType /\ Len(first.taken) = 0 /\ ~first.failed /\ first.state = gen
    BY DEF BatchType, GenOK, StateOK
  <2>. HIDE DEF first
  <2>2. f[0] \in BatchType /\ Len(f[0].taken) = 0 /\ ~f[0].failed /\ f[0].state = gen
    BY <1>2, <2>1
  <2>3. \A m \in 0 .. 0 : \E given : GenOK(f[m].state, given)
    BY <2>2
  <2>. QED
    BY <2>2, <2>3 DEF Ran
<1>4. \A k \in 0 .. count : Ran(f, k, count, throws)
  <2>. DEFINE Bad == {k \in 0 .. count : ~Ran(f, k, count, throws)}
  <2>. SUFFICES ASSUME Bad # {} PROVE FALSE
    BY DEF Bad
  <2>1. PICK k \in Bad : \A j \in Bad : k <= j
    <3>1. Bad \in SUBSET Nat
      OBVIOUS
    <3>. HIDE DEF Bad
    <3>. QED
      BY <3>1, LeastOf
  <2>2. k \in 1 .. count
    BY <1>3, <2>1
  <2>3. k - 1 \in 0 .. count /\ ~(k <= k - 1)
    BY <2>2
  <2>4. Ran(f, k - 1, count, throws)
    BY <2>1, <2>3
  <2>5. Ran(f, k, count, throws)
    BY <1>2, <2>2, <2>4, AnotherRuns
  <2>. QED
    BY <2>1, <2>5
<1>. DEFINE b == Batch(count, throws)
            n == Len(b.taken)
            g == [m \in 0 .. n |-> f[m].state]
<1>5. /\ b = f[count] /\ b \in BatchType /\ n \in 0 .. count
      /\ \A m \in 0 .. n - 1 : Commits(f[m].state, f[m + 1].state, b.taken[m + 1])
      /\ ~b.failed => n = count
      /\ b.failed => n < count /\ GivesUp(f[n].state, b.state, n + 1 = count, throws)
  BY <1>1, <1>4 DEF Ran
<1>. HIDE DEF b, n
<1>6. \A m \in 0 .. n : g[m] = f[m].state
  OBVIOUS
<1>7. 0 \in 0 .. n /\ n \in 0 .. n /\ \A m \in 0 .. n - 1 : m \in 0 .. n /\ m + 1 \in 0 .. n
  BY <1>5
<1>. HIDE DEF g
<1>8. g[0] = gen /\ g[n] = f[n].state
  BY <1>2, <1>6, <1>7
<1>9. \A m \in 0 .. n - 1 : Commits(g[m], g[m + 1], b.taken[m + 1])
  BY <1>5, <1>6, <1>7
<1>10. Path(g, gen, b.taken)
  BY <1>5, <1>8, <1>9 DEF Path, BatchType, n
<1>11. /\ ~b.failed => n = count /\ b.state = g[n]
       /\ b.failed => n < count /\ GivesUp(g[n], b.state, n + 1 = count, throws)
  BY <1>5, <1>8
<1>. QED
  BY <1>5, <1>10, <1>11 DEF b, n

-----------------------------------------------------------------------------
(* What holds along the path of a batch. *)

IdsOf(taken, m) == {taken[j].id : j \in 1 .. m}
FreshOf(taken, m) == {j \in 1 .. m : ~taken[j].pooled}

(* The number of the identifier after the last one that the counter gave. *)
Position(s) == IF s.saturated THEN s.next + 1 ELSE s.next

(* With a pool the counter moved by one for every fresh identifier, *)
CountsFresh(s, r, fresh) ==
  IF fresh = {} THEN CounterStays(s, r)
  ELSE /\ ~s.saturated /\ ~s.exhausted /\ ~r.exhausted
       /\ Position(r) = s.next + Cardinality(fresh)

(* and without one by at least as much, until it came to its end. *)
CountsAtLeast(s, r, m) ==
  /\ s.next <= r.next
  /\ m # 0 => /\ LastId \notin s.active
              /\ r.saturated => LastId \in r.active
              /\ s.saturated => m = 1 /\ r.saturated
              /\ ~s.saturated => s.next + m <= Position(r)

(* A queue that some identifiers have left, the first of them all from its *)
(* front.                                                                  *)
LosesFirst(q, r, ids) ==
  \E d \in 0 .. Len(q) : /\ Len(r) = Len(q) - d
                         /\ \A k \in 1 .. Len(r) : r[k] = q[k + d]
                         /\ \A k \in 1 .. d : q[k] \in ids

(* None has left, *)
LEMMA LosesNothing ==
  ASSUME NEW q \in Seq(Int), NEW ids
  PROVE  LosesFirst(q, q, ids)
<1>1. /\ 0 \in 0 .. Len(q) /\ Len(q) = Len(q) - 0 /\ \A k \in 1 .. Len(q) : q[k] = q[k + 0]
      /\ \A k \in 1 .. 0 : q[k] \in ids
  OBVIOUS
<1>. QED
  BY <1>1 DEF LosesFirst

(* or some and then others, *)
LEMMA LosesMore ==
  ASSUME NEW q \in Seq(Int), NEW r \in Seq(Int), NEW u \in Seq(Int), NEW ids, NEW more,
         LosesFirst(q, r, ids), LosesFirst(r, u, more)
  PROVE  LosesFirst(q, u, ids \cup more)
<1>1. PICK d \in 0 .. Len(q) : /\ Len(r) = Len(q) - d
                               /\ \A k \in 1 .. Len(r) : r[k] = q[k + d]
                               /\ \A k \in 1 .. d : q[k] \in ids
  BY DEF LosesFirst
<1>2. PICK e \in 0 .. Len(r) : /\ Len(u) = Len(r) - e
                               /\ \A k \in 1 .. Len(u) : u[k] = r[k + e]
                               /\ \A k \in 1 .. e : r[k] \in more
  BY DEF LosesFirst
<1>3. d + e \in 0 .. Len(q) /\ Len(u) = Len(q) - (d + e)
  BY <1>1, <1>2
<1>4. ASSUME NEW k \in 1 .. Len(u) PROVE u[k] = q[k + (d + e)]
  <2>1. k + e \in 1 .. Len(r) /\ (k + e) + d = k + (d + e)
    BY <1>1, <1>2
  <2>2. u[k] = r[k + e] /\ r[k + e] = q[(k + e) + d]
    BY <1>1, <1>2, <2>1
  <2>. QED
    BY <2>1, <2>2
<1>5. ASSUME NEW k \in 1 .. d + e PROVE q[k] \in ids \cup more
  <2>1. CASE k <= d
    BY <1>1, <2>1
  <2>2. CASE k > d
    <3>1. k - d \in 1 .. e /\ k - d \in 1 .. Len(r) /\ (k - d) + d = k
      BY <1>1, <1>2, <2>2
    <3>. QED
      BY <1>1, <1>2, <3>1
  <2>. QED
    BY <2>1, <2>2
<1>. QED
  BY <1>3, <1>4, <1>5 DEF LosesFirst

(* or the one that was taken. *)
LEMMA LosesOne ==
  ASSUME NEW s \in GenType, NEW t, Takes(s, t), Fifo, t.id # NoId, PoliciesOK
  PROVE  LosesFirst(s.pool, t.state.pool, {t.id})
<1>. DEFINE q == s.pool
            r == t.state.pool
            i == t.id
<1>1. t.state \in GenType /\ i \in Int
  BY IdNumbers DEF Takes, Kept
<1>2. q \in Seq(Int) /\ r \in Seq(Int)
  BY <1>1 DEF GenType
<1>3. q = <<i>> \o r \/ q = r
  BY DEF Takes, FromPoolOrCounter, FromPool, PoolStays
<1>. HIDE DEF q, r, i
<1>4. CASE q = r
  BY <1>2, <1>4, LosesNothing DEF q, r
<1>5. CASE q = <<i>> \o r
  <2>1. /\ Len(q) = Len(r) + 1 /\ \A k \in 1 .. Len(r) : q[k + 1] = r[k]
        /\ q[1] = i
    BY <1>1, <1>2, <1>5
  <2>2. /\ 1 \in 0 .. Len(q) /\ Len(r) = Len(q) - 1
        /\ \A k \in 1 .. Len(r) : r[k] = q[k + 1]
        /\ \A k \in 1 .. 1 : q[k] \in {i}
    BY <1>2, <2>1
  <2>3. LosesFirst(q, r, {i})
    BY <2>2 DEF LosesFirst
  <2>. QED
    BY <2>3 DEF q, r, i
<1>. QED
  BY <1>3, <1>4, <1>5

PathAt(g, s, given, taken, m) ==
  /\ GenOK(g[m], given \cup IdsOf(taken, m))
  /\ g[m].active = s.active \cup IdsOf(taken, m) /\ s.active \cap IdsOf(taken, m) = {}
  /\ IsFiniteSet(IdsOf(taken, m)) /\ Cardinality(IdsOf(taken, m)) = m
  /\ IsFiniteSet(FreshOf(taken, m))
  /\ g[m].token = s.token
  /\ Fifo => LosesFirst(s.pool, g[m].pool, IdsOf(taken, m))
  /\ Fifo \/ Lowest => CountsFresh(s, g[m], FreshOf(taken, m))
  /\ Forgets => FreshOf(taken, m) = 1 .. m /\ CountsAtLeast(s, g[m], m)

(* Along the path of a batch the generator stays in order: at first, *)
LEMMA PathStart ==
  ASSUME PoliciesOK, NEW s, NEW given, GenOK(s, given), NEW taken, NEW g, g[0] = s
  PROVE  PathAt(g, s, given, taken, 0)
<1>1. IdsOf(taken, 0) = {} /\ FreshOf(taken, 0) = {} /\ 1 .. 0 = {}
  BY DEF IdsOf, FreshOf
<1>2. IsFiniteSet({}) /\ Cardinality({}) = 0
  BY FS_EmptySet
<1>3. s \in GenType
  BY DEF GenOK, StateOK
<1>4. CountsFresh(s, s, {}) /\ CountsAtLeast(s, s, 0)
  BY <1>3 DEF CountsFresh, CountsAtLeast, CounterStays, GenType
<1>5. LosesFirst(s.pool, s.pool, {})
  BY <1>3, LosesNothing DEF GenType
<1>. QED
  BY <1>1, <1>2, <1>4, <1>5 DEF PathAt

(* then after each identifier, *)
LEMMA PathStep ==
  ASSUME PoliciesOK, NEW s, NEW given, GenOK(s, given), NEW taken, NEW g, Path(g, s, taken),
         NEW m \in 0 .. Len(taken) - 1, PathAt(g, s, given, taken, m)
  PROVE  PathAt(g, s, given, taken, m + 1)
<1>. DEFINE x == g[m]
            r == g[m + 1]
            c == taken[m + 1]
            t == NextTaken(x)
            I == IdsOf(taken, m)
            F == FreshOf(taken, m)
            J == IdsOf(taken, m + 1)
            G == FreshOf(taken, m + 1)
<1>1. /\ GenOK(x, given \cup I) /\ x.active = s.active \cup I /\ s.active \cap I = {}
      /\ IsFiniteSet(I) /\ Cardinality(I) = m /\ IsFiniteSet(F) /\ x.token = s.token
      /\ Fifo \/ Lowest => CountsFresh(s, x, F)
      /\ Forgets => F = 1 .. m /\ CountsAtLeast(s, x, m)
  BY DEF PathAt
<1>2. /\ Takes(x, t) /\ t.id # NoId /\ c.id = t.id /\ c.pooled = t.pooled
      /\ r = Tracked(t.state, t.id)
  <2>1. Commits(x, r, c)
    BY DEF Path
  <2>. HIDE DEF x, r, c
  <2>. QED
    BY <2>1 DEF Commits
<1>3. m \in Nat /\ m + 1 \in Nat /\ 1 .. m + 1 = (1 .. m) \cup {m + 1} /\ m + 1 \notin 1 .. m
  <2>1. Len(taken) \in Nat
    BY DEF Path
  <2>. QED
    BY <2>1
<1>4. J = I \cup {t.id} /\ G = IF t.pooled THEN F ELSE F \cup {m + 1}
  BY <1>2, <1>3 DEF IdsOf, FreshOf
<1>5. m + 1 \notin F
  BY <1>3 DEF FreshOf
<1>. HIDE DEF I, F, J, G, t, x, r, c
<1>6. StateOK(x) /\ x \in GenType /\ StateOK(s) /\ s \in GenType
  BY <1>1 DEF GenOK, StateOK
<1>7. Kept(x, t.state) /\ CounterOK(t.state) /\ t.id \in Domain \ x.active
  BY <1>2 DEF Takes
<1>8. t.state \in GenType /\ t.state.active = x.active /\ t.state.token = x.token /\ t.id \in Int
  BY <1>7, IdNumbers DEF Kept
<1>9. /\ r \in GenType /\ r.active = x.active \cup {t.id} /\ r.token = x.token
      /\ r.next = t.state.next /\ r.saturated = t.state.saturated /\ r.exhausted = t.state.exhausted
  BY <1>2, <1>8, TrackedIs
<1>10. GenOK(r, given \cup J)
  <2>1. GenOK(Tracked(t.state, t.id), (given \cup I) \cup {t.id})
    BY <1>1, <1>2, TakenKeeps
  <2>2. (given \cup I) \cup {t.id} = given \cup J
    BY <1>4
  <2>. QED
    BY <1>2, <2>1, <2>2
<1>11. r.active = s.active \cup J /\ s.active \cap J = {} /\ r.token = s.token
  BY <1>1, <1>4, <1>7, <1>9
<1>12. IsFiniteSet(J) /\ Cardinality(J) = m + 1
  <2>1. t.id \notin I
    BY <1>1, <1>7
  <2>. QED
    BY <1>1, <1>4, <2>1, FS_AddElement
<1>13. IsFiniteSet(G) /\ (~t.pooled => Cardinality(G) = Cardinality(F) + 1) /\ Cardinality(F) \in Nat
  BY <1>1, <1>4, <1>5, FS_AddElement, FS_CardinalityType
<1>14. s.next \in Int /\ x.next \in Int /\ LastId \in Int /\ x.next <= LastId
       /\ (x.saturated => x.next = LastId) /\ (s.saturated => s.next = LastId)
  BY <1>6, IdNumbers DEF StateOK
<1>15. ASSUME Fifo \/ Lowest PROVE CountsFresh(s, r, G)
  <2>1. CountsFresh(s, x, F)
    BY <1>1, <1>15
  <2>2. CASE t.pooled /\ CounterStays(x, t.state)
    <3>1. CounterStays(x, r) /\ G = F
      BY <1>4, <1>9, <2>2 DEF CounterStays
    <3>. QED
      BY <2>1, <3>1 DEF CountsFresh, CounterStays, Position
  <2>3. CASE ~t.pooled /\ Advanced(x, t.state, t.id)
    <3>1. /\ ~x.saturated /\ ~x.exhausted /\ ~r.exhausted
          /\ Position(r) = x.next + 1
      BY <1>9, <1>14, <2>3 DEF Advanced, Position
    <3>2. /\ G # {} /\ Cardinality(G) = Cardinality(F) + 1
      BY <1>4, <1>13, <2>3
    <3>3. CASE F = {}
      <4>1. CounterStays(s, x)
        BY <2>1, <3>3 DEF CountsFresh
      <4>2. Cardinality(F) = 0
        BY <3>3, FS_EmptySet
      <4>. QED
        BY <1>14, <3>1, <3>2, <4>1, <4>2 DEF CountsFresh, CounterStays
    <3>4. CASE F # {}
      <4>1. ~s.saturated /\ ~s.exhausted /\ Position(x) = s.next + Cardinality(F)
        BY <2>1, <3>4 DEF CountsFresh
      <4>2. x.next = s.next + Cardinality(F)
        BY <3>1, <4>1 DEF Position
      <4>3. Position(r) = s.next + Cardinality(G)
        BY <1>13, <1>14, <3>1, <3>2, <4>2
      <4>. QED
        BY <3>1, <3>2, <4>1, <4>3 DEF CountsFresh
    <3>. QED
      BY <3>3, <3>4
  <2>. QED
    BY <1>2, <1>15, <2>2, <2>3 DEF Takes, FromPoolOrCounter
<1>16. ASSUME Forgets PROVE G = 1 .. m + 1 /\ CountsAtLeast(s, r, m + 1)
  <2>1. F = 1 .. m /\ CountsAtLeast(s, x, m)
    BY <1>1, <1>16
  <2>2. ~t.pooled /\ DrawsTo(x, t.state, t.id)
    BY <1>2, <1>16 DEF Takes, FromCounter
  <2>3. G = 1 .. m + 1
    BY <1>3, <1>4, <2>1, <2>2
  <2>4. /\ x.next <= t.id /\ t.id <= LastId
        /\ \A j \in x.active : j < t.id
        /\ r.next = IF t.id = LastId THEN t.id ELSE t.id + 1
        /\ r.saturated <=> (x.saturated \/ t.id = LastId)
    BY <1>9, <2>2 DEF DrawsTo
  <2>5. LastId \notin x.active
    BY <1>8, <1>14, <2>4
  <2>6. r.saturated <=> t.id = LastId
    BY <1>8, <1>14, <2>4
  <2>7. Position(r) = t.id + 1 /\ x.next <= r.next
    BY <1>8, <1>14, <2>4, <2>6 DEF Position
  <2>8. r.saturated => LastId \in r.active
    BY <1>9, <2>6
  <2>9. LastId \notin s.active /\ s.next <= r.next
    BY <1>1, <1>9, <1>14, <2>1, <2>4, <2>5, <2>7, <1>8 DEF CountsAtLeast
  <2>10. CASE m = 0
    <3>1. x = s
      BY <2>10 DEF Path, x
    <3>2. s.saturated => r.saturated
      BY <2>4, <3>1
    <3>3. s.next + 1 <= Position(r)
      BY <1>8, <1>14, <2>4, <2>7, <3>1
    <3>. QED
      BY <2>3, <2>8, <2>9, <2>10, <3>2, <3>3 DEF CountsAtLeast
  <2>11. CASE m # 0
    <3>1. ~x.saturated /\ ~s.saturated /\ s.next + m <= x.next
      BY <2>1, <2>5, <2>11 DEF CountsAtLeast, Position
    <3>2. s.next + (m + 1) <= Position(r)
      BY <1>3, <1>8, <1>14, <2>4, <2>7, <3>1
    <3>. QED
      BY <2>3, <2>8, <2>9, <3>1, <3>2 DEF CountsAtLeast
  <2>. QED
    BY <2>10, <2>11
<1>17. ASSUME Fifo PROVE LosesFirst(s.pool, r.pool, J)
  <2>1. LosesFirst(s.pool, x.pool, I)
    BY <1>17 DEF PathAt, x, I
  <2>2. LosesFirst(x.pool, t.state.pool, {t.id})
    BY <1>2, <1>6, <1>17, LosesOne
  <2>3. /\ r.pool = t.state.pool /\ s.pool \in Seq(Int) /\ x.pool \in Seq(Int)
        /\ t.state.pool \in Seq(Int)
    BY <1>2, <1>6, <1>8, TrackedIs DEF GenType
  <2>. QED
    BY <1>4, <2>1, <2>2, <2>3, LosesMore
<1>18. PathAt(g, s, given, taken, m + 1)
  BY <1>10, <1>11, <1>12, <1>13, <1>15, <1>16, <1>17 DEF PathAt, J, G, r
<1>. QED
  BY <1>18

(* hence all along. *)
LEMMA PathHolds ==
  ASSUME PoliciesOK, NEW s, NEW given, GenOK(s, given), NEW taken, NEW g, Path(g, s, taken)
  PROVE  \A m \in 0 .. Len(taken) : PathAt(g, s, given, taken, m)
<1>. DEFINE Bad == {m \in 0 .. Len(taken) : ~PathAt(g, s, given, taken, m)}
<1>. SUFFICES ASSUME Bad # {} PROVE FALSE
  BY DEF Bad
<1>1. Len(taken) \in Nat
  BY DEF Path
<1>2. PICK m \in Bad : \A j \in Bad : m <= j
  <2>1. Bad \in SUBSET Nat
    BY <1>1
  <2>. HIDE DEF Bad
  <2>. QED
    BY <2>1, LeastOf
<1>3. m # 0
  BY <1>2, PathStart DEF Path
<1>4. m - 1 \in 0 .. Len(taken) - 1 /\ m - 1 \in 0 .. Len(taken) /\ ~(m <= m - 1) /\ (m - 1) + 1 = m
  BY <1>1, <1>2, <1>3
<1>5. PathAt(g, s, given, taken, m - 1)
  BY <1>2, <1>4
<1>6. PathAt(g, s, given, taken, (m - 1) + 1)
  BY <1>4, <1>5, PathStep
<1>. QED
  BY <1>2, <1>4, <1>6

-----------------------------------------------------------------------------
(* The way back retraces the path: after k identifiers went back, the pool is *)
(* what it was k identifiers earlier.                                         *)

UndoneAt(g, s, taken, u, h, k) ==
  /\ SameButPool(u, h[k])
  /\ PoolStays(g[Len(taken) - k], h[k])
  /\ Sparse => IntervalsOK(h[k].free, h[k].credits, s.active \cup IdsOf(taken, Len(taken) - k))

(* One more identifier goes back where it was taken from. *)
LEMMA UndoStep ==
  ASSUME PoliciesOK, NEW s, NEW given, GenOK(s, given), NEW taken, NEW g, Path(g, s, taken),
         NEW u, NEW h, NEW k \in 0 .. Len(taken) - 1, UndoneAt(g, s, taken, u, h, k),
         h[k + 1] = Undone(taken, k + 1, h[k])
  PROVE  UndoneAt(g, s, taken, u, h, k + 1)
<1>. DEFINE n == Len(taken)
            j == n - k
            x == g[j - 1]
            y == g[j]
            c == taken[j]
            t == NextTaken(x)
            v == h[k]
            w == h[k + 1]
            I == IdsOf(taken, j - 1)
            J == IdsOf(taken, j)
<1>1. /\ n \in Nat /\ k \in Nat /\ j \in 1 .. n /\ j - 1 \in 0 .. n - 1 /\ j - 1 \in 0 .. n /\ j \in 0 .. n
      /\ (j - 1) + 1 = j /\ n - (k + 1) = j - 1 /\ n + 1 - (k + 1) = j
  <2>1. n \in Nat
    BY DEF Path
  <2>. QED
    BY <2>1
<1>2. Commits(x, y, c)
  <2>1. \A m \in 0 .. n - 1 : Commits(g[m], g[m + 1], taken[m + 1])
    BY DEF Path
  <2>2. Commits(g[j - 1], g[(j - 1) + 1], taken[(j - 1) + 1])
    BY <1>1, <2>1
  <2>. QED
    BY <1>1, <2>2
<1>3. PathAt(g, s, given, taken, j - 1) /\ PathAt(g, s, given, taken, j)
  BY <1>1, PathHolds
<1>4. w = IF c.pooled THEN restore_recycled(v, c.id) ELSE v
  BY <1>1 DEF Undone
<1>5. /\ SameButPool(u, v) /\ PoolStays(y, v)
      /\ Sparse => IntervalsOK(v.free, v.credits, s.active \cup J)
  BY DEF UndoneAt
<1>6. 1 .. j = (1 .. j - 1) \cup {j}
  BY <1>1
<1>7. J = I \cup {c.id}
  BY <1>6 DEF IdsOf
<1>8. GenOK(x, given \cup I) /\ x.active = s.active \cup I /\ y.active = s.active \cup J
      /\ s.active \cap J = {} /\ GenOK(y, given \cup J)
  BY <1>3 DEF PathAt
<1>. HIDE DEF x, y, c, v, w, I, J, j, t
<1>9. /\ Takes(x, t) /\ t.id # NoId /\ c.id = t.id /\ c.pooled = t.pooled /\ y = Tracked(t.state, t.id)
  BY <1>2 DEF Commits, t
<1>10. t.state \in GenType /\ t.id \in Domain \ x.active /\ t.id \in Int
  BY <1>9, IdNumbers DEF Takes, Kept
<1>11. PoolStays(t.state, y)
  BY <1>9, <1>10, TrackedIs DEF PoolStays
<1>12. CASE t.pooled
  <2>. DEFINE taking == s.active \cup J
  <2>1. w = restore_recycled(v, t.id) /\ ~Forgets
    BY <1>4, <1>9, <1>12 DEF Takes, FromCounter
  <2>2. taking \subseteq Domain
    BY <1>8 DEF GenOK, StateOK
  <2>3. t.id \in taking /\ taking \ {t.id} = s.active \cup I
    BY <1>7, <1>8, <1>9, <1>10
  <2>. HIDE DEF taking
  <2>4. v \in GenType /\ (Sparse => IntervalsOK(v.free, v.credits, taking))
    BY <1>5 DEF SameButPool, taking
  <2>5. Restores(v, restore_recycled(v, t.id), t.id, taking)
    BY <2>2, <2>3, <2>4, RestoredIs
  <2>6. /\ SameButPool(v, w)
        /\ w.pool = IF Fifo THEN <<t.id>> \o v.pool ELSE v.pool
        /\ w.heap = IF Lowest THEN v.heap \cup {t.id} ELSE v.heap
        /\ Sparse => IntervalsOK(w.free, w.credits, s.active \cup I)
    BY <2>1, <2>3, <2>5 DEF Restores
  <2>7. SameButPool(u, w)
    BY <1>5, <2>6 DEF SameButPool, CounterStays
  <2>8. PoolStays(x, w)
    <3>1. CASE Sparse
      BY <1>5, <1>9, <1>11, <2>6, <3>1, PolicyKinds DEF Takes, FromIntervals, PoolStays
    <3>2. CASE Fifo \/ Lowest
      <4>1. FromPool(x, t.state, t.id)
        BY <1>9, <1>12, <3>2 DEF Takes, FromPoolOrCounter
      <4>2. v.pool = t.state.pool /\ v.heap = t.state.heap
        BY <1>5, <1>11 DEF PoolStays
      <4>. QED
        BY <2>6, <3>2, <4>1, <4>2, PolicyKinds DEF FromPool, PoolStays
    <3>. QED
      BY <2>1, <3>1, <3>2, PolicyKinds
  <2>. QED
    BY <1>1, <2>6, <2>7, <2>8 DEF UndoneAt, w, x, I, j
<1>13. CASE ~t.pooled
  <2>1. w = v /\ ~Sparse
    BY <1>4, <1>9, <1>13 DEF Takes, FromIntervals
  <2>2. PoolStays(x, t.state)
    BY <1>9, <1>13, <2>1, PolicyKinds DEF Takes, FromPoolOrCounter, FromCounter
  <2>3. PoolStays(x, w) /\ SameButPool(u, w)
    BY <1>5, <1>11, <2>1, <2>2 DEF PoolStays
  <2>. QED
    BY <1>1, <2>1, <2>3 DEF UndoneAt, w, x, j
<1>. QED
  BY <1>12, <1>13

(* A batch that fails and is rolled back ends as a call that fails. *)
LEMMA RollbackEnds ==
  ASSUME PoliciesOK, NEW s, NEW given, GenOK(s, given), NEW taken, NEW g, Path(g, s, taken),
         NEW e, Ends(g[Len(taken)], e), Fifo \/ Lowest => CounterStays(g[Len(taken)], e),
         \A i \in Ids : i \notin s.active => s.token[i] = Nobody
  PROVE  Ends(s, rollback_batch(e, taken))
<1>. DEFINE n == Len(taken)
            I == IdsOf(taken, n)
            F == FreshOf(taken, n)
            u == Untracked(e, I)
            y == g[n]
<1>1. n \in Nat /\ 0 \in 0 .. n /\ n \in 0 .. n /\ n - n = 0 /\ n - 0 = n
  BY DEF Path
<1>2. s \in GenType /\ StateOK(s)
  BY DEF GenOK, StateOK
<1>3. PathAt(g, s, given, taken, n)
  BY <1>1, PathHolds
<1>4. /\ y.active = s.active \cup I /\ s.active \cap I = {} /\ y.token = s.token
      /\ Fifo \/ Lowest => CountsFresh(s, y, F)
      /\ Forgets => F = 1 .. n /\ CountsAtLeast(s, y, n)
      /\ IsFiniteSet(F) /\ GenOK(y, given \cup I)
  BY <1>3 DEF PathAt
<1>5. PICK h : /\ LoopIs(Back(taken), u, n, h)
               /\ rollback_batch(e, taken) = revert(h[n], Cardinality(Fresh(taken)))
  BY <1>1, RollbackLoops DEF IdsOf
<1>6. Fresh(taken) = F
  <2>1. DOMAIN taken = 1 .. n
    BY DEF Path
  <2>. QED
    BY <2>1 DEF Fresh, FreshOf
<1>. HIDE DEF n, I, F, y, u
<1>7. e \in GenType /\ e.active = y.active /\ e.token = y.token /\ MaxOK(e) /\ PoolStays(y, e)
      /\ (Sparse => IntervalsOK(e.free, e.credits, y.active))
  BY DEF Ends, Kept, y, n
<1>8. /\ u \in GenType /\ u.active = e.active \ I /\ u.max = e.max
      /\ u.maxValid = (e.maxValid /\ e.max \notin I)
      /\ u.token = [i \in Ids |-> IF i \in I THEN Nobody ELSE e.token[i]]
      /\ u.next = e.next /\ u.exhausted = e.exhausted /\ u.saturated = e.saturated
      /\ u.pool = e.pool /\ u.heap = e.heap /\ u.free = e.free /\ u.credits = e.credits
  BY <1>7, UntrackedIs DEF u
<1>9. u.active = s.active /\ u.token = s.token /\ MaxOK(u)
  <2>1. u.active = s.active
    BY <1>4, <1>7, <1>8
  <2>2. u.token = s.token
    <3>1. s.token \in [Ids -> IdGuards \cup {Nobody}]
      BY <1>2 DEF GenType
    <3>2. \A i \in Ids : (IF i \in I THEN Nobody ELSE s.token[i]) = s.token[i]
      BY <1>4
    <3>. QED
      BY <1>4, <1>7, <1>8, <3>1, <3>2
  <2>3. MaxOK(u)
    BY <1>7, <1>8 DEF MaxOK
  <2>. QED
    BY <2>1, <2>2, <2>3
<1>10. h[0] = u /\ \A k \in 0 .. n - 1 : h[k + 1] = Undone(taken, k + 1, h[k])
  <2>1. \A k \in 0 .. n : h[k] = IF k = 0 THEN u ELSE LoopStep(Back(taken), k, h[k - 1])
    BY <1>5 DEF LoopIs
  <2>2. \A k, x : LoopStep(Back(taken), k, x) = Undone(taken, k, x)
    BY DEF LoopStep, Back
  <2>3. ASSUME NEW k \in 0 .. n - 1 PROVE h[k + 1] = Undone(taken, k + 1, h[k])
    <3>1. k + 1 \in 0 .. n /\ k + 1 # 0 /\ (k + 1) - 1 = k
      BY <1>1
    <3>2. h[k + 1] = LoopStep(Back(taken), k + 1, h[(k + 1) - 1])
      BY <2>1, <3>1
    <3>. QED
      BY <2>2, <3>1, <3>2
  <2>. QED
    BY <1>1, <2>1, <2>3
<1>11. UndoneAt(g, s, taken, u, h, 0)
  <2>1. SameButPool(u, u)
    BY <1>8 DEF SameButPool, CounterStays
  <2>2. PoolStays(y, u)
    BY <1>7, <1>8 DEF PoolStays
  <2>3. Sparse => IntervalsOK(u.free, u.credits, s.active \cup I)
    BY <1>4, <1>7, <1>8
  <2>. QED
    BY <1>1, <1>10, <2>1, <2>2, <2>3 DEF UndoneAt, y, I, n
<1>12. \A k \in 0 .. n : UndoneAt(g, s, taken, u, h, k)
  <2>. DEFINE Bad == {k \in 0 .. n : ~UndoneAt(g, s, taken, u, h, k)}
  <2>. SUFFICES ASSUME Bad # {} PROVE FALSE
    BY DEF Bad
  <2>1. PICK k \in Bad : \A j \in Bad : k <= j
    <3>1. Bad \in SUBSET Nat
      BY <1>1
    <3>. HIDE DEF Bad
    <3>. QED
      BY <3>1, LeastOf
  <2>2. k # 0
    BY <1>11, <2>1
  <2>3. k - 1 \in 0 .. n - 1 /\ k - 1 \in 0 .. n /\ ~(k <= k - 1) /\ (k - 1) + 1 = k
    BY <1>1, <2>1, <2>2
  <2>4. UndoneAt(g, s, taken, u, h, k - 1)
    BY <2>1, <2>3
  <2>5. UndoneAt(g, s, taken, u, h, (k - 1) + 1)
    BY <1>10, <2>3, <2>4, UndoStep DEF n
  <2>. QED
    BY <2>1, <2>3, <2>5
<1>. DEFINE z == h[n]
            a == rollback_batch(e, taken)
            N == Cardinality(F)
<1>13. SameButPool(u, z) /\ PoolStays(s, z) /\ (Sparse => IntervalsOK(z.free, z.credits, s.active))
  <2>1. UndoneAt(g, s, taken, u, h, n)
    BY <1>1, <1>12
  <2>2. IdsOf(taken, 0) = {} /\ g[0] = s
    BY DEF IdsOf, Path
  <2>. QED
    BY <1>1, <2>1, <2>2 DEF UndoneAt, n
<1>14. a = revert(z, N) /\ N \in Nat
  BY <1>4, <1>5, <1>6, FS_CardinalityType
<1>. HIDE DEF z, a, N
<1>15. /\ z \in GenType /\ z.active = s.active /\ z.token = s.token /\ MaxOK(z)
       /\ z.next = e.next /\ z.saturated = e.saturated /\ z.exhausted = e.exhausted
       /\ (~Sparse => z.free = s.free)
  <2>1. ~Sparse => e.free = s.free
    BY <1>2, <1>4 DEF GenOK, StateOK, Ends, Kept, y, n
  <2>. QED
    BY <1>8, <1>9, <1>13, <2>1 DEF SameButPool, CounterStays, MaxOK
<1>16. /\ a \in GenType
       /\ N = 0 => a = z
       /\ a.active = z.active /\ a.max = z.max /\ a.maxValid = z.maxValid /\ a.token = z.token
       /\ a.pool = z.pool /\ a.heap = z.heap /\ a.free = z.free /\ a.credits = z.credits
       /\ N > 0 => /\ ~a.exhausted /\ ~a.saturated
                   /\ LET back == z.next - (IF z.saturated THEN N - 1 ELSE N)
                      IN  a.next = IF mBaseId <= back THEN back ELSE mBaseId
  BY <1>14, <1>15, RevertedIs
<1>17. Kept(s, a) /\ PoolStays(s, a) /\ (Sparse => IntervalsOK(a.free, a.credits, s.active))
  BY <1>13, <1>15, <1>16 DEF Kept, MaxOK, PoolStays
<1>18. /\ s.next \in Int /\ mBaseId \in Int /\ LastId \in Int /\ mBaseId <= s.next /\ s.next <= LastId
       /\ e.next \in Int /\ CounterOK(s) /\ CounterOK(e) /\ e.next <= LastId /\ mBaseId <= e.next
       /\ e.saturated => e.next = LastId
  <2>1. CounterOK(s) /\ CounterOK(e)
    BY <1>2 DEF StateOK, CounterOK, Ends
  <2>. QED
    BY <2>1, IdNumbers DEF CounterOK
<1>19. N > 0 => a.next = IF mBaseId <= Position(e) - N THEN Position(e) - N ELSE mBaseId
  BY <1>14, <1>15, <1>16, <1>18 DEF Position
<1>20. CASE Sparse
  <2>1. F = {}
    <3>1. ASSUME NEW j \in 1 .. n, ~taken[j].pooled PROVE FALSE
      <4>1. j - 1 \in 0 .. n - 1 /\ j - 1 \in 0 .. n /\ (j - 1) + 1 = j
        BY <1>1, <3>1
      <4>2. Commits(g[j - 1], g[(j - 1) + 1], taken[(j - 1) + 1])
        BY <4>1 DEF Path, n
      <4>3. taken[j].pooled = NextTaken(g[j - 1]).pooled /\ Takes(g[j - 1], NextTaken(g[j - 1]))
        BY <4>1, <4>2 DEF Commits
      <4>. QED
        BY <1>20, <3>1, <4>3 DEF Takes, FromIntervals
    <3>. QED
      BY <3>1 DEF F, FreshOf
  <2>2. N = 0
    BY <2>1, FS_EmptySet DEF N
  <2>3. a = z
    BY <1>16, <2>2
  <2>4. CounterOK(a)
    BY <1>15, <1>18, <2>3 DEF CounterOK
  <2>5. Ends(s, a)
    BY <1>17, <1>20, <2>4, PolicyKinds DEF Ends
  <2>. QED
    BY <2>5 DEF a
<1>21. CASE Fifo \/ Lowest
  <2>1. CounterStays(y, e) /\ CountsFresh(s, y, F)
    BY <1>4, <1>21 DEF y, n
  <2>2. CounterStays(s, a)
    <3>1. CASE F = {}
      <4>1. N = 0
        BY <3>1, FS_EmptySet DEF N
      <4>. QED
        BY <1>15, <1>16, <2>1, <3>1, <4>1 DEF CountsFresh, CounterStays
    <3>2. CASE F # {}
      <4>1. N > 0
        BY <1>4, <1>14, <3>2, FS_EmptySet DEF N
      <4>2. ~s.saturated /\ ~s.exhausted /\ Position(e) = s.next + N
        BY <2>1, <3>2 DEF CountsFresh, CounterStays, Position, N
      <4>3. a.next = s.next
        BY <1>14, <1>18, <1>19, <4>1, <4>2
      <4>4. /\ s.exhausted \in BOOLEAN /\ s.saturated \in BOOLEAN
            /\ a.exhausted \in BOOLEAN /\ a.saturated \in BOOLEAN
        BY <1>2, <1>16 DEF GenType
      <4>. QED
        BY <1>16, <4>1, <4>2, <4>3, <4>4 DEF CounterStays
    <3>. QED
      BY <3>1, <3>2
  <2>3. CounterOK(a) /\ PassedBy(a) = PassedBy(s)
    BY <1>18, <2>2, SamePassed DEF CounterOK, CounterStays
  <2>4. Ends(s, a)
    BY <1>17, <1>21, <2>2, <2>3, PolicyKinds DEF Ends
  <2>. QED
    BY <2>4 DEF a
<1>22. CASE Forgets
  <2>1. /\ F = 1 .. n /\ CountsAtLeast(s, y, n) /\ y.next <= e.next
        /\ LastId \notin y.active \/ (e.next = y.next /\ e.saturated = y.saturated)
    BY <1>4, <1>22 DEF Ends, y, n
  <2>2. N = n
    BY <1>1, <2>1, FS_Interval DEF N
  <2>3. y.next \in Int
    BY <1>4 DEF GenOK, StateOK, GenType
  <2>4. CASE n = 0
    <3>1. y = s
      BY <2>4 DEF y, Path
    <3>2. a.next = e.next /\ a.saturated = e.saturated
      BY <1>15, <1>16, <2>2, <2>4
    <3>3. CounterOK(a)
      BY <1>18, <3>2 DEF CounterOK
    <3>4. Ends(s, a)
      BY <1>17, <1>22, <2>1, <3>1, <3>2, <3>3, PolicyKinds DEF Ends
    <3>. QED
      BY <3>4 DEF a
  <2>5. CASE n # 0
    <3>1. /\ LastId \notin s.active
          /\ y.saturated => LastId \in y.active
          /\ s.saturated => n = 1 /\ y.saturated
          /\ ~s.saturated => s.next + n <= Position(y)
      BY <2>1, <2>5 DEF CountsAtLeast
    <3>2. s.next + n <= Position(e) \/ (n = 1 /\ e.saturated)
      <4>1. CASE e.next = y.next /\ e.saturated = y.saturated
        BY <3>1, <4>1 DEF Position
      <4>2. CASE LastId \notin y.active
        <5>1. s.next + n <= y.next
          BY <3>1, <4>2 DEF Position
        <5>2. Position(e) \in Int /\ e.next <= Position(e)
          BY <1>18 DEF Position
        <5>. QED
          BY <1>1, <1>18, <2>1, <2>3, <5>1, <5>2
      <4>. QED
        BY <2>1, <4>1, <4>2
    <3>3. s.next <= Position(e) - n
      BY <1>1, <1>18, <3>2 DEF Position
    <3>4. n > 0 /\ a.next = Position(e) - n /\ a.next \in Int
      BY <1>1, <1>18, <1>19, <2>2, <2>5, <3>3 DEF Position
    <3>5. s.next <= a.next /\ a.next <= LastId /\ ~a.saturated
      BY <1>1, <1>16, <1>18, <2>2, <3>3, <3>4 DEF Position
    <3>6. CounterOK(a)
      BY <1>18, <3>4, <3>5 DEF CounterOK
    <3>7. Ends(s, a)
      BY <1>17, <1>22, <3>1, <3>5, <3>6, PolicyKinds DEF Ends
    <3>. QED
      BY <3>7 DEF a
  <2>. QED
    BY <2>4, <2>5
<1>. QED
  BY <1>20, <1>21, <1>22, PolicyKinds

-----------------------------------------------------------------------------
(* The invariant implies what the runs check. *)

LEMMA TypeFollows ==
  ASSUME IdInv
  PROVE  IdTypeOK
<1>1. PoliciesOK /\ GenOK(gen, used) /\ StateOK(gen) /\ gen \in GenType
  BY DEF IdInv, GenOK, StateOK
<1>2. gen.next \in Ids /\ gen.active \subseteq Domain
      /\ gen.exhausted \in BOOLEAN /\ gen.saturated \in BOOLEAN
      /\ gen.token \in [Ids -> IdGuards \cup {Nobody}]
  BY <1>1, IdNumbers DEF StateOK, GenType, Ids
<1>3. Pooled(gen) \subseteq Domain
  <2>1. CASE Fifo \/ Lowest
    <3>1. PoolOK(gen) /\ PassedBy(gen) \subseteq Domain
      BY <1>1, <2>1, PassedIs, PolicyKinds DEF GenOK
    <3>. QED
      BY <3>1 DEF PoolOK
  <2>2. CASE ~Fifo /\ ~Lowest
    BY <1>1, <2>2 DEF StateOK, Pooled, Range
  <2>. QED
    BY <2>1, <2>2
<1>4. FreeIds(gen) \subseteq Domain
  <2>1. CASE Sparse
    <3>1. /\ gen.free \subseteq [lower : Int, upper : Int]
          /\ \A i \in Int : (\E f \in gen.free : f.lower <= i /\ i <= f.upper) => i \in Domain
      BY <1>1, <2>1 DEF GenOK, IntervalsOK
    <3>2. ASSUME NEW f \in gen.free PROVE f.lower .. f.upper \subseteq Domain
      BY <3>1
    <3>. QED
      BY <3>2 DEF FreeIds
  <2>2. CASE ~Sparse
    BY <1>1, <2>2 DEF StateOK, FreeIds, Domain
  <2>. QED
    BY <2>1, <2>2
<1>5. /\ guardIds \in [IdGuards -> Ids \cup {NoId}]
      /\ owner \in [Ids -> IdGuards \cup {Caller, Nobody}]
  BY DEF IdInv, HistoryOK, History
<1>. QED
  BY <1>2, <1>3, <1>4, <1>5 DEF IdTypeOK

LEMMA SoundFollows ==
  ASSUME IdInv
  PROVE  IdsAreSound
<1>1. PoliciesOK /\ GenOK(gen, used) /\ StateOK(gen) /\ gen \in GenType /\ HistoryOK
  BY DEF IdInv, GenOK, StateOK
<1>. DEFINE t == NextTaken(gen)
<1>2. Takes(gen, t)
  BY <1>1, TakenIs
<1>3. OwnersAreKept
  <2>1. ASSUME gen.maxValid, gen.active # {} PROVE gen.max = Max(gen.active)
    <3>1. /\ gen.max \in gen.active /\ \A i \in gen.active : i <= gen.max
          /\ gen.active \subseteq 0 .. MaxId /\ MaxId \in Nat
      BY <1>1, <2>1, IdNumbers DEF StateOK
    <3>2. Max(gen.active) \in gen.active /\ \A i \in gen.active : i <= Max(gen.active)
      BY <2>1, <3>1, MaxIsIn
    <3>. QED
      BY <3>1, <3>2
  <2>. QED
    BY <1>1, <2>1 DEF OwnersAreKept, HistoryOK, History
<1>4. PoolIsDense
  <2>1. Passed = PassedBy(gen)
    BY DEF Passed, PassedBy, HighestPassed
  <2>2. ASSUME idPolicies.recycling \in {"fifo", "min"}
        PROVE  /\ gen.active \cap Pooled(gen) = {} /\ gen.active \cup Pooled(gen) = Passed
               /\ Overflows => gen.active = Domain
    <3>1. Fifo \/ Lowest
      BY <2>2 DEF Fifo, Lowest
    <3>2. Overflows => gen.active = Domain
      BY <1>1, <1>2, <3>1, FailedEnds DEF Overflows
    <3>. QED
      BY <1>1, <2>1, <3>1, <3>2 DEF GenOK, PoolOK
  <2>3. ASSUME Fifo
        PROVE \A k \in 1 .. Len(gen.pool) : ahead[gen.pool[k]] = {gen.pool[m] : m \in 1 .. k - 1}
    BY <1>1, <2>3 DEF HistoryOK, History, InOrder
  <2>4. ASSUME Forgets, t.id \in used PROVE t.id = LastId
    <3>1. /\ used \subseteq Domain /\ \A i \in used : i < gen.next \/ i = LastId
      BY <1>1, <2>4 DEF GenOK, NoneOK
    <3>2. t.id # NoId
      BY <1>1, <2>4, <3>1, IdNumbers
    <3>3. t.id \in Int /\ gen.next <= t.id /\ gen.next \in Int
      <4>1. DrawsTo(gen, t.state, t.id)
        BY <1>2, <2>4, <3>2 DEF Takes, FromCounter
      <4>2. gen.next \in Int
        BY <1>1 DEF GenType
      <4>. HIDE DEF t
      <4>. QED
        BY <4>1, <4>2 DEF DrawsTo
    <3>. HIDE DEF t
    <3>. QED
      BY <2>4, <3>1, <3>3
  <2>. QED
    BY <2>2, <2>3, <2>4 DEF PoolIsDense, Fifo, Forgets
<1>5. IntervalsAreSound
  <2>1. ASSUME Sparse
        PROVE  /\ FreeIds(gen) = Domain \ gen.active
               /\ \A f, h \in gen.free : f # h => f.upper + 1 < h.lower \/ h.upper + 1 < f.lower
               /\ gen.credits = Cardinality(gen.active)
    <3>1. IntervalsOK(gen.free, gen.credits, gen.active)
      BY <1>1, <2>1 DEF GenOK
    <3>2. /\ gen.free \subseteq [lower : Int, upper : Int]
          /\ \A i \in Int : (\E f \in gen.free : f.lower <= i /\ i <= f.upper) <=> i \in Domain \ gen.active
          /\ Domain \subseteq Int
      BY <1>1, <3>1, IdNumbers DEF IntervalsOK
    <3>3. FreeIds(gen) = Domain \ gen.active
      <4>1. ASSUME NEW f \in gen.free PROVE f.lower .. f.upper \subseteq Domain \ gen.active
        BY <3>2
      <4>2. ASSUME NEW i \in Domain \ gen.active PROVE \E f \in gen.free : i \in f.lower .. f.upper
        <5>1. PICK f \in gen.free : f.lower <= i /\ i <= f.upper
          BY <3>2, <4>2
        <5>. QED
          BY <3>2, <5>1
      <4>. QED
        BY <4>1, <4>2 DEF FreeIds
    <3>. QED
      BY <3>1, <3>3 DEF IntervalsOK
  <2>. QED
    BY <2>1 DEF IntervalsAreSound
<1>. QED
  BY <1>3, <1>4, <1>5 DEF IdsAreSound

-----------------------------------------------------------------------------
(* The initial state, and the one after a reset. *)

(* A generator is in order at first, *)
LEMMA FreshOK ==
  ASSUME PoliciesOK
  PROVE  /\ GenOK(FreshIds(mUpperBound), {}) /\ FreshIds(mUpperBound).active = {}
         /\ FreshIds(mUpperBound).pool = << >>
         /\ FreshIds(mUpperBound).token = [i \in Ids |-> Nobody]
         /\ PassedBy(FreshIds(mUpperBound)) = {}
<1>. DEFINE s == FreshIds(mUpperBound)
            free == {[lower |-> mBaseId, upper |-> mUpperBound]}
<1>1. /\ mBaseId \in Nat /\ mUpperBound \in Nat /\ LastId \in Nat /\ mBaseId <= mUpperBound
      /\ mUpperBound <= LastId
  BY IdNumbers
<1>2. /\ s.next = mBaseId /\ s.exhausted = FALSE /\ s.saturated = FALSE /\ s.active = {}
      /\ s.maxValid = FALSE /\ s.token = [i \in Ids |-> Nobody]
      /\ s.pool = << >> /\ s.heap = {} /\ s.free = free /\ s.credits = 0
  BY DEF FreshIds
<1>3. s \in GenType
  BY <1>1 DEF FreshIds, GenType
<1>. HIDE DEF s
<1>4. StateOK(s)
  BY <1>1, <1>2, <1>3 DEF StateOK
<1>5. PassedBy(s) = {}
  BY <1>1, <1>2 DEF PassedBy, HighestPassed
<1>6. PoolOK(s)
  BY <1>2, <1>5 DEF PoolOK, Pooled, Range, Different
<1>7. NoneOK(s, {})
  BY <1>2 DEF NoneOK
<1>8. IntervalsOK(s.free, s.credits, s.active)
  <2>1. free \subseteq [lower : Int, upper : Int] /\ \A f \in free : f.lower = mBaseId /\ f.upper = mUpperBound
    BY <1>1
  <2>2. \A f, h \in free : f = h
    OBVIOUS
  <2>3. \A i \in Int : (\E f \in free : f.lower <= i /\ i <= f.upper) <=> i \in Domain \ {}
    BY <2>1 DEF Domain
  <2>4. Cardinality({}) = 0
    BY FS_EmptySet
  <2>. HIDE DEF free
  <2>. QED
    BY <1>1, <1>2, <2>1, <2>2, <2>3, <2>4 DEF IntervalsOK
<1>9. GenOK(s, {})
  BY <1>2, <1>4, <1>6, <1>7, <1>8 DEF GenOK
<1>. QED
  BY <1>2, <1>5, <1>9 DEF s

(* and nobody has anything. *)
LEMMA FreshHistory ==
  ASSUME PoliciesOK, NEW held, held \in [IdGuards -> Ids \cup {NoId}]
  PROVE  History(FreshIds(mUpperBound), held, [i \in Ids |-> Nobody], [i \in Ids |-> {}], {})
<1>. DEFINE s == FreshIds(mUpperBound)
<1>1. /\ s.active = {} /\ s.pool = << >> /\ s.token = [i \in Ids |-> Nobody] /\ PassedBy(s) = {}
  BY FreshOK
<1>. HIDE DEF s
<1>2. History(s, held, [i \in Ids |-> Nobody], [i \in Ids |-> {}], {})
  BY <1>1, IdAssumption DEF History, InOrder
<1>. QED
  BY <1>2 DEF s

(* The invariant holds initially. *)
LEMMA InitInv ==
  ASSUME IdInit
  PROVE  IdInv
<1>1. /\ PoliciesOK /\ gen = FreshIds(mUpperBound) /\ guardIds \in [IdGuards -> Ids \cup {NoId}]
      /\ owner = [i \in Ids |-> Nobody] /\ ahead = [i \in Ids |-> {}] /\ used = {}
  BY DEF IdInit, PoliciesOK, mUpperBound
<1>2. GenOK(gen, used)
  BY <1>1, FreshOK
<1>3. HistoryOK
  BY <1>1, FreshHistory DEF HistoryOK
<1>. QED
  BY <1>1, <1>2, <1>3 DEF IdInv

(* A step that leaves the policies alone keeps the invariant if it holds of *)
(* the next state under the policies of this one.                           *)
LEMMA NextInv ==
  ASSUME IdInv, UNCHANGED idPolicies, GenOK(gen', used'),
         History(gen', guardIds', owner', ahead', used')
  PROVE  IdInv'
<1>1. /\ (Fifo <=> Fifo') /\ (Lowest <=> Lowest') /\ (Forgets <=> Forgets') /\ (Sparse <=> Sparse')
      /\ mUpperBound' = mUpperBound /\ LastId' = LastId
  BY DEF Fifo, Lowest, Forgets, Sparse, mUpperBound, LastId
<1>2. Domain' = Domain
  BY <1>1 DEF Domain
<1>3. PassedBy(gen)' = PassedBy(gen')
  BY <1>1 DEF PassedBy, HighestPassed
<1>4. PoliciesOK'
  BY DEF IdInv, PoliciesOK
<1>5. StateOK(gen)'
  BY <1>1, <1>2 DEF GenOK, StateOK
<1>6. (Fifo \/ Lowest => PoolOK(gen))'
  BY <1>1, <1>2, <1>3 DEF GenOK, PoolOK
<1>7. (Forgets => NoneOK(gen, used))'
  BY <1>1, <1>2 DEF GenOK, NoneOK
<1>8. (Sparse => IntervalsOK(gen.free, gen.credits, gen.active))'
  BY <1>1, <1>2 DEF GenOK, IntervalsOK
<1>9. HistoryOK'
  BY <1>1, <1>2, <1>3 DEF HistoryOK, History
<1>. QED
  BY <1>4, <1>5, <1>6, <1>7, <1>8, <1>9 DEF IdInv, GenOK

(* reset() keeps it, though guards still hold what they were given. *)
LEMMA ResetKeeps ==
  ASSUME IdInv, ResetIds
  PROVE  IdInv'
<1>1. /\ gen' = FreshIds(mUpperBound) /\ guardIds' = guardIds /\ used' = {}
      /\ owner' = [i \in Ids |-> Nobody] /\ ahead' = [i \in Ids |-> {}] /\ UNCHANGED idPolicies
  BY DEF ResetIds
<1>2. PoliciesOK /\ guardIds \in [IdGuards -> Ids \cup {NoId}]
  BY DEF IdInv, HistoryOK, History
<1>3. GenOK(gen', used') /\ History(gen', guardIds', owner', ahead', used')
  BY <1>1, <1>2, FreshOK, FreshHistory
<1>. QED
  BY <1>1, <1>3, NextInv

-----------------------------------------------------------------------------
(* A step that changes no owner, and one that gives identifiers to one.     *)

(* A call that fails keeps the invariant. *)
LEMMA EndsInv ==
  ASSUME IdInv, Ends(gen, gen'), OwnersStay
  PROVE  IdInv'
<1>1. /\ PoliciesOK /\ GenOK(gen, used) /\ History(gen, guardIds, owner, ahead, used)
      /\ UNCHANGED idPolicies /\ guardIds' = guardIds /\ owner' = owner /\ ahead' = ahead
      /\ used' = used
  BY DEF IdInv, HistoryOK, OwnersStay
<1>2. GenOK(gen', used)
  BY <1>1, EndsOK
<1>3. gen'.active = gen.active /\ gen'.token = gen.token /\ gen'.pool = gen.pool
  BY DEF Ends, Kept, PoolStays
<1>4. Fifo => PassedBy(gen') = PassedBy(gen)
  BY DEF Ends
<1>5. ASSUME Fifo PROVE used = PassedBy(gen') /\ InOrder(ahead, gen'.pool)
  BY <1>1, <1>3, <1>4, <1>5 DEF History
<1>6. History(gen', guardIds, owner, ahead, used)
  BY <1>1, <1>3, <1>5 DEF History
<1>. QED
  BY <1>1, <1>2, <1>6, NextInv

(* The owner o, a guard or the caller, has the identifiers of the set now. *)
GivenTo(s, r, ids, o) ==
  /\ r.active = s.active \cup ids
  /\ r.token = [i \in Ids |-> IF i \in ids /\ o \in IdGuards THEN o ELSE s.token[i]]
  /\ Fifo => LosesFirst(s.pool, r.pool, ids)

(* The same of a queue that others have left. *)
InOrderStill(before, q, ids) ==
  \A k \in 1 .. Len(q) : /\ q[k] \notin ids
                         /\ before[q[k]] \ ids = {q[m] : m \in 1 .. k - 1}

LEMMA GivenOrder ==
  ASSUME PoliciesOK, Fifo, NEW s, NEW given, GenOK(s, given), NEW r, NEW ids, GenOK(r, given \cup ids),
         r.active = s.active \cup ids, LosesFirst(s.pool, r.pool, ids), NEW before,
         InOrder(before, s.pool)
  PROVE  PassedBy(r) = PassedBy(s) \cup ids /\ InOrderStill(before, r.pool, ids)
<1>. DEFINE q == s.pool
            p == r.pool
<1>1. /\ PoolOK(s) /\ PoolOK(r) /\ s \in GenType /\ r \in GenType /\ s.heap = {} /\ r.heap = {}
  BY PolicyKinds DEF GenOK, StateOK
<1>2. q \in Seq(Int) /\ p \in Seq(Int)
  BY <1>1 DEF GenType
<1>3. PICK d \in 0 .. Len(q) : /\ Len(p) = Len(q) - d
                               /\ \A k \in 1 .. Len(p) : p[k] = q[k + d]
                               /\ \A k \in 1 .. d : q[k] \in ids
  BY DEF LosesFirst
<1>4. /\ Pooled(s) = {q[k] : k \in 1 .. Len(q)} /\ Pooled(r) = {p[k] : k \in 1 .. Len(p)}
  BY <1>1, <1>2, PooledIs
<1>5. /\ r.active \cap Pooled(r) = {} /\ r.active \cup Pooled(r) = PassedBy(r)
      /\ s.active \cup Pooled(s) = PassedBy(s)
  BY <1>1 DEF PoolOK
<1>. HIDE DEF q, p
<1>6. Pooled(s) \subseteq ids \cup Pooled(r) /\ Pooled(r) \subseteq Pooled(s)
  <2>1. ASSUME NEW k \in 1 .. Len(q) PROVE q[k] \in ids \/ q[k] \in Pooled(r)
    <3>1. CASE k <= d
      BY <1>3, <3>1
    <3>2. CASE k > d
      <4>1. k - d \in 1 .. Len(p) /\ (k - d) + d = k
        BY <1>2, <1>3, <3>2
      <4>2. p[k - d] = q[k]
        BY <1>3, <4>1
      <4>. QED
        BY <1>4, <4>1, <4>2
    <3>. QED
      BY <3>1, <3>2
  <2>2. ASSUME NEW k \in 1 .. Len(p) PROVE p[k] \in Pooled(s)
    <3>1. k + d \in 1 .. Len(q) /\ p[k] = q[k + d]
      BY <1>2, <1>3
    <3>. QED
      BY <1>4, <3>1
  <2>. QED
    BY <1>4, <2>1, <2>2
<1>7. PassedBy(r) = PassedBy(s) \cup ids
  BY <1>5, <1>6
<1>8. ASSUME NEW k \in 1 .. Len(p)
      PROVE  p[k] \notin ids /\ before[p[k]] \ ids = {p[m] : m \in 1 .. k - 1}
  <2>1. \A m \in 1 .. Len(p) : p[m] \notin ids
    BY <1>4, <1>5
  <2>2. k + d \in 1 .. Len(q) /\ p[k] = q[k + d]
    BY <1>2, <1>3
  <2>3. before[p[k]] = {q[m] : m \in 1 .. (k + d) - 1}
    BY <2>2 DEF q, InOrder
  <2>4. ASSUME NEW m \in 1 .. (k + d) - 1, q[m] \notin ids PROVE q[m] \in {p[j] : j \in 1 .. k - 1}
    <3>1. m > d /\ m - d \in 1 .. k - 1 /\ m - d \in 1 .. Len(p) /\ (m - d) + d = m
      BY <1>2, <1>3, <2>4
    <3>2. p[m - d] = q[m]
      BY <1>3, <3>1
    <3>. QED
      BY <3>1, <3>2
  <2>5. ASSUME NEW m \in 1 .. k - 1 PROVE p[m] \in {q[j] : j \in 1 .. (k + d) - 1} /\ p[m] \notin ids
    <3>1. m + d \in 1 .. (k + d) - 1 /\ m \in 1 .. Len(p)
      <4>1. Len(p) \in Nat /\ d \in Nat
        BY <1>2
      <4>. QED
        BY <4>1
    <3>2. p[m] = q[m + d]
      BY <1>3, <3>1
    <3>. QED
      BY <2>1, <3>1, <3>2
  <2>6. before[p[k]] \ ids \subseteq {p[m] : m \in 1 .. k - 1}
    BY <2>3, <2>4
  <2>7. {p[m] : m \in 1 .. k - 1} \subseteq before[p[k]] \ ids
    BY <2>3, <2>5
  <2>. QED
    BY <2>1, <2>6, <2>7
<1>. QED
  BY <1>7, <1>8 DEF p, InOrderStill

(* A call that gives identifiers to somebody keeps the invariant. *)
LEMMA GivenInv ==
  ASSUME IdInv, NEW ids, ids \subseteq Domain \ gen.active, NEW o \in IdGuards \cup {Caller},
         GivenTo(gen, gen', ids, o), GenOK(gen', used \cup ids), Give(ids, o),
         guardIds' \in [IdGuards -> Ids \cup {NoId}], UNCHANGED idPolicies
  PROVE  IdInv'
<1>1. /\ PoliciesOK /\ GenOK(gen, used) /\ History(gen, guardIds, owner, ahead, used)
  BY DEF IdInv, HistoryOK
<1>2. /\ owner' = [i \in Ids |-> IF i \in ids THEN o ELSE owner[i]]
      /\ ahead' = [i \in Ids |-> IF i \in ids THEN {} ELSE ahead[i] \ ids]
      /\ used' = used \cup ids
  BY DEF Give
<1>3. /\ gen'.active = gen.active \cup ids
      /\ gen'.token = [i \in Ids |-> IF i \in ids /\ o \in IdGuards THEN o ELSE gen.token[i]]
      /\ (Fifo => LosesFirst(gen.pool, gen'.pool, ids))
  BY DEF GivenTo
<1>4. /\ owner \in [Ids -> IdGuards \cup {Caller, Nobody}] /\ ahead \in [Ids -> SUBSET Int]
      /\ used \subseteq Domain /\ gen.active = {i \in Ids : owner[i] # Nobody}
      /\ (\A i \in Ids : gen.token[i] = IF owner[i] \in IdGuards THEN owner[i] ELSE Nobody)
      /\ gen.active \subseteq used
      /\ Domain \subseteq Ids /\ o # Nobody /\ Caller \notin IdGuards /\ Nobody \notin IdGuards
  BY <1>1, IdNumbers, IdAssumption DEF History
<1>5. /\ owner' \in [Ids -> IdGuards \cup {Caller, Nobody}] /\ ahead' \in [Ids -> SUBSET Int]
      /\ used' \subseteq Domain
  BY <1>2, <1>4
<1>6. gen'.active = {i \in Ids : owner'[i] # Nobody} /\ gen'.active \subseteq used'
  BY <1>2, <1>3, <1>4
<1>7. ASSUME NEW i \in Ids
      PROVE  gen'.token[i] = IF owner'[i] \in IdGuards THEN owner'[i] ELSE Nobody
  <2>1. i \in ids => owner[i] = Nobody
    BY <1>4
  <2>. QED
    BY <1>2, <1>3, <1>4, <2>1
<1>8. ASSUME Fifo
      PROVE  used' = PassedBy(gen') /\ InOrder(ahead', gen'.pool)
  <2>1. used = PassedBy(gen) /\ InOrder(ahead, gen.pool)
    BY <1>1, <1>8 DEF History
  <2>2. PassedBy(gen') = PassedBy(gen) \cup ids /\ InOrderStill(ahead, gen'.pool, ids)
    BY <1>1, <1>3, <1>8, <2>1, GivenOrder
  <2>3. \A k \in 1 .. Len(gen'.pool) : gen'.pool[k] \in Ids
    <3>1. GenOK(gen', used \cup ids) /\ PoolOK(gen') /\ StateOK(gen') /\ PassedBy(gen') \subseteq Domain
      BY <1>1, <1>8, PassedIs, PolicyKinds DEF GenOK
    <3>2. Pooled(gen') \subseteq Domain /\ gen'.pool \in Seq(Int)
      BY <3>1 DEF PoolOK, StateOK, GenType
    <3>. QED
      BY <1>4, <3>2 DEF Pooled, Range
  <2>4. ASSUME NEW k \in 1 .. Len(gen'.pool)
        PROVE  ahead'[gen'.pool[k]] = ahead[gen'.pool[k]] \ ids
    BY <1>2, <2>2, <2>3 DEF InOrderStill
  <2>. QED
    BY <1>2, <2>1, <2>2, <2>4 DEF InOrder, InOrderStill
<1>9. History(gen', guardIds', owner', ahead', used')
  BY <1>5, <1>6, <1>7, <1>8 DEF History
<1>. QED
  BY <1>2, <1>9, NextInv

-----------------------------------------------------------------------------
(* The calls that give an identifier, or several. *)

(* The token of an identifier is nobody else's concern. *)
LEMMA TokenIs ==
  ASSUME NEW s, NEW given, GenOK(s, given), NEW i \in Ids, NEW v \in IdGuards \cup {Nobody}
  PROVE  LET r == [s EXCEPT !.token[i] = v]
         IN  /\ GenOK(r, given) /\ r.active = s.active /\ r.pool = s.pool
             /\ r.token = [s.token EXCEPT ![i] = v] /\ PassedBy(r) = PassedBy(s)
<1>. DEFINE r == [s EXCEPT !.token[i] = v]
<1>1. s \in GenType
  BY DEF GenOK, StateOK
<1>2. /\ r \in GenType /\ r.active = s.active /\ r.max = s.max /\ r.maxValid = s.maxValid
      /\ r.next = s.next /\ r.exhausted = s.exhausted /\ r.saturated = s.saturated
      /\ r.pool = s.pool /\ r.heap = s.heap /\ r.free = s.free /\ r.credits = s.credits
      /\ r.token = [s.token EXCEPT ![i] = v]
  BY <1>1 DEF GenType
<1>. HIDE DEF r
<1>3. PassedBy(r) = PassedBy(s) /\ Pooled(r) = Pooled(s)
  BY <1>2, SamePassed DEF Pooled
<1>4. StateOK(r)
  BY <1>2 DEF GenOK, StateOK
<1>5. /\ (Fifo \/ Lowest => PoolOK(r)) /\ (Forgets => NoneOK(r, given))
      /\ (Sparse => IntervalsOK(r.free, r.credits, r.active))
  BY <1>2, <1>3 DEF GenOK, PoolOK, NoneOK
<1>6. GenOK(r, given)
  BY <1>4, <1>5 DEF GenOK
<1>. QED
  BY <1>2, <1>3, <1>6 DEF r

LEMMA GuardedIs ==
  ASSUME NEW s, NEW given, GenOK(s, given), NEW i \in Ids, NEW o \in IdGuards \cup {Caller}
  PROVE  /\ GenOK(Guarded(s, i, o), given)
         /\ Guarded(s, i, o).active = s.active /\ Guarded(s, i, o).pool = s.pool
         /\ Guarded(s, i, o).token
            = [j \in Ids |-> IF j \in {i} /\ o \in IdGuards THEN o ELSE s.token[j]]
<1>1. s.token \in [Ids -> IdGuards \cup {Nobody}]
  BY DEF GenOK, StateOK, GenType
<1>2. CASE o = Caller
  <2>1. o \notin IdGuards /\ Guarded(s, i, o) = s
    BY <1>2, IdAssumption DEF Guarded
  <2>. QED
    BY <1>1, <2>1
<1>3. CASE o # Caller
  <2>. DEFINE r == [s EXCEPT !.token[i] = o]
  <2>1. o \in IdGuards /\ Guarded(s, i, o) = r
    BY <1>3 DEF Guarded
  <2>2. /\ GenOK(r, given) /\ r.active = s.active /\ r.pool = s.pool
        /\ r.token = [s.token EXCEPT ![i] = o]
    BY <2>1, TokenIs
  <2>. HIDE DEF r
  <2>. QED
    BY <1>1, <2>1, <2>2
<1>. QED
  BY <1>2, <1>3

LEMMA HeldType ==
  ASSUME IdInv, NEW i \in Ids, NEW o \in IdGuards \cup {Caller}, Holds(i, o)
  PROVE  guardIds' \in [IdGuards -> Ids \cup {NoId}]
BY DEF IdInv, HistoryOK, History, Holds

LEMMA GenerateKeeps ==
  ASSUME IdInv, NEW o \in IdGuards \cup {Caller}, Generate(o)
  PROVE  IdInv'
<1>. DEFINE t == NextTaken(gen)
            i == t.id
            r == Tracked(t.state, i)
<1>1. /\ i # NoId /\ gen' = Guarded(r, i, o) /\ Give({i}, o) /\ Holds(i, o) /\ UNCHANGED idPolicies
  BY DEF Generate
<1>2. PoliciesOK /\ GenOK(gen, used) /\ gen \in GenType
  BY DEF IdInv, GenOK, StateOK
<1>3. Takes(gen, t)
  BY <1>2, TakenIs
<1>4. i \in Domain \ gen.active /\ i \in Ids /\ i \in Int /\ Kept(gen, t.state)
  BY <1>1, <1>2, <1>3, IdNumbers DEF Takes
<1>5. GenOK(r, used \cup {i})
  BY <1>1, <1>2, <1>3, TakenKeeps
<1>6. Fifo => LosesFirst(gen.pool, t.state.pool, {i})
  BY <1>1, <1>2, <1>3, LosesOne
<1>. HIDE DEF i, t
<1>7. r.active = gen.active \cup {i} /\ r.token = gen.token /\ r.pool = t.state.pool
  BY <1>4, TrackedIs DEF Kept
<1>. HIDE DEF r
<1>8. /\ GenOK(gen', used \cup {i}) /\ gen'.active = r.active /\ gen'.pool = r.pool
      /\ gen'.token = [j \in Ids |-> IF j \in {i} /\ o \in IdGuards THEN o ELSE r.token[j]]
  BY <1>1, <1>4, <1>5, GuardedIs
<1>9. GivenTo(gen, gen', {i}, o)
  BY <1>6, <1>7, <1>8 DEF GivenTo
<1>10. guardIds' \in [IdGuards -> Ids \cup {NoId}]
  BY <1>1, <1>4, HeldType
<1>11. {i} \subseteq Domain \ gen.active
  BY <1>4
<1>. QED
  BY <1>1, <1>8, <1>9, <1>10, <1>11, GivenInv

LEMMA ClaimKeeps ==
  ASSUME IdInv, NEW i \in Ids, NEW o \in IdGuards \cup {Caller}, Claim(i, o)
  PROVE  IdInv'
<1>. DEFINE c == claim_at(gen, i)
            r == Tracked(c, i)
<1>1. /\ Sparse /\ i \in FreeIds(gen) \ gen.active
      /\ gen' = Guarded(r, i, o) /\ Give({i}, o) /\ Holds(i, o) /\ UNCHANGED idPolicies
  BY DEF Claim
<1>2. PoliciesOK /\ GenOK(gen, used) /\ StateOK(gen) /\ gen \in GenType
  BY DEF IdInv, GenOK, StateOK
<1>3. i \in Domain \ gen.active /\ i \in Int
  BY <1>1, <1>2, IdNumbers, TypeFollows DEF IdTypeOK
<1>4. IntervalsOK(gen.free, gen.credits, gen.active)
  BY <1>1, <1>2 DEF GenOK
<1>5. /\ c \in GenType /\ IntervalsOK(c.free, c.credits, gen.active \cup {i})
      /\ c.active = gen.active /\ c.max = gen.max /\ c.maxValid = gen.maxValid
      /\ c.token = gen.token /\ c.next = gen.next /\ c.saturated = gen.saturated
      /\ c.pool = gen.pool /\ c.heap = gen.heap
  BY <1>2, <1>3, <1>4, ClaimedIs
<1>. HIDE DEF c
<1>6. /\ Kept(gen, c) /\ CounterOK(c) /\ (~Fifo => c.pool = << >>) /\ (~Lowest => c.heap = {})
  BY <1>1, <1>2, <1>5 DEF StateOK, Kept, MaxOK, CounterOK
<1>7. StateOK(r) /\ r.active = gen.active \cup {i} /\ r.token = gen.token
  BY <1>2, <1>3, <1>6, TrackedKeeps
<1>8. r.pool = c.pool /\ r.free = c.free /\ r.credits = c.credits
  BY <1>3, <1>5, TrackedIs
<1>. HIDE DEF r
<1>9. GenOK(r, used \cup {i})
  BY <1>1, <1>2, <1>5, <1>7, <1>8, PolicyKinds DEF GenOK
<1>10. /\ GenOK(gen', used \cup {i}) /\ gen'.active = r.active
       /\ gen'.token = [j \in Ids |-> IF j \in {i} /\ o \in IdGuards THEN o ELSE r.token[j]]
  BY <1>1, <1>9, GuardedIs
<1>11. GivenTo(gen, gen', {i}, o)
  BY <1>1, <1>2, <1>7, <1>10, PolicyKinds DEF GivenTo
<1>12. guardIds' \in [IdGuards -> Ids \cup {NoId}] /\ {i} \subseteq Domain \ gen.active
  BY <1>1, <1>3, HeldType
<1>. QED
  BY <1>1, <1>10, <1>11, <1>12, GivenInv

LEMMA GenerateBatchKeeps ==
  ASSUME IdInv, NEW count \in Nat, GenerateBatch(count)
  PROVE  IdInv'
<1>. DEFINE none == FALSE
            b == Batch(count, none)
            n == Len(b.taken)
            ids == IdsOf(b.taken, n)
<1>1. PoliciesOK /\ GenOK(gen, used) /\ gen \in GenType
      /\ guardIds \in [IdGuards -> Ids \cup {NoId}]
  BY DEF IdInv, GenOK, StateOK, HistoryOK, History
<1>2. /\ ~b.failed /\ gen' = b.state /\ guardIds' = guardIds /\ UNCHANGED idPolicies
      /\ Give({b.taken[k].id : k \in DOMAIN b.taken}, Caller)
  BY DEF GenerateBatch
<1>. HIDE DEF none
<1>3. \E g : /\ Path(g, gen, b.taken)
             /\ ~b.failed => n = count /\ b.state = g[n]
  BY <1>1, BatchPath
<1>. HIDE DEF b
<1>4. PICK g : Path(g, gen, b.taken) /\ b.state = g[n]
  BY <1>2, <1>3
<1>5. /\ b.taken \in Seq(TakenType) /\ n \in Nat
  BY <1>4 DEF Path
<1>6. Give(ids, Caller)
  <2>1. {b.taken[k].id : k \in DOMAIN b.taken} = ids
    BY <1>5 DEF IdsOf
  <2>. QED
    BY <1>2, <2>1
<1>7. PathAt(g, gen, used, b.taken, n)
  BY <1>1, <1>4, <1>5, PathHolds
<1>8. /\ GenOK(gen', used \cup ids) /\ gen'.active = gen.active \cup ids /\ gen.active \cap ids = {}
      /\ gen'.token = gen.token /\ (Fifo => LosesFirst(gen.pool, gen'.pool, ids))
  BY <1>2, <1>4, <1>7 DEF PathAt
<1>. HIDE DEF ids
<1>9. ids \subseteq Domain \ gen.active
  BY <1>8 DEF GenOK, StateOK
<1>10. GivenTo(gen, gen', ids, Caller)
  <2>1. gen.token \in [Ids -> IdGuards \cup {Nobody}] /\ Caller \notin IdGuards
    BY <1>1, IdAssumption DEF GenType
  <2>. QED
    BY <1>8, <2>1 DEF GivenTo
<1>. QED
  BY <1>1, <1>2, <1>6, <1>8, <1>9, <1>10, GivenInv

(* The calls that fail. *)

LEMMA GenerateFailsKeeps ==
  ASSUME IdInv, GenerateFails \/ GenerateThrows
  PROVE  IdInv'
<1>. DEFINE t == NextTaken(gen)
<1>1. PoliciesOK /\ GenOK(gen, used)
  BY DEF IdInv
<1>2. Takes(gen, t)
  BY <1>1, TakenIs
<1>3. CASE GenerateFails
  <2>1. t.id = NoId /\ gen' = t.state /\ OwnersStay
    BY <1>3 DEF GenerateFails, Overflows
  <2>2. Ends(gen, gen')
    BY <1>1, <1>2, <2>1, FailedEnds
  <2>. QED
    BY <2>1, <2>2, EndsInv
<1>4. CASE GenerateThrows
  <2>1. t.id # NoId /\ gen' = PutBack(t) /\ OwnersStay
    BY <1>4 DEF GenerateThrows, Overflows
  <2>2. Ends(gen, gen')
    BY <1>1, <1>2, <2>1, PutBackEnds
  <2>. QED
    BY <2>1, <2>2, EndsInv
<1>. QED
  BY <1>3, <1>4

LEMMA BatchFailsKeeps ==
  ASSUME IdInv, NEW count \in Nat, NEW throws, BatchFails(count, throws)
  PROVE  IdInv'
<1>. DEFINE b == Batch(count, throws)
            n == Len(b.taken)
            ids == IdsOf(b.taken, n)
<1>1. PoliciesOK /\ GenOK(gen, used) /\ gen \in GenType /\ StateOK(gen)
  BY DEF IdInv, GenOK, StateOK
<1>2. PICK g : /\ Path(g, gen, b.taken)
               /\ b.failed => n < count /\ GivesUp(g[n], b.state, n + 1 = count, throws)
  BY <1>1, BatchPath
<1>3. /\ b.taken \in Seq(TakenType) /\ n \in Nat
  BY <1>2 DEF Path
<1>4. \A m \in 0 .. n : PathAt(g, gen, used, b.taken, m)
  BY <1>1, <1>2, PathHolds
<1>5. /\ gen' = rollback_batch(b.state, b.taken) /\ OwnersStay
      /\ Feasible(count) /\ n < count /\ GivesUp(g[n], b.state, n + 1 = count, throws)
  BY <1>2 DEF BatchFails
<1>. HIDE DEF b
<1>6. PathAt(g, gen, used, b.taken, n)
  BY <1>3, <1>4
<1>7. /\ GenOK(g[n], used \cup ids) /\ g[n].active = gen.active \cup ids /\ gen.active \cap ids = {}
      /\ IsFiniteSet(ids) /\ Cardinality(ids) = n
  BY <1>6 DEF PathAt
<1>. DEFINE t == NextTaken(g[n])
<1>8. Takes(g[n], t)
  BY <1>1, <1>7, TakenIs
<1>9. Ends(g[n], b.state) /\ (Fifo \/ Lowest => CounterStays(g[n], b.state))
  <2>1. CASE t.id = NoId /\ b.state = t.state
    <3>1. Ends(g[n], t.state) /\ (Fifo \/ Lowest => g[n].active = Domain)
      BY <1>1, <1>7, <1>8, <2>1, FailedEnds
    <3>2. g[n].active # Domain
      <4>1. IsFiniteSet(Domain) /\ gen.active \subseteq Domain
        BY <1>1, IdNumbers DEF StateOK
      <4>2. IsFiniteSet(gen.active) /\ Cardinality(gen.active) \in Nat /\ Cardinality(Domain) \in Nat
        BY <4>1, FS_Subset, FS_CardinalityType
      <4>3. Cardinality(gen.active \cup ids) = Cardinality(gen.active) + n
        <5>1. Cardinality(gen.active \cup ids)
              = Cardinality(gen.active) + Cardinality(ids) - Cardinality(gen.active \cap ids)
          BY <1>7, <4>2, FS_Union
        <5>2. Cardinality(gen.active \cap ids) = 0
          BY <1>7, FS_EmptySet
        <5>. HIDE DEF ids
        <5>. QED
          BY <1>3, <1>7, <4>2, <5>1, <5>2
      <4>4. Cardinality(gen.active) + n < Cardinality(Domain)
        BY <1>3, <1>5, <4>2 DEF Feasible
      <4>. QED
        <5>1. g[n].active = gen.active \cup ids
          BY <1>7
        <5>. HIDE DEF ids, n
        <5>2. Cardinality(gen.active \cup ids) # Cardinality(Domain)
          BY <1>3, <4>2, <4>3, <4>4
        <5>. QED
          BY <5>1, <5>2
    <3>. QED
      BY <2>1, <3>1, <3>2
  <2>2. CASE t.id # NoId /\ b.state = PutBack(t)
    BY <1>1, <1>7, <1>8, <2>2, PutBackEnds
  <2>. QED
    BY <1>5, <2>1, <2>2 DEF GivesUp
<1>10. \A i \in Ids : i \notin gen.active => gen.token[i] = Nobody
  <2>1. Nobody \notin IdGuards
    BY IdAssumption
  <2>. QED
    BY <2>1 DEF IdInv, HistoryOK, History
<1>11. Ends(gen, gen')
  BY <1>1, <1>2, <1>5, <1>9, <1>10, RollbackEnds
<1>. QED
  BY <1>5, <1>11, EndsInv

-----------------------------------------------------------------------------
(* The calls that take an identifier back. *)

(* What comes back has behind it all that waits already. *)
LEMMA ReturnHistory ==
  ASSUME PoliciesOK, NEW s, NEW held, NEW has, NEW before, NEW given, GenOK(s, given),
         History(s, held, has, before, given), NEW i \in s.active, NEW r, Returns(s, r, i)
  PROVE  History(r, held, [has EXCEPT ![i] = Nobody],
                 [before EXCEPT ![i] = {j \in given : has[j] = Nobody}], given)
<1>. DEFINE has2 == [has EXCEPT ![i] = Nobody]
            waiting == {j \in given : has[j] = Nobody}
            before2 == [before EXCEPT ![i] = waiting]
<1>1. /\ held \in [IdGuards -> Ids \cup {NoId}]
      /\ has \in [Ids -> IdGuards \cup {Caller, Nobody}] /\ before \in [Ids -> SUBSET Int]
      /\ given \subseteq Domain /\ s.active = {j \in Ids : has[j] # Nobody}
      /\ (\A j \in Ids : s.token[j] = IF has[j] \in IdGuards THEN has[j] ELSE Nobody)
      /\ s.active \subseteq given
      /\ (Fifo => given = PassedBy(s) /\ InOrder(before, s.pool))
  BY DEF History
<1>2. /\ r.active = s.active \ {i}
      /\ r.token = [j \in Ids |-> IF j \in {i} THEN Nobody ELSE s.token[j]]
      /\ PassedBy(r) = PassedBy(s) /\ (Fifo => r.pool = Append(s.pool, i))
  BY DEF Returns
<1>3. i \in Ids /\ Domain \subseteq Ids /\ Domain \subseteq Int /\ Nobody \notin IdGuards
  BY <1>1, IdNumbers, IdAssumption
<1>4. has2 \in [Ids -> IdGuards \cup {Caller, Nobody}] /\ before2 \in [Ids -> SUBSET Int]
  BY <1>1, <1>3
<1>5. r.active = {j \in Ids : has2[j] # Nobody} /\ r.active \subseteq given
  BY <1>1, <1>2
<1>6. \A j \in Ids : r.token[j] = IF has2[j] \in IdGuards THEN has2[j] ELSE Nobody
  BY <1>1, <1>2, <1>3
<1>7. ASSUME Fifo PROVE given = PassedBy(r) /\ InOrder(before2, r.pool)
  <2>1. /\ s.pool \in Seq(Int) /\ s.active \cap Pooled(s) = {} /\ s.active \cup Pooled(s) = PassedBy(s)
        /\ s.heap = {}
    BY <1>7, PolicyKinds DEF GenOK, PoolOK, StateOK, GenType
  <2>2. Pooled(s) = {s.pool[m] : m \in 1 .. Len(s.pool)}
    BY <2>1, PooledIs
  <2>3. waiting = Pooled(s)
    <3>1. given = s.active \cup Pooled(s)
      BY <1>1, <1>7, <2>1
    <3>. QED
      BY <1>1, <1>3, <2>1, <3>1
  <2>4. /\ Len(r.pool) = Len(s.pool) + 1 /\ r.pool[Len(s.pool) + 1] = i
        /\ \A m \in 1 .. Len(s.pool) : r.pool[m] = s.pool[m]
    BY <1>2, <1>3, <1>7, <2>1
  <2>5. \A m \in 1 .. Len(s.pool) : s.pool[m] # i /\ s.pool[m] \in Ids
    BY <1>1, <1>3, <1>7, <2>1, <2>2
  <2>6. Len(s.pool) \in Nat
    BY <2>1
  <2>7. before2[i] = waiting /\ \A j \in Ids : j # i => before2[j] = before[j]
    BY <1>1, <1>3
  <2>. HIDE DEF before2, waiting
  <2>8. ASSUME NEW k \in 1 .. Len(r.pool)
        PROVE  before2[r.pool[k]] = {r.pool[m] : m \in 1 .. k - 1}
    <3>1. {r.pool[m] : m \in 1 .. k - 1} = {s.pool[m] : m \in 1 .. k - 1}
      <4>1. \A m \in 1 .. k - 1 : m \in 1 .. Len(s.pool)
        BY <2>4, <2>6
      <4>2. \A m \in 1 .. k - 1 : r.pool[m] = s.pool[m]
        BY <2>4, <4>1
      <4>. QED
        BY <4>2
    <3>2. CASE k = Len(s.pool) + 1
      <4>1. k - 1 = Len(s.pool)
        BY <2>6, <3>2
      <4>. QED
        BY <2>2, <2>3, <2>4, <2>7, <3>1, <3>2, <4>1
    <3>3. CASE k # Len(s.pool) + 1
      <4>1. k \in 1 .. Len(s.pool)
        BY <2>4, <2>6, <3>3
      <4>2. before[s.pool[k]] = {s.pool[m] : m \in 1 .. k - 1}
        BY <1>1, <1>7, <4>1 DEF InOrder
      <4>. QED
        BY <2>4, <2>5, <2>7, <3>1, <4>1, <4>2
    <3>. QED
      BY <3>2, <3>3
  <2>. QED
    BY <1>1, <1>2, <1>7, <2>8 DEF InOrder
<1>. HIDE DEF has2, before2
<1>8. History(r, held, has2, before2, given)
  BY <1>1, <1>4, <1>5, <1>6, <1>7 DEF History
<1>. QED
  BY <1>8 DEF has2, before2, waiting

(* A guard may let go of what it holds without effect on the rest. *)
LEMMA HeldHistory ==
  ASSUME NEW s, NEW held, NEW has, NEW before, NEW given, History(s, held, has, before, given),
         NEW new \in [IdGuards -> Ids \cup {NoId}]
  PROVE  History(s, new, has, before, given)
BY DEF History

(* A call that takes an identifier back keeps the invariant. *)
LEMMA ReturnedInv ==
  ASSUME IdInv, NEW i \in gen.active, gen' = Returned(gen, i), ComesBack(i), used' = used,
         UNCHANGED idPolicies, guardIds' \in [IdGuards -> Ids \cup {NoId}]
  PROVE  IdInv'
<1>1. PoliciesOK /\ GenOK(gen, used) /\ History(gen, guardIds, owner, ahead, used)
  BY DEF IdInv, HistoryOK
<1>2. /\ owner' = [owner EXCEPT ![i] = Nobody]
      /\ ahead' = [ahead EXCEPT ![i] = {j \in used : owner[j] = Nobody}]
  BY DEF ComesBack, Waiting
<1>3. GenOK(gen', used) /\ Returns(gen, gen', i)
  BY <1>1, ReturnedIs
<1>4. History(gen', guardIds, owner', ahead', used)
  BY <1>1, <1>2, <1>3, ReturnHistory
<1>5. History(gen', guardIds', owner', ahead', used)
  BY <1>4, HeldHistory
<1>. QED
  BY <1>3, <1>5, NextInv

LEMMA ReleaseKeeps ==
  ASSUME IdInv, NEW i \in Ids, ReleaseId(i)
  PROVE  IdInv'
<1>1. guardIds' \in [IdGuards -> Ids \cup {NoId}]
  BY DEF IdInv, HistoryOK, History, ReleaseId
<1>. QED
  BY <1>1, ReturnedInv DEF ReleaseId

LEMMA ReleaseBatchKeeps ==
  ASSUME IdInv, NEW i \in Ids, NEW j \in Ids, ReleaseBatch(i, j)
  PROVE  IdInv'
<1>1. /\ PoliciesOK /\ GenOK(gen, used) /\ History(gen, guardIds, owner, ahead, used)
      /\ guardIds' = guardIds /\ used' = used /\ UNCHANGED idPolicies /\ i \in gen.active
      /\ guardIds' \in [IdGuards -> Ids \cup {NoId}]
  BY DEF IdInv, HistoryOK, History, ReleaseBatch
<1>2. CASE j \in gen.active \ {i}
  <2>. DEFINE s == Returned(gen, i)
              has == [owner EXCEPT ![i] = Nobody]
              before == [ahead EXCEPT ![i] = {k \in used : owner[k] = Nobody}]
  <2>1. GenOK(s, used) /\ Returns(gen, s, i)
    BY <1>1, ReturnedIs
  <2>2. History(s, guardIds, has, before, used)
    BY <1>1, <2>1, ReturnHistory
  <2>3. /\ gen' = Returned(s, j)
        /\ owner' = [owner EXCEPT ![i] = Nobody, ![j] = Nobody]
        /\ ahead' = [ahead EXCEPT ![i] = Waiting, ![j] = Waiting \cup {i}]
    BY <1>2 DEF ReleaseBatch
  <2>4. owner \in [Ids -> IdGuards \cup {Caller, Nobody}] /\ ahead \in [Ids -> SUBSET Int]
        /\ i \in used /\ used \subseteq Ids
    BY <1>1, IdNumbers DEF History
  <2>5. {k \in used : has[k] = Nobody} = Waiting \cup {i}
    BY <2>4 DEF Waiting
  <2>6. owner' = [has EXCEPT ![j] = Nobody]
    BY <2>3
  <2>7. ahead' = [before EXCEPT ![j] = {k \in used : has[k] = Nobody}]
    BY <2>3, <2>5 DEF Waiting
  <2>. HIDE DEF s, has, before
  <2>8. j \in s.active
    BY <1>2, <2>1 DEF Returns
  <2>9. GenOK(gen', used) /\ Returns(s, gen', j)
    BY <1>1, <2>1, <2>3, <2>8, ReturnedIs
  <2>10. History(gen', guardIds, owner', ahead', used)
    BY <1>1, <2>1, <2>2, <2>6, <2>7, <2>8, <2>9, ReturnHistory
  <2>. QED
    BY <1>1, <2>9, <2>10, NextInv
<1>3. CASE j \notin gen.active \ {i}
  <2>1. gen' = Returned(gen, i) /\ ComesBack(i)
    BY <1>3 DEF ReleaseBatch
  <2>. QED
    BY <1>1, <2>1, ReturnedInv
<1>. QED
  BY <1>2, <1>3

(* A guard holds what it was given exactly as long as the tracker says so. *)
LEMMA TokenSays ==
  ASSUME IdInv, NEW g \in IdGuards, guardIds[g] # NoId
  PROVE  /\ guardIds[g] \in Ids /\ guardIds[g] \in Int
         /\ gen.token[guardIds[g]] = g <=> owner[guardIds[g]] = g
         /\ owner[guardIds[g]] = g => guardIds[g] \in gen.active
         /\ [guardIds EXCEPT ![g] = NoId] \in [IdGuards -> Ids \cup {NoId}]
<1>1. g # Nobody /\ Ids \subseteq Int
  BY IdAssumption, IdNumbers DEF IdInv
<1>2. /\ guardIds \in [IdGuards -> Ids \cup {NoId}] /\ guardIds[g] \in Ids
      /\ gen.active = {i \in Ids : owner[i] # Nobody}
      /\ \A i \in Ids : gen.token[i] = IF owner[i] \in IdGuards THEN owner[i] ELSE Nobody
  BY DEF IdInv, HistoryOK, History
<1>3. gen.token[guardIds[g]] = g <=> owner[guardIds[g]] = g
  BY <1>1, <1>2
<1>4. owner[guardIds[g]] = g => guardIds[g] \in gen.active
  BY <1>1, <1>2
<1>5. [guardIds EXCEPT ![g] = NoId] \in [IdGuards -> Ids \cup {NoId}]
  BY <1>2
<1>. QED
  BY <1>1, <1>2, <1>3, <1>4, <1>5

LEMMA GuardEndsKeeps ==
  ASSUME IdInv, NEW g \in IdGuards, GuardEnds(g)
  PROVE  IdInv'
<1>. DEFINE i == guardIds[g]
<1>1. /\ i \in Ids /\ (gen.token[i] = g <=> owner[i] = g) /\ (owner[i] = g => i \in gen.active)
      /\ guardIds' \in [IdGuards -> Ids \cup {NoId}]
  BY TokenSays DEF GuardEnds
<1>2. UNCHANGED idPolicies /\ used' = used
  BY DEF GuardEnds
<1>3. CASE owner[i] = g
  <2>1. gen' = Returned(gen, i) /\ ComesBack(i)
    BY <1>1, <1>3 DEF GuardEnds, release_if_current
  <2>. HIDE DEF i
  <2>. QED
    BY <1>1, <1>2, <1>3, <2>1, ReturnedInv
<1>4. CASE owner[i] # g
  <2>1. gen' = gen /\ owner' = owner /\ ahead' = ahead
    BY <1>1, <1>4 DEF GuardEnds, release_if_current
  <2>2. GenOK(gen, used) /\ History(gen, guardIds, owner, ahead, used)
    BY DEF IdInv, HistoryOK
  <2>3. History(gen, guardIds', owner, ahead, used)
    BY <1>1, <2>2, HeldHistory
  <2>. QED
    BY <1>2, <2>1, <2>2, <2>3, NextInv
<1>. QED
  BY <1>3, <1>4

LEMMA OwnershipKeeps ==
  ASSUME IdInv, NEW g \in IdGuards, release_ownership(g)
  PROVE  IdInv'
<1>. DEFINE i == guardIds[g]
<1>1. /\ i \in Ids /\ (gen.token[i] = g <=> owner[i] = g) /\ (owner[i] = g => i \in gen.active)
      /\ guardIds' \in [IdGuards -> Ids \cup {NoId}]
  BY TokenSays DEF release_ownership
<1>2. UNCHANGED idPolicies /\ used' = used /\ ahead' = ahead
  BY DEF release_ownership
<1>3. GenOK(gen, used) /\ History(gen, guardIds, owner, ahead, used)
  BY DEF IdInv, HistoryOK
<1>4. CASE owner[i] = g
  <2>1. gen' = [gen EXCEPT !.token[i] = Nobody] /\ owner' = [owner EXCEPT ![i] = Caller]
    BY <1>1, <1>4 DEF release_ownership
  <2>. HIDE DEF i
  <2>2. /\ GenOK(gen', used) /\ gen'.active = gen.active /\ gen'.pool = gen.pool
        /\ gen'.token = [gen.token EXCEPT ![i] = Nobody] /\ PassedBy(gen') = PassedBy(gen)
    BY <1>1, <1>3, <2>1, TokenIs
  <2>3. /\ owner \in [Ids -> IdGuards \cup {Caller, Nobody}]
        /\ gen.active = {j \in Ids : owner[j] # Nobody}
        /\ (\A j \in Ids : gen.token[j] = IF owner[j] \in IdGuards THEN owner[j] ELSE Nobody)
        /\ gen.token \in [Ids -> IdGuards \cup {Nobody}]
        /\ Caller # Nobody /\ Caller \notin IdGuards /\ g # Nobody
    BY <1>3, IdAssumption DEF History, GenOK, StateOK, GenType
  <2>4. /\ owner' \in [Ids -> IdGuards \cup {Caller, Nobody}]
        /\ gen'.active = {j \in Ids : owner'[j] # Nobody}
    BY <1>1, <1>4, <2>1, <2>2, <2>3
  <2>5. \A j \in Ids : gen'.token[j] = IF owner'[j] \in IdGuards THEN owner'[j] ELSE Nobody
    BY <1>1, <2>1, <2>2, <2>3
  <2>6. History(gen', guardIds, owner', ahead, used)
    BY <1>3, <2>2, <2>4, <2>5 DEF History
  <2>7. History(gen', guardIds', owner', ahead', used')
    BY <1>1, <1>2, <2>6, HeldHistory
  <2>. QED
    BY <1>2, <2>2, <2>7, NextInv
<1>5. CASE owner[i] # g
  <2>1. gen' = gen /\ owner' = owner
    BY <1>1, <1>5 DEF release_ownership
  <2>2. History(gen, guardIds', owner, ahead, used)
    BY <1>1, <1>3, HeldHistory
  <2>. QED
    BY <1>2, <1>3, <2>1, <2>2, NextInv
<1>. QED
  BY <1>4, <1>5

-----------------------------------------------------------------------------
(* The theorems. *)

(* Every step keeps the invariant. *)
LEMMA IdStep ==
  ASSUME IdInv, [IdNext]_idVars
  PROVE  IdInv'
<1>1. ASSUME NEW o \in IdGuards \cup {Caller}, Generate(o) \/ \E i \in Ids : Claim(i, o) PROVE IdInv'
  BY <1>1, GenerateKeeps, ClaimKeeps
<1>2. CASE GenerateFails \/ GenerateThrows
  BY <1>2, GenerateFailsKeeps
<1>3. ASSUME NEW count \in 2 .. Cardinality(Ids),
             GenerateBatch(count) \/ \E throws \in BOOLEAN : BatchFails(count, throws)
      PROVE  IdInv'
  <2>1. count \in Nat
    OBVIOUS
  <2>. QED
    BY <1>3, <2>1, GenerateBatchKeeps, BatchFailsKeeps
<1>4. ASSUME NEW i \in Ids, ReleaseId(i) \/ \E j \in Ids : ReleaseBatch(i, j) PROVE IdInv'
  BY <1>4, ReleaseKeeps, ReleaseBatchKeeps
<1>5. ASSUME NEW g \in IdGuards, GuardEnds(g) \/ release_ownership(g) PROVE IdInv'
  BY <1>5, GuardEndsKeeps, OwnershipKeeps
<1>6. CASE ResetIds
  BY <1>6, ResetKeeps
<1>7. CASE UNCHANGED idVars
  <2>1. GenOK(gen, used) /\ History(gen, guardIds, owner, ahead, used)
    BY DEF IdInv, HistoryOK
  <2>2. /\ idPolicies' = idPolicies /\ gen' = gen /\ guardIds' = guardIds /\ owner' = owner
        /\ ahead' = ahead /\ used' = used
    BY <1>7 DEF idVars
  <2>. QED
    BY <2>1, <2>2, NextInv
<1>. QED
  BY <1>1, <1>2, <1>3, <1>4, <1>5, <1>6, <1>7 DEF IdNext

LEMMA IdInvariant == IdSpec => []IdInv
<1>1. IdInit => IdInv
  BY InitInv
<1>2. IdInv /\ [IdNext]_idVars => IdInv'
  BY IdStep
<1>. QED
  BY <1>1, <1>2, PTL DEF IdSpec

(* The counter stays in the type, what is active, pooled or free in the    *)
(* domain, and a token is a guard's.                                       *)
THEOREM IdentifiersTyped == IdSpec => []IdTypeOK
<1>1. IdInv => IdTypeOK
  BY TypeFollows
<1>. QED
  BY <1>1, IdInvariant, PTL

(* Under every policy and for every domain: what is active is what somebody *)
(* has, whatever failed or was let go of on the way; the pool and what is   *)
(* active are all that the counter has passed, in the order of return where *)
(* that counts; without a pool none is drawn twice before the counter has   *)
(* come to its end; and the free intervals are the rest of the domain, as   *)
(* few as they can be, with a credit for every active identifier.           *)
THEOREM IdentifiersAreSound == IdSpec => []IdsAreSound
<1>1. IdInv => IdsAreSound
  BY SoundFollows
<1>. QED
  BY <1>1, IdInvariant, PTL

-----------------------------------------------------------------------------
(* FeatureManager.  Its loops, what they make of the sets they start from,  *)
(* and what is reached along a relation.                                    *)

(* The course of a loop: the states after each of its steps. *)
CourseIs(step, start, n, f) ==
  f = [k \in 0 .. n |-> IF k = 0 THEN start ELSE step[k][f[k - 1]]]

(* Every loop has a course. *)
LEMMA CourseExists ==
  ASSUME NEW step, NEW start, NEW n \in Nat
  PROVE  \E f : CourseIs(step, start, n, f)
<1>. SUFFICES ASSUME ~ \E f : CourseIs(step, start, n, f) PROVE FALSE
  OBVIOUS
<1>. DEFINE Bad == {m \in Nat : ~ \E f : CourseIs(step, start, m, f)}
<1>1. PICK m \in Bad : \A k \in Bad : m <= k
  <2>1. Bad \in SUBSET Nat /\ Bad # {}
    OBVIOUS
  <2>. HIDE DEF Bad
  <2>. QED
    BY <2>1, LeastOf
<1>2. m # 0
  <2>. DEFINE f == [k \in 0 .. 0 |-> start]
  <2>1. CourseIs(step, start, 0, f)
    BY DEF CourseIs
  <2>. QED
    BY <1>1, <2>1
<1>3. m \in Nat /\ m - 1 \in Nat /\ m - 1 \notin Bad
  BY <1>1, <1>2
<1>4. PICK f : CourseIs(step, start, m - 1, f)
  BY <1>3
<1>. DEFINE last == step[m][f[m - 1]]
            g == [k \in 0 .. m |-> IF k = m THEN last ELSE f[k]]
<1>5. ASSUME NEW k \in 0 .. m
      PROVE  g[k] = IF k = 0 THEN start ELSE step[k][g[k - 1]]
  <2>1. CASE k = m
    <3>1. g[k] = last /\ g[k - 1] = f[m - 1]
      BY <1>2, <1>3, <2>1
    <3>. HIDE DEF g
    <3>. QED
      BY <1>2, <2>1, <3>1
  <2>2. CASE k # m
    <3>1. k \in 0 .. m - 1
      BY <1>3, <2>2
    <3>2. f[k] = IF k = 0 THEN start ELSE step[k][f[k - 1]]
      BY <1>4, <3>1 DEF CourseIs
    <3>3. k # 0 => g[k - 1] = f[k - 1]
      BY <1>3, <3>1
    <3>4. g[k] = f[k]
      BY <2>2
    <3>. HIDE DEF g
    <3>. QED
      BY <3>2, <3>3, <3>4
  <2>. QED
    BY <2>1, <2>2
<1>6. CourseIs(step, start, m, g)
  <2>1. g = [k \in 0 .. m |-> g[k]]
    OBVIOUS
  <2>. HIDE DEF g
  <2>. QED
    BY <1>5, <2>1 DEF CourseIs
<1>. QED
  BY <1>1, <1>6

(* What a loop ends with is the last of its course. *)
LEMMA AfterIs ==
  ASSUME NEW step, NEW start, NEW n \in Nat
  PROVE  \E f : CourseIs(step, start, n, f) /\ After(step, start, n) = f[n]
<1>. DEFINE state[k \in 0 .. n] == IF k = 0 THEN start ELSE step[k][state[k - 1]]
<1>1. PICK f : CourseIs(step, start, n, f)
  BY CourseExists
<1>2. state = [k \in 0 .. n |-> IF k = 0 THEN start ELSE step[k][state[k - 1]]]
  BY <1>1 DEF CourseIs
<1>3. After(step, start, n) = state[n]
  BY DEF After
<1>. HIDE DEF state
<1>4. CourseIs(step, start, n, state)
  BY <1>2 DEF CourseIs
<1>. QED
  BY <1>3, <1>4

(* A loop whose k-th step leads from P[k - 1] to P[k] ends in the last. *)
LEMMA AfterLeads ==
  ASSUME NEW n \in Nat, NEW P, NEW step, NEW start, start \in P[0],
         \A k \in 1 .. n : \A x \in P[k - 1] : step[k][x] \in P[k]
  PROVE  After(step, start, n) \in P[n]
<1>1. PICK f : CourseIs(step, start, n, f) /\ After(step, start, n) = f[n]
  BY AfterIs
<1>. DEFINE Bad == {k \in 0 .. n : f[k] \notin P[k]}
<1>2. ASSUME Bad # {} PROVE FALSE
  <2>1. PICK k \in Bad : \A j \in Bad : k <= j
    <3>1. Bad \in SUBSET Nat
      OBVIOUS
    <3>. HIDE DEF Bad
    <3>. QED
      BY <1>2, <3>1, LeastOf
  <2>2. f[0] = start
    BY <1>1 DEF CourseIs
  <2>3. k # 0 /\ k \in 1 .. n /\ k - 1 \in 0 .. n
    BY <2>1, <2>2
  <2>4. f[k] = step[k][f[k - 1]]
    BY <1>1, <2>3 DEF CourseIs
  <2>5. f[k - 1] \in P[k - 1]
    BY <2>1, <2>3
  <2>. QED
    BY <2>1, <2>3, <2>4, <2>5
<1>. QED
  BY <1>1, <1>2

(* A loop whose steps stay in a set stays there. *)
LEMMA AfterStays ==
  ASSUME NEW n \in Nat, NEW S, NEW step, NEW start \in S,
         \A k \in 1 .. n : \A x \in S : step[k][x] \in S
  PROVE  After(step, start, n) \in S
<1>. DEFINE P == [k \in 0 .. n |-> S]
<1>1. \A k \in 0 .. n : P[k] = S
  OBVIOUS
<1>. HIDE DEF P
<1>2. start \in P[0] /\ \A k \in 1 .. n : \A x \in P[k - 1] : step[k][x] \in P[k]
  BY <1>1
<1>3. After(step, start, n) \in P[n]
  BY <1>2, AfterLeads
<1>. QED
  BY <1>1, <1>3

(* The relations that the relationships make. *)
Edges == SUBSET (Features \X Features)

(* S is among what is reached from it, which is closed, *)
LEMMA ReachedGoesOn ==
  ASSUME NEW R \in Edges, NEW S
  PROVE  /\ Reached(R, S) \subseteq Features
         /\ S \subseteq Features => S \subseteq Reached(R, S)
         /\ \A f, g \in Features : f \in Reached(R, S) /\ <<f, g>> \in R => g \in Reached(R, S)
<1>1. ASSUME NEW f \in Features, NEW g \in Features, f \in Reached(R, S), <<f, g>> \in R
      PROVE  g \in Reached(R, S)
  <2>1. ASSUME NEW C \in SUBSET Features, S \subseteq C, \A p \in R : p[1] \in C => p[2] \in C
        PROVE  g \in C
    <3>1. f \in C
      BY <1>1, <2>1 DEF Reached
    <3>2. <<f, g>>[1] \in C => <<f, g>>[2] \in C
      BY <1>1, <2>1
    <3>. QED
      BY <3>1, <3>2
  <2>. QED
    BY <2>1 DEF Reached
<1>. QED
  BY <1>1 DEF Reached

(* and in every other closed set that S is in. *)
LEMMA ReachedIsLeast ==
  ASSUME NEW R \in Edges, NEW S, NEW C \in SUBSET Features, S \subseteq C,
         \A f, g \in Features : f \in C /\ <<f, g>> \in R => g \in C
  PROVE  Reached(R, S) \subseteq C
<1>1. ASSUME NEW p \in R, p[1] \in C PROVE p[2] \in C
  <2>1. p \in Features \X Features
    BY DEF Edges
  <2>2. p = <<p[1], p[2]>> /\ p[1] \in Features /\ p[2] \in Features
    BY <2>1
  <2>. QED
    BY <1>1, <2>2
<1>. QED
  BY <1>1 DEF Reached

(* What is reached from what was reached, or from less, was reached. *)
LEMMA ReachedFromThere ==
  ASSUME NEW R \in Edges, NEW S, NEW T, T \subseteq Reached(R, S)
  PROVE  Reached(R, T) \subseteq Reached(R, S)
<1>1. /\ Reached(R, S) \in SUBSET Features
      /\ \A f, g \in Features : f \in Reached(R, S) /\ <<f, g>> \in R => g \in Reached(R, S)
  BY ReachedGoesOn
<1>. QED
  BY <1>1, ReachedIsLeast

(* More is reached from more. *)
LEMMA ReachedGrows ==
  ASSUME NEW R \in Edges, NEW S \in SUBSET Features, NEW T, T \subseteq S
  PROVE  Reached(R, T) \subseteq Reached(R, S)
<1>1. T \subseteq Reached(R, S)
  BY ReachedGoesOn
<1>. QED
  BY <1>1, ReachedFromThere

-----------------------------------------------------------------------------
(* Plans: what one that is being made has turned on and off, and why.       *)

(* What a plan did is in its orders. *)
Ordered(p) ==
  /\ p \in Plans
  /\ enabled \ p.on \subseteq ToSet(p.disableOrder)
  /\ p.on \ enabled \subseteq ToSet(p.enableOrder)

OrderedPlans == {p \in Plans : Ordered(p)}

(* The features that lost an owner and have none. *)
Orphans(on) ==
  {t \in on : /\ Sources("Entails", t) \cap (enabled \ on) # {}
              /\ Sources("Entails", t) \cap on = {}}

(* What is added to a list is in it, and what was in it stays. *)
LEMMA AppendSet ==
  ASSUME NEW T, NEW s \in Seq(T), NEW x \in T
  PROVE  Append(s, x) \in Seq(T) /\ ToSet(Append(s, x)) = ToSet(s) \cup {x}
<1>1. /\ Append(s, x) \in Seq(T) /\ Len(Append(s, x)) = Len(s) + 1 /\ Len(s) \in Nat
      /\ Append(s, x)[Len(s) + 1] = x
      /\ \A i \in 1 .. Len(s) : Append(s, x)[i] = s[i]
  OBVIOUS
<1>2. DOMAIN s = 1 .. Len(s) /\ DOMAIN Append(s, x) = 1 .. Len(s) + 1
  BY <1>1
<1>3. ToSet(s) = {s[i] : i \in 1 .. Len(s)}
  BY <1>2 DEF ToSet
<1>4. ToSet(Append(s, x)) = {Append(s, x)[i] : i \in 1 .. Len(s) + 1}
  BY <1>2 DEF ToSet
<1>. DEFINE t == Append(s, x)
<1>. HIDE DEF t
<1>5. /\ Len(s) \in Nat /\ t[Len(s) + 1] = x /\ (\A i \in 1 .. Len(s) : t[i] = s[i])
      /\ ToSet(t) = {t[i] : i \in 1 .. Len(s) + 1}
  BY <1>1, <1>4 DEF t
<1>6. ToSet(t) = ToSet(s) \cup {x}
  BY <1>3, <1>5
<1>. QED
  BY <1>1, <1>6 DEF t

(* An empty list names nothing. *)
LEMMA EmptySet == ToSet(<< >>) = {}
BY DEF ToSet

(* The fields of a plan, and the plans that come of it. *)
LEMMA PlanFields ==
  ASSUME NEW p \in Plans
  PROVE  /\ p.ok \in BOOLEAN /\ p.on \in SUBSET Features
         /\ p.disableOrder \in Seq(Features) /\ p.enableOrder \in Seq(Features)
BY DEF Plans

(* The plan that a transaction starts from. *)
LEMMA NewPlanIs ==
  ASSUME enabled \subseteq Features
  PROVE  Ordered(NewPlan(enabled)) /\ NewPlan(enabled).ok /\ NewPlan(enabled).on = enabled
BY DEF NewPlan, Plans, Ordered

(* A plan that failed wants what it wanted. *)
LEMMA FailIs ==
  ASSUME NEW p \in Plans
  PROVE  /\ Fail(p) \in Plans /\ ~Fail(p).ok /\ Fail(p).on = p.on
         /\ Ordered(p) => Ordered(Fail(p))
<1>1. Fail(p) \in Plans
  BY DEF Fail, Plans
<1>2. /\ Fail(p).ok = FALSE /\ Fail(p).on = p.on
      /\ Fail(p).disableOrder = p.disableOrder /\ Fail(p).enableOrder = p.enableOrder
  BY DEF Fail, Plans
<1>. QED
  BY <1>1, <1>2 DEF Ordered

(* A plan after a feature was turned off. *)
LEMMA TurnOffIs ==
  ASSUME NEW p, Ordered(p), NEW f \in Features
  PROVE  /\ Ordered(TurnOff(p, f)) /\ TurnOff(p, f).ok = p.ok /\ TurnOff(p, f).on = p.on \ {f}
         /\ TurnOff(p, f) \in Plans
         /\ ToSet(TurnOff(p, f).disableOrder) = ToSet(p.disableOrder) \cup {f}
<1>1. p \in Plans
  BY DEF Ordered
<1>2. /\ p.ok \in BOOLEAN /\ p.on \in SUBSET Features
      /\ p.disableOrder \in Seq(Features) /\ p.enableOrder \in Seq(Features)
  BY <1>1, PlanFields
<1>3. /\ Append(p.disableOrder, f) \in Seq(Features)
      /\ ToSet(Append(p.disableOrder, f)) = ToSet(p.disableOrder) \cup {f}
  BY <1>2, AppendSet
<1>4. TurnOff(p, f) \in Plans
  BY <1>1, <1>2, <1>3 DEF TurnOff, Plans
<1>5. /\ TurnOff(p, f).ok = p.ok /\ TurnOff(p, f).on = p.on \ {f}
      /\ TurnOff(p, f).disableOrder = Append(p.disableOrder, f)
      /\ TurnOff(p, f).enableOrder = p.enableOrder
  BY <1>1 DEF TurnOff, Plans
<1>. QED
  BY <1>3, <1>4, <1>5 DEF Ordered

(* A plan after a feature was turned on. *)
LEMMA TurnOnIs ==
  ASSUME NEW p, Ordered(p), NEW f \in Features
  PROVE  /\ Ordered(TurnOn(p, f)) /\ TurnOn(p, f).ok = p.ok /\ TurnOn(p, f).on = p.on \cup {f}
         /\ TurnOn(p, f) \in Plans
<1>1. p \in Plans
  BY DEF Ordered
<1>2. /\ p.ok \in BOOLEAN /\ p.on \in SUBSET Features
      /\ p.disableOrder \in Seq(Features) /\ p.enableOrder \in Seq(Features)
  BY <1>1, PlanFields
<1>3. /\ Append(p.enableOrder, f) \in Seq(Features)
      /\ ToSet(Append(p.enableOrder, f)) = ToSet(p.enableOrder) \cup {f}
  BY <1>2, AppendSet
<1>4. TurnOn(p, f) \in Plans
  BY <1>1, <1>2, <1>3 DEF TurnOn, Plans
<1>5. /\ TurnOn(p, f).ok = p.ok /\ TurnOn(p, f).on = p.on \cup {f}
      /\ TurnOn(p, f).disableOrder = p.disableOrder
      /\ TurnOn(p, f).enableOrder = Append(p.enableOrder, f)
  BY <1>1 DEF TurnOn, Plans
<1>. QED
  BY <1>3, <1>4, <1>5 DEF Ordered

(* Who is turned off leaves behind no orphan but those it entailed; who is  *)
(* turned on makes none.                                                    *)
LEMMA OrphansOff ==
  ASSUME NEW on \in SUBSET Features, NEW f \in Features
  PROVE  /\ Orphans(on \ {f}) \subseteq Orphans(on) \cup Targets("Entails", f)
         /\ Orphans(on \cup {f}) \subseteq Orphans(on) \cup {f}
<1>1. ASSUME NEW t \in Orphans(on \ {f}), t \notin Targets("Entails", f) PROVE t \in Orphans(on)
  <2>1. t \in on /\ f \notin Sources("Entails", t)
    BY <1>1 DEF Orphans, Targets, Sources
  <2>. QED
    BY <1>1, <2>1 DEF Orphans
<1>2. Orphans(on \cup {f}) \subseteq Orphans(on) \cup {f}
  BY DEF Orphans
<1>. QED
  BY <1>1, <1>2

(* The relations of what needs, and of what hangs on what. *)
LEMMA Relations ==
  ASSUME FeaturesTypeOK
  PROVE  /\ Needs \in Edges /\ HangsOn \in Edges
         /\ \A f, g \in Features :
              /\ \A type \in Dependencies : g \in Targets(type, f) => <<f, g>> \in Needs
              /\ g \in Targets("Entails", f) => <<f, g>> \in HangsOn
              /\ Uses(g, f) => <<f, g>> \in HangsOn
<1>1. \A type \in Relationships : rel[type] \subseteq Features \X Features
  BY DEF FeaturesTypeOK
<1>2. Dependencies \subseteq Relationships /\ {"Requires", "Implies", "Entails"} = Dependencies
  BY DEF Dependencies, Relationships
<1>3. Needs \in Edges
  BY <1>1, <1>2 DEF Needs, Edges
<1>4. HangsOn \in Edges
  <2>1. \A p \in rel["Requires"] \cup rel["Implies"] : p[1] \in Features /\ p[2] \in Features
    BY <1>1, <1>2
  <2>2. rel["Entails"] \subseteq Features \X Features
    BY <1>1, <1>2
  <2>3. {<<p[2], p[1]>> : p \in rel["Requires"] \cup rel["Implies"]} \subseteq Features \X Features
    BY <2>1
  <2>. QED
    BY <2>2, <2>3 DEF HangsOn, Edges
<1>5. ASSUME NEW f \in Features, NEW g \in Features
      PROVE  /\ \A type \in Dependencies : g \in Targets(type, f) => <<f, g>> \in Needs
             /\ g \in Targets("Entails", f) => <<f, g>> \in HangsOn
             /\ Uses(g, f) => <<f, g>> \in HangsOn
  <2>1. ASSUME Uses(g, f) PROVE <<f, g>> \in HangsOn
    <3>1. <<g, f>> \in rel["Requires"] \cup rel["Implies"]
      BY <2>1 DEF Uses, Targets
    <3>2. <<f, g>> = <<(<<g, f>>)[2], (<<g, f>>)[1]>>
      OBVIOUS
    <3>. QED
      BY <3>1, <3>2 DEF HangsOn
  <2>. QED
    BY <2>1 DEF Needs, HangsOn, Targets
<1>. QED
  BY <1>3, <1>4, <1>5

-----------------------------------------------------------------------------
(* planDisableClosure(). *)

(* What is made of plan on the way to turn f off: only what hangs on f goes, *)
(* and there are no new orphans but the ones to be seen to.                  *)
Loses(f, seen_to, plan, p) ==
  /\ Ordered(p)
  /\ p.on \subseteq plan.on /\ plan.on \ p.on \subseteq Reached(HangsOn, {f})
  /\ p.ok => plan.ok /\ Orphans(p.on) \subseteq Orphans(plan.on) \cup seen_to

(* In the end f is off, and there are none at all. *)
Disables(f, plan, p) == Loses(f, {}, plan, p) /\ (p.ok => f \notin p.on)

(* A function that plans to disable does that. *)
DisablesAll(h) == \A f \in Features : \A plan \in OrderedPlans : Disables(f, plan, h[f][plan])

(* To turn off what hangs on f is to lose what hangs on f. *)
LEMMA LosesAnother ==
  ASSUME FeaturesTypeOK, NEW f \in Features, NEW g \in Features, <<f, g>> \in HangsOn,
         NEW X, NEW plan, NEW p, Loses(f, X, plan, p), NEW q, Disables(g, p, q)
  PROVE  Loses(f, X, plan, q)
<1>1. Reached(HangsOn, {g}) \subseteq Reached(HangsOn, {f})
  <2>1. HangsOn \in Edges
    BY Relations
  <2>2. f \in Reached(HangsOn, {f})
    BY <2>1, ReachedGoesOn
  <2>3. {g} \subseteq Reached(HangsOn, {f})
    BY <2>1, <2>2, ReachedGoesOn
  <2>. QED
    BY <2>1, <2>3, ReachedFromThere
<1>2. /\ Ordered(q) /\ q.on \subseteq p.on /\ p.on \ q.on \subseteq Reached(HangsOn, {g})
      /\ q.ok => p.ok /\ Orphans(q.on) \subseteq Orphans(p.on)
  BY DEF Disables, Loses
<1>3. /\ p.on \subseteq plan.on /\ plan.on \ p.on \subseteq Reached(HangsOn, {f})
      /\ p.ok => plan.ok /\ Orphans(p.on) \subseteq Orphans(plan.on) \cup X
  BY DEF Loses
<1>. QED
  BY <1>1, <1>2, <1>3 DEF Loses

(* First those who use f go. *)
LEMMA UsersGo ==
  ASSUME FeaturesTypeOK, NEW h, DisablesAll(h), NEW f \in Features,
         NEW plan \in OrderedPlans, NEW step,
         step = [g \in Features |-> [p \in Plans |->
                   IF p.ok /\ g \in p.on \ {f} /\ Uses(g, f) THEN h[g][p] ELSE p]]
  PROVE  Loses(f, {}, plan, After(step, plan, FeatureCount))
<1>. DEFINE S == {p \in OrderedPlans : Loses(f, {}, plan, p)}
<1>1. plan \in S
  BY DEF Loses, OrderedPlans
<1>2. ASSUME NEW g \in 1 .. FeatureCount, NEW p \in S PROVE step[g][p] \in S
  <2>1. g \in Features /\ p \in Plans /\ p \in OrderedPlans /\ Loses(f, {}, plan, p)
    BY DEF Features, OrderedPlans
  <2>2. step[g][p] = IF p.ok /\ g \in p.on \ {f} /\ Uses(g, f) THEN h[g][p] ELSE p
    BY <2>1
  <2>3. CASE p.ok /\ g \in p.on \ {f} /\ Uses(g, f)
    <3>1. Disables(g, p, h[g][p])
      BY <2>1 DEF DisablesAll
    <3>2. <<f, g>> \in HangsOn
      BY <2>1, <2>3, Relations
    <3>3. Loses(f, {}, plan, h[g][p])
      BY <2>1, <3>1, <3>2, LosesAnother
    <3>4. h[g][p] \in OrderedPlans
      BY <3>3 DEF Loses, OrderedPlans, Ordered
    <3>. QED
      BY <2>2, <2>3, <3>3, <3>4
  <2>. QED
    BY <2>2, <2>3
<1>. HIDE DEF S
<1>3. FeatureCount \in Nat
  BY FeaturesAssumption
<1>4. After(step, plan, FeatureCount) \in S
  BY <1>1, <1>2, <1>3, AfterStays
<1>. QED
  BY <1>4 DEF S

(* Then, when f is off, those it entailed and that nobody else does. *)
LEMMA EntailedGo ==
  ASSUME FeaturesTypeOK, NEW h, DisablesAll(h), NEW f \in Features,
         NEW plan \in OrderedPlans, NEW start, Loses(f, Targets("Entails", f), plan, start),
         f \notin start.on, NEW step,
         step = [g \in Features |-> [p \in Plans |->
                   IF p.ok /\ g \in Targets("Entails", f) /\ Unowned(p.on, f, g)
                   THEN h[g][p] ELSE p]]
  PROVE  Disables(f, plan, After(step, start, FeatureCount))
<1>. DEFINE Left(k) == {t \in Targets("Entails", f) : t > k}
            P == [k \in 0 .. FeatureCount |->
                    {p \in OrderedPlans : Loses(f, Left(k), plan, p) /\ f \notin p.on}]
<1>0. FeatureCount \in Nat /\ Features = 1 .. FeatureCount
  BY FeaturesAssumption DEF Features
<1>1. \A k \in 0 .. FeatureCount :
        P[k] = {p \in OrderedPlans : Loses(f, Left(k), plan, p) /\ f \notin p.on}
  OBVIOUS
<1>2. start \in P[0]
  <2>1. Left(0) = Targets("Entails", f)
    BY <1>0 DEF Targets
  <2>2. start \in OrderedPlans
    BY DEF Loses, OrderedPlans, Ordered
  <2>3. 0 \in 0 .. FeatureCount
    BY <1>0
  <2>. HIDE DEF P, Left
  <2>4. Loses(f, Left(0), plan, start)
    BY <2>1
  <2>. QED
    BY <1>1, <2>2, <2>3, <2>4
<1>. HIDE DEF P
<1>3. ASSUME NEW g \in 1 .. FeatureCount, NEW p \in P[g - 1] PROVE step[g][p] \in P[g]
  <2>1. g \in Features /\ g - 1 \in 0 .. FeatureCount /\ g \in 0 .. FeatureCount
    BY <1>0
  <2>2. p \in OrderedPlans /\ p \in Plans /\ Loses(f, Left(g - 1), plan, p) /\ f \notin p.on
    BY <1>1, <2>1 DEF OrderedPlans
  <2>3. step[g][p] = IF p.ok /\ g \in Targets("Entails", f) /\ Unowned(p.on, f, g)
                     THEN h[g][p] ELSE p
    BY <2>1, <2>2
  <2>4. Left(g - 1) \subseteq Left(g) \cup ({g} \cap Targets("Entails", f))
    BY <1>0 DEF Targets
  <2>. HIDE DEF Left
  <2>5. CASE p.ok /\ g \in Targets("Entails", f) /\ Unowned(p.on, f, g)
    <3>. DEFINE q == h[g][p]
    <3>1. Disables(g, p, q)
      BY <2>1, <2>2 DEF DisablesAll
    <3>2. <<f, g>> \in HangsOn
      BY <2>1, <2>5, Relations
    <3>. HIDE DEF q
    <3>3. Loses(f, Left(g - 1), plan, q) /\ q.on \subseteq p.on /\ (q.ok => g \notin q.on)
      <4>1. Loses(f, Left(g - 1), plan, q)
        BY <2>1, <2>2, <3>1, <3>2, LosesAnother
      <4>2. q.on \subseteq p.on /\ (q.ok => g \notin q.on)
        BY <3>1 DEF Disables, Loses
      <4>. QED
        BY <4>1, <4>2
    <3>4. q.ok => g \notin Orphans(q.on)
      BY <3>3 DEF Orphans
    <3>5. Loses(f, Left(g), plan, q)
      BY <2>4, <3>3, <3>4 DEF Loses
    <3>6. q \in OrderedPlans /\ f \notin q.on
      BY <2>2, <3>3 DEF Loses, OrderedPlans, Ordered
    <3>7. q \in P[g]
      BY <1>1, <2>1, <3>5, <3>6
    <3>. QED
      BY <2>3, <2>5, <3>7 DEF q
  <2>6. CASE ~(p.ok /\ g \in Targets("Entails", f) /\ Unowned(p.on, f, g))
    <3>1. p.ok /\ g \in Targets("Entails", f) => g \notin Orphans(p.on)
      <4>1. SUFFICES ASSUME p.ok, g \in Targets("Entails", f) PROVE g \notin Orphans(p.on)
        OBVIOUS
      <4>2. PICK o \in p.on \ {f} : g \in Targets("Entails", o)
        BY <2>6, <4>1 DEF Unowned
      <4>3. o \in Features
        BY <2>2, <4>2, PlanFields
      <4>4. o \in Sources("Entails", g) \cap p.on
        BY <4>2, <4>3 DEF Targets, Sources
      <4>. QED
        BY <4>4 DEF Orphans
    <3>2. Loses(f, Left(g), plan, p)
      BY <2>2, <2>4, <3>1 DEF Loses
    <3>3. p \in P[g]
      BY <1>1, <2>1, <2>2, <3>2
    <3>. QED
      BY <2>3, <2>6, <3>3
  <2>. QED
    BY <2>5, <2>6
<1>4. After(step, start, FeatureCount) \in P[FeatureCount]
  BY <1>0, <1>2, <1>3, AfterLeads
<1>5. Left(FeatureCount) = {}
  BY <1>0 DEF Targets
<1>. DEFINE end == After(step, start, FeatureCount)
<1>. HIDE DEF end, Left
<1>6. end \in P[FeatureCount]
  BY <1>4 DEF end
<1>7. Loses(f, {}, plan, end) /\ f \notin end.on
  <2>1. FeatureCount \in 0 .. FeatureCount
    BY <1>0
  <2>2. Loses(f, Left(FeatureCount), plan, end) /\ f \notin end.on
    BY <1>1, <1>6, <2>1
  <2>. QED
    BY <1>5, <2>2
<1>8. Disables(f, plan, end)
  BY <1>7 DEF Disables
<1>. QED
  BY <1>8 DEF end

(* One call does it if the calls from inside do. *)
LEMMA ClosureDisables ==
  ASSUME FeaturesTypeOK, NEW h, DisablesAll(h), NEW f \in Features, NEW plan \in OrderedPlans
  PROVE  Disables(f, plan, DisableClosure(h, f, plan))
<1>. DEFINE users == [g \in Features |-> [p \in Plans |->
                        IF p.ok /\ g \in p.on \ {f} /\ Uses(g, f) THEN h[g][p] ELSE p]]
            entailed == [g \in Features |-> [p \in Plans |->
                           IF p.ok /\ g \in Targets("Entails", f) /\ Unowned(p.on, f, g)
                           THEN h[g][p] ELSE p]]
            alone == After(users, plan, FeatureCount)
            end == After(entailed, TurnOff(alone, f), FeatureCount)
<1>1. DisableClosure(h, f, plan) =
        IF f \notin plan.on THEN plan ELSE IF alone.ok THEN end ELSE alone
  BY DEF DisableClosure
<1>2. Ordered(plan)
  BY DEF OrderedPlans
<1>3. Loses(f, {}, plan, alone)
  BY UsersGo
<1>4. ASSUME alone.ok PROVE Disables(f, plan, end)
  <2>. DEFINE off == TurnOff(alone, f)
  <2>. HIDE DEF alone
  <2>1. Ordered(alone) /\ alone \in Plans
    BY <1>3 DEF Loses, Ordered
  <2>2. Ordered(off) /\ off.ok = alone.ok /\ off.on = alone.on \ {f}
    BY <2>1, TurnOffIs
  <2>3. alone.on \in SUBSET Features
    BY <2>1, PlanFields
  <2>4. Orphans(off.on) \subseteq Orphans(alone.on) \cup Targets("Entails", f)
    BY <2>2, <2>3, OrphansOff
  <2>5. f \in Reached(HangsOn, {f})
    <3>1. HangsOn \in Edges
      BY Relations
    <3>. QED
      BY <3>1, ReachedGoesOn
  <2>. HIDE DEF off
  <2>6. Loses(f, Targets("Entails", f), plan, off) /\ f \notin off.on
    BY <1>3, <2>2, <2>4, <2>5 DEF Loses
  <2>7. Disables(f, plan, After(entailed, off, FeatureCount))
    BY <2>6, EntailedGo
  <2>. QED
    BY <2>7 DEF off
<1>. HIDE DEF alone, end
<1>5. CASE f \notin plan.on
  BY <1>1, <1>2, <1>5 DEF Disables, Loses
<1>6. CASE f \in plan.on
  BY <1>1, <1>3, <1>4, <1>6 DEF Disables
<1>. QED
  BY <1>5, <1>6

(* What the calls of either planning function do, as a function of how many *)
(* they may nest.                                                           *)
DisablesOf(h, calls) ==
  [f \in Features |-> [plan \in Plans |->
     IF calls = 0 THEN Fail(plan) ELSE DisableClosure(h[calls - 1], f, plan)]]

EnablesOf(h, calls) ==
  [f \in Features |-> [plan \in Plans |-> [chain \in SUBSET Features |->
     IF calls = 0 THEN Fail(plan)
     ELSE EnableClosure(h[calls - 1], PlanDisable[calls - 1], f, plan, chain)]]]

CallsOf(planning, h, calls) ==
  IF planning = "disable" THEN DisablesOf(h, calls) ELSE EnablesOf(h, calls)

CallsAre(planning, N, h) == h = [calls \in 0 .. N |-> CallsOf(planning, h, calls)]

(* It does not depend on calls that are not nested. *)
LEMMA CallsSame ==
  ASSUME NEW planning, NEW h, NEW k, NEW calls, calls # 0 => h[calls - 1] = k[calls - 1]
  PROVE  CallsOf(planning, h, calls) = CallsOf(planning, k, calls)
BY DEF CallsOf, DisablesOf, EnablesOf

(* Calls of any depth have a meaning. *)
LEMMA CallsExist ==
  ASSUME NEW planning, NEW N \in Nat
  PROVE  \E h : CallsAre(planning, N, h)
<1>. SUFFICES ASSUME ~ \E h : CallsAre(planning, N, h) PROVE FALSE
  OBVIOUS
<1>. DEFINE Bad == {m \in Nat : ~ \E h : CallsAre(planning, m, h)}
<1>1. PICK m \in Bad : \A k \in Bad : m <= k
  <2>1. Bad \in SUBSET Nat /\ Bad # {}
    OBVIOUS
  <2>. HIDE DEF Bad
  <2>. QED
    BY <2>1, LeastOf
<1>2. m # 0
  <2>. DEFINE h == [calls \in 0 .. 0 |-> CallsOf(planning, << >>, calls)]
  <2>1. h[0] = CallsOf(planning, h, 0)
    <3>1. h[0] = CallsOf(planning, << >>, 0)
      OBVIOUS
    <3>. HIDE DEF h
    <3>. QED
      BY <3>1, CallsSame
  <2>2. h = [calls \in 0 .. 0 |-> h[calls]]
    OBVIOUS
  <2>. HIDE DEF h
  <2>3. CallsAre(planning, 0, h)
    BY <2>1, <2>2 DEF CallsAre
  <2>. QED
    BY <1>1, <2>3
<1>3. m \in Nat /\ m - 1 \in Nat /\ m - 1 \notin Bad
  BY <1>1, <1>2
<1>4. PICK k : CallsAre(planning, m - 1, k)
  BY <1>3
<1>. DEFINE h == [calls \in 0 .. m |-> CallsOf(planning, k, calls)]
<1>5. ASSUME NEW calls \in 0 .. m PROVE h[calls] = CallsOf(planning, h, calls)
  <2>1. calls # 0 => h[calls - 1] = k[calls - 1]
    <3>1. SUFFICES ASSUME calls # 0 PROVE h[calls - 1] = k[calls - 1]
      OBVIOUS
    <3>2. calls - 1 \in 0 .. m /\ calls - 1 \in 0 .. m - 1
      BY <1>3, <3>1
    <3>3. h[calls - 1] = CallsOf(planning, k, calls - 1)
      BY <3>2
    <3>. QED
      BY <1>4, <3>2, <3>3 DEF CallsAre
  <2>2. h[calls] = CallsOf(planning, k, calls)
    OBVIOUS
  <2>. HIDE DEF h
  <2>. QED
    BY <2>1, <2>2, CallsSame
<1>6. CallsAre(planning, m, h)
  <2>1. h = [calls \in 0 .. m |-> h[calls]]
    OBVIOUS
  <2>. HIDE DEF h
  <2>. QED
    BY <1>5, <2>1 DEF CallsAre
<1>. QED
  BY <1>1, <1>6

(* The two planning functions are such calls. *)
LEMMA PlanningIs ==
  /\ kMaxValidationDepth + 1 \in Nat /\ kMaxValidationDepth + 1 \in Calls
  /\ \A calls \in Calls : PlanDisable[calls] = DisablesOf(PlanDisable, calls)
  /\ \A calls \in Calls : PlanEnable[calls] = EnablesOf(PlanEnable, calls)
<1>1. kMaxValidationDepth + 1 \in Nat /\ kMaxValidationDepth + 1 \in Calls
  BY FeaturesAssumption DEF Calls
<1>2. /\ \E h : CallsAre("disable", kMaxValidationDepth + 1, h)
      /\ \E h : CallsAre("enable", kMaxValidationDepth + 1, h)
  BY <1>1, CallsExist
<1>3. PICK h : h = [calls \in Calls |-> DisablesOf(h, calls)]
  BY <1>2 DEF CallsAre, CallsOf, Calls
<1>4. PlanDisable = [calls \in Calls |-> DisablesOf(PlanDisable, calls)]
  BY <1>3 DEF PlanDisable, DisablesOf
<1>5. PICK e : e = [calls \in Calls |-> EnablesOf(e, calls)]
  BY <1>2 DEF CallsAre, CallsOf, Calls
<1>6. PlanEnable = [calls \in Calls |-> EnablesOf(PlanEnable, calls)]
  BY <1>5 DEF PlanEnable, EnablesOf
<1>. QED
  BY <1>1, <1>4, <1>6

(* However many calls it may nest, it disables. *)
LEMMA AllCallsDisable ==
  ASSUME FeaturesTypeOK
  PROVE  \A calls \in Calls : DisablesAll(PlanDisable[calls])
<1>. DEFINE Bad == {calls \in Calls : ~DisablesAll(PlanDisable[calls])}
<1>1. ASSUME Bad # {} PROVE FALSE
  <2>1. PICK n \in Bad : \A k \in Bad : n <= k
    <3>1. Bad \in SUBSET Nat
      BY DEF Calls
    <3>. HIDE DEF Bad
    <3>. QED
      BY <1>1, <3>1, LeastOf
  <2>2. PlanDisable[n] = DisablesOf(PlanDisable, n)
    BY PlanningIs
  <2>3. ASSUME NEW f \in Features, NEW plan \in OrderedPlans
        PROVE  Disables(f, plan, PlanDisable[n][f][plan])
    <3>1. plan \in Plans /\ Ordered(plan)
      BY DEF OrderedPlans
    <3>2. PlanDisable[n][f][plan] =
            IF n = 0 THEN Fail(plan) ELSE DisableClosure(PlanDisable[n - 1], f, plan)
      BY <2>2, <3>1 DEF DisablesOf
    <3>3. CASE n = 0
      <4>1. ~Fail(plan).ok /\ Fail(plan).on = plan.on /\ Ordered(Fail(plan))
        BY <3>1, FailIs
      <4>. QED
        BY <3>2, <3>3, <4>1 DEF Disables, Loses
    <3>4. CASE n # 0
      <4>1. n - 1 \in Calls /\ n - 1 \notin Bad
        BY <2>1, <3>4, PlanningIs DEF Calls
      <4>2. DisablesAll(PlanDisable[n - 1])
        BY <4>1
      <4>3. Disables(f, plan, DisableClosure(PlanDisable[n - 1], f, plan))
        BY <4>2, ClosureDisables
      <4>. QED
        BY <3>2, <3>4, <4>3
    <3>. QED
      BY <3>3, <3>4
  <2>. QED
    BY <2>1, <2>3 DEF DisablesAll
<1>. QED
  BY <1>1

-----------------------------------------------------------------------------
(* planEnableRecursive(). *)

(* What the features of N preempt. *)
Preempted(N) == {g \in Features : Sources("Preempts", g) \cap N # {}}

(* What is made of plan on the way to turn all of N on: only they are turned *)
(* on, only what they preempt goes and what hangs on it, and there are no    *)
(* new orphans but in N.                                                     *)
Gains(N, plan, p) ==
  /\ Ordered(p)
  /\ p.on \ plan.on \subseteq N
  /\ plan.on \ p.on \subseteq Reached(HangsOn, Preempted(N))
  /\ p.ok => plan.ok /\ Orphans(p.on) \subseteq Orphans(plan.on) \cup N

(* In the end f is on. *)
Enables(f, plan, p) == Gains(Reached(Needs, {f}), plan, p) /\ (p.ok => f \in p.on)

(* A function that plans to enable does that. *)
EnablesAll(h) ==
  \A f \in Features : \A plan \in OrderedPlans : \A chain \in SUBSET Features :
    Enables(f, plan, h[f][plan][chain])

(* To gain more on the way is to gain all. *)
LEMMA GainsMore ==
  ASSUME FeaturesTypeOK, NEW N \in SUBSET Features, NEW M \in SUBSET N,
         NEW plan, NEW p, Gains(N, plan, p), NEW q, Gains(M, p, q)
  PROVE  Gains(N, plan, q)
<1>1. Reached(HangsOn, Preempted(M)) \subseteq Reached(HangsOn, Preempted(N))
  <2>1. HangsOn \in Edges
    BY Relations
  <2>2. Preempted(N) \in SUBSET Features /\ Preempted(M) \subseteq Preempted(N)
    BY DEF Preempted
  <2>. QED
    BY <2>1, <2>2, ReachedGrows
<1>. QED
  BY <1>1 DEF Gains

(* To lose what N preempts is part of it. *)
LEMMA GainsLosing ==
  ASSUME FeaturesTypeOK, NEW N \in SUBSET Features, NEW g \in Preempted(N),
         NEW plan, NEW p, Gains(N, plan, p), NEW q, Disables(g, p, q)
  PROVE  Gains(N, plan, q)
<1>1. Reached(HangsOn, {g}) \subseteq Reached(HangsOn, Preempted(N))
  <2>1. HangsOn \in Edges
    BY Relations
  <2>2. Preempted(N) \in SUBSET Features /\ {g} \subseteq Preempted(N)
    BY DEF Preempted
  <2>. QED
    BY <2>1, <2>2, ReachedGrows
<1>. QED
  BY <1>1 DEF Gains, Disables, Loses

(* What a feature needs is part of what it needs in all. *)
LEMMA NeedsMore ==
  ASSUME FeaturesTypeOK, NEW f \in Features
  PROVE  /\ Reached(Needs, {f}) \in SUBSET Features /\ f \in Reached(Needs, {f})
         /\ \A type \in Dependencies : \A g \in Targets(type, f) :
              g \in Features /\ Reached(Needs, {g}) \subseteq Reached(Needs, {f})
<1>1. Needs \in Edges
  BY Relations
<1>2. Reached(Needs, {f}) \in SUBSET Features /\ f \in Reached(Needs, {f})
  BY <1>1, ReachedGoesOn
<1>3. ASSUME NEW type \in Dependencies, NEW g \in Targets(type, f)
      PROVE  g \in Features /\ Reached(Needs, {g}) \subseteq Reached(Needs, {f})
  <2>1. g \in Features
    BY DEF Targets
  <2>2. <<f, g>> \in Needs
    BY <2>1, Relations
  <2>3. {g} \subseteq Reached(Needs, {f})
    BY <1>1, <1>2, <2>1, <2>2, ReachedGoesOn
  <2>. QED
    BY <1>1, <2>1, <2>3, ReachedFromThere
<1>. QED
  BY <1>2, <1>3

(* The loop over what f needs. *)
NeededSteps(step, h, f, type, chain) ==
  \A g \in Features : \A p \in Plans :
    step[g][p] = IF p.ok /\ g \in Targets(type, f) THEN h[g][p][chain] ELSE p

(* The loop turns on nothing but what f needs. *)
LEMMA NeededOn ==
  ASSUME FeaturesTypeOK, NEW h, EnablesAll(h), NEW f \in Features, NEW type \in Dependencies,
         NEW chain \in SUBSET Features, NEW plan, NEW start, Gains(Reached(Needs, {f}), plan, start),
         NEW step,
         NeededSteps(step, h, f, type, chain)
  PROVE  Gains(Reached(Needs, {f}), plan, After(step, start, FeatureCount))
<1>. DEFINE N == Reached(Needs, {f})
            S == {p \in OrderedPlans : Gains(N, plan, p)}
<1>1. start \in S
  BY DEF Gains, OrderedPlans, Ordered
<1>2. ASSUME NEW g \in 1 .. FeatureCount, NEW p \in S PROVE step[g][p] \in S
  <2>1. g \in Features /\ p \in Plans /\ p \in OrderedPlans /\ Gains(N, plan, p)
    BY DEF Features, OrderedPlans
  <2>2. step[g][p] = IF p.ok /\ g \in Targets(type, f) THEN h[g][p][chain] ELSE p
    BY <2>1 DEF NeededSteps
  <2>3. CASE p.ok /\ g \in Targets(type, f)
    <3>1. Enables(g, p, h[g][p][chain])
      BY <2>1 DEF EnablesAll
    <3>2. N \in SUBSET Features /\ Reached(Needs, {g}) \in SUBSET N
      BY <2>3, NeedsMore
    <3>3. Gains(Reached(Needs, {g}), p, h[g][p][chain])
      BY <3>1 DEF Enables
    <3>4. Gains(N, plan, h[g][p][chain])
      <4>. HIDE DEF N
      <4>. QED
        BY <2>1, <3>2, <3>3, GainsMore
    <3>5. h[g][p][chain] \in OrderedPlans
      BY <3>4 DEF Gains, OrderedPlans, Ordered
    <3>. QED
      BY <2>2, <2>3, <3>4, <3>5
  <2>. QED
    BY <2>2, <2>3
<1>. HIDE DEF S
<1>3. FeatureCount \in Nat
  BY FeaturesAssumption
<1>4. After(step, start, FeatureCount) \in S
  BY <1>1, <1>2, <1>3, AfterStays
<1>. QED
  BY <1>4 DEF S

(* The loop over what f preempts. *)
LEMMA PreemptedOff ==
  ASSUME FeaturesTypeOK, NEW h, DisablesAll(h), NEW f \in Features,
         NEW plan, NEW start, Gains(Reached(Needs, {f}), plan, start), NEW step,
         step = [g \in Features |-> [p \in Plans |->
                   IF p.ok /\ g \in Targets("Preempts", f) THEN h[g][p] ELSE p]]
  PROVE  Gains(Reached(Needs, {f}), plan, After(step, start, FeatureCount))
<1>. DEFINE N == Reached(Needs, {f})
            S == {p \in OrderedPlans : Gains(N, plan, p)}
<1>1. start \in S
  BY DEF Gains, OrderedPlans, Ordered
<1>2. ASSUME NEW g \in 1 .. FeatureCount, NEW p \in S PROVE step[g][p] \in S
  <2>1. g \in Features /\ p \in Plans /\ p \in OrderedPlans /\ Gains(N, plan, p)
    BY DEF Features, OrderedPlans
  <2>2. step[g][p] = IF p.ok /\ g \in Targets("Preempts", f) THEN h[g][p] ELSE p
    BY <2>1
  <2>3. CASE p.ok /\ g \in Targets("Preempts", f)
    <3>1. Disables(g, p, h[g][p])
      BY <2>1 DEF DisablesAll
    <3>2. N \in SUBSET Features /\ f \in N
      BY NeedsMore
    <3>3. g \in Preempted(N)
      BY <2>1, <2>3, <3>2 DEF Preempted, Targets, Sources
    <3>4. Gains(N, plan, h[g][p])
      BY <2>1, <3>1, <3>2, <3>3, GainsLosing
    <3>5. h[g][p] \in OrderedPlans
      BY <3>4 DEF Gains, OrderedPlans, Ordered
    <3>. QED
      BY <2>2, <2>3, <3>4, <3>5
  <2>. QED
    BY <2>2, <2>3
<1>. HIDE DEF S
<1>3. FeatureCount \in Nat
  BY FeaturesAssumption
<1>4. After(step, start, FeatureCount) \in S
  BY <1>1, <1>2, <1>3, AfterStays
<1>. QED
  BY <1>4 DEF S

(* One call does it if the calls from inside do. *)
LEMMA ClosureEnables ==
  ASSUME FeaturesTypeOK, NEW h, EnablesAll(h), NEW d, DisablesAll(d), NEW f \in Features,
         NEW plan \in OrderedPlans, NEW chain \in SUBSET Features
  PROVE  Enables(f, plan, EnableClosure(h, d, f, plan, chain))
<1>. DEFINE needed(type) == [g \in Features |-> [p \in Plans |->
                               IF p.ok /\ g \in Targets(type, f)
                               THEN h[g][p][chain \cup {f}] ELSE p]]
            preempted == [g \in Features |-> [p \in Plans |->
                            IF p.ok /\ g \in Targets("Preempts", f) THEN d[g][p] ELSE p]]
            required == After(needed("Requires"), plan, FeatureCount)
            implied == After(needed("Implies"), required, FeatureCount)
            complete == After(needed("Entails"), implied, FeatureCount)
            ready == After(preempted, complete, FeatureCount)
            N == Reached(Needs, {f})
<1>1. EnableClosure(h, d, f, plan, chain) =
        IF f \in plan.on THEN plan
        ELSE IF Sources("Preempts", f) \cap plan.on # {} \/ f \in chain THEN Fail(plan)
        ELSE IF ready.ok /\ Targets("Conflicts", f) \cap ready.on = {} THEN TurnOn(ready, f)
        ELSE Fail(ready)
  BY DEF EnableClosure
<1>2. Ordered(plan) /\ plan \in Plans
  BY DEF OrderedPlans
<1>3. N \in SUBSET Features /\ f \in N
  BY NeedsMore
<1>4. Gains(N, plan, plan)
  BY <1>2 DEF Gains
<1>5. "Requires" \in Dependencies /\ "Implies" \in Dependencies /\ "Entails" \in Dependencies
  BY DEF Dependencies
<1>. DEFINE more == chain \cup {f}
<1>6. /\ more \in SUBSET Features
      /\ NeededSteps(needed("Requires"), h, f, "Requires", more)
      /\ NeededSteps(needed("Implies"), h, f, "Implies", more)
      /\ NeededSteps(needed("Entails"), h, f, "Entails", more)
  BY DEF NeededSteps
<1>. HIDE DEF needed, more
<1>7. Gains(N, plan, required)
  BY <1>4, <1>5, <1>6, NeededOn
<1>. HIDE DEF required
<1>8. Gains(N, plan, implied)
  BY <1>5, <1>6, <1>7, NeededOn
<1>. HIDE DEF implied
<1>9. Gains(N, plan, complete)
  BY <1>5, <1>6, <1>8, NeededOn
<1>. HIDE DEF complete
<1>10. Gains(N, plan, ready)
  BY <1>9, PreemptedOff
<1>. HIDE DEF ready, N
<1>11. Ordered(ready) /\ ready \in Plans
  BY <1>10 DEF Gains, Ordered
<1>12. Enables(f, plan, TurnOn(ready, f))
  <2>. DEFINE on == TurnOn(ready, f)
  <2>1. Ordered(on) /\ on.ok = ready.ok /\ on.on = ready.on \cup {f}
    BY <1>11, TurnOnIs
  <2>2. ready.on \in SUBSET Features
    BY <1>11, PlanFields
  <2>3. Orphans(on.on) \subseteq Orphans(ready.on) \cup {f}
    BY <2>1, <2>2, OrphansOff
  <2>. HIDE DEF on
  <2>4. Gains(N, plan, on) /\ f \in on.on
    BY <1>3, <1>10, <2>1, <2>3 DEF Gains
  <2>. QED
    BY <2>4 DEF on, Enables, N
<1>13. ASSUME NEW p, p \in {plan, ready} PROVE Enables(f, plan, Fail(p))
  <2>1. p \in Plans /\ Ordered(p) /\ Gains(N, plan, p)
    BY <1>2, <1>4, <1>10, <1>11, <1>13
  <2>2. Ordered(Fail(p)) /\ ~Fail(p).ok /\ Fail(p).on = p.on
    BY <2>1, FailIs
  <2>3. Gains(N, plan, Fail(p))
    BY <2>1, <2>2 DEF Gains
  <2>. QED
    BY <2>2, <2>3 DEF Enables, N
<1>14. CASE f \in plan.on
  <2>1. EnableClosure(h, d, f, plan, chain) = plan
    BY <1>1, <1>14
  <2>. QED
    BY <1>4, <1>14, <2>1 DEF Enables, N
<1>15. CASE f \notin plan.on
  <2>1. EnableClosure(h, d, f, plan, chain) \in {Fail(plan), Fail(ready), TurnOn(ready, f)}
    BY <1>1, <1>15
  <2>. QED
    BY <1>12, <1>13, <2>1
<1>. QED
  BY <1>14, <1>15

(* However many calls it may nest, it enables. *)
LEMMA AllCallsEnable ==
  ASSUME FeaturesTypeOK
  PROVE  \A calls \in Calls : EnablesAll(PlanEnable[calls])
<1>. DEFINE Bad == {calls \in Calls : ~EnablesAll(PlanEnable[calls])}
<1>1. ASSUME Bad # {} PROVE FALSE
  <2>1. PICK n \in Bad : \A k \in Bad : n <= k
    <3>1. Bad \in SUBSET Nat
      BY DEF Calls
    <3>. HIDE DEF Bad
    <3>. QED
      BY <1>1, <3>1, LeastOf
  <2>2. PlanEnable[n] = EnablesOf(PlanEnable, n)
    BY PlanningIs
  <2>3. ASSUME NEW f \in Features, NEW plan \in OrderedPlans, NEW chain \in SUBSET Features
        PROVE  Enables(f, plan, PlanEnable[n][f][plan][chain])
    <3>1. plan \in Plans /\ Ordered(plan)
      BY DEF OrderedPlans
    <3>2. PlanEnable[n][f][plan][chain] =
            IF n = 0 THEN Fail(plan)
            ELSE EnableClosure(PlanEnable[n - 1], PlanDisable[n - 1], f, plan, chain)
      BY <2>2, <3>1 DEF EnablesOf
    <3>3. CASE n = 0
      <4>1. ~Fail(plan).ok /\ Fail(plan).on = plan.on /\ Ordered(Fail(plan))
        BY <3>1, FailIs
      <4>. QED
        BY <3>2, <3>3, <4>1 DEF Enables, Gains
    <3>4. CASE n # 0
      <4>1. n - 1 \in Calls /\ n - 1 \notin Bad
        BY <2>1, <3>4, PlanningIs DEF Calls
      <4>2. EnablesAll(PlanEnable[n - 1]) /\ DisablesAll(PlanDisable[n - 1])
        BY <4>1, AllCallsDisable
      <4>3. Enables(f, plan, EnableClosure(PlanEnable[n - 1], PlanDisable[n - 1], f, plan, chain))
        BY <4>2, ClosureEnables
      <4>. QED
        BY <3>2, <3>4, <4>3
    <3>. QED
      BY <3>3, <3>4
  <2>. QED
    BY <2>1, <2>3 DEF EnablesAll
<1>. QED
  BY <1>1

-----------------------------------------------------------------------------
(* The four transactions. *)

(* A plan that is carried out satisfies every relationship; that is all that *)
(* validating and looking for the roots do to it.                            *)
LEMMA ValidatedIs ==
  ASSUME NEW p, Ordered(p)
  PROVE  /\ Ordered(Validated(p))
         /\ Validated(p).ok => Validated(p) = p /\ p.ok /\ Consistent(p.on)
<1>1. p \in Plans
  BY DEF Ordered
<1>2. Ordered(Fail(p)) /\ ~Fail(p).ok
  BY <1>1, FailIs
<1>. QED
  BY <1>2 DEF Validated

(* A plan that passes the check of its roots has them on. *)
LEMMA WithRootsIs ==
  ASSUME NEW p, Ordered(p), NEW names
  PROVE  /\ Ordered(WithRoots(names, p))
         /\ WithRoots(names, p).ok => WithRoots(names, p) = p /\ p.ok /\ ToSet(names) \subseteq p.on
<1>1. p \in Plans
  BY DEF Ordered
<1>2. Ordered(Fail(p)) /\ ~Fail(p).ok
  BY <1>1, FailIs
<1>. QED
  BY <1>2 DEF WithRoots

(* A consistent set has all that its members need. *)
LEMMA ConsistentNeeds ==
  ASSUME FeaturesTypeOK, NEW on \in SUBSET Features, Consistent(on), NEW S \in SUBSET on
  PROVE  Reached(Needs, S) \subseteq on
<1>1. Needs \in Edges
  BY Relations
<1>2. ASSUME NEW f \in Features, NEW g \in Features, f \in on, <<f, g>> \in Needs PROVE g \in on
  <2>1. PICK type \in Dependencies : <<f, g>> \in rel[type]
    BY <1>2 DEF Needs
  <2>2. g \in Targets(type, f)
    BY <2>1 DEF Targets
  <2>. QED
    BY <1>2, <2>2 DEF Consistent
<1>. QED
  BY <1>1, <1>2, ReachedIsLeast

(* Nobody is an orphan at the start. *)
LEMMA StartHasNone ==
  Orphans(enabled) = {}
BY DEF Orphans

(* To enable a feature in a plan is to gain what it needs. *)
LEMMA EnabledGains ==
  ASSUME FeaturesTypeOK, NEW N \in SUBSET Features, NEW f \in Features,
         Reached(Needs, {f}) \subseteq N, NEW plan, NEW p, Gains(N, plan, p)
  PROVE  Gains(N, plan, Enabled(f, p)) /\ (Enabled(f, p).ok => f \in Enabled(f, p).on)
<1>. DEFINE q == PlanEnable[kMaxValidationDepth + 1][f][p][{}]
<1>1. p \in OrderedPlans
  BY DEF Gains, OrderedPlans, Ordered
<1>2. Enables(f, p, q)
  <2>1. EnablesAll(PlanEnable[kMaxValidationDepth + 1])
    BY PlanningIs, AllCallsEnable
  <2>2. {} \in SUBSET Features
    OBVIOUS
  <2>. QED
    BY <1>1, <2>1, <2>2 DEF EnablesAll
<1>3. Enabled(f, p) = IF p.ok THEN q ELSE p
  BY DEF Enabled
<1>. HIDE DEF q
<1>4. Gains(Reached(Needs, {f}), p, q) /\ (q.ok => f \in q.on)
  BY <1>2 DEF Enables
<1>5. Gains(N, plan, q)
  BY <1>4, GainsMore
<1>. QED
  BY <1>3, <1>4, <1>5

(* What a plan did has a cause, if it is consistent, starts from one that   *)
(* only turned things off, and gained what the asked ones need.             *)
LEMMA GainsExplained ==
  ASSUME FeaturesTypeOK, NEW asked \in SUBSET Features, NEW dropped \in SUBSET Features,
         NEW base, base.on \subseteq enabled, Orphans(base.on) = {},
         enabled \ base.on \subseteq Reached(HangsOn, dropped),
         NEW p, Gains(Reached(Needs, asked), base, p), p.ok,
         asked \subseteq p.on, Consistent(p.on)
  PROVE  Explained(p, asked, dropped)
<1>. DEFINE N == Reached(Needs, asked)
            off == enabled \ p.on
            preempted == {f \in Features : Sources("Preempts", f) \cap p.on # {}}
<1>1. Ordered(p) /\ p \in Plans /\ p.on \in SUBSET Features
  BY PlanFields DEF Gains, Ordered
<1>2. N \subseteq p.on
  BY <1>1, ConsistentNeeds
<1>3. p.on \ enabled \subseteq N
  BY DEF Gains
<1>4. off \subseteq Reached(HangsOn, dropped \cup preempted)
  <2>1. HangsOn \in Edges
    BY Relations
  <2>2. Preempted(N) \subseteq preempted
    BY <1>2 DEF Preempted
  <2>3. dropped \cup preempted \in SUBSET Features
    OBVIOUS
  <2>4. /\ Reached(HangsOn, dropped) \subseteq Reached(HangsOn, dropped \cup preempted)
        /\ Reached(HangsOn, Preempted(N)) \subseteq Reached(HangsOn, dropped \cup preempted)
    <3>. DEFINE T == dropped \cup preempted
    <3>1. T \in SUBSET Features /\ dropped \subseteq T /\ Preempted(N) \subseteq T
      BY <2>2, <2>3
    <3>. HIDE DEF T, N
    <3>2. Reached(HangsOn, dropped) \subseteq Reached(HangsOn, T)
      BY <2>1, <3>1, ReachedGrows
    <3>3. Reached(HangsOn, Preempted(N)) \subseteq Reached(HangsOn, T)
      BY <2>1, <3>1, ReachedGrows
    <3>. QED
      BY <3>2, <3>3 DEF T
  <2>5. base.on \ p.on \subseteq Reached(HangsOn, Preempted(N))
    BY DEF Gains
  <2>. HIDE DEF preempted, N
  <2>. QED
    BY <2>4, <2>5
<1>5. ASSUME NEW f \in p.on, Sources("Entails", f) \cap off # {}
      PROVE  Sources("Entails", f) \cap p.on # {} \/ f \in N
  <2>1. Sources("Entails", f) \cap p.on = {} => f \in Orphans(p.on)
    BY <1>5 DEF Orphans
  <2>2. Orphans(p.on) \subseteq N
    BY DEF Gains
  <2>. QED
    BY <2>1, <2>2
<1>. QED
  BY <1>3, <1>4, <1>5 DEF Explained

(* What every transaction that asks and drops makes of the state. *)
Sound(p, asked, dropped) ==
  /\ Ordered(p)
  /\ p.ok => Consistent(p.on) /\ Explained(p, asked, dropped)

(* Batches are lists of features. *)
LEMMA BatchesAre ==
  ASSUME NEW names \in Batches
  PROVE  names \in Seq(Features) /\ Len(names) \in Nat /\ ToSet(names) \in SUBSET Features
         /\ \A i \in 1 .. Len(names) : names[i] \in Features /\ names[i] \in ToSet(names)
<1>1. names \in Seq(Features)
  <2>1. ASSUME NEW f \in Features, names = <<f>> PROVE names \in Seq(Features)
    BY <2>1
  <2>2. ASSUME names \in Features \X Features PROVE names \in Seq(Features)
    <3>1. PICK f \in Features, g \in Features : names = <<f, g>>
      BY <2>2
    <3>. QED
      BY <3>1
  <2>. QED
    BY <2>1, <2>2 DEF Batches
<1>2. Len(names) \in Nat /\ DOMAIN names = 1 .. Len(names)
  BY <1>1
<1>3. \A i \in 1 .. Len(names) : names[i] \in Features
  BY <1>1
<1>. QED
  BY <1>1, <1>2, <1>3 DEF ToSet

(* batchEnable(). *)
LEMMA BatchEnableIs ==
  ASSUME FeaturesTypeOK, NEW names \in Batches
  PROVE  Sound(BatchEnable(names), ToSet(names), {})
<1>. DEFINE roots == [i \in 1 .. Len(names) |-> [p \in Plans |-> Enabled(names[i], p)]]
            start == NewPlan(enabled)
            asked == ToSet(names)
            N == Reached(Needs, asked)
            S == {p \in OrderedPlans : Gains(N, start, p)}
            end == After(roots, start, Len(names))
<1>1. enabled \subseteq Features
  BY DEF FeaturesTypeOK
<1>2. Ordered(start) /\ start.ok /\ start.on = enabled
  BY <1>1, NewPlanIs
<1>3. /\ Len(names) \in Nat /\ asked \in SUBSET Features
      /\ \A i \in 1 .. Len(names) : names[i] \in Features /\ names[i] \in asked
  BY BatchesAre
<1>4. start \in S
  BY <1>2 DEF Gains, OrderedPlans, Ordered
<1>. HIDE DEF start, asked
<1>5. ASSUME NEW i \in 1 .. Len(names), NEW p \in S PROVE roots[i][p] \in S
  <2>1. p \in Plans /\ Gains(N, start, p)
    BY DEF OrderedPlans
  <2>2. roots[i][p] = Enabled(names[i], p)
    BY <2>1
  <2>3. Needs \in Edges
    BY Relations
  <2>4. N \in SUBSET Features /\ Reached(Needs, {names[i]}) \subseteq N
    BY <1>3, <2>3, ReachedGoesOn, ReachedGrows
  <2>5. Gains(N, start, Enabled(names[i], p))
    BY <1>3, <2>1, <2>4, EnabledGains
  <2>. QED
    BY <2>2, <2>5 DEF Gains, OrderedPlans, Ordered
<1>. HIDE DEF S
<1>6. end \in S
  BY <1>3, <1>4, <1>5, AfterStays
<1>7. Gains(N, start, end) /\ Ordered(end)
  BY <1>6 DEF S, Gains
<1>8. BatchEnable(names) = Validated(WithRoots(names, end))
  BY DEF BatchEnable, start
<1>. HIDE DEF end
<1>. DEFINE p == BatchEnable(names)
<1>9. Ordered(WithRoots(names, end)) /\ Ordered(p)
  BY <1>7, <1>8, WithRootsIs, ValidatedIs
<1>10. p.ok => p = end /\ Consistent(p.on) /\ asked \subseteq p.on
  BY <1>7, <1>8, <1>9, WithRootsIs, ValidatedIs DEF asked
<1>. HIDE DEF p
<1>11. ASSUME p.ok PROVE Explained(p, asked, {})
  <2>1. enabled \ start.on \subseteq Reached(HangsOn, {}) /\ Orphans(start.on) = {}
    BY <1>2, StartHasNone
  <2>2. Gains(Reached(Needs, asked), start, p)
    BY <1>7, <1>10, <1>11
  <2>3. {} \in SUBSET Features /\ start.on \subseteq enabled
    BY <1>2
  <2>. QED
    BY <1>3, <1>10, <1>11, <2>1, <2>2, <2>3, GainsExplained
<1>. QED
  BY <1>9, <1>10, <1>11 DEF Sound, p, asked

(* replace(). *)
LEMMA ReplaceIs ==
  ASSUME FeaturesTypeOK, NEW from \in Features, NEW to \in Features
  PROVE  Sound(Replace(from, to), {to}, {from})
<1>. DEFINE plan == NewPlan(enabled)
            without == PlanDisable[kMaxValidationDepth + 1][from][plan]
            end == Enabled(to, without)
            p == Replace(from, to)
            N == Reached(Needs, {to})
<1>1. enabled \subseteq Features
  BY DEF FeaturesTypeOK
<1>2. Ordered(plan) /\ plan.ok /\ plan.on = enabled /\ plan \in OrderedPlans
  BY <1>1, NewPlanIs DEF OrderedPlans, Ordered
<1>3. p = IF from = to \/ from \notin enabled THEN Fail(plan)
          ELSE Validated(WithRoots(<<to>>, end))
  BY DEF Replace
<1>. HIDE DEF plan
<1>4. Disables(from, plan, without)
  <2>1. DisablesAll(PlanDisable[kMaxValidationDepth + 1])
    BY PlanningIs, AllCallsDisable
  <2>. QED
    BY <1>2, <2>1 DEF DisablesAll
<1>. HIDE DEF without
<1>5. /\ Ordered(without) /\ without.on \subseteq enabled
      /\ enabled \ without.on \subseteq Reached(HangsOn, {from})
      /\ without.ok => Orphans(without.on) = {}
  BY <1>2, <1>4, StartHasNone DEF Disables, Loses
<1>6. Gains(N, without, end)
  <2>1. N \in SUBSET Features
    BY NeedsMore
  <2>2. Gains(N, without, without)
    BY <1>5 DEF Gains
  <2>. QED
    BY <2>1, <2>2, EnabledGains
<1>7. Ordered(end) /\ (end.ok => without.ok)
  BY <1>6 DEF Gains
<1>8. Ordered(WithRoots(<<to>>, end)) /\ Ordered(Validated(WithRoots(<<to>>, end)))
  BY <1>7, WithRootsIs, ValidatedIs
<1>9. Ordered(Fail(plan)) /\ ~Fail(plan).ok
  BY <1>2, FailIs DEF Ordered
<1>10. ToSet(<<to>>) = {to}
  BY DEF ToSet
<1>. HIDE DEF end, p
<1>11. ASSUME p.ok PROVE p = end /\ end.ok /\ Consistent(p.on) /\ {to} \subseteq p.on
  <2>1. p = Validated(WithRoots(<<to>>, end))
    BY <1>3, <1>9, <1>11
  <2>2. p = WithRoots(<<to>>, end) /\ p.ok /\ Consistent(p.on)
    BY <1>8, <1>11, <2>1, ValidatedIs
  <2>. QED
    BY <1>7, <1>10, <2>2, WithRootsIs
<1>12. ASSUME p.ok PROVE Explained(p, {to}, {from})
  <2>1. Gains(Reached(Needs, {to}), without, p)
    BY <1>6, <1>11, <1>12
  <2>2. Orphans(without.on) = {}
    BY <1>5, <1>7, <1>11, <1>12
  <2>3. {to} \in SUBSET Features /\ {from} \in SUBSET Features
    OBVIOUS
  <2>. QED
    BY <1>5, <1>11, <1>12, <2>1, <2>2, <2>3, GainsExplained
<1>13. Ordered(p)
  BY <1>3, <1>8, <1>9
<1>. QED
  BY <1>11, <1>12, <1>13 DEF Sound, p

(* To drop what is on is to turn it off. *)
LEMMA DroppedIs ==
  ASSUME NEW p, Ordered(p), NEW f \in Features
  PROVE  /\ Ordered(Dropped(f, p)) /\ Dropped(f, p).ok = p.ok /\ Dropped(f, p).on = p.on \ {f}
         /\ ToSet(p.disableOrder) \subseteq ToSet(Dropped(f, p).disableOrder)
         /\ ToSet(Dropped(f, p).disableOrder) \subseteq ToSet(p.disableOrder) \cup {f}
<1>1. CASE f \in p.on
  BY <1>1, TurnOffIs DEF Dropped
<1>2. CASE f \notin p.on
  <2>1. Dropped(f, p) = p /\ p.on = p.on \ {f}
    BY <1>2 DEF Dropped
  <2>. QED
    BY <2>1
<1>. QED
  BY <1>1, <1>2

(* A plan in which what was turned off hangs on the dropped ones. *)
Drops(dropped, p) ==
  /\ Ordered(p) /\ p.on \subseteq enabled
  /\ ToSet(p.disableOrder) \subseteq Reached(HangsOn, dropped)

(* One step of the cascade turns off an abandoned feature. *)
LEMMA AbandonedGoes ==
  ASSUME FeaturesTypeOK, NEW dropped \in SUBSET Features, NEW p, Drops(dropped, p),
         Abandoned(p) # {}
  PROVE  /\ Drops(dropped, TurnOff(p, Min(Abandoned(p))))
         /\ TurnOff(p, Min(Abandoned(p))).ok = p.ok
         /\ TurnOff(p, Min(Abandoned(p))).on = p.on \ {Min(Abandoned(p))}
         /\ Min(Abandoned(p)) \in p.on
<1>. DEFINE t == Min(Abandoned(p))
<1>1. Ordered(p) /\ p \in Plans /\ p.on \in SUBSET Features /\ p.disableOrder \in Seq(Features)
  BY PlanFields DEF Drops, Ordered
<1>2. Features \subseteq Nat
  BY FeaturesAssumption DEF Features
<1>3. Abandoned(p) \in SUBSET Nat
  BY <1>1, <1>2 DEF Abandoned
<1>4. t \in Abandoned(p)
  BY <1>3, MinIsIn
<1>. HIDE DEF t
<1>5. PICK f \in ToSet(p.disableOrder) : t \in p.on /\ t \in Targets("Entails", f)
  BY <1>4 DEF Abandoned
<1>6. f \in Features /\ t \in Features
  <2>1. ToSet(p.disableOrder) \subseteq Features
    <3>1. \A i \in DOMAIN p.disableOrder : p.disableOrder[i] \in Features
      BY <1>1
    <3>. QED
      BY <3>1 DEF ToSet
  <2>. QED
    BY <1>1, <1>5, <2>1
<1>7. t \in Reached(HangsOn, dropped)
  <2>1. f \in Reached(HangsOn, dropped) /\ <<f, t>> \in HangsOn /\ HangsOn \in Edges
    BY <1>5, <1>6, Relations DEF Drops
  <2>. QED
    BY <1>6, <2>1, ReachedGoesOn
<1>8. /\ Ordered(TurnOff(p, t)) /\ TurnOff(p, t).ok = p.ok /\ TurnOff(p, t).on = p.on \ {t}
      /\ ToSet(TurnOff(p, t).disableOrder) = ToSet(p.disableOrder) \cup {t}
  BY <1>1, <1>6, TurnOffIs
<1>9. Drops(dropped, TurnOff(p, t))
  BY <1>7, <1>8 DEF Drops
<1>. QED
  BY <1>5, <1>8, <1>9 DEF t

(* The cascade ends when nothing is abandoned, and gets there: there are no *)
(* more features to turn off than it has steps.                             *)
LEMMA CascadeIs ==
  ASSUME FeaturesTypeOK, NEW dropped \in SUBSET Features, NEW p, Drops(dropped, p)
  PROVE  Drops(dropped, Cascade(p)) /\ Abandoned(Cascade(p)) = {}
<1>. DEFINE step == [n \in Features |-> [q \in Plans |->
                       IF Abandoned(q) = {} THEN q ELSE TurnOff(q, Min(Abandoned(q)))]]
            P == [k \in 0 .. FeatureCount |->
                    {q \in OrderedPlans : Drops(dropped, q) /\
                       (Abandoned(q) = {} \/ Cardinality(q.on) <= FeatureCount - k)}]
            end == After(step, p, FeatureCount)
<1>1. FeatureCount \in Nat /\ Features = 1 .. FeatureCount
  BY FeaturesAssumption DEF Features
<1>2. IsFiniteSet(Features) /\ Cardinality(Features) = FeatureCount
  BY <1>1, FS_Interval
<1>3. \A q \in OrderedPlans : q \in Plans /\ q.on \in SUBSET Features
  BY PlanFields DEF OrderedPlans
<1>4. ASSUME NEW q \in OrderedPlans
      PROVE  /\ IsFiniteSet(q.on) /\ Cardinality(q.on) \in Nat
             /\ Cardinality(q.on) <= FeatureCount
             /\ \A t \in q.on : Cardinality(q.on \ {t}) = Cardinality(q.on) - 1
             /\ Cardinality(q.on) = 0 => q.on = {}
  <2>1. q.on \in SUBSET Features
    BY <1>3
  <2>2. IsFiniteSet(q.on) /\ Cardinality(q.on) <= FeatureCount
    BY <1>2, <2>1, FS_Subset
  <2>. QED
    BY <2>2, FS_CardinalityType, FS_RemoveElement, FS_EmptySet
<1>5. \A k \in 0 .. FeatureCount :
        P[k] = {q \in OrderedPlans : Drops(dropped, q) /\
                  (Abandoned(q) = {} \/ Cardinality(q.on) <= FeatureCount - k)}
  OBVIOUS
<1>6. p \in OrderedPlans
  BY DEF Drops, Ordered, OrderedPlans
<1>. HIDE DEF P
<1>7. p \in P[0]
  <2>1. Cardinality(p.on) <= FeatureCount - 0 /\ 0 \in 0 .. FeatureCount
    BY <1>1, <1>4, <1>6
  <2>. QED
    BY <1>5, <1>6, <2>1
<1>8. ASSUME NEW k \in 1 .. FeatureCount, NEW q \in P[k - 1] PROVE step[k][q] \in P[k]
  <2>1. k \in Features /\ k - 1 \in 0 .. FeatureCount /\ k \in 0 .. FeatureCount
    BY <1>1
  <2>2. /\ q \in OrderedPlans /\ q \in Plans /\ Drops(dropped, q)
        /\ Abandoned(q) = {} \/ Cardinality(q.on) <= FeatureCount - (k - 1)
    BY <1>3, <1>5, <2>1
  <2>3. step[k][q] = IF Abandoned(q) = {} THEN q ELSE TurnOff(q, Min(Abandoned(q)))
    BY <2>1, <2>2
  <2>4. CASE Abandoned(q) = {}
    BY <1>5, <2>1, <2>2, <2>3, <2>4
  <2>5. CASE Abandoned(q) # {}
    <3>. DEFINE t == Min(Abandoned(q))
                r == TurnOff(q, t)
    <3>1. Drops(dropped, r) /\ r.on = q.on \ {t} /\ t \in q.on
      BY <2>2, <2>5, AbandonedGoes
    <3>2. r \in OrderedPlans
      BY <3>1 DEF Drops, Ordered, OrderedPlans
    <3>. HIDE DEF r, t
    <3>3. Cardinality(r.on) = Cardinality(q.on) - 1 /\ Cardinality(q.on) \in Nat
      BY <1>4, <2>2, <3>1
    <3>4. Cardinality(r.on) <= FeatureCount - k
      BY <1>1, <2>1, <2>2, <2>5, <3>3
    <3>5. r \in P[k]
      BY <1>5, <2>1, <3>1, <3>2, <3>4
    <3>. QED
      BY <2>3, <2>5, <3>5 DEF r, t
  <2>. QED
    BY <2>4, <2>5
<1>9. end \in P[FeatureCount]
  BY <1>1, <1>7, <1>8, AfterLeads
<1>10. Cascade(p) = end
  BY DEF Cascade
<1>. HIDE DEF end
<1>11. /\ end \in OrderedPlans /\ Drops(dropped, end)
       /\ Abandoned(end) = {} \/ Cardinality(end.on) <= FeatureCount - FeatureCount
  <2>1. FeatureCount \in 0 .. FeatureCount
    BY <1>1
  <2>. QED
    BY <1>5, <1>9, <2>1
<1>12. Abandoned(end) = {}
  <2>1. SUFFICES ASSUME Cardinality(end.on) <= FeatureCount - FeatureCount PROVE Abandoned(end) = {}
    BY <1>11
  <2>2. Cardinality(end.on) = 0
    BY <1>1, <1>4, <1>11, <2>1
  <2>3. end.on = {}
    BY <1>4, <1>11, <2>2
  <2>. QED
    BY <2>3 DEF Abandoned
<1>. QED
  BY <1>10, <1>11, <1>12

(* batchDisable(). *)
LEMMA BatchDisableIs ==
  ASSUME FeaturesTypeOK, NEW names \in Batches
  PROVE  Sound(BatchDisable(names), {}, ToSet(names))
<1>. DEFINE drop == [i \in 1 .. Len(names) |-> [p \in Plans |-> Dropped(names[i], p)]]
            start == NewPlan(enabled)
            dropped == ToSet(names)
            S == {p \in OrderedPlans : Drops(dropped, p)}
            mid == After(drop, start, Len(names))
            end == Cascade(mid)
            p == BatchDisable(names)
<1>1. enabled \subseteq Features
  BY DEF FeaturesTypeOK
<1>2. Ordered(start) /\ start.on = enabled /\ ToSet(start.disableOrder) = {}
  BY <1>1, NewPlanIs, EmptySet DEF NewPlan
<1>3. /\ Len(names) \in Nat /\ dropped \in SUBSET Features
      /\ \A i \in 1 .. Len(names) : names[i] \in Features /\ names[i] \in dropped
  BY BatchesAre
<1>4. HangsOn \in Edges
  BY Relations
<1>5. start \in S
  BY <1>2 DEF Drops, OrderedPlans, Ordered
<1>6. p = Validated(end)
  BY DEF BatchDisable
<1>. HIDE DEF start, dropped, end, p
<1>7. ASSUME NEW i \in 1 .. Len(names), NEW q \in S PROVE drop[i][q] \in S
  <2>1. q \in Plans /\ Drops(dropped, q) /\ Ordered(q)
    BY DEF OrderedPlans, Drops
  <2>2. drop[i][q] = Dropped(names[i], q)
    BY <2>1
  <2>. DEFINE r == Dropped(names[i], q)
  <2>3. /\ Ordered(r) /\ r.on = q.on \ {names[i]}
        /\ ToSet(r.disableOrder) \subseteq ToSet(q.disableOrder) \cup {names[i]}
    BY <1>3, <2>1, DroppedIs
  <2>. HIDE DEF r
  <2>4. names[i] \in Reached(HangsOn, dropped)
    BY <1>3, <1>4, ReachedGoesOn
  <2>5. Drops(dropped, r) /\ r \in OrderedPlans
    BY <2>1, <2>3, <2>4 DEF Drops, Ordered, OrderedPlans
  <2>. QED
    BY <2>2, <2>5 DEF r
<1>. HIDE DEF S
<1>8. mid \in S
  BY <1>3, <1>5, <1>7, AfterStays
<1>. HIDE DEF mid
<1>9. Drops(dropped, mid)
  BY <1>8 DEF S
<1>10. Drops(dropped, end) /\ Abandoned(end) = {}
  BY <1>3, <1>9, CascadeIs DEF end
<1>11. Ordered(end) /\ end \in Plans
  BY <1>10 DEF Drops, Ordered
<1>12. Ordered(p) /\ (p.ok => p = end /\ Consistent(p.on))
  BY <1>6, <1>11, ValidatedIs
<1>13. Explained(end, {}, dropped)
  <2>. DEFINE off == enabled \ end.on
              preempted == {f \in Features : Sources("Preempts", f) \cap end.on # {}}
  <2>1. /\ end.on \subseteq enabled /\ off \subseteq ToSet(end.disableOrder)
        /\ ToSet(end.disableOrder) \subseteq Reached(HangsOn, dropped)
    BY <1>10 DEF Drops, Ordered
  <2>2. off \subseteq Reached(HangsOn, dropped \cup preempted)
    <3>. DEFINE T == dropped \cup preempted
    <3>1. T \in SUBSET Features /\ dropped \subseteq T
      BY <1>3
    <3>. HIDE DEF T
    <3>2. Reached(HangsOn, dropped) \subseteq Reached(HangsOn, T)
      BY <1>4, <3>1, ReachedGrows
    <3>. QED
      BY <2>1, <3>2 DEF T
  <2>3. ASSUME NEW f \in end.on, Sources("Entails", f) \cap off # {}
        PROVE  Sources("Entails", f) \cap end.on # {}
    <3>1. PICK s \in Features : s \in off /\ s \in Sources("Entails", f)
      BY <2>3 DEF Sources
    <3>2. f \in Features
      BY <1>11, PlanFields
    <3>3. s \in ToSet(end.disableOrder) /\ f \in Targets("Entails", s)
      BY <2>1, <3>1, <3>2 DEF Targets, Sources
    <3>4. ~Unowned(end.on, s, f)
      BY <1>10, <3>3 DEF Abandoned
    <3>5. PICK o \in end.on : f \in Targets("Entails", o)
      BY <3>4 DEF Unowned
    <3>6. o \in Features
      BY <1>11, PlanFields
    <3>. QED
      BY <3>2, <3>5, <3>6 DEF Targets, Sources
  <2>. HIDE DEF preempted
  <2>4. end.on \ enabled = {}
    BY <2>1
  <2>. QED
    BY <2>2, <2>3, <2>4 DEF Explained, preempted
<1>. QED
  BY <1>12, <1>13 DEF Sound, p, dropped

(* forceExclusive(). *)
LEMMA ForceExclusiveIs ==
  ASSUME FeaturesTypeOK, NEW f \in Features
  PROVE  /\ Ordered(ForceExclusive(f))
         /\ ForceExclusive(f).ok => /\ Consistent(ForceExclusive(f).on)
                                    /\ ForceExclusive(f).on = Reached(Needs, {f})
<1>. DEFINE drop == [g \in Features |-> [p \in Plans |-> Dropped(g, p)]]
            start == NewPlan(enabled)
            P == [k \in 0 .. FeatureCount |-> {q \in OrderedPlans : q.on \cap (1 .. k) = {}}]
            mid == After(drop, start, FeatureCount)
            end == Enabled(f, mid)
            p == ForceExclusive(f)
            N == Reached(Needs, {f})
<1>1. FeatureCount \in Nat /\ Features = 1 .. FeatureCount /\ enabled \subseteq Features
  BY FeaturesAssumption DEF Features, FeaturesTypeOK
<1>2. Ordered(start) /\ start \in OrderedPlans
  BY <1>1, NewPlanIs DEF OrderedPlans, Ordered
<1>3. p = Validated(end)
  BY DEF ForceExclusive
<1>. HIDE DEF start, end, p, N
<1>4. \A k \in 0 .. FeatureCount : P[k] = {q \in OrderedPlans : q.on \cap (1 .. k) = {}}
  OBVIOUS
<1>. HIDE DEF P
<1>5. start \in P[0]
  BY <1>1, <1>2, <1>4
<1>6. ASSUME NEW k \in 1 .. FeatureCount, NEW q \in P[k - 1] PROVE drop[k][q] \in P[k]
  <2>1. k \in Features /\ k - 1 \in 0 .. FeatureCount /\ k \in 0 .. FeatureCount
    BY <1>1
  <2>2. q \in OrderedPlans /\ q.on \cap (1 .. k - 1) = {} /\ q \in Plans /\ Ordered(q)
    BY <1>4, <2>1 DEF OrderedPlans
  <2>3. drop[k][q] = Dropped(k, q)
    BY <2>1, <2>2
  <2>. DEFINE r == Dropped(k, q)
  <2>4. Ordered(r) /\ r.on = q.on \ {k}
    BY <2>1, <2>2, DroppedIs
  <2>. HIDE DEF r
  <2>5. r.on \cap (1 .. k) = {}
    <3>1. 1 .. k = (1 .. k - 1) \cup {k}
      BY <1>1
    <3>. QED
      BY <2>2, <2>4, <3>1
  <2>6. r \in OrderedPlans
    BY <2>4 DEF Ordered, OrderedPlans
  <2>. QED
    BY <1>4, <2>1, <2>3, <2>5, <2>6 DEF r
<1>7. mid \in P[FeatureCount]
  BY <1>1, <1>5, <1>6, AfterLeads
<1>. HIDE DEF mid
<1>8. mid \in OrderedPlans /\ mid.on = {}
  <2>1. FeatureCount \in 0 .. FeatureCount
    BY <1>1
  <2>2. mid \in OrderedPlans /\ mid.on \cap (1 .. FeatureCount) = {}
    BY <1>4, <1>7, <2>1
  <2>3. mid.on \in SUBSET (1 .. FeatureCount)
    BY <1>1, <2>2, PlanFields DEF OrderedPlans
  <2>. QED
    BY <2>2, <2>3
<1>9. N \in SUBSET Features /\ Gains(N, mid, mid)
  BY <1>8, NeedsMore DEF Gains, OrderedPlans, N
<1>10. Gains(N, mid, end) /\ (end.ok => f \in end.on)
  BY <1>9, EnabledGains DEF end, N
<1>11. Ordered(end) /\ end.on \subseteq N
  BY <1>8, <1>10 DEF Gains
<1>12. Ordered(p) /\ (p.ok => p = end /\ end.ok /\ Consistent(p.on))
  BY <1>3, <1>11, ValidatedIs
<1>13. ASSUME p.ok PROVE N \subseteq p.on
  <2>1. p.on \in SUBSET Features
    BY <1>12, PlanFields DEF Ordered
  <2>2. {f} \in SUBSET p.on
    BY <1>10, <1>12, <1>13
  <2>. QED
    BY <1>12, <1>13, <2>1, <2>2, ConsistentNeeds DEF N
<1>14. p.ok => p.on = N
  BY <1>11, <1>12, <1>13
<1>. QED
  BY <1>12, <1>14 DEF p, N

(* What two lists have, one list of both has. *)
LEMMA JoinedSet ==
  ASSUME NEW T, NEW s \in Seq(T), NEW t \in Seq(T)
  PROVE  s \o t \in Seq(T) /\ ToSet(s \o t) = ToSet(s) \cup ToSet(t)
<1>. DEFINE u == s \o t
<1>1. u \in Seq(T) /\ Len(u) = Len(s) + Len(t) /\ Len(s) \in Nat /\ Len(t) \in Nat
  OBVIOUS
<1>2. \A i \in 1 .. Len(s) + Len(t) : u[i] = IF i <= Len(s) THEN s[i] ELSE t[i - Len(s)]
  OBVIOUS
<1>3. DOMAIN s = 1 .. Len(s) /\ DOMAIN t = 1 .. Len(t)
  OBVIOUS
<1>. HIDE DEF u
<1>4. DOMAIN u = 1 .. Len(s) + Len(t)
  BY <1>1
<1>5. ASSUME NEW x \in ToSet(s) PROVE x \in ToSet(u)
  <2>1. PICK i \in 1 .. Len(s) : x = s[i]
    BY <1>3 DEF ToSet
  <2>2. i \in DOMAIN u /\ u[i] = x
    BY <1>1, <1>2, <1>4, <2>1
  <2>. QED
    BY <2>2 DEF ToSet
<1>6. ASSUME NEW x \in ToSet(t) PROVE x \in ToSet(u)
  <2>1. PICK i \in 1 .. Len(t) : x = t[i]
    BY <1>3 DEF ToSet
  <2>2. Len(s) + i \in 1 .. Len(s) + Len(t) /\ ~(Len(s) + i <= Len(s)) /\ (Len(s) + i) - Len(s) = i
    BY <1>1, <2>1
  <2>3. u[Len(s) + i] = x
    BY <1>2, <2>1, <2>2
  <2>. QED
    BY <1>4, <2>2, <2>3 DEF ToSet
<1>7. ASSUME NEW x \in ToSet(u) PROVE x \in ToSet(s) \cup ToSet(t)
  <2>1. PICK i \in 1 .. Len(s) + Len(t) : x = u[i]
    BY <1>4 DEF ToSet
  <2>2. i <= Len(s) => i \in DOMAIN s
    BY <1>1, <1>3, <2>1
  <2>3. ~(i <= Len(s)) => i - Len(s) \in DOMAIN t
    BY <1>1, <1>3, <2>1
  <2>. QED
    BY <1>2, <2>1, <2>2, <2>3 DEF ToSet
<1>. QED
  BY <1>1, <1>5, <1>6, <1>7 DEF u

(* Going through a list and noting those of a set. *)
LEMMA NotedAre ==
  ASSUME NEW order \in Seq(Features), NEW C, NEW step,
         \A i \in 1 .. Len(order) : \A told \in Seq(Features) :
           step[i][told] = IF order[i] \in C THEN Append(told, order[i]) ELSE told
  PROVE  /\ After(step, << >>, Len(order)) \in Seq(Features)
         /\ Len(After(step, << >>, Len(order))) <= Len(order)
         /\ ToSet(After(step, << >>, Len(order))) = ToSet(order) \cap C
<1>. DEFINE Told(k) == {order[i] : i \in 1 .. k} \cap C
            P == [k \in 0 .. Len(order) |->
                    {told \in Seq(Features) : ToSet(told) = Told(k) /\ Len(told) <= k}]
            end == After(step, << >>, Len(order))
<1>1. /\ Len(order) \in Nat /\ DOMAIN order = 1 .. Len(order)
      /\ \A i \in 1 .. Len(order) : order[i] \in Features
  OBVIOUS
<1>2. \A k \in 0 .. Len(order) : \A told :
        told \in P[k] <=> told \in Seq(Features) /\ ToSet(told) = Told(k) /\ Len(told) <= k
  OBVIOUS
<1>. HIDE DEF P, end
<1>3. << >> \in P[0]
  <2>1. Told(0) = {} /\ 0 \in 0 .. Len(order) /\ << >> \in Seq(Features) /\ Len(<< >>) <= 0
    BY <1>1
  <2>. HIDE DEF Told
  <2>. QED
    BY <1>2, <2>1, EmptySet
<1>4. ASSUME NEW k \in 1 .. Len(order), NEW told \in P[k - 1] PROVE step[k][told] \in P[k]
  <2>1. k - 1 \in 0 .. Len(order) /\ k \in 0 .. Len(order) /\ order[k] \in Features
    BY <1>1
  <2>2. told \in Seq(Features) /\ ToSet(told) = Told(k - 1) /\ Len(told) <= k - 1
    BY <1>2, <2>1
  <2>3. step[k][told] = IF order[k] \in C THEN Append(told, order[k]) ELSE told
    BY <2>2
  <2>4. 1 .. k = (1 .. k - 1) \cup {k}
    BY <1>1
  <2>5. Told(k) = Told(k - 1) \cup ({order[k]} \cap C)
    BY <2>4
  <2>. HIDE DEF Told
  <2>6. CASE order[k] \in C
    <3>1. /\ Append(told, order[k]) \in Seq(Features)
          /\ ToSet(Append(told, order[k])) = ToSet(told) \cup {order[k]}
          /\ Len(Append(told, order[k])) <= k
      BY <2>1, <2>2, AppendSet
    <3>2. ToSet(Append(told, order[k])) = Told(k)
      BY <2>2, <2>5, <2>6, <3>1
    <3>3. Append(told, order[k]) \in P[k]
      BY <1>2, <2>1, <3>1, <3>2
    <3>. QED
      BY <2>3, <2>6, <3>3
  <2>7. CASE order[k] \notin C
    <3>1. Told(k) = Told(k - 1) /\ Len(told) <= k
      BY <2>2, <2>5, <2>7
    <3>. QED
      BY <1>2, <2>1, <2>2, <2>3, <2>7, <3>1
  <2>. QED
    BY <2>6, <2>7
<1>5. end \in P[Len(order)]
  BY <1>1, <1>3, <1>4, AfterLeads DEF end
<1>6. ToSet(end) = Told(Len(order)) /\ end \in Seq(Features) /\ Len(end) <= Len(order)
  <2>1. Len(order) \in 0 .. Len(order)
    BY <1>1
  <2>. HIDE DEF Told
  <2>. QED
    BY <1>2, <1>5, <2>1
<1>7. Told(Len(order)) = ToSet(order) \cap C
  BY <1>1 DEF ToSet
<1>. QED
  BY <1>6, <1>7 DEF end

(* buildTransactionChanges() tells of what changed. *)
LEMMA ChangesAre ==
  ASSUME NEW p, Ordered(p)
  PROVE  ToSet(Changes(p)) = (enabled \ p.on) \cup (p.on \ enabled)
<1>. DEFINE order == p.disableOrder \o p.enableOrder
            C == (enabled \ p.on) \cup (p.on \ enabled)
            step == [i \in 1 .. Len(order) |-> [told \in Seq(Features) |->
                       IF (order[i] \in enabled) # (order[i] \in p.on)
                       THEN Append(told, order[i]) ELSE told]]
<1>1. /\ p.disableOrder \in Seq(Features) /\ p.enableOrder \in Seq(Features)
      /\ enabled \ p.on \subseteq ToSet(p.disableOrder)
      /\ p.on \ enabled \subseteq ToSet(p.enableOrder)
  BY PlanFields DEF Ordered
<1>2. order \in Seq(Features) /\ C \subseteq ToSet(order)
  <2>1. order \in Seq(Features) /\ ToSet(order) = ToSet(p.disableOrder) \cup ToSet(p.enableOrder)
    BY <1>1, JoinedSet
  <2>. HIDE DEF order
  <2>. QED
    BY <1>1, <2>1
<1>3. Changes(p) = After(step, << >>, Len(order))
  BY DEF Changes
<1>. HIDE DEF order
<1>4. \A i \in 1 .. Len(order) : \A told \in Seq(Features) :
        step[i][told] = IF order[i] \in C THEN Append(told, order[i]) ELSE told
  OBVIOUS
<1>. HIDE DEF step, C
<1>5. ToSet(After(step, << >>, Len(order))) = ToSet(order) \cap C
  BY <1>2, <1>4, NotedAre
<1>6. ToSet(Changes(p)) = C
  BY <1>2, <1>3, <1>5
<1>. QED
  BY <1>6 DEF C

-----------------------------------------------------------------------------
(* The theorems about the transactions. *)

(* The plans that are committed, alone or by a scope. *)
CommittablePlans ==
  {BatchEnable(names) : names \in Batches} \cup {BatchDisable(names) : names \in Batches}
    \cup {Replace(from, to) : from, to \in Features} \cup {ForceExclusive(f) : f \in Features}

(* They are plans, and consistent if they are carried out. *)
LEMMA CommittedPlans ==
  ASSUME FeaturesTypeOK, NEW p \in CommittablePlans
  PROVE  Ordered(p) /\ p.on \in SUBSET Features /\ (p.ok => Consistent(p.on))
<1>1. Ordered(p) /\ (p.ok => Consistent(p.on))
  <2>1. ASSUME NEW names \in Batches, p = BatchEnable(names) PROVE Ordered(p) /\ (p.ok => Consistent(p.on))
    BY <2>1, BatchEnableIs DEF Sound
  <2>2. ASSUME NEW names \in Batches, p = BatchDisable(names) PROVE Ordered(p) /\ (p.ok => Consistent(p.on))
    BY <2>2, BatchDisableIs DEF Sound
  <2>3. ASSUME NEW from \in Features, NEW to \in Features, p = Replace(from, to)
        PROVE  Ordered(p) /\ (p.ok => Consistent(p.on))
    BY <2>3, ReplaceIs DEF Sound
  <2>4. ASSUME NEW f \in Features, p = ForceExclusive(f) PROVE Ordered(p) /\ (p.ok => Consistent(p.on))
    BY <2>4, ForceExclusiveIs
  <2>. QED
    BY <2>1, <2>2, <2>3, <2>4 DEF CommittablePlans
<1>. QED
  BY <1>1, PlanFields DEF Ordered

(* A step that changes what is on makes it consistent, and what it keeps    *)
(* keeps its type.                                                          *)
LEMMA EnabledStep ==
  ASSUME FeaturesTypeOK, [FeaturesNext]_featuresVars
  PROVE  enabled' \subseteq Features /\ (enabled' # enabled => Consistent(enabled)')
<1>. DEFINE Goal == enabled' \subseteq Features /\ (enabled' # enabled => Consistent(enabled)')
<1>. SUFFICES Goal
  OBVIOUS
<1>1. enabled \subseteq Features
  BY DEF FeaturesTypeOK
<1>2. ASSUME rel' = rel, NEW on \in SUBSET Features, Consistent(on), enabled' = on PROVE Goal
  <2>1. \A type, f : Targets(type, f)' = Targets(type, f)
    BY <1>2 DEF Targets
  <2>. QED
    BY <1>2, <2>1 DEF Consistent
<1>3. ASSUME rel' = rel, NEW p \in CommittablePlans, Commit(p) PROVE Goal
  BY <1>2, <1>3, CommittedPlans DEF Commit
<1>4. CASE enabled' = enabled
  BY <1>1, <1>4
<1>5. CASE Transact
  <2>1. rel' = rel
    BY <1>5 DEF Transact
  <2>2. \E p \in CommittablePlans : Commit(p)
    BY <1>5 DEF Transact, Transaction, CommittablePlans
  <2>. QED
    BY <1>3, <2>1, <2>2
<1>6. CASE clear
  BY <1>6 DEF clear, Consistent
<1>7. ASSUME NEW p \in CommittablePlans, ScopeOperate(p) PROVE Goal
  <2>1. rel' = rel
    BY <1>7 DEF ScopeOperate
  <2>2. Commit(p) \/ enabled' = enabled
    BY <1>7 DEF ScopeOperate, Commit
  <2>. QED
    BY <1>3, <1>4, <2>1, <2>2
<1>8. CASE ScopeEnds
  <2>1. RolledBack \subseteq Features
    BY <1>1 DEF RolledBack, FeaturesTypeOK
  <2>2. rel' = rel /\ (enabled' = enabled \/ (Consistent(RolledBack) /\ enabled' = RolledBack))
    BY <1>8 DEF ScopeEnds
  <2>. QED
    BY <1>2, <1>4, <2>1, <2>2
<1>9. ASSUME NEW f \in Features, ScopeOperate(BatchEnable(<<f>>)) \/ ScopeOperate(BatchDisable(<<f>>))
      PROVE  Goal
  <2>1. <<f>> \in Batches
    BY DEF Batches
  <2>2. BatchEnable(<<f>>) \in CommittablePlans /\ BatchDisable(<<f>>) \in CommittablePlans
    BY <2>1 DEF CommittablePlans
  <2>. QED
    BY <1>7, <1>9, <2>2
<1>10. CASE \/ \E from, to \in Features, type \in Relationships : addRelationship(from, type, to)
            \/ ScopeSnapshot \/ ScopeCompare \/ UNCHANGED featuresVars
  BY <1>4, <1>10 DEF addRelationship, ScopeSnapshot, ScopeCompare, featuresVars
<1>. HIDE DEF Goal
<1>. QED
  BY <1>5, <1>6, <1>8, <1>9, <1>10 DEF FeaturesNext

Scopes ==
  [at : {"none", "operate", "compare", "alive"}, pre : SUBSET Features,
   wasOn : SUBSET Features, wasOff : SUBSET Features]

Changed == [own : SUBSET Features, meanwhile : SUBSET Features, since : SUBSET Features]

(* What is remembered of who changed what. *)
LEMMA ChangedStep ==
  ASSUME FeaturesTypeOK, [FeaturesNext]_featuresVars
  PROVE  changed' \in Changed
<1>0. changed \in Changed /\ scope \in Scopes /\ enabled \subseteq Features
  BY DEF FeaturesTypeOK, Changed, Scopes
<1>1. enabled' \subseteq Features
  BY EnabledStep
<1>2. NoChange \in Changed
  BY DEF NoChange, Changed
<1>3. ASSUME ByOthers PROVE changed' \in Changed
  <2>1. SymDiff(changed.meanwhile, SymDiff(enabled, enabled')) \in SUBSET Features
    BY <1>0, <1>1 DEF Changed, SymDiff
  <2>2. SymDiff(changed.since, SymDiff(enabled, enabled')) \in SUBSET Features
    BY <1>0, <1>1 DEF Changed, SymDiff
  <2>3. scope.at \in {"none", "operate", "compare", "alive"}
    BY <1>0 DEF Scopes
  <2>4. \/ changed' = changed
        \/ changed' = [changed EXCEPT !.meanwhile = SymDiff(@, SymDiff(enabled, enabled'))]
        \/ changed' = [changed EXCEPT !.since = SymDiff(@, SymDiff(enabled, enabled'))]
    BY <1>3, <2>3 DEF ByOthers
  <2>. QED
    BY <1>0, <2>1, <2>2, <2>4 DEF Changed
<1>4. CASE Transact \/ clear
  BY <1>3, <1>4 DEF Transact, clear
<1>5. ASSUME NEW p, ScopeOperate(p) PROVE changed' \in Changed
  <2>1. CASE /\ enabled' = p.on
             /\ changed' = [changed EXCEPT !.own = SymDiff(enabled, p.on)]
    <3>1. SymDiff(enabled, p.on) \in SUBSET Features
      BY <1>0, <1>1, <2>1 DEF SymDiff
    <3>. QED
      BY <1>0, <2>1, <3>1 DEF Changed
  <2>2. CASE changed' = NoChange
    BY <1>2, <2>2
  <2>. QED
    BY <1>5, <2>1, <2>2 DEF ScopeOperate
<1>6. CASE ScopeEnds
  BY <1>2, <1>6 DEF ScopeEnds
<1>7. CASE \/ \E from, to \in Features, type \in Relationships : addRelationship(from, type, to)
           \/ ScopeSnapshot \/ ScopeCompare \/ UNCHANGED featuresVars
  BY <1>0, <1>7 DEF addRelationship, ScopeSnapshot, ScopeCompare, featuresVars
<1>. QED
  BY <1>4, <1>5, <1>6, <1>7 DEF FeaturesNext

(* No action leaves the types. *)
LEMMA FeaturesTypeStep ==
  ASSUME FeaturesTypeOK, [FeaturesNext]_featuresVars
  PROVE  FeaturesTypeOK'
<1>0. /\ rel \in [Relationships -> SUBSET (Features \X Features)] /\ enabled \subseteq Features
      /\ edges \in 0 .. MaxEdges /\ scope \in Scopes /\ scope.wasOn \cap scope.wasOff = {}
      /\ MaxEdges \in Nat
  BY FeaturesAssumption DEF FeaturesTypeOK, Scopes
<1>1. enabled' \subseteq Features /\ changed' \in Changed
  BY EnabledStep, ChangedStep
<1>. DEFINE RelOK == rel' \in [Relationships -> SUBSET (Features \X Features)]
            EdgesOK == edges' \in 0 .. MaxEdges
            ScopeOK == scope' \in Scopes /\ scope'.wasOn \cap scope'.wasOff = {}
<1>. SUFFICES RelOK /\ EdgesOK /\ ScopeOK
  BY <1>1 DEF FeaturesTypeOK, Scopes, Changed
<1>2. NoScope \in Scopes /\ NoScope.wasOn = {} /\ NoScope.wasOff = {}
  BY DEF NoScope, Scopes
<1>3. ASSUME NEW from \in Features, NEW to \in Features, NEW type \in Relationships,
             addRelationship(from, type, to)
      PROVE  RelOK /\ EdgesOK /\ ScopeOK
  <2>1. edges < MaxEdges /\ edges' = edges + 1 /\ scope' = scope
    BY <1>3 DEF addRelationship
  <2>2. RelOK
    BY <1>0, <1>3 DEF addRelationship
  <2>. QED
    BY <1>0, <2>1, <2>2
<1>4. CASE Transact
  BY <1>0, <1>4 DEF Transact
<1>5. CASE clear
  BY <1>0, <1>5 DEF clear
<1>6. CASE ScopeSnapshot
  <2>1. scope' = [NoScope EXCEPT !.at = "operate", !.pre = enabled] /\ rel' = rel /\ edges' = edges
    BY <1>6 DEF ScopeSnapshot
  <2>2. scope' \in Scopes /\ scope'.wasOn = {}
    BY <1>0, <1>2, <2>1 DEF Scopes
  <2>. QED
    BY <1>0, <2>1, <2>2
<1>7. ASSUME NEW p, ScopeOperate(p) PROVE RelOK /\ EdgesOK /\ ScopeOK
  <2>1. /\ rel' = rel /\ edges' = edges
        /\ scope' = [scope EXCEPT !.at = "compare"] \/ scope' = NoScope
    BY <1>7 DEF ScopeOperate
  <2>2. CASE scope' = [scope EXCEPT !.at = "compare"]
    <3>1. scope' \in Scopes /\ scope'.wasOn = scope.wasOn /\ scope'.wasOff = scope.wasOff
      BY <1>0, <2>2 DEF Scopes
    <3>. QED
      BY <1>0, <2>1, <3>1
  <2>3. CASE scope' = NoScope
    BY <1>0, <1>2, <2>1, <2>3
  <2>. QED
    BY <2>1, <2>2, <2>3
<1>8. CASE ScopeCompare
  <2>1. /\ rel' = rel /\ edges' = edges
        /\ scope' = [scope EXCEPT !.at = "alive", !.pre = {}, !.wasOn = scope.pre \ enabled,
                                  !.wasOff = enabled \ scope.pre]
    BY <1>8 DEF ScopeCompare
  <2>2. scope' \in Scopes /\ scope'.wasOn = scope.pre \ enabled /\ scope'.wasOff = enabled \ scope.pre
    BY <1>0, <2>1 DEF Scopes
  <2>. QED
    BY <1>0, <2>1, <2>2
<1>9. CASE ScopeEnds
  BY <1>0, <1>2, <1>9 DEF ScopeEnds
<1>10. CASE UNCHANGED featuresVars
  BY <1>0, <1>10 DEF featuresVars
<1>. HIDE DEF RelOK, EdgesOK, ScopeOK
<1>. QED
  BY <1>3, <1>4, <1>5, <1>6, <1>7, <1>8, <1>9, <1>10 DEF FeaturesNext

(* The relationships are between features, what is on is among them, and a  *)
(* scope remembers nothing both ways.                                       *)
THEOREM FeaturesTyped == FeaturesSpec => []FeaturesTypeOK
<1>1. FeaturesInit => FeaturesTypeOK
  BY FeaturesAssumption DEF FeaturesInit, FeaturesTypeOK, NoScope, NoChange
<1>2. FeaturesTypeOK /\ [FeaturesNext]_featuresVars => FeaturesTypeOK'
  BY FeaturesTypeStep
<1>. QED
  BY <1>1, <1>2, PTL DEF FeaturesSpec

(* The state that a scope found is what is on but for what it and others    *)
(* changed until it compared the two; what it recorded then is what was     *)
(* changed so far, each feature the way it went.                            *)
ScopeRemembers ==
  LET c == changed
      left == SymDiff(enabled, c.since)
      made == SymDiff(c.own, c.meanwhile) IN
  /\ scope.at = "none" => c = NoChange
  /\ scope.at \in {"operate", "compare"} => c.since = {} /\ scope.pre = SymDiff(enabled, made)
  /\ scope.at = "operate" => c.own = {}
  /\ scope.at = "alive" => scope.wasOff = made \cap left /\ scope.wasOn = made \ left

LEMMA RemembersInit == FeaturesInit => ScopeRemembers
  BY DEF FeaturesInit, ScopeRemembers, NoScope

(* Steps of others beside a scope. *)
LEMMA RemembersOthers ==
  ASSUME FeaturesTypeOK, ScopeRemembers, ByOthers, scope' = scope
  PROVE  ScopeRemembers'
<1>0. changed \in Changed /\ scope.at \in {"none", "operate", "compare", "alive"}
  BY DEF FeaturesTypeOK, Changed
<1>. DEFINE moved == SymDiff(enabled, enabled')
<1>1. CASE scope.at = "none"
  <2>1. changed' = changed
    BY <1>1 DEF ByOthers
  <2>. QED
    BY <1>1, <2>1 DEF ScopeRemembers
<1>2. CASE scope.at \in {"operate", "compare"}
  <2>1. changed' = [changed EXCEPT !.meanwhile = SymDiff(@, moved)]
    BY <1>2 DEF ByOthers
  <2>2. /\ changed'.own = changed.own /\ changed'.since = changed.since
        /\ changed'.meanwhile = SymDiff(changed.meanwhile, moved)
    BY <1>0, <2>1 DEF Changed
  <2>3. scope.pre = SymDiff(enabled, SymDiff(changed.own, changed.meanwhile))
    BY <1>2 DEF ScopeRemembers
  <2>4. scope.pre = SymDiff(enabled', SymDiff(changed'.own, changed'.meanwhile))
    BY <2>2, <2>3 DEF SymDiff
  <2>. QED
    BY <1>2, <2>2, <2>4 DEF ScopeRemembers
<1>3. CASE scope.at = "alive"
  <2>1. changed' = [changed EXCEPT !.since = SymDiff(@, moved)]
    BY <1>3 DEF ByOthers
  <2>2. /\ changed'.own = changed.own /\ changed'.meanwhile = changed.meanwhile
        /\ changed'.since = SymDiff(changed.since, moved)
    BY <1>0, <2>1 DEF Changed
  <2>3. SymDiff(enabled', changed'.since) = SymDiff(enabled, changed.since)
    BY <2>2 DEF SymDiff
  <2>. QED
    BY <1>3, <2>2, <2>3 DEF ScopeRemembers
<1>. QED
  BY <1>0, <1>1, <1>2, <1>3

(* The steps of the scope itself. *)
LEMMA RemembersStep ==
  ASSUME FeaturesTypeOK, ScopeRemembers, [FeaturesNext]_featuresVars
  PROVE  ScopeRemembers'
<1>0. changed \in Changed /\ scope \in Scopes
  BY DEF FeaturesTypeOK, Changed, Scopes
<1>1. CASE Transact \/ clear
  BY <1>1, RemembersOthers DEF Transact, clear
<1>2. ASSUME scope' = NoScope, changed' = NoChange PROVE ScopeRemembers'
  BY <1>2 DEF ScopeRemembers, NoScope
<1>3. CASE ScopeEnds
  BY <1>2, <1>3 DEF ScopeEnds
<1>4. CASE ScopeSnapshot
  <2>1. /\ scope.at = "none" /\ enabled' = enabled /\ changed' = changed
        /\ scope' = [NoScope EXCEPT !.at = "operate", !.pre = enabled]
    BY <1>4 DEF ScopeSnapshot
  <2>2. scope'.at = "operate" /\ scope'.pre = enabled
    BY <2>1 DEF NoScope
  <2>3. changed' = NoChange
    BY <2>1 DEF ScopeRemembers
  <2>4. changed'.own = {} /\ changed'.meanwhile = {} /\ changed'.since = {}
    BY <2>3 DEF NoChange
  <2>5. scope'.pre = SymDiff(enabled', SymDiff(changed'.own, changed'.meanwhile))
    BY <2>1, <2>2, <2>4 DEF SymDiff
  <2>. QED
    BY <2>2, <2>4, <2>5 DEF ScopeRemembers
<1>5. ASSUME NEW p, ScopeOperate(p) PROVE ScopeRemembers'
  <2>1. CASE /\ enabled' = p.on /\ scope' = [scope EXCEPT !.at = "compare"]
             /\ changed' = [changed EXCEPT !.own = SymDiff(enabled, p.on)]
    <3>1. scope'.at = "compare" /\ scope'.pre = scope.pre
      BY <1>0, <2>1 DEF Scopes
    <3>2. /\ changed'.own = SymDiff(enabled, enabled') /\ changed'.since = changed.since
          /\ changed'.meanwhile = changed.meanwhile
      BY <1>0, <2>1 DEF Changed
    <3>3. /\ changed.own = {} /\ changed.since = {}
          /\ scope.pre = SymDiff(enabled, SymDiff(changed.own, changed.meanwhile))
      BY <1>5 DEF ScopeOperate, ScopeRemembers
    <3>4. scope.pre = SymDiff(enabled', SymDiff(changed'.own, changed'.meanwhile))
      BY <3>2, <3>3 DEF SymDiff
    <3>. QED
      BY <3>1, <3>2, <3>3, <3>4 DEF ScopeRemembers
  <2>. QED
    BY <1>2, <1>5, <2>1 DEF ScopeOperate
<1>6. CASE ScopeCompare
  <2>1. /\ scope.at = "compare" /\ enabled' = enabled /\ changed' = changed
        /\ scope' = [scope EXCEPT !.at = "alive", !.pre = {}, !.wasOn = scope.pre \ enabled,
                                  !.wasOff = enabled \ scope.pre]
    BY <1>6 DEF ScopeCompare
  <2>2. /\ scope'.at = "alive" /\ scope'.wasOn = scope.pre \ enabled
        /\ scope'.wasOff = enabled \ scope.pre
    BY <1>0, <2>1 DEF Scopes
  <2>. DEFINE made == SymDiff(changed.own, changed.meanwhile)
  <2>3. changed.since = {} /\ scope.pre = SymDiff(enabled, made)
    BY <2>1 DEF ScopeRemembers
  <2>. HIDE DEF made
  <2>4. SymDiff(enabled, changed.since) = enabled
    BY <2>3 DEF SymDiff
  <2>5. enabled \ scope.pre = made \cap enabled /\ scope.pre \ enabled = made \ enabled
    BY <2>3 DEF SymDiff
  <2>6. made = SymDiff(changed'.own, changed'.meanwhile) /\ SymDiff(enabled', changed'.since) = enabled
    BY <2>1, <2>4 DEF made
  <2>. QED
    BY <2>2, <2>5, <2>6 DEF ScopeRemembers
<1>7. CASE \/ \E from, to \in Features, type \in Relationships : addRelationship(from, type, to)
           \/ UNCHANGED featuresVars
  <2>1. enabled' = enabled /\ scope' = scope /\ changed' = changed
    BY <1>7 DEF addRelationship, featuresVars
  <2>. QED
    BY <2>1 DEF ScopeRemembers
<1>. QED
  BY <1>1, <1>3, <1>4, <1>5, <1>6, <1>7 DEF FeaturesNext

(* A scope that ends changes back just what was changed between the state   *)
(* it found and the one it recorded and has not been changed since, or      *)
(* nothing, and the state it makes satisfies every relationship: for any    *)
(* features, and whatever others do at the same time.                       *)
THEOREM ScopesUndo == FeaturesSpec => ScopesUndoTheirOwn
<1>1. FeaturesInit => ScopeRemembers
  BY RemembersInit
<1>2. FeaturesTypeOK /\ ScopeRemembers /\ [FeaturesNext]_featuresVars => ScopeRemembers'
  BY RemembersStep
<1>3. FeaturesTypeOK /\ ScopeRemembers /\ [FeaturesNext]_featuresVars
        => [Ending /\ ScopeUndid # {} =>
              /\ ScopeUndid = SymDiff(changed.own, changed.meanwhile) \ changed.since
              /\ Consistent(enabled)']_featuresVars
  <2>. SUFFICES ASSUME FeaturesTypeOK, ScopeRemembers, FeaturesNext, Ending, ScopeUndid # {}
                PROVE  /\ ScopeUndid = SymDiff(changed.own, changed.meanwhile) \ changed.since
                       /\ Consistent(enabled)'
    OBVIOUS
  <2>1. Consistent(enabled)'
    <3>1. enabled' # enabled
      BY DEF ScopeUndid, SymDiff
    <3>. QED
      BY <3>1, EnabledStep
  <2>2. scope.at = "alive" /\ scope'.at = "none"
    BY DEF Ending
  <2>3. ScopeEnds
    <3>1. ~ScopeSnapshot /\ ~ScopeCompare /\ \A p : ~ScopeOperate(p)
      BY <2>2 DEF ScopeSnapshot, ScopeCompare, ScopeOperate
    <3>2. scope' # scope
      BY <2>2
    <3>3. ~Transact /\ ~clear /\ \A from, type, to : ~addRelationship(from, type, to)
      BY <3>2 DEF Transact, clear, addRelationship
    <3>. QED
      BY <3>1, <3>3 DEF FeaturesNext
  <2>. DEFINE made == SymDiff(changed.own, changed.meanwhile)
              left == SymDiff(enabled, changed.since)
  <2>4. scope.wasOff = made \cap left /\ scope.wasOn = made \ left
    BY <2>2 DEF ScopeRemembers
  <2>5. enabled' = (enabled \cup scope.wasOn) \ scope.wasOff
    <3>1. enabled' # enabled
      BY DEF ScopeUndid, SymDiff
    <3>. QED
      BY <2>3, <3>1 DEF ScopeEnds, RolledBack
  <2>. HIDE DEF made
  <2>6. SymDiff(enabled, enabled') = made \ changed.since
    BY <2>4, <2>5 DEF SymDiff
  <2>. QED
    BY <2>1, <2>6 DEF ScopeUndid, made
<1>4. FeaturesSpec => FeaturesInit /\ [][FeaturesNext]_featuresVars
  BY DEF FeaturesSpec
<1>. QED
  BY <1>1, <1>2, <1>3, <1>4, FeaturesTyped, PTL DEF ScopesUndoTheirOwn

(* What a plan that is carried out turns on is needed by what was asked,    *)
(* what it turns off hangs on what was dropped or preempted, and what lost  *)
(* its last owner goes; and the observers are told of just that.            *)
LEMMA PlansExplained ==
  ASSUME FeaturesTypeOK
  PROVE  ChangesHaveACause /\ ReportsAreTrue
<1>1. ChangesHaveACause
  <2>1. \A names \in Batches :
          /\ BatchEnable(names).ok => Explained(BatchEnable(names), ToSet(names), {})
          /\ BatchDisable(names).ok => Explained(BatchDisable(names), {}, ToSet(names))
    BY BatchEnableIs, BatchDisableIs DEF Sound
  <2>2. \A from, to \in Features :
          Replace(from, to).ok => Explained(Replace(from, to), {to}, {from})
    BY ReplaceIs DEF Sound
  <2>3. \A f \in Features : ForceExclusive(f).ok => ForceExclusive(f).on = Reached(Needs, {f})
    BY ForceExclusiveIs
  <2>. QED
    BY <2>1, <2>2, <2>3 DEF ChangesHaveACause
<1>2. ReportsAreTrue
  <2>1. ASSUME NEW p \in CommittablePlans
        PROVE  ToSet(Changes(p)) = (enabled \ p.on) \cup (p.on \ enabled)
    BY CommittedPlans, ChangesAre
  <2>2. /\ \A names \in Batches : /\ BatchEnable(names) \in CommittablePlans
                                  /\ BatchDisable(names) \in CommittablePlans
        /\ \A from, to \in Features : /\ Replace(from, to) \in CommittablePlans
                                      /\ ForceExclusive(to) \in CommittablePlans
    BY DEF CommittablePlans
  <2>. QED
    BY <2>1, <2>2 DEF ReportsAreTrue
<1>. QED
  BY <1>1, <1>2

-----------------------------------------------------------------------------
(* detectCyclesUnlocked().  What the search knows before each of its visits: *)
(* what it is visiting is on the list with a mark to leave it, each reached  *)
(* from those below; what is being visited needs only what was visited or    *)
(* is above it on the list; what was visited needs only what was, and is in  *)
(* no cycle; and G, what the search was to see, is on the list or visited.   *)
Items == [kind : {"Enter", "Exit"}, name : Features, depth : Nat]
Visits == [Features -> {"Unvisited", "Visiting", "Visited"}]

Cyclic(f) == f \in Reached(Needs, NeededBy(f))

(* The marks below the i-th item. *)
Below(work, i) == {j \in 1 .. i - 1 : work[j].kind = "Exit"}

Marked(visits, work) ==
  /\ \A i \in 1 .. Len(work) : work[i].kind = "Exit" => visits[work[i].name] = "Visiting"
  /\ \A f \in Features : visits[f] = "Visiting" =>
       \E i \in 1 .. Len(work) : work[i].kind = "Exit" /\ work[i].name = f
  /\ \A i, j \in 1 .. Len(work) :
       work[i].kind = "Exit" /\ work[j].kind = "Exit" /\ work[i].name = work[j].name => i = j

Linked(work) ==
  \A i, j \in 1 .. Len(work) :
    i < j /\ work[i].kind = "Exit" => work[j].name \in Reached(Needs, NeededBy(work[i].name))

Promised(visits, work) ==
  \A i \in 1 .. Len(work) : work[i].kind = "Exit" =>
    \A g \in NeededBy(work[i].name) :
      visits[g] = "Visited" \/ \E j \in i + 1 .. Len(work) : work[j].name = g

Finished(visits) ==
  \A f \in Features : visits[f] = "Visited" =>
    ~Cyclic(f) /\ \A g \in NeededBy(f) : visits[g] = "Visited"

Deep(work) == \A i \in 1 .. Len(work) : work[i].depth = Cardinality(Below(work, i))

Seen(G, visits, work) ==
  \A g \in G : visits[g] = "Visited" \/ \E i \in 1 .. Len(work) : work[i].name = g

SearchOK(G, visits, work) ==
  /\ visits \in Visits /\ work \in Seq(Items)
  /\ Marked(visits, work) /\ Linked(work) /\ Promised(visits, work)
  /\ Finished(visits) /\ Deep(work) /\ Seen(G, visits, work)

WalkOK(G, w) ==
  /\ w \in Walks
  /\ w.found = "nothing" => SearchOK(G, w.visits, w.work)
  /\ w.found = "cycle" => \E f \in Features : Cyclic(f)
  /\ w.found = "depth" => FeatureCount > kMaxValidationDepth

(* What a list without its last item has. *)
LEMMA FrontIs ==
  ASSUME NEW T, NEW s \in Seq(T), s # << >>
  PROVE  /\ Len(s) \in Nat \ {0} /\ Last(s) = s[Len(s)] /\ Last(s) \in T
         /\ Front(s) \in Seq(T) /\ Len(Front(s)) = Len(s) - 1
         /\ \A i \in 1 .. Len(s) - 1 : Front(s)[i] = s[i] /\ s[i] \in T
<1>1. Len(s) \in Nat \ {0} /\ s[Len(s)] \in T
  OBVIOUS
<1>2. /\ SubSeq(s, 1, Len(s) - 1) \in Seq(T) /\ Len(SubSeq(s, 1, Len(s) - 1)) = Len(s) - 1
      /\ \A i \in 1 .. Len(s) - 1 : SubSeq(s, 1, Len(s) - 1)[i] = s[i]
  <2>. DEFINE n == Len(s) - 1
              t == SubSeq(s, 1, n)
  <2>1. n \in Int /\ 1 \in Int /\ n \in Nat /\ \A i \in 1 .. n : s[i] \in T
    BY <1>1
  <2>. HIDE DEF n
  <2>2. /\ t \in Seq(T) /\ Len(t) = IF 1 <= n THEN n - 1 + 1 ELSE 0
        /\ \A i \in 1 .. n - 1 + 1 : t[i] = s[1 + i - 1]
    BY <2>1, SubSeqProperties
  <2>. HIDE DEF t
  <2>3. Len(t) = n /\ \A i \in 1 .. n : t[i] = s[i]
    BY <2>1, <2>2
  <2>. QED
    BY <2>2, <2>3 DEF n, t
<1>3. \A i \in 1 .. Len(s) - 1 : s[i] \in T
  BY <1>1
<1>. QED
  BY <1>1, <1>2, <1>3 DEF Front, Last

(* The features are finite. *)
LEMMA FeaturesFinite ==
  /\ FeatureCount \in Nat /\ Features = 1 .. FeatureCount
  /\ IsFiniteSet(Features) /\ Cardinality(Features) = FeatureCount
<1>1. FeatureCount \in Nat /\ Features = 1 .. FeatureCount
  BY FeaturesAssumption DEF Features
<1>. QED
  BY <1>1, FS_Interval

(* What is needed is reached, and what it needs. *)
LEMMA NeededByIs ==
  ASSUME FeaturesTypeOK, NEW f \in Features
  PROVE  /\ Needs \in Edges /\ NeededBy(f) \in SUBSET Features
         /\ NeededBy(f) = UNION {Targets(type, f) : type \in Dependencies}
         /\ NeededBy(f) \subseteq Reached(Needs, NeededBy(f))
         /\ \A e \in Features : f \in Reached(Needs, NeededBy(e)) =>
              NeededBy(f) \subseteq Reached(Needs, NeededBy(e))
<1>1. Needs \in Edges /\ NeededBy(f) \in SUBSET Features
  BY Relations DEF NeededBy
<1>2. NeededBy(f) = UNION {Targets(type, f) : type \in Dependencies}
  BY DEF NeededBy, Needs, Targets
<1>3. NeededBy(f) \subseteq Reached(Needs, NeededBy(f))
  BY <1>1, ReachedGoesOn
<1>4. ASSUME NEW e \in Features, f \in Reached(Needs, NeededBy(e))
      PROVE  NeededBy(f) \subseteq Reached(Needs, NeededBy(e))
  <2>1. ASSUME NEW g \in Features, <<f, g>> \in Needs PROVE g \in Reached(Needs, NeededBy(e))
    BY <1>1, <1>4, <2>1, ReachedGoesOn
  <2>. QED
    BY <2>1 DEF NeededBy
<1>. QED
  BY <1>1, <1>2, <1>3, <1>4

(* What is visited, and needs what was visited, is in no cycle. *)
LEMMA NoCycleThere ==
  ASSUME FeaturesTypeOK, NEW visits \in Visits, Finished(visits), NEW f \in Features,
         visits[f] # "Visited", \A g \in NeededBy(f) : visits[g] = "Visited"
  PROVE  ~Cyclic(f)
<1>. DEFINE C == {g \in Features : visits[g] = "Visited"}
<1>1. Needs \in Edges /\ NeededBy(f) \subseteq C
  BY NeededByIs
<1>2. ASSUME NEW g \in Features, NEW h \in Features, g \in C, <<g, h>> \in Needs PROVE h \in C
  <2>1. h \in NeededBy(g)
    BY <1>2 DEF NeededBy
  <2>. QED
    BY <1>2, <2>1 DEF Finished
<1>3. Reached(Needs, NeededBy(f)) \subseteq C
  <2>1. C \in SUBSET Features
    OBVIOUS
  <2>. HIDE DEF C
  <2>. QED
    BY <1>1, <1>2, <2>1, ReachedIsLeast
<1>. QED
  BY <1>3 DEF Cyclic

(* A mark is taken from the list: the feature was visited. *)
LEMMA LeaveKeeps ==
  ASSUME FeaturesTypeOK, NEW G \in SUBSET Features, NEW visits, NEW work,
         SearchOK(G, visits, work), work # << >>, Last(work).kind = "Exit"
  PROVE  SearchOK(G, [visits EXCEPT ![Last(work).name] = "Visited"], Front(work))
<1>. DEFINE n == Len(work)
            f == Last(work).name
            rest == Front(work)
            then == [visits EXCEPT ![f] = "Visited"]
<1>1. visits \in Visits /\ work \in Seq(Items)
  BY DEF SearchOK
<1>2. /\ n \in Nat \ {0} /\ Last(work) = work[n] /\ Last(work) \in Items
      /\ rest \in Seq(Items) /\ Len(rest) = n - 1
      /\ \A i \in 1 .. n - 1 : rest[i] = work[i] /\ work[i] \in Items
  BY <1>1, FrontIs
<1>3. f \in Features /\ work[n].kind = "Exit" /\ work[n].name = f
  BY <1>2 DEF Items
<1>4. then \in Visits /\ \A g \in Features : then[g] = IF g = f THEN "Visited" ELSE visits[g]
  BY <1>1 DEF Visits
<1>. HIDE DEF f, rest, then, n
<1>5. n = Len(work)
  BY DEF n
<1>14. Len(rest) = n - 1 /\ \A i \in 1 .. n - 1 : rest[i] = work[i]
  BY <1>2
<1>6. visits[f] = "Visiting"
  BY <1>2, <1>3, <1>5 DEF SearchOK, Marked
<1>7. Marked(then, rest)
  <2>1. ASSUME NEW i \in 1 .. n - 1, work[i].kind = "Exit"
        PROVE  work[i].name \in Features /\ work[i].name # f /\ visits[work[i].name] = "Visiting"
    <3>1. Marked(visits, work)
      BY DEF SearchOK
    <3>2. i \in 1 .. Len(work) /\ n \in 1 .. Len(work) /\ i # n
      BY <1>2, <1>5
    <3>3. visits[work[i].name] = "Visiting"
      BY <2>1, <3>1, <3>2 DEF Marked
    <3>4. work[i].name # work[n].name
      BY <1>3, <2>1, <3>1, <3>2 DEF Marked
    <3>5. work[i].name \in Features
      BY <1>2 DEF Items
    <3>. QED
      BY <1>3, <3>3, <3>4, <3>5
  <2>2. ASSUME NEW g \in Features, then[g] = "Visiting"
        PROVE  \E i \in 1 .. n - 1 : work[i].kind = "Exit" /\ work[i].name = g
    <3>1. g # f /\ visits[g] = "Visiting"
      BY <1>4, <2>2
    <3>2. PICK i \in 1 .. n : work[i].kind = "Exit" /\ work[i].name = g
      BY <1>5, <3>1 DEF SearchOK, Marked
    <3>. QED
      BY <1>2, <1>3, <3>1, <3>2
  <2>3. \A i, j \in 1 .. n - 1 :
          work[i].kind = "Exit" /\ work[j].kind = "Exit" /\ work[i].name = work[j].name => i = j
    BY <1>2, <1>5 DEF SearchOK, Marked
  <2>4. /\ \A i \in 1 .. n - 1 : rest[i].kind = "Exit" => then[rest[i].name] = "Visiting"
        /\ \A i, j \in 1 .. n - 1 :
             rest[i].kind = "Exit" /\ rest[j].kind = "Exit" /\ rest[i].name = rest[j].name => i = j
    BY <1>4, <1>14, <2>1, <2>3
  <2>5. \A g \in Features : then[g] = "Visiting" =>
          \E i \in 1 .. n - 1 : rest[i].kind = "Exit" /\ rest[i].name = g
    BY <1>14, <2>2
  <2>. QED
    BY <1>14, <2>4, <2>5 DEF Marked
<1>8. Linked(rest)
  <2>1. Linked(work) /\ \A i \in 1 .. n - 1 : i \in 1 .. Len(work)
    BY <1>2, <1>5 DEF SearchOK
  <2>. QED
    BY <1>14, <2>1 DEF Linked
<1>9. Promised(then, rest)
  <2>1. ASSUME NEW i \in 1 .. n - 1, work[i].kind = "Exit", NEW g \in NeededBy(work[i].name)
        PROVE  then[g] = "Visited" \/ \E j \in i + 1 .. n - 1 : work[j].name = g
    <3>1. g \in Features
      BY DEF NeededBy
    <3>2. visits[g] = "Visited" \/ \E j \in i + 1 .. n : work[j].name = g
      BY <1>2, <1>5, <2>1 DEF SearchOK, Promised
    <3>. QED
      BY <1>2, <1>3, <1>4, <3>1, <3>2
  <2>. QED
    BY <1>14, <2>1 DEF Promised
<1>10. Finished(then)
  <2>1. \A g \in NeededBy(f) : visits[g] = "Visited"
    BY <1>2, <1>3, <1>5 DEF SearchOK, Promised
  <2>2. ~Cyclic(f)
    BY <1>1, <1>3, <1>6, <2>1, NoCycleThere DEF SearchOK
  <2>3. \A g, h \in Features : h \in NeededBy(g) /\ visits[h] = "Visited" => then[h] = "Visited"
    BY <1>4
  <2>4. \A g \in Features : NeededBy(g) \subseteq Features
    BY DEF NeededBy
  <2>. QED
    BY <1>3, <1>4, <2>1, <2>2, <2>3, <2>4 DEF SearchOK, Finished
<1>11. Deep(rest)
  <2>1. \A i \in 1 .. n - 1 : Below(rest, i) = Below(work, i)
    BY <1>2 DEF Below
  <2>. QED
    BY <1>2, <1>5, <2>1 DEF SearchOK, Deep
<1>12. Seen(G, then, rest)
  BY <1>2, <1>3, <1>4, <1>5 DEF SearchOK, Seen
<1>. QED
  BY <1>2, <1>4, <1>7, <1>8, <1>9, <1>10, <1>11, <1>12 DEF SearchOK, f, then, rest

(* An item is taken from the list whose feature was visited in the meantime. *)
LEMMA SkipKeeps ==
  ASSUME FeaturesTypeOK, NEW G \in SUBSET Features, NEW visits, NEW work,
         SearchOK(G, visits, work), work # << >>, Last(work).kind = "Enter",
         visits[Last(work).name] = "Visited"
  PROVE  SearchOK(G, visits, Front(work))
<1>. DEFINE n == Len(work)
            f == Last(work).name
            rest == Front(work)
<1>1. visits \in Visits /\ work \in Seq(Items)
  BY DEF SearchOK
<1>2. /\ n \in Nat \ {0} /\ Last(work) = work[n] /\ Last(work) \in Items
      /\ rest \in Seq(Items) /\ Len(rest) = n - 1
      /\ \A i \in 1 .. n - 1 : rest[i] = work[i] /\ work[i] \in Items
  BY <1>1, FrontIs
<1>3. f \in Features /\ work[n].kind # "Exit" /\ work[n].name = f /\ visits[f] = "Visited"
  BY <1>2 DEF Items
<1>. HIDE DEF f, rest, n
<1>5. n = Len(work)
  BY DEF n
<1>14. Len(rest) = n - 1 /\ \A i \in 1 .. n - 1 : rest[i] = work[i]
  BY <1>2
<1>7. Marked(visits, rest)
  <2>2. ASSUME NEW g \in Features, visits[g] = "Visiting"
        PROVE  \E i \in 1 .. n - 1 : work[i].kind = "Exit" /\ work[i].name = g
    <3>1. PICK i \in 1 .. n : work[i].kind = "Exit" /\ work[i].name = g
      BY <1>5, <2>2 DEF SearchOK, Marked
    <3>. QED
      BY <1>2, <1>3, <3>1
  <2>3. /\ \A i \in 1 .. n - 1 : work[i].kind = "Exit" => visits[work[i].name] = "Visiting"
        /\ \A i, j \in 1 .. n - 1 :
             work[i].kind = "Exit" /\ work[j].kind = "Exit" /\ work[i].name = work[j].name => i = j
    BY <1>2, <1>5 DEF SearchOK, Marked
  <2>. QED
    BY <1>14, <2>2, <2>3 DEF Marked
<1>8. Linked(rest)
  <2>1. Linked(work) /\ \A i \in 1 .. n - 1 : i \in 1 .. Len(work)
    BY <1>2, <1>5 DEF SearchOK
  <2>. QED
    BY <1>14, <2>1 DEF Linked
<1>9. Promised(visits, rest)
  <2>1. ASSUME NEW i \in 1 .. n - 1, work[i].kind = "Exit", NEW g \in NeededBy(work[i].name)
        PROVE  visits[g] = "Visited" \/ \E j \in i + 1 .. n - 1 : work[j].name = g
    <3>2. visits[g] = "Visited" \/ \E j \in i + 1 .. n : work[j].name = g
      BY <1>2, <1>5, <2>1 DEF SearchOK, Promised
    <3>3. ASSUME NEW j \in i + 1 .. n, work[j].name = g
          PROVE  visits[g] = "Visited" \/ j \in i + 1 .. n - 1
      <4>1. j = n \/ j \in i + 1 .. n - 1
        BY <1>2
      <4>. QED
        BY <1>3, <3>3, <4>1
    <3>. QED
      BY <3>2, <3>3
  <2>. QED
    BY <1>14, <2>1 DEF Promised
<1>10. Finished(visits)
  BY DEF SearchOK
<1>11. Deep(rest)
  <2>1. \A i \in 1 .. n - 1 : Below(rest, i) = Below(work, i)
    BY <1>2 DEF Below
  <2>. QED
    BY <1>2, <1>5, <2>1 DEF SearchOK, Deep
<1>12. Seen(G, visits, rest)
  BY <1>2, <1>3, <1>5 DEF SearchOK, Seen
<1>. QED
  BY <1>1, <1>2, <1>7, <1>8, <1>9, <1>10, <1>11, <1>12 DEF SearchOK, f, rest

(* A set of features in their order, and a list from its end. *)
LEMMA ListedIs ==
  ASSUME NEW S \in SUBSET Features
  PROVE  Listed(S) \in Seq(Features) /\ Len(Listed(S)) <= FeatureCount /\ ToSet(Listed(S)) = S
<1>. DEFINE order == [f \in Features |-> f]
            step == [f \in Features |-> [s \in Seq(Features) |-> IF f \in S THEN Append(s, f) ELSE s]]
<1>1. FeatureCount \in Nat /\ Features = 1 .. FeatureCount
  BY FeaturesFinite
<1>2. order \in Seq(Features) /\ Len(order) = FeatureCount
  BY <1>1
<1>3. ToSet(order) = Features
  BY DEF ToSet
<1>4. \A i \in 1 .. Len(order) : \A s \in Seq(Features) :
        step[i][s] = IF order[i] \in S THEN Append(s, order[i]) ELSE s
  BY <1>1, <1>2
<1>5. Listed(S) = After(step, << >>, Len(order))
  BY <1>2 DEF Listed
<1>. HIDE DEF order, step
<1>6. /\ After(step, << >>, Len(order)) \in Seq(Features)
      /\ Len(After(step, << >>, Len(order))) <= Len(order)
      /\ ToSet(After(step, << >>, Len(order))) = ToSet(order) \cap S
  BY <1>2, <1>4, NotedAre
<1>7. Features \cap S = S
  OBVIOUS
<1>. QED
  BY <1>2, <1>3, <1>5, <1>6, <1>7

(* A list from its end has the same members. *)
LEMMA ReverseIs ==
  ASSUME NEW T, NEW s \in Seq(T)
  PROVE  Reverse(s) \in Seq(T) /\ Len(Reverse(s)) = Len(s) /\ ToSet(Reverse(s)) = ToSet(s)
<1>. DEFINE r == [i \in 1 .. Len(s) |-> s[(Len(s) - i) + 1]]
<1>1. Len(s) \in Nat /\ DOMAIN s = 1 .. Len(s) /\ \A i \in 1 .. Len(s) : s[i] \in T
  OBVIOUS
<1>2. \A i \in 1 .. Len(s) : (Len(s) - i) + 1 \in 1 .. Len(s)
  BY <1>1
<1>3. r \in Seq(T) /\ Len(r) = Len(s) /\ DOMAIN r = 1 .. Len(s)
  BY <1>1, <1>2
<1>4. \A i \in 1 .. Len(s) : r[i] = s[(Len(s) - i) + 1]
  OBVIOUS
<1>5. Reverse(s) = r
  BY DEF Reverse
<1>. HIDE DEF r
<1>6. ASSUME NEW x \in ToSet(s) PROVE x \in ToSet(r)
  <2>1. PICK i \in 1 .. Len(s) : x = s[i]
    BY <1>1 DEF ToSet
  <2>2. (Len(s) - ((Len(s) - i) + 1)) + 1 = i
    BY <1>1, <2>1
  <2>3. r[(Len(s) - i) + 1] = x
    BY <1>2, <1>4, <2>1, <2>2
  <2>. QED
    BY <1>2, <1>3, <2>3 DEF ToSet
<1>7. ASSUME NEW x \in ToSet(r) PROVE x \in ToSet(s)
  <2>1. PICK i \in 1 .. Len(s) : x = r[i]
    BY <1>3 DEF ToSet
  <2>. QED
    BY <1>1, <1>2, <1>4, <2>1 DEF ToSet
<1>. QED
  BY <1>3, <1>5, <1>6, <1>7

(* What a feature puts on the list is what it needs that was not visited. *)
LEMMA ToVisitIs ==
  ASSUME FeaturesTypeOK, NEW visits \in Visits, NEW f \in Features
  PROVE  /\ ToVisit(f, visits) \in Seq(Features) /\ Len(ToVisit(f, visits)) <= 3 * FeatureCount
         /\ ToSet(ToVisit(f, visits)) = {g \in NeededBy(f) : visits[g] = "Unvisited"}
<1>. DEFINE unvisited(type) == Listed({g \in Targets(type, f) : visits[g] = "Unvisited"})
            a == unvisited("Requires")
            b == unvisited("Implies")
            c == unvisited("Entails")
<1>1. \A type : {g \in Targets(type, f) : visits[g] = "Unvisited"} \in SUBSET Features
  BY DEF Targets
<1>2. /\ a \in Seq(Features) /\ Len(a) <= FeatureCount
      /\ ToSet(a) = {g \in Targets("Requires", f) : visits[g] = "Unvisited"}
  BY <1>1, ListedIs
<1>3. /\ b \in Seq(Features) /\ Len(b) <= FeatureCount
      /\ ToSet(b) = {g \in Targets("Implies", f) : visits[g] = "Unvisited"}
  BY <1>1, ListedIs
<1>4. /\ c \in Seq(Features) /\ Len(c) <= FeatureCount
      /\ ToSet(c) = {g \in Targets("Entails", f) : visits[g] = "Unvisited"}
  BY <1>1, ListedIs
<1>5. ToVisit(f, visits) = Reverse(a \o b \o c)
  BY DEF ToVisit
<1>. HIDE DEF a, b, c
<1>6. /\ a \o b \in Seq(Features) /\ ToSet(a \o b) = ToSet(a) \cup ToSet(b)
      /\ Len(a \o b) = Len(a) + Len(b)
  BY <1>2, <1>3, JoinedSet
<1>. DEFINE ab == a \o b
<1>. HIDE DEF ab
<1>7. /\ ab \o c \in Seq(Features) /\ ToSet(ab \o c) = ToSet(ab) \cup ToSet(c)
      /\ Len(ab \o c) = Len(ab) + Len(c)
  <2>1. ab \in Seq(Features)
    BY <1>6 DEF ab
  <2>2. ab \o c \in Seq(Features) /\ ToSet(ab \o c) = ToSet(ab) \cup ToSet(c)
    BY <1>4, <2>1, JoinedSet
  <2>. QED
    BY <1>4, <2>1, <2>2
<1>. DEFINE abc == ab \o c
<1>. HIDE DEF abc
<1>8. /\ abc \in Seq(Features) /\ ToSet(abc) = (ToSet(a) \cup ToSet(b)) \cup ToSet(c)
      /\ Len(abc) = (Len(a) + Len(b)) + Len(c) /\ ToVisit(f, visits) = Reverse(abc)
  BY <1>5, <1>6, <1>7 DEF ab, abc
<1>9. Len(abc) <= 3 * FeatureCount
  <2>1. Len(a) \in Nat /\ Len(b) \in Nat /\ Len(c) \in Nat /\ FeatureCount \in Nat
    BY <1>2, <1>3, <1>4, FeaturesFinite
  <2>. QED
    BY <1>2, <1>3, <1>4, <1>8, <2>1
<1>10. ToSet(abc) = {g \in NeededBy(f) : visits[g] = "Unvisited"}
  <2>1. NeededBy(f) = (Targets("Requires", f) \cup Targets("Implies", f)) \cup Targets("Entails", f)
    BY NeededByIs DEF Dependencies
  <2>. QED
    BY <1>2, <1>3, <1>4, <1>8, <2>1
<1>. QED
  BY <1>8, <1>9, <1>10, ReverseIs

(* The list after a feature was entered: a mark takes its place, and the    *)
(* new items are above.                                                     *)
Entered(work, todo) ==
  Append(Front(work), [Last(work) EXCEPT !.kind = "Exit"])
    \o [i \in 1 .. Len(todo) |->
         [kind |-> "Enter", name |-> todo[i], depth |-> Last(work).depth + 1]]

EnteredIs(work, todo, more) ==
  /\ more \in Seq(Items) /\ Len(more) = Len(work) + Len(todo)
  /\ \A i \in 1 .. Len(work) - 1 : more[i] = work[i]
  /\ more[Len(work)].kind = "Exit" /\ more[Len(work)].name = work[Len(work)].name
  /\ more[Len(work)].depth = work[Len(work)].depth
  /\ \A k \in 1 .. Len(todo) :
       /\ more[Len(work) + k].kind = "Enter" /\ more[Len(work) + k].name = todo[k]
       /\ more[Len(work) + k].depth = work[Len(work)].depth + 1

(* Entering a feature makes such a list. *)
LEMMA EnteredHas ==
  ASSUME NEW work \in Seq(Items), work # << >>, NEW todo \in Seq(Features)
  PROVE  EnteredIs(work, todo, Entered(work, todo))
<1>. DEFINE n == Len(work)
            m == Len(todo)
            rest == Front(work)
            mark == [Last(work) EXCEPT !.kind = "Exit"]
            base == Append(rest, mark)
            d == Last(work).depth + 1
            top == [i \in 1 .. m |-> [kind |-> "Enter", name |-> todo[i], depth |-> d]]
<1>1. /\ n \in Nat \ {0} /\ Last(work) = work[n] /\ Last(work) \in Items
      /\ rest \in Seq(Items) /\ Len(rest) = n - 1
      /\ \A i \in 1 .. n - 1 : rest[i] = work[i] /\ work[i] \in Items
  BY FrontIs
<1>2. /\ mark \in Items /\ mark.kind = "Exit" /\ mark.name = work[n].name
      /\ mark.depth = work[n].depth /\ d = work[n].depth + 1 /\ d \in Nat
  <2>. DEFINE last == Last(work)
  <2>1. last \in Items /\ last = work[n]
    BY <1>1
  <2>. HIDE DEF last
  <2>2. [last EXCEPT !.kind = "Exit"] \in Items
    BY <2>1 DEF Items
  <2>3. /\ [last EXCEPT !.kind = "Exit"].kind = "Exit"
        /\ [last EXCEPT !.kind = "Exit"].name = last.name
        /\ [last EXCEPT !.kind = "Exit"].depth = last.depth /\ last.depth \in Nat
    BY <2>1 DEF Items
  <2>4. mark = [last EXCEPT !.kind = "Exit"] /\ d = last.depth + 1
    BY DEF last
  <2>. HIDE DEF mark, d
  <2>. QED
    BY <2>1, <2>2, <2>3, <2>4
<1>. HIDE DEF mark, rest, d
<1>3. /\ base \in Seq(Items) /\ Len(base) = n /\ base[n] = mark
      /\ \A i \in 1 .. n - 1 : base[i] = work[i]
  BY <1>1, <1>2
<1>4. m \in Nat /\ \A k \in 1 .. m : todo[k] \in Features
  OBVIOUS
<1>5. top \in Seq(Items) /\ Len(top) = m
  <2>1. \A k \in 1 .. m : [kind |-> "Enter", name |-> todo[k], depth |-> d] \in Items
    BY <1>2, <1>4 DEF Items
  <2>. QED
    BY <1>4, <2>1
<1>6. \A k \in 1 .. m : top[k].kind = "Enter" /\ top[k].name = todo[k] /\ top[k].depth = d
  OBVIOUS
<1>7. Entered(work, todo) = base \o top
  BY DEF Entered, mark, rest, d
<1>. HIDE DEF base, top, n, m
<1>. DEFINE more == base \o top
<1>8. /\ more \in Seq(Items) /\ Len(more) = n + m
      /\ \A i \in 1 .. n + m : more[i] = IF i <= n THEN base[i] ELSE top[i - n]
  <2>1. base \in Seq(Items) /\ top \in Seq(Items) /\ Len(base) = n /\ Len(top) = m
    BY <1>3, <1>5
  <2>2. /\ more \in Seq(Items) /\ Len(more) = Len(base) + Len(top)
        /\ \A i \in 1 .. Len(base) + Len(top) :
             more[i] = IF i <= Len(base) THEN base[i] ELSE top[i - Len(base)]
    BY <2>1, ConcatProperties
  <2>. QED
    BY <2>1, <2>2
<1>9. \A i \in 1 .. n + m : more[i] = IF i <= n THEN base[i] ELSE top[i - n]
  BY <1>8
<1>. HIDE DEF more
<1>10. (\A i \in 1 .. n - 1 : more[i] = work[i]) /\ more[n] = mark
  BY <1>1, <1>3, <1>4, <1>9
<1>11. ASSUME NEW k \in 1 .. m PROVE more[n + k] = top[k]
  <2>1. n + k \in 1 .. n + m /\ ~(n + k <= n) /\ (n + k) - n = k
    BY <1>1, <1>4
  <2>. QED
    BY <1>9, <2>1
<1>12. EnteredIs(work, todo, more)
  BY <1>2, <1>6, <1>8, <1>10, <1>11 DEF EnteredIs, n, m
<1>. QED
  BY <1>7, <1>12 DEF more

(* A feature is entered that was not visited and needs nobody who is being  *)
(* visited.                                                                 *)
LEMMA EnterKeeps ==
  ASSUME FeaturesTypeOK, NEW G \in SUBSET Features, NEW visits, NEW work,
         SearchOK(G, visits, work), work # << >>, Last(work).kind = "Enter",
         visits[Last(work).name] = "Unvisited", NEW entered,
         entered = [visits EXCEPT ![Last(work).name] = "Visiting"],
         \A g \in NeededBy(Last(work).name) : entered[g] # "Visiting",
         NEW todo \in Seq(Features),
         ToSet(todo) = {g \in NeededBy(Last(work).name) : entered[g] = "Unvisited"},
         NEW more, EnteredIs(work, todo, more)
  PROVE  SearchOK(G, entered, more)
<1>. DEFINE n == Len(work)
            m == Len(todo)
            f == Last(work).name
<1>1. visits \in Visits /\ work \in Seq(Items)
  BY DEF SearchOK
<1>2. /\ n \in Nat \ {0} /\ Last(work) = work[n] /\ Last(work) \in Items
      /\ \A i \in 1 .. n - 1 : work[i] \in Items
  BY <1>1, FrontIs
<1>3. /\ f \in Features /\ work[n].kind # "Exit" /\ work[n].name = f /\ visits[f] = "Unvisited"
      /\ \A i \in 1 .. n : work[i].name \in Features /\ work[i].depth \in Nat
  BY <1>2 DEF Items
<1>4. entered \in Visits /\ \A g \in Features : entered[g] = IF g = f THEN "Visiting" ELSE visits[g]
  BY <1>1, <1>3 DEF Visits
<1>5. /\ m \in Nat /\ \A k \in 1 .. m : todo[k] \in NeededBy(f) /\ entered[todo[k]] = "Unvisited"
      /\ \A g \in NeededBy(f) : entered[g] = "Unvisited" => \E k \in 1 .. m : todo[k] = g
  <2>1. m \in Nat /\ DOMAIN todo = 1 .. m
    OBVIOUS
  <2>. QED
    BY <2>1 DEF ToSet
<1>6. \A g \in NeededBy(f) : g \in Features /\ entered[g] \in {"Unvisited", "Visited"} /\ g # f
  <2>1. \A g \in NeededBy(f) : g \in Features /\ entered[g] # "Visiting"
    BY DEF NeededBy
  <2>. QED
    BY <1>4, <2>1 DEF Visits
<1>7. /\ more \in Seq(Items) /\ Len(more) = n + m
      /\ \A i \in 1 .. n - 1 : more[i] = work[i]
      /\ more[n].kind = "Exit" /\ more[n].name = f /\ more[n].depth = work[n].depth
      /\ \A k \in 1 .. m : /\ more[n + k].kind = "Enter" /\ more[n + k].name = todo[k]
                           /\ more[n + k].depth = work[n].depth + 1
  BY <1>3 DEF EnteredIs
<1>. HIDE DEF f, n, m
<1>8. n = Len(work)
  BY DEF n
<1>9. ASSUME NEW i \in 1 .. n + m
      PROVE  \/ i \in 1 .. n - 1 /\ more[i] = work[i]
             \/ i = n
             \/ i > n /\ \E k \in 1 .. m : i = n + k
  <2>1. i > n => i - n \in 1 .. m /\ i = n + (i - n)
    BY <1>2, <1>5
  <2>2. i <= n => i = n \/ i \in 1 .. n - 1
    BY <1>2, <1>5
  <2>3. i > n \/ i <= n
    BY <1>2, <1>5
  <2>. QED
    BY <1>7, <2>1, <2>2, <2>3
<1>10. ASSUME NEW i \in 1 .. n - 1, work[i].kind = "Exit"
       PROVE  /\ i \in 1 .. n /\ work[i].name \in Features /\ visits[work[i].name] = "Visiting"
              /\ work[i].name # f
  BY <1>2, <1>3, <1>8, <1>10 DEF SearchOK, Marked
<1>11. \A i \in 1 .. n + m : more[i].kind = "Exit" <=> i = n \/ (i \in 1 .. n - 1 /\ work[i].kind = "Exit")
  <2>1. ASSUME NEW i \in 1 .. n + m
        PROVE  more[i].kind = "Exit" <=> i = n \/ (i \in 1 .. n - 1 /\ work[i].kind = "Exit")
    <3>1. CASE i \in 1 .. n - 1 /\ more[i] = work[i]
      BY <1>2, <3>1
    <3>2. CASE i = n
      BY <1>7, <3>2
    <3>3. CASE i > n /\ \E k \in 1 .. m : i = n + k
      <4>1. PICK k \in 1 .. m : i = n + k
        BY <3>3
      <4>2. i # n /\ i \notin 1 .. n - 1
        BY <1>2, <3>3
      <4>. QED
        BY <1>7, <4>1, <4>2
    <3>. QED
      BY <1>9, <3>1, <3>2, <3>3
  <2>. QED
    BY <2>1
<1>12. Marked(entered, more)
  <2>1. ASSUME NEW i \in 1 .. n + m, more[i].kind = "Exit" PROVE entered[more[i].name] = "Visiting"
    <3>1. CASE i = n
      BY <1>3, <1>4, <1>7, <3>1
    <3>2. CASE i \in 1 .. n - 1 /\ work[i].kind = "Exit"
      BY <1>4, <1>7, <1>10, <3>2
    <3>. QED
      BY <1>11, <2>1, <3>1, <3>2
  <2>2. ASSUME NEW g \in Features, entered[g] = "Visiting"
        PROVE  \E i \in 1 .. n + m : more[i].kind = "Exit" /\ more[i].name = g
    <3>1. CASE g = f
      <4>1. n \in 1 .. n + m
        BY <1>2, <1>5
      <4>. QED
        BY <1>7, <3>1, <4>1
    <3>2. CASE g # f
      <4>1. visits[g] = "Visiting"
        BY <1>4, <2>2, <3>2
      <4>2. PICK i \in 1 .. n : work[i].kind = "Exit" /\ work[i].name = g
        BY <1>8, <4>1 DEF SearchOK, Marked
      <4>3. i \in 1 .. n - 1 /\ i \in 1 .. n + m
        BY <1>2, <1>3, <1>5, <4>2
      <4>. QED
        BY <1>7, <4>2, <4>3
    <3>. QED
      BY <3>1, <3>2
  <2>3. ASSUME NEW i \in 1 .. n + m, NEW j \in 1 .. n + m,
               more[i].kind = "Exit", more[j].kind = "Exit", more[i].name = more[j].name
        PROVE  i = j
    <3>1. i = n \/ (i \in 1 .. n - 1 /\ work[i].kind = "Exit")
      BY <1>11, <2>3
    <3>2. j = n \/ (j \in 1 .. n - 1 /\ work[j].kind = "Exit")
      BY <1>11, <2>3
    <3>3. CASE i = n
      BY <1>7, <1>10, <2>3, <3>2, <3>3
    <3>4. CASE j = n
      BY <1>7, <1>10, <2>3, <3>1, <3>4
    <3>5. CASE i \in 1 .. n - 1 /\ j \in 1 .. n - 1
      <4>1. i \in 1 .. Len(work) /\ j \in 1 .. Len(work)
        BY <1>2, <1>8, <3>5
      <4>2. work[i].kind = "Exit" /\ work[j].kind = "Exit" /\ work[i].name = work[j].name
        BY <1>2, <1>7, <2>3, <3>5
      <4>. QED
        BY <4>1, <4>2 DEF SearchOK, Marked
    <3>. QED
      BY <3>1, <3>2, <3>3, <3>4, <3>5
  <2>. QED
    BY <1>7, <2>1, <2>2, <2>3 DEF Marked
<1>13. Linked(more)
  <2>1. ASSUME NEW i \in 1 .. n + m, NEW j \in 1 .. n + m, i < j, more[i].kind = "Exit"
        PROVE  more[j].name \in Reached(Needs, NeededBy(more[i].name))
    <3>1. \A h \in 1 .. n - 1 : \A k \in 1 .. n :
            h < k /\ work[h].kind = "Exit" => work[k].name \in Reached(Needs, NeededBy(work[h].name))
      BY <1>2, <1>8 DEF SearchOK, Linked
    <3>2. j \in 1 .. n => more[j].name = work[j].name
      <4>1. j \in 1 .. n => j = n \/ j \in 1 .. n - 1
        BY <1>2
      <4>. QED
        BY <1>3, <1>7, <4>1
    <3>3. CASE i \in 1 .. n - 1 /\ work[i].kind = "Exit"
      <4>1. more[i].name = work[i].name
        BY <1>7, <3>3
      <4>2. CASE j \in 1 .. n
        BY <2>1, <3>1, <3>2, <3>3, <4>1, <4>2
      <4>3. CASE j > n
        <5>1. PICK k \in 1 .. m : j = n + k
          BY <1>2, <1>9, <4>3
        <5>2. f \in Reached(Needs, NeededBy(work[i].name))
          <6>1. n \in 1 .. n /\ i < n
            BY <1>2, <3>3
          <6>. QED
            BY <1>3, <3>1, <3>3, <6>1
        <5>3. NeededBy(f) \subseteq Reached(Needs, NeededBy(work[i].name))
          BY <1>3, <1>10, <3>3, <5>2, NeededByIs
        <5>. QED
          BY <1>5, <1>7, <4>1, <5>1, <5>3
      <4>. QED
        BY <1>2, <1>5, <4>2, <4>3
    <3>4. CASE i = n
      <4>1. PICK k \in 1 .. m : j = n + k
        BY <1>2, <1>9, <2>1, <3>4
      <4>2. NeededBy(f) \subseteq Reached(Needs, NeededBy(f))
        BY <1>3, NeededByIs
      <4>. QED
        BY <1>5, <1>7, <3>4, <4>1, <4>2
    <3>. QED
      BY <1>11, <2>1, <3>3, <3>4
  <2>. QED
    BY <1>7, <2>1 DEF Linked
<1>14. Promised(entered, more)
  <2>1. ASSUME NEW i \in 1 .. n + m, more[i].kind = "Exit", NEW g \in NeededBy(more[i].name)
        PROVE  entered[g] = "Visited" \/ \E j \in i + 1 .. n + m : more[j].name = g
    <3>1. g \in Features
      BY DEF NeededBy
    <3>2. CASE i = n
      <4>1. g \in NeededBy(f)
        BY <1>7, <2>1, <3>2
      <4>2. CASE entered[g] = "Unvisited"
        <5>1. PICK k \in 1 .. m : todo[k] = g
          BY <1>5, <4>1, <4>2
        <5>2. n + k \in i + 1 .. n + m
          BY <1>2, <1>5, <3>2, <5>1
        <5>. QED
          BY <1>7, <5>1, <5>2
      <4>. QED
        BY <1>6, <4>1, <4>2
    <3>3. CASE i \in 1 .. n - 1 /\ work[i].kind = "Exit"
      <4>1. g \in NeededBy(work[i].name) /\ i \in 1 .. n
        BY <1>2, <1>7, <2>1, <3>3
      <4>2. visits[g] = "Visited" \/ \E j \in i + 1 .. n : work[j].name = g
        BY <1>8, <3>3, <4>1 DEF SearchOK, Promised
      <4>3. CASE visits[g] = "Visited"
        BY <1>3, <1>4, <3>1, <4>3
      <4>4. ASSUME NEW j \in i + 1 .. n, work[j].name = g
            PROVE  j \in i + 1 .. n + m /\ more[j].name = g
        <5>1. j \in i + 1 .. n + m /\ (j = n \/ j \in 1 .. n - 1)
          BY <1>2, <1>5, <3>3
        <5>. QED
          BY <1>3, <1>7, <4>4, <5>1
      <4>. QED
        BY <4>2, <4>3, <4>4
    <3>. QED
      BY <1>11, <2>1, <3>2, <3>3
  <2>. QED
    BY <1>7, <2>1 DEF Promised
<1>15. Finished(entered)
  <2>1. \A g \in Features : NeededBy(g) \subseteq Features
    BY DEF NeededBy
  <2>2. \A g \in Features : entered[g] = "Visited" <=> visits[g] = "Visited"
    BY <1>3, <1>4
  <2>. QED
    BY <2>1, <2>2 DEF SearchOK, Finished
<1>16. Deep(more)
  <2>1. \A i \in 1 .. n : Below(more, i) = Below(work, i)
    <3>1. ASSUME NEW i \in 1 .. n, NEW j \in 1 .. i - 1 PROVE more[j] = work[j]
      <4>1. j \in 1 .. n - 1
        BY <1>2
      <4>. QED
        BY <1>7, <4>1
    <3>. QED
      BY <3>1 DEF Below
  <2>2. \A i \in 1 .. n : more[i].depth = work[i].depth
    <3>1. \A i \in 1 .. n : i = n \/ i \in 1 .. n - 1
      BY <1>2
    <3>. QED
      BY <1>7, <3>1
  <2>3. \A i \in 1 .. n : work[i].depth = Cardinality(Below(work, i))
    BY <1>8 DEF SearchOK, Deep
  <2>4. ASSUME NEW i \in 1 .. n + m, i > n PROVE more[i].depth = Cardinality(Below(more, i))
    <3>1. PICK k \in 1 .. m : i = n + k
      BY <1>2, <1>9, <2>4
    <3>2. Below(more, i) = Below(work, n) \cup {n}
      <4>1. \A j \in 1 .. i - 1 : j \in 1 .. n + m
        BY <1>2, <1>5
      <4>2. n \in 1 .. i - 1 /\ 1 .. n - 1 \subseteq 1 .. i - 1
        BY <1>2, <1>5, <2>4
      <4>. QED
        BY <1>11, <4>1, <4>2 DEF Below
    <3>3. IsFiniteSet(Below(work, n)) /\ n \notin Below(work, n)
      <4>1. IsFiniteSet(1 .. n - 1) /\ Below(work, n) \subseteq 1 .. n - 1 /\ n \notin 1 .. n - 1
        BY <1>2, FS_Interval DEF Below
      <4>. QED
        BY <4>1, FS_Subset
    <3>4. Cardinality(Below(more, i)) = Cardinality(Below(work, n)) + 1
      BY <3>2, <3>3, FS_AddElement
    <3>5. n \in 1 .. n
      BY <1>2
    <3>. QED
      BY <1>7, <2>3, <3>1, <3>4, <3>5
  <2>5. ASSUME NEW i \in 1 .. n + m PROVE more[i].depth = Cardinality(Below(more, i))
    <3>1. i > n \/ i \in 1 .. n
      BY <1>2, <1>5
    <3>. QED
      BY <2>1, <2>2, <2>3, <2>4, <3>1
  <2>. QED
    BY <1>7, <2>5 DEF Deep
<1>17. Seen(G, entered, more)
  <2>1. ASSUME NEW g \in G PROVE entered[g] = "Visited" \/ \E i \in 1 .. n + m : more[i].name = g
    <3>1. visits[g] = "Visited" \/ \E i \in 1 .. n : work[i].name = g
      BY <1>8 DEF SearchOK, Seen
    <3>2. visits[g] = "Visited" => entered[g] = "Visited"
      BY <1>3, <1>4
    <3>3. ASSUME NEW i \in 1 .. n, work[i].name = g PROVE i \in 1 .. n + m /\ more[i].name = g
      <4>1. i \in 1 .. n + m /\ (i = n \/ i \in 1 .. n - 1)
        BY <1>2, <1>5
      <4>. QED
        BY <1>3, <1>7, <3>3, <4>1
    <3>. QED
      BY <3>1, <3>2, <3>3
  <2>. QED
    BY <1>7, <2>1 DEF Seen
<1>. QED
  BY <1>4, <1>7, <1>12, <1>13, <1>14, <1>15, <1>16, <1>17 DEF SearchOK

-----------------------------------------------------------------------------
(* The features that were not visited, and what is left to do at the most:  *)
(* each of those puts a mark and at most three items for each feature on    *)
(* the list.                                                                *)
NotVisited(visits) == {f \in Features : visits[f] = "Unvisited"}

Budget(w) == Len(w.work) + Cardinality(NotVisited(w.visits)) * (1 + 3 * FeatureCount)

(* What a walk is made of, and what changing it makes of it. *)
LEMMA WalkHas ==
  ASSUME NEW w \in Walks
  PROVE  w.found \in {"nothing", "cycle", "depth"} /\ w.visits \in Visits /\ w.work \in Seq(Items)
BY DEF Walks, Visits, Items

Moved(w, visits, work) == [w EXCEPT !.visits = visits, !.work = work]
Ended(w, found) == [w EXCEPT !.found = found]

(* A walk that goes on. *)
LEMMA WalkMoved ==
  ASSUME NEW w \in Walks, NEW visits \in Visits, NEW work \in Seq(Items)
  PROVE  /\ Moved(w, visits, work) \in Walks /\ Moved(w, visits, work).found = w.found
         /\ Moved(w, visits, work).visits = visits /\ Moved(w, visits, work).work = work
<1>. DEFINE T == Seq(Items)
            F == {"nothing", "cycle", "depth"}
<1>1. Walks = [found : F, visits : Visits, work : T]
  BY DEF Walks, Visits, Items
<1>2. work \in T
  OBVIOUS
<1>. HIDE DEF T, F
<1>. QED
  BY <1>1, <1>2 DEF Moved

(* A walk that found something. *)
LEMMA WalkEnded ==
  ASSUME NEW w \in Walks, NEW found \in {"cycle", "depth"}
  PROVE  Ended(w, found) \in Walks /\ Ended(w, found).found = found
<1>. DEFINE T == Seq(Items)
            F == {"nothing", "cycle", "depth"}
<1>1. Walks = [found : F, visits : Visits, work : T]
  BY DEF Walks, Visits, Items
<1>2. found \in F
  OBVIOUS
<1>. HIDE DEF T, F
<1>. QED
  BY <1>1, <1>2 DEF Ended

(* The marks are of different features: an item is not deeper than those    *)
(* are many.                                                                *)
LEMMA NotDeeper ==
  ASSUME NEW G, NEW visits, NEW work, SearchOK(G, visits, work), work # << >>
  PROVE  Last(work).depth <= FeatureCount
<1>. DEFINE n == Len(work)
            B == Below(work, n)
            name == [j \in B |-> work[j].name]
<1>1. work \in Seq(Items)
  BY DEF SearchOK
<1>2. n \in Nat \ {0} /\ Last(work) = work[n] /\ n \in 1 .. n
  <2>1. n \in Nat \ {0} /\ Last(work) = work[n]
    BY <1>1, FrontIs
  <2>. HIDE DEF n
  <2>. QED
    BY <2>1
<1>3. \A j \in B : j \in 1 .. n /\ work[j].kind = "Exit" /\ work[j].name \in Features
  <2>1. \A j \in B : j \in 1 .. n /\ work[j].kind = "Exit"
    BY <1>2 DEF Below
  <2>2. \A j \in 1 .. n : work[j] \in Items
    BY <1>1
  <2>. QED
    BY <2>1, <2>2 DEF Items
<1>4. \A i, j \in B : name[i] = name[j] => i = j
  BY <1>3 DEF SearchOK, Marked
<1>5. name \in [B -> Features]
  BY <1>3
<1>. HIDE DEF B, name, n
<1>6. name \in Injection(B, Features)
  BY <1>4, <1>5 DEF Injection, IsInjective
<1>7. Cardinality(B) <= FeatureCount
  BY <1>6, FS_Injection, FeaturesFinite
<1>8. work[n].depth = Cardinality(B)
  BY <1>2 DEF SearchOK, Deep, B, n
<1>. QED
  BY <1>2, <1>7, <1>8

(* A feature comes up again while it is being visited: it is in a cycle. *)
LEMMA AgainIsCycle ==
  ASSUME FeaturesTypeOK, NEW G, NEW visits, NEW work, SearchOK(G, visits, work), work # << >>,
         Last(work).kind = "Enter", NEW g \in Features, visits[g] = "Visiting"
  PROVE  Last(work).name \in Reached(Needs, NeededBy(g))
<1>. DEFINE n == Len(work)
<1>1. work \in Seq(Items)
  BY DEF SearchOK
<1>2. n \in Nat \ {0} /\ Last(work) = work[n] /\ n \in 1 .. n
  <2>1. n \in Nat \ {0} /\ Last(work) = work[n]
    BY <1>1, FrontIs
  <2>. HIDE DEF n
  <2>. QED
    BY <2>1
<1>3. PICK i \in 1 .. n : work[i].kind = "Exit" /\ work[i].name = g
  BY DEF SearchOK, Marked
<1>4. i < n
  <2>1. i # n
    BY <1>2, <1>3
  <2>. QED
    BY <1>2, <2>1
<1>. QED
  BY <1>2, <1>3, <1>4 DEF SearchOK, Linked

(* A feature needs itself, or one that is being visited: there is a cycle. *)
LEMMA BackIsCycle ==
  ASSUME FeaturesTypeOK, NEW G, NEW visits, NEW work, SearchOK(G, visits, work), work # << >>,
         Last(work).kind = "Enter", NEW g \in NeededBy(Last(work).name),
         g = Last(work).name \/ visits[g] = "Visiting"
  PROVE  g \in Features /\ Cyclic(g)
<1>. DEFINE f == Last(work).name
<1>1. work \in Seq(Items) /\ f \in Features /\ g \in Features
  <2>1. work \in Seq(Items)
    BY DEF SearchOK
  <2>2. Last(work) \in Items
    BY <2>1, FrontIs
  <2>. QED
    BY <2>1, <2>2 DEF Items, NeededBy
<1>2. f \in Reached(Needs, NeededBy(g)) => NeededBy(f) \subseteq Reached(Needs, NeededBy(g))
  BY <1>1, NeededByIs
<1>3. NeededBy(f) \subseteq Reached(Needs, NeededBy(f))
  BY <1>1, NeededByIs
<1>4. visits[g] = "Visiting" => f \in Reached(Needs, NeededBy(g))
  BY <1>1, AgainIsCycle
<1>. HIDE DEF f
<1>5. g \in NeededBy(f) /\ (g = f \/ visits[g] = "Visiting")
  BY DEF f
<1>. QED
  BY <1>1, <1>2, <1>3, <1>4, <1>5 DEF Cyclic

(* The outcomes of a visit. *)
Top(w) == Last(w.work)
Enters(w) == [w.visits EXCEPT ![Last(w.work).name] = "Visiting"]
Leaves(w) == [w.visits EXCEPT ![Last(w.work).name] = "Visited"]
Rest(w) == Front(w.work)
More(w) == Entered(w.work, ToVisit(Last(w.work).name, Enters(w)))

(* A visit has one of six outcomes. *)
LEMMA VisitIs ==
  ASSUME NEW w
  PROVE  \/ Top(w).kind = "Exit" /\ Visit(w) = Moved(w, Leaves(w), Rest(w))
         \/ /\ Top(w).kind # "Exit" /\ Top(w).depth > kMaxValidationDepth
            /\ Visit(w) = Ended(w, "depth")
         \/ /\ Top(w).kind # "Exit" /\ w.visits[Top(w).name] = "Visiting"
            /\ Visit(w) = Ended(w, "cycle")
         \/ /\ Top(w).kind # "Exit" /\ w.visits[Top(w).name] = "Visited"
            /\ Visit(w) = Moved(w, w.visits, Rest(w))
         \/ /\ Top(w).kind # "Exit" /\ \E g \in NeededBy(Top(w).name) : Enters(w)[g] = "Visiting"
            /\ Visit(w) = Ended(w, "cycle")
         \/ /\ Top(w).kind # "Exit"
            /\ w.visits[Top(w).name] # "Visiting" /\ w.visits[Top(w).name] # "Visited"
            /\ \A g \in NeededBy(Top(w).name) : Enters(w)[g] # "Visiting"
            /\ Visit(w) = Moved(w, Enters(w), More(w))
BY DEF Visit, OnPath, Entered, Moved, Ended, Top, Enters, Leaves, Rest, More

(* A visit keeps what the search knows, and ends it or leaves less to do. *)
Better(G, w, v) ==
  /\ WalkOK(G, v)
  /\ v.found = "nothing" => Budget(v) \in Nat /\ Budget(v) < Budget(w)

(* What is left to do is a number. *)
LEMMA BudgetIs ==
  ASSUME NEW w \in Walks
  PROVE  /\ Cardinality(NotVisited(w.visits)) \in 0 .. FeatureCount
         /\ Len(w.work) \in Nat /\ Budget(w) \in Nat
<1>1. FeatureCount \in Nat /\ IsFiniteSet(Features) /\ Cardinality(Features) = FeatureCount
  BY FeaturesFinite
<1>2. NotVisited(w.visits) \subseteq Features
  BY DEF NotVisited
<1>3. Cardinality(NotVisited(w.visits)) \in Nat /\ Cardinality(NotVisited(w.visits)) <= FeatureCount
  BY <1>1, <1>2, FS_Subset, FS_CardinalityType
<1>4. Len(w.work) \in Nat
  BY WalkHas
<1>5. \A l, c, d \in Nat : l + c * (1 + 3 * d) \in Nat
  OBVIOUS
<1>. QED
  BY <1>1, <1>3, <1>4, <1>5 DEF Budget

(* So does every visit of a walk that is not over. *)
LEMMA VisitKeeps ==
  ASSUME FeaturesTypeOK, NEW G \in SUBSET Features, NEW w, WalkOK(G, w),
         w.found = "nothing", w.work # << >>
  PROVE  Better(G, w, Visit(w))
<1>. DEFINE item == Top(w)
            f == item.name
            rest == Rest(w)
            entered == Enters(w)
            left == Leaves(w)
            todo == ToVisit(f, entered)
            more == More(w)
<1>1. w \in Walks /\ SearchOK(G, w.visits, w.work)
  BY DEF WalkOK
<1>2. w.visits \in Visits /\ w.work \in Seq(Items)
  BY <1>1, WalkHas
<1>3. /\ item \in Items /\ rest \in Seq(Items) /\ Len(w.work) \in Nat \ {0}
      /\ Len(rest) = Len(w.work) - 1 /\ item = w.work[Len(w.work)]
  BY <1>2, FrontIs DEF Top, Rest
<1>4. f \in Features /\ item.kind \in {"Enter", "Exit"} /\ item.depth \in Nat
  BY <1>3 DEF Items
<1>5. /\ entered \in Visits /\ \A g \in Features : entered[g] = IF g = f THEN "Visiting" ELSE w.visits[g]
      /\ left \in Visits /\ \A g \in Features : left[g] = IF g = f THEN "Visited" ELSE w.visits[g]
  BY <1>2, <1>4 DEF Visits, Enters, Leaves, Top
<1>6. w.visits[f] \in {"Unvisited", "Visiting", "Visited"}
  BY <1>2, <1>4 DEF Visits
<1>7. FeatureCount \in Nat /\ kMaxValidationDepth \in Nat
  BY FeaturesAssumption
<1>. HIDE DEF f, todo
<1>8. ASSUME NEW visits \in Visits, NEW work \in Seq(Items), NEW v,
             v = Moved(w, visits, work), SearchOK(G, visits, work)
      PROVE  WalkOK(G, v) /\ v \in Walks /\ v.visits = visits /\ v.work = work
  <2>1. v \in Walks /\ v.found = w.found /\ v.visits = visits /\ v.work = work
    BY <1>1, <1>8, WalkMoved
  <2>. QED
    BY <1>8, <2>1 DEF WalkOK
<1>9. ASSUME NEW v, v = Ended(w, "cycle"), \E g \in Features : Cyclic(g)
      PROVE  Better(G, w, v)
  <2>1. v \in Walks /\ v.found = "cycle"
    BY <1>1, <1>9, WalkEnded
  <2>. QED
    BY <1>9, <2>1 DEF WalkOK, Better
<1>10. ASSUME NEW v, WalkOK(G, v), v \in Walks, Len(v.work) = Len(w.work) - 1,
              NotVisited(v.visits) = NotVisited(w.visits)
       PROVE  Better(G, w, v)
  <2>1. Budget(v) \in Nat /\ Budget(w) \in Nat /\ Len(v.work) < Len(w.work)
    BY <1>1, <1>3, <1>10, BudgetIs
  <2>2. Cardinality(NotVisited(w.visits)) * (1 + 3 * FeatureCount) \in Nat
    <3>1. Cardinality(NotVisited(w.visits)) \in Nat
      BY <1>1, BudgetIs
    <3>2. \A c, d \in Nat : c * (1 + 3 * d) \in Nat
      OBVIOUS
    <3>. QED
      BY <1>7, <3>1, <3>2
  <2>3. Len(v.work) \in Nat
    BY <1>10, BudgetIs
  <2>4. Budget(v) < Budget(w)
    <3>. DEFINE rhs == Cardinality(NotVisited(w.visits)) * (1 + 3 * FeatureCount)
    <3>1. Budget(v) = Len(v.work) + rhs /\ Budget(w) = Len(w.work) + rhs /\ rhs \in Nat
      BY <1>10, <2>2 DEF Budget
    <3>. HIDE DEF rhs
    <3>. QED
      BY <1>3, <2>1, <2>3, <3>1
  <2>. QED
    BY <1>10, <2>1, <2>4 DEF Better
<1>. DEFINE v == Visit(w)
<1>11. CASE item.kind = "Exit" /\ v = Moved(w, left, rest)
  <2>1. SearchOK(G, left, rest)
    BY <1>1, <1>11, LeaveKeeps DEF Leaves, Rest, Top
  <2>2. w.visits[f] = "Visiting"
    BY <1>1, <1>3, <1>11 DEF SearchOK, Marked, f
  <2>3. NotVisited(left) = NotVisited(w.visits)
    BY <1>5, <2>2 DEF NotVisited
  <2>. QED
    BY <1>3, <1>5, <1>8, <1>10, <1>11, <2>1, <2>3
<1>12. CASE item.depth > kMaxValidationDepth /\ v = Ended(w, "depth")
  <2>1. v \in Walks /\ v.found = "depth"
    BY <1>1, <1>12, WalkEnded
  <2>2. item.depth <= FeatureCount
    BY <1>1, NotDeeper DEF Top
  <2>3. FeatureCount > kMaxValidationDepth
    BY <1>4, <1>7, <1>12, <2>2
  <2>. QED
    BY <2>1, <2>3 DEF WalkOK, Better
<1>13. CASE item.kind # "Exit" /\ w.visits[f] = "Visiting" /\ v = Ended(w, "cycle")
  <2>1. Cyclic(f)
    BY <1>1, <1>4, <1>13, AgainIsCycle DEF Cyclic, Top, f
  <2>. QED
    BY <1>4, <1>9, <1>13, <2>1
<1>14. CASE /\ item.kind # "Exit" /\ w.visits[f] = "Visited"
            /\ v = Moved(w, w.visits, rest)
  <2>1. SearchOK(G, w.visits, rest)
    BY <1>1, <1>4, <1>14, SkipKeeps DEF Rest, Top, f
  <2>. QED
    BY <1>2, <1>3, <1>8, <1>10, <1>14, <2>1
<1>15. CASE /\ item.kind # "Exit" /\ \E g \in NeededBy(f) : entered[g] = "Visiting"
            /\ v = Ended(w, "cycle")
  <2>1. PICK g \in NeededBy(f) : entered[g] = "Visiting"
    BY <1>15
  <2>2. g = f \/ w.visits[g] = "Visiting"
    <3>1. g \in Features
      BY DEF NeededBy
    <3>. QED
      BY <1>5, <2>1, <3>1
  <2>3. g \in Features /\ Cyclic(g)
    BY <1>1, <1>4, <1>15, <2>1, <2>2, BackIsCycle DEF Top, f
  <2>. QED
    BY <1>9, <1>15, <2>3
<1>16. CASE /\ item.kind # "Exit" /\ w.visits[f] = "Unvisited"
            /\ \A g \in NeededBy(f) : entered[g] # "Visiting"
            /\ v = Moved(w, entered, more)
  <2>1. /\ todo \in Seq(Features) /\ Len(todo) <= 3 * FeatureCount
        /\ ToSet(todo) = {g \in NeededBy(f) : entered[g] = "Unvisited"}
    BY <1>4, <1>5, ToVisitIs DEF todo
  <2>2. EnteredIs(w.work, todo, more)
    BY <1>1, <1>2, <2>1, EnteredHas DEF More, todo, f, Top
  <2>3. more \in Seq(Items) /\ Len(more) = Len(w.work) + Len(todo)
    BY <2>2 DEF EnteredIs
  <2>4. SearchOK(G, entered, more)
    BY <1>1, <1>4, <1>16, <2>1, <2>2, EnterKeeps DEF Enters, Top, f
  <2>5. WalkOK(G, v) /\ v \in Walks /\ v.visits = entered /\ v.work = more
    BY <1>5, <1>8, <1>16, <2>3, <2>4
  <2>6. Cardinality(NotVisited(entered)) = Cardinality(NotVisited(w.visits)) - 1
    <3>1. NotVisited(entered) = NotVisited(w.visits) \ {f} /\ f \in NotVisited(w.visits)
      BY <1>4, <1>5, <1>16 DEF NotVisited
    <3>2. IsFiniteSet(NotVisited(w.visits))
      <4>1. NotVisited(w.visits) \subseteq Features /\ IsFiniteSet(Features)
        BY FeaturesFinite DEF NotVisited
      <4>. QED
        BY <4>1, FS_Subset
    <3>. QED
      BY <3>1, <3>2, FS_RemoveElement
  <2>7. \A l, m, c, d \in Nat : c >= 1 /\ m <= 3 * d =>
          (l + m) + (c - 1) * (1 + 3 * d) < l + c * (1 + 3 * d)
    <3>1. ASSUME NEW c \in Nat, NEW d \in Nat PROVE (c - 1) * (1 + 3 * d) = c * (1 + 3 * d) - (1 + 3 * d)
      OBVIOUS
    <3>2. \A c, d \in Nat : c * (1 + 3 * d) \in Nat
      OBVIOUS
    <3>3. ASSUME NEW l \in Nat, NEW m \in Nat, NEW c \in Nat, NEW d \in Nat, c >= 1, m <= 3 * d
          PROVE  (l + m) + (c - 1) * (1 + 3 * d) < l + c * (1 + 3 * d)
      <4>. DEFINE x == c * (1 + 3 * d)
                  y == (c - 1) * (1 + 3 * d)
      <4>1. y = x - (1 + 3 * d) /\ x \in Nat
        BY <3>1, <3>2
      <4>. HIDE DEF x, y
      <4>2. (l + m) + y < l + x
        BY <3>3, <4>1
      <4>. QED
        BY <4>2 DEF x, y
    <3>. QED
      BY <3>3
  <2>8. Cardinality(NotVisited(w.visits)) \in Nat /\ Cardinality(NotVisited(entered)) \in Nat
    BY <1>1, <2>5, BudgetIs
  <2>9. Cardinality(NotVisited(w.visits)) >= 1 /\ Len(todo) \in Nat /\ Len(w.work) \in Nat
    BY <1>3, <2>1, <2>6, <2>8
  <2>10. Budget(v) < Budget(w)
    <3>. DEFINE l == Len(w.work)
                m == Len(todo)
                c == Cardinality(NotVisited(w.visits))
    <3>1. Budget(v) = (l + m) + (c - 1) * (1 + 3 * FeatureCount)
      BY <2>3, <2>5, <2>6 DEF Budget
    <3>2. Budget(w) = l + c * (1 + 3 * FeatureCount)
      BY DEF Budget
    <3>3. l \in Nat /\ m \in Nat /\ c \in Nat /\ c >= 1 /\ m <= 3 * FeatureCount
      BY <2>1, <2>8, <2>9
    <3>. HIDE DEF l, m, c
    <3>. QED
      BY <1>7, <2>7, <3>1, <3>2, <3>3
  <2>. QED
    BY <2>5, <2>10, BudgetIs DEF Better
<1>. HIDE DEF v
<1>17. \/ item.kind = "Exit" /\ v = Moved(w, left, rest)
       \/ item.depth > kMaxValidationDepth /\ v = Ended(w, "depth")
       \/ item.kind # "Exit" /\ w.visits[f] = "Visiting" /\ v = Ended(w, "cycle")
       \/ item.kind # "Exit" /\ w.visits[f] = "Visited" /\ v = Moved(w, w.visits, rest)
       \/ /\ item.kind # "Exit" /\ \E g \in NeededBy(f) : entered[g] = "Visiting"
          /\ v = Ended(w, "cycle")
       \/ /\ item.kind # "Exit" /\ w.visits[f] # "Visiting" /\ w.visits[f] # "Visited"
          /\ \A g \in NeededBy(f) : entered[g] # "Visiting"
          /\ v = Moved(w, entered, more)
  BY VisitIs DEF v, f
<1>. QED
  BY <1>6, <1>11, <1>12, <1>13, <1>14, <1>15, <1>16, <1>17 DEF v

(* A walk is over when it found something or its list is empty. *)
Over(w) == w.found # "nothing" \/ w.work = << >>

(* A walk starts with no more to do than MaxVisits. *)
LEMMA MaxVisitsIs ==
  /\ MaxVisits \in Nat
  /\ \A c \in 0 .. FeatureCount : 1 + c * (1 + 3 * FeatureCount) <= MaxVisits
<1>1. FeatureCount \in Nat
  BY FeaturesFinite
<1>2. \A d \in Nat : d * (1 + 3 * d) \in Nat
  OBVIOUS
<1>3. ASSUME NEW c \in Nat, NEW d \in Nat, NEW e \in Nat, c <= d
      PROVE  c * (1 + 3 * e) <= d * (1 + 3 * e)
  <2>1. d - c \in Nat /\ d * (1 + 3 * e) = c * (1 + 3 * e) + (d - c) * (1 + 3 * e)
    BY <1>3
  <2>2. \A i, j \in Nat : i * (1 + 3 * j) \in Nat
    OBVIOUS
  <2>. DEFINE x == (d - c) * (1 + 3 * e)
              y == c * (1 + 3 * e)
  <2>3. x \in Nat /\ y \in Nat /\ d * (1 + 3 * e) = y + x
    BY <2>1, <2>2
  <2>. HIDE DEF x
  <2>4. y <= y + x
    <3>1. \A i, j \in Nat : i <= i + j
      OBVIOUS
    <3>. HIDE DEF y
    <3>. QED
      BY <2>3, <3>1
  <2>. QED
    BY <2>3, <2>4
<1>4. ASSUME NEW c \in 0 .. FeatureCount
      PROVE  1 + c * (1 + 3 * FeatureCount) <= 1 + FeatureCount * (1 + 3 * FeatureCount)
  <2>. DEFINE x == c * (1 + 3 * FeatureCount)
              y == FeatureCount * (1 + 3 * FeatureCount)
  <2>1. c \in Nat /\ c <= FeatureCount
    BY <1>1
  <2>2. x <= y
    BY <1>1, <1>3, <2>1
  <2>3. x \in Nat /\ y \in Nat
    <3>1. \A i, j \in Nat : i * (1 + 3 * j) \in Nat
      OBVIOUS
    <3>. QED
      BY <1>1, <2>1, <3>1
  <2>. HIDE DEF x, y
  <2>4. 1 + x <= 1 + y
    BY <2>2, <2>3
  <2>. QED
    BY <2>4 DEF x, y
<1>5. MaxVisits \in Nat
  <2>. DEFINE y == FeatureCount * (1 + 3 * FeatureCount)
  <2>1. y \in Nat
    BY <1>1, <1>2
  <2>. HIDE DEF y
  <2>2. 1 + y \in Nat
    BY <2>1
  <2>. QED
    BY <2>2 DEF MaxVisits, y
<1>. QED
  BY <1>4, <1>5 DEF MaxVisits

(* An item for a feature begins a walk. *)
Begin(f) == <<[kind |-> "Enter", name |-> f, depth |-> 0]>>

(* A walk begins with what those before it found. *)
LEMMA WalkBegins ==
  ASSUME NEW f \in Features, NEW w, WalkOK(1 .. f - 1, w), w.found = "nothing", w.work = << >>,
         NEW v, v = Moved(w, w.visits, Begin(f))
  PROVE  WalkOK(1 .. f, v) /\ v \in Walks /\ (Over(v) \/ Budget(v) <= MaxVisits)
<1>. DEFINE b == Begin(f)
<1>1. w \in Walks /\ SearchOK(1 .. f - 1, w.visits, w.work)
  BY DEF WalkOK
<1>2. w.visits \in Visits
  BY <1>1, WalkHas
<1>3. [kind |-> "Enter", name |-> f, depth |-> 0] \in Items
  BY DEF Items
<1>4. /\ b \in Seq(Items) /\ Len(b) = 1
      /\ b[1].kind = "Enter" /\ b[1].name = f /\ b[1].depth = 0
  BY <1>3 DEF Begin
<1>5. v \in Walks /\ v.found = "nothing" /\ v.visits = w.visits /\ v.work = b
  BY <1>1, <1>2, <1>4, WalkMoved
<1>. HIDE DEF b
<1>6. 1 .. Len(b) = {1}
  BY <1>4
<1>7. Marked(w.visits, b)
  <2>1. \A g \in Features : w.visits[g] # "Visiting"
    <3>1. Len(w.work) = 0 /\ 1 .. Len(w.work) = {}
      OBVIOUS
    <3>. QED
      BY <1>1, <3>1 DEF SearchOK, Marked
  <2>. QED
    BY <1>4, <1>6, <2>1 DEF Marked
<1>8. Linked(b) /\ Promised(w.visits, b)
  BY <1>4, <1>6 DEF Linked, Promised
<1>9. Deep(b)
  <2>1. Below(b, 1) = {}
    BY DEF Below
  <2>2. Cardinality({}) = 0
    BY FS_EmptySet
  <2>. QED
    BY <1>4, <1>6, <2>1, <2>2 DEF Deep
<1>10. Seen(1 .. f, w.visits, b)
  <2>1. ASSUME NEW g \in 1 .. f PROVE w.visits[g] = "Visited" \/ g = f
    <3>1. f \in Nat
      BY FeaturesFinite
    <3>2. g = f \/ g \in 1 .. f - 1
      BY <3>1
    <3>3. 1 .. Len(w.work) = {}
      OBVIOUS
    <3>. QED
      BY <1>1, <3>2, <3>3 DEF SearchOK, Seen
  <2>. QED
    BY <1>4, <1>6, <2>1 DEF Seen
<1>11. SearchOK(1 .. f, w.visits, b)
  <2>1. Finished(w.visits)
    BY <1>1 DEF SearchOK
  <2>. QED
    BY <1>2, <1>4, <1>7, <1>8, <1>9, <1>10, <2>1 DEF SearchOK
<1>12. Budget(v) <= MaxVisits
  <2>1. Cardinality(NotVisited(v.visits)) \in 0 .. FeatureCount
    BY <1>5, BudgetIs
  <2>2. Budget(v) = 1 + Cardinality(NotVisited(v.visits)) * (1 + 3 * FeatureCount)
    BY <1>4, <1>5 DEF Budget
  <2>. QED
    BY <2>1, <2>2, MaxVisitsIs
<1>. QED
  BY <1>5, <1>11, <1>12 DEF WalkOK

(* The walk from a feature is over when Walk() is. *)
LEMMA WalkEnds ==
  ASSUME FeaturesTypeOK, NEW f \in Features, NEW w, WalkOK(1 .. f - 1, w),
         w.found = "nothing", w.work = << >>
  PROVE  WalkOK(1 .. f, Walk(f, w)) /\ Over(Walk(f, w))
<1>. DEFINE G == 1 .. f
            start == Moved(w, w.visits, Begin(f))
            step == [n \in 1 .. MaxVisits |-> [x \in Walks |->
                       IF x.found # "nothing" \/ x.work = << >> THEN x ELSE Visit(x)]]
            P == [k \in 0 .. MaxVisits |->
                    {x \in Walks : WalkOK(G, x) /\ (Over(x) \/ Budget(x) + k <= MaxVisits)}]
<1>1. MaxVisits \in Nat
  BY MaxVisitsIs
<1>2. Walk(f, w) = After(step, start, MaxVisits)
  <2>1. [w EXCEPT !.work = <<[kind |-> "Enter", name |-> f, depth |-> 0]>>] = start
    BY DEF Moved, Begin
  <2>. QED
    BY <2>1 DEF Walk
<1>3. \A k \in 1 .. MaxVisits : \A x \in Walks :
        step[k][x] = IF Over(x) THEN x ELSE Visit(x)
  BY DEF Over
<1>4. \A k \in 0 .. MaxVisits : \A x :
        x \in P[k] <=> x \in Walks /\ WalkOK(G, x) /\ (Over(x) \/ Budget(x) + k <= MaxVisits)
  OBVIOUS
<1>5. G \in SUBSET Features
  <2>1. f \in 1 .. FeatureCount /\ FeatureCount \in Nat /\ Features = 1 .. FeatureCount
    BY FeaturesFinite
  <2>. QED
    BY <2>1
<1>6. start \in Walks /\ WalkOK(G, start) /\ (Over(start) \/ Budget(start) <= MaxVisits)
  BY WalkBegins
<1>. HIDE DEF P, step, start, G
<1>7. start \in P[0]
  <2>1. Over(start) \/ Budget(start) + 0 <= MaxVisits
    <3>1. Budget(start) \in Nat
      BY <1>6, BudgetIs
    <3>. QED
      BY <1>6, <3>1
  <2>. QED
    BY <1>1, <1>4, <1>6, <2>1
<1>8. ASSUME NEW k \in 1 .. MaxVisits, NEW x \in P[k - 1] PROVE step[k][x] \in P[k]
  <2>0. k - 1 \in 0 .. MaxVisits /\ k \in 0 .. MaxVisits /\ k \in Nat
    BY <1>1
  <2>1. x \in Walks /\ WalkOK(G, x) /\ (Over(x) \/ Budget(x) + (k - 1) <= MaxVisits)
    BY <1>4, <2>0
  <2>2. CASE Over(x)
    <3>1. step[k][x] = x
      BY <1>3, <2>1, <2>2
    <3>. QED
      BY <1>4, <2>0, <2>1, <2>2, <3>1
  <2>3. CASE ~Over(x)
    <3>1. step[k][x] = Visit(x)
      BY <1>3, <2>1, <2>3
    <3>2. x.found = "nothing" /\ x.work # << >>
      BY <2>3 DEF Over
    <3>3. Better(G, x, Visit(x))
      BY <1>5, <2>1, <3>2, VisitKeeps
    <3>4. WalkOK(G, Visit(x)) /\ Visit(x) \in Walks
      BY <3>3 DEF Better, WalkOK
    <3>5. Over(Visit(x)) \/ Budget(Visit(x)) + k <= MaxVisits
      <4>1. ASSUME ~Over(Visit(x)) PROVE Budget(Visit(x)) + k <= MaxVisits
        <5>1. Budget(Visit(x)) \in Nat /\ Budget(Visit(x)) < Budget(x)
          BY <3>3, <4>1 DEF Over, Better
        <5>2. Budget(x) \in Nat
          BY <2>1, BudgetIs
        <5>. QED
          BY <1>1, <2>0, <2>1, <2>3, <5>1, <5>2
      <4>. QED
        BY <4>1
    <3>. QED
      BY <1>4, <2>0, <3>1, <3>4, <3>5
  <2>. QED
    BY <2>2, <2>3
<1>9. After(step, start, MaxVisits) \in P[MaxVisits]
  BY <1>1, <1>7, <1>8, AfterLeads
<1>. DEFINE end == After(step, start, MaxVisits)
<1>. HIDE DEF end
<1>10. end \in Walks /\ WalkOK(G, end) /\ (Over(end) \/ Budget(end) + MaxVisits <= MaxVisits)
  <2>1. MaxVisits \in 0 .. MaxVisits
    BY <1>1
  <2>. QED
    BY <1>4, <1>9, <2>1 DEF end
<1>11. Over(end)
  <2>1. ASSUME Budget(end) + MaxVisits <= MaxVisits PROVE end.work = << >>
    <3>. DEFINE rhs == Cardinality(NotVisited(end.visits)) * (1 + 3 * FeatureCount)
    <3>1. Budget(end) = Len(end.work) + rhs /\ Budget(end) \in Nat /\ Len(end.work) \in Nat
      BY <1>10, BudgetIs DEF Budget
    <3>2. rhs \in Nat
      <4>1. Cardinality(NotVisited(end.visits)) \in Nat /\ FeatureCount \in Nat
        BY <1>10, BudgetIs, FeaturesFinite
      <4>2. \A c, d \in Nat : c * (1 + 3 * d) \in Nat
        OBVIOUS
      <4>. QED
        BY <4>1, <4>2
    <3>. HIDE DEF rhs
    <3>3. Len(end.work) = 0
      BY <1>1, <2>1, <3>1, <3>2
    <3>4. end.work \in Seq(Items)
      BY <1>10, WalkHas
    <3>. QED
      BY <3>3, <3>4
  <2>. QED
    BY <1>10, <2>1 DEF Over
<1>. QED
  BY <1>2, <1>10, <1>11 DEF end, G

(* The walks from the first features leave those visited, or found          *)
(* something.                                                               *)
LEMMA DetectedIs ==
  ASSUME FeaturesTypeOK
  PROVE  \E w \in Walks : Detected = w.found /\ WalkOK(Features, w) /\ Over(w)
<1>. DEFINE step == [f \in Features |-> [w \in Walks |->
                       IF w.found # "nothing" \/ w.visits[f] # "Unvisited" THEN w ELSE Walk(f, w)]]
            none == [f \in Features |-> "Unvisited"]
            start == [found |-> "nothing", visits |-> none, work |-> << >>]
            P == [k \in 0 .. FeatureCount |-> {w \in Walks : WalkOK(1 .. k, w) /\ Over(w)}]
<1>1. FeatureCount \in Nat /\ Features = 1 .. FeatureCount
  BY FeaturesFinite
<1>2. Detected = After(step, start, FeatureCount).found
  BY DEF Detected
<1>3. \A k \in Features : \A w \in Walks :
        step[k][w] = IF w.found # "nothing" \/ w.visits[k] # "Unvisited" THEN w ELSE Walk(k, w)
  OBVIOUS
<1>4. \A k \in 0 .. FeatureCount : \A w : w \in P[k] <=> w \in Walks /\ WalkOK(1 .. k, w) /\ Over(w)
  OBVIOUS
<1>5. none \in Visits /\ \A f \in Features : none[f] = "Unvisited"
  BY DEF Visits
<1>. HIDE DEF P, step, none
<1>6. << >> \in Seq(Items) /\ Len(<< >>) = 0
  OBVIOUS
<1>7. start.found = "nothing" /\ start.visits = none /\ start.work = << >>
  OBVIOUS
<1>8. start \in Walks
  <2>. DEFINE T == Seq(Items)
              F == {"nothing", "cycle", "depth"}
  <2>1. Walks = [found : F, visits : Visits, work : T]
    BY DEF Walks, Visits, Items
  <2>2. << >> \in T /\ "nothing" \in F
    OBVIOUS
  <2>. HIDE DEF T, F
  <2>. QED
    BY <1>5, <2>1, <2>2
<1>. HIDE DEF start
<1>9. WalkOK(1 .. 0, start) /\ Over(start)
  <2>1. SearchOK({}, none, << >>)
    <3>1. 1 .. Len(<< >>) = {}
      BY <1>6
    <3>2. Marked(none, << >>)
      BY <1>5, <3>1 DEF Marked
    <3>3. Finished(none)
      BY <1>5 DEF Finished
    <3>4. Linked(<< >>) /\ Promised(none, << >>) /\ Deep(<< >>) /\ Seen({}, none, << >>)
      BY <3>1 DEF Linked, Promised, Deep, Seen
    <3>. QED
      BY <1>5, <1>6, <3>2, <3>3, <3>4 DEF SearchOK
  <2>2. 1 .. 0 = {}
    OBVIOUS
  <2>. QED
    BY <1>7, <1>8, <2>1, <2>2 DEF WalkOK, Over
<1>10. start \in P[0]
  BY <1>1, <1>4, <1>8, <1>9
<1>11. ASSUME NEW k \in 1 .. FeatureCount, NEW w \in P[k - 1] PROVE step[k][w] \in P[k]
  <2>0. k - 1 \in 0 .. FeatureCount /\ k \in 0 .. FeatureCount /\ k \in Features /\ k \in Nat
    BY <1>1
  <2>1. w \in Walks /\ WalkOK(1 .. k - 1, w) /\ Over(w)
    BY <1>4, <2>0
  <2>2. CASE w.found # "nothing"
    <3>1. step[k][w] = w
      BY <1>3, <2>0, <2>1, <2>2
    <3>2. WalkOK(1 .. k, w)
      BY <2>1, <2>2 DEF WalkOK
    <3>. QED
      BY <1>4, <2>0, <2>1, <3>1, <3>2
  <2>3. CASE w.found = "nothing" /\ w.visits[k] # "Unvisited"
    <3>1. step[k][w] = w
      BY <1>3, <2>0, <2>1, <2>3
    <3>2. w.work = << >> /\ SearchOK(1 .. k - 1, w.visits, w.work)
      BY <2>1, <2>3 DEF Over, WalkOK
    <3>3. 1 .. Len(w.work) = {}
      BY <3>2
    <3>4. w.visits[k] = "Visited"
      <4>1. w.visits \in Visits
        BY <2>1, WalkHas
      <4>2. w.visits[k] # "Visiting"
        BY <2>0, <3>2, <3>3 DEF SearchOK, Marked
      <4>. QED
        BY <2>0, <2>3, <4>1, <4>2 DEF Visits
    <3>5. Seen(1 .. k, w.visits, w.work)
      <4>1. \A g \in 1 .. k : g = k \/ g \in 1 .. k - 1
        BY <2>0
      <4>. QED
        BY <3>2, <3>3, <3>4, <4>1 DEF SearchOK, Seen
    <3>6. SearchOK(1 .. k, w.visits, w.work)
      BY <3>2, <3>5 DEF SearchOK
    <3>7. WalkOK(1 .. k, w)
      BY <2>1, <2>3, <3>6 DEF WalkOK
    <3>. QED
      BY <1>4, <2>0, <2>1, <3>1, <3>7
  <2>4. CASE w.found = "nothing" /\ w.visits[k] = "Unvisited"
    <3>1. step[k][w] = Walk(k, w)
      BY <1>3, <2>0, <2>1, <2>4
    <3>2. w.work = << >>
      BY <2>1, <2>4 DEF Over
    <3>3. WalkOK(1 .. k, Walk(k, w)) /\ Over(Walk(k, w))
      BY <2>0, <2>1, <2>4, <3>2, WalkEnds
    <3>4. Walk(k, w) \in Walks
      BY <3>3 DEF WalkOK
    <3>. QED
      BY <1>4, <2>0, <3>1, <3>3, <3>4
  <2>. QED
    BY <2>2, <2>3, <2>4
<1>12. After(step, start, FeatureCount) \in P[FeatureCount]
  BY <1>1, <1>10, <1>11, AfterLeads
<1>. DEFINE end == After(step, start, FeatureCount)
<1>13. end \in Walks /\ WalkOK(Features, end) /\ Over(end)
  <2>1. FeatureCount \in 0 .. FeatureCount
    BY <1>1
  <2>. HIDE DEF end
  <2>2. end \in P[FeatureCount]
    BY <1>12 DEF end
  <2>3. end \in Walks /\ WalkOK(1 .. FeatureCount, end) /\ Over(end)
    BY <1>4, <2>1, <2>2
  <2>. QED
    BY <1>1, <2>3
<1>. QED
  BY <1>2, <1>13

(* The cycle that is reported is there, none is missed, and only more       *)
(* features than the limit are too deep.                                    *)
LEMMA CyclesAreFound ==
  ASSUME FeaturesTypeOK
  PROVE  CycleDetectionIsExact
<1>1. PICK w \in Walks : Detected = w.found /\ WalkOK(Features, w) /\ Over(w)
  BY DetectedIs
<1>2. w.found = "nothing" => \A f \in Features : ~Cyclic(f)
  <2>1. ASSUME w.found = "nothing", NEW f \in Features PROVE ~Cyclic(f)
    <3>1. w.work = << >> /\ SearchOK(Features, w.visits, w.work)
      BY <1>1, <2>1 DEF Over, WalkOK
    <3>2. 1 .. Len(w.work) = {}
      BY <3>1
    <3>3. w.visits[f] = "Visited"
      BY <3>1, <3>2 DEF SearchOK, Seen
    <3>. QED
      BY <3>1, <3>3 DEF SearchOK, Finished
  <2>. QED
    BY <2>1
<1>3. /\ w.found = "cycle" => \E f \in Features : Cyclic(f)
      /\ w.found = "depth" => FeatureCount > kMaxValidationDepth
  BY <1>1 DEF WalkOK
<1>. QED
  BY <1>1, <1>2, <1>3 DEF CycleDetectionIsExact, Cyclic

(* A plan is refused for a cycle only if there is one, does nothing that    *)
(* was not asked for, and is reported as it was carried out: for any number *)
(* of features, any relationships between them and any depth of planning.   *)
THEOREM PlansSound == FeaturesSpec => []PlansAreSound
<1>1. FeaturesTypeOK => PlansAreSound
  BY PlansExplained, CyclesAreFound DEF PlansAreSound
<1>. QED
  BY <1>1, FeaturesTyped, PTL
=============================================================================
