----------------------------- MODULE RateLimiter -----------------------------
(***************************************************************************)
(* include/fat_p/RateLimiter.h: a client of one of the three limiters.      *)
(* Every call is one critical section that reads the clock inside it.       *)
(*                                                                         *)
(* Time is counted in ticks, and a token takes TicksPerToken of them: mRate *)
(* is 1 / TicksPerToken, and mTokens is kept in these fractions of a token. *)
(* TokenBucketRateLimiter::acquire() is try_acquire() until a deadline.     *)
(***************************************************************************)
EXTENDS Naturals, Sequences, FiniteSetsExt

CONSTANTS
  TicksPerToken,   \* 1 / mRate, of the token and of the leaky bucket
  BucketCapacity,  \* mCapacity of both, in tokens
  MaxCount,        \* bound: tokens asked for at a time
  MaxRequests,     \* mMaxRequests of the sliding window
  WindowDuration,  \* mWindowDuration
  MaxNow,          \* bound: ticks
  MaxGrants        \* bound: tokens granted

ASSUME LimiterAssumption ==
  /\ {TicksPerToken, BucketCapacity, MaxCount, MaxRequests} \subseteq Nat \ {0}
  /\ {WindowDuration, MaxNow, MaxGrants} \subseteq Nat

VARIABLES
  limiter,      \* the limiter in use: "token", "window" or "leaky"
  now,          \* Clock::now()
  mTokens, mLastRefill,
  mTimestamps,
  mQueueSize, mLastLeak,
  granted       \* history: when each token was let through since reset()

limiterVars ==
  <<limiter, now, mTokens, mLastRefill, mTimestamps, mQueueSize, mLastLeak, granted>>

Full == BucketCapacity * TicksPerToken

LimiterInit ==
  /\ limiter \in {"token", "window", "leaky"}
  /\ now = 0
  /\ mTokens = Full /\ mLastRefill = 0
  /\ mTimestamps = << >>
  /\ mQueueSize = 0 /\ mLastLeak = 0
  /\ granted = << >>

Tick == now < MaxNow /\ now' = now + 1
        /\ UNCHANGED <<limiter, mTokens, mLastRefill, mTimestamps, mQueueSize, mLastLeak, granted>>

Grant(count) ==
  /\ Len(granted) + count <= MaxGrants
  /\ granted' = granted \o [n \in 1 .. count |-> now]

-----------------------------------------------------------------------------
TokenOthers == <<limiter, now, mTimestamps, mQueueSize, mLastLeak>>

Refilled == Min({mTokens + (now - mLastRefill), Full})

(* try_acquire(count): refill_tokens(), then take them or refuse. *)
TryAcquireTokens(count) ==
  /\ \/ /\ Refilled >= count * TicksPerToken
        /\ mTokens' = Refilled - count * TicksPerToken
        /\ Grant(count)
     \/ /\ Refilled < count * TicksPerToken
        /\ mTokens' = Refilled
        /\ UNCHANGED granted
  /\ mLastRefill' = now
  /\ UNCHANGED TokenOthers

AvailableTokens == mTokens' = Refilled /\ mLastRefill' = now /\ UNCHANGED <<granted, TokenOthers>>

ResetTokens == mTokens' = Full /\ mLastRefill' = now /\ granted' = << >> /\ UNCHANGED TokenOthers

-----------------------------------------------------------------------------
WindowOthers == <<limiter, now, mTokens, mLastRefill, mQueueSize, mLastLeak>>

(* The timestamps are in the order of time, so what is old comes first. *)
Without(old) == SubSeq(mTimestamps, Max({0} \cup old) + 1, Len(mTimestamps))

(* Fault: drops what is exactly one window old. *)
Fault_DropTheEdge == Without({n \in DOMAIN mTimestamps : mTimestamps[n] + WindowDuration <= now})

(* cleanup_old_timestamps(): what is older than the window goes. *)
Recent == Without({n \in DOMAIN mTimestamps : mTimestamps[n] + WindowDuration < now})

TryAcquireWindow ==
  /\ \/ Len(Recent) < MaxRequests /\ mTimestamps' = Append(Recent, now) /\ Grant(1)
     \/ Len(Recent) >= MaxRequests /\ mTimestamps' = Recent /\ UNCHANGED granted
  /\ UNCHANGED WindowOthers

CurrentCount == mTimestamps' = Recent /\ UNCHANGED <<granted, WindowOthers>>
ResetWindow == mTimestamps' = << >> /\ granted' = << >> /\ UNCHANGED WindowOthers

-----------------------------------------------------------------------------
LeakyOthers == <<limiter, now, mTokens, mLastRefill, mTimestamps>>

(* leak(): whole requests only; the rest of the time leaks later. *)
Leaked == (now - mLastLeak) \div TicksPerToken
AfterLeak == IF Leaked >= mQueueSize THEN 0 ELSE mQueueSize - Leaked
LeakedUpTo == mLastLeak + Leaked * TicksPerToken

TryAcquireLeaky ==
  /\ \/ AfterLeak < BucketCapacity /\ mQueueSize' = AfterLeak + 1 /\ Grant(1)
     \/ AfterLeak >= BucketCapacity /\ mQueueSize' = AfterLeak /\ UNCHANGED granted
  /\ mLastLeak' = LeakedUpTo
  /\ UNCHANGED LeakyOthers

QueueSize == mQueueSize' = AfterLeak /\ mLastLeak' = LeakedUpTo /\ UNCHANGED <<granted, LeakyOthers>>
ResetLeaky == mQueueSize' = 0 /\ mLastLeak' = now /\ granted' = << >> /\ UNCHANGED LeakyOthers

TokenNext == (\E count \in 1 .. MaxCount : TryAcquireTokens(count)) \/ AvailableTokens \/ ResetTokens
WindowNext == TryAcquireWindow \/ CurrentCount \/ ResetWindow
LeakyNext == TryAcquireLeaky \/ QueueSize \/ ResetLeaky

LimiterNext ==
  \/ Tick
  \/ limiter = "token" /\ TokenNext
  \/ limiter = "window" /\ WindowNext
  \/ limiter = "leaky" /\ LeakyNext

LimiterSpec == LimiterInit /\ [][LimiterNext]_limiterVars

-----------------------------------------------------------------------------
LimiterTypeOK ==
  /\ now \in 0 .. MaxNow
  /\ mTokens \in 0 .. Full /\ mLastRefill \in 0 .. now
  /\ mTimestamps \in Seq(0 .. now) /\ Len(mTimestamps) <= MaxRequests
  /\ mQueueSize \in 0 .. BucketCapacity /\ mLastLeak \in 0 .. now

(* The time from the i-th token to the j-th. *)
Span(i, j) == granted[j] - granted[i]

(* "Allows bursts up to capacity, then throttles to refill rate": in no     *)
(* interval of time more than a burst and what the interval refills.        *)
BurstThenRate ==
  limiter = "token" => \A j \in 1 .. Len(granted) : \A i \in 1 .. j :
    (j - i + 1) * TicksPerToken <= Full + Span(i, j)

(* "Maximum requests allowed in window", wherever the window is laid, both  *)
(* of its ends included.                                                    *)
NoFullerWindow ==
  limiter = "window" => \A j \in 1 .. Len(granted) : \A i \in 1 .. j :
    Span(i, j) <= WindowDuration => j - i < MaxRequests

(* The leaky bucket passes on at its rate: in no interval more than the     *)
(* queue, what leaks in the interval, and the one request whose leaking     *)
(* had begun before.                                                        *)
QueueThenRate ==
  limiter = "leaky" => \A j \in 1 .. Len(granted) : \A i \in 1 .. j :
    (j - i + 1) * TicksPerToken < Full + Span(i, j) + TicksPerToken

(* Each limiter keeps the rate it promises over every interval of time.     *)
RatesAreKept == BurstThenRate /\ NoFullerWindow /\ QueueThenRate
=============================================================================
