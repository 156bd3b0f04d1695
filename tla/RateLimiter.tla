----------------------------- MODULE RateLimiter -----------------------------
(***************************************************************************)
(* The proxy's rate limiter (frontier/proxy/src/plugins/ratelimit.rs): one *)
(* counter per registered key, a sliding window or a token bucket, each    *)
(* behind its own lock.  check_rate_limit reads the clock before it takes  *)
(* the lock, so that two checks may record their times the other way       *)
(* round.                                                                  *)
(*                                                                         *)
(* Tokens are counted in units, TokenUnit of them to a token: the code     *)
(* uses floating point.                                                    *)
(***************************************************************************)
EXTENDS Integers, Sequences, FiniteSets

CONSTANTS
    RlKeys,        \* keys
    RlTasks,       \* requests that are checked at the same time
    MaxRequests,   \* max_requests
    Window,        \* window_duration_secs, in ticks
    Burst,         \* burst_size
    TokenUnit,     \* units in a token
    Refill,        \* refill_rate: units per tick
    MaxTime,       \* bound: ticks of the clock
    MaxChecks,     \* bound: allowed requests of a key
    NoKey

ASSUME RateLimiterAssumption ==
    /\ MaxRequests \in Nat /\ Window \in Nat /\ Burst \in Nat
    /\ TokenUnit \in Nat \ {0} /\ Refill \in Nat /\ MaxTime \in Nat /\ MaxChecks \in Nat
    /\ NoKey \notin RlKeys

VARIABLES
    rStrategy,     \* the configured strategy
    rNow,          \* the clock
    rCounter,      \* windows or buckets: the counter of each registered key
    rTask,         \* the key and the time of each check under way
    rAllowed,      \* history: the times of the requests that each key's counter
                   \* allowed since the key was registered, in order
    rLatest        \* history: the time a counter was last used with, -1 once it
                   \* was used with an earlier one

rlVars == <<rStrategy, rNow, rCounter, rTask, rAllowed, rLatest>>

NotChecking == [key |-> NoKey, now |-> 0]
Registered == DOMAIN rCounter

RlTypeOK ==
    /\ rStrategy \in {"SlidingWindow", "TokenBucket"} /\ rNow \in Window .. Window + MaxTime
    /\ Registered \subseteq RlKeys
    /\ \A k \in Registered :
         IF rStrategy = "SlidingWindow" THEN \A r \in rCounter[k] : r.at \in Window .. rNow
         ELSE rCounter[k].tokens \in 0 .. Burst * TokenUnit /\ rCounter[k].lastRefill \in Window .. rNow
    /\ \A t \in RlTasks : rTask[t].key \in RlKeys \cup {NoKey}

\* The clock starts late enough for a window to lie before it.
RlInit ==
    /\ rStrategy \in {"SlidingWindow", "TokenBucket"} /\ rNow = Window
    /\ rCounter = [k \in {} |-> <<>>] /\ rTask = [t \in RlTasks |-> NotChecking]
    /\ rAllowed = [k \in RlKeys |-> <<>>] /\ rLatest = [k \in RlKeys |-> 0]

ClockTick == rNow < Window + MaxTime /\ rNow' = rNow + 1 /\ UNCHANGED <<rStrategy, rCounter, rTask, rAllowed, rLatest>>
-----------------------------------------------------------------------------
\* register_key and remove_key have the limiter to themselves.  A key that is
\* registered again gets a new counter.
NobodyChecks == \A t \in RlTasks : rTask[t] = NotChecking
ForgetKey(k) ==
    /\ rAllowed' = [rAllowed EXCEPT ![k] = <<>>]
    /\ rLatest' = [rLatest EXCEPT ![k] = 0]

NewCounter == IF rStrategy = "SlidingWindow" THEN {} ELSE [tokens |-> Burst * TokenUnit, lastRefill |-> rNow]

RegisterKey ==
    /\ NobodyChecks
    /\ \E k \in RlKeys :
         /\ rCounter' = [i \in Registered \cup {k} |-> IF i = k THEN NewCounter ELSE rCounter[i]]
         /\ ForgetKey(k)
    /\ UNCHANGED <<rStrategy, rNow, rTask>>

RemoveKey ==
    /\ NobodyChecks
    /\ \E k \in Registered : rCounter' = [i \in Registered \ {k} |-> rCounter[i]] /\ ForgetKey(k)
    /\ UNCHANGED <<rStrategy, rNow, rTask>>
-----------------------------------------------------------------------------
\* SlidingWindowCounter::record: the requests of the window that ends now, a set
\* of [at, no] in which a number tells those of the same time apart, and whether
\* there is room for one more.
RetainAfter(requests, now) == {r \in requests : r.at > now - Window}
Retain(requests, now) == {r \in requests : r.at >= now - Window}

Record(requests, now, no) ==
    LET kept == Retain(requests, now)
    IN IF Cardinality(kept) >= MaxRequests THEN [allowed |-> FALSE, counter |-> kept]
       ELSE [allowed |-> TRUE, counter |-> kept \cup {[at |-> now, no |-> no]}]

\* TokenBucket::refill: a time before the last refill adds nothing (Instant's
\* difference saturates), but becomes the time of the last refill.
RefillAt(bucket, now) ==
    LET elapsed == IF now > bucket.lastRefill THEN now - bucket.lastRefill ELSE 0
        filled == bucket.tokens + elapsed * Refill
    IN [tokens |-> IF filled > Burst * TokenUnit THEN Burst * TokenUnit ELSE filled, lastRefill |-> now]

TryConsume(bucket, now) ==
    LET b == RefillAt(bucket, now)
    IN IF b.tokens >= TokenUnit THEN [allowed |-> TRUE, counter |-> [b EXCEPT !.tokens = @ - TokenUnit]]
       ELSE [allowed |-> FALSE, counter |-> b]
-----------------------------------------------------------------------------
(* check_rate_limit *)

\* The time is read; a key that is not registered is always allowed.
ReadClock(t) ==
    /\ rTask[t] = NotChecking
    /\ \E k \in Registered : Len(rAllowed[k]) < MaxChecks /\ rTask' = [rTask EXCEPT ![t] = [key |-> k, now |-> rNow]]
    /\ UNCHANGED <<rStrategy, rNow, rCounter, rAllowed, rLatest>>

\* The counter's lock is held.
CountRequest(t) ==
    /\ rTask[t] # NotChecking
    /\ LET k == rTask[t].key
           at == rTask[t].now
           r == IF rStrategy = "SlidingWindow" THEN Record(rCounter[k], at, Len(rAllowed[k]) + 1)
                ELSE TryConsume(rCounter[k], at)
       IN /\ rCounter' = [rCounter EXCEPT ![k] = r.counter]
          /\ rAllowed' = IF r.allowed THEN [rAllowed EXCEPT ![k] = Append(@, at)] ELSE rAllowed
          /\ rLatest' = [rLatest EXCEPT ![k] = IF at < @ THEN -1 ELSE IF @ = -1 THEN -1 ELSE at]
    /\ rTask' = [rTask EXCEPT ![t] = NotChecking]
    /\ UNCHANGED <<rStrategy, rNow>>

RlNext == ClockTick \/ RegisterKey \/ RemoveKey \/ \E t \in RlTasks : ReadClock(t) \/ CountRequest(t)

RlSpec == RlInit /\ [][RlNext]_rlVars
-----------------------------------------------------------------------------
\* The requests of key k allowed with a time from a to b.
AllowedIn(k, a, b) == Cardinality({i \in DOMAIN rAllowed[k] : rAllowed[k][i] \in a .. b})

\* As long as the checks of a key took its lock in the order in which they read
\* the clock, no window lets more than the configured number of requests
\* through (both ends count, as the code's >= has it), and no interval more
\* than the burst and what was refilled in it.
RatesHold ==
    \A k \in Registered : rLatest[k] # -1 =>
       \A a, b \in Window .. Window + MaxTime : a <= b =>
          IF rStrategy = "SlidingWindow" THEN b - a <= Window => AllowedIn(k, a, b) <= MaxRequests
          ELSE AllowedIn(k, a, b) * TokenUnit <= Burst * TokenUnit + (b - a) * Refill
=============================================================================
