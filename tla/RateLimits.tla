----------------------------- MODULE RateLimits -----------------------------
(***************************************************************************)
(* The rate limiters (internal/api/middleware, enforceRateLimit of          *)
(* api/router.go): each request of a limited route asks for its key, with   *)
(* the limit and the window of the route, first the limiter of Redis, whose *)
(* script is one step, and when that fails the one in the server's memory,  *)
(* which is also the only one of a server without Redis.  A limiter keeps   *)
(* the times at which it admitted a key, here as the numbers of the          *)
(* requests it admitted.  The time of a request is read before the script   *)
(* runs or the lock is taken, so requests may overtake each other.          *)
(***************************************************************************)
EXTENDS Integers, Sequences, FiniteSets, FiniteSetsExt

CONSTANTS
    LimitKeys,      \* the keys: a route's name and a user, token or address
    LimitOf,        \* [LimitKeys -> Nat \ {0}]: requests per window
    WindowOf,       \* [LimitKeys -> Nat \ {0}]
    SweepInterval,  \* memoryRateLimitSweepInterval
    MaxLimited,     \* maxMemoryRateLimiterKeys
    Calls,          \* numbered slots for requests at the same time
    LastTime,       \* bound on the clock
    MaxCalls        \* bound on the requests of a behaviour

ASSUME LimitsOfAssumption ==
    /\ LimitOf \in [LimitKeys -> Nat \ {0}]
    /\ WindowOf \in [LimitKeys -> Nat \ {0}]
    /\ SweepInterval \in Nat /\ MaxLimited \in Nat \ {0}
    /\ Calls \subseteq Nat /\ LastTime \in Nat /\ MaxCalls \in Nat

VARIABLES
    clock,     \* the time
    pending,   \* pending[c]: the key and the time of a request before its answer
    kept,      \* kept[l][k]: the admitted requests whose times limiter l keeps
    lastSweep, \* when the memory limiter last dropped old times of every key
    admitted,  \* history: the times of every admitted request, by limiter and key
    refusal,   \* history: time and Retry-After time of the last refusal since
               \* the last admission
    excused,   \* history: <<limiter, key>> where a time still in the window was
               \* dropped for another key, or a request was overtaken
    latest,    \* history: latest[l]: the latest time limiter l answered for
    askedSoFar \* the requests so far

limitVars == <<clock, pending, kept, lastSweep, admitted, refusal, excused, latest, askedSoFar>>

Limiters == {"redis", "memory"}
Times == 0 .. LastTime
NoAsk == [key |-> "none", time |-> 0]
NoRefusal == [at |-> -1, until |-> -1]

LimitTypeOK ==
    /\ clock \in Times
    /\ pending \in [Calls -> [key : LimitKeys, time : Times] \cup {NoAsk}]
    /\ \A l \in Limiters, k \in LimitKeys :
        /\ admitted[l][k] \in Seq(Times)
        /\ kept[l][k] \subseteq DOMAIN admitted[l][k]
        /\ Cardinality(kept[l][k]) <= LimitOf[k]
        /\ refusal[l][k].at \in Times \cup {-1} /\ refusal[l][k].until \in Int
    /\ lastSweep \in Times \cup {-SweepInterval}
    /\ excused \subseteq Limiters \X LimitKeys
    /\ latest \in [Limiters -> Times]
    /\ askedSoFar \in 0 .. MaxCalls

OfEach(x) == [l \in Limiters |-> [k \in LimitKeys |-> x]]

LimitInit ==
    /\ clock = 0
    /\ pending = [c \in Calls |-> NoAsk]
    /\ kept = OfEach({})
    /\ lastSweep = -SweepInterval
    /\ admitted = OfEach(<<>>)
    /\ refusal = OfEach(NoRefusal)
    /\ excused = {}
    /\ latest = [l \in Limiters |-> 0]
    /\ askedSoFar = 0

LimitTick ==
    /\ clock < LastTime
    /\ clock' = clock + 1
    /\ UNCHANGED <<pending, kept, lastSweep, admitted, refusal, excused, latest, askedSoFar>>

\* A request, in the first free slot, reads the time.
Ask(c) ==
    /\ pending[c] = NoAsk
    /\ \A d \in Calls : d < c => pending[d] # NoAsk
    /\ askedSoFar < MaxCalls
    /\ askedSoFar' = askedSoFar + 1
    /\ \E k \in LimitKeys : pending' = [pending EXCEPT ![c] = [key |-> k, time |-> clock]]
    /\ UNCHANGED <<clock, kept, lastSweep, admitted, refusal, excused, latest>>

\* Mutant: a time at the very edge of the window is kept.
ActiveInclusive(l, k, set, cutoff) == {i \in set : admitted[l][k][i] >= cutoff}

\* Those of a set of requests whose times are after the cutoff.
Active(l, k, set, cutoff) == {i \in set : admitted[l][k][i] > cutoff}

\* Mutant: one request more than the limit is admitted.
FullLate(set, k) == Cardinality(set) > LimitOf[k]

Full(set, k) == Cardinality(set) >= LimitOf[k]

\* What Retry-After counts from: the smallest time in Redis, and in memory the
\* first one, which is a later time when its request was overtaken.
Oldest(l, k, set) ==
    IF l = "redis" THEN Min({admitted[l][k][i] : i \in set}) ELSE admitted[l][k][Min(set)]

\* The answer of limiter l to a request of key k at time t, when it keeps the
\* requests mem of each key.
Answer(l, k, t, mem) ==
    LET active == Active(l, k, mem[k], t - WindowOf[k])
        number == Len(admitted[l][k]) + 1
        end == Oldest(l, k, active) + WindowOf[k]
    IN /\ \/ /\ Full(active, k)
             /\ kept' = [kept EXCEPT ![l] = [mem EXCEPT ![k] = active]]
             /\ refusal' = [refusal EXCEPT ![l][k] =
                    [at |-> t, until |-> IF end - t < 1 THEN t + 1 ELSE end]]
             /\ UNCHANGED admitted
          \/ /\ ~Full(active, k)
             /\ kept' = [kept EXCEPT ![l] = [mem EXCEPT ![k] = active \cup {number}]]
             /\ refusal' = [refusal EXCEPT ![l][k] = NoRefusal]
             /\ admitted' = [admitted EXCEPT ![l][k] = Append(@, t)]
       /\ latest' = [latest EXCEPT ![l] = IF t > @ THEN t ELSE @]

\* The script of Redis.
AllowRedis(c) ==
    LET k == pending[c].key
        t == pending[c].time
    IN /\ pending[c] # NoAsk
       /\ Answer("redis", k, t, kept["redis"])
       /\ excused' = IF latest["redis"] > t THEN excused \cup {<<"redis", k>>} ELSE excused
       /\ pending' = [pending EXCEPT ![c] = NoAsk]
       /\ UNCHANGED <<clock, lastSweep, askedSoFar>>

\* sweepExpired drops the times of every key that are outside the window of
\* the key that is asked for.
Swept(mem, cutoff) == [k \in LimitKeys |-> Active("memory", k, mem[k], cutoff)]

Known(mem) == {k \in LimitKeys : mem[k] # {}}

\* The time of the request kept last.
LastSeen(mem, k) == admitted["memory"][k][Max(mem[k])]

\* evictOldestEntry: with MaxLimited keys, those whose last time is oldest
\* make room for a new key, any of them when they tie.
RoomFor(mem, k) ==
    IF k \in Known(mem) \/ Cardinality(Known(mem)) < MaxLimited THEN {mem}
    ELSE {[mem EXCEPT ![o] = {}] : o \in
            {o \in Known(mem) : \A p \in Known(mem) : LastSeen(mem, o) <= LastSeen(mem, p)}}

\* Redis fails, or is not configured: MemoryRateLimiter.Allow, under its lock.
AllowMemory(c) ==
    LET k == pending[c].key
        t == pending[c].time
        sweeps == t - lastSweep >= SweepInterval
        mem == IF sweeps THEN Swept(kept["memory"], t - WindowOf[k]) ELSE kept["memory"]
    IN /\ pending[c] # NoAsk
       /\ lastSweep' = IF sweeps THEN t ELSE lastSweep
       /\ \E room \in RoomFor(mem, k) :
            /\ Answer("memory", k, t, room)
            /\ excused' = excused \cup
                 {<<"memory", o>> : o \in
                    {o \in LimitKeys :
                        \/ o # k /\ ~(Active("memory", o, kept["memory"][o], t - WindowOf[o]) \subseteq room[o])
                        \/ o = k /\ latest["memory"] > t}}
       /\ pending' = [pending EXCEPT ![c] = NoAsk]
       /\ UNCHANGED <<clock, askedSoFar>>

LimitNext ==
    \/ LimitTick
    \/ \E c \in Calls : Ask(c) \/ AllowRedis(c) \/ AllowMemory(c)

LimitSpec == LimitInit /\ [][LimitNext]_limitVars

-----------------------------------------------------------------------------

\* In every window of a key's length a limiter admits at most the key's limit,
\* unless it dropped times of the key for the sake of another key or let a
\* request overtake another (ratelimit.go:29, redis_ratelimit.go:14).
WindowRespected ==
    \A l \in Limiters, k \in LimitKeys : <<l, k>> \notin excused =>
        \A i \in DOMAIN admitted[l][k] :
            LET last == admitted[l][k][i]
            IN Cardinality({j \in DOMAIN admitted[l][k] :
                    /\ admitted[l][k][j] <= last
                    /\ admitted[l][k][j] > last - WindowOf[k]}) <= LimitOf[k]

\* A client that waits as long as Retry-After says, while nobody else uses the
\* key, is not refused again by the same limiter (ratelimit.go:55,
\* redis_ratelimit.go:28).
RetryAfterSuffices ==
    [][\A l \in Limiters, k \in LimitKeys :
        LET before == refusal[l][k]
            after == refusal'[l][k]
        IN before # NoRefusal /\ after \notin {before, NoRefusal} => after.at < before.until]_limitVars

\* However many keys are asked for, the server's memory holds no more than
\* MaxLimited of them (ratelimit.go:19, 45).
MemoryBounded == Cardinality(Known(kept["memory"])) <= MaxLimited

\* No key gets more than its limit, and no limiter keeps more than it may.
LimitsHold == LimitTypeOK /\ WindowRespected /\ MemoryBounded
=============================================================================
