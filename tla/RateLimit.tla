----------------------------- MODULE RateLimit -----------------------------
(***************************************************************************)
(* The rate limiter: lazily refilled buckets with a sweep (in memory) or   *)
(* an expiry (Redis).                                                      *)
(*                                                                         *)
(* Times are kept as ages: the age of a bucket is how long ago, by the     *)
(* true clock, its time stamp was current, so the model needs no clock     *)
(* that grows.  A caller reads its clock before it takes the mutex, or on  *)
(* another replica, and may be behind the true clock by up to lag ticks.   *)
(* Units are those of TokenBucket; rounding of floats is left out, and so  *)
(* is a limiter with rate <= 0, which allows everything.                   *)
(***************************************************************************)
EXTENDS Integers

CONSTANTS
    Key,        \* keys of one limiter
    Cost,       \* units of one event: ticks until it is refilled
    Cap,        \* units of a full bucket: burst / rate, in ticks
    Minute,     \* time.Minute, in ticks: the least time between two sweeps
    Second,     \* a second, in ticks: what the script adds to burst / rate
    Backends,   \* subset of {"memory", "redis"}
    MaxLag,     \* how late a caller of the mutex may be
    MaxSkew,    \* how far behind the clock of a replica may be
    Horizon     \* bound: ages beyond it are not told apart

Longest(a, b) == IF a > b THEN a ELSE b

ASSUME RateLimitAssumption ==
    /\ Cost \in Nat \ {0} /\ Cap \in Nat \ {0} /\ Cap >= Cost
    /\ Minute \in Nat \ {0} /\ Second \in Nat \ {0}
    /\ Backends \subseteq {"memory", "redis"}
    /\ MaxLag \in Nat /\ MaxSkew \in Nat
    /\ Horizon \in Nat
    /\ Horizon > Longest(Minute, Cap) + Second + 2 * Longest(MaxLag, MaxSkew)

VARIABLES
    backend,    \* of this deployment
    lag,        \* how late clocks are in this deployment, at most
    buckets,    \* key -> bucket
    swept,      \* age of lastSweep
    answer      \* the last answer, if nothing has happened since

vars == <<backend, lag, buckets, swept, answer>>

----------------------------------------------------------------------------

NoBucket == [tokens |-> -1 - Horizon]
Bucket   == [tokens : -Horizon .. Cap, age : 0 .. Horizon, idle : 0 .. Horizon]

Silent == [key |-> "none", said |-> "nothing"]
Answer == [key : Key, said : {"yes", "no", "open"}] \cup {Silent}

TypeOK ==
    /\ backend \in Backends
    /\ lag \in 0 .. Longest(MaxLag, MaxSkew)
    /\ buckets \in [Key -> Bucket \cup {NoBucket}]
    /\ swept \in 0 .. Horizon
    /\ answer \in Answer

Init ==
    /\ backend \in Backends
    /\ lag \in 0 .. (IF backend = "memory" THEN MaxLag ELSE MaxSkew)
    /\ buckets = [k \in Key |-> NoBucket]
    /\ swept = 0
    /\ answer = Silent

----------------------------------------------------------------------------
(* Faulty variants of the definitions below; no action uses them.          *)

\* The sweep drops what was idle for a minute.
MinuteIdle == Minute

\* A bucket is filled without regard to its capacity.
FilledBeyond(tokens, elapsed) == tokens + elapsed

\* Time that runs backwards counts as no time.
ElapsedForward(age, d) == Longest(0, age - d)

----------------------------------------------------------------------------

\* The sweep keeps a bucket for the time it takes to fill, and at least a minute.
MaxIdle == Longest(Minute, Cap)

\* EXPIRE key ceil(burst / rate) + 1
Ttl == Cap + Second

\* The capacity of a bucket that is not there yet.
Fresh == Cap

\* now.Sub(last), negative if another caller was ahead.
Elapsed(age, d) == age - d

\* Refill for the time elapsed, up to the capacity.
Filled(tokens, elapsed) == IF tokens + elapsed > Cap THEN Cap ELSE tokens + elapsed

Say(k, said) == answer' = [key |-> k, said |-> said]

\* The bucket after an event, seen at a clock that is late by d.
Charged(filled, d) ==
    [tokens |-> IF filled >= Cost THEN filled - Cost ELSE filled, age |-> d, idle |-> 0]

Verdict(filled) == IF filled >= Cost THEN "yes" ELSE "no"

----------------------------------------------------------------------------
(* In memory.                                                              *)

\* The buckets after sweep(now).
SweptBuckets(d) ==
    IF swept - d < Minute THEN buckets
    ELSE [k \in Key |-> IF buckets[k] # NoBucket /\ buckets[k].age - d > MaxIdle
                        THEN NoBucket ELSE buckets[k]]

MemoryAllow(k, d) ==
    /\ backend = "memory"
    /\ LET b == SweptBuckets(d)[k]
           filled == IF b = NoBucket THEN Filled(Fresh, 0) ELSE Filled(b.tokens, Elapsed(b.age, d))
       IN  /\ buckets' = [SweptBuckets(d) EXCEPT ![k] = Charged(filled, d)]
           /\ Say(k, Verdict(filled))
    /\ swept' = IF swept - d < Minute THEN swept ELSE d
    /\ UNCHANGED <<backend, lag>>

\* The server restarts, and its buckets are gone.
Restart ==
    /\ backend = "memory"
    /\ buckets' = [k \in Key |-> NoBucket]
    /\ swept' = 0
    /\ answer' = Silent
    /\ UNCHANGED <<backend, lag>>

----------------------------------------------------------------------------
(* In Redis.                                                               *)

\* tokenBucketScript: time that runs backwards counts as no time.
ScriptFilled(k, d) ==
    LET b == buckets[k] IN
    IF b = NoBucket THEN Filled(Fresh, 0) ELSE Filled(b.tokens, Longest(0, b.age - d))

RedisAllow(k, d) ==
    /\ backend = "redis"
    /\ buckets' = [buckets EXCEPT ![k] = Charged(ScriptFilled(k, d), d)]
    /\ Say(k, Verdict(ScriptFilled(k, d)))
    /\ UNCHANGED <<backend, lag, swept>>

\* Redis is not reached, or the answer is lost after the script ran.
FailOpen(k, d) ==
    /\ backend = "redis"
    /\ \/ UNCHANGED buckets
       \/ buckets' = [buckets EXCEPT ![k] = Charged(ScriptFilled(k, d), d)]
    /\ Say(k, "open")
    /\ UNCHANGED <<backend, lag, swept>>

\* Redis expires a bucket by its own clock.
Expire(k) ==
    /\ backend = "redis"
    /\ buckets[k] # NoBucket /\ buckets[k].idle >= Ttl
    /\ buckets' = [buckets EXCEPT ![k] = NoBucket]
    /\ UNCHANGED <<backend, lag, swept, answer>>

----------------------------------------------------------------------------

Older(n) == IF n < Horizon THEN n + 1 ELSE n

Tick ==
    /\ buckets' = [k \in Key |->
                     IF buckets[k] = NoBucket THEN NoBucket
                     ELSE [tokens |-> buckets[k].tokens,
                           age    |-> Older(buckets[k].age),
                           idle   |-> Older(buckets[k].idle)]]
    /\ swept' = Older(swept)
    /\ answer' = Silent
    /\ UNCHANGED <<backend, lag>>

Next ==
    \/ Tick \/ Restart
    \/ \E k \in Key :
         \/ \E d \in 0 .. lag : MemoryAllow(k, d) \/ RedisAllow(k, d) \/ FailOpen(k, d)
         \/ Expire(k)

Spec == Init /\ [][Next]_vars

----------------------------------------------------------------------------
(* Properties.                                                             *)

\* What a bucket is worth now: one that is not there is full.
Worth(b) ==
    IF b = NoBucket THEN Cap
    ELSE IF b.tokens + b.age > Cap THEN Cap ELSE b.tokens + b.age

Ideal == INSTANCE TokenBucket WITH credit <- [k \in Key |-> Worth(buckets[k])]

\* Sweeping, expiring and lazy refilling cannot be told from a bucket that fills
\* with every tick and is never dropped, as long as the clocks agree: what the
\* comment of sweep calls dropping a bucket "without changing behavior".
ImplementsTokenBucket ==
    /\ Ideal!Init
    /\ [][lag = 0 => Ideal!Next \/ UNCHANGED Ideal!vars]_vars

\* Time alone refills a bucket: however late the callers of the mutex are, an event
\* leaves no more in it than was there, unless it had been idle long enough to fill.
\* Replicas on one Redis have this only while their clocks agree.
TimeAloneRefills ==
    [][\A k \in Key :
         /\ backend = "memory" \/ lag = 0
         /\ answer' # Silent /\ answer'.key = k
         /\ buckets[k] # NoBucket /\ buckets[k].age < Cap
         => buckets'[k].tokens + buckets'[k].age <= buckets[k].tokens + buckets[k].age]_vars

============================================================================
