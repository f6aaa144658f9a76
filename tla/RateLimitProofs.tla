-------------------------- MODULE RateLimitProofs --------------------------
(***************************************************************************)
(* Theorems about RateLimit, for any keys, any rate, burst, sweep interval *)
(* and expiry, either backend, any lag of its callers, and any horizon     *)
(* beyond what these are compared with.                                    *)
(*                                                                         *)
(* The inductive invariant says that no bucket is in debt by the true      *)
(* clock.  A late caller may leave a bucket with fewer than no tokens, but *)
(* with an age that makes up for it.                                       *)
(***************************************************************************)
EXTENDS RateLimit, TLAPS

\* A bucket is short of tokens by its age at most, and by no more than clocks are
\* late.  When clocks agree, it was written when its time stamp says.
Solvent(b) ==
    /\ b.tokens + b.age >= 0
    /\ b.tokens >= -lag
    /\ lag = 0 => b.idle = b.age

IInv == TypeOK /\ \A k \in Key : buckets[k] # NoBucket => Solvent(buckets[k])

----------------------------------------------------------------------------
(* Lemmas about the operators.                                             *)

\* What the assumptions say without Longest.
LEMMA Bounds ==
  /\ Cost \in Nat /\ Cap \in Nat /\ Minute \in Nat /\ Second \in Nat
  /\ Cost > 0 /\ Cap >= Cost /\ Minute > 0 /\ Second > 0
  /\ MaxLag \in Nat /\ MaxSkew \in Nat
  /\ Longest(MaxLag, MaxSkew) \in Nat
  /\ Horizon \in Nat /\ Horizon > Cap + Second + Longest(MaxLag, MaxSkew)
  /\ MaxIdle \in Nat /\ MaxIdle >= Cap
BY RateLimitAssumption DEF Longest, MaxIdle

\* The absent bucket is none of the buckets there can be.
LEMMA Absent == NoBucket \notin Bucket
BY Bounds DEF NoBucket, Bucket

\* The types, for a key.
LEMMA Typed ==
  ASSUME TypeOK, NEW k \in Key
  PROVE  /\ lag \in Nat /\ lag <= Longest(MaxLag, MaxSkew) /\ lag < Horizon
         /\ buckets[k] # NoBucket =>
              /\ buckets[k] \in Bucket
              /\ buckets[k].tokens \in Int /\ buckets[k].tokens <= Cap
              /\ buckets[k].age \in Nat /\ buckets[k].age <= Horizon
              /\ buckets[k].idle \in Nat /\ buckets[k].idle <= Horizon
BY Bounds DEF TypeOK, Bucket

\* Charging a bucket that holds at least what makes it solvent leaves a bucket that is.
LEMMA ChargedSolvent ==
  ASSUME TypeOK, NEW d \in 0 .. lag, NEW filled \in Int,
         filled <= Cap, filled + d >= 0
  PROVE  /\ Charged(filled, d) \in Bucket
         /\ Charged(filled, d) # NoBucket
         /\ Solvent(Charged(filled, d))
<1> DEFINE t == IF filled >= Cost THEN filled - Cost ELSE filled
<1>1. lag \in Nat /\ lag <= Longest(MaxLag, MaxSkew) /\ d \in Nat /\ d <= lag
  BY Bounds DEF TypeOK
<1>2. t \in Int /\ t <= Cap /\ t + d >= 0
  BY <1>1, Bounds
<1>3. t \in -Horizon .. Cap /\ d \in 0 .. Horizon /\ 0 \in 0 .. Horizon
  BY <1>1, <1>2, Bounds
<1>4. Charged(filled, d) = [tokens |-> t, age |-> d, idle |-> 0]
  BY DEF Charged
<1> HIDE DEF t
<1>5. Charged(filled, d) \in Bucket
  BY <1>3, <1>4 DEF Bucket
<1>6. Charged(filled, d) # NoBucket
  BY <1>5, Absent
<1>7. lag = 0 => d = 0
  BY <1>1
<1>8. t >= -lag
  BY <1>1, <1>2
<1> QED
  BY <1>2, <1>4, <1>5, <1>6, <1>7, <1>8 DEF Solvent

\* What a caller in memory finds in a bucket, kept or swept.
MemoryFilled(k, d) ==
    LET b == SweptBuckets(d)[k]
    IN  IF b = NoBucket THEN Filled(Fresh, 0) ELSE Filled(b.tokens, Elapsed(b.age, d))

\* A sweep keeps a bucket or drops it, and drops none that is younger than MaxIdle.
LEMMA SweepDrops ==
  ASSUME TypeOK, NEW d \in 0 .. lag, NEW k \in Key
  PROVE  /\ SweptBuckets(d) \in [Key -> Bucket \cup {NoBucket}]
         /\ \/ SweptBuckets(d)[k] = buckets[k]
            \/ /\ SweptBuckets(d)[k] = NoBucket
               /\ buckets[k] # NoBucket
               /\ buckets[k].age - d > MaxIdle
BY DEF SweptBuckets, TypeOK

\* A caller in memory finds a bucket that is not overfull and, by the true clock, not
\* in debt.
LEMMA MemoryFinds ==
  ASSUME IInv, NEW k \in Key, NEW d \in 0 .. lag
  PROVE  /\ MemoryFilled(k, d) \in Int
         /\ MemoryFilled(k, d) <= Cap
         /\ MemoryFilled(k, d) + d >= 0
<1>1. lag \in Nat /\ d \in Nat /\ TypeOK
  BY Typed DEF IInv
<1>2. CASE SweptBuckets(d)[k] = NoBucket
  BY <1>1, <1>2, Bounds DEF MemoryFilled, Filled, Fresh
<1>3. CASE SweptBuckets(d)[k] # NoBucket
  <2>1. SweptBuckets(d)[k] = buckets[k] /\ buckets[k] # NoBucket
    BY <1>1, <1>3, SweepDrops
  <2>2. MemoryFilled(k, d) = Filled(buckets[k].tokens, buckets[k].age - d)
    BY <2>1 DEF MemoryFilled, Elapsed
  <2>3. /\ buckets[k].tokens \in Int /\ buckets[k].age \in Nat
        /\ buckets[k].tokens + buckets[k].age >= 0
    BY <1>1, <2>1, Typed DEF IInv, Solvent
  <2> QED
    BY <1>1, <2>2, <2>3, Bounds DEF Filled
<1> QED
  BY <1>2, <1>3

\* The script finds the same.
LEMMA ScriptFinds ==
  ASSUME IInv, NEW k \in Key, NEW d \in 0 .. lag
  PROVE  /\ ScriptFilled(k, d) \in Int
         /\ ScriptFilled(k, d) <= Cap
         /\ ScriptFilled(k, d) + d >= 0
<1>1. lag \in Nat /\ d \in Nat /\ TypeOK
  BY Typed DEF IInv
<1>2. CASE buckets[k] = NoBucket
  BY <1>1, <1>2, Bounds DEF ScriptFilled, Filled, Fresh
<1>3. CASE buckets[k] # NoBucket
  <2>1. ScriptFilled(k, d) = Filled(buckets[k].tokens, Longest(0, buckets[k].age - d))
    BY <1>3 DEF ScriptFilled
  <2>2. /\ buckets[k].tokens \in Int /\ buckets[k].age \in Nat
        /\ buckets[k].tokens + buckets[k].age >= 0
    BY <1>1, <1>3, Typed DEF IInv, Solvent
  <2> QED
    BY <1>1, <2>1, <2>2, Bounds DEF Filled, Longest
<1> QED
  BY <1>2, <1>3

----------------------------------------------------------------------------
(* The inductive invariant.                                                *)

LEMMA InitInvariant == Init => IInv
<1> SUFFICES ASSUME Init PROVE IInv
  OBVIOUS
<1>1. lag \in 0 .. Longest(MaxLag, MaxSkew)
  BY Bounds DEF Init, Longest
<1> QED
  BY <1>1, Bounds DEF Init, IInv, TypeOK, Answer

\* An event replaces one bucket by its charged self.
LEMMA ChargeInvariant ==
  ASSUME IInv, NEW k \in Key, NEW d \in 0 .. lag, NEW filled \in Int,
         filled <= Cap, filled + d >= 0,
         NEW kept, kept \in [Key -> Bucket \cup {NoBucket}],
         \A j \in Key : kept[j] # NoBucket => kept[j] = buckets[j],
         buckets' = [kept EXCEPT ![k] = Charged(filled, d)],
         lag' = lag
  PROVE  /\ buckets' \in [Key -> Bucket \cup {NoBucket}]
         /\ \A j \in Key : buckets'[j] # NoBucket => Solvent(buckets[j])'
<1>1. /\ Charged(filled, d) \in Bucket
      /\ Solvent(Charged(filled, d))
  BY ChargedSolvent DEF IInv
<1> DEFINE c == Charged(filled, d)
<1>2. c \in Bucket /\ Solvent(c) /\ buckets' = [kept EXCEPT ![k] = c]
  BY <1>1
<1> HIDE DEF c
<1>3. buckets' \in [Key -> Bucket \cup {NoBucket}]
  BY <1>2
<1>4. ASSUME NEW j \in Key, buckets'[j] # NoBucket
      PROVE  Solvent(buckets[j])'
  <2>1. CASE j = k
    BY <1>2, <2>1 DEF Solvent
  <2>2. CASE j # k
    <3>1. buckets'[j] = buckets[j] /\ buckets[j] # NoBucket
      BY <1>2, <1>4, <2>2
    <3> QED
      BY <3>1 DEF IInv, Solvent
  <2> QED
    BY <2>1, <2>2
<1> QED
  BY <1>3, <1>4

LEMMA MemoryAllowInvariant ==
  ASSUME IInv, NEW k \in Key, NEW d \in 0 .. lag, MemoryAllow(k, d)
  PROVE  IInv'
<1> DEFINE kept   == SweptBuckets(d)
           filled == MemoryFilled(k, d)
<1>1. TypeOK /\ lag \in Nat /\ lag <= Horizon
  BY Typed, Bounds DEF IInv
<1>2. filled \in Int /\ filled <= Cap /\ filled + d >= 0
  BY MemoryFinds
<1>3. kept \in [Key -> Bucket \cup {NoBucket}]
  BY <1>1, SweepDrops
<1>4. \A j \in Key : kept[j] # NoBucket => kept[j] = buckets[j]
  BY <1>1, SweepDrops
<1>5. buckets' = [kept EXCEPT ![k] = Charged(filled, d)] /\ lag' = lag /\ backend' = backend
  BY DEF MemoryAllow, MemoryFilled
<1>6. answer' \in Answer
  BY DEF MemoryAllow, Say, Verdict, Answer
<1>7. swept' \in 0 .. Horizon
  BY <1>1, Bounds DEF MemoryAllow, TypeOK
<1> HIDE DEF kept, filled
<1>8. /\ buckets' \in [Key -> Bucket \cup {NoBucket}]
      /\ \A j \in Key : buckets'[j] # NoBucket => Solvent(buckets[j])'
  BY <1>2, <1>3, <1>4, <1>5, ChargeInvariant
<1> QED
  BY <1>1, <1>5, <1>6, <1>7, <1>8 DEF IInv, TypeOK

LEMMA RedisInvariant ==
  ASSUME IInv, NEW k \in Key, NEW d \in 0 .. lag, RedisAllow(k, d) \/ FailOpen(k, d)
  PROVE  IInv'
<1> DEFINE filled == ScriptFilled(k, d)
<1>1. TypeOK /\ backend' = backend /\ lag' = lag /\ swept' = swept
  BY DEF IInv, RedisAllow, FailOpen
<1>2. filled \in Int /\ filled <= Cap /\ filled + d >= 0
  BY ScriptFinds
<1>3. answer' \in Answer
  BY DEF RedisAllow, FailOpen, Say, Verdict, Answer
<1>4. buckets' = buckets \/ buckets' = [buckets EXCEPT ![k] = Charged(filled, d)]
  BY DEF RedisAllow, FailOpen
<1> HIDE DEF filled
<1>5. /\ buckets' \in [Key -> Bucket \cup {NoBucket}]
      /\ \A j \in Key : buckets'[j] # NoBucket => Solvent(buckets[j])'
  <2>1. CASE buckets' = buckets
    BY <1>1, <2>1 DEF IInv, TypeOK, Solvent
  <2>2. CASE buckets' = [buckets EXCEPT ![k] = Charged(filled, d)]
    <3>1. buckets \in [Key -> Bucket \cup {NoBucket}]
      BY <1>1 DEF TypeOK
    <3> QED
      BY <1>1, <1>2, <2>2, <3>1, ChargeInvariant
  <2> QED
    BY <1>4, <2>1, <2>2
<1> QED
  BY <1>1, <1>3, <1>5 DEF IInv, TypeOK

LEMMA ExpireInvariant ==
  ASSUME IInv, NEW k \in Key, Expire(k)
  PROVE  IInv'
BY DEF IInv, TypeOK, Expire, Solvent

LEMMA RestartInvariant == IInv /\ Restart => IInv'
BY Bounds DEF IInv, TypeOK, Restart, Answer

\* Age only pays debts, and both of a bucket's ages grow alike.
LEMMA TickInvariant == IInv /\ Tick => IInv'
<1> SUFFICES ASSUME IInv, Tick PROVE IInv'
  OBVIOUS
<1>1. ASSUME NEW n \in 0 .. Horizon
      PROVE  Older(n) \in 0 .. Horizon /\ Older(n) >= n
  BY <1>1, Bounds DEF Older
<1>2. ASSUME NEW k \in Key, buckets[k] # NoBucket
      PROVE  /\ buckets'[k] \in Bucket
             /\ buckets'[k].tokens = buckets[k].tokens
             /\ buckets'[k].age = Older(buckets[k].age)
             /\ buckets'[k].idle = Older(buckets[k].idle)
  <2>1. buckets'[k] = [tokens |-> buckets[k].tokens,
                       age    |-> Older(buckets[k].age),
                       idle   |-> Older(buckets[k].idle)]
    BY <1>2 DEF Tick
  <2>2. buckets[k] \in Bucket
    BY <1>2 DEF IInv, TypeOK
  <2> QED
    BY <1>1, <2>1, <2>2 DEF Bucket
<1>3. \A k \in Key : buckets[k] = NoBucket => buckets'[k] = NoBucket
  BY DEF Tick
<1>4. buckets' \in [Key -> Bucket \cup {NoBucket}]
  <2>1. buckets' = [k \in Key |-> buckets'[k]]
    BY DEF Tick
  <2>2. \A k \in Key : buckets'[k] \in Bucket \cup {NoBucket}
    BY <1>2, <1>3
  <2> QED
    BY <2>1, <2>2
<1>5. TypeOK'
  BY <1>1, <1>4 DEF IInv, TypeOK, Tick, Answer
<1>6. ASSUME NEW k \in Key, buckets'[k] # NoBucket
      PROVE  Solvent(buckets[k])'
  <2>1. buckets[k] # NoBucket
    BY <1>3, <1>6
  <2>2. Solvent(buckets[k]) /\ lag' = lag
    BY <2>1 DEF IInv, Tick
  <2>3. /\ buckets[k].age \in 0 .. Horizon /\ buckets[k].tokens \in Int /\ lag \in Nat
        /\ buckets[k].idle \in 0 .. Horizon
    BY <2>1, Typed, Bounds DEF IInv
  <2>4. Older(buckets[k].age) >= buckets[k].age /\ Older(buckets[k].age) \in 0 .. Horizon
    BY <1>1, <2>3
  <2> QED
    BY <1>2, <2>1, <2>2, <2>3, <2>4, Bounds DEF Solvent
<1> QED
  BY <1>5, <1>6 DEF IInv

LEMMA NextInvariant == IInv /\ [Next]_vars => IInv'
<1> SUFFICES ASSUME IInv, [Next]_vars PROVE IInv'
  OBVIOUS
<1>1. CASE UNCHANGED vars
  BY <1>1 DEF vars, IInv, TypeOK, Solvent
<1> QED
  BY <1>1, MemoryAllowInvariant, RedisInvariant, ExpireInvariant, RestartInvariant,
     TickInvariant DEF Next

\* No bucket is ever in debt by the true clock.
THEOREM Invariant == Spec => []IInv
BY InitInvariant, NextInvariant, PTL DEF Spec

\* Buckets stay within their capacity and ages within the horizon, whatever the rate,
\* the burst and the lag of callers.
THEOREM TypeCorrect == Spec => []TypeOK
<1>1. IInv => TypeOK
  BY DEF IInv
<1> QED
  BY <1>1, Invariant, PTL

----------------------------------------------------------------------------
(* Time alone refills a bucket.                                            *)

\* Charging a bucket with what it holds adds nothing to it.
LEMMA ChargedAddsNothing ==
  ASSUME NEW filled \in Int, NEW d \in Int
  PROVE  Charged(filled, d).tokens + Charged(filled, d).age <= filled + d
BY Bounds DEF Charged

\* An event of another key changes a bucket only by sweeping or expiring it, and one of
\* the key itself adds nothing, unless the bucket has had the time to fill.
LEMMA NextTimeAloneRefills ==
  ASSUME IInv, [Next]_vars, NEW k \in Key,
         backend = "memory" \/ lag = 0,
         answer' # Silent, answer'.key = k,
         buckets[k] # NoBucket, buckets[k].age < Cap
  PROVE  buckets'[k].tokens + buckets'[k].age <= buckets[k].tokens + buckets[k].age
<1>1. TypeOK /\ buckets[k] \in Bucket
  BY DEF IInv, TypeOK
<1>2. /\ lag \in Nat /\ buckets[k].age \in Nat /\ buckets[k].tokens \in Int
      /\ buckets[k].tokens <= Cap
  BY <1>1, Typed
<1>3. buckets \in [Key -> Bucket \cup {NoBucket}]
  BY <1>1 DEF TypeOK
<1>4. CASE buckets' = buckets
  BY <1>2, <1>4
<1>5. ASSUME NEW d \in 0 .. lag, MemoryAllow(k, d)
      PROVE  buckets'[k].tokens + buckets'[k].age <= buckets[k].tokens + buckets[k].age
  <2>1. SweptBuckets(d)[k] = buckets[k] /\ SweptBuckets(d) \in [Key -> Bucket \cup {NoBucket}]
    BY <1>1, <1>2, SweepDrops, Bounds
  <2> DEFINE filled == MemoryFilled(k, d)
  <2>2. filled = Filled(buckets[k].tokens, buckets[k].age - d)
    BY <2>1 DEF MemoryFilled, Elapsed
  <2>3. buckets' = [SweptBuckets(d) EXCEPT ![k] = Charged(filled, d)]
    BY <1>5 DEF MemoryAllow, MemoryFilled
  <2> HIDE DEF filled
  <2>4. filled \in Int /\ d \in Int /\ filled + d <= buckets[k].tokens + buckets[k].age
    BY <1>2, <2>2, Bounds DEF Filled
  <2>5. buckets'[k] = Charged(filled, d)
    BY <2>1, <2>3
  <2>6. Charged(filled, d).tokens + Charged(filled, d).age <= filled + d
    BY <2>4, ChargedAddsNothing
  <2>7. Charged(filled, d).tokens \in Int /\ Charged(filled, d).age \in Int
    BY <2>4, Bounds DEF Charged
  <2> QED
    BY <1>2, <2>4, <2>5, <2>6, <2>7
<1>6. ASSUME NEW d \in 0 .. lag, RedisAllow(k, d) \/ FailOpen(k, d)
      PROVE  buckets'[k].tokens + buckets'[k].age <= buckets[k].tokens + buckets[k].age
  <2> DEFINE filled == ScriptFilled(k, d)
  <2>1. lag = 0
    BY <1>6 DEF RedisAllow, FailOpen
  <2>2. d = 0
    BY <1>2, <2>1
  <2>3. filled = Filled(buckets[k].tokens, Longest(0, buckets[k].age - d))
    BY DEF ScriptFilled
  <2>4. buckets' = buckets \/ buckets' = [buckets EXCEPT ![k] = Charged(filled, d)]
    BY <1>6 DEF RedisAllow, FailOpen
  <2> HIDE DEF filled
  <2>5. filled \in Int /\ filled + d <= buckets[k].tokens + buckets[k].age
    BY <1>2, <2>2, <2>3, Bounds DEF Filled, Longest
  <2>6. CASE buckets' = [buckets EXCEPT ![k] = Charged(filled, d)]
    <3>1. buckets'[k] = Charged(filled, d)
      BY <1>3, <2>6
    <3>2. Charged(filled, d).tokens + Charged(filled, d).age <= filled + d
      BY <2>2, <2>5, ChargedAddsNothing
    <3>3. Charged(filled, d).tokens \in Int /\ Charged(filled, d).age \in Int
      BY <2>2, <2>5, Bounds DEF Charged
    <3> QED
      BY <1>2, <2>2, <2>5, <3>1, <3>2, <3>3
  <2> QED
    BY <1>4, <2>4, <2>6
<1>7. ASSUME NEW j \in Key, NEW d \in 0 .. lag, MemoryAllow(j, d) \/ RedisAllow(j, d) \/ FailOpen(j, d)
      PROVE  j = k
  BY <1>7 DEF MemoryAllow, RedisAllow, FailOpen, Say
<1>8. ASSUME NEW j \in Key, Expire(j)
      PROVE  buckets'[k].tokens + buckets'[k].age <= buckets[k].tokens + buckets[k].age
  <2>1. lag = 0 /\ buckets[k].idle = buckets[k].age
    BY <1>8 DEF Expire, IInv, Solvent
  <2>2. j # k
    BY <1>2, <1>8, <2>1, Bounds DEF Expire, Ttl
  <2>3. buckets'[k] = buckets[k]
    BY <1>3, <1>8, <2>2 DEF Expire
  <2> QED
    BY <1>2, <2>3
<1>9. CASE UNCHANGED vars
  BY <1>4, <1>9 DEF vars
<1>10. ~Tick /\ ~Restart
  BY DEF Tick, Restart
<1> QED
  BY <1>5, <1>6, <1>7, <1>8, <1>9, <1>10 DEF Next

\* However late callers read their clocks, an event leaves no more in a bucket than was
\* there: tokens come from the passing of time, or from idling long enough to fill.
THEOREM OnlyTimeRefills == Spec => TimeAloneRefills
<1>1. IInv /\ [Next]_vars =>
        [\A k \in Key :
           /\ backend = "memory" \/ lag = 0
           /\ answer' # Silent /\ answer'.key = k
           /\ buckets[k] # NoBucket /\ buckets[k].age < Cap
           => buckets'[k].tokens + buckets'[k].age <= buckets[k].tokens + buckets[k].age]_vars
  BY NextTimeAloneRefills
<1> QED
  BY <1>1, Invariant, PTL DEF Spec, TimeAloneRefills

----------------------------------------------------------------------------
(* While clocks agree, the limiter is a bucket that is never dropped.       *)

\* What the buckets are worth is the credit of the ideal limiter.
Credit == [k \in Key |-> Worth(buckets[k])]

LEMMA CreditIs == Credit = [k \in Key |-> Worth(buckets[k])]
BY DEF Credit

LEMMA InitRefines == Init => Ideal!Init
BY DEF Init, Ideal!Init, Worth, Silent, Ideal!Silent

\* With clocks that agree, a bucket has a number of tokens and one age.
LEMMA Agreed ==
  ASSUME IInv, lag = 0, NEW k \in Key, buckets[k] # NoBucket
  PROVE  /\ buckets[k].tokens \in Nat /\ buckets[k].tokens <= Cap
         /\ buckets[k].age \in Nat /\ buckets[k].age <= Horizon
         /\ buckets[k].idle = buckets[k].age
<1>1. TypeOK /\ Solvent(buckets[k])
  BY DEF IInv
<1> QED
  BY <1>1, Typed DEF Solvent

\* A charged bucket is worth what it was charged to.
LEMMA ChargedWorth ==
  ASSUME TypeOK, lag = 0, NEW filled \in Nat, filled <= Cap
  PROVE  Worth(Charged(filled, 0)) = IF filled >= Cost THEN filled - Cost ELSE filled
<1>1. filled \in Int /\ 0 \in 0 .. lag /\ filled + 0 >= 0
  OBVIOUS
<1>2. Charged(filled, 0) # NoBucket
  BY <1>1, ChargedSolvent
<1> QED
  BY <1>2, Bounds DEF Charged, Worth

\* A caller in memory finds in a bucket what it is worth, and the sweep drops only
\* buckets that are full.
LEMMA MemoryFindsWorth ==
  ASSUME IInv, lag = 0, NEW k \in Key
  PROVE  /\ MemoryFilled(k, 0) = Worth(buckets[k])
         /\ Worth(SweptBuckets(0)[k]) = Worth(buckets[k])
         /\ Worth(buckets[k]) \in Nat /\ Worth(buckets[k]) <= Cap
<1>1. 0 \in 0 .. lag /\ TypeOK
  BY DEF IInv
<1>2. CASE buckets[k] = NoBucket
  <2>1. SweptBuckets(0)[k] = NoBucket
    BY <1>1, <1>2, SweepDrops
  <2> QED
    BY <1>2, <2>1, Bounds DEF MemoryFilled, Worth, Filled, Fresh
<1>3. CASE buckets[k] # NoBucket
  <2>1. CASE SweptBuckets(0)[k] = buckets[k]
    <3>1. MemoryFilled(k, 0) = Filled(buckets[k].tokens, buckets[k].age - 0)
      BY <1>3, <2>1 DEF MemoryFilled, Elapsed
    <3> QED
      BY <1>3, <2>1, <3>1, Agreed, Bounds DEF Worth, Filled
  <2>2. CASE SweptBuckets(0)[k] = NoBucket /\ buckets[k].age - 0 > MaxIdle
    BY <1>3, <2>2, Agreed, Bounds DEF MemoryFilled, Worth, Filled, Fresh
  <2> QED
    BY <1>1, <2>1, <2>2, SweepDrops
<1> QED
  BY <1>2, <1>3

\* So does the script.
LEMMA ScriptFindsWorth ==
  ASSUME IInv, lag = 0, NEW k \in Key
  PROVE  /\ ScriptFilled(k, 0) = Worth(buckets[k])
         /\ Worth(buckets[k]) \in Nat /\ Worth(buckets[k]) <= Cap
<1>1. CASE buckets[k] = NoBucket
  BY <1>1, Bounds DEF ScriptFilled, Worth, Filled, Fresh
<1>2. CASE buckets[k] # NoBucket
  <2>1. ScriptFilled(k, 0) = Filled(buckets[k].tokens, Longest(0, buckets[k].age - 0))
    BY <1>2 DEF ScriptFilled
  <2> QED
    BY <1>2, <2>1, Agreed, Bounds DEF Worth, Filled, Longest
<1> QED
  BY <1>1, <1>2

\* Charging one bucket and keeping the worth of all others is a charge of the credit.
LEMMA ChargeRefines ==
  ASSUME IInv, lag = 0, NEW k \in Key, NEW kept \in [Key -> Bucket \cup {NoBucket}],
         \A j \in Key : Worth(kept[j]) = Worth(buckets[j]),
         Worth(buckets[k]) \in Nat, Worth(buckets[k]) <= Cap,
         buckets' = [kept EXCEPT ![k] = Charged(Worth(buckets[k]), 0)]
  PROVE  Credit' = [Credit EXCEPT ![k] =
                      IF Worth(buckets[k]) >= Cost THEN Worth(buckets[k]) - Cost
                                                   ELSE Worth(buckets[k])]
<1> DEFINE w == Worth(buckets[k])
           c == Charged(w, 0)
<1>1. Worth(c) = IF w >= Cost THEN w - Cost ELSE w
  BY ChargedWorth DEF IInv
<1>2. buckets' = [kept EXCEPT ![k] = c]
  OBVIOUS
<1>3. Credit' = [j \in Key |-> Worth(buckets'[j])]
  BY DEF Credit, Worth
<1>4. w = Worth(buckets[k])
  OBVIOUS
<1> HIDE DEF c, w
<1>5. ASSUME NEW j \in Key
      PROVE  Worth(buckets'[j]) = IF j = k THEN Worth(c) ELSE Worth(buckets[j])
  <2>1. buckets'[j] = IF j = k THEN c ELSE kept[j]
    BY <1>2
  <2> QED
    BY <2>1
<1> QED
  BY <1>1, <1>3, <1>4, <1>5 DEF Credit

\* Answering as the worth of a bucket says admits or refuses in the ideal limiter.
LEMMA AnswerRefines ==
  ASSUME NEW k \in Key, Worth(buckets[k]) \in Nat,
         Say(k, Verdict(Worth(buckets[k]))),
         Credit' = [Credit EXCEPT ![k] =
                      IF Worth(buckets[k]) >= Cost THEN Worth(buckets[k]) - Cost
                                                   ELSE Worth(buckets[k])]
  PROVE  Ideal!Admit(k) \/ Ideal!Refuse(k)
<1>1. Credit[k] = Worth(buckets[k])
  BY DEF Credit
<1>2. CASE Worth(buckets[k]) >= Cost
  BY <1>1, <1>2 DEF Ideal!Admit, Ideal!Say, Say, Verdict, Credit
<1>3. CASE Worth(buckets[k]) < Cost
  <2>1. ~(Worth(buckets[k]) >= Cost)
    BY <1>3, Bounds
  <2>2. Credit' = Credit
    BY <1>1, <2>1 DEF Credit
  <2> QED
    BY <1>1, <1>3, <2>1, <2>2 DEF Ideal!Refuse, Ideal!Say, Say, Verdict, Credit
<1> QED
  BY <1>2, <1>3, Bounds

LEMMA MemoryAllowRefines ==
  ASSUME IInv, lag = 0, NEW k \in Key, MemoryAllow(k, 0)
  PROVE  Ideal!Admit(k) \/ Ideal!Refuse(k)
<1> DEFINE kept == SweptBuckets(0)
<1>1. TypeOK /\ 0 \in 0 .. lag
  BY DEF IInv
<1>2. kept \in [Key -> Bucket \cup {NoBucket}]
  BY <1>1, SweepDrops
<1>3. /\ \A j \in Key : Worth(kept[j]) = Worth(buckets[j])
      /\ MemoryFilled(k, 0) = Worth(buckets[k])
      /\ Worth(buckets[k]) \in Nat /\ Worth(buckets[k]) <= Cap
  BY MemoryFindsWorth
<1>4. /\ buckets' = [kept EXCEPT ![k] = Charged(MemoryFilled(k, 0), 0)]
      /\ Say(k, Verdict(MemoryFilled(k, 0)))
  BY DEF MemoryAllow, MemoryFilled
<1> HIDE DEF kept
<1>5. buckets' = [kept EXCEPT ![k] = Charged(Worth(buckets[k]), 0)]
  BY <1>3, <1>4
<1> QED
  BY <1>2, <1>3, <1>4, <1>5, ChargeRefines, AnswerRefines

LEMMA RedisRefines ==
  ASSUME IInv, lag = 0, NEW k \in Key, RedisAllow(k, 0) \/ FailOpen(k, 0)
  PROVE  Ideal!Admit(k) \/ Ideal!Refuse(k) \/ Ideal!Open(k)
<1>1. buckets \in [Key -> Bucket \cup {NoBucket}]
  BY DEF IInv, TypeOK
<1>2. /\ ScriptFilled(k, 0) = Worth(buckets[k])
      /\ Worth(buckets[k]) \in Nat /\ Worth(buckets[k]) <= Cap
  BY ScriptFindsWorth
<1> DEFINE charged == [buckets EXCEPT ![k] = Charged(Worth(buckets[k]), 0)]
<1>3. ASSUME buckets' = charged
      PROVE  Credit' = [Credit EXCEPT ![k] =
                          IF Worth(buckets[k]) >= Cost THEN Worth(buckets[k]) - Cost
                                                       ELSE Worth(buckets[k])]
  BY <1>1, <1>2, <1>3, ChargeRefines
<1>4. CASE RedisAllow(k, 0)
  <2>1. buckets' = charged /\ Say(k, Verdict(Worth(buckets[k])))
    BY <1>2, <1>4 DEF RedisAllow
  <2> QED
    BY <1>2, <1>3, <2>1, AnswerRefines
<1>5. CASE FailOpen(k, 0)
  <2>1. (buckets' = buckets \/ buckets' = charged) /\ Say(k, "open")
    BY <1>2, <1>5 DEF FailOpen
  <2>2. Credit[k] = Worth(buckets[k])
    BY DEF Credit
  <2>3. CASE buckets' = buckets
    <3>1. Credit' = Credit
      BY <2>3 DEF Credit, Worth
    <3> QED
      BY <2>1, <3>1 DEF Ideal!Open, Ideal!Say, Say, Credit
  <2>4. CASE buckets' = charged /\ Worth(buckets[k]) >= Cost
    <3>1. Credit' = [Credit EXCEPT ![k] = Worth(buckets[k]) - Cost]
      BY <1>3, <2>4
    <3> QED
      BY <2>1, <2>2, <2>4, <3>1 DEF Ideal!Open, Ideal!Say, Say, Credit
  <2>5. CASE buckets' = charged /\ ~(Worth(buckets[k]) >= Cost)
    <3>1. Credit' = [Credit EXCEPT ![k] = Worth(buckets[k])]
      BY <1>3, <2>5
    <3>2. Credit' = Credit
      BY <2>2, <3>1 DEF Credit
    <3> QED
      BY <2>1, <3>2 DEF Ideal!Open, Ideal!Say, Say, Credit
  <2> QED
    BY <2>1, <2>3, <2>4, <2>5
<1> QED
  BY <1>4, <1>5

\* A bucket that expires has been full for a while.
LEMMA ExpireRefines ==
  ASSUME IInv, lag = 0, NEW k \in Key, Expire(k)
  PROVE  UNCHANGED Ideal!vars
<1>1. /\ buckets \in [Key -> Bucket \cup {NoBucket}]
      /\ buckets[k] # NoBucket /\ buckets[k].idle >= Ttl
      /\ buckets' = [buckets EXCEPT ![k] = NoBucket] /\ answer' = answer
  BY DEF Expire, IInv, TypeOK
<1>2. Worth(buckets[k]) = Cap
  BY <1>1, Agreed, Bounds DEF Worth, Ttl
<1>3. Worth(NoBucket) = Cap
  BY DEF Worth
<1>4. \A j \in Key : Worth(buckets'[j]) = Worth(buckets[j])
  BY <1>1, <1>2, <1>3
<1>5. Credit' = Credit
  BY <1>4 DEF Credit
<1> QED
  BY <1>1, <1>5 DEF Ideal!vars, Credit

LEMMA RestartRefines == IInv /\ Restart => Ideal!Restart
<1> SUFFICES ASSUME Restart PROVE Ideal!Restart
  OBVIOUS
<1>1. \A k \in Key : Worth(buckets'[k]) = Cap
  BY DEF Restart, Worth
<1> QED
  BY <1>1 DEF Restart, Ideal!Restart, Silent, Ideal!Silent

\* A tick fills every bucket that is not full by one.
LEMMA TickRefines == IInv /\ lag = 0 /\ Tick => Ideal!Tick
<1> SUFFICES ASSUME IInv, lag = 0, Tick PROVE Ideal!Tick
  OBVIOUS
<1>1. ASSUME NEW k \in Key
      PROVE  Worth(buckets'[k]) = Ideal!Full(Worth(buckets[k]) + 1)
  <2>1. CASE buckets[k] = NoBucket
    <3>1. buckets'[k] = NoBucket
      BY <2>1 DEF Tick
    <3> QED
      BY <2>1, <3>1, Bounds DEF Worth, Ideal!Full
  <2>2. CASE buckets[k] # NoBucket
    <3>1. /\ buckets'[k].tokens = buckets[k].tokens
          /\ buckets'[k].age = Older(buckets[k].age)
      BY <2>2 DEF Tick
    <3>2. buckets'[k] # NoBucket
      <4>1. buckets'[k].tokens # -1 - Horizon
        BY <2>2, <3>1, Agreed, Bounds
      <4> QED
        BY <4>1 DEF NoBucket
    <3>3. Worth(buckets'[k]) =
            IF buckets[k].tokens + Older(buckets[k].age) > Cap THEN Cap
            ELSE buckets[k].tokens + Older(buckets[k].age)
      BY <3>1, <3>2 DEF Worth
    <3> QED
      BY <2>2, <3>3, Agreed, Bounds DEF Worth, Ideal!Full, Older
  <2> QED
    BY <2>1, <2>2
<1>2. [k \in Key |-> Worth(buckets'[k])] =
      [k \in Key |-> Ideal!Full([j \in Key |-> Worth(buckets[j])][k] + 1)]
  BY <1>1
<1> QED
  BY <1>2 DEF Tick, Ideal!Tick, Silent, Ideal!Silent

LEMMA NextRefines ==
  IInv /\ [Next]_vars => [lag = 0 => Ideal!Next \/ UNCHANGED Ideal!vars]_vars
<1> SUFFICES ASSUME IInv, Next, lag = 0 PROVE Ideal!Next \/ UNCHANGED Ideal!vars
  OBVIOUS
<1>1. ASSUME NEW k \in Key, NEW d \in 0 .. lag,
             MemoryAllow(k, d) \/ RedisAllow(k, d) \/ FailOpen(k, d)
      PROVE  Ideal!Next
  <2>1. d = 0
    OBVIOUS
  <2>2. Ideal!Admit(k) \/ Ideal!Refuse(k) \/ Ideal!Open(k)
    BY <1>1, <2>1, MemoryAllowRefines, RedisRefines
  <2> QED
    BY <2>2 DEF Ideal!Next
<1> QED
  BY <1>1, ExpireRefines, RestartRefines, TickRefines DEF Next, Ideal!Next

\* Refilling lazily, sweeping, expiring and restarting cannot be told from buckets that
\* fill with every tick and are never dropped, for any rate, burst and number of keys,
\* as long as the clocks of all callers agree.
THEOREM RateLimitImplementsTokenBucket == Spec => ImplementsTokenBucket
BY InitRefines, NextRefines, Invariant, PTL DEF Spec, ImplementsTokenBucket

============================================================================
