-------------------------- MODULE ProtectionProofs --------------------------
(***************************************************************************)
(* Proofs about the token bucket, for every capacity, every fill rate that *)
(* fills a bucket within the cleanup interval and every set of addresses;  *)
(* and about the protection layer that it is part of, for every number of  *)
(* attempts and block time.                                                *)
(***************************************************************************)
EXTENDS FailureStreaks, TokenMeter, TLAPS

Brim == Capacity * FillDen + FillDen - 1

-----------------------------------------------------------------------------
(* Products, kept apart from the rest of the arithmetic. *)

LEMMA ProductType == ASSUME NEW m \in Nat, NEW n \in Nat PROVE m * n \in Nat
OBVIOUS

LEMMA ProductMonotone ==
    ASSUME NEW m \in Nat, NEW n \in Nat, NEW k \in Nat, m <= n
    PROVE  m * k <= n * k
<1>1. PICK d \in Nat : n = m + d
    <2>1. n - m \in Nat /\ n = m + (n - m)
        BY SMT
    <2> QED BY <2>1, Zenon
<1>2. n * k = m * k + d * k
    BY <1>1, SMT
<1>3. d * k \in Nat
    BY ProductType
<1>4. m * k \in Nat
    BY ProductType
<1> QED BY <1>2, <1>3, <1>4, SMT

LEMMA ProductSum ==
    ASSUME NEW m \in Nat, NEW n \in Nat, NEW k \in Nat
    PROVE  (m + n) * k = m * k + n * k
BY SMT

LEMMA FloorFacts ==
    ASSUME NEW m \in Nat, NEW d \in Nat \ {0}
    PROVE  /\ m \div d \in Nat
           /\ (m \div d) * d <= m
           /\ m < (m \div d) * d + d
BY SMT

-----------------------------------------------------------------------------
(* What a bucket is worth, and how that changes. *)

\* The two products that make up a bucket's worth.
Held(b) == b.tokens * FillDen
Earned(b) == b.age * FillNum

LEMMA WorthFacts ==
    ASSUME NEW b \in Buckets
    PROVE  /\ Held(b) \in Nat /\ Earned(b) \in Nat
           /\ Capacity * FillDen \in Nat /\ FillDen \in Nat \ {0}
           /\ Held(b) <= Capacity * FillDen
           /\ Worth(b) = Least(Held(b) + Earned(b), Brim)
           /\ Worth(b) \in 0 .. Brim
<1>1. /\ b.tokens \in Nat /\ b.tokens <= Capacity /\ b.age \in Nat
      /\ Capacity \in Nat /\ FillDen \in Nat \ {0} /\ FillNum \in Nat
    BY TokenAssumption DEF Buckets
<1>2. Held(b) \in Nat /\ Earned(b) \in Nat /\ Capacity * FillDen \in Nat
    BY <1>1, ProductType DEF Held, Earned
<1>3. Held(b) <= Capacity * FillDen
    BY <1>1, ProductMonotone DEF Held
<1>4. Worth(b) = Least(Held(b) + Earned(b), Brim)
    BY DEF Worth, Held, Earned, Brim
<1>5. Worth(b) \in 0 .. Brim
    BY <1>1, <1>2, <1>4 DEF Least, Brim
<1> QED BY <1>1, <1>2, <1>3, <1>4, <1>5

LEMMA FreshFacts ==
    /\ Fresh \in Buckets
    /\ Fresh.tokens = Capacity
    /\ Held(Fresh) = Capacity * FillDen
    /\ Earned(Fresh) = 0
    /\ Worth(Fresh) = Capacity * FillDen
<1>1. Fresh \in Buckets /\ Fresh.tokens = Capacity /\ Fresh.age = 0
    BY TokenAssumption DEF Fresh, Buckets
<1>2. Held(Fresh) = Capacity * FillDen /\ Earned(Fresh) = 0
    BY <1>1, TokenAssumption DEF Held, Earned
<1> QED BY <1>1, <1>2, WorthFacts DEF Least, Brim

\* A refill loses what it cuts off and earns nothing; afterwards less than a
\* token is in the making.
LEMMA RefilledFacts ==
    ASSUME NEW b \in Buckets
    PROVE  /\ Refilled(b) \in Buckets
           /\ Earned(Refilled(b)) < FillDen
           /\ Held(Refilled(b)) + Earned(Refilled(b)) <= Worth(b)
<1> DEFINE n == NewTokens(b)
<1>1. /\ b.tokens \in 0 .. Capacity /\ b.age \in 0 .. AgeBound
      /\ Capacity \in Nat /\ FillNum \in Nat /\ FillDen \in Nat \ {0}
    BY TokenAssumption DEF Buckets
<1>2. /\ n \in Nat
      /\ n * FillDen <= Earned(b)
      /\ Earned(b) < n * FillDen + FillDen
    BY <1>1, WorthFacts, FloorFacts DEF NewTokens, Earned
<1> HIDE DEF n
<1>3. CASE n = 0
    <2>1. Refilled(b) = b
        BY <1>3 DEF Refilled, n
    <2>2. Earned(b) < FillDen
        BY <1>1, <1>2, <1>3
    <2> QED BY <2>1, <2>2, WorthFacts DEF Least, Brim
<1>4. CASE n # 0 /\ b.tokens + n > Capacity
    <2>1. Refilled(b) = Fresh
        BY <1>4 DEF Refilled, n
    <2>2. Capacity * FillDen <= (b.tokens + n) * FillDen
        BY <1>1, <1>2, <1>4, ProductMonotone
    <2>3. (b.tokens + n) * FillDen = Held(b) + n * FillDen
        BY <1>1, <1>2, ProductSum DEF Held
    <2>4. n * FillDen \in Nat
        BY <1>1, <1>2, ProductType
    <2>5. Capacity * FillDen <= Held(b) + Earned(b)
        BY <1>2, <2>2, <2>3, <2>4, WorthFacts
    <2> QED BY <2>1, <2>5, FreshFacts, WorthFacts DEF Least, Brim
<1>5. CASE n # 0 /\ ~(b.tokens + n > Capacity)
    <2> DEFINE r == [tokens |-> b.tokens + n, age |-> 0]
    <2>1. Refilled(b) = r
        BY <1>5 DEF Refilled, n
    <2>2. r \in Buckets
        BY <1>1, <1>2, <1>5, TokenAssumption DEF Buckets
    <2>3. Held(r) = Held(b) + n * FillDen /\ Earned(r) = 0
        BY <1>1, <1>2, ProductSum DEF Held, Earned
    <2>4. n * FillDen \in Nat
        BY <1>1, <1>2, ProductType
    <2>5. Held(r) <= Capacity * FillDen
        BY <2>2, WorthFacts
    <2> HIDE DEF r
    <2> QED BY <1>2, <2>1, <2>2, <2>3, <2>4, <2>5, WorthFacts DEF Least, Brim
<1> QED BY <1>2, <1>3, <1>4, <1>5

\* Taking a token of a refilled bucket costs a token's worth.
LEMMA TakenFacts ==
    ASSUME NEW b \in Buckets, Refilled(b).tokens > 0
    PROVE  LET spent == [Refilled(b) EXCEPT !.tokens = @ - 1] IN
           /\ spent \in Buckets
           /\ Worth(spent) <= Worth(b) - FillDen
<1> DEFINE r == Refilled(b)
           spent == [r EXCEPT !.tokens = @ - 1]
<1>1. /\ r \in Buckets /\ r.tokens > 0
      /\ Held(r) + Earned(r) <= Worth(b)
    BY RefilledFacts
<1> HIDE DEF r
<1>2. /\ spent \in Buckets
      /\ spent.tokens \in Nat /\ r.tokens = spent.tokens + 1
      /\ spent.age = r.age
    BY <1>1, TokenAssumption DEF Buckets
<1> HIDE DEF spent
<1>3. Held(r) = Held(spent) + FillDen
    <2>1. (spent.tokens + 1) * FillDen = spent.tokens * FillDen + 1 * FillDen
        BY <1>2, ProductSum, TokenAssumption
    <2> QED BY <1>2, <2>1, TokenAssumption DEF Held
<1>4. Earned(spent) = Earned(r)
    BY <1>2 DEF Earned
<1>5. Worth(spent) <= Held(spent) + Earned(spent)
    BY <1>2, WorthFacts DEF Least, Brim
<1>6. Worth(spent) <= Worth(b) - FillDen
    BY <1>1, <1>2, <1>3, <1>4, <1>5, WorthFacts
<1> QED BY <1>2, <1>6 DEF spent, r

\* A tick earns at most the fill rate.
OlderBucket(b) == IF b.age = AgeBound THEN b ELSE [b EXCEPT !.age = @ + 1]

LEMMA OlderBucketFacts ==
    ASSUME NEW b \in Buckets
    PROVE  /\ OlderBucket(b) \in Buckets
           /\ Worth(OlderBucket(b)) <= Worth(b) + FillNum
<1> DEFINE o == OlderBucket(b)
<1>1. CASE b.age = AgeBound
    <2>1. o = b
        BY <1>1 DEF OlderBucket
    <2> QED BY <2>1, WorthFacts, TokenAssumption DEF Brim
<1>2. CASE b.age # AgeBound
    <2>1. /\ o \in Buckets
          /\ o.age = b.age + 1 /\ b.age \in Nat
          /\ o.tokens = b.tokens
        BY <1>2, TokenAssumption DEF OlderBucket, Buckets
    <2>2. Earned(o) = Earned(b) + FillNum /\ Held(o) = Held(b)
        <3>1. (b.age + 1) * FillNum = b.age * FillNum + 1 * FillNum
            BY <2>1, ProductSum, TokenAssumption
        <3> QED BY <2>1, <3>1, TokenAssumption DEF Earned, Held
    <2> HIDE DEF o
    <2>3. Worth(o) <= Worth(b) + FillNum
        BY <2>1, <2>2, WorthFacts, TokenAssumption DEF Least, Brim
    <2> QED BY <2>1, <2>3 DEF o
<1> QED BY <1>1, <1>2

\* The cleanup removes no bucket that is worth less than a fresh one.
LEMMA UnusedFacts ==
    ASSUME NEW b \in Buckets, Unused(b)
    PROVE  Worth(Fresh) <= Worth(b)
<1>1. CleanupInterval \in Nat /\ b.age \in Nat /\ CleanupInterval <= b.age
    BY TokenAssumption DEF Unused, Buckets
<1>2. CleanupInterval * FillNum <= Earned(b)
    BY <1>1, ProductMonotone, TokenAssumption DEF Earned
<1>3. CleanupInterval * FillNum \in Nat
    BY <1>1, ProductType, TokenAssumption
<1> QED BY <1>2, <1>3, FillAssumption, FreshFacts, WorthFacts DEF Least, Brim

-----------------------------------------------------------------------------
(* The table. *)

LEMMA BucketsTypeEquiv ==
    BucketsType <=> /\ DOMAIN buckets \subseteq Addrs
                    /\ buckets = [addr \in DOMAIN buckets |-> buckets[addr]]
                    /\ \A addr \in DOMAIN buckets : buckets[addr] \in Buckets
BY DEF BucketsType, MapsOf

LEMMA BucketsTypeEquivNext ==
    BucketsType' <=> /\ DOMAIN buckets' \subseteq Addrs
                     /\ buckets' = [addr \in DOMAIN buckets' |-> buckets'[addr]]
                     /\ \A addr \in DOMAIN buckets' : buckets'[addr] \in Buckets
BY DEF BucketsType, MapsOf

LEMMA BucketFacts ==
    ASSUME BucketsType, NEW addr \in Addrs
    PROVE  Bucket(addr) \in Buckets
BY BucketsTypeEquiv, FreshFacts DEF Bucket

\* Writing one bucket.
LEMMA PutFacts ==
    ASSUME BucketsType, NEW a \in Addrs, NEW b \in Buckets,
           buckets' = Put(buckets, a, b)
    PROVE  /\ BucketsType'
           /\ Bucket(a)' = b
           /\ \A addr \in Addrs \ {a} : Bucket(addr)' = Bucket(addr)
BY BucketsTypeEquiv, BucketsTypeEquivNext DEF Put, Bucket

\* How each operation changes what every address has.
LEMMA LetInFacts ==
    ASSUME BucketsType, NEW a \in Addrs, Take(a)
    PROVE  /\ BucketsType'
           /\ Worth(Bucket(a)') <= Worth(Bucket(a)) - FillDen
           /\ \A addr \in Addrs \ {a} : Bucket(addr)' = Bucket(addr)
<1> DEFINE spent == [Refilled(Bucket(a)) EXCEPT !.tokens = @ - 1]
<1>1. Bucket(a) \in Buckets /\ Refilled(Bucket(a)).tokens > 0
    BY BucketFacts DEF Take
<1>2. spent \in Buckets /\ Worth(spent) <= Worth(Bucket(a)) - FillDen
    BY <1>1, TakenFacts
<1>3. buckets' = Put(buckets, a, spent)
    BY DEF Take
<1> HIDE DEF spent
<1> QED BY <1>2, <1>3, PutFacts

\* A refilled bucket is worth no more than before.
LEMMA RefilledWorth ==
    ASSUME NEW b \in Buckets
    PROVE  Refilled(b) \in Buckets /\ Worth(Refilled(b)) <= Worth(b)
BY RefilledFacts, WorthFacts DEF Least, Brim

\* No address has more than before.
NoneGains == \A addr \in Addrs : Worth(Bucket(addr)') <= Worth(Bucket(addr))

LEMMA WorthReflexive ==
    ASSUME BucketsType, NEW addr \in Addrs, Bucket(addr)' = Bucket(addr)
    PROVE  Worth(Bucket(addr)') <= Worth(Bucket(addr))
<1>1. Worth(Bucket(addr)) \in Int
    BY BucketFacts, WorthFacts
<1> QED BY <1>1

LEMMA RefuseFacts ==
    ASSUME BucketsType, NEW a \in Addrs, TakeFails(a) \/ GetTokens(a)
    PROVE  BucketsType' /\ NoneGains
<1>1. buckets' = Put(buckets, a, Refilled(Bucket(a)))
    <2>1. CASE TakeFails(a)
        BY <2>1 DEF TakeFails
    <2>2. CASE GetTokens(a)
        BY <2>2, BucketsTypeEquiv DEF GetTokens, Put, Bucket
    <2> QED BY <2>1, <2>2
<1>2. /\ Refilled(Bucket(a)) \in Buckets
      /\ Worth(Refilled(Bucket(a))) <= Worth(Bucket(a))
    BY BucketFacts, RefilledWorth
<1>3. /\ BucketsType'
      /\ Bucket(a)' = Refilled(Bucket(a))
      /\ \A addr \in Addrs \ {a} : Bucket(addr)' = Bucket(addr)
    BY <1>1, <1>2, PutFacts
<1> QED BY <1>2, <1>3, WorthReflexive DEF NoneGains

LEMMA RefillFacts ==
    ASSUME BucketsType, RefillAll
    PROVE  BucketsType' /\ NoneGains
<1>1. \A addr \in DOMAIN buckets :
          /\ Refilled(buckets[addr]) \in Buckets
          /\ Worth(Refilled(buckets[addr])) <= Worth(buckets[addr])
    BY BucketsTypeEquiv, RefilledWorth
<1>2. BucketsType'
    BY <1>1, BucketsTypeEquiv, BucketsTypeEquivNext DEF RefillAll
<1>3. ASSUME NEW addr \in Addrs
      PROVE  Worth(Bucket(addr)') <= Worth(Bucket(addr))
    <2>1. CASE addr \in DOMAIN buckets
        BY <1>1, <2>1 DEF RefillAll, Bucket
    <2>2. CASE addr \notin DOMAIN buckets
        <3>1. Bucket(addr)' = Bucket(addr)
            BY <2>2 DEF RefillAll, Bucket
        <3> QED BY <3>1, WorthReflexive
    <2> QED BY <2>1, <2>2
<1> QED BY <1>2, <1>3 DEF NoneGains

LEMMA BucketsCleanupFacts ==
    ASSUME BucketsType, Cleanup
    PROVE  BucketsType' /\ NoneGains
<1>1. BucketsType'
    BY BucketsTypeEquiv, BucketsTypeEquivNext DEF Cleanup, Retain
<1>2. ASSUME NEW addr \in Addrs
      PROVE  Worth(Bucket(addr)') <= Worth(Bucket(addr))
    <2>1. CASE addr \in DOMAIN buckets /\ Unused(Bucket(addr))
        <3>1. Bucket(addr)' = Fresh
            BY <2>1 DEF Cleanup, Retain, Bucket
        <3> QED BY <2>1, <3>1, BucketFacts, UnusedFacts
    <2>2. CASE ~(addr \in DOMAIN buckets /\ Unused(Bucket(addr)))
        <3>1. Bucket(addr)' = Bucket(addr)
            BY <2>2 DEF Cleanup, Retain, Bucket
        <3> QED BY <3>1, WorthReflexive
    <2> QED BY <2>1, <2>2
<1> QED BY <1>1, <1>2 DEF NoneGains

LEMMA BucketsAgeFacts ==
    ASSUME BucketsType, BucketsAge
    PROVE  /\ BucketsType'
           /\ \A addr \in Addrs :
                  Worth(Bucket(addr)') <= Worth(Bucket(addr)) + FillNum
<1>1. \A addr \in DOMAIN buckets : buckets'[addr] = OlderBucket(buckets[addr])
    BY DEF BucketsAge, OlderBucket
<1>2. \A addr \in DOMAIN buckets :
          /\ buckets'[addr] \in Buckets
          /\ Worth(buckets'[addr]) <= Worth(buckets[addr]) + FillNum
    BY <1>1, BucketsTypeEquiv, OlderBucketFacts
<1>3. DOMAIN buckets' = DOMAIN buckets
      /\ buckets' = [addr \in DOMAIN buckets' |-> buckets'[addr]]
    BY DEF BucketsAge
<1>4. BucketsType'
    BY <1>2, <1>3, BucketsTypeEquiv, BucketsTypeEquivNext
<1>5. ASSUME NEW addr \in Addrs
      PROVE  Worth(Bucket(addr)') <= Worth(Bucket(addr)) + FillNum
    <2>1. CASE addr \in DOMAIN buckets
        BY <1>2, <1>3, <2>1 DEF Bucket
    <2>2. CASE addr \notin DOMAIN buckets
        <3>1. Bucket(addr)' = Bucket(addr)
            BY <1>3, <2>2 DEF Bucket
        <3> QED BY <3>1, BucketFacts, WorthFacts, TokenAssumption
    <2> QED BY <2>1, <2>2
<1> QED BY <1>4, <1>5

-----------------------------------------------------------------------------
(* Type correctness. *)

LEMMA TokensTypeStep == TokensType /\ [TokensNext]_tokenVars => TokensType'
<1> SUFFICES ASSUME TokensType, [TokensNext]_tokenVars PROVE TokensType'
    OBVIOUS
<1> USE DEF TokensType, Events, Running
<1>1. ASSUME NEW addr \in Addrs, TakeToken(addr) PROVE TokensType'
    BY <1>1, LetInFacts DEF TakeToken
<1>2. ASSUME NEW addr \in Addrs, MissToken(addr) PROVE TokensType'
    BY <1>2, RefuseFacts DEF MissToken
<1>3. ASSUME NEW addr \in Addrs, QueryTokens(addr) PROVE TokensType'
    BY <1>3, RefuseFacts DEF QueryTokens
<1>4. CASE RefillTokens
    BY <1>4, RefillFacts DEF RefillTokens
<1>5. CASE CleanupTokens
    BY <1>5, BucketsCleanupFacts DEF CleanupTokens
<1>6. CASE StopTokens \/ RefillerReturns \/ CleanerReturns
    BY <1>6 DEF StopTokens, RefillerReturns, CleanerReturns, BucketsType
<1>7. CASE TokensTick
    BY <1>7, BucketsAgeFacts DEF TokensTick
<1>8. CASE UNCHANGED tokenVars
    BY <1>8 DEF tokenVars, BucketsType
<1> QED BY <1>1, <1>2, <1>3, <1>4, <1>5, <1>6, <1>7, <1>8 DEF TokensNext

\* The bucket of every address stays within its capacity, whatever the fill
\* rate.
THEOREM TokensTypeCorrect == TokensSpec => []TokensType
<1>1. TokensInit => TokensType
    BY DEF TokensInit, NoBuckets, EmptyMap, TokensType, BucketsType, MapsOf, Events
<1> QED BY <1>1, TokensTypeStep, PTL DEF TokensSpec

-----------------------------------------------------------------------------
(* The refinement. *)

\* The abstract limits, in terms of what the buckets are worth.
LEMMA AbstractAtMost ==
    ASSUME NEW limit, BucketsType',
           \A addr \in Addrs : /\ limit[addr] \in Nat
                               /\ Worth(Bucket(addr)') <= limit[addr]
    PROVE  Budget!AtMost(limit)
<1>1. ASSUME NEW addr \in Addrs
      PROVE  Worth(Bucket(addr)') \in 0 .. limit[addr]
    <2>1. Bucket(addr)' \in Buckets
        BY FreshFacts, BucketsTypeEquivNext DEF Bucket
    <2> QED BY <2>1, WorthFacts
<1> QED BY <1>1 DEF Budget!AtMost

LEMMA StepRefines ==
    TokensType /\ TokensType' /\ [TokensNext]_tokenVars => [Budget!Next]_(Budget!vars)
<1> SUFFICES ASSUME TokensType, TokensType', [TokensNext]_tokenVars
             PROVE  [Budget!Next]_(Budget!vars)
    OBVIOUS
<1> DEFINE credit == [addr \in Addrs |-> Worth(Bucket(addr))]
<1>1. \A addr \in Addrs : /\ credit[addr] = Worth(Bucket(addr))
                           /\ credit[addr] \in 0 .. Brim
    BY BucketFacts, WorthFacts DEF TokensType
<1>2. ASSUME NEW a \in Addrs, TakeToken(a) PROVE Budget!LetIn(a)
    <2> DEFINE limit == [credit EXCEPT ![a] = @ - FillDen]
    <2>1. /\ Worth(Bucket(a)') <= Worth(Bucket(a)) - FillDen
          /\ \A addr \in Addrs \ {a} : Bucket(addr)' = Bucket(addr)
        BY <1>2, LetInFacts DEF TakeToken, TokensType
    <2>2. Worth(Bucket(a)') \in Nat
        BY FreshFacts, BucketsTypeEquivNext, WorthFacts DEF Bucket, TokensType
    <2>3. \A addr \in Addrs : limit[addr] \in Nat /\ Worth(Bucket(addr)') <= limit[addr]
        BY <1>1, <2>1, <2>2, TokenAssumption DEF Brim
    <2> HIDE DEF limit
    <2>4. Budget!AtMost(limit)
        BY <2>3, AbstractAtMost DEF TokensType
    <2> QED BY <1>2, <2>4 DEF limit, TakeToken, Budget!LetIn
<1>3. ASSUME NoneGains, event'[1] \notin {"take", "tick"} PROVE Budget!Lose
    <2>1. \A addr \in Addrs : credit[addr] \in Nat /\ Worth(Bucket(addr)') <= credit[addr]
        BY <1>1, <1>3 DEF NoneGains
    <2>2. Budget!AtMost(credit)
        <3> HIDE DEF credit
        <3> QED BY <2>1, AbstractAtMost DEF TokensType
    <2> QED BY <1>3, <2>2 DEF Budget!Lose
<1>4. ASSUME TokensTick PROVE Budget!Earn
    <2> DEFINE limit == [addr \in Addrs |-> IF credit[addr] + FillNum < Brim
                                           THEN credit[addr] + FillNum ELSE Brim]
    <2>1. \A addr \in Addrs : /\ Worth(Bucket(addr)') <= Worth(Bucket(addr)) + FillNum
                               /\ Worth(Bucket(addr)') \in 0 .. Brim
        BY <1>4, BucketsAgeFacts, FreshFacts, BucketsTypeEquivNext, WorthFacts
           DEF TokensTick, TokensType, Bucket
    <2>2. \A addr \in Addrs : limit[addr] \in Nat /\ Worth(Bucket(addr)') <= limit[addr]
        BY <1>1, <2>1, TokenAssumption, FreshFacts, WorthFacts DEF Brim
    <2>3. limit = [addr \in Addrs |->
                      IF credit[addr] + FillNum < Budget!Brim
                      THEN credit[addr] + FillNum ELSE Budget!Brim]
        BY DEF Brim, Budget!Brim
    <2> HIDE DEF limit
    <2>4. Budget!AtMost(limit)
        BY <2>2, AbstractAtMost DEF TokensType
    <2> QED BY <1>4, <2>3, <2>4 DEF TokensTick, Budget!Earn
<1>5. CASE \E a \in Addrs : TakeToken(a)
    BY <1>2, <1>5 DEF Budget!Next
<1>6. CASE \E a \in Addrs : MissToken(a) \/ QueryTokens(a)
    <2>1. NoneGains /\ event'[1] \notin {"take", "tick"}
        BY <1>6, RefuseFacts DEF MissToken, QueryTokens, TokensType
    <2> QED BY <1>3, <2>1 DEF Budget!Next
<1>7. CASE RefillTokens
    <2>1. NoneGains /\ event'[1] \notin {"take", "tick"}
        BY <1>7, RefillFacts DEF RefillTokens, TokensType
    <2> QED BY <1>3, <2>1 DEF Budget!Next
<1>8. CASE CleanupTokens
    <2>1. NoneGains /\ event'[1] \notin {"take", "tick"}
        BY <1>8, BucketsCleanupFacts DEF CleanupTokens, TokensType
    <2> QED BY <1>3, <2>1 DEF Budget!Next
<1>9. CASE StopTokens \/ RefillerReturns \/ CleanerReturns
    <2>1. event' = <<"none">> /\ UNCHANGED buckets
        BY <1>9 DEF StopTokens, RefillerReturns, CleanerReturns
    <2>2. NoneGains
        BY <2>1, <1>1 DEF NoneGains, Bucket
    <2>3. event'[1] \notin {"take", "tick"}
        BY <2>1
    <2> QED BY <1>3, <2>2, <2>3 DEF Budget!Next
<1>10. CASE UNCHANGED tokenVars
    BY <1>10 DEF tokenVars, Budget!vars, Bucket
<1> QED BY <1>4, <1>5, <1>6, <1>7, <1>8, <1>9, <1>10 DEF TokensNext, Budget!Next

\* The token bucket keeps within its budget: with every interleaving of lazy
\* refills, ticker refills and cleanups, for every capacity and every rate
\* that fills a bucket within the cleanup interval.
THEOREM BudgetCorrect == TokensSpec => ImplementsBudget
<1>1. TokensInit => Budget!Init
    <2> SUFFICES ASSUME TokensInit PROVE Budget!Init
        OBVIOUS
    <2>1. \A addr \in Addrs : Worth(Bucket(addr)) = Capacity * FillDen
        BY FreshFacts DEF TokensInit, NoBuckets, EmptyMap, Bucket
    <2> QED BY <2>1 DEF TokensInit, Budget!Init
<1> QED BY <1>1, TokensTypeCorrect, StepRefines, PTL
        DEF TokensSpec, ImplementsBudget, Budget!Spec

-----------------------------------------------------------------------------
(* The protection layer. *)

\* Run has a connection in hand while it checks one.
Own ==
    /\ serving \in [Addrs -> Nat]
    /\ check \in {"failed", "tokens", "wrap", "limits"} => cur \in Addrs

\* The failure that blocked an address is its last one or an earlier one.
LastFailLatest ==
    \A addr \in DOMAIN attempts :
        attempts[addr].lastFail <= attempts[addr].blockedAt

Table == AttemptsType /\ LastFailLatest

Inv == Table /\ Own

-----------------------------------------------------------------------------
(* The table of failures. *)

LEMMA AttemptsTypeEquiv ==
    AttemptsType <=>
        /\ DOMAIN attempts \subseteq Addrs
        /\ attempts = [addr \in DOMAIN attempts |-> attempts[addr]]
        /\ \A addr \in DOMAIN attempts : attempts[addr] \in AttemptInfo
BY DEF AttemptsType, MapsOf

LEMMA AttemptsTypeEquivNext ==
    AttemptsType' <=>
        /\ DOMAIN attempts' \subseteq Addrs
        /\ attempts' = [addr \in DOMAIN attempts' |-> attempts'[addr]]
        /\ \A addr \in DOMAIN attempts' : attempts'[addr] \in AttemptInfo
BY DEF AttemptsType, MapsOf

\* An address is blocked only by an entry of its own.
LEMMA BlockedPresent ==
    ASSUME NEW addr, Blocked(addr)
    PROVE  addr \in DOMAIN attempts
BY AttemptsAssumption DEF Blocked, Info

LEMMA InfoFacts ==
    ASSUME AttemptsType, NEW addr \in Addrs
    PROVE  /\ Info(addr).count \in 0 .. MaxAttempts
           /\ Info(addr).lastFail \in 0 .. Long
           /\ Info(addr).blockedAt \in 0 .. Long
BY AttemptsTypeEquiv, AttemptsAssumption DEF Info, AttemptInfo, Long

\* A failure writes an entry of the address that failed and no other.
LEMMA RegisterFacts ==
    ASSUME Table, NEW a \in Addrs, RegisterFailure(a)
    PROVE  /\ Table'
           /\ \A addr \in Addrs \ {a} : Info(addr)' = Info(addr)
           /\ Blocked(a) => Blocked(a)'
<1> USE DEF Table
<1> DEFINE entry ==
        [count |-> Counted(Info(a).count), lastFail |-> 0,
         blockedAt |-> IF Counted(Info(a).count) >= MaxAttempts THEN 0
                       ELSE Info(a).blockedAt]
<1>1. /\ Counted(Info(a).count) \in 1 .. MaxAttempts
      /\ Info(a).count >= MaxAttempts => Counted(Info(a).count) >= MaxAttempts
    BY InfoFacts, AttemptsAssumption DEF Counted
<1>2. /\ entry \in AttemptInfo
      /\ entry.lastFail <= entry.blockedAt
      /\ entry.count = Counted(Info(a).count)
      /\ entry.count >= MaxAttempts => entry.blockedAt = 0
    BY <1>1, InfoFacts, AttemptsAssumption DEF AttemptInfo, Long
<1>3. attempts' = Put(attempts, a, entry)
    BY DEF RegisterFailure
<1> HIDE DEF entry
<1>4. /\ AttemptsType'
      /\ \A addr \in Addrs \ {a} : Info(addr)' = Info(addr)
      /\ Info(a)' = entry
    BY <1>2, <1>3, AttemptsTypeEquiv, AttemptsTypeEquivNext DEF Put, Info
<1>6. LastFailLatest'
    BY <1>2, <1>3 DEF Put, LastFailLatest
<1>5. Blocked(a) => Blocked(a)'
    BY <1>1, <1>2, <1>4, AttemptsAssumption DEF Blocked
<1> QED BY <1>4, <1>5, <1>6

\* IsBlocked forgets the entry of an address that is not blocked, or none.
LEMMA IsBlockedFacts ==
    ASSUME Table, NEW a \in Addrs, IsBlocked(a)
    PROVE  /\ Table'
           /\ \A addr \in Addrs : Blocked(addr)' <=> Blocked(addr)
<1>1. Table'
    BY AttemptsTypeEquiv, AttemptsTypeEquivNext
       DEF IsBlocked, Delete, Table, LastFailLatest
<1>2. \A addr \in Addrs \ {a} : Info(addr)' = Info(addr)
    BY DEF IsBlocked, Delete, Info
<1>3. Blocked(a)' <=> Blocked(a)
    <2>1. CASE ~Blocked(a) /\ LongAgo(a)
        <3>1. a \notin DOMAIN attempts'
            BY <2>1 DEF IsBlocked, Delete
        <3>2. ~Blocked(a)'
            BY <3>1, AttemptsAssumption DEF Blocked, Info
        <3> QED BY <2>1, <3>2
    <2>2. CASE ~(~Blocked(a) /\ LongAgo(a))
        BY <2>2 DEF IsBlocked, Blocked, Info
    <2> QED BY <2>1, <2>2
<1> QED BY <1>1, <1>2, <1>3 DEF Blocked

\* The cleanup takes away no block and makes none.
LEMMA CleanupFacts ==
    ASSUME Table, ForgetExpired
    PROVE  /\ Table'
           /\ \A addr \in Addrs : Blocked(addr)' <=> Blocked(addr)
<1>1. Table'
    BY AttemptsTypeEquiv, AttemptsTypeEquivNext
       DEF ForgetExpired, Retain, Table, LastFailLatest
<1>2. ASSUME NEW addr \in Addrs, Blocked(addr) PROVE Blocked(addr)'
    <2>1. addr \in DOMAIN attempts
        BY <1>2, BlockedPresent
    <2>2. ~Expired(addr)
        BY <1>2, <2>1, InfoFacts, AttemptsAssumption
           DEF Expired, LongAgo, Blocked, Info, Table, LastFailLatest, Long
    <2>3. Info(addr)' = Info(addr)
        BY <2>1, <2>2 DEF ForgetExpired, Retain, Info
    <2> QED BY <1>2, <2>3 DEF Blocked
<1>3. ASSUME NEW addr \in Addrs, Blocked(addr)' PROVE Blocked(addr)
    <2>1. addr \in DOMAIN attempts'
        BY <1>3, AttemptsAssumption DEF Blocked, Info
    <2>2. Info(addr)' = Info(addr)
        BY <2>1 DEF ForgetExpired, Retain, Info
    <2> QED BY <1>3, <2>2 DEF Blocked
<1> QED BY <1>1, <1>2, <1>3

\* An entry one tick older.
LEMMA OlderFacts ==
    ASSUME NEW e \in AttemptInfo
    PROVE  LET older == [e EXCEPT !.lastFail = Older(@), !.blockedAt = Older(@)] IN
           /\ older \in AttemptInfo
           /\ older.count = e.count
           /\ older.lastFail = Older(e.lastFail)
           /\ older.blockedAt = Older(e.blockedAt)
<1> DEFINE half == [e EXCEPT !.lastFail = Older(e.lastFail)]
           older == [half EXCEPT !.blockedAt = Older(e.blockedAt)]
<1>1. Older(e.lastFail) \in 0 .. Long /\ Older(e.blockedAt) \in 0 .. Long
    BY AttemptsAssumption DEF AttemptInfo, Older, Long
<1>2. /\ half \in AttemptInfo
      /\ half.count = e.count /\ half.lastFail = Older(e.lastFail)
      /\ half.blockedAt = e.blockedAt
    BY <1>1 DEF AttemptInfo
<1> HIDE DEF half
<1>3. /\ older \in AttemptInfo
      /\ older.count = e.count /\ older.lastFail = Older(e.lastFail)
      /\ older.blockedAt = Older(e.blockedAt)
    BY <1>1, <1>2 DEF AttemptInfo
<1>4. older = [e EXCEPT !.lastFail = Older(@), !.blockedAt = Older(@)]
    BY DEF half, AttemptInfo
<1> QED BY <1>3, <1>4, Zenon

\* Time makes no block, and ends one only when its time is over.
LEMMA AgeFacts ==
    ASSUME Table, AttemptsAge
    PROVE  /\ Table'
           /\ \A addr \in Addrs : Blocked(addr)' => Blocked(addr)
           /\ \A addr \in Addrs : Blocked(addr) =>
                  Blocked(addr)' \/ Info(addr)'.blockedAt = BlockTime
<1>1. /\ DOMAIN attempts' = DOMAIN attempts
      /\ attempts' = [addr \in DOMAIN attempts' |-> attempts'[addr]]
      /\ \A addr \in DOMAIN attempts :
             /\ attempts'[addr] \in AttemptInfo
             /\ attempts'[addr].count = attempts[addr].count
             /\ attempts'[addr].lastFail = Older(attempts[addr].lastFail)
             /\ attempts'[addr].blockedAt = Older(attempts[addr].blockedAt)
    <2>1. \A addr \in DOMAIN attempts : attempts[addr] \in AttemptInfo
        BY AttemptsTypeEquiv DEF Table
    <2> QED BY <2>1, OlderFacts DEF AttemptsAge
<1>2. Table'
    <2>1. LastFailLatest'
        BY <1>1, AttemptsTypeEquiv, AttemptsAssumption
           DEF Table, LastFailLatest, AttemptInfo, Older, Long
    <2>2. AttemptsType'
        BY <1>1, AttemptsTypeEquiv, AttemptsTypeEquivNext DEF Table
    <2> QED BY <2>1, <2>2 DEF Table
<1>3. ASSUME NEW addr \in Addrs
      PROVE  /\ Blocked(addr)' => Blocked(addr)
             /\ Blocked(addr) =>
                    Blocked(addr)' \/ Info(addr)'.blockedAt = BlockTime
    <2>1. CASE addr \in DOMAIN attempts
        <3>1. /\ Info(addr)'.count = Info(addr).count
              /\ Info(addr)'.blockedAt = Older(Info(addr).blockedAt)
            BY <1>1, <2>1 DEF Info
        <3> QED BY <3>1, InfoFacts, AttemptsAssumption
                DEF Blocked, Older, Long, Table
    <2>2. CASE addr \notin DOMAIN attempts
        BY <1>1, <2>2, AttemptsAssumption DEF Blocked, Info
    <2> QED BY <2>1, <2>2
<1> QED BY <1>2, <1>3

-----------------------------------------------------------------------------
(* The invariant. *)

\* A step that leaves the table alone leaves the blocks alone.
LEMMA TableUnchanged ==
    ASSUME Table, UNCHANGED attempts
    PROVE  Table' /\ \A addr \in Addrs : Blocked(addr)' <=> Blocked(addr)
BY DEF Table, AttemptsType, LastFailLatest, Blocked, Info

LEMMA RunStepInv == ASSUME Inv, RunStep PROVE Inv'
<1> USE DEF Inv, Own, Goto
<1>1. ASSUME NEW addr \in Addrs, Accept(addr) PROVE Inv'
    BY <1>1, TableUnchanged DEF Accept
<1>2. CASE CheckFailed
    BY <1>2, IsBlockedFacts DEF CheckFailed
<1>3. CASE Overloaded
    BY <1>3, TableUnchanged DEF Overloaded
<1>4. CASE CheckTokens
    BY <1>4, TableUnchanged DEF CheckTokens
<1>5. CASE Wrap
    <2>1. Table'
        BY <1>5, IsBlockedFacts, TableUnchanged DEF Wrap
    <2> QED BY <1>5, <2>1 DEF Wrap
<1>6. CASE LimitsDrop
    BY <1>6, TableUnchanged DEF LimitsDrop
<1>7. CASE Serve
    <2>1. Table'
        BY <1>7, TableUnchanged DEF Serve
    <2> QED BY <1>7, <2>1 DEF Serve
<1>8. CASE Stop
    BY <1>8, TableUnchanged DEF Stop
<1> QED BY <1>1, <1>2, <1>3, <1>4, <1>5, <1>6, <1>7, <1>8 DEF RunStep

LEMMA InvStep == Inv /\ [Next]_vars => Inv'
<1> SUFFICES ASSUME Inv, [Next]_vars PROVE Inv'
    OBVIOUS
<1> USE DEF Inv, Own
<1>1. CASE RunStep
    BY <1>1, RunStepInv
<1>2. ASSUME NEW a \in Addrs, HandlerFails(a) PROVE Inv'
    <2>1. Table'
        BY <1>2, RegisterFacts DEF HandlerFails
    <2> QED BY <1>2, <2>1 DEF HandlerFails
<1>3. ASSUME NEW a \in Addrs, HandlerSucceeds(a) PROVE Inv'
    BY <1>3, TableUnchanged DEF HandlerSucceeds
<1>4. CASE CleanupFailures
    BY <1>4, CleanupFacts DEF CleanupFailures
<1>5. CASE TokenRoutines
    BY <1>5, TableUnchanged DEF TokenRoutines
<1>6. CASE Tick
    BY <1>6, AgeFacts DEF Tick
<1>7. CASE RoutineReturns
    BY <1>7, TableUnchanged DEF RoutineReturns, TokenRoutineReturns, MonitorReturns
<1>8. CASE UNCHANGED vars
    BY <1>8, TableUnchanged DEF vars
<1> QED BY <1>1, <1>2, <1>3, <1>4, <1>5, <1>6, <1>7, <1>8 DEF Next, NextBetweenFailures

LEMMA Invariance == Spec => []Inv
<1>1. Init => Inv
    BY AttemptsTypeEquiv
       DEF Init, NoAttempts, EmptyMap, Inv, Table, LastFailLatest, Own
<1> QED BY <1>1, InvStep, PTL DEF Spec

\* Nothing but time ends a block.
THEOREM BlockCorrect == Spec => BlockEndsWithTimeOnly
<1> DEFINE Ends(addr) == Blocked(addr) =>
                             Blocked(addr)' \/ Info(addr)'.blockedAt = BlockTime
<1>1. Inv /\ [Next]_vars => [\A addr \in Addrs : Ends(addr)]_vars
    <2> SUFFICES ASSUME Inv, Next, NEW addr \in Addrs PROVE Ends(addr)
        OBVIOUS
    <2> USE DEF Inv
    <2>1. CASE RunStep
        BY <2>1, TableUnchanged, IsBlockedFacts
           DEF RunStep, Accept, CheckFailed, Overloaded, CheckTokens, Wrap,
               LimitsDrop, Serve, Stop, Own
    <2>2. ASSUME NEW a \in Addrs, HandlerFails(a) PROVE Ends(addr)
        BY <2>2, RegisterFacts DEF HandlerFails, Blocked
    <2>3. ASSUME NEW a \in Addrs, HandlerSucceeds(a) PROVE Ends(addr)
        BY <2>3, TableUnchanged DEF HandlerSucceeds
    <2>4. CASE CleanupFailures
        BY <2>4, CleanupFacts DEF CleanupFailures
    <2>5. CASE TokenRoutines
        BY <2>5, TableUnchanged DEF TokenRoutines
    <2>6. CASE Tick
        BY <2>6, AgeFacts DEF Tick
    <2>7. CASE RoutineReturns
        BY <2>7, TableUnchanged DEF RoutineReturns, TokenRoutineReturns, MonitorReturns
    <2> QED BY <2>1, <2>2, <2>3, <2>4, <2>5, <2>6, <2>7 DEF Next, NextBetweenFailures
<1> QED BY <1>1, Invariance, PTL DEF Spec, BlockEndsWithTimeOnly

-----------------------------------------------------------------------------
(* The tokens: every step of the protection layer is one of the token       *)
(* bucket's or leaves it alone.                                             *)

LEMMA StepIsTokens == Inv /\ [Next]_vars => [TokensNext]_tokenVars
<1> SUFFICES ASSUME Inv, [Next]_vars PROVE [TokensNext]_tokenVars
    OBVIOUS
<1>1. CASE CheckTokens
    <2>1. cur \in Addrs
        BY <1>1 DEF CheckTokens, Inv, Own
    <2> QED BY <1>1, <2>1 DEF CheckTokens, TokensNext
<1>2. CASE Stop
    BY <1>2 DEF Stop, TokensNext
<1>3. CASE TokenRoutines \/ TokenRoutineReturns
    BY <1>3 DEF TokenRoutines, TokenRoutineReturns, TokensNext
<1>4. CASE Tick
    BY <1>4 DEF Tick, TokensNext
<1>5. CASE UNCHANGED tokenVars
    BY <1>5
<1>6. \/ CheckTokens \/ Stop \/ TokenRoutines \/ TokenRoutineReturns \/ Tick
      \/ UNCHANGED tokenVars
    BY DEF Next, NextBetweenFailures, RunStep, Accept, CheckFailed, Overloaded, Wrap,
           LimitsDrop, Serve, HandlerFails, HandlerSucceeds, CleanupFailures, RoutineReturns, MonitorReturns, vars
<1> QED BY <1>1, <1>2, <1>3, <1>4, <1>5, <1>6

LEMMA SpecIsTokens == Spec => TokensSpec
<1>1. Init => TokensInit
    BY DEF Init
<1> QED BY <1>1, StepIsTokens, Invariance, PTL DEF Spec, TokensSpec

\* In the composed protection layer too an address pays a token of its budget
\* each time IsAllowed lets it past the tokens, and only time earns tokens.
THEOREM BudgetKept == Spec => ImplementsBudget
BY SpecIsTokens, BudgetCorrect, PTL

\* Type correctness of the protection layer.
THEOREM TypeCorrect == Spec => []TypeOK
<1> DEFINE RunType ==
        /\ check \in {"accept", "failed", "tokens", "wrap", "limits", "returned"}
        /\ cur \in Addrs \cup {NoAddr}
        /\ monitor \in {"running", "stopping", "returned"}
<1>1. Init => RunType
    BY DEF Init
<1>2. Inv /\ RunType /\ [Next]_vars => RunType'
    BY DEF Inv, Next, NextBetweenFailures, RunStep, Accept, CheckFailed, Overloaded, CheckTokens,
           Wrap, LimitsDrop, Serve, Stop, Goto, HandlerFails, HandlerSucceeds, CleanupFailures,
           TokenRoutines, RoutineReturns, TokenRoutineReturns, MonitorReturns,
           Tick, vars
<1>3. Inv /\ RunType /\ TokensType => TypeOK
    BY DEF Inv, Table, Own, TypeOK
<1>4. Spec => []TokensType
    BY SpecIsTokens, TokensTypeCorrect, PTL
<1> QED BY <1>1, <1>2, <1>3, <1>4, Invariance, PTL DEF Spec

-----------------------------------------------------------------------------
(* The meter. *)

\* What an address has spent and has left is covered by the full bucket it
\* may have started with and by what time has earned it.
Covered(addr) ==
    taken[addr] * FillDen + Worth(Bucket(addr)) <= Brim + elapsed * FillNum

MeterInv ==
    /\ TokensType
    /\ taken \in [Addrs -> Nat]
    /\ elapsed \in Nat
    /\ \A addr \in Addrs : Covered(addr)

\* The products and the worth, as numbers.
LEMMA MeterFacts ==
    ASSUME TokensType, NEW addr \in Addrs, NEW n \in Nat
    PROVE  /\ n * FillDen \in Nat /\ n * FillNum \in Nat
           /\ (n + 1) * FillDen = n * FillDen + FillDen
           /\ (n + 1) * FillNum = n * FillNum + FillNum
           /\ FillDen \in Nat /\ FillNum \in Nat /\ Brim \in Nat
           /\ Worth(Bucket(addr)) \in Nat /\ Worth(Bucket(addr)) <= Brim
<1>1. FillDen \in Nat \ {0} /\ FillNum \in Nat /\ Capacity * FillDen \in Nat
    BY TokenAssumption, FreshFacts, WorthFacts
<1>2. n * FillDen \in Nat /\ n * FillNum \in Nat
    BY <1>1, ProductType
<1>3. /\ (n + 1) * FillDen = n * FillDen + 1 * FillDen
      /\ (n + 1) * FillNum = n * FillNum + 1 * FillNum
    BY <1>1, ProductSum
<1>4. Brim \in Nat
    BY <1>1 DEF Brim
<1>5. Worth(Bucket(addr)) \in 0 .. Brim
    BY BucketFacts, WorthFacts DEF TokensType
<1> QED BY <1>1, <1>2, <1>3, <1>4, <1>5

\* The worth of an address after a step that keeps the types.
LEMMA NextWorth ==
    ASSUME TokensType', NEW addr \in Addrs
    PROVE  Worth(Bucket(addr)') \in Nat
<1>1. Bucket(addr)' \in Buckets
    BY FreshFacts, BucketsTypeEquivNext DEF Bucket, TokensType
<1> QED BY <1>1, WorthFacts

\* A step that neither lets anyone in nor is a tick costs nothing and earns
\* nothing.
LEMMA UnmeteredStep ==
    ASSUME MeterInv, TokensType', NoneGains, UNCHANGED meter,
           NEW addr \in Addrs
    PROVE  Covered(addr)'
<1>1. Worth(Bucket(addr)') <= Worth(Bucket(addr))
    BY DEF NoneGains
<1>2. Covered(addr) /\ taken[addr] \in Nat /\ elapsed \in Nat
    BY DEF MeterInv
<1>3. taken[addr] * FillDen \in Nat /\ elapsed * FillNum \in Nat /\ Brim \in Nat
      /\ Worth(Bucket(addr)) \in Nat
    BY <1>2, MeterFacts DEF MeterInv
<1> QED BY <1>1, <1>2, <1>3, NextWorth DEF Covered, meter

\* A token pays for being let in.
LEMMA MeteredTake ==
    ASSUME MeterInv, TokensType', NEW a \in Addrs, TakeToken(a),
           taken' = [taken EXCEPT ![a] = @ + 1], UNCHANGED elapsed,
           NEW addr \in Addrs
    PROVE  Covered(addr)'
<1>1. /\ Worth(Bucket(a)') <= Worth(Bucket(a)) - FillDen
      /\ \A other \in Addrs \ {a} : Bucket(other)' = Bucket(other)
    BY LetInFacts DEF TakeToken, MeterInv, TokensType
<1>2. Covered(addr) /\ taken[addr] \in Nat /\ elapsed \in Nat
    BY DEF MeterInv
<1>3. /\ taken[addr] * FillDen \in Nat /\ elapsed * FillNum \in Nat
      /\ (taken[addr] + 1) * FillDen = taken[addr] * FillDen + FillDen
      /\ Brim \in Nat /\ FillDen \in Nat /\ Worth(Bucket(addr)) \in Nat
    BY <1>2, MeterFacts DEF MeterInv
<1>4. CASE addr = a
    <2>1. taken'[addr] = taken[addr] + 1
        BY <1>4 DEF MeterInv
    <2> QED BY <1>1, <1>2, <1>3, <1>4, <2>1, NextWorth DEF Covered
<1>5. CASE addr # a
    <2>1. taken'[addr] = taken[addr] /\ Bucket(addr)' = Bucket(addr)
        BY <1>1, <1>5 DEF MeterInv
    <2> QED BY <1>2, <1>3, <2>1 DEF Covered
<1> QED BY <1>4, <1>5

\* A tick earns at most the fill rate.
LEMMA MeteredTick ==
    ASSUME MeterInv, TokensType', TokensTick, elapsed' = elapsed + 1,
           UNCHANGED taken, NEW addr \in Addrs
    PROVE  Covered(addr)'
<1>1. Worth(Bucket(addr)') <= Worth(Bucket(addr)) + FillNum
    BY BucketsAgeFacts DEF TokensTick, MeterInv, TokensType
<1>2. Covered(addr) /\ taken[addr] \in Nat /\ elapsed \in Nat
    BY DEF MeterInv
<1>3. /\ taken[addr] * FillDen \in Nat /\ elapsed * FillNum \in Nat
      /\ (elapsed + 1) * FillNum = elapsed * FillNum + FillNum
      /\ Brim \in Nat /\ FillNum \in Nat /\ Worth(Bucket(addr)) \in Nat
    BY <1>2, MeterFacts DEF MeterInv
<1> QED BY <1>1, <1>2, <1>3, NextWorth DEF Covered

LEMMA MeterStep == MeterInv /\ [MeterNext]_meterVars => MeterInv'
<1> SUFFICES ASSUME MeterInv, [MeterNext]_meterVars PROVE MeterInv'
    OBVIOUS
<1>1. TokensType'
    <2>1. [TokensNext]_tokenVars
        BY DEF MeterNext, TokensNext, meterVars
    <2> QED BY <2>1, TokensTypeStep DEF MeterInv
<1>2. taken' \in [Addrs -> Nat] /\ elapsed' \in Nat
    BY DEF MeterInv, MeterNext, meterVars, meter
<1>3. ASSUME NEW addr \in Addrs PROVE Covered(addr)'
    <2>1. ASSUME NEW a \in Addrs, TakeToken(a),
                 taken' = [taken EXCEPT ![a] = @ + 1], UNCHANGED elapsed
          PROVE  Covered(addr)'
        BY <1>1, <2>1, MeteredTake
    <2>2. CASE TokensTick /\ elapsed' = elapsed + 1 /\ UNCHANGED taken
        BY <1>1, <2>2, MeteredTick
    <2>3. CASE /\ \/ \E a \in Addrs : MissToken(a) \/ QueryTokens(a)
                  \/ RefillTokens \/ CleanupTokens
                  \/ StopTokens \/ RefillerReturns \/ CleanerReturns
               /\ UNCHANGED meter
        <3>1. NoneGains
            <4>1. CASE UNCHANGED buckets
                BY <4>1, BucketFacts, WorthFacts
                   DEF NoneGains, Bucket, MeterInv, TokensType
            <4>2. CASE \E a \in Addrs : MissToken(a) \/ QueryTokens(a)
                BY <4>2, RefuseFacts DEF MissToken, QueryTokens, MeterInv,
                                         TokensType
            <4>3. CASE RefillTokens \/ CleanupTokens
                BY <4>3, RefillFacts, BucketsCleanupFacts
                   DEF RefillTokens, CleanupTokens, MeterInv, TokensType
            <4> QED BY <2>3, <4>1, <4>2, <4>3
                    DEF StopTokens, RefillerReturns, CleanerReturns
        <3> QED BY <1>1, <2>3, <3>1, UnmeteredStep
    <2>4. CASE UNCHANGED meterVars
        BY <2>4 DEF meterVars, meter, tokenVars, MeterInv, Covered, Bucket
    <2> QED BY <2>1, <2>2, <2>3, <2>4 DEF MeterNext
<1> QED BY <1>1, <1>2, <1>3 DEF MeterInv

\* A token bucket lets an address in, over any stretch of time, no more often
\* than a full bucket and the fill rate allow.
THEOREM AdmissionsCorrect == MeterSpec => []AdmissionsBounded
<1>1. MeterInit => MeterInv
    <2> SUFFICES ASSUME MeterInit, NEW addr \in Addrs PROVE Covered(addr)
        BY DEF MeterInit, MeterInv
    <2>1. Worth(Bucket(addr)) <= Brim /\ Worth(Bucket(addr)) \in Nat /\ Brim \in Nat
        BY MeterFacts DEF MeterInit
    <2>2. taken[addr] * FillDen = 0 /\ elapsed * FillNum = 0
        BY TokenAssumption DEF MeterInit
    <2> QED BY <2>1, <2>2 DEF Covered
<1>2. MeterInv => AdmissionsBounded
    <2> SUFFICES ASSUME MeterInv, NEW addr \in Addrs
                 PROVE  taken[addr] * FillDen <= Brim + elapsed * FillNum
        BY DEF AdmissionsBounded, Brim
    <2>1. Covered(addr) /\ taken[addr] \in Nat /\ elapsed \in Nat
        BY DEF MeterInv
    <2>2. taken[addr] * FillDen \in Nat /\ elapsed * FillNum \in Nat /\ Brim \in Nat
          /\ Worth(Bucket(addr)) \in Nat
        BY <2>1, MeterFacts DEF MeterInv
    <2> QED BY <2>1, <2>2 DEF Covered
<1> QED BY <1>1, <1>2, MeterStep, PTL DEF MeterSpec

\* An empty bucket whose time has not come.
Dry(b) == b.tokens = 0 /\ Earned(b) < FillDen

\* It has waited at least since its address was last let in.
Patient(addr) == Dry(Bucket(addr)) => Bucket(addr).age >= waited[addr]

WaitInv ==
    /\ TokensType
    /\ waited \in [Addrs -> Nat]
    /\ \A addr \in Addrs : Patient(addr)

\* A full bucket is not dry, and a refill leaves only those dry that it found
\* dry, as they were; an old enough bucket is not dry either.
LEMMA DryFacts ==
    ASSUME NEW b \in Buckets
    PROVE  /\ ~Dry(Fresh)
           /\ Refilled(b).tokens = 0 => Dry(b)
           /\ Dry(Refilled(b)) => Refilled(b) = b
           /\ Dry(b) => b.age # AgeBound
<1>1. /\ b.tokens \in Nat /\ b.age \in 0 .. AgeBound /\ NewTokens(b) \in Nat
      /\ Capacity \in Nat \ {0} /\ FillDen \in Nat \ {0} /\ FillNum \in Nat
      /\ Fresh.tokens = Capacity
      /\ Earned(b) \in Nat
    BY TokenAssumption, WorthFacts, FreshFacts, FloorFacts
       DEF Buckets, NewTokens, Earned
<1>2. NewTokens(b) = 0 => Earned(b) < FillDen
    BY <1>1, FloorFacts DEF NewTokens, Earned
<1>3. Dry(b) => b.age # AgeBound
    <2>1. 1 * FillDen <= Capacity * FillDen
        BY <1>1, ProductMonotone
    <2> QED BY <1>1, <2>1, TokenAssumption, WorthFacts DEF Dry, Earned
<1>4. CASE NewTokens(b) = 0
    <2>1. Refilled(b) = b
        BY <1>4 DEF Refilled
    <2>2. ~Dry(Fresh) /\ (Refilled(b).tokens = 0 => Dry(b))
        BY <1>1, <1>2, <1>4, <2>1 DEF Dry
    <2> QED BY <1>3, <2>1, <2>2
<1>5. CASE NewTokens(b) # 0
    <2>1. Refilled(b).tokens # 0
        BY <1>1, <1>5 DEF Refilled
    <2> QED BY <1>1, <1>3, <2>1 DEF Dry
<1> QED BY <1>4, <1>5

\* A step of a bucket that is a refill, or a removal, or none.
Drains(b, c) == c = b \/ c = Refilled(b) \/ c = Fresh

\* Such steps make nobody wait for longer.
LEMMA PatientStep ==
    ASSUME WaitInv, NEW addr \in Addrs, waited' = waited,
           Drains(Bucket(addr), Bucket(addr)')
    PROVE  Patient(addr)'
<1>1. Bucket(addr) \in Buckets
    BY BucketFacts DEF WaitInv, TokensType
<1>2. Dry(Bucket(addr)') => Bucket(addr)' = Bucket(addr)
    BY <1>1, DryFacts DEF Drains
<1> QED BY <1>2 DEF WaitInv, Patient

\* What the operations that let nobody in do to the bucket of an address.
LEMMA DrainsStep ==
    ASSUME BucketsType, NEW addr \in Addrs,
           \/ \E a \in Addrs : TakeFails(a) \/ GetTokens(a)
           \/ RefillAll \/ Cleanup \/ UNCHANGED buckets
    PROVE  Drains(Bucket(addr), Bucket(addr)')
<1>1. ASSUME NEW a \in Addrs, TakeFails(a) \/ GetTokens(a)
      PROVE  Drains(Bucket(addr), Bucket(addr)')
    <2>1. buckets' = Put(buckets, a, Refilled(Bucket(a)))
        BY <1>1, BucketsTypeEquiv DEF TakeFails, GetTokens, Put, Bucket
    <2>2. Refilled(Bucket(a)) \in Buckets
        BY BucketFacts, RefilledFacts
    <2> QED BY <2>1, <2>2, PutFacts DEF Drains
<1>2. CASE RefillAll
    BY <1>2 DEF RefillAll, Bucket, Drains
<1>3. CASE Cleanup
    BY <1>3, BucketsTypeEquiv DEF Cleanup, Retain, Bucket, Drains
<1>4. CASE UNCHANGED buckets
    BY <1>4 DEF Bucket, Drains
<1> QED BY <1>1, <1>2, <1>3, <1>4

\* A tick ages a dry bucket with its address.
LEMMA PatientTick ==
    ASSUME WaitInv, BucketsAge, NEW addr \in Addrs,
           waited' = [a \in Addrs |-> waited[a] + 1]
    PROVE  Patient(addr)'
<1>1. Bucket(addr) \in Buckets /\ waited[addr] \in Nat /\ Patient(addr)
    BY BucketFacts DEF WaitInv, TokensType
<1>2. CASE addr \in DOMAIN buckets
    <2> DEFINE b == buckets[addr]
               o == OlderBucket(b)
    <2>1. Bucket(addr) = b /\ Bucket(addr)' = o
        BY <1>2 DEF BucketsAge, OlderBucket, Bucket
    <2>2. b \in Buckets /\ o \in Buckets
        BY <1>1, <2>1, OlderBucketFacts
    <2>3. Dry(o) => o.age = b.age + 1 /\ o.tokens = b.tokens
        BY <2>2, DryFacts DEF OlderBucket, Buckets
    <2>4. b.age \in Nat /\ o.age \in Nat
        BY <2>2 DEF Buckets
    <2> HIDE DEF b, o
    <2>5. Dry(o) => Dry(b)
        <3> SUFFICES ASSUME Dry(o) PROVE Earned(b) < FillDen
            BY <2>3 DEF Dry
        <3>1. b.age * FillNum <= o.age * FillNum
            BY <2>3, <2>4, ProductMonotone, TokenAssumption
        <3> QED BY <2>2, <3>1, WorthFacts DEF Dry, Earned
    <2>6. Dry(o) => o.age >= waited[addr] + 1
        BY <1>1, <2>1, <2>3, <2>4, <2>5 DEF Patient
    <2> QED BY <2>1, <2>6 DEF Patient
<1>3. CASE addr \notin DOMAIN buckets
    <2>1. Bucket(addr)' = Fresh
        BY <1>3 DEF BucketsAge, Bucket
    <2> QED BY <1>1, <2>1, DryFacts DEF Patient
<1> QED BY <1>2, <1>3

\* Who has just been let in has not waited; the others' buckets stay.
LEMMA PatientTake ==
    ASSUME WaitInv, NEW a \in Addrs, Take(a), waited' = [waited EXCEPT ![a] = 0],
           NEW addr \in Addrs
    PROVE  Patient(addr)'
<1>1. BucketsType' /\ \A other \in Addrs \ {a} : Bucket(other)' = Bucket(other)
    BY LetInFacts DEF WaitInv, TokensType
<1>2. Bucket(addr)' \in Buckets
    BY <1>1, FreshFacts, BucketsTypeEquivNext DEF Bucket
<1>3. CASE addr = a
    <2>1. waited'[addr] = 0
        BY <1>3 DEF WaitInv
    <2>2. Bucket(addr)'.age \in Nat
        BY <1>2 DEF Buckets
    <2> QED BY <2>1, <2>2 DEF Patient
<1>4. CASE addr # a
    BY <1>1, <1>4 DEF WaitInv, Patient
<1> QED BY <1>3, <1>4

LEMMA WaitStep == WaitInv /\ [MeterNext]_meterVars => WaitInv'
<1> SUFFICES ASSUME WaitInv, [MeterNext]_meterVars PROVE WaitInv'
    OBVIOUS
<1>1. TokensType'
    <2>1. [TokensNext]_tokenVars
        BY DEF MeterNext, TokensNext, meterVars
    <2> QED BY <2>1, TokensTypeStep DEF WaitInv
<1>2. waited' \in [Addrs -> Nat]
    BY DEF WaitInv, MeterNext, meterVars, meter
<1>3. ASSUME NEW addr \in Addrs PROVE Patient(addr)'
    <2>1. ASSUME NEW a \in Addrs, TakeToken(a),
                 waited' = [waited EXCEPT ![a] = 0]
          PROVE  Patient(addr)'
        BY <2>1, PatientTake DEF TakeToken
    <2>2. CASE TokensTick /\ waited' = [a \in Addrs |-> waited[a] + 1]
        BY <2>2, PatientTick DEF TokensTick
    <2>3. CASE /\ \/ \E a \in Addrs : MissToken(a) \/ QueryTokens(a)
                  \/ RefillTokens \/ CleanupTokens
                  \/ StopTokens \/ RefillerReturns \/ CleanerReturns
               /\ UNCHANGED meter
        <3>1. Drains(Bucket(addr), Bucket(addr)')
            BY <2>3, DrainsStep
               DEF MissToken, QueryTokens, RefillTokens, CleanupTokens,
                   StopTokens, RefillerReturns, CleanerReturns, WaitInv,
                   TokensType
        <3> QED BY <2>3, <3>1, PatientStep DEF meter
    <2>4. CASE UNCHANGED meterVars
        BY <2>4 DEF meterVars, meter, tokenVars, WaitInv, Patient, Bucket
    <2> QED BY <2>1, <2>2, <2>3, <2>4 DEF MeterNext
<1> QED BY <1>1, <1>2, <1>3 DEF WaitInv

\* An address is refused for at most the time that a token takes: what refills
\* cut off delays no token that a dry bucket is waiting for.
THEOREM RefusalsCorrect == MeterSpec => RefusedOnlyAfterAdmission
<1>1. MeterInit => WaitInv
    <2> SUFFICES ASSUME MeterInit, NEW addr \in Addrs PROVE Patient(addr)
        BY DEF MeterInit, WaitInv
    <2>1. Bucket(addr).age \in Nat
        BY BucketFacts DEF MeterInit, TokensType, Buckets
    <2> QED BY <2>1 DEF MeterInit, Patient
<1>2. WaitInv /\ [MeterNext]_meterVars
          => [\A addr \in Addrs :
                  MissToken(addr) => waited[addr] * FillNum < FillDen]_meterVars
    <2> SUFFICES ASSUME WaitInv, NEW addr \in Addrs, MissToken(addr)
                 PROVE  waited[addr] * FillNum < FillDen
        OBVIOUS
    <2>1. Bucket(addr) \in Buckets /\ waited[addr] \in Nat /\ Patient(addr)
        BY BucketFacts DEF WaitInv, TokensType
    <2>2. Dry(Bucket(addr))
        BY <2>1, DryFacts DEF MissToken, TakeFails
    <2>3. waited[addr] * FillNum <= Bucket(addr).age * FillNum
        BY <2>1, <2>2, ProductMonotone, TokenAssumption DEF Patient, Buckets
    <2>4. waited[addr] * FillNum \in Nat
        BY <2>1, ProductType, TokenAssumption
    <2> QED BY <2>1, <2>2, <2>3, <2>4, WorthFacts DEF Dry, Earned
<1> QED BY <1>1, <1>2, WaitStep, PTL DEF MeterSpec, RefusedOnlyAfterAdmission

-----------------------------------------------------------------------------
(* The streaks. *)

\* An address is blocked as of its last failure.
BlockedAtLast ==
    \A addr \in DOMAIN attempts :
        attempts[addr].count >= MaxAttempts
            => attempts[addr].blockedAt = attempts[addr].lastFail

\* The table remembers a streak as long as it is not over.
Remembered(addr) ==
    IF streak[addr].age > BlockTime THEN streak[addr].length = 0
    ELSE /\ addr \in DOMAIN attempts
         /\ attempts[addr].lastFail = streak[addr].age
         /\ attempts[addr].count >= streak[addr].length

StreakInv ==
    /\ AttemptsType
    /\ streak \in [Addrs -> Streaks]
    /\ BlockedAtLast
    /\ \A addr \in Addrs : Remembered(addr)

\* The table keeps every entry that is not long ago, and makes none.
Forgets ==
    /\ DOMAIN attempts' \subseteq DOMAIN attempts
    /\ \A addr \in DOMAIN attempts' : attempts'[addr] = attempts[addr]
    /\ \A addr \in DOMAIN attempts :
           attempts[addr].lastFail <= BlockTime => addr \in DOMAIN attempts'

LEMMA IsBlockedForgets ==
    ASSUME AttemptsType, NEW a \in Addrs, IsBlocked(a)
    PROVE  AttemptsType' /\ Forgets
<1>1. AttemptsType'
    BY AttemptsTypeEquiv, AttemptsTypeEquivNext DEF IsBlocked, Delete
<1>2. \A addr \in DOMAIN attempts : attempts[addr].lastFail \in Nat
    BY AttemptsTypeEquiv DEF AttemptInfo
<1>3. Forgets
    BY <1>2, AttemptsAssumption
       DEF IsBlocked, Delete, LongAgo, Info, Forgets
<1> QED BY <1>1, <1>3

\* The cleanup's first condition adds nothing to its second: an entry is not
\* blocked for longer than it has not failed.
LEMMA CleanupForgets ==
    ASSUME AttemptsType, BlockedAtLast, ForgetExpired
    PROVE  AttemptsType' /\ Forgets
<1>1. AttemptsType'
    BY AttemptsTypeEquiv, AttemptsTypeEquivNext DEF ForgetExpired, Retain
<1>2. \A addr \in DOMAIN attempts :
          addr \in Addrs /\ attempts[addr].lastFail \in Nat
    BY AttemptsTypeEquiv DEF AttemptInfo
<1>3. ASSUME NEW addr \in DOMAIN attempts, attempts[addr].lastFail <= BlockTime
      PROVE  addr \in DOMAIN attempts'
    <2>1. ~Expired(addr)
        BY <1>2, <1>3, AttemptsAssumption
           DEF Expired, LongAgo, Info, BlockedAtLast
    <2> QED BY <1>2, <2>1 DEF ForgetExpired, Retain
<1>4. Forgets
    BY <1>3 DEF ForgetExpired, Retain, Forgets
<1> QED BY <1>1, <1>4

\* What the table forgets is no part of a streak.
LEMMA ForgettingKeepsStreaks ==
    ASSUME StreakInv, AttemptsType', Forgets, UNCHANGED streak
    PROVE  StreakInv'
<1>1. BlockedAtLast'
    BY DEF StreakInv, BlockedAtLast, Forgets
<1>2. ASSUME NEW addr \in Addrs PROVE Remembered(addr)'
    <2>1. Remembered(addr) /\ streak[addr] \in Streaks
        BY DEF StreakInv
    <2>2. CASE streak[addr].age > BlockTime
        BY <2>1, <2>2 DEF Remembered
    <2>3. CASE ~(streak[addr].age > BlockTime)
        <3>1. streak[addr].age <= BlockTime
            BY <2>1, <2>3, AttemptsAssumption DEF Streaks, Long
        <3> QED BY <2>1, <2>3, <3>1 DEF Remembered, Forgets
    <2> QED BY <2>2, <2>3
<1> QED BY <1>1, <1>2 DEF StreakInv

LEMMA NothingForgotten ==
    ASSUME StreakInv, UNCHANGED <<attempts, streak>>
    PROVE  StreakInv'
BY DEF StreakInv, AttemptsType, BlockedAtLast, Remembered

\* A failure is entered in the table and in the streak.
LEMMA FailureKeepsStreaks ==
    ASSUME StreakInv, NEW a \in Addrs, RegisterFailure(a), StreakGrows(a)
    PROVE  StreakInv'
<1> DEFINE entry ==
        [count |-> Counted(Info(a).count), lastFail |-> 0,
         blockedAt |-> IF Counted(Info(a).count) >= MaxAttempts THEN 0
                       ELSE Info(a).blockedAt]
<1>1. /\ Info(a).count \in 0 .. MaxAttempts /\ Info(a).blockedAt \in 0 .. Long
      /\ streak[a].length \in 0 .. MaxAttempts
      /\ Info(a).count >= streak[a].length
    <2>1. streak[a] \in Streaks /\ Remembered(a)
        BY DEF StreakInv
    <2>2. Info(a).count \in 0 .. MaxAttempts /\ Info(a).blockedAt \in 0 .. Long
        BY InfoFacts DEF StreakInv
    <2> QED BY <2>1, <2>2, AttemptsAssumption DEF Streaks, Remembered, Info
<1>2. /\ Counted(Info(a).count) \in 1 .. MaxAttempts
      /\ Counted(streak[a].length) \in 0 .. MaxAttempts
      /\ Counted(Info(a).count) >= Counted(streak[a].length)
    BY <1>1, AttemptsAssumption DEF Counted
<1>3. /\ entry \in AttemptInfo
      /\ entry.count = Counted(Info(a).count) /\ entry.lastFail = 0
      /\ entry.count >= MaxAttempts => entry.blockedAt = 0
    BY <1>1, <1>2, AttemptsAssumption DEF AttemptInfo, Long
<1>4. attempts' = Put(attempts, a, entry)
    BY DEF RegisterFailure
<1> HIDE DEF entry
<1>5. /\ AttemptsType'
      /\ a \in DOMAIN attempts' /\ attempts'[a] = entry
      /\ \A addr \in Addrs \ {a} :
             /\ addr \in DOMAIN attempts' <=> addr \in DOMAIN attempts
             /\ addr \in DOMAIN attempts => attempts'[addr] = attempts[addr]
    BY <1>3, <1>4, AttemptsTypeEquiv, AttemptsTypeEquivNext DEF Put, StreakInv
<1>6. BlockedAtLast'
    BY <1>3, <1>5, AttemptsTypeEquivNext DEF BlockedAtLast, StreakInv
<1>7. /\ streak'[a] = [length |-> Counted(streak[a].length), age |-> 0]
      /\ \A addr \in Addrs \ {a} : streak'[addr] = streak[addr]
      /\ streak' \in [Addrs -> Streaks]
    <2>1. [length |-> Counted(streak[a].length), age |-> 0] \in Streaks
        BY <1>2, AttemptsAssumption DEF Streaks, Long
    <2> QED BY <2>1 DEF StreakGrows, StreakInv
<1>8. Remembered(a)'
    BY <1>2, <1>3, <1>5, <1>7, AttemptsAssumption DEF Remembered
<1>9. ASSUME NEW addr \in Addrs \ {a} PROVE Remembered(addr)'
    BY <1>5, <1>7 DEF Remembered, StreakInv
<1> QED BY <1>5, <1>6, <1>7, <1>8, <1>9 DEF StreakInv

\* The table and the streaks age alike.
LEMMA AgeKeepsStreaks ==
    ASSUME StreakInv, AttemptsAge, StreaksAge
    PROVE  StreakInv'
<1>1. /\ DOMAIN attempts' = DOMAIN attempts
      /\ attempts' = [addr \in DOMAIN attempts' |-> attempts'[addr]]
      /\ \A addr \in DOMAIN attempts :
             /\ attempts'[addr] \in AttemptInfo
             /\ attempts'[addr].count = attempts[addr].count
             /\ attempts'[addr].lastFail = Older(attempts[addr].lastFail)
             /\ attempts'[addr].blockedAt = Older(attempts[addr].blockedAt)
    <2>1. \A addr \in DOMAIN attempts : attempts[addr] \in AttemptInfo
        BY AttemptsTypeEquiv DEF StreakInv
    <2> QED BY <2>1, OlderFacts DEF AttemptsAge
<1>2. AttemptsType'
    BY <1>1, AttemptsTypeEquiv, AttemptsTypeEquivNext DEF StreakInv
<1>3. BlockedAtLast'
    BY <1>1 DEF StreakInv, BlockedAtLast
<1>4. ASSUME NEW addr \in Addrs
      PROVE  streak'[addr] \in Streaks /\ Remembered(addr)'
    <2>1. streak[addr] \in Streaks /\ Remembered(addr)
        BY DEF StreakInv
    <2>2. CASE streak[addr].age >= BlockTime
        <3>1. streak'[addr] = NoStreak
            BY <2>2 DEF StreaksAge
        <3> QED BY <3>1, AttemptsAssumption DEF NoStreak, Streaks, Remembered, Long
    <2>3. CASE ~(streak[addr].age >= BlockTime)
        <3>1. /\ streak'[addr].age = streak[addr].age + 1
              /\ streak'[addr].length = streak[addr].length
              /\ streak[addr].age \in Nat /\ streak[addr].age < BlockTime
              /\ streak'[addr] \in Streaks
            BY <2>1, <2>3, AttemptsAssumption DEF StreaksAge, Streaks, Long
        <3>2. Older(streak[addr].age) = streak[addr].age + 1
            BY <3>1, AttemptsAssumption DEF Older, Long
        <3> QED BY <1>1, <2>1, <3>1, <3>2, AttemptsAssumption DEF Remembered
    <2> QED BY <2>2, <2>3
<1>5. streak' \in [Addrs -> Streaks]
    BY <1>4 DEF StreaksAge
<1> QED BY <1>2, <1>3, <1>4, <1>5 DEF StreakInv

\* Between failures and ticks the table only forgets.
LEMMA BetweenKeepsStreaks ==
    ASSUME Inv, StreakInv, NextBetweenFailures, UNCHANGED streak
    PROVE  StreakInv'
<1>1. CASE UNCHANGED attempts
    BY <1>1, NothingForgotten
<1>2. CASE (CheckFailed \/ Wrap) /\ IsBlocked(cur)
    <2>1. cur \in Addrs
        BY <1>2 DEF CheckFailed, Wrap, Inv, Own
    <2> QED BY <1>2, <2>1, IsBlockedForgets, ForgettingKeepsStreaks DEF StreakInv
<1>3. CASE CleanupFailures
    BY <1>3, CleanupForgets, ForgettingKeepsStreaks
       DEF CleanupFailures, StreakInv
<1>4. \/ UNCHANGED attempts
      \/ (CheckFailed \/ Wrap) /\ IsBlocked(cur)
      \/ CleanupFailures
    BY DEF NextBetweenFailures, RunStep, Accept, CheckFailed, Overloaded,
           CheckTokens, Wrap, LimitsDrop, Serve, Stop, HandlerSucceeds, TokenRoutines, RoutineReturns,
           TokenRoutineReturns, MonitorReturns
<1> QED BY <1>1, <1>2, <1>3, <1>4

\* The history restricts nothing: what holds of the protection layer holds
\* with it.
LEMMA StreaksSpecIsSpec == StreaksSpec => Spec
<1>1. StreaksInit => Init
    BY DEF StreaksInit
<1>2. [StreaksNext]_streakVars => [Next]_vars
    BY DEF StreaksNext, streakVars, Next, history
<1> QED BY <1>1, <1>2, PTL DEF StreaksSpec, Spec

LEMMA StreakInvariance == StreaksSpec => []StreakInv
<1>1. StreaksInit => StreakInv
    <2> SUFFICES ASSUME StreaksInit PROVE StreakInv
        OBVIOUS
    <2>1. NoStreak \in Streaks /\ NoStreak.age > BlockTime /\ NoStreak.length = 0
        BY AttemptsAssumption DEF NoStreak, Streaks, Long
    <2>2. attempts = EmptyMap /\ streak = [addr \in Addrs |-> NoStreak]
        BY DEF StreaksInit, Init, NoAttempts
    <2>3. AttemptsType /\ BlockedAtLast
        BY <2>2, AttemptsTypeEquiv DEF EmptyMap, BlockedAtLast
    <2> QED BY <2>1, <2>2, <2>3 DEF StreakInv, Remembered
<1>2. Inv /\ StreakInv /\ [StreaksNext]_streakVars => StreakInv'
    <2> SUFFICES ASSUME Inv, StreakInv, [StreaksNext]_streakVars PROVE StreakInv'
        OBVIOUS
    <2>1. ASSUME NEW a \in Addrs, HandlerFails(a), StreakGrows(a) PROVE StreakInv'
        BY <2>1, FailureKeepsStreaks DEF HandlerFails
    <2>2. CASE Tick /\ StreaksAge
        BY <2>2, AgeKeepsStreaks DEF Tick
    <2>3. CASE NextBetweenFailures /\ UNCHANGED streak
        BY <2>3, BetweenKeepsStreaks
    <2>4. CASE UNCHANGED streakVars
        BY <2>4, NothingForgotten DEF streakVars, vars, history
    <2> QED BY <2>1, <2>2, <2>3, <2>4 DEF StreaksNext
<1> QED BY <1>1, <1>2, StreaksSpecIsSpec, Invariance, PTL DEF StreaksSpec

\* Whoever fails MaxAttempts times, each time within the block time of the
\* last, is blocked for the block time: nothing forgets a failure too early.
THEOREM StreaksCorrect == StreaksSpec => []StreaksBlocked
<1>1. StreakInv => StreaksBlocked
    <2> SUFFICES ASSUME StreakInv, NEW addr \in Addrs,
                        streak[addr].length >= MaxAttempts,
                        streak[addr].age < BlockTime
                 PROVE  Blocked(addr)
        BY DEF StreaksBlocked
    <2>1. streak[addr] \in Streaks /\ Remembered(addr)
        BY DEF StreakInv
    <2>2. /\ addr \in DOMAIN attempts
          /\ attempts[addr].lastFail = streak[addr].age
          /\ attempts[addr].count >= streak[addr].length
        BY <2>1, AttemptsAssumption DEF Remembered, Streaks, Long
    <2>3. attempts[addr] \in AttemptInfo
        BY <2>2, AttemptsTypeEquiv DEF StreakInv
    <2>4. attempts[addr].count >= MaxAttempts
        BY <2>1, <2>2, <2>3, AttemptsAssumption DEF AttemptInfo, Streaks
    <2> QED BY <2>2, <2>4 DEF Blocked, Info, StreakInv, BlockedAtLast
<1> QED BY <1>1, StreakInvariance, PTL

FullStreak(addr) ==
    streak[addr].length >= MaxAttempts /\ streak[addr].age < BlockTime

PastCheck ==
    \/ check = "failed" /\ check' = "tokens"
    \/ check = "wrap" /\ check' = "limits"

\* Such an address is let past neither of Run's two checks: whatever the table
\* has forgotten and however its handlers, the cleanup and time have worked on
\* it, both still know of the streak.
THEOREM StreaksShutOut ==
    StreaksSpec =>
        [][\A addr \in Addrs : addr = cur /\ FullStreak(addr) => ~PastCheck]_streakVars
<1>1. StreaksBlocked /\ [StreaksNext]_streakVars =>
          [\A addr \in Addrs : addr = cur /\ FullStreak(addr) => ~PastCheck]_streakVars
    <2> SUFFICES ASSUME StreaksBlocked, StreaksNext, cur \in Addrs,
                        FullStreak(cur), PastCheck
                 PROVE  FALSE
        OBVIOUS
    <2>1. Blocked(cur)
        BY DEF StreaksBlocked, FullStreak
    <2>2. CASE CheckFailed \/ Wrap
        BY <2>1, <2>2 DEF CheckFailed, Wrap, Goto, PastCheck
    <2>3. ~(CheckFailed \/ Wrap) => check' = check \/ ~PastCheck
        BY DEF StreaksNext, NextBetweenFailures, RunStep, Accept, Overloaded,
               CheckTokens, LimitsDrop, Serve, Stop, Goto, HandlerFails,
               HandlerSucceeds, CleanupFailures, TokenRoutines, RoutineReturns,
               TokenRoutineReturns, MonitorReturns, Tick, PastCheck
    <2> QED BY <2>2, <2>3 DEF PastCheck
<1> QED BY <1>1, StreaksCorrect, PTL DEF StreaksSpec

-----------------------------------------------------------------------------
(* What Run does for an address while it is blocked.                        *)

\* A connection of a blocked address that has yet to pay its token, or is past
\* the second check, is the first that Run does anything for in this block.
HandFirst ==
    check \in {"tokens", "limits"} => late[cur] = 0

LateInv ==
    /\ late \in [Addrs -> {0, 1}]
    /\ \A addr \in Addrs : ~Blocked(addr) => late[addr] = 0
    /\ HandFirst

\* A step in which Run spends no token and starts no handler, and after which
\* it has no fresh connection in hand.
LEMMA LateIdle ==
    ASSUME Inv, LateInv, LateCounted,
           \A addr \in Addrs : ~Spends(addr) /\ ~Starts(addr),
           check' \in {"tokens", "limits"} =>
               /\ cur' \in Addrs
               /\ \A addr \in Addrs :
                      addr = cur' => late[addr] = 0 \/ ~Blocked(addr)'
    PROVE  LateInv'
<1>1. \A addr \in Addrs :
          late'[addr] = IF ~Blocked(addr)' THEN 0 ELSE late[addr]
    BY DEF LateCounted
<1>2. late' \in [Addrs -> {0, 1}]
    BY <1>1 DEF LateCounted, LateInv
<1>3. HandFirst'
    BY <1>1 DEF HandFirst
<1> QED BY <1>1, <1>2, <1>3 DEF LateInv

\* A step in which Run does something for the connection in hand, the first of
\* its block.
LEMMA LateBusy ==
    ASSUME Inv, LateInv, LateCounted, check \in {"tokens", "limits"},
           \A addr \in Addrs : Spends(addr) \/ Starts(addr) => addr = cur,
           check' \notin {"tokens", "limits"}
    PROVE  LateInv'
<1>1. late[cur] = 0
    BY DEF LateInv, HandFirst
<1>2. \A addr \in Addrs :
          /\ late'[addr] \in {0, 1}
          /\ ~Blocked(addr)' => late'[addr] = 0
    BY <1>1 DEF LateCounted, LateInv
<1>3. late' \in [Addrs -> {0, 1}]
    BY <1>2 DEF LateCounted
<1> QED BY <1>2, <1>3 DEF LateInv, HandFirst

\* Handlers, goroutines and time start no handler and leave Run where it is.
LEMMA LateElsewhere ==
    ASSUME Inv, LateInv, LateCounted, UNCHANGED <<check, cur>>,
           \A addr \in Addrs : ~Starts(addr)
    PROVE  LateInv'
<1>1. \A addr \in Addrs : ~Spends(addr) /\ ~Starts(addr)
    BY DEF Spends
<1>2. check' \in {"tokens", "limits"} => cur' \in Addrs /\ late[cur'] = 0
    BY DEF LateInv, HandFirst, Inv, Own
<1> QED BY <1>1, <1>2, LateIdle

LEMMA LateRunStep ==
    ASSUME Inv, LateInv, LateCounted, RunStep
    PROVE  LateInv'
<1> USE DEF Goto, Spends, Starts
<1>1. ASSUME NEW addr \in Addrs, Accept(addr) PROVE LateInv'
    BY <1>1, LateIdle DEF Accept, Inv, Own
<1>2. CASE CheckFailed
    <2>1. check' = "tokens" => cur' = cur /\ ~Blocked(cur)
        BY <1>2 DEF CheckFailed
    <2>2. \A addr \in Addrs : Blocked(addr)' <=> Blocked(addr)
        BY <1>2, IsBlockedFacts DEF CheckFailed, Inv, Own
    <2> QED BY <1>2, <2>1, <2>2, LateIdle DEF CheckFailed, Inv, Own
<1>3. CASE Overloaded
    BY <1>3, LateIdle DEF Overloaded, Inv, Own
<1>4. CASE CheckTokens
    BY <1>4, LateBusy DEF CheckTokens, Inv, Own
<1>5. CASE Wrap
    <2>1. check' = "limits" => cur' = cur /\ ~Blocked(cur)
        BY <1>5 DEF Wrap
    <2>2. \A addr \in Addrs : Blocked(addr)' <=> Blocked(addr)
        BY <1>5, IsBlockedFacts, TableUnchanged DEF Wrap, Inv, Own
    <2> QED BY <1>5, <2>1, <2>2, LateIdle DEF Wrap, Inv, Own
<1>6. CASE LimitsDrop
    BY <1>6, LateIdle DEF LimitsDrop, Inv, Own
<1>7. CASE Serve
    <2>1. \A addr \in Addrs \ {cur} : serving'[addr] = serving[addr]
        BY <1>7 DEF Serve, Inv, Own
    <2>2. \A addr \in Addrs \ {cur} : ~Starts(addr) /\ ~Spends(addr)
        BY <2>1 DEF Inv, Own
    <2> QED BY <1>7, <2>2, LateBusy DEF Serve
<1>8. CASE Stop
    BY <1>8, LateIdle DEF Stop, Inv, Own
<1> QED BY <1>1, <1>2, <1>3, <1>4, <1>5, <1>6, <1>7, <1>8 DEF RunStep

LEMMA LateStep == Inv /\ LateInv /\ [StreaksNext]_streakVars => LateInv'
<1> SUFFICES ASSUME Inv, LateInv, [StreaksNext]_streakVars PROVE LateInv'
    OBVIOUS
<1>1. CASE RunStep /\ LateCounted
    BY <1>1, LateRunStep
<1>2. ASSUME NEW a \in Addrs, HandlerFails(a) \/ HandlerSucceeds(a), LateCounted
      PROVE  LateInv'
    <2>1. \A addr \in Addrs : ~Starts(addr)
        BY <1>2 DEF Starts, HandlerFails, HandlerSucceeds, Inv, Own
    <2> QED BY <1>2, <2>1, LateElsewhere DEF HandlerFails, HandlerSucceeds
<1>3. CASE /\ CleanupFailures \/ TokenRoutines \/ RoutineReturns \/ Tick
           /\ LateCounted
    <2>1. UNCHANGED <<check, cur, serving>>
        BY <1>3 DEF CleanupFailures, TokenRoutines, RoutineReturns,
                    TokenRoutineReturns, MonitorReturns, Tick
    <2>2. \A addr \in Addrs : ~Starts(addr)
        BY <2>1 DEF Starts, Inv, Own
    <2> QED BY <1>3, <2>1, <2>2, LateElsewhere
<1>4. CASE UNCHANGED streakVars
    BY <1>4 DEF LateInv, HandFirst, Blocked, Info, streakVars, vars, history
<1> QED BY <1>1, <1>2, <1>3, <1>4 DEF StreaksNext, NextBetweenFailures

\* However Run's checks, the handlers' failures, the cleanup and time fall, Run
\* acts on at most one stale answer per block of an address.
THEOREM OneSlipsThroughCorrect == StreaksSpec => []OneSlipsThrough
<1>1. StreaksInit => LateInv
    BY DEF StreaksInit, Init, LateInv, HandFirst
<1>2. LateInv => OneSlipsThrough
    BY DEF LateInv, OneSlipsThrough
<1> QED BY <1>1, <1>2, LateStep, StreaksSpecIsSpec, Invariance, PTL
        DEF StreaksSpec
=============================================================================
