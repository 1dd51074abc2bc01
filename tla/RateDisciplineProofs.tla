------------------------ MODULE RateDisciplineProofs ------------------------
(***************************************************************************)
(* Proofs about the rate limiter for every burst, window, TTL and set of   *)
(* addresses.                                                              *)
(***************************************************************************)
EXTENDS RateDiscipline, TLAPS

\* What the limiter's table holds in every state: well-typed buckets, blocked
\* exactly when exhausted.
BlockedWhenExhausted ==
    \A ip \in DOMAIN limits :
        limits[ip].blocked <=> limits[ip].attempts > 2 * Burst

Inv == RateType /\ BlockedWhenExhausted

\* The table is a map of buckets at every address it holds.
LEMMA RateTypeEquiv ==
    RateType <=> /\ DOMAIN limits \subseteq IPs
                 /\ limits \in [DOMAIN limits -> Buckets]
BY DEF RateType, MapsOf

LEMMA RateTypeEquivNext ==
    RateType' <=> /\ DOMAIN limits' \subseteq IPs
                  /\ limits' \in [DOMAIN limits' -> Buckets]
BY DEF RateType, MapsOf

\* Updating two fields of a bucket within their ranges gives a bucket.
LEMMA WindowUpdate ==
    ASSUME NEW b \in Buckets, NEW t \in 0 .. Burst, NEW a \in 0 .. TTL + 1
    PROVE  [b EXCEPT !.tokens = t, !.age = a] \in Buckets
<1> DEFINE c == [b EXCEPT !.tokens = t]
<1>1. c \in Buckets
    BY DEF Buckets
<1>2. [c EXCEPT !.age = a] \in Buckets
    <2> HIDE DEF c
    <2> QED BY <1>1 DEF Buckets
<1> QED BY <1>2

LEMMA AttemptUpdate ==
    ASSUME NEW b \in Buckets, NEW n \in 0 .. MaxAttempts, NEW x \in BOOLEAN
    PROVE  [b EXCEPT !.attempts = n, !.blocked = x] \in Buckets
<1> DEFINE c == [b EXCEPT !.attempts = n]
<1>1. c \in Buckets
    BY DEF Buckets
<1>2. [c EXCEPT !.blocked = x] \in Buckets
    <2> HIDE DEF c
    <2> QED BY <1>1 DEF Buckets
<1> QED BY <1>2

\* The bucket that AllowConnection decides on.
LEMMA RefilledFacts ==
    ASSUME Inv, NEW ip \in IPs
    PROVE  /\ BucketOf(ip) \in Buckets
           /\ Refilled(ip) \in Buckets
           /\ Refilled(ip).blocked = BucketOf(ip).blocked
           /\ Refilled(ip).attempts = BucketOf(ip).attempts
           /\ BucketOf(ip).blocked <=> BucketOf(ip).attempts > 2 * Burst
<1> USE RateAssumption, RateTypeEquiv DEF Inv
<1>1. BucketOf(ip) \in Buckets
    BY DEF BucketOf, NewBucket, Buckets, MaxAttempts
<1>2. BucketOf(ip).blocked <=> BucketOf(ip).attempts > 2 * Burst
    BY DEF BucketOf, NewBucket, BlockedWhenExhausted
<1>3. Refilled(ip) \in Buckets
    <2>1. Burst \in 0 .. Burst /\ 0 \in 0 .. TTL + 1
        BY RateAssumption
    <2>2. [BucketOf(ip) EXCEPT !.tokens = Burst, !.age = 0] \in Buckets
        BY <1>1, <2>1, WindowUpdate, Zenon
    <2> QED BY <1>1, <2>2, Zenon DEF Refilled
<1>4. /\ Refilled(ip).blocked = BucketOf(ip).blocked
      /\ Refilled(ip).attempts = BucketOf(ip).attempts
    BY <1>1 DEF Refilled, Buckets
<1> QED BY <1>1, <1>2, <1>3, <1>4

\* Writing a sound bucket keeps the table sound.
LEMMA PutKeepsInv ==
    ASSUME Inv, NEW ip \in IPs, NEW b \in Buckets,
           b.blocked <=> b.attempts > 2 * Burst,
           limits' = Put(limits, ip, b)
    PROVE  Inv'
BY RateTypeEquiv, RateTypeEquivNext DEF Inv, BlockedWhenExhausted, Put

LEMMA InvStep == Inv /\ [Next]_vars => Inv'
<1> SUFFICES ASSUME Inv, [Next]_vars PROVE Inv'
    OBVIOUS
<1>1. ASSUME NEW ip \in IPs, LetIn(ip) PROVE Inv'
    <2> DEFINE b == [Refilled(ip) EXCEPT !.tokens = @ - 1]
    <2>1. b \in Buckets /\ (b.blocked <=> b.attempts > 2 * Burst)
        BY <1>1, RefilledFacts, RateAssumption
           DEF LetIn, Spend, HasToken, Buckets, MaxAttempts
    <2>2. limits' = Put(limits, ip, b)
        BY <1>1 DEF LetIn, Spend
    <2> HIDE DEF b
    <2> QED BY <2>1, <2>2, PutKeepsInv
<1>2. ASSUME NEW ip \in IPs, TurnAway(ip) PROVE Inv'
    <2>1. CASE RefuseBlocked(ip)
        BY <2>1, RefilledFacts, PutKeepsInv DEF RefuseBlocked
    <2>2. CASE CountAttempt(ip)
        <3> DEFINE attempts == Refilled(ip).attempts + 1
                   b == [Refilled(ip) EXCEPT !.attempts = attempts,
                                            !.blocked = attempts > Burst * 2]
        <3>1. Refilled(ip).attempts <= 2 * Burst
            BY <2>2, RefilledFacts, RateAssumption
               DEF CountAttempt, Blocked, Buckets, MaxAttempts
        <3>2. attempts \in 0 .. MaxAttempts
            BY <3>1, RefilledFacts, RateAssumption DEF Buckets, MaxAttempts
        <3>3. b \in Buckets
            <4>1. Refilled(ip) \in Buckets /\ (attempts > Burst * 2) \in BOOLEAN
                BY RefilledFacts
            <4> HIDE DEF attempts
            <4> QED BY <3>2, <4>1, AttemptUpdate, Zenon
        <3>4. b.attempts = attempts /\ b.blocked = (attempts > Burst * 2)
            BY RefilledFacts DEF Buckets
        <3>5. attempts > Burst * 2 <=> attempts > 2 * Burst
            BY <3>2, RateAssumption DEF MaxAttempts
        <3>6. limits' = Put(limits, ip, b)
            BY <2>2 DEF CountAttempt
        <3> HIDE DEF b, attempts
        <3> QED BY <3>3, <3>4, <3>5, <3>6, PutKeepsInv
    <2> QED BY <1>2, <2>1, <2>2 DEF TurnAway
<1>3. CASE PeriodicCleanup
    BY <1>3, RateTypeEquiv, RateTypeEquivNext
       DEF PeriodicCleanup, Cleanup, Retain, Inv, BlockedWhenExhausted
<1>4. CASE Tick
    <2>1. /\ DOMAIN limits' = DOMAIN limits
          /\ \A ip \in DOMAIN limits :
                 /\ limits'[ip] \in Buckets
                 /\ limits'[ip].blocked = limits[ip].blocked
                 /\ limits'[ip].attempts = limits[ip].attempts
        BY <1>4, RateTypeEquiv, RateAssumption
           DEF Tick, Age, Stale, BucketOf, Buckets, Inv
    <2>2. limits' = [ip \in DOMAIN limits' |-> limits'[ip]]
        BY <1>4 DEF Tick, Age
    <2> QED BY <2>1, <2>2, RateTypeEquiv, RateTypeEquivNext
            DEF Inv, BlockedWhenExhausted
<1>5. CASE UNCHANGED vars
    BY <1>5 DEF vars, Inv, RateType, BlockedWhenExhausted
<1> QED BY <1>1, <1>2, <1>3, <1>4, <1>5 DEF Next

LEMMA Invariance == Spec => []Inv
<1>1. Init => Inv
    <2>1. Init => limits = EmptyMap
        BY DEF Init, RateInit
    <2>2. limits = EmptyMap => Inv
        BY DEF EmptyMap, Inv, RateType, MapsOf, BlockedWhenExhausted
    <2> QED BY <2>1, <2>2
<1> QED BY <1>1, InvStep, PTL DEF Spec

-----------------------------------------------------------------------------
\* The admissions.

\* How the ages of an IP's last admissions agree with its bucket b: those since
\* the reset are the tokens spent and no older than the reset; the others are
\* as old as it; and all but one more burst are out of the window.
Fits(ages, b) ==
    \A i \in 1 .. Depth :
        /\ i <= Burst - b.tokens => ages[i] <= b.age
        /\ i > Burst - b.tokens => ages[i] >= b.age \/ ages[i] = LongAgo
        /\ i > Burst - b.tokens + Burst => ages[i] = LongAgo

AdmittedType == admitted \in [IPs -> [1 .. Depth -> 0 .. LongAgo]]
Windows == \A ip \in IPs : Fits(admitted[ip], BucketOf(ip))
AdmittedInv == AdmittedType /\ Windows

\* A new window agrees with what the old one left.
LEMMA RefillFits ==
    ASSUME Inv, NEW ip \in IPs, NEW ages \in [1 .. Depth -> 0 .. LongAgo],
           Fits(ages, BucketOf(ip))
    PROVE  Fits(ages, Refilled(ip))
<1>1. BucketOf(ip) \in Buckets
    BY RefilledFacts
<1>2. CASE BucketOf(ip).age > Window
    <2>1. Refilled(ip).tokens = Burst /\ Refilled(ip).age = 0
        BY <1>1, <1>2 DEF Refilled, Buckets
    <2>2. BucketOf(ip).tokens \in 0 .. Burst /\ BucketOf(ip).age \in Nat
        BY <1>1, RateAssumption DEF Buckets
    <2>3. ASSUME NEW i \in 1 .. Depth
          PROVE  /\ ages[i] \in 0 .. LongAgo
                 /\ i > Burst => ages[i] = LongAgo
        <3>1. ages[i] \in 0 .. LongAgo /\ i \in Nat
            BY DEF Depth
        <3>2. i > Burst => ages[i] >= BucketOf(ip).age \/ ages[i] = LongAgo
            BY <2>2, <3>1, RateAssumption DEF Fits
        <3> QED BY <1>2, <2>2, <3>1, <3>2, RateAssumption DEF LongAgo
    <2> QED BY <2>1, <2>3, RateAssumption DEF Fits, LongAgo, Depth
<1> QED BY <1>2 DEF Refilled

\* A token spent is one admission more.
LEMMA SpendFits ==
    ASSUME NEW b \in Buckets, NEW c \in Buckets, b.tokens > 0,
           c.tokens = b.tokens - 1, c.age = b.age,
           NEW ages \in [1 .. Depth -> 0 .. LongAgo], Fits(ages, b)
    PROVE  Fits(Latest(ages), c)
<1> SUFFICES ASSUME NEW i \in 1 .. Depth
             PROVE  /\ i <= Burst - c.tokens => Latest(ages)[i] <= c.age
                    /\ i > Burst - c.tokens => \/ Latest(ages)[i] >= c.age
                                               \/ Latest(ages)[i] = LongAgo
                    /\ i > Burst - c.tokens + Burst => Latest(ages)[i] = LongAgo
    BY DEF Fits
<1>1. CASE i = 1
    BY <1>1, RateAssumption DEF Latest, Buckets
<1>2. CASE i # 1
    <2>1. i - 1 \in 1 .. Depth /\ Latest(ages)[i] = ages[i - 1]
        BY <1>2, RateAssumption DEF Latest, Depth
    <2>2. /\ i - 1 <= Burst - b.tokens => ages[i - 1] <= b.age
          /\ i - 1 > Burst - b.tokens => ages[i - 1] >= b.age \/ ages[i - 1] = LongAgo
          /\ i - 1 > Burst - b.tokens + Burst => ages[i - 1] = LongAgo
        BY <2>1 DEF Fits
    <2>3. /\ b.tokens \in 0 .. Burst /\ c.tokens \in 0 .. Burst
          /\ i - 1 <= Burst - b.tokens <=> i <= Burst - c.tokens
          /\ i - 1 > Burst - b.tokens <=> i > Burst - c.tokens
          /\ i - 1 > Burst - b.tokens + Burst <=> i > Burst - c.tokens + Burst
        BY RateAssumption DEF Buckets
    <2> QED BY <2>1, <2>2, <2>3
<1> QED BY <1>1, <1>2

LEMMA AdmittedStep == Inv /\ AdmittedInv /\ [Next]_vars => AdmittedInv'
<1> SUFFICES ASSUME Inv, AdmittedInv, [Next]_vars PROVE AdmittedInv'
    OBVIOUS
<1> USE RateAssumption
<1>1. ASSUME NEW ip \in IPs, LetIn(ip) PROVE AdmittedInv'
    <2> DEFINE b == [Refilled(ip) EXCEPT !.tokens = @ - 1]
    <2>1. Refilled(ip) \in Buckets /\ Refilled(ip).tokens > 0
        BY <1>1, RefilledFacts DEF LetIn, Spend, HasToken
    <2>2. b \in Buckets /\ b.tokens = Refilled(ip).tokens - 1 /\ b.age = Refilled(ip).age
        BY <2>1 DEF Buckets
    <2>3. admitted[ip] \in [1 .. Depth -> 0 .. LongAgo]
        BY DEF AdmittedInv, AdmittedType
    <2>4. Fits(admitted[ip], Refilled(ip))
        BY <2>3, RefillFits DEF AdmittedInv, Windows
    <2>5. Fits(Latest(admitted[ip]), b)
        <3> HIDE DEF b
        <3> QED BY <2>1, <2>2, <2>3, <2>4, SpendFits
    <2>6. Latest(admitted[ip]) \in [1 .. Depth -> 0 .. LongAgo]
        BY <2>3 DEF Latest, LongAgo, Depth
    <2>7. AdmittedType'
        BY <1>1, <2>6 DEF LetIn, AdmittedInv, AdmittedType
    <2>8. ASSUME NEW other \in IPs PROVE Fits(admitted[other], BucketOf(other))'
        <3>1. CASE other = ip
            <4>1. admitted'[ip] = Latest(admitted[ip])
                BY <1>1 DEF LetIn, AdmittedInv, AdmittedType
            <4>2. BucketOf(ip)' = b
                BY <1>1 DEF LetIn, Spend, BucketOf, Put
            <4> HIDE DEF b
            <4> QED BY <2>5, <3>1, <4>1, <4>2 DEF Fits
        <3>2. CASE other # ip
            <4>1. admitted'[other] = admitted[other]
                BY <1>1, <3>2 DEF LetIn, AdmittedInv, AdmittedType
            <4>2. BucketOf(other)' = BucketOf(other)
                BY <1>1, <3>2 DEF LetIn, Spend, BucketOf, Put
            <4> QED BY <4>1, <4>2 DEF AdmittedInv, Windows, Fits
        <3> QED BY <3>1, <3>2
    <2> QED BY <2>7, <2>8 DEF AdmittedInv, Windows
<1>2. ASSUME NEW ip \in IPs, TurnAway(ip) PROVE AdmittedInv'
    <2>1. admitted' = admitted
        BY <1>2 DEF TurnAway
    <2>2. ASSUME NEW other \in IPs, other # ip PROVE BucketOf(other)' = BucketOf(other)
        BY <1>2, <2>2 DEF TurnAway, RefuseBlocked, CountAttempt, BucketOf, Put
    <2>3. Fits(admitted[ip], BucketOf(ip)) /\ Fits(admitted[ip], Refilled(ip))
        BY RefillFits DEF AdmittedInv, AdmittedType, Windows
    <2>4. \/ BucketOf(ip)' = BucketOf(ip)
          \/ /\ BucketOf(ip)'.tokens = Refilled(ip).tokens
             /\ BucketOf(ip)'.age = Refilled(ip).age
        BY <1>2, RefilledFacts
           DEF TurnAway, RefuseBlocked, CountAttempt, BucketOf, Put, Buckets
    <2>5. Fits(admitted[ip], BucketOf(ip))'
        BY <2>1, <2>3, <2>4 DEF Fits
    <2> QED BY <2>1, <2>2, <2>5 DEF AdmittedInv, AdmittedType, Windows, Fits
<1>3. CASE PeriodicCleanup
    <2>1. admitted' = admitted
        BY <1>3 DEF PeriodicCleanup
    <2>2. ASSUME NEW ip \in IPs PROVE Fits(admitted[ip], BucketOf(ip))'
        <3>1. CASE Stale(ip)
            <4>1. BucketOf(ip)' = NewBucket
                BY <1>3, <3>1 DEF PeriodicCleanup, Cleanup, Retain, BucketOf
            <4>2. BucketOf(ip) \in Buckets /\ BucketOf(ip).age > TTL
                BY <3>1, RefilledFacts DEF Stale
            <4>3. BucketOf(ip).tokens \in 0 .. Burst /\ BucketOf(ip).age \in Nat
                BY <4>2 DEF Buckets
            <4>4. Fits(admitted[ip], BucketOf(ip))
                BY DEF AdmittedInv, Windows
            <4>5. ASSUME NEW i \in 1 .. Depth
                  PROVE  /\ admitted[ip][i] \in 0 .. LongAgo
                         /\ i > Burst => admitted[ip][i] = LongAgo
                <5>1. admitted[ip][i] \in 0 .. LongAgo /\ i \in Nat
                    BY DEF AdmittedInv, AdmittedType, Depth
                <5>2. i > Burst => \/ admitted[ip][i] >= BucketOf(ip).age
                                   \/ admitted[ip][i] = LongAgo
                    BY <4>3, <4>4, <5>1 DEF Fits
                <5> QED BY <4>2, <4>3, <5>1, <5>2 DEF LongAgo
            <4>6. Fits(admitted[ip], NewBucket)
                BY <4>5 DEF Fits, NewBucket, LongAgo, Depth
            <4> QED BY <2>1, <4>1, <4>6 DEF Fits
        <3>2. CASE ~Stale(ip)
            <4>1. BucketOf(ip)' = BucketOf(ip)
                BY <1>3, <3>2 DEF PeriodicCleanup, Cleanup, Retain, BucketOf
            <4> QED BY <2>1, <4>1 DEF AdmittedInv, Windows, Fits
        <3> QED BY <3>1, <3>2
    <2> QED BY <2>1, <2>2 DEF AdmittedInv, AdmittedType, Windows
<1>4. CASE Tick
    <2>1. ASSUME NEW ip \in IPs
          PROVE  /\ admitted'[ip] = Older(admitted[ip])
                 /\ Older(admitted[ip]) \in [1 .. Depth -> 0 .. LongAgo]
        <3>1. admitted[ip] \in [1 .. Depth -> 0 .. LongAgo]
            BY DEF AdmittedInv, AdmittedType
        <3>2. ASSUME NEW i \in 1 .. Depth
              PROVE  (IF admitted[ip][i] = LongAgo THEN LongAgo
                      ELSE admitted[ip][i] + 1) \in 0 .. LongAgo
            <4>1. admitted[ip][i] \in 0 .. LongAgo
                BY <3>1
            <4> QED BY <4>1 DEF LongAgo
        <3>3. Older(admitted[ip]) \in [1 .. Depth -> 0 .. LongAgo]
            BY <3>2 DEF Older
        <3> QED BY <1>4, <3>3 DEF Tick
    <2>2. AdmittedType'
        BY <1>4, <2>1 DEF Tick, AdmittedType
    <2>3. ASSUME NEW ip \in IPs PROVE Fits(admitted[ip], BucketOf(ip))'
        <3>1. BucketOf(ip) \in Buckets
            BY RefilledFacts
        <3>2. \/ ip \notin DOMAIN limits /\ BucketOf(ip)' = BucketOf(ip) /\ BucketOf(ip) = NewBucket
              \/ BucketOf(ip).age > TTL /\ BucketOf(ip)' = BucketOf(ip)
              \/ /\ BucketOf(ip).age <= TTL
                 /\ BucketOf(ip)' = [BucketOf(ip) EXCEPT !.age = @ + 1]
            BY <1>4, <3>1 DEF Tick, Age, BucketOf, Stale, Buckets
        <3> DEFINE b == BucketOf(ip)
                   c == BucketOf(ip)'
        <3>3. /\ c.tokens = b.tokens
              /\ \/ c.age = b.age + 1
                 \/ c.age = b.age /\ b.age > TTL
                 \/ c.age = b.age /\ b.age = 0 /\ b.tokens = Burst
            BY <3>1, <3>2 DEF Buckets, NewBucket
        <3>4. Fits(admitted[ip], b)
            BY DEF AdmittedInv, Windows
        <3>5. ASSUME NEW i \in 1 .. Depth
              PROVE  /\ admitted[ip][i] \in 0 .. LongAgo
                     /\ admitted'[ip][i] = IF admitted[ip][i] = LongAgo THEN LongAgo
                                           ELSE admitted[ip][i] + 1
            BY <2>1 DEF Older, AdmittedInv, AdmittedType
        <3> HIDE DEF b, c
        <3>6. Fits(admitted'[ip], c)
            BY <3>1, <3>3, <3>4, <3>5 DEF Fits, Buckets, LongAgo, b
        <3> QED BY <3>6 DEF c, Fits
    <2> QED BY <2>2, <2>3 DEF AdmittedInv, Windows
<1>5. CASE UNCHANGED vars
    BY <1>5 DEF vars, AdmittedInv, AdmittedType, Windows, Fits, BucketOf
<1> QED BY <1>1, <1>2, <1>3, <1>4, <1>5 DEF Next

LEMMA AdmittedInvariance == Spec => []AdmittedInv
<1>1. Init => AdmittedInv
    BY RateAssumption
       DEF Init, RateInit, EmptyMap, AdmittedInv, AdmittedType, Windows, Fits,
           BucketOf, NewBucket, Depth, LongAgo
<1> QED BY <1>1, Invariance, AdmittedStep, PTL DEF Spec

-----------------------------------------------------------------------------

\* The refusals.

\* The attempts of a bucket are the refusals its IP has met since the bucket
\* was last forgotten: no window, admission or cleanup takes one off.
Remembered ==
    /\ refused \in [IPs -> 0 .. MaxAttempts]
    /\ \A ip \in IPs : refused[ip] = BucketOf(ip).attempts

LEMMA RememberedStep == Inv /\ Remembered /\ [Next]_vars => Remembered'
<1> SUFFICES ASSUME Inv, Remembered, [Next]_vars PROVE Remembered'
    OBVIOUS
<1> USE RateAssumption
<1>1. ASSUME NEW ip \in IPs, LetIn(ip) PROVE Remembered'
    <2>1. refused' = refused
        BY <1>1 DEF LetIn
    <2>2. BucketOf(ip)'.attempts = BucketOf(ip).attempts
        BY <1>1, RefilledFacts DEF LetIn, Spend, Put, BucketOf, Buckets
    <2>3. ASSUME NEW other \in IPs, other # ip PROVE BucketOf(other)' = BucketOf(other)
        BY <1>1, <2>3 DEF LetIn, Spend, Put, BucketOf
    <2> QED BY <2>1, <2>2, <2>3 DEF Remembered
<1>2. ASSUME NEW ip \in IPs, TurnAway(ip) PROVE Remembered'
    <2>1. /\ refused' = [refused EXCEPT ![ip] = OneMore(refused[ip])]
          /\ refused[ip] = BucketOf(ip).attempts
          /\ refused[ip] \in 0 .. MaxAttempts
        BY <1>2 DEF TurnAway, Remembered
    <2>2. OneMore(refused[ip]) \in 0 .. MaxAttempts
        BY <2>1 DEF OneMore, MaxAttempts
    <2>3. ASSUME NEW other \in IPs, other # ip PROVE BucketOf(other)' = BucketOf(other)
        BY <1>2, <2>3 DEF TurnAway, RefuseBlocked, CountAttempt, Put, BucketOf
    <2>4. BucketOf(ip)'.attempts = OneMore(refused[ip])
        <3>1. CASE RefuseBlocked(ip)
            <4>1. BucketOf(ip)' = BucketOf(ip)
                BY <3>1 DEF RefuseBlocked, Put, BucketOf
            <4>2. refused[ip] > 2 * Burst
                BY <2>1, <3>1, RefilledFacts DEF RefuseBlocked, Blocked
            <4> QED BY <2>1, <4>1, <4>2 DEF OneMore, MaxAttempts
        <3>2. CASE CountAttempt(ip)
            <4>1. BucketOf(ip)'.attempts = Refilled(ip).attempts + 1
                BY <3>2, RefilledFacts DEF CountAttempt, Put, BucketOf, Buckets
            <4>2. Refilled(ip).attempts = refused[ip] /\ ~(refused[ip] > 2 * Burst)
                BY <2>1, <3>2, RefilledFacts DEF CountAttempt, Blocked
            <4> QED BY <2>1, <4>1, <4>2 DEF OneMore, MaxAttempts
        <3> QED BY <1>2, <3>1, <3>2 DEF TurnAway
    <2> QED BY <2>1, <2>2, <2>3, <2>4 DEF Remembered
<1>3. CASE PeriodicCleanup
    <2>1. ASSUME NEW ip \in IPs PROVE refused'[ip] = BucketOf(ip)'.attempts
        <3>1. refused[ip] = BucketOf(ip).attempts
            BY DEF Remembered
        <3>2. refused'[ip] = IF ip \in DOMAIN limits' THEN refused[ip] ELSE 0
            BY <1>3 DEF PeriodicCleanup
        <3>3. CASE ip \in DOMAIN limits'
            BY <1>3, <3>1, <3>2, <3>3 DEF PeriodicCleanup, Cleanup, Retain, BucketOf
        <3>4. CASE ip \notin DOMAIN limits'
            BY <3>2, <3>4 DEF BucketOf, NewBucket
        <3> QED BY <3>3, <3>4
    <2>2. ASSUME NEW ip \in IPs
          PROVE  (IF ip \in DOMAIN limits' THEN refused[ip] ELSE 0) \in 0 .. MaxAttempts
        BY DEF Remembered, MaxAttempts
    <2>3. refused' = [ip \in IPs |-> IF ip \in DOMAIN limits' THEN refused[ip] ELSE 0]
        BY <1>3 DEF PeriodicCleanup
    <2> QED BY <2>1, <2>2, <2>3 DEF Remembered
<1>4. CASE Tick
    <2>1. refused' = refused
        BY <1>4 DEF Tick
    <2>2. ASSUME NEW ip \in IPs PROVE BucketOf(ip)'.attempts = BucketOf(ip).attempts
        BY <1>4, RateTypeEquiv DEF Tick, Age, BucketOf, Inv, Buckets
    <2> QED BY <2>1, <2>2 DEF Remembered
<1>5. CASE UNCHANGED vars
    BY <1>5 DEF vars, Remembered, BucketOf
<1> QED BY <1>1, <1>2, <1>3, <1>4, <1>5 DEF Next

LEMMA RememberedInvariance == Spec => []Remembered
<1>1. Init => Remembered
    BY RateAssumption
       DEF Init, RateInit, EmptyMap, Remembered, BucketOf, NewBucket, MaxAttempts
<1> QED BY <1>1, Invariance, RememberedStep, PTL DEF Spec

-----------------------------------------------------------------------------

\* The table and the histories are well-typed.
THEOREM TypeCorrect == Spec => []TypeOK
<1>1. Inv /\ AdmittedInv /\ Remembered => TypeOK
    BY DEF Inv, AdmittedInv, AdmittedType, Remembered, TypeOK
<1> QED BY <1>1, Invariance, AdmittedInvariance, RememberedInvariance, PTL

\* No arrivals, resets and cleanups let an IP in more than twice the burst
\* within the length of a window, for any burst, window and TTL.
THEOREM AtMostTwoBurstsCorrect == Spec => []AtMostTwoBursts
<1>1. Inv /\ AdmittedInv => AtMostTwoBursts
    <2> SUFFICES ASSUME Inv, AdmittedInv, NEW ip \in IPs
                 PROVE  admitted[ip][2 * Burst + 1] > Window
        BY DEF AtMostTwoBursts
    <2>1. BucketOf(ip) \in Buckets /\ Fits(admitted[ip], BucketOf(ip))
        BY RefilledFacts DEF AdmittedInv, Windows
    <2>2. 2 * Burst + 1 \in 1 .. Depth
        BY RateAssumption DEF Depth
    <2>3. 2 * Burst + 1 > Burst - BucketOf(ip).tokens + Burst
        BY <2>1, RateAssumption DEF Buckets
    <2> QED BY <2>1, <2>2, <2>3, RateAssumption DEF Fits, LongAgo
<1> QED BY <1>1, Invariance, AdmittedInvariance, PTL

\* An IP that is not blocked is refused only after a full burst within a
\* window, for any burst, window and TTL.
THEOREM RefusedOnlyAfterBurstCorrect == Spec => []RefusedOnlyAfterBurst
<1>1. Inv /\ AdmittedInv => RefusedOnlyAfterBurst
    <2> SUFFICES ASSUME Inv, AdmittedInv, NEW ip \in IPs, ~Blocked(ip), ~HasToken(ip)
                 PROVE  admitted[ip][Burst] <= Window
        BY DEF RefusedOnlyAfterBurst
    <2>1. BucketOf(ip) \in Buckets /\ Fits(admitted[ip], BucketOf(ip))
        BY RefilledFacts DEF AdmittedInv, Windows
    <2>2. ~(Refilled(ip).tokens > 0)
        BY DEF HasToken
    <2>3. BucketOf(ip).age <= Window /\ BucketOf(ip).tokens = 0
        BY <2>1, <2>2, RateAssumption DEF Refilled, Buckets
    <2>4. Burst \in 1 .. Depth
        BY RateAssumption DEF Depth
    <2>5. admitted[ip][Burst] <= BucketOf(ip).age
        BY <2>1, <2>3, <2>4, RateAssumption DEF Fits
    <2>6. admitted[ip][Burst] \in 0 .. LongAgo
        BY <2>4 DEF AdmittedInv, AdmittedType
    <2> QED BY <2>1, <2>3, <2>5, <2>6, RateAssumption DEF Buckets, LongAgo
<1> QED BY <1>1, Invariance, AdmittedInvariance, PTL

\* An IP is blocked exactly when more than twice the burst of its connections
\* have been turned away since its bucket was last forgotten, however many
\* windows and admissions lie between, for any burst, window and TTL.
THEOREM RefusalsAddUpCorrect == Spec => []RefusalsAddUp
<1>1. Inv /\ Remembered => RefusalsAddUp
    BY RefilledFacts DEF Remembered, RefusalsAddUp, Blocked
<1> QED BY <1>1, Invariance, RememberedInvariance, PTL

\* A blocked address stays blocked until its bucket is stale: no admission,
\* attempt, tick or cleanup unblocks it earlier.
THEOREM BlockedUntilStaleCorrect == Spec => BlockedUntilStale
<1> DEFINE Kept(ip) == Blocked(ip) /\ ~Stale(ip) => Blocked(ip)'
<1>1. Inv /\ [Next]_vars => [\A ip \in IPs : Kept(ip)]_vars
    <2> SUFFICES ASSUME Inv, Next, NEW ip \in IPs, Blocked(ip), ~Stale(ip)
                 PROVE  Blocked(ip)'
        OBVIOUS
    <2>1. ip \in DOMAIN limits
        BY DEF Blocked, BucketOf, NewBucket
    <2>2. ASSUME NEW other \in IPs, LetIn(other) PROVE Blocked(ip)'
        <3>1. other # ip
            BY <2>2 DEF LetIn, Spend, HasToken
        <3> QED BY <2>1, <2>2, <3>1
                DEF LetIn, Spend, Put, Blocked, BucketOf
    <2>3. ASSUME NEW other \in IPs, TurnAway(other) PROVE Blocked(ip)'
        BY <2>1, <2>3
           DEF TurnAway, RefuseBlocked, CountAttempt, Put, Blocked, BucketOf
    <2>4. CASE PeriodicCleanup
        BY <2>1, <2>4 DEF PeriodicCleanup, Cleanup, Retain, Blocked, BucketOf
    <2>5. CASE Tick
        BY <2>1, <2>5, RateTypeEquiv
           DEF Tick, Age, Blocked, BucketOf, Inv, Buckets
    <2> QED BY <2>2, <2>3, <2>4, <2>5 DEF Next
<1> QED BY <1>1, Invariance, PTL DEF Spec, BlockedUntilStale
=============================================================================
