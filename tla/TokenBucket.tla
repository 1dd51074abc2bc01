---------------------------- MODULE TokenBucket -----------------------------
(***************************************************************************)
(* pkg/server/protection/token_bucket.go: tokens per remote address.       *)
(* Every method locks the mutex throughout, so each one is one step        *)
(* (GetTokens only takes the read lock; the program never calls it).       *)
(*                                                                         *)
(* Time is kept as ages: a bucket's age counts the clock ticks since its   *)
(* lastUpdate, up to AgeBound.  A bucket of that age is refilled to the    *)
(* brim and is old enough for the cleanup, and so is any older one.        *)
(***************************************************************************)
EXTENDS Integers, RemoteAddrs

CONSTANTS
    Capacity,           \* capacity
    FillNum, FillDen,   \* fillRate = FillNum / FillDen tokens per tick
    CleanupInterval,    \* cleanupInterval, in ticks
    AgeBound            \* bound: ages counted

ASSUME TokenAssumption ==
    /\ Capacity \in Nat \ {0}
    /\ FillNum \in Nat \ {0}
    /\ FillDen \in Nat \ {0}
    /\ CleanupInterval \in Nat
    /\ AgeBound \in Nat
    /\ AgeBound > CleanupInterval
    /\ AgeBound * FillNum >= Capacity * FillDen

VARIABLE buckets    \* tokens: address -> [tokens, age of lastUpdate]

Buckets == [tokens : 0 .. Capacity, age : 0 .. AgeBound]

BucketsType == buckets \in MapsOf(Addrs, Buckets)

NoBuckets == buckets = EmptyMap

Fresh == [tokens |-> Capacity, age |-> 0]

Bucket(addr) == IF addr \in DOMAIN buckets THEN buckets[addr] ELSE Fresh

\* int64(elapsed * fillRate): the fraction is cut off.
NewTokens(b) == (b.age * FillNum) \div FillDen

\* refillBucket
RefilledKeepingAge(b) ==
    IF NewTokens(b) = 0 THEN b
    ELSE IF b.tokens + NewTokens(b) > Capacity THEN [b EXCEPT !.tokens = Capacity]
    ELSE [b EXCEPT !.tokens = @ + NewTokens(b)]
RefilledAlwaysStamped(b) ==
    [tokens |-> IF b.tokens + NewTokens(b) > Capacity THEN Capacity
                ELSE b.tokens + NewTokens(b),
     age |-> 0]
Refilled(b) ==
    IF NewTokens(b) = 0 THEN b
    ELSE IF b.tokens + NewTokens(b) > Capacity THEN Fresh
    ELSE [tokens |-> b.tokens + NewTokens(b), age |-> 0]

\* Take returning true
Take(addr) ==
    LET b == Refilled(Bucket(addr)) IN
    /\ b.tokens > 0
    /\ buckets' = Put(buckets, addr, [b EXCEPT !.tokens = @ - 1])

\* Take returning false
TakeFails(addr) ==
    LET b == Refilled(Bucket(addr)) IN
    /\ b.tokens = 0
    /\ buckets' = Put(buckets, addr, b)

\* refillAll
RefillAll == buckets' = [addr \in DOMAIN buckets |-> Refilled(buckets[addr])]

\* cleanup
Unused(b) == b.age > CleanupInterval
Cleanup == buckets' = Retain(buckets, {addr \in Addrs : ~Unused(Bucket(addr))})

\* GetTokens of an address that has a bucket
GetTokens(addr) ==
    /\ addr \in DOMAIN buckets
    /\ buckets' = [buckets EXCEPT ![addr] = Refilled(@)]

\* One clock tick passes for every bucket.
BucketsAge ==
    buckets' = [addr \in DOMAIN buckets |->
                   IF buckets[addr].age = AgeBound THEN buckets[addr]
                   ELSE [buckets[addr] EXCEPT !.age = @ + 1]]
=============================================================================
