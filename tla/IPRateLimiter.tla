--------------------------- MODULE IPRateLimiter ----------------------------
(***************************************************************************)
(* pkg/server/ratelimit/limiter.go: connections per IP and minute, and the *)
(* blocking of an IP that keeps coming.  Every method holds the mutex      *)
(* throughout.  Time is kept as ages, as in ConnectionLimiter: an entry's  *)
(* age counts the ticks since lastReset up to TTL + 1.                     *)
(***************************************************************************)
EXTENDS Integers, GoMap

CONSTANTS
    IPs,        \* the keys: what extractIP returns
    Burst,      \* burst
    Window,     \* the minute after which tokens are reset, in clock ticks
    TTL         \* ttl, in clock ticks

ASSUME RateAssumption ==
    /\ Burst \in Nat \ {0}
    /\ Window \in Nat \ {0}
    /\ TTL \in Nat
    /\ TTL >= Window

VARIABLE
    limits      \* ip -> bucket

MaxAttempts == 2 * Burst + 1

Buckets == [tokens : 0 .. Burst, age : 0 .. TTL + 1, blocked : BOOLEAN,
            attempts : 0 .. MaxAttempts]

RateType == limits \in MapsOf(IPs, Buckets)

RateInit == limits = EmptyMap

NewBucket == [tokens |-> Burst, age |-> 0, blocked |-> FALSE, attempts |-> 0]

BucketOf(ip) == IF ip \in DOMAIN limits THEN limits[ip] ELSE NewBucket

Blocked(ip) == BucketOf(ip).blocked

\* The bucket after the reset that a new window brings.
RefilledWithoutTokens(ip) ==
    IF BucketOf(ip).age > Window THEN [BucketOf(ip) EXCEPT !.age = 0]
    ELSE BucketOf(ip)
RefilledForgivingAttempts(ip) ==
    IF BucketOf(ip).age > Window THEN [NewBucket EXCEPT !.blocked = BucketOf(ip).blocked]
    ELSE BucketOf(ip)
Refilled(ip) ==
    IF BucketOf(ip).age > Window
    THEN [BucketOf(ip) EXCEPT !.tokens = Burst, !.age = 0]
    ELSE BucketOf(ip)

\* AllowConnection of a blocked IP: the bucket is written back as it was.
RefuseBlockedRefreshing(ip) ==
    /\ Blocked(ip)
    /\ limits' = Put(limits, ip, [BucketOf(ip) EXCEPT !.age = 0])
RefuseBlocked(ip) ==
    /\ Blocked(ip)
    /\ limits' = Put(limits, ip, BucketOf(ip))

HasToken(ip) == ~Blocked(ip) /\ Refilled(ip).tokens > 0

\* AllowConnection returning true.
SpendWithoutNewWindow(ip) ==
    /\ HasToken(ip)
    /\ limits' = Put(limits, ip, [Refilled(ip) EXCEPT !.tokens = @ - 1,
                                                     !.age = BucketOf(ip).age])
Spend(ip) ==
    /\ HasToken(ip)
    /\ limits' = Put(limits, ip, [Refilled(ip) EXCEPT !.tokens = @ - 1])

\* AllowConnection without a token: an attempt is counted, and one attempt
\* too many blocks the IP.
CountAttemptEvenLimit(ip) ==
    /\ ~Blocked(ip) /\ ~HasToken(ip)
    /\ LET attempts == Refilled(ip).attempts + 1
       IN  limits' = Put(limits, ip, [Refilled(ip) EXCEPT
                             !.attempts = attempts,
                             !.blocked = attempts >= Burst * 2])
CountAttempt(ip) ==
    /\ ~Blocked(ip) /\ ~HasToken(ip)
    /\ LET attempts == Refilled(ip).attempts + 1
       IN  limits' = Put(limits, ip, [Refilled(ip) EXCEPT
                             !.attempts = attempts,
                             !.blocked = attempts > Burst * 2])

\* cleanup, at every tick of periodicCleanup's ticker
Stale(ip) == BucketOf(ip).age > TTL

CleanupOfWindows ==
    limits' = Retain(limits, {ip \in IPs : BucketOf(ip).age <= Window})
Cleanup == limits' = Retain(limits, {ip \in IPs : ~Stale(ip)})

\* One clock tick passes for every bucket.
Age ==
    limits' = [ip \in DOMAIN limits |->
                  IF Stale(ip) THEN limits[ip]
                  ELSE [limits[ip] EXCEPT !.age = @ + 1]]
=============================================================================
