----------------------------- MODULE TokenFlow ------------------------------
(***************************************************************************)
(* The token bucket with its two goroutines and arbitrary callers, until   *)
(* and after Stop.  event records what the last step did.  Protection      *)
(* takes these steps together with those of the other mechanisms.          *)
(***************************************************************************)
EXTENDS TokenBucket

\* Five minutes fill a bucket: the cleanup removes only buckets that are
\* full.  The default configuration, 10 tokens per second up to 100, is far
\* from this limit.
ASSUME FillAssumption == CleanupInterval * FillNum >= Capacity * FillDen

VARIABLES
    stopped,    \* stopCh is closed
    refiller,   \* refillRoutine is running
    cleaner,    \* cleanupRoutine is running
    event

tokenVars == <<buckets, stopped, refiller, cleaner, event>>

Events == {<<"none">>, <<"tick">>} \cup {"take", "refuse", "query"} \X Addrs

TokensType ==
    /\ BucketsType
    /\ stopped \in BOOLEAN /\ refiller \in BOOLEAN /\ cleaner \in BOOLEAN
    /\ event \in Events

\* NewTokenBucket and Start
TokensInit ==
    /\ NoBuckets
    /\ stopped = FALSE
    /\ refiller = TRUE
    /\ cleaner = TRUE
    /\ event = <<"none">>

Running == UNCHANGED <<stopped, refiller, cleaner>>

TakeToken(addr) == Take(addr) /\ event' = <<"take", addr>> /\ Running

MissToken(addr) == TakeFails(addr) /\ event' = <<"refuse", addr>> /\ Running

QueryTokens(addr) == GetTokens(addr) /\ event' = <<"query", addr>> /\ Running

\* A routine's select may still take a tick that is ready when stopCh is.
RefillTokens == refiller /\ RefillAll /\ event' = <<"none">> /\ Running

CleanupTokens == cleaner /\ Cleanup /\ event' = <<"none">> /\ Running

StopTokens ==
    /\ ~stopped
    /\ stopped' = TRUE
    /\ event' = <<"none">>
    /\ UNCHANGED <<buckets, refiller, cleaner>>

RefillerReturns ==
    /\ stopped /\ refiller
    /\ refiller' = FALSE
    /\ event' = <<"none">>
    /\ UNCHANGED <<buckets, stopped, cleaner>>

CleanerReturns ==
    /\ stopped /\ cleaner
    /\ cleaner' = FALSE
    /\ event' = <<"none">>
    /\ UNCHANGED <<buckets, stopped, refiller>>

TokensTick == BucketsAge /\ event' = <<"tick">> /\ Running

TokensNext ==
    \/ \E addr \in Addrs : TakeToken(addr) \/ MissToken(addr) \/ QueryTokens(addr)
    \/ RefillTokens \/ CleanupTokens
    \/ StopTokens \/ RefillerReturns \/ CleanerReturns
    \/ TokensTick

TokensSpec == TokensInit /\ [][TokensNext]_tokenVars

-----------------------------------------------------------------------------

\* The credit a bucket stands for: its tokens and what its age has earned.
\* An address without a bucket gets a full one.
Least(m, n) == IF m < n THEN m ELSE n
Worth(b) == Least(b.tokens * FillDen + b.age * FillNum,
                  Capacity * FillDen + FillDen - 1)

Budget == INSTANCE TokenBudget WITH
    credit <- [addr \in Addrs |-> Worth(Bucket(addr))]

\* Lazy refills in Take, refills by the ticker, removals and re-creations, in
\* any order, never let an address in more often than the fill rate and one
\* burst allow.
ImplementsBudget == Budget!Spec

\* An address that keeps being refused gets its turn: refills that cut the
\* fraction off must not reset the age of a bucket that earned nothing.
TokensComeBack ==
    \A addr \in Addrs : []<>(Refilled(Bucket(addr)).tokens > 0)
=============================================================================
