--------------------------- MODULE FailedAttempts ---------------------------
(***************************************************************************)
(* pkg/server/protection/failed_attempts.go: failures per remote address   *)
(* and the blocking of an address after too many.  Time is kept as ages in *)
(* clock ticks up to Long: every older time compares the same with         *)
(* blockTime, the zero time of a blockedAt never set included.             *)
(***************************************************************************)
EXTENDS Integers, RemoteAddrs

CONSTANTS
    MaxAttempts,    \* maxAttempts; no more failures than these are counted
    BlockTime       \* blockTime, in clock ticks

ASSUME AttemptsAssumption ==
    /\ MaxAttempts \in Nat \ {0}
    /\ BlockTime \in Nat \ {0}

VARIABLE attempts   \* address -> [count, ages of lastFail and blockedAt]

Long == BlockTime + 1

AttemptInfo == [count : 1 .. MaxAttempts, lastFail : 0 .. Long,
                blockedAt : 0 .. Long]

AttemptsType == attempts \in MapsOf(Addrs, AttemptInfo)

NoAttempts == attempts = EmptyMap

Info(addr) == IF addr \in DOMAIN attempts THEN attempts[addr]
              ELSE [count |-> 0, lastFail |-> Long, blockedAt |-> Long]

\* RegisterFailure.  A count past MaxAttempts compares as MaxAttempts does.
Counted(n) == IF n < MaxAttempts THEN n + 1 ELSE n

RegisterFailure(addr) ==
    LET count == Counted(Info(addr).count) IN
    attempts' = Put(attempts, addr,
        [count |-> count, lastFail |-> 0,
         blockedAt |-> IF count >= MaxAttempts THEN 0
                       ELSE Info(addr).blockedAt])

\* IsBlocked: what it returns, and the entry it forgets on its way.
Blocked(addr) ==
    /\ Info(addr).count >= MaxAttempts
    /\ Info(addr).blockedAt < BlockTime

LongAgo(addr) == Info(addr).lastFail > BlockTime

IsBlockedCountingRefusals(addr) ==
    IF Blocked(addr) THEN RegisterFailure(addr)
    ELSE attempts' = IF LongAgo(addr) THEN Delete(attempts, addr) ELSE attempts
IsBlockedForgetful(addr) ==
    attempts' = IF ~Blocked(addr) THEN Delete(attempts, addr) ELSE attempts
IsBlocked(addr) ==
    attempts' = IF ~Blocked(addr) /\ LongAgo(addr)
                THEN Delete(attempts, addr) ELSE attempts

\* One round of cleanup
Expired(addr) ==
    \/ Info(addr).count >= MaxAttempts /\ Info(addr).blockedAt > BlockTime
    \/ LongAgo(addr)

ForgetBlockedEarly ==
    attempts' = Retain(attempts, {addr \in Addrs :
                    Info(addr).count < MaxAttempts /\ ~LongAgo(addr)})
ForgetOnlyBlocked ==
    attempts' = Retain(attempts, {addr \in Addrs :
                    Info(addr).count < MaxAttempts \/ ~Expired(addr)})
ForgetExpired ==
    attempts' = Retain(attempts, {addr \in Addrs : ~Expired(addr)})

\* One clock tick passes for every entry.
Older(age) == IF age = Long THEN Long ELSE age + 1
AttemptsAge ==
    attempts' = [addr \in DOMAIN attempts |->
        [attempts[addr] EXCEPT !.lastFail = Older(@), !.blockedAt = Older(@)]]
=============================================================================
