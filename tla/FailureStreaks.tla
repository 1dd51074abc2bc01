--------------------------- MODULE FailureStreaks ---------------------------
(***************************************************************************)
(* The protection layer with a history that the code does not keep: for    *)
(* each address the streak of its failures, each at most BlockTime ticks   *)
(* after the one before, and what Run has done for it since its current    *)
(* block began.  The history restricts nothing; it says what the table of  *)
(* failures, with its lazy and periodic deletions, must remember, and how  *)
(* stale Run's answers from it may be when it acts on them.                *)
(***************************************************************************)
EXTENDS Protection

VARIABLES
    streak,     \* address -> [length up to MaxAttempts, age of its last failure]
    late        \* address -> tokens taken and handlers started while blocked

history == <<streak, late>>
streakVars == <<vars, history>>

Streaks == [length : 0 .. MaxAttempts, age : 0 .. Long]

NoStreak == [length |-> 0, age |-> Long]

StreakGrows(addr) ==
    streak' = [streak EXCEPT ![addr] = [length |-> Counted(@.length), age |-> 0]]

\* A streak is over when more than the block time has passed.
StreaksAge ==
    streak' = [addr \in Addrs |->
                  IF streak[addr].age >= BlockTime THEN NoStreak
                  ELSE [streak[addr] EXCEPT !.age = @ + 1]]

\* What Run does for the connection in hand, once past IsBlocked.
Spends(addr) == addr = cur /\ check = "tokens" /\ check' = "wrap"
Starts(addr) == serving'[addr] > serving[addr]

\* The count starts anew with every block.
LateCounted ==
    late' = [addr \in Addrs |->
                IF ~Blocked(addr)' THEN 0
                ELSE IF Spends(addr) \/ Starts(addr) THEN late[addr] + 1
                ELSE late[addr]]

StreaksInit ==
    /\ Init
    /\ streak = [addr \in Addrs |-> NoStreak]
    /\ late = [addr \in Addrs |-> 0]

StreaksNext ==
    \/ \E addr \in Addrs : HandlerFails(addr) /\ StreakGrows(addr) /\ LateCounted
    \/ Tick /\ StreaksAge /\ LateCounted
    \/ NextBetweenFailures /\ UNCHANGED streak /\ LateCounted

StreaksSpec == StreaksInit /\ [][StreaksNext]_streakVars

FairStreaksSpec == StreaksSpec /\ ProtectionFairness

-----------------------------------------------------------------------------

\* An address that fails MaxAttempts times, each time within the block time
\* of the last, is blocked until the block time has passed since its latest
\* failure: the deletions of IsBlocked and of the cleanup, whenever they come,
\* forget no failure that still counts.
StreaksBlocked ==
    \A addr \in Addrs :
        streak[addr].length >= MaxAttempts /\ streak[addr].age < BlockTime
            => Blocked(addr)

\* Run asks IsBlocked twice and acts on the answers after the lock is released,
\* while handlers of the same address register failures.  From the moment an
\* address is blocked until its block ends, at most one such answer is stale:
\* either the connection in hand still pays a token, and is then refused by
\* the second check, or it is past that one and gets its handler.  Never both,
\* and never a second connection.
OneSlipsThrough == \A addr \in Addrs : late[addr] <= 1
=============================================================================
