----------------------------- MODULE Protection -----------------------------
(***************************************************************************)
(* pkg/server/protection/types.go, composed of FailedAttempts and the      *)
(* token bucket and called as the server calls it: Run passes a connection *)
(* through IsAllowed and ProtectedConn, its handler registers a failure,   *)
(* and Run's return stops the mechanisms.  The parts lock one at a time,   *)
(* so everything else happens between two of Run's checks.                 *)
(*                                                                         *)
(* Memory is an outcome of each check; what the monitor's goroutine does   *)
(* between its start and its end changes nothing here.  An address is an   *)
(* ip and a port.  Its next connection may be accepted while handlers of   *)
(* earlier ones have not noticed yet that theirs are gone, so an address   *)
(* has any number of handlers, all of them together at most as many as the *)
(* server serves.                                                          *)
(***************************************************************************)
EXTENDS FailedAttempts, TokenFlow, FiniteSetsExt

CONSTANTS
    IPOf,       \* address -> its ip
    NoAddr,
    MaxConnections,         \* the server's capacity
    Whitelist, Blacklist    \* of the IP filter; NewServer leaves both empty

ASSUME NoAddrAssumption == NoAddr \notin Addrs

ASSUME MaxConnectionsAssumption == MaxConnections \in Nat

VARIABLES
    check,      \* the check Run is at
    cur,        \* the address of the connection in hand
    serving,    \* address -> its handlers that may still register a failure
    monitor     \* the memory monitor's goroutine

vars == <<attempts, tokenVars, check, cur, serving, monitor>>

TypeOK ==
    /\ AttemptsType /\ TokensType
    /\ check \in {"accept", "failed", "tokens", "wrap", "limits", "returned"}
    /\ cur \in Addrs \cup {NoAddr}
    /\ serving \in [Addrs -> Nat]
    /\ monitor \in {"running", "stopping", "returned"}

\* NewProtection and Start
Init ==
    /\ NoAttempts /\ TokensInit
    /\ check = "accept" /\ cur = NoAddr
    /\ serving = [addr \in Addrs |-> 0]
    /\ monitor = "running"

-----------------------------------------------------------------------------
\* Run: IsAllowed, then ProtectedConn.

\* The IP filter.
Passes(addr) == IF Whitelist # {} THEN addr \in Whitelist ELSE addr \notin Blacklist

\* One that the filter rejects is closed at once.
Accept(addr) ==
    /\ check = "accept"
    /\ Passes(addr)
    /\ check' = "failed" /\ cur' = addr
    /\ UNCHANGED <<attempts, tokenVars, serving, monitor>>

Goto(next) ==
    /\ check' = next
    /\ cur' = IF next = "accept" THEN NoAddr ELSE cur

CheckFailedIgnored ==
    /\ check = "failed"
    /\ IsBlocked(cur)
    /\ Goto("tokens")
    /\ UNCHANGED <<tokenVars, serving, monitor>>
CheckFailed ==
    /\ check = "failed"
    /\ IsBlocked(cur)
    /\ Goto(IF Blocked(cur) THEN "accept" ELSE "tokens")
    /\ UNCHANGED <<tokenVars, serving, monitor>>

\* Memory is checked before the tokens, and again before the last check.
Overloaded ==
    /\ check \in {"tokens", "wrap"}
    /\ Goto("accept")
    /\ UNCHANGED <<attempts, tokenVars, serving, monitor>>

CheckTokens ==
    /\ check = "tokens"
    /\ \/ TakeToken(cur) /\ Goto("wrap")
       \/ MissToken(cur) /\ Goto("accept")
    /\ UNCHANGED <<attempts, serving, monitor>>

\* ProtectedConn's own look at the filter and the failures.
WrapUnchecked ==
    /\ check = "wrap"
    /\ IF Passes(cur) THEN IsBlocked(cur) ELSE UNCHANGED attempts
    /\ Goto(IF Passes(cur) THEN "limits" ELSE "accept")
    /\ UNCHANGED <<tokenVars, serving, monitor>>
Wrap ==
    /\ check = "wrap"
    /\ IF Passes(cur) THEN IsBlocked(cur) ELSE UNCHANGED attempts
    /\ Goto(IF Passes(cur) /\ ~Blocked(cur) THEN "limits" ELSE "accept")
    /\ UNCHANGED <<tokenVars, serving, monitor>>

\* The connection limiter, the rate limiter or the capacity drops it.
LimitsDrop ==
    /\ check = "limits"
    /\ Goto("accept")
    /\ UNCHANGED <<attempts, tokenVars, serving, monitor>>

Serve ==
    /\ check = "limits"
    /\ MapThenSumSet(LAMBDA addr : serving[addr], Addrs) < MaxConnections
    /\ serving' = [serving EXCEPT ![cur] = @ + 1]
    /\ Goto("accept")
    /\ UNCHANGED <<attempts, tokenVars, monitor>>

\* Run returns, and its deferred Stop runs.
StopTokensOnly ==
    /\ check = "accept"
    /\ check' = "returned"
    /\ StopTokens
    /\ UNCHANGED <<attempts, cur, serving, monitor>>
Stop ==
    /\ check = "accept"
    /\ check' = "returned"
    /\ monitor' = "stopping"
    /\ StopTokens
    /\ UNCHANGED <<attempts, cur, serving>>

RunStep ==
    \/ \E addr \in Addrs : Accept(addr)
    \/ CheckFailed \/ Overloaded \/ CheckTokens \/ Wrap \/ LimitsDrop \/ Serve
    \/ Stop

-----------------------------------------------------------------------------
\* Handlers, goroutines and time.

\* handleConnection has failed: the failure is registered while the handler
\* still runs.  What it does after that, its deferred function, touches
\* nothing of this module.
HandlerFails(addr) ==
    /\ serving[addr] > 0
    /\ RegisterFailure(addr)
    /\ serving' = [serving EXCEPT ![addr] = @ - 1]
    /\ UNCHANGED <<tokenVars, check, cur, monitor>>

\* handleConnection has returned nil or net.ErrClosed.
HandlerSucceeds(addr) ==
    /\ serving[addr] > 0
    /\ serving' = [serving EXCEPT ![addr] = @ - 1]
    /\ UNCHANGED <<attempts, tokenVars, check, cur, monitor>>

\* cleanup of the failures: no Stop reaches its goroutine
CleanupFailures ==
    /\ ForgetExpired
    /\ UNCHANGED <<tokenVars, check, cur, serving, monitor>>

\* The token bucket's goroutines.
TokenRoutines ==
    /\ RefillTokens \/ CleanupTokens
    /\ UNCHANGED <<attempts, check, cur, serving, monitor>>

TokenRoutineReturns ==
    /\ RefillerReturns \/ CleanerReturns
    /\ UNCHANGED <<attempts, check, cur, serving, monitor>>

MonitorReturns ==
    /\ monitor = "stopping"
    /\ monitor' = "returned"
    /\ UNCHANGED <<attempts, tokenVars, check, cur, serving>>

RoutineReturns == TokenRoutineReturns \/ MonitorReturns

Tick ==
    /\ AttemptsAge /\ TokensTick
    /\ UNCHANGED <<check, cur, serving, monitor>>

\* Everything that happens between failures and ticks.
NextBetweenFailures ==
    \/ RunStep
    \/ \E addr \in Addrs : HandlerSucceeds(addr)
    \/ CleanupFailures \/ TokenRoutines \/ RoutineReturns

Next ==
    \/ NextBetweenFailures
    \/ \E addr \in Addrs : HandlerFails(addr)
    \/ Tick

Spec == Init /\ [][Next]_vars

\* Time passes, the ticker of the failures' cleanup ticks, and a goroutine
\* whose channel is closed returns, as its select finds no tick between two
\* of its ticker.
ProtectionFairness ==
    /\ WF_vars(Tick) /\ WF_vars(CleanupFailures)
    /\ WF_vars(RoutineReturns)

-----------------------------------------------------------------------------

\* A block ends when its time is over and not earlier: no cleanup, check or
\* failure of another address ends it.
BlockEndsWithTimeOnly ==
    [][\A addr \in Addrs :
           Blocked(addr) => Blocked(addr)' \/ Info(addr)'.blockedAt = BlockTime]_vars

\* The blocking of an address is temporary, even if it keeps connecting.
BlockingIsTemporary == \A addr \in Addrs : []<>~Blocked(addr)

\* The table of failures does not keep an address that fails no more.
FailuresForgotten ==
    \A addr \in Addrs :
        \/ []<>(addr \notin DOMAIN attempts)
        \/ []<><<HandlerFails(addr)>>_vars

\* Stop reaches every goroutine that Start has started.  (The one of the
\* failures' cleanup, which the constructor starts, is never stopped.)
StopEndsRoutines ==
    []<>(stopped => ~refiller /\ ~cleaner /\ monitor = "returned")

\* README, "Temporary IP blocking after multiple failures": an IP with
\* MaxAttempts failures within the block time is not let past the check.
FailuresOf(ip) ==
    MapThenSumSet(
        LAMBDA addr : attempts[addr].count,
        {addr \in DOMAIN attempts :
            IPOf[addr] = ip /\ attempts[addr].lastFail < BlockTime})
IPBlockedAfterFailures ==
    [][check = "failed" /\ check' = "tokens" =>
           FailuresOf(IPOf[cur]) < MaxAttempts]_vars
=============================================================================
