--------------------------- MODULE RateDiscipline ---------------------------
(***************************************************************************)
(* The rate limiter under arbitrary clients.  Two histories that it does   *)
(* not see are kept per IP.  admitted holds the ages of its last           *)
(* admissions, the latest first, as many as could matter; an age beyond    *)
(* the window, or no admission at all, is LongAgo.  refused counts the     *)
(* connections turned away, blocked or not, since its bucket was last      *)
(* forgotten, up to MaxAttempts.                                           *)
(***************************************************************************)
EXTENDS IPRateLimiter

VARIABLES admitted, refused

vars == <<limits, admitted, refused>>

Depth == 2 * Burst + 1
LongAgo == Window + 1

Init ==
    /\ RateInit
    /\ admitted = [ip \in IPs |-> [i \in 1 .. Depth |-> LongAgo]]
    /\ refused = [ip \in IPs |-> 0]

\* A connection of ip is let in.
Latest(ages) == [i \in 1 .. Depth |-> IF i = 1 THEN 0 ELSE ages[i - 1]]

LetIn(ip) ==
    /\ Spend(ip)
    /\ admitted' = [admitted EXCEPT ![ip] = Latest(@)]
    /\ UNCHANGED refused

\* A connection of ip is turned away.
OneMore(n) == IF n = MaxAttempts THEN n ELSE n + 1

TurnAway(ip) ==
    /\ RefuseBlocked(ip) \/ CountAttempt(ip)
    /\ refused' = [refused EXCEPT ![ip] = OneMore(@)]
    /\ UNCHANGED admitted

PeriodicCleanup ==
    /\ Cleanup
    /\ refused' = [ip \in IPs |-> IF ip \in DOMAIN limits' THEN refused[ip] ELSE 0]
    /\ UNCHANGED admitted

\* Time passes.
Older(ages) == [i \in 1 .. Depth |-> IF ages[i] = LongAgo THEN LongAgo ELSE ages[i] + 1]

Tick ==
    /\ Age
    /\ admitted' = [ip \in IPs |-> Older(admitted[ip])]
    /\ UNCHANGED refused

Next ==
    \/ \E ip \in IPs : LetIn(ip) \/ TurnAway(ip)
    \/ PeriodicCleanup
    \/ Tick

Spec == Init /\ [][Next]_vars

\* Time passes and the ticker of periodicCleanup ticks; connections come at
\* the clients' pleasure.
FairSpec == Spec /\ WF_vars(Tick) /\ WF_vars(PeriodicCleanup)

-----------------------------------------------------------------------------

TypeOK ==
    /\ RateType
    /\ admitted \in [IPs -> [1 .. Depth -> 0 .. LongAgo]]
    /\ refused \in [IPs -> 0 .. MaxAttempts]

\* Refusals are remembered from window to window: the tokens come back with
\* every new window, the attempts counted against an IP never do, however
\* many windows and admissions lie between.  So an IP is blocked exactly when
\* more than twice the burst of its connections have been turned away since
\* its bucket was last forgotten.
RefusalsAddUp == \A ip \in IPs : Blocked(ip) <=> refused[ip] > 2 * Burst

\* Tokens are reset by windows that start at a connection, not by a sliding
\* one: whatever the arrivals, resets and cleanups, no IP is let in more than
\* twice the burst within the length of a window.
AtMostTwoBursts == \A ip \in IPs : admitted[ip][2 * Burst + 1] > Window

\* An IP that is not blocked is refused only when it has been let in a full
\* burst within the length of a window.
RefusedOnlyAfterBurst ==
    \A ip \in IPs : ~Blocked(ip) /\ ~HasToken(ip) => admitted[ip][Burst] <= Window

\* A blocked IP stays blocked, whatever it does, until its bucket has gone
\* without a reset for longer than the TTL and is removed.
BlockedUntilStale ==
    [][\A ip \in IPs : Blocked(ip) /\ ~Stale(ip) => Blocked(ip)']_vars

\* README, "Automatic temporary IP blocking": the blocking of an IP ends,
\* even if the IP keeps connecting.
BlockingIsTemporary == \A ip \in IPs : Blocked(ip) ~> ~Blocked(ip)
=============================================================================
