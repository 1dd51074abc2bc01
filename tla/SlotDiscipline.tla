--------------------------- MODULE SlotDiscipline ---------------------------
(***************************************************************************)
(* The connection limiter under the callers it is written for: every       *)
(* connection it admits is reported back by exactly one RemoveConnection,  *)
(* and none that it refuses is.  live counts, per IP, the admissions not   *)
(* yet reported back; the limiter does not see it.                         *)
(***************************************************************************)
EXTENDS ConnectionLimiter

CONSTANT MaxLive    \* bound: simultaneous connections of one IP

ASSUME LiveAssumption == MaxLive \in Nat

VARIABLE live       \* ip -> connections admitted and not yet removed

vars == <<connections, live>>

TypeOK ==
    /\ LimiterType
    /\ live \in [IPs -> Nat]

Init ==
    /\ LimiterInit
    /\ live = [ip \in IPs |-> 0]

\* A connection is admitted and lives.
Open(ip) ==
    /\ live[ip] < MaxLive
    /\ Admit(ip)
    /\ live' = [live EXCEPT ![ip] = @ + 1]

\* A connection is refused and closed by the caller.
TurnAway(ip) ==
    /\ Refuse(ip)
    /\ UNCHANGED live

\* A live connection ends and gives its slot back.
Close(ip) ==
    /\ live[ip] > 0
    /\ RemoveConnection(ip)
    /\ live' = [live EXCEPT ![ip] = @ - 1]

PeriodicCleanup == Cleanup /\ UNCHANGED live

Tick == Age /\ UNCHANGED live

Next ==
    \/ \E ip \in IPs : Open(ip) \/ TurnAway(ip) \/ Close(ip)
    \/ PeriodicCleanup
    \/ Tick

Spec == Init /\ [][Next]_vars

-----------------------------------------------------------------------------

\* No entry counts a connection that is not there.  TTL resets and cleanups
\* forget live connections, and the RemoveConnection of a forgotten one
\* arrives when the entry is gone or counts younger connections only; none
\* of these orders may leave an entry that counts more than live.
CountsOnlyLive ==
    \A ip \in DOMAIN connections : connections[ip].count <= live[ip]

\* AllowConnection refuses an IP only when maxPerIP of its connections are
\* live: a caller that always gives its slots back is never refused for
\* connections it has closed.
RefusalJustified == \A ip \in IPs : Full(ip) => live[ip] >= MaxPerIP
=============================================================================
