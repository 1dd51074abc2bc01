------------------------- MODULE ConnectionLimiter --------------------------
(***************************************************************************)
(* pkg/server/ratelimit/connection_limiter.go: the table that counts the   *)
(* connections of each IP.  Every method holds the limiter's mutex from    *)
(* its first access of the table to its return, so each one is one step.   *)
(*                                                                         *)
(* Time is kept as ages.  The code compares now - lastReset with ttl, and  *)
(* nothing else of a timestamp, so an entry holds the number of clock      *)
(* ticks since lastReset, which stops counting at TTL + 1: every greater   *)
(* age compares the same.  The actions leave no other trace of time, and   *)
(* a module that composes the limiter with others lets them age together.  *)
(***************************************************************************)
EXTENDS Integers, GoMap

CONSTANTS
    IPs,        \* the keys: what extractIP returns
    MaxPerIP,   \* maxPerIP
    TTL         \* ttl, in clock ticks

ASSUME LimiterAssumption == MaxPerIP \in Nat \ {0} /\ TTL \in Nat \ {0}

VARIABLE
    connections \* ip -> [count, age of lastReset]

Ages == 0 .. TTL + 1

ConnStats == [count : 1 .. MaxPerIP, age : Ages]

LimiterType == connections \in MapsOf(IPs, ConnStats)

LimiterInit == connections = EmptyMap

FreshStats == [count |-> 0, age |-> 0]

Expired(stats) == stats.age > TTL

Stored(ip) == IF ip \in DOMAIN connections THEN connections[ip] ELSE FreshStats

\* AllowConnection's local stats after the TTL check: what the decision is
\* taken on.
Current(ip) == IF Expired(Stored(ip)) THEN FreshStats ELSE Stored(ip)

FullOneEarly(ip) == Current(ip).count + 1 >= MaxPerIP
Full(ip) == Current(ip).count >= MaxPerIP

\* AllowConnection returning true: the entry is written back with one more.
AdmitRefreshing(ip) ==
    /\ ~Full(ip)
    /\ connections' = Put(connections, ip,
                          [count |-> Current(ip).count + 1, age |-> 0])
Admit(ip) ==
    /\ ~Full(ip)
    /\ connections' = Put(connections, ip, [Current(ip) EXCEPT !.count = @ + 1])

\* AllowConnection returning false: the local stats are dropped, the table
\* keeps what it had.
RefuseRefreshing(ip) ==
    /\ Full(ip)
    /\ connections' = [connections EXCEPT ![ip].age = 0]
Refuse(ip) ==
    /\ Full(ip)
    /\ UNCHANGED connections

\* RemoveConnection
RemoveConnectionNotStored(ip) ==
    connections' =
        IF ip \in DOMAIN connections /\ connections[ip].count - 1 <= 0
        THEN Delete(connections, ip)
        ELSE connections
RemoveConnection(ip) ==
    connections' =
        IF ip \notin DOMAIN connections THEN connections
        ELSE IF connections[ip].count - 1 <= 0 THEN Delete(connections, ip)
        ELSE [connections EXCEPT ![ip].count = @ - 1]

\* cleanup, run by periodicCleanup at every tick of its ticker
Cleanup ==
    connections' = Retain(connections, {ip \in IPs : ~Expired(Stored(ip))})

\* One clock tick passes for every entry.
Older(stats) == IF Expired(stats) THEN stats ELSE [stats EXCEPT !.age = @ + 1]
Age == connections' = [ip \in DOMAIN connections |-> Older(connections[ip])]
=============================================================================
