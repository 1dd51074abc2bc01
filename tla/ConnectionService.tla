------------------------- MODULE ConnectionService --------------------------
(***************************************************************************)
(* What a WiseGuard server promises about connections, without goroutines, *)
(* counters or limiters: it decides on one connection at a time, serves at *)
(* most MaxConnections at once, takes no new connection once it drains,    *)
(* and then still finishes its decision on the one it had taken.           *)
(***************************************************************************)
EXTENDS Integers, FiniteSets

CONSTANTS Conns, MaxConnections

VARIABLES
    phase,      \* up, draining or down
    pending,    \* the connection taken and not decided on, at most one
    serving     \* the connections being served

vars == <<phase, pending, serving>>

Init ==
    /\ phase = "up"
    /\ pending = {}
    /\ serving = {}

\* A connection that is not served is taken for a decision.
Take(c) ==
    /\ phase = "up"
    /\ pending = {}
    /\ c \notin serving
    /\ pending' = {c}
    /\ UNCHANGED <<phase, serving>>

\* The decision is to refuse it.
TurnDown ==
    /\ phase # "down"
    /\ pending # {}
    /\ pending' = {}
    /\ UNCHANGED <<phase, serving>>

\* The decision is to serve it.
Admit ==
    /\ phase # "down"
    /\ pending # {}
    /\ Cardinality(serving) < MaxConnections
    /\ serving' = serving \cup pending
    /\ pending' = {}
    /\ UNCHANGED phase

\* A connection has been served.
Finish(c) ==
    /\ phase # "down"
    /\ c \in serving
    /\ serving' = serving \ {c}
    /\ UNCHANGED <<phase, pending>>

Drain ==
    /\ phase = "up"
    /\ phase' = "draining"
    /\ UNCHANGED <<pending, serving>>

\* The process ends, from any phase.
Halt ==
    /\ phase # "down"
    /\ phase' = "down"
    /\ UNCHANGED <<pending, serving>>

Next ==
    \/ \E c \in Conns : Take(c) \/ Finish(c)
    \/ TurnDown \/ Admit \/ Drain \/ Halt

Spec == Init /\ [][Next]_vars
=============================================================================
