------------------------ MODULE SlotDisciplineProofs ------------------------
(***************************************************************************)
(* Proofs about the connection limiter and its disciplined callers, for    *)
(* every set of addresses, limit, TTL and number of connections.           *)
(***************************************************************************)
EXTENDS SlotDiscipline, ConnectionLimiterProofs, TLAPS

-----------------------------------------------------------------------------

\* Type correctness: counts stay within 1 .. maxPerIP at every address.
THEOREM TypeCorrect == Spec => []TypeOK
<1>1. Init => TypeOK
    BY DEF Init, TypeOK, LimiterType, LimiterInit, EmptyMap, MapsOf
<1>2. TypeOK /\ [Next]_vars => TypeOK'
    <2> SUFFICES ASSUME TypeOK, [Next]_vars PROVE TypeOK'
        OBVIOUS
    <2> USE DEF TypeOK
    <2>1. ASSUME NEW ip \in IPs, Open(ip) PROVE TypeOK'
        BY <2>1, AdmitType DEF Open
    <2>2. ASSUME NEW ip \in IPs, TurnAway(ip) PROVE TypeOK'
        BY <2>2 DEF TurnAway, Refuse, LimiterType
    <2>3. ASSUME NEW ip \in IPs, Close(ip) PROVE TypeOK'
        BY <2>3, RemoveConnectionType DEF Close
    <2>4. CASE PeriodicCleanup
        BY <2>4, CleanupType DEF PeriodicCleanup
    <2>5. CASE Tick
        BY <2>5, AgeType DEF Tick
    <2>6. CASE UNCHANGED vars
        BY <2>6 DEF vars, LimiterType
    <2> QED BY <2>1, <2>2, <2>3, <2>4, <2>5, <2>6 DEF Next
<1> QED BY <1>1, <1>2, PTL DEF Spec

-----------------------------------------------------------------------------

\* A step of the limiter and its callers keeps every count at or below the
\* number of live connections.
LEMMA CountsOnlyLiveStep ==
    ASSUME TypeOK, TypeOK', CountsOnlyLive, [Next]_vars
    PROVE  CountsOnlyLive'
<1> USE LimiterTypeEquiv DEF TypeOK, CountsOnlyLive, ConnStats
<1>1. ASSUME NEW ip \in IPs, Open(ip) PROVE CountsOnlyLive'
    <2>1. Current(ip).count <= live[ip]
        BY CurrentFacts
    <2>2. Current(ip).count + 1 <= live'[ip]
        BY <1>1, <2>1, CurrentFacts DEF Open
    <2>3. connections'[ip].count = Current(ip).count + 1
        BY <1>1, CurrentFacts DEF Open, Admit, Put
    <2> QED BY <1>1, <2>2, <2>3 DEF Open, Admit, Put
<1>2. ASSUME NEW ip \in IPs, TurnAway(ip) PROVE CountsOnlyLive'
    BY <1>2 DEF TurnAway, Refuse
<1>3. ASSUME NEW ip \in IPs, Close(ip) PROVE CountsOnlyLive'
    BY <1>3 DEF Close, RemoveConnection, Delete
<1>4. CASE PeriodicCleanup
    BY <1>4 DEF PeriodicCleanup, Cleanup, Retain
<1>5. CASE Tick
    BY <1>5 DEF Tick, Age, Older
<1>6. CASE UNCHANGED vars
    BY <1>6 DEF vars
<1> QED BY <1>1, <1>2, <1>3, <1>4, <1>5, <1>6 DEF Next

\* An entry never counts a connection that is not live, whatever order TTL
\* resets, cleanups, admissions and removals come in.
THEOREM CountsCorrect == Spec => []CountsOnlyLive
<1>1. Init => CountsOnlyLive
    BY DEF Init, LimiterInit, EmptyMap, CountsOnlyLive
<1>2. TypeOK /\ TypeOK' /\ CountsOnlyLive /\ [Next]_vars => CountsOnlyLive'
    BY CountsOnlyLiveStep
<1> QED BY <1>1, <1>2, TypeCorrect, PTL DEF Spec

\* Callers that give every slot back are refused only while MaxPerIP of their
\* connections are live.
THEOREM RefusalsCorrect == Spec => []RefusalJustified
<1>1. TypeOK /\ CountsOnlyLive => RefusalJustified
    <2> SUFFICES ASSUME TypeOK, CountsOnlyLive, NEW ip \in IPs, Full(ip)
                 PROVE  live[ip] >= MaxPerIP
        BY DEF RefusalJustified
    <2>1. Current(ip).count >= MaxPerIP /\ Current(ip).count > 0
        BY CurrentFacts, LimiterAssumption DEF Full, TypeOK
    <2>2. ip \in DOMAIN connections /\ Current(ip) = connections[ip]
        BY <2>1, CurrentFacts DEF TypeOK
    <2>3. connections[ip].count <= live[ip]
        BY <2>2 DEF CountsOnlyLive
    <2> QED BY <2>1, <2>2, <2>3, CurrentFacts, LimiterAssumption DEF TypeOK
<1> QED BY <1>1, TypeCorrect, CountsCorrect, PTL
=============================================================================
