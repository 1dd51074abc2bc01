----------------------------- MODULE SlotLeaks ------------------------------
(***************************************************************************)
(* The server with a clock that the code does not keep: for each IP, the   *)
(* ticks since Run last dropped a connection of it without giving back its *)
(* slot.  The clock stops at TTL + 1, where it stands for "longer ago or   *)
(* never", and it restricts nothing.                                       *)
(***************************************************************************)
EXTENDS Server

VARIABLE
    sinceLeak   \* ip -> ticks since the last late drop of a connection of it

leakVars == <<vars, sinceLeak>>

\* A late drop of a connection of ip, which is the only step that takes a
\* holder away and leaves its count.
LateDropOf(ip) == LateDrop /\ IPOf[inHand] = ip

LeaksInit == Init /\ sinceLeak = [ip \in IPs |-> TTL + 1]

LeaksNext ==
    /\ Next
    /\ sinceLeak' = [ip \in IPs |->
           IF LateDropOf(ip) THEN 0
           ELSE IF LimiterTick /\ sinceLeak[ip] <= TTL THEN sinceLeak[ip] + 1
           ELSE sinceLeak[ip]]

LeaksSpec == LeaksInit /\ [][LeaksNext]_leakVars

-----------------------------------------------------------------------------

\* A slot that Run forgot costs its IP no more than a TTL: an IP that is
\* refused longer than that after its last late drop has MaxPerIP connections
\* open, because every entry is reset at the first admission after its TTL,
\* however many admissions and removals there have been since.
LeaksHeal ==
    \A ip \in IPs :
        Full(ip) /\ sinceLeak[ip] > TTL => Cardinality(OpenOf(ip)) >= MaxPerIP
=============================================================================
