---------------------- MODULE ConnectionLimiterProofs -----------------------
(***************************************************************************)
(* What the operations of the connection limiter return and preserve:      *)
(* lemmas for the proofs about the modules that use it.                    *)
(***************************************************************************)
EXTENDS ConnectionLimiter, TLAPS

USE DEF Ages, ConnStats, FreshStats

\* The table is a map of entries at every address it holds.
LEMMA LimiterTypeEquiv ==
    LimiterType <=>
        /\ DOMAIN connections \subseteq IPs
        /\ connections \in [DOMAIN connections -> ConnStats]
BY DEF LimiterType, MapsOf

\* The same for the next state's table.
LEMMA LimiterTypeEquivNext ==
    LimiterType' <=>
        /\ DOMAIN connections' \subseteq IPs
        /\ connections' \in [DOMAIN connections' -> ConnStats]
BY DEF LimiterType, MapsOf

\* AllowConnection decides on a count of at most MaxPerIP, and on one that is
\* in the table unless it is zero.
LEMMA CurrentFacts ==
    ASSUME LimiterType, NEW ip \in IPs
    PROVE  /\ Current(ip).count \in 0 .. MaxPerIP
           /\ Current(ip).age \in Ages
           /\ Current(ip) = [count |-> Current(ip).count, age |-> Current(ip).age]
           /\ Current(ip).count > 0 =>
                  /\ ip \in DOMAIN connections
                  /\ Current(ip) = connections[ip]
BY LimiterAssumption, LimiterTypeEquiv DEF Current, Stored, Expired

\* AllowConnection writes counts of 1 .. maxPerIP only.
LEMMA AdmitType ==
    ASSUME LimiterType, NEW ip \in IPs, Admit(ip)
    PROVE  LimiterType'
<1>1. Current(ip).count + 1 \in 1 .. MaxPerIP
    BY CurrentFacts, LimiterAssumption DEF Admit, Full
<1>2. [Current(ip) EXCEPT !.count = @ + 1] \in ConnStats
    BY <1>1, CurrentFacts
<1> QED BY <1>2, LimiterTypeEquiv, LimiterTypeEquivNext DEF Admit, Put

\* RemoveConnection deletes an entry rather than leave it a count of zero.
LEMMA RemoveConnectionType ==
    ASSUME LimiterType, NEW ip \in IPs, RemoveConnection(ip)
    PROVE  LimiterType'
BY LimiterAssumption, LimiterTypeEquiv, LimiterTypeEquivNext
   DEF RemoveConnection, Delete

\* cleanup only removes entries.
LEMMA CleanupType == LimiterType /\ Cleanup => LimiterType'
BY LimiterTypeEquiv, LimiterTypeEquivNext DEF Cleanup, Retain

\* Ages stop at TTL + 1.
LEMMA AgeType == LimiterType /\ Age => LimiterType'
BY LimiterAssumption, LimiterTypeEquiv, LimiterTypeEquivNext
   DEF Age, Older, Expired
=============================================================================
