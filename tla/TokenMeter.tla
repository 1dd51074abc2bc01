----------------------------- MODULE TokenMeter -----------------------------
(***************************************************************************)
(* The token bucket with a meter: from any moment on, how often each       *)
(* address has been let in, how many ticks have passed, and how many since *)
(* the last time it was let in.  The meter restricts nothing.              *)
(***************************************************************************)
EXTENDS TokenFlow

VARIABLES
    taken,      \* address -> times it was let in since then
    elapsed,    \* ticks since then
    waited      \* address -> ticks since it was last let in, or since then

meter == <<taken, elapsed, waited>>
meterVars == <<tokenVars, meter>>

\* The meter is started in whatever state the buckets are in.
MeterInit ==
    /\ TokensType
    /\ taken = [addr \in Addrs |-> 0]
    /\ elapsed = 0
    /\ waited = [addr \in Addrs |-> 0]

MeterNext ==
    \/ \E addr \in Addrs :
           /\ TakeToken(addr)
           /\ taken' = [taken EXCEPT ![addr] = @ + 1]
           /\ waited' = [waited EXCEPT ![addr] = 0]
           /\ UNCHANGED elapsed
    \/ /\ TokensTick
       /\ elapsed' = elapsed + 1
       /\ waited' = [addr \in Addrs |-> waited[addr] + 1]
       /\ UNCHANGED taken
    \/ /\ \/ \E addr \in Addrs : MissToken(addr) \/ QueryTokens(addr)
          \/ RefillTokens \/ CleanupTokens
          \/ StopTokens \/ RefillerReturns \/ CleanerReturns
       /\ UNCHANGED meter

MeterSpec == MeterInit /\ [][MeterNext]_meterVars

-----------------------------------------------------------------------------

\* In any n ticks an address is let in at most once per token of a full
\* bucket, and n * fillRate times more, up to the fraction of a token that
\* was in the making: whatever lazy refills, the ticker's refills and the
\* removal and return of its bucket do meanwhile.
AdmissionsBounded ==
    \A addr \in Addrs :
        taken[addr] * FillDen
            <= Capacity * FillDen + FillDen - 1 + elapsed * FillNum

\* An address is refused only within the time of one token after it was last
\* let in.  A refill that adds tokens drops the fraction of a token earned
\* beyond them; but it leaves a bucket that is not dry, and a dry one loses
\* nothing to the refills, lazy or by the ticker, that add no token to it.
RefusedOnlyAfterAdmission ==
    [][\A addr \in Addrs :
           MissToken(addr) => waited[addr] * FillNum < FillDen]_meterVars
=============================================================================
