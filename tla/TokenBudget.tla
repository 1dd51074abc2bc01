---------------------------- MODULE TokenBudget -----------------------------
(***************************************************************************)
(* What a token bucket promises: an address is let in only at the price of *)
(* one token of its credit, and credit is earned by the passing of time    *)
(* alone, at the fill rate and up to a brim.  Over any stretch of n ticks  *)
(* an address is therefore let in at most Brim + n * FillNum FillDen-ths   *)
(* of a time.  Credit is counted in FillDen-ths of a token and may be lost *)
(* at any moment: the promise is an upper bound.                           *)
(***************************************************************************)
EXTENDS Integers

CONSTANTS Addrs, Capacity, FillNum, FillDen

VARIABLES
    credit,     \* address -> credit
    event       \* what the last step did: <<"take", addr>>, <<"tick">> or other

vars == <<credit, event>>

\* The capacity, and less than a token that a full bucket has in the making.
Brim == Capacity * FillDen + FillDen - 1

Init ==
    /\ credit = [addr \in Addrs |-> Capacity * FillDen]
    /\ event = <<"none">>

\* A step after which no address has more credit than limit allows it.
AtMost(limit) ==
    \A addr \in Addrs : credit'[addr] \in 0 .. limit[addr]

LetIn(a) ==
    /\ AtMost([credit EXCEPT ![a] = @ - FillDen])
    /\ event' = <<"take", a>>

Earn ==
    /\ AtMost([addr \in Addrs |-> IF credit[addr] + FillNum < Brim
                                  THEN credit[addr] + FillNum ELSE Brim])
    /\ event' = <<"tick">>

Lose ==
    /\ AtMost(credit)
    /\ event'[1] \notin {"take", "tick"}

Next == (\E a \in Addrs : LetIn(a)) \/ Earn \/ Lose

Spec == Init /\ [][Next]_vars
=============================================================================
