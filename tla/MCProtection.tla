---------------------------- MODULE MCProtection ----------------------------
\* For TLC: ports of one IP.
EXTENDS FailureStreaks

CONSTANTS a1, a2, ip1

MCAddrs == {a1, a2}
MCIPOf == [addr \in MCAddrs |-> ip1]
=============================================================================
