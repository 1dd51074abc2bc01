------------------------------ MODULE MCServer ------------------------------
(***************************************************************************)
(* Small instances of Server for TLC.  All connections come from one       *)
(* address: the limiter keeps addresses apart (SlotDiscipline runs with    *)
(* two), and what matters here is that connections compete for its slots.  *)
(***************************************************************************)
EXTENDS Server, TLC

CONSTANT ip1

MCIPs == {ip1}
MCIPOf == [c \in Conns |-> ip1]

\* Connections are interchangeable; used by the runs without liveness.
Symmetry == Permutations(Conns)
=============================================================================
