----------------------------- MODULE MCExchange -----------------------------
EXTENDS Exchange, TLC

\* Nothing tells two connections or two nonces apart.
Symmetry == Permutations(Conns) \cup Permutations(Nonces)
=============================================================================
