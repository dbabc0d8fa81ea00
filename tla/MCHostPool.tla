----------------------------- MODULE MCHostPool -----------------------------
(* HostPool for TLC: callers and connections are interchangeable.          *)
EXTENDS HostPool

Symmetry == Permutations(Callers) \cup Permutations(Conns)
=============================================================================
