------------------------------ MODULE MCEngine ------------------------------
(***************************************************************************)
(* Instances of Engine for TLC: the constants' values and symmetry.        *)
(***************************************************************************)
EXTENDS Engine, TLC

\* One pair of heap lines; a capped and an uncapped pair, the first with a
\* soft line that the larger heap reading crosses.
OneCap    == {[soft |-> 0, hard |-> 1]}
MixedCaps == {[soft |-> 1, hard |-> 2], [soft |-> 0, hard |-> 0]}

Symmetry == Permutations(Instances) \cup Permutations(Runs)
=============================================================================
