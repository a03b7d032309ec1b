----------------------------- MODULE MCElection -----------------------------
(***************************************************************************)
(* Election for TLC: nodes are interchangeable that are triggered alike.   *)
(***************************************************************************)
EXTENDS Election, TLC

Symmetry == Permutations(Triggered) \cup Permutations(Node \ Triggered)
=============================================================================
