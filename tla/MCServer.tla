------------------------------ MODULE MCServer ------------------------------
(***************************************************************************)
(* Model checking Server: identifiers are random numbers, so any           *)
(* permutation of them gives the same behaviours.                          *)
(***************************************************************************)
EXTENDS ServerReplica

Symmetry == Permutations(Ids) \cup Permutations(Files)
=============================================================================
