------------------------- MODULE MCDependencyTracker -------------------------
(***************************************************************************)
(* Two tables and every kind of query.                                     *)
(***************************************************************************)
EXTENDS DependencyTracker, TLC

MCInput == Query
MCSymmetry == Permutations(Tables)
=============================================================================
