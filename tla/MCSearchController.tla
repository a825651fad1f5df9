-------------------------- MODULE MCSearchController --------------------------
(***************************************************************************)
(* SearchController for TLC.  The clients are symmetric.                   *)
(***************************************************************************)
EXTENDS SearchController, TLC

Symmetry == Permutations(User)
=============================================================================
