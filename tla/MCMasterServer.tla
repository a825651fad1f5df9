--------------------------- MODULE MCMasterServer ---------------------------
(***************************************************************************)
(* Instances of MasterServer for TLC.                                      *)
(***************************************************************************)
EXTENDS MasterServer, TLC

CONSTANTS c1, c2, h1, h2

\* A Worker with two threads and one with one thread.
BigAndSmall == (c1 :> 2) @@ (c2 :> 1)
OneOfTwo == c1 :> 2

\* The HTTP threads run the same code and nothing tells them apart.
HttpSymmetry == Permutations(Http)
=============================================================================
