------------------------------ MODULE MCQueue -------------------------------
(***************************************************************************)
(* CdiQueue for TLC.  The configurations MCQueue*.cfg give the constants   *)
(* their values; threads and items are model values.                       *)
(***************************************************************************)
EXTENDS CdiQueue, TLC

Symmetry == Permutations(Writers) \cup Permutations(Data)
=============================================================================
