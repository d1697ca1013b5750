----------------------------- MODULE MCManager ------------------------------
(***************************************************************************)
(* EndpointManager for TLC.  The configurations MCManager*.cfg give the    *)
(* constants their values; endpoints are model values.                     *)
(***************************************************************************)
EXTENDS EndpointManager, TLC

Symmetry == Permutations(Endpoints)
=============================================================================
