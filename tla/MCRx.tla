-------------------------------- MODULE MCRx --------------------------------
(***************************************************************************)
(* RxConnection for TLC: the payloads of the configuration MCRx.cfg.       *)
(***************************************************************************)
EXTENDS RxConnection

MixedSizes == <<2, 4, 1, 1, 1, 1>>
=============================================================================
