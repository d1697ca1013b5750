------------------------------ MODULE MCProbe -------------------------------
EXTENDS Probe

(* Any fault while nothing is sent; while payloads are sent, an error of   *)
(* the receiver alone.                                                     *)
FaultsValue == [s \in BOOLEAN |-> IF s THEN {"RxError"} ELSE FaultKinds]
=============================================================================
