-------------------------------- MODULE MCTx --------------------------------
(***************************************************************************)
(* TxPayloads for TLC: the payloads of MCTx.cfg and the limits of its run. *)
(***************************************************************************)
EXTENDS TxPayloads

TwoPackets == <<2, 2>>

(* A flush in the middle of a call of TxPayloadInternal frees the payload  *)
(* state that the call goes on to use, and from there on anything may      *)
(* happen: the run ends there.                                             *)
BeforeRace == ~raced

(* A reset of one endpoint flushes the payload states of all: the losses   *)
(* are those of a connection with one endpoint.                            *)
OneEndpointIsLost ==
  losses > 0 =>
    /\ \A a \in App : app[a].endpoint = 1
    /\ \A s \in Slot : payload_states[s].endpoint = 1
    /\ \A e \in Endpoint \ {1} : connection[e] = "Connected"

(* A call after the last payload, to see it refused, is made before the    *)
(* payload thread has begun with the first.                                *)
LastCallIsRefused ==
  accepted_count = Len(Packets) =>
    \A a \in App : app[a].pc = "get" =>
       CannotGet /\ app[a].endpoint = 1 /\ payload_thread.state = "Idle" /\ losses = 0
=============================================================================
