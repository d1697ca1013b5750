------------------------------- MODULE Interop ------------------------------
(***************************************************************************)
(* A transmitter and a receiver of different releases of the SDK: how they *)
(* find the protocol they talk (EncodeProbeHeader, the handlers of control *)
(* packets of the probe, EfaAdapterEndpointProtocolVersionSet), and the    *)
(* payload packets they then exchange.  The host of the receiver may be    *)
(* replaced by one of another release.                                     *)
(*                                                                         *)
(* Module Probe has the timers, the threads and the queues of the same     *)
(* handshake.  Here a command of the Endpoint Manager is done in the step  *)
(* that answers it, the exchange of EFA probe packets is left out, and a   *)
(* command is sent again when nothing will answer it any more.  Another    *)
(* release is taken to be this code with its own version; release 1 reads  *)
(* and writes the first layout only and has no version command.            *)
(***************************************************************************)
EXTENDS Packetizer, FiniteSets

CONSTANTS
  TxSdks, RxSdks,   \* the versions of the releases of each side
  Sources,          \* the lists of buffers the application sends
  SglEntries,       \* entries of packet_sgl_entry_pool_handle
  MaxPayloads,      \* bound on the payloads of a connection
  MaxFaults,        \* bound on lost control packets, errors and replacements
  CommandRetries,   \* TX_COMMAND_MAX_RETRIES
  Numbers           \* control packet numbers, modulo this

ASSUME InteropAssumption ==
  /\ TxSdks \cup RxSdks \subseteq Versions
  /\ Sources \subseteq Seq(Nat \ {0})
  /\ {SglEntries, MaxPayloads, MaxFaults, CommandRetries, Numbers} \subseteq Nat

VARIABLES
  sdk,      \* the release of each side
  tx,       \* adapter endpoint and probe state of the transmitter
  rx,       \* the same of the receiver
  network,  \* control packets on their way
  k,        \* the payload that is being cut into packets
  free,     \* entries left in packet_sgl_entry_pool_handle
  packets,  \* payload packets on their way
  got,      \* what the receiver has stored of the payloads
  faults

vars == <<sdk, tx, rx, network, k, free, packets, got, faults>>
payloads == <<k, free, packets, got>>

-----------------------------------------------------------------------------
Release1(own) == own.version_num = 1

(* EfaAdapterEndpointProtocolVersionSet, with both versions of libfabric   *)
(* built in: the handle and the libfabric the endpoint is opened with      *)
(* next.  Older releases have no choice.                                   *)
NewLibfabric(version) ==
  version.version_num > 2
  \/ (version.version_num = 2 /\ version.major_version_num > 2)

Adopted(own, remote) ==
  [protocol |-> ProtocolVersionSet(own, IF Release1(own) THEN own ELSE remote),
   libfabric |-> IF NewLibfabric(own) /\ NewLibfabric(remote) THEN "New" ELSE "1.9"]

NoHandle == [protocol |-> None, libfabric |-> None]

(* EncodeProbeHeader: the negotiated protocol if there is one; otherwise   *)
(* that of this SDK where the other side is known to read it.              *)
Encoder(own, e, command) ==
  CASE e.handle # NoHandle -> e.handle.protocol
    [] e.handle = NoHandle /\ (\/ command = "ProtocolVersion"
                               \/ command = "Ack" /\ e.ack_probe >= 3) ->
         ProtocolVersionSet(own, own)
    [] OTHER -> ProtocolVersionSetLegacy(own)

Encoded(own, e, to, command, num, ack) ==
  [to |-> to, header |->
     ProtocolProbeHeaderEncode(Encoder(own, e, command),
       [command |-> command, control_packet_num |-> num,
        requires_ack |-> command # "Ack", ack |-> ack])]

Decoded(own, h) ==
  IF Release1(own) THEN ProbeHeaderDecode1(h) ELSE ProtocolProbeHeaderDecode(own, h)

(* Mutant: every release is sent the version command.                      *)
KnowsVersionCommand(own, remote) == Release1(own)

(* Releases before probe version 3 have no version command.                *)
NoVersionCommand(own, remote) == Release1(own) \/ remote.probe_version_num < 3

-----------------------------------------------------------------------------
NewTx == [state |-> "SendReset", handle |-> NoHandle, num |-> 0, pending |-> None,
          retries |-> 0,          ack_probe |-> 0, payload_num |-> 0, packet_id |-> 0]
NewRx == [state |-> "Idle", handle |-> NoHandle, ack_probe |-> 0, ack |-> None,
          open |-> FALSE]

Init ==
  /\ sdk \in [Tx : TxSdks, Rx : RxSdks]
  /\ tx = NewTx /\ rx = NewRx
  /\ network = {}
  /\ k = None /\ free = SglEntries /\ packets = {} /\ got = {}
  /\ faults = 0

Fault == faults < MaxFaults /\ faults' = faults + 1

(* TxEndpointFlush, in the reset of an endpoint: payload and packet        *)
(* numbers begin again and all pools are full.                             *)
Flushed(e) == [e EXCEPT !.payload_num = 0, !.packet_id = 0]
FlushPayloads == k' = None /\ free' = SglEntries /\ packets' = {} /\ got' = {}

-----------------------------------------------------------------------------
(* ProbeControlSendCommand by the Tx: it waits for the acknowledgement of  *)
(* this number.                                                            *)
TxSends(command, e) ==
  LET num == (e.num + 1) % Numbers
  IN /\ network' = (network \cup {Encoded(sdk.Tx, e, "Rx", command, num, None)})
     /\ tx' = [e EXCEPT !.num = num, !.state = "Waits",
                        !.pending = [command |-> command, num |-> num]]

TxSendReset ==
  /\ tx.state = "SendReset"
  /\ TxSends("Reset", tx)
  /\ UNCHANGED <<sdk, rx, faults>> /\ UNCHANGED payloads

TxSendVersion ==
  /\ tx.state = "SendVersion"
  /\ TxSends("ProtocolVersion", tx)
  /\ UNCHANGED <<sdk, rx, faults>> /\ UNCHANGED payloads

(* No acknowledgement came.  A reset is sent again for ever, the version   *)
(* as often as ProcessSendCommandRetry allows and then a reset.            *)
Unanswered == network = {} /\ rx.state \notin {"Resetting", "Starting"}

TxTimeout ==
  /\ tx.state = "Waits" /\ Unanswered
  /\ IF tx.pending.command = "ProtocolVersion" /\ tx.retries + 1 < CommandRetries
     THEN TxSends("ProtocolVersion", [tx EXCEPT !.retries = @ + 1])
     ELSE TxSends("Reset", [tx EXCEPT !.retries = 0])
  /\ UNCHANGED <<sdk, rx, faults>> /\ UNCHANGED payloads

(* Pings are not answered, or payload packets fail: the Tx starts again,   *)
(* and keeps its handle until the reset is acknowledged.                   *)
TxPingTimeout ==
  /\ tx.state = "Connected" /\ network = {} /\ rx.state # "Started"
  /\ tx' = [Flushed(tx) EXCEPT !.state = "SendReset"]
  /\ FlushPayloads
  /\ UNCHANGED <<sdk, rx, network, faults>>

TxConnected(own, e, remote) ==
  [e EXCEPT !.state = "Connected", !.pending = None, !.handle = Adopted(own, remote)]

(* ProbeTxControlProcessPacket.                                            *)
TxAcked(c) ==
  IF c.ack # tx.pending \/ c.command # "Ack" THEN tx
  ELSE IF c.ack.command = "Reset"
       THEN IF NoVersionCommand(sdk.Tx, c.senders_version)
            THEN TxConnected(sdk.Tx, tx, c.senders_version)
            ELSE [tx EXCEPT !.state = "SendVersion", !.pending = None,
                            !.handle = NoHandle, !.retries = 0]
       ELSE TxConnected(sdk.Tx, tx, c.senders_version)

TxToldToReset(c) ==
  [Flushed(tx) EXCEPT
     !.state = "SendReset", !.pending = None,
     !.handle = IF @ = NoHandle THEN Adopted(sdk.Tx, c.senders_version) ELSE @]

TxRead ==
  \E h \in network :
    /\ h.to = "Tx" /\ network' = network \ {h}
    /\ LET c == Decoded(sdk.Tx, h.header)
       IN \/ c = Garbage /\ UNCHANGED <<tx, k, free, packets, got>>
          \/ c # Garbage /\ c.command = "Ack" /\ tx' = TxAcked(c)
             /\ UNCHANGED <<k, free, packets, got>>
          \/ c # Garbage /\ c.command = "Reset" /\ tx' = TxToldToReset(c)
             /\ FlushPayloads
    /\ UNCHANGED <<sdk, rx, faults>>

-----------------------------------------------------------------------------
(* ProbeRxControlProcessPacket.                                            *)
RxReset(c) ==
  [rx EXCEPT !.state = "Resetting",
             !.handle = IF NoVersionCommand(sdk.Rx, c.senders_version)
                        THEN Adopted(sdk.Rx, c.senders_version) ELSE NoHandle,
             !.ack_probe = c.senders_version.probe_version_num,
             !.ack = [command |-> "Reset", num |-> c.control_packet_num]]

RxVersion(c) ==
  [rx EXCEPT !.state = "Starting", !.handle = Adopted(sdk.Rx, c.senders_version),
             !.ack = [command |-> "ProtocolVersion", num |-> c.control_packet_num]]

RxRead ==
  \E h \in network :
    /\ h.to = "Rx" /\ network' = network \ {h}
    /\ rx.state \notin {"Resetting", "Starting"}
    /\ LET c == Decoded(sdk.Rx, h.header)
       IN \/ c = Garbage /\ UNCHANGED rx
          \/ c # Garbage /\ c.command = "Reset" /\ rx' = RxReset(c)
          \/ c # Garbage /\ c.command = "ProtocolVersion" /\ rx' = RxVersion(c)
    /\ UNCHANGED <<sdk, tx, faults>> /\ UNCHANGED payloads

RxSends(command, e, ack) ==
  network' = (network \cup {Encoded(sdk.Rx, e, "Tx", command, 0, ack)})

(* The Endpoint Manager has reset the endpoint: what was on its way is     *)
(* gone.  With a handle it is started too before the reset is answered.    *)
RxResetDone ==
  /\ rx.state = "Resetting"
  /\ rx' = [rx EXCEPT !.open = rx.handle # NoHandle, !.ack = None,
                      !.state = IF rx.handle # NoHandle THEN "Started" ELSE "WaitVersion"]
  /\ RxSends("Ack", rx, rx.ack)
  /\ packets' = {} /\ got' = {}
  /\ UNCHANGED <<sdk, tx, k, free, faults>>

RxStarted ==
  /\ rx.state = "Starting"
  /\ rx' = [rx EXCEPT !.open = TRUE, !.ack = None, !.state = "Started"]
  /\ RxSends("Ack", rx, rx.ack)
  /\ UNCHANGED <<sdk, tx, faults>> /\ UNCHANGED payloads

-----------------------------------------------------------------------------
(* GetNextPayloadNum.                                                      *)
NextPayloadNum(handle, num) ==
  IF num + 1 > handle.payload_num_max THEN 0 ELSE num + 1

TxPayload ==
  /\ tx.state = "Connected" /\ k = None /\ tx.payload_num < MaxPayloads
  /\ \E sizes \in Sources : k' = PayloadInit(sizes, tx.payload_num, tx.payload_num)
  /\ tx' = [tx EXCEPT !.payload_num = NextPayloadNum(tx.handle.protocol, @)]
  /\ UNCHANGED <<sdk, rx, network, free, packets, got, faults>>

(* TxPayloadThread: the next packet of the payload, as far as the pool     *)
(* goes.                                                                   *)
Taken(x) == IF x.header = None THEN 0 ELSE 1 + Len(x.pieces)

TxPacket ==
  /\ k # None /\ free > 0 /\ tx.state = "Connected"
  /\ LET made == Begun(tx.handle.protocol, k, tx.packet_id, free)
         left == free - (Taken(made) - Taken(k))
         complete == PacketIsComplete(made)
     IN /\ free' = left
        /\ IF complete
           THEN /\ packets' = packets \cup {[header |-> made.header, pieces |-> made.pieces,
                                             name |-> made.info.name]}
                /\ tx' = [tx EXCEPT !.packet_id = @ + 1]
                /\ k' = IF Exhausted(made) THEN None ELSE NextPacket(made)
           ELSE packets' = packets /\ k' = made /\ UNCHANGED tx
  /\ UNCHANGED <<sdk, rx, network, got, faults>>

(* A packet arrives and is acknowledged.  RxPacketReceive throws it away   *)
(* without a handle; CopyToLinearBuffer puts it where its header says.     *)
Stored(p) ==
  LET h == HeaderDecode(rx.handle.protocol, p.header)
      at == IF h = Garbage THEN Garbage ELSE IF h.offset = None THEN 0 ELSE h.offset
  IN [header |-> h, at |-> at, from |-> p.pieces[1].from, size |-> Bytes(p.pieces),
      name |-> p.name]

RxPacket ==
  /\ rx.open
  /\ \E p \in packets :
       /\ packets' = packets \ {p}
       /\ free' = free + 1 + Len(p.pieces)
       /\ got' = IF rx.handle = NoHandle THEN got ELSE got \cup {Stored(p)}
  /\ UNCHANGED <<sdk, tx, rx, network, k, faults>>

-----------------------------------------------------------------------------
Lose ==
  /\ Fault
  /\ \E h \in network : network' = network \ {h}
  /\ UNCHANGED <<sdk, tx, rx>> /\ UNCHANGED payloads

(* An error of the receiving endpoint: it is reset, and asks the Tx to     *)
(* start again.                                                            *)
RxError ==
  /\ Fault /\ rx.state = "Started"
  /\ rx' = [rx EXCEPT !.open = FALSE, !.state = "Idle"]
  /\ RxSends("Reset", rx, None)
  /\ packets' = {} /\ got' = {}
  /\ UNCHANGED <<sdk, tx, k, free>>

(* The host of the receiver is replaced.                                   *)
RxReplaced ==
  /\ Fault
  /\ \E v \in RxSdks : sdk' = [sdk EXCEPT !.Rx = v]
  /\ rx' = NewRx
  /\ network' = {} /\ packets' = {} /\ got' = {}
  /\ UNCHANGED <<tx, k, free>>

Handshake == TxSendReset \/ TxSendVersion \/ TxTimeout \/ TxPingTimeout \/ TxRead
             \/ RxRead \/ RxResetDone \/ RxStarted
Next == Handshake \/ TxPayload \/ TxPacket \/ RxPacket
        \/ Lose \/ RxError \/ RxReplaced

Spec == Init /\ [][Next]_vars
FairSpec == Spec /\ WF_vars(Handshake)

-----------------------------------------------------------------------------
(* Properties.                                                             *)

(* Once the version is settled on both sides, both have settled on the     *)
(* same: the protocol, the limit of payload numbers and the libfabric.     *)
Together == tx.state = "Connected" /\ rx.state = "Started" /\ network = {}
SidesAgree == Together => tx.handle = rx.handle

(* What the receiver stores is what was sent: every header is read with    *)
(* the layout it was written in, tells the payload's number, and puts the  *)
(* bytes at the position they have in the payload.                         *)
PayloadsArriveAsSent ==
  \A g \in got :
    /\ g.header # Garbage
    /\ g.at = g.from
    /\ g.header.payload_num = g.name
    /\ g.header.packet_sequence_num = 0 => g.header.info.name = g.name

(* The packets of a payload are a partition of it: no byte is in two, and  *)
(* when the last packet has arrived none is missing.                       *)
Of(name) == {g \in got : g.name = name}
Packets(name) == {p \in packets : p.name = name}
Size(S) == FoldSet(LAMBDA g, t : g.size + t, 0, S)
PayloadsArriveWhole ==
  \A name \in {g.name : g \in got} :
    (Packets(name) = {} /\ (k = None \/ k.info.name # name) /\ rx.state = "Started") =>
      \A g \in Of(name) : g.header.info # None => g.header.info.size = Size(Of(name))

(* A payload arrives as it was sent, and whole.                            *)
PayloadsArrive == PayloadsArriveAsSent /\ PayloadsArriveWhole

(* A Tx that has negotiated the second protocol writes its resets in it,   *)
(* which a receiver of release 1 does not read.  adapter_efa_probe.c says  *)
(* of a reset that it is always sent with version 1.0.                     *)
Stuck == Release1(sdk.Rx) /\ tx.handle # NoHandle /\ tx.handle.protocol.layout = 2

(* Whatever was lost or replaced, the two connect in the end, except with  *)
(* a release that is refused and in the case above.                        *)
Connects == <>[](Together \/ Refused(sdk.Rx) \/ Stuck)
=============================================================================
