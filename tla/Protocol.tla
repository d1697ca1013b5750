------------------------------ MODULE Protocol ------------------------------
(***************************************************************************)
(* The protocol versions of the SDK (protocol.c, protocol_v1.c,            *)
(* protocol_v2.c): how the version of the other side selects a protocol    *)
(* and what the headers of payload and of probe packets keep of what they  *)
(* are made from.                                                          *)
(*                                                                         *)
(* Bytes are abstracted: an encoded header is a record of the fields the   *)
(* packed structure has, with their widths, its layout and its size.  A    *)
(* header read with the other layout yields Garbage.                       *)
(***************************************************************************)
EXTENDS Integers

CONSTANTS
  None,     \* no data
  Garbage   \* what a header read with the wrong layout gives

Version(number, major, probe) ==
  [version_num |-> number, major_version_num |-> major, probe_version_num |-> probe]

Versions == [version_num : 0 .. 255, major_version_num : 0 .. 255,
             probe_version_num : 0 .. 255]

(* The version of this SDK.                                                *)
ThisSdk == Version(2, 3, 5)

-----------------------------------------------------------------------------
(* Negotiation.  own is the version of the SDK that calls, remote the one  *)
(* it has heard of.                                                        *)

(* ProtocolVersionSet1: SDK 1 knows no other protocol.                     *)
ProtocolVersionSet1(remote) ==
  [negotiated_version |-> remote, payload_num_max |-> 255, layout |-> 1]

(* ProtocolVersionSet2.  The test of the major version is the negation of  *)
(* "greater", so that an equal major version takes the probe version of    *)
(* the other side whatever it is, and the case after it is never reached.  *)
Older(own, remote) == remote.version_num < own.version_num

(* Mutant: the probe version of the other side is kept of older majors only. *)
OlderMajor(own, remote) ==
  /\ remote.version_num = own.version_num
  /\ remote.major_version_num < own.major_version_num

NotNewerMajor(own, remote) ==
  /\ remote.version_num = own.version_num
  /\ ~(remote.major_version_num > own.major_version_num)

Negotiate2(own, remote) ==
  CASE Older(own, remote) -> remote
    [] NotNewerMajor(own, remote) ->
         Version(own.version_num, remote.major_version_num, remote.probe_version_num)
    [] OTHER -> own

ProtocolVersionSet2(own, remote) ==
  [negotiated_version |-> Negotiate2(own, remote), payload_num_max |-> 65535,
   layout |-> 2]

(* ProtocolVersionSetInternal: the newest protocol that takes the version. *)
ProtocolVersionSet(own, remote) ==
  IF remote.version_num <= 1 THEN ProtocolVersionSet1(remote)
  ELSE ProtocolVersionSet2(own, remote)

(* ProtocolVersionSetLegacy: what is sent to a side nothing is known of.   *)
ProtocolVersionSetLegacy(own) ==
  ProtocolVersionSet1(Version(1, 0, own.probe_version_num))

Negotiated(own, remote) == ProtocolVersionSet(own, remote).negotiated_version

-----------------------------------------------------------------------------
(* Headers of payload packets.  p is the state of the packet that is sent  *)
(* (CdiPayloadPacketState); p.info stands for what the first packet tells  *)
(* of its payload: size, latency, time stamp, user data and extra data, of *)
(* p.extra bytes.                                                          *)
Low(bits, n) == n % (2 ^ bits)

First(p) == Low(16, p.packet_sequence_num) = 0
HasOffset(p) == ~First(p) /\ p.payload_type = "DataOffset"

(* The sizes of the packed structures.                                     *)
HeaderSize1(p) == IF First(p) THEN 34 + p.extra ELSE IF HasOffset(p) THEN 8 ELSE 4
HeaderSize2(p) == IF First(p) THEN 47 + p.extra ELSE IF HasOffset(p) THEN 13 ELSE 9

HeaderInit1(p) ==
  [layout |-> 1, size |-> HeaderSize1(p), payload_type |-> p.payload_type,
   packet_sequence_num |-> Low(16, p.packet_sequence_num),
   payload_num |-> Low(8, p.payload_num),
   info |-> IF First(p) THEN p.info ELSE None,
   offset |-> IF HasOffset(p) THEN p.offset ELSE None]

(* The second version also tells the number of the packet on its           *)
(* connection and, of a payload, when it was sent.                         *)
HeaderInit2(p) ==
  [layout |-> 2, size |-> HeaderSize2(p), payload_type |-> p.payload_type,
   packet_sequence_num |-> Low(16, p.packet_sequence_num),
   payload_num |-> Low(16, p.payload_num),
   packet_id |-> p.packet_id,
   info |-> IF First(p) THEN p.info ELSE None,
   start |-> IF First(p) THEN p.start ELSE None,
   offset |-> IF HasOffset(p) THEN p.offset ELSE None]

HeaderInit(handle, p) == IF handle.layout = 1 THEN HeaderInit1(p) ELSE HeaderInit2(p)

(* What the receiver gets out of a header.                                 *)
HeaderDecode1(h) ==
  IF h.layout # 1 THEN Garbage
  ELSE [payload_type |-> h.payload_type, payload_num |-> h.payload_num,
        packet_sequence_num |-> h.packet_sequence_num, size |-> h.size,
        info |-> IF h.packet_sequence_num = 0 THEN h.info ELSE None,
        offset |-> IF h.packet_sequence_num # 0 /\ h.payload_type = "DataOffset"
                   THEN h.offset ELSE None]

HeaderDecode2(h) ==
  IF h.layout # 2 THEN Garbage
  ELSE [payload_type |-> h.payload_type, payload_num |-> h.payload_num,
        packet_sequence_num |-> h.packet_sequence_num, size |-> h.size,
        info |-> IF h.packet_sequence_num = 0 THEN h.info ELSE None,
        start |-> IF h.packet_sequence_num = 0 THEN h.start ELSE None,
        packet_id |-> h.packet_id,
        offset |-> IF h.packet_sequence_num # 0 /\ h.payload_type = "DataOffset"
                   THEN h.offset ELSE None]

HeaderDecode(handle, h) ==
  IF handle.layout = 1 THEN HeaderDecode1(h) ELSE HeaderDecode2(h)

(* What the reordering of packets needs, of a header that is not decoded.  *)
RxReorderInfo(handle, h) ==
  IF handle.layout # h.layout THEN Garbage
  ELSE [payload_num |-> h.payload_num, packet_sequence_num |-> h.packet_sequence_num]

-----------------------------------------------------------------------------
(* Headers of probe packets.  A message m has a command, a number, whether *)
(* it asks for an acknowledgement and, if it is one, of what.  The         *)
(* addresses and names a header also has are the same in both layouts.     *)
CommandKinds == {"Reset", "Ping", "Connected", "Ack", "ProtocolVersion"}

ProbeSize1(m) == IF m.command = "Ack" THEN 257 ELSE 252
ProbeSize2(m) == IF m.command = "Ack" THEN 253 ELSE 248

ProbeHeaderEncode1(version, m) ==
  [layout |-> 1, senders_version |-> version, size |-> ProbeSize1(m),
   intact |-> TRUE, command |-> m.command,
   control_packet_num |-> Low(16, m.control_packet_num),
   requires_ack |-> IF m.command = "Ack" THEN FALSE ELSE m.requires_ack,
   ack |-> IF m.command = "Ack" THEN m.ack ELSE None]

ProbeHeaderEncode2(version, m) ==
  [ProbeHeaderEncode1(version, m) EXCEPT !.layout = 2, !.size = ProbeSize2(m)]

ProtocolProbeHeaderEncode(handle, m) ==
  IF handle.layout = 1 THEN ProbeHeaderEncode1(handle.negotiated_version, m)
  ELSE ProbeHeaderEncode2(handle.negotiated_version, m)

(* A header is read as the version it carries says; a command that is not  *)
(* known is only logged, and passes for a good one.                        *)
Complete(h) == /\ h.size >= (IF h.layout = 1 THEN 251 ELSE 247)
               /\ h.command \in CommandKinds =>
                    h.size = IF h.layout = 1 THEN ProbeSize1(h) ELSE ProbeSize2(h)

Content(h) == [senders_version |-> h.senders_version, command |-> h.command,
               control_packet_num |-> h.control_packet_num,
               requires_ack |-> h.requires_ack, ack |-> h.ack]

ProbeHeaderDecode1(h) ==
  IF h.layout # 1 \/ ~Complete(h) \/ ~h.intact THEN Garbage ELSE Content(h)
ProbeHeaderDecode2(h) ==
  IF h.layout # 2 \/ ~Complete(h) \/ ~h.intact THEN Garbage ELSE Content(h)

(* SDK 2.0.0 is not talked to.                                             *)
Refused(version) == version = Version(2, 0, 0)

ProtocolProbeHeaderDecode(own, h) ==
  CASE h.size < 3 -> Garbage
    [] Refused(h.senders_version) -> Garbage
    [] OTHER -> IF ProtocolVersionSet(own, h.senders_version).layout = 1
                THEN ProbeHeaderDecode1(h) ELSE ProbeHeaderDecode2(h)
=============================================================================
