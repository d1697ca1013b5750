-------------------------------- MODULE Avm ---------------------------------
(***************************************************************************)
(* Audio, video and metadata payloads: a sender describes its payload with *)
(* a baseline configuration, a receiver reads the description and the      *)
(* payload.  Both ends, and an application thread that registers profiles  *)
(* of its own, are threads of one program and share the table of profiles  *)
(* (src/cdi/cdi_avm_api.c, baseline_profile.c, internal_rx.c).             *)
(*                                                                         *)
(* A make of a configuration looks for its profile again for every name it *)
(* writes; by then the table is filled, and the answer is the same.        *)
(***************************************************************************)
EXTENDS ProfileRegistry, BaselineProfiles, Ancillary

CONSTANTS
  Sender, Receiver, App,  \* the threads
  Configs,                \* the baseline configurations the sender makes
  AppVersions,            \* versions of ancillary profiles the application registers
  PacketLists,            \* the ancillary packets a payload may have, a sequence
  ForeignPayloads,        \* payloads of other senders
  MaxPayloads             \* bound: payloads sent

ASSUME Thread = {Sender, Receiver, App} /\ Len(PacketLists) > 0

None == "none"

VARIABLES
  making,    \* the baseline configuration under way, <<>> or <<c>>
  config,    \* what the sender has: <<>> or <<[uri, text, unit_size, of]>>
  channel,   \* the payload under way, <<>> or <<payload>>
  received,  \* what the receiver made of it, <<>> or <<outcome>>
  packets,   \* what the sender has to send, one of PacketLists
  payloads   \* counts the payloads, up to MaxPayloads
sending == <<making, config, channel, received, packets, payloads>>
vars == <<registry, sending>>

Init ==
  /\ RegistryInit
  /\ making = <<>> /\ config = <<>> /\ channel = <<>> /\ received = <<>>
  /\ packets \in Range(PacketLists) /\ payloads = 0

(***************************************************************************)
(* The sender: CdiAvmMakeBaselineConfiguration2, and the payload with the  *)
(* configuration or without.                                               *)
(***************************************************************************)
MakeCall(c) ==
  /\ making = <<>> /\ config = <<>> /\ payloads = 0
  /\ FindCall(Sender, c.payload_type, c.version)
  /\ making' = <<c>>
  /\ UNCHANGED <<config, channel, received, packets, payloads>>

MakeReturn ==
  /\ making # <<>> /\ TakeResult(Sender)
  /\ LET c == making[1]
         v == call[Sender].result
         text == IF v = NoVersion THEN <<>> ELSE Make(v, c)
     IN  config' = IF text = <<>> THEN <<>>  \* kCdiStatusFatal
                   ELSE <<[uri |-> c.payload_type, text |-> text,
                           unit_size |-> GetBaselineUnitSize2(v, c), of |-> c]>>
  /\ making' = <<>>
  /\ UNCHANGED <<channel, received, packets, payloads>>

(* CdiAvmEndpointTxPayload.  The buffer has room for the packets, or a     *)
(* word less; list entries are the pieces the receiver gets it in.         *)
Payload(extra, conf, sent, words) ==
  [extra |-> extra, config |-> conf, sent |-> sent, words |-> words,
   tail |-> 0, inside |-> TRUE, damage |-> <<>>]
(* A word behind the end of the buffer is sent as it was written, or as it *)
(* was left by the owner of that memory.                                   *)
Contents(made) ==
  {made.words} \cup (IF made.inside THEN {} ELSE {<<[bit \in 1 .. 32 |-> b]>> : b \in {0, 1}})
TxPayload(with_config, short) ==
  /\ At(Sender, "idle") /\ making = <<>> /\ channel = <<>>
  /\ payloads < MaxPayloads
  /\ with_config => config # <<>>
  /\ LET made == Packetize(packets, 2, GetAncillaryDataPayloadSize(packets) - short)
     IN  \E words \in Contents(made) :
           channel' = IF made.rs # "Ok" THEN <<>>
                      ELSE <<[Payload(IF with_config THEN "with_config" ELSE "no_config",
                                      IF with_config THEN config ELSE <<>>,
                                      <<packets>>, words) EXCEPT !.inside = made.inside]>>
  /\ payloads' = payloads + 1
  /\ UNCHANGED <<registry, making, config, received, packets>>

ForeignTxPayload(payload) ==
  /\ channel = <<>> /\ payloads < MaxPayloads
  /\ channel' = <<payload>>
  /\ payloads' = payloads + 1
  /\ UNCHANGED <<registry, making, config, received, packets>>

(* One bit of the payload changes on its way; the flags for the receiver's *)
(* callback are there for this.                                            *)
Damage ==
  /\ channel # <<>> /\ channel[1].damage = <<>>
  /\ \E i \in DOMAIN channel[1].words, bit \in 1 .. 32 :
       channel' = [channel EXCEPT ![1].words[i][bit] = 1 - @, ![1].damage = <<i, bit>>]
  /\ UNCHANGED <<registry, making, config, received, packets, payloads>>

(***************************************************************************)
(* The receiver: the callback, CdiAvmParseBaselineConfiguration2 for a     *)
(* payload with a configuration, and CdiAvmUnpacketizeAncillaryData.       *)
(***************************************************************************)
(* InvokeAvmPayloadCallback: extra data of another size is no config.      *)
CallbackStatus(payload) ==
  IF payload.extra = None THEN "RxWrongProtocolType" ELSE "Ok"
CallbackConfig(payload) ==
  IF payload.extra = "with_config" THEN payload.config ELSE <<>>

(* The version 'xx.xx;' of the text, <<>> if there is none.                *)
Uris == {"Video", "Audio", "Ancillary"}
TextVersion(text) ==
  LET found == SelectSeq(text, LAMBDA p : p.name = "cdi_profile_version")
  IN  IF found = <<>> \/ Len(found[1].value) # 2 THEN <<>>
      ELSE <<[major |-> found[1].value[1], minor |-> found[1].value[2]]>>
Described(payload) ==
  LET conf == CallbackConfig(payload)
  IN  conf # <<>> /\ conf[1].uri \in Uris /\ TextVersion(conf[1].text) # <<>>

Outcome(payload, rs, structure, linear) ==
  LET size == 4 * Len(payload.words) + payload.tail
      read == CallbackStatus(payload) = "Ok"
  IN  <<[payload |-> payload, callback |-> CallbackStatus(payload), rs |-> rs,
         config |-> structure,
         data |-> IF read THEN <<Unpacketize(payload.words, size, linear)>> ELSE <<>>]>>

(* No configuration, or one that is refused before a profile is looked for.*)
RxPlain(linear) ==
  /\ At(Receiver, "idle") /\ channel # <<>> /\ ~Described(channel[1])
  /\ received' = Outcome(channel[1],
       IF CallbackConfig(channel[1]) = <<>> THEN "none" ELSE "NonFatal", <<>>, linear)
  /\ channel' = <<>>
  /\ UNCHANGED <<registry, making, config, packets, payloads>>

RxParse ==
  /\ channel # <<>> /\ Described(channel[1])
  /\ FindCall(Receiver, channel[1].config[1].uri, TextVersion(channel[1].config[1].text)[1])
  /\ UNCHANGED sending

RxParsed(linear) ==
  /\ TakeResult(Receiver)
  /\ LET payload == channel[1]
         conf == payload.config[1]
         version == TextVersion(conf.text)[1]
         parsed == Parse(version, conf.uri, conf.text)
     IN  received' =
           IF call[Receiver].result = NoVersion
           THEN Outcome(payload, "ProfileNotSupported", <<>>, linear)
           ELSE Outcome(payload, IF parsed.ok THEN "Ok" ELSE "NonFatal",
                        <<parsed.config>>, linear)
  /\ channel' = <<>>
  /\ UNCHANGED <<making, config, packets, payloads>>

(***************************************************************************)
(* The application: profiles of its own, and looking up a profile, for a   *)
(* unit size or a name.                                                    *)
(***************************************************************************)
AppRegisters(v) ==
  /\ RegisterCall(App, "Ancillary", v)
  /\ UNCHANGED sending
AppLooksUp(v) ==
  /\ FindCall(App, "Ancillary", v)
  /\ UNCHANGED sending
AppIsAnswered ==
  /\ TakeResult(App)
  /\ UNCHANGED sending

LookUp ==
  /\ \E t \in Thread : RegistryStep(t)
  /\ UNCHANGED sending

Next ==
  \/ \E c \in Configs : MakeCall(c)
  \/ MakeReturn
  \/ \E with_config \in BOOLEAN, short \in {0, 4} : TxPayload(with_config, short)
  \/ \E payload \in ForeignPayloads : ForeignTxPayload(payload)
  \/ Damage
  \/ \E linear \in BOOLEAN : RxPlain(linear) \/ RxParsed(linear)
  \/ RxParse
  \/ \E v \in AppVersions : AppRegisters(v) \/ AppLooksUp(v)
  \/ AppIsAnswered
  \/ LookUp
Spec == Init /\ [][Next]_vars

-----------------------------------------------------------------------------
(* A configuration that the sender made is read by the receiver as it was, *)
(* with the version the 0.0 stands for, and has the same unit size there;  *)
(* it is there exactly when it was sent (cdi_avm_api.c:119,                *)
(* internal_rx.c:154).                                                     *)
Meant(c) == [c EXCEPT !.version = IF @ = Zero THEN V1 ELSE @]
Own(outcome) == outcome.payload.sent # <<>>
ConfigurationArrives ==
  received # <<>> /\ Own(received[1]) /\ ~raced =>
    LET conf == received[1].payload.config
    IN  IF conf = <<>> THEN received[1].rs = "none"
        ELSE /\ received[1].rs = "Ok"
             /\ received[1].config = <<Meant(conf[1].of)>>
             /\ GetBaselineUnitSize2(received[1].config[1].version, received[1].config[1])
                  = conf[1].unit_size

(* Packets that were not damaged, from a buffer that had room for them,    *)
(* are handed to the callback as they were packetized, without an error    *)
(* flag, and lie one behind the other after a header of one word: the size *)
(* that is computed is the size that is written                            *)
(* (CdiAvmPacketizeAncillaryData and CdiAvmUnpacketizeAncillaryData).      *)
Whole(outcome) ==
  /\ Own(outcome) /\ outcome.payload.damage = <<>> /\ outcome.payload.inside
  /\ outcome.data[1].rs # "AllocationFailed"
Clean(p) == ~p.parity_error /\ ~p.checksum_error
PacketsArrive ==
  received # <<>> /\ Whole(received[1]) =>
    LET data == received[1].data[1]
        sent == received[1].payload.sent[1]
        End(i) == IF i = 0 THEN 4 ELSE data.packets[i].packet_offset + data.packets[i].packet_size
    IN  /\ data.rs = "Ok" /\ Len(data.packets) = Len(sent)
        /\ \A i \in DOMAIN sent :
             /\ data.packets[i].packet = sent[i] /\ Clean(data.packets[i])
             /\ data.packets[i].packet_offset = End(i - 1)
        /\ End(Len(sent)) = 4 * Len(received[1].payload.words)
        /\ Clean(data.last[1]) /\ data.last[1].field_kind = 2

(* One changed bit of the count of packets, of an identifier, a data       *)
(* count, a user data word or a checksum is reported                       *)
(* (kCdiStatusRxPayloadError, kCdiStatusInvalidPayload).                   *)
Protected(sent, damage) ==
  LET StartOf(i) == GetAncillaryDataPayloadSize(SubSeq(sent, 1, i - 1)) \div 4
      place == 32 * (damage[1] - 1) + damage[2] - 1
  IN  \/ place < 16
      \/ \E i \in DOMAIN sent :
           place - 32 * StartOf(i) \in 32 .. 71 + 10 * DataCount(sent[i])
CorruptionIsReported ==
  received # <<>> /\ Own(received[1]) /\ received[1].payload.damage # <<>> =>
    (Protected(received[1].payload.sent[1], received[1].payload.damage)
       => received[1].data[1].rs # "Ok")

(* CdiAvmPacketizeAncillaryData aborts "when it would grow larger than the *)
(* buffer size" (cdi_avm_payloads_api.c:187): what is sent was written in  *)
(* the buffer.  Not so for a list of no packets.                           *)
StaysInBuffer == \A i \in DOMAIN channel : channel[i].inside
=============================================================================
