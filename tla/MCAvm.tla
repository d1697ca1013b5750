------------------------------- MODULE MCAvm --------------------------------
(* Every value of every field of a video and an audio configuration, one   *)
(* field at a time, in three versions, and lists of ancillary packets      *)
(* whose words go through all layouts.                                     *)
EXTENDS Avm

CONSTANTS sender, receiver, app
MCThread == {sender, receiver, app}

V3 == [major |-> 3, minor |-> 0]
V9 == [major |-> 9, minor |-> 99]
MCAppVersions == {V1, V3}

PlainVideo ==
  [payload_type |-> "Video", version |-> V1, width |-> 1920, height |-> 1080,
   sampling |-> "YCbCr422", alpha_channel |-> FALSE, depth |-> 10,
   frame_rate |-> <<60, 1>>, colorimetry |-> "BT709", interlace |-> FALSE,
   segmented |-> FALSE, tcs |-> "SDR", range |-> "Narrow", par |-> <<1, 1>>,
   partial_frame |-> <<0, 0, 0, 0>>]
PlainAudio ==
  [payload_type |-> "Audio", version |-> V1, grouping |-> "ST",
   sample_rate |-> "48kHz", language |-> <<>>]
With(c, field, values) == {[c EXCEPT ![field] = v] : v \in values}
Videos ==
  With(PlainVideo, "sampling", {"YCbCr444", "YCbCr422", "RGB"})
  \cup With(PlainVideo, "alpha_channel", {TRUE})
  \cup With(PlainVideo, "depth", {8, 12})
  \cup With(PlainVideo, "frame_rate", {<<60000, 1001>>})
  \cup With(PlainVideo, "colorimetry", ColorimetryNames)
  \cup With(PlainVideo, "interlace", {TRUE}) \cup With(PlainVideo, "segmented", {TRUE})
  \cup With(PlainVideo, "tcs", TcsNames) \cup With(PlainVideo, "range", {"FullProtect", "Full"})
  \cup With(PlainVideo, "par", {<<12, 11>>, <<0, 1>>})
  \cup With(PlainVideo, "partial_frame", {<<720, 486, 0, 16>>})
Audios ==
  With(PlainAudio, "grouping", GroupingNames) \cup With(PlainAudio, "sample_rate", {"96kHz"})
  \cup With(PlainAudio, "language", {<<"e">>, <<"e", "n">>, <<"e", "n", "g">>})
AncillaryData == [payload_type |-> "Ancillary", version |-> V1]
MCConfigs ==
  UNION {With(c, "version", {V1, V2}) : c \in Videos \cup Audios}
  \cup With(PlainVideo, "version", {Zero, V9})
  \cup With(AncillaryData, "version", {Zero, V1, V2, V3})

(* Packets with n words of user data; different headers.                   *)
AncPacket(n) ==
  [where |-> <<n % 2, 100 + n, 4095 - n, 1, 127 - n>>, did |-> 96 + n, sdid |-> n,
   user_data |-> [i \in 1 .. n |-> (77 * i + n) % 256]]
MCPacketLists ==
  <<<<>>>> \o [n \in 1 .. 19 |-> <<AncPacket(n - 1)>>]
  \o <<<<AncPacket(0), AncPacket(3), AncPacket(2)>>, <<AncPacket(16), AncPacket(0)>>>>

(* Payloads of a receiver's other peers: no extra data, the extra data of  *)
(* release 1, a format that is no baseline, texts without a good version,  *)
(* a profile nobody has, bad values, and a payload that is cut short.      *)
Foreign(extra, uri, text) ==
  [Payload(extra, IF uri = None THEN <<>> ELSE <<[uri |-> uri, text |-> text]>>, <<>>,
           <<Pack(PayloadRawHeader, <<0, 0, 0>>)>>) EXCEPT !.tail = 2]
At9 == VersionParam(PlainVideo, V9)
At2 == VersionParam(PlainVideo, V2)
MCForeignPayloads ==
  {Foreign(None, None, <<>>), Foreign("sdk_1", None, <<>>),
   Foreign("with_config", "metadata", At2), Foreign("with_config", "Video", <<>>),
   Foreign("with_config", "Video", Param("cdi_profile_version", <<2>>)),
   Foreign("with_config", "Audio", At9),
   Foreign("with_config", "Video", At2 \o Param("depth", <<9>>)),
   Foreign("with_config", "Video", At2 \o Param("PAR", <<2>>)),
   Foreign("with_config", "Audio", At2 \o Param("unheard_of", <<1>>)),
   Foreign("with_config", "Audio", At2 \o Param("order", <<"51">>))}

(* The threads meet over a few configurations; all others, damage, and the *)
(* lists of packets but the first come when the application is quiet, and  *)
(* it makes no further calls once the payload has arrived.                 *)
Shared == {PlainVideo} \cup With(AncillaryData, "version", {Zero, V2, V3})
Quiet == call[App] = Idle /\ ~raced
         /\ baseline_profile_array["Ancillary"] \in {<<>>, <<V1, V2>>}
Of(conf) == {conf[i].of : i \in DOMAIN conf}
MadeNow == {making[i] : i \in DOMAIN making} \cup Of(config)
Payloads == {channel[i] : i \in DOMAIN channel}
            \cup {received[i].payload : i \in DOMAIN received}
OneThingAtATime ==
  /\ received # <<>> => call[App] = Idle
  /\ MadeNow \subseteq Shared \/ Quiet
  /\ packets # <<>> => Quiet /\ ~initialized /\ making = <<>>
  /\ \A p \in Payloads :
       /\ p.damage # <<>> => Quiet /\ ~initialized /\ making = <<>>
       /\ p.sent = <<>> => Quiet /\ making = <<>> /\ config = <<>>
=============================================================================
