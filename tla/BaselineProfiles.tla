-------------------------- MODULE BaselineProfiles --------------------------
(***************************************************************************)
(* What the baseline profiles 01.00 and 02.00 make of a configuration and  *)
(* read out of one (src/cdi/baseline_profiles_1_00.c, ..._2_00.c).  The    *)
(* text between sender and receiver is a sequence of parameters; a value   *)
(* is a tuple, <<>> if the "=" is missing: a name, a number, or the        *)
(* numbers of "60000/1001", "12:11" or "720x486+0+16".                     *)
(*                                                                         *)
(* Names are compared without regard to case, so a table has them in one   *)
(* spelling; Linear and LINEAR are the same name.                          *)
(***************************************************************************)
EXTENDS Integers, Sequences, SequencesExt

NoEnum == "CDI_INVALID_ENUM_VALUE"

Same(names) == [e \in names |-> e]
TcsNames == {"SDR", "PQ", "HLG", "Linear", "BT2100LINPQ", "BT2100LINHLG",
             "ST2065-1", "ST428-1", "Density"}
ColorimetryNames == {"BT601", "BT709", "BT2020", "BT2100", "ST2065-1", "ST2065-3", "XYZ"}
GroupingNames == {"M", "DM", "ST", "LtRt", "51", "71", "222", "SGRP"}

(* The tables between enumerators and names, KeyGetArray of each release.  *)
KeyArrays_1_00 ==
  [sampling |-> Same({"YCbCr444", "YCbCr422", "RGB"}),
   tcs |-> Same(TcsNames), range |-> Same({"Narrow", "FullProtect", "Full"}),
   colorimetry |-> Same(ColorimetryNames),
   grouping |-> Same(GroupingNames), sample_rate |-> Same({"48kHz", "96kHz"})]
KeyArrays_2_00 ==
  [KeyArrays_1_00 EXCEPT
     !.sampling = [e \in DOMAIN @ |-> CASE e = "YCbCr444" -> "YCbCr-4:4:4"
                                       [] e = "YCbCr422" -> "YCbCr-4:2:2"
                                       [] OTHER -> e],
     !.grouping = [e \in DOMAIN @ |-> "SMPTE2110.(" \o e \o ")"]]

(* CdiUtilityStringToEnumValue.                                            *)
StringToEnum(array, name) ==
  IF \E e \in DOMAIN array : array[e] = name
  THEN CHOOSE e \in DOMAIN array : array[e] = name ELSE NoEnum

Param(name, value) == <<[name |-> name, value |-> value]>>
Optional(condition, param) == IF condition THEN param ELSE <<>>
VersionParam(c, v) == Param("cdi_profile_version", <<v.major, v.minor>>)

(***************************************************************************)
(* Unit sizes in bits.                                                     *)
(***************************************************************************)
GetVideoUnitSize(c) ==
  CASE c.depth = 8  -> IF c.sampling = "YCbCr422" THEN 32 ELSE 24
    [] c.depth = 10 -> IF c.sampling = "YCbCr422" THEN 40 ELSE 120
    [] c.depth = 12 -> IF c.sampling = "YCbCr422" THEN 48 ELSE 72
ChannelCount(grouping) ==
  CASE grouping = "M" -> 1 [] grouping \in {"DM", "ST", "LtRt"} -> 2
    [] grouping = "51" -> 6 [] grouping = "71" -> 8
    [] grouping = "222" -> 24 [] grouping = "SGRP" -> 4
GetAudioUnitSize(c) == 8 * 3 * ChannelCount(c.grouping)
GetAncillaryDataUnitSize(c) == 8 * 4
GetBaselineUnitSize(c) ==
  CASE c.payload_type = "Video" -> GetVideoUnitSize(c)
    [] c.payload_type = "Audio" -> GetAudioUnitSize(c)
    [] c.payload_type = "Ancillary" -> GetAncillaryDataUnitSize(c)
GetBaselineUnitSize_2_00(c) == GetBaselineUnitSize(c)
GetBaselineUnitSize2(v, c) ==
  IF v.major = 2 THEN GetBaselineUnitSize_2_00(c) ELSE GetBaselineUnitSize(c)

(***************************************************************************)
(* Making the text.  Video: what is at its default is left out.            *)
(***************************************************************************)
CreateOptionalParams(keys, c) ==
  Optional(c.interlace, Param("interlace", <<>>))
  \o Optional(c.segmented, Param("segmented", <<>>))
  \o Optional(c.tcs # "SDR", Param("TCS", <<keys.tcs[c.tcs]>>))
  \o Optional(c.range # "Narrow", Param("RANGE", <<keys.range[c.range]>>))
  \o Optional(c.par # <<1, 1>>, Param("PAR", c.par))
  \o Optional(c.alpha_channel, Param("alpha_included", <<"enabled">>))
  \o Optional(c.partial_frame # <<0, 0, 0, 0>>, Param("partial_frame", c.partial_frame))

\* Mutant: a whole number of frames in 1001 seconds loses its denominator.
NumeratorOnly(c) == <<c.frame_rate[1]>>
RateValue(c) == IF c.frame_rate[2] = 1 THEN <<c.frame_rate[1]>> ELSE c.frame_rate
VideoText(keys, c, v) ==
  VersionParam(c, v) \o Param("sampling", <<keys.sampling[c.sampling]>>)
  \o Param("depth", <<c.depth>>) \o Param("width", <<c.width>>)
  \o Param("height", <<c.height>>) \o Param("exactframerate", RateValue(c))
  \o Param("colorimetry", <<keys.colorimetry[c.colorimetry]>>)
  \o CreateOptionalParams(keys, c)

(* The text, or the empty one when the configuration is refused.           *)
MakeVideo_1_00(c, v) ==
  IF 0 \in {c.par[1], c.par[2]} THEN <<>> ELSE VideoText(KeyArrays_1_00, c, v)
MakeVideo_2_00(c, v) == VideoText(KeyArrays_2_00, c, v)

AudioText(keys, c, v) ==
  VersionParam(c, v) \o Param("order", <<keys.grouping[c.grouping]>>)
  \o Param("rate", <<keys.sample_rate[c.sample_rate]>>)
  \o Optional(c.language # <<>>, Param("language", c.language))
MakeAudio_1_00(c, v) == AudioText(KeyArrays_1_00, c, v)
MakeAudio_2_00(c, v) == AudioText(KeyArrays_2_00, c, v)

MakeAncillaryData_1_00(c, v) == VersionParam(c, v)
MakeAncillaryData_2_00(c, v) == VersionParam(c, v)

(***************************************************************************)
(* Reading the text, one parameter after the other until one is bad.  A    *)
(* parameter nobody knows is passed over.                                  *)
(***************************************************************************)
Bad(st) == [st EXCEPT !.ok = FALSE]
Set(st, field, value) == [st EXCEPT !.config = [@ EXCEPT ![field] = value]]
SetEnum(st, field, array, p) ==
  LET e == IF p.value = <<>> THEN NoEnum ELSE StringToEnum(array, p.value[1])
  IN  IF e = NoEnum THEN Bad(st) ELSE Set(st, field, e)
SetNumber(st, field, p) ==
  IF p.value = <<>> THEN Bad(st) ELSE Set(st, field, p.value[1])

ReadRequired(keys, st, p) ==
  CASE p.name = "sampling" -> SetEnum(st, "sampling", keys.sampling, p)
    [] p.name = "depth" -> IF p.value \in {<<8>>, <<10>>, <<12>>}
                           THEN SetNumber(st, "depth", p) ELSE Bad(st)
    [] p.name \in {"width", "height"} -> SetNumber(st, p.name, p)
    [] p.name = "exactframerate" ->
         CASE Len(p.value) = 0 -> Bad(st)
           [] Len(p.value) = 1 -> Set(st, "frame_rate", Append(p.value, 1))
           [] OTHER -> Set(st, "frame_rate", p.value)
    [] p.name = "colorimetry" -> SetEnum(st, "colorimetry", keys.colorimetry, p)

ReadOptional(keys, st, p) ==
  CASE p.name \in {"interlace", "segmented"} ->
         IF p.value = <<>> THEN Set(st, p.name, TRUE) ELSE st
    [] p.name = "TCS" -> SetEnum(st, "tcs", keys.tcs, p)
    [] p.name = "RANGE" -> SetEnum(st, "range", keys.range, p)
    [] p.name = "PAR" ->
         CASE Len(p.value) = 0 -> Bad(st)
           [] Len(p.value) = 1 -> Set(st, "par", <<p.value[1], st.config.par[2]>>)
           [] OTHER -> Set(st, "par", p.value)
    [] p.name = "alpha_included" ->
         CASE p.value = <<>> -> Bad(st)
           [] p.value = <<"enabled">> -> Set(st, "alpha_channel", TRUE)
           [] OTHER -> st
    [] p.name = "partial_frame" ->
         IF Len(p.value) = 4 THEN Set(st, "partial_frame", p.value) ELSE Bad(st)

Required == {"sampling", "depth", "width", "height", "exactframerate", "colorimetry"}
OptionalNames == {"interlace", "segmented", "TCS", "RANGE", "PAR", "alpha_included",
                  "partial_frame"}
ReadVideoParam(keys, st, p) ==
  CASE ~st.ok -> st
    [] st.ok /\ p.name \in Required -> ReadRequired(keys, st, p)
    [] st.ok /\ p.name \in OptionalNames -> ReadOptional(keys, st, p)
    [] OTHER -> st
ReadAudioParam(keys, st, p) ==
  CASE ~st.ok -> st
    [] st.ok /\ p.name = "order" -> SetEnum(st, "grouping", keys.grouping, p)
    [] st.ok /\ p.name = "rate" -> SetEnum(st, "sample_rate", keys.sample_rate, p)
    [] st.ok /\ p.name = "language" ->
         IF Len(p.value) \in 1 .. 3 THEN Set(st, "language", p.value) ELSE Bad(st)
    [] OTHER -> st

(* The structure after memset, with the defaults that are not zero.        *)
Cleared(m, v) ==
  CASE m = "Video" ->
         [payload_type |-> m, version |-> v, width |-> 0, height |-> 0,
          sampling |-> "YCbCr444", alpha_channel |-> FALSE, depth |-> 8,
          frame_rate |-> <<0, 0>>, colorimetry |-> "BT601", interlace |-> FALSE,
          segmented |-> FALSE, tcs |-> "SDR", range |-> "Narrow",
          par |-> <<1, 1>>, partial_frame |-> <<0, 0, 0, 0>>]
    [] m = "Audio" ->
         [payload_type |-> m, version |-> v, grouping |-> "M",
          sample_rate |-> "48kHz", language |-> <<>>]
    [] m = "Ancillary" -> [payload_type |-> m, version |-> v]

Untouched(m, v) == [ok |-> TRUE, config |-> Cleared(m, v)]
ParseVideo_1_00(v, text) ==
  FoldLeft(LAMBDA st, p : ReadVideoParam(KeyArrays_1_00, st, p), Untouched("Video", v), text)
ParseVideo_2_00(v, text) ==
  FoldLeft(LAMBDA st, p : ReadVideoParam(KeyArrays_2_00, st, p), Untouched("Video", v), text)
ParseAudio_1_00(v, text) ==
  FoldLeft(LAMBDA st, p : ReadAudioParam(KeyArrays_1_00, st, p), Untouched("Audio", v), text)
ParseAudio_2_00(v, text) ==
  FoldLeft(LAMBDA st, p : ReadAudioParam(KeyArrays_2_00, st, p), Untouched("Audio", v), text)
ParseAncillaryData_1_00(v, text) == [ok |-> TRUE, config |-> Cleared("Ancillary", v)]
ParseAncillaryData_2_00(v, text) == ParseAncillaryData_1_00(v, text)

(* The functions a release registers for a type, picked by the profile     *)
(* that was found.  A profile of the application has functions of its own, *)
(* here those of a format with nothing but a version.                      *)
Make(v, c) ==
  CASE v.major = 1 /\ c.payload_type = "Video" -> MakeVideo_1_00(c, v)
    [] v.major = 2 /\ c.payload_type = "Video" -> MakeVideo_2_00(c, v)
    [] v.major = 1 /\ c.payload_type = "Audio" -> MakeAudio_1_00(c, v)
    [] v.major = 2 /\ c.payload_type = "Audio" -> MakeAudio_2_00(c, v)
    [] v.major = 1 /\ c.payload_type = "Ancillary" -> MakeAncillaryData_1_00(c, v)
    [] OTHER -> MakeAncillaryData_2_00(c, v)
Parse(v, m, text) ==
  CASE v.major = 1 /\ m = "Video" -> ParseVideo_1_00(v, text)
    [] v.major = 2 /\ m = "Video" -> ParseVideo_2_00(v, text)
    [] v.major = 1 /\ m = "Audio" -> ParseAudio_1_00(v, text)
    [] v.major = 2 /\ m = "Audio" -> ParseAudio_2_00(v, text)
    [] v.major = 1 /\ m = "Ancillary" -> ParseAncillaryData_1_00(v, text)
    [] OTHER -> ParseAncillaryData_2_00(v, text)
=============================================================================
