----------------------------- MODULE Ancillary ------------------------------
(***************************************************************************)
(* Ancillary data payloads: packets of 8-bit words written as 10-bit words *)
(* with parity bits and a checksum, one after the other through 32-bit     *)
(* words, and read back (src/cdi/anc_payloads.c and                        *)
(* cdi_avm_payloads_api.c).                                                *)
(*                                                                         *)
(* A 32-bit word is the sequence of its bits, the most significant first;  *)
(* a payload is a sequence of words.                                       *)
(***************************************************************************)
EXTENDS Integers, Sequences, SequencesExt, FiniteSets, FiniteSetsExt

MaxDataCount == 255

Bits(value, width) == [k \in 1 .. width |-> (value \div 2^(width - k)) % 2]
Number(bits) == FoldLeft(LAMBDA n, b : 2 * n + b, 0, bits)

(* The bit fields of a word, from the top.                                 *)
Pack(widths, values) ==
  FlattenSeq([i \in DOMAIN widths |-> Bits(values[i], widths[i])])
Unpack(widths, word) ==
  [i \in DOMAIN widths |->
     LET first == FoldLeft(+, 0, SubSeq(widths, 1, i - 1))
     IN  Number(SubSeq(word, first + 1, first + widths[i]))]

PayloadRawHeader == <<16, 2, 14>>      \* anc_count, f_bits, reserved
PacketRawHeader0 == <<1, 11, 12, 1, 7>>
PacketRawHeader1 == <<10, 10, 10, 2>>  \* did, sdid, data_count, udw0

(* The five layouts of a word of user data (AncillaryUdws0 to 4): the rest *)
(* of a user data word, two whole ones, and the top of a fourth.           *)
FirstBits(next_udw) ==
  CASE next_udw % 16 = 0 -> 8 [] next_udw % 16 = 3 -> 6 [] next_udw % 16 = 6 -> 4
    [] next_udw % 16 = 9 -> 2 [] next_udw % 16 = 13 -> 10
Udws(next_udw) ==
  LET first == FirstBits(next_udw) IN <<first, 10, 10, 12 - first>>
WholeWord(next_udw) == FirstBits(next_udw) = 2  \* the fourth is whole too
NotYet(next_udw) == 2^(FirstBits(next_udw) - 2) \* what of the fourth is left out

(* next_udw before the k-th word of user data, from 0; the words of a      *)
(* packet with data_count user data words, the checksum being one more.    *)
NextUdw(k) == 16 * (k \div 5) + <<0, 3, 6, 9, 13>>[(k % 5) + 1]
UdwWords(data_count) ==
  [i \in 1 .. Cardinality({k \in 0 .. data_count : NextUdw(k) <= data_count})
     |-> NextUdw(i - 1)]

(***************************************************************************)
(* Parity and checksum.                                                    *)
(***************************************************************************)
Parity8(value) == FoldLeft(+, 0, Bits(value, 8)) % 2
WithParityBits(value) ==
  LET parity == Parity8(value) IN (1 - parity) * 512 + parity * 256 + value

\* Mutant: b9 is not compared.
OneParityBit(raw_word) == (raw_word \div 256) % 2 # Parity8(raw_word % 256)
ParityError(raw_word) == raw_word # WithParityBits(raw_word % 256)

FinishChecksum(checksum) ==
  LET b8 == (checksum \div 256) % 2 IN (1 - b8) * 512 + (checksum % 512)

(***************************************************************************)
(* Writing.  A packet has its header fields and the bytes of its user      *)
(* data.                                                                   *)
(***************************************************************************)
DataCount(packet) == Len(packet.user_data)
GetAncillaryDataPacketSize(data_count) == (62 + 10 * data_count + 10 + 31) \div 32
GetAncillaryDataPayloadSize(packets) ==
  4 * FoldLeft(LAMBDA n, p : n + GetAncillaryDataPacketSize(DataCount(p)), 1, packets)

RawHeader(packet) ==
  <<WithParityBits(packet.did), WithParityBits(packet.sdid),
    WithParityBits(DataCount(packet))>>
HeaderChecksum(packet) == FoldLeft(+, 0, RawHeader(packet))

Udw0(packet) ==
  IF packet.user_data = <<>> THEN FinishChecksum(HeaderChecksum(packet))
  ELSE WithParityBits(packet.user_data[1])
PacketHeader(packet) ==
  <<Pack(PacketRawHeader0, packet.where),
    Pack(PacketRawHeader1, RawHeader(packet) \o <<Udw0(packet) \div 256>>)>>

(* ChecksumUdw: the value of the next user data word, and the running      *)
(* checksum, which follows the last of them.                               *)
NextValue(st, udw, packet) ==
  CASE udw < DataCount(packet) -> WithParityBits(packet.user_data[udw + 1])
    [] udw = DataCount(packet) -> FinishChecksum(st.checksum)
    [] OTHER -> 0
Summed(st, udw, add_cs, packet) ==
  LET value == NextValue(st, udw, packet)
  IN  [value |-> value,
       checksum |-> CASE udw < DataCount(packet) /\ add_cs -> st.checksum + value
                      [] udw = DataCount(packet) -> value
                      [] OTHER -> st.checksum]
\* Mutant: a word that is split is added twice.
AddsAlways(st, udw, add_cs, packet) == Summed(st, udw, TRUE, packet)
ChecksumUdw(st, udw, add_cs, packet) == Summed(st, udw, add_cs, packet)

WriteNextUdws(st, next_udw, packet) ==
  LET cs0 == ChecksumUdw(st, next_udw, TRUE, packet)
      cs1 == ChecksumUdw(cs0, next_udw + 1, TRUE, packet)
      cs2 == ChecksumUdw(cs1, next_udw + 2, TRUE, packet)
      cs3 == ChecksumUdw(cs2, next_udw + 3, WholeWord(next_udw), packet)
  IN  [checksum |-> cs3.checksum,
       words |-> Append(st.words,
         Pack(Udws(next_udw),
              <<cs0.value, cs1.value, cs2.value, cs3.value \div NotYet(next_udw)>>))]
WriteAncillaryDataPacket(packet) ==
  FoldLeft(LAMBDA st, next_udw : WriteNextUdws(st, next_udw, packet),
           [checksum |-> HeaderChecksum(packet), words |-> PacketHeader(packet)],
           UdwWords(DataCount(packet))).words

(* CdiAvmPacketizeAncillaryData.  Each packet must fit in the buffer with  *)
(* all before it; the payload header, one word that is written last, is    *)
(* not compared with the buffer (inside: it was in it).                    *)
DoesNotFit(packets, buffer_size) ==
  \E n \in DOMAIN packets :
    GetAncillaryDataPayloadSize(SubSeq(packets, 1, n)) > buffer_size
Packetize(packets, field_kind, buffer_size) ==
  LET size == GetAncillaryDataPayloadSize(packets)
      rs == CASE 0 > buffer_size -> "InvalidParameter"
              [] 0 <= buffer_size /\ DoesNotFit(packets, buffer_size) -> "BufferOverflow"
              [] OTHER -> "Ok"
  IN  IF rs # "Ok" THEN [rs |-> rs, words |-> <<>>, size |-> 0, inside |-> TRUE]
      ELSE [rs |-> "Ok", size |-> size, inside |-> size <= buffer_size,
            words |-> <<Pack(PayloadRawHeader, <<Len(packets), field_kind, 0>>)>>
                      \o FlattenSeq([i \in DOMAIN packets |->
                                       WriteAncillaryDataPacket(packets[i])])]

(***************************************************************************)
(* Reading.  offset is the place of a packet, from 0; a header that starts *)
(* with the last word reaches past the end, and the payload is found       *)
(* invalid whatever is there.                                              *)
(***************************************************************************)
WordAt(words, offset) ==
  IF offset < Len(words) THEN words[offset + 1] ELSE [bit \in 1 .. 32 |-> 0]
PacketCount(words) == Unpack(PayloadRawHeader, words[1])[1]
FieldKind(words) == Unpack(PayloadRawHeader, words[1])[2]

ParsePacketHeader(words, offset) ==
  LET raw == Unpack(PacketRawHeader1, WordAt(words, offset + 1))
  IN  [where |-> Unpack(PacketRawHeader0, WordAt(words, offset)),
       did |-> raw[1] % 256, sdid |-> raw[2] % 256, data_count |-> raw[3] % 256,
       udw0 |-> raw[4] * 256, checksum |-> raw[1] + raw[2] + raw[3],
       parity_error |-> \E i \in 1 .. 3 : ParityError(raw[i])]

ParseAndChecksumUdw(st, udw, value, data_count) ==
  LET user_data == IF udw <= data_count
                   THEN [st.user_data EXCEPT ![udw] = @ + value] ELSE st.user_data
  IN  [user_data |-> user_data,
       checksum |-> st.checksum + (IF udw < data_count THEN user_data[udw] ELSE 0)]
ParseNextUdws(st, next_udw, word, data_count) ==
  LET udws == Unpack(Udws(next_udw), word)
      st0 == ParseAndChecksumUdw(st, next_udw, udws[1], data_count)
      st1 == ParseAndChecksumUdw(st0, next_udw + 1, udws[2], data_count)
      st2 == ParseAndChecksumUdw(st1, next_udw + 2, udws[3], data_count)
  IN  IF WholeWord(next_udw)
      THEN ParseAndChecksumUdw(st2, next_udw + 3, udws[4], data_count)
      ELSE [st2 EXCEPT !.user_data[next_udw + 3] = udws[4] * NotYet(next_udw)]

(* The user data words of a packet whose header ends at offset.            *)
ParseUserData(words, offset, header, starts) ==
  FoldLeft(LAMBDA st, i : ParseNextUdws(st, starts[i], WordAt(words, offset + i),
                                        header.data_count),
           [user_data |-> [i \in 0 .. MaxDataCount + 3 |->
                             IF i = 0 THEN header.udw0 ELSE 0],
            checksum |-> header.checksum],
           [i \in DOMAIN starts |-> i])

(* CopyInternalToPublicPacket.                                             *)
PublicPacket(offset, header, n, parsed) ==
  [packet |-> [where |-> header.where, did |-> header.did, sdid |-> header.sdid,
               user_data |-> [i \in 1 .. n |-> parsed.user_data[i - 1] % 256]],
   packet_offset |-> 4 * offset, packet_size |-> 4 * (2 + Len(UdwWords(n))),
   parity_error |-> header.parity_error,
   checksum_error |-> FinishChecksum(parsed.checksum) # parsed.user_data[n],
   data_parity_error |-> \E i \in 0 .. n - 1 : ParityError(parsed.user_data[i])]

ParseAncillaryDataPacket(words, offset) ==
  LET header == ParsePacketHeader(words, offset)
      parsed == ParseUserData(words, offset + 1, header, UdwWords(header.data_count))
  IN  PublicPacket(offset, header, header.data_count, parsed)

(* The walk through the packets the payload header announces, up to the    *)
(* end of the payload; size[offset] is what a packet takes, a word or more. *)
Offsets(words) == 1 .. Len(words) - 1
Walk(words, size) ==
  FoldLeft(LAMBDA offsets, i : IF Last(offsets) >= Len(words) THEN offsets
                               ELSE Append(offsets, Last(offsets) + size[Last(offsets)]),
           <<1>>, [i \in 1 .. Min({PacketCount(words), Len(words)}) |-> i])
Filled(words, offsets) ==
  Last(offsets) = Len(words) /\ Len(offsets) = PacketCount(words) + 1

PrecheckAncillaryDataPayload(words, size) ==
  CASE size % 4 # 0 \/ 4 > size -> "InvalidParameter"
    [] OTHER -> IF Filled(words, Walk(words,
                       [offset \in Offsets(words) |-> GetAncillaryDataPacketSize(
                                 ParsePacketHeader(words, offset).data_count)]))
                THEN "Ok" ELSE "InvalidPayload"

(* CdiAvmUnpacketizeAncillaryData: the packets handed to the callback, and *)
(* what the last call of it, without a packet, says.                       *)
Handed(words, walk, parsed) ==
  LET inside == SelectSeq(Front(walk), LAMBDA offset :
                  offset + parsed[offset].packet_size \div 4 <= Len(words))
  IN  [i \in DOMAIN inside |-> parsed[inside[i]]]
Ending(words, walk, packets) ==
  LET parity == \E i \in DOMAIN packets :
                  packets[i].parity_error \/ packets[i].data_parity_error
      checksum == \E i \in DOMAIN packets : packets[i].checksum_error
  IN  IF ~Filled(words, walk)
      THEN [rs |-> "InvalidPayload", packets |-> packets, last |-> <<>>]
      ELSE [rs |-> IF parity \/ checksum THEN "RxPayloadError" ELSE "Ok",
            packets |-> packets,
            last |-> <<[field_kind |-> FieldKind(words), parity_error |-> parity,
                      checksum_error |-> checksum]>>]
CallbackPerPacket(words, parsed) ==
  LET walk == Walk(words, [offset \in Offsets(words) |-> parsed[offset].packet_size \div 4])
  IN  Ending(words, walk, Handed(words, walk, parsed))

(* Entries of a scatter gather list are made one linear buffer first, if   *)
(* there is memory.                                                        *)
Unpacketize(words, size, linear) ==
  LET precheck == IF linear THEN PrecheckAncillaryDataPayload(words, size)
                  ELSE "AllocationFailed"
  IN  IF precheck # "Ok" THEN [rs |-> precheck, packets |-> <<>>, last |-> <<>>]
      ELSE CallbackPerPacket(words, [offset \in Offsets(words) |->
                                       ParseAncillaryDataPacket(words, offset)])
=============================================================================
