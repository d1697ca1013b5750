----------------------------- MODULE Packetizer -----------------------------
(***************************************************************************)
(* The packetizer (payload.c): cuts a payload, which is a list of buffers  *)
(* of the application, into packets of a header and of pieces of these     *)
(* buffers.  It takes an entry of a pool for each, and goes on where it    *)
(* stopped when the pool was empty.                                        *)
(*                                                                         *)
(* k is the state of a payload that is being cut: CdiPayloadPacketState    *)
(* and the CdiPacketizerState that belongs to it.  The buffers are their   *)
(* sizes, a piece is [from, size] with from the position of its first byte *)
(* in the payload.                                                         *)
(***************************************************************************)
EXTENDS Protocol, Sequences, SequencesExt

CONSTANTS
  MaxPacket,    \* maximum_packet_byte_size of the adapter
  MaxEntries,   \* maximum_tx_sgl_entries of the adapter
  Unit          \* unit_size of the payload, in bits

ASSUME PacketizerAssumption ==
  /\ {MaxPacket, MaxEntries, Unit} \subseteq Nat
  /\ MaxPacket > 64 /\ MaxEntries > 1

(* group_size_bytes of TxPayloadInternal: whole bytes of whole units.      *)
UnitsInGroup(unit) ==
  CASE unit % 8 = 0 -> 1
    [] unit % 8 \in {2, 6} -> 4
    [] unit % 8 = 4 -> 2
    [] OTHER -> 8
GroupBytes(unit) == (UnitsInGroup(unit) * unit) \div 8
Group == GroupBytes(Unit)

(* Of a sequence of sizes or of a sequence of pieces.                      *)
Total(sizes) == FoldSeq(LAMBDA s, t : s + t, 0, sizes)
Bytes(pieces) == FoldSeq(LAMBDA p, t : p.size + t, 0, pieces)

(* PayloadInit: a copy of the list, which must have the size it says.      *)
PayloadInit(sizes, num, info) ==
  [state |-> "Inactive", source |-> sizes, entry |-> 1, within |-> 0,
   payload_type |-> "Data", payload_num |-> num, packet_sequence_num |-> 0,
   packet_id |-> 0, offset |-> 0, extra |-> 0, start |-> None,
   info |-> [name |-> info, size |-> Total(sizes)],
   header |-> None, room |-> 0, pieces |-> <<>>]

Exhausted(k) == k.entry > Len(k.source)

(* PrevMultipleOf, unless not even one group fits.                         *)
Grouped(room) == IF Group > 0 /\ Group <= room THEN Group * (room \div Group) ELSE room

(* The header is written for the position the packet begins at, with the   *)
(* number its connection gives the packet.                                 *)
WithHeader(handle, k, id) ==
  LET p == [k EXCEPT !.packet_id = id]
      header == HeaderInit(handle, p)
  IN [p EXCEPT !.state = "AddingEntries", !.header = header,
               !.room = Grouped(MaxPacket - header.size), !.pieces = <<>>]

Wants(k) ==
  /\ Bytes(k.pieces) < k.room
  /\ Len(k.pieces) + 1 < MaxEntries
  /\ ~Exhausted(k)

Smaller(a, b) == IF a < b THEN a ELSE b

(* One more piece: what is left of the buffer or of the packet.            *)
WithPiece(k) ==
  LET size == Smaller(k.source[k.entry] - k.within, k.room - Bytes(k.pieces))
      done == k.within + size >= k.source[k.entry]
      from == Total(SubSeq(k.source, 1, k.entry - 1)) + k.within
  IN [k EXCEPT !.pieces = Append(@, [from |-> from, size |-> size]),
               !.offset = @ + size,
               !.entry = IF done THEN @ + 1 ELSE @,
               !.within = IF done THEN 0 ELSE @ + size]

(* As many pieces as it wants and the pool has.                            *)
Filled(k, free) ==
  LET f[n \in 0 .. free] ==
        IF n = 0 THEN k ELSE IF Wants(f[n - 1]) THEN WithPiece(f[n - 1]) ELSE f[n - 1]
  IN f[free]

(* PayloadPacketizerPacketGet, with free entries in the pool.  It fails if *)
(* the pool is empty before the packet is complete.                        *)
Begun(handle, k, id, free) ==
  CASE k.state = "AddingEntries" -> Filled(k, free)
    [] k.state # "AddingEntries" /\ free = 0 -> [k EXCEPT !.state = "AddingHeader"]
    [] OTHER -> Filled(WithHeader(handle, k, id), free - 1)

PacketIsComplete(k) == k.state = "AddingEntries" /\ ~Wants(k)

(* Mutant: later packets do not tell their position.                       *)
NextPacketWithoutOffset(k) ==
  [k EXCEPT !.state = "Inactive", !.packet_sequence_num = Low(16, @ + 1),
            !.header = None, !.room = 0, !.pieces = <<>>]

(* After a packet that was not the last all others tell their position.    *)
NextPacket(k) ==
  [k EXCEPT !.state = "Inactive", !.packet_sequence_num = Low(16, @ + 1),
            !.payload_type = IF Exhausted(k) THEN @ ELSE "DataOffset",
            !.header = None, !.room = 0, !.pieces = <<>>]
=============================================================================
