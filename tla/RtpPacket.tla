----------------------------- MODULE RtpPacket -----------------------------
(***************************************************************************)
(* The layout of an RTP packet (base/rtp.h, base/rtp.cc): what             *)
(* RTPHandler::GetRTPPacket() writes and what the RTPHandler constructor   *)
(* reads back.                                                             *)
(*                                                                         *)
(* A packet on the wire is a sequence of bytes, except that the 12 bytes   *)
(* of the fixed header, which are copied as a whole in both directions,    *)
(* are one cell, the record of the fields that steer building and parsing. *)
(* Marker, payload type, sequence number, timestamp and SSRC travel with   *)
(* it and steer nothing.  32-bit values are their four bytes in network    *)
(* order, which is how the handler stores them.                            *)
(***************************************************************************)
EXTENDS Naturals, Sequences, SequencesExt

CONSTANTS
  CsrcMax,    \* kRtpCsrcMaxSize, 15: what the bits of cc can count
  LengthMax   \* 0xFFFF: what the length of an extension block can count

Marker == <<190, 222>>   \* 0xBEDE

Field16(n) == <<(n \div 256) % 256, n % 256>>
Read16(wire, offset) == 256 * wire[offset + 1] + wire[offset + 2]

\* wire[offset .. offset + n - 1] in C++.
Bytes(wire, offset, n) == SubSeq(wire, offset + 1, offset + n)

\* Mutant: half of each word is copied.
Words_Halves(wire, offset, n) == [w \in 1..n |-> Bytes(wire, offset + 4 * (w - 1), 2)]

\* n words from there.
Words(wire, offset, n) == [w \in 1..n |-> Bytes(wire, offset + 4 * (w - 1), 4)]

\* A handler after Reset().
Empty ==
  [padding |-> 0, extensions |-> 0, cc |-> 0, csrc |-> <<>>, exts |-> <<>>,
   payload |-> <<>>]

-----------------------------------------------------------------------------
(* GetRTPPacket(). *)

Fixed(packet) ==
  [padding |-> packet.padding, extensions |-> packet.extensions, cc |-> packet.cc]

\* One extension: its id, its size as counted now, and its words.
ExtensionBytes(ext) ==
  Field16(ext.id) \o Field16(Len(ext.data)) \o FlattenSeq(ext.data)

\* The extensions one behind the other, and the size of their block in words,
\* its own header included.
Content(exts) == FlattenSeq([i \in DOMAIN exts |-> ExtensionBytes(exts[i])])
BlockWords(exts) == 1 + Len(Content(exts)) \div 4

\* The header of a block: a size of one more than its length can count carries
\* into the marker.
BlockHeader(words) ==
  IF words = LengthMax + 1 THEN <<190, 223, 0, 0>> ELSE Marker \o Field16(words)

ExtensionBlock(exts) == BlockHeader(BlockWords(exts)) \o Content(exts)

\* Of a packet whose block is larger than that, all behind the sources is left
\* as it was allocated.
LeftOut(packet) == packet.extensions = 1 /\ BlockWords(packet.exts) > LengthMax + 1

Written(packet, bytes) == IF LeftOut(packet) THEN [i \in DOMAIN bytes |-> 0] ELSE bytes

Build(packet) ==
  LET block == IF packet.extensions = 1 THEN ExtensionBlock(packet.exts) ELSE <<>>
  IN  <<Fixed(packet)>> \o FlattenSeq(packet.csrc)
        \o Written(packet, block) \o Written(packet, packet.payload)

-----------------------------------------------------------------------------
(* The constructor that parses.  Its result is the handler it leaves and how *)
(* far it came: "ok", the reason of the early return, or "overrun" when it   *)
(* copies bytes from behind the end of the packet.                           *)

Result(status, packet) == [status |-> status, packet |-> packet]

\* Where the extension loop's counter starts.
FirstWord == 4

\* One turn of the extension loop, which leaves a loop that has ended alone: i
\* counts words, in its own way, up to the header's length; an extension's
\* length, in words, is compared with what is left in bytes.
NextExtension(wire, length, loop) ==
  LET left  == Len(wire) - loop.offset
      words == Read16(wire, loop.offset + 2)
      ext   == [id   |-> Read16(wire, loop.offset),
                data |-> Words(wire, loop.offset + 4, words)]
      stop(status) == [loop EXCEPT !.status = status]
  IN  IF loop.status # "loop" THEN loop
      ELSE IF loop.i >= length THEN stop("ok")
      ELSE IF left < 4 \/ left < 4 + words THEN stop("extension")
      ELSE IF left < 4 + 4 * words THEN stop("overrun")
      ELSE [status |-> "loop", offset |-> loop.offset + 4 + 4 * words,
            i |-> loop.i + words \div 4 + 1, exts |-> Append(loop.exts, ext)]

LoopStart(offset) ==
  [status |-> "loop", offset |-> offset, i |-> FirstWord, exts |-> <<>>]

\* The loop, until it has ended: a turn that goes on takes four bytes or more.
ReadExtensions(wire, offset, length) ==
  LET loops[j \in 0..Len(wire)] ==
        IF j = 0 THEN LoopStart(offset) ELSE NextExtension(wire, length, loops[j-1])
  IN  loops[Len(wire)]

\* From the extension header on; a packet without one goes straight on.
ReadBlock(wire, offset) ==
  LET stop(status, exts) == [status |-> status, offset |-> offset, exts |-> exts]
  IN  IF wire[1].extensions = 0 THEN stop("ok", <<>>)
      ELSE IF Len(wire) - offset < 4 \/ Bytes(wire, offset, 2) # Marker
        THEN stop("extension", <<>>)
      ELSE ReadExtensions(wire, offset + 4, Read16(wire, offset + 2))

\* Mutant: the padding count itself stays in the payload.
Unpadded_KeepsCount(payload) ==
  SubSeq(payload, 1, Len(payload) - Last(payload) + 1)

\* The last byte of the payload counts the padding, itself included.
Unpadded(payload) == SubSeq(payload, 1, Len(payload) - Last(payload))

BadPadding(payload) == Last(payload) = 0 \/ Last(payload) > Len(payload)

CsrcsMissing(wire) == Len(wire) - 1 < 4 * wire[1].cc

\* The payload is stripped of its padding, or refused.
Finish(payload, packet) ==
  IF payload = <<>> THEN Result("payload", packet)
  ELSE IF packet.padding = 0 THEN Result("ok", [packet EXCEPT !.payload = payload])
  ELSE IF BadPadding(payload) THEN Result("padding", packet)
  ELSE Result("ok", [packet EXCEPT !.payload = Unpadded(payload)])

\* Mutant: the offset is not moved behind the sources.
ReadPayload_WithCsrcs(wire, offset, packet) == Finish(Tail(wire), packet)

\* The payload is all that is left.
ReadPayload(wire, offset, packet) ==
  Finish(SubSeq(wire, offset + 1, Len(wire)), packet)

\* A handler that has taken this fixed header, and no payload yet.
Handler(fixed, csrc, exts) ==
  [padding |-> fixed.padding, extensions |-> fixed.extensions, cc |-> fixed.cc,
   csrc |-> csrc, exts |-> exts, payload |-> <<>>]

\* The handler made from a packet that has its fixed header.  (Without one it
\* is left uninitialised.)
Parse(wire) ==
  LET offset == 1 + 4 * wire[1].cc
      block  == ReadBlock(wire, offset)
      full   == Handler(wire[1], Words(wire, 1, wire[1].cc), block.exts)
  IN  IF CsrcsMissing(wire) THEN Result("csrc", Handler(wire[1], <<>>, <<>>))
      ELSE IF block.status # "ok" THEN Result(block.status, full)
      ELSE ReadPayload(wire, block.offset, full)
=============================================================================
