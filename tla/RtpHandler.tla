----------------------------- MODULE RtpHandler -----------------------------
(***************************************************************************)
(* An application that fills an avrtc::RTPHandler with its setters, takes  *)
(* packets from it with GetRTPPacket(), and makes a second RTPHandler from *)
(* what arrives of each: all of it, or its first bytes.                    *)
(***************************************************************************)
EXTENDS RtpPacket

CONSTANTS
  Csrcs,       \* contributing sources, as words
  ExtData,     \* the words of the extensions that are added
  Payloads,    \* payloads that are set
  MaxExts      \* bound: extensions of a packet

Byte == 0..255
Short == 0..65535
Word == [1..4 -> Byte]

ASSUME CsrcMaxNat == CsrcMax \in Nat
ASSUME CsrcsAreWords == Csrcs \subseteq Word
ASSUME ExtDataAreWords == ExtData \subseteq Seq(Word)
ASSUME PayloadsAreBytes == Payloads \subseteq Seq(Byte)

\* The extension of tests/rtp.cc, with its block's header and its own, can be
\* counted.
ASSUME LengthMaxFits == LengthMax \in 6..65535

VARIABLES
  packet,      \* packet_ of the handler that sends
  wire,        \* the last GetRTPPacket()
  arrived,     \* how much of it has arrived
  parsed,      \* the handler made from that, and how its constructor ended
  phase        \* "edit", "sent" or "parsed"

vars == <<packet, wire, arrived, parsed, phase>>

Nothing == Result("none", Empty)

Init ==
  /\ packet = Empty
  /\ wire = <<>>
  /\ arrived = 0
  /\ parsed = Nothing
  /\ phase = "edit"

Edit(p) ==
  /\ phase = "edit"
  /\ packet' = p
  /\ UNCHANGED <<wire, arrived, parsed, phase>>

Reset == Edit(Empty)

SetPadding(bit) == Edit([packet EXCEPT !.padding = bit])

SetExtensions(bit) == Edit([packet EXCEPT !.extensions = bit])

SetPayload(payload) == Edit([packet EXCEPT !.payload = payload])

\* A full list refuses another source and leaves the packet as it is.
AddCsrc(csrc) ==
  /\ packet.cc < CsrcMax
  /\ Edit([packet EXCEPT !.csrc = Append(@, csrc), !.cc = @ + 1])

AddExtension(id, data) ==
  /\ Len(packet.exts) < MaxExts
  /\ Edit([packet EXCEPT !.exts = Append(@, [id |-> id, data |-> data]),
                         !.extensions = 1])

GetRTPPacket ==
  /\ phase = "edit"
  /\ wire' = Build(packet)
  /\ phase' = "sent"
  /\ UNCHANGED <<packet, arrived, parsed>>

\* The fixed header and n bytes more arrive.
Receive(n) ==
  /\ phase = "sent"
  /\ arrived' = 1 + n
  /\ parsed' = Parse(SubSeq(wire, 1, 1 + n))
  /\ phase' = "parsed"
  /\ UNCHANGED <<packet, wire>>

\* The application goes on with the same handler.
NextPacket ==
  /\ phase = "parsed"
  /\ wire' = <<>>
  /\ arrived' = 0
  /\ parsed' = Nothing
  /\ phase' = "edit"
  /\ UNCHANGED packet

Next ==
  \/ \E bit \in {0, 1} : SetPadding(bit) \/ SetExtensions(bit)
  \/ \E csrc \in Csrcs : AddCsrc(csrc)
  \/ \E data \in ExtData : AddExtension(1, data)
  \/ \E payload \in Payloads : SetPayload(payload)
  \/ Reset \/ GetRTPPacket \/ NextPacket
  \/ \E n \in 0..(Len(wire) - 1) : Receive(n)

Spec == Init /\ [][Next]_vars

-----------------------------------------------------------------------------
(* Properties. *)

Packet ==
  [padding : {0, 1}, extensions : {0, 1}, cc : 0..CsrcMax, csrc : Seq(Word),
   exts : Seq([id : Short, data : Seq(Word)]), payload : Seq(Byte)]

\* Every variable has its type: in particular the constructor never takes a
\* header for payload, and cc never outgrows its four bits.
TypeOK ==
  /\ packet \in Packet
  /\ parsed.packet \in Packet
  /\ parsed.status \in {"none", "ok", "csrc", "extension", "overrun", "payload",
                        "padding"}
  /\ arrived \in 0..Len(wire)
  /\ phase \in {"edit", "sent", "parsed"}

AllArrived == phase = "parsed" /\ arrived = Len(wire)

\* Layouts the parser follows: no extension, or, as in tests/rtp.cc, one of four
\* words (three will do as well).
Followed ==
  \/ packet.extensions = 0
  \/ Len(packet.exts) = 1 /\ Len(packet.exts[1].data) \in {3, 4}

\* A packet that arrives whole is read as it was built, without its padding;
\* an empty payload or an impossible padding count is refused, with the rest of
\* the packet read.
FollowedIsRead ==
  AllArrived /\ Followed =>
    LET kept == [packet EXCEPT !.exts = IF packet.extensions = 1 THEN @ ELSE <<>>]
        read(payload) == [kept EXCEPT !.payload = payload]
        p == packet.payload
    IN  parsed = IF p = <<>> THEN Result("payload", read(<<>>))
                 ELSE IF packet.padding = 0 THEN Result("ok", read(p))
                 ELSE IF BadPadding(p) THEN Result("padding", read(<<>>))
                 ELSE Result("ok", read(SubSeq(p, 1, Len(p) - Last(p))))

\* Of a packet whose extensions are more than its length can count, the sources
\* are read and the rest is refused, never taken for a payload (rtp.cc:176).
UncountedIsRefused ==
  AllArrived /\ packet.extensions = 1 /\ BlockWords(packet.exts) > LengthMax =>
    parsed = Result("extension", Handler(Fixed(packet), packet.csrc, <<>>))

\* What the constructor makes of a whole packet: the packet that was built, or a
\* refusal if the block's length could not be written.
ReadAsBuilt == FollowedIsRead /\ UncountedIsRefused

\* A packet without extensions that lost its tail is refused, or its sources
\* are all there and its payload, if not padded, is a beginning of the one sent.
CutIsNoticed ==
  phase = "parsed" /\ packet.extensions = 0 /\ parsed.status = "ok" =>
    /\ parsed.packet.csrc = packet.csrc
    /\ packet.padding = 0 => IsPrefix(parsed.packet.payload, packet.payload)
    /\ Len(parsed.packet.payload) <= Len(packet.payload)

(* What a test says. *)

\* tests/rtp.cc:98: a handler made from a packet builds the same packet, as that
\* test expects of a packet with an extension, here of any size.
RebuildsSame ==
  AllArrived /\ packet.padding = 0 /\ packet.payload # <<>>
    /\ packet.extensions = 1 /\ Len(packet.exts) = 1 =>
      parsed.status = "ok" /\ Build(parsed.packet) = wire
=============================================================================
