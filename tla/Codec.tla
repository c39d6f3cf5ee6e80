------------------------------- MODULE Codec --------------------------------
(***************************************************************************)
(* avrtc::FormatContext and avrtc::Codec (base/codec.cc) with the loop of  *)
(* tests/codec.cc that decodes a file: read a packet, skip it if it is of  *)
(* the other stream, send it to the decoder, take frames until the decoder *)
(* wants input, and at the end of the file flush the decoder.              *)
(*                                                                         *)
(* FFmpeg is modelled from how the code uses it.  A decoder is a line of   *)
(* the frames of the packets it accepted.  It has a frame to give once     *)
(* more than Delay are in the line or it is being drained, and may refuse  *)
(* a packet as long as it has one to give.  It uses a damaged frame up     *)
(* with an error, which either call may return: avcodec_send_packet()      *)
(* decodes ahead.                                                          *)
(***************************************************************************)
EXTENDS Naturals, FiniteSets, SequencesExt

CONSTANTS
  Delay,       \* frames the decoder keeps back
  MaxPackets,  \* bound: packets of a file
  MaxFrames,   \* bound: frames of a packet
  MaxEncodes   \* bound: calls of EncodeFrame

ASSUME SizesNat == {Delay, MaxPackets, MaxFrames, MaxEncodes} \subseteq Nat

VARIABLES
  streams,   \* the streams of the file
  file,      \* its packets that have not been read
  isOpen,    \* the decoder was found and opened
  line,      \* the frames in the decoder
  draining,  \* the decoder was told that the input has ended
  packet,    \* what DecodeFrame is called with
  pc,        \* where the program is
  decoded,   \* history: the frames onDeFrameCb_ was called with
  encoded,   \* history: the packets onEnPacketCb_ was called with
  wanted,    \* history: the frames of the packets DecodeFrame was called with
  refused,   \* history: how many of these packets a full decoder refused
  errors,    \* history: how often avcodec_send_packet() failed otherwise
  failures   \* history: how often avcodec_receive_frame() failed

vars == <<streams, file, isOpen, line, draining, packet, pc, decoded, encoded,
          wanted, refused, errors, failures>>

Streams == {"video", "audio"}

\* A packet, by its frames: whether each of them is whole.
Packets ==
  [stream : {"video"}, frames : SeqOf(BOOLEAN, MaxFrames) \ {<<>>}]
    \cup [stream : {"audio"}, frames : {<<TRUE>>}]

Empty == [serial |-> 0, whole |-> FALSE]   \* what av_frame_unref leaves
Flush == [stream |-> "none", frames |-> <<>>]   \* nullptr

Init ==
  /\ streams \in SUBSET Streams
  /\ file \in {f \in SeqOf(Packets, MaxPackets) :
                 \A i \in DOMAIN f : f[i].stream \in streams}
  /\ isOpen = FALSE
  /\ line = <<>>
  /\ draining = FALSE
  /\ packet = Flush
  /\ pc = "start"
  /\ decoded = <<>>
  /\ encoded = <<>>
  /\ wanted = <<>>
  /\ refused = 0
  /\ errors = 0
  /\ failures = 0

-----------------------------------------------------------------------------
(* Setting up. *)

\* The best stream of either kind; the index of a missing one is an error code,
\* which is only logged, and streams[] is read far outside its bounds.
InitInCtx ==
  /\ pc = "start"
  /\ pc' = IF streams = Streams THEN "found" ELSE "crashed"
  /\ UNCHANGED <<streams, file, isOpen, line, draining, packet, decoded, encoded,
                 wanted, refused, errors, failures>>

\* Codec() and CopyParamsFromStream(): a decoder that is not there or does not
\* open is only logged.
CopyParamsFromStream ==
  /\ pc = "found"
  /\ isOpen' \in BOOLEAN
  /\ pc' = "read"
  /\ UNCHANGED <<streams, file, line, draining, packet, decoded, encoded, wanted,
                 refused, errors, failures>>

-----------------------------------------------------------------------------
(* Decoding. *)

\* GetNextPacket(), and the packets of the other stream are dropped; GetStream()
\* is the video stream whatever it is asked for.  After the last packet the
\* decoder is flushed.
GetNextPacket ==
  /\ pc = "read"
  /\ \/ /\ file # <<>> /\ Head(file).stream # "video"
        /\ file' = Tail(file)
        /\ UNCHANGED <<packet, pc, wanted>>
     \/ /\ file # <<>> /\ Head(file).stream = "video"
        /\ file' = Tail(file)
        /\ packet' = Head(file)
        /\ wanted' = wanted \o [i \in DOMAIN packet'.frames |->
                       [serial |-> Len(wanted) + i, whole |-> packet'.frames[i]]]
        /\ pc' = "send"
     \/ /\ file = <<>>
        /\ packet' = Flush
        /\ pc' = "send"
        /\ UNCHANGED <<file, wanted>>
  /\ UNCHANGED <<streams, isOpen, line, draining, decoded, encoded, refused, errors,
                 failures>>

HasFrame == line # <<>> /\ (draining \/ Len(line) > Delay)

\* The line once the decoder has taken the packet, and whether it now decodes a
\* frame, which it may do at once.
Extended ==
  line \o SubSeq(wanted, Len(wanted) - Len(packet.frames) + 1, Len(wanted))

DecodesAhead ==
  Extended # <<>> /\ (packet = Flush \/ Len(Extended) > Delay)

\* avcodec_send_packet() succeeds ...
PacketTaken ==
  /\ isOpen
  /\ line' = Extended
  /\ draining' = (packet = Flush)
  /\ UNCHANGED <<refused, errors>>

\* ... or it takes the packet and returns the error of a frame it decodes ...
FrameFailsInSend ==
  /\ isOpen
  /\ DecodesAhead /\ ~Head(Extended).whole
  /\ line' = Tail(Extended)
  /\ draining' = (packet = Flush)
  /\ errors' = errors + 1
  /\ UNCHANGED refused

\* ... or it refuses the packet, EAGAIN, as it is full ...
PacketRefused ==
  /\ packet # Flush
  /\ isOpen /\ HasFrame
  /\ refused' = refused + 1
  /\ UNCHANGED <<line, draining, errors>>

\* ... or fails altogether: the decoder is not open, or memory runs out.
SendFails ==
  /\ isOpen => packet # Flush
  /\ errors' = errors + 1
  /\ UNCHANGED <<line, draining, refused>>

\* The first half of DecodeFrame(): whatever the result, it is only logged.
SendPacket ==
  /\ pc = "send"
  /\ pc' = "receive"
  /\ PacketTaken \/ FrameFailsInSend \/ PacketRefused \/ SendFails
  /\ UNCHANGED <<streams, file, isOpen, packet, decoded, encoded, wanted, failures>>

LeaveLoop == pc' = IF packet = Flush THEN "done" ELSE "read"

\* Mutant: one frame is taken per packet.
ReceiveFrame_Once ==
  /\ HasFrame /\ Head(line).whole
  /\ decoded' = Append(decoded, Head(line))
  /\ line' = Tail(line)
  /\ LeaveLoop
  /\ UNCHANGED failures

ReceiveFrame ==
  /\ HasFrame /\ Head(line).whole
  /\ decoded' = Append(decoded, Head(line))
  /\ line' = Tail(line)
  /\ UNCHANGED <<pc, failures>>

\* An error is logged, the callback is called with the empty frame all the same,
\* and the loop ends, although the decoder may have more to give.
ReceiveFails ==
  /\ ~isOpen \/ (HasFrame /\ ~Head(line).whole)
  /\ line' = IF isOpen THEN Tail(line) ELSE line
  /\ failures' = failures + 1
  /\ decoded' = Append(decoded, Empty)
  /\ LeaveLoop

\* Mutant: EAGAIN is not told from the other errors.
NeedsInput_IsError ==
  /\ isOpen /\ ~HasFrame
  /\ decoded' = Append(decoded, Empty)
  /\ LeaveLoop
  /\ UNCHANGED <<line, failures>>

\* EAGAIN, or AVERROR_EOF when draining.
NeedsInput ==
  /\ isOpen /\ ~HasFrame
  /\ LeaveLoop
  /\ UNCHANGED <<line, decoded, failures>>

\* One turn of DecodeFrame's loop.
Receive ==
  /\ pc = "receive"
  /\ ReceiveFrame \/ ReceiveFails \/ NeedsInput
  /\ UNCHANGED <<streams, file, isOpen, draining, packet, encoded, wanted, refused,
                 errors>>

\* Codec() only ever opens a decoder: sending it a frame and receiving a packet
\* from it both fail, and the callback is called with the empty packet.
EncodeFrame ==
  /\ pc \in {"read", "done"}
  /\ Len(encoded) < MaxEncodes
  /\ encoded' = Append(encoded, Empty)
  /\ UNCHANGED <<streams, file, isOpen, line, draining, packet, pc, decoded, wanted,
                 refused, errors, failures>>

Next ==
  \/ InitInCtx \/ CopyParamsFromStream
  \/ GetNextPacket \/ SendPacket \/ Receive \/ EncodeFrame

Spec == Init /\ [][Next]_vars

-----------------------------------------------------------------------------
(* Properties. *)

\* As long as no call fails, draining the decoder between two packets and
\* flushing it at the end gives every frame of the stream, in order and once;
\* tests/codec.cc:29 relies on it.
WholeStreamDecoded ==
  failures = 0 /\ errors = 0 =>
    /\ IsPrefix(decoded \o line, wanted)
    /\ pc = "done" => decoded = wanted

\* What avcodec_receive_frame() costs when it fails: one empty frame for the
\* callback, which a failing avcodec_send_packet() does not give, at most one
\* later packet that finds the decoder full, and, when it fails while the decoder
\* is flushed, the frames behind it.
FailureCosts ==
  LET fails == {i \in DOMAIN decoded : decoded[i] = Empty}
  IN  /\ Cardinality(fails) = failures
      /\ \A i, j \in DOMAIN decoded \ fails :
           i < j => decoded[i].serial < decoded[j].serial
      /\ refused <= failures
      /\ pc = "done" /\ line # <<>> => Last(decoded) = Empty
=============================================================================
