------------------------------ MODULE SdpMedia ------------------------------
(***************************************************************************)
(* avrtc::SDPMediaDescription (base/sdp.h, base/sdp.cc): one m= section of *)
(* a session description, as operators on a record                         *)
(*   kind   media type and protocol, compared for equality only            *)
(*   mid    mid_                                                           *)
(*   fmt    fmt_, the offered codecs in order                              *)
(*   attrs  media_attribute_, the a= lines in order: the mid, and for each *)
(*          codec an RTPMAP (its rate) and perhaps an FMTP (its arguments) *)
(* Strings are not built: a rate, an argument list and a codec are values, *)
(* and the textual prefix "<payload type> " that RemoveFormat and          *)
(* GetFormat look for identifies the codec.                                *)
(***************************************************************************)
EXTENDS Naturals, Sequences, SequencesExt

CONSTANT NoArgs   \* the empty argument string

NoRate == 0

MidAttr(mid) == [type |-> "MID", value |-> mid]

NewMedia(kind, mid) ==
  [kind |-> kind, mid |-> mid, fmt |-> <<>>, attrs |-> <<MidAttr(mid)>>]

CodecAttr(type, codec, value) ==
  [type |-> type, codec |-> codec, value |-> value]

IsAttrOf(attr, codec) == attr.type \in {"RTPMAP", "FMTP"} /\ attr.codec = codec

\* The elements of seq that are in S, in their order (what remove and erase keep).
Kept(seq, S) ==
  LET kept[i \in 0..Len(seq)] ==
        IF i = 0 THEN <<>>
        ELSE IF seq[i] \in S THEN Append(kept[i-1], seq[i]) ELSE kept[i-1]
  IN  kept[Len(seq)]

\* The value of the codec's last a= line of a type.
LastValue(attrs, type, codec, default) ==
  LET value[i \in 0..Len(attrs)] ==
        IF i = 0 THEN default
        ELSE IF attrs[i].type = type /\ attrs[i].codec = codec THEN attrs[i].value
        ELSE value[i-1]
  IN  value[Len(attrs)]

AddFormat(media, codec, format) ==
  [media EXCEPT
     !.fmt = Append(@, codec),
     !.attrs = @ \o <<CodecAttr("RTPMAP", codec, format.rate)>>
                 \o IF format.args = NoArgs THEN <<>>
                    ELSE <<CodecAttr("FMTP", codec, format.args)>>]

\* Mutant: the a= lines of a removed codec stay.
RemoveFormat_KeepsAttrs(media, codec) ==
  [media EXCEPT !.fmt = Kept(@, Range(@) \ {codec})]

RemoveFormat(media, codec) ==
  [media EXCEPT
     !.fmt = Kept(@, Range(@) \ {codec}),
     !.attrs = Kept(@, {a \in Range(@) : ~IsAttrOf(a, codec)})]

\* The last RTPMAP and the last FMTP of the codec count.
GetFormat(media, codec) ==
  [rate |-> LastValue(media.attrs, "RTPMAP", codec, NoRate),
   args |-> LastValue(media.attrs, "FMTP", codec, NoArgs)]

\* Mutant: an existing format is not removed before it is added again.
SetFormat_AddsOnly(media, codec, format) == AddFormat(media, codec, format)

\* Mutant: the arguments are written even if they are empty.
SetFormat_EmptyArgs(media, codec, format) ==
  [AddFormat(RemoveFormat(media, codec), codec, [format EXCEPT !.args = NoArgs])
     EXCEPT !.attrs = Append(@, CodecAttr("FMTP", codec, format.args))]

SetFormat(media, codec, format) ==
  AddFormat(RemoveFormat(media, codec), codec, format)

-----------------------------------------------------------------------------
(* Negotiation(remote): the steps of the function, in its order. *)

CommonCodecs(local, remote) ==
  Kept(remote.fmt, Range(local.fmt))

\* Mutant: the protocols are not compared.
Compatible_AnyProtocol(local, remote) ==
  /\ local.kind.type = remote.kind.type
  /\ CommonCodecs(local, remote) # <<>>

\* The four early returns: type, protocol, an empty side, nothing in common.
Compatible(local, remote) ==
  /\ local.kind = remote.kind
  /\ CommonCodecs(local, remote) # <<>>

\* Mutant: only the first format is looked at.
Prune_FirstOnly(media, common) ==
  IF Head(media.fmt) \in Range(common) THEN media
  ELSE RemoveFormat(media, Head(media.fmt))

\* The range-for over fmt_ that calls RemoveFormat on the formats not in
\* common.  Its end is the end of fmt_ when the loop starts, and RemoveFormat
\* shifts the elements under it: after a removal the next one is skipped, and
\* at the end the loop reads the stale elements left behind fmt_'s new end
\* (tail), which erase() does not overwrite.
Prune(media, common) ==
  LET n == Len(media.fmt)
      after[i \in 0..n] ==
        IF i = 0 THEN [media |-> media, tail |-> <<>>]
        ELSE LET buffer == after[i-1].media.fmt \o after[i-1].tail
                 codec  == buffer[i]
                 rest   == RemoveFormat(after[i-1].media, codec)
             IN  IF codec \in Range(common) THEN after[i-1]
                 ELSE [media |-> rest,
                       tail  |-> SubSeq(buffer, Len(rest.fmt) + 1, n)]
  IN  after[n].media

\* Mutant: each common codec is set to the local side's own format again.
Adopt_Local(media, remote, common) ==
  LET after[i \in 0..Len(common)] ==
        IF i = 0 THEN media
        ELSE SetFormat(after[i-1], common[i], GetFormat(media, common[i]))
  IN  after[Len(common)]

\* Every common codec takes the remote side's rate and arguments.
Adopt(media, remote, common) ==
  LET after[i \in 0..Len(common)] ==
        IF i = 0 THEN media
        ELSE SetFormat(after[i-1], common[i], GetFormat(remote, common[i]))
  IN  after[Len(common)]

\* The local description after a negotiation that succeeds.
Negotiated(local, remote) ==
  LET common == CommonCodecs(local, remote)
  IN  Adopt(Prune([local EXCEPT !.mid = remote.mid], common), remote, common)
=============================================================================
