--------------------------- MODULE SdpNegotiation ---------------------------
(***************************************************************************)
(* avrtc::SDPHandler::SDPNegotiation (base/sdp.cc): the application builds *)
(* a local and a remote session description, format by format, and the     *)
(* local one is then negotiated against the remote one, one remote m=      *)
(* section per step.  A section that no local section can take undoes      *)
(* everything and refuses.  Then the application may change its formats    *)
(* and negotiate again, as tests/sdp.cc does.                              *)
(***************************************************************************)
EXTENDS SdpText, FiniteSets

CONSTANTS
  Codecs,       \* CodecType
  Kinds,        \* media types and protocols of the sections
  Lines,        \* bound: m= sections of a description
  MaxFormats,   \* bound: formats the application has added to a description
  LocalArgs, RemoteArgs  \* argument strings in use on each side

ASSUME BoundsOK == Lines \in Nat /\ MaxFormats \in Nat

VARIABLES
  local,    \* *this: v, t and its m= sections
  remote,   \* remote_sdp
  copy,     \* sdp_copy
  next,     \* the remote section to negotiate next
  pc        \* "build", "negotiate", "accepted" or "refused"

vars == <<local, remote, copy, next, pc>>

\* The application creates the sections empty and then adds formats to them.
Sections(side) == SeqOf({NewMedia(kind, side) : kind \in Kinds}, Lines)

NoCopy == <<>>   \* outside a negotiation

\* Descriptions are created with v = 0; a parsed one may say otherwise.
Init ==
  /\ local \in [v : {0}, t : {"local"}, m : Sections("local")]
  /\ remote \in [v : {0, 1}, t : {"remote"}, m : Sections("remote")]
  /\ copy = NoCopy
  /\ next = 1
  /\ pc = "build"

Total(description) ==
  LET total[i \in 0..Len(description.m)] ==
        IF i = 0 THEN 0 ELSE total[i-1] + Len(description.m[i].fmt)
  IN  total[Len(description.m)]

\* The rate tells the two sides' formats apart.
Formats(rate, args) == [rate : {rate}, args : args]

AddLocal(i) ==
  /\ pc = "build"
  /\ Total(local) < MaxFormats
  /\ \E codec \in Codecs, format \in Formats(1, LocalArgs) :
       local' = [local EXCEPT !.m[i] = AddFormat(@, codec, format)]
  /\ UNCHANGED <<remote, copy, next, pc>>

RemoveLocal(i) ==
  /\ pc = "build"
  /\ \E codec \in Codecs :
       /\ Contains(local.m[i].fmt, codec)
       /\ local' = [local EXCEPT !.m[i] = RemoveFormat(@, codec)]
  /\ UNCHANGED <<remote, copy, next, pc>>

SetLocal(i) ==
  /\ pc = "build"
  /\ \E codec \in Codecs, format \in Formats(1, LocalArgs) :
       /\ Contains(local.m[i].fmt, codec)
       /\ local' = [local EXCEPT !.m[i] = SetFormat(@, codec, format)]
  /\ UNCHANGED <<remote, copy, next, pc>>

AddRemote(i) ==
  /\ pc = "build"
  /\ Total(remote) < MaxFormats
  /\ \E codec \in Codecs, format \in Formats(2, RemoteArgs) :
       remote' = [remote EXCEPT !.m[i] = AddFormat(@, codec, format)]
  /\ UNCHANGED <<local, copy, next, pc>>

\* The copy, the version check, and the timing line.
Begin ==
  /\ pc = "build"
  /\ copy' = local
  /\ IF local.v = remote.v
       THEN local' = [local EXCEPT !.t = remote.t] /\ pc' = "negotiate"
       ELSE local' = local /\ pc' = "refused"
  /\ next' = 1
  /\ UNCHANGED remote

Takers == {i \in DOMAIN local.m : Compatible(local.m[i], remote.m[next])}

\* The first local section that can take the remote one is changed.
NegotiateSection ==
  /\ pc = "negotiate"
  /\ next <= Len(remote.m)
  /\ Takers # {}
  /\ LET i == CHOOSE j \in Takers : \A k \in Takers : j <= k
     IN  local' = [local EXCEPT !.m[i] = Negotiated(@, remote.m[next])]
  /\ next' = next + 1
  /\ UNCHANGED <<remote, copy, pc>>

Refuse ==
  /\ pc = "negotiate"
  /\ next <= Len(remote.m)
  /\ Takers = {}
  /\ local' = copy
  /\ pc' = "refused"
  /\ UNCHANGED <<remote, copy, next>>

Accept ==
  /\ pc = "negotiate"
  /\ next > Len(remote.m)
  /\ pc' = "accepted"
  /\ UNCHANGED <<local, remote, copy, next>>

\* The application goes on with the descriptions, to negotiate again.
Continue ==
  /\ pc \in {"accepted", "refused"}
  /\ pc' = "build"
  /\ copy' = NoCopy
  /\ UNCHANGED <<local, remote, next>>

Next ==
  \/ \E i \in DOMAIN local.m : AddLocal(i) \/ RemoveLocal(i) \/ SetLocal(i)
  \/ \E i \in DOMAIN remote.m : AddRemote(i)
  \/ Begin \/ NegotiateSection \/ Refuse \/ Accept \/ Continue

Spec == Init /\ [][Next]_vars

-----------------------------------------------------------------------------
(* Properties. *)

Attributes ==
  {MidAttr(side) : side \in {"local", "remote"}}
    \cup [type : {"RTPMAP"}, codec : Codecs, value : {1, 2}]
    \cup [type : {"FMTP"}, codec : Codecs, value : (LocalArgs \cup RemoteArgs) \ {NoArgs}]

Media == [kind : Kinds, mid : {"local", "remote"},
          fmt : SeqOf(Codecs, MaxFormats), attrs : Seq(Attributes)]

Description == [v : {0, 1}, t : {"local", "remote"}, m : Seq(Media)]

\* Every variable has its type; no a= line is written for empty arguments, and
\* a negotiation never leaves more formats than the application may add.
TypeOK ==
  /\ {local, remote} \subseteq Description
  /\ copy \in Description \cup {NoCopy}
  /\ next \in 1..(Lines + 1)
  /\ pc \in {"build", "negotiate", "accepted", "refused"}

\* How often a codec is listed in fmt_, and in the RTPMAP lines.
Listed(media, codec) == Cardinality({i \in DOMAIN media.fmt : media.fmt[i] = codec})
Mapped(media, codec) ==
  Cardinality({i \in DOMAIN media.attrs :
    media.attrs[i].type = "RTPMAP" /\ media.attrs[i].codec = codec})

\* The m= line and the a= lines agree, at every step: each codec is listed as
\* often as it has a rate.
AttributesMatchFormats ==
  \A media \in Range(local.m) \cup Range(remote.m) : \A codec \in Codecs :
    Listed(media, codec) = Mapped(media, codec)

\* An accepted description was compatible: same version, and for every remote
\* section a local one of its type and protocol shared a codec with it.
AcceptedOnlyIfCompatible ==
  pc = "accepted" =>
    /\ copy.v = remote.v
    /\ \A offered \in Range(remote.m) : \E media \in Range(copy.m) :
         /\ media.kind = offered.kind
         /\ Range(media.fmt) \cap Range(offered.fmt) # {}

(* One section against one section: what Negotiation() leaves. *)

Single == pc = "accepted" /\ Len(local.m) = 1 /\ Len(remote.m) = 1
Before == copy.m[1]
After == local.m[1]
Remote == remote.m[1]
Shared == Range(Before.fmt) \cap Range(Remote.fmt)

\* Every codec both sides support is listed once, with the remote side's rate
\* and arguments, and the codecs come in the remote side's order of preference.
AgreedFormats ==
  Single =>
    /\ \A codec \in Shared :
         Listed(After, codec) = 1 /\ GetFormat(After, codec) = GetFormat(Remote, codec)
    /\ \A i, j \in DOMAIN After.fmt :
         i < j /\ {After.fmt[i], After.fmt[j]} \subseteq Shared =>
           \E k, l \in DOMAIN Remote.fmt :
             k < l /\ Remote.fmt[k] = After.fmt[i] /\ Remote.fmt[l] = After.fmt[j]

\* Two neighbours that the other side does not support.
HasUnsharedPair(media) ==
  \E i \in 1..(Len(media.fmt) - 1) : {media.fmt[i], media.fmt[i+1]} \cap Shared = {}

\* A codec the remote side does not support is dropped, provided that none of
\* its neighbours is such a codec too.
UnsharedDropped ==
  Single /\ ~HasUnsharedPair(Before) => Range(After.fmt) = Shared

\* Offer and answer converge: the remote side can negotiate against the result
\* in turn, and then lists the same codecs with the same formats.
AnswerConverges ==
  Single /\ ~HasUnsharedPair(Before) /\ ~HasUnsharedPair(Remote) =>
    /\ Compatible(Remote, After)
    /\ LET answer == Negotiated(Remote, After)
       IN  /\ answer.fmt = After.fmt
           /\ \A codec \in Shared : GetFormat(answer, codec) = GetFormat(After, codec)

(* The negotiated description as text. *)

\* A description with the z= line that a signalling message adds to it.
Message(description, z) ==
  [v |-> description.v, o |-> "origin", s |-> "-", t |-> description.t,
   m |-> description.m, z |-> z]

AddSender == <<Word("Add"), Word("Sender")>>

\* sdp.cc:407, tests/sdp.cc:104: a description that was printed is read back as
\* it was, whatever was negotiated, and so prints the same; but of mid_ only
\* what the a= lines say survives, which is not what a negotiation set it to.
ReadAsPrinted ==
  pc = "accepted" =>
    \A z \in {<<>>, AddSender} :
      Parsed(Printed(Message(local, z)), TRUE)
        = [Message(local, z) EXCEPT
             !.m = [i \in DOMAIN @ |-> [@[i] EXCEPT !.mid = "local"]]]

IsBeginning(section, whole) ==
  /\ section.kind = whole.kind /\ section.fmt = whole.fmt
  /\ IsPrefix(section.attrs, whole.attrs)

\* Of a text that is cut behind a line every section before the cut is read, the
\* last one perhaps without its last a= lines; a line whose '\n' is cut off too
\* is read as well, unless it is the one behind a media block.
BeginningKept ==
  pc = "accepted" =>
    LET text == Printed(Message(local, AddSender))
    IN  \A n \in DOMAIN text, ended \in BOOLEAN :
          LET sdp == Parsed(FirstLines(text, n), ended)
              lost == /\ ~ended /\ n > 1
                      /\ text[n].key # "a" /\ text[n-1].key \in {"a", "m"}
              read == FirstLines(text, IF lost THEN n - 1 ELSE n)
          IN  /\ Len(sdp.m) = Cardinality({i \in DOMAIN read : read[i].key = "m"})
              /\ \A i \in DOMAIN sdp.m :
                   IF i < Len(sdp.m) THEN sdp.m[i].attrs = local.m[i].attrs
                   ELSE IsBeginning(sdp.m[i], local.m[i])
              /\ sdp.z = IF Last(read).key = "z" THEN AddSender ELSE <<>>

\* The same where TLC looks: one remote section is enough to negotiate any local
\* one, and the run is faster.
CutKeepsBeginning == Len(remote.m) <= 1 => BeginningKept

(* What a comment of sdp.cc says. *)

\* sdp.cc:295: a negotiation keeps the formats both sides support.
KeepsOnlyShared == Single => Range(After.fmt) = Shared
=============================================================================
