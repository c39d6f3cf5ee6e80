----------------------------- MODULE CodecProofs -----------------------------
(***************************************************************************)
(* Proofs about Codec for every file, every decoder's delay and every      *)
(* frame that fails.                                                       *)
(***************************************************************************)
EXTENDS Codec, SequenceTheorems, FiniteSetTheorems, TLAPS

Frames == [serial : Nat, whole : BOOLEAN]

TypeInv ==
  /\ file \in Seq(Packets)
  /\ packet \in Packets \cup {Flush}
  /\ isOpen \in BOOLEAN /\ draining \in BOOLEAN
  /\ line \in Seq(Frames) /\ decoded \in Seq(Frames) /\ wanted \in Seq(Frames)
  /\ refused \in Nat /\ errors \in Nat /\ failures \in Nat
  /\ pc \in {"start", "found", "read", "send", "receive", "done", "crashed"}

\* The frames of the packet that is about to be sent.
Ahead == IF pc = "send" THEN Len(packet.frames) ELSE 0

\* Frames are numbered in the order in which they were read, and those in the
\* decoder come behind those it gave.
InOrder ==
  /\ \A i \in 1..Len(wanted) : wanted[i].serial = i
  /\ Ahead <= Len(wanted)
  /\ \A i \in 1..Len(line) : line[i].serial \in 1..(Len(wanted) - Ahead)
  /\ \A i, j \in 1..Len(line) : i < j => line[i].serial < line[j].serial
  /\ \A i \in 1..Len(decoded) : decoded[i].serial <= Len(wanted) - Ahead
  /\ \A i, j \in 1..Len(decoded) :
       i < j /\ decoded[i] # Empty /\ decoded[j] # Empty =>
         decoded[i].serial < decoded[j].serial
  /\ \A i \in 1..Len(decoded), j \in 1..Len(line) : decoded[i].serial < line[j].serial

\* As long as nothing failed, what the decoder gave and holds is what was read.
NothingLost ==
  failures = 0 /\ errors = 0 /\ isOpen =>
    /\ Len(decoded) + Len(line) + Ahead = Len(wanted)
    /\ \A i \in 1..Len(decoded) : decoded[i] = wanted[i]
    /\ \A i \in 1..Len(line) : line[i] = wanted[Len(decoded) + i]

\* A decoder that is not open gives nothing.
ClosedDecoder ==
  /\ ~isOpen => line = <<>> /\ (failures = 0 => decoded = <<>> /\ pc # "done")
  /\ pc \in {"start", "found"} => wanted = <<>> /\ decoded = <<>> /\ line = <<>>
                                  /\ failures = 0 /\ refused = 0 /\ errors = 0 /\ ~isOpen

\* Between two packets the decoder has no frame to give, unless one failed: a
\* packet it does not accept is paid for by a failure.
Refusals ==
  /\ refused <= failures
  /\ HasFrame /\ pc \in {"read", "send"} => refused < failures

\* The end of the file.
Drained ==
  /\ draining => pc \in {"receive", "done"} /\ packet = Flush
  /\ isOpen /\ pc \in {"receive", "done"} /\ packet = Flush => draining
  /\ pc = "done" => packet = Flush
  /\ pc = "done" /\ line # <<>> => failures # 0 /\ Last(decoded) = Empty

FailuresCounted ==
  Cardinality({i \in DOMAIN decoded : decoded[i] = Empty}) = failures

IInv ==
  /\ TypeInv /\ InOrder /\ NothingLost /\ ClosedDecoder
  /\ Refusals /\ Drained /\ FailuresCounted

-----------------------------------------------------------------------------
(* Frames and packets. *)

\* A packet holds frames, and is not the flush.
LEMMA PacketFrames ==
  ASSUME NEW p \in Packets
  PROVE  /\ p.frames \in Seq(BOOLEAN) /\ p.frames # <<>> /\ Len(p.frames) \in Nat \ {0}
         /\ DOMAIN p.frames = 1..Len(p.frames)
         /\ p # Flush
<1>1. CASE p \in [stream : {"video"}, frames : SeqOf(BOOLEAN, MaxFrames) \ {<<>>}]
  <2>1. p.frames \in Seq(BOOLEAN) /\ p.frames # <<>> /\ p.stream = "video"
    BY <1>1, SizesNat DEF SeqOf
  <2>. QED  BY <2>1, EmptySeq DEF Flush
<1>2. CASE p \in [stream : {"audio"}, frames : {<<TRUE>>}]
  <2>1. p.frames = <<TRUE>> /\ p.stream = "audio"
    BY <1>2
  <2>. QED  BY <2>1 DEF Flush
<1>. QED  BY <1>1, <1>2 DEF Packets

\* What the invariant says of the frames ahead.
LEMMA AheadNat ==
  ASSUME TypeInv
  PROVE  Ahead \in Nat
BY PacketFrames DEF TypeInv, Ahead, Flush

LEMMA DecodedSerials ==
  ASSUME TypeInv
  PROVE  \A i \in 1..Len(decoded) : decoded[i] \in Frames /\ decoded[i].serial \in Nat
<1>1. \A i \in 1..Len(decoded) : decoded[i] \in Frames
  BY ElementOfSeq DEF TypeInv
<1>. QED  BY <1>1 DEF Frames

\* The empty frame counts as a failed one, a frame that was read does not.
LEMMA AppendCounted ==
  ASSUME NEW s \in Seq(Frames), NEW frame \in Frames
  PROVE  LET fails(t) == {i \in DOMAIN t : t[i] = Empty}
         IN  Cardinality(fails(Append(s, frame)))
               = IF frame = Empty THEN Cardinality(fails(s)) + 1 ELSE Cardinality(fails(s))
<1>. DEFINE t == Append(s, frame)
            old == {i \in DOMAIN s : s[i] = Empty}
            new == {i \in DOMAIN t : t[i] = Empty}
<1>1. /\ t \in Seq(Frames) /\ Len(t) = Len(s) + 1 /\ Len(s) \in Nat
      /\ DOMAIN s = 1..Len(s) /\ DOMAIN t = 1..(Len(s) + 1)
      /\ \A i \in 1..Len(s) : t[i] = s[i]
      /\ t[Len(s) + 1] = frame
  BY AppendProperties, LenProperties
<1>2. IsFiniteSet(old)
  <2>1. old \in SUBSET (1..Len(s)) /\ IsFiniteSet(1..Len(s))
    BY <1>1, FS_Interval
  <2>. QED  BY <2>1, FS_Subset
<1>3. new = IF frame = Empty THEN old \cup {Len(s) + 1} ELSE old
  <2>. HIDE DEF t
  <2>. QED  BY <1>1
<1>4. Len(s) + 1 \notin old
  BY <1>1
<1>5. Cardinality(old \cup {Len(s) + 1}) = Cardinality(old) + 1
  <2>. HIDE DEF old
  <2>. QED  BY <1>2, <1>4, FS_AddElement
<1>. QED  BY <1>3, <1>5

-----------------------------------------------------------------------------
LEMMA InitIInv == Init => IInv
<1>. SUFFICES ASSUME Init  PROVE IInv
  OBVIOUS
<1>. USE DEF Init
<1>1. file \in Seq(Packets)
  BY SizesNat DEF SeqOf
<1>2. TypeInv
  BY <1>1, EmptySeq DEF TypeInv
<1>3. InOrder /\ NothingLost /\ ClosedDecoder /\ Refusals /\ Drained
  BY DEF InOrder, Ahead, NothingLost, ClosedDecoder, Refusals, Drained
<1>4. FailuresCounted
  <2>1. {i \in DOMAIN decoded : decoded[i] = Empty} = {}
    OBVIOUS
  <2>. QED  BY <2>1, FS_EmptySet DEF FailuresCounted
<1>. QED  BY <1>2, <1>3, <1>4 DEF IInv

\* Setting up, and encoding, which never gives anything (codec.cc).
LEMMA SetUpIInv ==
  ASSUME IInv, InitInCtx \/ CopyParamsFromStream \/ EncodeFrame
  PROVE  IInv'
<1>. USE DEF IInv
<1>0. /\ UNCHANGED <<file, packet, line, draining, decoded, wanted, refused, errors, failures>>
      /\ Ahead' = Ahead
  BY DEF InitInCtx, CopyParamsFromStream, EncodeFrame, Ahead
<1>1. TypeInv' /\ ClosedDecoder'
  BY DEF InitInCtx, CopyParamsFromStream, EncodeFrame, TypeInv, ClosedDecoder
<1>4. InOrder' /\ FailuresCounted'
  BY <1>0 DEF InOrder, FailuresCounted
<1>2. NothingLost'
  <2>1. CASE InitInCtx \/ EncodeFrame
    BY <2>1 DEF InitInCtx, EncodeFrame, NothingLost, Ahead
  <2>2. CASE CopyParamsFromStream
    BY <2>2 DEF CopyParamsFromStream, NothingLost, Ahead, ClosedDecoder
  <2>. QED  BY <2>1, <2>2
<1>3. Refusals' /\ Drained'
  BY DEF InitInCtx, CopyParamsFromStream, EncodeFrame, TypeInv, Refusals, HasFrame, Drained,
         ClosedDecoder
<1>. QED  BY <1>1, <1>2, <1>3, <1>4

\* GetNextPacket(): the frames of a packet join those that are wanted.
LEMMA GetNextPacketIInv ==
  ASSUME IInv, GetNextPacket
  PROVE  IInv'
<1>. USE DEF IInv
<1>1. /\ UNCHANGED <<isOpen, line, draining, decoded, refused, errors, failures>>
      /\ pc = "read" /\ Ahead = 0
  BY DEF GetNextPacket, Ahead
<1>2. CASE UNCHANGED <<packet, pc, wanted>> /\ file # <<>> /\ file' = Tail(file)
  <2>1. Ahead' = Ahead
    BY <1>2 DEF Ahead
  <2>2. TypeInv' /\ InOrder' /\ NothingLost'
    <3>1. file' \in Seq(Packets)
      BY <1>2 DEF TypeInv
    <3>2. TypeInv'
      BY <1>1, <1>2, <3>1 DEF TypeInv
    <3>3. InOrder'
      BY <1>1, <1>2, <2>1 DEF InOrder
    <3>4. NothingLost'
      BY <1>1, <1>2, <2>1 DEF NothingLost
    <3>. QED  BY <3>2, <3>3, <3>4
  <2>3. ClosedDecoder' /\ Refusals' /\ Drained' /\ FailuresCounted'
    BY <1>1, <1>2 DEF ClosedDecoder, Refusals, HasFrame, Drained, FailuresCounted
  <2>. QED  BY <2>2, <2>3
<1>3. CASE /\ file = <<>> /\ packet' = Flush /\ pc' = "send"
           /\ UNCHANGED <<file, wanted>>
  <2>1. Ahead' = 0
    BY <1>3 DEF Ahead, Flush
  <2>. QED
    BY <1>1, <1>3, <2>1 DEF TypeInv, InOrder, NothingLost, ClosedDecoder, Refusals, HasFrame,
       Drained, FailuresCounted
<1>4. CASE /\ file # <<>> /\ packet' = Head(file) /\ file' = Tail(file) /\ pc' = "send"
           /\ wanted' = wanted \o [i \in DOMAIN packet'.frames |->
                          [serial |-> Len(wanted) + i, whole |-> packet'.frames[i]]]
  <2>. DEFINE new == [i \in DOMAIN packet'.frames |->
                        [serial |-> Len(wanted) + i, whole |-> packet'.frames[i]]]
              k == Len(packet'.frames)
  <2>1. packet' \in Packets /\ file' \in Seq(Packets)
    BY <1>4 DEF TypeInv
  <2>2. packet'.frames \in Seq(BOOLEAN) /\ k \in Nat /\ DOMAIN packet'.frames = 1..k
    BY <2>1, PacketFrames
  <2>3. new \in Seq(Frames) /\ Len(new) = k /\ \A i \in 1..k : new[i].serial = Len(wanted) + i
    <3>1. \A i \in 1..k : packet'.frames[i] \in BOOLEAN
      BY <2>2
    <3>2. \A i \in 1..k : new[i] = [serial |-> Len(wanted) + i, whole |-> packet'.frames[i]]
      BY <2>2
    <3>3. \A i \in 1..k : new[i] \in Frames
      BY <2>2, <3>1, <3>2 DEF TypeInv, Frames
    <3>4. new \in [1..k -> Frames]
      BY <2>2, <3>3
    <3>. QED  BY <2>2, <3>2, <3>4
  <2>. HIDE DEF new
  <2>4. /\ wanted' \in Seq(Frames) /\ Len(wanted') = Len(wanted) + k
        /\ \A i \in 1..Len(wanted) : wanted'[i] = wanted[i]
        /\ \A i \in 1..k : wanted'[Len(wanted) + i] = new[i]
    <3>1. wanted' = wanted \o new /\ wanted \in Seq(Frames) /\ Len(wanted) \in Nat
      BY <1>4 DEF TypeInv, new
    <3>2. wanted' \in Seq(Frames) /\ Len(wanted') = Len(wanted) + k
      <4>. HIDE DEF k
      <4>1. wanted \o new \in Seq(Frames) /\ Len(wanted \o new) = Len(wanted) + Len(new)
        BY <2>3, <3>1, ConcatProperties
      <4>. QED  BY <2>3, <3>1, <4>1
    <3>3. \A i \in 1..(Len(wanted) + k) :
            wanted'[i] = IF i <= Len(wanted) THEN wanted[i] ELSE new[i - Len(wanted)]
      BY <2>2, <2>3, <3>1
    <3>4. ASSUME NEW i \in 1..k  PROVE wanted'[Len(wanted) + i] = new[i]
      <4>1. Len(wanted) + i \in 1..(Len(wanted) + k) /\ ~(Len(wanted) + i <= Len(wanted))
            /\ (Len(wanted) + i) - Len(wanted) = i
        BY <2>2, <3>1
      <4>. QED  BY <3>3, <4>1
    <3>. QED  BY <2>2, <3>1, <3>2, <3>3, <3>4
  <2>5. Ahead' = k
    BY <1>4 DEF Ahead
  <2>6. TypeInv'
    BY <1>1, <1>4, <2>1, <2>4 DEF TypeInv
  <2>7. \A i \in 1..Len(wanted') : wanted'[i].serial = i
    <3>. SUFFICES ASSUME NEW i \in 1..Len(wanted')  PROVE wanted'[i].serial = i
      OBVIOUS
    <3>1. CASE i <= Len(wanted)
      BY <2>4, <3>1 DEF InOrder, TypeInv
    <3>2. CASE i > Len(wanted)
      <4>1. i - Len(wanted) \in 1..k /\ i = Len(wanted) + (i - Len(wanted))
        BY <2>2, <2>4, <3>2 DEF TypeInv
      <4>2. wanted'[i] = new[i - Len(wanted)]
        BY <2>4, <4>1
      <4>. QED  BY <2>3, <4>1, <4>2
    <3>. QED  BY <2>2, <2>4, <3>1, <3>2 DEF TypeInv
  <2>8. InOrder'
    BY <1>1, <2>2, <2>4, <2>5, <2>7 DEF InOrder, TypeInv
  <2>9. NothingLost'
    <3>. SUFFICES ASSUME failures = 0, errors = 0, isOpen
                  PROVE  /\ Len(decoded) + Len(line) + k = Len(wanted')
                         /\ \A i \in 1..Len(decoded) : decoded[i] = wanted'[i]
                         /\ \A i \in 1..Len(line) : line[i] = wanted'[Len(decoded) + i]
      BY <1>1, <2>5 DEF NothingLost
    <3>1. Len(decoded) \in Nat /\ Len(line) \in Nat /\ Len(wanted) = Len(decoded) + Len(line)
      BY <1>1 DEF NothingLost, TypeInv
    <3>2. \A i \in 1..Len(decoded) : i \in 1..Len(wanted)
      BY <3>1
    <3>3. \A i \in 1..Len(line) : Len(decoded) + i \in 1..Len(wanted)
      BY <3>1
    <3>. QED  BY <2>2, <2>4, <3>1, <3>2, <3>3 DEF NothingLost
  <2>10. ClosedDecoder' /\ Refusals' /\ Drained' /\ FailuresCounted'
    BY <1>1, <1>4 DEF ClosedDecoder, Refusals, HasFrame, Drained, FailuresCounted
  <2>. QED  BY <2>6, <2>8, <2>9, <2>10
<1>. QED  BY <1>2, <1>3, <1>4 DEF GetNextPacket

\* The line a decoder has once it has taken a packet continues what it gave.
Continues(frames) ==
  /\ frames \in Seq(Frames)
  /\ \A i \in 1..Len(frames) : frames[i].serial \in 1..Len(wanted)
  /\ \A i, j \in 1..Len(frames) : i < j => frames[i].serial < frames[j].serial
  /\ \A i \in 1..Len(decoded), j \in 1..Len(frames) : decoded[i].serial < frames[j].serial

\* The frames are all that is left of those that are wanted.
IsRest(frames) ==
  /\ Len(decoded) + Len(frames) = Len(wanted)
  /\ \A i \in 1..Len(decoded) : decoded[i] = wanted[i]
  /\ \A i \in 1..Len(frames) : frames[i] = wanted[Len(decoded) + i]

\* What avcodec_send_packet() adds to the line: the frames just read.
LEMMA ExtendedContinues ==
  ASSUME IInv, pc = "send"
  PROVE  /\ Extended \in Seq(Frames)
         /\ Continues(Extended)
         /\ failures = 0 /\ errors = 0 /\ isOpen => IsRest(Extended)
<1>. USE DEF IInv
<1>. DEFINE k == Len(packet.frames)
            new == SubSeq(wanted, Len(wanted) - k + 1, Len(wanted))
<1>1. Ahead = k
  BY DEF Ahead
<1>2. k \in Nat /\ Len(wanted) \in Nat /\ k <= Len(wanted) /\ wanted \in Seq(Frames)
  BY <1>1, AheadNat DEF TypeInv, InOrder
<1>. HIDE DEF k
<1>3. /\ new \in Seq(Frames) /\ Len(new) = k
      /\ \A i \in 1..k : new[i] = wanted[Len(wanted) - k + i]
  <2>1. CASE k = 0
    <3>1. new = <<>>
      BY <1>2, <2>1, SubSeqEmpty
    <3>. QED  BY <2>1, <3>1, EmptySeq
  <2>2. CASE k # 0
    <3>1. \A i \in (Len(wanted) - k + 1)..Len(wanted) : wanted[i] \in Frames
      BY <1>2
    <3>2. Len(wanted) - k + 1 \in Int /\ Len(wanted) \in Int
          /\ Len(wanted) - (Len(wanted) - k + 1) + 1 = k
          /\ Len(wanted) - k + 1 <= Len(wanted)
      BY <1>2, <2>2
    <3>3. /\ new \in Seq(Frames) /\ Len(new) = k
          /\ \A i \in 1..k : new[i] = wanted[(Len(wanted) - k + 1) + i - 1]
      BY <3>1, <3>2, SubSeqProperties
    <3>4. \A i \in 1..k : (Len(wanted) - k + 1) + i - 1 = Len(wanted) - k + i
      BY <1>2
    <3>. QED  BY <3>3, <3>4
  <2>. QED  BY <2>1, <2>2
<1>4. PICK frames : frames = Extended
  OBVIOUS
<1>5. frames = line \o new
  BY <1>4 DEF Extended, k
<1>. HIDE DEF new
<1>6. /\ frames \in Seq(Frames) /\ Len(frames) = Len(line) + k /\ Len(line) \in Nat
      /\ \A i \in 1..(Len(line) + k) :
           frames[i] = IF i <= Len(line) THEN line[i] ELSE new[i - Len(line)]
  <2>1. line \in Seq(Frames)
    BY DEF TypeInv
  <2>2. /\ line \o new \in Seq(Frames) /\ Len(line \o new) = Len(line) + Len(new)
        /\ \A i \in 1..(Len(line) + Len(new)) :
             (line \o new)[i] = IF i <= Len(line) THEN line[i] ELSE new[i - Len(line)]
    BY <1>3, <2>1, ConcatProperties
  <2>3. Len(line) \in Nat
    BY <2>1, LenProperties
  <2>. QED  BY <1>3, <1>5, <2>2, <2>3
<1>7. \A i \in 1..(Len(line) + k) :
        frames[i] = IF i <= Len(line) THEN line[i]
                    ELSE wanted[Len(wanted) - k + (i - Len(line))]
  <2>. SUFFICES ASSUME NEW i \in 1..(Len(line) + k), ~(i <= Len(line))
                PROVE  frames[i] = wanted[Len(wanted) - k + (i - Len(line))]
    BY <1>6
  <2>1. i - Len(line) \in 1..k
    BY <1>2, <1>6
  <2>2. frames[i] = new[i - Len(line)]
    BY <1>6
  <2>. QED  BY <1>3, <2>1, <2>2
<1>8. \A i \in 1..Len(frames) :
        frames[i].serial = IF i <= Len(line) THEN line[i].serial
                           ELSE Len(wanted) - k + (i - Len(line))
  BY <1>2, <1>6, <1>7 DEF InOrder
<1>9. Continues(frames)
  <2>1. \A i \in 1..Len(line) : line[i].serial \in 1..(Len(wanted) - k)
    BY <1>1 DEF InOrder
  <2>2. \A i \in 1..Len(frames) : frames[i].serial \in 1..Len(wanted)
    BY <1>2, <1>6, <1>8, <2>1
  <2>3. ASSUME NEW i \in 1..Len(frames), NEW j \in 1..Len(frames), i < j
        PROVE  frames[i].serial < frames[j].serial
    <3>1. CASE j <= Len(line)
      BY <1>6, <1>8, <2>3, <3>1 DEF InOrder
    <3>2. CASE i <= Len(line) /\ j > Len(line)
      <4>1. frames[i].serial \in 1..(Len(wanted) - k)
        BY <1>6, <1>8, <2>1, <3>2
      <4>2. frames[j].serial = Len(wanted) - k + (j - Len(line)) /\ j - Len(line) >= 1
        BY <1>6, <1>8, <3>2
      <4>. QED  BY <1>2, <4>1, <4>2
    <3>3. CASE i > Len(line)
      <4>1. /\ frames[i].serial = Len(wanted) - k + (i - Len(line))
            /\ frames[j].serial = Len(wanted) - k + (j - Len(line))
        BY <1>6, <1>8, <2>3, <3>3
      <4>. QED  BY <1>2, <1>6, <2>3, <4>1
    <3>. QED  BY <1>6, <3>1, <3>2, <3>3
  <2>4. ASSUME NEW i \in 1..Len(decoded), NEW j \in 1..Len(frames)
        PROVE  decoded[i].serial < frames[j].serial
    <3>1. CASE j <= Len(line)
      BY <1>6, <1>8, <3>1 DEF InOrder
    <3>2. CASE j > Len(line)
      <4>1. decoded[i].serial \in Nat /\ decoded[i].serial <= Len(wanted) - k
        BY <1>1, DecodedSerials DEF InOrder
      <4>2. frames[j].serial = Len(wanted) - k + (j - Len(line)) /\ j - Len(line) >= 1
        BY <1>6, <1>8, <3>2
      <4>3. Len(wanted) - k \in Nat /\ j - Len(line) \in Nat
        BY <1>2, <1>6, <3>2
      <4>. QED  BY <4>1, <4>2, <4>3
    <3>. QED  BY <1>6, <3>1, <3>2
  <2>. QED  BY <1>6, <2>2, <2>3, <2>4 DEF Continues
<1>10. failures = 0 /\ errors = 0 /\ isOpen => IsRest(frames)
  <2>. SUFFICES ASSUME failures = 0, errors = 0, isOpen
                PROVE  /\ Len(decoded) + Len(frames) = Len(wanted)
                       /\ \A i \in 1..Len(decoded) : decoded[i] = wanted[i]
                       /\ \A i \in 1..Len(frames) : frames[i] = wanted[Len(decoded) + i]
    BY DEF IsRest
  <2>1. Len(decoded) \in Nat /\ Len(decoded) + Len(line) + k = Len(wanted)
    BY <1>1 DEF NothingLost, TypeInv
  <2>2. \A i \in 1..Len(decoded) : decoded[i] = wanted[i]
    BY DEF NothingLost
  <2>3. ASSUME NEW i \in 1..Len(frames)  PROVE frames[i] = wanted[Len(decoded) + i]
    <3>1. CASE i <= Len(line)
      BY <1>6, <1>7, <3>1 DEF NothingLost
    <3>2. CASE i > Len(line)
      <4>1. i \in Nat /\ Len(wanted) - k = Len(decoded) + Len(line)
        BY <1>2, <1>6, <2>1
      <4>2. Len(wanted) - k + (i - Len(line)) = Len(decoded) + i
        BY <1>2, <1>6, <2>1, <4>1
      <4>. QED  BY <1>6, <1>7, <3>2, <4>2
    <3>. QED  BY <1>6, <3>1, <3>2
  <2>. QED  BY <1>2, <1>6, <2>1, <2>2, <2>3
<1>. QED  BY <1>4, <1>6, <1>9, <1>10

\* avcodec_send_packet(): the frames of the packet go into the decoder, which may
\* fail at one of them, or the packet is lost.
LEMMA SendPacketIInv ==
  ASSUME IInv, SendPacket
  PROVE  IInv'
<1>. USE DEF IInv
<1>1. /\ UNCHANGED <<file, isOpen, packet, decoded, wanted, failures>>
      /\ pc = "send" /\ pc' = "receive" /\ Ahead' = 0
  BY DEF SendPacket, Ahead
<1>2. /\ Len(wanted) \in Nat /\ Len(decoded) \in Nat /\ Ahead \in Nat /\ Ahead <= Len(wanted)
      /\ refused \in Nat /\ errors \in Nat /\ failures \in Nat /\ errors' \in Nat
  BY AheadNat DEF TypeInv, InOrder, SendPacket, PacketTaken, FrameFailsInSend, PacketRefused,
                  SendFails
<1>3. \A i \in 1..Len(decoded) : decoded[i].serial \in Nat /\ decoded[i].serial <= Len(wanted)
  <2>1. \A i \in 1..Len(decoded) :
          decoded[i].serial \in Nat /\ decoded[i].serial <= Len(wanted) - Ahead
    BY DecodedSerials DEF InOrder
  <2>. QED  BY <1>2, <2>1
<1>4. ASSUME Continues(line'), failures = 0 /\ errors' = 0 /\ isOpen => IsRest(line'),
             refused' \in Nat, draining' \in BOOLEAN
      PROVE  TypeInv' /\ InOrder' /\ NothingLost' /\ FailuresCounted'
  <2>1. TypeInv'
    BY <1>1, <1>2, <1>4 DEF TypeInv, Continues
  <2>2. InOrder'
    BY <1>1, <1>2, <1>3, <1>4 DEF InOrder, Continues
  <2>3. NothingLost'
    <3>. SUFFICES ASSUME failures = 0, errors' = 0, isOpen
                  PROVE  /\ Len(decoded) + Len(line') + Ahead' = Len(wanted)
                         /\ \A i \in 1..Len(decoded) : decoded[i] = wanted[i]
                         /\ \A i \in 1..Len(line') : line'[i] = wanted[Len(decoded) + i]
      BY <1>1 DEF NothingLost
    <3>1. IsRest(line')
      BY <1>4
    <3>2. Len(line') \in Nat
      BY <1>4, LenProperties DEF Continues
    <3>. QED  BY <1>1, <1>2, <3>1, <3>2 DEF IsRest
  <2>4. FailuresCounted'
    BY <1>1 DEF FailuresCounted
  <2>. QED  BY <2>1, <2>2, <2>3, <2>4
<1>5. /\ Extended \in Seq(Frames)
      /\ Continues(Extended)
      /\ failures = 0 /\ errors = 0 /\ isOpen => IsRest(Extended)
  BY <1>1, ExtendedContinues
<1>6. CASE PacketTaken
  <2>1. /\ isOpen /\ line' = Extended /\ draining' = (packet = Flush)
        /\ UNCHANGED <<refused, errors>>
    BY <1>6 DEF PacketTaken
  <2>2. TypeInv' /\ InOrder' /\ NothingLost' /\ FailuresCounted'
    <3>1. Continues(line') /\ (failures = 0 /\ errors' = 0 /\ isOpen => IsRest(line'))
      BY <1>5, <2>1
    <3>2. refused' \in Nat /\ draining' \in BOOLEAN
      BY <1>2, <2>1
    <3>. QED  BY <1>4, <3>1, <3>2
  <2>3. ClosedDecoder' /\ Refusals' /\ Drained'
    BY <1>1, <2>1 DEF ClosedDecoder, Refusals, Drained
  <2>. QED  BY <2>2, <2>3
<1>7. CASE FrameFailsInSend
  <2>1. /\ isOpen /\ Extended # <<>> /\ line' = Tail(Extended)
        /\ draining' = (packet = Flush) /\ refused' = refused /\ errors' = errors + 1
    BY <1>7 DEF FrameFailsInSend, DecodesAhead
  <2>2. PICK frames \in Seq(Frames) : frames = Extended
    BY <1>5
  <2>3. /\ line' \in Seq(Frames) /\ Len(line') \in Nat /\ Len(frames) \in Nat
        /\ Len(line') = Len(frames) - 1
        /\ \A i \in 1..Len(line') : line'[i] = frames[i + 1]
    BY <2>1, <2>2, HeadTailProperties, LenProperties
  <2>4. \A i \in 1..Len(line') : i + 1 \in 1..Len(frames) /\ line'[i] = frames[i + 1]
    BY <2>3
  <2>5. Continues(line')
    <3>1. \A i, j \in 1..Len(line') : i < j => line'[i].serial < line'[j].serial
      <4>. SUFFICES ASSUME NEW i \in 1..Len(line'), NEW j \in 1..Len(line'), i < j
                    PROVE  line'[i].serial < line'[j].serial
        OBVIOUS
      <4>1. i + 1 < j + 1
        BY <2>3
      <4>. QED  BY <1>5, <2>2, <2>4, <4>1 DEF Continues
    <3>2. /\ \A i \in 1..Len(line') : line'[i].serial \in 1..Len(wanted)
          /\ \A i \in 1..Len(decoded), j \in 1..Len(line') :
               decoded[i].serial < line'[j].serial
      BY <1>5, <2>2, <2>4 DEF Continues
    <3>. QED  BY <2>3, <3>1, <3>2 DEF Continues
  <2>6. errors' # 0
    BY <1>2, <2>1
  <2>7. TypeInv' /\ InOrder' /\ NothingLost' /\ FailuresCounted'
    <3>1. refused' \in Nat /\ draining' \in BOOLEAN
      BY <1>2, <2>1
    <3>. QED  BY <1>4, <2>5, <2>6, <3>1
  <2>8. ClosedDecoder' /\ Refusals' /\ Drained'
    BY <1>1, <2>1 DEF ClosedDecoder, Refusals, Drained
  <2>. QED  BY <2>7, <2>8
<1>8. CASE PacketRefused \/ SendFails
  <2>1. /\ UNCHANGED <<line, draining>>
        /\ refused' \in {refused, refused + 1} /\ errors' \in {errors, errors + 1}
        /\ packet = Flush => ~isOpen
        /\ refused' = refused + 1 => HasFrame /\ isOpen /\ errors' = errors
        /\ refused' = refused => errors' = errors + 1
    BY <1>2, <1>8 DEF PacketRefused, SendFails
  <2>2. Continues(line')
    <3>1. \A i \in 1..Len(line) : line[i].serial \in 1..(Len(wanted) - Ahead)
      BY DEF InOrder
    <3>2. \A i \in 1..Len(line) : line[i].serial \in 1..Len(wanted)
      BY <1>2, <3>1
    <3>. QED  BY <2>1, <3>2 DEF Continues, InOrder, TypeInv
  <2>3. Refusals'
    BY <1>1, <1>2, <2>1 DEF Refusals
  <2>4. failures = 0 /\ errors' = 0 /\ isOpen => FALSE
    BY <1>1, <1>2, <2>1 DEF Refusals
  <2>5. TypeInv' /\ InOrder' /\ NothingLost' /\ FailuresCounted'
    BY <1>2, <1>4, <2>1, <2>2, <2>4 DEF TypeInv
  <2>6. ClosedDecoder' /\ Drained'
    BY <1>1, <2>1 DEF ClosedDecoder, Drained
  <2>. QED  BY <2>3, <2>5, <2>6
<1>. QED  BY <1>6, <1>7, <1>8 DEF SendPacket

\* One turn of DecodeFrame's loop: a frame, a failure, or nothing to give.
LEMMA ReceiveIInv ==
  ASSUME IInv, Receive
  PROVE  IInv'
<1>. USE DEF IInv
<1>1. /\ UNCHANGED <<file, isOpen, draining, packet, wanted, refused, errors>>
      /\ pc = "receive" /\ pc' \in {"receive", "read", "done"}
      /\ Ahead = 0 /\ Ahead' = 0
  BY DEF Receive, ReceiveFrame, ReceiveFails, NeedsInput, LeaveLoop, Ahead
<1>2. /\ line \in Seq(Frames) /\ decoded \in Seq(Frames) /\ wanted \in Seq(Frames)
      /\ Len(line) \in Nat /\ Len(decoded) \in Nat /\ Len(wanted) \in Nat
      /\ failures \in Nat /\ refused \in Nat /\ errors \in Nat
  BY DEF TypeInv
<1>3. CASE NeedsInput
  <2>1. /\ UNCHANGED <<line, decoded, failures>> /\ isOpen /\ ~HasFrame
        /\ pc' = IF packet = Flush THEN "done" ELSE "read"
    BY <1>3 DEF NeedsInput, LeaveLoop
  <2>2. TypeInv' /\ InOrder' /\ NothingLost' /\ FailuresCounted'
    BY <1>1, <2>1 DEF TypeInv, InOrder, NothingLost, FailuresCounted
  <2>3. ClosedDecoder' /\ Refusals' /\ Drained'
    BY <1>1, <2>1 DEF ClosedDecoder, Refusals, Drained, HasFrame
  <2>. QED  BY <2>2, <2>3
<1>4. CASE HasFrame /\ ReceiveFrame
  <2>1. /\ isOpen /\ line # <<>> /\ Head(line).whole
        /\ decoded' = Append(decoded, Head(line)) /\ line' = Tail(line)
        /\ UNCHANGED <<pc, failures>>
    BY <1>4 DEF ReceiveFrame, HasFrame, ClosedDecoder
  <2>2. /\ Head(line) = line[1] /\ line[1] \in Frames /\ line[1].serial >= 1
        /\ line[1] # Empty
        /\ line' \in Seq(Frames) /\ Len(line') = Len(line) - 1
        /\ \A i \in 1..Len(line') : line'[i] = line[i + 1]
    <3>1. Len(line) >= 1 /\ 1 \in 1..Len(line)
      BY <1>2, <2>1
    <3>2. line[1].serial >= 1 /\ line[1] \in Frames
      BY <1>2, <3>1 DEF InOrder
    <3>. QED  BY <1>2, <2>1, <3>1, <3>2, HeadTailProperties DEF Empty
  <2>3. /\ decoded' \in Seq(Frames) /\ Len(decoded') = Len(decoded) + 1
        /\ \A i \in 1..Len(decoded) : decoded'[i] = decoded[i]
        /\ decoded'[Len(decoded) + 1] = line[1]
    BY <1>2, <2>1, <2>2, AppendProperties
  <2>4. TypeInv'
    BY <1>1, <2>1, <2>2, <2>3 DEF TypeInv
  <2>5. InOrder'
    <3>1. \A i \in 1..Len(line') : i + 1 \in 1..Len(line) /\ line'[i] = line[i + 1]
      BY <1>2, <2>2
    <3>2. 1 \in 1..Len(line) /\ \A i \in 1..Len(line) : line[i].serial \in 1..Len(wanted)
      BY <1>1, <1>2, <2>2 DEF InOrder
    <3>3. \A i, j \in 1..Len(line) : i < j => line[i].serial < line[j].serial
      BY DEF InOrder
    <3>4. \A i, j \in 1..Len(line') : i < j => line'[i].serial < line'[j].serial
      <4>. SUFFICES ASSUME NEW i \in 1..Len(line'), NEW j \in 1..Len(line'), i < j
                    PROVE  line'[i].serial < line'[j].serial
        OBVIOUS
      <4>1. i + 1 < j + 1
        BY <1>2, <2>2
      <4>. QED  BY <3>1, <3>3, <4>1
    <3>5. /\ \A i \in 1..Len(decoded) : decoded'[i].serial < line[1].serial
          /\ \A i \in 1..Len(decoded) : decoded'[i].serial \in Nat
      BY <2>3, <3>2, DecodedSerials DEF InOrder
    <3>6. \A i \in 1..Len(decoded') : i \in 1..Len(decoded) \/ i = Len(decoded) + 1
      BY <1>2, <2>3
    <3>7. \A i \in 1..Len(decoded') : decoded'[i].serial <= line[1].serial
      BY <2>3, <3>2, <3>5, <3>6
    <3>8. ASSUME NEW i \in 1..Len(decoded'), NEW j \in 1..Len(decoded'), i < j,
                 decoded'[i] # Empty, decoded'[j] # Empty
          PROVE  decoded'[i].serial < decoded'[j].serial
      <4>1. i \in 1..Len(decoded)
        BY <1>2, <2>3, <3>8
      <4>2. CASE j \in 1..Len(decoded)
        BY <2>3, <3>8, <4>1, <4>2 DEF InOrder
      <4>3. CASE j = Len(decoded) + 1
        BY <2>3, <3>5, <4>1, <4>3
      <4>. QED  BY <3>6, <4>2, <4>3
    <3>9. \A i \in 1..Len(decoded'), j \in 1..Len(line') : decoded'[i].serial < line'[j].serial
      <4>1. \A j \in 1..Len(line') : line'[j].serial \in Nat /\ line[1].serial < line'[j].serial
        BY <1>2, <3>1, <3>2, <3>3
      <4>2. \A i \in 1..Len(decoded') : decoded'[i].serial \in Nat
        BY <2>3, <3>2, <3>5, <3>6
      <4>. QED  BY <3>2, <3>7, <4>1, <4>2
    <3>10. \A i \in 1..Len(decoded') : decoded'[i].serial <= Len(wanted)
      <4>1. \A i \in 1..Len(decoded') : decoded'[i].serial \in Nat
        BY <2>3, <3>2, <3>5, <3>6
      <4>. QED  BY <1>2, <3>2, <3>7, <4>1
    <3>11. \A i \in 1..Len(line') : line'[i].serial \in 1..Len(wanted)
      BY <3>1, <3>2
    <3>12. \A i \in 1..Len(wanted) : wanted[i].serial = i
      BY DEF InOrder
    <3>. QED  BY <1>1, <1>2, <3>4, <3>8, <3>9, <3>10, <3>11, <3>12 DEF InOrder
  <2>6. NothingLost'
    <3>. SUFFICES ASSUME failures = 0, errors = 0
                  PROVE  /\ Len(decoded') + Len(line') = Len(wanted)
                         /\ \A i \in 1..Len(decoded') : decoded'[i] = wanted[i]
                         /\ \A i \in 1..Len(line') : line'[i] = wanted[Len(decoded') + i]
      BY <1>1, <1>2, <2>1, <2>2, <2>3 DEF NothingLost
    <3>1. /\ Len(decoded) + Len(line) = Len(wanted)
          /\ \A i \in 1..Len(decoded) : decoded[i] = wanted[i]
          /\ \A i \in 1..Len(line) : line[i] = wanted[Len(decoded) + i]
      BY <1>1, <1>2, <2>1 DEF NothingLost
    <3>2. 1 \in 1..Len(line) /\ line[1] = wanted[Len(decoded) + 1]
      BY <1>2, <2>2, <3>1
    <3>3. \A i \in 1..Len(decoded') : decoded'[i] = wanted[i]
      BY <1>2, <2>3, <3>1, <3>2
    <3>4. ASSUME NEW i \in 1..Len(line')  PROVE line'[i] = wanted[Len(decoded') + i]
      <4>1. i + 1 \in 1..Len(line) /\ Len(decoded) + (i + 1) = Len(decoded') + i
        BY <1>2, <2>2, <2>3
      <4>. QED  BY <2>2, <3>1, <4>1
    <3>5. Len(decoded') + Len(line') = Len(wanted)
      <4>1. /\ Len(decoded') = Len(decoded) + 1 /\ Len(line') = Len(line) - 1
            /\ Len(decoded) \in Nat /\ Len(line) \in Nat /\ Len(wanted) \in Nat
        BY <1>2, <2>2, <2>3
      <4>2. Len(decoded) + Len(line) = Len(wanted)
        BY <3>1
      <4>. QED  BY <4>1, <4>2
    <3>. QED  BY <3>3, <3>4, <3>5
  <2>7. FailuresCounted'
    BY <1>2, <2>1, <2>2, AppendCounted DEF FailuresCounted
  <2>8. ClosedDecoder' /\ Refusals' /\ Drained'
    BY <1>1, <2>1 DEF ClosedDecoder, Refusals, Drained
  <2>. QED  BY <2>4, <2>5, <2>6, <2>7, <2>8
<1>5. CASE ReceiveFails
  <2>1. /\ ~isOpen \/ HasFrame
        /\ line' = IF isOpen THEN Tail(line) ELSE line
        /\ decoded' = Append(decoded, Empty) /\ failures' = failures + 1
        /\ pc' = IF packet = Flush THEN "done" ELSE "read"
    BY <1>5 DEF ReceiveFails, LeaveLoop
  <2>2. Empty \in Frames /\ Empty.serial = 0
    BY DEF Frames, Empty
  <2>3. /\ decoded' \in Seq(Frames) /\ Len(decoded') = Len(decoded) + 1
        /\ \A i \in 1..Len(decoded) : decoded'[i] = decoded[i]
        /\ decoded'[Len(decoded) + 1] = Empty
    BY <1>2, <2>1, <2>2, AppendProperties
  <2>4. /\ line' \in Seq(Frames)
        /\ \/ line' = line
           \/ /\ line # <<>> /\ Len(line') = Len(line) - 1
              /\ \A i \in 1..Len(line') : line'[i] = line[i + 1]
    <3>1. CASE isOpen
      BY <1>2, <2>1, <3>1, HeadTailProperties DEF HasFrame
    <3>2. CASE ~isOpen
      BY <1>2, <2>1, <3>2
    <3>. QED  BY <3>1, <3>2
  <2>5. Len(line') \in Nat /\ \E d \in {0, 1} : \A i \in 1..Len(line') :
          i + d \in 1..Len(line) /\ line'[i] = line[i + d]
    <3>1. CASE line' = line
      BY <1>2, <3>1
    <3>2. CASE /\ line # <<>> /\ Len(line') = Len(line) - 1
               /\ \A i \in 1..Len(line') : line'[i] = line[i + 1]
      BY <1>2, <3>2
    <3>. QED  BY <2>4, <3>1, <3>2
  <2>6. TypeInv'
    BY <1>1, <1>2, <2>1, <2>3, <2>4 DEF TypeInv
  <2>7. InOrder'
    <3>1. PICK d \in {0, 1} : \A i \in 1..Len(line') :
            i + d \in 1..Len(line) /\ line'[i] = line[i + d]
      BY <2>5
    <3>2. \A i \in 1..Len(line') : line'[i].serial \in 1..Len(wanted)
      BY <1>1, <1>2, <3>1 DEF InOrder
    <3>3. ASSUME NEW i \in 1..Len(line'), NEW j \in 1..Len(line'), i < j
          PROVE  line'[i].serial < line'[j].serial
      <4>1. i + d < j + d
        BY <2>5, <3>3
      <4>. QED  BY <3>1, <4>1 DEF InOrder
    <3>4. \A i \in 1..Len(decoded') : i \in 1..Len(decoded) \/ i = Len(decoded) + 1
      BY <1>2, <2>3
    <3>5. \A i \in 1..Len(decoded') : decoded'[i].serial <= Len(wanted)
      BY <1>1, <1>2, <2>2, <2>3, <3>4 DEF InOrder
    <3>6. ASSUME NEW i \in 1..Len(decoded'), NEW j \in 1..Len(decoded'), i < j,
                 decoded'[i] # Empty, decoded'[j] # Empty
          PROVE  decoded'[i].serial < decoded'[j].serial
      <4>1. i \in 1..Len(decoded) /\ j \in 1..Len(decoded)
        BY <1>2, <2>3, <3>4, <3>6
      <4>. QED  BY <2>3, <3>6, <4>1 DEF InOrder
    <3>7. ASSUME NEW i \in 1..Len(decoded'), NEW j \in 1..Len(line')
          PROVE  decoded'[i].serial < line'[j].serial
      <4>1. CASE i \in 1..Len(decoded)
        BY <2>3, <3>1, <4>1 DEF InOrder
      <4>2. CASE i = Len(decoded) + 1
        BY <1>2, <2>2, <2>3, <3>2, <4>2
      <4>. QED  BY <3>4, <4>1, <4>2
    <3>8. \A i \in 1..Len(wanted) : wanted[i].serial = i
      BY DEF InOrder
    <3>. QED  BY <1>1, <1>2, <3>2, <3>3, <3>5, <3>6, <3>7, <3>8 DEF InOrder
  <2>7a. NothingLost'
    BY <1>2, <2>1 DEF NothingLost
  <2>8. FailuresCounted'
    BY <1>2, <2>1, <2>2, AppendCounted DEF FailuresCounted
  <2>9. ClosedDecoder' /\ Refusals'
    BY <1>1, <1>2, <2>1 DEF ClosedDecoder, Refusals
  <2>10. Drained'
    <3>1. Last(decoded') = Empty
      BY <2>3 DEF Last
    <3>. QED  BY <1>1, <1>2, <2>1, <3>1 DEF Drained
  <2>. QED  BY <2>6, <2>7, <2>7a, <2>8, <2>9, <2>10
<1>. QED  BY <1>3, <1>4, <1>5 DEF Receive, ReceiveFrame

LEMMA NextIInv ==
  ASSUME IInv, [Next]_vars
  PROVE  IInv'
<1>1. CASE UNCHANGED vars
  BY <1>1 DEF vars, IInv, TypeInv, InOrder, NothingLost, ClosedDecoder, Refusals, HasFrame,
     Drained, FailuresCounted, Ahead
<1>. QED  BY <1>1, SetUpIInv, GetNextPacketIInv, SendPacketIInv, ReceiveIInv DEF Next

LEMMA Invariance == Spec => []IInv
BY InitIInv, NextIInv, PTL DEF Spec

-----------------------------------------------------------------------------
(* What the decoding loop promises. *)

\* As long as no call fails every frame of the stream is given, in order and
\* once, draining between packets and flushing at the end (tests/codec.cc).
THEOREM NoFrameLost == Spec => []WholeStreamDecoded
<1>1. IInv => WholeStreamDecoded
  <2>. SUFFICES ASSUME IInv, failures = 0, errors = 0
                PROVE  /\ IsPrefix(decoded \o line, wanted)
                       /\ pc = "done" => decoded = wanted
    BY DEF WholeStreamDecoded
  <2>. USE DEF IInv
  <2>1. /\ line \in Seq(Frames) /\ decoded \in Seq(Frames) /\ wanted \in Seq(Frames)
        /\ Len(line) \in Nat /\ Len(decoded) \in Nat /\ Len(wanted) \in Nat
    BY DEF TypeInv
  <2>2. /\ Len(decoded) + Len(line) <= Len(wanted)
        /\ \A i \in 1..Len(decoded) : decoded[i] = wanted[i]
        /\ \A i \in 1..Len(line) : line[i] = wanted[Len(decoded) + i]
    <3>1. CASE isOpen
      <4>1. /\ Len(decoded) + Len(line) + Ahead = Len(wanted)
            /\ \A i \in 1..Len(decoded) : decoded[i] = wanted[i]
            /\ \A i \in 1..Len(line) : line[i] = wanted[Len(decoded) + i]
        BY <3>1 DEF NothingLost
      <4>2. Ahead \in Nat
        BY AheadNat
      <4>. QED  BY <2>1, <4>1, <4>2
    <3>2. CASE ~isOpen
      BY <2>1, <3>2 DEF ClosedDecoder
    <3>. QED  BY <3>1, <3>2 DEF TypeInv
  <2>3. IsPrefix(decoded \o line, wanted)
    <3>. DEFINE given == decoded \o line
    <3>1. /\ given \in Seq(Frames) /\ Len(given) = Len(decoded) + Len(line)
          /\ \A i \in 1..Len(given) :
               given[i] = IF i <= Len(decoded) THEN decoded[i] ELSE line[i - Len(decoded)]
      BY <2>1, ConcatProperties
    <3>. HIDE DEF given
    <3>2. \A i \in 1..Len(given) : given[i] = wanted[i]
      <4>. SUFFICES ASSUME NEW i \in 1..Len(given)  PROVE given[i] = wanted[i]
        OBVIOUS
      <4>1. CASE i <= Len(decoded)
        BY <2>1, <2>2, <3>1, <4>1
      <4>2. CASE i > Len(decoded)
        <5>1. PICK j \in 1..Len(line) : j = i - Len(decoded) /\ Len(decoded) + j = i
          BY <2>1, <3>1, <4>2
        <5>2. given[i] = line[j]
          BY <2>1, <3>1, <4>2, <5>1
        <5>3. line[j] = wanted[Len(decoded) + j]
          BY <2>2, <5>1
        <5>. QED  BY <5>1, <5>2, <5>3
      <4>. QED  BY <2>1, <3>1, <4>1, <4>2
    <3>3. Len(given) \in Nat /\ Len(given) <= Len(wanted)
      BY <2>1, <2>2, <3>1
    <3>4. SubSeq(given, 1, Len(given)) = SubSeq(wanted, 1, Len(given))
      <4>1. SubSeq(given, 1, Len(given)) = given
        BY <3>1, SubSeqFull
      <4>2. /\ SubSeq(wanted, 1, Len(given)) \in Seq(Frames)
            /\ Len(SubSeq(wanted, 1, Len(given))) = Len(given)
            /\ \A i \in 1..Len(given) : SubSeq(wanted, 1, Len(given))[i] = wanted[i]
        BY <2>1, <3>3
      <4>. QED  BY <3>1, <3>2, <4>1, <4>2, SeqEqual
    <3>. QED  BY <3>3, <3>4 DEF IsPrefix, given
  <2>4. pc = "done" => decoded = wanted
    <3>. SUFFICES ASSUME pc = "done"  PROVE decoded = wanted
      OBVIOUS
    <3>1. isOpen /\ line = <<>> /\ Ahead = 0
      BY DEF ClosedDecoder, Drained, Ahead, TypeInv
    <3>2. Len(decoded) = Len(wanted)
      BY <2>1, <3>1 DEF NothingLost
    <3>. QED  BY <2>1, <2>2, <3>2, SeqEqual
  <2>. QED  BY <2>3, <2>4
<1>. QED  BY <1>1, Invariance, PTL

\* A receive that fails costs an empty frame for the callback and at most one
\* refused packet, never the order of what follows (codec.cc:100-117).
THEOREM FailuresPaidFor == Spec => []FailureCosts
<1>1. IInv => FailureCosts
  <2>. SUFFICES ASSUME IInv  PROVE FailureCosts
    OBVIOUS
  <2>1. decoded \in Seq(Frames) /\ DOMAIN decoded = 1..Len(decoded)
    BY LenProperties DEF IInv, TypeInv
  <2>. QED
    BY <2>1 DEF IInv, FailuresCounted, InOrder, Refusals, Drained, FailureCosts
<1>. QED  BY <1>1, Invariance, PTL
=============================================================================
