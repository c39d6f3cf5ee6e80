-------------------------- MODULE MCSdpNegotiation --------------------------
(* A few interchangeable codecs, and m= sections of two protocols.           *)
EXTENDS SdpNegotiation, TLC

VideoAvp   == [type |-> "video", protocol |-> "RTP/AVP"]
VideoSavpf == [type |-> "video", protocol |-> "UDP/TLS/RTP/SAVPF"]

TwoKinds == {VideoAvp, VideoSavpf}
OneKind == {VideoAvp}

CodecSymmetry == Permutations(Codecs)
=============================================================================
