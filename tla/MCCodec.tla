------------------------------ MODULE MCCodec -------------------------------
(* A short file and a decoder that keeps one frame back. *)
EXTENDS Codec, TLC
=============================================================================
