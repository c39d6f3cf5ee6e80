---------------------------- MODULE MCSignalling ----------------------------
(* A few clients of one server. *)
EXTENDS Signalling, TLC
=============================================================================
