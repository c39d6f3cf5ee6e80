--------------------------- MODULE MCAvrtcServer ----------------------------
(* A few connections to one server; they are interchangeable. *)
EXTENDS AvrtcServer, TLC

ConnSymmetry == Permutations(Conns)
=============================================================================
