--------------------------- MODULE MCServerSocket ---------------------------
(* A few interchangeable peers and a small descriptor table. *)
EXTENDS ServerSocket, TLC

ConnSymmetry == Permutations(Conns)
=============================================================================
