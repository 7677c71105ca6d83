--------------------------- MODULE MCSocketLease ---------------------------
(* SocketLease on small sets, with the symmetries that are sound for safety. *)
EXTENDS SocketLease, TLC

Symmetry == Permutations(Sessions) \cup Permutations(Sweepers) \cup Permutations(Inodes)
=============================================================================
