--------------------------- MODULE MCReadReceipts ---------------------------
(* Instances of ReadReceipts for TLC. *)
EXTENDS ReadReceipts, TLC

Symmetry == Permutations(Members) \union Permutations(Requests)
=============================================================================
