--------------------------- MODULE MCEmailOutbox ----------------------------
(* Small instances of EmailOutbox. *)
EXTENDS EmailOutbox, TLC

Symmetry == Permutations(Workers)
=============================================================================
