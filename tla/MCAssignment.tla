---------------------------- MODULE MCAssignment ----------------------------
(* Instances of Assignment for TLC. *)
EXTENDS Assignment, TLC

Symmetry == Permutations(Members) \union Permutations(Conversations)
                \union Permutations(Requests)
=============================================================================
