---------------------------- MODULE MCMembership ----------------------------
(* Instances of Membership for TLC. *)
EXTENDS Membership, TLC

Symmetry == Permutations(Users) \union Permutations(Invitations)
                \union Permutations(Calls)
=============================================================================
