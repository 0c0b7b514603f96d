------------------------------ MODULE MCMembers ------------------------------
(***************************************************************************)
(* The transactions on the members of a workspace next to each other, for  *)
(* TLC: those on roles and invitations, which this module extends, and     *)
(* those on assignments.  As on the visitor's side, a behaviour is of the  *)
(* component that scene names.                                             *)
(*                                                                         *)
(* Users are the members of a workspace, Calls the transactions that are   *)
(* in progress at once.                                                    *)
(***************************************************************************)
EXTENDS Membership, TLC

CONSTANTS
    Conversations, MaxVersion, NoMember, NoVersion      \* Assignment

VARIABLES
    scene,
    status, conversation, request, admin                \* Assignment

Assigning == INSTANCE Assignment WITH Members <- Users, Requests <- Calls

ASSUME AssigningConstants == Assigning!NullsAssumption

assigningVars == <<status, conversation, request, admin>>

bothVars == <<scene, vars, assigningVars>>

\* What has a choice of beginnings makes it only in its own scene.
BothInit ==
    /\ scene \in {"assigning", "team"}
    /\ Assigning!Init /\ Init
    /\ scene = "team" \/ \A u \in Users : IsOwner(member[u])

BothNext ==
    \/ scene = "assigning" /\ Assigning!Next /\ UNCHANGED <<scene, vars>>
    \/ scene = "team" /\ Next /\ UNCHANGED <<scene, assigningVars>>

BothSpec == BothInit /\ [][BothNext]_bothVars

Symmetry == Permutations(Users) \union Permutations(Calls) \union Permutations(Conversations)
-----------------------------------------------------------------------------
(* Properties: those of Membership, and those of Assignment, where they are *)
(* explained.                                                              *)

\* The scene's state has the type its component gives it.
TypesOK == IF scene = "assigning" THEN Assigning!TypeOK ELSE TypeOK

\* Assignment: what survives a deactivation, and a removal.
OnlyTakeOutlivesDeactivation == Assigning!OnlyTakeOutlivesDeactivation
RemovedIsUnreferenced == Assigning!RemovedIsUnreferenced
=============================================================================
