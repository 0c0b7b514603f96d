--------------------------- MODULE MCConversations ---------------------------
(* Instances of Conversations for TLC. *)
EXTENDS Conversations, TLC

\* Conversation ids, request slots and client ids are interchangeable.
Symmetry == Permutations(Conversations) \union Permutations(Requests)
                \union Permutations(ClientIds)
=============================================================================
