----------------------------- MODULE MessageLog -----------------------------
(***************************************************************************)
(* What the message store promises, whatever the statements that realise   *)
(* it: every conversation has a log of messages, each log only grows at    *)
(* its end, and a client message id appears in a log at most once.         *)
(***************************************************************************)
EXTENDS Naturals, Sequences, FiniteSets

CONSTANTS
    Conversations,  \* conversation ids
    ClientIds       \* client_message_id values

VARIABLE log        \* log[c]: the messages of c in sequence_number order

ClientIdsOf(l) == {l[i] : i \in DOMAIN l}

LogInit == log = [c \in Conversations |-> <<>>]

\* A message is added at the end of one log, where its client id is new.
AppendTo(c, id) ==
    /\ id \notin ClientIdsOf(log[c])
    /\ log' = [log EXCEPT ![c] = Append(@, id)]

LogNext == \E c \in Conversations, id \in ClientIds : AppendTo(c, id)

LogSpec == LogInit /\ [][LogNext]_log
=============================================================================
