---------------------------- MODULE Conversations ----------------------------
(***************************************************************************)
(* The conversation store of the site chat: the Postgres functions through *)
(* which visitors and operators send messages and operators change the     *)
(* status of a conversation.  They run as READ COMMITTED transactions, so  *)
(* one action is one statement (or a run of statements no other            *)
(* transaction can tell apart, because they hold the row locks they need). *)
(*                                                                         *)
(* A visitor's send first updates its visitor_sessions row, so the sends   *)
(* of one session exclude each other: visitorTxn[s] is the one in progress. *)
(***************************************************************************)
EXTENDS Naturals, Sequences, FiniteSets

CONSTANTS
    Sessions,       \* visitor_sessions rows
    Conversations,  \* conversations rows that may come to exist
    Requests,       \* operator requests that may be in progress at once
    ClientIds,      \* client_message_id values
    MaxResolutions, \* bound: resolutions stamped in a behaviour
    NoConversation, \* the NULL conversation of a transaction
    NoClientId,     \* the NULL client_message_id
    NoSession,      \* of a conversations row that does not exist
    NoOrigin        \* of a client message id nobody has used

ASSUME NullsAssumption ==
    /\ NoConversation \notin Conversations
    /\ NoClientId \notin ClientIds
    /\ NoSession \notin Sessions
    /\ NoOrigin \notin Sessions \union Conversations
    /\ MaxResolutions \in Nat

VARIABLES
    conversation,   \* conversation[c]: the committed row
    messages,       \* messages[c]: the committed messages of c
    visitorTxn,     \* visitorTxn[s]: the send transaction of session s
    operatorTxn,    \* operatorTxn[r]: the operator send in request slot r
    client,         \* client[id]: what the sender of message id knows of it
    clock,          \* the latest resolved_at stamped
    horizon         \* a resolved_at <= horizon has left the reopen window

vars == <<conversation, messages, visitorTxn, operatorTxn, client, clock, horizon>>
-----------------------------------------------------------------------------
ActiveStatuses == {"open", "pending"}
EndStatuses    == {"resolved", "closed"}
Statuses       == ActiveStatuses \union EndStatuses

\* A row that was never inserted has no session.
Absent == [session |-> NoSession, status |-> "closed", resolvedAt |-> 0,
           nextSequence |-> 1, messageCount |-> 0]

NewRow(s) == [Absent EXCEPT !.session = s, !.status = "open"]

Exists(c)   == conversation[c].session # NoSession
IsActive(c) == Exists(c) /\ conversation[c].status \in ActiveStatuses
Of(s)       == {c \in Conversations : conversation[c].session = s}
Active(s)   == {c \in Of(s) : IsActive(c)}

\* resolved, and resolved_at > now() - the workspace's reopen window
Reopenable(s) ==
    {c \in Of(s) : /\ conversation[c].status = "resolved"
                   /\ conversation[c].resolvedAt > horizon}

\* ORDER BY resolved_at DESC LIMIT 1
LatestResolved(cs) ==
    {c \in cs : \A d \in cs : conversation[d].resolvedAt <= conversation[c].resolvedAt}

\* The conversation the widget shows: the active one, else the one that was
\* resolved last within the reopen window.
Viewable(s) ==
    IF Active(s) # {} THEN Active(s) ELSE LatestResolved(Reopenable(s))

Find(c, id) == {m \in messages[c] : m.clientId = id}

Idle == [pc |-> "idle", clientId |-> NoClientId, conversation |-> NoConversation]

\* The row locks a visitor's send holds until it commits or aborts.
Locked(c) == \E s \in Sessions : visitorTxn[s].conversation = c

\* Uncommitted entries of the unique index on the active conversation of a
\* session: a conflicting write waits for the transaction that made them.
Activating(s) == visitorTxn[s].pc \in {"send_reopened", "send_inserted"}

Sending == {"send_found", "send_reopened", "send_inserted"}

Init ==
    /\ conversation = [c \in Conversations |-> Absent]
    /\ messages = [c \in Conversations |-> {}]
    /\ visitorTxn = [s \in Sessions |-> Idle]
    /\ operatorTxn = [r \in Requests |-> Idle]
    /\ client = [id \in ClientIds |-> [origin |-> NoOrigin, acked |-> FALSE]]
    /\ clock = 0
    /\ horizon = 0
-----------------------------------------------------------------------------
(* Clients.  A client message id is created once, in one place, and is     *)
(* sent again with the same id until an answer arrives: its origin is the  *)
(* session, or for an operator the conversation, it was composed in.       *)

MaySend(id, origin) ==
    /\ client[id].origin \in {NoOrigin, origin}
    /\ ~client[id].acked

\* The server may answer, or the answer may be lost on its way.
Answer(id) ==
    \/ client' = [client EXCEPT ![id].acked = TRUE]
    \/ client' = client

(* The append both senders share: the row is locked, the sequence number   *)
(* is taken from the row, the message is inserted.                         *)

Appended(row) ==
    [row EXCEPT !.nextSequence = @ + 1, !.messageCount = @ + 1]

Message(id, row, sender) ==
    [clientId |-> id, sequence |-> row.nextSequence, sender |-> sender]
-----------------------------------------------------------------------------
(* widget_send_visitor_message and                                         *)
(* widget_get_or_create_conversation_for_send.                             *)

SetVisitor(s, pc, c) ==
    visitorTxn' = [visitorTxn EXCEPT ![s].pc = pc, ![s].conversation = c]

\* The UPDATE of visitor_sessions takes the session's row lock.
BeginVisitorSend(s, id) ==
    /\ visitorTxn[s].pc = "idle"
    /\ MaySend(id, s)
    /\ client' = [client EXCEPT ![id].origin = s]
    /\ visitorTxn' = [visitorTxn EXCEPT ![s] =
                        [pc |-> "select_active", clientId |-> id,
                         conversation |-> NoConversation]]
    /\ UNCHANGED <<conversation, messages, operatorTxn, clock, horizon>>

\* SELECT ... status IN ('open', 'pending') ... FOR UPDATE
SelectActive(s) ==
    /\ visitorTxn[s].pc = "select_active"
    /\ \/ \E c \in Active(s) : SetVisitor(s, "send_found", c)
       \/ /\ Active(s) = {}
          /\ SetVisitor(s, "select_resolved", NoConversation)
    /\ UNCHANGED <<conversation, messages, operatorTxn, client, clock, horizon>>

\* SELECT ... status = 'resolved' within the window ... FOR UPDATE.  now() is
\* the start of the transaction; an expiry in between acts as one that follows.
SelectResolved(s) ==
    /\ visitorTxn[s].pc = "select_resolved"
    /\ \/ \E c \in LatestResolved(Reopenable(s)) : SetVisitor(s, "reopen", c)
       \/ /\ Reopenable(s) = {}
          /\ SetVisitor(s, "insert", NoConversation)
    /\ UNCHANGED <<conversation, messages, operatorTxn, client, clock, horizon>>

\* UPDATE ... SET status = 'open'.  When an operator has made another
\* conversation active in the meantime, the unique index fails the UPDATE, and
\* the subtransaction that held the row lock is rolled back.
Reopen(s) ==
    /\ visitorTxn[s].pc = "reopen"
    /\ IF Active(s) = {}
       THEN SetVisitor(s, "send_reopened", visitorTxn[s].conversation)
       ELSE SetVisitor(s, "handler", NoConversation)
    /\ UNCHANGED <<conversation, messages, operatorTxn, client, clock, horizon>>

\* INSERT INTO conversations, or the same unique_violation.
InsertConversation(s) ==
    /\ visitorTxn[s].pc = "insert"
    /\ \/ /\ Active(s) = {}
          /\ \E c \in Conversations :
                /\ ~Exists(c)
                /\ ~Locked(c)
                /\ SetVisitor(s, "send_inserted", c)
       \/ /\ Active(s) # {}
          /\ SetVisitor(s, "handler", NoConversation)
    /\ UNCHANGED <<conversation, messages, operatorTxn, client, clock, horizon>>

\* Fault: the handler answers instead of raising when it finds nothing.
HandleSilently(s) ==
    /\ visitorTxn[s].pc = "handler"
    /\ \/ /\ \E c \in Active(s) : SetVisitor(s, "send_found", c)
          /\ UNCHANGED client
       \/ /\ Active(s) = {}
          /\ visitorTxn' = [visitorTxn EXCEPT ![s] = Idle]
          /\ Answer(visitorTxn[s].clientId)
    /\ UNCHANGED <<conversation, messages, operatorTxn, clock, horizon>>

\* EXCEPTION WHEN unique_violation: take the active conversation, or RAISE and
\* abort the whole transaction when an operator has ended it again.
HandleUniqueViolation(s) ==
    /\ visitorTxn[s].pc = "handler"
    /\ \/ \E c \in Active(s) : SetVisitor(s, "send_found", c)
       \/ /\ Active(s) = {}
          /\ visitorTxn' = [visitorTxn EXCEPT ![s] = Idle]
    /\ UNCHANGED <<conversation, messages, operatorTxn, client, clock, horizon>>

\* Fault: the message is stored without reopening the conversation.
OwnRowNotReopened(s) ==
    LET c == visitorTxn[s].conversation IN
    IF visitorTxn[s].pc = "send_inserted" THEN NewRow(s) ELSE conversation[c]

\* The row as this transaction has written it, before its send.
OwnRow(s) ==
    LET c == visitorTxn[s].conversation IN
    CASE visitorTxn[s].pc = "send_found"    -> conversation[c]
      [] visitorTxn[s].pc = "send_reopened" ->
            [conversation[c] EXCEPT !.status = "open", !.resolvedAt = 0]
      [] visitorTxn[s].pc = "send_inserted" -> NewRow(s)

\* The client id is looked up in the chosen conversation; a message is inserted
\* if it is new there; the transaction commits, its reopening too.
CommitVisitorSend(s) ==
    LET c  == visitorTxn[s].conversation
        id == visitorTxn[s].clientId
    IN
    /\ visitorTxn[s].pc \in Sending
    /\ IF Find(c, id) # {}
       THEN /\ conversation' = [conversation EXCEPT ![c] = OwnRow(s)]
            /\ UNCHANGED messages
       ELSE /\ conversation' = [conversation EXCEPT ![c] = Appended(OwnRow(s))]
            /\ messages' = [messages EXCEPT ![c] =
                              @ \union {Message(id, OwnRow(s), "visitor")}]
    /\ visitorTxn' = [visitorTxn EXCEPT ![s] = Idle]
    /\ Answer(id)
    /\ UNCHANGED <<operatorTxn, clock, horizon>>
-----------------------------------------------------------------------------
(* send_operator_message.  The client id is looked up before the row lock. *)

BeginOperatorSend(r, c, id) ==
    /\ operatorTxn[r].pc = "idle"
    /\ Exists(c)
    /\ MaySend(id, c)
    /\ client' = [client EXCEPT ![id].origin = c]
    /\ operatorTxn' = [operatorTxn EXCEPT ![r] =
                         [pc |-> "dedupe", clientId |-> id, conversation |-> c]]
    /\ UNCHANGED <<conversation, messages, visitorTxn, clock, horizon>>

\* The message is there already: return it.
ReturnExisting(r) ==
    LET t == operatorTxn[r] IN
    /\ t.pc = "dedupe"
    /\ Find(t.conversation, t.clientId) # {}
    /\ operatorTxn' = [operatorTxn EXCEPT ![r] = Idle]
    /\ Answer(t.clientId)
    /\ UNCHANGED <<conversation, messages, visitorTxn, clock, horizon>>

FindNothing(r) ==
    LET t == operatorTxn[r] IN
    /\ t.pc = "dedupe"
    /\ Find(t.conversation, t.clientId) = {}
    /\ operatorTxn' = [operatorTxn EXCEPT ![r].pc = "send"]
    /\ UNCHANGED <<conversation, messages, visitorTxn, client, clock, horizon>>

\* Fault: the lookup before the lock is the only protection from a retry.
CommitUnchecked(r) ==
    LET c == operatorTxn[r].conversation IN
    /\ operatorTxn[r].pc = "send"
    /\ ~Locked(c)
    /\ conversation' = [conversation EXCEPT ![c] = Appended(@)]
    /\ messages' = [messages EXCEPT ![c] = @ \union
                      {Message(operatorTxn[r].clientId, conversation[c], "agent")}]
    /\ operatorTxn' = [operatorTxn EXCEPT ![r] = Idle]
    /\ Answer(operatorTxn[r].clientId)
    /\ UNCHANGED <<visitorTxn, clock, horizon>>

\* SELECT ... FOR UPDATE, UPDATE, INSERT, commit.
CommitOperatorSend(r) ==
    LET c  == operatorTxn[r].conversation
        id == operatorTxn[r].clientId
    IN
    /\ operatorTxn[r].pc = "send"
    /\ ~Locked(c)
    /\ Find(c, id) = {}
    /\ conversation' = [conversation EXCEPT ![c] = Appended(@)]
    /\ messages' = [messages EXCEPT ![c] =
                      @ \union {Message(id, conversation[c], "agent")}]
    /\ operatorTxn' = [operatorTxn EXCEPT ![r] = Idle]
    /\ Answer(id)
    /\ UNCHANGED <<visitorTxn, clock, horizon>>

\* A concurrent retry has inserted the same client id: the unique index fails
\* the INSERT and the whole transaction, sequence number included, is undone.
AbortOperatorSend(r) ==
    LET t == operatorTxn[r] IN
    /\ t.pc = "send"
    /\ ~Locked(t.conversation)
    /\ Find(t.conversation, t.clientId) # {}
    /\ operatorTxn' = [operatorTxn EXCEPT ![r] = Idle]
    /\ UNCHANGED <<conversation, messages, visitorTxn, client, clock, horizon>>
-----------------------------------------------------------------------------
(* update_conversation_status: one UPDATE.  It waits for the row lock and  *)
(* for an uncommitted activation of the same session, and fails on the     *)
(* unique index when another conversation of the session is active.        *)

UpdateToActive(c, status) ==
    LET s == conversation[c].session IN
    /\ Exists(c)
    /\ ~Locked(c)
    /\ status \in ActiveStatuses
    /\ Active(s) \subseteq {c}
    /\ ~Activating(s)
    /\ conversation' = [conversation EXCEPT ![c].status = status,
                                            ![c].resolvedAt = 0]
    /\ UNCHANGED <<messages, visitorTxn, operatorTxn, client, clock, horizon>>

\* COALESCE(c.resolved_at, now()): a second ending keeps the first stamp.
UpdateToEnd(c, status) ==
    LET stamp == IF conversation[c].resolvedAt = 0
                 THEN clock + 1 ELSE conversation[c].resolvedAt
    IN
    /\ Exists(c)
    /\ ~Locked(c)
    /\ status \in EndStatuses
    /\ stamp <= MaxResolutions
    /\ conversation' = [conversation EXCEPT ![c].status = status,
                                            ![c].resolvedAt = stamp]
    /\ clock' = IF stamp > clock THEN stamp ELSE clock
    /\ UNCHANGED <<messages, visitorTxn, operatorTxn, client, horizon>>

\* Fault: the window reaches beyond the present.
ExpireBeyond ==
    /\ horizon <= clock
    /\ horizon' = horizon + 1
    /\ UNCHANGED <<conversation, messages, visitorTxn, operatorTxn, client, clock>>

\* Time passes: the oldest resolution leaves the reopen window.
ExpireWindow ==
    /\ horizon < clock
    /\ horizon' = horizon + 1
    /\ UNCHANGED <<conversation, messages, visitorTxn, operatorTxn, client, clock>>
-----------------------------------------------------------------------------
VisitorStep(s) ==
    \/ SelectActive(s)
    \/ SelectResolved(s)
    \/ Reopen(s)
    \/ InsertConversation(s)
    \/ HandleUniqueViolation(s)
    \/ CommitVisitorSend(s)

OperatorStep(r) ==
    \/ ReturnExisting(r)
    \/ FindNothing(r)
    \/ CommitOperatorSend(r)
    \/ AbortOperatorSend(r)

Next ==
    \/ \E s \in Sessions, id \in ClientIds : BeginVisitorSend(s, id)
    \/ \E s \in Sessions : VisitorStep(s)
    \/ \E r \in Requests, c \in Conversations, id \in ClientIds :
            BeginOperatorSend(r, c, id)
    \/ \E r \in Requests : OperatorStep(r)
    \/ \E c \in Conversations, status \in ActiveStatuses : UpdateToActive(c, status)
    \/ \E c \in Conversations, status \in EndStatuses : UpdateToEnd(c, status)
    \/ ExpireWindow

Spec == Init /\ [][Next]_vars

-----------------------------------------------------------------------------
(* Properties. *)

RowType == [session : Sessions \union {NoSession}, status : Statuses,
            resolvedAt : 0..MaxResolutions, nextSequence : Nat, messageCount : Nat]

MessageType == [clientId : ClientIds, sequence : Nat, sender : {"visitor", "agent"}]

VisitorPcs == {"idle", "select_active", "select_resolved", "reopen", "insert",
               "handler"} \union Sending

TxnType(pcs) == [pc : pcs, clientId : ClientIds \union {NoClientId},
                 conversation : Conversations \union {NoConversation}]

\* Every variable has the type of the rows and transactions of the code.
TypeOK ==
    /\ conversation \in [Conversations -> RowType]
    /\ messages \in [Conversations -> SUBSET MessageType]
    /\ visitorTxn \in [Sessions -> TxnType(VisitorPcs)]
    /\ operatorTxn \in [Requests -> TxnType({"idle", "dedupe", "send"})]
    /\ client \in [ClientIds -> [origin : Sessions \union Conversations \union {NoOrigin},
                                 acked : BOOLEAN]]
    /\ clock \in 0..MaxResolutions
    /\ horizon \in 0..clock

\* A sender that got an answer finds its message in a conversation it
\* belongs to: no error path of the send functions answers for a message that
\* its rollback removed.
AnsweredIsStored ==
    \A id \in ClientIds : client[id].acked =>
        \E c \in Of(client[id].origin) \union ({client[id].origin} \cap Conversations) :
            Find(c, id) # {}

\* The conversation a visitor's send has just committed to is the one the
\* widget then shows: the send and widget_viewable_conversation agree although
\* operators change statuses between the statements of the send.
SendIsViewable ==
    [][\A s \in Sessions :
          visitorTxn[s].pc \in Sending /\ visitorTxn'[s].pc = "idle"
              => Viewable(s)' = {visitorTxn[s].conversation}]_vars

\* What the documentation says of client_message_id: a retry is recognised.  A
\* visitor's message is stored once, in whatever conversation.
RetryIsRecognised ==
    \A c, d \in Conversations : \A m \in messages[c], n \in messages[d] :
        m.clientId = n.clientId => c = d

\* The store implements the abstract log of messages.
LogOf(c) == [i \in 1..Cardinality(messages[c]) |->
                (CHOOSE m \in messages[c] : m.sequence = i).clientId]

Log == INSTANCE MessageLog WITH log <- [c \in Conversations |-> LogOf(c)]

ImplementsLog == Log!LogSpec
=============================================================================
