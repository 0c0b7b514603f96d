---------------------------- MODULE ReadReceipts ----------------------------
(***************************************************************************)
(* Read and delivered receipts of one conversation, and each operator's    *)
(* unread counter.  The counter is maintained from two sides: a trigger     *)
(* adds one for every visitor message, mark_conversation_read replaces it.  *)
(* The functions run as READ COMMITTED transactions, every statement with a *)
(* snapshot of its own, so one action is one statement.                     *)
(***************************************************************************)
EXTENDS Naturals, Sequences, FiniteSets

CONSTANTS
    Members,      \* operators (workspace members)
    Requests,     \* mark requests that may be in progress at once
    MaxSequence   \* bound: messages of the conversation

ASSUME SequenceAssumption == MaxSequence \in Nat

Senders == {"visitor", "agent"}

VARIABLES
    sender,         \* sender[n]: who sent committed message n
    insertion,      \* the message transaction that has not committed yet
    visitorMessageCount, \* conversations.visitor_message_count
    memberReads,    \* conversation_member_reads
    visitorReads,   \* the conversation's row of conversation_visitor_reads
    request,        \* request[r]: the mark call in slot r, by {m} or by the visitor {}
    overtaken       \* history: members whose counter a mark call has replaced
                    \* although a visitor message committed during the call

vars == <<sender, insertion, visitorMessageCount, memberReads, visitorReads,
          request, overtaken>>
-----------------------------------------------------------------------------
Last            == Len(sender)             \* max(sequence_number)
VisitorIn(log, n) == {k \in 1..Len(log) : k > n /\ log[k] = "visitor"}
VisitorAfter(n) == VisitorIn(sender, n)    \* visitor messages after sequence n
Greatest(a, b) == IF a >= b THEN a ELSE b
Least(a, b)    == IF a <= b THEN a ELSE b

NoRow      == [exists |-> FALSE, read |-> 0, delivered |-> 0, unread |-> 0]
NoReceipt  == [exists |-> FALSE, read |-> 0, delivered |-> 0]
NoInsertion == [sender |-> "none", bumped |-> {}]
NoRequest  == [pc |-> "idle", kind |-> "none", by |-> {}, through |-> 0,
               seen |-> 0, unread |-> 0]

Init ==
    /\ sender = <<>>
    /\ insertion = NoInsertion
    /\ visitorMessageCount = 0
    /\ memberReads = [m \in Members |-> NoRow]
    /\ visitorReads = NoReceipt
    /\ request = [r \in Requests |-> NoRequest]
    /\ overtaken = {}
-----------------------------------------------------------------------------
(* A message is inserted under the lock of its conversation row.  The      *)
(* trigger's UPDATE locks the member rows it bumps until the commit.       *)

InsertMessage(who) ==
    /\ insertion = NoInsertion
    /\ Last < MaxSequence
    /\ insertion' = [sender |-> who,
                     bumped |-> IF who = "visitor"
                                THEN {m \in Members : /\ memberReads[m].exists
                                                      /\ memberReads[m].read < Last + 1}
                                ELSE {}]
    /\ UNCHANGED <<sender, visitorMessageCount, memberReads, visitorReads, request, overtaken>>

CommitMessage ==
    /\ insertion # NoInsertion
    /\ sender' = Append(sender, insertion.sender)
    /\ visitorMessageCount' =
            visitorMessageCount + (IF insertion.sender = "visitor" THEN 1 ELSE 0)
    /\ memberReads' = [m \in Members |->
            IF m \in insertion.bumped
            THEN [memberReads[m] EXCEPT !.unread = @ + 1] ELSE memberReads[m]]
    /\ insertion' = NoInsertion
    /\ UNCHANGED <<visitorReads, request, overtaken>>
-----------------------------------------------------------------------------
(* mark_conversation_read and mark_conversation_delivered: read the        *)
(* greatest sequence number, then the member's row, then count, then       *)
(* upsert.  "seen" is the length of the log at the last look.               *)

Begin(r, kind, by, through) ==
    /\ request[r].pc = "idle"
    /\ request' = [request EXCEPT ![r] =
         [pc |-> "row", kind |-> kind, by |-> by, through |-> Least(through, Last),
          seen |-> Last, unread |-> 0]]
    /\ UNCHANGED <<sender, insertion, visitorMessageCount, memberReads, visitorReads, overtaken>>

BeginMemberMark(r, kind, m, through) == Begin(r, kind, {m}, through)

Cursor(row, kind) == IF kind = "read" THEN row.read ELSE row.delivered

Finish(r) == request' = [request EXCEPT ![r] = NoRequest]

\* The existing row: nothing to write when its cursor is there already.
SelectMemberRow(r, m) ==
    LET q   == request[r]
        row == memberReads[m]
    IN
    /\ q.pc = "row" /\ q.by = {m}
    /\ IF row.exists /\ q.through <= Cursor(row, q.kind)
       THEN Finish(r)
       ELSE request' = [request EXCEPT ![r].pc =
                IF q.kind = "read" /\ q.through >= q.seen THEN "upsert" ELSE "count"]
    /\ UNCHANGED <<sender, insertion, visitorMessageCount, memberReads, visitorReads, overtaken>>

\* The remaining unread messages: a read mark counts those after it, a
\* delivered mark all of them, since the row it inserts has read nothing.
CountUnread(r, m) ==
    LET q == request[r] IN
    /\ q.pc = "count" /\ q.by = {m}
    /\ request' = [request EXCEPT ![r].pc = "upsert", ![r].unread =
            Cardinality(VisitorAfter(IF q.kind = "read" THEN q.through ELSE 0)),
            ![r].seen = Last]
    /\ UNCHANGED <<sender, insertion, visitorMessageCount, memberReads, visitorReads, overtaken>>

\* The call inserts the row, or is the one that moves the read cursor.
ReplacesCounter(row, q) ==
    ~row.exists \/ (q.kind = "read" /\ q.through > row.read)

\* Fault: the losing call puts its counter back.
UpsertedClobbering(row, q) ==
    [exists    |-> TRUE,
     read      |-> IF q.kind = "read" THEN Greatest(row.read, q.through) ELSE row.read,
     delivered |-> Greatest(row.delivered, q.through),
     unread    |-> q.unread]

\* Fault: the losing call puts its cursor back.
UpsertedRegressing(row, q) ==
    [exists    |-> TRUE,
     read      |-> IF q.kind = "read" THEN q.through ELSE row.read,
     delivered |-> q.through,
     unread    |-> IF ReplacesCounter(row, q) THEN q.unread ELSE row.unread]

\* Fault: reading does not imply delivery.
UpsertedApart(row, q) ==
    [exists    |-> TRUE,
     read      |-> IF q.kind = "read" THEN Greatest(row.read, q.through) ELSE row.read,
     delivered |-> IF q.kind = "read" THEN row.delivered
                   ELSE Greatest(row.delivered, q.through),
     unread    |-> IF ReplacesCounter(row, q) THEN q.unread ELSE row.unread]

\* Fault: a delivered mark inserts its row with nothing unread.
UpsertedUncounted(row, q) ==
    [exists    |-> TRUE,
     read      |-> IF q.kind = "read" THEN Greatest(row.read, q.through) ELSE row.read,
     delivered |-> Greatest(row.delivered, q.through),
     unread    |-> IF q.kind = "read" /\ q.through > row.read THEN q.unread ELSE row.unread]

\* INSERT ... ON CONFLICT DO UPDATE with GREATEST; the counter is replaced only
\* by the call that moves the read cursor.
Upserted(row, q) ==
    [exists    |-> TRUE,
     read      |-> IF q.kind = "read" THEN Greatest(row.read, q.through) ELSE row.read,
     delivered |-> Greatest(row.delivered, q.through),
     unread    |-> IF ReplacesCounter(row, q) THEN q.unread ELSE row.unread]

UpsertMemberRow(r, m) ==
    LET q == request[r] IN
    /\ q.pc = "upsert" /\ q.by = {m}
    /\ m \notin insertion.bumped            \* waits for the trigger's row lock
    /\ memberReads' = [memberReads EXCEPT ![m] = Upserted(@, q)]
    /\ overtaken' = IF /\ ReplacesCounter(memberReads[m], q)
                       /\ VisitorAfter(q.seen) # {} \/ insertion.sender = "visitor"
                    THEN overtaken \union {m} ELSE overtaken
    /\ Finish(r)
    /\ UNCHANGED <<sender, insertion, visitorMessageCount, visitorReads>>
-----------------------------------------------------------------------------
(* widget_mark_conversation_receipt: the same shape, one row, no counter.  *)

BeginVisitorMark(r, kind, through) == Begin(r, kind, {}, through)

SelectVisitorRow(r) ==
    LET q == request[r] IN
    /\ q.pc = "row" /\ q.by = {}
    /\ IF visitorReads.exists /\ q.through <= Cursor(visitorReads, q.kind)
       THEN Finish(r)
       ELSE request' = [request EXCEPT ![r].pc = "upsert"]
    /\ UNCHANGED <<sender, insertion, visitorMessageCount, memberReads, visitorReads, overtaken>>

UpsertVisitorRow(r) ==
    LET q == request[r] IN
    /\ q.pc = "upsert" /\ q.by = {}
    /\ visitorReads' =
         [exists |-> TRUE,
          read |-> IF q.kind = "read" THEN Greatest(visitorReads.read, q.through)
                   ELSE visitorReads.read,
          delivered |-> Greatest(visitorReads.delivered, q.through)]
    /\ Finish(r)
    /\ UNCHANGED <<sender, insertion, visitorMessageCount, memberReads, overtaken>>
-----------------------------------------------------------------------------
Kinds == {"read", "delivered"}

Next ==
    \/ \E who \in Senders : InsertMessage(who)
    \/ CommitMessage
    \/ \E r \in Requests, kind \in Kinds, n \in 0..MaxSequence :
            \/ \E m \in Members : BeginMemberMark(r, kind, m, n)
            \/ BeginVisitorMark(r, kind, n)
    \/ \E r \in Requests, m \in Members :
            \/ SelectMemberRow(r, m)
            \/ CountUnread(r, m)
            \/ UpsertMemberRow(r, m)
    \/ \E r \in Requests : SelectVisitorRow(r) \/ UpsertVisitorRow(r)

Spec == Init /\ [][Next]_vars
-----------------------------------------------------------------------------
(* Properties. *)

RowType == [exists : BOOLEAN, read : 0..MaxSequence, delivered : 0..MaxSequence,
            unread : Nat]

RequestType == [pc : {"idle", "row", "count", "upsert"}, kind : Kinds \union {"none"},
                by : SUBSET Members, through : 0..MaxSequence, seen : 0..MaxSequence,
                unread : Nat]

\* Rows, requests and the log have the types of the code's columns.
TypeOK ==
    /\ sender \in Seq(Senders) /\ Last <= MaxSequence
    /\ insertion \in [sender : Senders \union {"none"}, bumped : SUBSET Members]
    /\ visitorMessageCount \in Nat
    /\ memberReads \in [Members -> RowType]
    /\ visitorReads \in [exists : BOOLEAN, read : 0..MaxSequence, delivered : 0..MaxSequence]
    /\ request \in [Requests -> RequestType]
    /\ overtaken \subseteq Members

\* A receipt never runs ahead of the messages, and what is read is delivered:
\* the ticks derived from the cursors never say "seen" of a message that is not
\* there, whatever overlapping mark calls wrote.
CursorsOrdered ==
    /\ \A m \in Members :
          /\ memberReads[m].read <= memberReads[m].delivered
          /\ memberReads[m].delivered <= Last
    /\ visitorReads.read <= visitorReads.delivered
    /\ visitorReads.delivered <= Last

\* The badge of an operator never counts a message the operator has read: a
\* mark call that loses a race does not put back the counter it computed.
NeverOvercounts ==
    \A m \in Members : memberReads[m].exists =>
        memberReads[m].unread <= Cardinality(VisitorAfter(memberReads[m].read))

\* The only way to miss an unread message: a visitor message that committed, or
\* was being committed, while a mark call was between its count and its upsert.
\* Overlapping mark calls alone leave the counter exact.
ExactUnlessOvertaken ==
    \A m \in Members : memberReads[m].exists /\ m \notin overtaken =>
        memberReads[m].unread = Cardinality(VisitorAfter(memberReads[m].read))

\* The count an operator without a row is shown (conversation_unread_count) is
\* exact.
VisitorCountExact == visitorMessageCount = Cardinality(VisitorAfter(0))

\* Cursors never regress, although mark calls overlap and finish in any order.
CursorsNeverRegress ==
    [][/\ \A m \in Members :
            /\ memberReads[m].read <= memberReads'[m].read
            /\ memberReads[m].delivered <= memberReads'[m].delivered
       /\ visitorReads.read <= visitorReads'.read
       /\ visitorReads.delivered <= visitorReads'.delivered]_vars
=============================================================================
