---------------------------- MODULE OperatorInbox ----------------------------
(***************************************************************************)
(* A member's list of the conversations assigned to him (useLiveInboxList  *)
(* with the "Mine" filter).  It is fed by row changes of messages,         *)
(* conversations and the member's read cursors, and by refreshes, which    *)
(* replace what they list and keep what they do not.                       *)
(*                                                                         *)
(* All messages are the visitors'.  The server's transactions are atomic   *)
(* here; module ReadReceipts shows that the stored counter is the number   *)
(* of unread messages after each.                                          *)
(***************************************************************************)
EXTENDS OperatorChannel, Integers

CONSTANTS
    Conversations,  \* the workspace's conversations
    MaxChanges,     \* bound: transactions of the server
    MayFail         \* whether a refresh may fail

InboxAssumption == MaxChanges \in Nat /\ MayFail \in BOOLEAN

VARIABLES
    conv,       \* conv[c]: assigned to this member or not, messages, last one read
    clock,      \* how many transactions there have been
    item,       \* item[c]: the list's row of c, NoItem if none
    lastRead,   \* lastReadByConversationRef, -1 where it has no entry
    refresh,    \* the refresh of the newest generation, if it is in flight
    due,        \* the effect of "connected" has not run yet
    timer,      \* a scheduled refresh is due
    newest,     \* history: when the last refresh applied was read
    late,       \* history: conversations whose unread count may be out of date
    kept,       \* history: conversations the last refresh did not list but kept
    owed        \* history: no refresh got through since the channel was joined

inboxVars == <<conv, clock, item, lastRead, refresh, due, timer, newest, late, kept, owed>>
vars == <<inboxVars, channelVars>>
-----------------------------------------------------------------------------
NoItem == [shown |-> FALSE]
Item(n, labelled) == [shown |-> TRUE, unread |-> n, labelled |-> labelled]

\* conversation_unread_count: without a cursor of the member every message of
\* the visitor is unread.
Unread(s) == IF s.read = -1 THEN s.messages ELSE s.messages - s.read

\* list_conversations with assignment = "assigned_to_me"
Listed(convs) == {c \in Conversations : convs[c].mine}
Row(s) == Item(Unread(s), TRUE)

Idle == [pc |-> "none"]

Init ==
    /\ ChannelInit
    /\ conv \in [Conversations -> [mine : BOOLEAN, messages : {1}, read : {-1, 1}]]
    /\ clock = 0
    /\ item = [c \in Conversations |-> IF conv[c].mine THEN Row(conv[c]) ELSE NoItem]
    /\ lastRead = [c \in Conversations |-> -1]
    /\ refresh = Idle /\ due = FALSE /\ timer = FALSE
    /\ newest = 0 /\ late = {} /\ kept = {} /\ owed = TRUE
-----------------------------------------------------------------------------
(* The server *)

Commit(c, s, changes) ==
    /\ clock < MaxChanges
    /\ clock' = clock + 1
    /\ conv' = [conv EXCEPT ![c] = s]
    /\ Publish(changes)
    /\ UNCHANGED <<item, lastRead, refresh, due, timer, newest, late, kept, owed>>

Change(type, c, s) == [type |-> type, c |-> c, at |-> clock + 1, row |-> s]

\* The message's row, the conversation's, and the member's cursor if he has one.
VisitorSends(c) ==
    LET s == [conv[c] EXCEPT !.messages = @ + 1] IN
    Commit(c, s, <<Change("message", c, s), Change("conversation", c, s)>>
                   \o IF s.read = -1 THEN <<>> ELSE <<Change("read", c, s)>>)

Reassign(c) ==
    LET s == [conv[c] EXCEPT !.mine = ~@] IN
    Commit(c, s, <<Change("conversation", c, s)>>)

\* The member reads the conversation, here or in another tab.
MarkRead(c) ==
    LET s == [conv[c] EXCEPT !.read = conv[c].messages] IN
    /\ conv[c].read < conv[c].messages
    /\ Commit(c, s, <<Change("read", c, s)>>)
-----------------------------------------------------------------------------
(* refreshList: of several, only the newest generation is applied. *)

AskRefresh == refresh' = [pc |-> "asked", before |-> item]

RefreshConnected ==
    /\ due /\ due' = FALSE
    /\ AskRefresh
    /\ UNCHANGED <<conv, clock, item, lastRead, timer, newest, late, kept, owed, channelVars>>

RefreshScheduled ==
    /\ timer /\ timer' = FALSE
    /\ AskRefresh
    /\ UNCHANGED <<conv, clock, item, lastRead, due, newest, late, kept, owed, channelVars>>

\* The browser is online again, or the user asks for it.
RefreshAgain ==
    /\ refresh.pc = "none"
    /\ AskRefresh
    /\ UNCHANGED <<conv, clock, item, lastRead, due, timer, newest, late, kept, owed, channelVars>>

ServeRefresh ==
    /\ refresh.pc = "asked"
    /\ refresh' = [pc |-> "read", before |-> refresh.before, convs |-> conv, at |-> clock,
                   joined |-> link # "down", older |-> {}]
    /\ UNCHANGED <<conv, clock, item, lastRead, due, timer, newest, late, kept, owed, channelVars>>

\* Fault: the answer replaces the list.
ListedOnly(c, r) == NoItem

\* Items the answer does not have are kept, those of now and those of when it
\* was asked.
Kept(c, r) == IF item[c].shown THEN item[c] ELSE r.before[c]

ApplyRefresh ==
    LET r == refresh
        listed == Listed(r.convs) IN
    /\ r.pc = "read"
    /\ item' = [c \in Conversations |-> IF c \in listed THEN Row(r.convs[c]) ELSE Kept(c, r)]
    /\ kept' = {c \in Conversations \ listed : item'[c].shown}
    /\ late' = (late \ listed) \union r.older
    /\ newest' = r.at
    /\ owed' = (owed /\ ~r.joined)
    /\ refresh' = Idle
    /\ UNCHANGED <<conv, clock, lastRead, due, timer, channelVars>>

\* "Keep the last good list"
RefreshFails ==
    /\ refresh.pc # "none"
    /\ MayFail
    /\ refresh' = Idle
    /\ owed' = TRUE
    /\ UNCHANGED <<conv, clock, item, lastRead, due, timer, newest, late, kept, channelVars>>
-----------------------------------------------------------------------------
(* Row changes *)

\* History: the refresh in flight was read before this change of the count.
Overtaken(e) ==
    IF refresh.pc = "read" /\ e.at > refresh.at
    THEN [refresh EXCEPT !.older = @ \union {e.c}] ELSE refresh

\* onMessageInsert: one more is unread, unless it is known to be read.  What a
\* message alone tells of an unknown conversation does not match the filter.
OnMessage ==
    LET e == Head(feed)
        counts == e.row.messages > lastRead[e.c] IN
    /\ Receive /\ e.type = "message"
    /\ IF item[e.c].shown
       THEN /\ item' = [item EXCEPT ![e.c].unread = IF counts THEN @ + 1 ELSE @]
            /\ refresh' = Overtaken(e)
            /\ late' = IF counts /\ e.at <= newest THEN late \union {e.c} ELSE late
       ELSE AskRefresh /\ UNCHANGED <<item, late>>
    /\ UNCHANGED <<conv, clock, lastRead, due, timer, newest, kept, owed>>

\* onConversationChange.  The row of a conversation that was unknown counts one
\* message, and has no label of the assignee.
OnConversation ==
    LET e == Head(feed) IN
    /\ Receive /\ e.type = "conversation"
    /\ item' = [item EXCEPT ![e.c] = IF ~e.row.mine THEN NoItem
                                     ELSE IF @.shown THEN @ ELSE Item(1, FALSE)]
    /\ kept' = kept \ {e.c}
    /\ late' = late \union (kept \intersect {e.c})
    /\ IF item[e.c].shown
       THEN /\ timer' = (timer \/ ~e.row.mine \/ ~item[e.c].labelled)
            /\ UNCHANGED refresh
       ELSE AskRefresh /\ UNCHANGED timer
    /\ UNCHANGED <<conv, clock, lastRead, due, newest, owed>>

\* onMemberReadChange
OnRead ==
    LET e == Head(feed) IN
    /\ Receive /\ e.type = "read"
    /\ lastRead' = [lastRead EXCEPT ![e.c] = IF @ < e.row.read THEN e.row.read ELSE @]
    /\ IF item[e.c].shown
       THEN /\ item' = [item EXCEPT ![e.c].unread = Unread(e.row)]
            /\ late' = late \ {e.c}
       ELSE UNCHANGED <<item, late>>
    /\ refresh' = Overtaken(e)
    /\ UNCHANGED <<conv, clock, due, timer, newest, kept, owed>>

Join == ServerJoins /\ UNCHANGED inboxVars

\* onConnectionChange("connected"): the effect runs after the next render.
Connected ==
    /\ Subscribed
    /\ due' = TRUE
    /\ UNCHANGED <<conv, clock, item, lastRead, refresh, timer, newest, late, kept, owed>>

Break ==
    /\ ChannelBreaks
    /\ owed' = TRUE
    /\ due' = FALSE
    /\ refresh' = IF refresh.pc = "read" THEN [refresh EXCEPT !.joined = FALSE] ELSE refresh
    /\ UNCHANGED <<conv, clock, item, lastRead, timer, newest, late, kept>>

Next ==
    \/ \E c \in Conversations : VisitorSends(c) \/ Reassign(c) \/ MarkRead(c)
    \/ RefreshConnected
    \/ RefreshScheduled
    \/ RefreshAgain
    \/ ServeRefresh
    \/ ApplyRefresh
    \/ RefreshFails
    \/ OnMessage
    \/ OnConversation
    \/ OnRead
    \/ Join
    \/ Connected
    \/ Break

Spec == Init /\ [][Next]_vars
-----------------------------------------------------------------------------
(* Properties. *)

Quiet == Settled /\ refresh.pc = "none" /\ ~due /\ ~timer

\* When nothing is under way and a refresh has got through since the channel
\* was joined and the last did not fail, every conversation of the member is
\* in the list with the name of the assignee and its unread count, and the list
\* has no other conversation.  Left out are those in which the list is wrong:
\*   - kept: the last refresh did not have it, and it was left in the list, or
\*     put back, as it was; only that it is shown is promised, if it is his;
\*   - late, of the unread count: it was replaced by a refresh that was read
\*     before a message or cursor already heard, a message that a refresh had
\*     counted was counted again, or it is an entry that had been kept.
\* A change of another kind, or of another conversation, is no excuse.
InboxSettles ==
    Quiet /\ ~owed =>
        \A c \in Conversations :
            IF conv[c].mine
            THEN /\ item[c].shown
                 /\ c \notin kept => item[c].labelled
                 /\ c \notin late \union kept => item[c].unread = Unread(conv[c])
            ELSE item[c].shown => c \in kept

\* Every variable has the type of the field it stands for.
TypeOK ==
    /\ conv \in [Conversations -> [mine : BOOLEAN, messages : Nat, read : Nat \union {-1}]]
    /\ DOMAIN item = Conversations /\ late \union kept \subseteq Conversations
=============================================================================
