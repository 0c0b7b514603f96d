-------------------------- MODULE VisitorTransport --------------------------
(***************************************************************************)
(* The visitor's side of a conversation: WidgetRealtimeTransport keeps the *)
(* list of messages up to date from three sources that race each other:    *)
(* the broadcasts of a realtime channel, HTTP catch-up by sequence number, *)
(* and the answers to the messages the visitor posts.  It acknowledges     *)
(* what it received with the delivered cursor.                             *)
(*                                                                         *)
(* The store gives messages contiguous sequence numbers in the order in    *)
(* which they become visible (module Conversations), so a message is its   *)
(* sequence number and a list merged by message id is a set of the stored  *)
(* messages; the bubbles that the send handler adds for a message that is  *)
(* being sent or was not accepted are left out.  The token stays valid and *)
(* the panel stays open.                                                   *)
(***************************************************************************)
EXTENDS Naturals, Sequences, FiniteSets, FiniteSetsExt

CONSTANTS
    Calls,         \* slots for catch-up calls in progress
    PageSize,      \* messages in a full page of a catch-up answer
    MaxPages,      \* pages one catch-up call asks for
    MaxMessages,   \* bound: messages of the conversation
    MaxPosts,      \* bound: messages the visitor posts
    MaxDrops,      \* bound: times the connection of the channel breaks
    MaxOfflines,   \* bound: times the browser loses its network
    MaxFailures    \* bound: HTTP calls that fail while there is a network

BoundsAssumption ==
    /\ PageSize \in Nat \ {0} /\ MaxPages \in Nat \ {0}
    /\ MaxMessages \in Nat \ {0}
    /\ MaxPosts \in Nat /\ MaxDrops \in Nat /\ MaxOfflines \in Nat /\ MaxFailures \in Nat

VARIABLES
    log,        \* the stored messages: log[n] is the sender of message n
    delivered,  \* the stored conversation_visitor_reads.last_delivered_sequence
    wire,       \* broadcasts on their way on the channel
    online,     \* the browser has a network
    channel,    \* the message channel, as the client and the server see it
    retry,      \* the retry timer is armed
    messages,   \* WidgetRealtimeTransport.messages
    rendered,   \* messagesRef.current: the list as of the last render
    call,       \* call[c]: the catch-up call in slot c
    post,       \* the visitor's message that is being posted
    marks,      \* markReceipt calls in progress: the sequence number, and the
                \* cursor in the server's answer (0: not served yet)
    local,      \* localReceipts.lastDeliveredSequence
    inFlight,   \* deliveredInFlightThrough
    received,   \* history: every message the client ever merged
    drops, offlines, failures, posts  \* what has been used of the bounds

server     == <<log, delivered>>
connection == <<wire, online, channel, retry>>
receipts   == <<marks, local, inFlight>>
used       == <<drops, offlines, failures, posts>>
vars == <<server, connection, messages, rendered, call, post, receipts, received, used>>
-----------------------------------------------------------------------------
Numbers   == 1..MaxMessages
Stored    == DOMAIN log
Agents(S) == {n \in S : log[n] = "agent"}
MaxOf(S)  == Max(S \union {0})     \* maxSequenceNumber, maxAgentMessageSequence

NoCall == [pc |-> "idle", page |-> 0, after |-> 0, items |-> {}, cursor |-> 0]
NoPost == [pc |-> "idle", sequence |-> 0]

\* The broadcasts reach a channel the server has joined to the topic.
Joined == channel \in {"joined", "subscribed"}

\* The panel opens on a conversation with one message, already listed.
Init ==
    /\ log = <<"visitor">> /\ delivered = 0
    /\ wire = <<>> /\ online = TRUE /\ channel = "joining" /\ retry = FALSE
    /\ messages = {1} /\ rendered = {1} /\ received = {1}
    /\ call = [c \in Calls |-> NoCall]
    /\ post = NoPost
    /\ marks = {} /\ local = 0 /\ inFlight = 0
    /\ drops = 0 /\ offlines = 0 /\ failures = 0 /\ posts = 0
-----------------------------------------------------------------------------
(* The server. *)

Store(sender) ==
    /\ Len(log) < MaxMessages
    /\ log' = Append(log, sender)
    /\ wire' = IF Joined THEN Append(wire, Len(log) + 1) ELSE wire

AgentSends ==
    /\ Store("agent")
    /\ UNCHANGED <<delivered, online, channel, retry, messages, rendered, call, post,
                   receipts, received, used>>

\* widget_list_visitor_messages: the first page after a sequence number.
Page(after) == {n \in Stored : n > after /\ n <= after + PageSize}
-----------------------------------------------------------------------------
(* Merging and acknowledging. *)

\* Fault: an answer replaces the list.
MergeReplacing(S) ==
    /\ messages' = S
    /\ received' = received \union S

Merge(S) ==
    /\ messages' = messages \union S
    /\ received' = received \union S

\* Fault: a cursor that is not ahead of the known ones is sent as well.
MarkDeliveredAgain(n, cursor) ==
    LET known == Max({local, cursor}) IN
    /\ local' = known
    /\ IF n >= known /\ n >= inFlight
       THEN marks' = marks \union {[through |-> n, cursor |-> 0]} /\ inFlight' = n
       ELSE UNCHANGED <<marks, inFlight>>

\* mergeReceiptCursors, then persistReceipt("delivered", n)
MarkDelivered(n, cursor) ==
    LET known == Max({local, cursor}) IN
    /\ local' = known
    /\ IF n > known /\ n > inFlight
       THEN marks' = marks \union {[through |-> n, cursor |-> 0]} /\ inFlight' = n
       ELSE UNCHANGED <<marks, inFlight>>

MarkServed(mark) ==
    /\ online
    /\ mark.cursor = 0
    /\ delivered' = Max({delivered, mark.through})
    /\ marks' = (marks \ {mark}) \union {[mark EXCEPT !.cursor = delivered']}
    /\ UNCHANGED <<log, connection, messages, rendered, call, post, local, inFlight,
                   received, used>>

\* finally: the watermark is cleared by the call that has set it.
SettleMark(mark) ==
    /\ marks' = marks \ {mark}
    /\ inFlight' = IF inFlight = mark.through THEN 0 ELSE inFlight

MarkAnswered(mark) ==
    /\ mark.cursor # 0
    /\ local' = Max({local, mark.cursor})
    /\ SettleMark(mark)
    /\ UNCHANGED <<server, connection, messages, rendered, call, post, received, used>>

\* A request fails: always possible without a network, else it counts.
RequestFails ==
    \/ ~online /\ UNCHANGED failures
    \/ failures < MaxFailures /\ failures' = failures + 1

\* The call fails, before or after the server has served it.
MarkFails(mark) ==
    /\ RequestFails
    /\ SettleMark(mark)
    /\ UNCHANGED <<server, connection, messages, rendered, call, post, local, received,
                   drops, offlines, posts>>
-----------------------------------------------------------------------------
(* Catch-up.  The calls are not awaited and may overlap; each starts after  *)
(* the greatest sequence number of the list.                                *)

Ask(page, after) ==
    [pc |-> "asked", page |-> page, after |-> after, items |-> {}, cursor |-> 0]

StartCatchUp ==
    \E c \in Calls :
        /\ call[c].pc = "idle"
        /\ call' = [call EXCEPT ![c] = Ask(1, MaxOf(messages))]

\* The page, and the stored cursors with it.
AnswerCatchUp(c) ==
    /\ online
    /\ call[c].pc = "asked"
    /\ call' = [call EXCEPT ![c].pc = "answered", ![c].items = Page(call[c].after),
                            ![c].cursor = delivered]
    /\ UNCHANGED <<server, connection, messages, rendered, post, receipts, received, used>>

\* Fault: a full page is taken for the last one.
IsLastWhenFull(c) == Cardinality(call[c].items) <= PageSize \/ call[c].page = MaxPages

IsLast(c) == Cardinality(call[c].items) < PageSize \/ call[c].page = MaxPages

\* A full page: merge it, and ask again after what the list has by now.
ContinueCatchUp(c) ==
    /\ call[c].pc = "answered"
    /\ ~IsLast(c)
    /\ Merge(call[c].items)
    /\ local' = Max({local, call[c].cursor})
    /\ call' = [call EXCEPT ![c] =
                  Ask(call[c].page + 1, MaxOf(messages \union call[c].items))]
    /\ UNCHANGED <<server, connection, rendered, post, marks, inFlight, used>>

\* Fault: the newest message of anybody is acknowledged.
FinishWithAnySender(c) ==
    /\ call[c].pc = "answered"
    /\ IsLast(c)
    /\ Merge(call[c].items)
    /\ MarkDelivered(MaxOf(messages \union call[c].items), call[c].cursor)
    /\ call' = [call EXCEPT ![c] = NoCall]
    /\ UNCHANGED <<server, connection, rendered, post, used>>

\* The last page: merge it, and acknowledge the agent's newest message.
FinishCatchUp(c) ==
    /\ call[c].pc = "answered"
    /\ IsLast(c)
    /\ Merge(call[c].items)
    /\ MarkDelivered(MaxOf(Agents(messages \union call[c].items)), call[c].cursor)
    /\ call' = [call EXCEPT ![c] = NoCall]
    /\ UNCHANGED <<server, connection, rendered, post, used>>

CatchUpFails(c) ==
    /\ call[c].pc \in {"asked", "answered"}
    /\ RequestFails
    /\ call' = [call EXCEPT ![c] = NoCall]
    /\ UNCHANGED <<server, connection, messages, rendered, post, receipts, received, drops, offlines,
                   posts>>
-----------------------------------------------------------------------------
(* The message channel. *)

\* ensureSubscription: recreate the channel if it is missing.
EnsureSubscription ==
    channel' = IF channel = "none" THEN "joining" ELSE channel

ServerJoins ==
    /\ online
    /\ channel = "joining"
    /\ channel' = "joined"
    /\ UNCHANGED <<server, wire, online, retry, messages, rendered, call, post, receipts, received, used>>

\* Fault: a new subscription does not catch up.
SubscribedOnly ==
    /\ channel = "joined"
    /\ channel' = "subscribed"
    /\ UNCHANGED <<server, wire, online, retry, messages, rendered, call, post, receipts,
                   received, used>>

\* handleMessageChannelStatus("SUBSCRIBED")
Subscribed ==
    /\ channel = "joined"
    /\ channel' = "subscribed"
    /\ StartCatchUp
    /\ UNCHANGED <<server, wire, online, retry, messages, rendered, post, receipts, received, used>>

\* The connection breaks.  Until the client notices it only looks subscribed.
ConnectionBreaks ==
    /\ drops < MaxDrops
    /\ channel \in {"joining", "joined", "subscribed"}
    /\ drops' = drops + 1
    /\ channel' = "broken"
    /\ wire' = <<>>
    /\ UNCHANGED <<server, online, retry, messages, rendered, call, post, receipts, received,
                   offlines, failures, posts>>

\* handleMessageChannelStatus("CHANNEL_ERROR" | "TIMED_OUT" | "CLOSED")
ChannelError ==
    /\ channel = "broken"
    /\ channel' = "none"
    /\ retry' = TRUE
    /\ UNCHANGED <<server, wire, online, messages, rendered, call, post, receipts, received, used>>

RetryTimer ==
    /\ retry
    /\ retry' = FALSE
    /\ EnsureSubscription
    /\ UNCHANGED <<server, wire, online, messages, rendered, call, post, receipts, received, used>>

\* visibilitychange to visible: catch up, whatever the channel does.
BecomesVisible ==
    /\ StartCatchUp
    /\ EnsureSubscription
    /\ UNCHANGED <<server, wire, online, retry, messages, rendered, post, receipts, received, used>>

\* invalidateChannelsForReconnect
GoesOffline ==
    /\ online
    /\ offlines < MaxOfflines
    /\ offlines' = offlines + 1
    /\ online' = FALSE
    /\ channel' = "none" /\ wire' = <<>> /\ retry' = FALSE
    /\ UNCHANGED <<server, messages, rendered, call, post, receipts, received, drops,
                   failures, posts>>

\* The channel is dropped, whatever its state, and made again.
ComesOnline ==
    /\ ~online
    /\ online' = TRUE
    /\ channel' = "joining" /\ wire' = <<>> /\ retry' = FALSE
    /\ StartCatchUp
    /\ UNCHANGED <<server, messages, rendered, post, receipts, received, used>>

\* The broadcast handler.
ReceiveBroadcast ==
    /\ channel = "subscribed"
    /\ wire # <<>>
    /\ wire' = Tail(wire)
    /\ Merge({Head(wire)})
    /\ IF log[Head(wire)] = "agent" THEN MarkDelivered(Head(wire), 0) ELSE UNCHANGED receipts
    /\ UNCHANGED <<server, online, channel, retry, rendered, call, post, used>>

\* React renders the list the transport published.
Render ==
    /\ rendered # messages
    /\ rendered' = messages
    /\ UNCHANGED <<server, connection, messages, call, post, receipts, received, used>>
-----------------------------------------------------------------------------
(* handleSend.  A failed post is sent again with its client id, and the     *)
(* server then answers with the message it has stored.                      *)

Post ==
    /\ post.pc = "idle"
    /\ posts < MaxPosts \/ post.sequence # 0
    /\ posts' = IF post.sequence = 0 THEN posts + 1 ELSE posts
    /\ post' = [post EXCEPT !.pc = "posted"]
    /\ UNCHANGED <<server, connection, messages, rendered, call, receipts, received, drops,
                   offlines, failures>>

StorePost ==
    /\ online
    /\ post.pc = "posted"
    /\ post.sequence = 0
    /\ Store("visitor")
    /\ post' = [pc |-> "stored", sequence |-> Len(log) + 1]
    /\ UNCHANGED <<delivered, online, channel, retry, messages, rendered, call, receipts,
                   received, used>>

FindPost ==
    /\ online
    /\ post.pc = "posted"
    /\ post.sequence # 0
    /\ post' = [post EXCEPT !.pc = "stored"]
    /\ UNCHANGED <<server, connection, messages, rendered, call, receipts, received, used>>

\* The answer is merged into the rendered list, and that replaces the
\* transport's list (reconcileTransport).
PostAnswered ==
    /\ post.pc = "stored"
    /\ messages' = rendered \union {post.sequence}
    /\ rendered' = rendered \union {post.sequence}
    /\ received' = received \union {post.sequence}
    /\ EnsureSubscription
    /\ post' = NoPost
    /\ UNCHANGED <<server, wire, online, retry, call, receipts, used>>

PostFails ==
    /\ post.pc \in {"posted", "stored"}
    /\ RequestFails
    /\ post' = [post EXCEPT !.pc = "idle"]
    /\ UNCHANGED <<server, connection, messages, rendered, call, receipts, received, drops, offlines,
                   posts>>
-----------------------------------------------------------------------------
CatchUpStep(c) ==
    \/ AnswerCatchUp(c)
    \/ ContinueCatchUp(c)
    \/ FinishCatchUp(c)

ConnectionStep ==
    \/ ServerJoins
    \/ Subscribed
    \/ ChannelError
    \/ RetryTimer
    \/ ReceiveBroadcast

PostStep == StorePost \/ FindPost \/ PostAnswered

Next ==
    \/ AgentSends
    \/ \E c \in Calls : CatchUpStep(c) \/ CatchUpFails(c)
    \/ \E mark \in marks : MarkServed(mark) \/ MarkAnswered(mark) \/ MarkFails(mark)
    \/ ConnectionStep
    \/ ConnectionBreaks
    \/ BecomesVisible
    \/ GoesOffline
    \/ ComesOnline
    \/ Render
    \/ Post
    \/ PostStep
    \/ PostFails

Spec == Init /\ [][Next]_vars

\* Timers fire, the server answers, the browser runs its handlers, the network
\* comes back, and without it a request fails in the end.  Nothing makes anybody
\* write a message or look at the page.  A client may have any number of calls
\* in progress: strong fairness keeps the slots of Calls, a bound of the model,
\* from stopping a subscription.
Fairness ==
    /\ WF_vars(ServerJoins) /\ SF_vars(Subscribed) /\ SF_vars(ComesOnline)
    /\ WF_vars(ChannelError) /\ WF_vars(RetryTimer)
    /\ WF_vars(ReceiveBroadcast) /\ WF_vars(Render) /\ WF_vars(PostStep)
    /\ \A c \in Calls : WF_vars(CatchUpStep(c)) /\ WF_vars(~online /\ CatchUpFails(c))
    /\ WF_vars(\E mark \in marks : MarkServed(mark) \/ MarkAnswered(mark))

FairSpec == Spec /\ Fairness
-----------------------------------------------------------------------------
(* Properties. *)

CallType == [pc : {"idle", "asked", "answered"}, page : 0..MaxPages, after : 0..MaxMessages,
             items : SUBSET Numbers, cursor : 0..MaxMessages]

\* Every variable has the type of the field it stands for.
TypeOK ==
    /\ log \in Seq({"visitor", "agent"}) /\ Len(log) <= MaxMessages
    /\ delivered \in 0..MaxMessages
    /\ wire \in Seq(Numbers)
    /\ channel \in {"none", "joining", "joined", "subscribed", "broken"}
    /\ online \in BOOLEAN /\ retry \in BOOLEAN
    /\ messages \subseteq Stored /\ rendered \subseteq Stored /\ received \subseteq Stored
    /\ call \in [Calls -> CallType]
    /\ post \in [pc : {"idle", "posted", "stored"}, sequence : 0..MaxMessages]
    /\ marks \subseteq [through : Numbers, cursor : 0..MaxMessages]
    /\ local \in 0..MaxMessages /\ inFlight \in 0..MaxMessages
    /\ drops \in 0..MaxDrops /\ offlines \in 0..MaxOfflines
    /\ failures \in 0..MaxFailures /\ posts \in 0..MaxPosts

\* The delivered cursor stands at an agent's message the client has received,
\* however the acknowledgements overlap, fail and are answered out of order.
AcknowledgesReceived == delivered = 0 \/ delivered \in Agents(received)

\* A message the visitor has seen on the screen never disappears from it.
ShownStays == [][rendered \subseteq rendered']_vars

\* A page is asked for after the list's greatest number, though message n below
\* it is missing: a broadcast has come between two pages of one call.
PassedOver(n) ==
    \E c \in DOMAIN call : call[c].page > 1 /\ n <= call[c].after /\ n \notin messages

\* A visitor who only reads, on a network where requests succeed once the
\* channel is back, ends up with every message that no further page of a
\* catch-up passes over, and with what was received acknowledged, however
\* catch-up calls, their pages, broadcasts and new channels overlap.  (Message 1
\* is in the list from the beginning.)  That a call has pages enough for what
\* was missed is up to MaxPages.
ReaderCatchesUp ==
    /\ \A n \in Numbers \ {1} : []~PassedOver(n) => (n \in Stored ~> [](n \in rendered))
    /\ <>[](delivered = MaxOf(Agents(received)))

\* What the documentation says of the delivered cursor, which advances when the
\* client receives a message: one the cursor covers, by then or in the end, has
\* been received.
CoveredIsReceived ==
    \A n \in Numbers :
        (n <= delivered /\ log[n] = "agent") ~> n \in received
=============================================================================
