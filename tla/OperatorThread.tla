--------------------------- MODULE OperatorThread ---------------------------
(***************************************************************************)
(* An open conversation in the dashboard (useLiveConversationThread and    *)
(* the composer of LiveConversationThread).  The list of messages is fed   *)
(* by the channel, by catch-ups that ask for what follows the greatest     *)
(* known sequence number, by the server's props and by the answers of the  *)
(* operator's own sends, which show an optimistic entry until they are     *)
(* answered.  Messages of the visitor are marked read as they are shown.   *)
(*                                                                         *)
(* Message m is the one with sequence number m; log[m] is its client       *)
(* message id, 0 for the visitor's.  The clocks of browser and server are  *)
(* taken to agree on what was created first.                               *)
(***************************************************************************)
EXTENDS OperatorChannel, FiniteSets, FiniteSetsExt, SequencesExt

CONSTANTS
    MaxMessage,     \* bound: length of the conversation
    InitMessages,   \* bound: its length when the page is opened
    PropsWindow,    \* how many of the newest messages the server's props hold
    PageSize,       \* messages of a page of a catch-up
    MaxPages,       \* pages of a catch-up
    MaxAttempts,    \* bound: how often the operator presses send
    Fetches,        \* catch-ups that may be in flight at once
    MayFail         \* whether calls to the server may fail

ThreadAssumption ==
    /\ MaxMessage \in Nat /\ InitMessages \in 0..MaxMessage
    /\ {PropsWindow, PageSize, MaxPages, MaxAttempts} \subseteq Nat \ {0}
    /\ MayFail \in BOOLEAN

VARIABLES
    log,        \* the messages of the conversation in the database
    shown,      \* the stored messages in the list
    flagged,    \* those of them whose status is "failed"
    bubbles,    \* the optimistic entries of the list
    maxRef,     \* maxSequenceRef
    due,        \* the effect of "connected" has not run yet
    fetch,      \* fetch[f]: a catch-up in flight
    send,       \* the send in flight
    attempts,   \* how often send was pressed
    cid,        \* clientMessageIdRef, 0 for null
    props,      \* length of the log when the props under way were read, -1 if none
    marks,      \* marks of read under way
    lastMarked, \* lastMarkedVisitorSequenceRef
    readCursor, \* this member's read cursor in the database
    top,        \* history: messages up to this one are above the loaded page
    passed,     \* history: numbers of messages a catch-up left out: it began after them
    unmarked,   \* history: the greatest mark that failed
    owed        \* history: no catch-up got through since the channel was joined

threadVars == <<log, shown, flagged, bubbles, maxRef, due, fetch, send, attempts, cid, props,
                marks, lastMarked, readCursor, top, passed, unmarked, owed>>
vars == <<threadVars, channelVars>>
-----------------------------------------------------------------------------
Messages == 1..MaxMessage
FromVisitor(m) == log[m] = 0

Greatest(S) == Max(S \union {0})
Seqs(B) == {b.seq : b \in B}

\* maxSequenceNumber: of stored and of optimistic entries.
MaxSequence(stored, B) == Greatest(stored \union Seqs(B))

\* The order of the list, bySequence: of two entries with one number, the one
\* that was created first.
LastOf(B) == CHOOSE b \in B : \A d \in B : d.seq < b.seq \/ (d.seq = b.seq /\ d.attempt <= b.attempt)

\* A stored message takes the place of the last of its optimistic entries.
Replaced(B) == IF B = {} THEN {} ELSE {LastOf(B)}

\* mergeMessages: the entries that are left when the messages of page are
\* merged.  Of a message that is in the list, only an entry before it is seen.
Merged(page, B) ==
    B \ UNION {Replaced({b \in B : b.cid = log[m] /\ (m \in shown => b.seq <= m)}) :
               m \in {m \in page \union shown : log[m] # 0}}

NoFetch == [pc |-> "none"]
NoSend == [pc |-> "none"]

Init ==
    /\ ChannelInit
    /\ log = [m \in 1..InitMessages |-> 0]
    /\ top = Greatest({InitMessages - PropsWindow} \intersect Nat)
    /\ shown = top + 1..InitMessages
    /\ flagged = {} /\ bubbles = {}
    /\ maxRef = InitMessages
    /\ due = FALSE
    /\ fetch = [f \in Fetches |-> NoFetch]
    /\ send = NoSend /\ attempts = 0 /\ cid = 0
    /\ props = -1
    /\ marks = shown /\ lastMarked = InitMessages /\ readCursor = 0
    /\ passed = {} /\ unmarked = 0 /\ owed = TRUE
-----------------------------------------------------------------------------
(* The list *)

\* The effect of a changed list: every message of the visitor beyond the last
\* marked one is marked read.
Display(now) ==
    LET new == {m \in now : log[m] = 0 /\ m > lastMarked} IN
    /\ shown' = now
    /\ lastMarked' = Greatest(new \union {lastMarked})
    /\ marks' = marks \union {m \in new : m > readCursor}

\* Messages from the channel or a catch-up are merged; maxSequenceRef is
\* computed anew.
Merge(page) ==
    /\ Display(shown \union page)
    /\ bubbles' = Merged(page, bubbles)
    /\ maxRef' = MaxSequence(shown', bubbles')

\* The database commits a message.
Append1(c) == Append(log, c)

VisitorSends ==
    /\ Len(log) < MaxMessage
    /\ log' = Append1(0)
    /\ Publish(<<Len(log) + 1>>)
    /\ UNCHANGED <<shown, flagged, bubbles, maxRef, due, fetch, send, attempts, cid, props,
                   marks, lastMarked, readCursor, top, passed, unmarked, owed>>

OnMessageInsert ==
    /\ Receive
    /\ Merge({Head(feed)})
    /\ UNCHANGED <<log, flagged, due, fetch, send, attempts, cid, props, readCursor, top,
                   passed, unmarked, owed>>

Join == ServerJoins /\ UNCHANGED threadVars

\* onConnectionChange("connected"): the effect runs after the next render.
Connected ==
    /\ Subscribed
    /\ due' = TRUE
    /\ UNCHANGED <<log, shown, flagged, bubbles, maxRef, fetch, send, attempts, cid, props,
                   marks, lastMarked, readCursor, top, passed, unmarked, owed>>

Break ==
    /\ ChannelBreaks
    /\ owed' = TRUE
    /\ due' = FALSE
    /\ fetch' = [f \in Fetches |-> IF fetch[f].pc = "none" THEN NoFetch
                                   ELSE [fetch[f] EXCEPT !.joined = FALSE]]
    /\ UNCHANGED <<log, shown, flagged, bubbles, maxRef, send, attempts, cid, props,
                   marks, lastMarked, readCursor, top, passed, unmarked>>
-----------------------------------------------------------------------------
(* catchUp *)

Ask(f, after, page) ==
    fetch' = [fetch EXCEPT ![f] = [pc |-> "asked", after |-> after, page |-> page, joined |-> FALSE]]

BeginCatchUp(f) ==
    /\ fetch[f].pc = "none"
    /\ Ask(f, maxRef, 1)
    /\ passed' = passed \union {m \in Messages : m <= maxRef /\ m > top /\ m \notin shown}
    /\ UNCHANGED <<log, shown, flagged, bubbles, maxRef, send, attempts, cid, props,
                   marks, lastMarked, readCursor, top, unmarked, owed, channelVars>>

\* The effect of "connected".
CatchUpConnected(f) == due /\ BeginCatchUp(f) /\ due' = FALSE

\* The browser is online again, or "Retry" is pressed.
CatchUpAgain(f) == BeginCatchUp(f) /\ UNCHANGED due

\* list_messages after a sequence number
ReadPage(f) ==
    LET c == fetch[f] IN
    /\ c.pc = "asked"
    /\ fetch' = [fetch EXCEPT ![f] =
                   [pc |-> "read", after |-> c.after, page |-> c.page, joined |-> link # "down",
                    items |-> {m \in c.after + 1..Len(log) : m <= c.after + PageSize}]]
    /\ UNCHANGED <<log, shown, flagged, bubbles, maxRef, due, send, attempts, cid, props,
                   marks, lastMarked, readCursor, top, passed, unmarked, owed, channelVars>>

EndOfLog(c) == Cardinality(c.items) < PageSize

ApplyPage(f) ==
    LET c == fetch[f] IN
    /\ c.pc = "read"
    /\ IF c.items = {}
       THEN UNCHANGED <<shown, bubbles, maxRef, marks, lastMarked>>
       ELSE Merge(c.items)
    /\ IF EndOfLog(c) \/ c.page = MaxPages
       THEN fetch' = [fetch EXCEPT ![f] = NoFetch]
       ELSE Ask(f, Greatest(c.items), c.page + 1)
    /\ owed' = (owed /\ ~(EndOfLog(c) /\ c.joined))
    /\ UNCHANGED <<log, flagged, due, send, attempts, cid, props, readCursor, top, passed,
                   unmarked, channelVars>>

FetchFails(f) ==
    /\ fetch[f].pc # "none"
    /\ MayFail
    /\ fetch' = [fetch EXCEPT ![f] = NoFetch]
    /\ UNCHANGED <<log, shown, flagged, bubbles, maxRef, due, send, attempts, cid, props,
                   marks, lastMarked, readCursor, top, passed, unmarked, owed, channelVars>>
-----------------------------------------------------------------------------
(* The composer *)

Submit ==
    /\ send.pc = "none"
    /\ attempts < MaxAttempts
    /\ attempts' = attempts + 1
    /\ cid' = IF cid = 0 THEN attempts + 1 ELSE cid
    /\ send' = [pc |-> "asked"]
    /\ bubbles' = Merged({}, bubbles) \union
                    {[attempt |-> attempts + 1, cid |-> cid', failed |-> FALSE,
                      seq |-> MaxSequence(shown, bubbles) + 1]}
    /\ UNCHANGED <<log, shown, flagged, maxRef, due, fetch, props, marks, lastMarked,
                   readCursor, top, passed, unmarked, owed, channelVars>>

\* send_operator_message answers a known client message id with its message.
ServeSend ==
    /\ send.pc = "asked"
    /\ IF \E m \in 1..Len(log) : log[m] = cid
       THEN UNCHANGED <<log, channelVars>>
       ELSE /\ Len(log) < MaxMessage
            /\ log' = Append1(cid)
            /\ Publish(<<Len(log) + 1>>)
    /\ send' = [pc |-> "stored"]
    /\ UNCHANGED <<shown, flagged, bubbles, maxRef, due, fetch, attempts, cid, props,
                   marks, lastMarked, readCursor, top, passed, unmarked, owed>>

\* Fault: the send's own entry is left to the merge.
KeepsOwn == bubbles

\* The send's own entry is taken out of the list before the merge.
WithoutOwn == {b \in bubbles : b.attempt # attempts}

\* maxSequenceRef is left as it is.
SendAnswered ==
    LET m == CHOOSE n \in 1..Len(log) : log[n] = cid IN
    /\ send.pc = "stored"
    /\ Display(shown \union {m})
    /\ bubbles' = Merged({m}, WithoutOwn)
    /\ cid' = 0
    /\ send' = NoSend
    /\ UNCHANGED <<log, flagged, maxRef, due, fetch, attempts, props, readCursor, top,
                   passed, unmarked, owed, channelVars>>

\* The server refuses, or its answer is lost.  Every entry with the client
\* message id fails, also a message that has been stored and received since.
SendFails ==
    /\ send.pc # "none"
    /\ MayFail
    /\ bubbles' = {IF b.cid = cid THEN [b EXCEPT !.failed = TRUE] ELSE b : b \in bubbles}
    /\ flagged' = flagged \union {m \in shown : log[m] = cid}
    /\ send' = NoSend
    /\ UNCHANGED <<log, shown, maxRef, due, fetch, attempts, cid, props, marks, lastMarked,
                   readCursor, top, passed, unmarked, owed, channelVars>>
-----------------------------------------------------------------------------
(* The server's props, and the marks *)

\* router.refresh()
ReadProps ==
    /\ props = -1
    /\ props' = Len(log)
    /\ UNCHANGED <<log, shown, flagged, bubbles, maxRef, due, fetch, send, attempts, cid,
                   marks, lastMarked, readCursor, top, passed, unmarked, owed, channelVars>>

\* Fault: the props replace a list that has gone further.
ReconcilesAny == bubbles = {}

\* reconcileThreadMessages
Reconciles == bubbles = {} /\ MaxSequence(shown, bubbles) <= props

\* A list that is the server's already is kept, and maxSequenceRef with it; one
\* that differs in what is not modelled, such as a sender's label, is not.
ApplyProps ==
    /\ props # -1
    /\ IF Reconciles
       THEN /\ top' = Greatest({props - PropsWindow} \intersect Nat)
            /\ Display(top' + 1..props)
            /\ flagged' = {}
            /\ \/ maxRef' = MaxSequence(shown', bubbles)
               \/ maxRef' = maxRef /\ shown' = shown /\ flagged = {}
            /\ passed' = passed \ shown'
       ELSE UNCHANGED <<top, shown, marks, lastMarked, flagged, maxRef, passed>>
    /\ props' = -1
    /\ UNCHANGED <<log, bubbles, due, fetch, send, attempts, cid, readCursor, unmarked, owed,
                   channelVars>>

\* mark_conversation_read: the cursor never goes back.
ServeMark(m) ==
    /\ m \in marks
    /\ marks' = marks \ {m}
    /\ readCursor' = Greatest({m, readCursor})
    /\ UNCHANGED <<log, shown, flagged, bubbles, maxRef, due, fetch, send, attempts, cid, props,
                   lastMarked, top, passed, unmarked, owed, channelVars>>

\* The mark is not asked again.
MarkFails(m) ==
    /\ m \in marks
    /\ MayFail
    /\ marks' = marks \ {m}
    /\ unmarked' = Greatest({m, unmarked})
    /\ UNCHANGED <<log, shown, flagged, bubbles, maxRef, due, fetch, send, attempts, cid, props,
                   lastMarked, readCursor, top, passed, owed, channelVars>>

Next ==
    \/ VisitorSends
    \/ OnMessageInsert
    \/ Join
    \/ Connected
    \/ Break
    \/ \E f \in Fetches :
          \/ CatchUpConnected(f)
          \/ CatchUpAgain(f)
          \/ ReadPage(f)
          \/ ApplyPage(f)
          \/ FetchFails(f)
    \/ Submit
    \/ ServeSend
    \/ SendAnswered
    \/ SendFails
    \/ ReadProps
    \/ ApplyProps
    \/ \E m \in Messages : ServeMark(m) \/ MarkFails(m)

Spec == Init /\ [][Next]_vars
-----------------------------------------------------------------------------
(* Properties. *)

Quiet ==
    /\ Settled /\ ~due
    /\ \A f \in Fetches : fetch[f].pc = "none"
    /\ props = -1 /\ marks = {}

\* When nothing is under way and a catch-up has got through since the channel
\* was joined, every message of the loaded page is in the list, except those a
\* catch-up began after; and the visitor's messages that are in the list count
\* as read, unless the mark failed.  An entry says "Sending" only while its send
\* is in flight, and once a send has been answered its message is in the list.
ThreadSettles ==
    /\ Quiet /\ ~owed =>
        /\ top + 1..Len(log) \subseteq shown \union passed
        /\ \A m \in shown : FromVisitor(m) => m <= Greatest({readCursor, unmarked})
    /\ \A b \in bubbles : ~b.failed => send.pc # "none" /\ b.attempt = attempts
    /\ \A m \in 1..Len(log) : log[m] \notin {0, cid} => m \in shown \/ m <= top

\* Every variable has the type of the field it stands for.
TypeOK ==
    /\ log \in UNION {[1..n -> 0..MaxAttempts] : n \in 0..MaxMessage}
    /\ flagged \subseteq shown /\ shown \subseteq 1..Len(log)
    /\ passed \subseteq Messages /\ marks \subseteq shown \union 1..top
=============================================================================
