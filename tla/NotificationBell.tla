-------------------------- MODULE NotificationBell --------------------------
(***************************************************************************)
(* The bell of one dashboard tab (useNotifications): a list of             *)
(* notifications, newest first, and a badge.  It is fed by four sources    *)
(* that nothing orders: row changes of the notifications and of the unread *)
(* counter, refreshes (initial, on reconnect, on becoming visible), older  *)
(* pages, and the answers of its own marks.                                *)
(*                                                                         *)
(* The server's transactions are atomic here; module Notifications shows   *)
(* that the counter is the number of unread rows after each.  Sounds and   *)
(* desktop notifications are left to module TabElection.                   *)
(***************************************************************************)
EXTENDS OperatorChannel, FiniteSets, SequencesExt, FiniteSetsExt

CONSTANTS
    MaxNotification,    \* bound: notifications 1, 2, ... are created in turn
    InitNotifications,  \* bound: how many there are when the tab is opened
    PageSize,           \* DEFAULT_LIMIT
    Calls,              \* calls to the server that may be in flight at once
    MaxFeed,            \* bound: no call begins while more events are under way
    MayFail             \* whether calls to the server may fail

BellAssumption ==
    /\ MaxNotification \in Nat /\ InitNotifications \in 0..MaxNotification
    /\ PageSize \in Nat \ {0} /\ MaxFeed \in Nat /\ MayFail \in BOOLEAN

VARIABLES
    row,        \* row[n]: "absent", "unread" or "read" in the database
    item,       \* item[n]: what the list shows of n, "absent" if nothing
    badge,      \* unreadCount
    cursor,     \* nextCursor: the oldest notification of the page, 0 if no more
    call,       \* call[c]: a call in flight
    owed,       \* history: no refresh read since the channel was joined has been applied
    late        \* history: "list", "badge": it is from an answer that was overtaken

bellVars == <<row, item, badge, cursor, call, owed, late>>
vars == <<bellVars, channelVars>>
-----------------------------------------------------------------------------
Notifications == 1..MaxNotification

Unread(rows) == {n \in Notifications : rows[n] = "unread"}

\* The newest PageSize notifications of rows that are older than `before`.
Page(rows, before) ==
    LET old == {n \in Notifications : rows[n] # "absent" /\ n < before}
    IN {n \in old : Cardinality({m \in old : m > n}) < PageSize}

\* next_cursor: set when there is an older notification than those of the page.
NextCursor(rows, before) ==
    IF \E n \in Notifications :
          /\ rows[n] # "absent" /\ n < before
          /\ n \notin Page(rows, before)
    THEN Min(Page(rows, before)) ELSE 0

NoCall == [kind |-> "none"]

Init ==
    /\ ChannelInit
    /\ row = [n \in Notifications |-> IF n <= InitNotifications THEN "unread" ELSE "absent"]
    /\ item = [n \in Notifications |-> "absent"]
    /\ badge = 0
    /\ cursor = 0
    /\ call = [c \in Calls |-> NoCall]
    /\ owed = TRUE
    /\ late = {}
-----------------------------------------------------------------------------
(* History: what an answer would overwrite. *)

\* How much has happened to the rows: each is created, and then read.
Age(rows) ==
    Cardinality({n \in Notifications : rows[n] # "absent"})
        + Cardinality({n \in Notifications : rows[n] = "read"})

\* Something of age a has been applied: of the answers of these kinds that are
\* in flight, what is older has been overtaken.
Overtaking(a, kinds, calls) ==
    [c \in Calls |->
        IF calls[c].kind \notin kinds THEN calls[c]
        ELSE [calls[c] EXCEPT !.older =
                @ \union {part \in DOMAIN calls[c].age : calls[c].age[part] < a}]]

NoAge == [part \in {} |-> 0]
-----------------------------------------------------------------------------
(* The server. *)

Counter(rows) == [type |-> "counter", count |-> Cardinality(Unread(rows)), age |-> Age(rows)]

\* The trigger of each changed row changes the counter after it.
Changes(type, changed, rows) ==
    SetToSeq({[type |-> type, n |-> n, state |-> rows[n], age |-> Age(rows)] : n \in changed})
        \o <<Counter(rows)>>

CreateNotification(n) ==
    /\ row[n] = "absent" /\ \A m \in 1..n - 1 : row[m] # "absent"
    /\ row' = [row EXCEPT ![n] = "unread"]
    /\ Publish(Changes("insert", {n}, row'))
    /\ UNCHANGED <<item, badge, cursor, call, owed, late>>
-----------------------------------------------------------------------------
(* refresh *)

Request == [kind |-> "refresh", pc |-> "asked", latest |-> TRUE, age |-> NoAge, older |-> {}]

\* requestRef: of refreshes and pages, only the one asked last is not stale.
Ask(c, request) ==
    /\ call[c].kind = "none"
    /\ call' = [d \in Calls |->
                  IF d = c THEN request
                  ELSE IF call[d].kind \in {"refresh", "more"}
                  THEN [call[d] EXCEPT !.latest = FALSE]
                  ELSE call[d]]

\* The first load, the tab becomes visible, the browser is online again.
Refresh(c) ==
    /\ Len(feed) <= MaxFeed
    /\ Ask(c, Request)
    /\ UNCHANGED <<row, item, badge, cursor, owed, late, channelVars>>

\* onConnectionChange("connected")
Connected(c) ==
    /\ Subscribed
    /\ Ask(c, Request)
    /\ UNCHANGED <<row, item, badge, cursor, owed, late>>

\* The server actions run in turn: listNotificationsAction,
ReadList(c) ==
    /\ call[c].kind = "refresh" /\ call[c].pc = "asked"
    /\ call' = [call EXCEPT ![c] =
                  [kind |-> "refresh", pc |-> "listed", latest |-> @.latest,
                   joined |-> link # "down", rows |-> row,
                   age |-> [list |-> Age(row)], older |-> {}]]
    /\ UNCHANGED <<row, item, badge, cursor, owed, late, channelVars>>

Counted(c, rows, older) ==
    call' = [call EXCEPT ![c] =
               [kind |-> "refresh", pc |-> "done", latest |-> @.latest, joined |-> @.joined,
                rows |-> @.rows, count |-> Cardinality(Unread(rows)),
                age |-> [list |-> Age(@.rows), badge |-> Age(rows)], older |-> older]]

\* getNotificationUnreadCountAction;
ReadCount(c) ==
    /\ call[c].kind = "refresh" /\ call[c].pc = "listed"
    /\ Counted(c, row, call[c].older)
    /\ UNCHANGED <<row, item, badge, cursor, owed, late, channelVars>>

\* if that fails, the count that came with the list is taken.
ReadCountFails(c) ==
    /\ call[c].kind = "refresh" /\ call[c].pc = "listed"
    /\ MayFail
    /\ Counted(c, call[c].rows, IF call[c].older = {} THEN {} ELSE {"list", "badge"})
    /\ UNCHANGED <<row, item, badge, cursor, owed, late, channelVars>>

Returned(c) == [call EXCEPT ![c] = NoCall]

\* Fault: an answer is applied although another refresh has been asked since.
AppliesAlways(r) == TRUE

\* isStale
Applies(r) == r.latest

\* The answer replaces the list and the badge.
ApplyRefresh(c) ==
    LET r == call[c]
        page == Page(r.rows, MaxNotification + 1) IN
    /\ r.kind = "refresh" /\ r.pc = "done"
    /\ IF Applies(r)
       THEN /\ item' = [n \in Notifications |-> IF n \in page THEN r.rows[n] ELSE "absent"]
            /\ cursor' = NextCursor(r.rows, MaxNotification + 1)
            /\ badge' = r.count
            /\ call' = Overtaking(r.age.list, {"mark", "more"}, Returned(c))
            /\ late' = r.older
            /\ owed' = (owed /\ ~r.joined)
       ELSE /\ call' = Returned(c)
            /\ UNCHANGED <<item, badge, cursor, owed, late>>
    /\ UNCHANGED <<row, channelVars>>
-----------------------------------------------------------------------------
(* loadMore *)

AskMore(c) ==
    /\ Len(feed) <= MaxFeed
    /\ cursor # 0
    /\ \A d \in Calls : call[d].kind # "more"
    /\ Ask(c, [kind |-> "more", pc |-> "asked", latest |-> TRUE, before |-> cursor,
               age |-> NoAge, older |-> {}])
    /\ UNCHANGED <<row, item, badge, cursor, owed, late, channelVars>>

ReadMore(c) ==
    /\ call[c].kind = "more" /\ call[c].pc = "asked"
    /\ call' = [call EXCEPT ![c] =
                  [kind |-> "more", pc |-> "done", latest |-> @.latest, before |-> @.before,
                   rows |-> row, age |-> [list |-> Age(row)], older |-> {}]]
    /\ UNCHANGED <<row, item, badge, cursor, owed, late, channelVars>>

\* mergeById: the items of the answer win over those in the list.
ApplyMore(c) ==
    LET r == call[c]
        page == Page(r.rows, r.before) IN
    /\ r.kind = "more" /\ r.pc = "done"
    /\ call' = Returned(c)
    /\ IF Applies(r)
       THEN /\ item' = [n \in Notifications |-> IF n \in page THEN r.rows[n] ELSE item[n]]
            /\ cursor' = NextCursor(r.rows, r.before)
            /\ late' = late \union r.older
       ELSE UNCHANGED <<item, cursor, late>>
    /\ UNCHANGED <<row, badge, owed, channelVars>>
-----------------------------------------------------------------------------
(* markRead and markAllRead *)

AskMark(c, which) ==
    /\ Len(feed) <= MaxFeed
    /\ call[c].kind = "none"
    /\ call' = [call EXCEPT ![c] =
                  [kind |-> "mark", pc |-> "asked", which |-> which, age |-> NoAge, older |-> {}]]
    /\ UNCHANGED <<row, item, badge, cursor, owed, late, channelVars>>

\* An item that is shown as unread is opened.
OpenNotification(c, n) == item[n] = "unread" /\ AskMark(c, {n})

\* The button is enabled while the badge is not zero.
MarkAllRead(c) == badge # 0 /\ AskMark(c, Notifications)

ServeMark(c) ==
    LET marked == call[c].which \intersect Unread(row) IN
    /\ call[c].kind = "mark" /\ call[c].pc = "asked"
    /\ row' = [n \in Notifications |-> IF n \in marked THEN "read" ELSE row[n]]
    /\ call' = [call EXCEPT ![c] =
                  [kind |-> "mark", pc |-> "done", which |-> @.which,
                   count |-> Cardinality(Unread(row')),
                   age |-> [list |-> Age(row'), badge |-> Age(row')], older |-> {}]]
    /\ IF marked = {} THEN UNCHANGED channelVars ELSE Publish(Changes("update", marked, row'))
    /\ UNCHANGED <<item, badge, cursor, owed, late>>

\* The item, or every item of the list, is read.  A single mark tells how many
\* are unread; after a mark of all, there are none.
ApplyMark(c) ==
    LET r == call[c]
        all == r.which = Notifications IN
    /\ r.kind = "mark" /\ r.pc = "done"
    /\ item' = [n \in Notifications |->
                  IF n \in r.which /\ item[n] # "absent" THEN "read" ELSE item[n]]
    /\ badge' = IF all THEN 0 ELSE r.count
    /\ call' = Overtaking(r.age.list, {"refresh", "mark", "more"}, Returned(c))
    /\ late' = (late \ {"badge"}) \union IF all THEN r.older ELSE r.older \ {"list"}
    /\ UNCHANGED <<row, cursor, owed, channelVars>>

\* A call fails, whether or not the server has served it.
CallFails(c) ==
    /\ call[c].kind # "none"
    /\ MayFail
    /\ call' = Returned(c)
    /\ UNCHANGED <<row, item, badge, cursor, owed, late, channelVars>>
-----------------------------------------------------------------------------
(* Row changes *)

Hear(e) == call' = Overtaking(e.age, {"refresh", "mark", "more"}, call)

\* onInsert: merged, and counted until the counter's change says how many.
OnInsert ==
    LET e == Head(feed) IN
    /\ Receive
    /\ e.type = "insert"
    /\ item' = [item EXCEPT ![e.n] = e.state]
    /\ badge' = badge + 1
    /\ Hear(e)
    /\ UNCHANGED <<row, cursor, owed, late>>

\* onUpdate: also of an item that is not in the list.
OnUpdate ==
    LET e == Head(feed) IN
    /\ Receive
    /\ e.type = "update"
    /\ item' = [item EXCEPT ![e.n] = e.state]
    /\ Hear(e)
    /\ UNCHANGED <<row, badge, cursor, owed, late>>

OnUnreadCountChange ==
    LET e == Head(feed) IN
    /\ Receive
    /\ e.type = "counter"
    /\ badge' = e.count
    /\ Hear(e)
    /\ late' = late \ {"badge"}
    /\ UNCHANGED <<row, item, cursor, owed>>

Join == ServerJoins /\ UNCHANGED bellVars

Break ==
    /\ ChannelBreaks
    /\ owed' = TRUE
    /\ call' = [c \in Calls |->
                  IF call[c].kind = "refresh" /\ call[c].pc # "asked"
                  THEN [call[c] EXCEPT !.joined = FALSE] ELSE call[c]]
    /\ UNCHANGED <<row, item, badge, cursor, late>>

Next ==
    \/ \E n \in Notifications : CreateNotification(n)
    \/ \E c \in Calls :
          \/ Refresh(c)
          \/ Connected(c)
          \/ ReadList(c)
          \/ ReadCount(c)
          \/ ReadCountFails(c)
          \/ ApplyRefresh(c)
          \/ AskMore(c)
          \/ ReadMore(c)
          \/ ApplyMore(c)
          \/ MarkAllRead(c)
          \/ ServeMark(c)
          \/ ApplyMark(c)
          \/ CallFails(c)
    \/ \E c \in Calls, n \in Notifications : OpenNotification(c, n)
    \/ OnInsert
    \/ OnUpdate
    \/ OnUnreadCountChange
    \/ Join
    \/ Break

Spec == Init /\ [][Next]_vars
-----------------------------------------------------------------------------
(* Properties. *)

Quiet == Settled /\ \A c \in Calls : call[c].kind = "none"

\* When nothing is under way, the badge is the unread counter, every
\* notification of the newest page is in the list, and whatever is in the list
\* has its read state; unless an answer was applied after something newer, or
\* no refresh got through since the channel was joined.  A refresh never
\* brings back what an earlier refresh has replaced.
BellSettles ==
    Quiet /\ ~owed =>
        /\ "badge" \notin late => badge = Cardinality(Unread(row))
        /\ "list" \notin late =>
              /\ \A n \in Page(row, MaxNotification + 1) : item[n] = row[n]
              /\ \A n \in Notifications : item[n] \in {"absent", row[n]}

\* Every variable has the type of the field it stands for.
TypeOK ==
    /\ row \in [Notifications -> {"absent", "unread", "read"}]
    /\ item \in [Notifications -> {"absent", "unread", "read"}]
    /\ badge \in Nat /\ cursor \in 0..MaxNotification
    /\ late \subseteq {"list", "badge"} /\ owed \in BOOLEAN
=============================================================================
