---------------------------- MODULE InternalNotes ----------------------------
(***************************************************************************)
(* The internal notes of a conversation: the server's transactions and one *)
(* operator's panel (useLiveInternalNotes).  A transaction stamps the row  *)
(* with now(), the time it began, and writes it when it has the row's      *)
(* lock: what is committed later may be stamped earlier.  A catch-up asks  *)
(* for the active notes and for the tombstones since a watermark, which is *)
(* the greatest stamp the panel has seen.                                  *)
(*                                                                         *)
(* A body is named by the time its transaction began; so is a delete.      *)
(* Every page is taken to hold all of the conversation's notes.            *)
(***************************************************************************)
EXTENDS OperatorChannel, FiniteSets, FiniteSetsExt

CONSTANTS
    Notes,      \* the conversation's notes
    InitNotes,  \* those that may exist when the panel is opened
    Txns,       \* transactions that may be under way at once
    MaxClock,   \* bound: transactions
    MayFail     \* whether a call of the panel may fail

NotesAssumption == InitNotes \subseteq Notes /\ MaxClock \in Nat /\ MayFail \in BOOLEAN

VARIABLES
    note,       \* note[n]: its row in the database
    clock,      \* the time: transactions begun
    txn,        \* txn[t]: a transaction under way
    list,       \* list[n]: the note in the panel, NoNote if it is not
    tombs,      \* localTombstoneIdsRef
    watermark,  \* catchUpSinceRef, 0 for null
    call,       \* the catch-up that may still apply
    focus,      \* the fetch of the note a link points to
    answer,     \* rows in the answers to the operator's own save and to this fetch
    since,      \* history: the watermark of the last catch-up that was applied
    skipped,    \* history: deleted notes that it left in the list
    astray,     \* history: notes of which an older row was preferred to a newer one
    owed        \* history: no catch-up got through since the channel was joined

notesVars == <<note, clock, txn, list, tombs, watermark, call, focus, answer, since, skipped,
               astray, owed>>
vars == <<notesVars, channelVars>>
-----------------------------------------------------------------------------
Absent == [state |-> "absent", stamp |-> 0, body |-> 0, order |-> 0]
NoNote == [stamp |-> 0, body |-> 0]
Shown(row) == [stamp |-> row.stamp, body |-> row.body]
NoTxn == [op |-> "none"]
Idle == [pc |-> "none"]

\* older (a history): newer news of the note has been heard since it was written.
Answer(by, n, row) == [by |-> by, n |-> n, row |-> row, older |-> FALSE]
NoneOf(by) == \A a \in answer : a.by # by
Heard(a, n, row) == [a EXCEPT !.older = @ \/ (a.n = n /\ row.order > a.row.order)]

In(state) == {n \in Notes : note[n].state = state}

Init ==
    /\ ChannelInit
    /\ \E initial \in SUBSET InitNotes :
          note = [n \in Notes |->
                    IF n \in initial
                    THEN [Absent EXCEPT !.state = "active", !.stamp = 1, !.body = 1]
                    ELSE Absent]
    /\ clock = 1
    /\ txn = [t \in Txns |-> NoTxn]
    /\ list = [n \in Notes |-> Shown(note[n])]
    /\ tombs = {}
    /\ watermark = Max({0} \union {note[n].stamp : n \in Notes})
    /\ call = Idle /\ focus = Idle /\ answer = {}
    /\ since = 0 /\ skipped = {} /\ astray = {} /\ owed = TRUE
-----------------------------------------------------------------------------
(* The server.  Its order counts the writes of a row. *)

Begin(t, op, n, own) ==
    /\ txn[t].op = "none"
    /\ clock < MaxClock
    /\ clock' = clock + 1
    /\ txn' = [txn EXCEPT ![t] = [op |-> op, n |-> n, own |-> own, stamp |-> clock + 1]]

\* Another operator, or this one, saves or deletes a note.
BeginWrite(t, op, n, own) ==
    /\ own => NoneOf("own") /\ \A u \in Txns : txn[u].op # "none" => ~txn[u].own
    /\ own /\ op = "edit" => list[n] # NoNote
    /\ Begin(t, op, n, own)
    /\ UNCHANGED <<note, list, tombs, watermark, call, focus, answer, since, skipped, astray,
                   owed, channelVars>>

\* Fault: the row's stamp is not moved by a delete.
KeptStamp(op, n, stamp) == IF op = "delete" THEN note[n].stamp ELSE stamp

\* set_updated_at: now()
Stamp(op, n, stamp) == stamp

\* The row is locked, written and committed; nothing is written to a note that
\* is deleted, or that another create was faster with.
CommitWrite(t) ==
    LET x == txn[t]
        writes == note[x.n].state = IF x.op = "create" THEN "absent" ELSE "active"
        row == [state |-> IF x.op = "delete" THEN "deleted" ELSE "active",
                stamp |-> Stamp(x.op, x.n, x.stamp),
                body |-> x.stamp,
                order |-> note[x.n].order + 1] IN
    /\ x.op # "none"
    /\ txn' = [txn EXCEPT ![t] = NoTxn]
    /\ IF writes
       THEN /\ note' = [note EXCEPT ![x.n] = row]
            /\ Publish(<<[n |-> x.n, row |-> row]>>)
            /\ answer' = answer \union IF x.own /\ x.op # "delete"
                                       THEN {Answer("own", x.n, row)} ELSE {}
       ELSE UNCHANGED <<note, answer, channelVars>>
    /\ UNCHANGED <<clock, list, tombs, watermark, call, focus, since, skipped, astray, owed>>

Abort(t) ==
    /\ txn[t].op # "none" /\ ~txn[t].own
    /\ txn' = [txn EXCEPT ![t] = NoTxn]
    /\ UNCHANGED <<note, clock, list, tombs, watermark, call, focus, answer, since, skipped, astray,
                   owed, channelVars>>
-----------------------------------------------------------------------------
(* catchUp: of several, only the newest is applied. *)

AskCatchUp == call' = [pc |-> "asked", since |-> watermark]

\* The tab becomes visible, or "Retry" is pressed.
CatchUp ==
    /\ call.pc = "none"
    /\ AskCatchUp
    /\ UNCHANGED <<note, clock, txn, list, tombs, watermark, focus, answer, since, skipped, astray,
                   owed, channelVars>>

\* onConnectionChange("connected")
Connected ==
    /\ Subscribed
    /\ AskCatchUp
    /\ UNCHANGED <<note, clock, txn, list, tombs, watermark, focus, answer, since, skipped, astray, owed>>

\* Without a watermark there are none.
Tombstones(from) == {n \in In("deleted") : from # 0 /\ note[n].stamp >= from}

\* list_internal_notes, authoritative
ServeCatchUp ==
    /\ call.pc = "asked"
    /\ call' = [pc |-> "read", since |-> call.since, joined |-> link # "down", older |-> {},
                rows |-> note, tombstones |-> Tombstones(call.since)]
    /\ UNCHANGED <<note, clock, txn, list, tombs, watermark, focus, answer, since, skipped, astray,
                   owed, channelVars>>

\* Fault: notes deleted in this session are listed again.
NoTombs == {}

LocalTombs == tombs

\* reconcileNotesCatchUp and advanceNotesCatchUpWatermark.  What the answer
\* does not have is kept, unless it is known to be deleted.
ApplyCatchUp ==
    LET c == call
        active == {n \in Notes : c.rows[n].state = "active"}
        gone == c.tombstones \union LocalTombs IN
    /\ c.pc = "read"
    /\ list' = [n \in Notes |-> IF n \in gone THEN NoNote
                                ELSE IF n \in active THEN Shown(c.rows[n])
                                ELSE list[n]]
    /\ watermark' = Max({c.since} \union {c.rows[n].stamp : n \in active \union c.tombstones})
    /\ since' = c.since
    /\ skipped' = {n \in Notes : c.rows[n].state = "deleted" /\ list'[n] # NoNote}
    /\ astray' = ((c.older \intersect active) \ tombs) \union (astray \ (active \union gone))
    /\ answer' = {Heard(a, a.n, c.rows[a.n]) : a \in answer}
    /\ owed' = (owed /\ ~c.joined)
    /\ call' = Idle
    /\ UNCHANGED <<note, clock, txn, tombs, focus, channelVars>>

CatchUpFails ==
    /\ call.pc # "none"
    /\ MayFail
    /\ call' = Idle
    /\ owed' = TRUE
    /\ UNCHANGED <<note, clock, txn, list, tombs, watermark, focus, answer, since, skipped, astray,
                   channelVars>>
-----------------------------------------------------------------------------
(* Row changes, and the answers of the operator's own calls *)

\* mergeInternalNotes: the later stamp wins.
Wins(row, n) == list[n] = NoNote \/ row.stamp >= list[n].stamp

\* onNoteChange: a deleted note is gone for the session.
OnNoteChange ==
    LET e == Head(feed)
        gone == e.row.state = "deleted" \/ e.n \in tombs IN
    /\ Receive
    /\ list' = [list EXCEPT ![e.n] = IF gone THEN NoNote
                                     ELSE IF Wins(e.row, e.n) THEN Shown(e.row) ELSE @]
    /\ tombs' = IF gone THEN tombs \union {e.n} ELSE tombs
    /\ astray' = IF gone \/ Wins(e.row, e.n) THEN astray \ {e.n} ELSE astray \union {e.n}
    /\ skipped' = skipped \ {e.n}
    /\ call' = IF call.pc = "read" /\ e.row.order > call.rows[e.n].order
               THEN [call EXCEPT !.older = @ \union {e.n}] ELSE call
    /\ answer' = {Heard(a, e.n, e.row) : a \in answer}
    /\ UNCHANGED <<note, clock, txn, watermark, focus, since, owed>>

\* onCreated, onUpdated merge the answer by its stamp; what a link has fetched is
\* merged if the panel does not have the note.  Neither looks at the tombstones.
Merges(a) == IF a.by = "link" THEN list[a.n] = NoNote ELSE Wins(a.row, a.n)

ApplyAnswer ==
    /\ \E a \in answer :
          /\ list' = [list EXCEPT ![a.n] = IF Merges(a) THEN Shown(a.row) ELSE @]
          /\ astray' = astray \union IF Merges(a) /\ a.older THEN {a.n} ELSE {}
          /\ answer' = answer \ {a}
    /\ UNCHANGED <<note, clock, txn, tombs, watermark, call, focus, since, skipped, owed,
                   channelVars>>

\* A link points to a note that the panel does not have: it is fetched, once.
OpenLink(n) ==
    /\ focus.pc = "none"
    /\ list[n] = NoNote
    /\ focus' = [pc |-> "asked", n |-> n]
    /\ UNCHANGED <<note, clock, txn, list, tombs, watermark, call, answer, since, skipped, astray,
                   owed, channelVars>>

\* get_internal_note
ServeLink ==
    /\ focus.pc = "asked"
    /\ focus' = [pc |-> "done"]
    /\ answer' = answer \union IF note[focus.n].state = "active"
                               THEN {Answer("link", focus.n, note[focus.n])} ELSE {}
    /\ UNCHANGED <<note, clock, txn, list, tombs, watermark, call, since, skipped, astray, owed,
                   channelVars>>

\* The effect is cleaned up, which it is when the panel is hidden and, some time
\* after the render, when the list has changed; or the fetch fails.
CancelLink ==
    /\ focus.pc = "asked" \/ ~NoneOf("link")
    /\ focus' = [pc |-> "done"]
    /\ answer' = {a \in answer : a.by # "link"}
    /\ UNCHANGED <<note, clock, txn, list, tombs, watermark, call, since, skipped, astray, owed,
                   channelVars>>

\* markNoteDeleted: the note is taken away before the server is asked, and no
\* catch-up in flight is applied.
DeleteOwn(t, n) ==
    /\ list[n] # NoNote
    /\ \A u \in Txns : txn[u].op # "none" => ~txn[u].own
    /\ Begin(t, "delete", n, TRUE)
    /\ tombs' = tombs \union {n}
    /\ list' = [list EXCEPT ![n] = NoNote]
    /\ call' = Idle
    /\ owed' = (owed \/ call.pc # "none")
    /\ UNCHANGED <<note, watermark, focus, answer, since, skipped, astray,
                   channelVars>>

\* The call of the operator fails.  A failed delete is taken back: the panel
\* catches up.
OwnFails(t) ==
    LET x == txn[t] IN
    /\ x.op # "none" /\ x.own
    /\ MayFail
    /\ txn' = [txn EXCEPT ![t] = NoTxn]
    /\ IF x.op = "delete"
       THEN tombs' = tombs \ {x.n} /\ AskCatchUp
       ELSE UNCHANGED <<tombs, call>>
    /\ UNCHANGED <<note, clock, list, watermark, focus, answer, since, skipped, astray,
                   owed, channelVars>>

Join == ServerJoins /\ UNCHANGED notesVars

Break ==
    /\ ChannelBreaks
    /\ owed' = TRUE
    /\ call' = IF call.pc = "read" THEN [call EXCEPT !.joined = FALSE] ELSE call
    /\ UNCHANGED <<note, clock, txn, list, tombs, watermark, focus, answer, since, skipped, astray>>

Next ==
    \/ \E t \in Txns, n \in Notes :
          \/ \E own \in BOOLEAN, op \in {"create", "edit"} : BeginWrite(t, op, n, own)
          \/ BeginWrite(t, "delete", n, FALSE)
          \/ DeleteOwn(t, n)
    \/ \E t \in Txns : CommitWrite(t) \/ Abort(t) \/ OwnFails(t)
    \/ CatchUp
    \/ Connected
    \/ ServeCatchUp
    \/ ApplyCatchUp
    \/ CatchUpFails
    \/ OnNoteChange
    \/ ApplyAnswer
    \/ \E n \in Notes : OpenLink(n)
    \/ ServeLink
    \/ CancelLink
    \/ Join
    \/ Break

Spec == Init /\ [][Next]_vars
-----------------------------------------------------------------------------
(* Properties. *)

Quiet ==
    /\ Settled /\ call.pc = "none" /\ focus.pc # "asked" /\ answer = {}
    /\ \A t \in Txns : txn[t].op = "none"

\* When nothing is under way and a catch-up has got through since the channel
\* was joined, the panel has every note as the database has it, and no other.
\* Two kinds of notes are left out, in which the panel is wrong:
\*   - astray: the panel had a newer row and preferred an older one.  Either an
\*     answer, of a catch-up, a save or a link's fetch, was written before a
\*     change that was heard before it and put its row back, or a change was
\*     turned away for the stamp of the row it replaced;
\*   - skipped: a deleted note that the last catch-up left (SkippedIsOvertaken).
\* An answer that came in order, or that was turned away, is no excuse.
PanelSettles ==
    Quiet /\ ~owed =>
        \A n \in Notes \ (astray \union skipped) :
            list[n] = IF note[n].state = "active" THEN Shown(note[n]) ELSE NoNote

\* A catch-up leaves a deleted note in the list only if it was asked without a
\* watermark, or if the delete began before another transaction whose row the
\* panel had seen by then.
SkippedIsOvertaken ==
    \A n \in skipped : since = 0 \/ note[n].body < since

\* No row is stamped later than now, nor does the watermark run ahead of it.
TypeOK ==
    /\ \A n \in Notes : note[n].state \in {"absent", "active", "deleted"} /\ note[n].stamp <= clock
    /\ tombs \subseteq Notes /\ watermark \in 0..clock
=============================================================================
