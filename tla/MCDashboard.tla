----------------------------- MODULE MCDashboard -----------------------------
(***************************************************************************)
(* The four live lists of the dashboard and Widget Studio next to each     *)
(* other, for TLC.  As on the visitor's side, a behaviour is of the        *)
(* component that scene names.  The lists have a realtime channel each;    *)
(* only one of them moves, so they can be given the same one.              *)
(*                                                                         *)
(* Slots are the calls of the bell, or the transactions on notes, that are *)
(* in progress at once, and the open pages of Widget Studio.               *)
(***************************************************************************)
EXTENDS Integers, Sequences, TLC

CONSTANTS
    Slots,
    MaxBreaks, MayFail, PageSize,                       \* the lists
    MaxNotification, InitNotifications, MaxFeed,        \* NotificationBell
    MaxMessage, InitMessages, PropsWindow, MaxPages,    \* OperatorThread
    MaxAttempts, Fetches,
    Conversations, MaxChanges,                          \* OperatorInbox
    Notes, InitNotes, MaxClock,                         \* InternalNotes
    Browsers, UrlBuckets, MaxEdit, MaxVersion,          \* WidgetStudio
    MaxBucket

VARIABLES
    scene,
    link, feed, breaks,
    row, item, badge, cursor, call, bellOwed, bellLate,
    log, shown, flagged, bubbles, maxRef, threadDue, fetch, send, attempts, cid,
    props, marks, lastMarked, readCursor, top, passed, unmarked, threadOwed,
    conv, changes, entry, lastRead, refresh, due, timer, newest, late, kept, owed,
    note, clock, txn, list, tombs, watermark, catchUp, focus, answer, since, skipped,
    astray, notesOwed,
    config, published, edits, tab, bucket, signed, cache

Bell == INSTANCE NotificationBell WITH Calls <- Slots, owed <- bellOwed, late <- bellLate
Thread == INSTANCE OperatorThread WITH due <- threadDue, owed <- threadOwed
Inbox == INSTANCE OperatorInbox WITH clock <- changes, item <- entry
Panel == INSTANCE InternalNotes WITH Txns <- Slots, call <- catchUp, owed <- notesOwed
Studio == INSTANCE WidgetStudio WITH Tabs <- Slots, fetch <- signed

\* Widget Studio while no visitor looks, with a version more: two pages can then
\* compete for it.
Editors == INSTANCE WidgetStudio WITH
    Tabs <- Slots, fetch <- signed, Browsers <- {}, MaxVersion <- MaxVersion + 1, MaxBucket <- 0

ASSUME BellConstants == Bell!BellAssumption
ASSUME ThreadConstants == Thread!ThreadAssumption
ASSUME InboxConstants == Inbox!InboxAssumption
ASSUME PanelConstants == Panel!NotesAssumption
ASSUME StudioConstants == Studio!StudioAssumption

channelVars == <<link, feed, breaks>>
bellVars == <<row, item, badge, cursor, call, bellOwed, bellLate>>
threadVars == <<log, shown, flagged, bubbles, maxRef, threadDue, fetch, send, attempts, cid,
                props, marks, lastMarked, readCursor, top, passed, unmarked, threadOwed>>
inboxVars == <<conv, changes, entry, lastRead, refresh, due, timer, newest, late, kept, owed>>
panelVars == <<note, clock, txn, list, tombs, watermark, catchUp, focus, answer, since, skipped,
               astray, notesOwed>>
studioVars == <<config, published, edits, tab, bucket, signed, cache>>

vars == <<scene, channelVars, bellVars, threadVars, inboxVars, panelVars, studioVars>>

\* What has a choice of beginnings makes it only in its own scene.
Init ==
    /\ scene \in {"bell", "thread", "inbox", "panel", "studio", "editors"}
    /\ Bell!Init /\ Thread!Init /\ Inbox!Init /\ Panel!Init /\ Studio!Init
    /\ scene = "inbox" \/ \A c \in Conversations : conv[c].mine /\ conv[c].read = 1
    /\ scene = "panel" \/ \A n \in Notes : note[n].state = "absent"

Next ==
    \/ /\ scene = "bell" /\ Bell!Next
       /\ UNCHANGED <<scene, threadVars, inboxVars, panelVars, studioVars>>
    \/ /\ scene = "thread" /\ Thread!Next
       /\ UNCHANGED <<scene, bellVars, inboxVars, panelVars, studioVars>>
    \/ /\ scene = "inbox" /\ Inbox!Next
       /\ UNCHANGED <<scene, bellVars, threadVars, panelVars, studioVars>>
    \/ /\ scene = "panel" /\ Panel!Next
       /\ UNCHANGED <<scene, bellVars, threadVars, inboxVars, studioVars>>
    \/ /\ \/ scene = "studio" /\ Studio!Next
          \/ scene = "editors" /\ Editors!Next
       /\ UNCHANGED <<scene, channelVars, bellVars, threadVars, inboxVars, panelVars>>

Spec == Init /\ [][Next]_vars

Symmetry == Permutations(Slots)
-----------------------------------------------------------------------------
(* Properties: those of the components, where they are explained. *)

\* The scene's state has the type its component gives it.
TypeOK ==
    CASE scene = "bell" -> Bell!TypeOK
      [] scene = "thread" -> Thread!TypeOK
      [] scene = "inbox" -> Inbox!TypeOK
      [] scene = "panel" -> Panel!TypeOK
      [] scene = "studio" -> Studio!TypeOK
      [] scene = "editors" -> Editors!TypeOK

\* The lists: when nothing is on the way any more they show what is stored.
BellSettles == scene = "bell" => Bell!BellSettles
ThreadSettles == scene = "thread" => Thread!ThreadSettles
InboxSettles == scene = "inbox" => Inbox!InboxSettles
PanelSettles == scene = "panel" => Panel!PanelSettles
SkippedIsOvertaken == scene = "panel" => Panel!SkippedIsOvertaken

\* WidgetStudio: what is published, and what visitors' browsers cache of it.
CacheIsItsVersion == Studio!CacheIsItsVersion
ReplacesWhatWasShown == Editors!ReplacesWhatWasShown
RevalidatedUrlsWork == Studio!RevalidatedUrlsWork
=============================================================================
