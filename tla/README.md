# Formal model of -site-chat

This directory holds TLA+ models of the chat system in the repository (a widget on
customer sites, an operator dashboard, a Supabase/PostgreSQL back end), the TLC runs
that check them on small instances, and TLAPS proofs about sixteen of them. Paths
below are relative to the root of the repository; migrations are named by their
timestamp, e.g. `20260808130000` for
`supabase/migrations/20260808130000_read_receipts_unread_counters.sql`.

Where a function was replaced by a later migration, its last version is the one modelled.

## 1. The system

A **visitor** writes in the widget (`packages/widget`); **operators** (workspace
members) answer in the dashboard (`apps/web`). Everything durable is in PostgreSQL, and
almost all of the core logic is in `SECURITY DEFINER` functions there: both sides call
them over HTTP, and learn of changes through Supabase realtime (broadcasts to the
visitor, change events and broadcasts to operators). `packages/shared` holds what both
clients use (merging of lists, receipts, typing, tab election).

| Component | State | Operations | Hard part | What makes it correct |
|---|---|---|---|---|
| Conversations and message log (`20260802140000`, `20260811120000`, `20260818220000`) | `conversations` rows with `next_sequence_number`, `messages` | visitor send (get-or-create), operator send, status changes, reopen window | sends of both sides, retries and status changes interleave statement by statement under READ COMMITTED | contiguous numbers visible in order, a retry is stored once, one active conversation per session |
| Read receipts, unread counters (`20260808130000`) | `conversation_member_reads`, `conversation_visitor_reads`, `visitor_message_count` | mark read, mark delivered, visitor receipt, trigger on insert | a counter kept from two sides, computed before the row is locked | cursors never regress or run ahead; the badge counts what is unread |
| Visitor transport (`packages/widget/src/realtime/visitor-transport.ts`) | message list, channel, catch-up calls, receipt watermarks | catch-up, subscribe, retry, broadcasts, receipts | three sources of messages race, every call may fail | nothing is missed, nothing shown disappears, acknowledgements are honest |
| Assignment, member removal (`20260812160000`, `20260812170000`, `20260813100000`, `20260818220000`) | assignee, assigned_by, version; member rows | take, assign, unassign; deactivate, remove | opposite lock orders, foreign keys to a row that is deleted, checks made before the lock | no silent overwrite, no conversation held by somebody who is gone |
| Operator notifications (`20260818220000`, `20260818223000`) | notification rows, counter per member | fan-out, mark one, mark all, triggers | counter and rows are locked in different orders | the counter equals the unread rows |
| E-mail outbox (`20260818223000`, `apps/web/lib/email/notification-email.ts`) | outbox rows, workers' batches | claim, send, finalize, stale recovery | crashes, lost answers, claims that outlive or are outlived by their worker | at most one mail per claim; a settled row is final |
| Tab election (`packages/shared/src/notifications/tab-election.ts`) | lease in `localStorage`, a flag per tab | heartbeat, storage event, disposal | accesses of several tabs interleave, tabs are killed | one leader in the end; a loser is told |
| Operator realtime channel (`operator-subscriptions.ts`) | subscription, events on their way | join, break, row changes | events are lost while it is not joined, and "connected" is learnt late | what is missed is asked for after the next join |
| Notification bell (`use-notifications.ts`) | list, badge, pages | refresh, change events, optimistic marks | an answer older than an event | list and badge settle on what is stored |
| Operator inbox and thread (`use-operator-inbox.ts`, `reconcile-thread-messages.ts`, `LiveConversationThread.tsx`) | live list, thread, optimistic entries, read cursor | refresh, patches, catch-up, send, mark read | refreshes race events; a failed send may have been stored | what is stored is shown, what is shown is marked read |
| Internal notes (`20260813120000`, `packages/shared/src/notes`) | note rows, panel, watermark, tombstones | create, update, delete, catch-up | rows are stamped when a transaction starts and seen when it ends | the panel settles on the notes of the table |
| Attachments (`20260808160000`, `20260811120000`, `apps/web/lib/attachments/service.ts`) | `attachment_uploads`, objects in the storage, `message_attachments` | intent, put, complete (prepare, finalize, cleanup), cancel | two stores without a common transaction; retries make new batches | a batch belongs to one message or none; the objects of a message stay |
| Widget Studio (`20260819120000`, `20260819130000`, `public-config.ts`) | draft and published versions, cached configuration | save, presets, discard, reset, publish; GET with ETag | compare-and-set on one of two versions; several reads make one response | nobody publishes over a version unseen; a cached response works |
| Workspaces, members, invitations (`20260730120000`, `20260802120000`, `20260813100000`) | member rows, invitations | invite, accept, revoke, promote, demote, deactivate, remove, delete | roles are read before they are locked, owners counted without a lock | owners are spared, an invitation is settled once |
| Visitor sessions and identity (`20260810170000`, `packages/widget/src/session/storage.ts`) | sessions, contacts, tokens in local storage | create or resume, expire, identify | a secret is told once; several tabs share one storage | the stored token works |
| Loader and identify bridge (`packages/widget/src/loader/index.ts`, `main.tsx`) | queue of the page, slot of the iframe | identify, ready, post, patch | calls wait in three places; a request given up may still be served | calls take effect in order, but for such a request |
| Typing and presence, canned responses, timeline, contacts, search, AI replies, authentication, i18n, UI, rate limits | expiring entries, rows, cookies | single-row edits, queries, rendering | little or none | not modelled; see section 7 |

Interactions. A visitor's send (`Conversations`) fires the trigger that bumps unread
counters (`ReadReceipts`), fans out notifications (`Notifications`), whose rows feed the
outbox (`EmailOutbox`), and is broadcast on the channel (`VisitorTransport`). The clients
rely on the log's numbering: every cursor (receipts, catch-up, unread) is a sequence
number. `VisitorTransport` and `OperatorThread` assume exactly what `Conversations` shows
(`ImplementsLog`): a conversation is a log that grows at its end, without holes or repeats.
`NotificationBell` and `OperatorInbox` take the stored counters to be exact, which
`Notifications` and `ReadReceipts` show. `Assignment` and `Notifications` share the row-lock
and deadlock-detection rule of `RowLocks`; the removal of a member is in `Membership` as to
its role and in `Assignment` as to its conversations. Each list of the dashboard lives on an
`OperatorChannel`. A session of `VisitorIdentity` owns the conversations of `Conversations`
and the contact that `HostBridge` patches.

## 2. How the code is modelled

* **Database functions.** PostgreSQL's READ COMMITTED gives every statement a snapshot
  of its own. An action is a statement, or what a transaction does up to the next place
  where it may wait for a lock or be overtaken by another transaction; statements under
  a lock that nobody else can pass are one action. Writes of a transaction become
  visible when it commits: they are carried in the transaction's record until then.
* **Row locks** are who holds what: a statement that needs a locked row is not enabled.
  Circles are broken by aborting a member of the circle (`RowLocks!InCircle`,
  `BreakDeadlock`), as the database does.
* **Unique indexes** are part of the statement that inserts: it waits for a transaction
  that has inserted the same key and then raises, as `HandleUniqueViolation` and
  `AbortOperatorSend` show.
* **Client code.** JavaScript runs to completion between two `await`s; an action is one
  such run. State read before an `await` and used after it is carried in the call.
* **The network.** A request may be lost before or after the server has acted. Broadcasts
  on one channel arrive in order, and only while the server has joined the client.
* **Time** is what it does: a claim gets stale, a lease expires, a conversation leaves the
  reopen window, a timer fires. No action counts seconds.
* **Data.** Messages, clients and members are model values or sequence numbers; text,
  attachments and display fields are left out.

Definitions headed `Fault` are deliberate errors, one per checked property; no
specification uses them. They show that each property can be broken by a plausible
slip in the code.

Variables marked *history* are not in the code; they record what a
property is about.

## 3. Modules

**MessageLog** is what the store promises its readers: per conversation a sequence that
only grows at its end, each client message id at most once.

**Conversations** models `send_operator_message`, `widget_send_visitor_message` with
`widget_get_or_create_conversation_for_send`, `update_conversation_status` and
`widget_viewable_conversation`. `visitorTxn[s]` and `operatorTxn[r]` are transactions
in progress: a visitor's send first looks for the session's active conversation
(`SelectActive`), then for the latest resolved one in the reopen window
(`SelectResolved`), reopens it (`Reopen`) or inserts a new one (`InsertConversation`);
both can violate `uq_conversations_one_open_pending_per_session`, whose handler looks
again (`HandleUniqueViolation`). `CommitVisitorSend` is the dedupe, the insert and the
commit. `client` remembers which of a client's message ids have been answered, so that a
lost answer and a retry are behaviours. `clock` and `horizon` order resolutions against
the reopen window. `ImplementsLog` shows that the store implements `MessageLog`, under
the mapping `LogOf` from the set of stored messages to the sequence.

**ReadReceipts** models `mark_conversation_read`, `mark_conversation_delivered`,
`widget_mark_conversation_receipt` and the trigger `on_visitor_message_unread`. A mark
call selects its row, counts, and upserts in three statements; `request[r].seen` is the
log's length when it counted. A message insert holds the counter rows it has bumped
until it commits (`insertion.bumped`). `overtaken` is a history variable: the members
whose counter a mark call replaced although a visitor message had come since its count.

**VisitorTransport** models `WidgetRealtimeTransport` and the parts of
`packages/widget/src/app/main.tsx` that share its list: the paged catch-up loop, the
channel with retry timer, offline/online/visible, broadcasts, the delivered receipt with
its watermark `inFlight`, and posts with their retry. `messages` is the transport's list
and `rendered` the list of the last render, which `PostAnswered` merges into and puts
back, as `reconcileTransport` does. The lists are of stored messages: the bubbles `handleSend` adds for a message
it is sending (`main.tsx:944`) or that failed (`:1083`) are left out. `received` is a history variable.

**RowLocks** defines when a transaction is in a circle of waiters.

**Assignment** models `apply_conversation_assignment` in its three modes against
`deactivate_workspace_member` and `remove_workspace_member`. A request checks the
caller's role without a lock, locks the conversation, decides under the lock, shares the
assignee's member row, and updates. The foreign keys of `assigned_to` and `assigned_by`
are in `Referenced`, `ReferenceFails` and `RemovalFails`: writing one waits for a removal
in progress and fails after it; deleting a member acts on what still refers to it.

**Notifications** models `emit_notification` as it is fanned out, `mark_notification_read`,
`mark_all_notifications_read` and the two counter triggers, lock by lock. The recipients
of an event are any set: preferences and quiet hours only choose among them.

**EmailOutbox** models `claim_notification_email_outbox` with the recovery of stale
claims, the loop of `processNotificationEmailOutbox`, `sendViaResend` and
`finalize_notification_email_outbox`. `mails[r]` counts what the provider accepted, which
the code cannot know; `doubtful` is a history variable.

**TabElection** models `createNotificationTabElection`. A heartbeat reads the lease,
writes it and reads it back, and other tabs may come between these accesses.
`OnStorage` and `Dispose` are the storage event and the disposal; `Kill` a tab that
leaves its lease behind.

**Attachments** models one message with files from the first attempt to the stored
message. `sender` is the send handler of the widget or of the operator's thread
(`Initiate`, `Put`, `SendComplete`, `Succeeds`, `Fails`), which makes a new batch for every
attempt under one client message id and cancels the batch of a failed one without waiting.
`complete[r]` is a complete request inside `completeVisitorUploads` or
`completeOperatorUploads`, call by call: the look for confirmed uploads (`Check`), the rows
(`Select`), the objects (`Validate`, `Reject`), `Mark`, the finalizing function up to its count
(`FinalizeCheck`) and to its commit (`FinalizeCommit`), the deletion of the objects after an error
(`Cleanup`). A visitor's finalize holds session and conversation from the first of the two
to the second, an operator's does not. `cancel[r]` is a cancel request: a visitor's first resolves
its session, which ensures a conversation (`CancelResolve`), then keys, rows, objects.
Every client request names all uploads of a batch, so a batch has one status.
`overlapped` and `withdrawn` are history variables.

**OperatorChannel** is the subscription of a dashboard hook, which the next four extend: row
changes arrive in commit order while the server has joined the client (`link`, `feed`).

**NotificationBell** models `useNotifications`: the refresh reads list and count in two calls
(`ReadList`, `ReadCount`), `AskMore` is an older page, `MarkAllRead` and `OpenNotification` change the list
before the server answers, and `OnInsert`, `OnUpdate` and `OnUnreadCountChange` are the row changes. `Applies`
is the generation check that drops an answer of an older refresh.

**OperatorInbox** models `useLiveInboxList` with the filter "Mine": refreshes merge into the
list (`Kept`), message, conversation and cursor changes patch it.

**OperatorThread** models `useLiveConversationThread` and the composer: catch-ups by pages
after `maxRef`, optimistic entries (`bubbles`) and what a stored message replaces of them
(`Reconciles`), refreshed props (`ApplyProps`, which keeps `maxRef` when the list is the server's already), and marks of read as messages are shown. `flagged` are stored
messages shown as failed.

**InternalNotes** models the functions on notes as transactions that stamp at their start and
write at their end, and `useLiveInternalNotes`: the merge by time stamp, local tombstones,
and the catch-up by watermark. The panel fetches once a note that a link points to and it does not have (`OpenLink`,
`ServeLink`, `CancelLink`); what such a fetch, a create or an edit answers is merged without a look at the tombstones
(`ApplyAnswer`). `answer` holds what is being answered, `older` marks what newer news has overtaken.

**WidgetStudio** models the Studio page's requests on one `widget_configs` row, and
`GET /api/v1/widget/config` with its two reads (`Resolve`, `Enrich`), the tag made of version and
signing bucket, and the browser's cache.

**Membership** models `create_workspace_invitation`, `accept_workspace_invitation`,
`revoke_workspace_invitation`, `update_workspace_member_role`, `promote_workspace_member_to_owner`,
`deactivate_workspace_member`, `remove_workspace_member`, `soft_delete_workspace`, and the deferred trigger that counts owners.
`call[k]` is a transaction: the row it read first, whether its caller was authorised, what it has
written, and that its trigger has run.

**VisitorIdentity** models `widget_create_or_resume_visitor_session` and `initialize` in every tab
of one browser; a continuity token is its contact and the count of its minting.

**HostBridge** models `SiteChat.identify` from the loader's `identifyQueue` over `postMessage` and
the slot `pendingIdentifyRef` to the contact. The value of a field is the number of the call that gave it.
A request that fails at the iframe before it was served joins `strays` (`Settle`): nothing aborts it, and the server
does not order the calls, so it may be served at any later time (`ServeStray`), after the next one too.

### Modules for TLC

`MCConversations`, `MCReadReceipts`, `MCEmailOutbox`, `MCAssignment` and `MCMembership` add the
symmetry sets TLC uses. Four modules put components next to each other in one run:

| Module | Extends | Instantiates | Scenes |
|---|---|---|---|
| `MCVisitorSide` | `HostBridge` | `Attachments`, `VisitorTransport`, `VisitorIdentity` | what is behind the widget |
| `MCMembers` | `Membership` | `Assignment` | what changes the members of a workspace |
| `MCDashboard` | | `NotificationBell`, `OperatorThread`, `OperatorInbox`, `InternalNotes`, `WidgetStudio` (twice) | the operator's side |
| `MCProgress` | `Notifications` | `VisitorTransport` (three times), `TabElection` | what must happen in the end |

These are not compositions: the components of such a module share no state, and their product would
only multiply independent steps. A variable `scene` names the component a behaviour is of,
the others stay as they began, so the run checks each component as if alone. Where components do meet, the
module that needs the other's promise states it as an assumption of its model, and the run of the
other one checks it (the interactions in section 1).

## 4. Runs

All bounds are constants named in the modules. `pass` runs check every property listed;
each `violation` run shows one disagreement between the code and what the repository
says of it.

| Run | Instance | Shows |
|---|---|---|
| `conversations` | 1 session, 3 conversations, 2 operator requests, 2 client ids, 2 resolutions | `TypeOK`, `AnsweredIsStored`, `SendIsViewable`, `ImplementsLog` |
| `receipts` | 2 operators and the visitor, 2 overlapping calls, 2 messages | `CursorsOrdered`, `NeverOvercounts`, `ExactUnlessOvertaken`, `CursorsNeverRegress` |
| `outbox` | 2 rows, 2 workers, 3 attempts | `MailsWithinAttempts`, `OneMailUnlessDoubtful`, `SettledStaysSettled` |
| `visitor_side` | files: a visitor or an operator, 2 files, 2 batches, 2 complete and 1 cancel requests, 2 conversations; transport: 2 catch-up calls, pages of one message, 1 post, 1 offline period, 1 failing request; identity: 2 tabs, 3 sessions; bridge: 2 fields, 4 calls | `TypesOK`, `ConfirmedIsAttached`, `OncePerConversation`, `AttachmentsAreStored`, `CancelledStaysOut`, `AcknowledgesReceived`, `ShownStays`, `StoredTokenWorks`, `IdentifyInOrder` |
| `members` | 2 users, 2 overlapping transactions; 2 conversations; 1 invitation | `TypesOK`, `OnlyTakeOutlivesDeactivation`, `RemovedIsUnreferenced`, `RemovalSparesOwners`, `SettledOnce` |
| `dashboard` | the channel breaks twice, any call may fail; bell: 2 notifications, 2 calls, pages of one; thread: 3 messages, 2 attempts, 1 catch-up; inbox: 2 conversations, 2 changes; notes: 2 notes, 2 transactions; Studio: 2 pages, 1 browser, 2 versions (3 without a browser), 2 buckets | `TypeOK`, `BellSettles`, `ThreadSettles`, `InboxSettles`, `PanelSettles`, `SkippedIsOvertaken`, `CacheIsItsVersion`, `ReplacesWhatWasShown`, `RevalidatedUrlsWork` |
| `progress` | reader: 2 catch-up calls of one page that overlap, 3 messages; 1 call of up to 3 pages of one message, 4 messages; 1 such call, 3 messages, the channel breaks once; server: 2 recipients, 2 events, 2 transactions; election: 3 tabs, 1 late heartbeat | `CounterIsExact`, `LeaderHasLease`, `ReaderCatchesUp`, `EveryTransactionEnds`, `SettlesOnOneLeader` (the last three are liveness) |
| `conversations_retry` (violation) | 2 conversations, 1 client id | `RetryIsRecognised`: see finding 1 |
| `visitor_gap` (violation) | 1 call, 1 post, 1 break | `CoveredIsReceived`: see finding 2 |
| `assignment_remove` (violation) | 2 members, 1 conversation, 1 request | `RemovalSucceeds`: see finding 3 |
| `members_owners` (violation) | 2 users, 2 overlapping transactions | `AlwaysAnOwner`: see finding 4 |
| `identify_drop` (violation) | 2 fields, 4 calls, no failing request | `NoIdentifyIsDropped`: see finding 5 |

Why the bounds are enough to be interesting:

* Races here are between two transactions, with a third actor that moves the ground under
  them. Two request slots give every order of two calls of one kind; the visitor's send,
  status changes, inserts and administrators come on top.
* Three conversations let a session have one that was ended, one that is reopened and
  one that is new. Two resolutions and the moving `horizon` give a conversation inside
  and one outside the window.
* `MaxVersion = 0` (members) bounds when an assignment *begins*, not the version it meets: two requests
  that both expect version 0 meet after the first has made it 1.
* `MaxAttempts = 3` (outbox) instead of 10: one attempt each for a claim that is lost, one that is
  taken back and finished late, and one that runs into the limit.
* The reader of `progress` is checked in three instances, for overlapping calls, several pages and a channel that breaks
  multiply each other. A broadcast between two pages needs a fourth message to pass over one: two are missed (the
  first is on the page that was read), the fourth is broadcast. `ReaderCatchesUp` leaves a message out exactly when
  a further page is asked for after a greater number while it is missing (`PassedOver`; finding 2), and there are no failing requests,
  with which it is false (finding 2). Three pages of one message are as many as can be missed.
* Two complete requests are those of two batches or one that is repeated;
  two files let one be put, or refused, without the other.
* Two owners are one more than the trigger asks for, so each of two transactions finds the other;
  users begin with any roles, or as nobody, to be invited.
* Two breaks of an operator's channel let something be missed, caught up, and missed again; a page of
  one makes the newest page differ from the list. Without a browser Widget Studio gets a third version, so
  that two pages compete for one after both have seen another replaced.
* Four identify calls are one in each place a call can wait in: page, wire, slot, request.
* Three sessions are one to resume, one that expired and one made by the other tab.
* Runs that check liveness use no symmetry. The others use it only for values no action
  tells apart.
* Where deadlock is not checked, the system may really stop: every tab closed, every
  member removed, all messages sent. `conversations`, `receipts` and `outbox` check it.

### Fairness

Only `progress` (and the violation run `visitor_gap`) assumes any. `MCProgress!AllFairSpec` states for each scene what
its component's own `Fairness` states; an action of another scene is never enabled. Those steps of the reader that the bounds
limit are owed together (`ReaderGoesOn`), which is the same for them and cheaper to check.

* `Notifications!Fairness`: the database runs every statement it can. Row locks are
  granted in turn to those who wait, so that a transaction that finds the row unlocked
  again and again gets it: strong fairness of each transaction's next step. The deadlock
  detector runs after a second of waiting: weak fairness of `BreakDeadlock`.
* `VisitorTransport!Fairness`: timers fire, handlers run, the server answers, the network
  comes back, and a request without network fails. Nobody is obliged to write a message,
  to look at the page or to retry a post. Strong fairness of `Subscribed` only makes
  up for `Calls`, the model's bound on catch-up calls in progress.
* `TabElection!Fairness`: intervals fire and storage events are delivered; a lease nobody
  renews gets old. Opening, closing and late heartbeats are never obliged to happen.
  `SettlesOnOneLeader` is conditional: unless runs of two tabs' heartbeats, each
  microseconds long, overlap for ever.

The lists of the dashboard are checked by what they show when nothing is on its way (`Quiet`), which
needs no fairness.

## 5. What is proved

Everything below holds for every value of the constants that meets the stated assumption. Each component has
an inductive invariant, a lemma per action (or per group of actions that do alike), and a theorem
`Spec => []...` of that invariant, on which the others rest. Each inductive invariant was checked by TLC
before its proof was begun.

A run of several components (`MCMembers`, `MCVisitorSide`, `MCDashboard`, `MCProgress`) steps one of them at a time, in one
scene. What is proved of a component, as the run instantiates it, is carried over by a lemma
(`SideKinds`, `StudioKinds`, `PanelKinds`, `InboxKinds`, `BellKinds`, `ThreadKinds`, `ProgressKinds`) that says what a step of the run is for that component: a step of its own, or a
stutter. The theorem is then about the run's own specification, and states the property the run's configuration names.

| Module | Assumes | Theorems (the property of a run each one states) |
|---|---|---|
| `ReadReceiptsProofs` | `SequenceAssumption` | `TypeCorrect`, `CursorsAreOrdered` (`CursorsOrdered`), `CounterNeverOvercounts` (`NeverOvercounts`), `CounterExactUnlessOvertaken` (`ExactUnlessOvertaken`), `VisitorCountIsExact`, `CursorsAreMonotone` (`CursorsNeverRegress`) |
| `EmailOutboxProofs` | `RowsAssumption` | `TypeCorrect`, `SentWasAccepted`, `MailsAreCounted` (`MailsWithinAttempts`), `SecondMailIsDoubtful` (`OneMailUnlessDoubtful`), `SettledIsFinal` (`SettledStaysSettled`) |
| `ConversationsProofs` | `NullsAssumption` | `TypeCorrect` (`TypeOK`), `AnswersAreKept` (`AnsweredIsStored`), `SendsAreShown` (`SendIsViewable`), `StoreImplementsLog` (`ImplementsLog`) |
| `NotificationsProofs` | `KeysAssumption` for notifications, `TabsAssumption` for the election | `TypeCorrect`, `CountersStayExact` (`CounterIsExact`), `ElectionTypeCorrect`, `LeadersHaveTheLease` (`LeaderHasLease`); of the notifications alone `CountersAreExact` |
| `MembersProofs` | `NullsAssumption` for the assignments, nothing for members and invitations | `TypeCorrect`, `OwnersAreSpared` (`RemovalSparesOwners`), `InvitationsSettleOnce` (`SettledOnce`), `MembersTypeCorrect` (`TypesOK`), `OnlyTakesOutlive` (`OnlyTakeOutlivesDeactivation`), `RemovedMembersAreUnreferenced` (`RemovedIsUnreferenced`) |
| `VisitorSideProofs` | `BridgeAssumption`, `IdentityAssumption`, `BoundsAssumption` | `IdentifiesInOrder` (`IdentifyInOrder`), `StoredTokensWork` (`StoredTokenWorks`), `ReceivedIsAcknowledged` (`AcknowledgesReceived`), `ShownMessagesStay` (`ShownStays`); of the components alone `CallsTakeEffectInOrder`, `TheStoredTokenWorks` |
| `AttachmentsProofs` | `AttachmentsAssumption`, and those of `VisitorSideProofs` for `VisitorSideTypesCorrect` | `FilesTypeCorrect`, `ConfirmedAreAttached` (`ConfirmedIsAttached`), `StoredOncePerConversation` (`OncePerConversation`), `StoredAttachmentsStay` (`AttachmentsAreStored`), `CancelledBatchesStayOut` (`CancelledStaysOut`), `VisitorSideTypesCorrect` (`TypesOK`) |
| `DashboardProofs` | `StudioAssumption` for the Studio, `BellAssumption` for the bell, `ThreadAssumption` for the thread, nothing for notes and inbox | `DashboardTypeCorrect` (`TypeOK`), `StudioTypeCorrect`, `CachedVersions` (`CacheIsItsVersion`), `RevalidatedUrls` (`RevalidatedUrlsWork`), `PublishesOverWhatWasShown` (`ReplacesWhatWasShown`), `SkippedNotesAreOvertaken` (`SkippedIsOvertaken`), `PanelShowsWhatIsStored` (`PanelSettles`), `InboxShowsWhatIsStored` (`InboxSettles`), `BellShowsWhatIsStored` (`BellSettles`), `ThreadShowsWhatIsStored` (`ThreadSettles`) |

### Read receipts

The inductive invariant is `IInv == TypeOK /\ CursorsOrdered /\ RequestInv /\ RowInv /\
CounterInv`. The checked invariants are not inductive by themselves, for they say nothing
of calls in progress:

* `RequestInv`: a call in progress knows no more than the log (`through`, `seen` at most
  `Len(sender)`), and the count it carries is at most the true one, and exact while no
  visitor message has come since `seen`. This is why a late upsert cannot overcount.
* `RowInv`: a missing row has zero cursors; a message in progress has bumped exactly the
  existing rows that are exact, which makes `ExactUnlessOvertaken` hold again when the
  message commits.
* `CounterInv`: the two counters against the log.

The lemmas about `Count` (what an appended message, an empty suffix or a smaller cursor do
to the number of visitor messages) carry the arithmetic on cardinalities; there is one
step per action of `Next` below the step lemma, and one per conjunct the action can
disturb.

### E-mail outbox

The inductive invariant is `IInv == TypeOK /\ WorkerInv /\ AcceptInv /\ AttemptInv /\ SureInv`:

* `WorkerInv`: a worker without a claim holds nothing, and the row it works on has left its batch.
* `AcceptInv`: a worker about to report a mail as sent has seen it accepted.
* `AttemptInv`: the mails of a row and the workers that may still send it are together at most
  its attempts. `MailsWithinAttempts` alone is not inductive: it does not say that a worker whose
  claim was taken back still has an attempt of its own to spend.
* `SureInv`: of a row that is not doubtful, one worker at most holds it, only while it is
  `sending`, and a mail is on record until that worker reports it.

Each action has a lemma on what it does to rows and workers (`ClaimStep`, `FinalizeStep`,
`TakenWorker`, ...); the conjuncts follow from these, not from the actions. `HoldersFinite` and
`FewerHolders` carry the counting, and need the two finite sets of `RowsAssumption`.

### Conversations

`IInv == TypeOK /\ LogInv /\ OneActive /\ Relies /\ LocksInv /\ OriginInv /\ AnsweredIsStored`:

* `LogInv`: the messages of a conversation are `Numbered`, from 1 to one less than the row's
  next number, each number and each client id once. `ImplementsLog` needs it: the mapping `LogOf` *chooses* the
  message of a number, and only when there is exactly one does inserting a message append to the
  mapped sequence (`ListAppend`, `AppendStep`).
* `OneActive` is the unique index; `Relies` is what a visitor's send still knows of the rows at each of its
  statements (a found conversation is active, a reopened or inserted one is the only active one of the session),
  which is why operators' status changes between statements cannot make it commit to another
  conversation than the one shown next (`SendIsViewable`).
* `LocksInv`, `OriginInv`: no two sends have locked one conversation, and an id under way is its
  sender's.

The refinement is a step simulation: `StoreImplementsLog` shows that the initial states map to empty
logs, and that every step appends one message with a new client id to one log, or changes none.

### Notifications

A transaction's writes are seen only when it commits, so `CounterIsExact` says nothing of it until then.
`Local` does: a fan-out has locked the counter of every member it has notified, a mark-all the counter of the
member whose rows it takes, and a mark-one only ever takes an unread row. With `LocksInv` (no row and no counter is locked
twice) the change of the counter at commit is the change of the number of unread rows; the counting lemmas need
finitely many keys.

### Tab election

`ElectionInv`: only an open tab leads, and it has the lease or an event is queued for it (`LeaderHasLease`). Whoever writes or
removes the lease queues an event for every other open tab, and a leader is open: so it is told. A tab that leads without
being open would not be; the disposal clears its flag before it removes the lease.

### Members: assignment and membership

Assignment. `CheckedInv`: an assignee that has been checked is shared-locked, so nobody deactivates it before the
assignment commits. `FoundInv`: while a deactivation or removal is under way, the conversations of
its member are among those it found when it began, or were taken by the member itself. Neither property
is inductive without these two.

Membership. `Exclusion`: a member's row, or an invitation, is locked by one transaction. `Relies`: what a
transaction has learnt of a row under its lock is still true; a removal whose caller is no owner holds the lock of
a row that is no owner's. A promotion that read the row before that waits and then updates no row.

### Visitor side: bridge, identity, transport

`HostBridge`: the places a call passes (contact, request, slot, wire, queue) hold calls in falling
age, and there is one request at a time that is not given up, so that what it brings is never older than what the contact has
(`SlotInv`, `WireInv`, `QueueInv`, `FrameInv`). Requests given up are no newer than the one in flight, and
what they bring is told apart: `IdentifyInOrder` says that a field goes back to an earlier call only by one of them. The theorem
rests on nothing about the network but that a request is served once at most.

`VisitorIdentity`: a contact's token is minted once, so every token in the storage, in a page
or in an answer is the one its contact's hash was made of (`TokenInv`), and whatever a page or the storage
names exists (`RowsInv`, `BrowserInv`).

`VisitorTransport`: `ReceiptsInv` says of every place a receipt passes (a mark being sent, the cursor the
server answered, the local watermark) that it is zero or names an agent's message that was received; `ListInv`
orders rendered, list and received. `AcknowledgesReceived` follows with the watermark; `ShownStays` from what
each action does to the list.

### Attachments

`FilesInv == Files!TypeOK /\ BatchesInv /\ TablesInv /\ ShortcutInv /\ WithdrawnInv /\ AloneInv`:

* `BatchesInv`: batches are made one after the other, and every request names one that was made.
* `TablesInv`: a batch is confirmed exactly when a message has it, and only one has. `ShortcutInv`: the early
  return of a second finalize is only taken for a confirmed batch. `WithdrawnInv`: what was cancelled before it
  was counted is not committed any more.
* `AloneInv`: of a batch whose requests did not overlap, one request is in progress at a time; the service has
  seen all objects of a batch it is about to confirm, and no cancel that comes after the message finds one of
  them. `AttachmentsAreStored` is the last part; the rest makes it inductive.

### Widget Studio

`FetchInv` and `CacheInv`: what a browser is being answered, or keeps, is of the version it names, its tag is of the
bucket in which the URLs were signed or of the next one. `RevalidatedUrlsWork` needs both halves: an equal tag
says that the version is the published one, and that the bucket has moved by one at most since the signing.
`PageInv`: a page that publishes expects the version it was shown. The editors' instance has no browsers and one
version more: `EditorTypes(V)` types the row and the pages with `V` versions, and `EditorKeepsTypes` and `PublishKeepsTypes`
serve both.

### Internal notes

`NotesInv == NotesTypes /\ NoteRowsInv /\ NoteFeedInv /\ CatchUpInv /\ SkippedInv /\ PanelInv /\ NoteAnswerInv`:

* `NoteFeedInv`: the last change of a note in the feed is what is stored. Changes of one note are
  committed in the order of its row lock, so a change in the feed is the last one or the last one follows.
* `CatchUpInv`: what an answer that was read says of a note `Leads` to what is stored (an active note may
  have been edited or deleted since, a deleted one stays), and if the channel was joined when it was read, what the answer
  lacks is on its way or has been heard since (`older`).
* `NoteAnswerInv`: the answer to a save or to a link's fetch is the stored row, or the stored row is on its way, or newer
  news of the note has been heard since (`older`) or is in the catch-up that is being answered.
* `PanelInv`: unless something is owed (`notesOwed`), every note that is neither `astray` nor `skipped` is shown as
  it is stored, or its change is coming, or a tombstone hides it. `PanelSettles` is this with nothing coming.
  A note is `astray` only while the row shown is one that was preferred to a newer one: an answer overtaken by a change
  that put its row back, or a change turned away for its stamp. An answer in order does not make it so, and the next change that is
  applied, or catch-up that has the note, ends it.
* `SkippedInv` is the time stamp argument: a deleted note that a catch-up did not mention is older than what
  that catch-up asked for.

### Operator inbox

`InboxInv == InboxTypes /\ ConvFeedInv /\ UnreadInv /\ RefreshInv /\ InboxListInv`:

* `Reaches(c, n, t, s)` is what a count `n` of the unread messages of `c` has to satisfy at any time: a change of the
  member's cursor made after `s` is on its way (it brings the exact count), or the member has no cursor and the messages on their way
  that were sent after `t` are exactly those between `n` and what is stored, or `n` is right. `Counted` shows that
  the +1 of a message keeps it: the first message on its way must be number `n + 1`.
* `ConvFeedInv` says that messages come in order, that a member with a cursor hears of it after every message, and that
  the last change of each kind agrees with what is stored.
* `RefreshInv`: every row of an answer that was read while the channel was joined `Reaches` what is stored, or has
  been overtaken (`older`). `InboxListInv`: while no refresh is to come, every entry is `Correct`.
* `UnreadInv`: while the member has no cursor, neither the hook nor an answer knows of one, so that every message counts.

### Notification bell

`BellInv == BellTypes /\ EventsInv /\ AnswersInv /\ ItemsInv`. Rows are created and then read, so their `Age` grows with
every change (`AgeGrows`), and `row` at two moments of one age is the same:

* `EventsInv`: the last change of a row, or of the counter, that is on its way agrees with what is stored, and a new
  notification is followed by a change of the counter.
* `Current(rows, a)` and `CountCurrent(k, a)`: what was read at age `a` is as stored, or a younger change of it is on its way.
* `AnswersInv`: what was read while the channel was joined is `Current` unless it was overtaken (`older`). A mark of one
  notification leaves it read; a mark of all answers zero. One request at most is the `latest`, whose answer
  counts: it was asked when something was owed, and pays it only if it was read while joined.
* `Published(a)`: nothing that happened after `a` was lost with a channel, for a refresh that was read while joined, at
  `a` or before, has been applied or is being answered. A mark that was served after it is `Current`; one that was served
  before has been overtaken by it.
* `ItemsInv`: unless something is owed, the badge is right or its change is coming (or it is `late`), and so is every
  notification shown or on the newest page. `PageFacts` is needed here: a notification of the newest page was on the
  newest page ever since it existed, so that no event can bring it back into view without its row.

### Open conversation

`ThreadInv == ThreadTypes /\ SendsInv /\ MarksInv /\ PagesInv`. A message is `Present` if it is in the list, above the
loaded page, or left out by a catch-up that asks after a later one (`passed`), and stays so:

* `PagesInv`: all that a catch-up asks after is `Present`, and a page that was read while the
  channel was joined and reaches the end of the log has the rest in it, or on its way. While nothing is owed, every
  message is `Present`, or on its way.
* `SendsInv`: a client message id is stored once, while no attempt goes on its message is in the list or
  above it, and an entry that has not failed belongs to the send under way. It needs that the loaded page is not empty: the
  props bring the newest `PropsWindow` messages, so they never leave a message of the list behind.
* `MarksInv`: the visitor's messages in the list are not after the last one marked, and that mark was served, failed or is under way.

`ThreadSettles` is this with nothing on its way. That `passed` occurs in it is what the code does: the catch-up starts from the
newest message it knows of, so a lost one before it stays out until the page is loaded again.

### Only model-checked

Liveness under fairness and `ENABLED` are beyond TLAPS and stay with TLC: `ReaderCatchesUp`,
`EveryTransactionEnds`, `SettlesOnOneLeader`. So does what a recursive definition computes for every input (the models
declare no recursive operator). Every invariant and
action property that a passing run names is proved. The components of `MCProgress` have no type invariant there: those of
notifications and election are proved (`TypeCorrect`, `ElectionTypeCorrect`), that of `VisitorTransport` with the
visitor's side.

## 6. Findings

1. **A retry is stored twice** (`conversations_retry`). `docs/ARCHITECTURE.md:355` says the
   client message id "enables deduplication on retry". The lookup
   (`20260818220000:1274`) is confined to the conversation the send resolves to. If the first attempt
   was stored, its answer was lost, and an operator ended the conversation before the
   retry, the retry is stored again in the next conversation.
2. **Delivered covers a message that was never received** (`visitor_gap`).
   `docs/ARCHITECTURE.md:344` ties the delivered cursor to actual receipt. The catch-up asks
   after the maximum of what is known; the answer to the visitor's own post raises it over an agent's message sent while the
   channel was being joined. The same property fails in two more ways, which were seen by
   changing the constants of that run: with several pages, a broadcast between two pages
   moves the loop over the pages it has not asked for (`PageSize = 1`, `MaxPages = 2`,
   `MaxPosts = 0`), and a catch-up that fails is not made up for once a broadcast has arrived
   (`MaxOfflines = 1`, `MaxPosts = 0`).
3. **Some members cannot be removed** (`assignment_remove`). The key
   `fk_conversations_assigned_by_workspace` (`20260812160000:33`) is composite with
   `ON DELETE SET NULL` and no column list: deleting a member who assigned a conversation
   that another member still holds also nulls `workspace_id`, which is `NOT NULL`, and the
   removal fails.
4. **A workspace can lose its last owner** (`members_owners`).
   `supabase/tests/database/001_workspace_foundation.test.sql:349` expects "Workspace must have at least one active
   owner". The deferred trigger (`20260730120000:765`) counts owners in its own snapshot without a lock:
   two overlapping transactions that each demote, deactivate or remove one of two owners both count the
   other, and both commit.
5. **Identify calls are dropped** (`identify_drop`). `docs/VISITOR-IDENTITY.md:267` says that calls made before the
   widget has loaded are flushed and "no calls are dropped". The loader posts its queue in one go; the iframe keeps one
   call while its session is not ready or a request is unanswered (`main.tsx:656`), and a
   later call overwrites it with the fields only it named. A call that waits in the slot for the request sent when the
   session became ready is not looked at again: only the listener's own requests do that when they are answered.

What the passing properties deliberately allow, because the code does:

* The unread counter can miss a message: `mark_conversation_read` counts before it locks the
  row (`20260808130000:713`) and then writes the count, and the trigger's `+1` of a message
  committed in between is lost until the next mark (`docs/ARCHITECTURE.md:341` gives the formula).
  `ExactUnlessOvertaken`, proved for every instance, says that this is the only way; it does not exclude it.
* A stored message can lose its files (`docs/ATTACHMENTS.md:90` says a repeated complete "never
  deletes confirmed objects"). If the answer of a finalize that has committed is lost, the service cleans up
  as after a failure (`service.ts:391`); if a cancel reads its keys before a finalize commits,
  it deletes them after (`:719`), and the count of the uploads takes no lock on them although its comment says "Lock and
  validate" (`20260811120000:481`), so a batch that was cancelled after the count is confirmed
  all the same. The clients send such a cancel whenever they stop waiting for the complete
  request (`main.tsx:1099`). `AttachmentsAreStored` and `CancelledStaysOut` say that this takes overlapping requests
  or a lost answer, and a cancel after the count: of those orders they promise nothing.
* An operator's repeated complete is refused: `finalize_operator_attachment_message` asks
  for attachments (`20260808160000:986`) before it looks for the client message id, and the shortcut
  (`service.ts:411`) sends none.
* A `take` checks the caller's role before it locks anything and never locks the caller's
  member row: a deactivation that commits in between leaves the conversation with the
  deactivated member, although `docs/CONVERSATION-ASSIGNMENT.md:79` says it is cleared.
  `OnlyTakeOutlivesDeactivation` says that nothing but the member's own take can do that.
* Two workers can send one row at the same time when a claim gets stale during a provider
  call (`notification-email.ts:13` says they cannot). `OneMailUnlessDoubtful` counts such a
  row as doubtful.
* A row whose tenth claim gets stale returns to `pending` and is out of reach of every
  claim, neither sent nor failed (`docs/NOTIFICATIONS.md:159` calls pending claimable).
* Two tabs that read a free lease one after the other can both read back their own write
  and both lead until the storage event (`tab-election.ts:3` says exactly one).
  `LeaderHasLease` says that it lasts no longer, `SettlesOnOneLeader` that this passes.
* A list of the dashboard can stay behind what is stored until its next refresh, where an answer is applied
  after a newer change. The `...Settles` properties leave exactly these out, and the history variables that name them are cleared
  by the next answer or change that is in order:
  * inbox, `kept`: the last refresh did not have a conversation and the hook left it in the list, or put it back from the
    items of when it was asked (`use-operator-inbox.ts:95`). So one that was assigned to somebody else while the channel was
    down, or while a refresh was in flight, stays;
  * inbox, `late`, of the unread count only: it was replaced by a refresh read before a message or cursor already heard, a message
    that a refresh had counted was counted again, or the entry had been kept;
  * thread, `passed`: a message below the greatest number known when a catch-up began, and missing;
  * bell, `late`: the badge, or the list, if the answer it is from was read before a change already heard;
  * notes, `astray` (section 5) and `skipped` (below).

  `docs/NOTIFICATIONS.md:151` and `docs/CONVERSATION-ASSIGNMENT.md:142`
  speak of refreshes that make the list right.
* An identify request that failed at the iframe (a time-out at a gateway, a connection that changes) may still be served, after
  the next one, and then undoes it: `main.tsx:562` swallows the error and sends what waits, and nothing numbers the calls.
  `IdentifyInOrder` says that a later call is undone in no other way.
* A deleted note can stay in the panel. `docs/INTERNAL-NOTES.md:130` rules out a watermark that skips
  deletes, and it is taken from the rows; but the rows are stamped with the start of their
  transactions, so a delete that began before and ends after another write is behind the watermark.
  `SkippedIsOvertaken` says that only these are skipped, and those of a panel that had no note to take a watermark from.
* A page of Widget Studio publishes the draft as it is when its second request arrives, not the one it saved with the
  first (`docs/WIDGET-STUDIO.md:240` says that publish saves what is displayed, which it does). `ReplacesWhatWasShown` is
  about the version that is replaced, which the compare-and-set protects.
* A start of the widget that fails forgets the session token, whatever the failure, and a new
  session begins (`docs/PRD.md:196` says a session persists for 30 days). `StoredTokenWorks` says that the
  contact is not lost with it.

## 7. Not modelled, and why

* Typing and presence: nothing is stored and nothing else reads it; an entry is a time of expiry in one tab's
  memory, and what it can do wrong is to be shown for a few seconds too long.
* Canned responses (each function edits one row under a unique index), the customer timeline (append-only
  with an idempotency key), contact profiles (row edits), search (read-only), AI replies (a
  streaming call whose text nothing depends on).
* Authentication, workspace context, i18n, UI, storage adapters, in-process rate limits: I/O and rendering.
* Most of the repository's lines are of these kinds: generated types, React components, translations and
  the tooling that makes them, validation, styling, tests. The models cover the parts with a protocol.

Left out of the modelled components: intents that fail half-way or whose answer is lost (rows
nobody uses), aborted puts that arrive late (objects nobody refers to), the deletion of conversations and
its cascades, the insertion of outbox rows, notification preferences (they only choose recipients), `localStorage` that cannot be used (every tab
leads then), the visitor's read receipts (they need a scrolled view), the composer's drafts and canned replies, receipts
shown under a message, filters other than "Mine", mentions in notes and pages of older notes,
the bubbles of the widget's messages that are being sent or failed,
validation of the Studio's colours and the clean-up of orphaned assets, the page context a session records, the
loader's button and geometry.

## 8. What is left

1. The `...Settles` properties as refinements of one abstract list: what a fresh query returns, or an
   older one while something is on its way.
2. Posts with their text: a failed send that is edited before it is sent again keeps its client message id
   (`main.tsx:919`), so that the edit is lost if the first attempt was stored.
3. A larger instance of `OperatorThread` with two catch-ups in flight, and of `OperatorInbox` with the other filters.
