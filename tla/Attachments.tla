---------------------------- MODULE Attachments -----------------------------
(***************************************************************************)
(* A message with attachments, from the first attempt to send it to the    *)
(* stored message.  Every attempt of the sender, a visitor or an operator, *)
(* makes a new batch of uploads under the same client message id: rows in  *)
(* attachment_uploads and objects in the storage, which no transaction     *)
(* spans.  The service handles a complete request of a batch in several    *)
(* calls, and cancel requests, repeated requests, the end of the           *)
(* conversation and the expiry of the batch come in between.  The clients  *)
(* name all the uploads of a batch in every request, so that its rows      *)
(* share one status.                                                       *)
(***************************************************************************)
EXTENDS Naturals, FiniteSets

CONSTANTS
    Files,              \* the files of the message
    Actors,             \* the roles a sender may have
    MaxBatches,         \* bound: attempts of the sender
    MaxCompletes,       \* bound: complete requests, repeated ones included
    MaxCancels,         \* bound: cancel requests
    MaxConversations    \* bound: conversations of the session

AttachmentsAssumption ==
    /\ Actors \subseteq {"visitor", "operator"}
    /\ {MaxBatches, MaxCompletes, MaxCancels, MaxConversations} \subseteq Nat \ {0}

Batches == 1..MaxBatches
Objects == Batches \X Files
ObjectsOf(b) == {b} \X Files
Completes == 1..MaxCompletes
Cancels == 1..MaxCancels

VARIABLES
    actor,          \* who sends, for good
    sender,         \* the send handler of the client: its phase, the batch it
                    \* works on, the files it still has to put
    conversation,   \* the session's latest conversation, and whether a send
    open,           \* would still use it
    uploads,        \* uploads[b]: what the attachment_uploads rows of b share
    stored,         \* the objects in the storage
    messages,       \* the stored messages, each with its conversation and the
                    \* batch whose uploads it has as attachments
    complete,       \* complete[r]: the r-th complete request, its batch and how far
                    \* the service is with it
    cancel,         \* cancel[r]: the r-th cancel request, and the keys it has read
    overlapped,     \* history: batches with requests in progress at the same
                    \* time, or whose finalize committed without an answer
    withdrawn       \* history: batches cancelled before a finalize counted them

vars == <<actor, sender, conversation, open, uploads, stored, messages, complete,
          cancel, overlapped, withdrawn>>
database == <<uploads, messages>>
requests == <<complete, cancel>>
history  == <<overlapped, withdrawn>>
-----------------------------------------------------------------------------
InService == {"check", "select", "validate", "mark", "finalize", "commit", "cleanup"}
InCancel  == {"resolve", "select", "update", "delete"}

NoComplete == [pc |-> "none", batch |-> 0, shortcut |-> FALSE]
NoCancel   == [pc |-> "none", batch |-> 0, keys |-> {}]

Init ==
    /\ actor \in Actors
    /\ sender = [phase |-> "composing", batch |-> 0, left |-> {}]
    /\ conversation = 1 /\ open = TRUE
    /\ uploads = [b \in Batches |-> [status |-> "none", conversation |-> 0, expired |-> FALSE]]
    /\ stored = {} /\ messages = {}
    /\ complete = [r \in Completes |-> NoComplete]
    /\ cancel = [r \in Cancels |-> NoCancel]
    /\ overlapped = {} /\ withdrawn = {}

Completing(b) == \E r \in Completes : complete[r].batch = b /\ complete[r].pc \in InService
Cancelling(b) == \E r \in Cancels : cancel[r].batch = b /\ cancel[r].pc \in InCancel

\* A finalize has counted the uploads of b.
Committing(b) == \E r \in Completes : complete[r].batch = b /\ complete[r].pc = "commit"

\* Requests are numbered as they are sent.
Free(request, r) == request[r].pc = "none" /\ (r > 1 => request[r - 1].pc # "none")

\* A visitor's finalize has locked the session and its conversation.
Locked == actor = "visitor" /\ \E b \in Batches : Committing(b)

\* widget_get_or_create_conversation_for_send; an operator names the conversation.
Target == IF actor = "operator" THEN 1 ELSE IF open THEN conversation ELSE conversation + 1

\* The conversation is resolved for longer than the reopen window, or closed.
EndConversation ==
    /\ actor = "visitor" /\ open /\ ~Locked
    /\ conversation < MaxConversations
    /\ open' = FALSE
    /\ UNCHANGED <<actor, sender, conversation, database, stored, requests, history>>

\* expires_at passes for the rows of b.
Expire(b) ==
    /\ uploads[b].status \in {"pending", "uploaded"} /\ ~uploads[b].expired
    /\ uploads' = [uploads EXCEPT ![b].expired = TRUE]
    /\ UNCHANGED <<actor, sender, conversation, open, stored, messages, requests, history>>
-----------------------------------------------------------------------------
(* The client: handleSend of the widget, the submit handler of the thread. *)

\* createUploadIntents; a visitor's conversation is ensured first.
Initiate(b) ==
    /\ sender.phase = "composing" /\ b = sender.batch + 1
    /\ ~Locked
    /\ sender' = [phase |-> "uploading", batch |-> b, left |-> Files]
    /\ uploads' = [uploads EXCEPT ![b] = [status |-> "pending", conversation |-> Target,
                                          expired |-> FALSE]]
    /\ conversation' = Target /\ open' = TRUE
    /\ UNCHANGED <<actor, stored, messages, requests, history>>

Put(f) ==
    /\ sender.phase = "uploading" /\ f \in sender.left
    /\ sender' = [sender EXCEPT !.left = @ \ {f}]
    /\ stored' = stored \union {<<sender.batch, f>>}
    /\ UNCHANGED <<actor, conversation, open, database, requests, history>>

\* The service resolves the session of a visitor's cancel first.
CancelStart == IF actor = "visitor" THEN "resolve" ELSE "select"

\* A cancel request of b is sent and not awaited; it may get lost.
SendCancel(b) ==
    \/ UNCHANGED <<cancel, overlapped>>
    \/ \E r \in Cancels :
          /\ Free(cancel, r)
          /\ cancel' = [cancel EXCEPT ![r] = [pc |-> CancelStart, batch |-> b, keys |-> {}]]
          /\ overlapped' = IF Completing(b) THEN overlapped \union {b} ELSE overlapped

\* The catch block: the files go back to the composer, the batch is cancelled.
Failed ==
    /\ sender' = [sender EXCEPT !.phase = "composing", !.left = {}]
    /\ SendCancel(sender.batch)

\* A put fails, whether or not the object has arrived, or is aborted by the
\* cancel button; the button's cancel request and Failed's count as one.
PutFails(f, arrived) ==
    /\ sender.phase = "uploading" /\ f \in sender.left
    /\ stored' = IF arrived THEN stored \union {<<sender.batch, f>>} ELSE stored
    /\ Failed
    /\ UNCHANGED <<actor, conversation, open, database, complete, withdrawn>>

Receive(r, b) ==
    /\ Free(complete, r)
    /\ complete' = [complete EXCEPT ![r] = [pc |-> "check", batch |-> b, shortcut |-> FALSE]]
    /\ overlapped' = IF Completing(b) \/ Cancelling(b) THEN overlapped \union {b} ELSE overlapped

SendComplete(r) ==
    /\ sender.phase = "uploading" /\ sender.left = {}
    /\ sender' = [sender EXCEPT !.phase = "confirming"]
    /\ Receive(r, sender.batch)
    /\ UNCHANGED <<actor, conversation, open, database, stored, cancel, withdrawn>>

\* A request is delivered once more, by a retry below the client or a caller
\* of the interface.
Redeliver(r, q) ==
    /\ complete[q].pc # "none"
    /\ Receive(r, complete[q].batch)
    /\ UNCHANGED <<actor, sender, conversation, open, database, stored, cancel, withdrawn>>

\* The cancel button while the handler waits for the complete request.
CancelButton ==
    /\ sender.phase = "confirming"
    /\ SendCancel(sender.batch)
    /\ UNCHANGED <<actor, sender, conversation, open, database, stored, complete, withdrawn>>

Succeeds(r) ==
    /\ sender.phase = "confirming"
    /\ complete[r].batch = sender.batch /\ complete[r].pc = "succeeded"
    /\ sender' = [sender EXCEPT !.phase = "done"]
    /\ UNCHANGED <<actor, conversation, open, database, stored, requests, history>>

\* The answer is an error, or the client has lost it, wherever the service is.
Fails ==
    /\ sender.phase = "confirming"
    /\ Failed
    /\ UNCHANGED <<actor, conversation, open, database, stored, complete, withdrawn>>
-----------------------------------------------------------------------------
(* The service: completeVisitorUploads and completeOperatorUploads.        *)

At(r, pc) == complete[r].pc = pc
Goto(r, pc) == complete' = [complete EXCEPT ![r].pc = pc]

\* uploadsAlreadyConfirmed; a query that fails counts as no.
Check(r) ==
    /\ At(r, "check")
    /\ \/ /\ uploads[complete[r].batch].status = "confirmed"
          /\ complete' = [complete EXCEPT ![r].pc = "finalize", ![r].shortcut = TRUE]
       \/ Goto(r, "select")
    /\ UNCHANGED <<actor, sender, conversation, open, database, stored, cancel, history>>

Active(row) == row.status \in {"pending", "uploaded"}

\* prepareUploadsForFinalize reads the rows before it looks at the objects.
Select(r) ==
    LET row == uploads[complete[r].batch] IN
    /\ At(r, "select")
    /\ Goto(r, IF Active(row) /\ ~row.expired THEN "validate" ELSE "failed")
    /\ UNCHANGED <<actor, sender, conversation, open, database, stored, cancel, history>>

\* Every object is there and is what its row declares, or one is missing.
Validate(r) ==
    /\ At(r, "validate")
    /\ Goto(r, IF ObjectsOf(complete[r].batch) \subseteq stored THEN "mark" ELSE "failed")
    /\ UNCHANGED <<actor, sender, conversation, open, database, stored, cancel, history>>

\* The bytes are not what the row declares, or the scanner refuses them.
Reject(r, f) ==
    LET object == <<complete[r].batch, f>> IN
    /\ At(r, "validate") /\ object \in stored
    /\ stored' = stored \ {object}
    /\ Goto(r, "failed")
    /\ UNCHANGED <<actor, sender, conversation, open, database, cancel, history>>

\* mark_attachment_uploads_uploaded; the number of rows is not looked at.
Marked(row) ==
    IF row.status = "pending" /\ ~row.expired THEN [row EXCEPT !.status = "uploaded"] ELSE row

Mark(r) ==
    /\ At(r, "mark")
    /\ uploads' = [uploads EXCEPT ![complete[r].batch] = Marked(@)]
    /\ Goto(r, "finalize")
    /\ UNCHANGED <<actor, sender, conversation, open, stored, messages, cancel, history>>

\* A call outside finalize fails, or the service stops.
Break(r) ==
    /\ complete[r].pc \in InService \ {"finalize", "commit"}
    /\ Goto(r, "failed")
    /\ UNCHANGED <<actor, sender, conversation, open, database, stored, cancel, history>>

\* The finalize call fails before it reaches the database.
FinalizeLost(r) ==
    /\ At(r, "finalize")
    /\ Goto(r, IF complete[r].shortcut THEN "failed" ELSE "cleanup")
    /\ UNCHANGED <<actor, sender, conversation, open, database, stored, cancel, history>>
-----------------------------------------------------------------------------
(* finalize_visitor_attachment_message, finalize_operator_attachment_message *)

Stored(c) == \E m \in messages : m.conversation = c

\* Fault: the rows are counted whatever their status is.
CountedAnyhow(row) == ~row.expired /\ row.conversation = Target

Counted(row) == row.status = "uploaded" /\ ~row.expired /\ row.conversation = Target

\* The client message id is known.  The operator's function refuses a request
\* without attachments, which the shortcut sends, before it looks.
Recognised(request) == (request.shortcut => actor = "visitor") /\ Stored(Target)

\* Up to the count of the uploads; the visitor's function has locked the
\* conversation by now, the operator's has not.
FinalizeCheck(r) ==
    /\ At(r, "finalize")
    /\ ~Locked
    /\ Goto(r, IF Recognised(complete[r]) THEN "succeeded"
               ELSE IF complete[r].shortcut THEN "refused"
               ELSE IF Counted(uploads[complete[r].batch]) THEN "commit" ELSE "cleanup")
    /\ UNCHANGED <<actor, sender, conversation, open, database, stored, cancel, history>>

\* Fault: the unique index on the client message id is missing.
UniqueAttachment(b) == \A m \in messages : m.batch # b

\* The unique indexes on the client message id of a conversation and on the
\* attachment.
Unique(b) == ~Stored(uploads[b].conversation) /\ \A m \in messages : m.batch # b

\* Fault: only uploaded rows are confirmed.
ConfirmedIfUploaded(row) ==
    IF row.status = "uploaded" THEN [row EXCEPT !.status = "confirmed"] ELSE row

\* Whatever the rows say by now.
Confirmed(row) == [row EXCEPT !.status = "confirmed"]

\* The rest of the transaction; its answer may not reach the service.
FinalizeCommit(r, answered) ==
    LET b == complete[r].batch IN
    /\ At(r, "commit")
    /\ IF Unique(b)
       THEN /\ messages' = messages \union {[conversation |-> uploads[b].conversation, batch |-> b]}
            /\ uploads' = [uploads EXCEPT ![b] = Confirmed(@)]
            /\ Goto(r, IF answered THEN "succeeded" ELSE "cleanup")
            /\ overlapped' = IF answered THEN overlapped ELSE overlapped \union {b}
       ELSE /\ Goto(r, "cleanup")
            /\ UNCHANGED <<database, overlapped>>
    /\ UNCHANGED <<actor, sender, conversation, open, stored, cancel, withdrawn>>

\* cleanupFailedObjects, then the error is thrown on.
Cleanup(r) ==
    /\ At(r, "cleanup")
    /\ stored' = stored \ ObjectsOf(complete[r].batch)
    /\ Goto(r, "failed")
    /\ UNCHANGED <<actor, sender, conversation, open, database, cancel, history>>
-----------------------------------------------------------------------------
(* The service: cancelUploads.                                             *)

\* resolveVisitorSessionId ensures a conversation, as an attempt does: a cancel
\* may reopen the latest, or start one.
CancelResolve(r) ==
    /\ cancel[r].pc = "resolve"
    /\ ~Locked
    /\ conversation' = Target /\ open' = TRUE
    /\ cancel' = [cancel EXCEPT ![r].pc = "select"]
    /\ UNCHANGED <<actor, sender, database, stored, complete, history>>

\* Fault: the keys are read whatever the status of the rows is.
KeysOfAll(b) == ObjectsOf(b)

Keys(b) == IF Active(uploads[b]) THEN ObjectsOf(b) ELSE {}

CancelSelect(r) ==
    /\ cancel[r].pc = "select"
    /\ cancel' = [cancel EXCEPT ![r].pc = "update", ![r].keys = Keys(cancel[r].batch)]
    /\ UNCHANGED <<actor, sender, conversation, open, database, stored, complete, history>>

\* cancel_attachment_uploads
Cancelled(row) == IF Active(row) THEN [row EXCEPT !.status = "cancelled"] ELSE row

CancelUpdate(r) ==
    LET b == cancel[r].batch IN
    /\ cancel[r].pc = "update"
    /\ uploads' = [uploads EXCEPT ![b] = Cancelled(@)]
    /\ cancel' = [cancel EXCEPT ![r].pc = "delete"]
    /\ withdrawn' = IF Active(uploads[b]) /\ ~Committing(b) THEN withdrawn \union {b}
                    ELSE withdrawn
    /\ UNCHANGED <<actor, sender, conversation, open, stored, messages, complete, overlapped>>

CancelDelete(r) ==
    /\ cancel[r].pc = "delete"
    /\ stored' = stored \ cancel[r].keys
    /\ cancel' = [cancel EXCEPT ![r].pc = "ended", ![r].keys = {}]
    /\ UNCHANGED <<actor, sender, conversation, open, database, complete, history>>

\* A call of the handler fails, or the service stops.
CancelBreak(r) ==
    /\ cancel[r].pc \in InCancel
    /\ cancel' = [cancel EXCEPT ![r].pc = "ended", ![r].keys = {}]
    /\ UNCHANGED <<actor, sender, conversation, open, database, stored, complete, history>>
-----------------------------------------------------------------------------
Next ==
    \/ EndConversation \/ CancelButton \/ Fails
    \/ \E f \in Files : Put(f) \/ \E arrived \in BOOLEAN : PutFails(f, arrived)
    \/ \E b \in Batches : Expire(b) \/ Initiate(b)
    \/ \E r \in Completes :
            \/ SendComplete(r) \/ Succeeds(r)
            \/ \E q \in Completes : Redeliver(r, q)
            \/ Check(r) \/ Select(r) \/ Validate(r) \/ Mark(r) \/ Break(r)
            \/ \E f \in Files : Reject(r, f)
            \/ FinalizeLost(r) \/ FinalizeCheck(r) \/ Cleanup(r)
            \/ \E answered \in BOOLEAN : FinalizeCommit(r, answered)
    \/ \E r \in Cancels :
            CancelResolve(r) \/ CancelSelect(r) \/ CancelUpdate(r) \/ CancelDelete(r) \/ CancelBreak(r)

Spec == Init /\ [][Next]_vars
-----------------------------------------------------------------------------
(* Properties. *)

\* Every variable has the type of the tables and of the handlers' variables.
TypeOK ==
    /\ actor \in Actors
    /\ sender \in [phase : {"composing", "uploading", "confirming", "done"},
                   batch : 0..MaxBatches, left : SUBSET Files]
    /\ conversation \in 1..MaxConversations /\ open \in BOOLEAN
    /\ uploads \in [Batches -> [status : {"none", "pending", "uploaded", "confirmed", "cancelled"},
                                conversation : 0..MaxConversations, expired : BOOLEAN]]
    /\ stored \subseteq Objects
    /\ messages \subseteq [conversation : 1..MaxConversations, batch : Batches]
    /\ complete \in [Completes -> [pc : InService \union {"none", "succeeded", "failed", "refused"},
                                   batch : 0..MaxBatches, shortcut : BOOLEAN]]
    /\ cancel \in [Cancels -> [pc : InCancel \union {"none", "ended"},
                               batch : 0..MaxBatches, keys : SUBSET Objects]]
    /\ overlapped \subseteq Batches /\ withdrawn \subseteq Batches

\* The uploads of a batch are confirmed exactly when a message has them, and
\* then only one has: neither a late cancel nor a second finalize separates the
\* two tables.
ConfirmedIsAttached ==
    \A b \in Batches :
        /\ uploads[b].status = "confirmed" <=> \E m \in messages : m.batch = b
        /\ Cardinality({m \in messages : m.batch = b}) <= 1

\* Attempts with batches of their own, finalized at the same time or one after
\* the other, store the message once in a conversation.
OncePerConversation ==
    \A m, n \in messages : m.conversation = n.conversation => m = n

\* The objects of a stored message are there, unless requests of its batch
\* overlapped or the answer of the transaction that stored it was lost: failed
\* attempts, retries and cancels that come after the message leave them alone.
AttachmentsAreStored ==
    \A m \in messages : m.batch \in overlapped \/ ObjectsOf(m.batch) \subseteq stored

\* A batch that was cancelled before a finalize had counted it belongs to no
\* message, however far its complete request had come.
CancelledStaysOut == \A m \in messages : m.batch \notin withdrawn
=============================================================================
