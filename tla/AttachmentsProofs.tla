-------------------------- MODULE AttachmentsProofs --------------------------
(***************************************************************************)
(* Proofs about Attachments as MCVisitorSide instantiates it, for any      *)
(* files, batches, requests and conversations; and what all components of  *)
(* the visitor's side have together.                                       *)
(*                                                                         *)
(* A batch is confirmed only together with its message, and never becomes  *)
(* anything else; what the service deletes of a batch, it deletes on       *)
(* behalf of a request that was in progress before the batch was           *)
(* confirmed, so that a batch whose requests did not overlap keeps its     *)
(* objects.                                                                *)
(***************************************************************************)
EXTENDS VisitorSideProofs, FiniteSetTheorems

InProgress(r, b) == complete[r].batch = b /\ complete[r].pc \in Files!InService

\* The service has seen the objects of the batch.
Validated(c) == c.pc \in {"mark", "commit"} \/ (c.pc = "finalize" /\ ~c.shortcut)

\* What a request for a confirmed batch may still be doing.
Harmless(c) == c.pc \in {"check", "select"} \/ (c.pc = "finalize" /\ c.shortcut)

\* Batches are made one after the other, and requests name one that was made.
BatchesInv ==
    /\ sender.phase # "composing" => sender.batch >= 1
    /\ ~open => conversation < MaxConversations
    /\ \A b \in Files!Batches :
          IF b > sender.batch THEN uploads[b].status = "none" ELSE uploads[b].conversation >= 1
    /\ \A r \in Files!Completes : complete[r].pc # "none" => complete[r].batch \in 1..sender.batch
    /\ \A r \in Files!Cancels : /\ cancel[r].pc # "none" => cancel[r].batch \in 1..sender.batch
                          /\ cancel[r].keys \subseteq Files!ObjectsOf(cancel[r].batch)

\* The two tables agree.
TablesInv ==
    /\ \A b \in Files!Batches : uploads[b].status = "confirmed" <=> \E m \in messages : m.batch = b
    /\ \A m, n \in messages : m.batch = n.batch => m = n
    /\ Files!OncePerConversation

\* The shortcut is taken for a confirmed batch only.
ShortcutInv ==
    \A r \in Files!Completes : complete[r].shortcut =>
        /\ complete[r].pc \in {"finalize", "succeeded", "refused", "failed"}
        /\ uploads[complete[r].batch].status = "confirmed"

\* What was cancelled before it was counted will not be counted.
WithdrawnInv ==
    \A b \in withdrawn : uploads[b].status = "cancelled" /\ ~Files!Committing(b)

\* Of a batch whose requests did not overlap: one is in progress at a time, and
\* none of those that came after the message deletes its objects.
Alone(b) ==
    /\ \A r, q \in Files!Completes : InProgress(r, b) /\ InProgress(q, b) => r = q
    /\ \A r \in Files!Completes, q \in Files!Cancels :
          InProgress(r, b) => ~(cancel[q].batch = b /\ cancel[q].pc \in Files!InCancel)
    /\ \A r \in Files!Completes :
          complete[r].batch = b /\ Validated(complete[r]) => Files!ObjectsOf(b) \subseteq stored
    /\ uploads[b].status = "confirmed" =>
          /\ Files!ObjectsOf(b) \subseteq stored
          /\ \A r \in Files!Completes : InProgress(r, b) => Harmless(complete[r])
          /\ \A q \in Files!Cancels : cancel[q].batch = b /\ cancel[q].pc \in {"update", "delete"}
                                    => cancel[q].keys = {}

AloneInv == \A b \in Files!Batches \ overlapped : Alone(b)

FilesInv == Files!TypeOK /\ BatchesInv /\ TablesInv /\ ShortcutInv /\ WithdrawnInv /\ AloneInv

SenderRow == [phase : {"composing", "uploading", "confirming", "done"},
              batch : 0..MaxBatches, left : SUBSET Slots]
UploadRow == [status : {"none", "pending", "uploaded", "confirmed", "cancelled"},
              conversation : 0..MaxConversations, expired : BOOLEAN]
CompleteRow == [pc : Files!InService \union {"none", "succeeded", "failed", "refused"},
                batch : 0..MaxBatches, shortcut : BOOLEAN]
CancelRow == [pc : Files!InCancel \union {"none", "ended"}, batch : 0..MaxBatches,
              keys : SUBSET Files!Objects]

\* The parts of the state, typed.
LEMMA FilesTyped ==
    ASSUME Files!AttachmentsAssumption, FilesInv
    PROVE  /\ MaxBatches \in Nat /\ MaxConversations \in Nat /\ MaxConversations >= 1
           /\ sender \in SenderRow /\ sender.batch \in 0..MaxBatches
           /\ uploads \in [Files!Batches -> UploadRow]
           /\ complete \in [Files!Completes -> CompleteRow]
           /\ cancel \in [Files!Cancels -> CancelRow]
           /\ \A r \in Files!Completes : complete[r].pc # "none" => complete[r].batch \in Files!Batches
           /\ \A r \in Files!Cancels : cancel[r].pc # "none" => cancel[r].batch \in Files!Batches
<1>1. /\ MaxBatches \in Nat /\ MaxConversations \in Nat /\ MaxConversations >= 1
      /\ sender \in SenderRow /\ sender.batch \in 0..MaxBatches
  BY DEF Files!AttachmentsAssumption, FilesInv, Files!TypeOK, SenderRow
<1>2. 1..sender.batch \subseteq Files!Batches
  BY <1>1 DEF Files!Batches
<1> QED
  BY <1>1, <1>2 DEF FilesInv, Files!TypeOK, UploadRow, CompleteRow, CancelRow, BatchesInv

LEMMA FilesInit == Files!AttachmentsAssumption /\ Files!Init => FilesInv
<1> SUFFICES ASSUME Files!AttachmentsAssumption, Files!Init PROVE FilesInv
  OBVIOUS
<1>1. MaxBatches \in Nat /\ MaxConversations \in Nat /\ MaxConversations >= 1
  BY DEF Files!AttachmentsAssumption
<1>2. Files!TypeOK
  BY <1>1 DEF Files!Init, Files!TypeOK, Files!NoComplete, Files!NoCancel
<1>3. BatchesInv
  BY <1>1 DEF Files!Init, BatchesInv, Files!NoComplete, Files!NoCancel, Files!Batches,
     Files!ObjectsOf
<1>4. TablesInv
  BY DEF Files!Init, TablesInv, Files!OncePerConversation
<1>5. ShortcutInv /\ WithdrawnInv
  BY DEF Files!Init, ShortcutInv, WithdrawnInv, Files!NoComplete
<1>6. AloneInv
  BY DEF Files!Init, AloneInv, Alone, Files!NoComplete, Files!NoCancel, InProgress, Validated,
     Files!InService, Files!InCancel
<1> QED  BY <1>2, <1>3, <1>4, <1>5, <1>6 DEF FilesInv
-----------------------------------------------------------------------------
(* Steps of a request. *)

\* The rows keep what the tables and the requests depend on.
RowsKept ==
    /\ uploads' \in [Files!Batches -> UploadRow]
    /\ \A b \in Files!Batches :
          /\ uploads'[b].conversation = uploads[b].conversation
          /\ uploads'[b].status = "none" <=> uploads[b].status = "none"
          /\ uploads'[b].status = "confirmed" <=> uploads[b].status = "confirmed"
          /\ uploads[b].status = "cancelled" => uploads'[b].status = "cancelled"

\* A batch that a step does not touch stays alone.
LEMMA StillAlone ==
    ASSUME NEW d \in Files!Batches, Alone(d),
           uploads'[d].status = "confirmed" => uploads[d].status = "confirmed",
           Files!ObjectsOf(d) \subseteq stored => Files!ObjectsOf(d) \subseteq stored',
           \A p \in Files!Completes : complete'[p].batch = d => complete'[p] = complete[p],
           \A q \in Files!Cancels : cancel'[q].batch = d => cancel'[q] = cancel[q]
    PROVE  Alone(d)'
  BY DEF Alone, InProgress

\* A complete request of batch b moves on, by one that may take objects of the
\* batch away.
LEMMA ServiceStep ==
    ASSUME Files!AttachmentsAssumption, FilesInv, NEW r \in Files!Completes, NEW t \in CompleteRow,
           NEW b, b = complete[r].batch,
           complete[r].pc \in Files!InService, complete' = [complete EXCEPT ![r] = t],
           t.batch = b, t.pc # "none",
           RowsKept,
           UNCHANGED <<actor, sender, conversation, open, messages, cancel, Files!history>>,
           stored' \subseteq stored, \A o \in stored \ stored' : o \in Files!ObjectsOf(b),
           t.shortcut => /\ t.pc \in {"finalize", "succeeded", "refused", "failed"}
                         /\ uploads[b].status = "confirmed",
           t.pc = "commit" => uploads[b].status # "cancelled",
           b \notin overlapped =>
               /\ Validated(t) => Files!ObjectsOf(b) \subseteq stored'
               /\ uploads[b].status = "confirmed" =>
                      stored' = stored /\ (t.pc \in Files!InService => Harmless(t))
               /\ stored' # stored => t.pc = "failed"
    PROVE  FilesInv'
<1>1. /\ b \in Files!Batches /\ complete' \in [Files!Completes -> CompleteRow] /\ complete'[r] = t
      /\ \A q \in Files!Completes \ {r} : complete'[q] = complete[q]
      /\ UNCHANGED <<overlapped, withdrawn>>
  BY FilesTyped DEF Files!InService, Files!history
<1>2. Files!TypeOK'
  BY <1>1 DEF FilesInv, Files!TypeOK, RowsKept, UploadRow, CompleteRow
<1>3. BatchesInv'
  BY <1>1, FilesTyped DEF FilesInv, BatchesInv, RowsKept, Files!InService
<1>4. TablesInv'
  BY DEF FilesInv, TablesInv, Files!OncePerConversation, RowsKept
<1>5. ShortcutInv'
  <2>1. \A q \in Files!Completes : complete[q].shortcut => complete[q].batch \in Files!Batches
    BY FilesTyped DEF FilesInv, ShortcutInv
  <2> QED  BY <1>1, <2>1 DEF FilesInv, ShortcutInv, RowsKept
<1>6. WithdrawnInv'
  BY <1>1 DEF FilesInv, WithdrawnInv, Files!Committing, RowsKept, Files!TypeOK
<1>7. AloneInv'
  <2> SUFFICES ASSUME NEW d \in Files!Batches \ overlapped' PROVE Alone(d)'
    BY DEF AloneInv
  <2>0. d \notin overlapped /\ Alone(d)
    BY <1>1 DEF FilesInv, AloneInv
  <2>1. \A p \in Files!Completes : InProgress(p, d)' => InProgress(p, d)
    BY <1>1 DEF InProgress
  <2>2. uploads'[d].status = "confirmed" <=> uploads[d].status = "confirmed"
    BY DEF RowsKept
  <2>3. CASE d = b
    <3>1. \A p \in Files!Completes \ {r} : ~InProgress(p, d)
      BY <2>0, <2>3 DEF Alone, InProgress
    <3>2. \A p \in Files!Completes : complete'[p].batch = d /\ Validated(complete'[p]) => p = r
      BY <1>1, <3>1 DEF InProgress, Validated, Files!InService
    <3>3. \A p \in Files!Completes : InProgress(p, d)' => p = r
      BY <2>1, <3>1
    <3> QED  BY <1>1, <2>0, <2>1, <2>2, <2>3, <3>2, <3>3 DEF Alone, InProgress
  <2>4. CASE d # b
    <3>1. \A o \in Files!ObjectsOf(d) : o \notin Files!ObjectsOf(b)
      BY <2>4 DEF Files!ObjectsOf
    <3>2. Files!ObjectsOf(d) \subseteq stored => Files!ObjectsOf(d) \subseteq stored'
      BY <3>1
    <3>3. \A p \in Files!Completes : complete'[p].batch = d => complete'[p] = complete[p]
      BY <1>1, <2>4
    <3> QED  BY <2>0, <2>2, <3>2, <3>3, StillAlone
  <2> QED  BY <2>3, <2>4
<1> QED  BY <1>2, <1>3, <1>4, <1>5, <1>6, <1>7 DEF FilesInv

\* What the counts of a finalize and the steps of a request rest on.
LEMMA RequestFacts ==
    ASSUME Files!AttachmentsAssumption, FilesInv, NEW r \in Files!Completes,
           complete[r].pc \in Files!InService
    PROVE  /\ complete[r] \in CompleteRow /\ complete[r].batch \in Files!Batches
           /\ uploads[complete[r].batch] \in UploadRow
           /\ complete[r].shortcut => complete[r].pc = "finalize"
                                      /\ uploads[complete[r].batch].status = "confirmed"
           /\ complete[r].batch \notin overlapped =>
                /\ Validated(complete[r]) => Files!ObjectsOf(complete[r].batch) \subseteq stored
                /\ uploads[complete[r].batch].status = "confirmed" => Harmless(complete[r])
  BY FilesTyped DEF FilesInv, ShortcutInv, AloneInv, Alone, Files!InService, InProgress

LEMMA RowsUnchanged == Files!AttachmentsAssumption /\ FilesInv /\ UNCHANGED uploads => RowsKept
  BY FilesTyped DEF RowsKept

\* A request that only goes on to another state.
LEMMA GotoStep ==
    ASSUME Files!AttachmentsAssumption, FilesInv, NEW r \in Files!Completes,
           complete[r].pc \in Files!InService,
           NEW pc \in Files!InService \union {"succeeded", "failed", "refused"}, Files!Goto(r, pc),
           UNCHANGED <<actor, sender, conversation, open, Files!database, cancel, Files!history>>,
           stored' \subseteq stored,
           \A o \in stored \ stored' : o \in Files!ObjectsOf(complete[r].batch),
           complete[r].shortcut => pc \in {"finalize", "succeeded", "refused", "failed"},
           pc = "commit" => uploads[complete[r].batch].status # "cancelled",
           complete[r].batch \notin overlapped =>
               /\ pc \in {"mark", "finalize", "commit"} /\ ~complete[r].shortcut
                      => Files!ObjectsOf(complete[r].batch) \subseteq stored'
               /\ uploads[complete[r].batch].status = "confirmed" =>
                      stored' = stored /\ (pc \in Files!InService => pc \in {"check", "select"})
               /\ stored' # stored => pc = "failed"
    PROVE  FilesInv'
<1> DEFINE t == [complete[r] EXCEPT !.pc = pc]  b == complete[r].batch
<1>1. t \in CompleteRow /\ t.pc = pc /\ t.batch = b /\ t.shortcut = complete[r].shortcut
  BY RequestFacts DEF CompleteRow
<1>2. complete' = [complete EXCEPT ![r] = t]
  BY FilesTyped DEF Files!Goto
<1>3. pc # "none" /\ RowsKept
  BY RowsUnchanged DEF Files!InService, Files!database
<1>4. b \notin overlapped =>
          /\ Validated(t) => Files!ObjectsOf(b) \subseteq stored'
          /\ uploads[b].status = "confirmed" =>
                 stored' = stored /\ (t.pc \in Files!InService => Harmless(t))
          /\ stored' # stored => t.pc = "failed"
  BY <1>1, RequestFacts DEF Validated, Harmless
<1>5. t.shortcut => /\ t.pc \in {"finalize", "succeeded", "refused", "failed"}
                    /\ uploads[b].status = "confirmed"
  BY <1>1, RequestFacts
<1>6. UNCHANGED <<actor, sender, conversation, open, messages, cancel, Files!history>>
  BY DEF Files!database
<1> HIDE DEF t, b
<1> QED  BY <1>1, <1>2, <1>3, <1>4, <1>5, <1>6, ServiceStep DEF b

LEMMA CheckInv ==
    ASSUME Files!AttachmentsAssumption, FilesInv, NEW r \in Files!Completes,
           Files!Check(r) PROVE FilesInv'
<1>1. /\ complete[r].pc = "check" /\ complete[r].pc \in Files!InService /\ ~complete[r].shortcut
      /\ UNCHANGED <<actor, sender, conversation, open, Files!database, stored, cancel, Files!history>>
  BY RequestFacts DEF Files!Check, Files!At, Files!InService
<1>2. CASE Files!Goto(r, "select")
  <2>1. "select" \in Files!InService
    BY DEF Files!InService
  <2> QED  BY <1>1, <1>2, <2>1, GotoStep
<1>3. CASE /\ uploads[complete[r].batch].status = "confirmed"
           /\ complete' = [complete EXCEPT ![r].pc = "finalize", ![r].shortcut = TRUE]
  <2> DEFINE t == [complete[r] EXCEPT !.pc = "finalize", !.shortcut = TRUE]
  <2>1. /\ t \in CompleteRow /\ t.pc = "finalize" /\ t.batch = complete[r].batch /\ t.shortcut
    BY <1>1, RequestFacts DEF CompleteRow, Files!InService
  <2>2. complete' = [complete EXCEPT ![r] = t]
    BY <1>3, FilesTyped
  <2>3. RowsKept /\ UNCHANGED <<actor, sender, conversation, open, messages, cancel, Files!history>>
    BY <1>1, RowsUnchanged DEF Files!database
  <2>4. Harmless(t) /\ ~Validated(t)
    BY <2>1 DEF Harmless, Validated
  <2> HIDE DEF t
  <2> QED  BY <1>1, <1>3, <2>1, <2>2, <2>3, <2>4, ServiceStep
<1> QED  BY <1>2, <1>3 DEF Files!Check

\* A request that has been selected had an active row, so nothing of a confirmed
\* batch gets past here.
LEMMA SelectInv ==
    ASSUME Files!AttachmentsAssumption, FilesInv, NEW r \in Files!Completes,
           Files!Select(r) PROVE FilesInv'
<1>1. /\ complete[r].pc = "select" /\ complete[r].pc \in Files!InService /\ ~complete[r].shortcut
      /\ UNCHANGED <<actor, sender, conversation, open, Files!database, stored, cancel, Files!history>>
  BY RequestFacts DEF Files!Select, Files!At, Files!InService
<1>2. "validate" \in Files!InService /\ "failed" \notin Files!InService
  BY DEF Files!InService
<1>3. \/ Files!Goto(r, "failed")
      \/ (Files!Goto(r, "validate") /\ uploads[complete[r].batch].status # "confirmed")
  BY DEF Files!Select, Files!Active
<1> QED  BY <1>1, <1>2, <1>3, GotoStep

LEMMA ValidateInv ==
    ASSUME Files!AttachmentsAssumption, FilesInv, NEW r \in Files!Completes,
           Files!Validate(r) PROVE FilesInv'
<1>1. /\ complete[r].pc = "validate" /\ complete[r].pc \in Files!InService /\ ~complete[r].shortcut
      /\ complete[r].batch \notin overlapped => uploads[complete[r].batch].status # "confirmed"
      /\ UNCHANGED <<actor, sender, conversation, open, Files!database, stored, cancel, Files!history>>
  BY RequestFacts DEF Files!Validate, Files!At, Files!InService, Harmless
<1>2. "mark" \in Files!InService
  BY DEF Files!InService
<1>3. \/ Files!Goto(r, "failed")
      \/ (Files!Goto(r, "mark") /\ Files!ObjectsOf(complete[r].batch) \subseteq stored)
  BY DEF Files!Validate
<1> QED  BY <1>1, <1>2, <1>3, GotoStep

LEMMA RejectInv ==
    ASSUME Files!AttachmentsAssumption, FilesInv, NEW r \in Files!Completes, NEW f \in Slots,
           Files!Reject(r, f)
    PROVE  FilesInv'
<1>1. /\ complete[r].pc = "validate" /\ complete[r].pc \in Files!InService /\ ~complete[r].shortcut
      /\ complete[r].batch \notin overlapped => uploads[complete[r].batch].status # "confirmed"
      /\ Files!Goto(r, "failed")
      /\ UNCHANGED <<actor, sender, conversation, open, Files!database, cancel, Files!history>>
  BY RequestFacts DEF Files!Reject, Files!At, Files!InService, Harmless
<1>2. stored' \subseteq stored /\ \A o \in stored \ stored' : o \in Files!ObjectsOf(complete[r].batch)
  BY DEF Files!Reject, Files!ObjectsOf
<1> QED  BY <1>1, <1>2, GotoStep

LEMMA MarkInv ==
    ASSUME Files!AttachmentsAssumption, FilesInv, NEW r \in Files!Completes,
           Files!Mark(r) PROVE FilesInv'
<1> DEFINE t == [complete[r] EXCEPT !.pc = "finalize"]  b == complete[r].batch
<1>1. /\ complete[r].pc = "mark" /\ complete[r].pc \in Files!InService /\ ~complete[r].shortcut
      /\ uploads' = [uploads EXCEPT ![b] = Files!Marked(uploads[b])]
      /\ UNCHANGED <<actor, sender, conversation, open, stored, messages, cancel, Files!history>>
      /\ b \in Files!Batches /\ uploads[b] \in UploadRow
  BY RequestFacts DEF Files!Mark, Files!At, Files!InService
<1>2. /\ t \in CompleteRow /\ t.pc = "finalize" /\ t.batch = b /\ ~t.shortcut
  BY <1>1, RequestFacts DEF CompleteRow, Files!InService
<1>3. complete' = [complete EXCEPT ![r] = t]
  BY FilesTyped DEF Files!Mark, Files!Goto
<1>4. RowsKept
  <2>1. /\ Files!Marked(uploads[b]) \in UploadRow
        /\ Files!Marked(uploads[b]).conversation = uploads[b].conversation
        /\ Files!Marked(uploads[b]) = uploads[b]
              \/ (uploads[b].status = "pending" /\ Files!Marked(uploads[b]).status = "uploaded")
    <3>1. CASE uploads[b].status = "pending" /\ ~uploads[b].expired
      BY <1>1, <3>1 DEF Files!Marked, UploadRow
    <3>2. CASE ~(uploads[b].status = "pending" /\ ~uploads[b].expired)
      <4>1. Files!Marked(uploads[b]) = uploads[b]
        BY <3>2 DEF Files!Marked
      <4> QED  BY <1>1, <4>1
    <3> QED  BY <3>1, <3>2
  <2> QED  BY <1>1, <2>1, FilesTyped DEF RowsKept
<1>5. b \notin overlapped => Files!ObjectsOf(b) \subseteq stored /\ uploads[b].status # "confirmed"
  BY <1>1, RequestFacts DEF Validated, Harmless
<1> HIDE DEF t, b
<1> QED  BY <1>1, <1>2, <1>3, <1>4, <1>5, ServiceStep DEF b

LEMMA BreakInv ==
    ASSUME Files!AttachmentsAssumption, FilesInv, NEW r \in Files!Completes,
           Files!Break(r) PROVE FilesInv'
  BY GotoStep DEF Files!Break, Files!InService

LEMMA FinalizeLostInv ==
    ASSUME Files!AttachmentsAssumption, FilesInv, NEW r \in Files!Completes,
           Files!FinalizeLost(r) PROVE FilesInv'
<1>1. /\ complete[r].pc = "finalize" /\ complete[r].pc \in Files!InService
      /\ complete[r].batch \notin overlapped /\ uploads[complete[r].batch].status = "confirmed"
             => complete[r].shortcut
      /\ UNCHANGED <<actor, sender, conversation, open, Files!database, stored, cancel, Files!history>>
  BY RequestFacts DEF Files!FinalizeLost, Files!At, Files!InService, Harmless
<1>2. "cleanup" \in Files!InService /\ "failed" \notin Files!InService
  BY DEF Files!InService
<1>3. Files!Goto(r, "failed") \/ (Files!Goto(r, "cleanup") /\ ~complete[r].shortcut)
  BY DEF Files!FinalizeLost
<1> QED  BY <1>1, <1>2, <1>3, GotoStep

LEMMA FinalizeCheckInv ==
    ASSUME Files!AttachmentsAssumption, FilesInv, NEW r \in Files!Completes,
           Files!FinalizeCheck(r) PROVE FilesInv'
<1> DEFINE b == complete[r].batch
<1>1. /\ complete[r].pc = "finalize" /\ complete[r].pc \in Files!InService
      /\ b \notin overlapped /\ uploads[b].status = "confirmed" => complete[r].shortcut
      /\ b \notin overlapped /\ ~complete[r].shortcut => Files!ObjectsOf(b) \subseteq stored
      /\ UNCHANGED <<actor, sender, conversation, open, Files!database, stored, cancel, Files!history>>
  BY RequestFacts DEF Files!FinalizeCheck, Files!At, Files!InService, Harmless, Validated
<1>2. /\ "cleanup" \in Files!InService /\ "commit" \in Files!InService
      /\ "succeeded" \notin Files!InService /\ "refused" \notin Files!InService
  BY DEF Files!InService
<1>3. \/ Files!Goto(r, "succeeded") \/ Files!Goto(r, "refused")
      \/ (Files!Goto(r, "commit") /\ ~complete[r].shortcut /\ uploads[b].status = "uploaded")
      \/ (Files!Goto(r, "cleanup") /\ ~complete[r].shortcut)
  BY DEF Files!FinalizeCheck, Files!Counted
<1> QED  BY <1>1, <1>2, <1>3, GotoStep

LEMMA CleanupInv ==
    ASSUME Files!AttachmentsAssumption, FilesInv, NEW r \in Files!Completes,
           Files!Cleanup(r) PROVE FilesInv'
<1>1. /\ complete[r].pc = "cleanup" /\ complete[r].pc \in Files!InService /\ ~complete[r].shortcut
      /\ complete[r].batch \notin overlapped => uploads[complete[r].batch].status # "confirmed"
      /\ Files!Goto(r, "failed")
      /\ UNCHANGED <<actor, sender, conversation, open, Files!database, cancel, Files!history>>
  BY RequestFacts DEF Files!Cleanup, Files!At, Files!InService, Harmless
<1>2. stored' \subseteq stored /\ \A o \in stored \ stored' : o \in Files!ObjectsOf(complete[r].batch)
  BY DEF Files!Cleanup
<1> QED  BY <1>1, <1>2, GotoStep
-----------------------------------------------------------------------------
(* The commit of a finalize: a message and its confirmed batch. *)

\* The conversations and the batches of the stored messages are all different.
LEMMA NewMessage ==
    ASSUME Files!AttachmentsAssumption, FilesInv, NEW b \in Files!Batches, b <= sender.batch,
           Files!Unique(b),
           messages' = messages \union {[conversation |-> uploads[b].conversation, batch |-> b]},
           uploads' = [uploads EXCEPT ![b] = Files!Confirmed(uploads[b])]
    PROVE  /\ messages' \subseteq [conversation : 1..MaxConversations, batch : Files!Batches]
           /\ uploads' \in [Files!Batches -> UploadRow]
           /\ uploads'[b].status = "confirmed"
           /\ uploads'[b].conversation = uploads[b].conversation
           /\ \A d \in Files!Batches \ {b} : uploads'[d] = uploads[d]
           /\ TablesInv'
<1> DEFINE m == [conversation |-> uploads[b].conversation, batch |-> b]
<1>1. /\ uploads \in [Files!Batches -> UploadRow] /\ uploads[b].conversation \in 1..MaxConversations
      /\ sender.batch \in Nat /\ b \in Nat
  BY FilesTyped DEF FilesInv, BatchesInv, UploadRow, Files!Batches
<1>2. m \in [conversation : 1..MaxConversations, batch : Files!Batches]
      /\ m.conversation = uploads[b].conversation /\ m.batch = b
  BY <1>1
<1>3. messages' = messages \union {m}
  OBVIOUS
<1> HIDE DEF m
<1>4. messages' \subseteq [conversation : 1..MaxConversations, batch : Files!Batches]
  BY <1>2, <1>3 DEF FilesInv, Files!TypeOK
<1>5. /\ uploads' \in [Files!Batches -> UploadRow] /\ uploads'[b].status = "confirmed"
      /\ uploads'[b].conversation = uploads[b].conversation
      /\ \A d \in Files!Batches \ {b} : uploads'[d] = uploads[d]
  <2>1. /\ Files!Confirmed(uploads[b]) \in UploadRow
        /\ Files!Confirmed(uploads[b]).status = "confirmed"
        /\ Files!Confirmed(uploads[b]).conversation = uploads[b].conversation
    BY <1>1 DEF Files!Confirmed, UploadRow
  <2> QED  BY <1>1, <2>1
<1>6. \A n \in messages : n.conversation # m.conversation /\ n.batch # m.batch
  BY <1>2 DEF Files!Unique, Files!Stored
<1>7. TablesInv'
  <2>1. \A n, o \in messages' : n.batch = o.batch \/ n.conversation = o.conversation => n = o
    BY <1>3, <1>6 DEF FilesInv, TablesInv, Files!OncePerConversation
  <2>2. \A d \in Files!Batches : uploads'[d].status = "confirmed" <=> \E n \in messages' : n.batch = d
    BY <1>2, <1>3, <1>5 DEF FilesInv, TablesInv
  <2> QED  BY <2>1, <2>2 DEF TablesInv, Files!OncePerConversation
<1> QED  BY <1>4, <1>5, <1>7

LEMMA FinalizeCommitInv ==
    ASSUME Files!AttachmentsAssumption, FilesInv, NEW r \in Files!Completes,
           NEW answered \in BOOLEAN,
           Files!FinalizeCommit(r, answered)
    PROVE  FilesInv'
<1> DEFINE b == complete[r].batch
<1>1. /\ complete[r].pc = "commit" /\ complete[r].pc \in Files!InService /\ ~complete[r].shortcut
      /\ b \notin overlapped =>
            Files!ObjectsOf(b) \subseteq stored /\ uploads[b].status # "confirmed"
      /\ UNCHANGED <<actor, sender, conversation, open, stored, cancel, withdrawn>>
      /\ b \in Files!Batches /\ complete[r] \in CompleteRow
  BY RequestFacts DEF Files!FinalizeCommit, Files!At, Files!InService, Validated, Harmless
<1>2. CASE ~Files!Unique(b)
  <2>1. /\ "cleanup" \in Files!InService /\ Files!Goto(r, "cleanup")
        /\ UNCHANGED <<Files!database, Files!history>>
    BY <1>1, <1>2 DEF Files!FinalizeCommit, Files!InService, Files!history
  <2> QED  BY <1>1, <2>1, GotoStep
<1>3. CASE Files!Unique(b)
  <2> DEFINE t == [complete[r] EXCEPT !.pc = IF answered THEN "succeeded" ELSE "cleanup"]
  <2>1. /\ messages' = messages \union {[conversation |-> uploads[b].conversation, batch |-> b]}
        /\ uploads' = [uploads EXCEPT ![b] = Files!Confirmed(uploads[b])]
        /\ overlapped' = IF answered THEN overlapped ELSE overlapped \union {b}
    BY <1>3 DEF Files!FinalizeCommit
  <2>2. complete' = [complete EXCEPT ![r] = t]
    BY <1>3, FilesTyped DEF Files!FinalizeCommit, Files!Goto
  <2>3. /\ t \in CompleteRow /\ t.batch = b /\ ~t.shortcut
        /\ t.pc = IF answered THEN "succeeded" ELSE "cleanup"
    BY <1>1 DEF CompleteRow, Files!InService
  <2> HIDE DEF t
  <2>4. /\ complete' \in [Files!Completes -> CompleteRow] /\ complete'[r] = t
        /\ \A q \in Files!Completes \ {r} : complete'[q] = complete[q]
    BY <2>2, <2>3, FilesTyped
  <2>5. b <= sender.batch /\ sender.batch \in Nat /\ b \in Nat
    BY <1>1, FilesTyped DEF FilesInv, BatchesInv
  <2>6. /\ messages' \subseteq [conversation : 1..MaxConversations, batch : Files!Batches]
        /\ uploads' \in [Files!Batches -> UploadRow]
        /\ uploads'[b].status = "confirmed"
        /\ uploads'[b].conversation = uploads[b].conversation
        /\ \A d \in Files!Batches \ {b} : uploads'[d] = uploads[d]
        /\ TablesInv'
    BY <1>1, <1>3, <2>1, <2>5, NewMessage
  <2>7. Files!TypeOK'
    BY <1>1, <2>1, <2>4, <2>6 DEF FilesInv, Files!TypeOK, UploadRow, CompleteRow
  <2>8. BatchesInv'
    <3>1. \A d \in Files!Batches : IF d > sender.batch THEN uploads'[d].status = "none"
                             ELSE uploads'[d].conversation >= 1
      BY <1>1, <2>5, <2>6 DEF FilesInv, BatchesInv
    <3>2. \A q \in Files!Completes : complete'[q].pc # "none" => complete'[q].batch \in 1..sender.batch
      BY <1>1, <2>3, <2>4 DEF FilesInv, BatchesInv
    <3> QED  BY <1>1, <3>1, <3>2 DEF FilesInv, BatchesInv
  <2>9. ShortcutInv'
    <3>1. \A q \in Files!Completes : complete[q].shortcut => complete[q].batch \in Files!Batches
      BY FilesTyped DEF FilesInv, ShortcutInv
    <3> QED  BY <2>3, <2>4, <2>6, <3>1 DEF FilesInv, ShortcutInv
  <2>10. WithdrawnInv'
    <3>1. b \notin withdrawn
      BY <1>1 DEF FilesInv, WithdrawnInv, Files!Committing
    <3>2. withdrawn \subseteq Files!Batches
      BY DEF FilesInv, Files!TypeOK
    <3> QED  BY <1>1, <2>3, <2>4, <2>6, <3>1, <3>2 DEF FilesInv, WithdrawnInv, Files!Committing
  <2>11. AloneInv'
    <3> SUFFICES ASSUME NEW d \in Files!Batches \ overlapped' PROVE Alone(d)'
      BY DEF AloneInv
    <3>1. Alone(d) /\ d \notin overlapped /\ (d = b => answered)
      BY <2>1 DEF FilesInv, AloneInv
    <3>2. CASE d = b
      <4>1. \A p \in Files!Completes \ {r} : ~InProgress(p, d)
        BY <1>1, <3>1, <3>2 DEF Alone, InProgress
      <4>2. \A p \in Files!Completes : ~InProgress(p, d)'
        BY <2>3, <2>4, <3>1, <3>2, <4>1 DEF InProgress, Files!InService
      <4>3. \A p \in Files!Completes : ~(complete'[p].batch = d /\ Validated(complete'[p]))
        BY <4>2 DEF Validated, InProgress, Files!InService
      <4>4. \A q \in Files!Cancels : ~(cancel[q].batch = d /\ cancel[q].pc \in Files!InCancel)
        BY <1>1, <3>1, <3>2 DEF Alone, InProgress
      <4>5. Files!ObjectsOf(d) \subseteq stored' /\ UNCHANGED cancel
        BY <1>1, <3>1, <3>2
      <4> QED  BY <4>2, <4>3, <4>4, <4>5 DEF Alone, Files!InCancel
    <3>3. CASE d # b
      <4>1. \A p \in Files!Completes : complete'[p].batch = d => complete'[p] = complete[p]
        BY <2>3, <2>4, <3>3
      <4> QED  BY <1>1, <2>6, <3>1, <3>3, <4>1, StillAlone
    <3> QED  BY <3>2, <3>3
  <2> QED  BY <2>6, <2>7, <2>8, <2>9, <2>10, <2>11 DEF FilesInv
<1> QED  BY <1>2, <1>3
-----------------------------------------------------------------------------
(* Steps of a cancel request. *)

\* A cancel request of batch b moves on; it deletes what it has read of b.
LEMMA CancelStep ==
    ASSUME Files!AttachmentsAssumption, FilesInv, NEW r \in Files!Cancels, NEW t \in CancelRow,
           NEW b, b = cancel[r].batch,
           cancel[r].pc \in Files!InCancel, cancel' = [cancel EXCEPT ![r] = t],
           t.batch = b, t.pc \in Files!InCancel \union {"ended"}, t.keys \subseteq Files!ObjectsOf(b),
           RowsKept,
           UNCHANGED <<actor, sender, messages, complete, overlapped>>,
           \/ UNCHANGED <<conversation, open>>
           \/ conversation' \in 1..MaxConversations /\ open' = TRUE,
           stored' \subseteq stored, \A o \in stored \ stored' : o \in cancel[r].keys,
           stored' # stored => cancel[r].pc = "delete",
           \/ withdrawn' = withdrawn
           \/ /\ withdrawn' = withdrawn \union {b}
              /\ uploads'[b].status = "cancelled" /\ ~Files!Committing(b),
           uploads[b].status = "confirmed" /\ t.pc \in {"update", "delete"} =>
               t.keys = {} \/ (cancel[r].pc \in {"update", "delete"} /\ t.keys = cancel[r].keys)
    PROVE  FilesInv'
<1>1. /\ b \in Files!Batches /\ cancel' \in [Files!Cancels -> CancelRow] /\ cancel'[r] = t
      /\ \A q \in Files!Cancels \ {r} : cancel'[q] = cancel[q]
      /\ withdrawn' \subseteq Files!Batches
  BY FilesTyped DEF Files!InCancel, FilesInv, Files!TypeOK
<1>2. Files!TypeOK'
  BY <1>1 DEF FilesInv, Files!TypeOK, RowsKept, UploadRow, CancelRow
<1>3. BatchesInv'
  BY <1>1, FilesTyped DEF FilesInv, BatchesInv, RowsKept, Files!InCancel
<1>4. TablesInv'
  BY DEF FilesInv, TablesInv, Files!OncePerConversation, RowsKept
<1>5. ShortcutInv'
  <2>1. \A q \in Files!Completes : complete[q].shortcut => complete[q].batch \in Files!Batches
    BY FilesTyped DEF FilesInv, ShortcutInv
  <2> QED  BY <2>1 DEF FilesInv, ShortcutInv, RowsKept
<1>6. WithdrawnInv'
  BY <1>1 DEF FilesInv, WithdrawnInv, Files!Committing, RowsKept, Files!TypeOK
<1>7. AloneInv'
  <2> SUFFICES ASSUME NEW d \in Files!Batches \ overlapped' PROVE Alone(d)'
    BY DEF AloneInv
  <2>0. Alone(d)
    BY DEF FilesInv, AloneInv
  <2>3. CASE d = b
    <3>1. \A p \in Files!Completes : ~InProgress(p, d)'
      BY <2>0, <2>3 DEF Alone, InProgress
    <3>2. \A p \in Files!Completes : ~(complete'[p].batch = d /\ Validated(complete'[p]))
      BY <3>1 DEF Validated, InProgress, Files!InService
    <3>3. CASE uploads'[d].status # "confirmed"
      BY <3>1, <3>2, <3>3 DEF Alone
    <3>4. CASE uploads'[d].status = "confirmed"
      <4>1. /\ uploads[d].status = "confirmed" /\ Files!ObjectsOf(d) \subseteq stored
            /\ \A q \in Files!Cancels : cancel[q].batch = d /\ cancel[q].pc \in {"update", "delete"}
                                      => cancel[q].keys = {}
        BY <2>0, <3>4 DEF Alone, RowsKept
      <4>2. Files!ObjectsOf(d) \subseteq stored'
        BY <2>3, <4>1
      <4>3. \A q \in Files!Cancels : cancel'[q].batch = d /\ cancel'[q].pc \in {"update", "delete"}
                                   => cancel'[q].keys = {}
        BY <1>1, <2>3, <4>1
      <4> QED  BY <3>1, <3>2, <4>2, <4>3 DEF Alone
    <3> QED  BY <3>3, <3>4
  <2>4. CASE d # b
    <3>1. \A o \in Files!ObjectsOf(d) : o \notin cancel[r].keys
      BY <2>4 DEF Files!ObjectsOf, FilesInv, BatchesInv
    <3>2. Files!ObjectsOf(d) \subseteq stored => Files!ObjectsOf(d) \subseteq stored'
      BY <3>1
    <3>3. \A q \in Files!Cancels : cancel'[q].batch = d => cancel'[q] = cancel[q]
      BY <1>1, <2>4
    <3>4. uploads'[d].status = "confirmed" => uploads[d].status = "confirmed"
      BY DEF RowsKept
    <3> QED  BY <2>0, <3>2, <3>3, <3>4, StillAlone
  <2> QED  BY <2>3, <2>4
<1> QED  BY <1>2, <1>3, <1>4, <1>5, <1>6, <1>7 DEF FilesInv

LEMMA CancelFacts ==
    ASSUME Files!AttachmentsAssumption, FilesInv, NEW r \in Files!Cancels,
           cancel[r].pc \in Files!InCancel
    PROVE  /\ cancel[r] \in CancelRow /\ cancel[r].batch \in Files!Batches
           /\ uploads[cancel[r].batch] \in UploadRow
           /\ cancel[r].keys \subseteq Files!ObjectsOf(cancel[r].batch)
           /\ Files!ObjectsOf(cancel[r].batch) \subseteq Files!Objects
  BY FilesTyped DEF FilesInv, BatchesInv, Files!InCancel, Files!Objects, Files!ObjectsOf

\* The conversation that is ensured.
LEMMA TargetFact ==
    ASSUME Files!AttachmentsAssumption, FilesInv PROVE Files!Target \in 1..MaxConversations
BY FilesTyped DEF Files!Target, FilesInv, Files!TypeOK, BatchesInv

LEMMA CancelResolveInv ==
    ASSUME Files!AttachmentsAssumption, FilesInv, NEW r \in Files!Cancels,
           Files!CancelResolve(r) PROVE FilesInv'
<1> DEFINE b == cancel[r].batch
           t == [cancel[r] EXCEPT !.pc = "select"]
<1>1. /\ cancel[r].pc = "resolve" /\ cancel[r].pc \in Files!InCancel
      /\ conversation' = Files!Target /\ open' = TRUE
      /\ UNCHANGED <<actor, sender, Files!database, stored, complete, Files!history>>
  BY DEF Files!CancelResolve, Files!InCancel
<1>2. t \in CancelRow /\ t.batch = b /\ t.pc = "select" /\ t.keys = cancel[r].keys
      /\ t.keys \subseteq Files!ObjectsOf(b)
  BY <1>1, CancelFacts DEF CancelRow, Files!InCancel
<1>3. cancel' = [cancel EXCEPT ![r] = t]
  BY FilesTyped DEF Files!CancelResolve
<1>4. /\ RowsKept /\ withdrawn' = withdrawn /\ stored' \subseteq stored /\ stored' = stored
      /\ UNCHANGED <<actor, sender, messages, complete, overlapped>>
      /\ conversation' \in 1..MaxConversations
  BY <1>1, RowsUnchanged, TargetFact DEF Files!database, Files!history
<1>5. t.pc \in Files!InCancel \union {"ended"} /\ ~(t.pc \in {"update", "delete"})
  BY <1>2 DEF Files!InCancel
<1> HIDE DEF t, b
<1> QED  BY <1>1, <1>2, <1>3, <1>4, <1>5, CancelStep DEF b

LEMMA CancelSelectInv ==
    ASSUME Files!AttachmentsAssumption, FilesInv, NEW r \in Files!Cancels,
           Files!CancelSelect(r) PROVE FilesInv'
<1> DEFINE b == cancel[r].batch
           t == [cancel[r] EXCEPT !.pc = "update", !.keys = Files!Keys(b)]
<1>1. /\ cancel[r].pc \in Files!InCancel
      /\ UNCHANGED <<actor, sender, conversation, open, Files!database,
                     stored, complete, Files!history>>
  BY DEF Files!CancelSelect, Files!InCancel
<1>2. /\ Files!Keys(b) \subseteq Files!ObjectsOf(b)
      /\ (uploads[b].status = "confirmed" => Files!Keys(b) = {})
  BY DEF Files!Keys, Files!Active
<1>3. t \in CancelRow /\ t.batch = b /\ t.pc = "update" /\ t.keys = Files!Keys(b)
  BY <1>1, <1>2, CancelFacts DEF CancelRow, Files!InCancel
<1>6. t.pc \in Files!InCancel \union {"ended"}
  BY <1>3 DEF Files!InCancel
<1>4. cancel' = [cancel EXCEPT ![r] = t]
  BY FilesTyped DEF Files!CancelSelect
<1>5. /\ RowsKept /\ withdrawn' = withdrawn /\ stored' \subseteq stored /\ stored' = stored
      /\ UNCHANGED <<actor, sender, conversation, open, messages, complete, overlapped>>
  BY <1>1, RowsUnchanged DEF Files!database, Files!history
<1> HIDE DEF t, b
<1> QED  BY <1>1, <1>2, <1>3, <1>4, <1>5, <1>6, CancelStep DEF b

LEMMA CancelUpdateInv ==
    ASSUME Files!AttachmentsAssumption, FilesInv, NEW r \in Files!Cancels,
           Files!CancelUpdate(r) PROVE FilesInv'
<1> DEFINE b == cancel[r].batch
           t == [cancel[r] EXCEPT !.pc = "delete"]
<1>1. /\ cancel[r].pc = "update" /\ cancel[r].pc \in Files!InCancel
      /\ uploads' = [uploads EXCEPT ![b] = Files!Cancelled(uploads[b])]
      /\ UNCHANGED <<actor, sender, conversation, open, stored, messages, complete, overlapped>>
      /\ b \in Files!Batches /\ uploads[b] \in UploadRow
  BY CancelFacts DEF Files!CancelUpdate, Files!InCancel
<1>2. t \in CancelRow /\ t.batch = b /\ t.pc = "delete" /\ t.keys = cancel[r].keys
      /\ t.keys \subseteq Files!ObjectsOf(b)
  BY <1>1, CancelFacts DEF CancelRow, Files!InCancel
<1>3. cancel' = [cancel EXCEPT ![r] = t]
  BY FilesTyped DEF Files!CancelUpdate
<1>4. /\ Files!Cancelled(uploads[b]) \in UploadRow
      /\ Files!Cancelled(uploads[b]).conversation = uploads[b].conversation
      /\ Files!Active(uploads[b]) => Files!Cancelled(uploads[b]).status = "cancelled"
      /\ ~Files!Active(uploads[b]) => Files!Cancelled(uploads[b]) = uploads[b]
  <2>1. CASE Files!Active(uploads[b])
    BY <1>1, <2>1 DEF Files!Cancelled, UploadRow
  <2>2. CASE ~Files!Active(uploads[b])
    <3>1. Files!Cancelled(uploads[b]) = uploads[b]
      BY <2>2 DEF Files!Cancelled
    <3> QED  BY <1>1, <2>2, <3>1
  <2> QED  BY <2>1, <2>2
<1>5. RowsKept
  BY <1>1, <1>4, FilesTyped DEF RowsKept, Files!Active
<1>6. \/ withdrawn' = withdrawn
      \/ /\ withdrawn' = withdrawn \union {b}
         /\ uploads'[b].status = "cancelled" /\ ~Files!Committing(b)
  BY <1>1, <1>4, FilesTyped DEF Files!CancelUpdate
<1>7. stored' = stored
  BY <1>1
<1>8. t.pc \in Files!InCancel \union {"ended"}
  BY <1>2 DEF Files!InCancel
<1> HIDE DEF t, b
<1> QED  BY <1>1, <1>2, <1>3, <1>5, <1>6, <1>7, <1>8, CancelStep DEF b

\* The end of a cancel request, whether or not it has deleted its keys.
LEMMA CancelEnds ==
    ASSUME Files!AttachmentsAssumption, FilesInv, NEW r \in Files!Cancels,
           cancel[r].pc \in Files!InCancel,
           cancel' = [cancel EXCEPT ![r].pc = "ended", ![r].keys = {}],
           UNCHANGED <<actor, sender, conversation, open, Files!database, complete, Files!history>>,
           stored' = stored \/ (cancel[r].pc = "delete" /\ stored' = stored \ cancel[r].keys)
    PROVE  FilesInv'
<1> DEFINE b == cancel[r].batch
           t == [cancel[r] EXCEPT !.pc = "ended", !.keys = {}]
<1>1. t \in CancelRow /\ t.batch = b /\ t.pc = "ended" /\ t.keys \subseteq Files!ObjectsOf(b)
  BY CancelFacts DEF CancelRow, Files!InCancel
<1>2. cancel' = [cancel EXCEPT ![r] = t]
  BY FilesTyped
<1>3. /\ RowsKept /\ withdrawn' = withdrawn
      /\ UNCHANGED <<actor, sender, conversation, open, messages, complete, overlapped>>
  BY RowsUnchanged DEF Files!database, Files!history
<1>4. /\ stored' \subseteq stored /\ \A o \in stored \ stored' : o \in cancel[r].keys
      /\ stored' # stored => cancel[r].pc = "delete"
  OBVIOUS
<1> HIDE DEF t, b
<1> QED  BY <1>1, <1>2, <1>3, <1>4, CancelStep DEF b

LEMMA CancelEndsInv ==
    ASSUME Files!AttachmentsAssumption, FilesInv, NEW r \in Files!Cancels,
           Files!CancelDelete(r) \/ Files!CancelBreak(r)
    PROVE  FilesInv'
<1>1. CASE Files!CancelDelete(r)
  BY <1>1, CancelEnds DEF Files!CancelDelete, Files!InCancel
<1>2. CASE Files!CancelBreak(r)
  BY <1>2, CancelEnds DEF Files!CancelBreak
<1> QED  BY <1>1, <1>2
-----------------------------------------------------------------------------
(* The client, the conversation and the clock. *)

\* A step that leaves the requests alone, and loses no object.
LEMMA QuietStep ==
    ASSUME Files!AttachmentsAssumption, FilesInv, RowsKept,
           sender' \in SenderRow, sender'.batch = sender.batch,
           sender'.phase # "composing" => sender.phase # "composing",
           open' \in BOOLEAN, ~open' => conversation < MaxConversations,
           stored \subseteq stored', stored' \subseteq Files!Objects,
           UNCHANGED <<actor, conversation, messages, Files!requests, Files!history>>
    PROVE  FilesInv'
<1>0. UNCHANGED <<complete, cancel, overlapped, withdrawn>>
  BY DEF Files!requests, Files!history
<1>1. Files!TypeOK'
  BY <1>0 DEF FilesInv, Files!TypeOK, RowsKept, UploadRow, SenderRow
<1>2. BatchesInv'
  BY <1>0 DEF FilesInv, BatchesInv, RowsKept
<1>3. TablesInv'
  BY DEF FilesInv, TablesInv, Files!OncePerConversation, RowsKept
<1>4. ShortcutInv'
  <2>1. \A q \in Files!Completes : complete[q].shortcut => complete[q].batch \in Files!Batches
    BY FilesTyped DEF FilesInv, ShortcutInv
  <2> QED  BY <1>0, <2>1 DEF FilesInv, ShortcutInv, RowsKept
<1>5. WithdrawnInv'
  BY <1>0 DEF FilesInv, WithdrawnInv, Files!Committing, RowsKept, Files!TypeOK
<1>6. AloneInv'
  BY <1>0 DEF FilesInv, AloneInv, Alone, InProgress, RowsKept
<1> QED  BY <1>1, <1>2, <1>3, <1>4, <1>5, <1>6 DEF FilesInv

LEMMA QuietInv ==
    ASSUME Files!AttachmentsAssumption, FilesInv,
           \/ Files!EndConversation
           \/ \E f \in Slots : Files!Put(f)
           \/ \E b \in Files!Batches : Files!Expire(b)
           \/ \E r \in Files!Completes : Files!Succeeds(r)
    PROVE  FilesInv'
<1>1. CASE Files!EndConversation
  <2>1. RowsKept
    BY <1>1, RowsUnchanged DEF Files!EndConversation, Files!database
  <2>2. sender \in SenderRow /\ stored \subseteq Files!Objects
    BY FilesTyped DEF FilesInv, Files!TypeOK
  <2> QED  BY <1>1, <2>1, <2>2, QuietStep DEF Files!EndConversation, Files!database
<1>2. ASSUME NEW f \in Slots, Files!Put(f) PROVE FilesInv'
  <2>1. RowsKept /\ UNCHANGED <<actor, conversation, open, messages, Files!requests, Files!history>>
    BY <1>2, RowsUnchanged DEF Files!Put, Files!database
  <2>2. sender.batch \in Files!Batches /\ sender.batch \in 0..MaxBatches
    BY <1>2, FilesTyped DEF Files!Put, FilesInv, BatchesInv, Files!Batches
  <2>3. /\ sender' \in SenderRow /\ sender'.batch = sender.batch /\ sender'.phase = sender.phase
    BY <1>2, FilesTyped DEF Files!Put, SenderRow
  <2>4. stored \subseteq stored' /\ stored' \subseteq Files!Objects
    BY <1>2, <2>2 DEF Files!Put, FilesInv, Files!TypeOK, Files!Objects
  <2>5. open' \in BOOLEAN /\ (~open' => conversation < MaxConversations)
    BY <2>1 DEF FilesInv, Files!TypeOK, BatchesInv
  <2> QED  BY <2>1, <2>3, <2>4, <2>5, QuietStep
<1>3. ASSUME NEW b \in Files!Batches, Files!Expire(b) PROVE FilesInv'
  <2>1. /\ uploads' = [uploads EXCEPT ![b].expired = TRUE]
        /\ UNCHANGED <<actor, sender, conversation, open,
                       stored, messages, Files!requests, Files!history>>
    BY <1>3 DEF Files!Expire
  <2>2. RowsKept
    BY <2>1, FilesTyped DEF RowsKept, UploadRow
  <2>3. /\ sender \in SenderRow /\ stored \subseteq Files!Objects
        /\ open \in BOOLEAN /\ (~open => conversation < MaxConversations)
    BY FilesTyped DEF FilesInv, Files!TypeOK, BatchesInv
  <2> QED  BY <2>1, <2>2, <2>3, QuietStep
<1>4. ASSUME NEW r \in Files!Completes, Files!Succeeds(r) PROVE FilesInv'
  <2>1. /\ RowsKept
        /\ UNCHANGED <<actor, conversation, open, stored, messages, Files!requests, Files!history>>
        /\ sender.phase = "confirming"
    BY <1>4, RowsUnchanged DEF Files!Succeeds, Files!database
  <2>2. /\ sender' \in SenderRow /\ sender'.batch = sender.batch
    BY <1>4, FilesTyped DEF Files!Succeeds, SenderRow
  <2>3. /\ stored \subseteq Files!Objects
        /\ open \in BOOLEAN /\ (~open => conversation < MaxConversations)
    BY DEF FilesInv, Files!TypeOK, BatchesInv
  <2> QED  BY <2>1, <2>2, <2>3, QuietStep
<1> QED  BY <1>1, <1>2, <1>3, <1>4

\* A complete request of a batch that was made comes in.
LEMMA ReceiveInv ==
    ASSUME Files!AttachmentsAssumption, FilesInv, NEW r \in Files!Completes,
           NEW b \in 1..sender.batch,
           Files!Receive(r, b),
           sender' \in SenderRow, sender'.batch = sender.batch, sender.batch >= 1,
           UNCHANGED <<actor, conversation, open, Files!database, stored, cancel, withdrawn>>
    PROVE  FilesInv'
<1> DEFINE t == [pc |-> "check", batch |-> b, shortcut |-> FALSE]
<1>1. b \in Files!Batches /\ b \in 0..MaxBatches
  BY FilesTyped DEF Files!Batches
<1>2. t \in CompleteRow /\ t.pc = "check" /\ t.batch = b /\ ~t.shortcut
  BY <1>1 DEF CompleteRow, Files!InService
<1>3. complete' = [complete EXCEPT ![r] = t] /\ complete[r].pc = "none"
  BY DEF Files!Receive, Files!Free
<1> HIDE DEF t
<1>4. /\ complete' \in [Files!Completes -> CompleteRow] /\ complete'[r] = t
      /\ \A q \in Files!Completes \ {r} : complete'[q] = complete[q]
  BY <1>2, <1>3, FilesTyped
<1>5. UNCHANGED <<uploads, messages>>
  BY DEF Files!database
<1>6. overlapped' = IF Files!Completing(b) \/ Files!Cancelling(b)
                    THEN overlapped \union {b} ELSE overlapped
  BY DEF Files!Receive
<1>7. Files!TypeOK'
  BY <1>1, <1>4, <1>5, <1>6 DEF FilesInv, Files!TypeOK, CompleteRow, SenderRow
<1>8. BatchesInv'
  BY <1>2, <1>4, <1>5 DEF FilesInv, BatchesInv
<1>9. TablesInv'
  BY <1>5 DEF FilesInv, TablesInv, Files!OncePerConversation
<1>10. ShortcutInv'
  BY <1>2, <1>4, <1>5 DEF FilesInv, ShortcutInv
<1>11. WithdrawnInv'
  BY <1>2, <1>4, <1>5 DEF FilesInv, WithdrawnInv, Files!Committing
<1>12. AloneInv'
  <2> SUFFICES ASSUME NEW d \in Files!Batches \ overlapped' PROVE Alone(d)'
    BY DEF AloneInv
  <2>1. Alone(d) /\ (d = b => ~Files!Completing(b) /\ ~Files!Cancelling(b))
    BY <1>6 DEF FilesInv, AloneInv
  <2>2. ~Validated(t) /\ Harmless(t)
    BY <1>2 DEF Validated, Harmless
  <2>3. CASE d = b
    <3>1. \A p \in Files!Completes : InProgress(p, d)' => p = r
      BY <1>4, <2>1, <2>3 DEF InProgress, Files!Completing
    <3>2. \A q \in Files!Cancels : ~(cancel[q].batch = d /\ cancel[q].pc \in Files!InCancel)
      BY <2>1, <2>3 DEF Files!Cancelling
    <3>3. \A p \in Files!Completes : complete'[p].batch = d /\ Validated(complete'[p])
                                   => complete[p].batch = d /\ Validated(complete[p])
      BY <1>4, <2>2
    <3> QED  BY <1>4, <1>5, <2>1, <2>2, <3>1, <3>2, <3>3 DEF Alone, Files!InCancel
  <2>4. CASE d # b
    <3>1. \A p \in Files!Completes : complete'[p].batch = d => complete'[p] = complete[p]
      BY <1>2, <1>4, <2>4
    <3> QED  BY <1>5, <2>1, <3>1, StillAlone
  <2> QED  BY <2>3, <2>4
<1> QED  BY <1>7, <1>8, <1>9, <1>10, <1>11, <1>12 DEF FilesInv

\* A cancel request of the sender's batch may be sent, when the sender has
\* stopped or goes on; an object of the batch may have arrived.
LEMMA SendCancelInv ==
    ASSUME Files!AttachmentsAssumption, FilesInv, sender.batch >= 1, Files!SendCancel(sender.batch),
           sender' \in SenderRow, sender'.batch = sender.batch,
           stored \subseteq stored', stored' \subseteq Files!Objects,
           UNCHANGED <<actor, conversation, open, Files!database, complete, withdrawn>>
    PROVE  FilesInv'
<1> DEFINE b == sender.batch
<1>1. b \in Files!Batches /\ b \in 0..MaxBatches
  BY FilesTyped DEF Files!Batches
<1>2. RowsKept /\ UNCHANGED <<uploads, messages>>
  BY RowsUnchanged DEF Files!database
<1>3. CASE UNCHANGED <<cancel, overlapped>>
  <2>1. Files!TypeOK'
    BY <1>2, <1>3 DEF FilesInv, Files!TypeOK, SenderRow
  <2>2. BatchesInv'
    BY <1>2, <1>3 DEF FilesInv, BatchesInv
  <2>3. TablesInv' /\ ShortcutInv' /\ WithdrawnInv'
    BY <1>2, <1>3 DEF FilesInv, TablesInv, Files!OncePerConversation, ShortcutInv, WithdrawnInv,
       Files!Committing
  <2>4. AloneInv'
    BY <1>2, <1>3 DEF FilesInv, AloneInv, Alone, InProgress
  <2> QED  BY <2>1, <2>2, <2>3, <2>4 DEF FilesInv
<1>4. ASSUME NEW r \in Files!Cancels, Files!Free(cancel, r),
             cancel' = [cancel EXCEPT ![r] = [pc |-> Files!CancelStart, batch |-> b, keys |-> {}]],
             overlapped' = IF Files!Completing(b) THEN overlapped \union {b} ELSE overlapped
      PROVE  FilesInv'
  <2> DEFINE t == [pc |-> Files!CancelStart, batch |-> b, keys |-> {}]
  <2>1. t \in CancelRow /\ t.pc \in {"resolve", "select"} /\ t.batch = b /\ t.keys = {}
    BY <1>1 DEF CancelRow, Files!InCancel, Files!CancelStart
  <2>2. cancel' = [cancel EXCEPT ![r] = t]
    BY <1>4
  <2> HIDE DEF t
  <2>3. /\ cancel' \in [Files!Cancels -> CancelRow] /\ cancel'[r] = t
        /\ \A q \in Files!Cancels \ {r} : cancel'[q] = cancel[q]
    BY <2>1, <2>2, FilesTyped
  <2>4. Files!TypeOK'
    BY <1>1, <1>2, <1>4, <2>3 DEF FilesInv, Files!TypeOK, CancelRow, SenderRow
  <2>5. BatchesInv'
    BY <1>1, <1>2, <2>1, <2>3, FilesTyped DEF FilesInv, BatchesInv
  <2>6. TablesInv' /\ ShortcutInv' /\ WithdrawnInv'
    BY <1>2 DEF FilesInv, TablesInv, Files!OncePerConversation, ShortcutInv, WithdrawnInv,
       Files!Committing
  <2>7. AloneInv'
    <3> SUFFICES ASSUME NEW d \in Files!Batches \ overlapped' PROVE Alone(d)'
      BY DEF AloneInv
    <3>1. Alone(d) /\ (d = b => ~Files!Completing(b))
      BY <1>4 DEF FilesInv, AloneInv
    <3>2. d = b => \A p \in Files!Completes : ~InProgress(p, d)
      BY <3>1 DEF Files!Completing, InProgress
    <3>3. \A q \in Files!Cancels : cancel'[q].batch = d /\ cancel'[q].pc \in Files!InCancel =>
              d = b \/ (cancel[q].batch = d /\ cancel[q].pc \in Files!InCancel)
      BY <2>1, <2>3
    <3>4. \A q \in Files!Cancels : cancel'[q].batch = d /\ cancel'[q].pc \in {"update", "delete"} =>
              cancel'[q] = cancel[q]
      BY <2>1, <2>3
    <3> QED  BY <1>2, <3>1, <3>2, <3>3, <3>4 DEF Alone, InProgress
  <2> QED  BY <2>4, <2>5, <2>6, <2>7 DEF FilesInv
<1> QED  BY <1>3, <1>4 DEF Files!SendCancel

LEMMA ClientInv ==
    ASSUME Files!AttachmentsAssumption, FilesInv,
           \/ Files!CancelButton \/ Files!Fails
           \/ \E f \in Slots, arrived \in BOOLEAN : Files!PutFails(f, arrived)
           \/ \E r \in Files!Completes :
                 Files!SendComplete(r) \/ \E q \in Files!Completes : Files!Redeliver(r, q)
    PROVE  FilesInv'
<1>0. /\ sender \in SenderRow /\ sender.batch \in 0..MaxBatches /\ MaxBatches \in Nat
      /\ sender.phase # "composing" => sender.batch >= 1
      /\ stored \subseteq Files!Objects
  BY FilesTyped DEF FilesInv, BatchesInv, Files!TypeOK
<1>1. CASE Files!CancelButton
  BY <1>0, <1>1, SendCancelInv DEF Files!CancelButton
<1>2. CASE Files!Fails
  <2>1. sender' \in SenderRow /\ sender'.batch = sender.batch
    BY <1>0, <1>2 DEF Files!Fails, Files!Failed, SenderRow
  <2> QED  BY <1>0, <1>2, <2>1, SendCancelInv DEF Files!Fails, Files!Failed
<1>3. ASSUME NEW f \in Slots, NEW arrived \in BOOLEAN, Files!PutFails(f, arrived) PROVE FilesInv'
  <2>1. sender' \in SenderRow /\ sender'.batch = sender.batch
    BY <1>0, <1>3 DEF Files!PutFails, Files!Failed, SenderRow
  <2>2. sender.batch >= 1 /\ sender.batch \in Files!Batches
    BY <1>0, <1>3 DEF Files!PutFails, Files!Batches
  <2>3. stored \subseteq stored' /\ stored' \subseteq Files!Objects
    BY <1>0, <1>3, <2>2 DEF Files!PutFails, Files!Objects
  <2> QED  BY <1>3, <2>1, <2>2, <2>3, SendCancelInv DEF Files!PutFails, Files!Failed
<1>4. ASSUME NEW r \in Files!Completes, Files!SendComplete(r) PROVE FilesInv'
  <2>1. sender' \in SenderRow /\ sender'.batch = sender.batch
    BY <1>0, <1>4 DEF Files!SendComplete, SenderRow
  <2>2. sender.batch >= 1 /\ sender.batch \in 1..sender.batch
    BY <1>0, <1>4 DEF Files!SendComplete
  <2> QED  BY <1>4, <2>1, <2>2, ReceiveInv DEF Files!SendComplete
<1>5. ASSUME NEW r \in Files!Completes, NEW q \in Files!Completes,
             Files!Redeliver(r, q) PROVE FilesInv'
  <2>1. complete[q].batch \in 1..sender.batch
    BY <1>5 DEF Files!Redeliver, FilesInv, BatchesInv
  <2>2. sender.batch >= 1
    BY <1>0, <2>1
  <2> QED  BY <1>0, <1>5, <2>1, <2>2, ReceiveInv DEF Files!Redeliver
<1> QED  BY <1>1, <1>2, <1>3, <1>4, <1>5

\* Nothing knows of a new batch yet.
LEMMA InitiateInv ==
    ASSUME Files!AttachmentsAssumption, FilesInv, NEW b \in Files!Batches,
           Files!Initiate(b) PROVE FilesInv'
<1>1. /\ sender.phase = "composing" /\ b = sender.batch + 1
      /\ sender' = [phase |-> "uploading", batch |-> b, left |-> Slots]
      /\ uploads' = [uploads EXCEPT ![b] = [status |-> "pending", conversation |-> Files!Target,
                                            expired |-> FALSE]]
      /\ conversation' = Files!Target /\ open' = TRUE
      /\ UNCHANGED <<actor, stored, messages, complete, cancel, overlapped, withdrawn>>
  BY DEF Files!Initiate, Files!requests, Files!history
<1>2. /\ sender.batch \in Nat /\ b \in Nat /\ b \in 0..MaxBatches /\ MaxConversations \in Nat
      /\ uploads \in [Files!Batches -> UploadRow]
  BY <1>1, FilesTyped DEF Files!Batches
<1>3. Files!Target \in 1..MaxConversations
  BY TargetFact
<1>4. /\ uploads' \in [Files!Batches -> UploadRow]
      /\ uploads'[b].status = "pending" /\ uploads'[b].conversation = Files!Target
      /\ \A d \in Files!Batches \ {b} : uploads'[d] = uploads[d]
  <2> DEFINE row == [status |-> "pending", conversation |-> Files!Target, expired |-> FALSE]
  <2>1. row \in UploadRow /\ row.status = "pending" /\ row.conversation = Files!Target
    BY <1>2, <1>3 DEF UploadRow
  <2> HIDE DEF row
  <2>2. uploads' = [uploads EXCEPT ![b] = row]
    BY <1>1 DEF row
  <2> QED  BY <1>2, <2>1, <2>2
<1>5. uploads[b].status = "none"
  BY <1>1, <1>2 DEF FilesInv, BatchesInv
<1>6. Files!TypeOK'
  <2>1. sender' \in SenderRow
    BY <1>1, <1>2 DEF SenderRow
  <2> QED  BY <1>1, <1>3, <1>4, <2>1 DEF FilesInv, Files!TypeOK, SenderRow, UploadRow
<1>7. BatchesInv'
  <2>1. \A d \in Files!Batches : IF d > sender'.batch THEN uploads'[d].status = "none"
                           ELSE uploads'[d].conversation >= 1
    <3> TAKE d \in Files!Batches
    <3>1. d \in Nat
      BY DEF Files!Batches
    <3> QED  BY <1>1, <1>2, <1>3, <1>4, <3>1 DEF FilesInv, BatchesInv
  <2>2. 1..sender.batch \subseteq 1..sender'.batch /\ sender'.batch >= 1
    BY <1>1, <1>2
  <2> QED  BY <1>1, <2>1, <2>2 DEF FilesInv, BatchesInv
<1>8. TablesInv'
  BY <1>1, <1>4, <1>5 DEF FilesInv, TablesInv, Files!OncePerConversation
<1>9. \A r \in Files!Completes : complete[r].shortcut => complete[r].batch \in Files!Batches \ {b}
  BY <1>5, FilesTyped DEF FilesInv, ShortcutInv
<1>10. ShortcutInv'
  BY <1>1, <1>4, <1>9 DEF FilesInv, ShortcutInv
<1>11. WithdrawnInv'
  BY <1>1, <1>4, <1>5 DEF FilesInv, WithdrawnInv, Files!TypeOK, Files!Committing
<1>12. AloneInv'
  BY <1>1, <1>4, <1>5 DEF FilesInv, AloneInv, Alone, InProgress
<1> QED  BY <1>6, <1>7, <1>8, <1>10, <1>11, <1>12 DEF FilesInv
-----------------------------------------------------------------------------
LEMMA FilesStep == Files!AttachmentsAssumption /\ FilesInv /\ [Files!Next]_Files!vars => FilesInv'
<1> SUFFICES ASSUME Files!AttachmentsAssumption, FilesInv, [Files!Next]_Files!vars PROVE FilesInv'
  OBVIOUS
<1>1. CASE UNCHANGED Files!vars
  <2>1. UNCHANGED <<actor, sender, conversation, open, uploads, stored, messages, complete,
                    cancel, overlapped, withdrawn>>
    BY <1>1 DEF Files!vars
  <2>2. Files!TypeOK' /\ BatchesInv'
    BY <2>1 DEF FilesInv, Files!TypeOK, BatchesInv
  <2>3. TablesInv' /\ ShortcutInv' /\ WithdrawnInv'
    BY <2>1 DEF FilesInv, TablesInv, Files!OncePerConversation, ShortcutInv, WithdrawnInv,
       Files!Committing
  <2>4. AloneInv'
    BY <2>1 DEF FilesInv, AloneInv, Alone, InProgress
  <2> QED  BY <2>2, <2>3, <2>4 DEF FilesInv
<1>2. CASE \/ Files!EndConversation \/ Files!CancelButton \/ Files!Fails
           \/ \E f \in Slots : Files!Put(f) \/ \E arrived \in BOOLEAN : Files!PutFails(f, arrived)
           \/ \E b \in Files!Batches : Files!Expire(b) \/ Files!Initiate(b)
  BY <1>2, QuietInv, ClientInv, InitiateInv
<1>3. ASSUME NEW r \in Files!Completes,
             \/ Files!SendComplete(r) \/ Files!Succeeds(r)
             \/ \E q \in Files!Completes : Files!Redeliver(r, q)
             \/ Files!Check(r) \/ Files!Select(r) \/ Files!Validate(r) \/ Files!Mark(r)
             \/ Files!Break(r)
             \/ \E f \in Slots : Files!Reject(r, f)
             \/ Files!FinalizeLost(r) \/ Files!FinalizeCheck(r) \/ Files!Cleanup(r)
             \/ \E answered \in BOOLEAN : Files!FinalizeCommit(r, answered)
      PROVE  FilesInv'
  BY <1>3, ClientInv, QuietInv, CheckInv, SelectInv, ValidateInv, MarkInv, BreakInv, RejectInv,
     FinalizeLostInv, FinalizeCheckInv, CleanupInv, FinalizeCommitInv
<1>4. ASSUME NEW r \in Files!Cancels,
             \/ Files!CancelResolve(r) \/ Files!CancelSelect(r) \/ Files!CancelUpdate(r)
             \/ Files!CancelDelete(r) \/ Files!CancelBreak(r)
      PROVE  FilesInv'
  BY <1>4, CancelResolveInv, CancelSelectInv, CancelUpdateInv, CancelEndsInv
<1> QED  BY <1>1, <1>2, <1>3, <1>4 DEF Files!Next

\* A batch is confirmed exactly when a message has its uploads, and at most one
\* has.
LEMMA InvAttached == FilesInv => Files!ConfirmedIsAttached
<1> SUFFICES ASSUME FilesInv, NEW b \in Files!Batches
             PROVE  Files!Cardinality({m \in messages : m.batch = b}) <= 1
  BY DEF FilesInv, TablesInv, Files!ConfirmedIsAttached
<1> DEFINE S == {m \in messages : m.batch = b}
<1>1. Files!Cardinality(S) = Cardinality(S)
  BY DEF Files!Cardinality, Files!IsFiniteSet, Cardinality, IsFiniteSet
<1>2. CASE S = {}
  BY <1>1, <1>2, FS_EmptySet
<1>3. ASSUME NEW m \in S PROVE Files!Cardinality(S) <= 1
  <2>1. S = {m}
    BY DEF FilesInv, TablesInv
  <2>2. Cardinality({m}) = 1
    BY FS_Singleton
  <2> QED  BY <1>1, <2>1, <2>2
<1> QED  BY <1>2, <1>3

LEMMA InvStored == FilesInv => Files!AttachmentsAreStored
<1> SUFFICES ASSUME FilesInv, NEW m \in messages, m.batch \notin overlapped
             PROVE  Files!ObjectsOf(m.batch) \subseteq stored
  BY DEF Files!AttachmentsAreStored
<1>1. m.batch \in Files!Batches
  BY DEF FilesInv, Files!TypeOK
<1> QED  BY <1>1 DEF FilesInv, TablesInv, AloneInv, Alone

LEMMA InvStaysOut == FilesInv => Files!CancelledStaysOut
<1> SUFFICES ASSUME FilesInv, NEW m \in messages, m.batch \in withdrawn PROVE FALSE
  BY DEF Files!CancelledStaysOut
<1>1. m.batch \in Files!Batches
  BY DEF FilesInv, Files!TypeOK
<1> QED  BY <1>1 DEF FilesInv, TablesInv, WithdrawnInv
-----------------------------------------------------------------------------
\* The rows, the objects and the requests always fit together.
THEOREM FilesInvariance == ASSUME Files!AttachmentsAssumption PROVE Files!Spec => []FilesInv
<1>1. Files!Init => FilesInv
  BY FilesInit
<1>2. FilesInv /\ [Files!Next]_Files!vars => FilesInv'
  BY FilesStep
<1> QED  BY <1>1, <1>2, PTL DEF Files!Spec

\* Every variable keeps the type of the tables and of the handlers' variables.
THEOREM FilesTypeCorrect == ASSUME Files!AttachmentsAssumption PROVE Files!Spec => []Files!TypeOK
<1>1. FilesInv => Files!TypeOK
  BY DEF FilesInv
<1> QED  BY <1>1, FilesInvariance, PTL

\* Neither a late cancel nor a second finalize separates a message from its
\* confirmed uploads.
THEOREM Attached ==
    ASSUME Files!AttachmentsAssumption PROVE Files!Spec => []Files!ConfirmedIsAttached
  BY InvAttached, FilesInvariance, PTL

\* A message that is sent again and again, by attempts that overlap, is stored
\* once in a conversation.
THEOREM StoredOnce ==
    ASSUME Files!AttachmentsAssumption PROVE Files!Spec => []Files!OncePerConversation
<1>1. FilesInv => Files!OncePerConversation
  BY DEF FilesInv, TablesInv
<1> QED  BY <1>1, FilesInvariance, PTL

\* The objects of a message whose batch had one request at a time are there.
THEOREM ObjectsStay ==
    ASSUME Files!AttachmentsAssumption PROVE Files!Spec => []Files!AttachmentsAreStored
  BY InvStored, FilesInvariance, PTL

\* A batch that was cancelled before it was counted never becomes a message.
THEOREM StaysOut == ASSUME Files!AttachmentsAssumption PROVE Files!Spec => []Files!CancelledStaysOut
  BY InvStaysOut, FilesInvariance, PTL
-----------------------------------------------------------------------------
(***************************************************************************)
(* The same, next to the rest of the visitor's side.                       *)
(***************************************************************************)

LEMMA SideFiles == SideSpec => []FilesInv
<1>1. SideInit => FilesInv
  BY FilesInit, FilesConstants DEF SideInit
<1>2. FilesInv /\ [SideNext]_sideVars => FilesInv'
  BY FilesStep, SideKinds, FilesConstants
<1> QED  BY <1>1, <1>2, PTL DEF SideSpec

\* ConfirmedIsAttached: neither a late cancel nor a second finalize separates a
\* message from its confirmed uploads.
THEOREM ConfirmedAreAttached == SideSpec => []ConfirmedIsAttached
<1>1. FilesInv => ConfirmedIsAttached
  BY InvAttached DEF ConfirmedIsAttached
<1> QED  BY <1>1, SideFiles, PTL

\* OncePerConversation: however often a message is sent, a conversation stores
\* it once.
THEOREM StoredOncePerConversation == SideSpec => []OncePerConversation
<1>1. FilesInv => OncePerConversation
  BY DEF FilesInv, TablesInv, OncePerConversation
<1> QED  BY <1>1, SideFiles, PTL

\* AttachmentsAreStored: the objects of a message whose batch had one request
\* at a time are there.
THEOREM StoredAttachmentsStay == SideSpec => []AttachmentsAreStored
<1>1. FilesInv => AttachmentsAreStored
  BY InvStored DEF AttachmentsAreStored
<1> QED  BY <1>1, SideFiles, PTL

\* CancelledStaysOut: what was cancelled before it was counted never becomes a
\* message.
THEOREM CancelledBatchesStayOut == SideSpec => []CancelledStaysOut
<1>1. FilesInv => CancelledStaysOut
  BY InvStaysOut DEF CancelledStaysOut
<1> QED  BY <1>1, SideFiles, PTL

\* TypesOK: every component of the visitor's side keeps its types.
THEOREM VisitorSideTypesCorrect == SideSpec => []TypesOK
<1>1. IInv => TypeOK
  BY DEF IInv
<1>2. FilesInv => Files!TypeOK
  BY DEF FilesInv
<1>3. TransportInv => Transport!TypeOK
  BY TransportTypes, TransportConstants
<1>4. IdentityInv => Identity!TypeOK
  BY IdentityTypes
<1>5. IInv /\ FilesInv /\ TransportInv /\ IdentityInv => TypesOK
  BY <1>1, <1>2, <1>3, <1>4 DEF TypesOK
<1> QED  BY <1>5, SideBridge, SideFiles, SideTransport, SideIdentity, PTL
=============================================================================
