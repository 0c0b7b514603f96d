---------------------------- MODULE EmailOutbox -----------------------------
(***************************************************************************)
(* The outbox of notification e-mails: a row per mail, and workers that    *)
(* claim rows in batches, call the mail provider for one row after the     *)
(* other and record the outcome.  A worker may crash at any point, its     *)
(* requests may be lost, and nothing limits the time a provider call       *)
(* takes; a claim older than 15 minutes is taken back by the next claim.   *)
(* Time is what it does to a row: a claim gets stale, a backoff ends.      *)
(***************************************************************************)
EXTENDS Integers, FiniteSets

CONSTANTS
    Rows,           \* outbox rows, numbered in the order of created_at
    Workers,        \* processes that run processNotificationEmailOutbox
    MaxAttempts,    \* 10 in the code
    NoRow           \* of a worker that handles no row

ASSUME RowsAssumption ==
    /\ Rows \subseteq Nat /\ IsFiniteSet(Rows) /\ IsFiniteSet(Workers)
    /\ NoRow \notin Rows
    /\ MaxAttempts \in Nat \ {0}

VARIABLES
    outbox,     \* outbox[r]: the notification_email_outbox row
    worker,     \* worker[w]: what worker w holds in memory
    mails,      \* mails[r]: how many mails the provider accepted for r
    doubtful    \* history: rows taken back from a worker, or whose mail was
                \* accepted by a call that failed

vars == <<outbox, worker, mails, doubtful>>
-----------------------------------------------------------------------------
Idle == [pc |-> "idle", batch |-> {}, row |-> NoRow, outcome |-> "none", key |-> FALSE]

Init ==
    /\ outbox = [r \in Rows |-> [status |-> "pending", attempts |-> 0,
                                 due |-> TRUE, stale |-> FALSE]]
    /\ worker = [w \in Workers |-> Idle]
    /\ mails = [r \in Rows |-> 0]
    /\ doubtful = {}

\* recover_stale_notification_email_outbox
Stale == {r \in Rows : outbox[r].status = "sending" /\ outbox[r].stale}

Recovered(r) ==
    IF r \in Stale
    THEN [outbox[r] EXCEPT !.status = "pending", !.due = TRUE, !.stale = FALSE]
    ELSE outbox[r]

Claimable ==
    {r \in Rows : /\ Recovered(r).status \in {"pending", "failed"}
                  /\ Recovered(r).due
                  /\ Recovered(r).attempts < MaxAttempts}

Oldest(rows, limit) ==
    {r \in rows : Cardinality({q \in rows : q < r}) < limit}

\* Fault: a retry does not count as an attempt.
ClaimedUncounted(r) ==
    [Recovered(r) EXCEPT !.status = "sending", !.stale = FALSE,
        !.attempts = IF outbox[r].status = "failed" THEN @ ELSE @ + 1]

Claimed(r) ==
    [Recovered(r) EXCEPT !.status = "sending", !.stale = FALSE, !.attempts = @ + 1]

\* One statement, FOR UPDATE SKIP LOCKED: the batch is w's alone.  key says
\* whether w's environment has a provider key.
Claim(w, limit, key) ==
    LET batch == Oldest(Claimable, limit) IN
    /\ worker[w].pc = "idle"
    /\ outbox' = [r \in Rows |-> IF r \in batch THEN Claimed(r) ELSE Recovered(r)]
    /\ worker' = [worker EXCEPT ![w] =
                    IF batch = {} THEN Idle
                    ELSE [Idle EXCEPT !.pc = "loop", !.batch = batch, !.key = key]]
    /\ doubtful' = doubtful \union Stale
    /\ UNCHANGED mails
-----------------------------------------------------------------------------
(* The loop of processNotificationEmailOutbox.                             *)

\* Without a key the row is skipped, not sent.
Take(w, r) ==
    /\ worker[w].pc = "loop"
    /\ r \in worker[w].batch
    /\ worker' = [worker EXCEPT ![w].batch = @ \ {r}, ![w].row = r,
                    ![w].pc = IF worker[w].key THEN "send" ELSE "finalize",
                    ![w].outcome = IF worker[w].key THEN "none" ELSE "skipped"]
    /\ UNCHANGED <<outbox, mails, doubtful>>

Sent(w, accepted, outcome) ==
    /\ worker[w].pc = "send"
    /\ worker' = [worker EXCEPT ![w].pc = "finalize", ![w].outcome = outcome]
    /\ mails' = [mails EXCEPT ![worker[w].row] = IF accepted THEN @ + 1 ELSE @]
    /\ UNCHANGED outbox

ProviderAccepts(w) == Sent(w, TRUE, "sent") /\ UNCHANGED doubtful

ProviderRefuses(w) == Sent(w, FALSE, "failed") /\ UNCHANGED doubtful

\* The provider accepts, but the request fails for the worker.
AnswerLost(w) ==
    /\ Sent(w, TRUE, "failed")
    /\ doubtful' = doubtful \union {worker[w].row}

\* Fault: what a row says is not looked at.
FinalizedAnyway(row, outcome) ==
    [row EXCEPT !.status = outcome, !.due = outcome # "failed"]

\* Fault: a call that failed is taken for one that sent the mail.
FinalizedAsSent(row, outcome) ==
    IF row.status # "sending" THEN row
    ELSE [row EXCEPT !.status = IF outcome = "failed" THEN "sent" ELSE outcome]

\* Fault: a row whose mail was accepted is left for another attempt.
FinalizedInDoubt(row, outcome) ==
    IF row.status # "sending" THEN row
    ELSE [row EXCEPT !.status = IF outcome = "sent" THEN "failed" ELSE outcome]

\* finalize_notification_email_outbox: only a row that is still being sent.
Finalized(row, outcome) ==
    IF row.status # "sending" THEN row
    ELSE [row EXCEPT !.status = outcome, !.due = outcome # "failed"]

Continue(w) ==
    worker' = [worker EXCEPT ![w] =
                IF worker[w].batch = {} THEN Idle
                ELSE [worker[w] EXCEPT !.pc = "loop", !.row = NoRow, !.outcome = "none"]]

Finalize(w) ==
    /\ worker[w].pc = "finalize"
    /\ outbox' = [outbox EXCEPT ![worker[w].row] = Finalized(@, worker[w].outcome)]
    /\ Continue(w)
    /\ UNCHANGED <<mails, doubtful>>

\* The request does not reach the database; the loop goes on.
FinalizeLost(w) ==
    /\ worker[w].pc = "finalize"
    /\ Continue(w)
    /\ UNCHANGED <<outbox, mails, doubtful>>

\* A crash; also what is left of a claim whose answer was lost.
Crash(w) ==
    /\ worker[w].pc # "idle"
    /\ worker' = [worker EXCEPT ![w] = Idle]
    /\ UNCHANGED <<outbox, mails, doubtful>>
-----------------------------------------------------------------------------
\* claimed_at falls behind now() by more than 15 minutes.
ClaimGetsStale(r) ==
    /\ outbox[r].status = "sending" /\ ~outbox[r].stale
    /\ outbox' = [outbox EXCEPT ![r].stale = TRUE]
    /\ UNCHANGED <<worker, mails, doubtful>>

\* next_attempt_at is reached.
BackoffEnds(r) ==
    /\ outbox[r].status = "failed" /\ ~outbox[r].due
    /\ outbox' = [outbox EXCEPT ![r].due = TRUE]
    /\ UNCHANGED <<worker, mails, doubtful>>

Next ==
    \/ \E w \in Workers, limit \in 1..Cardinality(Rows), key \in BOOLEAN :
            Claim(w, limit, key)
    \/ \E w \in Workers, r \in Rows : Take(w, r)
    \/ \E w \in Workers :
            \/ ProviderAccepts(w)
            \/ ProviderRefuses(w)
            \/ AnswerLost(w)
            \/ Finalize(w)
            \/ FinalizeLost(w)
            \/ Crash(w)
    \/ \E r \in Rows : ClaimGetsStale(r) \/ BackoffEnds(r)

Spec == Init /\ [][Next]_vars
-----------------------------------------------------------------------------
(* Properties. *)

\* Every variable has the type of the rows and of the processor's variables,
\* and no row is claimed more than MaxAttempts times.
TypeOK ==
    /\ outbox \in [Rows -> [status : {"pending", "sending", "sent", "skipped", "failed"},
                            attempts : 0..MaxAttempts, due : BOOLEAN, stale : BOOLEAN]]
    /\ worker \in [Workers -> [pc : {"idle", "loop", "send", "finalize"},
                               batch : SUBSET Rows, row : Rows \union {NoRow},
                               outcome : {"none", "sent", "skipped", "failed"},
                               key : BOOLEAN]]
    /\ mails \in [Rows -> Nat]
    /\ doubtful \subseteq Rows

\* A row claims to be sent only when the provider has accepted its mail.
SentIsAccepted == \A r \in Rows : outbox[r].status = "sent" => mails[r] > 0

\* Each claim leads to at most one mail, however claims are lost, taken back
\* or finished late; with TypeOK, a row is mailed at most MaxAttempts times.
MailsWithinAttempts == \A r \in Rows : mails[r] <= outbox[r].attempts

\* A row is mailed twice only after its claim was taken back or a call failed
\* although its mail was accepted.
OneMailUnlessDoubtful == \A r \in Rows : mails[r] > 1 => r \in doubtful

\* A row that is sent or skipped is final: no late answer of a worker that has
\* lost its claim, and no claim, changes it.
SettledStaysSettled ==
    [][\A r \in Rows : outbox[r].status \in {"sent", "skipped"}
                            => outbox'[r].status = outbox[r].status]_vars
=============================================================================
