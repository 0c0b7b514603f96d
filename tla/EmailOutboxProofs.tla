------------------------- MODULE EmailOutboxProofs --------------------------
(***************************************************************************)
(* Proofs about EmailOutbox, for any rows, workers and number of attempts. *)
(***************************************************************************)
EXTENDS EmailOutbox, FiniteSetTheorems, TLAPS

\* w may still call the provider for r; w has called it, or skipped the call.
Holds(w, r)    == \/ r \in worker[w].batch
                  \/ worker[w].pc = "send" /\ worker[w].row = r
Finishes(w, r) == worker[w].pc = "finalize" /\ worker[w].row = r

Holders(r) == {w \in Workers : Holds(w, r)}

\* A worker without a claim holds no row, and a row is handled once per claim.
WorkerInv ==
    \A w \in Workers :
        /\ worker[w].pc = "idle" => worker[w].batch = {}
        /\ worker[w].pc \in {"send", "finalize"} => worker[w].row \in Rows
        /\ worker[w].pc = "finalize" => worker[w].outcome # "none"
        /\ worker[w].row \notin worker[w].batch

\* A worker that reports a mail as sent has seen it accepted.
AcceptInv ==
    /\ SentIsAccepted
    /\ \A w \in Workers :
          worker[w].pc = "finalize" /\ worker[w].outcome = "sent"
              => mails[worker[w].row] > 0

\* Every claim has led to a mail, may still lead to one, or never will.
AttemptInv ==
    \A r \in Rows : mails[r] + Cardinality(Holders(r)) <= outbox[r].attempts

\* A row nothing has gone wrong with: one worker at most handles it, and only
\* while it is being sent; a mail is on record until the worker reports it.
SureInv ==
    \A r \in Rows \ doubtful :
        /\ mails[r] \in {0, 1}
        /\ outbox[r].status \in {"pending", "failed"} => mails[r] = 0
        /\ \A w \in Workers :
              /\ Holds(w, r) => outbox[r].status = "sending" /\ mails[r] = 0
              /\ Finishes(w, r) => outbox[r].status = "sending"
              /\ Finishes(w, r) /\ worker[w].outcome # "sent" => mails[r] = 0
        /\ \A v, w \in Workers :
              (Holds(v, r) \/ Finishes(v, r)) /\ (Holds(w, r) \/ Finishes(w, r)) => v = w

IInv == TypeOK /\ WorkerInv /\ AcceptInv /\ AttemptInv /\ SureInv
-----------------------------------------------------------------------------
(* Types.                                                                  *)

OutboxRow == [status : {"pending", "sending", "sent", "skipped", "failed"},
              attempts : 0..MaxAttempts, due : BOOLEAN, stale : BOOLEAN]

WorkerRecord == [pc : {"idle", "loop", "send", "finalize"}, batch : SUBSET Rows,
                 row : Rows \union {NoRow},
                 outcome : {"none", "sent", "skipped", "failed"}, key : BOOLEAN]

LEMMA TypeOKRecords ==
    TypeOK <=> /\ outbox \in [Rows -> OutboxRow]
               /\ worker \in [Workers -> WorkerRecord]
               /\ mails \in [Rows -> Nat]
               /\ doubtful \subseteq Rows
BY DEF TypeOK, OutboxRow, WorkerRecord

\* Taking back a stale claim changes no row but those in Stale, and no row's
\* attempts.
LEMMA RecoveredRow ==
    ASSUME TypeOK, NEW r \in Rows
    PROVE  /\ Recovered(r) \in OutboxRow
           /\ Recovered(r).attempts = outbox[r].attempts
           /\ r \notin Stale => Recovered(r) = outbox[r]
           /\ r \in Stale => outbox[r].status = "sending" /\ Recovered(r).status = "pending"
BY TypeOKRecords DEF Recovered, Stale, OutboxRow

\* What a claim does to a row of its batch.
LEMMA ClaimedRow ==
    ASSUME TypeOK, NEW r \in Claimable
    PROVE  /\ r \in Rows
           /\ outbox[r].status \in {"pending", "failed"} \/ r \in Stale
           /\ Claimed(r) \in OutboxRow
           /\ Claimed(r).status = "sending"
           /\ Claimed(r).attempts = outbox[r].attempts + 1
<1>1. r \in Rows /\ Recovered(r).status \in {"pending", "failed"}
      /\ Recovered(r).attempts < MaxAttempts
  BY DEF Claimable
<1>2. Recovered(r) \in OutboxRow /\ Recovered(r).attempts = outbox[r].attempts
      /\ (r \notin Stale => Recovered(r) = outbox[r])
  BY <1>1, RecoveredRow
<1>3. Recovered(r).attempts + 1 \in 0..MaxAttempts
  BY <1>1, <1>2, RowsAssumption DEF OutboxRow
<1>4. QED
  BY <1>1, <1>2, <1>3 DEF Claimed, OutboxRow

\* finalize changes the status of a row that is being sent, and no other.
LEMMA FinalizedRow ==
    ASSUME NEW row \in OutboxRow, NEW outcome \in {"sent", "skipped", "failed"}
    PROVE  /\ Finalized(row, outcome) \in OutboxRow
           /\ Finalized(row, outcome).attempts = row.attempts
           /\ Finalized(row, outcome).status =
                IF row.status = "sending" THEN outcome ELSE row.status
BY DEF Finalized, OutboxRow
-----------------------------------------------------------------------------
(* Types and workers.                                                      *)

LEMMA InitTypes == Init => TypeOK /\ WorkerInv
<1> SUFFICES ASSUME Init PROVE TypeOK /\ WorkerInv
  OBVIOUS
<1>1. Idle \in WorkerRecord /\ NoRow \notin Idle.batch
  BY DEF Idle, WorkerRecord
<1>2. outbox \in [Rows -> OutboxRow] /\ mails \in [Rows -> Nat] /\ doubtful = {}
  BY RowsAssumption DEF Init, OutboxRow
<1>3. worker = [w \in Workers |-> Idle]
  BY DEF Init
<1>4. TypeOK
  BY <1>1, <1>2, <1>3, TypeOKRecords
<1>5. WorkerInv
  BY <1>3 DEF WorkerInv, Idle
<1> QED BY <1>4, <1>5

\* Where a worker's step leaves it: what it holds is what it held, less the row
\* it has taken or finished.
LEMMA TakenWorker ==
    ASSUME TypeOK, NEW w \in Workers, NEW r \in Rows, Take(w, r)
    PROVE  /\ worker' \in [Workers -> WorkerRecord]
           /\ \A v \in Workers \ {w} : worker'[v] = worker[v]
           /\ r \in worker[w].batch
           /\ worker'[w].batch = worker[w].batch \ {r}
           /\ worker'[w].row = r
           /\ \/ worker'[w].pc = "send"
              \/ worker'[w].pc = "finalize" /\ worker'[w].outcome = "skipped"
           /\ UNCHANGED <<outbox, mails, doubtful>>
BY TypeOKRecords DEF Take, WorkerRecord

LEMMA SentWorker ==
    ASSUME TypeOK, WorkerInv, NEW w \in Workers, NEW accepted \in BOOLEAN,
           NEW outcome \in {"sent", "failed"}, Sent(w, accepted, outcome)
    PROVE  /\ worker' \in [Workers -> WorkerRecord]
           /\ \A v \in Workers \ {w} : worker'[v] = worker[v]
           /\ worker[w].pc = "send" /\ worker'[w].pc = "finalize"
           /\ worker'[w].outcome = outcome
           /\ worker'[w].batch = worker[w].batch
           /\ worker'[w].row = worker[w].row /\ worker[w].row \in Rows
           /\ mails' \in [Rows -> Nat]
           /\ \A r \in Rows : mails'[r] = IF accepted /\ r = worker[w].row
                                          THEN mails[r] + 1 ELSE mails[r]
           /\ outbox' = outbox
<1>1. worker[w].row \in Rows
  BY DEF Sent, WorkerInv
<1>2. /\ worker[w].pc = "send" /\ outbox' = outbox
      /\ worker' = [worker EXCEPT ![w].pc = "finalize", ![w].outcome = outcome]
      /\ worker \in [Workers -> WorkerRecord] /\ mails \in [Rows -> Nat]
  BY TypeOKRecords DEF Sent
<1>3. /\ worker' \in [Workers -> WorkerRecord]
      /\ \A v \in Workers \ {w} : worker'[v] = worker[v]
      /\ worker'[w].pc = "finalize" /\ worker'[w].outcome = outcome
      /\ worker'[w].batch = worker[w].batch /\ worker'[w].row = worker[w].row
  BY <1>2 DEF WorkerRecord
<1>4. CASE accepted
  <2>1. mails' = [mails EXCEPT ![worker[w].row] = @ + 1]
    BY <1>4 DEF Sent
  <2>2. QED
    BY <1>1, <1>2, <1>3, <1>4, <2>1
<1>5. CASE ~accepted
  <2>1. mails' = [mails EXCEPT ![worker[w].row] = @]
    BY <1>5 DEF Sent
  <2>2. QED
    BY <1>1, <1>2, <1>3, <1>5, <2>1
<1>6. QED
  BY <1>4, <1>5

LEMMA ContinuedWorker ==
    ASSUME TypeOK, NEW w \in Workers, Continue(w)
    PROVE  /\ worker' \in [Workers -> WorkerRecord]
           /\ \A v \in Workers \ {w} : worker'[v] = worker[v]
           /\ worker'[w].pc \in {"idle", "loop"}
           /\ worker'[w].row = NoRow
           /\ worker'[w].batch = worker[w].batch
           /\ worker'[w].pc = "idle" => worker'[w].batch = {}
BY TypeOKRecords DEF Continue, WorkerRecord, Idle

LEMMA CrashedWorker ==
    ASSUME TypeOK, NEW w \in Workers, Crash(w)
    PROVE  /\ worker' \in [Workers -> WorkerRecord]
           /\ \A v \in Workers \ {w} : worker'[v] = worker[v]
           /\ worker'[w].pc = "idle" /\ worker'[w].row = NoRow
           /\ worker'[w].batch = {}
           /\ UNCHANGED <<outbox, mails, doubtful>>
BY TypeOKRecords DEF Crash, WorkerRecord, Idle

LEMMA ClaimStep ==
    ASSUME TypeOK, NEW w \in Workers, NEW limit, NEW key \in BOOLEAN,
           Claim(w, limit, key)
    PROVE  /\ worker' \in [Workers -> WorkerRecord]
           /\ \A v \in Workers \ {w} : worker'[v] = worker[v]
           /\ worker[w].pc = "idle"
           /\ worker'[w].pc \in {"idle", "loop"} /\ worker'[w].row = NoRow
           /\ worker'[w].pc = "idle" => worker'[w].batch = {}
           /\ worker'[w].batch \subseteq Claimable
           /\ outbox' = [r \in Rows |-> IF r \in worker'[w].batch THEN Claimed(r)
                                        ELSE Recovered(r)]
           /\ outbox' \in [Rows -> OutboxRow]
           /\ mails' = mails /\ doubtful' = doubtful \union Stale
<1> DEFINE batch == Oldest(Claimable, limit)
<1>1. batch \subseteq Claimable /\ Claimable \subseteq Rows
  BY DEF Oldest, Claimable
<1>2. /\ worker[w].pc = "idle"
      /\ outbox' = [r \in Rows |-> IF r \in batch THEN Claimed(r) ELSE Recovered(r)]
      /\ worker' = [worker EXCEPT ![w] =
                      IF batch = {} THEN Idle
                      ELSE [Idle EXCEPT !.pc = "loop", !.batch = batch, !.key = key]]
      /\ mails' = mails /\ doubtful' = doubtful \union Stale
  BY DEF Claim
<1> HIDE DEF batch
<1>3. worker'[w] = IF batch = {} THEN Idle
                   ELSE [Idle EXCEPT !.pc = "loop", !.batch = batch, !.key = key]
  BY <1>2, TypeOKRecords
<1>4. Idle \in WorkerRecord /\ Idle.pc = "idle" /\ Idle.row = NoRow /\ Idle.batch = {}
  BY DEF Idle, WorkerRecord
<1>5. /\ worker'[w].batch = batch
      /\ worker'[w] \in WorkerRecord /\ worker'[w].pc \in {"idle", "loop"}
      /\ worker'[w].row = NoRow /\ (worker'[w].pc = "idle" => batch = {})
  <2>1. CASE batch = {}
    BY <1>3, <1>4, <2>1
  <2>2. CASE batch # {}
    <3>1. worker'[w] = [Idle EXCEPT !.pc = "loop", !.batch = batch, !.key = key]
      BY <1>3, <2>2
    <3>2. batch \in SUBSET Rows
      BY <1>1
    <3>3. QED
      BY <1>4, <2>2, <3>1, <3>2 DEF WorkerRecord
  <2>3. QED
    BY <2>1, <2>2
<1>6. worker' \in [Workers -> WorkerRecord]
  BY <1>2, <1>3, <1>5, TypeOKRecords
<1>7. outbox' \in [Rows -> OutboxRow]
  BY <1>1, <1>2, ClaimedRow, RecoveredRow
<1>8. QED
  BY <1>1, <1>2, <1>5, <1>6, <1>7, TypeOKRecords

\* The row's side of a finalize.
LEMMA FinalizeStep ==
    ASSUME TypeOK, WorkerInv, NEW w \in Workers, Finalize(w)
    PROVE  /\ worker[w].pc = "finalize" /\ worker[w].row \in Rows
           /\ outbox' \in [Rows -> OutboxRow]
           /\ \A r \in Rows :
                /\ outbox'[r].attempts = outbox[r].attempts
                /\ outbox'[r].status =
                     IF r = worker[w].row /\ outbox[r].status = "sending"
                     THEN worker[w].outcome ELSE outbox[r].status
           /\ mails' = mails /\ doubtful' = doubtful
<1> DEFINE row     == worker[w].row
           outcome == worker[w].outcome
<1>1. worker[w].pc = "finalize" /\ mails' = mails /\ doubtful' = doubtful
      /\ outbox' = [outbox EXCEPT ![row] = Finalized(outbox[row], outcome)]
  BY DEF Finalize
<1>2. row \in Rows /\ outcome \in {"sent", "skipped", "failed"}
  BY <1>1, TypeOKRecords DEF WorkerInv, WorkerRecord
<1>3. outbox \in [Rows -> OutboxRow]
  BY TypeOKRecords
<1> HIDE DEF row, outcome
<1>4. /\ Finalized(outbox[row], outcome) \in OutboxRow
      /\ Finalized(outbox[row], outcome).attempts = outbox[row].attempts
      /\ Finalized(outbox[row], outcome).status =
           IF outbox[row].status = "sending" THEN outcome ELSE outbox[row].status
  BY <1>2, <1>3, FinalizedRow
<1>5. outbox' \in [Rows -> OutboxRow]
      /\ \A r \in Rows : /\ r = row => outbox'[r] = Finalized(outbox[row], outcome)
                         /\ r # row => outbox'[r] = outbox[r]
  BY <1>1, <1>2, <1>3, <1>4
<1>6. QED
  BY <1>1, <1>2, <1>4, <1>5 DEF row, outcome

\* Time changes no status and no number of attempts.
LEMMA TimeStep ==
    ASSUME TypeOK, NEW r \in Rows, ClaimGetsStale(r) \/ BackoffEnds(r)
    PROVE  /\ outbox' \in [Rows -> OutboxRow]
           /\ \A q \in Rows : /\ outbox'[q].attempts = outbox[q].attempts
                              /\ outbox'[q].status = outbox[q].status
           /\ UNCHANGED <<worker, mails, doubtful>>
<1>1. outbox \in [Rows -> OutboxRow]
  BY TypeOKRecords
<1>2. CASE ClaimGetsStale(r)
  BY <1>1, <1>2 DEF ClaimGetsStale, OutboxRow
<1>3. CASE BackoffEnds(r)
  BY <1>1, <1>3 DEF BackoffEnds, OutboxRow
<1>4. QED
  BY <1>2, <1>3
LEMMA TypesPreserved == TypeOK /\ WorkerInv /\ [Next]_vars => TypeOK' /\ WorkerInv'
<1> SUFFICES ASSUME TypeOK, WorkerInv, [Next]_vars
             PROVE  TypeOK' /\ WorkerInv'
  OBVIOUS
<1> DEFINE Typed == /\ outbox' \in [Rows -> OutboxRow]
                    /\ worker' \in [Workers -> WorkerRecord]
                    /\ mails' \in [Rows -> Nat]
                    /\ doubtful' \subseteq Rows
<1>1. Typed => TypeOK'
  BY DEF TypeOK, OutboxRow, WorkerRecord
<1>2. /\ outbox \in [Rows -> OutboxRow] /\ worker \in [Workers -> WorkerRecord]
      /\ mails \in [Rows -> Nat] /\ doubtful \subseteq Rows
  BY TypeOKRecords
<1>3. NoRow \notin Rows /\ \A w \in Workers : worker[w].batch \subseteq Rows
  BY <1>2, RowsAssumption DEF WorkerRecord
<1>4. ASSUME NEW w \in Workers, NEW limit \in 1..Cardinality(Rows), NEW key \in BOOLEAN,
             Claim(w, limit, key)
      PROVE  Typed /\ WorkerInv'
  <2>1. Typed
    BY <1>2, <1>4, ClaimStep DEF Stale
  <2>2. /\ \A v \in Workers \ {w} : worker'[v] = worker[v]
        /\ worker'[w].pc \in {"idle", "loop"} /\ worker'[w].row = NoRow
        /\ worker'[w].pc = "idle" => worker'[w].batch = {}
        /\ worker'[w].batch \subseteq Claimable
    BY <1>4, ClaimStep
  <2>3. QED
    BY <1>3, <2>1, <2>2 DEF WorkerInv, Claimable
<1>5. ASSUME NEW w \in Workers, NEW r \in Rows, Take(w, r)
      PROVE  Typed /\ WorkerInv'
  <2>1. /\ Typed
        /\ \A v \in Workers \ {w} : worker'[v] = worker[v]
        /\ worker'[w].batch = worker[w].batch \ {r} /\ worker'[w].row = r
        /\ \/ worker'[w].pc = "send"
           \/ worker'[w].pc = "finalize" /\ worker'[w].outcome = "skipped"
    BY <1>2, <1>5, TakenWorker
  <2>2. QED
    BY <2>1 DEF WorkerInv
<1>6. ASSUME NEW w \in Workers, ProviderAccepts(w) \/ ProviderRefuses(w) \/ AnswerLost(w)
      PROVE  Typed /\ WorkerInv'
  <2>1. PICK accepted \in BOOLEAN, outcome \in {"sent", "failed"} : Sent(w, accepted, outcome)
    BY <1>6 DEF ProviderAccepts, ProviderRefuses, AnswerLost
  <2>2. /\ worker' \in [Workers -> WorkerRecord]
        /\ \A v \in Workers \ {w} : worker'[v] = worker[v]
        /\ worker'[w].pc = "finalize" /\ worker'[w].outcome = outcome
        /\ worker'[w].batch = worker[w].batch
        /\ worker'[w].row = worker[w].row /\ worker[w].row \in Rows
        /\ mails' \in [Rows -> Nat] /\ outbox' = outbox
    BY <2>1, SentWorker
  <2>3. doubtful' \subseteq Rows
    BY <1>2, <1>6, <2>2 DEF ProviderAccepts, ProviderRefuses, AnswerLost
  <2>4. QED
    BY <1>2, <2>2, <2>3 DEF WorkerInv
<1>7. ASSUME NEW w \in Workers, Continue(w), outbox' \in [Rows -> OutboxRow],
             mails' = mails, doubtful' = doubtful
      PROVE  Typed /\ WorkerInv'
  BY <1>2, <1>3, <1>7, ContinuedWorker DEF WorkerInv
<1>8. ASSUME NEW w \in Workers, Finalize(w) \/ FinalizeLost(w)
      PROVE  Typed /\ WorkerInv'
  <2>1. CASE Finalize(w)
    BY <1>7, <2>1, FinalizeStep DEF Finalize
  <2>2. CASE FinalizeLost(w)
    BY <1>2, <1>7, <2>2 DEF FinalizeLost
  <2>3. QED
    BY <1>8, <2>1, <2>2
<1>9. ASSUME NEW w \in Workers, Crash(w)
      PROVE  Typed /\ WorkerInv'
  BY <1>2, <1>3, <1>9, CrashedWorker DEF WorkerInv
<1>10. ASSUME NEW r \in Rows, ClaimGetsStale(r) \/ BackoffEnds(r)
       PROVE  Typed /\ WorkerInv'
  BY <1>2, <1>10, TimeStep DEF WorkerInv
<1>11. CASE UNCHANGED vars
  BY <1>11 DEF vars, TypeOK, WorkerInv
<1> HIDE DEF Typed
<1>12. QED
  BY <1>1, <1>4, <1>5, <1>6, <1>8, <1>9, <1>10, <1>11 DEF Next
-----------------------------------------------------------------------------
(* Mails against attempts.                                                 *)

LEMMA HoldersFinite ==
    ASSUME NEW r
    PROVE  IsFiniteSet(Holders(r)) /\ Cardinality(Holders(r)) \in Nat
<1>1. Holders(r) \subseteq Workers
  BY DEF Holders
<1>2. QED
  BY <1>1, RowsAssumption, FS_Subset, FS_CardinalityType

\* A step that gives a row no new holder, no mail and no attempt keeps the
\* account of that row.
LEMMA FewerHolders ==
    ASSUME TypeOK, TypeOK', AttemptInv, NEW r \in Rows,
           Holders(r)' \subseteq Holders(r),
           mails'[r] = mails[r],
           outbox'[r].attempts = outbox[r].attempts
    PROVE  mails'[r] + Cardinality(Holders(r)') <= outbox'[r].attempts
<1>1. mails[r] \in Nat /\ outbox[r].attempts \in Nat
  BY TypeOKRecords DEF OutboxRow
<1>2. Cardinality(Holders(r)') \in Nat /\ Cardinality(Holders(r)) \in Nat
      /\ Cardinality(Holders(r)') <= Cardinality(Holders(r))
  BY HoldersFinite, FS_Subset, FS_CardinalityType
<1>3. mails[r] + Cardinality(Holders(r)) <= outbox[r].attempts
  BY DEF AttemptInv
<1>4. QED
  BY <1>1, <1>2, <1>3

LEMMA AttemptsPreserved ==
    TypeOK /\ WorkerInv /\ AttemptInv /\ [Next]_vars => AttemptInv'
<1> SUFFICES ASSUME TypeOK, WorkerInv, AttemptInv, [Next]_vars, NEW r \in Rows
             PROVE  mails'[r] + Cardinality(Holders(r)') <= outbox'[r].attempts
  BY DEF AttemptInv
<1>1. TypeOK' /\ WorkerInv'
  BY TypesPreserved
<1>2. mails[r] \in Nat /\ outbox[r].attempts \in Nat
      /\ mails[r] + Cardinality(Holders(r)) <= outbox[r].attempts
      /\ Cardinality(Holders(r)) \in Nat
  BY TypeOKRecords, HoldersFinite DEF OutboxRow, AttemptInv
<1>3. ASSUME NEW w \in Workers, NEW limit \in 1..Cardinality(Rows), NEW key \in BOOLEAN,
             Claim(w, limit, key)
      PROVE  mails'[r] + Cardinality(Holders(r)') <= outbox'[r].attempts
  <2>1. /\ \A v \in Workers \ {w} : worker'[v] = worker[v]
        /\ worker[w].pc = "idle" /\ worker'[w].pc \in {"idle", "loop"}
        /\ worker'[w].batch \subseteq Claimable
        /\ outbox' = [q \in Rows |-> IF q \in worker'[w].batch THEN Claimed(q)
                                     ELSE Recovered(q)]
        /\ mails' = mails
    BY <1>3, ClaimStep
  <2>2. w \notin Holders(r)
    BY <2>1 DEF WorkerInv, Holders, Holds
  <2>3. CASE r \in worker'[w].batch
    <3>1. Holders(r)' = Holders(r) \union {w}
      BY <2>1, <2>3 DEF Holders, Holds
    <3>2. Cardinality(Holders(r)') = Cardinality(Holders(r)) + 1
      BY <2>2, <3>1, HoldersFinite, FS_AddElement
    <3>3. outbox'[r].attempts = outbox[r].attempts + 1
      BY <2>1, <2>3, ClaimedRow
    <3>4. QED
      BY <1>2, <2>1, <3>2, <3>3
  <2>4. CASE r \notin worker'[w].batch
    <3>1. Holders(r)' \subseteq Holders(r)
      BY <2>1, <2>4 DEF Holders, Holds
    <3>2. outbox'[r].attempts = outbox[r].attempts
      BY <2>1, <2>4, RecoveredRow
    <3>3. QED
      BY <1>1, <2>1, <3>1, <3>2, FewerHolders
  <2>5. QED
    BY <2>3, <2>4
<1>4. ASSUME NEW w \in Workers, NEW q \in Rows, Take(w, q)
      PROVE  mails'[r] + Cardinality(Holders(r)') <= outbox'[r].attempts
  <2>1. Holders(r)' \subseteq Holders(r)
    BY <1>4, TakenWorker DEF Holders, Holds
  <2>2. UNCHANGED <<outbox, mails>>
    BY <1>4, TakenWorker
  <2>3. QED
    BY <1>1, <2>1, <2>2, FewerHolders
<1>5. ASSUME NEW w \in Workers, ProviderAccepts(w) \/ ProviderRefuses(w) \/ AnswerLost(w)
      PROVE  mails'[r] + Cardinality(Holders(r)') <= outbox'[r].attempts
  <2>1. PICK accepted \in BOOLEAN, outcome \in {"sent", "failed"} : Sent(w, accepted, outcome)
    BY <1>5 DEF ProviderAccepts, ProviderRefuses, AnswerLost
  <2>2. /\ \A v \in Workers \ {w} : worker'[v] = worker[v]
        /\ worker[w].pc = "send" /\ worker'[w].pc = "finalize"
        /\ worker'[w].batch = worker[w].batch
        /\ worker'[w].row = worker[w].row
        /\ outbox' = outbox
    BY <2>1, SentWorker
  <2>3. mails'[r] = IF accepted /\ r = worker[w].row THEN mails[r] + 1 ELSE mails[r]
    BY <2>1, SentWorker
  <2>4. Holders(r)' \subseteq Holders(r)
    BY <2>2 DEF Holders, Holds
  <2>5. CASE r = worker[w].row
    <3>1. Holders(r)' = Holders(r) \ {w} /\ w \in Holders(r)
      BY <2>2, <2>5 DEF Holders, Holds, WorkerInv
    <3>2. Cardinality(Holders(r)') = Cardinality(Holders(r)) - 1
      BY <3>1, HoldersFinite, FS_RemoveElement
    <3>3. mails'[r] \in Nat /\ mails'[r] <= mails[r] + 1
      BY <1>2, <2>3
    <3>4. QED
      BY <1>2, <2>2, <3>2, <3>3
  <2>6. CASE r # worker[w].row
    BY <1>1, <2>2, <2>3, <2>4, <2>6, FewerHolders
  <2>7. QED
    BY <2>5, <2>6
<1>6. ASSUME NEW w \in Workers, Finalize(w) \/ FinalizeLost(w)
      PROVE  mails'[r] + Cardinality(Holders(r)') <= outbox'[r].attempts
  <2>1. Continue(w) /\ mails' = mails
    BY <1>6 DEF Finalize, FinalizeLost
  <2>2. Holders(r)' \subseteq Holders(r)
    BY <2>1, ContinuedWorker DEF Holders, Holds
  <2>3. outbox'[r].attempts = outbox[r].attempts
    BY <1>6, FinalizeStep DEF FinalizeLost
  <2>4. QED
    BY <1>1, <2>1, <2>2, <2>3, FewerHolders
<1>7. ASSUME NEW w \in Workers, Crash(w)
      PROVE  mails'[r] + Cardinality(Holders(r)') <= outbox'[r].attempts
  <2>1. Holders(r)' \subseteq Holders(r) /\ UNCHANGED <<outbox, mails>>
    BY <1>7, CrashedWorker DEF Holders, Holds
  <2>2. QED
    BY <1>1, <2>1, FewerHolders
<1>8. ASSUME NEW q \in Rows, ClaimGetsStale(q) \/ BackoffEnds(q)
      PROVE  mails'[r] + Cardinality(Holders(r)') <= outbox'[r].attempts
  <2>1. /\ UNCHANGED <<worker, mails>>
        /\ outbox'[r].attempts = outbox[r].attempts
    BY <1>8, TimeStep
  <2>2. Holders(r)' \subseteq Holders(r)
    BY <2>1 DEF Holders, Holds
  <2>3. QED
    BY <1>1, <2>1, <2>2, FewerHolders
<1>9. CASE UNCHANGED vars
  <2>1. Holders(r)' \subseteq Holders(r) /\ UNCHANGED <<outbox, mails>>
    BY <1>9 DEF vars, Holders, Holds
  <2>2. QED
    BY <1>1, <2>1, FewerHolders
<1>10. QED
  BY <1>3, <1>4, <1>5, <1>6, <1>7, <1>8, <1>9 DEF Next
-----------------------------------------------------------------------------
(* What a worker reports as sent has been accepted.                        *)

LEMMA AcceptPreserved ==
    TypeOK /\ WorkerInv /\ AcceptInv /\ [Next]_vars => AcceptInv'
<1> SUFFICES ASSUME TypeOK, WorkerInv, AcceptInv, [Next]_vars
             PROVE  AcceptInv'
  OBVIOUS
<1>1. /\ \A r \in Rows : mails[r] \in Nat
      /\ \A r \in Rows : outbox[r].status = "sent" => mails[r] > 0
      /\ \A w \in Workers : worker[w].pc = "finalize" /\ worker[w].outcome = "sent"
                                => mails[worker[w].row] > 0
      /\ \A w \in Workers : worker[w].pc = "finalize" => worker[w].row \in Rows
  BY TypeOKRecords DEF AcceptInv, SentIsAccepted, WorkerInv
<1> DEFINE Sound == /\ \A r \in Rows : outbox'[r].status = "sent" => mails'[r] > 0
                    /\ \A w \in Workers :
                          worker'[w].pc = "finalize" /\ worker'[w].outcome = "sent"
                              => mails'[worker'[w].row] > 0
<1>2. Sound => AcceptInv'
  BY DEF AcceptInv, SentIsAccepted
<1>3. ASSUME NEW w \in Workers, NEW limit \in 1..Cardinality(Rows), NEW key \in BOOLEAN,
             Claim(w, limit, key)
      PROVE  Sound
  <2>1. /\ \A v \in Workers \ {w} : worker'[v] = worker[v]
        /\ worker'[w].pc \in {"idle", "loop"}
        /\ outbox' = [r \in Rows |-> IF r \in worker'[w].batch THEN Claimed(r)
                                     ELSE Recovered(r)]
        /\ worker'[w].batch \subseteq Claimable /\ mails' = mails
    BY <1>3, ClaimStep
  <2>2. \A r \in Rows : outbox'[r].status = "sent" => outbox[r].status = "sent"
    BY <2>1, ClaimedRow, RecoveredRow
  <2>3. QED
    BY <1>1, <2>1, <2>2
<1>4. ASSUME NEW w \in Workers, NEW r \in Rows, Take(w, r)
      PROVE  Sound
  BY <1>1, <1>4, TakenWorker
<1>5. ASSUME NEW w \in Workers, NEW accepted \in BOOLEAN, NEW outcome \in {"sent", "failed"},
             Sent(w, accepted, outcome), outcome = "sent" => accepted
      PROVE  Sound
  <2>1. /\ \A v \in Workers \ {w} : worker'[v] = worker[v]
        /\ worker'[w].outcome = outcome
        /\ worker'[w].row = worker[w].row /\ worker[w].row \in Rows
        /\ outbox' = outbox
    BY <1>5, SentWorker
  <2>2. \A r \in Rows : mails'[r] = IF accepted /\ r = worker[w].row
                                    THEN mails[r] + 1 ELSE mails[r]
    BY <1>5, SentWorker
  <2>3. \A r \in Rows : mails[r] > 0 => mails'[r] > 0
    BY <1>1, <2>2
  <2>4. outcome = "sent" => mails'[worker[w].row] > 0
    BY <1>1, <1>5, <2>1, <2>2
  <2>5. QED
    BY <1>1, <2>1, <2>3, <2>4
<1>6. ASSUME NEW w \in Workers, ProviderAccepts(w) \/ ProviderRefuses(w) \/ AnswerLost(w)
      PROVE  Sound
  BY <1>5, <1>6 DEF ProviderAccepts, ProviderRefuses, AnswerLost
<1>7. ASSUME NEW w \in Workers, Finalize(w) \/ FinalizeLost(w)
      PROVE  Sound
  <2>1. /\ \A v \in Workers \ {w} : worker'[v] = worker[v]
        /\ worker'[w].pc \in {"idle", "loop"} /\ mails' = mails
    BY <1>7, ContinuedWorker DEF Finalize, FinalizeLost
  <2>2. CASE Finalize(w)
    BY <1>1, <2>1, <2>2, FinalizeStep
  <2>3. CASE FinalizeLost(w)
    BY <1>1, <2>1, <2>3 DEF FinalizeLost
  <2>4. QED
    BY <1>7, <2>2, <2>3
<1>8. ASSUME NEW w \in Workers, Crash(w)
      PROVE  Sound
  BY <1>1, <1>8, CrashedWorker
<1>9. ASSUME NEW r \in Rows, ClaimGetsStale(r) \/ BackoffEnds(r)
      PROVE  Sound
  BY <1>1, <1>9, TimeStep
<1>10. ASSUME UNCHANGED vars
       PROVE  Sound
  BY <1>1, <1>10 DEF vars
<1> HIDE DEF Sound
<1>11. QED
  BY <1>2, <1>3, <1>4, <1>6, <1>7, <1>8, <1>9, <1>10 DEF Next
-----------------------------------------------------------------------------
(* Rows nothing has gone wrong with.                                       *)

LEMMA SurePreserved ==
    TypeOK /\ WorkerInv /\ SureInv /\ [Next]_vars => SureInv'
<1> SUFFICES ASSUME TypeOK, WorkerInv, SureInv, [Next]_vars,
                    NEW r \in Rows, r \notin doubtful'
             PROVE  /\ mails'[r] \in {0, 1}
                    /\ outbox'[r].status \in {"pending", "failed"} => mails'[r] = 0
                    /\ \A w \in Workers :
                          /\ Holds(w, r)' => outbox'[r].status = "sending" /\ mails'[r] = 0
                          /\ Finishes(w, r)' => outbox'[r].status = "sending"
                          /\ Finishes(w, r)' /\ worker'[w].outcome # "sent" => mails'[r] = 0
                    /\ \A v, w \in Workers :
                          (Holds(v, r)' \/ Finishes(v, r)') /\ (Holds(w, r)' \/ Finishes(w, r)')
                              => v = w
  BY DEF SureInv
<1> DEFINE Sure == /\ mails'[r] \in {0, 1}
                   /\ outbox'[r].status \in {"pending", "failed"} => mails'[r] = 0
                   /\ \A w \in Workers :
                         /\ Holds(w, r)' => outbox'[r].status = "sending" /\ mails'[r] = 0
                         /\ Finishes(w, r)' => outbox'[r].status = "sending"
                         /\ Finishes(w, r)' /\ worker'[w].outcome # "sent" => mails'[r] = 0
                   /\ \A v, w \in Workers :
                         (Holds(v, r)' \/ Finishes(v, r)') /\ (Holds(w, r)' \/ Finishes(w, r)')
                             => v = w
<1>1. r \notin doubtful =>
        /\ mails[r] \in {0, 1}
        /\ outbox[r].status \in {"pending", "failed"} => mails[r] = 0
        /\ \A w \in Workers :
              /\ Holds(w, r) => outbox[r].status = "sending" /\ mails[r] = 0
              /\ Finishes(w, r) => outbox[r].status = "sending"
              /\ Finishes(w, r) /\ worker[w].outcome # "sent" => mails[r] = 0
        /\ \A v, w \in Workers :
              (Holds(v, r) \/ Finishes(v, r)) /\ (Holds(w, r) \/ Finishes(w, r)) => v = w
  BY DEF SureInv
<1>2. NoRow \notin Rows
  BY RowsAssumption
<1>3. ASSUME NEW w \in Workers, NEW limit \in 1..Cardinality(Rows), NEW key \in BOOLEAN,
             Claim(w, limit, key)
      PROVE  Sure
  <2>1. /\ \A v \in Workers \ {w} : worker'[v] = worker[v]
        /\ worker[w].pc = "idle" /\ worker'[w].pc \in {"idle", "loop"}
        /\ worker'[w].batch \subseteq Claimable
        /\ outbox' = [q \in Rows |-> IF q \in worker'[w].batch THEN Claimed(q)
                                     ELSE Recovered(q)]
        /\ mails' = mails /\ doubtful' = doubtful \union Stale
    BY <1>3, ClaimStep
  <2>2. r \notin doubtful /\ r \notin Stale
    BY <2>1
  <2>3. /\ ~Holds(w, r) /\ ~Finishes(w, r) /\ ~Finishes(w, r)'
        /\ Holds(w, r)' <=> r \in worker'[w].batch
        /\ \A v \in Workers \ {w} : /\ Holds(v, r)' <=> Holds(v, r)
                                    /\ Finishes(v, r)' <=> Finishes(v, r)
    BY <2>1 DEF Holds, Finishes, WorkerInv
  <2>4. CASE r \in worker'[w].batch
    <3>1. outbox[r].status \in {"pending", "failed"} /\ outbox'[r].status = "sending"
      BY <2>1, <2>2, <2>4, ClaimedRow
    <3>2. mails[r] = 0 /\ \A v \in Workers : ~Holds(v, r) /\ ~Finishes(v, r)
      BY <1>1, <2>2, <3>1
    <3>3. \A v \in Workers \ {w} : ~Holds(v, r)' /\ ~Finishes(v, r)'
      BY <2>3, <3>2
    <3>4. QED
      BY <2>1, <2>3, <3>1, <3>2, <3>3
  <2>5. CASE r \notin worker'[w].batch
    <3>1. outbox'[r] = outbox[r]
      BY <2>1, <2>2, <2>5, RecoveredRow
    <3>2. QED
      BY <1>1, <2>1, <2>2, <2>3, <2>5, <3>1
  <2>6. QED
    BY <2>4, <2>5
<1>4. ASSUME NEW w \in Workers, NEW q \in Rows, Take(w, q)
      PROVE  Sure
  <2>1. /\ \A v \in Workers \ {w} : worker'[v] = worker[v]
        /\ q \in worker[w].batch /\ worker'[w].batch = worker[w].batch \ {q}
        /\ worker'[w].row = q
        /\ \/ worker'[w].pc = "send"
           \/ worker'[w].pc = "finalize" /\ worker'[w].outcome = "skipped"
        /\ UNCHANGED <<outbox, mails, doubtful>>
    BY <1>4, TakenWorker
  <2>2. /\ \A v \in Workers \ {w} : /\ Holds(v, r)' <=> Holds(v, r)
                                    /\ Finishes(v, r)' <=> Finishes(v, r)
        /\ Holds(w, r)' \/ Finishes(w, r)' => Holds(w, r)
    BY <2>1 DEF Holds, Finishes
  <2>3. QED
    BY <1>1, <2>1, <2>2
<1>5. ASSUME NEW w \in Workers, NEW accepted \in BOOLEAN, NEW outcome \in {"sent", "failed"},
             Sent(w, accepted, outcome), doubtful \subseteq doubtful',
             outcome = "failed" /\ accepted => worker[w].row \in doubtful'
      PROVE  Sure
  <2>1. /\ \A v \in Workers \ {w} : worker'[v] = worker[v]
        /\ worker[w].pc = "send" /\ worker'[w].pc = "finalize"
        /\ worker'[w].outcome = outcome
        /\ worker'[w].batch = worker[w].batch
        /\ worker'[w].row = worker[w].row
        /\ outbox' = outbox
    BY <1>5, SentWorker
  <2>2. mails'[r] = IF accepted /\ r = worker[w].row THEN mails[r] + 1 ELSE mails[r]
    BY <1>5, SentWorker
  <2>3. r \notin doubtful
    BY <1>5
  <2>4. /\ \A v \in Workers \ {w} : /\ Holds(v, r)' <=> Holds(v, r)
                                    /\ Finishes(v, r)' <=> Finishes(v, r)
        /\ Finishes(w, r)' => r = worker[w].row
        /\ r = worker[w].row => Holds(w, r) /\ ~Holds(w, r)' /\ Finishes(w, r)'
        /\ Holds(w, r)' => Holds(w, r)
    BY <2>1 DEF Holds, Finishes, WorkerInv
  <2>5. CASE r = worker[w].row
    <3>1. mails[r] = 0 /\ outbox[r].status = "sending"
          /\ \A v \in Workers \ {w} : ~Holds(v, r) /\ ~Finishes(v, r)
      BY <1>1, <2>3, <2>4, <2>5
    <3>2. mails'[r] \in {0, 1} /\ (outcome # "sent" => mails'[r] = 0)
      BY <1>5, <2>2, <2>5, <3>1
    <3>3. QED
      BY <2>1, <2>4, <2>5, <3>1, <3>2
  <2>6. CASE r # worker[w].row
    BY <1>1, <2>1, <2>2, <2>3, <2>4, <2>6
  <2>7. QED
    BY <2>5, <2>6
<1>6. ASSUME NEW w \in Workers, ProviderAccepts(w) \/ ProviderRefuses(w) \/ AnswerLost(w)
      PROVE  Sure
  BY <1>5, <1>6 DEF ProviderAccepts, ProviderRefuses, AnswerLost
<1>7. ASSUME NEW w \in Workers, Finalize(w) \/ FinalizeLost(w)
      PROVE  Sure
  <2>1. /\ \A v \in Workers \ {w} : worker'[v] = worker[v]
        /\ worker'[w].pc \in {"idle", "loop"} /\ worker'[w].batch = worker[w].batch
        /\ worker[w].pc = "finalize" /\ mails' = mails /\ doubtful' = doubtful
    BY <1>7, ContinuedWorker DEF Finalize, FinalizeLost
  <2>2. /\ \A v \in Workers \ {w} : /\ Holds(v, r)' <=> Holds(v, r)
                                    /\ Finishes(v, r)' <=> Finishes(v, r)
        /\ ~Finishes(w, r)'
        /\ Holds(w, r)' <=> Holds(w, r)
    BY <2>1 DEF Holds, Finishes
  <2>3. CASE Finalize(w) /\ worker[w].row = r
    <3>1. Finishes(w, r) /\ ~Holds(w, r)
      BY <2>1, <2>3 DEF Finishes, Holds, WorkerInv
    <3>2. outbox'[r].status = worker[w].outcome
      BY <1>1, <2>1, <2>3, <3>1, FinalizeStep
    <3>3. \A v \in Workers : ~Holds(v, r)' /\ ~Finishes(v, r)'
      BY <1>1, <2>1, <2>2, <3>1
    <3>4. QED
      BY <1>1, <2>1, <3>1, <3>2, <3>3
  <2>4. CASE ~(Finalize(w) /\ worker[w].row = r)
    <3>1. outbox'[r].status = outbox[r].status
      BY <1>7, <2>4, FinalizeStep DEF FinalizeLost
    <3>2. QED
      BY <1>1, <2>1, <2>2, <3>1
  <2>5. QED
    BY <2>3, <2>4
<1>8. ASSUME NEW w \in Workers, Crash(w)
      PROVE  Sure
  <2>1. /\ \A v \in Workers \ {w} : /\ Holds(v, r)' <=> Holds(v, r)
                                    /\ Finishes(v, r)' <=> Finishes(v, r)
                                    /\ worker'[v] = worker[v]
        /\ ~Finishes(w, r)' /\ ~Holds(w, r)'
        /\ UNCHANGED <<outbox, mails, doubtful>>
    BY <1>8, CrashedWorker DEF Holds, Finishes
  <2>2. QED
    BY <1>1, <2>1
<1>9. ASSUME NEW q \in Rows, ClaimGetsStale(q) \/ BackoffEnds(q)
      PROVE  Sure
  <2>1. /\ outbox'[r].status = outbox[r].status
        /\ UNCHANGED <<worker, mails, doubtful>>
    BY <1>9, TimeStep
  <2>2. \A v \in Workers : /\ Holds(v, r)' <=> Holds(v, r)
                           /\ Finishes(v, r)' <=> Finishes(v, r)
    BY <2>1 DEF Holds, Finishes
  <2>3. QED
    BY <1>1, <2>1, <2>2
<1>10. ASSUME UNCHANGED vars
       PROVE  Sure
  <2>1. \A v \in Workers : /\ Holds(v, r)' <=> Holds(v, r)
                           /\ Finishes(v, r)' <=> Finishes(v, r)
    BY <1>10 DEF vars, Holds, Finishes
  <2>2. UNCHANGED <<outbox, worker, mails, doubtful>>
    BY <1>10 DEF vars
  <2>3. QED
    BY <1>1, <2>1, <2>2
<1> HIDE DEF Sure
<1>11. Sure
  BY <1>3, <1>4, <1>6, <1>7, <1>8, <1>9, <1>10 DEF Next
<1>12. QED
  BY <1>11 DEF Sure
-----------------------------------------------------------------------------
(* Theorems.                                                               *)

LEMMA InitIInv == Init => IInv
<1> SUFFICES ASSUME Init PROVE IInv
  OBVIOUS
<1>1. TypeOK /\ WorkerInv
  BY InitTypes
<1>2. /\ \A w \in Workers : worker[w] = Idle
      /\ \A r \in Rows : /\ mails[r] = 0
                         /\ outbox[r].status = "pending" /\ outbox[r].attempts = 0
  BY DEF Init
<1>3. \A w \in Workers : worker[w].pc = "idle" /\ worker[w].batch = {}
  BY <1>2 DEF Idle
<1>4. AcceptInv
  BY <1>2, <1>3 DEF AcceptInv, SentIsAccepted
<1>5. \A r : \A w \in Workers : ~Holds(w, r) /\ ~Finishes(w, r)
  BY <1>3 DEF Holds, Finishes
<1>6. \A r : Holders(r) = {}
  BY <1>5 DEF Holders
<1>7. AttemptInv
  BY <1>2, <1>6, FS_EmptySet DEF AttemptInv
<1>8. SureInv
  BY <1>2, <1>5 DEF SureInv
<1>9. QED
  BY <1>1, <1>4, <1>7, <1>8 DEF IInv

\* IInv holds in every reachable state.
THEOREM Invariance == Spec => []IInv
<1>1. Init => IInv
  BY InitIInv
<1>2. IInv /\ [Next]_vars => IInv'
  BY TypesPreserved, AcceptPreserved, AttemptsPreserved, SurePreserved DEF IInv
<1>3. QED
  BY <1>1, <1>2, PTL DEF Spec

\* Every variable keeps its type; no row is claimed more than MaxAttempts
\* times by any number of workers (claim_notification_email_outbox).
THEOREM TypeCorrect == Spec => []TypeOK
<1>1. IInv => TypeOK
  BY DEF IInv
<1>2. QED
  BY <1>1, Invariance, PTL

\* A row says sent only when the provider has accepted its mail, whoever
\* reports it (finalize_notification_email_outbox).
THEOREM SentWasAccepted == Spec => []SentIsAccepted
<1>1. IInv => SentIsAccepted
  BY DEF IInv, AcceptInv
<1>2. QED
  BY <1>1, Invariance, PTL

\* However claims are lost, taken back and finished late, a row is mailed at
\* most once per claim, and so never more than MaxAttempts times
\* (processNotificationEmailOutbox).
THEOREM MailsAreCounted == Spec => []MailsWithinAttempts
<1>1. IInv => MailsWithinAttempts
  <2> SUFFICES ASSUME IInv, NEW r \in Rows PROVE mails[r] <= outbox[r].attempts
    BY DEF MailsWithinAttempts
  <2>1. mails[r] \in Nat /\ outbox[r].attempts \in Nat
    BY TypeOKRecords DEF IInv, OutboxRow
  <2>2. mails[r] + Cardinality(Holders(r)) <= outbox[r].attempts
    BY DEF IInv, AttemptInv
  <2>3. QED
    BY <2>1, <2>2, HoldersFinite
<1>2. QED
  BY <1>1, Invariance, PTL

\* A second mail needs a claim that was taken back, or an accepted call that
\* failed for the worker (sendViaResend, recover_stale_...).
THEOREM SecondMailIsDoubtful == Spec => []OneMailUnlessDoubtful
<1>1. IInv => OneMailUnlessDoubtful
  BY DEF IInv, SureInv, OneMailUnlessDoubtful
<1>2. QED
  BY <1>1, Invariance, PTL

\* No step changes the status of a row that is sent or skipped: neither a
\* claim nor the late answer of a worker that has lost its claim.
THEOREM SettledIsFinal == Spec => SettledStaysSettled
<1> DEFINE Kept == \A r \in Rows : outbox[r].status \in {"sent", "skipped"}
                                      => outbox'[r].status = outbox[r].status
<1>1. IInv /\ [Next]_vars => Kept
  <2> SUFFICES ASSUME IInv, [Next]_vars, NEW r \in Rows,
                      outbox[r].status \in {"sent", "skipped"}
               PROVE  outbox'[r].status = outbox[r].status
    OBVIOUS
  <2>1. TypeOK /\ WorkerInv
    BY DEF IInv
  <2>2. ASSUME NEW w \in Workers, NEW limit \in 1..Cardinality(Rows), NEW key \in BOOLEAN,
               Claim(w, limit, key)
        PROVE  outbox'[r].status = outbox[r].status
    <3>1. /\ outbox' = [q \in Rows |-> IF q \in worker'[w].batch THEN Claimed(q)
                                       ELSE Recovered(q)]
          /\ worker'[w].batch \subseteq Claimable
      BY <2>1, <2>2, ClaimStep
    <3>2. r \notin Stale
      BY DEF Stale
    <3>3. r \notin Claimable
      BY <2>1, <3>2, ClaimedRow
    <3>4. QED
      BY <2>1, <3>1, <3>2, <3>3, RecoveredRow
  <2>3. ASSUME NEW w \in Workers, NEW q \in Rows, Take(w, q)
        PROVE  outbox'[r].status = outbox[r].status
    BY <2>3 DEF Take
  <2>4. ASSUME NEW w \in Workers,
               \/ ProviderAccepts(w) \/ ProviderRefuses(w) \/ AnswerLost(w)
               \/ FinalizeLost(w) \/ Crash(w)
        PROVE  outbox'[r].status = outbox[r].status
    BY <2>4 DEF ProviderAccepts, ProviderRefuses, AnswerLost, Sent, FinalizeLost, Crash
  <2>5. ASSUME NEW w \in Workers, Finalize(w)
        PROVE  outbox'[r].status = outbox[r].status
    BY <2>1, <2>5, FinalizeStep
  <2>6. ASSUME NEW q \in Rows, ClaimGetsStale(q) \/ BackoffEnds(q)
        PROVE  outbox'[r].status = outbox[r].status
    BY <2>1, <2>6, TimeStep
  <2>7. CASE UNCHANGED vars
    BY <2>7 DEF vars
  <2>8. QED
    BY <2>2, <2>3, <2>4, <2>5, <2>6, <2>7 DEF Next
<1>2. IInv /\ [Next]_vars => [Kept]_vars
  BY <1>1
<1>3. Spec => [][Kept]_vars
  BY <1>2, Invariance, PTL DEF Spec
<1>4. QED
  BY <1>3 DEF SettledStaysSettled
=============================================================================
