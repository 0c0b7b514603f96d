--------------------------- MODULE Notifications ----------------------------
(***************************************************************************)
(* The operator notifications: durable rows, one per recipient and dedupe  *)
(* key, and beside them a counter per member that triggers keep equal to   *)
(* the number of unread rows.  An event is fanned out to its recipients in *)
(* one transaction (that of the visitor's message, the assignment, ...);   *)
(* members mark one notification or all of them read.                      *)
(*                                                                         *)
(* Transactions are READ COMMITTED; an action is what one does up to its   *)
(* next wait for a row lock, and its writes become visible when it commits.*)
(***************************************************************************)
EXTENDS Integers, FiniteSets, RowLocks

CONSTANTS
    Members,    \* workspace_members rows, the recipients
    Keys,       \* dedupe keys of events
    Txns        \* transactions that may be in progress at once

KeysAssumption == IsFiniteSet(Keys)

VARIABLES
    row,        \* row[m][k]: the committed notification of event k to m
    unread,     \* unread[m]: the committed notification_unread_counts row
    txn         \* txn[t]: the transaction in slot t

vars == <<row, unread, txn>>
-----------------------------------------------------------------------------
\* rows: the notifications t has written or locked; counters: the counter rows
\* it has locked; todo: what its loop or its UPDATE has yet to reach.
NoTxn == [kind |-> "none", pc |-> "idle", todo |-> {}, rows |-> {}, counters |-> {}]

RowLocked(t, n)     == \E u \in Txns \ {t} : n \in txn[u].rows
CounterLocked(t, m) == \E u \in Txns \ {t} : m \in txn[u].counters

Unread(m) == {k \in Keys : row[m][k] = "unread"}

Init ==
    /\ row = [m \in Members |-> [k \in Keys |-> "absent"]]
    /\ unread = [m \in Members |-> 0]
    /\ txn = [t \in Txns |-> NoTxn]

Start(t, kind, pc, todo, counters) ==
    /\ txn[t].kind = "none"
    /\ txn' = [txn EXCEPT ![t] = [kind |-> kind, pc |-> pc, todo |-> todo,
                                  rows |-> {}, counters |-> counters]]
    /\ UNCHANGED <<row, unread>>

\* The writes of t: the rows it has written get the value v.
Written(t, v) ==
    [m \in Members |-> [k \in Keys |->
        IF <<m, k>> \in txn[t].rows THEN v ELSE row[m][k]]]

Commit(t, v, counts) ==
    /\ row' = Written(t, v)
    /\ unread' = counts
    /\ txn' = [txn EXCEPT ![t] = NoTxn]

Abort(t) ==
    /\ txn' = [txn EXCEPT ![t] = NoTxn]
    /\ UNCHANGED <<row, unread>>

Adjusted(t, delta) ==
    [m \in Members |->
        IF m \in txn[t].counters
        THEN IF unread[m] + delta < 0 THEN 0 ELSE unread[m] + delta
        ELSE unread[m]]
-----------------------------------------------------------------------------
(* emit_notification for each recipient of an event, in no stated order.   *)

BeginEmit(t, k, recipients) ==
    Start(t, "emit", "row", recipients \X {k}, {})

\* INSERT ... ON CONFLICT DO NOTHING: waits for a transaction that inserts
\* the same key, and leaves a row that is there.
InsertRow(t, n) ==
    /\ txn[t].kind = "emit" /\ txn[t].pc = "row"
    /\ n \in txn[t].todo
    /\ ~RowLocked(t, n) \/ row[n[1]][n[2]] # "absent"
    /\ IF row[n[1]][n[2]] = "absent"
       THEN txn' = [txn EXCEPT ![t].rows = @ \union {n}, ![t].pc = "counter"]
       ELSE txn' = [txn EXCEPT ![t].todo = @ \ {n}]
    /\ UNCHANGED <<row, unread>>

\* The AFTER INSERT trigger locks and increments the recipient's counter.
IncrementCounter(t, n) ==
    /\ txn[t].kind = "emit" /\ txn[t].pc = "counter"
    /\ n \in txn[t].todo \intersect txn[t].rows
    /\ ~CounterLocked(t, n[1])
    /\ txn' = [txn EXCEPT ![t].counters = @ \union {n[1]},
                          ![t].todo = @ \ {n}, ![t].pc = "row"]
    /\ UNCHANGED <<row, unread>>

CommitEmit(t) ==
    /\ txn[t].kind = "emit" /\ txn[t].pc = "row"
    /\ txn[t].todo = {}
    /\ Commit(t, "unread", Adjusted(t, 1))
-----------------------------------------------------------------------------
(* mark_notification_read. *)

BeginMarkOne(t, n) ==
    /\ row[n[1]][n[2]] # "absent"
    /\ Start(t, "one", "row", {n}, {})

\* Fault: the UPDATE does not look at read_at.
LockAnyRow(t, n) ==
    /\ txn[t].kind = "one" /\ txn[t].pc = "row"
    /\ n \in txn[t].todo
    /\ ~RowLocked(t, n)
    /\ txn' = [txn EXCEPT ![t].rows = {n}, ![t].pc = "counter"]
    /\ UNCHANGED <<row, unread>>

\* Fault: a mark that finds the row read already tries again, until it is not.
LockUnreadRow(t, n) ==
    /\ txn[t].kind = "one" /\ txn[t].pc = "row"
    /\ n \in txn[t].todo
    /\ ~RowLocked(t, n)
    /\ IF row[n[1]][n[2]] = "unread"
       THEN txn' = [txn EXCEPT ![t].rows = {n}, ![t].pc = "counter"]
       ELSE UNCHANGED txn
    /\ UNCHANGED <<row, unread>>

\* UPDATE ... WHERE read_at IS NULL; nothing to do when it is read already.
LockRow(t, n) ==
    /\ txn[t].kind = "one" /\ txn[t].pc = "row"
    /\ n \in txn[t].todo
    /\ ~RowLocked(t, n)
    /\ IF row[n[1]][n[2]] = "unread"
       THEN txn' = [txn EXCEPT ![t].rows = {n}, ![t].pc = "counter"]
       ELSE txn' = [txn EXCEPT ![t] = NoTxn]
    /\ UNCHANGED <<row, unread>>

\* The AFTER UPDATE trigger decrements the counter; the transaction commits.
DecrementCounter(t, n) ==
    /\ txn[t].kind = "one" /\ txn[t].pc = "counter"
    /\ n \in txn[t].rows
    /\ ~CounterLocked(t, n[1])
    /\ row' = Written(t, "read")
    /\ unread' = [unread EXCEPT ![n[1]] = IF @ > 0 THEN @ - 1 ELSE 0]
    /\ txn' = [txn EXCEPT ![t] = NoTxn]
-----------------------------------------------------------------------------
(* mark_all_notifications_read. *)

\* SELECT ... FOR UPDATE on the counter; the UPDATE of the rows that are
\* unread now starts.
BeginMarkAll(t, m) ==
    /\ ~CounterLocked(t, m)
    /\ Start(t, "all", "row", {m} \X Unread(m), {m})

\* The UPDATE reaches the next row, waits for its lock, looks at it again.
MarkRow(t, n) ==
    /\ txn[t].kind = "all"
    /\ n \in txn[t].todo
    /\ ~RowLocked(t, n)
    /\ txn' = [txn EXCEPT ![t].todo = @ \ {n},
                 ![t].rows = IF row[n[1]][n[2]] = "unread" THEN @ \union {n} ELSE @]
    /\ UNCHANGED <<row, unread>>

\* The counter is set to the number of rows still unread.
Reconciled(t) ==
    [m \in Members |->
        IF m \in txn[t].counters
        THEN Cardinality({k \in Unread(m) : <<m, k>> \notin txn[t].rows})
        ELSE unread[m]]

CommitMarkAll(t) ==
    /\ txn[t].kind = "all"
    /\ txn[t].todo = {}
    /\ Commit(t, "read", Reconciled(t))
-----------------------------------------------------------------------------
\* The row locks t may be waiting for.
WaitsFor(t, u) ==
    /\ t # u
    /\ \/ /\ txn[t].pc = "row"
          /\ \E n \in txn[t].todo \intersect txn[u].rows :
                txn[t].kind = "emit" => row[n[1]][n[2]] = "absent"
       \/ /\ txn[t].pc = "counter"
          /\ \E n \in txn[t].rows :
                /\ txn[t].kind = "one" \/ n \in txn[t].todo
                /\ n[1] \in txn[u].counters

BreakDeadlock(t) ==
    /\ InCircle(t, Txns, {w \in Txns \X Txns : WaitsFor(w[1], w[2])})
    /\ Abort(t)

Step(t) ==
    \/ \E n \in Members \X Keys :
            \/ InsertRow(t, n)
            \/ IncrementCounter(t, n)
            \/ LockRow(t, n)
            \/ DecrementCounter(t, n)
            \/ MarkRow(t, n)
    \/ CommitEmit(t)
    \/ CommitMarkAll(t)

Next ==
    \/ \E t \in Txns, k \in Keys, recipients \in (SUBSET Members) \ {{}} :
            BeginEmit(t, k, recipients)
    \/ \E t \in Txns, n \in Members \X Keys : BeginMarkOne(t, n)
    \/ \E t \in Txns, m \in Members : BeginMarkAll(t, m)
    \/ \E t \in Txns : Step(t)
    \/ \E t \in Txns : BreakDeadlock(t)

Spec == Init /\ [][Next]_vars

\* Row locks are handed on in turn, so that a transaction that waits for one
\* again and again gets it (strong fairness).
Fairness == \A t \in Txns : SF_vars(Step(t)) /\ WF_vars(BreakDeadlock(t))

FairSpec == Spec /\ Fairness
-----------------------------------------------------------------------------
(* Properties. *)

\* Every variable has the type of the rows and transactions of the code.
TypeOK ==
    /\ row \in [Members -> [Keys -> {"absent", "unread", "read"}]]
    /\ unread \in [Members -> 0..Cardinality(Keys)]
    /\ txn \in [Txns -> [kind : {"none", "emit", "one", "all"},
                         pc : {"idle", "row", "counter"},
                         todo : SUBSET (Members \X Keys),
                         rows : SUBSET (Members \X Keys),
                         counters : SUBSET Members]]

\* The counter is the number of unread notifications, whatever overlaps: the
\* triggers' increments and decrements and the recount of mark-all.
CounterIsExact == \A m \in Members : unread[m] = Cardinality(Unread(m))

\* Every transaction ends: a mark locks a row and then the counter, a mark-all
\* the counter and then the rows, an event the counters of its recipients in
\* any order; the database breaks the circles.
EveryTransactionEnds == \A t \in Txns : []<>(txn[t].kind = "none")
=============================================================================
