------------------------- MODULE NotificationsProofs -------------------------
(***************************************************************************)
(* Proofs about Notifications, for any members, transactions and finitely  *)
(* many keys, and about TabElection, for any finitely many tabs; alone,    *)
(* and next to each other in the behaviours of MCProgress.                 *)
(*                                                                         *)
(* A transaction has locked the counter of every member whose rows it is   *)
(* about to make unread, and knows of each row it has locked whether it    *)
(* counts; so what it does to the counter is what it does to the rows.     *)
(***************************************************************************)
EXTENDS MCProgress, FiniteSetTheorems, TLAPS

TxnType == [kind : {"none", "emit", "one", "all"}, pc : {"idle", "row", "counter"},
            todo : SUBSET (Members \X Keys), rows : SUBSET (Members \X Keys),
            counters : SUBSET Members]

\* What a transaction x knows of the committed rows r.
Local(x, r) ==
    /\ x.kind = "none" => x.rows = {} /\ x.counters = {}
    /\ x.kind = "emit" =>
          /\ \A n \in x.rows : r[n[1]][n[2]] = "absent"
          /\ \A n, k \in x.rows \union x.todo : n[2] = k[2]
          /\ \A m \in Members : m \in x.counters <=> \E n \in x.rows \ x.todo : n[1] = m
          /\ x.pc = "row" => x.rows \intersect x.todo = {}
          /\ \A n, k \in x.rows \intersect x.todo : n = k
    /\ x.kind = "one" =>
          /\ x.counters = {}
          /\ \A n, k \in x.rows : n = k
          /\ \A n \in x.rows : r[n[1]][n[2]] = "unread"
    /\ x.kind = "all" => \A n \in x.rows \union x.todo : n[1] \in x.counters

\* No two transactions have locked the same row.
LocksInv ==
    \A t, u \in Txns : t # u => /\ txn[t].rows \intersect txn[u].rows = {}
                                /\ txn[t].counters \intersect txn[u].counters = {}

IInv ==
    /\ TypeOK
    /\ LocksInv
    /\ \A t \in Txns : Local(txn[t], row)
    /\ CounterIsExact
-----------------------------------------------------------------------------
(* Counting.                                                               *)

LEMMA UnreadIsFinite ==
    ASSUME KeysAssumption, NEW m \in Members
    PROVE  /\ IsFiniteSet(Unread(m)) /\ Cardinality(Unread(m)) \in Nat
           /\ Cardinality(Unread(m)) \in 0..Cardinality(Keys)
           /\ Cardinality(Unread(m)) = 0 <=> Unread(m) = {}
<1>1. Unread(m) \subseteq Keys /\ IsFiniteSet(Keys)
  BY DEF Unread, KeysAssumption
<1>2. IsFiniteSet(Unread(m)) /\ Cardinality(Unread(m)) <= Cardinality(Keys)
  BY <1>1, FS_Subset
<1>3. Cardinality(Unread(m)) \in Nat /\ Cardinality(Keys) \in Nat
  BY <1>1, <1>2, FS_CardinalityType
<1>4. Cardinality(Unread(m)) = 0 <=> Unread(m) = {}
  BY <1>2, FS_EmptySet
<1> QED  BY <1>2, <1>3, <1>4

LEMMA InitInv == KeysAssumption /\ Init => IInv
<1> SUFFICES ASSUME KeysAssumption, Init PROVE IInv
  OBVIOUS
<1>1. \A m \in Members : unread[m] = Cardinality(Unread(m))
  <2> SUFFICES ASSUME NEW m \in Members PROVE unread[m] = Cardinality(Unread(m))
    OBVIOUS
  <2>1. Unread(m) = {}
    BY DEF Init, Unread
  <2> QED  BY <2>1, FS_EmptySet DEF Init
<1>2. TypeOK
  <2>1. \A m \in Members : unread[m] \in 0..Cardinality(Keys)
    BY <1>1, UnreadIsFinite
  <2>2. unread \in [Members -> 0..Cardinality(Keys)]
    BY <2>1 DEF Init
  <2> QED  BY <2>2 DEF Init, TypeOK, NoTxn
<1>3. \A t \in Txns : Local(txn[t], row) /\ txn[t].rows = {} /\ txn[t].counters = {}
  BY DEF Init, NoTxn, Local
<1>4. LocksInv
  BY <1>3 DEF LocksInv
<1> QED  BY <1>1, <1>2, <1>3, <1>4 DEF IInv, CounterIsExact

-----------------------------------------------------------------------------
(* Transactions that do not commit: the rows and the counters stay.        *)

LEMMA Moves ==
    ASSUME IInv, NEW t \in Txns, NEW x \in TxnType,
           txn' = [txn EXCEPT ![t] = x], UNCHANGED <<row, unread>>,
           Local(x, row),
           \A u \in Txns \ {t} : /\ x.rows \intersect txn[u].rows = {}
                                 /\ x.counters \intersect txn[u].counters = {}
    PROVE  IInv'
<1>1. /\ txn' \in [Txns -> TxnType] /\ txn'[t] = x
      /\ \A u \in Txns \ {t} : txn'[u] = txn[u]
  BY DEF IInv, TypeOK, TxnType
<1>2. TypeOK'
  BY <1>1 DEF IInv, TypeOK, TxnType
<1>3. LocksInv'
  BY <1>1 DEF IInv, LocksInv
<1>4. \A u \in Txns : Local(txn'[u], row)
  BY <1>1 DEF IInv
<1>5. CounterIsExact'
  BY DEF IInv, CounterIsExact, Unread
<1> QED  BY <1>2, <1>3, <1>4, <1>5 DEF IInv, Local

LEMMA StartInv ==
    ASSUME IInv, NEW t \in Txns, NEW kind \in {"emit", "one", "all"},
           NEW todo \in SUBSET (Members \X Keys), NEW counters \in SUBSET Members,
           Start(t, kind, "row", todo, counters),
           kind # "all" => counters = {},
           kind = "emit" => \A n, k \in todo : n[2] = k[2],
           kind = "all" => \A n \in todo : n[1] \in counters,
           \A u \in Txns \ {t} : counters \intersect txn[u].counters = {}
    PROVE  IInv'
<1> DEFINE x == [kind |-> kind, pc |-> "row", todo |-> todo, rows |-> {}, counters |-> counters]
<1>1. x \in TxnType /\ x.rows = {} /\ x.counters = counters
  BY DEF TxnType
<1>2. Local(x, row)
  BY DEF Local
<1>3. txn' = [txn EXCEPT ![t] = x] /\ UNCHANGED <<row, unread>>
  BY DEF Start
<1> HIDE DEF x
<1> QED  BY <1>1, <1>2, <1>3, Moves

LEMMA EndInv ==
    ASSUME IInv, NEW t \in Txns, txn' = [txn EXCEPT ![t] = NoTxn], UNCHANGED <<row, unread>>
    PROVE  IInv'
<1>1. NoTxn \in TxnType /\ NoTxn.rows = {} /\ NoTxn.counters = {} /\ Local(NoTxn, row)
  BY DEF NoTxn, TxnType, Local
<1> QED  BY <1>1, Moves

LEMMA BeginEmitInv ==
    ASSUME IInv, NEW t \in Txns, NEW k \in Keys, NEW recipients \in (SUBSET Members) \ {{}},
           BeginEmit(t, k, recipients)
    PROVE  IInv'
<1>1. recipients \X {k} \in SUBSET (Members \X Keys)
  OBVIOUS
<1>2. \A n, j \in recipients \X {k} : n[2] = j[2]
  OBVIOUS
<1> QED  BY <1>1, <1>2, StartInv DEF BeginEmit

LEMMA BeginMarkOneInv ==
    ASSUME IInv, NEW t \in Txns, NEW n \in Members \X Keys, BeginMarkOne(t, n)
    PROVE  IInv'
BY StartInv DEF BeginMarkOne

LEMMA BeginMarkAllInv ==
    ASSUME IInv, NEW t \in Txns, NEW m \in Members, BeginMarkAll(t, m)
    PROVE  IInv'
<1>1. {m} \X Unread(m) \in SUBSET (Members \X Keys)
  BY DEF Unread
<1>2. \A u \in Txns \ {t} : {m} \intersect txn[u].counters = {}
  BY DEF BeginMarkAll, CounterLocked
<1> QED  BY <1>1, <1>2, StartInv DEF BeginMarkAll

LEMMA InsertRowInv ==
    ASSUME IInv, NEW t \in Txns, NEW n \in Members \X Keys, InsertRow(t, n)
    PROVE  IInv'
<1> DEFINE y == txn[t]
<1>1. /\ y \in TxnType /\ Local(y, row) /\ y.kind = "emit" /\ y.pc = "row" /\ n \in y.todo
      /\ UNCHANGED <<row, unread>>
  BY DEF InsertRow, IInv, TypeOK, TxnType
<1>2. \A u \in Txns \ {t} : /\ y.rows \intersect txn[u].rows = {}
                            /\ y.counters \intersect txn[u].counters = {}
  BY DEF IInv, LocksInv
<1>3. CASE row[n[1]][n[2]] = "absent"
  <2> DEFINE x == [y EXCEPT !.rows = y.rows \union {n}, !.pc = "counter"]
  <2>1. /\ x \in TxnType /\ x.kind = "emit" /\ x.pc = "counter" /\ x.todo = y.todo
        /\ x.rows = y.rows \union {n} /\ x.counters = y.counters
    BY <1>1 DEF TxnType
  <2>2. txn' = [txn EXCEPT ![t] = x]
    BY <1>1, <1>3 DEF InsertRow, IInv, TypeOK
  <2> HIDE DEF x, y
  <2>3. Local(x, row)
    BY <1>1, <1>3, <2>1 DEF Local
  <2>4. \A u \in Txns \ {t} : n \notin txn[u].rows
    BY <1>3 DEF InsertRow, RowLocked
  <2>5. \A u \in Txns \ {t} : /\ x.rows \intersect txn[u].rows = {}
                              /\ x.counters \intersect txn[u].counters = {}
    BY <1>2, <2>1, <2>4
  <2> QED  BY <1>1, <2>1, <2>2, <2>3, <2>5, Moves
<1>4. CASE row[n[1]][n[2]] # "absent"
  <2> DEFINE x == [y EXCEPT !.todo = y.todo \ {n}]
  <2>1. /\ x \in TxnType /\ x.kind = "emit" /\ x.pc = "row" /\ x.todo = y.todo \ {n}
        /\ x.rows = y.rows /\ x.counters = y.counters
    BY <1>1 DEF TxnType
  <2>2. txn' = [txn EXCEPT ![t] = x]
    BY <1>1, <1>4 DEF InsertRow, IInv, TypeOK
  <2> HIDE DEF x, y
  <2>3. Local(x, row)
    BY <1>1, <1>4, <2>1 DEF Local
  <2> QED  BY <1>1, <1>2, <2>1, <2>2, <2>3, Moves
<1> QED  BY <1>3, <1>4

LEMMA IncrementCounterInv ==
    ASSUME IInv, NEW t \in Txns, NEW n \in Members \X Keys, IncrementCounter(t, n)
    PROVE  IInv'
<1> DEFINE y == txn[t]
           x == [y EXCEPT !.counters = y.counters \union {n[1]}, !.todo = y.todo \ {n}, !.pc = "row"]
<1>1. /\ y \in TxnType /\ Local(y, row) /\ y.kind = "emit" /\ n \in y.todo \intersect y.rows
      /\ UNCHANGED <<row, unread>>
  BY DEF IncrementCounter, IInv, TypeOK, TxnType
<1>2. \A u \in Txns \ {t} : /\ y.rows \intersect txn[u].rows = {}
                            /\ y.counters \intersect txn[u].counters = {}
  BY DEF IInv, LocksInv
<1>3. /\ x \in TxnType /\ x.kind = "emit" /\ x.pc = "row" /\ x.todo = y.todo \ {n}
      /\ x.rows = y.rows /\ x.counters = y.counters \union {n[1]}
  BY <1>1 DEF TxnType
<1>4. txn' = [txn EXCEPT ![t] = x]
  BY <1>1 DEF IncrementCounter, IInv, TypeOK
<1>5. \A u \in Txns \ {t} : n[1] \notin txn[u].counters
  BY DEF IncrementCounter, CounterLocked
<1> HIDE DEF x, y
<1>6. Local(x, row)
  <2>1. x.rows \intersect x.todo = {}
    BY <1>1, <1>3 DEF Local
  <2>2. x.rows \ x.todo = (y.rows \ y.todo) \union {n}
    BY <1>1, <1>3
  <2>3. \A m \in Members : m \in x.counters <=> \E k \in x.rows \ x.todo : k[1] = m
    BY <1>1, <1>3, <2>2 DEF Local
  <2> QED  BY <1>1, <1>3, <2>1, <2>3 DEF Local
<1>7. \A u \in Txns \ {t} : /\ x.rows \intersect txn[u].rows = {}
                            /\ x.counters \intersect txn[u].counters = {}
  BY <1>2, <1>3, <1>5
<1> QED  BY <1>1, <1>3, <1>4, <1>6, <1>7, Moves

LEMMA LockRowInv ==
    ASSUME IInv, NEW t \in Txns, NEW n \in Members \X Keys, LockRow(t, n)
    PROVE  IInv'
<1> DEFINE y == txn[t]
<1>1. /\ y \in TxnType /\ Local(y, row) /\ y.kind = "one" /\ UNCHANGED <<row, unread>>
  BY DEF LockRow, IInv, TypeOK, TxnType
<1>2. CASE row[n[1]][n[2]] = "unread"
  <2> DEFINE x == [y EXCEPT !.rows = {n}, !.pc = "counter"]
  <2>1. /\ x \in TxnType /\ x.kind = "one" /\ x.rows = {n} /\ x.counters = y.counters
    BY <1>1 DEF TxnType
  <2>2. txn' = [txn EXCEPT ![t] = x]
    BY <1>1, <1>2 DEF LockRow, IInv, TypeOK
  <2>3. \A u \in Txns \ {t} : n \notin txn[u].rows /\ y.counters \intersect txn[u].counters = {}
    BY DEF LockRow, RowLocked, IInv, LocksInv
  <2> HIDE DEF x, y
  <2>4. Local(x, row)
    BY <1>1, <1>2, <2>1 DEF Local
  <2>5. \A u \in Txns \ {t} : /\ x.rows \intersect txn[u].rows = {}
                              /\ x.counters \intersect txn[u].counters = {}
    BY <2>1, <2>3
  <2> QED  BY <1>1, <2>1, <2>2, <2>4, <2>5, Moves
<1>3. CASE row[n[1]][n[2]] # "unread"
  BY <1>1, <1>3, EndInv DEF LockRow
<1> QED  BY <1>2, <1>3

LEMMA MarkRowInv ==
    ASSUME IInv, NEW t \in Txns, NEW n \in Members \X Keys, MarkRow(t, n)
    PROVE  IInv'
<1> DEFINE y == txn[t]
           rows == IF row[n[1]][n[2]] = "unread" THEN y.rows \union {n} ELSE y.rows
           x == [y EXCEPT !.todo = y.todo \ {n}, !.rows = rows]
<1>1. /\ y \in TxnType /\ Local(y, row) /\ y.kind = "all" /\ UNCHANGED <<row, unread>>
      /\ n \in y.todo
  BY DEF MarkRow, IInv, TypeOK, TxnType
<1>2. rows \in SUBSET (Members \X Keys) /\ rows \subseteq y.rows \union {n}
  BY <1>1 DEF TxnType
<1>3. txn' = [txn EXCEPT ![t] = x]
  BY <1>1 DEF MarkRow, IInv, TypeOK, TxnType
<1> HIDE DEF rows
<1>4. /\ x \in TxnType /\ x.kind = "all" /\ x.rows = rows /\ x.todo = y.todo \ {n} /\ x.counters = y.counters
  BY <1>1, <1>2 DEF TxnType
<1>5. \A u \in Txns \ {t} : /\ n \notin txn[u].rows /\ y.rows \intersect txn[u].rows = {}
                            /\ y.counters \intersect txn[u].counters = {}
  BY DEF MarkRow, RowLocked, IInv, LocksInv
<1> HIDE DEF x, y
<1>6. Local(x, row)
  BY <1>1, <1>2, <1>4 DEF Local
<1>7. \A u \in Txns \ {t} : /\ x.rows \intersect txn[u].rows = {}
                            /\ x.counters \intersect txn[u].counters = {}
  BY <1>2, <1>4, <1>5
<1> QED  BY <1>1, <1>3, <1>4, <1>6, <1>7, Moves

-----------------------------------------------------------------------------
(* Transactions that commit.                                               *)

LEMMA Commits ==
    ASSUME KeysAssumption, IInv, NEW t \in Txns, NEW v \in {"unread", "read"},
           row' = Written(t, v), txn' = [txn EXCEPT ![t] = NoTxn],
           unread' \in [Members -> Int], CounterIsExact'
    PROVE  IInv'
<1>1. /\ row' \in [Members -> [Keys -> {"absent", "unread", "read"}]]
      /\ \A m \in Members, k \in Keys : <<m, k>> \notin txn[t].rows => row'[m][k] = row[m][k]
  BY DEF Written, IInv, TypeOK
<1>2. /\ txn' \in [Txns -> TxnType] /\ txn'[t] = NoTxn
      /\ \A u \in Txns \ {t} : txn'[u] = txn[u] /\ txn[u] \in TxnType
  <2>1. NoTxn \in TxnType
    BY DEF NoTxn, TxnType
  <2> QED  BY <2>1 DEF IInv, TypeOK, TxnType
<1>3. \A m \in Members : unread'[m] \in 0..Cardinality(Keys)
  <2> SUFFICES ASSUME NEW m \in Members PROVE unread'[m] \in 0..Cardinality(Keys)
    OBVIOUS
  <2>1. Unread(m)' \subseteq Keys /\ IsFiniteSet(Keys)
    BY DEF Unread, KeysAssumption
  <2>2. Cardinality(Unread(m)') \in Nat /\ Cardinality(Unread(m)') <= Cardinality(Keys)
        /\ Cardinality(Keys) \in Nat
    BY <2>1, FS_Subset, FS_CardinalityType
  <2>3. unread'[m] = Cardinality(Unread(m)')
    BY DEF CounterIsExact
  <2> QED  BY <2>2, <2>3
<1>4. TypeOK'
  BY <1>1, <1>2, <1>3 DEF TypeOK, TxnType
<1>5. LocksInv'
  BY <1>2 DEF IInv, LocksInv, NoTxn
<1>6. ASSUME NEW u \in Txns
      PROVE  Local(txn'[u], row')
  <2>1. CASE u = t
    BY <1>2, <2>1 DEF Local, NoTxn
  <2>2. CASE u # t
    <3>1. \A n \in txn[u].rows : n[1] \in Members /\ n[2] \in Keys /\ n = <<n[1], n[2]>>
                                 /\ n \notin txn[t].rows
      BY <1>2, <2>2 DEF TxnType, IInv, LocksInv
    <3>2. \A n \in txn[u].rows : row'[n[1]][n[2]] = row[n[1]][n[2]]
      BY <1>1, <3>1
    <3>3. Local(txn[u], row)
      BY DEF IInv
    <3> QED  BY <1>2, <2>2, <3>2, <3>3 DEF Local
  <2> QED  BY <2>1, <2>2
<1> QED  BY <1>4, <1>5, <1>6 DEF IInv, Local

\* One row of every member whose counter it has locked becomes unread.
LEMMA CommitEmitInv ==
    ASSUME KeysAssumption, IInv, NEW t \in Txns, CommitEmit(t)
    PROVE  IInv'
<1> DEFINE x == txn[t]
<1>1. /\ x.kind = "emit" /\ x.todo = {} /\ x \in TxnType /\ Local(x, row)
      /\ row' = Written(t, "unread") /\ unread' = Adjusted(t, 1)
      /\ txn' = [txn EXCEPT ![t] = NoTxn]
  BY DEF CommitEmit, Commit, IInv, TypeOK, TxnType
<1>2. \A m \in Members : unread[m] = Cardinality(Unread(m)) /\ unread[m] \in Nat
  BY UnreadIsFinite DEF IInv, CounterIsExact
<1>3. ASSUME NEW m \in Members
      PROVE  unread'[m] = Cardinality(Unread(m)')
  <2>1. \A k \in Keys : row'[m][k] = IF <<m, k>> \in x.rows THEN "unread" ELSE row[m][k]
    BY <1>1 DEF Written
  <2>2. CASE m \in x.counters
    <3>1. PICK n \in x.rows : n[1] = m
      BY <1>1, <2>2 DEF Local
    <3>2. n \in Members \X Keys /\ n = <<m, n[2]>> /\ n[2] \in Keys
      BY <1>1, <3>1 DEF TxnType
    <3>3. \A k \in Keys : <<m, k>> \in x.rows <=> k = n[2]
      BY <1>1, <3>1, <3>2 DEF Local
    <3>4. row[m][n[2]] = "absent"
      BY <1>1, <3>1, <3>2 DEF Local
    <3>5. Unread(m)' = Unread(m) \union {n[2]} /\ n[2] \notin Unread(m)
      BY <2>1, <3>2, <3>3, <3>4 DEF Unread
    <3>6. Cardinality(Unread(m)') = Cardinality(Unread(m)) + 1
      BY <3>5, FS_AddElement, UnreadIsFinite
    <3>7. unread'[m] = unread[m] + 1
      BY <1>1, <1>2, <2>2 DEF Adjusted
    <3> QED  BY <1>2, <3>6, <3>7
  <2>3. CASE m \notin x.counters
    <3>1. \A k \in Keys : <<m, k>> \notin x.rows
      BY <1>1, <2>3 DEF Local
    <3>2. Unread(m)' = Unread(m)
      BY <2>1, <3>1 DEF Unread
    <3> QED  BY <1>1, <1>2, <2>3, <3>2 DEF Adjusted
  <2> QED  BY <2>2, <2>3
<1>4. unread' \in [Members -> Int]
  BY <1>1, <1>2 DEF Adjusted
<1> QED  BY <1>1, <1>3, <1>4, Commits DEF CounterIsExact

\* One unread row becomes read.
LEMMA DecrementCounterInv ==
    ASSUME KeysAssumption, IInv, NEW t \in Txns, NEW n \in Members \X Keys, DecrementCounter(t, n)
    PROVE  IInv'
<1> DEFINE x == txn[t]
<1>1. /\ x.kind = "one" /\ n \in x.rows /\ Local(x, row)
      /\ row' = Written(t, "read") /\ txn' = [txn EXCEPT ![t] = NoTxn]
      /\ unread' = [unread EXCEPT ![n[1]] = IF @ > 0 THEN @ - 1 ELSE 0]
  BY DEF DecrementCounter, IInv
<1>2. \A m \in Members : unread[m] = Cardinality(Unread(m)) /\ unread[m] \in Nat
  BY UnreadIsFinite DEF IInv, CounterIsExact
<1>3. n[1] \in Members /\ n[2] \in Keys /\ n = <<n[1], n[2]>>
  OBVIOUS
<1>4. /\ row[n[1]][n[2]] = "unread" /\ \A k \in x.rows : k = n
  BY <1>1 DEF Local
<1>5. \A m \in Members, k \in Keys :
          row'[m][k] = IF <<m, k>> = n THEN "read" ELSE row[m][k]
  BY <1>1, <1>4 DEF Written
<1>6. ASSUME NEW m \in Members
      PROVE  unread'[m] = Cardinality(Unread(m)')
  <2>1. CASE m = n[1]
    <3>1. Unread(m)' = Unread(m) \ {n[2]} /\ n[2] \in Unread(m)
      BY <1>3, <1>4, <1>5, <2>1 DEF Unread
    <3>2. Cardinality(Unread(m)') = Cardinality(Unread(m)) - 1
      <4>1. IsFiniteSet(Unread(m))
        BY UnreadIsFinite
      <4>2. Cardinality(Unread(m) \ {n[2]}) = Cardinality(Unread(m)) - 1
        BY <3>1, <4>1, FS_RemoveElement
      <4> QED  BY <3>1, <4>2
    <3>3. unread[m] > 0
      BY <1>2, <3>1, UnreadIsFinite
    <3>4. unread'[m] = unread[m] - 1
      BY <1>1, <2>1, <3>3 DEF IInv, TypeOK
    <3> QED  BY <1>2, <3>2, <3>4
  <2>2. CASE m # n[1]
    <3>1. Unread(m)' = Unread(m)
      BY <1>3, <1>5, <2>2 DEF Unread
    <3>2. unread'[m] = unread[m]
      BY <1>1, <2>2 DEF IInv, TypeOK
    <3> QED  BY <1>2, <3>1, <3>2
  <2> QED  BY <2>1, <2>2
<1>7. unread' \in [Members -> Int]
  <2>1. unread \in [Members -> Int]
    BY <1>2 DEF IInv, TypeOK
  <2> QED  BY <1>1, <1>3, <2>1
<1> QED  BY <1>1, <1>6, <1>7, Commits DEF CounterIsExact

\* The counter is set to what remains unread.
LEMMA CommitMarkAllInv ==
    ASSUME KeysAssumption, IInv, NEW t \in Txns, CommitMarkAll(t)
    PROVE  IInv'
<1> DEFINE x == txn[t]
<1>1. /\ x.kind = "all" /\ Local(x, row)
      /\ row' = Written(t, "read") /\ unread' = Reconciled(t)
      /\ txn' = [txn EXCEPT ![t] = NoTxn]
  BY DEF CommitMarkAll, Commit, IInv
<1>2. \A m \in Members : unread[m] = Cardinality(Unread(m)) /\ unread[m] \in Nat
  BY UnreadIsFinite DEF IInv, CounterIsExact
<1>3. ASSUME NEW m \in Members
      PROVE  Unread(m)' = {k \in Unread(m) : <<m, k>> \notin x.rows}
  BY <1>1 DEF Written, Unread
<1>4. ASSUME NEW m \in Members
      PROVE  unread'[m] = Cardinality(Unread(m)')
  <2>1. CASE m \in x.counters
    BY <1>1, <1>3, <2>1 DEF Reconciled
  <2>2. CASE m \notin x.counters
    <3>0. \A k \in Keys : <<m, k>> \notin x.rows
      BY <1>1, <2>2 DEF Local
    <3>1. Unread(m)' = Unread(m)
      BY <1>3, <3>0 DEF Unread
    <3> QED  BY <1>1, <1>2, <2>2, <3>1 DEF Reconciled
  <2> QED  BY <2>1, <2>2
<1>5. unread' \in [Members -> Int]
  <2>1. \A m \in Members : unread'[m] \in Nat
    <3> SUFFICES ASSUME NEW m \in Members PROVE Cardinality(Unread(m)') \in Nat
      BY <1>4
    <3>1. Unread(m)' \subseteq Keys /\ IsFiniteSet(Keys)
      BY DEF Unread, KeysAssumption
    <3> QED  BY <3>1, FS_Subset, FS_CardinalityType
  <2> QED  BY <1>1, <2>1 DEF Reconciled
<1> QED  BY <1>1, <1>4, <1>5, Commits DEF CounterIsExact

-----------------------------------------------------------------------------
LEMMA StepInv == KeysAssumption /\ IInv /\ [Next]_vars => IInv'
<1> SUFFICES ASSUME KeysAssumption, IInv, [Next]_vars PROVE IInv'
  OBVIOUS
<1>1. ASSUME NEW t \in Txns, NEW k \in Keys, NEW recipients \in (SUBSET Members) \ {{}},
             BeginEmit(t, k, recipients)
      PROVE  IInv'
  BY <1>1, BeginEmitInv
<1>2. ASSUME NEW t \in Txns, NEW n \in Members \X Keys, BeginMarkOne(t, n)
      PROVE  IInv'
  BY <1>2, BeginMarkOneInv
<1>3. ASSUME NEW t \in Txns, NEW m \in Members, BeginMarkAll(t, m)
      PROVE  IInv'
  BY <1>3, BeginMarkAllInv
<1>4. ASSUME NEW t \in Txns, Step(t)
      PROVE  IInv'
  BY <1>4, InsertRowInv, IncrementCounterInv, LockRowInv, DecrementCounterInv, MarkRowInv,
     CommitEmitInv, CommitMarkAllInv DEF Step
<1>5. ASSUME NEW t \in Txns, BreakDeadlock(t)
      PROVE  IInv'
  BY <1>5, EndInv DEF BreakDeadlock, Abort
<1>6. CASE UNCHANGED vars
  BY <1>6 DEF vars, IInv, TypeOK, LocksInv, Local, CounterIsExact, Unread
<1> QED  BY <1>1, <1>2, <1>3, <1>4, <1>5, <1>6 DEF Next

-----------------------------------------------------------------------------
(* The theorems.                                                           *)

\* The inductive invariant holds in every state.
THEOREM Invariance == ASSUME KeysAssumption PROVE Spec => []IInv
<1>1. Init => IInv
  BY InitInv
<1>2. IInv /\ [Next]_vars => IInv'
  BY StepInv
<1> QED  BY <1>1, <1>2, PTL DEF Spec

\* The rows and transactions keep the types of the code.
THEOREM TypeCorrect == ASSUME KeysAssumption PROVE Spec => []TypeOK
<1>1. IInv => TypeOK
  BY DEF IInv
<1> QED  BY <1>1, Invariance, PTL

\* The counter the triggers and mark-all keep is the number of unread rows,
\* whatever events and marks overlap, of one member or of many.
THEOREM CountersAreExact == ASSUME KeysAssumption PROVE Spec => []CounterIsExact
<1>1. IInv => CounterIsExact
  BY DEF IInv
<1> QED  BY <1>1, Invariance, PTL

-----------------------------------------------------------------------------
(***************************************************************************)
(* The election of a tab.  Only an open tab leads; a write of the lease    *)
(* queues an event for every other open tab, and the tab leads only as     *)
(* long as what it reads is its own.                                       *)
(***************************************************************************)

ElectionInv ==
    /\ Election!TypeOK
    /\ \A t \in Slots : leader[t] => t \in Election!Open
    /\ Election!LeaderHasLease

LEMMA ElectionInit == Election!TabsAssumption /\ Election!Init => ElectionInv
<1> SUFFICES ASSUME Election!TabsAssumption, Election!Init PROVE ElectionInv
  OBVIOUS
<1>1. lease \in [tab : Slots \union {NoTab}, stale : BOOLEAN]
  BY DEF Election!Init, Election!Free
<1>2. leader \in [Slots -> BOOLEAN] /\ \A t \in Slots : ~leader[t]
  BY DEF Election!Init
<1>3. /\ tab \in [Slots -> {"new", "closed", "idle", "read", "write", "verify", "remove"}]
      /\ event \subseteq Election!Open /\ late \in 0..MaxLate
  BY DEF Election!Init, Election!TabsAssumption
<1> QED  BY <1>1, <1>2, <1>3 DEF ElectionInv, Election!TypeOK, Election!LeaderHasLease

\* The steps that change neither the lease nor what another tab is told.
LEMMA OwnStepInv ==
    ASSUME ElectionInv, NEW t \in Slots,
           \/ Election!OpenTab(t) \/ Election!Heartbeat(t) \/ Election!Read(t)
           \/ Election!Verify(t) \/ Election!OnStorage(t) \/ Election!Dispose(t)
           \/ Election!Kill(t)
    PROVE  ElectionInv'
<1>1. /\ tab \in [Slots -> {"new", "closed", "idle", "read", "write", "verify", "remove"}]
      /\ leader \in [Slots -> BOOLEAN] /\ event \subseteq Election!Open
  BY DEF ElectionInv, Election!TypeOK
<1>2. /\ UNCHANGED <<lease, late>>
      /\ \A u \in Slots \ {t} : tab'[u] = tab[u] /\ leader'[u] = leader[u]
      /\ event' = event \/ event' = event \ {t}
  BY <1>1 DEF Election!OpenTab, Election!Heartbeat, Election!Read, Election!Verify,
     Election!OnStorage, Election!Dispose, Election!Kill, Election!Goto, Election!Lead
<1>3. /\ tab' \in [Slots -> {"new", "closed", "idle", "read", "write", "verify", "remove"}]
      /\ leader' \in [Slots -> BOOLEAN]
  BY <1>1 DEF Election!OpenTab, Election!Heartbeat, Election!Read, Election!Verify,
     Election!OnStorage, Election!Dispose, Election!Kill, Election!Goto, Election!Lead
<1>4. \/ t \notin event'
      \/ event' = event /\ t \in Election!Open'
      \/ event' = event /\ t \notin event
  BY <1>1 DEF Election!OpenTab, Election!Heartbeat, Election!Read, Election!Verify,
     Election!OnStorage, Election!Dispose, Election!Kill, Election!Goto, Election!Lead,
     Election!Open
<1>5. event' \subseteq Election!Open'
  BY <1>1, <1>2, <1>4 DEF Election!Open
<1>6. \/ leader'[t] = FALSE
      \/ /\ leader'[t] = (lease.tab = t) /\ t \in Election!Open'
      \/ /\ leader'[t] = leader[t] /\ event' = event
         /\ t \in Election!Open => t \in Election!Open'
  BY <1>1 DEF Election!OpenTab, Election!Heartbeat, Election!Read, Election!Verify,
     Election!OnStorage, Election!Dispose, Election!Kill, Election!Goto, Election!Lead,
     Election!Open
<1>7. \A u \in Slots : leader'[u] => u \in Election!Open'
  BY <1>2, <1>6 DEF ElectionInv, Election!Open
<1>8. \A u \in Slots : leader'[u] => lease.tab = u \/ u \in event'
  BY <1>2, <1>6 DEF ElectionInv, Election!LeaderHasLease
<1> QED  BY <1>2, <1>3, <1>5, <1>7, <1>8 DEF ElectionInv, Election!TypeOK, Election!LeaderHasLease

\* Whoever changes the storage tells the other open tabs.
LEMMA LeaseWrittenInv ==
    ASSUME ElectionInv, NEW t \in Slots, Election!Write(t) \/ Election!Remove(t)
    PROVE  ElectionInv'
<1>1. /\ tab \in [Slots -> {"new", "closed", "idle", "read", "write", "verify", "remove"}]
      /\ leader \in [Slots -> BOOLEAN] /\ event \subseteq Election!Open
  BY DEF ElectionInv, Election!TypeOK
<1>2. /\ UNCHANGED <<leader, late>> /\ event' = event \union (Election!Open \ {t})
      /\ \A u \in Slots \ {t} : tab'[u] = tab[u]
      /\ tab' \in [Slots -> {"new", "closed", "idle", "read", "write", "verify", "remove"}]
  BY <1>1 DEF Election!Write, Election!Remove, Election!Stored, Election!Goto
<1>3. lease' \in [tab : Slots \union {NoTab}, stale : BOOLEAN]
  <2>1. PICK x \in Slots \union {NoTab} : lease' = [tab |-> x, stale |-> FALSE]
    BY DEF Election!Write, Election!Remove, Election!Stored, Election!Free
  <2>2. FALSE \in BOOLEAN
    OBVIOUS
  <2> QED  BY <2>1, <2>2
<1>4. \/ lease'.tab = t /\ t \in Election!Open'
      \/ t \notin Election!Open
  BY <1>1 DEF Election!Write, Election!Remove, Election!Stored, Election!Goto, Election!Open
<1>5. event' \subseteq Election!Open'
  BY <1>1, <1>2, <1>4 DEF Election!Open
<1>6. \A u \in Slots : leader[u] => u \in Election!Open' /\ (lease'.tab = u \/ u \in event')
  BY <1>2, <1>4 DEF ElectionInv, Election!Open
<1> QED  BY <1>1, <1>2, <1>3, <1>5, <1>6
         DEF ElectionInv, Election!TypeOK, Election!LeaderHasLease

LEMMA ElectionStep ==
    Election!TabsAssumption /\ ElectionInv /\ [Election!Next]_Election!vars => ElectionInv'
<1> SUFFICES ASSUME Election!TabsAssumption, ElectionInv, [Election!Next]_Election!vars
             PROVE  ElectionInv'
  OBVIOUS
<1>1. CASE UNCHANGED Election!vars
  BY <1>1 DEF Election!vars, ElectionInv, Election!TypeOK, Election!LeaderHasLease, Election!Open
<1>2. CASE Election!LeaseExpires
  <2>1. /\ UNCHANGED <<tab, leader, event>> /\ lease'.tab = lease.tab
        /\ lease' \in [tab : Slots \union {NoTab}, stale : BOOLEAN]
        /\ late' \in 0..MaxLate
    <3>1. /\ lease \in [tab : Slots \union {NoTab}, stale : BOOLEAN] /\ late \in 0..MaxLate
          /\ MaxLate \in Nat
      BY DEF ElectionInv, Election!TypeOK, Election!TabsAssumption
    <3>2. lease' = [lease EXCEPT !.stale = TRUE] /\ UNCHANGED <<tab, leader, event>>
      BY <1>2 DEF Election!LeaseExpires
    <3>3. lease' \in [tab : Slots \union {NoTab}, stale : BOOLEAN] /\ lease'.tab = lease.tab
      BY <3>1, <3>2
    <3>4. late' = late \/ (late < MaxLate /\ late' = late + 1)
      BY <1>2 DEF Election!LeaseExpires
    <3>5. late' \in 0..MaxLate
      BY <3>1, <3>4
    <3> QED  BY <3>2, <3>3, <3>5
  <2> QED  BY <2>1 DEF ElectionInv, Election!TypeOK, Election!LeaderHasLease, Election!Open
<1> QED  BY <1>1, <1>2, OwnStepInv, LeaseWrittenInv DEF Election!Next, Election!Step

\* TabElection.TypeOK: the lease, the tabs and their events are typed.
THEOREM ElectionTypeCorrect == Election!TabsAssumption => (Election!Spec => []Election!TypeOK)
<1> SUFFICES ASSUME Election!TabsAssumption PROVE Election!Spec => []Election!TypeOK
  OBVIOUS
<1>1. ElectionInv => Election!TypeOK
  BY DEF ElectionInv
<1> QED  BY <1>1, ElectionInit, ElectionStep, PTL DEF Election!Spec
-----------------------------------------------------------------------------
(* The two of them in the behaviours that TLC checks. *)

LEMMA ProgressKinds ==
    ASSUME [AllNext]_allVars
    PROVE  /\ scene' = scene /\ [Next]_vars
           /\ scene = "election" => [Election!Next]_Election!vars
  BY DEF AllNext, allVars, electionVars, Election!vars

\* LeaderHasLease: a tab leads only while the lease is its own, or an event that
\* says otherwise is queued for it, however the tabs' accesses to the storage
\* interleave, tabs are killed and heartbeats are late.
THEOREM LeadersHaveTheLease == AllFairSpec => []LeaderHasLease
<1>1. AllInit => (scene = "election" => ElectionInv)
  BY ElectionInit, ElectionConstants DEF AllInit
<1>2. (scene = "election" => ElectionInv) /\ [AllNext]_allVars => (scene = "election" => ElectionInv)'
  BY ElectionStep, ElectionConstants, ProgressKinds
<1>3. (scene = "election" => ElectionInv) => LeaderHasLease
  BY DEF ElectionInv, LeaderHasLease
<1>4. AllFairSpec => AllSpec
  BY PTL DEF AllFairSpec
<1> QED  BY <1>1, <1>2, <1>3, <1>4, PTL DEF AllSpec

\* CounterIsExact of the same behaviours.
THEOREM CountersStayExact == AllFairSpec => []CounterIsExact
<1>1. AllInit => IInv
  BY InitInv, ServerConstants DEF AllInit
<1>2. IInv /\ [AllNext]_allVars => IInv'
  BY StepInv, ServerConstants, ProgressKinds
<1>3. IInv => CounterIsExact
  BY DEF IInv
<1>4. AllFairSpec => AllSpec
  BY PTL DEF AllFairSpec
<1> QED  BY <1>1, <1>2, <1>3, <1>4, PTL DEF AllSpec

=============================================================================
