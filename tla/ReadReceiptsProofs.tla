------------------------- MODULE ReadReceiptsProofs -------------------------
(***************************************************************************)
(* Proofs about ReadReceipts, for any members, request slots and length of *)
(* the conversation.  The counter is safe because every mark call in       *)
(* progress carries a count that was true of an earlier, shorter log.      *)
(***************************************************************************)
EXTENDS ReadReceipts, FiniteSetTheorems, TLAPS

Count(log, n) == Cardinality(VisitorIn(log, n))

\* The cursor a call leaves in a row that it inserts or advances: the messages
\* after it are what the call has counted.
From(q) == IF q.kind = "read" THEN q.through ELSE 0

\* A call in progress knows no more than the log.  Its count is at most the true
\* one; it is exact while no visitor message has come since.
Sound(q) ==
    /\ q \in RequestType
    /\ q.through <= Len(sender)
    /\ q.seen <= Len(sender)
    /\ q.pc # "idle" => q.kind \in Kinds
    /\ q.pc \in {"row", "count"} => q.unread = 0
    /\ q.pc = "upsert" /\ q.by # {} =>
          /\ q.unread <= Count(sender, From(q))
          /\ VisitorIn(sender, q.seen) = {} => q.unread = Count(sender, From(q))

RequestInv == \A r \in Requests : Sound(request[r])

\* A row that is not there is all zeros.  The rows that a message in progress
\* has bumped exist, and they are all the exact ones.
RowInv ==
    /\ \A m \in Members :
          ~memberReads[m].exists => memberReads[m].read = 0 /\ memberReads[m].delivered = 0
    /\ insertion # NoInsertion => insertion.sender \in Senders /\ Last < MaxSequence
    /\ insertion.bumped # {} => insertion.sender = "visitor"
    /\ \A m \in insertion.bumped : memberReads[m].exists
    /\ insertion.sender = "visitor" =>
          \A m \in Members :
            memberReads[m].exists /\ m \notin overtaken => m \in insertion.bumped

\* The counters, whatever the log.
CounterInv ==
    /\ visitorMessageCount = Count(sender, 0)
    /\ \A m \in Members : memberReads[m].exists =>
          /\ memberReads[m].unread <= Count(sender, memberReads[m].read)
          /\ m \notin overtaken => memberReads[m].unread = Count(sender, memberReads[m].read)

IInv == TypeOK /\ CursorsOrdered /\ RequestInv /\ RowInv /\ CounterInv
-----------------------------------------------------------------------------
(* Counting the visitor messages of a log. *)

LEMMA CountIsNat ==
    ASSUME NEW log \in Seq(Senders), NEW n \in Nat
    PROVE  IsFiniteSet(VisitorIn(log, n)) /\ Count(log, n) \in Nat
<1>1. IsFiniteSet(1..Len(log))
  BY FS_Interval
<1>2. VisitorIn(log, n) \subseteq 1..Len(log)
  BY DEF VisitorIn
<1>3. IsFiniteSet(VisitorIn(log, n))
  BY <1>1, <1>2, FS_Subset
<1>4. QED
  BY <1>3, FS_CardinalityType DEF Count

\* A message raises the number of visitor messages after a cursor by one if it
\* is the visitor's, and leaves it alone otherwise.
LEMMA AppendCounts ==
    ASSUME NEW log \in Seq(Senders), NEW w \in Senders, NEW n \in Nat, n <= Len(log)
    PROVE  /\ Append(log, w) \in Seq(Senders) /\ Len(Append(log, w)) = Len(log) + 1
           /\ w = "visitor" => /\ VisitorIn(Append(log, w), n) # {}
                               /\ Count(Append(log, w), n) = Count(log, n) + 1
           /\ w # "visitor" => /\ VisitorIn(Append(log, w), n) = VisitorIn(log, n)
                               /\ Count(Append(log, w), n) = Count(log, n)
<1> DEFINE new == Append(log, w)
           last == Len(log)
<1>1. last \in Nat /\ new \in Seq(Senders) /\ Len(new) = last + 1
  OBVIOUS
<1>2. (\A k \in 1..last : new[k] = log[k]) /\ new[last + 1] = w
  OBVIOUS
<1> HIDE DEF new, last
<1>3. ASSUME NEW k
      PROVE  /\ k \in VisitorIn(new, n) <=> k \in 1..(last + 1) /\ k > n /\ new[k] = "visitor"
             /\ k \in VisitorIn(log, n) <=> k \in 1..last /\ k > n /\ log[k] = "visitor"
             /\ k \in 1..(last + 1) <=> k \in 1..last \/ k = last + 1
             /\ k = last + 1 => k > n
  <2>1. k \in VisitorIn(new, n) <=> k \in 1..(last + 1) /\ k > n /\ new[k] = "visitor"
    BY <1>1 DEF VisitorIn
  <2>2. k \in VisitorIn(log, n) <=> k \in 1..last /\ k > n /\ log[k] = "visitor"
    BY DEF VisitorIn, last
  <2>3. k \in 1..(last + 1) <=> k \in 1..last \/ k = last + 1
    BY <1>1
  <2>4. k = last + 1 => k > n
    BY <1>1 DEF last
  <2>5. QED BY <2>1, <2>2, <2>3, <2>4
<1>4. CASE w = "visitor"
  <2>1. \A k : k \in VisitorIn(new, n) <=> k \in VisitorIn(log, n) \union {last + 1}
    BY <1>2, <1>3, <1>4
  <2>2. VisitorIn(new, n) = VisitorIn(log, n) \union {last + 1}
    BY <2>1
  <2>3. last + 1 \notin VisitorIn(log, n)
    BY <1>1, <1>3
  <2>4. Cardinality(VisitorIn(log, n) \union {last + 1}) = Cardinality(VisitorIn(log, n)) + 1
    BY <2>3, CountIsNat, FS_AddElement
  <2>5. QED
    BY <1>1, <1>4, <2>2, <2>4 DEF Count, new, last
<1>5. CASE w # "visitor"
  <2>1. \A k : k \in VisitorIn(new, n) <=> k \in VisitorIn(log, n)
    BY <1>2, <1>3, <1>5
  <2>2. VisitorIn(new, n) = VisitorIn(log, n)
    BY <2>1
  <2>3. QED
    BY <1>1, <1>5, <2>2 DEF Count, new, last
<1>6. QED
  BY <1>4, <1>5

LEMMA NoneAfterLast ==
    ASSUME NEW log \in Seq(Senders), NEW n \in Nat, n >= Len(log)
    PROVE  VisitorIn(log, n) = {} /\ Count(log, n) = 0
<1>1. VisitorIn(log, n) = {}
  BY DEF VisitorIn
<1>2. QED
  BY <1>1, FS_EmptySet DEF Count

LEMMA NoneAfter ==
    ASSUME NEW log \in Seq(Senders), NEW a \in Nat, NEW n \in Nat, n >= a,
           VisitorIn(log, a) = {}
    PROVE  VisitorIn(log, n) = {} /\ Count(log, n) = 0
<1>1. VisitorIn(log, n) = {}
  BY DEF VisitorIn
<1>2. QED
  BY <1>1, FS_EmptySet DEF Count
-----------------------------------------------------------------------------
(* The invariant holds initially, and every action preserves it. *)

LEMMA InitIInv == Init => IInv
<1> SUFFICES ASSUME Init PROVE IInv
  OBVIOUS
<1> USE DEF Init, NoRow, NoReceipt, NoRequest, NoInsertion
<1>1. sender \in Seq(Senders) /\ Len(sender) = 0
  OBVIOUS
<1>2. Count(sender, 0) = 0
  <2>1. VisitorIn(sender, 0) = {}
    BY <1>1 DEF VisitorIn
  <2>2. QED
    BY <2>1, FS_EmptySet DEF Count
<1>3. TypeOK
  BY SequenceAssumption DEF TypeOK, RowType, RequestType, Last
<1>4. CursorsOrdered
  BY DEF CursorsOrdered, Last
<1>5. RequestInv /\ RowInv
  BY SequenceAssumption DEF RequestInv, Sound, RequestType, RowInv
<1>6. CounterInv
  BY <1>2 DEF CounterInv
<1>7. QED
  BY <1>3, <1>4, <1>5, <1>6 DEF IInv

LEMMA InsertMessageIInv ==
    ASSUME IInv, NEW who \in Senders, InsertMessage(who) PROVE IInv'
<1>1. TypeOK'
  BY DEF IInv, InsertMessage, TypeOK, Last
<1>2. CursorsOrdered' /\ RequestInv' /\ CounterInv'
  BY DEF IInv, InsertMessage, CursorsOrdered, RequestInv, Sound, CounterInv, Last
<1>3. \A m \in Members : memberReads[m].read < Last + 1
  BY DEF IInv, TypeOK, RowType, CursorsOrdered, Last
<1>4. RowInv'
  <2>1. insertion'.sender \in Senders /\ Last < MaxSequence /\ Last' = Last
    BY DEF InsertMessage, Last
  <2>2. insertion'.bumped # {} => insertion'.sender = "visitor"
    BY DEF InsertMessage
  <2>3. \A m \in insertion'.bumped : memberReads[m].exists
    BY DEF InsertMessage
  <2>4. insertion'.sender = "visitor" =>
           \A m \in Members : memberReads[m].exists => m \in insertion'.bumped
    BY <1>3 DEF InsertMessage
  <2>5. QED
    BY <2>1, <2>2, <2>3, <2>4 DEF IInv, InsertMessage, RowInv
<1>5. QED
  BY <1>1, <1>2, <1>4 DEF IInv

LEMMA CommitMessageIInv ==
    ASSUME IInv, CommitMessage PROVE IInv'
<1> DEFINE w == insertion.sender
<1>1. /\ sender \in Seq(Senders) /\ Len(sender) \in Nat /\ Len(sender) < MaxSequence
      /\ w \in Senders /\ sender' = Append(sender, w) /\ MaxSequence \in Nat
  BY SequenceAssumption DEF IInv, TypeOK, RowInv, CommitMessage, Last
<1>2. /\ sender' \in Seq(Senders) /\ Len(sender') = Len(sender) + 1
  BY <1>1
<1>3. \A n \in Nat : n <= Len(sender) =>
        /\ Count(sender, n) \in Nat /\ Count(sender', n) \in Nat
        /\ w = "visitor" => /\ VisitorIn(sender', n) # {}
                            /\ Count(sender', n) = Count(sender, n) + 1
        /\ w # "visitor" => /\ VisitorIn(sender', n) = VisitorIn(sender, n)
                            /\ Count(sender', n) = Count(sender, n)
  BY <1>1, <1>2, AppendCounts, CountIsNat
<1>4. ASSUME NEW m \in Members
      PROVE  /\ memberReads'[m] \in RowType
             /\ memberReads'[m].exists = memberReads[m].exists
             /\ memberReads'[m].read = memberReads[m].read
             /\ memberReads'[m].delivered = memberReads[m].delivered
             /\ memberReads'[m].unread =
                   memberReads[m].unread + (IF m \in insertion.bumped THEN 1 ELSE 0)
  <2>1. /\ memberReads[m] \in RowType
        /\ memberReads'[m] = IF m \in insertion.bumped
                             THEN [memberReads[m] EXCEPT !.unread = @ + 1] ELSE memberReads[m]
    BY DEF IInv, TypeOK, CommitMessage
  <2>2. QED
    BY <2>1 DEF RowType
<1>5. TypeOK'
  <2>1. visitorMessageCount' \in Nat
    BY DEF IInv, TypeOK, CommitMessage
  <2>2. insertion' \in [sender : Senders \union {"none"}, bumped : SUBSET Members]
    BY DEF CommitMessage, NoInsertion
  <2>3. memberReads' \in [Members -> RowType]
    BY <1>4 DEF CommitMessage
  <2>4. Last' <= MaxSequence
    BY <1>1, <1>2 DEF Last
  <2>5. QED
    BY <1>2, <2>1, <2>2, <2>3, <2>4 DEF IInv, TypeOK, CommitMessage
<1>6. CursorsOrdered'
  <2>1. Last' = Last + 1 /\ Last \in Nat
    BY <1>1, <1>2 DEF Last
  <2>2. QED
    BY <1>4, <2>1 DEF IInv, TypeOK, RowType, CursorsOrdered, CommitMessage
<1>7. RequestInv'
  <2> SUFFICES ASSUME NEW r \in Requests PROVE Sound(request[r])'
    BY DEF RequestInv
  <2>1. request'[r] = request[r] /\ Sound(request[r])
    BY DEF CommitMessage, IInv, RequestInv
  <2>2. /\ request[r].seen \in Nat /\ request[r].seen <= Len(sender)
        /\ request[r].through \in Nat /\ request[r].through <= Len(sender)
        /\ From(request[r]) \in Nat /\ From(request[r]) <= Len(sender)
        /\ request[r].unread \in Nat
    BY <1>1, <2>1 DEF Sound, RequestType, From
  <2>3. /\ request[r].through <= Len(sender') /\ request[r].seen <= Len(sender')
        /\ Count(sender, From(request[r])) <= Count(sender', From(request[r]))
        /\ VisitorIn(sender', request[r].seen) = {} =>
              /\ VisitorIn(sender, request[r].seen) = {}
              /\ Count(sender', From(request[r])) = Count(sender, From(request[r]))
        /\ Count(sender', From(request[r])) \in Nat /\ Count(sender, From(request[r])) \in Nat
    BY <1>1, <1>2, <1>3, <2>2
  <2>4. QED
    BY <2>1, <2>2, <2>3 DEF Sound, From
<1>8. RowInv'
  <2>1. insertion' = NoInsertion /\ overtaken' = overtaken
    BY DEF CommitMessage
  <2>2. QED
    BY <1>4, <2>1 DEF IInv, RowInv, NoInsertion
<1>9. CounterInv'
  <2>1. visitorMessageCount' = Count(sender', 0)
    BY <1>1, <1>3 DEF IInv, CounterInv, CommitMessage
  <2>2. ASSUME NEW m \in Members, memberReads[m].exists
        PROVE  /\ memberReads'[m].unread <= Count(sender', memberReads[m].read)
               /\ m \notin overtaken =>
                     memberReads'[m].unread = Count(sender', memberReads[m].read)
    <3>1. /\ memberReads[m].read \in Nat /\ memberReads[m].read <= Len(sender)
          /\ memberReads[m].unread \in Nat
      BY <1>1 DEF IInv, TypeOK, RowType, CursorsOrdered, Last
    <3>2. /\ memberReads[m].unread <= Count(sender, memberReads[m].read)
          /\ m \notin overtaken => memberReads[m].unread = Count(sender, memberReads[m].read)
      BY <2>2 DEF IInv, CounterInv
    <3>3. /\ m \in insertion.bumped => w = "visitor"
          /\ w = "visitor" /\ m \notin overtaken => m \in insertion.bumped
      BY <2>2 DEF IInv, RowInv
    <3>4. QED
      BY <1>3, <1>4, <3>1, <3>2, <3>3
  <2>3. overtaken' = overtaken
    BY DEF CommitMessage
  <2>4. QED
    BY <1>4, <2>1, <2>2, <2>3 DEF CounterInv
<1>10. QED
  BY <1>5, <1>6, <1>7, <1>8, <1>9 DEF IInv

\* Most steps of a mark call only touch the call itself.
RestUnchanged ==
    UNCHANGED <<sender, insertion, visitorMessageCount, memberReads, visitorReads, overtaken>>

LEMMA RequestStep ==
    ASSUME IInv, RestUnchanged, NEW r \in Requests, NEW q, Sound(q),
           request' = [request EXCEPT ![r] = q]
    PROVE  IInv'
<1> USE DEF RestUnchanged
<1>1. request' \in [Requests -> RequestType]
  BY DEF IInv, TypeOK, Sound
<1>2. TypeOK'
  BY <1>1 DEF IInv, TypeOK, Last
<1>3. \A s \in Requests : request'[s] = q \/ request'[s] = request[s]
  BY DEF IInv, TypeOK
<1>4. RequestInv'
  BY <1>3 DEF IInv, RequestInv, Sound
<1>5. CursorsOrdered' /\ RowInv' /\ CounterInv'
  BY DEF IInv, CursorsOrdered, RowInv, CounterInv, Last
<1>6. QED
  BY <1>2, <1>4, <1>5 DEF IInv

LEMMA BeginIInv ==
    ASSUME IInv, NEW r \in Requests, NEW kind \in Kinds, NEW by \in SUBSET Members,
           NEW n \in 0..MaxSequence, Begin(r, kind, by, n)
    PROVE  IInv'
<1> DEFINE q == [pc |-> "row", kind |-> kind, by |-> by, through |-> Least(n, Last),
                 seen |-> Last, unread |-> 0]
<1>1. Last \in Nat /\ Last = Len(sender) /\ Last <= MaxSequence /\ MaxSequence \in Nat
  BY SequenceAssumption DEF IInv, TypeOK, Last
<1>2. Least(n, Last) \in 0..MaxSequence /\ Least(n, Last) <= Last
  BY <1>1 DEF Least
<1>3. Sound(q)
  BY <1>1, <1>2 DEF Sound, RequestType
<1>4. request' = [request EXCEPT ![r] = q] /\ RestUnchanged
  BY DEF Begin, RestUnchanged
<1> HIDE DEF q
<1>5. QED
  BY <1>3, <1>4, RequestStep

\* A call that ends leaves an idle slot.
LEMMA FinishIInv ==
    ASSUME IInv, RestUnchanged, NEW r \in Requests, Finish(r) PROVE IInv'
<1>1. Len(sender) \in Nat
  BY DEF IInv, TypeOK
<1>2. Sound(NoRequest)
  BY <1>1, SequenceAssumption DEF Sound, NoRequest, RequestType
<1>3. QED
  BY <1>2, RequestStep DEF Finish

LEMMA SelectMemberRowIInv ==
    ASSUME IInv, NEW r \in Requests, NEW m \in Members, SelectMemberRow(r, m)
    PROVE  IInv'
<1>1. RestUnchanged
  BY DEF SelectMemberRow, RestUnchanged
<1>2. /\ Sound(request[r]) /\ request[r].pc = "row" /\ request[r].by = {m}
      /\ request \in [Requests -> RequestType]
      /\ sender \in Seq(Senders)
  BY DEF IInv, TypeOK, RequestInv, SelectMemberRow
<1>3. ASSUME NEW pc \in {"upsert", "count"}, request' = [request EXCEPT ![r].pc = pc],
             pc = "upsert" => /\ request[r].kind = "read"
                              /\ request[r].through >= request[r].seen
      PROVE  IInv'
  <2> DEFINE q == [request[r] EXCEPT !.pc = pc]
  <2>1. /\ q \in RequestType /\ q.pc = pc /\ q.by = {m} /\ q.kind = request[r].kind
        /\ q.through = request[r].through /\ q.seen = request[r].seen /\ q.unread = 0
    BY <1>2 DEF Sound, RequestType
  <2>2. request' = [request EXCEPT ![r] = q]
    BY <1>2, <1>3
  <2> HIDE DEF q
  <2>3. From(q) \in Nat /\ q.seen \in Nat /\ Count(sender, From(q)) \in Nat
    <3>1. From(q) \in Nat /\ q.seen \in Nat
      BY <2>1 DEF From, RequestType
    <3>2. QED
      BY <1>2, <3>1, CountIsNat
  <2>4. pc = "upsert" /\ VisitorIn(sender, q.seen) = {} => Count(sender, From(q)) = 0
    <3>1. pc = "upsert" => From(q) >= q.seen
      BY <1>3, <2>1 DEF From
    <3>2. QED
      BY <1>2, <2>3, <3>1, NoneAfter
  <2>5. Sound(q)
    BY <1>2, <2>1, <2>3, <2>4 DEF Sound
  <2>6. QED
    BY <1>1, <2>2, <2>5, RequestStep
<1>4. QED
  BY <1>1, <1>3, FinishIInv DEF SelectMemberRow

LEMMA CountUnreadIInv ==
    ASSUME IInv, NEW r \in Requests, NEW m \in Members, CountUnread(r, m)
    PROVE  IInv'
<1> DEFINE n == IF request[r].kind = "read" THEN request[r].through ELSE 0
           q == [request[r] EXCEPT !.pc = "upsert", !.unread = Count(sender, n),
                                   !.seen = Len(sender)]
<1>1. /\ Sound(request[r]) /\ request[r] \in RequestType
      /\ request[r].pc = "count" /\ request[r].by = {m}
      /\ request \in [Requests -> RequestType]
      /\ sender \in Seq(Senders) /\ Len(sender) \in 0..MaxSequence
  BY SequenceAssumption DEF IInv, TypeOK, RequestInv, Sound, CountUnread, Last
<1>2. n \in Nat
  BY <1>1 DEF RequestType
<1>3. Count(sender, n) \in Nat
  BY <1>1, <1>2, CountIsNat
<1>4. /\ q \in RequestType /\ q.pc = "upsert" /\ q.by = {m} /\ q.kind = request[r].kind
      /\ q.through = request[r].through /\ q.seen = Len(sender)
      /\ q.unread = Count(sender, n) /\ From(q) = n
  BY <1>1, <1>3 DEF RequestType, From
<1>5. request' = [request EXCEPT ![r] = q] /\ RestUnchanged
  BY <1>1 DEF CountUnread, Count, VisitorAfter, Last, RestUnchanged
<1> HIDE DEF q, n
<1>6. Sound(q)
  BY <1>1, <1>3, <1>4 DEF Sound
<1>7. QED
  BY <1>5, <1>6, RequestStep

LEMMA SelectVisitorRowIInv ==
    ASSUME IInv, NEW r \in Requests, SelectVisitorRow(r)
    PROVE  IInv'
<1>1. RestUnchanged
  BY DEF SelectVisitorRow, RestUnchanged
<1>2. /\ Sound(request[r]) /\ request[r].pc = "row" /\ request[r].by = {}
      /\ request \in [Requests -> RequestType]
  BY DEF IInv, TypeOK, RequestInv, SelectVisitorRow
<1>3. CASE request' = [request EXCEPT ![r].pc = "upsert"]
  <2> DEFINE q == [request[r] EXCEPT !.pc = "upsert"]
  <2>1. Sound(q)
    BY <1>2 DEF Sound, RequestType
  <2>2. request' = [request EXCEPT ![r] = q]
    BY <1>2, <1>3
  <2> HIDE DEF q
  <2>3. QED
    BY <1>1, <2>1, <2>2, RequestStep
<1>4. QED
  BY <1>1, <1>3, FinishIInv DEF SelectVisitorRow

LEMMA UpsertVisitorRowIInv ==
    ASSUME IInv, NEW r \in Requests, UpsertVisitorRow(r)
    PROVE  IInv'
<1>1. /\ request[r].through \in 0..MaxSequence /\ request[r].through <= Last
      /\ visitorReads.read \in 0..MaxSequence /\ visitorReads.delivered \in 0..MaxSequence
      /\ visitorReads.read <= visitorReads.delivered /\ visitorReads.delivered <= Last
      /\ Last \in Nat
  BY DEF IInv, TypeOK, RequestInv, Sound, RequestType, CursorsOrdered, Last
<1>2. /\ visitorReads'.exists = TRUE
      /\ visitorReads'.read \in 0..MaxSequence /\ visitorReads'.delivered \in 0..MaxSequence
      /\ visitorReads'.read <= visitorReads'.delivered /\ visitorReads'.delivered <= Last
      /\ visitorReads' \in [exists : BOOLEAN, read : 0..MaxSequence, delivered : 0..MaxSequence]
  BY <1>1 DEF UpsertVisitorRow, Greatest
<1>3. Sound(NoRequest)
  BY <1>1, SequenceAssumption DEF Sound, NoRequest, RequestType, Last
<1>4. request' \in [Requests -> RequestType] /\ \A s \in Requests : Sound(request'[s])
  BY <1>3 DEF IInv, TypeOK, RequestInv, Sound, UpsertVisitorRow, Finish
<1>5. TypeOK'
  BY <1>2, <1>4 DEF IInv, TypeOK, UpsertVisitorRow, Last
<1>6. CursorsOrdered'
  BY <1>2 DEF IInv, CursorsOrdered, UpsertVisitorRow, Last
<1>7. RequestInv'
  BY <1>4 DEF RequestInv, Sound, UpsertVisitorRow
<1>8. RowInv' /\ CounterInv'
  BY DEF IInv, RowInv, CounterInv, UpsertVisitorRow, Last
<1>9. QED
  BY <1>5, <1>6, <1>7, <1>8 DEF IInv

\* The row a call writes: the cursors are the greater ones, and the counter
\* belongs to the call only if the read cursor is the call's as well.
LEMMA UpsertedRow ==
    ASSUME NEW row \in RowType, NEW q \in RequestType, q.kind \in Kinds,
           ~row.exists => row.read = 0 /\ row.delivered = 0,
           row.read <= row.delivered
    PROVE  LET new == Upserted(row, q) IN
           /\ new \in RowType /\ new.exists
           /\ row.read <= new.read /\ row.delivered <= new.delivered
           /\ new.read <= new.delivered
           /\ new.delivered \in {row.delivered, q.through}
           /\ \/ ReplacesCounter(row, q) /\ new.unread = q.unread /\ new.read = From(q)
              \/ ~ReplacesCounter(row, q) /\ new.unread = row.unread /\ new.read = row.read
                    /\ row.exists
<1> DEFINE new == Upserted(row, q)
<1>1. /\ row.read \in 0..MaxSequence /\ row.delivered \in 0..MaxSequence
      /\ row.unread \in Nat /\ row.exists \in BOOLEAN
      /\ q.through \in 0..MaxSequence /\ q.unread \in Nat /\ q.kind \in {"read", "delivered"}
  BY DEF RowType, RequestType, Kinds
<1>2. /\ new.exists
      /\ new.read = IF q.kind = "read" THEN Greatest(row.read, q.through) ELSE row.read
      /\ new.delivered = Greatest(row.delivered, q.through)
      /\ new.unread = IF ReplacesCounter(row, q) THEN q.unread ELSE row.unread
      /\ new \in RowType
  BY <1>1 DEF Upserted, Greatest, RowType
<1> HIDE DEF new
<1>3. /\ row.read <= new.read /\ row.delivered <= new.delivered /\ new.read <= new.delivered
      /\ new.delivered \in {row.delivered, q.through}
  BY <1>1, <1>2 DEF Greatest
<1>4. CASE ReplacesCounter(row, q)
  BY <1>1, <1>2, <1>3, <1>4 DEF Greatest, ReplacesCounter, From, new
<1>5. CASE ~ReplacesCounter(row, q)
  BY <1>1, <1>2, <1>3, <1>5 DEF Greatest, ReplacesCounter, From, new
<1>6. QED
  BY <1>4, <1>5

LEMMA UpsertMemberRowIInv ==
    ASSUME IInv, NEW r \in Requests, NEW m \in Members, UpsertMemberRow(r, m)
    PROVE  IInv'
<1> DEFINE q == request[r]
           row == memberReads[m]
           new == Upserted(row, q)
<1>1. /\ Sound(q) /\ q.pc = "upsert" /\ q.by = {m} /\ q.kind \in Kinds
      /\ q \in RequestType /\ q.through <= Last
      /\ row \in RowType /\ row.read <= row.delivered /\ row.delivered <= Last
      /\ ~row.exists => row.read = 0 /\ row.delivered = 0
      /\ Last \in Nat /\ Last = Len(sender) /\ m \notin insertion.bumped
  <2>1. Sound(q) /\ q.pc = "upsert" /\ q.by = {m} /\ m \notin insertion.bumped
    BY DEF IInv, RequestInv, UpsertMemberRow
  <2>2. /\ row \in RowType /\ row.read <= row.delivered /\ row.delivered <= Last
        /\ ~row.exists => row.read = 0 /\ row.delivered = 0
        /\ Last \in Nat /\ Last = Len(sender)
    BY DEF IInv, TypeOK, CursorsOrdered, RowInv, Last
  <2>3. QED
    BY <2>1, <2>2 DEF Sound
<1>2. /\ new \in RowType /\ new.exists
      /\ row.read <= new.read /\ row.delivered <= new.delivered /\ new.read <= new.delivered
      /\ new.delivered \in {row.delivered, q.through}
      /\ \/ ReplacesCounter(row, q) /\ new.unread = q.unread /\ new.read = From(q)
         \/ ~ReplacesCounter(row, q) /\ new.unread = row.unread /\ new.read = row.read
               /\ row.exists
  <2> HIDE DEF q, row
  <2>1. QED BY <1>1, UpsertedRow
<1>3. \A a \in Members : memberReads'[a] = IF a = m THEN new ELSE memberReads[a]
  BY DEF IInv, TypeOK, UpsertMemberRow
<1>4. memberReads' \in [Members -> RowType]
  BY <1>2 DEF IInv, TypeOK, UpsertMemberRow
<1>5. UNCHANGED <<sender, insertion, visitorMessageCount, visitorReads>>
  BY DEF UpsertMemberRow
<1>6. /\ overtaken \subseteq overtaken' /\ overtaken' \subseteq overtaken \union {m}
      /\ ReplacesCounter(row, q) /\ m \notin overtaken' =>
            VisitorIn(sender, q.seen) = {} /\ insertion.sender # "visitor"
  BY DEF UpsertMemberRow, VisitorAfter
<1>7. Sound(NoRequest)
  BY <1>1, SequenceAssumption DEF Sound, NoRequest, RequestType
<1>8. request' \in [Requests -> RequestType] /\ \A s \in Requests : Sound(request'[s])
  BY <1>7 DEF IInv, TypeOK, RequestInv, Sound, UpsertMemberRow, Finish
<1>9. TypeOK'
  BY <1>4, <1>5, <1>6, <1>8 DEF IInv, TypeOK, Last
<1> HIDE DEF q, row, new
<1>10. CursorsOrdered'
  BY <1>1, <1>2, <1>3, <1>5 DEF IInv, CursorsOrdered, Last
<1>11. RequestInv'
  BY <1>5, <1>8 DEF RequestInv, Sound
<1>12. RowInv'
  <2>1. insertion.sender = "visitor" /\ m \notin overtaken' => m \in insertion.bumped
    <3>1. CASE ReplacesCounter(row, q)
      BY <1>6, <3>1
    <3>2. CASE ~ReplacesCounter(row, q)
      BY <1>2, <1>6, <3>2 DEF IInv, RowInv, row
    <3>3. QED BY <3>1, <3>2
  <2>2. /\ insertion # NoInsertion => insertion.sender \in Senders /\ Last < MaxSequence
        /\ insertion.bumped # {} => insertion.sender = "visitor"
    BY DEF IInv, RowInv
  <2>3. \A a \in Members : ~memberReads'[a].exists =>
           memberReads'[a].read = 0 /\ memberReads'[a].delivered = 0
    BY <1>2, <1>3 DEF IInv, RowInv
  <2>4. \A a \in insertion.bumped : memberReads'[a].exists
    BY <1>2, <1>3 DEF IInv, TypeOK, RowInv
  <2>5. insertion.sender = "visitor" =>
           \A a \in Members : memberReads'[a].exists /\ a \notin overtaken' =>
              a \in insertion.bumped
    BY <1>3, <1>6, <2>1 DEF IInv, RowInv
  <2>6. QED
    BY <1>5, <2>2, <2>3, <2>4, <2>5 DEF RowInv, Last
<1>13. CounterInv'
  <2>1. new.unread <= Count(sender, new.read)
    BY <1>1, <1>2 DEF IInv, CounterInv, Sound, row
  <2>2. m \notin overtaken' => new.unread = Count(sender, new.read)
    <3>1. CASE ReplacesCounter(row, q)
      <4>1. m \notin overtaken' => q.unread = Count(sender, From(q))
        BY <1>1, <1>6, <3>1 DEF Sound
      <4>2. QED
        BY <1>2, <3>1, <4>1
    <3>2. CASE ~ReplacesCounter(row, q)
      <4>1. m \notin overtaken' => row.unread = Count(sender, row.read)
        BY <1>2, <1>6, <3>2 DEF IInv, CounterInv, row
      <4>2. QED
        BY <1>2, <3>2, <4>1
    <3>3. QED
      BY <3>1, <3>2
  <2>3. QED
    BY <1>3, <1>5, <1>6, <2>1, <2>2 DEF IInv, CounterInv
<1>14. QED
  BY <1>9, <1>10, <1>11, <1>12, <1>13 DEF IInv
-----------------------------------------------------------------------------
LEMMA NextIInv == IInv /\ [Next]_vars => IInv'
<1> SUFFICES ASSUME IInv, [Next]_vars PROVE IInv'
  OBVIOUS
<1>1. ASSUME NEW who \in Senders, InsertMessage(who) PROVE IInv'
  BY <1>1, InsertMessageIInv
<1>2. CASE CommitMessage
  BY <1>2, CommitMessageIInv
<1>3. ASSUME NEW r \in Requests, NEW kind \in Kinds, NEW n \in 0..MaxSequence,
             NEW m \in Members, BeginMemberMark(r, kind, m, n)
      PROVE  IInv'
  BY <1>3, BeginIInv DEF BeginMemberMark
<1>4. ASSUME NEW r \in Requests, NEW kind \in Kinds, NEW n \in 0..MaxSequence,
             BeginVisitorMark(r, kind, n)
      PROVE  IInv'
  BY <1>4, BeginIInv DEF BeginVisitorMark
<1>5. ASSUME NEW r \in Requests, NEW m \in Members, SelectMemberRow(r, m) PROVE IInv'
  BY <1>5, SelectMemberRowIInv
<1>6. ASSUME NEW r \in Requests, NEW m \in Members, CountUnread(r, m) PROVE IInv'
  BY <1>6, CountUnreadIInv
<1>7. ASSUME NEW r \in Requests, NEW m \in Members, UpsertMemberRow(r, m) PROVE IInv'
  BY <1>7, UpsertMemberRowIInv
<1>8. ASSUME NEW r \in Requests, SelectVisitorRow(r) PROVE IInv'
  BY <1>8, SelectVisitorRowIInv
<1>9. ASSUME NEW r \in Requests, UpsertVisitorRow(r) PROVE IInv'
  BY <1>9, UpsertVisitorRowIInv
<1>10. CASE UNCHANGED vars
  BY <1>10 DEF vars, IInv, TypeOK, CursorsOrdered, RequestInv, Sound, RowInv, CounterInv, Last
<1>11. QED
  BY <1>1, <1>2, <1>3, <1>4, <1>5, <1>6, <1>7, <1>8, <1>9, <1>10 DEF Next

\* Every reachable state satisfies the inductive invariant.
THEOREM Invariance == Spec => []IInv
BY InitIInv, NextIInv, PTL DEF Spec

\* The log, the rows and the calls in progress always have their types, so that
\* a counter never drops below zero and a cursor never passes the bound.
THEOREM TypeCorrect == Spec => []TypeOK
BY Invariance, PTL DEF IInv

\* Cursors never run ahead of the log, and read never runs ahead of delivered.
THEOREM CursorsAreOrdered == Spec => []CursorsOrdered
BY Invariance, PTL DEF IInv

\* An operator's counter never counts a message the operator has read.
THEOREM CounterNeverOvercounts == Spec => []NeverOvercounts
<1>1. IInv => NeverOvercounts
  BY DEF IInv, CounterInv, NeverOvercounts, Count, VisitorAfter
<1>2. QED
  BY <1>1, Invariance, PTL

\* The counter is exact for every operator whose mark calls no visitor message
\* has overtaken.
THEOREM CounterExactUnlessOvertaken == Spec => []ExactUnlessOvertaken
<1>1. IInv => ExactUnlessOvertaken
  BY DEF IInv, CounterInv, ExactUnlessOvertaken, Count, VisitorAfter
<1>2. QED
  BY <1>1, Invariance, PTL

\* The count shown to an operator without a row is exact.
THEOREM VisitorCountIsExact == Spec => []VisitorCountExact
<1>1. IInv => VisitorCountExact
  BY DEF IInv, CounterInv, VisitorCountExact, Count, VisitorAfter
<1>2. QED
  BY <1>1, Invariance, PTL

\* No step moves a read or delivered cursor back.
THEOREM CursorsAreMonotone == Spec => CursorsNeverRegress
<1> DEFINE Forward ==
      /\ \A m \in Members :
            /\ memberReads[m].read <= memberReads'[m].read
            /\ memberReads[m].delivered <= memberReads'[m].delivered
      /\ visitorReads.read <= visitorReads'.read
      /\ visitorReads.delivered <= visitorReads'.delivered
<1>1. ASSUME IInv, [Next]_vars PROVE [Forward]_vars
  <2>1. /\ \A m \in Members : /\ memberReads[m] \in RowType
                              /\ memberReads[m].read \in Nat /\ memberReads[m].delivered \in Nat
        /\ visitorReads.read \in Nat /\ visitorReads.delivered \in Nat
    BY <1>1 DEF IInv, TypeOK, RowType
  <2>2. CASE CommitMessage
    BY <2>1, <2>2 DEF CommitMessage, RowType
  <2>3. ASSUME NEW r \in Requests, NEW a \in Members, UpsertMemberRow(r, a) PROVE Forward
    <3>1. /\ request[r] \in RequestType /\ request[r].kind \in Kinds
          /\ memberReads[a].read <= memberReads[a].delivered
          /\ ~memberReads[a].exists => memberReads[a].read = 0 /\ memberReads[a].delivered = 0
      BY <1>1, <2>3 DEF IInv, TypeOK, RequestInv, Sound, CursorsOrdered, RowInv, UpsertMemberRow
    <3>2. LET new == Upserted(memberReads[a], request[r]) IN
          memberReads[a].read <= new.read /\ memberReads[a].delivered <= new.delivered
      BY <2>1, <3>1, UpsertedRow
    <3>3. /\ \A m \in Members : memberReads'[m] = IF m = a
                THEN Upserted(memberReads[a], request[r]) ELSE memberReads[m]
          /\ visitorReads' = visitorReads
      BY <1>1, <2>3 DEF IInv, TypeOK, UpsertMemberRow
    <3>4. QED
      BY <2>1, <3>2, <3>3
  <2>4. ASSUME NEW r \in Requests, UpsertVisitorRow(r) PROVE Forward
    <3>1. request[r].through \in Nat
      BY <1>1 DEF IInv, TypeOK, RequestType
    <3>2. QED
      BY <2>1, <2>4, <3>1 DEF UpsertVisitorRow, Greatest
  <2>5. CASE UNCHANGED <<memberReads, visitorReads>>
    BY <2>1, <2>5
  <2>6. QED
    BY <1>1, <2>2, <2>3, <2>4, <2>5
       DEF Next, vars, InsertMessage, BeginMemberMark, BeginVisitorMark, Begin,
           SelectMemberRow, CountUnread, SelectVisitorRow
<1>2. QED
  BY <1>1, Invariance, PTL DEF Spec, CursorsNeverRegress
=============================================================================
