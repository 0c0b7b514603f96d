------------------------- MODULE ConversationsProofs -------------------------
(***************************************************************************)
(* Proofs about Conversations, for any sessions, conversations, requests   *)
(* and client message ids.                                                 *)
(*                                                                         *)
(* The row of a conversation counts its messages, so the next sequence     *)
(* number is the end of its log; who is about to write a row has it locked *)
(* and knows whether another conversation of the session is active.        *)
(***************************************************************************)
EXTENDS Conversations, FiniteSetTheorems, SequenceTheorems, TLAPS

\* A row and the messages of its conversation: numbered from 1 on without holes
\* and repeats, each client message id once.
Numbered(row, ms) ==
    /\ IsFiniteSet(ms) /\ row.nextSequence = Cardinality(ms) + 1
    /\ \A m \in ms : m.sequence \in 1..Cardinality(ms)
    /\ \A i \in 1..Cardinality(ms) : \E m \in ms : m.sequence = i
    /\ \A m, n \in ms : m.sequence = n.sequence \/ m.clientId = n.clientId => m = n

\* A conversation that does not exist has no columns.
LogInv ==
    \A c \in Conversations :
        /\ Numbered(conversation[c], messages[c])
        /\ conversation[c].session = NoSession => conversation[c] = Absent

ActiveIn(rows, s) ==
    {c \in Conversations : rows[c].session = s /\ rows[c].status \in ActiveStatuses}

\* At most one conversation of a session is active.
OneActive(rows) ==
    \A s \in Sessions : \A c, d \in ActiveIn(rows, s) : c = d

\* What the send t of session s may rely on, of the rows.
Relies(s, t, rows) ==
    /\ t.pc \in {"idle", "select_active", "select_resolved", "insert", "handler"}
         => t.conversation = NoConversation
    /\ t.pc \in {"reopen", "send_found", "send_reopened"}
         => t.conversation \in Conversations /\ rows[t.conversation].session = s
    /\ t.pc = "send_found" => rows[t.conversation].status \in ActiveStatuses
    /\ t.pc = "send_inserted" => t.conversation \in Conversations /\ rows[t.conversation] = Absent
    /\ t.pc \in {"send_reopened", "send_inserted"} => ActiveIn(rows, s) = {}
    /\ t.pc # "idle" => t.clientId \in ClientIds

\* No two sends have locked the same conversation.
LocksInv ==
    \A s, t \in Sessions :
        /\ visitorTxn[s].conversation \in Conversations
        /\ visitorTxn[s].conversation = visitorTxn[t].conversation
        => s = t

\* A message id under way belongs to whoever sends it.
OriginInv ==
    /\ \A s \in Sessions : visitorTxn[s].pc # "idle" => client[visitorTxn[s].clientId].origin = s
    /\ \A r \in Requests : operatorTxn[r].pc # "idle" =>
          LET t == operatorTxn[r] IN
          /\ t.clientId \in ClientIds /\ t.conversation \in Conversations
          /\ client[t.clientId].origin = t.conversation
          /\ Exists(t.conversation)

IInv ==
    /\ TypeOK
    /\ LogInv
    /\ OneActive(conversation)
    /\ \A s \in Sessions : Relies(s, visitorTxn[s], conversation)
    /\ LocksInv
    /\ OriginInv
    /\ AnsweredIsStored
-----------------------------------------------------------------------------
(* The numbering of messages.                                              *)

LEMMA NumberedEmpty == Numbered(Absent, {}) /\ Absent.nextSequence = 1
<1>1. IsFiniteSet({}) /\ Cardinality({}) = 0
  BY FS_EmptySet
<1> QED  BY <1>1 DEF Numbered, Absent

\* A message that has a new id and the next number keeps the numbering.
LEMMA NumberedAppend ==
    ASSUME NEW row, NEW ms, Numbered(row, ms), NEW m, m.sequence = row.nextSequence,
           \A n \in ms : n.clientId # m.clientId,
           NEW after, after.nextSequence = row.nextSequence + 1
    PROVE  /\ Numbered(after, ms \union {m})
           /\ Cardinality(ms \union {m}) = Cardinality(ms) + 1 /\ Cardinality(ms) \in Nat
<1>1. IsFiniteSet(ms) /\ Cardinality(ms) \in Nat /\ m.sequence = Cardinality(ms) + 1
  BY FS_CardinalityType DEF Numbered
<1>2. m \notin ms
  OBVIOUS
<1>3. IsFiniteSet(ms \union {m}) /\ Cardinality(ms \union {m}) = Cardinality(ms) + 1
  BY <1>1, <1>2, FS_AddElement
<1>4. \A n \in ms \union {m} : n.sequence \in 1..Cardinality(ms) + 1
  BY <1>1 DEF Numbered
<1>5. \A i \in 1..Cardinality(ms) + 1 : \E n \in ms \union {m} : n.sequence = i
  BY <1>1 DEF Numbered
<1>6. \A n \in ms : n.sequence # m.sequence
  BY <1>1 DEF Numbered
<1>7. \A n, k \in ms \union {m} : n.sequence = k.sequence \/ n.clientId = k.clientId => n = k
  BY <1>6 DEF Numbered
<1> QED  BY <1>1, <1>3, <1>4, <1>5, <1>7 DEF Numbered

-----------------------------------------------------------------------------
LEMMA InitInv == NullsAssumption /\ Init => IInv
<1> SUFFICES ASSUME NullsAssumption, Init PROVE IInv
  OBVIOUS
<1>1. TypeOK
  <2>1. Absent \in RowType
    BY DEF Absent, RowType, Statuses, EndStatuses, NullsAssumption
  <2>2. Idle \in TxnType(VisitorPcs) /\ Idle \in TxnType({"idle", "dedupe", "send"})
    BY DEF Idle, TxnType, VisitorPcs
  <2>3. 0 \in 0..MaxResolutions /\ 0 \in 0..0
    BY DEF NullsAssumption
  <2> QED  BY <2>1, <2>2, <2>3 DEF Init, TypeOK
<1>2. \A s \in Sessions : visitorTxn[s] = Idle
  BY DEF Init
<1>3. \A r \in Requests : operatorTxn[r] = Idle
  BY DEF Init
<1>4. LogInv
  BY NumberedEmpty DEF Init, LogInv
<1>5. \A s \in Sessions : ActiveIn(conversation, s) = {}
  BY DEF Init, ActiveIn, Absent, ActiveStatuses
<1>6. OneActive(conversation)
  BY <1>5 DEF OneActive
<1>7. \A s \in Sessions : Relies(s, visitorTxn[s], conversation)
  BY <1>2 DEF Relies, Idle
<1>8. LocksInv /\ OriginInv
  BY <1>2, <1>3 DEF LocksInv, OriginInv, Idle, NullsAssumption
<1>9. AnsweredIsStored
  BY DEF Init, AnsweredIsStored
<1> QED  BY <1>1, <1>4, <1>6, <1>7, <1>8, <1>9 DEF IInv

-----------------------------------------------------------------------------
(* A visitor's send up to its commit: it reads the rows and takes its locks. *)

LEMMA VisitorMoves ==
    ASSUME NullsAssumption, IInv, NEW s \in Sessions, NEW t \in TxnType(VisitorPcs),
           visitorTxn' = [visitorTxn EXCEPT ![s] = t],
           UNCHANGED <<conversation, messages, operatorTxn, client, clock, horizon>>,
           Relies(s, t, conversation),
           t.pc # "idle" => t.clientId = visitorTxn[s].clientId /\ visitorTxn[s].pc # "idle",
           t.conversation \in Conversations =>
               \A u \in Sessions \ {s} : visitorTxn[u].conversation # t.conversation
    PROVE  IInv'
<1>1. visitorTxn \in [Sessions -> TxnType(VisitorPcs)]
  BY DEF IInv, TypeOK
<1>2. visitorTxn' \in [Sessions -> TxnType(VisitorPcs)] /\ visitorTxn'[s] = t
      /\ \A u \in Sessions \ {s} : visitorTxn'[u] = visitorTxn[u]
  BY <1>1
<1>3. TypeOK'
  BY <1>2 DEF IInv, TypeOK
<1>4. LogInv' /\ OneActive(conversation)' /\ AnsweredIsStored'
  BY DEF IInv, LogInv, OneActive, ActiveIn, AnsweredIsStored, Of, Find
<1>5. \A u \in Sessions : Relies(u, visitorTxn'[u], conversation)
  BY <1>2 DEF IInv
<1>6. LocksInv'
  BY <1>2 DEF IInv, LocksInv
<1>7. OriginInv'
  BY <1>2 DEF IInv, OriginInv, Exists
<1> QED  BY <1>3, <1>4, <1>5, <1>6, <1>7 DEF IInv, Relies, ActiveIn

\* What a step of a send that is in progress makes of its transaction.
LEMMA SetVisitorMoves ==
    ASSUME NullsAssumption, IInv, NEW s \in Sessions, NEW pc \in VisitorPcs \ {"idle"},
           NEW c \in Conversations \union {NoConversation},
           visitorTxn[s].pc # "idle", SetVisitor(s, pc, c),
           UNCHANGED <<conversation, messages, operatorTxn, client, clock, horizon>>,
           \A t : t.pc = pc /\ t.conversation = c /\ t.clientId \in ClientIds
                      => Relies(s, t, conversation),
           c \in Conversations => \A u \in Sessions \ {s} : visitorTxn[u].conversation # c
    PROVE  IInv'
<1> DEFINE t == [visitorTxn[s] EXCEPT !.pc = pc, !.conversation = c]
<1>1. visitorTxn[s] \in TxnType(VisitorPcs) /\ visitorTxn[s].clientId \in ClientIds
  BY DEF IInv, TypeOK, Relies
<1>2. t \in TxnType(VisitorPcs) /\ t.pc = pc /\ t.conversation = c
      /\ t.clientId = visitorTxn[s].clientId
  BY <1>1 DEF TxnType
<1>3. visitorTxn' = [visitorTxn EXCEPT ![s] = t]
  BY DEF SetVisitor, IInv, TypeOK
<1> HIDE DEF t
<1> QED  BY <1>1, <1>2, <1>3, VisitorMoves

\* A conversation of a session is locked by no other session's send.
LEMMA OfOwn ==
    ASSUME NullsAssumption, IInv, NEW s \in Sessions, NEW u \in Sessions \ {s},
           NEW c \in Conversations, conversation[c].session = s
    PROVE  visitorTxn[u].conversation # c
<1> SUFFICES ASSUME visitorTxn[u].conversation = c PROVE FALSE
  OBVIOUS
<1>1. visitorTxn[u] \in TxnType(VisitorPcs) /\ Relies(u, visitorTxn[u], conversation)
  BY DEF IInv, TypeOK
<1>2. visitorTxn[u].pc \in {"reopen", "send_found", "send_reopened"} \/ visitorTxn[u].pc = "send_inserted"
  BY <1>1 DEF Relies, TxnType, VisitorPcs, Sending, NullsAssumption
<1> QED  BY <1>1, <1>2 DEF Relies, Absent, NullsAssumption

LEMMA ActiveIsIn ==
    ASSUME IInv, NullsAssumption, NEW s \in Sessions
    PROVE  Active(s) = ActiveIn(conversation, s)
BY DEF Active, Of, IsActive, Exists, ActiveIn, NullsAssumption

LEMMA SelectActiveInv ==
    ASSUME NullsAssumption, IInv, NEW s \in Sessions, SelectActive(s)
    PROVE  IInv'
<1>1. visitorTxn[s].pc # "idle"
      /\ UNCHANGED <<conversation, messages, operatorTxn, client, clock, horizon>>
  BY DEF SelectActive
<1>2. ASSUME NEW c \in Active(s), SetVisitor(s, "send_found", c)
      PROVE  IInv'
  <2>1. c \in Conversations /\ conversation[c].session = s /\ conversation[c].status \in ActiveStatuses
    BY DEF Active, Of, IsActive
  <2>2. \A t : t.pc = "send_found" /\ t.conversation = c /\ t.clientId \in ClientIds
                   => Relies(s, t, conversation)
    BY <2>1 DEF Relies
  <2> QED  BY <1>1, <1>2, <2>1, <2>2, OfOwn, SetVisitorMoves DEF VisitorPcs, Sending
<1>3. CASE SetVisitor(s, "select_resolved", NoConversation)
  <2>1. \A t : t.pc = "select_resolved" /\ t.conversation = NoConversation /\ t.clientId \in ClientIds
                   => Relies(s, t, conversation)
    BY DEF Relies
  <2> QED  BY <1>1, <1>3, <2>1, SetVisitorMoves DEF VisitorPcs, NullsAssumption
<1> QED  BY <1>2, <1>3 DEF SelectActive

LEMMA SelectResolvedInv ==
    ASSUME NullsAssumption, IInv, NEW s \in Sessions, SelectResolved(s)
    PROVE  IInv'
<1>1. visitorTxn[s].pc # "idle"
      /\ UNCHANGED <<conversation, messages, operatorTxn, client, clock, horizon>>
  BY DEF SelectResolved
<1>2. ASSUME NEW c \in LatestResolved(Reopenable(s)), SetVisitor(s, "reopen", c)
      PROVE  IInv'
  <2>1. c \in Conversations /\ conversation[c].session = s
    BY DEF LatestResolved, Reopenable, Of
  <2>2. \A t : t.pc = "reopen" /\ t.conversation = c /\ t.clientId \in ClientIds
                   => Relies(s, t, conversation)
    BY <2>1 DEF Relies
  <2> QED  BY <1>1, <1>2, <2>1, <2>2, OfOwn, SetVisitorMoves DEF VisitorPcs, Sending
<1>3. CASE SetVisitor(s, "insert", NoConversation)
  <2>1. \A t : t.pc = "insert" /\ t.conversation = NoConversation /\ t.clientId \in ClientIds
                   => Relies(s, t, conversation)
    BY DEF Relies
  <2> QED  BY <1>1, <1>3, <2>1, SetVisitorMoves DEF VisitorPcs, NullsAssumption
<1> QED  BY <1>2, <1>3 DEF SelectResolved

\* The unique index has been checked: no conversation of the session is active.
LEMMA ReopenInv ==
    ASSUME NullsAssumption, IInv, NEW s \in Sessions, Reopen(s)
    PROVE  IInv'
<1> DEFINE c == visitorTxn[s].conversation
<1>1. visitorTxn[s].pc = "reopen" /\ Relies(s, visitorTxn[s], conversation)
      /\ UNCHANGED <<conversation, messages, operatorTxn, client, clock, horizon>>
  BY DEF Reopen, IInv
<1>2. c \in Conversations /\ conversation[c].session = s
  BY <1>1 DEF Relies
<1>3. CASE Active(s) = {}
  <2>1. SetVisitor(s, "send_reopened", c)
    BY <1>3 DEF Reopen
  <2>2. \A t : t.pc = "send_reopened" /\ t.conversation = c /\ t.clientId \in ClientIds
                   => Relies(s, t, conversation)
    BY <1>2, <1>3, ActiveIsIn DEF Relies
  <2> HIDE DEF c
  <2> QED  BY <1>1, <1>2, <2>1, <2>2, OfOwn, SetVisitorMoves DEF VisitorPcs, Sending
<1>4. CASE Active(s) # {}
  <2>1. SetVisitor(s, "handler", NoConversation)
    BY <1>4 DEF Reopen
  <2>2. \A t : t.pc = "handler" /\ t.conversation = NoConversation /\ t.clientId \in ClientIds
                   => Relies(s, t, conversation)
    BY DEF Relies
  <2> QED  BY <1>1, <2>1, <2>2, SetVisitorMoves DEF VisitorPcs, NullsAssumption
<1> QED  BY <1>3, <1>4

LEMMA InsertConversationInv ==
    ASSUME NullsAssumption, IInv, NEW s \in Sessions, InsertConversation(s)
    PROVE  IInv'
<1>1. visitorTxn[s].pc # "idle"
      /\ UNCHANGED <<conversation, messages, operatorTxn, client, clock, horizon>>
  BY DEF InsertConversation
<1>2. ASSUME Active(s) = {}, NEW c \in Conversations, ~Exists(c), ~Locked(c),
             SetVisitor(s, "send_inserted", c)
      PROVE  IInv'
  <2>1. conversation[c] = Absent /\ \A u \in Sessions \ {s} : visitorTxn[u].conversation # c
    BY <1>2 DEF Exists, Locked, IInv, LogInv
  <2>2. \A t : t.pc = "send_inserted" /\ t.conversation = c /\ t.clientId \in ClientIds
                   => Relies(s, t, conversation)
    BY <1>2, <2>1, ActiveIsIn DEF Relies
  <2> QED  BY <1>1, <1>2, <2>1, <2>2, SetVisitorMoves DEF VisitorPcs, Sending
<1>3. CASE SetVisitor(s, "handler", NoConversation)
  <2>1. \A t : t.pc = "handler" /\ t.conversation = NoConversation /\ t.clientId \in ClientIds
                   => Relies(s, t, conversation)
    BY DEF Relies
  <2> QED  BY <1>1, <1>3, <2>1, SetVisitorMoves DEF VisitorPcs, NullsAssumption
<1> QED  BY <1>2, <1>3 DEF InsertConversation

LEMMA HandleInv ==
    ASSUME NullsAssumption, IInv, NEW s \in Sessions, HandleUniqueViolation(s)
    PROVE  IInv'
<1>1. visitorTxn[s].pc # "idle"
      /\ UNCHANGED <<conversation, messages, operatorTxn, client, clock, horizon>>
  BY DEF HandleUniqueViolation
<1>2. ASSUME NEW c \in Active(s), SetVisitor(s, "send_found", c)
      PROVE  IInv'
  <2>1. c \in Conversations /\ conversation[c].session = s /\ conversation[c].status \in ActiveStatuses
    BY DEF Active, Of, IsActive
  <2>2. \A t : t.pc = "send_found" /\ t.conversation = c /\ t.clientId \in ClientIds
                   => Relies(s, t, conversation)
    BY <2>1 DEF Relies
  <2> QED  BY <1>1, <1>2, <2>1, <2>2, OfOwn, SetVisitorMoves DEF VisitorPcs, Sending
<1>3. CASE visitorTxn' = [visitorTxn EXCEPT ![s] = Idle]
  <2>1. Idle \in TxnType(VisitorPcs) /\ Idle.pc = "idle" /\ Idle.conversation = NoConversation
        /\ Relies(s, Idle, conversation)
    BY DEF Idle, TxnType, VisitorPcs, Relies
  <2> QED  BY <1>1, <1>3, <2>1, VisitorMoves DEF NullsAssumption
<1> QED  BY <1>2, <1>3 DEF HandleUniqueViolation

-----------------------------------------------------------------------------
(* What clients know.                                                      *)

\* An answer changes no origin, and tells of one message only.
LEMMA AnswerTells ==
    ASSUME IInv, NEW id \in ClientIds, Answer(id)
    PROVE  /\ client' \in [ClientIds -> [origin : Sessions \union Conversations \union {NoOrigin},
                                         acked : BOOLEAN]]
           /\ \A j \in ClientIds : /\ client'[j].origin = client[j].origin
                                   /\ client'[j].acked => client[j].acked \/ j = id
<1>1. client \in [ClientIds -> [origin : Sessions \union Conversations \union {NoOrigin},
                                acked : BOOLEAN]]
  BY DEF IInv, TypeOK
<1>2. CASE client' = client
  BY <1>1, <1>2
<1>3. CASE client' = [client EXCEPT ![id].acked = TRUE]
  <2>1. \A j \in ClientIds \ {id} : client'[j] = client[j]
    BY <1>1, <1>3
  <2>2. client'[id] = [client[id] EXCEPT !.acked = TRUE]
    BY <1>1, <1>3
  <2>3. client'[id] \in [origin : Sessions \union Conversations \union {NoOrigin}, acked : BOOLEAN]
        /\ client'[id].origin = client[id].origin
    BY <1>1, <2>2
  <2> QED  BY <1>1, <1>3, <2>1, <2>3
<1> QED  BY <1>2, <1>3 DEF Answer

\* A message id that may be sent gets its origin, and keeps the one it has.
LEMMA OriginIsGiven ==
    ASSUME IInv, NEW id \in ClientIds, NEW origin \in Sessions \union Conversations,
           MaySend(id, origin), client' = [client EXCEPT ![id].origin = origin]
    PROVE  /\ client' \in [ClientIds -> [origin : Sessions \union Conversations \union {NoOrigin},
                                         acked : BOOLEAN]]
           /\ client'[id].origin = origin
           /\ \A j \in ClientIds : /\ client[j].origin # NoOrigin => client'[j].origin = client[j].origin
                                   /\ client'[j].acked => client[j].acked /\ client'[j].origin = client[j].origin
BY DEF MaySend, IInv, TypeOK

\* Messages stay, so that who was answered keeps being right.
LEMMA AnsweredStays ==
    ASSUME IInv,
           \A c \in Conversations : messages[c] \subseteq messages'[c],
           \A c \in Conversations :
               messages[c] # {} => conversation'[c].session = conversation[c].session,
           \A id \in ClientIds : client'[id].acked =>
               /\ client'[id].origin = client[id].origin
               /\ \/ client[id].acked
                  \/ \E c \in Conversations :
                        /\ conversation'[c].session = client[id].origin \/ c = client[id].origin
                        /\ \E m \in messages'[c] : m.clientId = id
    PROVE  AnsweredIsStored'
<1> SUFFICES ASSUME NEW id \in ClientIds, client'[id].acked
             PROVE  \E c \in Conversations :
                        /\ conversation'[c].session = client'[id].origin \/ c = client'[id].origin
                        /\ \E m \in messages'[c] : m.clientId = id
  BY DEF AnsweredIsStored, Of, Find
<1>1. CASE client[id].acked
  <2>1. PICK c \in Conversations : /\ conversation[c].session = client[id].origin \/ c = client[id].origin
                                   /\ \E m \in messages[c] : m.clientId = id
    BY <1>1 DEF IInv, AnsweredIsStored, Of, Find
  <2> QED  BY <2>1
<1>2. CASE ~client[id].acked
  BY <1>2
<1> QED  BY <1>1, <1>2

LEMMA BeginVisitorSendInv ==
    ASSUME NullsAssumption, IInv, NEW s \in Sessions, NEW id \in ClientIds, BeginVisitorSend(s, id)
    PROVE  IInv'
<1> DEFINE t == [pc |-> "select_active", clientId |-> id, conversation |-> NoConversation]
<1>1. /\ MaySend(id, s) /\ client' = [client EXCEPT ![id].origin = s]
      /\ visitorTxn' = [visitorTxn EXCEPT ![s] = t]
      /\ UNCHANGED <<conversation, messages, operatorTxn, clock, horizon>>
  BY DEF BeginVisitorSend
<1>2. t \in TxnType(VisitorPcs) /\ t.conversation = NoConversation /\ t.clientId = id
      /\ Relies(s, t, conversation)
  BY DEF TxnType, VisitorPcs, Relies
<1> HIDE DEF t
<1>3. visitorTxn' \in [Sessions -> TxnType(VisitorPcs)] /\ visitorTxn'[s] = t
      /\ \A u \in Sessions \ {s} : visitorTxn'[u] = visitorTxn[u]
  BY <1>1, <1>2 DEF IInv, TypeOK
<1>4. TypeOK'
  BY <1>1, <1>3, OriginIsGiven DEF IInv, TypeOK
<1>5. LogInv' /\ OneActive(conversation)'
  BY <1>1 DEF IInv, LogInv, OneActive, ActiveIn
<1>6. \A u \in Sessions : Relies(u, visitorTxn'[u], conversation)
  BY <1>2, <1>3 DEF IInv
<1>7. LocksInv'
  BY <1>2, <1>3 DEF IInv, LocksInv, NullsAssumption
<1>8. OriginInv'
  <2>0. \A j \in ClientIds : client[j].origin # NoOrigin => client'[j].origin = client[j].origin
    BY <1>1, OriginIsGiven
  <2>1. \A u \in Sessions : visitorTxn[u].pc # "idle" => visitorTxn[u].clientId \in ClientIds
    BY DEF IInv, Relies
  <2>2. ASSUME NEW u \in Sessions, visitorTxn'[u].pc # "idle"
        PROVE  client'[visitorTxn'[u].clientId].origin = u
    <3>1. CASE u = s
      <4>1. visitorTxn'[u].clientId = id
        BY <1>2, <1>3, <3>1
      <4> QED  BY <1>1, <3>1, <4>1, OriginIsGiven
    <3>2. CASE u # s
      <4>1. visitorTxn'[u] = visitorTxn[u] /\ visitorTxn[u].pc # "idle"
        BY <1>3, <2>2, <3>2
      <4>2. client[visitorTxn[u].clientId].origin = u /\ visitorTxn[u].clientId \in ClientIds
        BY <2>1, <4>1 DEF IInv, OriginInv
      <4>3. client[visitorTxn[u].clientId].origin # NoOrigin
        BY <4>2 DEF NullsAssumption
      <4> QED  BY <2>0, <4>1, <4>2, <4>3
    <3> QED  BY <3>1, <3>2
  <2>3. ASSUME NEW r \in Requests, operatorTxn[r].pc # "idle"
        PROVE  client'[operatorTxn[r].clientId].origin = operatorTxn[r].conversation
    <3>1. /\ client[operatorTxn[r].clientId].origin = operatorTxn[r].conversation
          /\ operatorTxn[r].clientId \in ClientIds /\ operatorTxn[r].conversation \in Conversations
      BY <2>3 DEF IInv, OriginInv
    <3>2. client[operatorTxn[r].clientId].origin # NoOrigin
      BY <3>1 DEF NullsAssumption
    <3> QED  BY <2>0, <3>1, <3>2
  <2> QED  BY <1>1, <2>2, <2>3 DEF IInv, OriginInv, Exists
<1>9. AnsweredIsStored'
  BY <1>1, OriginIsGiven, AnsweredStays
<1> QED  BY <1>1, <1>4, <1>5, <1>6, <1>7, <1>8, <1>9 DEF IInv, Relies, ActiveIn

-----------------------------------------------------------------------------
(* A row is written: by the commit of a send, or by a change of status.    *)

\* What the others rely on stays when a row is written that they have not
\* locked, and that does not become active next to one that is.
LEMMA RowWritten ==
    ASSUME NullsAssumption, IInv, NEW c \in Conversations, NEW row \in RowType,
           conversation' = [conversation EXCEPT ![c] = row],
           row.session \in Sessions,
           row.session = conversation[c].session \/ conversation[c] = Absent,
           row.status \in ActiveStatuses => ActiveIn(conversation, row.session) \subseteq {c}
    PROVE  /\ conversation' \in [Conversations -> RowType]
           /\ conversation'[c] = row
           /\ \A d \in Conversations : d # c => conversation'[d] = conversation[d]
           /\ OneActive(conversation')
           /\ \A u \in Sessions :
                 /\ visitorTxn[u].conversation # c
                 /\ u = row.session /\ row.status \in ActiveStatuses =>
                        visitorTxn[u].pc \notin {"send_reopened", "send_inserted"}
                 => Relies(u, visitorTxn[u], conversation')
           /\ \A d \in Conversations : Exists(d) => conversation'[d].session = conversation[d].session
                                                    /\ conversation'[d].session # NoSession
           /\ \A d \in Conversations :
                 messages[d] # {} => conversation'[d].session = conversation[d].session
<1>1. /\ conversation' \in [Conversations -> RowType] /\ conversation'[c] = row
      /\ \A d \in Conversations : d # c => conversation'[d] = conversation[d]
  BY DEF IInv, TypeOK
<1>2. \A u \in Sessions : u # row.session => ActiveIn(conversation', u) \subseteq ActiveIn(conversation, u)
  BY <1>1 DEF ActiveIn
<1>3. row.status \notin ActiveStatuses =>
          ActiveIn(conversation', row.session) \subseteq ActiveIn(conversation, row.session)
  BY <1>1 DEF ActiveIn
<1>4. row.status \in ActiveStatuses => ActiveIn(conversation', row.session) \subseteq {c}
  BY <1>1 DEF ActiveIn
<1>5. OneActive(conversation')
  <2> SUFFICES ASSUME NEW u \in Sessions, NEW d \in ActiveIn(conversation', u),
                      NEW e \in ActiveIn(conversation', u)
               PROVE  d = e
    BY DEF OneActive
  <2>1. \A x, y \in ActiveIn(conversation, u) : x = y
    BY DEF IInv, OneActive
  <2>2. CASE u = row.session /\ row.status \in ActiveStatuses
    BY <2>2, <1>4
  <2>3. CASE ~(u = row.session /\ row.status \in ActiveStatuses)
    BY <2>1, <2>3, <1>2, <1>3
  <2> QED  BY <2>2, <2>3
<1>6. ASSUME NEW u \in Sessions, visitorTxn[u].conversation # c,
             u = row.session /\ row.status \in ActiveStatuses =>
                 visitorTxn[u].pc \notin {"send_reopened", "send_inserted"}
      PROVE  Relies(u, visitorTxn[u], conversation')
  <2>1. Relies(u, visitorTxn[u], conversation)
    BY DEF IInv
  <2>2. visitorTxn[u].pc \in {"send_reopened", "send_inserted"} => ActiveIn(conversation', u) = {}
    BY <1>2, <1>3, <1>6, <2>1 DEF Relies
  <2> QED  BY <1>1, <1>6, <2>1, <2>2 DEF Relies
<1>7. \A d \in Conversations : Exists(d) => conversation'[d].session = conversation[d].session
                                            /\ conversation'[d].session # NoSession
  BY <1>1 DEF Exists, Absent, NullsAssumption
<1>8. conversation[c] = Absent => messages[c] = {}
  <2>1. ASSUME conversation[c] = Absent
        PROVE  messages[c] = {}
    <3>1. IsFiniteSet(messages[c]) /\ Cardinality(messages[c]) + 1 = 1
      BY <2>1 DEF IInv, LogInv, Numbered, Absent
    <3>2. Cardinality(messages[c]) = 0
      BY <3>1, FS_CardinalityType
    <3> QED  BY <3>1, <3>2, FS_EmptySet
  <2> QED  BY <2>1
<1> QED  BY <1>1, <1>5, <1>6, <1>7, <1>8

\* The row a visitor's send has locked or is about to insert.
LEMMA OwnRowIs ==
    ASSUME NullsAssumption, IInv, NEW s \in Sessions, visitorTxn[s].pc \in Sending
    PROVE  LET c == visitorTxn[s].conversation
           IN  /\ c \in Conversations /\ visitorTxn[s].clientId \in ClientIds
               /\ OwnRow(s) \in RowType /\ OwnRow(s).session = s
               /\ OwnRow(s).status \in ActiveStatuses
               /\ OwnRow(s).nextSequence = conversation[c].nextSequence
               /\ conversation[c].session = s \/ conversation[c] = Absent
               /\ ActiveIn(conversation, s) \subseteq {c}
<1> DEFINE c == visitorTxn[s].conversation
<1>1. Relies(s, visitorTxn[s], conversation)
  BY DEF IInv
<1>2. c \in Conversations /\ visitorTxn[s].clientId \in ClientIds
  BY <1>1 DEF Relies, Sending
<1>3. conversation[c] \in RowType /\ 0 \in 0..MaxResolutions
  BY <1>2 DEF IInv, TypeOK, NullsAssumption
<1>4. CASE visitorTxn[s].pc = "send_found"
  <2>1. OwnRow(s) = conversation[c] /\ conversation[c].session = s
        /\ conversation[c].status \in ActiveStatuses
    BY <1>1, <1>4 DEF OwnRow, Relies
  <2>2. ActiveIn(conversation, s) \subseteq {c}
    BY <1>2, <2>1 DEF IInv, OneActive, ActiveIn
  <2> QED  BY <1>2, <1>3, <2>1, <2>2
<1>5. CASE visitorTxn[s].pc = "send_reopened"
  <2>1. OwnRow(s) = [conversation[c] EXCEPT !.status = "open", !.resolvedAt = 0]
        /\ conversation[c].session = s /\ ActiveIn(conversation, s) = {}
    BY <1>1, <1>5 DEF OwnRow, Relies
  <2>2. OwnRow(s) \in RowType /\ OwnRow(s).session = s /\ OwnRow(s).status = "open"
        /\ OwnRow(s).nextSequence = conversation[c].nextSequence
    BY <1>3, <2>1 DEF RowType, Statuses, ActiveStatuses
  <2> QED  BY <1>2, <2>1, <2>2 DEF ActiveStatuses
<1>6. CASE visitorTxn[s].pc = "send_inserted"
  <2>1. OwnRow(s) = NewRow(s) /\ conversation[c] = Absent /\ ActiveIn(conversation, s) = {}
    BY <1>1, <1>6 DEF OwnRow, Relies
  <2>2. NewRow(s) \in RowType /\ NewRow(s).session = s /\ NewRow(s).status = "open"
        /\ NewRow(s).nextSequence = Absent.nextSequence
    BY <1>3 DEF NewRow, Absent, RowType, Statuses, ActiveStatuses
  <2> QED  BY <1>2, <2>1, <2>2 DEF ActiveStatuses
<1> QED  BY <1>4, <1>5, <1>6 DEF Sending

LEMMA AppendedIs ==
    ASSUME NEW row \in RowType
    PROVE  /\ Appended(row) \in RowType /\ Appended(row).nextSequence = row.nextSequence + 1
           /\ Appended(row).session = row.session /\ Appended(row).status = row.status
<1>1. row.nextSequence \in Nat /\ row.messageCount \in Nat
  BY DEF RowType
<1>2. Appended(row) = [row EXCEPT !.nextSequence = row.nextSequence + 1,
                                 !.messageCount = row.messageCount + 1]
  BY DEF Appended, RowType
<1>3. row.nextSequence + 1 \in Nat /\ row.messageCount + 1 \in Nat
  BY <1>1
<1> QED  BY <1>2, <1>3 DEF RowType

\* A message at the end of a log, under the lock of the row.
LEMMA Appends ==
    ASSUME IInv, NEW c \in Conversations, NEW row \in RowType, NEW m \in MessageType,
           row.nextSequence = conversation[c].nextSequence, m.sequence = row.nextSequence,
           Find(c, m.clientId) = {},
           messages' = [messages EXCEPT ![c] = @ \union {m}]
    PROVE  /\ messages' \in [Conversations -> SUBSET MessageType]
           /\ Numbered(Appended(row), messages'[c])
           /\ messages'[c] = messages[c] \union {m}
           /\ m.sequence = Cardinality(messages[c]) + 1
           /\ Cardinality(messages'[c]) = Cardinality(messages[c]) + 1
           /\ Cardinality(messages[c]) \in Nat
           /\ \A d \in Conversations : d # c => messages'[d] = messages[d]
<1>1. Appended(row).nextSequence = row.nextSequence + 1
  BY AppendedIs
<1>2. /\ messages'[c] = messages[c] \union {m}
      /\ messages' \in [Conversations -> SUBSET MessageType]
      /\ \A d \in Conversations : d # c => messages'[d] = messages[d]
  BY DEF IInv, TypeOK
<1>3. Numbered(row, messages[c]) /\ \A n \in messages[c] : n.clientId # m.clientId
  BY DEF IInv, LogInv, Numbered, Find
<1>4. Numbered(Appended(row), messages'[c]) /\ Cardinality(messages'[c]) = Cardinality(messages[c]) + 1
      /\ Cardinality(messages[c]) \in Nat
  <2> DEFINE after == Appended(row)  ms == messages[c]
  <2>1. after.nextSequence = row.nextSequence + 1
        /\ Numbered(row, ms) /\ \A n \in ms : n.clientId # m.clientId
    BY <1>1, <1>3
  <2> HIDE DEF after, ms
  <2>2. Numbered(after, ms \union {m}) /\ Cardinality(ms \union {m}) = Cardinality(ms) + 1
        /\ Cardinality(ms) \in Nat
    BY <2>1, NumberedAppend
  <2> QED  BY <1>2, <2>2 DEF after, ms
<1>5. m.sequence = Cardinality(messages[c]) + 1
  BY <1>3 DEF Numbered
<1> QED  BY <1>2, <1>4, <1>5

\* The step of a send that appends a message to conversation c, or that finds it
\* there and only writes the row, and then answers.
LEMMA WriteInv ==
    ASSUME NullsAssumption, IInv, NEW c \in Conversations, NEW row \in RowType,
           NEW m \in MessageType, NEW id \in ClientIds, m.clientId = id,
           m.sequence = row.nextSequence, row.session \in Sessions,
           row.session = conversation[c].session \/ conversation[c] = Absent,
           row.nextSequence = conversation[c].nextSequence,
           row.session = client[id].origin \/ c = client[id].origin,
           row.status \in ActiveStatuses => ActiveIn(conversation, row.session) \subseteq {c},
           \/ /\ Find(c, id) # {}
              /\ conversation' = [conversation EXCEPT ![c] = row]
              /\ UNCHANGED messages
           \/ /\ Find(c, id) = {}
              /\ conversation' = [conversation EXCEPT ![c] = Appended(row)]
              /\ messages' = [messages EXCEPT ![c] = @ \union {m}],
           Answer(id),
           UNCHANGED <<clock, horizon>>
    PROVE  /\ conversation' \in [Conversations -> RowType]
           /\ messages' \in [Conversations -> SUBSET MessageType]
           /\ LogInv'
           /\ OneActive(conversation')
           /\ \A u \in Sessions :
                 /\ visitorTxn[u].conversation # c
                 /\ u = row.session /\ row.status \in ActiveStatuses =>
                        visitorTxn[u].pc \notin {"send_reopened", "send_inserted"}
                 => Relies(u, visitorTxn[u], conversation')
           /\ \A d \in Conversations : Exists(d) => conversation'[d].session = conversation[d].session
                                                    /\ conversation'[d].session # NoSession
           /\ AnsweredIsStored'
<1> DEFINE after == conversation'[c]
<1>1. /\ after \in RowType /\ conversation' = [conversation EXCEPT ![c] = after]
      /\ after.session = row.session /\ after.status = row.status
      /\ Numbered(after, messages'[c])
      /\ messages' \in [Conversations -> SUBSET MessageType]
      /\ \A d \in Conversations : messages[d] \subseteq messages'[d]
      /\ \A d \in Conversations : d # c => messages'[d] = messages[d]
      /\ \E n \in messages'[c] : n.clientId = id
  <2>0. conversation \in [Conversations -> RowType] /\ messages \in [Conversations -> SUBSET MessageType]
    BY DEF IInv, TypeOK
  <2>1. CASE Find(c, id) # {} /\ conversation' = [conversation EXCEPT ![c] = row] /\ UNCHANGED messages
    <3>1. after = row /\ Numbered(conversation[c], messages[c])
      BY <2>0, <2>1 DEF IInv, LogInv
    <3>2. Numbered(row, messages[c])
      BY <3>1 DEF Numbered
    <3> QED  BY <2>0, <2>1, <3>1, <3>2 DEF Find
  <2>2. CASE /\ Find(c, id) = {}
             /\ conversation' = [conversation EXCEPT ![c] = Appended(row)]
             /\ messages' = [messages EXCEPT ![c] = @ \union {m}]
    <3>1. after = Appended(row)
      BY <2>0, <2>2
    <3> HIDE DEF after
    <3>2. /\ messages' \in [Conversations -> SUBSET MessageType]
          /\ Numbered(Appended(row), messages'[c])
          /\ messages'[c] = messages[c] \union {m}
          /\ \A d \in Conversations : d # c => messages'[d] = messages[d]
      BY <2>2, Appends
    <3>5. /\ Appended(row) \in RowType
          /\ Appended(row).session = row.session /\ Appended(row).status = row.status
      BY AppendedIs
    <3>3. \A d \in Conversations : messages[d] \subseteq messages'[d]
      BY <3>2
    <3>4. \E n \in messages'[c] : n.clientId = id
      BY <3>2
    <3> QED  BY <2>2, <3>1, <3>2, <3>3, <3>4, <3>5
  <2> QED  BY <2>1, <2>2
<1> HIDE DEF after
<1>2. /\ conversation' \in [Conversations -> RowType]
      /\ conversation'[c] = after
      /\ \A d \in Conversations : d # c => conversation'[d] = conversation[d]
      /\ OneActive(conversation')
      /\ \A u \in Sessions :
            /\ visitorTxn[u].conversation # c
            /\ u = after.session /\ after.status \in ActiveStatuses =>
                   visitorTxn[u].pc \notin {"send_reopened", "send_inserted"}
            => Relies(u, visitorTxn[u], conversation')
      /\ \A d \in Conversations : Exists(d) => conversation'[d].session = conversation[d].session
                                               /\ conversation'[d].session # NoSession
      /\ \A d \in Conversations :
            messages[d] # {} => conversation'[d].session = conversation[d].session
  BY <1>1, RowWritten
<1>3. LogInv'
  <2> SUFFICES ASSUME NEW d \in Conversations
               PROVE  /\ Numbered(conversation'[d], messages'[d])
                      /\ conversation'[d].session = NoSession => conversation'[d] = Absent
    BY DEF LogInv
  <2>1. CASE d = c
    BY <1>1, <1>2, <2>1 DEF NullsAssumption
  <2>2. CASE d # c
    BY <1>1, <1>2, <2>2 DEF IInv, LogInv
  <2> QED  BY <2>1, <2>2
<1>4. AnsweredIsStored'
  <2>1. \A j \in ClientIds : client'[j].acked =>
            client'[j].origin = client[j].origin /\ (client[j].acked \/ j = id)
    BY AnswerTells
  <2>2. /\ conversation'[c].session = client[id].origin \/ c = client[id].origin
        /\ \E n \in messages'[c] : n.clientId = id
    BY <1>1, <1>2
  <2> QED  BY <1>1, <1>2, <2>1, <2>2, AnsweredStays
<1> QED  BY <1>1, <1>2, <1>3, <1>4

LEMMA CommitVisitorSendInv ==
    ASSUME NullsAssumption, IInv, NEW s \in Sessions, CommitVisitorSend(s)
    PROVE  IInv'
<1> DEFINE c == visitorTxn[s].conversation  id == visitorTxn[s].clientId
<1>1. /\ visitorTxn[s].pc \in Sending
      /\ visitorTxn' = [visitorTxn EXCEPT ![s] = Idle]
      /\ Answer(id) /\ UNCHANGED <<operatorTxn, clock, horizon>>
  BY DEF CommitVisitorSend
<1>2. /\ c \in Conversations /\ id \in ClientIds
      /\ OwnRow(s) \in RowType /\ OwnRow(s).session = s
      /\ OwnRow(s).status \in ActiveStatuses
      /\ OwnRow(s).nextSequence = conversation[c].nextSequence
      /\ conversation[c].session = s \/ conversation[c] = Absent
      /\ ActiveIn(conversation, s) \subseteq {c}
  BY <1>1, OwnRowIs
<1>3. \/ /\ Find(c, id) # {}
         /\ conversation' = [conversation EXCEPT ![c] = OwnRow(s)]
         /\ UNCHANGED messages
      \/ /\ Find(c, id) = {}
         /\ conversation' = [conversation EXCEPT ![c] = Appended(OwnRow(s))]
         /\ messages' = [messages EXCEPT ![c] = @ \union {Message(id, OwnRow(s), "visitor")}]
  BY DEF CommitVisitorSend
<1>4. client[id].origin = s
  BY <1>1 DEF IInv, OriginInv, Sending
<1>5. /\ visitorTxn' \in [Sessions -> TxnType(VisitorPcs)] /\ visitorTxn'[s] = Idle
      /\ \A u \in Sessions \ {s} : visitorTxn'[u] = visitorTxn[u]
  <2>1. Idle \in TxnType(VisitorPcs)
    BY DEF Idle, TxnType, VisitorPcs
  <2> QED  BY <1>1, <2>1 DEF IInv, TypeOK
<1> DEFINE row == OwnRow(s)  m == Message(id, row, "visitor")
<1>0. m \in MessageType /\ m.clientId = id /\ m.sequence = row.nextSequence
  BY <1>2 DEF Message, MessageType, RowType
<1> HIDE DEF c, id, row, m
<1>6. /\ conversation' \in [Conversations -> RowType]
      /\ messages' \in [Conversations -> SUBSET MessageType]
      /\ LogInv'
      /\ OneActive(conversation')
      /\ \A u \in Sessions :
            /\ visitorTxn[u].conversation # c
            /\ u = row.session /\ row.status \in ActiveStatuses =>
                   visitorTxn[u].pc \notin {"send_reopened", "send_inserted"}
            => Relies(u, visitorTxn[u], conversation')
      /\ \A d \in Conversations : Exists(d) => conversation'[d].session = conversation[d].session
                                               /\ conversation'[d].session # NoSession
      /\ AnsweredIsStored'
  <2>1. /\ row \in RowType /\ row.session \in Sessions
        /\ row.session = conversation[c].session \/ conversation[c] = Absent
        /\ row.nextSequence = conversation[c].nextSequence
        /\ row.session = client[id].origin \/ c = client[id].origin
        /\ row.status \in ActiveStatuses => ActiveIn(conversation, row.session) \subseteq {c}
    BY <1>2, <1>4 DEF row
  <2>2. \/ /\ Find(c, id) # {}
           /\ conversation' = [conversation EXCEPT ![c] = row]
           /\ UNCHANGED messages
        \/ /\ Find(c, id) = {}
           /\ conversation' = [conversation EXCEPT ![c] = Appended(row)]
           /\ messages' = [messages EXCEPT ![c] = @ \union {m}]
    BY <1>3 DEF row, m
  <2> QED  BY <1>0, <1>1, <1>2, <2>1, <2>2, WriteInv
<1>7. TypeOK'
  <2>1. client' \in [ClientIds -> [origin : Sessions \union Conversations \union {NoOrigin},
                                   acked : BOOLEAN]]
    BY <1>1, <1>2, AnswerTells
  <2> QED  BY <1>1, <1>5, <1>6, <2>1 DEF IInv, TypeOK
<1>8. \A u \in Sessions : Relies(u, visitorTxn'[u], conversation')
  <2>1. Relies(s, visitorTxn'[s], conversation')
    BY <1>5 DEF Relies, Idle
  <2>2. ASSUME NEW u \in Sessions \ {s}
        PROVE  Relies(u, visitorTxn[u], conversation')
    <3>1. visitorTxn[u].conversation # c
      BY <1>2 DEF IInv, LocksInv, c
    <3>2. u # row.session
      BY <1>2 DEF row
    <3> QED  BY <1>6, <3>1, <3>2
  <2> QED  BY <1>5, <2>1, <2>2
<1>9. LocksInv'
  BY <1>5 DEF IInv, LocksInv, Idle, NullsAssumption
<1>10. OriginInv'
  <2>1. \A j \in ClientIds : client'[j].origin = client[j].origin
    BY <1>1, <1>2, AnswerTells
  <2>2. \A u \in Sessions : visitorTxn[u].pc # "idle" => visitorTxn[u].clientId \in ClientIds
    BY DEF IInv, Relies
  <2>3. \A u \in Sessions : visitorTxn'[u].pc # "idle" => client'[visitorTxn'[u].clientId].origin = u
    BY <1>5, <2>1, <2>2 DEF IInv, OriginInv, Idle
  <2>4. ASSUME NEW r \in Requests, operatorTxn[r].pc # "idle"
        PROVE  LET t == operatorTxn[r] IN
               /\ t.clientId \in ClientIds /\ t.conversation \in Conversations
               /\ client'[t.clientId].origin = t.conversation
               /\ conversation'[t.conversation].session # NoSession
    BY <1>6, <2>1, <2>4 DEF IInv, OriginInv
  <2> QED  BY <1>1, <2>3, <2>4 DEF OriginInv, Exists
<1> QED  BY <1>6, <1>7, <1>8, <1>9, <1>10 DEF IInv, Relies, ActiveIn, OneActive

-----------------------------------------------------------------------------
(* An operator's send.                                                     *)

\* The transaction of a request slot changes, and nothing it wrote is kept.
LEMMA OperatorMoves ==
    ASSUME NullsAssumption, IInv, NEW r \in Requests,
           NEW t \in TxnType({"idle", "dedupe", "send"}),
           operatorTxn' = [operatorTxn EXCEPT ![r] = t],
           UNCHANGED <<conversation, messages, visitorTxn, clock, horizon>>,
           client' \in [ClientIds -> [origin : Sessions \union Conversations \union {NoOrigin},
                                      acked : BOOLEAN]],
           \A j \in ClientIds :
               /\ client[j].origin # NoOrigin => client'[j].origin = client[j].origin
               /\ client'[j].acked =>
                     /\ client'[j].origin = client[j].origin
                     /\ \/ client[j].acked
                        \/ \E c \in Conversations : c = client[j].origin /\ Find(c, j) # {},
           t.pc # "idle" => /\ t.clientId \in ClientIds /\ t.conversation \in Conversations
                            /\ client'[t.clientId].origin = t.conversation
                            /\ Exists(t.conversation)
    PROVE  IInv'
<1>1. /\ operatorTxn' \in [Requests -> TxnType({"idle", "dedupe", "send"})]
      /\ operatorTxn'[r] = t
      /\ \A q \in Requests \ {r} : operatorTxn'[q] = operatorTxn[q]
  BY DEF IInv, TypeOK
<1>2. TypeOK'
  BY <1>1 DEF IInv, TypeOK
<1>3. LogInv' /\ OneActive(conversation)' /\ LocksInv'
      /\ \A s \in Sessions : Relies(s, visitorTxn[s], conversation)'
  BY DEF IInv, LogInv, OneActive, ActiveIn, LocksInv, Relies
<1>4. OriginInv'
  <2>1. ASSUME NEW s \in Sessions, visitorTxn[s].pc # "idle"
        PROVE  client'[visitorTxn[s].clientId].origin = s
    <3>1. visitorTxn[s].clientId \in ClientIds /\ client[visitorTxn[s].clientId].origin = s
      BY <2>1 DEF IInv, OriginInv, Relies
    <3>2. client[visitorTxn[s].clientId].origin # NoOrigin
      BY <3>1 DEF NullsAssumption
    <3> QED  BY <3>1, <3>2
  <2>2. ASSUME NEW q \in Requests \ {r}, operatorTxn[q].pc # "idle"
        PROVE  /\ operatorTxn[q].clientId \in ClientIds /\ operatorTxn[q].conversation \in Conversations
               /\ client'[operatorTxn[q].clientId].origin = operatorTxn[q].conversation
               /\ Exists(operatorTxn[q].conversation)
    <3>1. /\ operatorTxn[q].clientId \in ClientIds /\ operatorTxn[q].conversation \in Conversations
          /\ client[operatorTxn[q].clientId].origin = operatorTxn[q].conversation
          /\ Exists(operatorTxn[q].conversation)
      BY <2>2 DEF IInv, OriginInv
    <3>2. client[operatorTxn[q].clientId].origin # NoOrigin
      BY <3>1 DEF NullsAssumption
    <3> QED  BY <3>1, <3>2
  <2> QED  BY <1>1, <2>1, <2>2 DEF OriginInv, Exists
<1>5. AnsweredIsStored'
  <2>1. \A j \in ClientIds : client'[j].acked =>
            /\ client'[j].origin = client[j].origin
            /\ \/ client[j].acked
               \/ \E c \in Conversations :
                     /\ conversation'[c].session = client[j].origin \/ c = client[j].origin
                     /\ \E m \in messages'[c] : m.clientId = j
    BY DEF Find
  <2> QED  BY <2>1, AnsweredStays
<1> QED  BY <1>2, <1>3, <1>4, <1>5 DEF IInv

LEMMA BeginOperatorSendInv ==
    ASSUME NullsAssumption, IInv, NEW r \in Requests, NEW c \in Conversations,
           NEW id \in ClientIds, BeginOperatorSend(r, c, id)
    PROVE  IInv'
<1> DEFINE t == [pc |-> "dedupe", clientId |-> id, conversation |-> c]
<1>1. /\ MaySend(id, c) /\ client' = [client EXCEPT ![id].origin = c] /\ Exists(c)
      /\ operatorTxn' = [operatorTxn EXCEPT ![r] = t]
      /\ UNCHANGED <<conversation, messages, visitorTxn, clock, horizon>>
  BY DEF BeginOperatorSend
<1>2. t \in TxnType({"idle", "dedupe", "send"}) /\ t.clientId = id /\ t.conversation = c
  BY DEF TxnType
<1> HIDE DEF t
<1>3. /\ client' \in [ClientIds -> [origin : Sessions \union Conversations \union {NoOrigin},
                                    acked : BOOLEAN]]
      /\ client'[id].origin = c
      /\ \A j \in ClientIds : /\ client[j].origin # NoOrigin => client'[j].origin = client[j].origin
                              /\ client'[j].acked => client[j].acked /\ client'[j].origin = client[j].origin
  BY <1>1, OriginIsGiven
<1> QED  BY <1>1, <1>2, <1>3, OperatorMoves

\* Every way a request ends that does not append a message.
LEMMA ReturnExistingInv ==
    ASSUME NullsAssumption, IInv, NEW r \in Requests, ReturnExisting(r)
    PROVE  IInv'
<1> DEFINE c == operatorTxn[r].conversation  id == operatorTxn[r].clientId
<1>1. /\ operatorTxn[r].pc = "dedupe" /\ Find(c, id) # {}
      /\ operatorTxn' = [operatorTxn EXCEPT ![r] = Idle] /\ Answer(id)
      /\ UNCHANGED <<conversation, messages, visitorTxn, clock, horizon>>
  BY DEF ReturnExisting
<1>2. id \in ClientIds /\ c \in Conversations /\ client[id].origin = c
  BY <1>1 DEF IInv, OriginInv
<1>3. Idle \in TxnType({"idle", "dedupe", "send"}) /\ Idle.pc = "idle"
  BY DEF Idle, TxnType
<1> HIDE DEF c, id
<1>4. /\ client' \in [ClientIds -> [origin : Sessions \union Conversations \union {NoOrigin},
                                    acked : BOOLEAN]]
      /\ \A j \in ClientIds : /\ client'[j].origin = client[j].origin
                              /\ client'[j].acked => client[j].acked \/ j = id
  BY <1>1, <1>2, AnswerTells
<1> QED  BY <1>1, <1>2, <1>3, <1>4, OperatorMoves

LEMMA FindNothingInv ==
    ASSUME NullsAssumption, IInv, NEW r \in Requests, FindNothing(r)
    PROVE  IInv'
<1> DEFINE t == [operatorTxn[r] EXCEPT !.pc = "send"]
<1>1. /\ operatorTxn[r].pc = "dedupe" /\ operatorTxn[r] \in TxnType({"idle", "dedupe", "send"})
      /\ operatorTxn' = [operatorTxn EXCEPT ![r] = t]
      /\ UNCHANGED <<conversation, messages, visitorTxn, client, clock, horizon>>
  BY DEF FindNothing, IInv, TypeOK
<1>2. /\ t \in TxnType({"idle", "dedupe", "send"})
      /\ t.clientId = operatorTxn[r].clientId /\ t.conversation = operatorTxn[r].conversation
  BY <1>1 DEF TxnType
<1>3. /\ operatorTxn[r].clientId \in ClientIds /\ operatorTxn[r].conversation \in Conversations
      /\ client[operatorTxn[r].clientId].origin = operatorTxn[r].conversation
      /\ Exists(operatorTxn[r].conversation)
  BY <1>1 DEF IInv, OriginInv
<1>4. client' \in [ClientIds -> [origin : Sessions \union Conversations \union {NoOrigin},
                                 acked : BOOLEAN]]
  BY <1>1 DEF IInv, TypeOK
<1> HIDE DEF t
<1> QED  BY <1>1, <1>2, <1>3, <1>4, OperatorMoves

LEMMA AbortOperatorSendInv ==
    ASSUME NullsAssumption, IInv, NEW r \in Requests, AbortOperatorSend(r)
    PROVE  IInv'
<1>1. /\ operatorTxn' = [operatorTxn EXCEPT ![r] = Idle]
      /\ UNCHANGED <<conversation, messages, visitorTxn, client, clock, horizon>>
  BY DEF AbortOperatorSend
<1>2. Idle \in TxnType({"idle", "dedupe", "send"}) /\ Idle.pc = "idle"
  BY DEF Idle, TxnType
<1>3. client' \in [ClientIds -> [origin : Sessions \union Conversations \union {NoOrigin},
                                 acked : BOOLEAN]]
  BY <1>1 DEF IInv, TypeOK
<1> QED  BY <1>1, <1>2, <1>3, OperatorMoves

\* Nobody has locked the row, so nobody relies on it; and no status changes.
LEMMA CommitOperatorSendInv ==
    ASSUME NullsAssumption, IInv, NEW r \in Requests, CommitOperatorSend(r)
    PROVE  IInv'
<1> DEFINE c == operatorTxn[r].conversation  id == operatorTxn[r].clientId  row == conversation[c]
           m == Message(id, row, "agent")
<1>1. /\ operatorTxn[r].pc = "send" /\ ~Locked(c) /\ Find(c, id) = {}
      /\ operatorTxn' = [operatorTxn EXCEPT ![r] = Idle]
      /\ Answer(id) /\ UNCHANGED <<visitorTxn, clock, horizon>>
      /\ messages' = [messages EXCEPT ![c] = @ \union {m}]
  BY DEF CommitOperatorSend
<1>2. id \in ClientIds /\ c \in Conversations /\ client[id].origin = c /\ Exists(c)
  BY <1>1 DEF IInv, OriginInv
<1>3. /\ row \in RowType /\ row.session \in Sessions
      /\ conversation' = [conversation EXCEPT ![c] = Appended(row)]
  BY <1>2 DEF IInv, TypeOK, RowType, Exists, CommitOperatorSend
<1>4. row.status \in ActiveStatuses => ActiveIn(conversation, row.session) \subseteq {c}
  BY <1>2, <1>3 DEF IInv, OneActive, ActiveIn
<1>5. row.session = conversation[c].session /\ row.nextSequence = conversation[c].nextSequence
  OBVIOUS
<1>0. m \in MessageType /\ m.clientId = id /\ m.sequence = row.nextSequence
  BY <1>2, <1>3 DEF Message, MessageType, RowType
<1>6. \A u \in Sessions : visitorTxn[u].conversation # c
  BY <1>1 DEF Locked
<1>7. \A u \in Sessions : u = row.session /\ row.status \in ActiveStatuses =>
                              visitorTxn[u].pc \notin {"send_reopened", "send_inserted"}
  BY <1>2 DEF IInv, Relies, ActiveIn
<1> HIDE DEF c, id, row, m
<1>8. /\ conversation' \in [Conversations -> RowType]
      /\ messages' \in [Conversations -> SUBSET MessageType]
      /\ LogInv'
      /\ OneActive(conversation')
      /\ \A u \in Sessions :
            /\ visitorTxn[u].conversation # c
            /\ u = row.session /\ row.status \in ActiveStatuses =>
                   visitorTxn[u].pc \notin {"send_reopened", "send_inserted"}
            => Relies(u, visitorTxn[u], conversation')
      /\ \A d \in Conversations : Exists(d) => conversation'[d].session = conversation[d].session
                                               /\ conversation'[d].session # NoSession
      /\ AnsweredIsStored'
  BY <1>0, <1>1, <1>2, <1>3, <1>4, <1>5, WriteInv
<1>9. /\ operatorTxn' \in [Requests -> TxnType({"idle", "dedupe", "send"})]
      /\ operatorTxn'[r] = Idle /\ \A q \in Requests \ {r} : operatorTxn'[q] = operatorTxn[q]
  <2>1. Idle \in TxnType({"idle", "dedupe", "send"})
    BY DEF Idle, TxnType
  <2> QED  BY <1>1, <2>1 DEF IInv, TypeOK
<1>10. /\ client' \in [ClientIds -> [origin : Sessions \union Conversations \union {NoOrigin},
                                     acked : BOOLEAN]]
       /\ \A j \in ClientIds : client'[j].origin = client[j].origin
  BY <1>1, <1>2, AnswerTells
<1>11. TypeOK'
  BY <1>1, <1>8, <1>9, <1>10 DEF IInv, TypeOK
<1>12. \A u \in Sessions : Relies(u, visitorTxn[u], conversation')
  BY <1>6, <1>7, <1>8
<1>13. LocksInv'
  BY <1>1 DEF IInv, LocksInv
<1>14. OriginInv'
  <2>1. \A u \in Sessions : visitorTxn[u].pc # "idle" =>
            visitorTxn[u].clientId \in ClientIds /\ client[visitorTxn[u].clientId].origin = u
    BY DEF IInv, OriginInv, Relies
  <2>2. ASSUME NEW q \in Requests \ {r}, operatorTxn[q].pc # "idle"
        PROVE  LET t == operatorTxn[q] IN
               /\ t.clientId \in ClientIds /\ t.conversation \in Conversations
               /\ client'[t.clientId].origin = t.conversation
               /\ conversation'[t.conversation].session # NoSession
    BY <1>8, <1>10, <2>2 DEF IInv, OriginInv
  <2>3. operatorTxn'[r].pc = "idle"
    BY <1>9 DEF Idle
  <2> QED  BY <1>1, <1>9, <1>10, <2>1, <2>2, <2>3 DEF OriginInv, Exists
<1> QED  BY <1>1, <1>8, <1>11, <1>12, <1>13, <1>14 DEF IInv, Relies, ActiveIn, OneActive

-----------------------------------------------------------------------------
(* Changes of status, and the passing of time.                             *)

LEMMA StatusWritten ==
    ASSUME NullsAssumption, IInv, NEW c \in Conversations, NEW row \in RowType,
           conversation' = [conversation EXCEPT ![c] = row],
           Exists(c), row.session = conversation[c].session,
           row.nextSequence = conversation[c].nextSequence,
           ~Locked(c),
           row.status \in ActiveStatuses =>
               /\ ActiveIn(conversation, row.session) \subseteq {c}
               /\ ~Activating(row.session),
           UNCHANGED <<messages, visitorTxn, operatorTxn, client>>,
           clock' \in 0..MaxResolutions, horizon' \in 0..clock'
    PROVE  IInv'
<1>1. row.session \in Sessions
  BY DEF RowType, Exists
<1>2. /\ conversation' \in [Conversations -> RowType]
      /\ conversation'[c] = row
      /\ \A d \in Conversations : d # c => conversation'[d] = conversation[d]
      /\ OneActive(conversation')
      /\ \A u \in Sessions :
            /\ visitorTxn[u].conversation # c
            /\ u = row.session /\ row.status \in ActiveStatuses =>
                   visitorTxn[u].pc \notin {"send_reopened", "send_inserted"}
            => Relies(u, visitorTxn[u], conversation')
      /\ \A d \in Conversations : Exists(d) => conversation'[d].session = conversation[d].session
                                               /\ conversation'[d].session # NoSession
      /\ \A d \in Conversations :
            messages[d] # {} => conversation'[d].session = conversation[d].session
  BY <1>1, RowWritten
<1>3. TypeOK'
  BY <1>2 DEF IInv, TypeOK
<1>4. LogInv'
  <2> SUFFICES ASSUME NEW d \in Conversations
               PROVE  /\ Numbered(conversation'[d], messages'[d])
                      /\ conversation'[d].session = NoSession => conversation'[d] = Absent
    BY DEF LogInv
  <2>1. CASE d = c
    BY <1>1, <1>2, <2>1 DEF IInv, LogInv, Numbered, NullsAssumption
  <2>2. CASE d # c
    BY <1>2, <2>2 DEF IInv, LogInv
  <2> QED  BY <2>1, <2>2
<1>5. \A u \in Sessions : Relies(u, visitorTxn[u], conversation')
  BY <1>2 DEF Locked, Activating
<1>6. LocksInv'
  BY DEF IInv, LocksInv
<1>7. OriginInv'
  BY <1>2 DEF IInv, OriginInv, Exists
<1>8. AnsweredIsStored'
  BY <1>2, AnsweredStays
<1> QED  BY <1>2, <1>3, <1>4, <1>5, <1>6, <1>7, <1>8 DEF IInv, Relies, ActiveIn, OneActive

LEMMA UpdateToActiveInv ==
    ASSUME NullsAssumption, IInv, NEW c \in Conversations, NEW status \in ActiveStatuses,
           UpdateToActive(c, status)
    PROVE  IInv'
<1> DEFINE row == [conversation[c] EXCEPT !.status = status, !.resolvedAt = 0]
<1>1. /\ Exists(c) /\ ~Locked(c) /\ Active(conversation[c].session) \subseteq {c}
      /\ ~Activating(conversation[c].session)
      /\ UNCHANGED <<messages, visitorTxn, operatorTxn, client, clock, horizon>>
  BY DEF UpdateToActive
<1>2. conversation[c] \in RowType /\ 0 \in 0..MaxResolutions /\ status \in Statuses
  BY DEF IInv, TypeOK, NullsAssumption, Statuses
<1>3. /\ row \in RowType /\ row.session = conversation[c].session
      /\ row.nextSequence = conversation[c].nextSequence
  BY <1>2 DEF RowType
<1>4. conversation' = [conversation EXCEPT ![c] = row]
  BY DEF UpdateToActive, IInv, TypeOK
<1>5. ActiveIn(conversation, row.session) \subseteq {c}
  <2>1. row.session \in Sessions
    BY <1>1, <1>3 DEF RowType, Exists
  <2> QED  BY <1>1, <1>3, <2>1, ActiveIsIn
<1>6. clock' \in 0..MaxResolutions /\ horizon' \in 0..clock'
  BY <1>1 DEF IInv, TypeOK
<1> HIDE DEF row
<1> QED  BY <1>1, <1>3, <1>4, <1>5, <1>6, StatusWritten

LEMMA UpdateToEndInv ==
    ASSUME NullsAssumption, IInv, NEW c \in Conversations, NEW status \in EndStatuses,
           UpdateToEnd(c, status)
    PROVE  IInv'
<1> DEFINE stamp == IF conversation[c].resolvedAt = 0 THEN clock + 1 ELSE conversation[c].resolvedAt
           row == [conversation[c] EXCEPT !.status = status, !.resolvedAt = stamp]
<1>1. /\ Exists(c) /\ ~Locked(c) /\ stamp <= MaxResolutions
      /\ clock' = IF stamp > clock THEN stamp ELSE clock
      /\ UNCHANGED <<messages, visitorTxn, operatorTxn, client, horizon>>
  BY DEF UpdateToEnd
<1>2. conversation[c] \in RowType /\ conversation[c].resolvedAt \in 0..MaxResolutions
      /\ clock \in 0..MaxResolutions /\ horizon \in 0..clock /\ MaxResolutions \in Nat
  BY DEF IInv, TypeOK, RowType, NullsAssumption
<1>3. stamp \in 0..MaxResolutions
  BY <1>1, <1>2
<1>4. conversation' = [conversation EXCEPT ![c] = row]
  BY DEF UpdateToEnd, IInv, TypeOK
<1>5. clock' \in 0..MaxResolutions /\ horizon' \in 0..clock'
  BY <1>1, <1>2, <1>3
<1> HIDE DEF stamp
<1>6. /\ row \in RowType /\ row.session = conversation[c].session
      /\ row.nextSequence = conversation[c].nextSequence /\ row.status \notin ActiveStatuses
  BY <1>2, <1>3 DEF RowType, Statuses, EndStatuses, ActiveStatuses
<1> HIDE DEF row
<1> QED  BY <1>1, <1>4, <1>5, <1>6, StatusWritten

LEMMA ExpireWindowInv ==
    ASSUME NullsAssumption, IInv, ExpireWindow
    PROVE  IInv'
<1>1. UNCHANGED <<conversation, messages, visitorTxn, operatorTxn, client, clock>>
      /\ horizon' \in 0..clock'
  BY DEF ExpireWindow, IInv, TypeOK, NullsAssumption
<1>2. TypeOK'
  BY <1>1 DEF IInv, TypeOK
<1> QED  BY <1>1, <1>2 DEF IInv, LogInv, OneActive, ActiveIn, Relies, LocksInv, OriginInv, Exists,
                         AnsweredIsStored, Of, Find

-----------------------------------------------------------------------------
LEMMA StepInv == NullsAssumption /\ IInv /\ [Next]_vars => IInv'
<1> SUFFICES ASSUME NullsAssumption, IInv, [Next]_vars PROVE IInv'
  OBVIOUS
<1>1. ASSUME NEW s \in Sessions, NEW id \in ClientIds, BeginVisitorSend(s, id)
      PROVE  IInv'
  BY <1>1, BeginVisitorSendInv
<1>2. ASSUME NEW s \in Sessions, VisitorStep(s)
      PROVE  IInv'
  BY <1>2, SelectActiveInv, SelectResolvedInv, ReopenInv, InsertConversationInv, HandleInv,
     CommitVisitorSendInv DEF VisitorStep
<1>3. ASSUME NEW r \in Requests, NEW c \in Conversations, NEW id \in ClientIds,
             BeginOperatorSend(r, c, id)
      PROVE  IInv'
  BY <1>3, BeginOperatorSendInv
<1>4. ASSUME NEW r \in Requests, OperatorStep(r)
      PROVE  IInv'
  BY <1>4, ReturnExistingInv, FindNothingInv, CommitOperatorSendInv, AbortOperatorSendInv
     DEF OperatorStep
<1>5. ASSUME NEW c \in Conversations, NEW status \in ActiveStatuses, UpdateToActive(c, status)
      PROVE  IInv'
  BY <1>5, UpdateToActiveInv
<1>6. ASSUME NEW c \in Conversations, NEW status \in EndStatuses, UpdateToEnd(c, status)
      PROVE  IInv'
  BY <1>6, UpdateToEndInv
<1>7. CASE ExpireWindow
  BY <1>7, ExpireWindowInv
<1>8. CASE UNCHANGED vars
  <2>1. UNCHANGED <<conversation, messages, visitorTxn, operatorTxn, client, clock, horizon>>
    BY <1>8 DEF vars
  <2> QED  BY <2>1 DEF IInv, TypeOK, LogInv, OneActive, ActiveIn, Relies, LocksInv, OriginInv, Exists,
                     AnsweredIsStored, Of, Find
<1> QED  BY <1>1, <1>2, <1>3, <1>4, <1>5, <1>6, <1>7, <1>8 DEF Next

-----------------------------------------------------------------------------
(* The log of a conversation: the client ids in the order of the numbers.  *)

ListOf(ms) == [i \in 1..Cardinality(ms) |-> (CHOOSE m \in ms : m.sequence = i).clientId]

LEMMA ListIsSeq ==
    ASSUME NEW row, NEW ms, ms \subseteq MessageType, Numbered(row, ms)
    PROVE  /\ ListOf(ms) \in Seq(ClientIds) /\ Len(ListOf(ms)) = Cardinality(ms)
           /\ Cardinality(ms) \in Nat
           /\ \A i \in 1..Cardinality(ms) : \A m \in ms : m.sequence = i => ListOf(ms)[i] = m.clientId
           /\ \A i \in 1..Cardinality(ms) : \E m \in ms : ListOf(ms)[i] = m.clientId
<1>1. Cardinality(ms) \in Nat
  BY FS_CardinalityType DEF Numbered
<1>2. \A i \in 1..Cardinality(ms) :
          /\ (CHOOSE m \in ms : m.sequence = i) \in ms
          /\ (CHOOSE m \in ms : m.sequence = i).sequence = i
  BY DEF Numbered
<1>3. \A i \in 1..Cardinality(ms) : \A m \in ms :
          m.sequence = i => m = CHOOSE n \in ms : n.sequence = i
  BY <1>2 DEF Numbered
<1>4. \A m \in ms : m.clientId \in ClientIds
  BY DEF MessageType
<1>5. ListOf(ms) \in [1..Cardinality(ms) -> ClientIds]
  BY <1>2, <1>4 DEF ListOf
<1>6. ListOf(ms) \in Seq(ClientIds) /\ Len(ListOf(ms)) = Cardinality(ms)
  BY <1>1, <1>5
<1>7. \A i \in 1..Cardinality(ms) : \A m \in ms : m.sequence = i => ListOf(ms)[i] = m.clientId
  BY <1>3 DEF ListOf
<1>8. \A i \in 1..Cardinality(ms) : \E m \in ms : ListOf(ms)[i] = m.clientId
  BY <1>2, <1>7
<1> QED  BY <1>1, <1>6, <1>7, <1>8

LEMMA ListAppend ==
    ASSUME NEW row, NEW ms, ms \subseteq MessageType, Numbered(row, ms),
           NEW m \in MessageType, m.sequence = Cardinality(ms) + 1,
           NEW after, Numbered(after, ms \union {m}),
           Cardinality(ms \union {m}) = Cardinality(ms) + 1
    PROVE  ListOf(ms \union {m}) = Append(ListOf(ms), m.clientId)
<1> DEFINE all == ms \union {m}  l == ListOf(ms)  k == ListOf(all)  n == Cardinality(ms)
           a == Append(l, m.clientId)
<1>1. /\ l \in Seq(ClientIds) /\ Len(l) = n /\ n \in Nat
      /\ \A i \in 1..n : \A x \in ms : x.sequence = i => l[i] = x.clientId
  BY ListIsSeq
<1>2. /\ k \in Seq(ClientIds) /\ Len(k) = n + 1
      /\ \A i \in 1..n + 1 : \A x \in all : x.sequence = i => k[i] = x.clientId
  <2>1. all \subseteq MessageType /\ Numbered(after, all) /\ Cardinality(all) = n + 1
    OBVIOUS
  <2> HIDE DEF all, n
  <2> QED  BY <2>1, ListIsSeq
<1>3. m.clientId \in ClientIds
  BY DEF MessageType
<1>4. /\ a \in Seq(ClientIds) /\ Len(a) = n + 1 /\ a[n + 1] = m.clientId
      /\ \A i \in 1..n : a[i] = l[i]
  <2> HIDE DEF l, n
  <2> QED  BY <1>1, <1>3
<1>5. ASSUME NEW i \in 1..n + 1
      PROVE  k[i] = a[i]
  <2>1. CASE i = n + 1
    BY <1>2, <1>4, <2>1
  <2>2. CASE i \in 1..n
    <3>1. PICK x \in ms : x.sequence = i
      BY <2>2 DEF Numbered
    <3> QED  BY <1>1, <1>2, <1>4, <2>2, <3>1
  <2> QED  BY <1>1, <2>1, <2>2
<1> HIDE DEF all, l, k, n, a
<1>6. k = a
  BY <1>2, <1>4, <1>5, SeqEqual
<1> QED  BY <1>6 DEF all, l, k, n, a

\* The step from one log to the next.
LEMMA AppendStep ==
    ASSUME IInv, IInv', NEW c \in Conversations, NEW row \in RowType, NEW m \in MessageType,
           row.nextSequence = conversation[c].nextSequence, m.sequence = row.nextSequence,
           Find(c, m.clientId) = {},
           messages' = [messages EXCEPT ![c] = @ \union {m}]
    PROVE  Log!LogNext
<1> DEFINE log == [d \in Conversations |-> LogOf(d)]
<1>1. /\ messages'[c] = messages[c] \union {m}
      /\ m.sequence = Cardinality(messages[c]) + 1
      /\ Cardinality(messages'[c]) = Cardinality(messages[c]) + 1
      /\ \A d \in Conversations : d # c => messages'[d] = messages[d]
  BY Appends
<1>2. /\ Numbered(conversation[c], messages[c]) /\ messages[c] \subseteq MessageType
      /\ Numbered(conversation'[c], messages[c] \union {m})
  BY <1>1 DEF IInv, LogInv, TypeOK
<1>3. ListOf(messages'[c]) = Append(ListOf(messages[c]), m.clientId)
  BY <1>1, <1>2, ListAppend
<1>4. m.clientId \notin Log!ClientIdsOf(ListOf(messages[c]))
  <2>1. \A i \in 1..Cardinality(messages[c]) : \E n \in messages[c] : ListOf(messages[c])[i] = n.clientId
    BY <1>2, ListIsSeq
  <2>2. DOMAIN ListOf(messages[c]) = 1..Cardinality(messages[c])
    BY DEF ListOf
  <2> QED  BY <2>1, <2>2 DEF Log!ClientIdsOf, Find
<1>5. /\ \A d \in Conversations : LogOf(d) = ListOf(messages[d])
      /\ \A d \in Conversations : LogOf(d)' = ListOf(messages'[d])
  BY DEF LogOf, ListOf
<1>6. log' = [log EXCEPT ![c] = Append(@, m.clientId)]
  BY <1>1, <1>3, <1>5
<1>7. m.clientId \in ClientIds /\ m.clientId \notin Log!ClientIdsOf(log[c])
  BY <1>4, <1>5 DEF MessageType
<1> QED  BY <1>6, <1>7 DEF Log!LogNext, Log!AppendTo

LEMMA LogStep == NullsAssumption /\ IInv /\ IInv' /\ [Next]_vars
                     => Log!LogNext \/ UNCHANGED [c \in Conversations |-> LogOf(c)]
<1> SUFFICES ASSUME NullsAssumption, IInv, IInv', [Next]_vars
             PROVE  Log!LogNext \/ UNCHANGED [c \in Conversations |-> LogOf(c)]
  OBVIOUS
<1>1. ASSUME NEW s \in Sessions, CommitVisitorSend(s), ~UNCHANGED messages
      PROVE  Log!LogNext
  <2> DEFINE c == visitorTxn[s].conversation  id == visitorTxn[s].clientId
             m == Message(id, OwnRow(s), "visitor")
  <2>1. /\ c \in Conversations /\ id \in ClientIds /\ OwnRow(s) \in RowType
        /\ OwnRow(s).nextSequence = conversation[c].nextSequence
    BY <1>1, OwnRowIs DEF CommitVisitorSend
  <2>2. m \in MessageType /\ m.clientId = id /\ m.sequence = OwnRow(s).nextSequence
    BY <2>1 DEF Message, MessageType, RowType
  <2>3. Find(c, m.clientId) = {} /\ messages' = [messages EXCEPT ![c] = @ \union {m}]
    BY <1>1, <2>2 DEF CommitVisitorSend
  <2> HIDE DEF c, id, m
  <2> QED  BY <2>1, <2>2, <2>3, AppendStep
<1>2. ASSUME NEW r \in Requests, CommitOperatorSend(r)
      PROVE  Log!LogNext
  <2> DEFINE c == operatorTxn[r].conversation  id == operatorTxn[r].clientId
             m == Message(id, conversation[c], "agent")
  <2>1. /\ c \in Conversations /\ id \in ClientIds /\ conversation[c] \in RowType
    BY <1>2 DEF CommitOperatorSend, IInv, OriginInv, TypeOK
  <2>2. m \in MessageType /\ m.clientId = id /\ m.sequence = conversation[c].nextSequence
    BY <2>1 DEF Message, MessageType, RowType
  <2>3. Find(c, m.clientId) = {} /\ messages' = [messages EXCEPT ![c] = @ \union {m}]
    BY <1>2, <2>2 DEF CommitOperatorSend
  <2> HIDE DEF c, id, m
  <2> QED  BY <2>1, <2>2, <2>3, AppendStep
<1>3. CASE UNCHANGED messages
  <2>1. \A d \in Conversations : LogOf(d)' = LogOf(d)
    BY <1>3 DEF LogOf
  <2> QED  BY <2>1
<1>4. UNCHANGED messages \/ (\E s \in Sessions : CommitVisitorSend(s)) \/ \E r \in Requests : CommitOperatorSend(r)
  BY DEF Next, vars, BeginVisitorSend, VisitorStep, SelectActive, SelectResolved, Reopen,
     InsertConversation, HandleUniqueViolation, BeginOperatorSend, OperatorStep, ReturnExisting,
     FindNothing, AbortOperatorSend, UpdateToActive, UpdateToEnd, ExpireWindow
<1> QED  BY <1>1, <1>2, <1>3, <1>4

LEMMA LogStart == Init => Log!LogInit
<1> SUFFICES ASSUME Init PROVE Log!LogInit
  OBVIOUS
<1>1. ASSUME NEW c \in Conversations PROVE LogOf(c) = <<>>
  <2>1. messages[c] = {} /\ Cardinality({}) = 0
    BY FS_EmptySet DEF Init
  <2> QED  BY <2>1 DEF LogOf
<1> QED  BY <1>1 DEF Log!LogInit

-----------------------------------------------------------------------------
(* What the widget shows after a send.                                     *)

LEMMA ViewableStep ==
    ASSUME NullsAssumption, IInv, IInv', [Next]_vars, NEW s \in Sessions,
           visitorTxn[s].pc \in Sending, visitorTxn'[s].pc = "idle"
    PROVE  Viewable(s)' = {visitorTxn[s].conversation}
<1> DEFINE c == visitorTxn[s].conversation
<1>0. visitorTxn \in [Sessions -> TxnType(VisitorPcs)]
  BY DEF IInv, TypeOK
<1>1. CommitVisitorSend(s)
  <2>1. ASSUME NEW u \in Sessions, NEW id \in ClientIds, BeginVisitorSend(u, id)
        PROVE  FALSE
    BY <1>0, <2>1 DEF BeginVisitorSend, Sending
  <2>2. ASSUME NEW u \in Sessions, VisitorStep(u), u # s
        PROVE  FALSE
    BY <1>0, <2>2 DEF VisitorStep, SelectActive, SelectResolved, Reopen, InsertConversation,
       HandleUniqueViolation, CommitVisitorSend, SetVisitor, Sending
  <2>3. ASSUME VisitorStep(s), ~CommitVisitorSend(s)
        PROVE  FALSE
    BY <2>3 DEF VisitorStep, SelectActive, SelectResolved, Reopen, InsertConversation,
       HandleUniqueViolation, Sending
  <2>4. ~UNCHANGED visitorTxn
    BY DEF Sending
  <2> QED  BY <2>1, <2>2, <2>3, <2>4 DEF Next, vars, BeginOperatorSend, OperatorStep, ReturnExisting,
              FindNothing, CommitOperatorSend, AbortOperatorSend, UpdateToActive, UpdateToEnd,
              ExpireWindow
<1>2. /\ c \in Conversations /\ OwnRow(s) \in RowType /\ OwnRow(s).session = s
      /\ OwnRow(s).status \in ActiveStatuses
  BY OwnRowIs
<1>3. conversation'[c].session = s /\ conversation'[c].status \in ActiveStatuses
  <2>1. conversation' = [conversation EXCEPT ![c] = OwnRow(s)]
        \/ conversation' = [conversation EXCEPT ![c] = Appended(OwnRow(s))]
    BY <1>1 DEF CommitVisitorSend
  <2>2. Appended(OwnRow(s)).session = OwnRow(s).session /\ Appended(OwnRow(s)).status = OwnRow(s).status
    BY <1>2, AppendedIs
  <2>3. conversation'[c] = OwnRow(s) \/ conversation'[c] = Appended(OwnRow(s))
    BY <1>2, <2>1 DEF IInv, TypeOK
  <2> QED  BY <1>2, <2>2, <2>3
<1>4. ActiveIn(conversation', s) = {c}
  <2>1. \A d, e \in ActiveIn(conversation', s) : d = e
    BY DEF IInv, OneActive, ActiveIn
  <2>2. c \in ActiveIn(conversation', s)
    BY <1>2, <1>3 DEF ActiveIn
  <2> QED  BY <2>1, <2>2
<1>5. Active(s)' = {c}
  BY <1>4 DEF Active, Of, IsActive, Exists, ActiveIn, NullsAssumption
<1> QED  BY <1>5 DEF Viewable

-----------------------------------------------------------------------------
(* The theorems.                                                           *)

\* The inductive invariant holds in every state of the store.
THEOREM Invariance == Spec => []IInv
<1>1. Init => IInv
  BY InitInv, NullsAssumption
<1>2. IInv /\ [Next]_vars => IInv'
  BY StepInv, NullsAssumption
<1> QED  BY <1>1, <1>2, PTL DEF Spec

\* The rows and transactions keep the types of the code.
THEOREM TypeCorrect == Spec => []TypeOK
<1>1. IInv => TypeOK
  BY DEF IInv
<1> QED  BY <1>1, Invariance, PTL

\* No error path of the send functions answers for a message that its rollback
\* removed: whoever got an answer finds the message in one of its conversations.
THEOREM AnswersAreKept == Spec => []AnsweredIsStored
<1>1. IInv => AnsweredIsStored
  BY DEF IInv
<1> QED  BY <1>1, Invariance, PTL

\* The conversation a visitor's send commits to is the one the widget shows
\* next, whatever operators do between the statements of the send.
THEOREM SendsAreShown == Spec => SendIsViewable
<1>1. IInv /\ IInv' /\ [Next]_vars =>
          [\A s \in Sessions :
              visitorTxn[s].pc \in Sending /\ visitorTxn'[s].pc = "idle"
                  => Viewable(s)' = {visitorTxn[s].conversation}]_vars
  BY ViewableStep, NullsAssumption
<1> QED  BY <1>1, Invariance, PTL DEF Spec, SendIsViewable

\* The store implements the abstract log: every conversation's log grows only
\* at its end, by a message whose client id is new in it, and by no other step.
THEOREM StoreImplementsLog == Spec => ImplementsLog
<1> DEFINE logs == [c \in Conversations |-> LogOf(c)]
<1>1. Init => Log!LogInit
  BY LogStart
<1>2. IInv /\ IInv' /\ [Next]_vars => [Log!LogNext]_logs
  BY LogStep, NullsAssumption
<1> QED  BY <1>1, <1>2, Invariance, PTL DEF Spec, ImplementsLog, Log!LogSpec

=============================================================================
