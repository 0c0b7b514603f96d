----------------------------- MODULE Assignment -----------------------------
(***************************************************************************)
(* Who owns a conversation: operators take, assign, transfer and unassign  *)
(* it while an administrator deactivates or removes members.  Every        *)
(* operation is a READ COMMITTED transaction of several statements; an     *)
(* action is what a transaction does up to its next wait for a row lock,   *)
(* and what it writes becomes visible when it commits.                     *)
(*                                                                         *)
(* Every member has a messaging role; the administrator is none of them.   *)
(***************************************************************************)
EXTENDS Naturals, RowLocks

CONSTANTS
    Members,        \* workspace_members rows
    Conversations,  \* conversations rows
    Requests,       \* assignment requests that may be in progress at once
    MaxVersion,     \* bound: versions at which requests begin
    NoMember,       \* NULL
    NoVersion       \* p_expected_version IS NULL

NullsAssumption ==
    /\ NoMember \notin Members
    /\ NoVersion \notin Nat
    /\ MaxVersion \in Nat
    /\ Requests \intersect Members = {}

VARIABLES
    status,         \* status[m]: the committed status of the member row
    conversation,   \* conversation[c]: its committed assignment columns
    request,        \* request[r]: an assignment transaction
    admin           \* admin[m]: the deactivation or removal of m

vars == <<status, conversation, request, admin>>
-----------------------------------------------------------------------------
Modes == {"take", "assign", "unassign"}

NoRequest == [pc |-> "idle"]
NoAdmin   == [pc |-> "idle", kind |-> "none", todo |-> {}, held |-> {}]

\* Row locks.  A request holds its conversation from SELECT ... FOR UPDATE on,
\* and FOR SHARE the assignee it has checked.
RequestLocks(c) ==
    \E r \in Requests : request[r].pc \in {"check", "update"} /\ request[r].conversation = c

AdminLocks(c) == \E m \in Members : c \in admin[m].held

Shared(m) ==
    \E r \in Requests : /\ request[r].pc = "update"
                        /\ request[r].mode = "assign"
                        /\ request[r].target = m

Busy(m)     == admin[m].pc = "clear"
Removing(m) == Busy(m) /\ admin[m].kind = "remove"

Init ==
    /\ status = [m \in Members |-> "active"]
    /\ conversation = [c \in Conversations |->
                         [assignee |-> NoMember, by |-> NoMember, version |-> 0]]
    /\ request = [r \in Requests |-> NoRequest]
    /\ admin = [m \in Members |-> NoAdmin]
-----------------------------------------------------------------------------
(* apply_conversation_assignment. *)

\* The caller's role is checked, without a lock.  The expected version is one
\* its client has seen, now or earlier.  (To assign to nobody is to unassign.)
Begin(r, mode, caller, target, c, expected) ==
    /\ request[r].pc = "idle"
    /\ mode = "assign" <=> target # NoMember
    /\ conversation[c].version <= MaxVersion
    /\ status[caller] = "active"
    /\ expected # NoVersion => expected <= conversation[c].version
    /\ request' = [request EXCEPT ![r] =
                     [pc |-> "lock", mode |-> mode, caller |-> caller, target |-> target,
                      conversation |-> c, expected |-> expected]]
    /\ UNCHANGED <<status, conversation, admin>>

Continue(r, pc) == request' = [request EXCEPT ![r].pc = pc]
End(r)          == request' = [request EXCEPT ![r] = NoRequest]

\* The locked row ends the request: the version is not the expected one, a
\* taken conversation has an assignee, there is nobody to unassign.
Settled(t, row) ==
    \/ t.expected \notin {NoVersion, row.version}
    \/ t.mode = "take" /\ row.assignee # NoMember
    \/ t.mode = "unassign" /\ row.assignee = NoMember

\* Fault: a conflict is reported without ending the transaction.
DecideInPart(r) ==
    LET t == request[r] IN
    Continue(r, IF Settled(t, conversation[t.conversation]) THEN "conflict"
                ELSE IF t.mode = "assign" THEN "check" ELSE "update")

Decide(r) ==
    LET t == request[r] IN
    IF Settled(t, conversation[t.conversation]) THEN End(r)
    ELSE Continue(r, IF t.mode = "assign" THEN "check" ELSE "update")

\* SELECT ... FOR UPDATE on the conversation.
LockConversation(r) ==
    /\ request[r].pc = "lock"
    /\ ~RequestLocks(request[r].conversation)
    /\ ~AdminLocks(request[r].conversation)
    /\ Decide(r)
    /\ UNCHANGED <<status, conversation, admin>>

\* Fault: the assignee is read without FOR SHARE.
AssertWithoutLock(r) ==
    LET t == request[r] IN
    /\ t.pc = "check"
    /\ IF status[t.target] # "active"
          \/ conversation[t.conversation].assignee = t.target
       THEN End(r)
       ELSE Continue(r, "update")
    /\ UNCHANGED <<status, conversation, admin>>

\* assert_assignable_member: FOR SHARE waits for a deactivation or a removal
\* of the member to end, and sees what it has done.
AssertAssignable(r) ==
    LET t == request[r] IN
    /\ t.pc = "check"
    /\ ~Busy(t.target)
    /\ IF status[t.target] # "active"
          \/ conversation[t.conversation].assignee = t.target
       THEN End(r)
       ELSE Continue(r, "update")
    /\ UNCHANGED <<status, conversation, admin>>

\* The member rows the new assignee and assigned_by columns refer to: their
\* foreign keys take KEY SHARE, which waits for the FOR UPDATE of a removal.
\* What an unassignment refers to, in its timeline event and notification,
\* depends on the visitor and on preferences.
Referenced(t) ==
    CASE t.mode = "take"     -> {t.caller}
      [] t.mode = "assign"   -> {t.caller, t.target}
      [] t.mode = "unassign" -> {}

Assigned(t, row) ==
    [assignee |-> CASE t.mode = "take"     -> t.caller
                    [] t.mode = "assign"   -> t.target
                    [] t.mode = "unassign" -> NoMember,
     by       |-> IF t.mode = "unassign" THEN NoMember ELSE t.caller,
     version  |-> row.version + 1]

\* Fault: the columns have no foreign key.
UpdateUnreferenced(r) ==
    LET t == request[r] IN
    /\ t.pc = "update"
    /\ conversation' = [conversation EXCEPT ![t.conversation] = Assigned(t, @)]
    /\ End(r)
    /\ UNCHANGED <<status, admin>>

\* UPDATE ... SET assigned_to, the timeline event, the notifications; commit.
UpdateAssignment(r) ==
    LET t == request[r] IN
    /\ t.pc = "update"
    /\ \A m \in Referenced(t) : ~Removing(m) /\ status[m] # "gone"
    /\ conversation' = [conversation EXCEPT ![t.conversation] = Assigned(t, @)]
    /\ End(r)
    /\ UNCHANGED <<status, admin>>

\* A member the transaction refers to has been removed: foreign key violation.
ReferenceFails(r) ==
    /\ request[r].pc = "update"
    /\ \E m \in Referenced(request[r]) \union {request[r].caller} : status[m] = "gone"
    /\ End(r)
    /\ UNCHANGED <<status, conversation, admin>>
-----------------------------------------------------------------------------
(* deactivate_workspace_member and remove_workspace_member. *)

\* The member row is locked and marked deactivated (not yet for others to
\* see); the UPDATE that clears assignments starts, on what is committed now.
\* The UPDATE of a deactivation and the FOR UPDATE of a removal both wait for
\* FOR SHARE, and for each other.
BeginAdmin(m, kind) ==
    /\ ~Busy(m)
    /\ status[m] # "gone"
    /\ ~Shared(m)
    /\ admin' = [admin EXCEPT ![m] =
                   [pc |-> "clear", kind |-> kind, held |-> {},
                    todo |-> {c \in Conversations : conversation[c].assignee = m}]]
    /\ UNCHANGED <<status, conversation, request>>

\* The UPDATE reaches the next row: it waits for the row lock, takes it, and
\* looks at the row again.
LockAssigned(m, c) ==
    /\ admin[m].pc = "clear"
    /\ c \in admin[m].todo
    /\ ~RequestLocks(c)
    /\ ~AdminLocks(c)
    /\ admin' = [admin EXCEPT ![m].todo = @ \ {c}, ![m].held = @ \union {c}]
    /\ UNCHANGED <<status, conversation, request>>

\* The assignments of m among the rows the UPDATE has locked are cleared.
Cleared(m) ==
    [c \in Conversations |->
        IF c \in admin[m].held /\ conversation[c].assignee = m
        THEN [assignee |-> NoMember, by |-> NoMember,
              version |-> conversation[c].version + 1]
        ELSE conversation[c]]

Clearable(m) ==
    /\ admin[m].pc = "clear"
    /\ admin[m].todo = {}

CommitDeactivation(m) ==
    /\ Clearable(m)
    /\ admin[m].kind = "deactivate"
    /\ conversation' = Cleared(m)
    /\ status' = [status EXCEPT ![m] = "deactivated"]
    /\ admin' = [admin EXCEPT ![m] = NoAdmin]
    /\ UNCHANGED request

\* The rows that still refer to m, which the DELETE must change: it waits for
\* those another transaction has locked.
Referring(m) ==
    {c \in Conversations : m \in {Cleared(m)[c].assignee, Cleared(m)[c].by}}

CommitRemoval(m) ==
    /\ Clearable(m)
    /\ admin[m].kind = "remove"
    /\ Referring(m) = {}
    /\ conversation' = Cleared(m)
    /\ status' = [status EXCEPT ![m] = "gone"]
    /\ admin' = [admin EXCEPT ![m] = NoAdmin]
    /\ UNCHANGED request

\* ON DELETE SET NULL of (assigned_by_member_id, workspace_id) sets both
\* columns, and workspace_id is NOT NULL: the transaction fails.
RemovalFails(m) ==
    /\ Clearable(m)
    /\ admin[m].kind = "remove"
    /\ \E c \in Referring(m) :
          ~RequestLocks(c) /\ \A n \in Members \ {m} : c \notin admin[n].held
    /\ admin' = [admin EXCEPT ![m] = [NoAdmin EXCEPT !.pc = "failed"]]
    /\ UNCHANGED <<status, conversation, request>>

(* Waiting for a row lock.  A transaction that waits in a circle with others *)
(* is aborted by the database's deadlock detector.                           *)

Txns == Requests \union Members

\* The conversation rows x has locked, and those it may be waiting to lock.
Holding(x) ==
    IF x \in Members THEN admin[x].held
    ELSE IF request[x].pc \in {"check", "update"} THEN {request[x].conversation} ELSE {}

Wanting(x) ==
    IF x \in Members
    THEN admin[x].todo \union
            IF admin[x].todo = {} /\ Removing(x) THEN Referring(x) ELSE {}
    ELSE IF request[x].pc = "lock" THEN {request[x].conversation} ELSE {}

WaitsFor(x, y) ==
    \/ x # y /\ Wanting(x) \intersect Holding(y) # {}
    \/ /\ x \in Requests
       /\ y \in Members
       /\ \/ request[x].pc = "check" /\ request[x].target = y /\ Busy(y)
          \/ request[x].pc = "update" /\ y \in Referenced(request[x]) /\ Removing(y)

BreakDeadlock(x) ==
    /\ InCircle(x, Txns, {w \in Txns \X Txns : WaitsFor(w[1], w[2])})
    /\ IF x \in Requests
       THEN End(x) /\ UNCHANGED admin
       ELSE admin' = [admin EXCEPT ![x] = NoAdmin] /\ UNCHANGED request
    /\ UNCHANGED <<status, conversation>>
-----------------------------------------------------------------------------
RequestStep(r) ==
    \/ LockConversation(r)
    \/ AssertAssignable(r)
    \/ UpdateAssignment(r)
    \/ ReferenceFails(r)

AdminStep(m) ==
    \/ \E c \in Conversations : LockAssigned(m, c)
    \/ CommitDeactivation(m)
    \/ CommitRemoval(m)
    \/ RemovalFails(m)

Next ==
    \/ \E r \in Requests, mode \in Modes, caller \in Members,
          target \in Members \union {NoMember}, c \in Conversations,
          expected \in 0..MaxVersion \union {NoVersion} :
            Begin(r, mode, caller, target, c, expected)
    \/ \E r \in Requests : RequestStep(r)
    \/ \E m \in Members, kind \in {"deactivate", "remove"} : BeginAdmin(m, kind)
    \/ \E m \in Members : AdminStep(m)
    \/ \E x \in Txns : BreakDeadlock(x)

Spec == Init /\ [][Next]_vars

-----------------------------------------------------------------------------
(* Properties. *)

Columns == [assignee : Members \union {NoMember}, by : Members \union {NoMember},
            version : Nat]

RequestType ==
    [pc : {"lock", "check", "update"}, mode : Modes, caller : Members,
     target : Members \union {NoMember}, conversation : Conversations,
     expected : Nat \union {NoVersion}]

AdminType ==
    [pc : {"idle", "clear", "failed"}, kind : {"none", "deactivate", "remove"},
     todo : SUBSET Conversations, held : SUBSET Conversations]

\* Every variable has the type of the rows and transactions of the code.
TypeOK ==
    /\ status \in [Members -> {"active", "deactivated", "gone"}]
    /\ conversation \in [Conversations -> Columns]
    /\ request \in [Requests -> RequestType \union {NoRequest}]
    /\ admin \in [Members -> AdminType]

\* Nobody but a member itself, by a take that was under way, can leave a
\* conversation assigned to a deactivated member: an assignment to it waits for
\* the deactivation and fails, or is cleared by it.
OnlyTakeOutlivesDeactivation ==
    \A c \in Conversations, m \in Members :
        conversation[c].assignee = m /\ status[m] = "deactivated"
            => conversation[c].by = m

\* No conversation refers to a removed member, although requests of its own and
\* assignments to it overlap the removal.
RemovedIsUnreferenced ==
    \A c \in Conversations, m \in Members :
        status[m] = "gone" => m \notin {conversation[c].assignee, conversation[c].by}

\* What the migration says of a removal: it clears assignments, then deletes.
RemovalSucceeds == \A m \in Members : admin[m].pc # "failed"
=============================================================================
