----------------------------- MODULE Membership -----------------------------
(***************************************************************************)
(* Who belongs to a workspace, with which role: members are promoted,      *)
(* demoted, deactivated and removed, invitations are created, revoked and  *)
(* accepted, and the workspace is deleted.                                 *)
(*                                                                         *)
(* Every operation is a READ COMMITTED transaction.  It reads the row it   *)
(* is about without a lock (only a removal, and the acceptance of an       *)
(* invitation, lock what they read), checks the caller's role in a later   *)
(* statement, updates by id, and has the deferred trigger count the owners *)
(* just before it commits.  What it writes is visible when it commits.     *)
(* That a deactivation and a removal also clear assignments is the subject *)
(* of Assignment.                                                          *)
(***************************************************************************)
EXTENDS Naturals, FiniteSets

CONSTANTS
    Users,          \* auth.users; a user's e-mail address is its own
    Invitations,    \* workspace_invitations rows that may be created
    Calls,          \* transactions that may be in progress at once
    Founding        \* the id of the rows that were there at first

MembershipAssumption == Founding \notin Invitations

VARIABLES
    member,         \* member[u]: the committed workspace_members row of u, or NoRow
    invitation,     \* invitation[i]: the committed row, or NoInvitation
    deleted,        \* the workspace is pending deletion
    call            \* call[k]: a transaction

vars == <<member, invitation, deleted, call>>
-----------------------------------------------------------------------------
Roles == {"owner", "admin", "agent"}    \* a viewer is checked as an agent is
Invitable == Roles \ {"owner"}

\* A row that was deleted and inserted again has another id.
Rows == [id : Invitations \union {Founding}, role : Roles,
         status : {"active", "deactivated"}]

NoRow        == [id |-> "none", role |-> "none", status |-> "none"]
NoInvitation == [for |-> "nobody"]

Invited == [for : Users, role : Invitable, accepted : BOOLEAN, revoked : BOOLEAN,
            expired : BOOLEAN]

MemberOps == {"role", "deactivate", "remove", "promote", "demote"}

Idle == [pc |-> "idle"]

Unresolved(i) ==
    invitation[i] # NoInvitation /\ ~invitation[i].accepted /\ ~invitation[i].revoked

IsOwner(row) == row.role = "owner" /\ row.status = "active"

\* user_workspace_role: "none" is NULL.
RoleOf(u) ==
    IF member[u].status = "active" /\ ~deleted THEN member[u].role ELSE "none"

\* Fault: a removal reads the row it is about without FOR UPDATE.
LocksWritten(k, u) ==
    /\ call[k].pc \in {"written", "checked"}
    /\ call[k].user = u

\* The row locks: a member row from its update on, or from its SELECT ... FOR
\* UPDATE on; an invitation from the SELECT ... FOR UPDATE of its acceptance.
LocksMember(k, u) ==
    \/ call[k].pc \in {"written", "checked"} /\ call[k].user = u
    \/ call[k].pc # "idle" /\ call[k].op = "remove" /\ call[k].user = u

LocksInvitation(k, i) ==
    call[k].pc # "idle" /\ call[k].op = "accept" /\ call[k].invitation = i

Free(k, u)     == \A j \in Calls \ {k} : ~LocksMember(j, u)
FreeInv(k, i)  == \A j \in Calls \ {k} : ~LocksInvitation(j, i)

Init ==
    /\ member \in [Users -> [id : {Founding}, role : Roles, status : {"active"}]
                            \union {NoRow}]
    /\ \E u \in Users : IsOwner(member[u])
    /\ invitation = [i \in Invitations |-> NoInvitation]
    /\ deleted = FALSE
    /\ call = [k \in Calls |-> Idle]

Continue(k, pc) == call' = [call EXCEPT ![k].pc = pc]
End(k)          == call' = [call EXCEPT ![k] = Idle]
-----------------------------------------------------------------------------
(* The operations on a member. *)

Begun(op, caller, user, role) ==
    [pc |-> "authorise", op |-> op, caller |-> caller, user |-> user, role |-> role,
     row |-> member[user]]

\* get_member_for_management: the row, without a lock, and the caller's role.
Fetch(k, op, caller, user, role) ==
    /\ call[k] = Idle
    /\ op \in MemberOps \ {"remove"}
    /\ member[user] # NoRow
    /\ RoleOf(caller) # "none"
    /\ call' = [call EXCEPT ![k] = Begun(op, caller, user, role)]
    /\ UNCHANGED <<member, invitation, deleted>>

\* remove_workspace_member: SELECT ... FOR UPDATE.
FetchForRemoval(k, caller, user) ==
    /\ call[k] = Idle
    /\ member[user] # NoRow
    /\ Free(k, user)
    /\ call' = [call EXCEPT ![k] = Begun("remove", caller, user, "agent")]
    /\ UNCHANGED <<member, invitation, deleted>>

\* What an operation asks of the role read now and the row read before.  A
\* comparison with NULL raises nothing: only a removal tests for it again.
Authorised(c, as) ==
    CASE c.op = "role"       -> as # "agent" /\ c.row.role # "owner"
      [] c.op = "deactivate" -> as # "agent" /\ (c.row.role = "owner" => as \in {"owner", "none"})
      [] c.op = "remove"     -> as \notin {"none", "agent"} /\ (c.row.role = "owner" => as = "owner")
      [] c.op = "promote"    -> as \in {"owner", "none"} /\ c.row.status = "active"
      [] c.op = "demote"     -> as \in {"owner", "none"} /\ c.row.role = "owner"

\* For a property only: whether an owner asked for this removal.
OwnerTold(c) == c.op = "remove" /\ RoleOf(c.caller) = "owner"

Authorise(k) ==
    LET c == call[k] IN
    /\ c.pc = "authorise"
    /\ c.op \in MemberOps
    /\ IF Authorised(c, RoleOf(c.caller))
       THEN call' = [call EXCEPT ![k] = [pc |-> "write", op |-> c.op, owned |-> OwnerTold(c),
                                         user |-> c.user, role |-> c.role, id |-> c.row.id]]
       ELSE End(k)
    /\ UNCHANGED <<member, invitation, deleted>>

\* UPDATE (or DELETE) ... WHERE id: it waits for the row lock and looks at the
\* row again.  When the row has gone it changes nothing, and that is no error.
Write(k) ==
    LET c == call[k] IN
    /\ c.pc = "write"
    /\ c.op \in MemberOps
    /\ Free(k, c.user)
    /\ IF member[c.user] # NoRow /\ member[c.user].id = c.id
       THEN Continue(k, "written")
       ELSE End(k)
    /\ UNCHANGED <<member, invitation, deleted>>

\* The row as the transaction leaves it.
Written(c) ==
    LET row == member[c.user] IN
    CASE c.op = "role"       -> [row EXCEPT !.role = c.role]
      [] c.op = "deactivate" -> [row EXCEPT !.status = "deactivated"]
      [] c.op = "remove"     -> NoRow
      [] c.op = "promote"    -> [row EXCEPT !.role = "owner"]
      [] c.op = "demote"     -> [row EXCEPT !.role = c.role]
      [] c.op = "accept"     -> [id     |-> IF c.row = NoRow.id THEN c.invitation ELSE row.id,
                                 role   |-> invitation[c.invitation].role,
                                 status |-> "active"]

\* enforce_workspace_owner_invariant, deferred to the commit: the owners that
\* are committed by now, with the change of this transaction.
CountOwners(k) ==
    LET c == call[k] IN
    /\ c.pc = "written"
    /\ IF \/ deleted
          \/ \E u \in Users : IsOwner(IF u = c.user THEN Written(c) ELSE member[u])
       THEN Continue(k, "checked")
       ELSE End(k)
    /\ UNCHANGED <<member, invitation, deleted>>

Commit(k) ==
    LET c == call[k] IN
    /\ c.pc = "checked"
    /\ member' = [member EXCEPT ![c.user] = Written(c)]
    /\ invitation' = IF c.op = "accept"
                     THEN [invitation EXCEPT ![c.invitation].accepted = TRUE]
                     ELSE invitation
    /\ End(k)
    /\ UNCHANGED deleted
-----------------------------------------------------------------------------
(* Invitations, and the end of the workspace. *)

\* create_workspace_invitation, revoke_workspace_invitation and
\* soft_delete_workspace: the caller's role is read first (a revocation reads
\* the invitation before that).  NULL passes the first two.
BeginInvite(k, caller, user, role) ==
    /\ call[k] = Idle
    /\ RoleOf(caller) # "agent"
    /\ call' = [call EXCEPT ![k] =
                  [pc |-> "invite", op |-> "invite", user |-> user, role |-> role]]
    /\ UNCHANGED <<member, invitation, deleted>>

BeginRevoke(k, caller, i) ==
    /\ call[k] = Idle
    /\ Unresolved(i)
    /\ RoleOf(caller) # "agent"
    /\ call' = [call EXCEPT ![k] = [pc |-> "revoke", op |-> "revoke", invitation |-> i]]
    /\ UNCHANGED <<member, invitation, deleted>>

BeginDelete(k, caller) ==
    /\ call[k] = Idle
    /\ RoleOf(caller) = "owner"
    /\ call' = [call EXCEPT ![k] = [pc |-> "delete", op |-> "delete"]]
    /\ UNCHANGED <<member, invitation, deleted>>

\* Expired invitations of the address are revoked; one that is neither
\* expired nor resolved refuses a second.
Invite(k, i) ==
    LET c == call[k]
        mine == {j \in Invitations : Unresolved(j) /\ invitation[j].for = c.user}
    IN /\ c.pc = "invite"
       /\ invitation[i] = NoInvitation
       /\ \A j \in mine : FreeInv(k, j) /\ invitation[j].expired
       /\ invitation' = [j \in Invitations |->
                            IF j = i
                            THEN [for |-> c.user, role |-> c.role, accepted |-> FALSE,
                                  revoked |-> FALSE, expired |-> FALSE]
                            ELSE IF j \in mine
                                 THEN [invitation[j] EXCEPT !.revoked = TRUE]
                                 ELSE invitation[j]]
       /\ End(k)
       /\ UNCHANGED <<member, deleted>>

InviteRefused(k) ==
    /\ call[k].pc = "invite"
    /\ \E j \in Invitations :
          Unresolved(j) /\ invitation[j].for = call[k].user /\ ~invitation[j].expired
    /\ End(k)
    /\ UNCHANGED <<member, invitation, deleted>>

\* The UPDATE is by id alone; an invitation accepted meanwhile breaks the
\* constraint that it is resolved one way, and the call fails.
Revoke(k) ==
    LET i == call[k].invitation IN
    /\ call[k].pc = "revoke"
    /\ FreeInv(k, i)
    /\ invitation' = IF invitation[i].accepted THEN invitation
                     ELSE [invitation EXCEPT ![i].revoked = TRUE]
    /\ End(k)
    /\ UNCHANGED <<member, deleted>>

Delete(k) ==
    /\ call[k].pc = "delete"
    /\ deleted' = TRUE
    /\ End(k)
    /\ UNCHANGED <<member, invitation>>

\* expires_at passes.
Expire(i) ==
    /\ Unresolved(i)
    /\ ~invitation[i].expired
    /\ invitation' = [invitation EXCEPT ![i].expired = TRUE]
    /\ UNCHANGED <<member, deleted, call>>

Accepting(u, i) == [pc |-> "look", op |-> "accept", invitation |-> i, user |-> u,
                    row |-> NoRow.id]

\* Fault: the invitation is read without FOR UPDATE.
ReadInvitation(k, u, i) ==
    /\ call[k] = Idle
    /\ Unresolved(i)
    /\ invitation[i].for = u
    /\ ~invitation[i].expired
    /\ call' = [call EXCEPT ![k] = Accepting(u, i)]
    /\ UNCHANGED <<member, invitation, deleted>>

\* accept_workspace_invitation: SELECT ... FOR UPDATE; the address is the user's.
LockInvitation(k, u, i) ==
    /\ call[k] = Idle
    /\ Unresolved(i)
    /\ invitation[i].for = u
    /\ ~invitation[i].expired
    /\ FreeInv(k, i)
    /\ call' = [call EXCEPT ![k] = Accepting(u, i)]
    /\ UNCHANGED <<member, invitation, deleted>>

\* The member row, read without a lock: 'already_member', or go on.
Look(k) ==
    LET c == call[k] IN
    /\ c.pc = "look"
    /\ IF member[c.user].status = "active"
       THEN /\ invitation' = [invitation EXCEPT ![c.invitation].accepted = TRUE]
            /\ End(k)
       ELSE /\ call' = [call EXCEPT ![k].pc = "join", ![k].row = member[c.user].id]
            /\ UNCHANGED invitation
    /\ UNCHANGED <<member, deleted>>

\* The deactivated row is made active, or a row inserted.  A row that has been
\* removed meanwhile is not found, and the invitation is accepted all the same.
Join(k) ==
    LET c == call[k] IN
    /\ c.pc = "join"
    /\ Free(k, c.user)
    /\ IF c.row = NoRow.id \/ member[c.user].id = c.row
       THEN /\ Continue(k, "written")
            /\ UNCHANGED invitation
       ELSE /\ invitation' = [invitation EXCEPT ![c.invitation].accepted = TRUE]
            /\ End(k)
    /\ UNCHANGED <<member, deleted>>
-----------------------------------------------------------------------------
Step(k) ==
    \/ Authorise(k)
    \/ Write(k)
    \/ CountOwners(k)
    \/ Commit(k)
    \/ \E i \in Invitations : Invite(k, i)
    \/ InviteRefused(k)
    \/ Revoke(k)
    \/ Delete(k)
    \/ Look(k)
    \/ Join(k)

Next ==
    \/ \E k \in Calls : Step(k)
    \/ \E k \in Calls, op \in MemberOps, caller, user \in Users, role \in Invitable :
          /\ op \in {"deactivate", "promote"} => role = "agent"
          /\ Fetch(k, op, caller, user, role)
    \/ \E k \in Calls, caller, user \in Users : FetchForRemoval(k, caller, user)
    \/ \E k \in Calls, caller, user \in Users, role \in Invitable :
          BeginInvite(k, caller, user, role)
    \/ \E k \in Calls, caller \in Users, i \in Invitations : BeginRevoke(k, caller, i)
    \/ \E k \in Calls, caller \in Users : BeginDelete(k, caller)
    \/ \E k \in Calls, u \in Users, i \in Invitations : LockInvitation(k, u, i)
    \/ \E i \in Invitations : Expire(i)

Spec == Init /\ [][Next]_vars
-----------------------------------------------------------------------------
(* Properties. *)

CallType ==
    {Idle}
    \union [pc : {"authorise"}, op : MemberOps, caller : Users, user : Users,
            role : Invitable, row : Rows]
    \union [pc : {"write", "written", "checked"}, op : MemberOps,
            owned : BOOLEAN, user : Users, role : Invitable,
            id : Invitations \union {Founding}]
    \union [pc : {"look", "join", "written", "checked"}, op : {"accept"},
            invitation : Invitations, user : Users,
            row : Invitations \union {Founding, NoRow.id}]
    \union [pc : {"invite"}, op : {"invite"}, user : Users, role : Invitable]
    \union [pc : {"revoke"}, op : {"revoke"}, invitation : Invitations]
    \union [pc : {"delete"}, op : {"delete"}]

\* Every variable has the type of the rows and transactions of the code.
TypeOK ==
    /\ member \in [Users -> Rows \union {NoRow}]
    /\ invitation \in [Invitations -> Invited \union {NoInvitation}]
    /\ deleted \in BOOLEAN
    /\ call \in [Calls -> CallType]

\* Who is not an owner never removes one, even one promoted while the removal
\* was on its way: the removal locks the row before it looks at its role.
RemovalSparesOwners ==
    [][\A k \in Calls :
          LET c == call[k] IN
          c.pc = "checked" /\ c.op = "remove" /\ call'[k] = Idle
              => c.owned \/ member[c.user].role # "owner"]_vars

\* An invitation is settled one way and once: whoever else was accepting or
\* revoking it at that time changes neither its row nor, through it, a member;
\* a member put out later does not come back by it.
SettledOnce ==
    [][\A i \in Invitations :
          /\ invitation[i] # NoInvitation /\ ~Unresolved(i) => invitation'[i] = invitation[i]
          /\ \A k \in Calls :
                LET c == call[k] IN
                /\ c.pc = "checked"
                /\ c.op = "accept"
                /\ c.invitation = i
                /\ member'[c.user] # member[c.user]
                => Unresolved(i)]_vars

\* What the ownership tests say of the trigger: a workspace that has not been
\* deleted has an active owner, whichever calls overlap.
AlwaysAnOwner == deleted \/ \E u \in Users : IsOwner(member[u])
=============================================================================
