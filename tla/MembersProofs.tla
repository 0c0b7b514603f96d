---------------------------- MODULE MembersProofs ----------------------------
(***************************************************************************)
(* Proofs about Membership, about Assignment as MCMembers instantiates it, *)
(* and about the two together, for any users, invitations, conversations   *)
(* and number of overlapping transactions.                                 *)
(*                                                                         *)
(* What an operation has learnt of a row stays true while it holds the     *)
(* lock of the row, because the locks exclude each other and a row is      *)
(* written only under its lock.                                            *)
(***************************************************************************)
EXTENDS MCMembers, TLAPS

\* The kinds of transactions, by what they carry.
Fetched == [pc : {"authorise"}, op : MemberOps, caller : Users, user : Users,
            role : Invitable, row : Rows]

Changing == [pc : {"write", "written", "checked"}, op : MemberOps, owned : BOOLEAN,
             user : Users, role : Invitable, id : Invitations \union {Founding}]

Joining == [pc : {"look", "join", "written", "checked"}, op : {"accept"},
            invitation : Invitations, user : Users,
            row : Invitations \union {Founding, NoRow.id}]

Inviting == [pc : {"invite"}, op : {"invite"}, user : Users, role : Invitable]
Revoking == [pc : {"revoke"}, op : {"revoke"}, invitation : Invitations]
Deleting == [pc : {"delete"}, op : {"delete"}]

\* The locks a transaction in state c holds.
Locks(c, u) ==
    \/ c.pc \in {"written", "checked"} /\ c.user = u
    \/ c.pc # "idle" /\ c.op = "remove" /\ c.user = u

LocksInv(c, i) == c.pc # "idle" /\ c.op = "accept" /\ c.invitation = i

Pending(row) == row # NoInvitation /\ ~row.accepted /\ ~row.revoked

\* What a transaction in state c may rely on, of the rows of the members and of
\* the invitations.
Relies(c, members, invitations) ==
    /\ c.pc \in {"written", "checked"} /\ c.op \in MemberOps => members[c.user] # NoRow
    /\ c.pc \in {"written", "checked"} /\ c.op = "accept" /\ c.row # NoRow.id
         => members[c.user].id = c.row
    /\ c.pc # "idle" /\ c.op = "accept" => Pending(invitations[c.invitation])
    /\ c.pc = "revoke" => invitations[c.invitation] # NoInvitation
    /\ c.pc = "authorise" /\ c.op = "remove" => c.row = members[c.user]
    /\ c.pc \in {"write", "written", "checked"} /\ c.op = "remove"
         => c.owned \/ members[c.user].role # "owner"

Exclusion ==
    \A j, k \in Calls :
        /\ \A u \in Users : Locks(call[j], u) /\ Locks(call[k], u) => j = k
        /\ \A i \in Invitations : LocksInv(call[j], i) /\ LocksInv(call[k], i) => j = k

IInv ==
    /\ TypeOK
    /\ Exclusion
    /\ \A k \in Calls : Relies(call[k], member, invitation)
-----------------------------------------------------------------------------
(* What the pc of a transaction tells of its kind.                         *)

LEMMA Kinds ==
    ASSUME NEW c \in CallType
    PROVE  /\ c.pc = "idle" => c = Idle
           /\ c.pc = "authorise" => c \in Fetched
           /\ c.pc = "write" => c \in Changing
           /\ c.pc \in {"written", "checked"} => c \in Changing \/ c \in Joining
           /\ c.pc \in {"look", "join"} => c \in Joining
           /\ c.pc = "invite" => c \in Inviting
           /\ c.pc = "revoke" => c \in Revoking
           /\ c.pc = "delete" => c \in Deleting
<1>1. \/ c = Idle \/ c \in Fetched \/ c \in Changing \/ c \in Joining
      \/ c \in Inviting \/ c \in Revoking \/ c \in Deleting
  BY DEF CallType, Fetched, Changing, Joining, Inviting, Revoking, Deleting
<1>2. CASE c = Idle
  BY <1>2 DEF Idle
<1>3. CASE c \in Fetched
  BY <1>3 DEF Fetched
<1>4. CASE c \in Changing
  BY <1>4 DEF Changing
<1>5. CASE c \in Joining
  BY <1>5 DEF Joining
<1>6. CASE c \in Inviting
  BY <1>6 DEF Inviting
<1>7. CASE c \in Revoking
  BY <1>7 DEF Revoking
<1>8. CASE c \in Deleting
  BY <1>8 DEF Deleting
<1> QED  BY <1>1, <1>2, <1>3, <1>4, <1>5, <1>6, <1>7, <1>8

\* Every kind is one of the type.
LEMMA OfType ==
    /\ Idle \in CallType
    /\ Fetched \subseteq CallType /\ Changing \subseteq CallType /\ Joining \subseteq CallType
    /\ Inviting \subseteq CallType /\ Revoking \subseteq CallType /\ Deleting \subseteq CallType
<1>1. Changing \subseteq CallType
  BY DEF CallType, Changing
<1>2. Joining \subseteq CallType
  BY DEF CallType, Joining
<1>3. Fetched \subseteq CallType
  BY DEF CallType, Fetched
<1>4. Inviting \subseteq CallType /\ Revoking \subseteq CallType /\ Deleting \subseteq CallType
  BY DEF CallType, Inviting, Revoking, Deleting
<1>5. Idle \in CallType
  BY DEF CallType
<1> QED  BY <1>1, <1>2, <1>3, <1>4, <1>5

LEMMA InvitedIsRow ==
    ASSUME NEW row \in Invited
    PROVE  row # NoInvitation
BY DEF Invited, NoInvitation

-----------------------------------------------------------------------------
LEMMA InitInv == Init => IInv
<1> SUFFICES ASSUME Init PROVE IInv
  OBVIOUS
<1>1. call = [k \in Calls |-> Idle]
  BY DEF Init
<1>2. \A k \in Calls : call[k].pc = "idle"
  BY <1>1 DEF Idle
<1>3. call \in [Calls -> CallType]
  BY <1>1, OfType
<1>4. member \in [Users -> Rows \union {NoRow}]
  BY DEF Init, Rows
<1>5. invitation \in [Invitations -> Invited \union {NoInvitation}] /\ deleted \in BOOLEAN
  BY DEF Init
<1>6. Exclusion /\ \A k \in Calls : Relies(call[k], member, invitation)
  BY <1>2 DEF Exclusion, Relies, Locks, LocksInv
<1> QED  BY <1>3, <1>4, <1>5, <1>6 DEF IInv, TypeOK

-----------------------------------------------------------------------------
(* The steps that write no member row: a transaction gets from one state to *)
(* another and takes no lock that another holds.                            *)

LEMMA CallStep ==
    ASSUME IInv, NEW k \in Calls, NEW c \in CallType,
           call' = [call EXCEPT ![k] = c],
           member' = member, deleted' \in BOOLEAN,
           invitation' \in [Invitations -> Invited \union {NoInvitation}],
           \A i \in Invitations :
               /\ ~FreeInv(k, i) /\ Pending(invitation[i]) => Pending(invitation'[i])
               /\ invitation[i] # NoInvitation => invitation'[i] # NoInvitation,
           Relies(c, member, invitation'),
           \A u \in Users : Locks(c, u) => Locks(call[k], u) \/ Free(k, u),
           \A i \in Invitations : LocksInv(c, i) => LocksInv(call[k], i) \/ FreeInv(k, i)
    PROVE  IInv'
<1>1. call \in [Calls -> CallType] /\ call'[k] = c
      /\ \A j \in Calls \ {k} : call'[j] = call[j]
  BY DEF IInv, TypeOK
<1>2. TypeOK'
  BY <1>1 DEF IInv, TypeOK
<1>3. Exclusion'
  <2>1. \A u \in Users : Free(k, u) = \A j \in Calls \ {k} : ~Locks(call[j], u)
    BY DEF Free, LocksMember, Locks
  <2>2. \A i \in Invitations : FreeInv(k, i) = \A j \in Calls \ {k} : ~LocksInv(call[j], i)
    BY DEF FreeInv, LocksInvitation, LocksInv
  <2>3. ASSUME NEW a \in Calls, NEW b \in Calls, NEW u \in Users,
               Locks(call'[a], u), Locks(call'[b], u)
        PROVE  a = b
    BY <1>1, <2>1, <2>3 DEF IInv, Exclusion
  <2>4. ASSUME NEW a \in Calls, NEW b \in Calls, NEW i \in Invitations,
               LocksInv(call'[a], i), LocksInv(call'[b], i)
        PROVE  a = b
    BY <1>1, <2>2, <2>4 DEF IInv, Exclusion
  <2> QED  BY <2>3, <2>4 DEF Exclusion, Locks, LocksInv
<1>4. ASSUME NEW j \in Calls
      PROVE  Relies(call'[j], member, invitation')
  <2>1. CASE j = k
    BY <1>1, <2>1
  <2>2. CASE j # k
    <3>1. call'[j] = call[j] /\ Relies(call[j], member, invitation)
      BY <1>1, <2>2 DEF IInv
    <3>2. ASSUME call[j].pc # "idle", call[j].op = "accept"
          PROVE  Pending(invitation'[call[j].invitation])
      <4>1. call[j] \in Joining
        BY <3>2, <1>1, Kinds DEF CallType, Fetched, Changing, Inviting, Revoking, Deleting, MemberOps, Joining, Idle
      <4>2. call[j].invitation \in Invitations
        BY <4>1 DEF Joining
      <4>3. ~FreeInv(k, call[j].invitation)
        BY <2>2, <3>2 DEF FreeInv, LocksInvitation
      <4> QED  BY <3>1, <3>2, <4>2, <4>3 DEF Relies
    <3>3. ASSUME call[j].pc = "revoke"
          PROVE  invitation'[call[j].invitation] # NoInvitation
      <4>1. call[j].invitation \in Invitations
        BY <1>1, <3>3, Kinds DEF Revoking
      <4> QED  BY <3>1, <3>3, <4>1 DEF Relies
    <3> QED  BY <3>1, <3>2, <3>3 DEF Relies
  <2> QED  BY <2>1, <2>2
<1> QED  BY <1>2, <1>3, <1>4 DEF IInv, Relies

\* Nothing is held and nothing is relied on when a transaction has ended.
LEMMA EndStep ==
    ASSUME IInv, NEW k \in Calls, End(k), member' = member, deleted' \in BOOLEAN,
           invitation' \in [Invitations -> Invited \union {NoInvitation}],
           \A i \in Invitations :
               /\ ~FreeInv(k, i) /\ Pending(invitation[i]) => Pending(invitation'[i])
               /\ invitation[i] # NoInvitation => invitation'[i] # NoInvitation
    PROVE  IInv'
<1>1. Idle \in CallType /\ Idle.pc = "idle"
  BY OfType DEF Idle
<1>2. Relies(Idle, member, invitation')
  BY <1>1 DEF Relies
<1>3. /\ \A u \in Users : ~Locks(Idle, u)
      /\ \A i \in Invitations : ~LocksInv(Idle, i)
  BY <1>1 DEF Locks, LocksInv
<1>4. call' = [call EXCEPT ![k] = Idle]
  BY DEF End
<1> QED  BY <1>1, <1>2, <1>3, <1>4, CallStep

-----------------------------------------------------------------------------
(* The operations on a member.                                             *)

LEMMA RowTyped ==
    ASSUME IInv, NEW u \in Users
    PROVE  /\ member[u] \in Rows \union {NoRow}
           /\ member[u] # NoRow => member[u] \in Rows
           /\ invitation \in [Invitations -> Invited \union {NoInvitation}]
           /\ deleted \in BOOLEAN
BY DEF IInv, TypeOK

LEMMA FetchInv ==
    ASSUME IInv, NEW k \in Calls, NEW op \in MemberOps, NEW caller \in Users, NEW user \in Users,
           NEW role \in Invitable,
           Fetch(k, op, caller, user, role)
    PROVE  IInv'
<1> DEFINE c == Begun(op, caller, user, role)
<1>1. /\ call[k] = Idle /\ op # "remove" /\ member[user] # NoRow
      /\ call' = [call EXCEPT ![k] = c] /\ UNCHANGED <<member, invitation, deleted>>
  BY DEF Fetch
<1>2. c \in Fetched /\ c.pc = "authorise" /\ c.op = op
  BY <1>1, RowTyped DEF Begun, Fetched
<1> HIDE DEF c
<1>3. c \in CallType
  BY <1>2, OfType
<1>4. Relies(c, member, invitation') /\ (\A u \in Users : ~Locks(c, u))
      /\ (\A i \in Invitations : ~LocksInv(c, i))
  BY <1>1, <1>2 DEF Relies, Locks, LocksInv, MemberOps
<1> QED  BY <1>1, <1>3, <1>4, CallStep, RowTyped

LEMMA FetchForRemovalInv ==
    ASSUME IInv, NEW k \in Calls, NEW caller \in Users, NEW user \in Users,
           FetchForRemoval(k, caller, user)
    PROVE  IInv'
<1> DEFINE c == Begun("remove", caller, user, "agent")
<1>1. /\ call[k] = Idle /\ member[user] # NoRow /\ Free(k, user)
      /\ call' = [call EXCEPT ![k] = c] /\ UNCHANGED <<member, invitation, deleted>>
  BY DEF FetchForRemoval
<1>2. c \in Fetched /\ c.pc = "authorise" /\ c.op = "remove" /\ c.user = user /\ c.row = member[user]
  BY <1>1, RowTyped DEF Begun, Fetched, MemberOps, Invitable, Roles
<1> HIDE DEF c
<1>3. c \in CallType
  BY <1>2, OfType
<1>4. Relies(c, member, invitation') /\ (\A u \in Users : Locks(c, u) => Free(k, u))
      /\ (\A i \in Invitations : ~LocksInv(c, i))
  BY <1>1, <1>2 DEF Relies, Locks, LocksInv
<1> QED  BY <1>1, <1>3, <1>4, CallStep, RowTyped

\* What a removal was told of the role holds for the row it has locked.
LEMMA AuthoriseInv ==
    ASSUME IInv, NEW k \in Calls, Authorise(k)
    PROVE  IInv'
<1> DEFINE b == call[k]
           c == [pc |-> "write", op |-> b.op, owned |-> OwnerTold(b),
                 user |-> b.user, role |-> b.role, id |-> b.row.id]
<1>1. b.pc = "authorise" /\ b \in CallType /\ Relies(b, member, invitation)
      /\ UNCHANGED <<member, invitation, deleted>>
  BY DEF Authorise, IInv, TypeOK
<1>2. b \in Fetched
  BY <1>1, Kinds
<1>3. CASE Authorised(b, RoleOf(b.caller))
  <2>1. call' = [call EXCEPT ![k] = c]
    BY <1>3 DEF Authorise
  <2>2. OwnerTold(b) \in BOOLEAN /\ b.row.id \in Invitations \union {Founding}
    BY <1>2 DEF OwnerTold, Fetched, Rows
  <2>3. c \in Changing /\ c.pc = "write" /\ c.op = b.op /\ c.user = b.user /\ c.owned = OwnerTold(b)
    BY <1>2, <2>2 DEF Changing, Fetched
  <2>4. c.op = "remove" => c.owned \/ member[c.user].role # "owner"
    BY <1>1, <1>3, <2>3 DEF Relies, Authorised, OwnerTold
  <2>5. c.op \in MemberOps
    BY <1>2, <2>3 DEF Fetched
  <2> HIDE DEF c
  <2>6. Relies(c, member, invitation')
    BY <2>3, <2>4, <2>5 DEF Relies, MemberOps
  <2>7. /\ \A u \in Users : Locks(c, u) => Locks(b, u)
        /\ \A i \in Invitations : ~LocksInv(c, i)
    BY <1>1, <2>3, <2>5 DEF Locks, LocksInv, MemberOps
  <2> QED  BY <1>1, <2>1, <2>3, <2>6, <2>7, OfType, CallStep DEF IInv, TypeOK
<1>4. CASE ~Authorised(b, RoleOf(b.caller))
  <2>1. End(k)
    BY <1>4 DEF Authorise
  <2> QED  BY <1>1, <2>1, EndStep DEF IInv, TypeOK
<1> QED  BY <1>3, <1>4

\* The pc of a transaction moves on; what it carries stays.
LEMMA Continued ==
    ASSUME IInv, NEW k \in Calls, NEW pc, Continue(k, pc),
           call[k] \in Changing \/ call[k] \in Joining
    PROVE  LET c == [call[k] EXCEPT !.pc = pc]
           IN  /\ call' = [call EXCEPT ![k] = c]
               /\ c.pc = pc /\ c.op = call[k].op /\ c.user = call[k].user
               /\ call[k] \in Changing /\ pc \in {"write", "written", "checked"} =>
                      c \in Changing /\ c.owned = call[k].owned /\ c.id = call[k].id
               /\ call[k] \in Joining /\ pc \in {"look", "join", "written", "checked"} =>
                      c \in Joining /\ c.row = call[k].row /\ c.invitation = call[k].invitation
<1>1. call' = [call EXCEPT ![k] = [call[k] EXCEPT !.pc = pc]]
  BY DEF Continue, IInv, TypeOK
<1>2. CASE call[k] \in Changing
  BY <1>1, <1>2 DEF Changing, Joining, MemberOps
<1>3. CASE call[k] \in Joining
  BY <1>1, <1>3 DEF Changing, Joining, MemberOps
<1> QED  BY <1>2, <1>3

LEMMA WriteInv ==
    ASSUME IInv, NEW k \in Calls, Write(k)
    PROVE  IInv'
<1> DEFINE b == call[k]
           c == [b EXCEPT !.pc = "written"]
<1>1. b.pc = "write" /\ b.op \in MemberOps /\ b \in CallType /\ Relies(b, member, invitation)
      /\ Free(k, b.user) /\ UNCHANGED <<member, invitation, deleted>>
  BY DEF Write, IInv, TypeOK
<1>2. b \in Changing
  BY <1>1, Kinds
<1>3. CASE member[b.user] # NoRow /\ member[b.user].id = b.id
  <2>1. Continue(k, "written")
    BY <1>3 DEF Write
  <2>2. /\ call' = [call EXCEPT ![k] = c] /\ c \in Changing
        /\ c.pc = "written" /\ c.op = b.op /\ c.user = b.user /\ c.owned = b.owned
    BY <1>2, <2>1, Continued
  <2> HIDE DEF c
  <2>3. Relies(c, member, invitation')
    BY <1>1, <1>3, <2>2 DEF Relies, MemberOps
  <2>4. /\ \A u \in Users : Locks(c, u) => Free(k, u)
        /\ \A i \in Invitations : ~LocksInv(c, i)
    BY <1>1, <2>2 DEF Locks, LocksInv, MemberOps
  <2> QED  BY <1>1, <2>2, <2>3, <2>4, OfType, CallStep DEF IInv, TypeOK
<1>4. CASE ~(member[b.user] # NoRow /\ member[b.user].id = b.id)
  <2>1. End(k)
    BY <1>4 DEF Write
  <2> QED  BY <1>1, <2>1, EndStep DEF IInv, TypeOK
<1> QED  BY <1>3, <1>4

LEMMA CountOwnersInv ==
    ASSUME IInv, NEW k \in Calls, CountOwners(k)
    PROVE  IInv'
<1> DEFINE b == call[k]
           c == [b EXCEPT !.pc = "checked"]
<1>1. b.pc = "written" /\ b \in CallType /\ Relies(b, member, invitation)
      /\ UNCHANGED <<member, invitation, deleted>>
      /\ (Continue(k, "checked") \/ End(k))
  BY DEF CountOwners, IInv, TypeOK
<1>2. b \in Changing \/ b \in Joining
  BY <1>1, Kinds
<1>3. CASE Continue(k, "checked")
  <2>1. /\ call' = [call EXCEPT ![k] = c]
        /\ c.pc = "checked" /\ c.op = b.op /\ c.user = b.user
        /\ b \in Changing => c \in Changing /\ c.owned = b.owned
        /\ b \in Joining => c \in Joining /\ c.row = b.row /\ c.invitation = b.invitation
    BY <1>2, <1>3, Continued
  <2>2. c \in CallType
    BY <1>2, <2>1, OfType
  <2>3. /\ b \in Changing => b.op \in MemberOps
        /\ b \in Joining => b.op = "accept"
    BY DEF Changing, Joining
  <2> HIDE DEF c
  <2>4. Relies(c, member, invitation')
    BY <1>1, <1>2, <2>1, <2>3 DEF Relies, MemberOps
  <2>5. /\ \A u \in Users : Locks(c, u) => Locks(b, u)
        /\ \A i \in Invitations : LocksInv(c, i) => LocksInv(b, i)
    BY <1>1, <1>2, <2>1, <2>3 DEF Locks, LocksInv, MemberOps
  <2> QED  BY <1>1, <2>1, <2>2, <2>4, <2>5, CallStep DEF IInv, TypeOK
<1>4. CASE End(k)
  BY <1>1, <1>4, EndStep DEF IInv, TypeOK
<1> QED  BY <1>1, <1>3, <1>4

\* What a transaction writes is a row.
LEMMA WrittenIsRow ==
    ASSUME IInv, NEW k \in Calls, call[k].pc = "checked"
    PROVE  /\ Written(call[k]) \in Rows \union {NoRow}
           /\ call[k].user \in Users /\ Locks(call[k], call[k].user)
<1> DEFINE b == call[k]
           row == member[b.user]
<1>1. b \in CallType /\ Relies(b, member, invitation) /\ (b \in Changing \/ b \in Joining)
  BY Kinds DEF IInv, TypeOK
<1>2. Locks(b, b.user)
  BY DEF Locks
<1>3. CASE b \in Changing
  <2>1. b.op \in MemberOps /\ b.user \in Users /\ b.role \in Roles
    BY <1>3 DEF Changing, Invitable
  <2>2. row \in Rows
    BY <1>1, <2>1, RowTyped DEF Relies
  <2>3. /\ [row EXCEPT !.role = b.role] \in Rows
        /\ [row EXCEPT !.role = "owner"] \in Rows
        /\ [row EXCEPT !.status = "deactivated"] \in Rows
    BY <2>1, <2>2 DEF Rows, Roles
  <2>4. Written(b) \in Rows \union {NoRow}
    BY <2>1, <2>3 DEF Written, MemberOps
  <2> QED  BY <1>2, <2>1, <2>4
<1>4. CASE b \in Joining
  <2> DEFINE id == IF b.row = NoRow.id THEN b.invitation ELSE row.id
  <2>1. b.op = "accept" /\ b.user \in Users /\ b.invitation \in Invitations
        /\ b.row \in Invitations \union {Founding, NoRow.id}
    BY <1>4 DEF Joining
  <2>2. invitation[b.invitation] \in Invited
    BY <1>1, <2>1, RowTyped DEF Relies, Pending
  <2>3. invitation[b.invitation].role \in Roles
    BY <2>2 DEF Invited, Invitable
  <2>4. id \in Invitations \union {Founding}
    BY <1>1, <2>1 DEF Relies
  <2>5. Written(b) = [id |-> id, role |-> invitation[b.invitation].role, status |-> "active"]
    BY <2>1 DEF Written
  <2> HIDE DEF id
  <2>6. Written(b) \in Rows
    BY <2>3, <2>4, <2>5 DEF Rows
  <2> QED  BY <1>2, <2>1, <2>6
<1> QED  BY <1>1, <1>3, <1>4

\* Whoever is in a lock keeps what it knows when another one commits.
LEMMA CommitInv ==
    ASSUME IInv, NEW k \in Calls, Commit(k)
    PROVE  IInv'
<1> DEFINE b == call[k]
<1>1. /\ b.pc = "checked" /\ b \in CallType
      /\ member' = [member EXCEPT ![b.user] = Written(b)]
      /\ invitation' = IF b.op = "accept"
                       THEN [invitation EXCEPT ![b.invitation].accepted = TRUE] ELSE invitation
      /\ call' = [call EXCEPT ![k] = Idle] /\ deleted' = deleted
  BY DEF Commit, End, IInv, TypeOK
<1>2. Written(b) \in Rows \union {NoRow} /\ b.user \in Users /\ Locks(b, b.user)
  BY <1>1, WrittenIsRow
<1>3. b.op = "accept" => b.invitation \in Invitations /\ invitation[b.invitation] \in Invited
                         /\ LocksInv(b, b.invitation)
  <2>1. ASSUME b.op = "accept" PROVE b \in Joining
    BY <1>1, <2>1, Kinds DEF Changing, MemberOps
  <2>2. ASSUME b.op = "accept" PROVE Pending(invitation[b.invitation])
    BY <1>1, <2>2 DEF IInv, Relies
  <2> QED  BY <1>1, <2>1, <2>2, RowTyped, <1>2 DEF Joining, Pending, LocksInv
<1>4. /\ member' \in [Users -> Rows \union {NoRow}]
      /\ \A u \in Users : u # b.user => member'[u] = member[u]
  BY <1>1, <1>2 DEF IInv, TypeOK
<1>5. /\ invitation' \in [Invitations -> Invited \union {NoInvitation}]
      /\ \A i \in Invitations : (b.op = "accept" => i # b.invitation) => invitation'[i] = invitation[i]
      /\ \A i \in Invitations : invitation[i] # NoInvitation => invitation'[i] # NoInvitation
  <2>1. CASE b.op = "accept"
    <3>1. [invitation[b.invitation] EXCEPT !.accepted = TRUE] \in Invited
      BY <1>3, <2>1 DEF Invited
    <3> QED  BY <1>1, <1>3, <2>1, <3>1, InvitedIsRow DEF IInv, TypeOK
  <2>2. CASE b.op # "accept"
    BY <1>1, <2>2 DEF IInv, TypeOK
  <2> QED  BY <2>1, <2>2
<1>6. /\ call' \in [Calls -> CallType] /\ call'[k] = Idle
      /\ \A j \in Calls \ {k} : call'[j] = call[j]
  BY <1>1, OfType DEF IInv, TypeOK
<1>7. TypeOK'
  BY <1>1, <1>4, <1>5, <1>6 DEF IInv, TypeOK
<1>8. Idle.pc = "idle"
  BY DEF Idle
<1>9. Exclusion'
  <2>1. \A j \in Calls : /\ \A u \in Users : Locks(call'[j], u) => Locks(call[j], u)
                         /\ \A i \in Invitations : LocksInv(call'[j], i) => LocksInv(call[j], i)
    BY <1>6, <1>8 DEF Locks, LocksInv
  <2> QED  BY <2>1 DEF IInv, Exclusion, Locks, LocksInv
<1>10. ASSUME NEW j \in Calls
       PROVE  Relies(call'[j], member', invitation')
  <2>1. CASE j = k
    BY <1>6, <1>8, <2>1 DEF Relies
  <2>2. CASE j # k
    <3> DEFINE d == call[j]
    <3>1. call'[j] = d /\ d \in CallType /\ Relies(d, member, invitation)
      BY <1>6, <2>2 DEF IInv, TypeOK
    <3>2. ASSUME Locks(d, d.user)
          PROVE  member'[d.user] = member[d.user]
      <4>1. d \in Fetched \/ d \in Changing \/ d \in Joining \/ d \in Inviting
            \/ d \in Revoking \/ d \in Deleting
        BY <3>1, <3>2, Kinds DEF Locks, CallType, Idle, Fetched, Changing, Joining, Inviting, Revoking, Deleting
      <4>2. d.user \in Users
        BY <3>2, <4>1 DEF Locks, Fetched, Changing, Joining, Inviting, Revoking, Deleting
      <4>3. d.user # b.user
        BY <1>2, <2>2, <3>2, <4>2 DEF IInv, Exclusion
      <4> QED  BY <1>4, <4>2, <4>3
    <3>3. ASSUME d.pc # "idle", d.op = "accept"
          PROVE  invitation'[d.invitation] = invitation[d.invitation]
      <4>1. d \in Joining
        BY <3>1, <3>3, Kinds DEF CallType, Fetched, Changing, Inviting, Revoking, Deleting, MemberOps, Joining, Idle
      <4>2. d.invitation \in Invitations /\ LocksInv(d, d.invitation)
        BY <3>3, <4>1 DEF Joining, LocksInv
      <4>3. b.op = "accept" => d.invitation # b.invitation
        BY <1>3, <2>2, <4>2 DEF IInv, Exclusion
      <4> QED  BY <1>5, <4>2, <4>3
    <3>4. ASSUME d.pc = "revoke"
          PROVE  invitation'[d.invitation] # NoInvitation
      <4>1. d.invitation \in Invitations /\ invitation[d.invitation] # NoInvitation
        BY <3>1, <3>4, Kinds DEF Revoking, Relies
      <4> QED  BY <1>5, <4>1
    <3>5. /\ d.pc \in {"written", "checked"} => Locks(d, d.user)
          /\ d.pc # "idle" /\ d.op = "remove" => Locks(d, d.user)
      BY DEF Locks
    <3> HIDE DEF d
    <3>6. Relies(d, member', invitation')
      BY <3>1, <3>2, <3>3, <3>4, <3>5 DEF Relies
    <3> QED  BY <3>1, <3>6
  <2> QED  BY <2>1, <2>2
<1> QED  BY <1>7, <1>9, <1>10 DEF IInv, Relies

-----------------------------------------------------------------------------
(* Invitations, and the end of the workspace.                              *)

LEMMA BeginInv ==
    ASSUME IInv, NEW k \in Calls, NEW c \in Inviting \union Revoking \union Deleting,
           call' = [call EXCEPT ![k] = c], UNCHANGED <<member, invitation, deleted>>,
           c.pc = "revoke" => invitation[c.invitation] # NoInvitation
    PROVE  IInv'
<1>1. c \in CallType
  BY OfType
<1>2. c.pc \in {"invite", "revoke", "delete"} /\ c.op \in {"invite", "revoke", "delete"}
  BY DEF Inviting, Revoking, Deleting
<1>3. Relies(c, member, invitation') /\ (\A u \in Users : ~Locks(c, u))
      /\ (\A j \in Invitations : ~LocksInv(c, j))
  BY <1>2 DEF Relies, Locks, LocksInv
<1> QED  BY <1>1, <1>3, CallStep DEF IInv, TypeOK

\* An invitation that somebody is accepting is not touched.
LEMMA InviteInv ==
    ASSUME IInv, NEW k \in Calls, NEW i \in Invitations, Invite(k, i)
    PROVE  /\ IInv'
           /\ \A j \in Invitations :
                 invitation[j] # NoInvitation /\ ~Unresolved(j) => invitation'[j] = invitation[j]
<1> DEFINE b == call[k]
           mine == {j \in Invitations : Unresolved(j) /\ invitation[j].for = b.user}
           new == [for |-> b.user, role |-> b.role, accepted |-> FALSE,
                   revoked |-> FALSE, expired |-> FALSE]
<1>1. /\ b.pc = "invite" /\ b \in CallType /\ invitation[i] = NoInvitation
      /\ \A j \in mine : FreeInv(k, j)
      /\ invitation' = [j \in Invitations |->
                           IF j = i THEN new
                           ELSE IF j \in mine THEN [invitation[j] EXCEPT !.revoked = TRUE]
                                ELSE invitation[j]]
      /\ End(k) /\ UNCHANGED <<member, deleted>>
  BY DEF Invite, IInv, TypeOK
<1>2. new \in Invited
  <2>1. b \in Inviting
    BY <1>1, Kinds
  <2> QED  BY <2>1 DEF Inviting, Invited
<1> HIDE DEF new
<1>3. \A j \in mine : [invitation[j] EXCEPT !.revoked = TRUE] \in Invited
  <2> TAKE j \in mine
  <2>1. j \in Invitations /\ invitation[j] # NoInvitation
    BY DEF Unresolved
  <2>2. invitation[j] \in Invited
    BY <2>1 DEF IInv, TypeOK
  <2> QED  BY <2>2 DEF Invited
<1>4. invitation' \in [Invitations -> Invited \union {NoInvitation}]
  BY <1>1, <1>2, <1>3 DEF IInv, TypeOK
<1>5. \A j \in Invitations :
          /\ ~FreeInv(k, j) /\ Pending(invitation[j]) => Pending(invitation'[j])
          /\ invitation[j] # NoInvitation => invitation'[j] # NoInvitation
          /\ invitation[j] # NoInvitation /\ ~Unresolved(j) => invitation'[j] = invitation[j]
  <2>1. \A j \in mine : invitation'[j] # NoInvitation
    BY <1>1, <1>2, <1>3, InvitedIsRow
  <2> QED  BY <1>1, <2>1 DEF Pending
<1> QED  BY <1>1, <1>4, <1>5, EndStep DEF IInv, TypeOK

LEMMA InviteRefusedInv ==
    ASSUME IInv, NEW k \in Calls, InviteRefused(k)
    PROVE  IInv'
BY EndStep DEF IInv, TypeOK, InviteRefused

LEMMA DeleteInv ==
    ASSUME IInv, NEW k \in Calls, Delete(k)
    PROVE  IInv'
BY EndStep DEF IInv, TypeOK, Delete

LEMMA RevokeInv ==
    ASSUME IInv, NEW k \in Calls, Revoke(k)
    PROVE  /\ IInv'
           /\ \A j \in Invitations :
                 invitation[j] # NoInvitation /\ ~Unresolved(j) => invitation'[j] = invitation[j]
<1> DEFINE i == call[k].invitation
<1>1. /\ call[k].pc = "revoke" /\ call[k] \in CallType /\ FreeInv(k, i)
      /\ invitation' = IF invitation[i].accepted THEN invitation
                       ELSE [invitation EXCEPT ![i].revoked = TRUE]
      /\ End(k) /\ UNCHANGED <<member, deleted>>
  BY DEF Revoke, IInv, TypeOK
<1>2. i \in Invitations /\ invitation[i] \in Invited
  <2>1. i \in Invitations /\ invitation[i] # NoInvitation
    BY <1>1, Kinds DEF Revoking, IInv, Relies
  <2> QED  BY <2>1 DEF IInv, TypeOK
<1>3. /\ [invitation[i] EXCEPT !.revoked = TRUE] \in Invited
      /\ invitation[i].revoked => [invitation[i] EXCEPT !.revoked = TRUE] = invitation[i]
  BY <1>2 DEF Invited
<1>4. invitation' \in [Invitations -> Invited \union {NoInvitation}]
  BY <1>1, <1>2, <1>3 DEF IInv, TypeOK
<1>5. /\ invitation'[i] # NoInvitation
      /\ ~Unresolved(i) => invitation'[i] = invitation[i]
      /\ \A j \in Invitations : j # i => invitation'[j] = invitation[j]
  BY <1>1, <1>2, <1>3, InvitedIsRow DEF IInv, TypeOK, Unresolved
<1>6. \A j \in Invitations :
          /\ ~FreeInv(k, j) /\ Pending(invitation[j]) => Pending(invitation'[j])
          /\ invitation[j] # NoInvitation => invitation'[j] # NoInvitation
          /\ invitation[j] # NoInvitation /\ ~Unresolved(j) => invitation'[j] = invitation[j]
  BY <1>1, <1>5
<1> QED  BY <1>1, <1>4, <1>6, EndStep DEF IInv, TypeOK

\* The date of expiry changes nothing that anybody relies on.
LEMMA ExpireInv ==
    ASSUME IInv, NEW i \in Invitations, Expire(i)
    PROVE  /\ IInv'
           /\ \A j \in Invitations :
                 invitation[j] # NoInvitation /\ ~Unresolved(j) => invitation'[j] = invitation[j]
<1>1. /\ Unresolved(i) /\ UNCHANGED <<member, deleted, call>>
      /\ invitation' = [invitation EXCEPT ![i] = [invitation[i] EXCEPT !.expired = TRUE]]
  BY DEF Expire
<1>2. invitation[i] \in Invited
  BY <1>1 DEF IInv, TypeOK, Unresolved
<1>3. LET new == [invitation[i] EXCEPT !.expired = TRUE]
      IN  new \in Invited /\ new.accepted = invitation[i].accepted /\ new.revoked = invitation[i].revoked
  BY <1>2 DEF Invited
<1>4. invitation' \in [Invitations -> Invited \union {NoInvitation}]
  BY <1>1, <1>3 DEF IInv, TypeOK
<1>5. \A j \in Invitations :
          /\ Pending(invitation[j]) => Pending(invitation'[j])
          /\ invitation[j] # NoInvitation => invitation'[j] # NoInvitation
          /\ j # i => invitation'[j] = invitation[j]
  BY <1>1, <1>2, <1>3, InvitedIsRow DEF IInv, TypeOK, Pending
<1>6. ASSUME NEW k \in Calls
      PROVE  Relies(call[k], member, invitation')
  <2> DEFINE d == call[k]
  <2>1. d \in CallType /\ Relies(d, member, invitation)
    BY DEF IInv, TypeOK
  <2>2. (d.pc # "idle" /\ d.op = "accept") \/ d.pc = "revoke" => d.invitation \in Invitations
    <3>1. ASSUME d.pc # "idle", d.op = "accept"
          PROVE  d \in Joining
      BY <2>1, <3>1 DEF CallType, Fetched, Changing, Inviting, Revoking, Deleting, MemberOps, Joining, Idle
    <3>2. ASSUME d.pc = "revoke"
          PROVE  d \in Revoking
      BY <2>1, <3>2, Kinds
    <3> QED  BY <3>1, <3>2 DEF Joining, Revoking
  <2> HIDE DEF d
  <2>3. Relies(d, member, invitation')
    BY <1>5, <2>1, <2>2 DEF Relies
  <2> QED  BY <2>3 DEF d
<1>7. TypeOK'
  BY <1>1, <1>4 DEF IInv, TypeOK
<1>8. Exclusion'
  BY <1>1 DEF IInv, Exclusion, Locks, LocksInv
<1>9. IInv'
  BY <1>1, <1>6, <1>7, <1>8 DEF IInv, Relies
<1> QED  BY <1>1, <1>5, <1>9

LEMMA LockInvitationInv ==
    ASSUME IInv, NEW k \in Calls, NEW u \in Users, NEW i \in Invitations, LockInvitation(k, u, i)
    PROVE  IInv'
<1> DEFINE c == Accepting(u, i)
<1>1. /\ Unresolved(i) /\ FreeInv(k, i)
      /\ call' = [call EXCEPT ![k] = c] /\ UNCHANGED <<member, invitation, deleted>>
  BY DEF LockInvitation
<1>2. c \in Joining /\ c.pc = "look" /\ c.op = "accept" /\ c.invitation = i
  BY DEF Accepting, Joining
<1> HIDE DEF c
<1>3. Relies(c, member, invitation') /\ (\A w \in Users : ~Locks(c, w))
      /\ (\A j \in Invitations : LocksInv(c, j) => FreeInv(k, j))
  BY <1>1, <1>2 DEF Relies, Locks, LocksInv, Unresolved, Pending, MemberOps
<1> QED  BY <1>1, <1>2, <1>3, OfType, CallStep, RowTyped

\* The invitation that a transaction has locked is settled by it: nobody else
\* was waiting for it to stay as it is.
LEMMA AcceptEnds ==
    ASSUME IInv, NEW k \in Calls, call[k].pc \in {"look", "join"}, End(k),
           invitation' = [invitation EXCEPT ![call[k].invitation].accepted = TRUE],
           UNCHANGED <<member, deleted>>
    PROVE  /\ IInv'
           /\ \A j \in Invitations :
                 invitation[j] # NoInvitation /\ ~Unresolved(j) => invitation'[j] = invitation[j]
<1> DEFINE i == call[k].invitation
<1>1. call[k] \in Joining /\ Relies(call[k], member, invitation)
  BY Kinds DEF IInv, TypeOK
<1>2. i \in Invitations /\ Pending(invitation[i]) /\ LocksInv(call[k], i)
  BY <1>1 DEF Joining, Relies, LocksInv
<1>3. invitation[i] \in Invited /\ FreeInv(k, i) /\ Unresolved(i)
  <2>1. invitation[i] \in Invited
    BY <1>2 DEF IInv, TypeOK, Pending
  <2>2. FreeInv(k, i)
    BY <1>2 DEF IInv, Exclusion, FreeInv, LocksInvitation, LocksInv
  <2> QED  BY <1>2, <2>1, <2>2 DEF Unresolved, Pending
<1>4. [invitation[i] EXCEPT !.accepted = TRUE] \in Invited
  BY <1>3 DEF Invited
<1>5. /\ invitation' \in [Invitations -> Invited \union {NoInvitation}]
      /\ invitation'[i] # NoInvitation
      /\ \A j \in Invitations : j # i => invitation'[j] = invitation[j]
  BY <1>2, <1>3, <1>4, InvitedIsRow DEF IInv, TypeOK
<1>6. IInv'
  BY <1>3, <1>5, EndStep DEF IInv, TypeOK
<1> QED  BY <1>3, <1>5, <1>6

LEMMA LookInv ==
    ASSUME IInv, NEW k \in Calls, Look(k)
    PROVE  /\ IInv'
           /\ \A j \in Invitations :
                 invitation[j] # NoInvitation /\ ~Unresolved(j) => invitation'[j] = invitation[j]
<1> DEFINE b == call[k]
           c == [b EXCEPT !.pc = "join", !.row = member[b.user].id]
<1>1. b.pc = "look" /\ b \in CallType /\ Relies(b, member, invitation) /\ UNCHANGED <<member, deleted>>
  BY DEF Look, IInv, TypeOK
<1>2. b \in Joining
  BY <1>1, Kinds
<1>3. CASE member[b.user].status = "active"
  BY <1>1, <1>3, AcceptEnds DEF Look
<1>4. CASE member[b.user].status # "active"
  <2>1. call' = [call EXCEPT ![k] = c] /\ UNCHANGED invitation
    BY <1>4 DEF Look, IInv, TypeOK
  <2>2. member[b.user].id \in Invitations \union {Founding, NoRow.id}
    <3>1. member[b.user] \in Rows \/ member[b.user] = NoRow
      BY <1>2 DEF Joining, IInv, TypeOK
    <3> QED  BY <3>1 DEF Rows
  <2>3. c \in Joining /\ c.pc = "join" /\ c.op = "accept" /\ c.invitation = b.invitation /\ b.op = "accept"
    BY <1>2, <2>2 DEF Joining
  <2> HIDE DEF c
  <2>4. Relies(c, member, invitation') /\ (\A w \in Users : ~Locks(c, w))
        /\ (\A j \in Invitations : LocksInv(c, j) => LocksInv(b, j))
    BY <1>1, <2>1, <2>3 DEF Relies, Locks, LocksInv, MemberOps
  <2>5. IInv'
    BY <1>1, <2>1, <2>3, <2>4, OfType, CallStep DEF IInv, TypeOK
  <2> QED  BY <2>1, <2>5
<1> QED  BY <1>3, <1>4

LEMMA JoinInv ==
    ASSUME IInv, NEW k \in Calls, Join(k)
    PROVE  /\ IInv'
           /\ \A j \in Invitations :
                 invitation[j] # NoInvitation /\ ~Unresolved(j) => invitation'[j] = invitation[j]
<1> DEFINE b == call[k]
           c == [b EXCEPT !.pc = "written"]
<1>1. b.pc = "join" /\ b \in CallType /\ Relies(b, member, invitation)
      /\ Free(k, b.user) /\ UNCHANGED <<member, deleted>>
  BY DEF Join, IInv, TypeOK
<1>2. b \in Joining
  BY <1>1, Kinds
<1>3. CASE b.row = NoRow.id \/ member[b.user].id = b.row
  <2>1. Continue(k, "written") /\ UNCHANGED invitation
    BY <1>3 DEF Join
  <2>2. /\ call' = [call EXCEPT ![k] = c] /\ c \in Joining /\ c.pc = "written" /\ c.op = b.op
        /\ c.user = b.user /\ c.row = b.row /\ c.invitation = b.invitation /\ b.op = "accept"
    BY <1>2, <2>1, Continued DEF Joining
  <2> HIDE DEF c
  <2>3. Relies(c, member, invitation')
    BY <1>1, <1>3, <2>1, <2>2 DEF Relies, MemberOps
  <2>4. /\ \A u \in Users : Locks(c, u) => Free(k, u)
        /\ \A j \in Invitations : LocksInv(c, j) => LocksInv(b, j)
    BY <1>1, <2>2 DEF Locks, LocksInv
  <2>5. IInv'
    BY <1>1, <2>1, <2>2, <2>3, <2>4, OfType, CallStep DEF IInv, TypeOK
  <2> QED  BY <2>1, <2>5
<1>4. CASE ~(b.row = NoRow.id \/ member[b.user].id = b.row)
  BY <1>1, <1>4, AcceptEnds DEF Join
<1> QED  BY <1>3, <1>4

-----------------------------------------------------------------------------
LEMMA StepInv == IInv /\ [Next]_vars => IInv'
<1> SUFFICES ASSUME IInv, [Next]_vars PROVE IInv'
  OBVIOUS
<1>1. ASSUME NEW k \in Calls, Step(k) PROVE IInv'
  BY <1>1, AuthoriseInv, WriteInv, CountOwnersInv, CommitInv, InviteInv, InviteRefusedInv,
     RevokeInv, DeleteInv, LookInv, JoinInv DEF Step
<1>2. ASSUME NEW k \in Calls, NEW op \in MemberOps, NEW caller \in Users, NEW user \in Users,
             NEW role \in Invitable, Fetch(k, op, caller, user, role)
      PROVE  IInv'
  BY <1>2, FetchInv
<1>3. ASSUME NEW k \in Calls, NEW caller \in Users, NEW user \in Users,
             FetchForRemoval(k, caller, user)
      PROVE  IInv'
  BY <1>3, FetchForRemovalInv
<1>4. ASSUME NEW k \in Calls, NEW caller \in Users,
             \/ \E user \in Users, role \in Invitable : BeginInvite(k, caller, user, role)
             \/ \E i \in Invitations : BeginRevoke(k, caller, i)
             \/ BeginDelete(k, caller)
      PROVE  IInv'
  <2>1. ASSUME NEW user \in Users, NEW role \in Invitable, BeginInvite(k, caller, user, role)
        PROVE  IInv'
    <3> DEFINE c == [pc |-> "invite", op |-> "invite", user |-> user, role |-> role]
    <3>1. c \in Inviting /\ c.pc # "revoke"
      BY DEF Inviting
    <3>2. call' = [call EXCEPT ![k] = c] /\ UNCHANGED <<member, invitation, deleted>>
      BY <2>1 DEF BeginInvite
    <3> HIDE DEF c
    <3> QED  BY <3>1, <3>2, BeginInv
  <2>2. ASSUME NEW i \in Invitations, BeginRevoke(k, caller, i)
        PROVE  IInv'
    <3> DEFINE c == [pc |-> "revoke", op |-> "revoke", invitation |-> i]
    <3>1. c \in Revoking /\ c.invitation = i
      BY DEF Revoking
    <3>2. /\ call' = [call EXCEPT ![k] = c] /\ UNCHANGED <<member, invitation, deleted>>
          /\ invitation[i] # NoInvitation
      BY <2>2 DEF BeginRevoke, Unresolved
    <3> HIDE DEF c
    <3> QED  BY <3>1, <3>2, BeginInv
  <2>3. CASE BeginDelete(k, caller)
    <3> DEFINE c == [pc |-> "delete", op |-> "delete"]
    <3>1. c \in Deleting /\ c.pc # "revoke"
      BY DEF Deleting
    <3>2. call' = [call EXCEPT ![k] = c] /\ UNCHANGED <<member, invitation, deleted>>
      BY <2>3 DEF BeginDelete
    <3> HIDE DEF c
    <3> QED  BY <3>1, <3>2, BeginInv
  <2> QED  BY <1>4, <2>1, <2>2, <2>3
<1>5. ASSUME NEW k \in Calls, NEW u \in Users, NEW i \in Invitations, LockInvitation(k, u, i)
      PROVE  IInv'
  BY <1>5, LockInvitationInv
<1>6. ASSUME NEW i \in Invitations, Expire(i) PROVE IInv'
  BY <1>6, ExpireInv
<1>7. CASE UNCHANGED vars
  BY <1>7 DEF IInv, TypeOK, Exclusion, Relies, Locks, LocksInv, vars
<1> QED  BY <1>1, <1>2, <1>3, <1>4, <1>5, <1>6, <1>7 DEF Next

\* A settled invitation is not written again.
LEMMA SettledStep ==
    ASSUME IInv, [Next]_vars, NEW i \in Invitations, invitation[i] # NoInvitation, ~Unresolved(i)
    PROVE  invitation'[i] = invitation[i]
<1>1. ASSUME NEW k \in Calls, Commit(k)
      PROVE  invitation'[i] = invitation[i]
  <2>1. CASE call[k].op = "accept"
    <3>1. call[k].pc = "checked" /\ Relies(call[k], member, invitation)
      BY <1>1 DEF Commit, IInv
    <3>2. Pending(invitation[call[k].invitation])
      BY <2>1, <3>1 DEF Relies
    <3>3. call[k].invitation # i
      BY <3>2 DEF Pending, Unresolved
    <3> QED  BY <1>1, <2>1, <3>3 DEF Commit, IInv, TypeOK
  <2>2. CASE call[k].op # "accept"
    BY <1>1, <2>2 DEF Commit
  <2> QED  BY <2>1, <2>2
<1>2. ASSUME NEW k \in Calls, Step(k)
      PROVE  invitation'[i] = invitation[i]
  <2>1. CASE \/ Authorise(k) \/ Write(k) \/ CountOwners(k) \/ InviteRefused(k) \/ Delete(k)
    BY <2>1 DEF Authorise, Write, CountOwners, InviteRefused, Delete
  <2>2. CASE \/ (\E j \in Invitations : Invite(k, j)) \/ Revoke(k) \/ Look(k) \/ Join(k)
    BY <2>2, InviteInv, RevokeInv, LookInv, JoinInv
  <2> QED  BY <1>1, <1>2, <2>1, <2>2 DEF Step
<1>3. ASSUME NEW j \in Invitations, Expire(j)
      PROVE  invitation'[i] = invitation[i]
  BY <1>3, ExpireInv
<1>4. CASE UNCHANGED vars
  BY <1>4 DEF vars
<1> QED
  BY <1>2, <1>3, <1>4
     DEF Next, Fetch, FetchForRemoval, BeginInvite, BeginRevoke, BeginDelete, LockInvitation

\* The inductive invariant the theorems below rest on.
THEOREM Invariance == Spec => []IInv
BY InitInv, StepInv, PTL DEF Spec

\* Every state has the types of the rows and transactions, for any users,
\* invitations and number of transactions.
THEOREM TypeCorrect == Spec => []TypeOK
<1>1. IInv => TypeOK
  BY DEF IInv
<1> QED  BY <1>1, Invariance, PTL

\* Who is not an owner never removes one, however the removal overlaps with
\* promotions, demotions and other removals.
THEOREM OwnersAreSpared == Spec => RemovalSparesOwners
<1>1. IInv /\ [Next]_vars =>
        [\A k \in Calls :
            LET c == call[k] IN
            c.pc = "checked" /\ c.op = "remove" /\ call'[k] = Idle
                => c.owned \/ member[c.user].role # "owner"]_vars
  BY DEF IInv, Relies
<1> QED  BY <1>1, Invariance, PTL DEF Spec, RemovalSparesOwners

\* An invitation is settled one way and once, and what settles it is the only
\* thing that makes a member by it.
THEOREM InvitationsSettleOnce == Spec => SettledOnce
<1>1. IInv /\ [Next]_vars =>
        [\A i \in Invitations :
            /\ invitation[i] # NoInvitation /\ ~Unresolved(i) => invitation'[i] = invitation[i]
            /\ \A k \in Calls :
                  LET c == call[k] IN
                  /\ c.pc = "checked"
                  /\ c.op = "accept"
                  /\ c.invitation = i
                  /\ member'[c.user] # member[c.user]
                  => Unresolved(i)]_vars
  <2> SUFFICES ASSUME IInv, [Next]_vars, NEW i \in Invitations
               PROVE  /\ invitation[i] # NoInvitation /\ ~Unresolved(i)
                            => invitation'[i] = invitation[i]
                      /\ \A k \in Calls :
                            call[k].pc = "checked" /\ call[k].op = "accept" /\ call[k].invitation = i
                                => Unresolved(i)
    OBVIOUS
  <2>1. \A k \in Calls : call[k].pc = "checked" /\ call[k].op = "accept" /\ call[k].invitation = i
                             => Unresolved(i)
    BY DEF IInv, Relies, Pending, Unresolved
  <2> QED  BY <2>1, SettledStep
<1> QED  BY <1>1, Invariance, PTL DEF Spec, SettledOnce
-----------------------------------------------------------------------------
(***************************************************************************)
(* Assignment.                                                             *)
(*                                                                         *)
(* An assignee that has been checked stays active until the assignment     *)
(* commits, because a deactivation waits for its row; and a deactivation   *)
(* has to look only at the conversations it found when it began, because   *)
(* from then on only the member itself can add to them.                    *)
(***************************************************************************)

\* A request that is past its check of the assignee: nobody is deactivating or
\* removing the member.
CheckedInv ==
    \A r \in Calls :
        /\ request[r].pc \in {"lock", "check"} /\ request[r].mode = "assign"
              => request[r].target \in Users
        /\ request[r].pc = "check" => request[r].mode = "assign"
        /\ request[r].pc = "update" /\ request[r].mode = "assign" =>
              /\ request[r].target \in Users
              /\ ~Assigning!Busy(request[r].target)
              /\ status[request[r].target] = "active"

\* What a deactivation or removal has not found, the member took itself.
FoundInv ==
    \A m \in Users : Assigning!Busy(m) =>
        \A c \in Conversations :
            conversation[c].assignee = m =>
                c \in admin[m].todo \union admin[m].held \/ conversation[c].by = m

AssignmentInv ==
    /\ Assigning!TypeOK
    /\ CheckedInv
    /\ FoundInv
    /\ Assigning!OnlyTakeOutlivesDeactivation
    /\ Assigning!RemovedIsUnreferenced
-----------------------------------------------------------------------------
LEMMA AssignmentInit == Assigning!NullsAssumption /\ Assigning!Init => AssignmentInv
<1> SUFFICES ASSUME Assigning!NullsAssumption, Assigning!Init PROVE AssignmentInv
  OBVIOUS
<1>1. Assigning!TypeOK
  BY DEF Assigning!Init, Assigning!TypeOK, Assigning!Columns, Assigning!AdminType,
     Assigning!NoAdmin, Assigning!NullsAssumption
<1>2. CheckedInv
  BY DEF Assigning!Init, CheckedInv, Assigning!NoRequest
<1>3. FoundInv
  BY DEF Assigning!Init, FoundInv, Assigning!Busy, Assigning!NoAdmin
<1>4. Assigning!OnlyTakeOutlivesDeactivation /\ Assigning!RemovedIsUnreferenced
  BY DEF Assigning!Init, Assigning!OnlyTakeOutlivesDeactivation, Assigning!RemovedIsUnreferenced
<1> QED  BY <1>1, <1>2, <1>3, <1>4 DEF AssignmentInv

-----------------------------------------------------------------------------
(* Requests.                                                               *)

\* The transaction of a request changes, the rows do not.
LEMMA RequestMoves ==
    ASSUME AssignmentInv, NEW r \in Calls,
           NEW t \in Assigning!RequestType \union {Assigning!NoRequest},
           request' = [request EXCEPT ![r] = t],
           UNCHANGED <<status, conversation, admin>>,
           t.pc \in {"lock", "check"} /\ t.mode = "assign" => t.target \in Users,
           t.pc = "check" => t.mode = "assign",
           t.pc = "update" /\ t.mode = "assign" =>
               t.target \in Users /\ ~Assigning!Busy(t.target) /\ status[t.target] = "active"
    PROVE  AssignmentInv'
<1>1. /\ request' \in [Calls -> Assigning!RequestType \union {Assigning!NoRequest}]
      /\ request'[r] = t
      /\ \A q \in Calls \ {r} : request'[q] = request[q]
  BY DEF AssignmentInv, Assigning!TypeOK
<1>2. Assigning!TypeOK'
  BY <1>1 DEF AssignmentInv, Assigning!TypeOK
<1>3. CheckedInv'
  BY <1>1 DEF AssignmentInv, CheckedInv, Assigning!Busy
<1>4. FoundInv' /\ Assigning!OnlyTakeOutlivesDeactivation' /\ Assigning!RemovedIsUnreferenced'
  BY DEF AssignmentInv, FoundInv, Assigning!Busy, Assigning!OnlyTakeOutlivesDeactivation,
     Assigning!RemovedIsUnreferenced
<1> QED  BY <1>2, <1>3, <1>4 DEF AssignmentInv

LEMMA BeginAssignmentInv ==
    ASSUME Assigning!NullsAssumption, AssignmentInv, NEW r \in Calls, NEW mode \in Assigning!Modes,
           NEW caller \in Users,
           NEW target \in Users \union {NoMember}, NEW c \in Conversations,
           NEW expected \in 0..MaxVersion \union {NoVersion},
           Assigning!Begin(r, mode, caller, target, c, expected)
    PROVE  AssignmentInv'
<1> DEFINE t == [pc |-> "lock", mode |-> mode, caller |-> caller, target |-> target,
                 conversation |-> c, expected |-> expected]
<1>1. t \in Assigning!RequestType
  BY DEF Assigning!RequestType, Assigning!NullsAssumption
<1>2. /\ t.pc = "lock" /\ t.mode = mode /\ t.target = target
      /\ request' = [request EXCEPT ![r] = t] /\ UNCHANGED <<status, conversation, admin>>
      /\ mode = "assign" => target \in Users
  BY DEF Assigning!Begin
<1> HIDE DEF t
<1> QED  BY <1>1, <1>2, RequestMoves

LEMMA EndInv ==
    ASSUME AssignmentInv, NEW r \in Calls, Assigning!End(r),
           UNCHANGED <<status, conversation, admin>>
    PROVE  AssignmentInv'
<1>1. Assigning!NoRequest.pc = "idle" /\ request' = [request EXCEPT ![r] = Assigning!NoRequest]
  BY DEF Assigning!NoRequest, Assigning!End
<1> QED  BY <1>1, RequestMoves

LEMMA ContinueInv ==
    ASSUME AssignmentInv, NEW r \in Calls, NEW pc \in {"check", "update"},
           Assigning!Continue(r, pc),
           request[r].pc \in {"lock", "check"},
           UNCHANGED <<status, conversation, admin>>,
           pc = "check" => request[r].mode = "assign",
           pc = "update" /\ request[r].mode = "assign" =>
               ~Assigning!Busy(request[r].target) /\ status[request[r].target] = "active"
    PROVE  AssignmentInv'
<1> DEFINE t == [request[r] EXCEPT !.pc = pc]
<1>1. request[r] \in Assigning!RequestType
  BY DEF AssignmentInv, Assigning!TypeOK, Assigning!NoRequest
<1>2. /\ t \in Assigning!RequestType /\ t.pc = pc /\ t.mode = request[r].mode
      /\ t.target = request[r].target
  BY <1>1 DEF Assigning!RequestType
<1>3. request[r].mode = "assign" => request[r].target \in Users
  BY DEF AssignmentInv, CheckedInv
<1>4. request' = [request EXCEPT ![r] = t]
  BY DEF Assigning!Continue, AssignmentInv, Assigning!TypeOK
<1> HIDE DEF t
<1> QED  BY <1>2, <1>3, <1>4, RequestMoves

LEMMA LockConversationInv ==
    ASSUME AssignmentInv, NEW r \in Calls, Assigning!LockConversation(r)
    PROVE  AssignmentInv'
<1>1. request[r].pc = "lock" /\ UNCHANGED <<status, conversation, admin>> /\ Assigning!Decide(r)
  BY DEF Assigning!LockConversation
<1>2. CASE Assigning!End(r)
  BY <1>1, <1>2, EndInv
<1>3. CASE Assigning!Continue(r, "check") /\ request[r].mode = "assign"
  BY <1>1, <1>3, ContinueInv
<1>4. CASE Assigning!Continue(r, "update") /\ request[r].mode # "assign"
  BY <1>1, <1>4, ContinueInv
<1> QED  BY <1>1, <1>2, <1>3, <1>4 DEF Assigning!Decide

LEMMA AssertAssignableInv ==
    ASSUME AssignmentInv, NEW r \in Calls, Assigning!AssertAssignable(r)
    PROVE  AssignmentInv'
<1>1. /\ request[r].pc = "check" /\ ~Assigning!Busy(request[r].target)
      /\ UNCHANGED <<status, conversation, admin>>
  BY DEF Assigning!AssertAssignable
<1>2. CASE Assigning!End(r)
  BY <1>1, <1>2, EndInv
<1>3. CASE Assigning!Continue(r, "update") /\ status[request[r].target] = "active"
  BY <1>1, <1>3, ContinueInv
<1> QED  BY <1>2, <1>3 DEF Assigning!AssertAssignable

\* The new assignee is an active member that was checked, or the caller itself.
LEMMA UpdateAssignmentInv ==
    ASSUME Assigning!NullsAssumption, AssignmentInv, NEW r \in Calls, Assigning!UpdateAssignment(r)
    PROVE  AssignmentInv'
<1> DEFINE t == request[r]  c == t.conversation  after == Assigning!Assigned(t, conversation[c])
<1>1. /\ t.pc = "update" /\ t \in Assigning!RequestType
      /\ request' = [request EXCEPT ![r] = Assigning!NoRequest] /\ UNCHANGED <<status, admin>>
      /\ conversation' = [conversation EXCEPT ![c] = after]
      /\ \A m \in Assigning!Referenced(t) : status[m] # "gone"
  BY DEF Assigning!UpdateAssignment, Assigning!End, AssignmentInv, Assigning!TypeOK,
     Assigning!NoRequest
<1>2. /\ c \in Conversations /\ t.caller \in Users /\ t.mode \in Assigning!Modes
      /\ t.mode = "assign" => /\ t.target \in Users /\ ~Assigning!Busy(t.target)
                              /\ status[t.target] = "active"
  BY <1>1 DEF Assigning!RequestType, AssignmentInv, CheckedInv
<1>3. \/ t.mode = "take" /\ after.assignee = t.caller /\ after.by = t.caller
         /\ status[t.caller] # "gone"
      \/ t.mode = "assign" /\ after.assignee = t.target /\ after.by = t.caller
         /\ status[t.caller] # "gone"
      \/ t.mode = "unassign" /\ after.assignee = NoMember /\ after.by = NoMember
  BY <1>1, <1>2 DEF Assigning!Assigned, Assigning!Referenced, Assigning!Modes
<1>4. after \in Assigning!Columns
  <2>1. conversation[c].version \in Nat
    BY <1>2 DEF AssignmentInv, Assigning!TypeOK, Assigning!Columns
  <2>2. CASE t.mode = "take"
    BY <1>2, <2>1, <2>2 DEF Assigning!Assigned, Assigning!Columns
  <2>3. CASE t.mode = "assign"
    BY <1>2, <2>1, <2>3 DEF Assigning!Assigned, Assigning!Columns
  <2>4. CASE t.mode = "unassign"
    BY <2>1, <2>4 DEF Assigning!Assigned, Assigning!Columns
  <2> QED  BY <1>2, <2>2, <2>3, <2>4 DEF Assigning!Modes
<1> HIDE DEF after, c
<1>5. /\ conversation' \in [Conversations -> Assigning!Columns] /\ conversation'[c] = after
      /\ \A d \in Conversations : d # c => conversation'[d] = conversation[d]
  BY <1>1, <1>2, <1>4 DEF AssignmentInv, Assigning!TypeOK
<1>6. /\ request' \in [Calls -> Assigning!RequestType \union {Assigning!NoRequest}]
      /\ request'[r] = Assigning!NoRequest
      /\ \A q \in Calls \ {r} : request'[q] = request[q]
  BY <1>1 DEF AssignmentInv, Assigning!TypeOK
<1>7. Assigning!TypeOK'
  BY <1>1, <1>5, <1>6 DEF AssignmentInv, Assigning!TypeOK
<1>8. CheckedInv'
  BY <1>1, <1>6 DEF AssignmentInv, CheckedInv, Assigning!Busy, Assigning!NoRequest
<1>9. FoundInv'
  <2> SUFFICES ASSUME NEW m \in Users, Assigning!Busy(m), NEW d \in Conversations,
                      conversation'[d].assignee = m
               PROVE  d \in admin[m].todo \union admin[m].held \/ conversation'[d].by = m
    BY <1>1 DEF FoundInv, Assigning!Busy
  <2>1. CASE d = c
    BY <1>2, <1>3, <1>5, <2>1 DEF Assigning!NullsAssumption
  <2>2. CASE d # c
    BY <1>5, <2>2 DEF AssignmentInv, FoundInv
  <2> QED  BY <2>1, <2>2
<1>10. Assigning!OnlyTakeOutlivesDeactivation'
  <2> SUFFICES ASSUME NEW d \in Conversations, NEW m \in Users,
                      conversation'[d].assignee = m, status[m] = "deactivated"
               PROVE  conversation'[d].by = m
    BY <1>1 DEF Assigning!OnlyTakeOutlivesDeactivation
  <2>1. CASE d = c
    BY <1>2, <1>3, <1>5, <2>1 DEF Assigning!NullsAssumption
  <2>2. CASE d # c
    BY <1>5, <2>2 DEF AssignmentInv, Assigning!OnlyTakeOutlivesDeactivation
  <2> QED  BY <2>1, <2>2
<1>11. Assigning!RemovedIsUnreferenced'
  <2> SUFFICES ASSUME NEW d \in Conversations, NEW m \in Users, status[m] = "gone"
               PROVE  m \notin {conversation'[d].assignee, conversation'[d].by}
    BY <1>1 DEF Assigning!RemovedIsUnreferenced
  <2>1. CASE d = c
    BY <1>2, <1>3, <1>5, <2>1 DEF Assigning!NullsAssumption
  <2>2. CASE d # c
    BY <1>5, <2>2 DEF AssignmentInv, Assigning!RemovedIsUnreferenced
  <2> QED  BY <2>1, <2>2
<1> QED  BY <1>7, <1>8, <1>9, <1>10, <1>11 DEF AssignmentInv

LEMMA ReferenceFailsInv ==
    ASSUME AssignmentInv, NEW r \in Calls, Assigning!ReferenceFails(r)
    PROVE  AssignmentInv'
BY EndInv DEF Assigning!ReferenceFails

-----------------------------------------------------------------------------
(* Deactivations and removals.                                             *)

\* A deactivation or removal moves on, the rows do not change yet.
LEMMA AdminMoves ==
    ASSUME AssignmentInv, NEW m \in Users, NEW a \in Assigning!AdminType,
           admin' = [admin EXCEPT ![m] = a],
           UNCHANGED <<status, conversation, request>>,
           a.pc = "clear" => /\ Assigning!Busy(m) \/ ~Assigning!Shared(m)
                             /\ \A c \in Conversations : conversation[c].assignee = m =>
                                    c \in a.todo \union a.held \/ conversation[c].by = m
    PROVE  AssignmentInv'
<1>1. /\ admin' \in [Users -> Assigning!AdminType] /\ admin'[m] = a
      /\ \A n \in Users \ {m} : admin'[n] = admin[n]
  BY DEF AssignmentInv, Assigning!TypeOK
<1>2. Assigning!TypeOK'
  BY <1>1 DEF AssignmentInv, Assigning!TypeOK
<1>3. CheckedInv'
  <2> SUFFICES ASSUME NEW r \in Calls, request[r].pc = "update", request[r].mode = "assign",
                      request[r].target = m, a.pc = "clear"
               PROVE  FALSE
    BY <1>1 DEF AssignmentInv, CheckedInv, Assigning!Busy
  <2>1. Assigning!Shared(m)
    BY DEF Assigning!Shared
  <2>2. ~Assigning!Busy(m)
    BY DEF AssignmentInv, CheckedInv
  <2> QED  BY <2>1, <2>2
<1>4. FoundInv'
  BY <1>1 DEF AssignmentInv, FoundInv, Assigning!Busy
<1>5. Assigning!OnlyTakeOutlivesDeactivation' /\ Assigning!RemovedIsUnreferenced'
  BY DEF AssignmentInv, Assigning!OnlyTakeOutlivesDeactivation, Assigning!RemovedIsUnreferenced
<1> QED  BY <1>2, <1>3, <1>4, <1>5 DEF AssignmentInv

LEMMA BeginAdminInv ==
    ASSUME AssignmentInv, NEW m \in Users, NEW kind \in {"deactivate", "remove"},
           Assigning!BeginAdmin(m, kind)
    PROVE  AssignmentInv'
<1> DEFINE a == [pc |-> "clear", kind |-> kind, held |-> {},
                 todo |-> {c \in Conversations : conversation[c].assignee = m}]
<1>1. /\ a \in Assigning!AdminType
      /\ \A c \in Conversations : conversation[c].assignee = m => c \in a.todo
  BY DEF Assigning!AdminType
<1>2. /\ admin' = [admin EXCEPT ![m] = a] /\ ~Assigning!Shared(m)
      /\ UNCHANGED <<status, conversation, request>>
  BY DEF Assigning!BeginAdmin
<1> HIDE DEF a
<1> QED  BY <1>1, <1>2, AdminMoves

LEMMA LockAssignedInv ==
    ASSUME AssignmentInv, NEW m \in Users, NEW c \in Conversations, Assigning!LockAssigned(m, c)
    PROVE  AssignmentInv'
<1> DEFINE a == [admin[m] EXCEPT !.todo = admin[m].todo \ {c}, !.held = admin[m].held \union {c}]
<1>1. admin[m] \in Assigning!AdminType /\ Assigning!Busy(m)
  BY DEF AssignmentInv, Assigning!TypeOK, Assigning!LockAssigned, Assigning!Busy
<1>2. /\ a \in Assigning!AdminType /\ a.todo = admin[m].todo \ {c}
      /\ a.held = admin[m].held \union {c}
  BY <1>1 DEF Assigning!AdminType
<1>3. \A d \in Conversations : conversation[d].assignee = m =>
          d \in a.todo \union a.held \/ conversation[d].by = m
  BY <1>1, <1>2 DEF AssignmentInv, FoundInv
<1>4. admin' = [admin EXCEPT ![m] = a] /\ UNCHANGED <<status, conversation, request>>
  BY <1>1 DEF Assigning!LockAssigned, AssignmentInv, Assigning!TypeOK, Assigning!AdminType
<1> HIDE DEF a
<1> QED  BY <1>1, <1>2, <1>3, <1>4, AdminMoves

\* Its assignments are cleared in the conversations it has locked.
LEMMA ClearedIs ==
    ASSUME Assigning!NullsAssumption, AssignmentInv, NEW m \in Users
    PROVE  /\ Assigning!Cleared(m) \in [Conversations -> Assigning!Columns]
           /\ \A c \in Conversations :
                 \/ /\ Assigning!Cleared(m)[c] = conversation[c]
                    /\ ~(c \in admin[m].held /\ conversation[c].assignee = m)
                 \/ Assigning!Cleared(m)[c].assignee = NoMember
                       /\ Assigning!Cleared(m)[c].by = NoMember
<1>1. \A c \in Conversations : conversation[c] \in Assigning!Columns
      /\ conversation[c].version \in Nat
  BY DEF AssignmentInv, Assigning!TypeOK, Assigning!Columns
<1>2. \A c \in Conversations :
          [assignee |-> NoMember, by |-> NoMember, version |-> conversation[c].version + 1] \in Assigning!Columns
  BY <1>1 DEF Assigning!Columns
<1> QED  BY <1>1, <1>2 DEF Assigning!Cleared

\* Both kinds end with the cleared rows and a new status of the member.
LEMMA CommitAdmin ==
    ASSUME Assigning!NullsAssumption, AssignmentInv, NEW m \in Users,
           NEW st \in {"deactivated", "gone"},
           Assigning!Clearable(m),
           conversation' = Assigning!Cleared(m),
           status' = [status EXCEPT ![m] = st],
           admin' = [admin EXCEPT ![m] = Assigning!NoAdmin],
           UNCHANGED request,
           st = "gone" => \A c \in Conversations :
                              m \notin {Assigning!Cleared(m)[c].assignee, Assigning!Cleared(m)[c].by}
    PROVE  AssignmentInv'
<1>1. /\ status' \in [Users -> {"active", "deactivated", "gone"}] /\ status'[m] = st
      /\ \A n \in Users \ {m} : status'[n] = status[n]
  BY DEF AssignmentInv, Assigning!TypeOK
<1>2. /\ admin' \in [Users -> Assigning!AdminType] /\ admin'[m].pc = "idle"
      /\ \A n \in Users \ {m} : admin'[n] = admin[n]
  <2>1. Assigning!NoAdmin \in Assigning!AdminType /\ Assigning!NoAdmin.pc = "idle"
    BY DEF Assigning!NoAdmin, Assigning!AdminType
  <2> QED  BY <2>1 DEF AssignmentInv, Assigning!TypeOK
<1>3. /\ conversation' \in [Conversations -> Assigning!Columns]
      /\ \A c \in Conversations :
            \/ /\ conversation'[c] = conversation[c]
               /\ ~(c \in admin[m].held /\ conversation[c].assignee = m)
            \/ conversation'[c].assignee = NoMember /\ conversation'[c].by = NoMember
  BY ClearedIs
<1>4. Assigning!Busy(m) /\ admin[m].todo = {}
  BY DEF Assigning!Clearable, Assigning!Busy
<1>5. Assigning!TypeOK'
  BY <1>1, <1>2, <1>3 DEF AssignmentInv, Assigning!TypeOK
<1>6. CheckedInv'
  <2> SUFFICES ASSUME NEW r \in Calls, request[r].pc = "update", request[r].mode = "assign"
               PROVE  request[r].target # m
    BY <1>1, <1>2 DEF AssignmentInv, CheckedInv, Assigning!Busy
  <2> QED  BY <1>4 DEF AssignmentInv, CheckedInv
<1>7. FoundInv'
  <2> SUFFICES ASSUME NEW n \in Users \ {m}, Assigning!Busy(n), NEW c \in Conversations,
                      conversation'[c].assignee = n
               PROVE  c \in admin[n].todo \union admin[n].held \/ conversation'[c].by = n
    BY <1>2 DEF FoundInv, Assigning!Busy
  <2>1. conversation'[c] = conversation[c]
    BY <1>3 DEF Assigning!NullsAssumption
  <2> QED  BY <2>1 DEF AssignmentInv, FoundInv
<1>8. Assigning!OnlyTakeOutlivesDeactivation'
  <2> SUFFICES ASSUME NEW c \in Conversations, NEW n \in Users,
                      conversation'[c].assignee = n, status'[n] = "deactivated"
               PROVE  conversation'[c].by = n
    BY DEF Assigning!OnlyTakeOutlivesDeactivation
  <2>1. /\ conversation'[c] = conversation[c]
        /\ ~(c \in admin[m].held /\ conversation[c].assignee = m)
    BY <1>3 DEF Assigning!NullsAssumption
  <2>2. CASE n = m
    BY <1>4, <2>1, <2>2 DEF AssignmentInv, FoundInv
  <2>3. CASE n # m
    BY <1>1, <2>1, <2>3 DEF AssignmentInv, Assigning!OnlyTakeOutlivesDeactivation
  <2> QED  BY <2>2, <2>3
<1>9. Assigning!RemovedIsUnreferenced'
  <2> SUFFICES ASSUME NEW c \in Conversations, NEW n \in Users, status'[n] = "gone"
               PROVE  n \notin {conversation'[c].assignee, conversation'[c].by}
    BY DEF Assigning!RemovedIsUnreferenced
  <2>1. CASE n = m
    BY <1>1, <2>1
  <2>2. CASE n # m
    BY <1>1, <1>3, <2>2 DEF AssignmentInv, Assigning!RemovedIsUnreferenced,
       Assigning!NullsAssumption
  <2> QED  BY <2>1, <2>2
<1> QED  BY <1>5, <1>6, <1>7, <1>8, <1>9 DEF AssignmentInv

LEMMA CommitDeactivationInv ==
    ASSUME Assigning!NullsAssumption, AssignmentInv, NEW m \in Users,
           Assigning!CommitDeactivation(m)
    PROVE  AssignmentInv'
BY CommitAdmin DEF Assigning!CommitDeactivation

LEMMA CommitRemovalInv ==
    ASSUME Assigning!NullsAssumption, AssignmentInv, NEW m \in Users, Assigning!CommitRemoval(m)
    PROVE  AssignmentInv'
<1>1. \A c \in Conversations : m \notin {Assigning!Cleared(m)[c].assignee, Assigning!Cleared(m)[c].by}
  BY DEF Assigning!CommitRemoval, Assigning!Referring
<1> QED  BY <1>1, CommitAdmin DEF Assigning!CommitRemoval

\* A deactivation or removal that fails, or is aborted, leaves the rows alone.
LEMMA AdminFails ==
    ASSUME AssignmentInv, NEW m \in Users,
           NEW a \in {Assigning!NoAdmin, [Assigning!NoAdmin EXCEPT !.pc = "failed"]},
           admin' = [admin EXCEPT ![m] = a],
           UNCHANGED <<status, conversation, request>>
    PROVE  AssignmentInv'
<1>1. a \in Assigning!AdminType /\ a.pc # "clear"
  BY DEF Assigning!NoAdmin, Assigning!AdminType
<1> QED  BY <1>1, AdminMoves

LEMMA BreakDeadlockInv ==
    ASSUME AssignmentInv, NEW x \in Assigning!Txns, Assigning!BreakDeadlock(x)
    PROVE  AssignmentInv'
<1>1. CASE x \in Calls
  BY <1>1, EndInv DEF Assigning!BreakDeadlock
<1>2. CASE x \notin Calls
  BY <1>2, AdminFails DEF Assigning!BreakDeadlock, Assigning!Txns
<1> QED  BY <1>1, <1>2

LEMMA AssignmentStep ==
    Assigning!NullsAssumption /\ AssignmentInv /\ [Assigning!Next]_Assigning!vars => AssignmentInv'
<1> SUFFICES ASSUME Assigning!NullsAssumption, AssignmentInv,
                    [Assigning!Next]_Assigning!vars PROVE AssignmentInv'
  OBVIOUS
<1>1. ASSUME NEW r \in Calls, NEW mode \in Assigning!Modes, NEW caller \in Users,
             NEW target \in Users \union {NoMember}, NEW c \in Conversations,
             NEW expected \in 0..MaxVersion \union {NoVersion},
             Assigning!Begin(r, mode, caller, target, c, expected)
      PROVE  AssignmentInv'
  BY <1>1, BeginAssignmentInv
<1>2. ASSUME NEW r \in Calls, Assigning!RequestStep(r)
      PROVE  AssignmentInv'
  BY <1>2, LockConversationInv, AssertAssignableInv, UpdateAssignmentInv, ReferenceFailsInv
     DEF Assigning!RequestStep
<1>3. ASSUME NEW m \in Users, NEW kind \in {"deactivate", "remove"}, Assigning!BeginAdmin(m, kind)
      PROVE  AssignmentInv'
  BY <1>3, BeginAdminInv
<1>4. ASSUME NEW m \in Users, Assigning!AdminStep(m)
      PROVE  AssignmentInv'
  BY <1>4, LockAssignedInv, CommitDeactivationInv, CommitRemovalInv, AdminFails
     DEF Assigning!AdminStep, Assigning!RemovalFails
<1>5. ASSUME NEW x \in Assigning!Txns, Assigning!BreakDeadlock(x)
      PROVE  AssignmentInv'
  BY <1>5, BreakDeadlockInv
<1>6. CASE UNCHANGED Assigning!vars
  BY <1>6 DEF Assigning!vars, AssignmentInv, Assigning!TypeOK, CheckedInv, FoundInv,
     Assigning!Busy, Assigning!OnlyTakeOutlivesDeactivation,
     Assigning!RemovedIsUnreferenced
<1> QED  BY <1>1, <1>2, <1>3, <1>4, <1>5, <1>6 DEF Assigning!Next

-----------------------------------------------------------------------------
(* The theorems.                                                           *)

\* The inductive invariant holds in every state.
THEOREM AssignmentInvariance ==
    ASSUME Assigning!NullsAssumption PROVE Assigning!Spec => []AssignmentInv
<1>1. Assigning!Init => AssignmentInv
  BY AssignmentInit
<1>2. AssignmentInv /\ [Assigning!Next]_Assigning!vars => AssignmentInv'
  BY AssignmentStep
<1> QED  BY <1>1, <1>2, PTL DEF Assigning!Spec

\* The rows and transactions keep the types of the code.
THEOREM AssignmentTypeCorrect ==
    ASSUME Assigning!NullsAssumption PROVE Assigning!Spec => []Assigning!TypeOK
<1>1. AssignmentInv => Assigning!TypeOK
  BY DEF AssignmentInv
<1> QED  BY <1>1, AssignmentInvariance, PTL

\* A conversation assigned to a deactivated member was taken by the member: the
\* FOR SHARE of an assignment and the lock of a deactivation exclude each other.
THEOREM DeactivationLeavesOnlyTakes ==
    ASSUME Assigning!NullsAssumption
           PROVE Assigning!Spec => []Assigning!OnlyTakeOutlivesDeactivation
<1>1. AssignmentInv => Assigning!OnlyTakeOutlivesDeactivation
  BY DEF AssignmentInv
<1> QED  BY <1>1, AssignmentInvariance, PTL

\* No conversation refers to a member that is gone: the foreign keys hold
\* whatever requests overlap the removal.
THEOREM RemovalLeavesNothing ==
    ASSUME Assigning!NullsAssumption PROVE Assigning!Spec => []Assigning!RemovedIsUnreferenced
<1>1. AssignmentInv => Assigning!RemovedIsUnreferenced
  BY DEF AssignmentInv
<1> QED  BY <1>1, AssignmentInvariance, PTL

-----------------------------------------------------------------------------
(***************************************************************************)
(* Both next to each other.  A step of one leaves the state of the other   *)
(* alone, so each keeps its invariant in every scene.                      *)
(***************************************************************************)

LEMMA BothInitInv == BothInit => IInv /\ AssignmentInv
BY InitInv, AssignmentInit, AssigningConstants DEF BothInit

LEMMA BothStepInv == IInv /\ AssignmentInv /\ [BothNext]_bothVars => IInv' /\ AssignmentInv'
<1> SUFFICES ASSUME IInv, AssignmentInv, [BothNext]_bothVars PROVE IInv' /\ AssignmentInv'
  OBVIOUS
<1>1. [Next]_vars /\ [Assigning!Next]_Assigning!vars
  BY DEF BothNext, bothVars, assigningVars, vars, Assigning!vars
<1> QED  BY <1>1, StepInv, AssignmentStep, AssigningConstants

\* TypesOK: in its scene, each component's rows and transactions keep their
\* types.
THEOREM MembersTypeCorrect == BothSpec => []TypesOK
<1>1. IInv /\ AssignmentInv => TypesOK
  BY DEF IInv, AssignmentInv, TypesOK
<1> QED  BY <1>1, BothInitInv, BothStepInv, PTL DEF BothSpec

\* OnlyTakeOutlivesDeactivation, next to the transactions on roles.
THEOREM OnlyTakesOutlive == BothSpec => []OnlyTakeOutlivesDeactivation
<1>1. AssignmentInv => OnlyTakeOutlivesDeactivation
  BY DEF AssignmentInv, OnlyTakeOutlivesDeactivation
<1> QED  BY <1>1, BothInitInv, BothStepInv, PTL DEF BothSpec

\* RemovedIsUnreferenced, next to the transactions on roles.
THEOREM RemovedMembersAreUnreferenced == BothSpec => []RemovedIsUnreferenced
<1>1. AssignmentInv => RemovedIsUnreferenced
  BY DEF AssignmentInv, RemovedIsUnreferenced
<1> QED  BY <1>1, BothInitInv, BothStepInv, PTL DEF BothSpec
=============================================================================
