--------------------------- MODULE VisitorIdentity ---------------------------
(***************************************************************************)
(* Who a visitor is from one page to the next.  The widget keeps two       *)
(* secrets in the local storage of its origin, which every tab of the      *)
(* browser shares: the token of a session, which owns the conversation,    *)
(* and a continuity token, which names the contact.  A page that opens     *)
(* reads both, asks the server to create or resume a session, and writes   *)
(* back what the answer says.  The server tells a continuity token once,   *)
(* in the answer of the transaction that mints it.                         *)
(*                                                                         *)
(* One browser, one workspace.  A session is its index, and so is a        *)
(* contact; the tokens are random and named by what they open: a session   *)
(* token is the session, a continuity token is its contact and the count   *)
(* of its minting.  The profile and page columns are left out.             *)
(***************************************************************************)
EXTENDS Naturals, Sequences, SequencesExt

CONSTANTS
    Tabs,          \* tabs of the visitor's browser that show the widget
    MaxSessions,   \* bound: rows of visitor_sessions (and of contacts)
    MayFail        \* whether requests and transactions may fail

IdentityAssumption == MaxSessions \in Nat \ {0} /\ MayFail \in BOOLEAN

VARIABLES
    sessions,   \* visitor_sessions: contact_id (0: NULL), expired, talked
    contacts,   \* contacts: how often a continuity token was minted (0: NULL hash)
    store,      \* local storage: the session token and the continuity token
    page        \* of every tab: where initialize is, and what it asked and was told

vars == <<sessions, contacts, store, page>>

NoToken == [contact |-> 0, mint |-> 0]
Token == [contact : 0..MaxSessions, mint : Nat]
Closed == [at |-> "closed", session |-> 0, token |-> NoToken]

\* Every variable has the type of the column, key or state it stands for.
TypeOK ==
    /\ sessions \in Seq([contact : 0..Len(contacts), expired : BOOLEAN, talked : BOOLEAN])
    /\ Len(sessions) <= MaxSessions
    /\ contacts \in Seq(Nat)
    /\ store.session \in 0..Len(sessions) /\ store.token \in Token
    /\ \A t \in Tabs :
        /\ page[t].at \in {"closed", "asking", "answered", "listing", "ready", "error"}
        /\ page[t].session \in 0..Len(sessions) /\ page[t].token \in Token

\* A browser that is new to the site, or one that comes back with a session of
\* the time before sessions had contacts.
Init ==
    /\ contacts = <<>>
    /\ page = [t \in Tabs |-> Closed]
    /\ \/ sessions = <<>> /\ store = [session |-> 0, token |-> NoToken]
       \/ /\ sessions = <<[contact |-> 0, expired |-> FALSE, talked |-> TRUE]>>
          /\ store = [session |-> 1, token |-> NoToken]

-----------------------------------------------------------------------------
(* The server: widget_create_or_resume_visitor_session.  The session and the *)
(* contact are locked before they are used, so it is one step.               *)

\* resolve_visitor_session
Live(s) == s # 0 /\ ~sessions[s].expired

\* The contact a token opens, if any: its hash is the one the row has.
Opens(token, c) == c \in DOMAIN contacts /\ token = [contact |-> c, mint |-> contacts[c]]
                   /\ contacts[c] # 0

\* Fault: a mint rotates the token a contact has.
MintAnew(rows, c) ==
    [rows |-> [rows EXCEPT ![c] = @ + 1], token |-> [contact |-> c, mint |-> rows[c] + 1]]

\* mint_contact_continuity_token: once per contact, NULL ever after.
Mint(rows, c) ==
    IF rows[c] = 0
    THEN [rows |-> [rows EXCEPT ![c] = 1], token |-> [contact |-> c, mint |-> 1]]
    ELSE [rows |-> rows, token |-> NoToken]

Answered(t, s, token) ==
    page' = [page EXCEPT ![t] = [at |-> "answered", session |-> s, token |-> token]]

\* The session the request names is live: it keeps its contact, or gets one.
Resume(t) ==
    LET s == page[t].session
        found == sessions[s].contact # 0
        rows == IF found THEN contacts ELSE Append(contacts, 0)
        c == IF found THEN sessions[s].contact ELSE Len(rows)
        minted == Mint(rows, c)
    IN  /\ page[t].at = "asking" /\ Live(s)
        /\ Len(rows) <= MaxSessions
        /\ sessions' = [sessions EXCEPT ![s].contact = c]
        /\ contacts' = minted.rows
        /\ Answered(t, s, minted.token)
        /\ UNCHANGED store

\* Otherwise, or when anything in the resuming block raised an error, a session
\* is created, for the contact of the continuity token or for a new one.
Create(t) ==
    LET known == {c \in DOMAIN contacts : Opens(page[t].token, c)}
        rows == IF known # {} THEN contacts ELSE Append(contacts, 0)
        c == IF known # {} THEN CHOOSE k \in known : TRUE ELSE Len(rows)
        minted == IF known # {} THEN [rows |-> rows, token |-> NoToken] ELSE Mint(rows, c)
    IN  /\ page[t].at = "asking"
        /\ ~Live(page[t].session) \/ MayFail
        /\ Len(sessions) < MaxSessions /\ Len(rows) <= MaxSessions
        /\ sessions' = Append(sessions, [contact |-> c, expired |-> FALSE, talked |-> FALSE])
        /\ contacts' = minted.rows
        /\ Answered(t, Len(sessions) + 1, minted.token)
        /\ UNCHANGED store

\* Thirty days without a request of the session.
Expire(s) ==
    /\ Live(s)
    /\ sessions' = [sessions EXCEPT ![s].expired = TRUE]
    /\ UNCHANGED <<contacts, store, page>>

-----------------------------------------------------------------------------
(* The widget: initialize, in every tab *)

Open(t) ==
    /\ page[t].at = "closed"
    /\ page' = [page EXCEPT ![t] = [at |-> "asking", session |-> store.session, token |-> store.token]]
    /\ UNCHANGED <<sessions, contacts, store>>

\* The answer is written to the storage; a session that has a conversation has
\* its messages listed next, with the widget ready already.
Accept(t) ==
    /\ page[t].at = "answered"
    /\ store' = [session |-> page[t].session,
                 token |-> IF page[t].token = NoToken THEN store.token ELSE page[t].token]
    /\ page' = [page EXCEPT ![t].at = IF sessions[page[t].session].talked THEN "listing" ELSE "ready"]
    /\ UNCHANGED <<sessions, contacts>>

Listed(t) ==
    /\ page[t].at = "listing" /\ Live(page[t].session)
    /\ page' = [page EXCEPT ![t].at = "ready"]
    /\ UNCHANGED <<sessions, contacts, store>>

\* Whatever fails, before or after the server has done its part, the session
\* token is taken out of the storage; the continuity token stays.
InitializeFails(t) ==
    /\ \/ page[t].at \in {"asking", "answered", "listing"} /\ MayFail
       \/ page[t].at = "listing" /\ ~Live(page[t].session)
    /\ store' = [store EXCEPT !.session = 0]
    /\ page' = [page EXCEPT ![t].at = "error"]
    /\ UNCHANGED <<sessions, contacts>>

\* The first message of the session makes its conversation.
Talk(t) ==
    /\ page[t].at \in {"listing", "ready"}
    /\ Live(page[t].session)
    /\ sessions' = [sessions EXCEPT ![page[t].session].talked = TRUE]
    /\ UNCHANGED <<contacts, store, page>>

\* The visitor goes to another page or closes the tab: what is on its way is
\* not waited for, the server may have served it or not.
Leave(t) ==
    /\ page[t].at # "closed"
    /\ page' = [page EXCEPT ![t] = Closed]
    /\ UNCHANGED <<sessions, contacts, store>>

Next ==
    \/ \E t \in Tabs :
        \/ Open(t) \/ Resume(t) \/ Create(t) \/ Accept(t) \/ Listed(t)
        \/ InitializeFails(t) \/ Talk(t) \/ Leave(t)
    \/ \E s \in DOMAIN sessions : Expire(s)

Spec == Init /\ [][Next]_vars

-----------------------------------------------------------------------------
(* Properties *)

\* The continuity token a browser keeps always opens the contact it was minted
\* for: tabs that start at the same time, answers that are lost or written
\* late, and failed starts never leave it with a token that has been replaced.
\* A visitor who loses the session is still known by it.
StoredTokenWorks == store.token # NoToken => Opens(store.token, store.token.contact)

=============================================================================
