----------------------------- MODULE MCProgress -----------------------------
(***************************************************************************)
(* The components that owe something in the end, next to each other, for   *)
(* TLC: a visitor who reads, the transactions on notifications, and the    *)
(* election of a tab.  As in the other modules of this kind, a behaviour   *)
(* is of the component that scene names, and only the fairness of that     *)
(* component says anything about it.  The module extends Notifications and *)
(* instantiates the others.                                                *)
(*                                                                         *)
(* Slots are the tabs, the first of them (Txns) also the transactions and  *)
(* the catch-up calls that are in progress at once.                        *)
(***************************************************************************)
EXTENDS Notifications, Sequences

CONSTANTS
    Slots,
    PageSize, MaxPages, MaxMessages,                 \* VisitorTransport
    MaxPosts, MaxDrops, MaxOfflines, MaxFailures,
    OneCall,
    NoTab, MaxLate                                   \* TabElection

VARIABLES
    scene,
    log, delivered, wire, online, channel, retry, messages, rendered, call, post,
    marks, local, inFlight, received, drops, offlines, failures, posts,
    lease, tab, leader, event, late

\* The reader three times, for each thing that goes on at once multiplies the
\* others: with catch-up calls that overlap and a page for everything; with pages
\* of one message, and one message more, so that a broadcast between two pages
\* of a call can pass over one; and with a channel that breaks.
Overlap == INSTANCE VisitorTransport WITH
    Calls <- Txns, PageSize <- MaxMessages, MaxPages <- 1, MaxDrops <- 0
Paged == INSTANCE VisitorTransport WITH
    Calls <- OneCall, MaxMessages <- MaxMessages + 1, MaxDrops <- 0
Broken == INSTANCE VisitorTransport WITH Calls <- OneCall

Election == INSTANCE TabElection WITH Tabs <- Slots

ASSUME TxnsAreSlots == Txns \subseteq Slots /\ OneCall \subseteq Txns
ASSUME ServerConstants == KeysAssumption
ASSUME ReaderConstants == Overlap!BoundsAssumption /\ Broken!BoundsAssumption
ASSUME ElectionConstants == Election!TabsAssumption

readerVars == <<log, delivered, wire, online, channel, retry, messages, rendered, call, post,
                marks, local, inFlight, received, drops, offlines, failures, posts>>
electionVars == <<lease, tab, leader, event, late>>

allVars == <<scene, vars, readerVars, electionVars>>

AllInit ==
    /\ scene \in {"overlap", "paged", "broken", "server", "election"}
    /\ IF scene \in {"paged", "broken"} THEN Paged!Init ELSE Overlap!Init
    /\ Init /\ Election!Init

ReaderNext ==
    \/ scene = "overlap" /\ Overlap!Next
    \/ scene = "paged" /\ Paged!Next
    \/ scene = "broken" /\ Broken!Next

AllNext ==
    \/ ReaderNext /\ UNCHANGED <<scene, vars, electionVars>>
    \/ scene = "server" /\ Next /\ UNCHANGED <<scene, readerVars, electionVars>>
    \/ scene = "election" /\ Election!Next /\ UNCHANGED <<scene, readerVars, vars>>

AllSpec == AllInit /\ [][AllNext]_allVars
-----------------------------------------------------------------------------
(* The fairness of the components, where it is explained.  A scene has one *)
(* component, so what is owed in different scenes is stated together: a    *)
(* disjunct of another scene is never enabled.  Nobody posts here and the  *)
(* network does not go, so the reader needs nothing of those; the bounds   *)
(* in which Paged and Broken differ, and most of those in which Overlap    *)
(* does, are none of the reader's own steps.                               *)

InReader(A) ==
    /\ scene \in {"overlap", "paged", "broken"} /\ A
    /\ UNCHANGED <<scene, vars, electionVars>>
InServer(A)   == scene = "server" /\ A /\ UNCHANGED <<scene, readerVars, electionVars>>
InElection(A) == scene = "election" /\ A /\ UNCHANGED <<scene, readerVars, vars>>

Subscribed     == IF scene = "overlap" THEN Overlap!Subscribed ELSE Paged!Subscribed
CatchUpStep(c) == IF scene = "overlap" THEN Overlap!CatchUpStep(c) ELSE Paged!CatchUpStep(c)

\* Steps of the reader that happen a bounded number of times, each of which stays
\* enabled until it is taken or the channel breaks: it is the same whether they
\* are owed one by one or together.
ReaderGoesOn ==
    \/ Paged!ServerJoins \/ Paged!ChannelError \/ Paged!RetryTimer
    \/ Paged!ReceiveBroadcast
    \/ Paged!Render
    \/ \E mark \in marks : Paged!MarkServed(mark) \/ Paged!MarkAnswered(mark)

\* What has to be enabled only again and again.
GetsItsTurn(s) ==
    \/ s \in OneCall /\ InReader(Subscribed)
    \/ s \in Txns /\ InServer(Step(s))
    \/ InElection(Election!OnStorage(s))

GoesOn(s) ==
    \/ s \in DOMAIN call /\ InReader(CatchUpStep(s))
    \/ s \in Txns /\ InServer(BreakDeadlock(s))
    \/ InElection(Election!Step(s))

AllFairSpec ==
    /\ AllSpec
    /\ \A s \in Slots : SF_allVars(GetsItsTurn(s)) /\ WF_allVars(GoesOn(s))
    /\ WF_allVars(\/ InReader(ReaderGoesOn)
                  \/ InElection(Election!LeaseExpires /\ lease.tab \notin Election!Open))
-----------------------------------------------------------------------------
(* Properties: those of Notifications, and of the others, where they are   *)
(* explained.                                                              *)

\* VisitorTransport: a visitor who only reads gets every message that no further
\* page of a catch-up passes over, and says so.  (Of the instances, the one with
\* the most messages says it of all of them.)
ReaderCatchesUp == Paged!ReaderCatchesUp

\* TabElection: who leads, and who does in the end.
LeaderHasLease == scene = "election" => Election!LeaderHasLease
SettlesOnOneLeader == Election!SettlesOnOneLeader
=============================================================================
