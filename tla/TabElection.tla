---------------------------- MODULE TabElection -----------------------------
(***************************************************************************)
(* The election of the browser tab that plays sounds and shows desktop     *)
(* notifications: a lease in localStorage, {tabId, at}, that a tab takes   *)
(* when it is free or older than 5 seconds, reads back, and renews every   *)
(* 2 seconds.  The tabs run side by side: between two accesses of one to   *)
(* the storage, others may access it.  Within a tab nothing interrupts a   *)
(* run of claim, heartbeat or event handler.                               *)
(***************************************************************************)
EXTENDS Naturals, FiniteSets

CONSTANTS
    Tabs,       \* the tabs that may be opened, each once
    NoTab,      \* of a lease that nobody has
    MaxLate     \* bound: how often a live tab's heartbeat comes too late

TabsAssumption ==
    /\ IsFiniteSet(Tabs) /\ NoTab \notin Tabs
    /\ MaxLate \in Nat

VARIABLES
    lease,      \* the stored lease: its tab, and whether it is over 5 seconds old
    tab,        \* tab[t]: "new", "closed", or what t is about to do
    leader,     \* leader[t]: the variable leader of t
    event,      \* the tabs a storage event is queued for
    late        \* how many heartbeats have come too late

vars == <<lease, tab, leader, event, late>>
-----------------------------------------------------------------------------
Free == [tab |-> NoTab, stale |-> FALSE]

Open == {t \in Tabs : tab[t] \notin {"new", "remove", "closed"}}

Running == {t \in Tabs : tab[t] \in {"read", "write", "verify"}}

Init ==
    /\ lease = Free
    /\ tab = [t \in Tabs |-> "new"]
    /\ leader = [t \in Tabs |-> FALSE]
    /\ event = {}
    /\ late = 0

Goto(t, pc) == tab' = [tab EXCEPT ![t] = pc]

Lead(t, b) == leader' = [leader EXCEPT ![t] = b]

\* An access that changes the storage queues an event for the other tabs.
Stored(t, value) ==
    /\ lease' = value
    /\ event' = event \union (Open \ {t})

\* createNotificationTabElection starts with tryClaim.
OpenTab(t) ==
    /\ tab[t] = "new"
    /\ Goto(t, "read")
    /\ UNCHANGED <<lease, leader, event, late>>

\* setInterval
Heartbeat(t) ==
    /\ tab[t] = "idle"
    /\ Goto(t, "read")
    /\ UNCHANGED <<lease, leader, event, late>>

\* Fault: a stale lease is not taken over.
MayTakeFree(t) == lease.tab \in {t, NoTab}

MayTake(t) == lease.tab \in {t, NoTab} \/ lease.stale

Read(t) ==
    /\ tab[t] = "read"
    /\ IF MayTake(t)
       THEN Goto(t, "write") /\ UNCHANGED leader
       ELSE Goto(t, "idle") /\ Lead(t, FALSE)
    /\ UNCHANGED <<lease, event, late>>

Write(t) ==
    /\ tab[t] = "write"
    /\ Stored(t, [tab |-> t, stale |-> FALSE])
    /\ Goto(t, "verify")
    /\ UNCHANGED <<leader, late>>

Verify(t) ==
    /\ tab[t] = "verify"
    /\ Lead(t, lease.tab = t)
    /\ Goto(t, "idle")
    /\ UNCHANGED <<lease, event, late>>

\* Fault: the handler never takes the lead away.
OnStorageOnlyLeads(t) ==
    /\ tab[t] = "idle"
    /\ t \in event
    /\ event' = event \ {t}
    /\ Lead(t, leader[t] \/ lease.tab = t)
    /\ UNCHANGED <<lease, tab, late>>

OnStorage(t) ==
    /\ tab[t] = "idle"
    /\ t \in event
    /\ event' = event \ {t}
    /\ Lead(t, lease.tab = t)
    /\ UNCHANGED <<lease, tab, late>>

\* dispose reads the lease, and removes it if it was its own.
Dispose(t) ==
    /\ tab[t] = "idle"
    /\ Lead(t, FALSE)
    /\ Goto(t, IF lease.tab = t THEN "remove" ELSE "closed")
    /\ event' = event \ {t}
    /\ UNCHANGED <<lease, late>>

Remove(t) ==
    /\ tab[t] = "remove"
    /\ lease' = Free
    /\ event' = event \union (Open \ {t})
    /\ Goto(t, "closed")
    /\ UNCHANGED <<leader, late>>

\* The tab is killed; its lease stays.
Kill(t) ==
    /\ t \in Open \/ tab[t] = "remove"
    /\ Lead(t, FALSE)
    /\ Goto(t, "closed")
    /\ event' = event \ {t}
    /\ UNCHANGED <<lease, late>>

\* Five seconds pass without a heartbeat of the lease's tab: it is gone, or,
\* in the background, its timers are throttled.
LeaseExpires ==
    /\ lease.tab # NoTab /\ ~lease.stale
    /\ lease' = [lease EXCEPT !.stale = TRUE]
    /\ IF lease.tab \in Open THEN late < MaxLate /\ late' = late + 1 ELSE UNCHANGED late
    /\ UNCHANGED <<tab, leader, event>>

Step(t) == Heartbeat(t) \/ Read(t) \/ Write(t) \/ Verify(t) \/ Remove(t)

Next ==
    \/ \E t \in Tabs : OpenTab(t) \/ Step(t) \/ OnStorage(t) \/ Dispose(t) \/ Kill(t)
    \/ LeaseExpires

Spec == Init /\ [][Next]_vars

\* Timers fire, queued events are delivered, a lease nobody renews gets old.
\* An event handler runs only between runs of the heartbeat, but the event loop
\* serves it in turn (strong fairness).
Fairness ==
    /\ \A t \in Tabs : WF_vars(Step(t)) /\ SF_vars(OnStorage(t))
    /\ WF_vars(LeaseExpires /\ lease.tab \notin Open)

FairSpec == Spec /\ Fairness
-----------------------------------------------------------------------------
(* Properties. *)

\* Every variable has the type of the variables and the storage of the code.
TypeOK ==
    /\ lease \in [tab : Tabs \union {NoTab}, stale : BOOLEAN]
    /\ tab \in [Tabs -> {"new", "closed", "idle", "read", "write", "verify", "remove"}]
    /\ leader \in [Tabs -> BOOLEAN]
    /\ event \subseteq Open
    /\ late \in 0..MaxLate

\* A tab that leads has the lease, or an event that says otherwise is queued for
\* it: so two tabs both play sounds only until the event of one of them.
LeaderHasLease == \A t \in Tabs : leader[t] => lease.tab = t \/ t \in event

\* Once no more tabs open or close and heartbeats are in time, the open tabs
\* settle on one leader, also when the tab that had the lease was killed;
\* unless their runs, microseconds every two seconds, overlap for ever.
SettlesOnOneLeader ==
    <>[](Cardinality(Running) <= 1)
        => <>[](Open # {} => Cardinality({t \in Tabs : leader[t]}) = 1)
=============================================================================
