-------------------------- MODULE OperatorChannel ---------------------------
(***************************************************************************)
(* The realtime channel of a dashboard hook: row changes the database has  *)
(* committed reach the hook in commit order while the channel is joined,   *)
(* and are lost while it is not.  The hook learns that it is subscribed    *)
(* some time after the server has joined it; what it does then, and on     *)
(* each event, is up to the module that extends this one.                  *)
(***************************************************************************)
EXTENDS Naturals, Sequences

CONSTANT
    MaxBreaks   \* bound: how often the channel fails, or is made anew

VARIABLES
    link,       \* "down", "joined" (by the server) or "up" (the hook knows)
    feed,       \* the row changes under way to the hook
    breaks      \* how often the channel has failed

channelVars == <<link, feed, breaks>>
-----------------------------------------------------------------------------
ChannelInit ==
    /\ link = "down"
    /\ feed = <<>>
    /\ breaks = 0

\* A transaction has committed these row changes.
Publish(changes) ==
    /\ feed' = IF link = "down" THEN feed ELSE feed \o changes
    /\ UNCHANGED <<link, breaks>>

ServerJoins ==
    /\ link = "down"
    /\ link' = "joined"
    /\ UNCHANGED <<feed, breaks>>

\* The channel reports SUBSCRIBED, and the hook is told "connected".
Subscribed ==
    /\ link = "joined"
    /\ link' = "up"
    /\ UNCHANGED <<feed, breaks>>

\* An error, a time-out, a close, or a new session token: the channel is
\* removed, and a new one is subscribed.
ChannelBreaks ==
    /\ link # "down"
    /\ breaks < MaxBreaks
    /\ link' = "down"
    /\ feed' = <<>>
    /\ breaks' = breaks + 1

\* The next event is handed to the hook.
Receive ==
    /\ link = "up"
    /\ feed # <<>>
    /\ feed' = Tail(feed)
    /\ UNCHANGED <<link, breaks>>

Settled == link = "up" /\ feed = <<>>
=============================================================================
