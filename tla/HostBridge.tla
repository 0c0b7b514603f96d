----------------------------- MODULE HostBridge -----------------------------
(***************************************************************************)
(* SiteChat.identify: how a call of the host page gets to the contact of   *)
(* its visitor.  The loader keeps a queue until the iframe says it is      *)
(* ready; the iframe keeps one payload until its session is ready and      *)
(* sends one request at a time; the database patches the named fields of   *)
(* the session's contact and leaves the others alone.                      *)
(*                                                                         *)
(* One page view: the iframe boots once, nothing posts                     *)
(* "sitechat:refresh-embed".  The messages that carry page addresses share *)
(* the wire and touch none of the state here.  A payload is the set of the *)
(* fields it names, and the value of a field is the number of the call     *)
(* that gave it.                                                           *)
(***************************************************************************)
EXTENDS Naturals, Sequences, FiniteSets

CONSTANTS
    Fields,      \* the fields a payload may name: name, email, phone
    MaxCalls,    \* bound: calls of the host page
    MayFail      \* whether requests of the iframe may fail

BridgeAssumption ==
    /\ Fields # {}
    /\ MaxCalls \in Nat \ {0}
    /\ MayFail \in BOOLEAN

VARIABLES
    said,       \* the fields of every identify call, in the order of the calls
    queue,      \* the loader's identifyQueue
    frame,      \* the loader's iframeReady
    wire,       \* posted to the iframe and not received yet; Boot is sitechat:init
    boot,       \* the iframe's session: "none", "asking", "ready" or "error"
    pending,    \* pendingIdentifyRef: the number of a call, or 0
    busy,       \* identifyInFlightRef
    requests,   \* identify requests the iframe waits for
    strays,     \* calls whose request failed at the iframe and may still be served
    contact     \* for every field of the contact, the call that gave its value

vars == <<said, queue, frame, wire, boot, pending, busy, requests, strays, contact>>

Call == 1..MaxCalls
Boot == 0

\* A request on its way: who sends the next payload when it has been answered
\* depends on who sent this one, the message listener or the effect that runs
\* when the session gets ready.
Request == [call : Call, by : {"listener", "effect"}, served : BOOLEAN]

\* Every variable has the type of the field it stands for.
TypeOK ==
    /\ said \in Seq((SUBSET Fields) \ {{}}) /\ Len(said) <= MaxCalls
    /\ queue \in Seq(Call)
    /\ frame \in BOOLEAN
    /\ wire \in Seq(Call \union {Boot})
    /\ boot \in {"none", "asking", "ready", "error"}
    /\ pending \in 0..MaxCalls
    /\ busy \in BOOLEAN
    /\ requests \subseteq Request /\ strays \subseteq Call
    /\ contact \in [Fields -> 0..MaxCalls]

Init ==
    /\ said = <<>> /\ queue = <<>> /\ wire = <<>>
    /\ frame = FALSE /\ boot = "none"
    /\ pending = 0 /\ busy = FALSE /\ requests = {} /\ strays = {}
    /\ contact = [f \in Fields |-> 0]

-----------------------------------------------------------------------------
(* The loader, in the host page *)

Identify(fields) ==
    /\ Len(said) < MaxCalls
    /\ said' = Append(said, fields)
    /\ IF frame THEN wire' = Append(wire, Len(said) + 1) /\ UNCHANGED queue
                ELSE queue' = Append(queue, Len(said) + 1) /\ UNCHANGED wire
    /\ UNCHANGED <<frame, boot, pending, busy, requests, strays, contact>>

\* sitechat:ready arrives from the iframe: it is initialised, then the queue is
\* posted to it.
FrameReady ==
    /\ ~frame
    /\ frame' = TRUE
    /\ wire' = wire \o <<Boot>> \o queue
    /\ queue' = <<>>
    /\ UNCHANGED <<said, boot, pending, busy, requests, strays, contact>>

-----------------------------------------------------------------------------
(* The iframe *)

\* Fault: a payload is sent although the one before it is in flight.
MaySendAnyway(waiting, inFlight) == waiting # 0 /\ boot = "ready"

\* flushIdentify sends only with a payload, a session, and nothing in flight.
MaySend(waiting, inFlight) == waiting # 0 /\ boot = "ready" /\ ~inFlight

\* flushIdentify, called with `waiting` in the slot: sends it or keeps it.
Flush(waiting, inFlight, others) ==
    IF MaySend(waiting, inFlight)
    THEN /\ requests' = others \union {[call |-> waiting, by |-> "listener", served |-> FALSE]}
         /\ busy' = TRUE
         /\ pending' = 0
    ELSE /\ requests' = others
         /\ busy' = inFlight
         /\ pending' = waiting

ReceiveBoot ==
    /\ wire # <<>> /\ Head(wire) = Boot
    /\ wire' = Tail(wire)
    /\ boot' = "asking"
    /\ UNCHANGED <<said, queue, frame, pending, busy, requests, strays, contact>>

\* The slot holds one payload: a new one replaces what waits there.
ReceiveIdentify ==
    /\ wire # <<>> /\ Head(wire) # Boot
    /\ wire' = Tail(wire)
    /\ Flush(Head(wire), busy, requests)
    /\ UNCHANGED <<said, queue, frame, boot, strays, contact>>

\* createSession is answered and React commits the state: the effects store the
\* token for the listener and send what waits.  Until then the listener finds
\* no token, so the answer and the commit are one step for it.
SessionReady ==
    /\ boot = "asking"
    /\ boot' = "ready"
    /\ IF pending # 0 /\ ~busy
       THEN /\ requests' = requests \union {[call |-> pending, by |-> "effect", served |-> FALSE]}
            /\ busy' = TRUE
            /\ pending' = 0
       ELSE UNCHANGED <<requests, busy, pending>>
    /\ UNCHANGED <<said, queue, frame, wire, strays, contact>>

SessionFails ==
    /\ MayFail /\ boot = "asking"
    /\ boot' = "error"
    /\ UNCHANGED <<said, queue, frame, wire, pending, busy, requests, strays, contact>>

-----------------------------------------------------------------------------
(* widget_identify_visitor, one transaction under the locks of the session   *)
(* and the contact                                                           *)

Patched(call) == [f \in Fields |-> IF f \in said[call] THEN call ELSE contact[f]]

Serve(r) ==
    /\ r \in requests /\ ~r.served
    /\ requests' = (requests \ {r}) \union {[r EXCEPT !.served = TRUE]}
    /\ contact' = Patched(r.call)
    /\ UNCHANGED <<said, queue, frame, wire, boot, pending, busy, strays>>

\* The request settles: with the server's answer, or with an error, which is
\* swallowed.  What failed may still be on its way: nothing aborts it, and the
\* server does not know the order of the calls.  Only the listener's own
\* requests look at the slot again.
Settle(r) ==
    /\ r \in requests
    /\ r.served \/ MayFail
    /\ strays' = IF r.served THEN strays ELSE strays \union {r.call}
    /\ IF r.by = "listener"
       THEN Flush(pending, FALSE, requests \ {r})
       ELSE /\ requests' = requests \ {r}
            /\ busy' = FALSE
            /\ UNCHANGED pending
    /\ UNCHANGED <<said, queue, frame, wire, boot, contact>>

\* A request is served after the iframe has given it up, maybe after the next.
ServeStray(stray) ==
    /\ stray \in strays
    /\ strays' = strays \ {stray}
    /\ contact' = Patched(stray)
    /\ UNCHANGED <<said, queue, frame, wire, boot, pending, busy, requests>>

Next ==
    \/ \E fields \in (SUBSET Fields) \ {{}} : Identify(fields)
    \/ FrameReady
    \/ ReceiveBoot
    \/ ReceiveIdentify
    \/ SessionReady
    \/ SessionFails
    \/ \E r \in requests : Serve(r) \/ Settle(r)
    \/ \E stray \in strays : ServeStray(stray)

Spec == Init /\ [][Next]_vars

-----------------------------------------------------------------------------
(* Properties *)

\* A later call of the host page is undone by an earlier one only where the
\* iframe has given up the request of the earlier one and the server serves it
\* all the same.  No order of the calls in the queue, on the wire, in the slot
\* and in the requests does it.
IdentifyInOrder == [][\A f \in Fields : contact'[f] < contact[f] => contact'[f] \in strays]_vars

\* What the host page said of a field last.
LastSaid(f) ==
    LET naming == {i \in DOMAIN said : f \in said[i]}
    IN  IF naming = {} THEN 0 ELSE CHOOSE i \in naming : \A j \in naming : j <= i

Settled == frame /\ boot = "ready" /\ wire = <<>> /\ requests = {}

\* docs/VISITOR-IDENTITY.md says of the calls made before the widget has loaded
\* that they are flushed once the session is ready and none is dropped: when
\* everything has been delivered and answered, every field of the contact has
\* the value it was given last.
NoIdentifyIsDropped == Settled => \A f \in Fields : contact[f] = LastSaid(f)

=============================================================================
