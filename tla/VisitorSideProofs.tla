-------------------------- MODULE VisitorSideProofs -------------------------
(***************************************************************************)
(* Proofs about the components of the visitor's side: HostBridge, and      *)
(* VisitorIdentity and VisitorTransport as MCVisitorSide instantiates      *)
(* them; those about Attachments are in AttachmentsProofs.  Each component *)
(* has its inductive invariant; at the end they are put next to each       *)
(* other.                                                                  *)
(***************************************************************************)
EXTENDS MCVisitorSide, WellFoundedInduction, TLAPS

(***************************************************************************)
(* HostBridge, for any fields and any number of calls.                     *)
(*                                                                         *)
(* A call passes the queue, the wire, the slot and a request before it     *)
(* reaches the contact.  None of these overtakes the next: what is farther *)
(* on its way is never newer.  A call the iframe has given up is not newer *)
(* either, but nothing says that it is not older than the contact.         *)
(***************************************************************************)

\* Everything that has left the wire is older than call i.
Newer(i) ==
    /\ pending <= i
    /\ \A r \in requests : r.call <= i
    /\ \A s \in strays : s <= i
    /\ \A f \in Fields : contact[f] <= i

\* One request at a time, and none that is newer than what waits in the slot.
SlotInv ==
    /\ requests # {} => busy
    /\ \A r, s \in requests : r = s
    /\ \A r \in requests : \A f \in Fields : contact[f] <= r.call
    /\ \A r \in requests : \A s \in strays : s <= r.call
    /\ pending # 0 => Newer(pending)

\* What the loader has posted and what it keeps are in the order of the calls.
WireInv ==
    /\ \A i \in DOMAIN wire : wire[i] # Boot => wire[i] <= Len(said) /\ Newer(wire[i])
    /\ \A i, j \in DOMAIN wire : i < j /\ wire[i] # Boot /\ wire[j] # Boot => wire[i] <= wire[j]

QueueInv ==
    /\ \A i \in DOMAIN queue : queue[i] <= Len(said)
    /\ \A i, j \in DOMAIN queue : i < j => queue[i] <= queue[j]

\* Before the iframe is ready nothing has been posted to it.
FrameInv ==
    /\ ~frame => /\ wire = <<>> /\ pending = 0 /\ contact = [f \in Fields |-> 0]
                 /\ requests = {} /\ strays = {}
    /\ pending <= Len(said)
    /\ \A r \in requests : r.call <= Len(said)
    /\ \A s \in strays : s <= Len(said)
    /\ \A f \in Fields : contact[f] <= Len(said)

IInv == TypeOK /\ SlotInv /\ WireInv /\ QueueInv /\ FrameInv
-----------------------------------------------------------------------------
\* What the sequences and the numbers of the state are.
LEMMA Typed ==
    ASSUME BridgeAssumption, IInv
    PROVE  /\ MaxCalls \in Nat /\ Len(said) \in Nat
           /\ Len(queue) \in Nat /\ DOMAIN queue = 1..Len(queue)
           /\ \A i \in DOMAIN queue : queue[i] \in Call /\ queue[i] \in Nat
           /\ Len(wire) \in Nat /\ DOMAIN wire = 1..Len(wire)
           /\ \A i \in DOMAIN wire : wire[i] \in Nat /\ (wire[i] # Boot => wire[i] \in Call)
           /\ pending \in Nat
           /\ \A r \in requests : r.call \in Call /\ r.call \in Nat
           /\ \A s \in strays : s \in Call /\ s \in Nat
           /\ \A f \in Fields : contact[f] \in Nat
<1>1. /\ said \in Seq((SUBSET Fields) \ {{}}) /\ queue \in Seq(Call)
      /\ wire \in Seq(Call \union {Boot})
  BY DEF IInv, TypeOK
<1>2. /\ Len(said) \in Nat
      /\ Len(queue) \in Nat /\ DOMAIN queue = 1..Len(queue) /\ \A i \in DOMAIN queue : queue[i] \in Call
      /\ Len(wire) \in Nat /\ DOMAIN wire = 1..Len(wire)
      /\ \A i \in DOMAIN wire : wire[i] \in Call \union {Boot}
  BY <1>1
<1>3. MaxCalls \in Nat /\ pending \in Nat /\ \A f \in Fields : contact[f] \in Nat
  BY DEF IInv, TypeOK, BridgeAssumption
<1>4. (\A r \in requests : r.call \in Call) /\ \A s \in strays : s \in Call
  BY DEF IInv, TypeOK, Request
<1>5. \A n \in Call : n \in Nat
  BY <1>3 DEF Call
<1> QED  BY <1>2, <1>3, <1>4, <1>5 DEF Boot

LEMMA InitInv == BridgeAssumption /\ Init => IInv
<1> SUFFICES ASSUME BridgeAssumption, Init PROVE IInv
  OBVIOUS
<1>1. TypeOK
  <2>1. said \in Seq((SUBSET Fields) \ {{}}) /\ Len(said) = 0
    BY DEF Init
  <2>2. queue \in Seq(Call) /\ wire \in Seq(Call \union {Boot})
    BY DEF Init
  <2>3. MaxCalls \in Nat /\ contact \in [Fields -> 0..MaxCalls]
    BY DEF Init, BridgeAssumption
  <2>4. /\ frame \in BOOLEAN /\ boot \in {"none", "asking", "ready", "error"}
        /\ pending = 0 /\ busy \in BOOLEAN /\ requests \subseteq Request /\ strays \subseteq Call
    BY DEF Init
  <2>5. pending \in 0..MaxCalls /\ Len(said) <= MaxCalls
    BY <2>1, <2>3, <2>4
  <2> QED  BY <2>1, <2>2, <2>3, <2>4, <2>5 DEF TypeOK
<1>2. SlotInv /\ WireInv /\ QueueInv /\ FrameInv
  BY DEF Init, SlotInv, WireInv, QueueInv, FrameInv, Newer
<1> QED  BY <1>1, <1>2 DEF IInv

-----------------------------------------------------------------------------
(* The loader's steps.  What they add is newer than all there is.          *)

LEMMA IdentifyInv ==
    ASSUME IInv, BridgeAssumption, NEW fields \in (SUBSET Fields) \ {{}}, Identify(fields)
    PROVE  IInv'
<1> DEFINE n == Len(said) + 1
<1>1. /\ said' = Append(said, fields) /\ Len(said') = n /\ n \in Call
      /\ UNCHANGED <<frame, boot, pending, busy, requests, strays, contact>>
  BY DEF IInv, TypeOK, Identify, Call, BridgeAssumption
<1>2. Newer(n)
  BY DEF IInv, TypeOK, FrameInv, Newer, Call, Request
<1>3. TypeOK'
  <2>1. said' \in Seq((SUBSET Fields) \ {{}})
    BY <1>1 DEF IInv, TypeOK
  <2>2. queue \in Seq(Call) /\ wire \in Seq(Call \union {Boot})
    BY DEF IInv, TypeOK
  <2>3. CASE frame
    <3>1. queue' = queue /\ wire' = Append(wire, n)
      BY <2>3 DEF Identify
    <3>2. queue' \in Seq(Call) /\ wire' \in Seq(Call \union {Boot})
      BY <1>1, <2>2, <3>1
    <3> QED  BY <1>1, <2>1, <3>2 DEF IInv, TypeOK, Call
  <2>4. CASE ~frame
    <3>1. queue' = Append(queue, n) /\ wire' = wire
      BY <2>4 DEF Identify
    <3>2. queue' \in Seq(Call) /\ wire' \in Seq(Call \union {Boot})
      BY <1>1, <2>2, <3>1
    <3> QED  BY <1>1, <2>1, <3>2 DEF IInv, TypeOK, Call
  <2> QED  BY <2>3, <2>4
<1>4. SlotInv'
  BY <1>1 DEF IInv, SlotInv, Newer
<1>5. FrameInv'
  BY <1>1 DEF IInv, TypeOK, FrameInv, Identify, Call, Request
<1>6. CASE frame
  <2>1. wire' = Append(wire, n) /\ queue' = queue /\ wire \in Seq(Call \union {Boot})
    BY <1>6 DEF Identify, IInv, TypeOK
  <2>2. /\ DOMAIN wire' = 1..Len(wire) + 1
        /\ \A i \in 1..Len(wire) : wire'[i] = wire[i]
        /\ wire'[Len(wire) + 1] = n
        /\ DOMAIN wire = 1..Len(wire) /\ Len(wire) \in Nat
    BY <2>1
  <2>3. \A i \in DOMAIN wire : wire[i] # Boot => wire[i] <= n /\ wire[i] <= Len(said') /\ Newer(wire[i])
    BY <1>1, Typed DEF IInv, WireInv
  <2>4. \A i \in DOMAIN wire' : wire'[i] # Boot => wire'[i] <= Len(said') /\ Newer(wire'[i])
    <3> TAKE i \in DOMAIN wire'
    <3>1. CASE i \in DOMAIN wire
      BY <2>2, <2>3, <3>1
    <3>2. CASE i = Len(wire) + 1
      BY <1>1, <1>2, <2>2, <3>2 DEF Call
    <3> QED  BY <2>2, <3>1, <3>2
  <2>5. \A i, j \in DOMAIN wire' :
           i < j /\ wire'[i] # Boot /\ wire'[j] # Boot => wire'[i] <= wire'[j]
    <3> SUFFICES ASSUME NEW i \in DOMAIN wire', NEW j \in DOMAIN wire',
                        i < j, wire'[i] # Boot, wire'[j] # Boot
                 PROVE  wire'[i] <= wire'[j]
      OBVIOUS
    <3>1. i \in DOMAIN wire /\ wire'[i] = wire[i]
      BY <2>2
    <3>2. CASE j \in DOMAIN wire
      BY <2>2, <3>1, <3>2 DEF IInv, WireInv
    <3>3. CASE j = Len(wire) + 1
      BY <2>2, <2>3, <3>1, <3>3
    <3> QED  BY <2>2, <3>2, <3>3
  <2>6. WireInv'
    BY <1>1, <2>4, <2>5 DEF WireInv, Newer
  <2>7. QueueInv'
    BY <1>1, <2>1, Typed DEF IInv, QueueInv
  <2> QED  BY <1>3, <1>4, <1>5, <2>6, <2>7 DEF IInv
<1>7. CASE ~frame
  <2>1. queue' = Append(queue, n) /\ wire' = wire /\ queue \in Seq(Call)
    BY <1>7 DEF Identify, IInv, TypeOK
  <2>2. /\ DOMAIN queue' = 1..Len(queue) + 1
        /\ \A i \in 1..Len(queue) : queue'[i] = queue[i]
        /\ queue'[Len(queue) + 1] = n
        /\ DOMAIN queue = 1..Len(queue) /\ Len(queue) \in Nat
    BY <2>1
  <2>3. QueueInv'
    <3>1. \A i \in DOMAIN queue' : queue'[i] <= Len(said')
      <4> TAKE i \in DOMAIN queue'
      <4>1. CASE i \in DOMAIN queue
        BY <1>1, <2>2, <4>1, Typed DEF IInv, QueueInv
      <4>2. CASE i = Len(queue) + 1
        BY <1>1, <2>2, <4>2, Typed
      <4> QED  BY <2>2, <4>1, <4>2
    <3>2. \A i, j \in DOMAIN queue' : i < j => queue'[i] <= queue'[j]
      <4> SUFFICES ASSUME NEW i \in DOMAIN queue', NEW j \in DOMAIN queue', i < j
                   PROVE  queue'[i] <= queue'[j]
        OBVIOUS
      <4>1. i \in DOMAIN queue /\ queue'[i] = queue[i] /\ queue[i] <= n
        BY <2>2, Typed DEF IInv, QueueInv
      <4>2. CASE j \in DOMAIN queue
        BY <2>2, <4>1, <4>2 DEF IInv, QueueInv
      <4>3. CASE j = Len(queue) + 1
        BY <2>2, <4>1, <4>3
      <4> QED  BY <2>2, <4>2, <4>3
    <3> QED  BY <3>1, <3>2 DEF QueueInv
  <2>4. WireInv'
    BY <1>1, <1>7, <2>1 DEF IInv, FrameInv, WireInv
  <2> QED  BY <1>3, <1>4, <1>5, <2>3, <2>4 DEF IInv
<1> QED  BY <1>6, <1>7

LEMMA FrameReadyInv == IInv /\ FrameReady => IInv'
<1> SUFFICES ASSUME IInv, FrameReady PROVE IInv'
  OBVIOUS
<1>1. /\ wire' = <<>> \o <<Boot>> \o queue
      /\ queue' = <<>> /\ frame' /\ queue \in Seq(Call)
      /\ requests = {} /\ strays = {} /\ pending = 0 /\ contact = [f \in Fields |-> 0]
      /\ UNCHANGED <<said, boot, pending, busy, requests, strays, contact>>
  BY DEF IInv, TypeOK, FrameInv, FrameReady
<1>2. wire' \in Seq(Call \union {Boot})
  <2>1. <<>> \o <<Boot>> \in Seq(Call \union {Boot}) /\ queue \in Seq(Call \union {Boot})
    BY <1>1
  <2> QED  BY <1>1, <2>1
<1>3. /\ DOMAIN wire' = 1..Len(queue) + 1 /\ Len(queue) \in Nat
      /\ wire'[1] = Boot
      /\ \A i \in 2..Len(queue) + 1 : i - 1 \in DOMAIN queue /\ wire'[i] = queue[i - 1]
  BY <1>1
<1>4. TypeOK'
  BY <1>1, <1>2 DEF IInv, TypeOK
<1>5. SlotInv' /\ QueueInv' /\ FrameInv'
  BY <1>1 DEF IInv, SlotInv, QueueInv, FrameInv, Newer
<1>6. \A q \in Call : Newer(q)'
  BY <1>1 DEF Newer, Call
<1>7. WireInv'
  <2>1. \A i \in DOMAIN wire' : wire'[i] # Boot => i \in 2..Len(queue) + 1
    BY <1>3
  <2>2. \A i \in DOMAIN wire' : wire'[i] # Boot => wire'[i] \in Call /\ wire'[i] <= Len(said')
    BY <1>1, <1>3, <2>1 DEF IInv, QueueInv
  <2>3. \A i, j \in DOMAIN wire' :
           i < j /\ wire'[i] # Boot /\ wire'[j] # Boot => wire'[i] <= wire'[j]
    BY <1>1, <1>3, <2>1 DEF IInv, QueueInv
  <2> QED  BY <1>6, <2>2, <2>3 DEF WireInv, Newer
<1> QED  BY <1>4, <1>5, <1>7 DEF IInv

-----------------------------------------------------------------------------
(* The iframe's steps.                                                     *)

\* What is left of the wire when its head has been received.
LEMMA RestOfWire ==
    ASSUME IInv, wire # <<>>, wire' = Tail(wire)
    PROVE  /\ Head(wire) \in Call \union {Boot} /\ wire' \in Seq(Call \union {Boot})
           /\ \A i \in DOMAIN wire' : i + 1 \in DOMAIN wire /\ wire'[i] = wire[i + 1]
           /\ \A i \in DOMAIN wire' : wire'[i] # Boot => wire'[i] <= Len(said) /\ Newer(wire'[i])
           /\ \A i, j \in DOMAIN wire' :
                 i < j /\ wire'[i] # Boot /\ wire'[j] # Boot => wire'[i] <= wire'[j]
           /\ Head(wire) # Boot =>
                 /\ Head(wire) <= Len(said) /\ Newer(Head(wire))
                 /\ \A i \in DOMAIN wire' : wire'[i] # Boot => Head(wire) <= wire'[i]
<1>1. wire \in Seq(Call \union {Boot})
  BY DEF IInv, TypeOK
<1>2. /\ Head(wire) = wire[1] /\ wire' \in Seq(Call \union {Boot})
      /\ 1 \in DOMAIN wire /\ wire[1] \in Call \union {Boot}
      /\ \A i \in DOMAIN wire' : i \in Nat /\ i > 0 /\ i + 1 \in DOMAIN wire /\ wire'[i] = wire[i + 1]
  BY <1>1
<1>3. \A i \in DOMAIN wire' : wire'[i] # Boot => wire'[i] <= Len(said) /\ Newer(wire'[i])
  BY <1>2 DEF IInv, WireInv
<1>4. \A i, j \in DOMAIN wire' :
           i < j /\ wire'[i] # Boot /\ wire'[j] # Boot => wire'[i] <= wire'[j]
  BY <1>2 DEF IInv, WireInv
<1>5. Head(wire) # Boot =>
                 /\ Head(wire) <= Len(said) /\ Newer(Head(wire))
                 /\ \A i \in DOMAIN wire' : wire'[i] # Boot => Head(wire) <= wire'[i]
  BY <1>2 DEF IInv, WireInv
<1> QED  BY <1>2, <1>3, <1>4, <1>5

LEMMA ReceiveBootInv == IInv /\ ReceiveBoot => IInv'
<1> SUFFICES ASSUME IInv, ReceiveBoot PROVE IInv'
  OBVIOUS
<1>1. /\ wire # <<>> /\ wire' = Tail(wire) /\ boot' = "asking"
      /\ UNCHANGED <<said, queue, frame, pending, busy, requests, strays, contact>>
  BY DEF ReceiveBoot
<1>2. TypeOK'
  BY <1>1, RestOfWire DEF IInv, TypeOK
<1>3. WireInv'
  BY <1>1, RestOfWire DEF WireInv, Newer
<1>4. SlotInv' /\ QueueInv' /\ FrameInv'
  BY <1>1 DEF IInv, SlotInv, QueueInv, FrameInv, Newer
<1> QED  BY <1>2, <1>3, <1>4 DEF IInv

\* What a call that is not older than anything before it does to the slot: it
\* waits there or is sent, with nothing newer before it and nothing older left
\* to come.
LEMMA FlushInv ==
    ASSUME BridgeAssumption, IInv,
           NEW waiting \in 0..MaxCalls, NEW sending \in BOOLEAN, NEW others \in SUBSET requests,
           waiting <= Len(said), waiting # 0 => Newer(waiting),
           others # {} => sending,
           wire' \in Seq(Call \union {Boot}),
           \A i \in DOMAIN wire' : wire'[i] # Boot =>
               wire'[i] <= Len(said) /\ Newer(wire'[i]) /\ waiting <= wire'[i],
           \A i, j \in DOMAIN wire' :
               i < j /\ wire'[i] # Boot /\ wire'[j] # Boot => wire'[i] <= wire'[j],
           wire # <<>> \/ requests # {},
           strays' \in SUBSET (strays \union {r.call : r \in requests \ others}),
           Flush(waiting, sending, others),
           UNCHANGED <<said, queue, frame, boot, contact>>
    PROVE  IInv'
<1> DEFINE new == [call |-> waiting, by |-> "listener", served |-> FALSE]
<1>0. /\ strays' \subseteq Call
      /\ \A s \in strays' : s <= Len(said) /\ \A q \in Call : Newer(q) => s <= q
      /\ \A r \in others, s \in strays' : s <= r.call
  BY Typed DEF IInv, FrameInv, SlotInv, Newer
<1>1. CASE MaySend(waiting, sending)
  <2>1. /\ others = {} /\ requests' = {new} /\ busy' = TRUE /\ pending' = 0
        /\ waiting \in Call /\ Newer(waiting) /\ new.call = waiting
    BY <1>1 DEF Flush, MaySend, Call, BridgeAssumption
  <2>2. TypeOK'
    <3>1. new \in Request
      BY <2>1 DEF Request
    <3>2. 0 \in 0..MaxCalls
      BY Typed
    <3> QED  BY <1>0, <2>1, <3>1, <3>2 DEF IInv, TypeOK
  <2>3. SlotInv'
    BY <1>0, <2>1 DEF SlotInv, Newer
  <2>4. \A q \in Call : Newer(q) /\ waiting <= q =>
           pending' <= q /\ (\A r \in requests' : r.call <= q) /\ \A s \in strays' : s <= q
    BY <1>0, <2>1 DEF Newer, Call
  <2>5. WireInv'
    BY <2>4 DEF WireInv, Newer
  <2>6. FrameInv' /\ QueueInv'
    BY <1>0, <2>1, Typed DEF IInv, FrameInv, QueueInv
  <2> QED  BY <2>2, <2>3, <2>5, <2>6 DEF IInv
<1>2. CASE ~MaySend(waiting, sending)
  <2>1. requests' = others /\ busy' = sending /\ pending' = waiting
    BY <1>2 DEF Flush
  <2>2. TypeOK'
    BY <1>0, <2>1 DEF IInv, TypeOK
  <2>3. SlotInv'
    <3>1. waiting # 0 => waiting \in Call
      BY DEF Call, BridgeAssumption
    <3> QED  BY <1>0, <2>1, <3>1 DEF IInv, SlotInv, Newer
  <2>4. WireInv'
    <3>1. \A q \in Call : Newer(q) => \A s \in strays' : s <= q
      BY <1>0
    <3> QED  BY <2>1, <3>1 DEF WireInv, Newer, Call, Boot
  <2>5. FrameInv' /\ QueueInv'
    BY <1>0, <2>1 DEF IInv, TypeOK, FrameInv, QueueInv
  <2> QED  BY <2>2, <2>3, <2>4, <2>5 DEF IInv
<1> QED  BY <1>1, <1>2

LEMMA ReceiveIdentifyInv == BridgeAssumption /\ IInv /\ ReceiveIdentify => IInv'
<1> SUFFICES ASSUME BridgeAssumption, IInv, ReceiveIdentify PROVE IInv'
  OBVIOUS
<1>1. /\ wire # <<>> /\ wire' = Tail(wire) /\ Head(wire) # Boot
      /\ Flush(Head(wire), busy, requests)
      /\ UNCHANGED <<said, queue, frame, boot, strays, contact>>
  BY DEF ReceiveIdentify
<1>2. Head(wire) \in 0..MaxCalls
  BY <1>1, RestOfWire DEF Call, Boot, BridgeAssumption
<1>3. busy \in BOOLEAN /\ (requests # {} => busy)
  BY DEF IInv, TypeOK, SlotInv
<1> QED  BY <1>1, <1>2, <1>3, RestOfWire, FlushInv

LEMMA SessionReadyInv == BridgeAssumption /\ IInv /\ SessionReady => IInv'
<1> SUFFICES ASSUME BridgeAssumption, IInv, SessionReady PROVE IInv'
  OBVIOUS
<1> DEFINE new == [call |-> pending, by |-> "effect", served |-> FALSE]
<1>1. boot' = "ready" /\ UNCHANGED <<said, queue, frame, wire, strays, contact>>
  BY DEF SessionReady
<1>2. CASE pending # 0 /\ ~busy
  <2>1. /\ requests = {} /\ requests' = {new} /\ busy' = TRUE /\ pending' = 0
        /\ pending \in Call /\ Newer(pending) /\ new.call = pending /\ new \in Request
    BY <1>2 DEF SessionReady, IInv, TypeOK, SlotInv, Call, Request
  <2>2. TypeOK'
    <3>1. 0 \in 0..MaxCalls
      BY Typed
    <3> QED  BY <1>1, <2>1, <3>1 DEF IInv, TypeOK
  <2>3. SlotInv'
    BY <1>1, <2>1 DEF SlotInv, Newer
  <2>4. \A q \in Call : Newer(q) => Newer(q)'
    BY <1>1, <2>1 DEF Newer, Call
  <2>5. WireInv'
    BY <1>1, <2>4 DEF IInv, TypeOK, WireInv, Newer
  <2>6. FrameInv' /\ QueueInv'
    BY <1>1, <1>2, <2>1, Typed DEF IInv, FrameInv, QueueInv
  <2> QED  BY <2>2, <2>3, <2>5, <2>6 DEF IInv
<1>3. CASE ~(pending # 0 /\ ~busy)
  <2>1. UNCHANGED <<requests, busy, pending>>
    BY <1>3 DEF SessionReady
  <2>2. TypeOK'
    BY <1>1, <2>1 DEF IInv, TypeOK
  <2>3. SlotInv' /\ WireInv' /\ QueueInv' /\ FrameInv'
    BY <1>1, <2>1 DEF IInv, SlotInv, WireInv, QueueInv, FrameInv, Newer
  <2> QED  BY <2>2, <2>3 DEF IInv
<1> QED  BY <1>2, <1>3

LEMMA SessionFailsInv == IInv /\ SessionFails => IInv'
<1> SUFFICES ASSUME IInv, SessionFails PROVE IInv'
  OBVIOUS
<1>1. TypeOK'
  BY DEF IInv, TypeOK, SessionFails
<1>2. SlotInv' /\ WireInv' /\ QueueInv' /\ FrameInv'
  BY DEF IInv, SlotInv, WireInv, QueueInv, FrameInv, Newer, SessionFails
<1> QED  BY <1>1, <1>2 DEF IInv

\* The server gives the fields of the only request its number, which nothing
\* on its way is older than.
LEMMA ServeInv ==
    ASSUME IInv, NEW r \in requests, Serve(r)
    PROVE  IInv' /\ \A f \in Fields : contact'[f] >= contact[f]
<1> DEFINE s == [r EXCEPT !.served = TRUE]
<1>1. /\ requests = {r} /\ requests' = {s} /\ r \in Request /\ s \in Request /\ s.call = r.call
      /\ r.call \in Call /\ busy
      /\ contact' = [f \in Fields |-> IF f \in said[r.call] THEN r.call ELSE contact[f]]
      /\ UNCHANGED <<said, queue, frame, wire, boot, pending, busy, strays>>
  BY DEF Serve, Patched, IInv, TypeOK, SlotInv, Request
<1>2. \A f \in Fields : /\ contact[f] \in 0..MaxCalls /\ contact'[f] \in 0..MaxCalls
                        /\ contact[f] <= contact'[f] /\ contact'[f] <= r.call
  BY <1>1 DEF IInv, TypeOK, SlotInv, Call
<1>3. TypeOK'
  BY <1>1, <1>2 DEF IInv, TypeOK
<1>4. \A i \in Call : Newer(i) => Newer(i)'
  BY <1>1, <1>2 DEF Newer, Call
<1>5. SlotInv'
  BY <1>1, <1>2, <1>4 DEF IInv, TypeOK, SlotInv, Call
<1>6. WireInv'
  <2>1. \A i \in DOMAIN wire : wire[i] # Boot => wire[i] \in Call
    BY DEF IInv, TypeOK
  <2> QED  BY <1>1, <1>4, <2>1 DEF IInv, WireInv, Newer
<1>7. QueueInv' /\ FrameInv'
  BY <1>1, <1>2 DEF IInv, TypeOK, QueueInv, FrameInv, Call
<1> QED  BY <1>2, <1>3, <1>5, <1>6, <1>7 DEF IInv

\* A call that was given up gives its fields its number, which may be older.
LEMMA ServeStrayInv ==
    ASSUME BridgeAssumption, IInv, NEW stray \in strays, ServeStray(stray)
    PROVE  IInv' /\ \A f \in Fields : contact'[f] = contact[f] \/ contact'[f] = stray
<1>1. /\ strays' = strays \ {stray} /\ stray \in Call /\ stray <= Len(said)
      /\ contact' = [f \in Fields |-> IF f \in said[stray] THEN stray ELSE contact[f]]
      /\ UNCHANGED <<said, queue, frame, wire, boot, pending, busy, requests>>
  BY DEF ServeStray, Patched, IInv, TypeOK, FrameInv
<1>2. \A f \in Fields : contact'[f] = contact[f] \/ contact'[f] = stray
  BY <1>1
<1>3. contact' \in [Fields -> 0..MaxCalls]
  BY <1>1 DEF IInv, TypeOK, Call
<1>4. TypeOK'
  BY <1>1, <1>3 DEF IInv, TypeOK
<1>5. \A i : Newer(i) => Newer(i)'
  BY <1>1, <1>2 DEF Newer
<1>6. SlotInv'
  BY <1>1, <1>2, <1>5 DEF IInv, SlotInv
<1>7. WireInv'
  BY <1>1, <1>5 DEF IInv, WireInv, Newer
<1>8. QueueInv' /\ FrameInv'
  BY <1>1, <1>2 DEF IInv, QueueInv, FrameInv
<1> QED  BY <1>2, <1>4, <1>6, <1>7, <1>8 DEF IInv

LEMMA SettleInv ==
    ASSUME BridgeAssumption, IInv, NEW r \in requests, Settle(r)
    PROVE  IInv'
<1>1. /\ requests \ {r} = {} /\ busy /\ r \in Request
      /\ strays' = IF r.served THEN strays ELSE strays \union {r.call}
      /\ UNCHANGED <<said, queue, frame, wire, boot, contact>>
  BY DEF Settle, IInv, TypeOK, SlotInv
<1>2. CASE r.by = "listener"
  <2>1. Flush(pending, FALSE, {})
    BY <1>1, <1>2 DEF Settle
  <2>2. /\ pending \in 0..MaxCalls /\ pending <= Len(said) /\ (pending # 0 => Newer(pending))
        /\ wire' \in Seq(Call \union {Boot})
        /\ \A i \in DOMAIN wire' : wire'[i] # Boot =>
               wire'[i] <= Len(said) /\ Newer(wire'[i]) /\ pending <= wire'[i]
        /\ \A i, j \in DOMAIN wire' :
               i < j /\ wire'[i] # Boot /\ wire'[j] # Boot => wire'[i] <= wire'[j]
    BY <1>1 DEF IInv, TypeOK, SlotInv, WireInv, FrameInv, Newer
  <2>3. /\ {} \in SUBSET requests /\ {} # {} => FALSE
        /\ strays' \in SUBSET (strays \union {q.call : q \in requests \ {}})
    BY <1>1
  <2> QED  BY <1>1, <2>1, <2>2, <2>3, FlushInv
<1>3. CASE r.by # "listener"
  <2>1. requests' = {} /\ busy' = FALSE /\ UNCHANGED pending
    BY <1>1, <1>3 DEF Settle
  <2>2. /\ strays' \subseteq Call /\ \A s \in strays' : s <= Len(said)
        /\ \A i : Newer(i) => \A s \in strays' : s <= i
    BY <1>1, Typed DEF IInv, TypeOK, FrameInv, Newer
  <2>3. TypeOK'
    BY <1>1, <2>1, <2>2 DEF IInv, TypeOK
  <2>4. SlotInv' /\ WireInv' /\ QueueInv' /\ FrameInv'
    BY <1>1, <2>1, <2>2 DEF IInv, SlotInv, WireInv, QueueInv, FrameInv, Newer
  <2> QED  BY <2>3, <2>4 DEF IInv
<1> QED  BY <1>2, <1>3

-----------------------------------------------------------------------------
\* The values of the contact that a step may turn back.
UndoneByStraysOnly == \A f \in Fields : contact'[f] < contact[f] => contact'[f] \in strays

LEMMA StepInv ==
    BridgeAssumption /\ IInv /\ [Next]_vars => IInv' /\ UndoneByStraysOnly
<1> SUFFICES ASSUME BridgeAssumption, IInv, [Next]_vars
             PROVE  IInv' /\ UndoneByStraysOnly
  OBVIOUS
<1>1. \A f \in Fields : contact[f] \in Nat
  BY Typed
<1>2. CASE UNCHANGED vars
  <2>1. IInv'
    BY <1>2 DEF IInv, TypeOK, SlotInv, WireInv, QueueInv, FrameInv, Newer, vars
  <2> QED  BY <1>1, <1>2, <2>1 DEF vars, UndoneByStraysOnly
<1>3. ASSUME NEW r \in requests, Serve(r)
      PROVE  IInv' /\ UndoneByStraysOnly
  <2>1. IInv' /\ \A f \in Fields : contact'[f] >= contact[f]
    BY <1>3, ServeInv
  <2>2. \A f \in Fields : contact'[f] \in Nat
    BY <2>1 DEF IInv, TypeOK, BridgeAssumption
  <2> QED  BY <1>1, <2>1, <2>2 DEF UndoneByStraysOnly
<1>4. ASSUME NEW stray \in strays, ServeStray(stray)
      PROVE  IInv' /\ UndoneByStraysOnly
  <2>1. IInv' /\ \A f \in Fields : contact'[f] = contact[f] \/ contact'[f] = stray
    BY <1>4, ServeStrayInv
  <2> QED  BY <1>1, <2>1 DEF UndoneByStraysOnly
<1>5. ASSUME Next, ~\E r \in requests : Serve(r), ~\E stray \in strays : ServeStray(stray)
      PROVE  IInv' /\ contact' = contact
  <2>1. CASE \E fields \in (SUBSET Fields) \ {{}} : Identify(fields)
    BY <2>1, IdentifyInv DEF Identify
  <2>2. CASE FrameReady
    BY <2>2, FrameReadyInv DEF FrameReady
  <2>3. CASE ReceiveBoot
    BY <2>3, ReceiveBootInv DEF ReceiveBoot
  <2>4. CASE ReceiveIdentify
    BY <2>4, ReceiveIdentifyInv DEF ReceiveIdentify
  <2>5. CASE SessionReady
    BY <2>5, SessionReadyInv DEF SessionReady
  <2>6. CASE SessionFails
    BY <2>6, SessionFailsInv DEF SessionFails
  <2>7. CASE \E r \in requests : Settle(r)
    BY <2>7, SettleInv DEF Settle
  <2> QED  BY <1>5, <2>1, <2>2, <2>3, <2>4, <2>5, <2>6, <2>7 DEF Next
<1>6. ASSUME contact' = contact PROVE UndoneByStraysOnly
  BY <1>1, <1>6 DEF UndoneByStraysOnly
<1> QED  BY <1>2, <1>3, <1>4, <1>5, <1>6

\* The inductive invariant the theorems below rest on.
THEOREM Invariance == ASSUME BridgeAssumption PROVE Spec => []IInv
BY InitInv, StepInv, PTL DEF Spec

\* Every state of the bridge has its types, for any fields and calls.
THEOREM TypeCorrect == ASSUME BridgeAssumption PROVE Spec => []TypeOK
<1>1. IInv => TypeOK
  BY DEF IInv
<1> QED  BY <1>1, Invariance, PTL

\* A later identify call of the host page is undone by an earlier one only where
\* the earlier one is served after the iframe has given up its request, wherever
\* the calls wait and whichever requests fail.
THEOREM CallsTakeEffectInOrder == ASSUME BridgeAssumption PROVE Spec => IdentifyInOrder
<1>1. IInv /\ [Next]_vars =>
        [\A f \in Fields : contact'[f] < contact[f] => contact'[f] \in strays]_vars
  BY StepInv DEF UndoneByStraysOnly
<1> QED  BY <1>1, Invariance, PTL DEF Spec, IdentifyInOrder
-----------------------------------------------------------------------------
(***************************************************************************)
(* VisitorIdentity, for any tabs and any number of sessions.               *)
(*                                                                         *)
(* The token of a contact is minted once, so a token that is anywhere in   *)
(* the browser is that one: nothing the server does later replaces it.     *)
(***************************************************************************)

\* No token, or the one token of a contact that has one.
Good(token) == token = Identity!NoToken \/ Identity!Opens(token, token.contact)

\* The rows of visitor_sessions while there are n contacts.
SessionRow(n) == [contact : 0..n, expired : BOOLEAN, talked : BOOLEAN]

Places == {"closed", "asking", "answered", "listing", "ready", "error"}

\* A contact has no token or its only one, and a session that is known to a page
\* or to the storage exists.
RowsInv ==
    /\ contacts \in Seq({0, 1})
    /\ sessions \in Seq(SessionRow(Len(contacts)))
    /\ Len(sessions) <= MaxSessions /\ Len(contacts) <= MaxSessions

BrowserInv ==
    /\ store \in [session : 0..Len(sessions), token : Identity!Token]
    /\ page \in [Slots -> [at : Places, session : 0..Len(sessions), token : Identity!Token]]
    /\ \A t \in Slots : page[t].at \in {"answered", "listing", "ready"} => page[t].session # 0

TokenInv == Good(store.token) /\ \A t \in Slots : Good(page[t].token)

IdentityInv == RowsInv /\ BrowserInv /\ TokenInv
-----------------------------------------------------------------------------
LEMMA IdentityInit == Identity!IdentityAssumption /\ Identity!Init => IdentityInv
<1> SUFFICES ASSUME Identity!IdentityAssumption, Identity!Init PROVE IdentityInv
  OBVIOUS
<1>1. MaxSessions \in Nat /\ MaxSessions >= 1 /\ Identity!NoToken \in Identity!Token
  BY DEF Identity!IdentityAssumption, Identity!NoToken, Identity!Token
<1>2. contacts \in Seq({0, 1}) /\ Len(contacts) = 0 /\ page = [t \in Slots |-> Identity!Closed]
  BY DEF Identity!Init
<1>3. CASE sessions = <<>> /\ store = [session |-> 0, token |-> Identity!NoToken]
  <2>1. sessions \in Seq(SessionRow(0)) /\ Len(sessions) = 0
    BY <1>3
  <2>2. RowsInv
    BY <1>1, <1>2, <2>1 DEF RowsInv
  <2>3. BrowserInv
    BY <1>1, <1>2, <1>3, <2>1 DEF BrowserInv, Identity!Closed, Places
  <2>4. TokenInv
    BY <1>2, <1>3 DEF TokenInv, Good, Identity!Closed
  <2> QED  BY <2>2, <2>3, <2>4 DEF IdentityInv
<1>4. CASE /\ sessions = <<[contact |-> 0, expired |-> FALSE, talked |-> TRUE]>>
           /\ store = [session |-> 1, token |-> Identity!NoToken]
  <2>1. sessions \in Seq(SessionRow(0)) /\ Len(sessions) = 1
    <3>1. [contact |-> 0, expired |-> FALSE, talked |-> TRUE]
             \in SessionRow(0)
      BY DEF SessionRow
    <3> QED  BY <1>4, <3>1
  <2>2. RowsInv
    BY <1>1, <1>2, <2>1 DEF RowsInv
  <2>3. BrowserInv
    BY <1>1, <1>2, <1>4, <2>1 DEF BrowserInv, Identity!Closed, Places
  <2>4. TokenInv
    BY <1>2, <1>4 DEF TokenInv, Good, Identity!Closed
  <2> QED  BY <2>2, <2>3, <2>4 DEF IdentityInv
<1> QED  BY <1>3, <1>4 DEF Identity!Init

\* More contacts allow more rows.
LEMMA RowsWiden ==
    ASSUME NEW m \in Nat, NEW n \in Nat, m <= n, NEW q \in Seq(SessionRow(m))
    PROVE  q \in Seq(SessionRow(n))
<1>1. SessionRow(m) \subseteq SessionRow(n)
  <2>1. 0..m \subseteq 0..n
    OBVIOUS
  <2> QED  BY <2>1 DEF SessionRow
<1> QED  BY <1>1

\* What a session is, once it has been chosen.
LEMMA SessionTyped ==
    ASSUME IdentityInv, NEW s \in DOMAIN sessions
    PROVE  /\ s \in 1..Len(sessions) /\ Len(sessions) \in Nat
           /\ sessions[s] \in SessionRow(Len(contacts))
           /\ sessions[s].contact \in 0..Len(contacts)
           /\ sessions[s] \in [contact : {sessions[s].contact}, expired : BOOLEAN, talked : BOOLEAN]
<1>1. sessions \in Seq(SessionRow(Len(contacts)))
  BY DEF IdentityInv, RowsInv
<1>2. s \in 1..Len(sessions) /\ Len(sessions) \in Nat /\ sessions[s] \in SessionRow(Len(contacts))
  BY <1>1
<1> QED  BY <1>2 DEF SessionRow

-----------------------------------------------------------------------------
(* The server's steps: contacts are appended, and a token appears where there *)
(* was none.                                                                  *)

\* A token that opens a contact opens it as long as no contact is lost and none
\* that has a token is minted again.
LEMMA TokensStayGood ==
    ASSUME contacts \in Seq({0, 1}), contacts' \in Seq({0, 1}),
           Len(contacts) <= Len(contacts'),
           \A c \in DOMAIN contacts : contacts[c] = 1 => contacts'[c] = 1,
           NEW token, Good(token)
    PROVE  token = Identity!NoToken \/ (Identity!Opens(token, token.contact))'
<1>1. DOMAIN contacts = 1..Len(contacts) /\ DOMAIN contacts' = 1..Len(contacts')
      /\ Len(contacts) \in Nat /\ Len(contacts') \in Nat
      /\ \A c \in DOMAIN contacts : contacts[c] \in {0, 1}
  OBVIOUS
<1>2. CASE Identity!Opens(token, token.contact)
  BY <1>1, <1>2 DEF Identity!Opens
<1> QED  BY <1>2 DEF Good

\* What minting does to rows of which none has a second token.
LEMMA MintOnce ==
    ASSUME NEW rows \in Seq({0, 1}), NEW c \in DOMAIN rows
    PROVE  LET minted == Identity!Mint(rows, c)
           IN  /\ minted.rows \in Seq({0, 1}) /\ Len(minted.rows) = Len(rows)
               /\ \A d \in DOMAIN rows : rows[d] = 1 => minted.rows[d] = 1
               /\ \/ minted.token = Identity!NoToken
                  \/ minted.token = [contact |-> c, mint |-> 1] /\ minted.rows[c] = 1
<1> DEFINE minted == Identity!Mint(rows, c)
<1>1. CASE rows[c] = 0
  <2>1. /\ minted.rows = [rows EXCEPT ![c] = 1]
        /\ minted.token = [contact |-> c, mint |-> 1]
    BY <1>1 DEF Identity!Mint
  <2>2. [rows EXCEPT ![c] = 1] \in Seq({0, 1}) /\ Len([rows EXCEPT ![c] = 1]) = Len(rows)
    OBVIOUS
  <2> QED  BY <2>1, <2>2
<1>2. CASE rows[c] # 0
  <2>1. minted.rows = rows /\ minted.token = Identity!NoToken
    BY <1>2 DEF Identity!Mint
  <2> QED  BY <2>1
<1> QED  BY <1>1, <1>2

\* An answer of the server: the rows it may leave, and the token it may tell.
LEMMA AnswerInv ==
    ASSUME Identity!IdentityAssumption, IdentityInv, NEW t \in Slots, NEW s \in 1..Len(sessions'),
           NEW token,
           contacts' \in Seq({0, 1}),
           Len(contacts) <= Len(contacts'), Len(contacts') <= MaxSessions,
           \A c \in DOMAIN contacts : contacts[c] = 1 => contacts'[c] = 1,
           sessions' \in Seq(SessionRow(Len(contacts'))),
           Len(sessions) <= Len(sessions'), Len(sessions') <= MaxSessions,
           \/ token = Identity!NoToken
           \/ \E c \in DOMAIN contacts' : token = [contact |-> c, mint |-> 1] /\ contacts'[c] = 1,
           Identity!Answered(t, s, token), UNCHANGED store
    PROVE  IdentityInv'
<1>1. contacts \in Seq({0, 1}) /\ Len(contacts) \in Nat /\ Len(contacts') \in Nat
      /\ Len(sessions) \in Nat /\ Len(sessions') \in Nat /\ MaxSessions \in Nat
      /\ DOMAIN contacts' = 1..Len(contacts')
  BY DEF IdentityInv, RowsInv, Identity!IdentityAssumption
<1>2. token \in Identity!Token /\ Good(token)'
  <2>1. CASE token = Identity!NoToken
    BY <1>1, <2>1 DEF Identity!NoToken, Identity!Token, Good
  <2>2. ASSUME NEW c \in DOMAIN contacts', token = [contact |-> c, mint |-> 1], contacts'[c] = 1
        PROVE  token \in Identity!Token /\ Good(token)'
    BY <1>1, <2>2 DEF Identity!Token, Good, Identity!Opens
  <2> QED  BY <2>1, <2>2
<1>3. \A old : Good(old) => Good(old)'
  BY <1>1, TokensStayGood DEF Good
<1>4. RowsInv'
  BY DEF RowsInv
<1>5. page' = [page EXCEPT ![t] = [at |-> "answered", session |-> s, token |-> token]]
  BY DEF Identity!Answered
<1>6. BrowserInv'
  <2>1. store' \in [session : 0..Len(sessions'), token : Identity!Token]
    BY <1>1 DEF IdentityInv, BrowserInv
  <2>2. [at |-> "answered", session |-> s, token |-> token]
            \in [at : Places, session : 0..Len(sessions'), token : Identity!Token]
    BY <1>1, <1>2 DEF Places
  <2>3. page \in [Slots -> [at : Places, session : 0..Len(sessions'), token : Identity!Token]]
    BY <1>1 DEF IdentityInv, BrowserInv
  <2> QED  BY <1>1, <1>5, <2>1, <2>2, <2>3 DEF IdentityInv, BrowserInv
<1>7. TokenInv'
  BY <1>2, <1>3, <1>5 DEF IdentityInv, BrowserInv, TokenInv
<1> QED  BY <1>4, <1>6, <1>7 DEF IdentityInv

\* The rows of the contacts once the contact has been found or made.
LEMMA RowsGrow ==
    ASSUME IdentityInv
    PROVE  LET rows == Append(contacts, 0)
           IN  /\ rows \in Seq({0, 1}) /\ Len(rows) = Len(contacts) + 1 /\ Len(rows) \in DOMAIN rows
               /\ \A c \in DOMAIN contacts : c \in DOMAIN rows /\ rows[c] = contacts[c]
<1>1. contacts \in Seq({0, 1})
  BY DEF IdentityInv, RowsInv
<1> QED  BY <1>1

LEMMA ResumeInv ==
    ASSUME Identity!IdentityAssumption, IdentityInv, NEW t \in Slots, Identity!Resume(t)
    PROVE  IdentityInv'
<1> DEFINE s == page[t].session
           found == sessions[s].contact # 0
           rows == IF found THEN contacts ELSE Append(contacts, 0)
           c == IF found THEN sessions[s].contact ELSE Len(rows)
           minted == Identity!Mint(rows, c)
<1>1. /\ Identity!Live(s) /\ Len(rows) <= MaxSessions
      /\ sessions' = [sessions EXCEPT ![s].contact = c]
      /\ contacts' = minted.rows
      /\ Identity!Answered(t, s, minted.token)
      /\ UNCHANGED store
  BY DEF Identity!Resume
<1>2. /\ contacts \in Seq({0, 1}) /\ Len(contacts) \in Nat
      /\ sessions \in Seq(SessionRow(Len(contacts))) /\ Len(sessions) \in Nat
            /\ Len(sessions) <= MaxSessions
  BY DEF IdentityInv, RowsInv
<1>3. s \in 1..Len(sessions) /\ sessions[s] \in SessionRow(Len(contacts))
  <2>1. s \in 0..Len(sessions) /\ s # 0
    BY <1>1 DEF IdentityInv, BrowserInv, Identity!Live
  <2> QED  BY <1>2, <2>1, SessionTyped
<1>4. /\ rows \in Seq({0, 1}) /\ Len(rows) \in Nat /\ Len(contacts) <= Len(rows)
      /\ c \in DOMAIN rows /\ c \in 0..Len(rows)
      /\ \A d \in DOMAIN contacts : d \in DOMAIN rows /\ rows[d] = contacts[d]
  <2>1. CASE found
    <3>1. rows = contacts /\ c = sessions[s].contact /\ c # 0 /\ c \in 0..Len(contacts)
      BY <1>3, <2>1, SessionTyped
    <3> HIDE DEF c, rows
    <3> QED  BY <1>2, <3>1
  <2>2. CASE ~found
    BY <1>2, <2>2, RowsGrow
  <2> QED  BY <2>1, <2>2
<1>5. /\ minted.rows \in Seq({0, 1}) /\ Len(minted.rows) = Len(rows)
      /\ \A d \in DOMAIN rows : rows[d] = 1 => minted.rows[d] = 1
      /\ \/ minted.token = Identity!NoToken
         \/ minted.token = [contact |-> c, mint |-> 1] /\ minted.rows[c] = 1
  BY <1>4, MintOnce
<1>6. sessions' \in Seq(SessionRow(Len(contacts'))) /\ Len(sessions') = Len(sessions)
  <2>1. [sessions[s] EXCEPT !.contact = c] \in SessionRow(Len(rows))
    BY <1>3, <1>4 DEF SessionRow
  <2>2. sessions \in Seq(SessionRow(Len(rows)))
    BY <1>2, <1>4, RowsWiden
  <2>3. sessions' = [sessions EXCEPT ![s] = [sessions[s] EXCEPT !.contact = c]]
    BY <1>1
  <2> HIDE DEF c, rows
  <2>4. sessions' \in Seq(SessionRow(Len(rows))) /\ Len(sessions') = Len(sessions)
    BY <1>3, <2>1, <2>2, <2>3
  <2> QED  BY <1>1, <1>5, <2>4
<1> HIDE DEF c, rows, minted, s
<1>7. /\ DOMAIN contacts' = DOMAIN rows /\ contacts' \in Seq({0, 1})
      /\ Len(contacts) <= Len(contacts') /\ Len(contacts') <= MaxSessions
      /\ \A d \in DOMAIN contacts : contacts[d] = 1 => contacts'[d] = 1
  BY <1>1, <1>4, <1>5
<1>8. \/ minted.token = Identity!NoToken
      \/ \E d \in DOMAIN contacts' : minted.token = [contact |-> d, mint |-> 1] /\ contacts'[d] = 1
  BY <1>1, <1>4, <1>5, <1>7
<1>9. s \in 1..Len(sessions') /\ Len(sessions) <= Len(sessions') /\ Len(sessions') <= MaxSessions
  BY <1>2, <1>3, <1>6
<1> QED  BY <1>1, <1>6, <1>7, <1>8, <1>9, AnswerInv

LEMMA CreateInv ==
    ASSUME Identity!IdentityAssumption, IdentityInv, NEW t \in Slots, Identity!Create(t)
    PROVE  IdentityInv'
<1> DEFINE known == {c \in DOMAIN contacts : Identity!Opens(page[t].token, c)}
           rows == IF known # {} THEN contacts ELSE Append(contacts, 0)
           c == IF known # {} THEN CHOOSE k \in known : TRUE ELSE Len(rows)
           minted == IF known # {} THEN [rows |-> rows, token |-> Identity!NoToken]
                     ELSE Identity!Mint(rows, c)
           new == [contact |-> c, expired |-> FALSE, talked |-> FALSE]
<1>1. /\ Len(sessions) < MaxSessions /\ Len(rows) <= MaxSessions
      /\ sessions' = Append(sessions, new)
      /\ contacts' = minted.rows
      /\ Identity!Answered(t, Len(sessions) + 1, minted.token)
      /\ UNCHANGED store
  BY DEF Identity!Create
<1>2. /\ contacts \in Seq({0, 1}) /\ Len(contacts) \in Nat /\ MaxSessions \in Nat
      /\ sessions \in Seq(SessionRow(Len(contacts))) /\ Len(sessions) \in Nat
  BY DEF IdentityInv, RowsInv, Identity!IdentityAssumption
<1>3. /\ rows \in Seq({0, 1}) /\ Len(rows) \in Nat /\ Len(contacts) <= Len(rows)
      /\ c \in DOMAIN rows /\ c \in 0..Len(rows)
      /\ \A d \in DOMAIN contacts : d \in DOMAIN rows /\ rows[d] = contacts[d]
  <2>1. CASE known # {}
    <3>1. c \in known /\ rows = contacts
      BY <2>1
    <3> QED  BY <1>2, <3>1
  <2>2. CASE known = {}
    BY <1>2, <2>2, RowsGrow
  <2> QED  BY <2>1, <2>2
<1>4. /\ minted.rows \in Seq({0, 1}) /\ Len(minted.rows) = Len(rows)
      /\ \A d \in DOMAIN rows : rows[d] = 1 => minted.rows[d] = 1
      /\ \/ minted.token = Identity!NoToken
         \/ minted.token = [contact |-> c, mint |-> 1] /\ minted.rows[c] = 1
  <2>1. CASE known # {}
    <3>1. minted = [rows |-> rows, token |-> Identity!NoToken]
      BY <2>1
    <3> HIDE DEF minted, rows, c
    <3> QED  BY <1>3, <3>1
  <2>2. CASE known = {}
    <3>1. minted = Identity!Mint(rows, c)
      BY <2>2
    <3> HIDE DEF minted, rows, c
    <3> QED  BY <1>3, <3>1, MintOnce
  <2> QED  BY <2>1, <2>2
<1>5. /\ DOMAIN contacts' = DOMAIN rows /\ contacts' \in Seq({0, 1})
      /\ Len(contacts) <= Len(contacts') /\ Len(contacts') <= MaxSessions
      /\ \A d \in DOMAIN contacts : contacts[d] = 1 => contacts'[d] = 1
      /\ \/ minted.token = Identity!NoToken
         \/ \E d \in DOMAIN contacts' : minted.token = [contact |-> d, mint |-> 1]
               /\ contacts'[d] = 1
  <2> HIDE DEF c, rows, minted
  <2>1. /\ DOMAIN contacts' = DOMAIN rows /\ contacts' \in Seq({0, 1})
        /\ Len(contacts) <= Len(contacts') /\ Len(contacts') <= MaxSessions
        /\ \A d \in DOMAIN contacts : contacts[d] = 1 => contacts'[d] = 1
    BY <1>1, <1>3, <1>4
  <2> QED  BY <1>1, <1>3, <1>4, <2>1
<1>6. sessions' \in Seq(SessionRow(Len(contacts'))) /\ Len(sessions') = Len(sessions) + 1
  <2>1. sessions \in Seq(SessionRow(Len(rows)))
    BY <1>2, <1>3, RowsWiden
  <2>2. new \in SessionRow(Len(rows))
    BY <1>3 DEF SessionRow
  <2> HIDE DEF new, rows
  <2>3. sessions' \in Seq(SessionRow(Len(rows))) /\ Len(sessions') = Len(sessions) + 1
    BY <1>1, <1>2, <2>1, <2>2
  <2> QED  BY <1>1, <1>4, <2>3
<1> QED
  <2> HIDE DEF c, rows, minted, new
  <2>1. /\ Len(sessions) + 1 \in 1..Len(sessions')
        /\ Len(sessions) <= Len(sessions') /\ Len(sessions') <= MaxSessions
    BY <1>1, <1>2, <1>6
  <2> QED  BY <1>1, <1>5, <1>6, <2>1, AnswerInv

-----------------------------------------------------------------------------
(* The browser's steps: what is in the storage or in a page stays there or is *)
(* copied.                                                                    *)

\* A step that leaves the contacts alone and only copies tokens.
LEMMA CopyInv ==
    ASSUME IdentityInv, UNCHANGED contacts,
           sessions' \in Seq(SessionRow(Len(contacts))),
           Len(sessions') = Len(sessions),
           NEW kept, store' = kept,
           kept \in [session : 0..Len(sessions), token : Identity!Token], Good(kept.token),
           NEW t \in Slots, NEW opened, page' = [page EXCEPT ![t] = opened],
           opened \in [at : Places, session : 0..Len(sessions), token : Identity!Token],
           Good(opened.token),
           opened.at \in {"answered", "listing", "ready"} => opened.session # 0
    PROVE  IdentityInv'
<1>1. RowsInv'
  BY DEF IdentityInv, RowsInv
<1>2. BrowserInv'
  BY DEF IdentityInv, BrowserInv
<1>3. \A token : Good(token) => Good(token)'
  BY DEF Good, Identity!Opens
<1>4. TokenInv'
  BY <1>3 DEF IdentityInv, BrowserInv, TokenInv
<1> QED  BY <1>1, <1>2, <1>4 DEF IdentityInv

LEMMA PageInv ==
    ASSUME Identity!IdentityAssumption, IdentityInv, NEW t \in Slots,
           Identity!Open(t) \/ Identity!Accept(t) \/ Identity!Listed(t)
                 \/ Identity!InitializeFails(t) \/ Identity!Leave(t)
    PROVE  IdentityInv'
<1>1. /\ sessions' = sessions /\ contacts' = contacts
      /\ sessions \in Seq(SessionRow(Len(contacts)))
      /\ Len(sessions) \in Nat
  BY DEF IdentityInv, RowsInv, Identity!Open, Identity!Accept, Identity!Listed,
     Identity!InitializeFails, Identity!Leave
<1>2. /\ store \in [session : 0..Len(sessions), token : Identity!Token] /\ Good(store.token)
      /\ page[t] \in [at : Places, session : 0..Len(sessions), token : Identity!Token]
            /\ Good(page[t].token)
      /\ page[t].at \in {"answered", "listing", "ready"} => page[t].session # 0
  BY DEF IdentityInv, BrowserInv, TokenInv
<1>3. Identity!NoToken \in Identity!Token /\ Good(Identity!NoToken)
  BY DEF Identity!Token, Identity!NoToken, Good, Identity!IdentityAssumption
<1>4. CASE Identity!Open(t)
  <2> DEFINE opened == [at |-> "asking", session |-> store.session, token |-> store.token]
  <2>1. store' = store /\ page' = [page EXCEPT ![t] = opened]
    BY <1>4 DEF Identity!Open
  <2>2. opened \in [at : Places, session : 0..Len(sessions), token : Identity!Token]
        /\ opened.token = store.token /\ opened.at = "asking"
    BY <1>2 DEF Places
  <2> HIDE DEF opened
  <2> QED  BY <1>1, <1>2, <2>1, <2>2, CopyInv
<1>5. CASE Identity!Accept(t)
  <2> DEFINE kept == [session |-> page[t].session,
                      token |-> IF page[t].token = Identity!NoToken THEN store.token ELSE page[t].token]
             opened == [page[t] EXCEPT !.at =
                           IF sessions[page[t].session].talked THEN "listing" ELSE "ready"]
  <2>1. store' = kept /\ page' = [page EXCEPT ![t] = opened] /\ page[t].at = "answered"
    BY <1>5 DEF Identity!Accept
  <2>2. kept \in [session : 0..Len(sessions), token : Identity!Token] /\ Good(kept.token)
    BY <1>2
  <2>3. opened \in [at : Places, session : 0..Len(sessions), token : Identity!Token]
        /\ opened.token = page[t].token /\ opened.session = page[t].session
    BY <1>2 DEF Places
  <2> HIDE DEF kept, opened
  <2> QED  BY <1>1, <1>2, <2>1, <2>2, <2>3, CopyInv
<1>6. CASE Identity!Listed(t)
  <2> DEFINE opened == [page[t] EXCEPT !.at = "ready"]
  <2>1. store' = store /\ page' = [page EXCEPT ![t] = opened] /\ page[t].at = "listing"
    BY <1>6 DEF Identity!Listed
  <2>2. opened \in [at : Places, session : 0..Len(sessions), token : Identity!Token]
        /\ opened.token = page[t].token /\ opened.session = page[t].session
    BY <1>2 DEF Places
  <2> HIDE DEF opened
  <2> QED  BY <1>1, <1>2, <2>1, <2>2, CopyInv
<1>7. CASE Identity!InitializeFails(t)
  <2> DEFINE kept == [store EXCEPT !.session = 0]
             opened == [page[t] EXCEPT !.at = "error"]
  <2>1. store' = kept /\ page' = [page EXCEPT ![t] = opened]
    BY <1>7 DEF Identity!InitializeFails
  <2>2. kept \in [session : 0..Len(sessions), token : Identity!Token] /\ kept.token = store.token
    BY <1>1, <1>2
  <2>3. opened \in [at : Places, session : 0..Len(sessions), token : Identity!Token]
        /\ opened.token = page[t].token /\ opened.at = "error"
    BY <1>2 DEF Places
  <2> HIDE DEF kept, opened
  <2> QED  BY <1>1, <1>2, <2>1, <2>2, <2>3, CopyInv
<1>8. CASE Identity!Leave(t)
  <2>1. store' = store /\ page' = [page EXCEPT ![t] = Identity!Closed]
    BY <1>8 DEF Identity!Leave
  <2>2. Identity!Closed \in [at : Places, session : 0..Len(sessions), token : Identity!Token]
        /\ Identity!Closed.token = Identity!NoToken /\ Identity!Closed.at = "closed"
    BY <1>1, <1>3 DEF Identity!Closed, Places
  <2> QED  BY <1>1, <1>2, <1>3, <2>1, <2>2, CopyInv
<1> QED  BY <1>4, <1>5, <1>6, <1>7, <1>8

\* A session is talked to or expires; no token moves.
LEMMA SessionInv ==
    ASSUME IdentityInv, NEW s \in DOMAIN sessions, NEW row,
           row \in [contact : {sessions[s].contact}, expired : BOOLEAN, talked : BOOLEAN],
           sessions' = [sessions EXCEPT ![s] = row],
           UNCHANGED <<contacts, store, page>>
    PROVE  IdentityInv'
<1>1. sessions \in Seq(SessionRow(Len(contacts))) /\ row \in SessionRow(Len(contacts))
  BY SessionTyped DEF IdentityInv, RowsInv, SessionRow
<1>2. sessions' \in Seq(SessionRow(Len(contacts))) /\ Len(sessions') = Len(sessions)
  BY <1>1
<1>3. RowsInv' /\ BrowserInv' /\ TokenInv'
  BY <1>2 DEF IdentityInv, RowsInv, BrowserInv, TokenInv, Good, Identity!Opens
<1> QED  BY <1>3 DEF IdentityInv

-----------------------------------------------------------------------------
LEMMA IdentityStep ==
    Identity!IdentityAssumption /\ IdentityInv /\ [Identity!Next]_Identity!vars => IdentityInv'
<1> SUFFICES ASSUME Identity!IdentityAssumption, IdentityInv,
                    [Identity!Next]_Identity!vars PROVE IdentityInv'
  OBVIOUS
<1>1. ASSUME NEW t \in Slots, Identity!Resume(t) PROVE IdentityInv'
  BY <1>1, ResumeInv
<1>2. ASSUME NEW t \in Slots, Identity!Create(t) PROVE IdentityInv'
  BY <1>2, CreateInv
<1>3. ASSUME NEW t \in Slots,
             Identity!Open(t) \/ Identity!Accept(t) \/ Identity!Listed(t)
                   \/ Identity!InitializeFails(t) \/ Identity!Leave(t)
      PROVE  IdentityInv'
  BY <1>3, PageInv
<1>4. ASSUME NEW t \in Slots, Identity!Talk(t) PROVE IdentityInv'
  <2> DEFINE s == page[t].session
             row == [sessions[s] EXCEPT !.talked = TRUE]
  <2>1. s \in DOMAIN sessions
    BY <1>4 DEF Identity!Talk, Identity!Live, IdentityInv, BrowserInv, RowsInv
  <2>2. row \in [contact : {sessions[s].contact}, expired : BOOLEAN, talked : BOOLEAN]
    BY <2>1, SessionTyped
  <2>3. sessions' = [sessions EXCEPT ![s] = row] /\ UNCHANGED <<contacts, store, page>>
    BY <1>4 DEF Identity!Talk
  <2> HIDE DEF row, s
  <2> QED  BY <2>1, <2>2, <2>3, SessionInv
<1>5. ASSUME NEW s \in DOMAIN sessions, Identity!Expire(s) PROVE IdentityInv'
  <2> DEFINE row == [sessions[s] EXCEPT !.expired = TRUE]
  <2>1. row \in [contact : {sessions[s].contact}, expired : BOOLEAN, talked : BOOLEAN]
    BY SessionTyped
  <2>2. sessions' = [sessions EXCEPT ![s] = row] /\ UNCHANGED <<contacts, store, page>>
    BY <1>5 DEF Identity!Expire
  <2> HIDE DEF row
  <2> QED  BY <2>1, <2>2, SessionInv
<1>6. CASE UNCHANGED Identity!vars
  BY <1>6 DEF IdentityInv, RowsInv, BrowserInv, TokenInv, Good, Identity!Opens, Identity!vars
<1> QED  BY <1>1, <1>2, <1>3, <1>4, <1>5, <1>6 DEF Identity!Next

\* The inductive invariant the theorems below rest on.
THEOREM IdentityInvariance ==
    ASSUME Identity!IdentityAssumption PROVE Identity!Spec => []IdentityInv
BY IdentityInit, IdentityStep, PTL DEF Identity!Spec

LEMMA IdentityTypes == IdentityInv => Identity!TypeOK
<1> SUFFICES ASSUME IdentityInv PROVE Identity!TypeOK
  OBVIOUS
<1>1. contacts \in Seq(Nat)
  BY DEF IdentityInv, RowsInv
<1> QED  BY <1>1 DEF IdentityInv, RowsInv, SessionRow, BrowserInv, Places, Identity!TypeOK

\* Every state has its types, for any tabs and any number of sessions.
THEOREM IdentityTypeCorrect ==
    ASSUME Identity!IdentityAssumption PROVE Identity!Spec => []Identity!TypeOK
BY IdentityTypes, IdentityInvariance, PTL

\* The continuity token a browser keeps opens the contact it was minted for,
\* however many tabs start at once and whatever fails.
THEOREM TheStoredTokenWorks ==
    ASSUME Identity!IdentityAssumption PROVE Identity!Spec => []Identity!StoredTokenWorks
<1>1. IdentityInv => Identity!StoredTokenWorks
  BY DEF IdentityInv, TokenInv, Good, Identity!StoredTokenWorks
<1> QED  BY <1>1, IdentityInvariance, PTL
-----------------------------------------------------------------------------
(***************************************************************************)
(* VisitorTransport, for any page size, number of catch-up calls and       *)
(* messages.                                                               *)
(*                                                                         *)
(* A number is acknowledged only when it is the number of an agent's       *)
(* message that was merged before, so the stored cursor stands at one; and *)
(* the list never loses what the screen has shown, because the answer to a *)
(* post replaces it by what the screen shows.                              *)
(***************************************************************************)

\* A bounded set of numbers has a greatest one.
LEMMA NatWellFounded ==
    \E R : IsWellFoundedOn(R, Nat) /\ \A m, n \in Nat : m < n => <<m, n>> \in R
<1>1. \A m, n \in Nat : m < n => <<m, n>> \in OpToRel(<, Nat)
  BY DEF OpToRel
<1> QED  BY <1>1, NatLessThanWellFounded

LEMMA GreatestExists ==
    ASSUME NEW N \in Nat, NEW S \in SUBSET (0..N), S # {}
    PROVE  \E x \in S : \A y \in S : x >= y
<1> DEFINE T == {n \in Nat : N - n \in S}
<1>1. PICK R : IsWellFoundedOn(R, Nat) /\ \A m, n \in Nat : m < n => <<m, n>> \in R
  BY NatWellFounded
<1>2. \A x \in S : x \in 0..N /\ N - x \in T
  BY SMT
<1>3. T \subseteq Nat /\ T # {}
  BY <1>2
<1>4. \A n \in T : n \in Nat /\ N - n \in S
  OBVIOUS
<1> HIDE DEF T
<1>5. PICK n \in T : \A m \in T : ~(<<m, n>> \in R)
  <2>1. IsWellFoundedOn(R, Nat)
    BY <1>1
  <2> QED  BY <1>3, <2>1, WFMin
<1>6. \A m \in T : n <= m
  <2> TAKE m \in T
  <2>1. m \in Nat /\ n \in Nat
    BY <1>4
  <2>2. ~(m < n)
    BY <1>1, <1>5, <2>1
  <2> QED  BY <2>1, <2>2
<1> QED  BY <1>2, <1>4, <1>6

\* MaxOf and the greater of two numbers.
LEMMA MaxOfFact ==
    ASSUME MaxMessages \in Nat, NEW S \in SUBSET (0..MaxMessages)
    PROVE  Transport!MaxOf(S) \in S \union {0}
<1>1. S \union {0} \in SUBSET (0..MaxMessages) /\ S \union {0} # {}
  OBVIOUS
<1>2. \E x \in S \union {0} : \A y \in S \union {0} : x >= y
  BY <1>1, GreatestExists
<1> QED  BY <1>2 DEF Transport!MaxOf, Transport!Max

LEMMA MaxPair ==
    ASSUME NEW a \in Nat, NEW b \in Nat
    PROVE  Transport!Max({a, b}) \in {a, b} /\ Transport!Max({a, b}) >= a /\ Transport!Max({a, b}) >= b
<1>1. \E x \in {a, b} : \A y \in {a, b} : x >= y
  OBVIOUS
<1> QED  BY <1>1 DEF Transport!Max
-----------------------------------------------------------------------------
Cursors == 0..MaxMessages

\* A message of an agent that the client has received.
KnownAgent(n) == n \in received /\ log[n] = "agent"

LogInv == log \in Seq({"visitor", "agent"}) /\ Len(log) <= MaxMessages

ChannelInv ==
    /\ channelWire \in Seq(Transport!Numbers)
    /\ \A i \in DOMAIN channelWire : channelWire[i] \in Transport!Stored
    /\ channel \in {"none", "joining", "joined", "subscribed", "broken"}
    /\ online \in BOOLEAN /\ retry \in BOOLEAN

\* The screen shows a part of the list, and the list is of received messages.
ListInv == rendered \subseteq list /\ list \subseteq received /\ received \subseteq Transport!Stored

CatchUpsInv ==
    /\ call \in [Slots -> Transport!CallType]
    /\ \A c \in Slots : call[c].items \subseteq Transport!Stored

PostInv ==
    /\ post \in [pc : {"idle", "posted", "stored"}, sequence : Cursors]
    /\ post.sequence \in Transport!Stored \union {0} /\ (post.pc = "stored" => post.sequence # 0)

\* Whatever is or will be acknowledged is an agent's message and was received.
ReceiptsInv ==
    /\ marks \subseteq [through : Transport!Numbers, cursor : Cursors]
    /\ \A mark \in marks : KnownAgent(mark.through)
    /\ delivered \in Cursors /\ (delivered = 0 \/ KnownAgent(delivered))
    /\ local \in Cursors /\ inFlight \in Cursors

UsedInv ==
    /\ drops \in 0..MaxDrops /\ offlines \in 0..MaxOfflines
    /\ failures \in 0..MaxFailures /\ posts \in 0..MaxPosts

TransportInv == LogInv /\ ChannelInv /\ ListInv /\ CatchUpsInv /\ PostInv /\ ReceiptsInv /\ UsedInv

LEMMA Numbering ==
    ASSUME Transport!BoundsAssumption, LogInv
    PROVE  /\ MaxMessages \in Nat /\ MaxPages \in Nat /\ MaxPages >= 1
           /\ Transport!Stored = 1..Len(log) /\ Len(log) \in Nat
           /\ Transport!Stored \subseteq Transport!Numbers
           /\ Transport!Numbers \subseteq Cursors /\ 0 \in Cursors
  BY DEF Transport!BoundsAssumption, LogInv, Transport!Stored, Transport!Numbers, Cursors

LEMMA TransportInit == Transport!BoundsAssumption /\ Transport!Init => TransportInv
<1> SUFFICES ASSUME Transport!BoundsAssumption, Transport!Init PROVE TransportInv
  OBVIOUS
<1>1. LogInv /\ Transport!Stored = {1}
  BY DEF Transport!Init, LogInv, Transport!BoundsAssumption, Transport!Stored
<1>2. ChannelInv /\ ListInv
  <2>1. channelWire = <<>> /\ channel = "joining" /\ online = TRUE /\ retry = FALSE
    BY DEF Transport!Init
  <2>2. online \in BOOLEAN /\ retry \in BOOLEAN
    BY <2>1
  <2>3. channelWire \in Seq(Transport!Numbers) /\ DOMAIN channelWire = {}
    BY <2>1
  <2>4. ChannelInv
    BY <2>1, <2>2, <2>3 DEF ChannelInv
  <2> QED  BY <1>1, <2>4 DEF Transport!Init, ListInv
<1>3a. UsedInv
  BY DEF Transport!Init, UsedInv, Transport!BoundsAssumption
<1>3. CatchUpsInv
  BY <1>1 DEF Transport!Init, CatchUpsInv, Transport!CallType, Transport!NoCall,
     Transport!BoundsAssumption
<1>4. PostInv /\ ReceiptsInv
  BY <1>1 DEF Transport!Init, PostInv, ReceiptsInv, Transport!NoPost, Cursors,
     Transport!BoundsAssumption
<1> QED  BY <1>1, <1>2, <1>3, <1>3a, <1>4 DEF TransportInv

\* What a step leaves alone keeps its part of the invariant.
LEMMA LogKept ==
    ASSUME TransportInv, UNCHANGED log
    PROVE  /\ LogInv'
           /\ UNCHANGED <<channelWire, online, channel, retry>> => ChannelInv'
           /\ UNCHANGED <<list, rendered, received>> => ListInv'
           /\ UNCHANGED call => CatchUpsInv'
           /\ UNCHANGED post => PostInv'
           /\ UNCHANGED <<delivered, Transport!receipts>> /\ received \subseteq received'
                 => ReceiptsInv'
           /\ UNCHANGED Transport!used => UsedInv'
<1>1. LogInv'
  BY DEF TransportInv, LogInv
<1>2. UNCHANGED <<channelWire, online, channel, retry>> => ChannelInv'
  BY DEF TransportInv, ChannelInv, Transport!Stored
<1>3. UNCHANGED <<list, rendered, received>> => ListInv'
  BY DEF TransportInv, ListInv, Transport!Stored
<1>4. UNCHANGED call => CatchUpsInv'
  BY DEF TransportInv, CatchUpsInv, Transport!Stored
<1>5. UNCHANGED post => PostInv'
  BY DEF TransportInv, PostInv, Transport!Stored
<1>6. UNCHANGED <<delivered, Transport!receipts>> /\ received \subseteq received' => ReceiptsInv'
  BY DEF TransportInv, ReceiptsInv, KnownAgent, Transport!receipts
<1>7. UNCHANGED Transport!used => UsedInv'
  BY DEF TransportInv, UsedInv, Transport!used
<1> QED  BY <1>1, <1>2, <1>3, <1>4, <1>5, <1>6, <1>7

\* A stored message is new, and the numbers of the others stay.
LEMMA StoreInv ==
    ASSUME Transport!BoundsAssumption, TransportInv, NEW from \in {"visitor", "agent"},
           Transport!Store(from),
           UNCHANGED <<delivered, online, channel, retry, list, rendered, call, Transport!receipts,
                       received, Transport!used>>,
           post' = post \/ post' = [pc |-> "stored", sequence |-> Len(log) + 1]
    PROVE  TransportInv'
<1> USE DEF TransportInv
<1>1. /\ Transport!Stored = 1..Len(log) /\ Len(log) \in Nat /\ Len(log) < MaxMessages
      /\ log' = Append(log, from) /\ log \in Seq({"visitor", "agent"})
      /\ channelWire' = IF Transport!Joined THEN Append(channelWire, Len(log) + 1) ELSE channelWire
      /\ MaxMessages \in Nat
  BY Numbering DEF Transport!Store, LogInv
<1>2. /\ log' \in Seq({"visitor", "agent"}) /\ Len(log') = Len(log) + 1
      /\ \A n \in Transport!Stored : log'[n] = log[n]
  BY <1>1
<1>3. /\ LogInv' /\ Transport!Stored' = 1..(Len(log) + 1)
      /\ Transport!Stored \subseteq Transport!Stored'
  BY <1>1, <1>2 DEF LogInv, Transport!Stored
<1>4. ChannelInv'
  <2>1. Len(log) + 1 \in Transport!Stored' /\ Len(log) + 1 \in Transport!Numbers
    BY <1>1, <1>3 DEF Transport!Numbers
  <2> QED  BY <1>1, <1>3, <2>1 DEF ChannelInv
<1>5. ListInv' /\ CatchUpsInv' /\ UsedInv'
  BY <1>3 DEF ListInv, CatchUpsInv, UsedInv, Transport!used
<1>6. PostInv'
  <2>1. Len(log) + 1 \in Transport!Stored' /\ Len(log) + 1 \in Cursors
    BY <1>1, <1>3 DEF Cursors
  <2> QED  BY <1>1, <1>3, <2>1 DEF PostInv
<1>7. ReceiptsInv'
  BY <1>2 DEF ReceiptsInv, KnownAgent, ListInv, Transport!receipts
<1> QED  BY <1>3, <1>4, <1>5, <1>6, <1>7

\* A merge adds stored messages.
LEMMA MergeInv ==
    ASSUME TransportInv, NEW S \in SUBSET Transport!Stored, Transport!Merge(S),
           UNCHANGED <<log, rendered>>
    PROVE  ListInv' /\ list \subseteq list' /\ received \subseteq received' /\ S \subseteq received'
  BY DEF TransportInv, ListInv, Transport!Merge, Transport!Stored

\* What is acknowledged after a merge is in it, or came before.
LEMMA MarkDeliveredInv ==
    ASSUME Transport!BoundsAssumption, TransportInv, NEW n \in Cursors, NEW cursor \in Cursors,
           Transport!MarkDelivered(n, cursor),
           n = 0 \/ (n \in received' /\ log[n] = "agent"),
           received \subseteq received', UNCHANGED <<log, delivered>>
    PROVE  ReceiptsInv'
<1>1. MaxMessages \in Nat /\ local \in Cursors
  BY Numbering DEF TransportInv, ReceiptsInv
<1>2. Transport!Max({local, cursor}) \in Cursors
  BY <1>1, MaxPair DEF Cursors
<1>3. /\ local' = Transport!Max({local, cursor})
      /\ \/ UNCHANGED <<marks, inFlight>>
         \/ /\ n > Transport!Max({local, cursor})
            /\ marks' = marks \union {[through |-> n, cursor |-> 0]} /\ inFlight' = n
  BY DEF Transport!MarkDelivered
<1>4. CASE UNCHANGED <<marks, inFlight>>
  BY <1>2, <1>3, <1>4 DEF TransportInv, ReceiptsInv, KnownAgent
<1>5. CASE /\ n > Transport!Max({local, cursor})
           /\ marks' = marks \union {[through |-> n, cursor |-> 0]} /\ inFlight' = n
  <2>1. n \in Transport!Numbers /\ n # 0 /\ 0 \in Cursors
    BY <1>1, <1>2, <1>5 DEF Cursors, Transport!Numbers
  <2> DEFINE new == [through |-> n, cursor |-> 0]
  <2>2. new \in [through : Transport!Numbers, cursor : Cursors] /\ new.through = n
    BY <2>1
  <2>3. marks' = marks \union {new}
    BY <1>5
  <2> HIDE DEF new
  <2> QED  BY <1>2, <1>3, <1>5, <2>1, <2>2, <2>3 DEF TransportInv, ReceiptsInv, KnownAgent
<1> QED  BY <1>3, <1>4, <1>5

\* The acknowledgement of a received message is served, answered or lost.
LEMMA AcknowledgeInv ==
    ASSUME Transport!BoundsAssumption, TransportInv, NEW mark \in marks,
           Transport!MarkServed(mark) \/ Transport!MarkAnswered(mark) \/ Transport!MarkFails(mark)
    PROVE  TransportInv'
<1>1. /\ MaxMessages \in Nat /\ mark.through \in Cursors /\ mark.cursor \in Cursors
      /\ mark \in [through : Transport!Numbers, cursor : Cursors]
      /\ delivered \in Cursors /\ local \in Cursors /\ 0 \in Cursors /\ KnownAgent(mark.through)
  BY Numbering DEF TransportInv, ReceiptsInv
<1>2. CASE Transport!MarkServed(mark)
  <2>1. /\ delivered' = Transport!Max({delivered, mark.through})
        /\ marks' = (marks \ {mark}) \union {[mark EXCEPT !.cursor = delivered']}
        /\ UNCHANGED <<log, Transport!connection, list, rendered, call, post, local, inFlight,
                       received, Transport!used>>
    BY <1>2 DEF Transport!MarkServed
  <2>2. delivered' \in {delivered, mark.through}
    BY <1>1, <2>1, MaxPair DEF Cursors
  <2>3. delivered' \in Cursors /\ (delivered' = 0 \/ KnownAgent(delivered'))
    BY <1>1, <2>2 DEF TransportInv, ReceiptsInv
  <2> DEFINE new == [mark EXCEPT !.cursor = delivered']
  <2>4. new \in [through : Transport!Numbers, cursor : Cursors] /\ new.through = mark.through
    BY <1>1, <2>3
  <2>5. marks' = (marks \ {mark}) \union {new}
    BY <2>1
  <2> HIDE DEF new
  <2>6. ReceiptsInv'
    BY <1>1, <2>1, <2>3, <2>4, <2>5 DEF TransportInv, ReceiptsInv, KnownAgent
  <2> QED  BY <2>1, <2>6, LogKept DEF TransportInv, Transport!connection
<1>3. ASSUME Transport!SettleMark(mark), UNCHANGED <<log, delivered, received>>, local' \in Cursors
      PROVE  ReceiptsInv'
  BY <1>1, <1>3 DEF Transport!SettleMark, TransportInv, ReceiptsInv, KnownAgent
<1>4. CASE Transport!MarkAnswered(mark)
  <2>1. local' \in Cursors
    BY <1>1, <1>4, MaxPair DEF Transport!MarkAnswered, Cursors
  <2> QED  BY <1>3, <1>4, <2>1, LogKept DEF Transport!MarkAnswered, TransportInv, Transport!server,
              Transport!connection
<1>5. CASE Transport!MarkFails(mark)
  <2>1. UsedInv'
    BY <1>5 DEF Transport!MarkFails, Transport!RequestFails, TransportInv, UsedInv,
       Transport!BoundsAssumption
  <2> QED  BY <1>1, <1>3, <1>5, <2>1, LogKept DEF Transport!MarkFails, TransportInv,
              Transport!server, Transport!connection
<1> QED  BY <1>2, <1>4, <1>5

\* The pages of a catch-up call.
LEMMA CatchUpInv ==
    ASSUME Transport!BoundsAssumption, TransportInv, NEW c \in Slots,
           Transport!CatchUpStep(c) \/ Transport!CatchUpFails(c)
    PROVE  TransportInv'
<1>1. /\ MaxMessages \in Nat /\ MaxPages \in Nat /\ MaxPages >= 1
      /\ Transport!Stored \subseteq Cursors /\ 0 \in Cursors
      /\ Transport!Stored \subseteq Transport!Numbers
  BY Numbering DEF TransportInv
<1>2. /\ call \in [Slots -> Transport!CallType] /\ call[c] \in Transport!CallType
      /\ call[c].items \subseteq Transport!Stored
      /\ call[c].cursor \in Cursors /\ call[c].page \in 0..MaxPages
      /\ delivered \in Cursors /\ local \in Cursors
  BY DEF TransportInv, CatchUpsInv, Transport!CallType, ReceiptsInv, Cursors
<1>3. ASSUME NEW t \in Transport!CallType, t.items \subseteq Transport!Stored,
             call' = [call EXCEPT ![c] = t],
             UNCHANGED log
      PROVE  CatchUpsInv'
  <2>1. Transport!Stored' = Transport!Stored
    BY <1>3 DEF Transport!Stored
  <2> QED  BY <1>2, <1>3, <2>1 DEF TransportInv, CatchUpsInv
<1>4. Transport!NoCall \in Transport!CallType /\ Transport!NoCall.items = {}
  BY <1>1 DEF Transport!NoCall, Transport!CallType, Cursors
<1>5. list \union call[c].items \in SUBSET Transport!Stored
  BY <1>2 DEF TransportInv, ListInv
<1>6. CASE Transport!AnswerCatchUp(c)
  <2> DEFINE t == [call[c] EXCEPT !.pc = "answered", !.items = Transport!Page(call[c].after),
                                  !.cursor = delivered]
  <2>1. call' = [call EXCEPT ![c] = t]
    BY <1>2, <1>6 DEF Transport!AnswerCatchUp
  <2>2. Transport!Page(call[c].after) \subseteq Transport!Stored
    BY DEF Transport!Page
  <2>3. t \in Transport!CallType /\ t.items \subseteq Transport!Stored
    BY <1>1, <1>2, <2>2 DEF Transport!CallType, Cursors
  <2> HIDE DEF t
  <2>4. CatchUpsInv' /\ UNCHANGED <<log, delivered>>
    BY <1>3, <1>6, <2>1, <2>3 DEF Transport!AnswerCatchUp, Transport!server
  <2> QED  BY <1>6, <2>4, LogKept DEF Transport!AnswerCatchUp, TransportInv, Transport!connection
<1>7. CASE Transport!ContinueCatchUp(c)
  <2>1. /\ call[c].page # MaxPages /\ Transport!Merge(call[c].items)
        /\ local' = Transport!Max({local, call[c].cursor})
        /\ call' = [call EXCEPT ![c] = Transport!Ask(call[c].page + 1,
                                               Transport!MaxOf(list \union call[c].items))]
        /\ UNCHANGED <<log, delivered, Transport!connection, rendered, post, marks, inFlight,
                       Transport!used>>
    BY <1>7 DEF Transport!ContinueCatchUp, Transport!IsLast, Transport!server
  <2>2. ListInv' /\ received \subseteq received'
    BY <1>2, <2>1, MergeInv
  <2>3. Transport!MaxOf(list \union call[c].items) \in Cursors
    BY <1>1, <1>5, MaxOfFact DEF Cursors
  <2> DEFINE t == Transport!Ask(call[c].page + 1, Transport!MaxOf(list \union call[c].items))
  <2>4. t \in Transport!CallType /\ t.items = {}
    BY <1>1, <1>2, <2>1, <2>3 DEF Transport!Ask, Transport!CallType, Cursors
  <2> HIDE DEF t
  <2>5. CatchUpsInv'
    BY <1>3, <2>1, <2>4 DEF t
  <2>6. local' \in Cursors
    BY <1>2, <2>1, MaxPair DEF Cursors
  <2>7. ReceiptsInv'
    BY <2>1, <2>2, <2>6 DEF TransportInv, ReceiptsInv, KnownAgent
  <2> QED  BY <2>1, <2>2, <2>5, <2>7, LogKept DEF TransportInv, Transport!connection
<1>8. CASE Transport!FinishCatchUp(c)
  <2> DEFINE n == Transport!MaxOf(Transport!Agents(list \union call[c].items))
  <2>1. /\ Transport!Merge(call[c].items) /\ Transport!MarkDelivered(n, call[c].cursor)
        /\ call' = [call EXCEPT ![c] = Transport!NoCall]
        /\ UNCHANGED <<log, delivered, Transport!connection, rendered, post, Transport!used>>
    BY <1>8 DEF Transport!FinishCatchUp, Transport!server
  <2>2. ListInv' /\ list \subseteq list' /\ call[c].items \subseteq received'
        /\ list \subseteq received' /\ received \subseteq received'
    BY <1>2, <2>1, MergeInv DEF TransportInv, ListInv
  <2>3. Transport!Agents(list \union call[c].items) \in SUBSET (0..MaxMessages)
    BY <1>1, <1>5 DEF Transport!Agents, Cursors
  <2>4. n \in Transport!Agents(list \union call[c].items) \union {0}
    BY <1>1, <2>3, MaxOfFact
  <2>5. n \in Cursors /\ (n = 0 \/ (n \in received' /\ log[n] = "agent"))
    BY <1>1, <2>2, <2>3, <2>4 DEF Transport!Agents, Cursors
  <2> HIDE DEF n
  <2>6. ReceiptsInv'
    BY <1>2, <2>1, <2>2, <2>5, MarkDeliveredInv
  <2>7. CatchUpsInv'
    BY <1>3, <1>4, <2>1
  <2> QED  BY <2>1, <2>2, <2>6, <2>7, LogKept DEF TransportInv, Transport!connection
<1>9. CASE Transport!CatchUpFails(c)
  <2>1. UsedInv'
    BY <1>9 DEF Transport!CatchUpFails, Transport!RequestFails, TransportInv, UsedInv,
       Transport!BoundsAssumption
  <2>2. CatchUpsInv'
    BY <1>3, <1>4, <1>9 DEF Transport!CatchUpFails, Transport!server
  <2> QED  BY <1>9, <2>1, <2>2, LogKept DEF Transport!CatchUpFails, TransportInv, Transport!server,
              Transport!connection
<1> QED  BY <1>6, <1>7, <1>8, <1>9 DEF Transport!CatchUpStep

\* A broadcast is merged and acknowledged when it is an agent's.
LEMMA BroadcastInv ==
    ASSUME Transport!BoundsAssumption, TransportInv, Transport!ReceiveBroadcast PROVE TransportInv'
<1>1. /\ Transport!Stored \subseteq Transport!Numbers /\ Transport!Numbers \subseteq Cursors
      /\ 0 \in Cursors
      /\ MaxMessages \in Nat
  BY Numbering DEF TransportInv
<1>2. /\ channelWire # <<>> /\ channelWire' = Tail(channelWire)
      /\ Transport!Merge({Head(channelWire)})
      /\ IF log[Head(channelWire)] = "agent" THEN Transport!MarkDelivered(Head(channelWire), 0)
         ELSE UNCHANGED Transport!receipts
      /\ UNCHANGED <<log, delivered, online, channel, retry, rendered, call, post, Transport!used>>
  BY DEF Transport!ReceiveBroadcast, Transport!server
<1>3. /\ Head(channelWire) \in Transport!Stored /\ channelWire' \in Seq(Transport!Numbers)
      /\ \A i \in DOMAIN channelWire' : channelWire'[i] \in Transport!Stored
  <2>1. /\ channelWire \in Seq(Transport!Numbers)
        /\ \A i \in DOMAIN channelWire : channelWire[i] \in Transport!Stored
    BY DEF TransportInv, ChannelInv
  <2>2. /\ Head(channelWire) = channelWire[1] /\ 1 \in DOMAIN channelWire
        /\ channelWire' \in Seq(Transport!Numbers)
    BY <1>2, <2>1
  <2>3. \A i \in DOMAIN channelWire' :
            channelWire'[i] = channelWire[i + 1] /\ i + 1 \in DOMAIN channelWire
    BY <1>2, <2>1
  <2> QED  BY <2>1, <2>2, <2>3
<1>4. ChannelInv'
  BY <1>2, <1>3 DEF TransportInv, ChannelInv, Transport!Stored
<1>5. ListInv' /\ received \subseteq received' /\ Head(channelWire) \in received'
  BY <1>2, <1>3, MergeInv
<1>6. ReceiptsInv'
  <2>1. CASE log[Head(channelWire)] = "agent"
    BY <1>1, <1>2, <1>3, <1>5, <2>1, MarkDeliveredInv
  <2>2. CASE log[Head(channelWire)] # "agent"
    BY <1>2, <1>5, <2>2, LogKept
  <2> QED  BY <2>1, <2>2
<1> QED  BY <1>2, <1>4, <1>5, <1>6, LogKept DEF TransportInv

\* The connection, with the catch-up calls it starts.
LEMMA ConnectionInv ==
    ASSUME Transport!BoundsAssumption, TransportInv,
           \/ Transport!ServerJoins \/ Transport!Subscribed \/ Transport!ChannelError
           \/ Transport!RetryTimer \/ Transport!ConnectionBreaks
           \/ Transport!BecomesVisible \/ Transport!GoesOffline \/ Transport!ComesOnline
    PROVE  TransportInv'
<1>1. /\ UNCHANGED <<log, delivered, list, rendered, post, Transport!receipts, received>>
      /\ UNCHANGED call \/ Transport!StartCatchUp
      /\ channelWire' = channelWire \/ channelWire' = <<>>
      /\ channel' \in {"none", "joining", "joined", "subscribed", "broken"}
      /\ online' \in BOOLEAN /\ retry' \in BOOLEAN
  BY DEF Transport!ServerJoins, Transport!Subscribed, Transport!ChannelError, Transport!RetryTimer,
     Transport!ConnectionBreaks, Transport!BecomesVisible,
         Transport!GoesOffline, Transport!ComesOnline, Transport!EnsureSubscription,
         Transport!server, TransportInv, ChannelInv
<1>2. ChannelInv'
  <2>1. CASE channelWire' = channelWire
    BY <1>1, <2>1 DEF TransportInv, ChannelInv, Transport!Stored
  <2>2. CASE channelWire' = <<>>
    BY <1>1, <2>2 DEF ChannelInv
  <2> QED  BY <1>1, <2>1, <2>2
<1>3. UsedInv'
  BY DEF Transport!ServerJoins, Transport!Subscribed, Transport!ChannelError, Transport!RetryTimer,
     Transport!ConnectionBreaks, Transport!BecomesVisible,
         Transport!GoesOffline, Transport!ComesOnline, Transport!used, TransportInv, UsedInv,
         Transport!BoundsAssumption
<1>4. ASSUME Transport!StartCatchUp PROVE CatchUpsInv'
  <2>1. PICK c \in Slots : call' = [call EXCEPT ![c] = Transport!Ask(1, Transport!MaxOf(list))]
    BY <1>4 DEF Transport!StartCatchUp
  <2>2. MaxMessages \in Nat /\ MaxPages \in Nat /\ MaxPages >= 1 /\ list \in SUBSET (0..MaxMessages)
    BY Numbering DEF TransportInv, ListInv, Cursors
  <2>3. Transport!MaxOf(list) \in 0..MaxMessages
    <3>1. Transport!MaxOf(list) \in list \union {0}
      BY <2>2, MaxOfFact
    <3>2. 0 \in 0..MaxMessages /\ list \subseteq 0..MaxMessages
      BY <2>2
    <3> QED  BY <3>1, <3>2
  <2>4. /\ Transport!Ask(1, Transport!MaxOf(list)) \in Transport!CallType
        /\ Transport!Ask(1, Transport!MaxOf(list)).items = {}
    BY <2>2, <2>3 DEF Transport!Ask, Transport!CallType
  <2> QED  BY <1>1, <2>1, <2>4 DEF TransportInv, CatchUpsInv, Transport!Stored
<1> QED  BY <1>1, <1>2, <1>3, <1>4, LogKept DEF TransportInv

\* The visitor's own message, and the render.
LEMMA OwnMessageInv ==
    ASSUME Transport!BoundsAssumption, TransportInv,
           \/ Transport!Render \/ Transport!Post \/ Transport!FindPost
           \/ Transport!PostAnswered \/ Transport!PostFails
    PROVE  TransportInv'
<1>1. UNCHANGED <<log, delivered, channelWire, online, retry, call, Transport!receipts>>
  BY DEF Transport!Render, Transport!Post, Transport!FindPost, Transport!PostAnswered,
     Transport!PostFails, Transport!server, Transport!connection
<1>2. ChannelInv'
  BY <1>1 DEF Transport!Render, Transport!Post, Transport!FindPost, Transport!PostAnswered,
     Transport!PostFails, Transport!connection, Transport!EnsureSubscription,
              TransportInv, ChannelInv, Transport!Stored
<1>3. ListInv' /\ received \subseteq received'
  BY <1>1 DEF Transport!Render, Transport!Post, Transport!FindPost, Transport!PostAnswered,
     Transport!PostFails, TransportInv, ListInv, PostInv, Transport!Stored
<1>4. PostInv'
  BY <1>1, Numbering DEF Transport!Render, Transport!Post, Transport!FindPost,
     Transport!PostAnswered, Transport!PostFails, Transport!NoPost, TransportInv, PostInv,
                         Transport!Stored
<1>5. UsedInv'
  BY DEF Transport!Render, Transport!Post, Transport!FindPost, Transport!PostAnswered,
     Transport!PostFails, Transport!RequestFails, Transport!used, TransportInv, UsedInv,
         Transport!BoundsAssumption, PostInv
<1> QED  BY <1>1, <1>2, <1>3, <1>4, <1>5, LogKept DEF TransportInv

LEMMA TransportStep ==
    Transport!BoundsAssumption /\ TransportInv /\ [Transport!Next]_Transport!vars => TransportInv'
<1> SUFFICES ASSUME Transport!BoundsAssumption, TransportInv,
                    [Transport!Next]_Transport!vars PROVE TransportInv'
  OBVIOUS
<1>1. CASE UNCHANGED Transport!vars
  BY <1>1, LogKept DEF Transport!vars, Transport!server, Transport!connection, TransportInv
<1>2. CASE Transport!AgentSends
  BY <1>2, StoreInv DEF Transport!AgentSends
<1>3. CASE Transport!StorePost
  BY <1>3, StoreInv DEF Transport!StorePost
<1> QED  BY <1>1, <1>2, <1>3, CatchUpInv, AcknowledgeInv, BroadcastInv, ConnectionInv, OwnMessageInv
         DEF Transport!Next, Transport!ConnectionStep, Transport!PostStep

LEMMA TransportTypes == Transport!BoundsAssumption /\ TransportInv => Transport!TypeOK
  BY Numbering DEF TransportInv, Transport!TypeOK, LogInv, ChannelInv, ListInv, CatchUpsInv,
     PostInv, ReceiptsInv, UsedInv, Cursors

\* Only a render and the visitor's own message change the screen.
LEMMA ShownStep ==
    ASSUME TransportInv, [Transport!Next]_Transport!vars PROVE rendered \subseteq rendered'
<1>1. \/ UNCHANGED rendered
      \/ rendered' = list
      \/ rendered \subseteq rendered'
  <2>1. CASE UNCHANGED Transport!vars
    BY <2>1 DEF Transport!vars
  <2>2. CASE \/ Transport!AgentSends \/ Transport!PostStep \/ Transport!Post
             \/ Transport!PostFails \/ Transport!Render
    BY <2>2 DEF Transport!AgentSends, Transport!PostStep, Transport!StorePost, Transport!FindPost,
       Transport!PostAnswered, Transport!Post, Transport!PostFails, Transport!Render
  <2>3. CASE \E c \in Slots : Transport!CatchUpStep(c) \/ Transport!CatchUpFails(c)
    BY <2>3 DEF Transport!CatchUpStep, Transport!AnswerCatchUp, Transport!ContinueCatchUp,
       Transport!FinishCatchUp, Transport!CatchUpFails
  <2>4. CASE \E mark \in marks :
                   \/ Transport!MarkServed(mark)
                   \/ Transport!MarkAnswered(mark) \/ Transport!MarkFails(mark)
    BY <2>4 DEF Transport!MarkServed, Transport!MarkAnswered, Transport!MarkFails
  <2>5. CASE \/ Transport!ConnectionStep \/ Transport!ConnectionBreaks
             \/ Transport!BecomesVisible \/ Transport!GoesOffline \/ Transport!ComesOnline
    BY <2>5 DEF Transport!ConnectionStep, Transport!ServerJoins, Transport!Subscribed,
       Transport!ChannelError, Transport!RetryTimer,
                Transport!ReceiveBroadcast, Transport!ConnectionBreaks, Transport!BecomesVisible,
                Transport!GoesOffline, Transport!ComesOnline
  <2> QED  BY <2>1, <2>2, <2>3, <2>4, <2>5 DEF Transport!Next
<1> QED  BY <1>1 DEF TransportInv, ListInv
-----------------------------------------------------------------------------
(***************************************************************************)
(* The components next to each other.  A step of one leaves the state of   *)
(* the others alone, so each keeps its invariant in every scene.           *)
(***************************************************************************)

\* What a step of the visitor's side is to each component.
LEMMA SideKinds ==
    ASSUME [SideNext]_sideVars
    PROVE  /\ [Next]_vars
           /\ [Files!Next]_Files!vars
           /\ [Transport!Next]_Transport!vars
           /\ [Identity!Next]_Identity!vars
<1>1. [Next]_vars
  BY DEF SideNext, sideVars
<1>2. [Files!Next]_Files!vars
  BY DEF SideNext, sideVars, fileVars, Files!vars, Files!database, Files!requests, Files!history
<1>3. [Transport!Next]_Transport!vars
  BY DEF SideNext, sideVars, transportVars, Transport!vars, Transport!server, Transport!connection,
     Transport!receipts, Transport!used
<1>4. [Identity!Next]_Identity!vars
  BY DEF SideNext, sideVars, identityVars, Identity!vars
<1> QED  BY <1>1, <1>2, <1>3, <1>4

LEMMA SideIdentity == SideSpec => []IdentityInv
<1>1. SideInit => IdentityInv
  BY IdentityInit, IdentityConstants DEF SideInit
<1>2. IdentityInv /\ [SideNext]_sideVars => IdentityInv'
  BY IdentityStep, SideKinds, IdentityConstants
<1> QED  BY <1>1, <1>2, PTL DEF SideSpec

LEMMA SideBridge == SideSpec => []IInv
<1>1. SideInit => IInv
  BY InitInv, BridgeConstants DEF SideInit
<1>2. IInv /\ [SideNext]_sideVars => IInv'
  BY StepInv, SideKinds, BridgeConstants
<1> QED  BY <1>1, <1>2, PTL DEF SideSpec

\* StoredTokenWorks: the token the browser keeps opens its contact, next to the
\* rest of the visitor's side.
THEOREM StoredTokensWork == SideSpec => []StoredTokenWorks
<1>1. IdentityInv => StoredTokenWorks
  BY DEF IdentityInv, TokenInv, Good, StoredTokenWorks, Identity!StoredTokenWorks
<1> QED  BY <1>1, SideIdentity, PTL

\* IdentifyInOrder: no identify call of the host page undoes a later one unless
\* the iframe had given up its request, next to the rest of the visitor's side.
THEOREM IdentifiesInOrder == SideSpec => IdentifyInOrder
<1>1. IInv /\ [SideNext]_sideVars =>
        [\A f \in Fields : contact'[f] < contact[f] => contact'[f] \in strays]_vars
  BY StepInv, SideKinds, BridgeConstants DEF UndoneByStraysOnly
<1> QED  BY <1>1, SideBridge, PTL DEF SideSpec, IdentifyInOrder

LEMMA SideTransport == SideSpec => []TransportInv
<1>1. SideInit => TransportInv
  BY TransportInit, TransportConstants DEF SideInit
<1>2. TransportInv /\ [SideNext]_sideVars => TransportInv'
  BY TransportStep, SideKinds, TransportConstants
<1> QED  BY <1>1, <1>2, PTL DEF SideSpec

\* AcknowledgesReceived: the delivered cursor stands at an agent's message the
\* client has received, however acknowledgements overlap, fail and are late.
THEOREM ReceivedIsAcknowledged == SideSpec => []AcknowledgesReceived
<1>1. TransportInv => AcknowledgesReceived
  BY DEF TransportInv, ReceiptsInv, KnownAgent, AcknowledgesReceived,
         Transport!AcknowledgesReceived, Transport!Agents
<1> QED  BY <1>1, SideTransport, PTL

\* ShownStays: what the visitor has seen on the screen stays on it.
THEOREM ShownMessagesStay == SideSpec => ShownStays
<1>1. TransportInv /\ [SideNext]_sideVars => [rendered \subseteq rendered']_Transport!vars
  BY ShownStep, SideKinds
<1> QED  BY <1>1, SideTransport, PTL DEF SideSpec, ShownStays, Transport!ShownStays
=============================================================================
