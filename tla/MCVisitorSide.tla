----------------------------- MODULE MCVisitorSide ----------------------------
(***************************************************************************)
(* The components of the visitor's side next to each other, for TLC.  They *)
(* share no state in these modules, so a product of all of them would      *)
(* multiply what is independent: a behaviour is of the one component that  *)
(* scene names, and the others stay as they began.  The module extends     *)
(* HostBridge and instantiates the others.                                 *)
(* Slots is what every component has two interchangeable ones of: files,   *)
(* requests in progress, tabs.                                             *)
(***************************************************************************)
EXTENDS HostBridge, TLC

CONSTANTS
    Slots,
    Actors, MaxBatches, MaxCompletes, MaxCancels, MaxConversations, \* Attachments
    PageSize, MaxPages, MaxMessages,                                \* VisitorTransport
    MaxPosts, MaxDrops, MaxOfflines, MaxFailures,
    MaxSessions                                                     \* VisitorIdentity

VARIABLES
    scene,
    actor, sender, conversation, open, uploads, stored, messages, complete, cancel,
    overlapped, withdrawn,
    log, delivered, channelWire, online, channel, retry, list, rendered, call, post,
    marks, local, inFlight, received, drops, offlines, failures, posts,
    sessions, contacts, store, page

Files == INSTANCE Attachments WITH Files <- Slots
Transport == 
    INSTANCE VisitorTransport WITH Calls <- Slots, messages <- list, wire <- channelWire
Identity == INSTANCE VisitorIdentity WITH Tabs <- Slots

ASSUME FilesConstants == Files!AttachmentsAssumption
ASSUME TransportConstants == Transport!BoundsAssumption
ASSUME BridgeConstants == BridgeAssumption
ASSUME IdentityConstants == Identity!IdentityAssumption

fileVars == <<actor, sender, conversation, open, uploads, stored, messages, complete, cancel,
              overlapped, withdrawn>>
transportVars == <<log, delivered, channelWire, online, channel, retry, list, rendered, call, post,
                   marks, local, inFlight, received, drops, offlines, failures, posts>>
identityVars == <<sessions, contacts, store, page>>

sideVars == <<scene, vars, fileVars, transportVars, identityVars>>

\* What has a choice of beginnings makes it only in its own scene.
SideInit ==
    /\ scene \in {"files", "transport", "bridge", "identity"}
    /\ Init /\ Files!Init /\ Transport!Init /\ Identity!Init
    /\ scene = "files" \/ actor = CHOOSE a \in Actors : TRUE
    /\ scene = "identity" \/ sessions = <<>>

SideNext ==
    \/ /\ scene = "bridge" /\ Next
       /\ UNCHANGED <<scene, fileVars, transportVars, identityVars>>
    \/ /\ scene = "files" /\ Files!Next
       /\ UNCHANGED <<scene, vars, transportVars, identityVars>>
    \/ /\ scene = "transport" /\ Transport!Next
       /\ UNCHANGED <<scene, vars, fileVars, identityVars>>
    \/ /\ scene = "identity" /\ Identity!Next
       /\ UNCHANGED <<scene, vars, fileVars, transportVars>>

SideSpec == SideInit /\ [][SideNext]_sideVars

Symmetry == Permutations(Slots)

-----------------------------------------------------------------------------
(* Properties: those of HostBridge, and of the others, where they are      *)
(* explained.                                                              *)

\* Every component's state has the type the component gives it.
TypesOK == TypeOK /\ Files!TypeOK /\ Transport!TypeOK /\ Identity!TypeOK

\* Attachments: a batch belongs to one message or none, and its objects stay.
ConfirmedIsAttached == Files!ConfirmedIsAttached
OncePerConversation == Files!OncePerConversation
AttachmentsAreStored == Files!AttachmentsAreStored
CancelledStaysOut == Files!CancelledStaysOut

\* VisitorTransport: what is acknowledged, and what is shown.
AcknowledgesReceived == Transport!AcknowledgesReceived
ShownStays == Transport!ShownStays

\* VisitorIdentity: the token a browser keeps opens its contact.
StoredTokenWorks == Identity!StoredTokenWorks
=============================================================================
