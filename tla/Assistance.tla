------------------------------ MODULE Assistance ------------------------------
(***************************************************************************)
(* The whole of an assistance: SupportSessions, which writes the rows, and *)
(* Signaling, which lets the two ends of a session talk.  They share the   *)
(* table remote_sessions and the sockets of the tablets: a tablet is       *)
(* online while one of its sockets is connected.  And they die together.   *)
(***************************************************************************)
EXTENDS SupportSessions

CONSTANTS
    DeviceSockets, TechnicianSockets,
    Messages   \* messages of signaling being handled at the same time

ASSUME SocketsAreNotNone == None \notin DeviceSockets \cup TechnicianSockets
ASSUME TwoKindsOfEnd ==
    DeviceSockets \cap TechnicianSockets = {} /\ Devices \cap Technicians = {}

VARIABLES identity, joined, room, gone, heard, masked, hasty, message

signaling == <<identity, joined, room, gone, heard, masked, hasty, message>>

Signals == INSTANCE Signaling WITH
    session <- seen,
    call    <- message,
    Calls   <- Messages

-----------------------------------------------------------------------------
\* An HTTP call goes on.
CallStep ==
    /\ \E c \in Calls : Start(c) \/ Continue(c) \/ QueryFails(c)
    /\ UNCHANGED signaling

\* A message does.
MessageStep ==
    /\ UNCHANGED vars
    /\ \E m \in Messages : Signals!Message(m)

\* handleConnection registers the socket; the first one makes the tablet online.
TabletConnects(k, d) ==
    /\ IF d \in online THEN UNCHANGED vars ELSE DeviceConnects(d)
    /\ Signals!Connects(k, d)

TechnicianConnects(k, t) ==
    /\ UNCHANGED vars
    /\ Signals!Connects(k, t)

ClientVanishes(k) ==
    /\ UNCHANGED vars
    /\ Signals!Vanishes(k)

\* Socket k is the only one of its tablet.
LastOfTablet(k) ==
    /\ k \in DeviceSockets
    /\ \A other \in DeviceSockets \ {k} : identity[other] # identity[k]

\* handleDisconnect unregisters it; with the last one the tablet is offline.
SocketDisconnects(k) ==
    /\ identity[k] # None
    /\ IF LastOfTablet(k) THEN DeviceDisconnects(identity[k]) ELSE UNCHANGED vars
    /\ Signals!Disconnects(k)

SocketStep ==
    \/ \E k \in DeviceSockets, d \in Devices : TabletConnects(k, d)
    \/ \E k \in TechnicianSockets, t \in Technicians : TechnicianConnects(k, t)
    \/ \E k \in DeviceSockets \cup TechnicianSockets : ClientVanishes(k) \/ SocketDisconnects(k)

\* One process serves both.
ProcessDies == Crash /\ Signals!Restart

AssistanceInit == Init /\ Signals!Init

AssistanceNext == CallStep \/ MessageStep \/ SocketStep \/ ProcessDies

AssistanceSpec == AssistanceInit /\ [][AssistanceNext]_<<vars, signaling>>

-----------------------------------------------------------------------------
(* Properties.                                                             *)

\* Each of the two does what it does alone.
ImplementsSessions == Spec
ImplementsSignaling == Signals!Spec

\* The technician and the tablet of a request that this tablet has accepted.
EndsOfConsent(r) ==
    IF request[r].status \in {"ACCEPTED", "COMPLETED"}
      THEN {request[r].device, request[r].technician} ELSE {}

\* Nobody gets at a tablet that did not let her in: whoever is in the room of a
\* session, or has a message about to enter it or to be relayed there, is the
\* tablet of its request or the technician this tablet has accepted, whatever
\* requests were cancelled, rejected or taken by others on the way.
OnlyByConsent ==
    /\ \A s \in Sessions : \A k \in room[s] :
         identity[k] \in EndsOfConsent(session[s].request)
    /\ \A m \in Messages : message[m].pc \in {"joinEnter", "relayEmit"} =>
         message[m].who \in EndsOfConsent(session[message[m].sess].request)
=============================================================================
