------------------------------ MODULE Signaling ------------------------------
(***************************************************************************)
(* SignalingService, SignalingRealtimeService and the socket handlers of   *)
(* DevicesGateway and TechniciansGateway: who is in the signaling room of  *)
(* a remote session, who has been told of it, and what is relayed to whom. *)
(*                                                                         *)
(* A message is a process.  The only thing a handler ever waits for is one *)
(* query on remote_sessions: with the in-memory adapter the other awaits   *)
(* (validation, join, leave, fetchSockets) resolve within the same turn of *)
(* the event loop.  So a handler is three steps, its arrival, the query    *)
(* and what follows the answer, and the steps of messages from one socket  *)
(* interleave like any others.                                             *)
(*                                                                         *)
(* The rows of remote_sessions come and go as in SessionRows, which is what *)
(* SupportSessions makes of them.                                          *)
(***************************************************************************)
EXTENDS SessionRows

CONSTANTS
    DeviceSockets,      \* sockets of the namespace /devices
    TechnicianSockets,  \* sockets of the namespace /technicians
    Calls               \* messages being handled at the same time

Sockets == DeviceSockets \cup TechnicianSockets

ASSUME NoneIsNoId == None \notin Devices \cup Technicians \cup Sessions \cup Sockets
ASSUME EndsAreApart ==
    DeviceSockets \cap TechnicianSockets = {} /\ Devices \cap Technicians = {}

VARIABLES
    identity,  \* socket.data.device or socket.data.technician; None: no such socket
    joined,    \* socket.data.remoteSessionId
    room,      \* the sockets in the room of each session, in both namespaces
    gone,      \* sockets whose client has vanished without the server knowing
    heard,     \* the sessions in which the client of a socket knows its peer
               \* to be there: told by an ACK or by peer-joined, and it still is
    masked,    \* history: the sockets in the room of each session that entered
               \* it behind dead ones of their own end, and have a peer there
               \* that does not know
    hasty,     \* history: the sockets whose client has sent a join without
               \* waiting for the ACK of another, until that is over
    call       \* the messages being handled

knowledge == <<gone, heard, masked, hasty>>
vars == <<session, identity, joined, room, gone, heard, masked, hasty, call>>

NoCall == [pc |-> "idle", socket |-> None, who |-> None, sess |-> None, late |-> FALSE]

Pcs == {"idle", "joinQuery", "joinEnter", "relayQuery", "relayEmit"}

At(c, pc) == call[c].pc = pc
Free(c) == At(c, "idle")
Goto(c, pc) == call' = [call EXCEPT ![c].pc = pc]
Done(c) == call' = [call EXCEPT ![c] = NoCall]

-----------------------------------------------------------------------------
(* Rooms.                                                                  *)

\* The namespace of socket k, and that of its peer (peerOf).
OwnSide(k) == IF k \in DeviceSockets THEN DeviceSockets ELSE TechnicianSockets
PeerSide(k) == IF k \in DeviceSockets THEN TechnicianSockets ELSE DeviceSockets

\* hasParticipantInSession, for the two ends as socket k sees them.
OwnSideIn(k, s) == room[s] \cap OwnSide(k) # {}
PeersIn(k, s) == room[s] \cap PeerSide(k)

\* What clients know after a step that told those in told(s) about session s
\* and left r and g in place of room and gone: a peer that has left, or
\* vanished, is not known to be there any more.
Knowing(told, r, g) ==
    [k \in Sockets |->
       {s \in Sessions : /\ (r[s] \cap PeerSide(k)) \ g # {}
                         /\ k \in r[s]
                         /\ s \in heard[k] \/ k \in told[s]}]

\* The sockets of m that have a peer which does not know.
Unnoticed(m, r, g, h) ==
    [s \in Sessions |->
       {k \in (m[s] \cap r[s]) \ g :
          \E p \in (r[s] \cap PeerSide(k)) \ g : s \notin h[p]}]

Nobody == [s \in Sessions |-> {}]

\* Only socket.data is emptied: the socket stays in the room.
Fault_RoomsWithout(k) == room

\* leaveCurrentSession, which knows of one session only.
RoomsWithout(k) ==
    IF joined[k] = None THEN room
                        ELSE [room EXCEPT ![joined[k]] = @ \ {k}]

\* A join of socket k is waiting for its query, or has had its answer.
Joining(c, k) == call[c].socket = k /\ call[c].pc \in {"joinQuery", "joinEnter"}

\* Those of h that still have a join to be answered, or are in a room that their
\* data does not name, after a step.
StillHasty(h) ==
    {k \in h : \/ \E c \in Calls : Joining(c, k)'
               \/ \E s \in Sessions : k \in room'[s] /\ joined'[k] # s}

-----------------------------------------------------------------------------
(* remote_sessions, and the sockets' connections.                          *)

\* The calls open and close sessions and tell the signaling nothing of it: the
\* sockets stay in the room.
Rows == Changes /\ UNCHANGED <<identity, joined, room, knowledge, call>>

\* The middleware let it in.  BOUND: the id of a socket that is gone is used
\* again once no message of it is being handled, and then is another socket.
Connects(k, who) ==
    /\ identity[k] = None
    /\ \A c \in Calls : call[c].socket # k
    /\ identity' = [identity EXCEPT ![k] = who]
    /\ UNCHANGED <<session, joined, room, knowledge, call>>

\* The client vanishes and the server has not noticed.
Vanishes(k) ==
    /\ identity[k] # None /\ k \notin gone
    /\ gone' = gone \cup {k}
    /\ heard' = Knowing(Nobody, room, gone')
    /\ masked' = Unnoticed(masked, room, gone', heard')
    /\ UNCHANGED <<session, identity, joined, room, hasty, call>>

\* The server notices: Socket.IO takes the socket out of all its rooms.
Disconnects(k) ==
    /\ identity[k] # None
    /\ identity' = [identity EXCEPT ![k] = None]
    /\ joined' = [joined EXCEPT ![k] = None]
    /\ room' = [s \in Sessions |-> room[s] \ {k}]
    /\ gone' = gone \ {k}
    /\ heard' = Knowing(Nobody, room', gone')
    /\ masked' = Unnoticed(masked, room', gone', heard')
    /\ hasty' = hasty \ {k}
    /\ UNCHANGED <<session, call>>

\* The process dies and starts again: nothing of this is kept but the rows.
Restart ==
    /\ identity' = [k \in Sockets |-> None]
    /\ joined' = [k \in Sockets |-> None]
    /\ room' = [s \in Sessions |-> {}]
    /\ gone' = {}
    /\ heard' = [k \in Sockets |-> {}]
    /\ masked' = [s \in Sessions |-> {}]
    /\ hasty' = {}
    /\ call' = [c \in Calls |-> NoCall]
    /\ UNCHANGED session

-----------------------------------------------------------------------------
(* The query.                                                              *)

Fault_AnySession(s, who) == session[s].status = "LIVE"
Fault_AnyStatus(s, who) == who \in {session[s].device, session[s].technician}

\* findJoinableSession: live, and of the one who asks.
Joinable(s, who) ==
    /\ session[s].status = "LIVE"
    /\ who \in {session[s].device, session[s].technician}

\* Message c goes on at next if there is a row.  Without one it is refused, and
\* if the query throws it ends without an ACK.
Queried(c, pc, next) ==
    /\ At(c, pc)
    /\ \/ Joinable(call[c].sess, call[c].who) /\ Goto(c, next)
       \/ Done(c)
    /\ UNCHANGED <<session, identity, joined, room, gone, heard, masked>>
    /\ hasty' = StillHasty(hasty)

\* A message of socket k, about session s, arrives.
Arrives(c, k, s, pc) ==
    /\ Free(c)
    /\ identity[k] # None /\ k \notin gone
    /\ call' = [call EXCEPT ![c] =
                  [pc |-> pc, socket |-> k, who |-> identity[k], sess |-> s,
                   late |-> session[s].status = "CLOSED"]]

-----------------------------------------------------------------------------
(* remote-session:join.  A payload that is not valid changes nothing and   *)
(* is not represented.                                                     *)

\* The socket leaves the session it is in before the new one is looked for.
JoinArrives(c, k, s) ==
    /\ Arrives(c, k, s, "joinQuery")
    /\ joined' = [joined EXCEPT ![k] = None]
    /\ room' = RoomsWithout(k)
    /\ heard' = Knowing(Nobody, room', gone)
    /\ masked' = Unnoticed(masked, room', gone, heard')
    /\ hasty' = StillHasty(IF \E b \in Calls : Joining(b, k) THEN hasty \cup {k} ELSE hasty)
    /\ UNCHANGED <<session, identity, gone>>

JoinQueried(c) == Queried(c, "joinQuery", "joinEnter")

\* The own side looked for after the join: the socket finds itself.
Fault_AnnouncesJoin(k, s) ==
    PeersIn(k, s) # {} /\ (room[s] \cup {k}) \cap OwnSide(k) = {}

\* peer-joined is for the first socket of its end only.
AnnouncesJoin(k, s) == PeersIn(k, s) # {} /\ ~OwnSideIn(k, s)

\* The ACK answers whether the join was announced.
Fault_ToldByJoin(k, s) ==
    IF AnnouncesJoin(k, s) THEN {k} \cup PeersIn(k, s) ELSE {}

\* Who learns from the join of k that its peer is there: k by its ACK, and
\* the peers.
ToldByJoin(k, s) ==
    (IF PeersIn(k, s) # {} THEN {k} ELSE {})
      \cup (IF AnnouncesJoin(k, s) THEN PeersIn(k, s) ELSE {})

\* The own side seems to be there, but is not: nobody is told of k.
Masked(k, s) ==
    OwnSideIn(k, s) /\ room[s] \cap OwnSide(k) \subseteq gone \cup masked[s]

\* A socket that has disconnected meanwhile cannot enter a room any more, but
\* the rest of its handler runs all the same; what it writes in the data of a
\* dead socket nobody reads.
JoinEnters(c) ==
    LET k == call[c].socket
        s == call[c].sess
        here == identity[k] # None
    IN
    /\ At(c, "joinEnter")
    /\ joined' = IF here THEN [joined EXCEPT ![k] = s] ELSE joined
    /\ room' = IF here THEN [room EXCEPT ![s] = @ \cup {k}] ELSE room
    /\ heard' = Knowing([Nobody EXCEPT ![s] = ToldByJoin(k, s)], room', gone)
    /\ masked' = LET hidden == IF Masked(k, s) THEN {k} ELSE {}
                 IN  Unnoticed([masked EXCEPT ![s] = @ \cup hidden], room', gone, heard')
    /\ Done(c)
    /\ hasty' = StillHasty(hasty)
    /\ UNCHANGED <<session, identity, gone>>

-----------------------------------------------------------------------------
(* webrtc:offer, webrtc:answer and webrtc:ice-candidate (relaySdp and      *)
(* relayIceCandidate): one and the same handler but for the payload.       *)

\* authorizeRelay.  Any other message is answered NOT_JOINED.
RelayArrives(c, k, s) ==
    /\ Arrives(c, k, s, "relayQuery")
    /\ joined[k] = s
    /\ UNCHANGED <<session, identity, joined, room, knowledge>>

RelayQueried(c) == Queried(c, "relayQuery", "relayEmit")

\* emitToPeer delivers to PeersIn(call[c].socket, call[c].sess), which changes
\* nothing here.
RelayEmits(c) ==
    /\ At(c, "relayEmit")
    /\ Done(c)
    /\ UNCHANGED <<session, identity, joined, room, knowledge>>

-----------------------------------------------------------------------------
Init ==
    /\ session = NoRows
    /\ identity = [k \in Sockets |-> None]
    /\ joined = [k \in Sockets |-> None]
    /\ room = [s \in Sessions |-> {}]
    /\ gone = {}
    /\ heard = [k \in Sockets |-> {}]
    /\ masked = [s \in Sessions |-> {}]
    /\ hasty = {}
    /\ call = [c \in Calls |-> NoCall]

Connections ==
    \/ \E k \in DeviceSockets, d \in Devices : Connects(k, d)
    \/ \E k \in TechnicianSockets, t \in Technicians : Connects(k, t)
    \/ \E k \in Sockets : Vanishes(k) \/ Disconnects(k)

Message(c) ==
    \/ \E k \in Sockets, s \in Sessions : JoinArrives(c, k, s) \/ RelayArrives(c, k, s)
    \/ JoinQueried(c) \/ JoinEnters(c)
    \/ RelayQueried(c) \/ RelayEmits(c)

Next == Rows \/ Connections \/ Restart \/ \E c \in Calls : Message(c)

Spec == Init /\ [][Next]_vars
-----------------------------------------------------------------------------
(* Properties.                                                             *)

\* Every variable keeps its shape.
TypeOK ==
    /\ session \in [Sessions -> [status : {"ABSENT", "LIVE", "CLOSED"},
                                 device : Devices \cup {None},
                                 technician : Technicians \cup {None}]]
    /\ identity \in [Sockets -> Devices \cup Technicians \cup {None}]
    /\ \A k \in DeviceSockets : identity[k] \in Devices \cup {None}
    /\ \A k \in TechnicianSockets : identity[k] \in Technicians \cup {None}
    /\ joined \in [Sockets -> Sessions \cup {None}]
    /\ room \in [Sessions -> SUBSET Sockets]
    /\ gone \in SUBSET Sockets
    /\ heard \in [Sockets -> SUBSET Sessions]
    /\ masked \in [Sessions -> SUBSET Sockets]
    /\ hasty \in SUBSET Sockets
    /\ call \in [Calls -> [pc : Pcs, socket : Sockets \cup {None},
                           who : Devices \cup Technicians \cup {None},
                           sess : Sessions \cup {None}, late : BOOLEAN]]

\* The end of session s that a socket of the side of k belongs to.
EndOf(k, s) == IF k \in DeviceSockets THEN session[s].device ELSE session[s].technician

\* A room holds sockets of the two ends of its session and of nobody else, and
\* every socket that may relay in a session is in its room: an SDP reaches the
\* other end only, whatever joins, disconnections and closes raced with it.
RoomsAreTheirs ==
    /\ \A s \in Sessions : \A k \in room[s] :
         identity[k] # None /\ identity[k] = EndOf(k, s)
    /\ \A k \in Sockets : joined[k] # None => k \in room[joined[k]]

\* The initial race of the negotiation: two ends that are both in the room
\* both know, by ACK or by peer-joined, so neither waits for ever nor sends its
\* offer to an empty room.  Except for a client that came back before its own
\* old socket was found dead.
PeersAreAnnounced ==
    \A s \in Sessions : \A k \in room[s] \ gone :
      PeersIn(k, s) \ (gone \cup masked[s]) # {} => s \in heard[k]

\* Even when clients vanish and come back, two ends that are both in the room do
\* not both wait: the one that came last has been told, whatever dead sockets
\* its own end or the other had left behind.
OneEndKnows ==
    \A s \in Sessions : \A k, p \in room[s] \ gone :
      p \in PeerSide(k) => s \in heard[k] \/ s \in heard[p]

\* signaling.service.ts:71, a socket is in one session at a time: it hears nothing of
\* a session it has left, however slow the query of the join that made it
\* leave, as long as its client waits for the ACK of a join before the next.
\* (One that does not may end up in the rooms of both.)
OneSessionEach ==
    \A s \in Sessions : \A k \in room[s] \ hasty : joined[k] = s

\* A message that arrived once the session was CLOSED is never relayed, even
\* though the socket is still in the room and its last join was valid.
NothingAfterClose == \A c \in Calls : At(c, "relayEmit") => ~call[c].late

-----------------------------------------------------------------------------
(* The inductive invariant behind the properties above.                    *)

\* A message keeps the identity its socket had, which is an end of the session
\* once the query has said so.
CallsOK ==
    \A c \in Calls :
      LET k == call[c].socket
          s == call[c].sess
      IN
      /\ ~Free(c) => /\ k \in Sockets /\ s \in Sessions
                     /\ call[c].who \in IF k \in DeviceSockets THEN Devices ELSE Technicians
                     /\ identity[k] \in {None, call[c].who}
      /\ call[c].pc \in {"joinEnter", "relayEmit"} =>
           call[c].who = EndOf(k, s) /\ session[s].status # "ABSENT"
      /\ call[c].late /\ ~Free(c) => session[s].status = "CLOSED"

\* A socket whose client waits for its ACKs is in no session while it joins one.
JoinsOK ==
    \A k \in Sockets \ hasty : \A c \in Calls :
      Joining(c, k) /\ identity[k] # None =>
        /\ joined[k] = None
        /\ \A b \in Calls : Joining(b, k) => b = c

SessionsOK ==
    \A s \in Sessions : session[s].status = "ABSENT" => session[s] = NoRow

Inductive ==
    /\ TypeOK
    /\ SessionsOK
    /\ CallsOK
    /\ JoinsOK
    /\ OneSessionEach
    /\ RoomsAreTheirs
    /\ NothingAfterClose

-----------------------------------------------------------------------------
(* What the documentation says and the code does not do.                   *)

\* docs/REALTIME.md:901, a client that reconnects and joins again is announced
\* to the waiting peer again.
ReconnectionsAreAnnounced ==
    \A s \in Sessions : \A k \in room[s] \ gone :
      PeersIn(k, s) \ gone # {} => s \in heard[k]
=============================================================================
