-------------------------- MODULE Assistance_proofs --------------------------
(***************************************************************************)
(* The composition: what SupportSessions_proofs and Signaling_proofs show  *)
(* of either part alone holds of the two together, because every step of   *)
(* Assistance is a step, or a stutter, of each.  That it is one of         *)
(* Signaling rests on what the calls keep true of the rows they share.     *)
(***************************************************************************)
EXTENDS Assistance, SupportSessions_proofs

\* Signaling once more, with what is proved of it.
Proved == INSTANCE Signaling_proofs WITH
    session <- seen,
    call    <- message,
    Calls   <- Messages

-----------------------------------------------------------------------------
(* Sockets and presence.                                                   *)

\* What the socket of a tablet says it is.
SocketsOK ==
    /\ identity \in [Signals!Sockets -> Devices \cup Technicians \cup {None}]
    /\ \A k \in DeviceSockets : identity[k] \in Devices \cup {None}

\* A tablet is online exactly while one of its sockets is connected.
PresenceIsOfSockets == online = {identity[k] : k \in DeviceSockets} \ {None}

\* A call does not touch presence.
LEMMA CallsKeepPresence ==
  ASSUME NEW c \in Calls, Start(c) \/ Continue(c) \/ QueryFails(c)
  PROVE  UNCHANGED online
<1>1. Start(c) => UNCHANGED online
  BY DEF Start, StartOpen, StartAnswer, StartCancel, StartAssign, StartCreate,
         StartActivate, StartClose
<1>2. Continue(c) => UNCHANGED online
  BY DEF Continue, OpenInsert, AcceptUpdate, RejectUpdate, AnswerUpdate, AssignUpdate,
         NotifyOpened, NotifyAnswered, NotifyCancelled, NotifyAssigned, NotifyCreated,
         NotifyActivated, NotifyClosed, EmitCaught, EmitUncaught,
         CancelLock, CancelCheck, CancelUpdate, CommitCancel, AssignPresence,
         CreateLock, CreateCheck, CreatePresence, CreateInsert, CommitCreate, ActivateLock, ActivateUpdate, CommitActivate,
         CloseUpdate, CloseComplete, CommitClose, Rollback
<1> QED
  BY <1>1, <1>2 DEF QueryFails

LEMMA MessagesKeepIdentity ==
  ASSUME NEW m \in Messages, Signals!Message(m)
  PROVE  UNCHANGED identity
  BY DEF Signals!Message, Signals!JoinArrives, Signals!RelayArrives, Signals!JoinQueried,
         Signals!RelayQueried, Signals!Queried, Signals!JoinEnters, Signals!RelayEmits

\* handleConnection and handleDisconnect keep the registry and the sockets in step.
LEMMA TabletConnectsStep ==
  ASSUME SocketsOK, PresenceIsOfSockets,
         NEW k \in DeviceSockets, NEW d \in Devices, TabletConnects(k, d)
  PROVE  SocketsOK' /\ PresenceIsOfSockets'
<1>1. /\ identity[k] = None
      /\ identity' = [identity EXCEPT ![k] = d]
      /\ online' = online \cup {d}
  BY DEF TabletConnects, Signals!Connects, DeviceConnects, vars
<1>2. k \in Signals!Sockets
  BY DEF Signals!Sockets
<1>3. SocketsOK'
  BY <1>1, <1>2 DEF SocketsOK
<1>4. PresenceIsOfSockets'
  BY <1>1, <1>2, NoneIsNobody DEF SocketsOK, PresenceIsOfSockets, Signals!Sockets
<1> QED
  BY <1>3, <1>4

LEMMA TechnicianConnectsStep ==
  ASSUME SocketsOK, PresenceIsOfSockets,
         NEW k \in TechnicianSockets, NEW t \in Technicians, TechnicianConnects(k, t)
  PROVE  SocketsOK' /\ PresenceIsOfSockets'
<1>1. /\ identity' = [identity EXCEPT ![k] = t]
      /\ online' = online
  BY DEF TechnicianConnects, Signals!Connects, vars
<1>2. k \in Signals!Sockets /\ k \notin DeviceSockets
  BY TwoKindsOfEnd DEF Signals!Sockets
<1>3. \A j \in DeviceSockets : identity'[j] = identity[j]
  BY <1>1, <1>2 DEF SocketsOK, Signals!Sockets
<1> QED
  BY <1>1, <1>2, <1>3 DEF SocketsOK, PresenceIsOfSockets

LEMMA SocketDisconnectsStep ==
  ASSUME SocketsOK, PresenceIsOfSockets, NEW k \in Signals!Sockets, SocketDisconnects(k)
  PROVE  SocketsOK' /\ PresenceIsOfSockets'
<1>1. /\ identity[k] # None
      /\ identity' = [identity EXCEPT ![k] = None]
  BY DEF SocketDisconnects, Signals!Disconnects
<1>2. SocketsOK'
  BY <1>1 DEF SocketsOK
<1>3. \A j \in DeviceSockets : identity'[j] = IF j = k THEN None ELSE identity[j]
  BY <1>1 DEF SocketsOK, Signals!Sockets
<1>4. CASE LastOfTablet(k)
  <2>1. online' = online \ {identity[k]}
    BY <1>4 DEF SocketDisconnects, DeviceDisconnects
  <2> QED
    BY <1>1, <1>2, <1>3, <1>4, <2>1 DEF PresenceIsOfSockets, LastOfTablet
<1>5. CASE ~LastOfTablet(k)
  <2>1. online' = online
    BY <1>5 DEF SocketDisconnects, vars
  <2>2. k \in DeviceSockets =>
          \E j \in DeviceSockets \ {k} : identity[j] = identity[k]
    BY <1>5 DEF LastOfTablet
  <2> QED
    BY <1>1, <1>2, <1>3, <2>1, <2>2 DEF PresenceIsOfSockets
<1> QED
  BY <1>4, <1>5

LEMMA ProcessDiesStep ==
  ASSUME ProcessDies
  PROVE  SocketsOK' /\ PresenceIsOfSockets'
<1>1. /\ identity' = [k \in Signals!Sockets |-> None]
      /\ online' = {}
  BY DEF ProcessDies, Crash, Signals!Restart
<1> QED
  BY <1>1 DEF SocketsOK, PresenceIsOfSockets, Signals!Sockets

LEMMA PresenceInvariant == AssistanceSpec => [](SocketsOK /\ PresenceIsOfSockets)
<1>1. AssistanceInit => SocketsOK /\ PresenceIsOfSockets
  BY DEF AssistanceInit, Init, Signals!Init, SocketsOK, PresenceIsOfSockets, Signals!Sockets
<1>2. ASSUME SocketsOK, PresenceIsOfSockets, [AssistanceNext]_<<vars, signaling>>
      PROVE  SocketsOK' /\ PresenceIsOfSockets'
  <2>1. CASE UNCHANGED <<online, identity>>
    BY <1>2, <2>1 DEF SocketsOK, PresenceIsOfSockets
  <2>2. CallStep => UNCHANGED <<online, identity>>
    BY CallsKeepPresence DEF CallStep, signaling
  <2>3. MessageStep => UNCHANGED <<online, identity>>
    BY MessagesKeepIdentity DEF MessageStep, vars
  <2>4. ASSUME NEW k \in Signals!Sockets, ClientVanishes(k)
        PROVE  UNCHANGED <<online, identity>>
    BY <2>4 DEF ClientVanishes, Signals!Vanishes, vars
  <2>5. SocketStep => SocketsOK' /\ PresenceIsOfSockets'
    BY <1>2, <2>1, <2>4, TabletConnectsStep, TechnicianConnectsStep, SocketDisconnectsStep
    DEF SocketStep, Signals!Sockets
  <2>6. UNCHANGED <<vars, signaling>> => UNCHANGED <<online, identity>>
    BY DEF vars, signaling
  <2> QED
    BY <1>2, <2>1, <2>2, <2>3, <2>5, <2>6, ProcessDiesStep DEF AssistanceNext
<1> QED
  BY <1>1, <1>2, PTL DEF AssistanceSpec

-----------------------------------------------------------------------------
(* Each step is a step of SupportSessions.                                 *)

LEMMA SessionsStep ==
  ASSUME SocketsOK, [AssistanceNext]_<<vars, signaling>>
  PROVE  [Next]_vars
<1>1. CallStep => Next
  BY DEF CallStep, Next, LivingNext
<1>2. MessageStep => UNCHANGED vars
  BY DEF MessageStep
<1>3. ASSUME NEW k \in DeviceSockets, NEW d \in Devices, TabletConnects(k, d)
      PROVE  [Next]_vars
  BY <1>3 DEF TabletConnects, Next, LivingNext
<1>4. ASSUME NEW k \in Signals!Sockets, SocketDisconnects(k)
      PROVE  [Next]_vars
  <2>1. k \in DeviceSockets => identity[k] \in Devices
    BY <1>4 DEF SocketsOK, SocketDisconnects
  <2> QED
    BY <1>4, <2>1 DEF SocketDisconnects, LastOfTablet, Next, LivingNext
<1>5. SocketStep => [Next]_vars
  BY <1>3, <1>4 DEF SocketStep, TechnicianConnects, ClientVanishes, Signals!Sockets
<1>6. ProcessDies => Next
  BY DEF ProcessDies, Next, LivingNext
<1> QED
  BY <1>1, <1>2, <1>5, <1>6 DEF AssistanceNext, vars

\* The calls do together with the signaling what they do alone: all that is proved
\* of SupportSessions holds here.
THEOREM SessionsAreImplemented == AssistanceSpec => ImplementsSessions
<1>1. AssistanceInit => Init
  BY DEF AssistanceInit
<1>2. SocketsOK /\ [AssistanceNext]_<<vars, signaling>> => [Next]_vars
  BY SessionsStep
<1> QED
  BY <1>1, <1>2, PresenceInvariant, PTL DEF AssistanceSpec, Spec, ImplementsSessions

-----------------------------------------------------------------------------
(* Each step is a step of Signaling, too: what it expects of the rows, the *)
(* calls do (RowsStayAsExpected).                                          *)

\* Signaling reads the rows as SupportSessions shows them.
LEMMA SameChanges ==
  /\ Signals!Changes <=> Seen!Changes
  /\ Signals!NoRows = Seen!NoRows
  BY DEF Signals!Changes, Seen!Changes, Signals!Opens, Seen!Opens, Signals!Closes, Seen!Closes,
         Signals!NoRows, Seen!NoRows, Signals!NoRow, Seen!NoRow

LEMMA CallStepsMakeRows ==
  ASSUME Inductive, [Next]_vars, UNCHANGED signaling
  PROVE  [Signals!Rows]_seen
<1>1. Signals!Changes \/ UNCHANGED seen
  BY RowSteps, SameChanges
<1> QED
  BY <1>1 DEF Signals!Rows, Signals!knowledge, signaling

LEMMA SignalingInit ==
  ASSUME AssistanceInit
  PROVE  Signals!Init
  BY DEF AssistanceInit

LEMMA SignalingStep ==
  ASSUME Inductive, SocketsOK, [AssistanceNext]_<<vars, signaling>>
  PROVE  [Signals!Next]_Signals!vars
<1>1. CASE CallStep
  <2>1. [Signals!Rows]_seen /\ UNCHANGED signaling
    BY <1>1, SessionsStep, CallStepsMakeRows DEF CallStep
  <2> QED
    BY <2>1 DEF Signals!Next, Signals!vars, signaling
<1>2. CASE MessageStep
  BY <1>2 DEF MessageStep, Signals!Next
<1>3. CASE SocketStep
  BY <1>3 DEF SocketStep, TabletConnects, TechnicianConnects, ClientVanishes,
              SocketDisconnects, Signals!Next, Signals!Connections, Signals!Sockets
<1>4. CASE ProcessDies
  BY <1>4 DEF ProcessDies, Signals!Next
<1>5. CASE UNCHANGED <<vars, signaling>>
  BY <1>5 DEF vars, signaling, Signals!vars, seen
<1> QED
  BY <1>1, <1>2, <1>3, <1>4, <1>5 DEF AssistanceNext

\* The signaling does together with the calls what it does alone.
THEOREM SignalingIsImplemented == AssistanceSpec => ImplementsSignaling
<1>1. AssistanceInit => Signals!Init
  BY SignalingInit
<1>2. Inductive /\ SocketsOK /\ [AssistanceNext]_<<vars, signaling>>
        => [Signals!Next]_Signals!vars
  BY SignalingStep
<1> QED
  BY <1>1, <1>2, Invariance, SessionsAreImplemented, PresenceInvariant, PTL
  DEF AssistanceSpec, ImplementsSessions, ImplementsSignaling, Signals!Spec

-----------------------------------------------------------------------------
(* What is proved of Signaling holds here.                                 *)

\* The assumptions of Signaling follow from those of Assistance.
LEMMA SignalingAssumptions ==
  /\ None \notin Devices \cup Technicians \cup Sessions \cup Proved!Sockets
  /\ DeviceSockets \cap TechnicianSockets = {} /\ Devices \cap Technicians = {}
  BY NoneIsNobody, SocketsAreNotNone, TwoKindsOfEnd DEF Proved!Sockets

LEMMA SameInit == Signals!Init <=> Proved!Init
  BY DEF Signals!Init, Proved!Init, Signals!NoRows, Proved!NoRows, Signals!NoRow, Proved!NoRow,
         Signals!NoCall, Proved!NoCall, Signals!Sockets, Proved!Sockets

LEMMA SameRowSteps == Signals!Rows <=> Proved!Rows
  BY DEF Signals!Rows, Proved!Rows, Signals!Changes, Proved!Changes, Signals!Opens, Proved!Opens,
         Signals!Closes, Proved!Closes, Signals!knowledge, Proved!knowledge

LEMMA SameRestart == Signals!Restart <=> Proved!Restart
  BY DEF Signals!Restart, Proved!Restart, Signals!Sockets, Proved!Sockets,
         Signals!NoCall, Proved!NoCall

LEMMA SameOperators ==
  /\ Signals!Sockets = Proved!Sockets
  /\ Signals!NoCall = Proved!NoCall
  /\ Signals!Nobody = Proved!Nobody
  /\ \A k : Signals!PeerSide(k) = Proved!PeerSide(k)
  /\ \A k : Signals!OwnSide(k) = Proved!OwnSide(k)
  /\ \A k : Signals!RoomsWithout(k) = Proved!RoomsWithout(k)
  /\ \A k, s : Signals!PeersIn(k, s) = Proved!PeersIn(k, s)
  /\ \A k, s : Signals!OwnSideIn(k, s) = Proved!OwnSideIn(k, s)
  /\ \A told, r, g : Signals!Knowing(told, r, g) = Proved!Knowing(told, r, g)
  /\ \A m, r, g, h : Signals!Unnoticed(m, r, g, h) = Proved!Unnoticed(m, r, g, h)
  /\ \A h : Signals!StillHasty(h) = Proved!StillHasty(h)
<1>1. /\ Signals!Sockets = Proved!Sockets
      /\ Signals!NoCall = Proved!NoCall
      /\ Signals!Nobody = Proved!Nobody
  BY DEF Signals!Sockets, Proved!Sockets, Signals!NoCall, Proved!NoCall,
         Signals!Nobody, Proved!Nobody
<1>2. /\ \A k : Signals!PeerSide(k) = Proved!PeerSide(k)
      /\ \A k : Signals!OwnSide(k) = Proved!OwnSide(k)
      /\ \A k : Signals!RoomsWithout(k) = Proved!RoomsWithout(k)
  BY DEF Signals!PeerSide, Proved!PeerSide, Signals!OwnSide, Proved!OwnSide,
         Signals!RoomsWithout, Proved!RoomsWithout
<1>3. /\ \A k, s : Signals!PeersIn(k, s) = Proved!PeersIn(k, s)
      /\ \A k, s : Signals!OwnSideIn(k, s) = Proved!OwnSideIn(k, s)
  BY <1>2 DEF Signals!PeersIn, Proved!PeersIn, Signals!OwnSideIn, Proved!OwnSideIn
<1>4. \A told, r, g : Signals!Knowing(told, r, g) = Proved!Knowing(told, r, g)
  BY <1>1, <1>2 DEF Signals!Knowing, Proved!Knowing
<1>5. \A m, r, g, h : Signals!Unnoticed(m, r, g, h) = Proved!Unnoticed(m, r, g, h)
  BY <1>2 DEF Signals!Unnoticed, Proved!Unnoticed
<1>6. \A h : Signals!StillHasty(h) = Proved!StillHasty(h)
  BY DEF Signals!StillHasty, Proved!StillHasty, Signals!Joining, Proved!Joining
<1> QED
  BY <1>1, <1>2, <1>3, <1>4, <1>5, <1>6

LEMMA SameConnections == Signals!Connections <=> Proved!Connections
  BY SameOperators
  DEF Signals!Connections, Proved!Connections, Signals!Connects, Proved!Connects,
      Signals!Vanishes, Proved!Vanishes, Signals!Disconnects, Proved!Disconnects,
      Signals!knowledge, Proved!knowledge

LEMMA SameMessages ==
  ASSUME NEW m \in Messages
  PROVE  Signals!Message(m) <=> Proved!Message(m)
<1>1. /\ \A pc : Signals!At(m, pc) <=> Proved!At(m, pc)
      /\ \A pc : Signals!Goto(m, pc) <=> Proved!Goto(m, pc)
      /\ Signals!Free(m) <=> Proved!Free(m)
      /\ Signals!Done(m) <=> Proved!Done(m)
  BY SameOperators
  DEF Signals!At, Proved!At, Signals!Goto, Proved!Goto, Signals!Free, Proved!Free,
      Signals!Done, Proved!Done
<1>2. \A s, who : Signals!Joinable(s, who) <=> Proved!Joinable(s, who)
  BY DEF Signals!Joinable, Proved!Joinable
<1>3. \A pc, next : Signals!Queried(m, pc, next) <=> Proved!Queried(m, pc, next)
  BY <1>1, <1>2, SameOperators DEF Signals!Queried, Proved!Queried
<1>4. \A k, s, pc : Signals!Arrives(m, k, s, pc) <=> Proved!Arrives(m, k, s, pc)
  BY <1>1 DEF Signals!Arrives, Proved!Arrives
<1>5. \A k, s : Signals!JoinArrives(m, k, s) <=> Proved!JoinArrives(m, k, s)
  <2> SUFFICES ASSUME NEW k, NEW s
               PROVE  Signals!JoinArrives(m, k, s) <=> Proved!JoinArrives(m, k, s)
    OBVIOUS
  <2>1. (\E b \in Messages : Signals!Joining(b, k)) <=> (\E b \in Messages : Proved!Joining(b, k))
    BY DEF Signals!Joining, Proved!Joining
  <2> QED
    BY <1>4, <2>1, SameOperators DEF Signals!JoinArrives, Proved!JoinArrives
<1>6. \A k, s : Signals!RelayArrives(m, k, s) <=> Proved!RelayArrives(m, k, s)
  BY <1>4 DEF Signals!RelayArrives, Proved!RelayArrives,
              Signals!knowledge, Proved!knowledge
<1>7. \A k, s : Signals!ToldByJoin(k, s) = Proved!ToldByJoin(k, s)
  BY SameOperators DEF Signals!ToldByJoin, Proved!ToldByJoin,
                       Signals!AnnouncesJoin, Proved!AnnouncesJoin
<1>8. \A k, s : Signals!Masked(k, s) <=> Proved!Masked(k, s)
  BY SameOperators DEF Signals!Masked, Proved!Masked
<1>9. Signals!JoinEnters(m) <=> Proved!JoinEnters(m)
  BY <1>1, <1>7, <1>8, SameOperators DEF Signals!JoinEnters, Proved!JoinEnters
<1>10. Signals!RelayEmits(m) <=> Proved!RelayEmits(m)
  BY <1>1 DEF Signals!RelayEmits, Proved!RelayEmits,
              Signals!knowledge, Proved!knowledge
<1> QED
  BY <1>3, <1>5, <1>6, <1>9, <1>10, SameOperators
  DEF Signals!Message, Proved!Message, Signals!JoinQueried, Proved!JoinQueried,
      Signals!RelayQueried, Proved!RelayQueried

LEMMA ProvedSpec == Signals!Spec => Proved!Spec
<1>1. [Signals!Next]_Signals!vars => [Proved!Next]_Proved!vars
  BY SameRowSteps, SameConnections, SameRestart, SameMessages
  DEF Signals!Next, Proved!Next, Signals!vars, Proved!vars
<1> QED
  BY <1>1, SameInit, PTL DEF Signals!Spec, Proved!Spec

\* Who is in a room is an end of the request behind its session, and so is whoever
\* has got past the query of join or of a relay.
LEMMA ConsentFollows ==
  ASSUME Inductive, Proved!Inductive
  PROVE  OnlyByConsent
<1>1. RowsOK /\ Consistent /\ TypeOK
  BY DEF Inductive
<1>2. ASSUME NEW s \in Sessions, session[s].status # "ABSENT"
      PROVE  EndsOfConsent(session[s].request) = {session[s].device, session[s].technician}
  BY <1>1, <1>2 DEF Consistent, EndsOfConsent
<1>3. ASSUME NEW s \in Sessions, NEW k
      PROVE  Proved!EndOf(k, s) \in {session[s].device, session[s].technician}
  BY DEF Proved!EndOf, seen, SignalingRow
<1>4. ASSUME NEW s \in Sessions, NEW k \in room[s]
      PROVE  identity[k] \in EndsOfConsent(session[s].request)
  <2>1. identity[k] # None /\ identity[k] = Proved!EndOf(k, s)
    BY DEF Proved!Inductive, Proved!RoomsAreTheirs
  <2>2. session[s].status # "ABSENT"
    BY <1>1, <1>3, <2>1 DEF RowsOK, NoSession
  <2> QED
    BY <1>2, <1>3, <2>1, <2>2
<1>5. ASSUME NEW m \in Messages, message[m].pc \in {"joinEnter", "relayEmit"}
      PROVE  message[m].who \in EndsOfConsent(session[message[m].sess].request)
  <2> DEFINE s == message[m].sess
  <2>1. /\ s \in Sessions
        /\ message[m].who = Proved!EndOf(message[m].socket, s)
        /\ SignalingRow(session[s]).status # "ABSENT"
    BY <1>5 DEF Proved!Inductive, Proved!CallsOK, Proved!Free, Proved!At, seen
  <2>2. session[s].status # "ABSENT"
    BY <2>1 DEF SignalingRow, IsLive, LiveSessionStatuses
  <2> QED
    BY <1>2, <1>3, <2>1, <2>2
<1> QED
  BY <1>4, <1>5 DEF OnlyByConsent

\* Nobody is let into a room, nor has anything relayed there, but the tablet of the
\* request behind the session and the technician whom that tablet has accepted:
\* acceptByDevice, cancelByDevice, create, join and authorizeRelay together.
THEOREM ConsentIsNeeded == AssistanceSpec => []OnlyByConsent
<1>1. AssistanceSpec => []Inductive
  BY Invariance, SessionsAreImplemented, PTL DEF ImplementsSessions
<1>2. AssistanceSpec => Proved!Spec
  BY SignalingIsImplemented, ProvedSpec, PTL DEF ImplementsSignaling
<1>3. Proved!Spec => []Proved!Inductive
  BY Proved!Invariance, SignalingAssumptions
<1>4. AssistanceSpec => []Proved!Inductive
  BY <1>2, <1>3, PTL
<1> QED
  BY <1>1, <1>4, ConsentFollows, PTL
=============================================================================
