--------------------------- MODULE SupportSessions ---------------------------
(***************************************************************************)
(* SupportRequestsService and RemoteSessionsService over PostgreSQL (READ  *)
(* COMMITTED).  An HTTP call is a process that runs one SQL statement, or  *)
(* one synchronous stretch of the handler, per step; the calls in progress *)
(* interleave at every await.                                              *)
(*                                                                         *)
(*   - request and session hold committed rows only.  What an open         *)
(*     transaction has written is visible to its own statements and to the *)
(*     unique indexes, and is installed by its COMMIT.                     *)
(*   - requestLock and sessionLock hold the row locks a transaction keeps  *)
(*     until it ends: SELECT ... FOR UPDATE, an UPDATE and an INSERT take  *)
(*     one.  A statement whose WHERE already fails on the committed row    *)
(*     returns without waiting, as PostgreSQL's does; otherwise it waits   *)
(*     for the lock and judges the row as the previous holder left it.     *)
(*   - outside a transaction a statement commits by itself.                *)
(*                                                                         *)
(* A Fault_X is a slip the code could have made in X.  No definition uses  *)
(* it: it takes the place of X to see which property notices.              *)
(***************************************************************************)
EXTENDS AssistanceRows

CONSTANTS
    Calls,          \* HTTP calls the process serves at the same time
    EmitMayFail,    \* whether handing a notice to Socket.IO may throw
    QueriesMayFail, \* whether PostgreSQL may fail to answer a statement
    MayDisconnect   \* whether a device that connected may go again

ASSUME CallsAreNotNone == None \notin Calls
ASSUME SwitchesAreBooleans ==
    EmitMayFail \in BOOLEAN /\ QueriesMayFail \in BOOLEAN /\ MayDisconnect \in BOOLEAN

VARIABLES
    request,      \* support_requests, committed
    session,      \* remote_sessions, committed
    requestLock,  \* the transaction holding each request row
    sessionLock,  \* the transaction holding each session row
    call,         \* where each call is, and its local variables
    online,       \* DevicePresenceService: devices with a registered socket
    sent,         \* history: the notices handed to Socket.IO so far
    lost          \* history: those that a failure has kept from it

tables == <<request, session>>
locks == <<requestLock, sessionLock>>
vars == <<request, session, requestLock, sessionLock, call, online, sent, lost>>

(***************************************************************************)
(* The state of a call.  "idle" is a free slot, left by an answer 2xx, 404 *)
(* or 409; "failed" is a free slot whose last answer was a 500.            *)
(***************************************************************************)
FreePcs == {"idle", "failed"}

\* Inside a transaction, holding the row of call.req.
RequestHolding == {"cancelCheck", "cancelUpdate", "commitCancel",
                   "createCheck", "createPresence", "createInsert",
                   "commitCreate", "commitClose"}

\* Inside a transaction, holding the row of call.sess.
SessionHolding == {"commitCreate", "activateUpdate", "commitActivate",
                   "closeComplete", "commitClose"}

\* Committed, and about to run the synchronous tail of the handler.
NotifyPcs == {"notifyOpened", "notifyAccepted", "notifyRejected",
              "notifyCancelled", "notifyAssigned", "notifyCreated",
              "notifyActivated", "notifyClosed"}

Pcs == FreePcs \cup RequestHolding \cup SessionHolding \cup NotifyPcs
         \cup {"openInsert", "acceptUpdate", "rejectUpdate", "cancelLock",
               "assignPresence", "assignUpdate", "createLock", "activateLock", "closeUpdate",
               "rollback"}

CallState ==
    [pc : Pcs,
     actor : Devices \cup Technicians \cup {None},
     req : Requests \cup {None},
     sess : Sessions \cup {None},
     seen : ActiveRequestStatuses \cup TerminalRequestStatuses
              \cup LiveSessionStatuses \cup {"CLOSED", "none"},
     end : Ends \cup {None}]

NoCall == [pc |-> "idle", actor |-> None, req |-> None, sess |-> None,
           seen |-> "none", end |-> None]

At(c, pc) == call[c].pc = pc
Free(c) == call[c].pc \in FreePcs

Become(c, state) == call' = [call EXCEPT ![c] = state]
Goto(c, pc) == Become(c, [call[c] EXCEPT !.pc = pc])

\* The answers: 2xx after the work, 404 or 409 instead of it, and 500.
Answered(c) == Become(c, NoCall)
Refused(c) == Become(c, NoCall)
Failed(c) == Become(c, [NoCall EXCEPT !.pc = "failed"])

-----------------------------------------------------------------------------
(* Notices: the domain events handed to Socket.IO, each tagged with the    *)
(* status it announces or with the end it is addressed to.                 *)

Notice == ({"queue-updated", "request-updated", "assigned"} \X Requests
              \X (ActiveRequestStatuses \cup TerminalRequestStatuses))
            \cup ({"created", "active", "closed"} \X Sessions \X Ends)

Fault_OtherEnd(end) == "SYSTEM"

\* The end that hears of a close: the one that did not ask for it.
OtherEnd(end) == IF end = "DEVICE" THEN "TECHNICIAN" ELSE "DEVICE"

Fault_CancelNotice(c) == <<"request-updated", call[c].req, "CANCELLED">>

\* A cancellation concerns the shared queue if nobody had taken the request,
\* and the technician who had it otherwise.
CancelNotice(c) ==
    IF call[c].seen = "WAITING"
      THEN <<"queue-updated", call[c].req, "CANCELLED">>
      ELSE <<"request-updated", call[c].req, "CANCELLED">>

Fault_ActiveNotices(c) == {<<"active", call[c].sess, "TECHNICIAN">>}
ActiveNotices(c) == {<<"active", call[c].sess, e>> : e \in Ends}

\* What call c is about to announce.
NoticesOf(c) ==
    CASE At(c, "notifyOpened")    -> {<<"queue-updated", call[c].req, "WAITING">>}
      [] At(c, "notifyAccepted")  -> {<<"request-updated", call[c].req, "ACCEPTED">>}
      [] At(c, "notifyRejected")  -> {<<"request-updated", call[c].req, "REJECTED">>}
      [] At(c, "notifyCancelled") -> {CancelNotice(c)}
      [] At(c, "notifyAssigned")  -> {<<"assigned", call[c].req, "ASSIGNED">>,
                                      <<"queue-updated", call[c].req, "ASSIGNED">>}
      [] At(c, "notifyCreated")   -> {<<"created", call[c].sess, "DEVICE">>}
      [] At(c, "notifyActivated") -> ActiveNotices(c)
      [] At(c, "notifyClosed")    -> {<<"closed", call[c].sess, OtherEnd(call[c].end)>>}
      [] OTHER                    -> {}

\* Which of the notices N get through.
Delivered(N) == IF EmitMayFail THEN SUBSET N ELSE {N}

\* Of what call c had to announce only D has been.
Announced(c, D) ==
    /\ sent' = sent \cup D
    /\ lost' = lost \cup (NoticesOf(c) \ D)

\* A handler that catches and logs a transport error answers all the same.
EmitCaught(c) ==
    /\ \E D \in Delivered(NoticesOf(c)) : Announced(c, D)
    /\ Answered(c)
    /\ UNCHANGED <<tables, locks, online>>

\* notifyCreated and notifyDeviceClosed let it out: Nest answers 500.
EmitUncaught(c) ==
    /\ \E D \in Delivered(NoticesOf(c)) :
         /\ Announced(c, D)
         /\ IF D = NoticesOf(c) THEN Answered(c) ELSE Failed(c)
    /\ UNCHANGED <<tables, locks, online>>

-----------------------------------------------------------------------------
(* Row locks and unique indexes.                                           *)

Fault_LockRequest(c, r) == UNCHANGED requestLock
LockRequest(c, r) == requestLock' = [requestLock EXCEPT ![r] = c]
LockSession(c, s) == sessionLock' = [sessionLock EXCEPT ![s] = c]

Unlock(c) ==
    /\ requestLock' = [r \in Requests |->
                         IF requestLock[r] = c THEN None ELSE requestLock[r]]
    /\ sessionLock' = [s \in Sessions |->
                         IF sessionLock[s] = c THEN None ELSE sessionLock[s]]

\* The open transaction that has written row r, or row s, if there is one.
RequestWriter(r) ==
    {c \in Calls : requestLock[r] = c /\ call[c].pc \in {"commitCancel", "commitClose"}}

SessionWriter(s) ==
    {c \in Calls :
       /\ sessionLock[s] = c
       /\ \/ call[c].pc \in {"closeComplete", "commitClose", "commitCreate"}
          \/ At(c, "commitActivate") /\ call[c].seen = "CONNECTING"}

\* The row create() inserts: the device is the request's, the technician the
\* authenticated user.
NewSession(c) ==
    ConnectingSession(call[c].req, request[call[c].req].device, call[c].actor)

\* Row s as a unique index sees it, an insert that has not committed included.
IndexedSession(s) ==
    IF \E c \in SessionWriter(s) : At(c, "commitCreate")
      THEN NewSession(sessionLock[s])
      ELSE session[s]

\* IDX_support_requests_device_active.
SameActiveDevice(d) ==
    {r \in Requests : request[r].device = d /\ IsActive(request[r])}

\* The three unique indexes of remote_sessions: one session per request, one
\* live session per device, one live session per technician.
SameRequest(new, old) == old.request = new.request
SameLiveDevice(new, old) == IsLive(old) /\ old.device = new.device
Fault_SameLiveTechnician(new, old) == FALSE
SameLiveTechnician(new, old) == IsLive(old) /\ old.technician = new.technician

Colliding(c) ==
    {s \in Sessions :
       LET old == IndexedSession(s)
           new == NewSession(c)
       IN  /\ old.status # "ABSENT"
           /\ \/ SameRequest(new, old)
              \/ SameLiveDevice(new, old)
              \/ SameLiveTechnician(new, old)}

\* An insert that collides with a row an open transaction has written waits
\* for that transaction to end.
RequestInsertWaitsFor(d) == UNION {RequestWriter(r) : r \in SameActiveDevice(d)}
SessionInsertWaitsFor(c) == UNION {SessionWriter(s) : s \in Colliding(c)}

-----------------------------------------------------------------------------
(* SupportRequestsService.createForDevice                                  *)

StartOpen(c, d) ==
    /\ Free(c)
    /\ Become(c, [NoCall EXCEPT !.pc = "openInsert", !.actor = d])
    /\ UNCHANGED <<tables, locks, online, sent, lost>>

\* INSERT, committing by itself.  BOUND: with every id of Requests in use the
\* insert is refused, which only ends the exploration.
OpenInsert(c) ==
    LET d == call[c].actor IN
    /\ At(c, "openInsert")
    /\ RequestInsertWaitsFor(d) = {}
    /\ IF \/ SameActiveDevice(d) # {}
          \/ \A r \in Requests : request[r].status # "ABSENT"
         THEN Refused(c) /\ UNCHANGED request
         ELSE \E r \in Requests :
                /\ request[r].status = "ABSENT"
                /\ request' = [request EXCEPT ![r] = WaitingRequest(d)]
                /\ Become(c, [call[c] EXCEPT !.pc = "notifyOpened", !.req = r])
    /\ UNCHANGED <<session, locks, online, sent, lost>>

NotifyOpened(c) == At(c, "notifyOpened") /\ EmitCaught(c)

-----------------------------------------------------------------------------
(* acceptByDevice and rejectByDevice: findOwnedByDeviceOrFail, then one    *)
(* conditional UPDATE that commits by itself.                              *)

OwnedByDevice(r, d) == request[r].status # "ABSENT" /\ request[r].device = d

StartAnswer(c, d, r, pc) ==
    /\ Free(c)
    /\ OwnedByDevice(r, d)
    /\ Become(c, [NoCall EXCEPT !.pc = pc, !.actor = d, !.req = r])
    /\ UNCHANGED <<tables, locks, online, sent, lost>>

Fault_CanAnswer(r) == request[r].status # "WAITING"
CanAnswer(r) == request[r].status = "ASSIGNED"

AnswerUpdate(c, pc, answer, next) ==
    LET r == call[c].req IN
    /\ At(c, pc)
    /\ CanAnswer(r) => requestLock[r] = None
    /\ IF CanAnswer(r)
         THEN /\ request' = [request EXCEPT ![r].status = answer]
              /\ Goto(c, next)
         ELSE Refused(c) /\ UNCHANGED request
    /\ UNCHANGED <<session, locks, online, sent, lost>>

AcceptUpdate(c) == AnswerUpdate(c, "acceptUpdate", "ACCEPTED", "notifyAccepted")
RejectUpdate(c) == AnswerUpdate(c, "rejectUpdate", "REJECTED", "notifyRejected")

NotifyAnswered(c) ==
    /\ call[c].pc \in {"notifyAccepted", "notifyRejected"}
    /\ EmitCaught(c)

-----------------------------------------------------------------------------
(* cancelByDevice: one transaction that locks the request row first.       *)

StartCancel(c, d, r) ==
    /\ Free(c)
    /\ OwnedByDevice(r, d)
    /\ Become(c, [NoCall EXCEPT !.pc = "cancelLock", !.actor = d, !.req = r])
    /\ UNCHANGED <<tables, locks, online, sent, lost>>

\* Only an ACCEPTED request can have a session to look for.
AfterCancelLock(status) ==
    CASE status = "ACCEPTED"              -> "cancelCheck"
      [] status \in {"WAITING", "ASSIGNED"} -> "cancelUpdate"
      [] OTHER                            -> "rollback"

\* lockOwnedByDeviceOrFail and the test of the status it returns.
CancelLock(c) ==
    LET r == call[c].req
        status == request[r].status
    IN
    /\ At(c, "cancelLock")
    /\ requestLock[r] = None
    /\ LockRequest(c, r)
    /\ Become(c, [call[c] EXCEPT !.pc = AfterCancelLock(status), !.seen = status])
    /\ UNCHANGED <<tables, sessionLock, online, sent, lost>>

Fault_HasLiveRemoteSession(r) == FALSE
HasLiveRemoteSession(r) ==
    \E s \in Sessions : session[s].request = r /\ IsLive(session[s])

CancelCheck(c) ==
    /\ At(c, "cancelCheck")
    /\ Goto(c, IF HasLiveRemoteSession(call[c].req) THEN "rollback" ELSE "cancelUpdate")
    /\ UNCHANGED <<tables, locks, online, sent, lost>>

\* The conditional UPDATE, on the row this transaction has locked.
CancelUpdate(c) ==
    /\ At(c, "cancelUpdate")
    /\ Goto(c, IF IsActive(request[call[c].req]) THEN "commitCancel" ELSE "rollback")
    /\ UNCHANGED <<tables, locks, online, sent, lost>>

CommitCancel(c) ==
    /\ At(c, "commitCancel")
    /\ request' = [request EXCEPT ![call[c].req].status = "CANCELLED"]
    /\ Unlock(c)
    /\ Goto(c, "notifyCancelled")
    /\ UNCHANGED <<session, online, sent, lost>>

NotifyCancelled(c) == At(c, "notifyCancelled") /\ EmitCaught(c)

-----------------------------------------------------------------------------
(* assign: a plain read, the presence of the device, one conditional       *)
(* UPDATE that commits by itself.                                          *)

Fault_CanTake(r) == request[r].status \in {"WAITING", "ASSIGNED"}
CanTake(r) == request[r].status = "WAITING"

StartAssign(c, t, r) ==
    /\ Free(c)
    /\ CanTake(r)
    /\ Become(c, [NoCall EXCEPT !.pc = "assignPresence", !.actor = t, !.req = r])
    /\ UNCHANGED <<tables, locks, online, sent, lost>>

\* The answer to that read is there: is the device online now?
AssignPresence(c) ==
    /\ At(c, "assignPresence")
    /\ IF request[call[c].req].device \in online THEN Goto(c, "assignUpdate")
                                                ELSE Refused(c)
    /\ UNCHANGED <<tables, locks, online, sent, lost>>

AssignUpdate(c) ==
    LET r == call[c].req IN
    /\ At(c, "assignUpdate")
    /\ CanTake(r) => requestLock[r] = None
    /\ IF CanTake(r)
         THEN /\ request' = [request EXCEPT ![r].status = "ASSIGNED",
                                            ![r].technician = call[c].actor]
              /\ Goto(c, "notifyAssigned")
         ELSE Refused(c) /\ UNCHANGED request
    /\ UNCHANGED <<session, locks, online, sent, lost>>

\* notifyAssigned comes first and is not caught: when it throws, the queue
\* notice is not even attempted and the answer is a 500.  The queue notice
\* itself is caught.
NotifyAssigned(c) ==
    LET device == <<"assigned", call[c].req, "ASSIGNED">> IN
    /\ At(c, "notifyAssigned")
    /\ \E D \in Delivered(NoticesOf(c)) :
         IF device \in D
           THEN Announced(c, D) /\ Answered(c)
           ELSE Announced(c, {}) /\ Failed(c)
    /\ UNCHANGED <<tables, locks, online>>

-----------------------------------------------------------------------------
(* RemoteSessionsService.create: one transaction that locks the request    *)
(* row, which is where it meets cancelByDevice.                            *)

OwnedByTechnician(row, t) == row.status # "ABSENT" /\ row.technician = t

StartCreate(c, t, r) ==
    /\ Free(c)
    /\ OwnedByTechnician(request[r], t)
    /\ Become(c, [NoCall EXCEPT !.pc = "createLock", !.actor = t, !.req = r])
    /\ UNCHANGED <<tables, locks, online, sent, lost>>

CreateLock(c) ==
    LET r == call[c].req IN
    /\ At(c, "createLock")
    /\ requestLock[r] = None
    /\ LockRequest(c, r)
    /\ Goto(c, IF request[r].status = "ACCEPTED" THEN "createCheck" ELSE "rollback")
    /\ UNCHANGED <<tables, sessionLock, online, sent, lost>>

Fault_TechnicianHasLiveSession(t) == FALSE
TechnicianHasLiveSession(t) ==
    \E s \in Sessions : session[s].technician = t /\ IsLive(session[s])

CreateCheck(c) ==
    /\ At(c, "createCheck")
    /\ Goto(c, IF TechnicianHasLiveSession(call[c].actor)
                 THEN "rollback" ELSE "createPresence")
    /\ UNCHANGED <<tables, locks, online, sent, lost>>

CreatePresence(c) ==
    /\ At(c, "createPresence")
    /\ Goto(c, IF request[call[c].req].device \in online
                 THEN "createInsert" ELSE "rollback")
    /\ UNCHANGED <<tables, locks, online, sent, lost>>

\* save(): the unique indexes decide, once no open transaction is involved.
\* The read of the Device row that follows (findOneByOrFail) changes nothing; that
\* it fails is the QueryFails of a call about to commit.
\* BOUND: an id is free as long as Sessions has as many as Requests.
CreateInsert(c) ==
    /\ At(c, "createInsert")
    /\ SessionInsertWaitsFor(c) = {}
    /\ IF Colliding(c) # {}
         THEN Goto(c, "rollback") /\ UNCHANGED sessionLock
         ELSE \E s \in Sessions :
                /\ session[s].status = "ABSENT"
                /\ sessionLock[s] = None
                /\ LockSession(c, s)
                /\ Become(c, [call[c] EXCEPT !.pc = "commitCreate", !.sess = s])
    /\ UNCHANGED <<tables, requestLock, online, sent, lost>>

CommitCreate(c) ==
    /\ At(c, "commitCreate")
    /\ session' = [session EXCEPT ![call[c].sess] = NewSession(c)]
    /\ Unlock(c)
    /\ Goto(c, "notifyCreated")
    /\ UNCHANGED <<request, online, sent, lost>>

NotifyCreated(c) == At(c, "notifyCreated") /\ EmitUncaught(c)

-----------------------------------------------------------------------------
(* activateByTechnician: one transaction that locks the session row, which *)
(* is where it meets the two closes.                                       *)

StartActivate(c, t, s) ==
    /\ Free(c)
    /\ OwnedByTechnician(session[s], t)
    /\ Become(c, [NoCall EXCEPT !.pc = "activateLock", !.actor = t, !.sess = s])
    /\ UNCHANGED <<tables, locks, online, sent, lost>>

\* A CLOSED session is refused; an ACTIVE one is answered as it is.
AfterActivateLock(status) ==
    CASE status = "CONNECTING" -> "activateUpdate"
      [] status = "ACTIVE"     -> "commitActivate"
      [] OTHER                 -> "rollback"

ActivateLock(c) ==
    LET s == call[c].sess
        status == session[s].status
    IN
    /\ At(c, "activateLock")
    /\ sessionLock[s] = None
    /\ LockSession(c, s)
    /\ Become(c, [call[c] EXCEPT !.pc = AfterActivateLock(status), !.seen = status])
    /\ UNCHANGED <<tables, requestLock, online, sent, lost>>

ActivateUpdate(c) ==
    /\ At(c, "activateUpdate")
    /\ Goto(c, IF session[call[c].sess].status = "CONNECTING"
                 THEN "commitActivate" ELSE "rollback")
    /\ UNCHANGED <<tables, locks, online, sent, lost>>

Fault_Activated(c) == TRUE
Activated(c) == call[c].seen = "CONNECTING"

CommitActivate(c) ==
    LET s == call[c].sess IN
    /\ At(c, "commitActivate")
    /\ IF Activated(c)
         THEN /\ session' = [session EXCEPT ![s].status = "ACTIVE",
                                            ![s].connected = TRUE]
              /\ Goto(c, "notifyActivated")
         ELSE Answered(c) /\ UNCHANGED session
    /\ Unlock(c)
    /\ UNCHANGED <<request, online, sent, lost>>

NotifyActivated(c) == At(c, "notifyActivated") /\ EmitCaught(c)

-----------------------------------------------------------------------------
(* closeByTechnician and closeByDevice: a plain read of the owned session, *)
(* then a transaction with one conditional UPDATE on each table.           *)

OwnedSession(s, actor, end) ==
    /\ session[s].status # "ABSENT"
    /\ IF end = "DEVICE" THEN session[s].device = actor
                         ELSE session[s].technician = actor

StartClose(c, actor, s, end) ==
    /\ Free(c)
    /\ OwnedSession(s, actor, end)
    /\ Become(c, [pc |-> "closeUpdate", actor |-> actor, end |-> end, sess |-> s,
                 req |-> session[s].request, seen |-> session[s].status])
    /\ UNCHANGED <<tables, locks, online, sent, lost>>

\* closeSession.  An UPDATE that finds no row leaves nothing to undo.
CloseUpdate(c) ==
    LET s == call[c].sess IN
    /\ At(c, "closeUpdate")
    /\ IsLive(session[s]) => sessionLock[s] = None
    /\ IF IsLive(session[s])
         THEN LockSession(c, s) /\ Goto(c, "closeComplete")
         ELSE Refused(c) /\ UNCHANGED sessionLock
    /\ UNCHANGED <<tables, requestLock, online, sent, lost>>

\* completeSupportRequest.
CloseComplete(c) ==
    LET r == call[c].req
        completes == request[r].status = "ACCEPTED"
    IN
    /\ At(c, "closeComplete")
    /\ completes => requestLock[r] = None
    /\ IF completes
         THEN LockRequest(c, r) /\ Goto(c, "commitClose")
         ELSE Goto(c, "rollback") /\ UNCHANGED requestLock
    /\ UNCHANGED <<tables, sessionLock, online, sent, lost>>

CommitClose(c) ==
    /\ At(c, "commitClose")
    /\ session' = [session EXCEPT ![call[c].sess].status = "CLOSED",
                                  ![call[c].sess].endedBy = call[c].end]
    /\ request' = [request EXCEPT ![call[c].req].status = "COMPLETED"]
    /\ Unlock(c)
    /\ Goto(c, "notifyClosed")
    /\ UNCHANGED <<online, sent, lost>>

NotifyClosed(c) ==
    /\ At(c, "notifyClosed")
    /\ IF call[c].end = "DEVICE" THEN EmitCaught(c) ELSE EmitUncaught(c)

-----------------------------------------------------------------------------
\* A transaction callback threw: nothing it wrote survives.
Rollback(c) ==
    /\ At(c, "rollback")
    /\ Unlock(c)
    /\ Refused(c)
    /\ UNCHANGED <<tables, online, sent, lost>>

\* A statement of call c fails, or its answer is lost, a COMMIT's included: what
\* was open is rolled back and the answer is a 500.  After the commit it is that
\* answer, or the read (findByIdOrFail, findOneByOrFail) that the notice waits
\* for: what is committed stays and the notice is never attempted.
QueryFails(c) ==
    /\ QueriesMayFail
    /\ ~Free(c) /\ ~At(c, "rollback")
    /\ Unlock(c)
    /\ Failed(c)
    /\ lost' = lost \cup NoticesOf(c)
    /\ UNCHANGED <<tables, online, sent>>

\* What happens in the sockets, seen from here: a device's first socket is
\* registered, or its last one goes.
DeviceConnects(d) ==
    /\ d \notin online
    /\ online' = online \cup {d}
    /\ UNCHANGED <<tables, locks, call, sent, lost>>

DeviceDisconnects(d) ==
    /\ MayDisconnect
    /\ d \in online
    /\ online' = online \ {d}
    /\ UNCHANGED <<tables, locks, call, sent, lost>>

\* The process dies: PostgreSQL rolls back every open transaction, the calls
\* get no answer, and presence, kept in memory, starts empty.
Crash ==
    /\ call' = [c \in Calls |-> NoCall]
    /\ requestLock' = [r \in Requests |-> None]
    /\ sessionLock' = [s \in Sessions |-> None]
    /\ online' = {}
    /\ lost' = lost \cup UNION {NoticesOf(c) : c \in Calls}
    /\ UNCHANGED <<tables, sent>>

-----------------------------------------------------------------------------
Init ==
    /\ request = [r \in Requests |-> NoRequest]
    /\ session = [s \in Sessions |-> NoSession]
    /\ requestLock = [r \in Requests |-> None]
    /\ sessionLock = [s \in Sessions |-> None]
    /\ call = [c \in Calls |-> NoCall]
    /\ online = {}
    /\ sent = {}
    /\ lost = {}

\* A request the first statement of its handler refuses (404, or 409 from
\* assign) changes nothing and is not represented.
Start(c) ==
    \/ \E d \in Devices : StartOpen(c, d)
    \/ \E d \in Devices, r \in Requests :
         \/ StartAnswer(c, d, r, "acceptUpdate")
         \/ StartAnswer(c, d, r, "rejectUpdate")
         \/ StartCancel(c, d, r)
    \/ \E t \in Technicians, r \in Requests : StartAssign(c, t, r) \/ StartCreate(c, t, r)
    \/ \E t \in Technicians, s \in Sessions : StartActivate(c, t, s)
    \/ \E d \in Devices, s \in Sessions : StartClose(c, d, s, "DEVICE")
    \/ \E t \in Technicians, s \in Sessions : StartClose(c, t, s, "TECHNICIAN")

Continue(c) ==
    \/ OpenInsert(c) \/ NotifyOpened(c)
    \/ AcceptUpdate(c) \/ RejectUpdate(c) \/ NotifyAnswered(c)
    \/ CancelLock(c) \/ CancelCheck(c) \/ CancelUpdate(c)
    \/ CommitCancel(c) \/ NotifyCancelled(c)
    \/ AssignPresence(c) \/ AssignUpdate(c) \/ NotifyAssigned(c)
    \/ CreateLock(c) \/ CreateCheck(c) \/ CreatePresence(c) \/ CreateInsert(c)
    \/ CommitCreate(c) \/ NotifyCreated(c)
    \/ ActivateLock(c) \/ ActivateUpdate(c) \/ CommitActivate(c) \/ NotifyActivated(c)
    \/ CloseUpdate(c) \/ CloseComplete(c) \/ CommitClose(c) \/ NotifyClosed(c)
    \/ Rollback(c)

\* What the process does while it lives.
LivingNext ==
    \/ \E c \in Calls : Start(c) \/ Continue(c) \/ QueryFails(c)
    \/ \E d \in Devices : DeviceConnects(d) \/ DeviceDisconnects(d)

Next == LivingNext \/ Crash

\* PostgreSQL queues the transactions that wait for a row, so a call that can
\* go on again and again does go on; everything else only needs its turn in
\* the event loop.  Clients and tablets owe the server nothing.
Fairness == \A c \in Calls : SF_vars(Continue(c))

Spec == Init /\ [][Next]_vars

\* One life of the process: what happens between two restarts.
LivingSpec == Init /\ [][LivingNext]_vars
FairSpec == LivingSpec /\ Fairness
-----------------------------------------------------------------------------
(* Properties.                                                             *)

\* Every variable keeps its shape.
TypeOK ==
    /\ request \in [Requests -> RequestRow]
    /\ session \in [Sessions -> SessionRow]
    /\ requestLock \in [Requests -> Calls \cup {None}]
    /\ sessionLock \in [Sessions -> Calls \cup {None}]
    /\ call \in [Calls -> CallState]
    /\ online \in SUBSET Devices
    /\ sent \in SUBSET Notice
    /\ lost \in SUBSET Notice

\* The tables agree: a live session rests on an ACCEPTED request of the same
\* device and technician, a CLOSED one on a COMPLETED request, and a request
\* is COMPLETED only by the close of its session.  Never CANCELLED with a live
\* session (cancelByDevice), never CLOSED with the request left ACCEPTED (close).
Consistent ==
    /\ \A s \in Sessions : session[s].status # "ABSENT" =>
         LET r == session[s].request IN
         /\ r \in Requests
         /\ session[s].device = request[r].device
         /\ session[s].technician = request[r].technician
         /\ request[r].status = IF IsLive(session[s]) THEN "ACCEPTED" ELSE "COMPLETED"
    /\ \A r \in Requests : request[r].status = "COMPLETED" =>
         \E s \in Sessions : session[s].request = r /\ session[s].status = "CLOSED"

\* Two racing calls never both win: one active request per device, one session
\* per request, one live session per device and per technician, so the
\* "current" row findCurrentForDevice and findCurrentForTechnician return is
\* the only one there is.
Exclusive ==
    /\ \A q, r \in Requests :
         IsActive(request[q]) /\ IsActive(request[r]) /\ q # r
           => request[q].device # request[r].device
    /\ \A s, x \in Sessions : s # x /\ session[s].status # "ABSENT" =>
         /\ session[s].request # session[x].request
         /\ IsLive(session[s]) /\ IsLive(session[x]) =>
              /\ session[s].device # session[x].device
              /\ session[s].technician # session[x].technician

\* The calls call c is waiting for, inside PostgreSQL.
WaitsFor(c) ==
    LET r == call[c].req
        s == call[c].sess
    IN  {b \in Calls \ {c} :
           \/ At(c, "openInsert") /\ b \in RequestInsertWaitsFor(call[c].actor)
           \/ At(c, "createInsert") /\ b \in SessionInsertWaitsFor(c)
           \/ call[c].pc \in {"cancelLock", "createLock"} /\ requestLock[r] = b
           \/ call[c].pc \in {"acceptUpdate", "rejectUpdate"} /\ CanAnswer(r) /\ requestLock[r] = b
           \/ At(c, "assignUpdate") /\ CanTake(r) /\ requestLock[r] = b
           \/ At(c, "closeComplete") /\ request[r].status = "ACCEPTED" /\ requestLock[r] = b
           \/ At(c, "activateLock") /\ sessionLock[s] = b
           \/ At(c, "closeUpdate") /\ IsLive(session[s]) /\ sessionLock[s] = b}

\* No set of calls is stuck with each member waiting for another.  create locks
\* the request and then waits on session rows, close locks the session and then
\* waits on the request: what keeps them apart is technicianHasLiveSession.
NoDeadlock ==
    \A group \in SUBSET Calls : group # {} =>
      \E c \in group : WaitsFor(c) \cap group = {}

\* The tests the code calls a safety net never fire: under the row lock the
\* cancelling and the activating UPDATE find their row, a close always finds
\* the request it must complete, and of the three unique indexes of
\* remote_sessions only the technician's is ever reached.
SafetyNetsUnused ==
    \A c \in Calls :
      /\ At(c, "cancelUpdate") => IsActive(request[call[c].req])
      /\ At(c, "activateUpdate") => session[call[c].sess].status = "CONNECTING"
      /\ At(c, "closeComplete") => request[call[c].req].status = "ACCEPTED"
      /\ At(c, "createInsert") => \A s \in Colliding(c) :
           /\ ~SameRequest(NewSession(c), IndexedSession(s))
           /\ ~SameLiveDevice(NewSession(c), IndexedSession(s))

\* The notices the committed tables call for.
Due ==
    {<<"queue-updated", r, "WAITING">> :
        r \in {q \in Requests : request[q].status # "ABSENT"}}
    \cup {<<e, r, "ASSIGNED">> : e \in {"assigned", "queue-updated"},
             r \in {q \in Requests : request[q].technician # None}}
    \cup {<<"request-updated", r, "ACCEPTED">> :
             r \in {q \in Requests : request[q].status \in {"ACCEPTED", "COMPLETED"}}}
    \cup {<<"request-updated", r, "REJECTED">> :
             r \in {q \in Requests : request[q].status = "REJECTED"}}
    \cup {<<IF request[r].technician = None THEN "queue-updated" ELSE "request-updated",
             r, "CANCELLED">> :
             r \in {q \in Requests : request[q].status = "CANCELLED"}}
    \cup {<<"created", s, "DEVICE">> :
             s \in {x \in Sessions : session[x].status # "ABSENT"}}
    \cup {<<"active", s, e>> : e \in Ends,
             s \in {x \in Sessions : session[x].connected}}
    \cup {<<"closed", s, OtherEnd(session[s].endedBy)>> :
             s \in {x \in Sessions : session[x].status = "CLOSED"}}

\* An acceptance that a cancellation followed leaves no trace in the row.
Warranted ==
    Due \cup {<<"request-updated", r, "ACCEPTED">> :
                 r \in {q \in Requests : /\ request[q].status = "CANCELLED"
                                        /\ request[q].technician # None}}

\* Nothing is announced before it is committed, nor to the wrong audience: the
\* queue for what nobody owned, the technician for what was hers, the close to
\* the end that did not ask for it.
NoticesAreTrue == sent \subseteq Warranted

\* No commit forgets whom it concerns: what the tables call for was announced, or
\* lost to a failure, or else a call is about to announce it.
NothingIsForgotten ==
    Due \subseteq sent \cup lost \cup UNION {NoticesOf(c) : c \in Calls}

\* No transition is announced twice: a retried activate, a second accept or the
\* loser of two closes has nothing left to announce.
NoticesAreNew ==
    \A c \in Calls :
      /\ NoticesOf(c) \cap sent = {}
      /\ \A b \in Calls \ {c} : NoticesOf(c) \cap NoticesOf(b) = {}

\* What is terminal stays as it is: a terminal request, a closed session with
\* the endedBy of the first close, and connectedAt once written.
HistoryIsKept ==
    [][/\ \A r \in Requests : request[r].status \in TerminalRequestStatuses
                                => request'[r] = request[r]
       /\ \A s \in Sessions :
            /\ session[s].status = "CLOSED" => session'[s] = session[s]
            /\ session[s].connected => session'[s].connected]_vars

\* The calls together do what atomic calls would.
Lifecycle == INSTANCE AssistanceLifecycle WITH request <- request, session <- session
ImplementsLifecycle == Lifecycle!Spec

\* Of a row the signaling sees who its ends are and whether it is live.
SignalingRow(x) ==
    [status |-> IF IsLive(x) THEN "LIVE" ELSE x.status,
     device |-> x.device, technician |-> x.technician]

seen == [s \in Sessions |-> SignalingRow(session[s])]
Seen == INSTANCE SessionRows WITH session <- seen

\* What Signaling takes for granted of the rows it reads is what the calls make
\* of them: a session opens with no live rival of its tablet or technician, keeps
\* its two ends, and once closed it never comes back.
RowsAreAsExpected == [][Seen!Changes]_seen

\* Every call is answered, whatever the others do: its slot is free again and again.
EveryCallIsAnswered == \A c \in Calls : []<>Free(c)

\* As long as the process lives, everything the tables call for is announced in
\* the end, or kept from it by a failure of its own call: a transport that throws,
\* a query that fails.
EveryChangeIsAnnounced == []<>(Due \subseteq sent \cup lost)

-----------------------------------------------------------------------------
(* The inductive invariant behind the properties above.                    *)

\* A row that is not there holds nothing, one that is has its owners.
RowsOK ==
    /\ \A r \in Requests :
         /\ request[r].status = "ABSENT" => request[r] = NoRequest
         /\ request[r].status # "ABSENT" => request[r].device \in Devices
         /\ request[r].status = "WAITING" => request[r].technician = None
         /\ request[r].status \in {"ASSIGNED", "ACCEPTED", "REJECTED", "COMPLETED"}
              => request[r].technician \in Technicians
    /\ \A s \in Sessions :
         /\ session[s].status = "ABSENT" => session[s] = NoSession
         /\ session[s].status = "CLOSED" => session[s].endedBy \in Ends
         /\ session[s].status = "ACTIVE" <=> IsLive(session[s]) /\ session[s].connected

\* A lock is held by exactly the call that is between taking and releasing it.
LocksOK ==
    /\ \A c \in Calls :
         /\ call[c].pc \in RequestHolding =>
              call[c].req \in Requests /\ requestLock[call[c].req] = c
         /\ call[c].pc \in SessionHolding =>
              call[c].sess \in Sessions /\ sessionLock[call[c].sess] = c
    /\ \A r \in Requests : requestLock[r] # None =>
         /\ call[requestLock[r]].pc \in RequestHolding \cup {"rollback"}
         /\ call[requestLock[r]].req = r
    /\ \A s \in Sessions : sessionLock[s] # None =>
         /\ call[sessionLock[s]].pc \in SessionHolding \cup {"rollback"}
         /\ call[sessionLock[s]].sess = s

NoSessionOf(r) == \A s \in Sessions : session[s].request # r

\* The arguments a call keeps from one statement to the next.
ArgumentsOK(c) ==
    /\ At(c, "openInsert") => call[c].actor \in Devices
    /\ call[c].pc \in {"acceptUpdate", "rejectUpdate", "cancelLock", "assignPresence",
                       "assignUpdate", "createLock", "notifyOpened", "notifyAccepted",
                       "notifyRejected", "notifyCancelled", "notifyAssigned"}
         => call[c].req \in Requests
    /\ call[c].pc \in {"acceptUpdate", "rejectUpdate", "cancelLock"}
         => request[call[c].req].status # "ABSENT"
    /\ call[c].pc \in {"assignPresence", "assignUpdate", "createLock"} => call[c].actor \in Technicians
    /\ At(c, "createLock") => request[call[c].req].technician = call[c].actor
    /\ call[c].pc \in {"activateLock", "closeUpdate", "notifyCreated",
                       "notifyActivated", "notifyClosed"}
         => call[c].sess \in Sessions /\ session[call[c].sess].status # "ABSENT"
    /\ call[c].pc \in {"closeUpdate", "closeComplete", "commitClose"}
         => session[call[c].sess].request = call[c].req
    /\ call[c].pc \in {"closeUpdate", "closeComplete", "commitClose", "notifyClosed"}
         => call[c].end \in Ends

\* What a transaction has learned stays true while it holds its locks.
TransactionOK(c) ==
    LET r == call[c].req
        s == call[c].sess
    IN
    /\ At(c, "cancelCheck") => request[r].status = "ACCEPTED"
    /\ call[c].pc \in {"cancelUpdate", "commitCancel"} =>
         IsActive(request[r]) /\ NoSessionOf(r)
    /\ call[c].pc \in {"cancelCheck", "cancelUpdate", "commitCancel"} =>
         call[c].seen = request[r].status
    /\ call[c].pc \in {"createCheck", "createPresence", "createInsert", "commitCreate"} =>
         /\ request[r].status = "ACCEPTED"
         /\ request[r].technician = call[c].actor
    /\ call[c].pc \in {"createPresence", "createInsert", "commitCreate"} => NoSessionOf(r)
    /\ At(c, "commitCreate") =>
         /\ session[s].status = "ABSENT"
         /\ \A x \in Sessions :
              IsLive(session[x]) => session[x].technician # call[c].actor
         /\ \A b \in Calls \ {c} :
              At(b, "commitCreate") => call[b].actor # call[c].actor
    /\ At(c, "activateUpdate") => session[s].status = "CONNECTING"
    /\ At(c, "commitActivate") => IsLive(session[s])
    /\ call[c].pc \in {"activateUpdate", "commitActivate"} =>
         call[c].seen = session[s].status
    /\ call[c].pc \in {"closeComplete", "commitClose"} => IsLive(session[s])
    /\ At(c, "commitClose") => request[r].status = "ACCEPTED"

Inductive ==
    /\ TypeOK
    /\ RowsOK
    /\ LocksOK
    /\ Consistent
    /\ Exclusive
    /\ \A c \in Calls : ArgumentsOK(c) /\ TransactionOK(c)

-----------------------------------------------------------------------------
(* What the documentation says and the code does not do.                   *)

\* docs/ENDPOINTS.md:1626, a session that was activated is answered by its close
\* with its connectedAt.  The answer is built on the row read before the
\* transaction.
CloseAnswersWithConnectedAt ==
    [][\A c \in Calls :
         At(c, "notifyClosed") /\ call'[c] = NoCall /\ session[call[c].sess].connected
           => call[c].seen = "ACTIVE"]_vars
=============================================================================
