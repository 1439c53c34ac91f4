---------------------------- MODULE DevicePresence ----------------------------
(***************************************************************************)
(* DevicePresenceService, the connections of DevicesGateway, the logins    *)
(* that give a tablet its tokens, and the two operations that withdraw its *)
(* authorization: deactivation (DevicesService.update) and re-enrolment    *)
(* (DeviceEnrollmentService).                                              *)
(*                                                                         *)
(* A handshake authorises itself with two queries and is registered some   *)
(* time after; a withdrawal commits first and closes the sockets some time *)
(* after.  Nothing orders the two.                                         *)
(*                                                                         *)
(* The transaction of an enrolment is taken at its COMMIT, as a step of    *)
(* IssuedCredentials, which DeviceEnrollment is shown to implement.        *)
(***************************************************************************)

CONSTANTS
    Devices,
    Credentials,  \* device_credentials.id
    Sockets,      \* sockets of the namespace /devices
    Calls,        \* HTTP calls served at the same time
    QueriesMayFail, \* whether a query of a call may fail
    None

ASSUME NoneIsNoId == None \notin Devices \cup Credentials \cup Sockets
ASSUME SwitchIsBoolean == QueriesMayFail \in BOOLEAN

VARIABLES
    active,       \* devices.isActive
    current,      \* the credential of each device that is in force
    issued,       \* the credentials that have been issued so far
    tokens,       \* the credentials for which a Device JWT has been signed
    socket,       \* how far each socket is, and for which Device JWT; outcast
                  \* (history): ever since it began its device was inactive, or
                  \* its credential not in force
    connections,  \* DevicePresenceService.connections
    call,         \* where each HTTP call is, and its local variables
    withdrawn,    \* history: sockets that were registered when the device, or
                  \* the credential they came in with, lost its authorization
    forgotten     \* history: those of them of which a withdrawal has failed
                  \* before it closed them, and that none has taken on since

vars == <<active, current, issued, tokens, socket, connections, call, withdrawn, forgotten>>

\* A socket of the state "closed" has not asked for a connection, or is gone.
SocketPcs == {"closed", "readDevice", "readCredential", "authorised", "open"}
NoSocket == [pc |-> "closed", device |-> None, credential |-> None, outcast |-> FALSE]

NoCall == [pc |-> "idle", device |-> None, credential |-> None, change |-> "none",
           seen |-> FALSE]
Pcs == {"idle", "login", "saveRead", "saveWrite", "respond", "issue", "disconnect"}

\* What a PATCH asks of isActive: a rename leaves it out.
Changes == {"activate", "deactivate", "rename"}

At(c, pc) == call[c].pc = pc
Goto(c, pc) == call' = [call EXCEPT ![c].pc = pc]
Done(c) == call' = [call EXCEPT ![c] = NoCall]

SocketAt(k, pc) == socket[k].pc = pc
Move(k, pc) == socket' = [socket EXCEPT ![k].pc = pc]
Close(k) == socket' = [socket EXCEPT ![k] = NoSocket]

Registered == UNION {connections[d] : d \in Devices}

\* isOnline.
IsOnline(d) == connections[d] # {}

Enrolment == INSTANCE IssuedCredentials

-----------------------------------------------------------------------------
(* DeviceAuthService.login.                                                *)

\* The tablet gives the secret of a credential that was issued to it; the
\* device is read, and found active.
StartLogin(c, d, cr) ==
    /\ At(c, "idle")
    /\ active[d] /\ issued[cr] = d
    /\ call' = [call EXCEPT ![c] = [NoCall EXCEPT !.pc = "login", !.device = d,
                                                 !.credential = cr]]
    /\ UNCHANGED <<active, current, issued, tokens, socket, connections, withdrawn, forgotten>>

\* The secret is that of the credential in force, or the login is refused.  What
\* follows, lastUsedAt and the signature, asks for nothing more.
Login(c) ==
    /\ At(c, "login")
    /\ tokens' = IF current[call[c].device] = call[c].credential
                   THEN tokens \cup {call[c].credential} ELSE tokens
    /\ Done(c)
    /\ UNCHANGED <<active, current, issued, socket, connections, withdrawn, forgotten>>

-----------------------------------------------------------------------------
(* The handshake: DevicesGateway.authenticate, DeviceAuthService           *)
(* .authenticateToken and .authorizePayload, then handleConnection.        *)

\* A token of credential cr has nothing to ask for with device d.
Unauthorised(d, cr) == ~active[d] \/ current[d] # cr

\* A signed token names a credential and the device it was issued to.
Handshake(k, d, cr) ==
    /\ SocketAt(k, "closed") /\ k \notin Registered
    /\ cr \in tokens /\ issued[cr] = d
    /\ socket' = [socket EXCEPT ![k] = [pc |-> "readDevice", device |-> d, credential |-> cr,
                                       outcast |-> Unauthorised(d, cr)]]
    /\ UNCHANGED <<active, current, issued, tokens, connections, call, withdrawn, forgotten>>

ReadDevice(k) ==
    /\ SocketAt(k, "readDevice")
    /\ IF active[socket[k].device] THEN Move(k, "readCredential") ELSE Close(k)
    /\ UNCHANGED <<active, current, issued, tokens, connections, call, withdrawn, forgotten>>

Fault_Authorised(k) == TRUE

\* findActiveCredential finds the one the token was signed for.
Authorised(k) == current[socket[k].device] = socket[k].credential

ReadCredential(k) ==
    /\ SocketAt(k, "readCredential")
    /\ IF Authorised(k) THEN Move(k, "authorised") ELSE Close(k)
    /\ UNCHANGED <<active, current, issued, tokens, connections, call, withdrawn, forgotten>>

\* handleConnection, whose only wait is a join that the in-memory adapter does
\* at once.
Register(k) ==
    LET d == socket[k].device IN
    /\ SocketAt(k, "authorised")
    /\ connections' = [connections EXCEPT ![d] = @ \cup {k}]
    /\ Move(k, "open")
    /\ UNCHANGED <<active, current, issued, tokens, call, withdrawn, forgotten>>

\* A handshake that is abandoned before it ends leaves nothing.
Abandon(k) ==
    /\ socket[k].pc \in {"readDevice", "readCredential", "authorised"}
    /\ Close(k)
    /\ UNCHANGED <<active, current, issued, tokens, connections, call, withdrawn, forgotten>>

Fault_Unregistered(d, k) == {}
Unregistered(d, k) == connections[d] \ {k}

\* handleDisconnect, unregister: the client goes, or is found to have gone.
Disconnect(k) ==
    LET d == socket[k].device IN
    /\ SocketAt(k, "open")
    /\ connections' = [connections EXCEPT ![d] = Unregistered(d, k)]
    /\ Close(k)
    /\ withdrawn' = withdrawn \ {k}
    /\ forgotten' = forgotten \ {k}
    /\ UNCHANGED <<active, current, issued, tokens, call>>

-----------------------------------------------------------------------------
(* DevicesService.update.  save() reads the row again and writes the       *)
(* columns in which the entity preload() has read differs from it, those   *)
(* the PATCH did not mention included.                                     *)

\* An entity made of the PATCH alone: a rename leaves its isActive undefined.
Fault_Preloaded(d, change) == IF change = "rename" THEN None ELSE change = "activate"

\* isActive of the entity preload() returns: the row, with the PATCH over it.
Preloaded(d, change) == IF change = "rename" THEN active[d] ELSE change = "activate"

StartUpdate(c, d, change) ==
    /\ At(c, "idle")
    /\ call' = [call EXCEPT ![c] = [NoCall EXCEPT !.pc = "saveRead", !.device = d,
                                                 !.change = change,
                                                 !.seen = Preloaded(d, change)]]
    /\ UNCHANGED <<active, current, issued, tokens, socket, connections, withdrawn, forgotten>>

\* isActive is written only if it differs from what this SELECT returns.
SaveRead(c) ==
    /\ At(c, "saveRead")
    /\ Goto(c, IF active[call[c].device] # call[c].seen THEN "saveWrite" ELSE "respond")
    /\ UNCHANGED <<active, current, issued, tokens, socket, connections, withdrawn, forgotten>>

\* History: with the device active, who has its credential is no outcast.
Readmitted(d) ==
    [k \in Sockets |-> IF socket[k].device = d /\ socket[k].credential = current[d]
                         THEN [socket[k] EXCEPT !.outcast = FALSE]
                         ELSE socket[k]]

\* History: the sockets of device d have lost their authorization.
Withdraw(d) ==
    /\ withdrawn' = withdrawn \cup connections[d]
    /\ forgotten' = forgotten \ connections[d]

SaveWrite(c) ==
    LET d == call[c].device IN
    /\ At(c, "saveWrite")
    /\ active' = [active EXCEPT ![d] = call[c].seen]
    /\ IF call[c].seen
         THEN socket' = Readmitted(d) /\ UNCHANGED <<withdrawn, forgotten>>
         ELSE Withdraw(d) /\ UNCHANGED socket
    /\ Goto(c, "respond")
    /\ UNCHANGED <<current, issued, tokens, connections>>

Fault_Withdraws(c) == call[c].change = "deactivate" /\ ~IsOnline(call[c].device)

\* updated.isActive is that of the entity.
Withdraws(c) == ~call[c].seen

\* Every socket the device had when it lost its authorization is closed, and
\* with it goes every other one that has registered since.
CloseAll(d) ==
    /\ connections' = [connections EXCEPT ![d] = {}]
    /\ socket' = [k \in Sockets |-> IF k \in connections[d] THEN NoSocket ELSE socket[k]]
    /\ withdrawn' = withdrawn \ connections[d]
    /\ forgotten' = forgotten \ connections[d]

Respond(c) ==
    /\ At(c, "respond")
    /\ IF Withdraws(c)
         THEN CloseAll(call[c].device)
         ELSE UNCHANGED <<connections, socket, withdrawn, forgotten>>
    /\ Done(c)
    /\ UNCHANGED <<active, current, issued, tokens>>

-----------------------------------------------------------------------------
(* DeviceEnrollmentService.activate.                                       *)

\* runActivation reads the device, without a lock, before the codes.
StartActivation(c, d) ==
    /\ At(c, "idle")
    /\ active[d]
    /\ call' = [call EXCEPT ![c] = [NoCall EXCEPT !.pc = "issue", !.device = d]]
    /\ UNCHANGED <<active, current, issued, tokens, socket, connections, withdrawn, forgotten>>

\* The COMMIT of an activation whose code was accepted.  BOUND: a credential id
\* is left.  (One that is issued now was not in anybody's token: who was outcast
\* still is.)
IssueCredential(c, cr) ==
    LET d == call[c].device IN
    /\ At(c, "issue")
    /\ Enrolment!Issue(d, cr)
    /\ Withdraw(d)
    /\ Goto(c, "disconnect")
    /\ UNCHANGED <<active, tokens, socket, connections>>

\* The code is not one of its pending codes.
RejectActivation(c) ==
    /\ At(c, "issue")
    /\ Done(c)
    /\ UNCHANGED <<active, current, issued, tokens, socket, connections, withdrawn, forgotten>>

DisconnectDevice(c) ==
    /\ At(c, "disconnect")
    /\ CloseAll(call[c].device)
    /\ Done(c)
    /\ UNCHANGED <<active, current, issued, tokens>>

\* Call c is about to close the sockets of device d.
Closes(c, d) ==
    /\ call[c].device = d
    /\ \/ At(c, "disconnect")
       \/ At(c, "respond") /\ Withdraws(c)

\* A query is not answered, and with a 500 the call ends where it is: what
\* follows the query is not done.  For an UPDATE or a COMMIT this is an error
\* that comes with it undone (a step earlier) or done (here): then this call does
\* not close the sockets whose authorization it has withdrawn.  (For a query of a
\* handshake, see Abandon.)
QueryFails(c) ==
    /\ QueriesMayFail
    /\ ~At(c, "idle")
    /\ Done(c)
    /\ forgotten' = forgotten \cup {k \in withdrawn : Closes(c, socket[k].device)}
    /\ UNCHANGED <<active, current, issued, tokens, socket, connections, withdrawn>>

\* The process restarts: the registry is empty and every connection is gone.
\* What had committed stays without its disconnectDevice.
Crash ==
    /\ socket' = [k \in Sockets |-> NoSocket]
    /\ connections' = [d \in Devices |-> {}]
    /\ call' = [c \in Calls |-> NoCall]
    /\ withdrawn' = {}
    /\ forgotten' = {}
    /\ UNCHANGED <<active, current, issued, tokens>>

-----------------------------------------------------------------------------
Init ==
    /\ active = [d \in Devices |-> TRUE]
    /\ current = [d \in Devices |-> None]
    /\ issued = [cr \in Credentials |-> None]
    /\ tokens = {}
    /\ socket = [k \in Sockets |-> NoSocket]
    /\ connections = [d \in Devices |-> {}]
    /\ call = [c \in Calls |-> NoCall]
    /\ withdrawn = {}
    /\ forgotten = {}

SocketStep(k) ==
    \/ \E d \in Devices, cr \in Credentials : Handshake(k, d, cr)
    \/ ReadDevice(k) \/ ReadCredential(k) \/ Register(k) \/ Abandon(k) \/ Disconnect(k)

StartCall(c) ==
    \/ \E d \in Devices, change \in Changes : StartUpdate(c, d, change)
    \/ \E d \in Devices : StartActivation(c, d)
    \/ \E d \in Devices, cr \in Credentials : StartLogin(c, d, cr)

ContinueCall(c) ==
    \/ Login(c)
    \/ SaveRead(c) \/ SaveWrite(c) \/ Respond(c)
    \/ \E cr \in Credentials : IssueCredential(c, cr)
    \/ RejectActivation(c) \/ DisconnectDevice(c)

Next ==
    \/ \E k \in Sockets : SocketStep(k)
    \/ \E c \in Calls : StartCall(c) \/ ContinueCall(c) \/ QueryFails(c)
    \/ Crash

\* A call that has begun goes on: its queries are answered, or fail.
Fairness == \A c \in Calls : WF_vars(ContinueCall(c))

Spec == Init /\ [][Next]_vars
FairSpec == Spec /\ Fairness
-----------------------------------------------------------------------------
(* Properties.                                                             *)

\* Every variable keeps its shape.
TypeOK ==
    /\ active \in [Devices -> BOOLEAN]
    /\ current \in [Devices -> Credentials \cup {None}]
    /\ issued \in [Credentials -> Devices \cup {None}]
    /\ tokens \in SUBSET Credentials
    /\ socket \in [Sockets -> [pc : SocketPcs, device : Devices \cup {None},
                               credential : Credentials \cup {None}, outcast : BOOLEAN]]
    /\ connections \in [Devices -> SUBSET Sockets]
    /\ call \in [Calls -> [pc : Pcs, device : Devices \cup {None},
                           credential : Credentials \cup {None},
                           change : Changes \cup {"none"}, seen : BOOLEAN]]
    /\ withdrawn \in SUBSET Sockets
    /\ forgotten \subseteq withdrawn

\* A device is ONLINE exactly while one of its sockets is open: no phantom
\* presence after a disconnection, and the old socket of a reconnection that
\* goes late does not take the new one with it.
PresenceIsReal ==
    \A d \in Devices :
      connections[d] = {k \in Sockets : SocketAt(k, "open") /\ socket[k].device = d}

\* A socket that was registered when its authorization was withdrawn is on its
\* way out: some call is about to close it, whatever renames, activations,
\* reconnections and failures interleave.  The only ones left behind are those of
\* a withdrawal that has itself ended in an error after it took effect.
WithdrawalsAreUnderWay ==
    \A k \in withdrawn \ forgotten : \E c \in Calls : Closes(c, socket[k].device)

\* And it is closed in the end, unless it is left behind so.
WithdrawalsEnd ==
    \A k \in Sockets : k \in withdrawn ~> k \notin withdrawn \/ k \in forgotten

\* Who has no right to a connection at any moment of its handshake, because its
\* credential had been revoked when it began or its device is inactive all
\* along, or first the one and then the other, never opens a socket; whatever
\* logins, renames, activations and re-enrolments it races with.
OutcastsStayOut == \A k \in Sockets : socket[k].outcast => ~SocketAt(k, "open")

-----------------------------------------------------------------------------
(* What the documentation says and the code does not do.                   *)

\* docs/ENDPOINTS.md:520, deactivating a device closes all its connections, so
\* it is offline.  A handshake that had passed the check of isActive registers
\* after the sockets were closed.
DeactivatedIsOffline ==
    \A d \in Devices :
      ~active[d] /\ (\A c \in Calls : call[c].device # d) => ~IsOnline(d)

\* devices.service.ts:94, only the fields of the PATCH are applied.  save()
\* writes back what preload() read of the others: a rename undoes a
\* deactivation that has committed in between.
OnlyGivenFieldsChange ==
    [][\A c \in Calls : At(c, "saveWrite") /\ call'[c] # call[c] /\ active' # active
         => call[c].change # "rename"]_vars
=============================================================================
