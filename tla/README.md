# Formal models of remote_control_backend

The backend lets a technician take over an Android tablet for remote support. A
tablet asks for help, a technician takes the request, the tablet authorises that
technician, a remote session is opened, both ends negotiate WebRTC through the
backend's signaling, and either of them ends the session. It is a NestJS process
in front of PostgreSQL, with two Socket.IO namespaces; nothing serialises its
HTTP calls but the database.

The models are about that: what the interleaving of calls, transactions, socket
events, crashes and lost answers can do to the state, and what it cannot.

## 1. Inventory

Paths are relative to `src/` of the repository.

| Component | State | Operations | Hard behaviour | What makes it correct |
|---|---|---|---|---|
| Support requests (`support-requests/`) | table `support_requests` | create, accept, reject, cancel (tablet); assign (technician) | conditional UPDATEs race; cancel locks the row and looks for a session; presence is read before the UPDATE | one active request per tablet; terminal is terminal; one technician takes it; cancel never coexists with a live session |
| Remote sessions (`remote-sessions/`) | table `remote_sessions` | create, activate (technician); close (either end) | two tables in one transaction; three unique indexes as last barrier; retries | session and request always agree; one live session per end; the first close decides; lock order cannot deadlock |
| Notices (`devices/realtime/`, `signaling/realtime/technician-realtime.service.ts`) | none (rooms of Socket.IO) | emit to a device, to a technician, to all of them | sent after the commit, may throw, are lost in a crash | never false, never repeated, and lost only to a failure of the call that owes it |
| Signaling (`signaling/`, both gateways) | rooms, `socket.data.remoteSessionId` | `remote-session:join`, `webrtc:offer`, `webrtc:answer`, `webrtc:ice-candidate` | a query between looking at the socket and acting on it; joins that cross; sockets that die unnoticed | a room holds only its two ends, of whom the tablet has let the other in; a socket is in one session at a time; whoever waits is told; nothing is relayed after a close |
| Device presence (`devices/presence/`, `devices/gateway/`) | `connections`, in memory | handshake, register, unregister, `disconnectDevice` | reconnection overlaps the old socket; withdrawal races a handshake | online exactly while a socket is open; a withdrawn socket is closed, unless its withdrawal fails |
| Device administration (`devices/devices.service.ts`) | table `devices` | create, update | `preload` + `save` write back what they read; an INSERT that collides is tried again | a PATCH changes what it names; a deactivated tablet loses its sockets; one tablet per create |
| Enrolment (`devices/device-enrollment.service.ts`, `devices/auth/device-credentials.service.ts`) | tables `device_enrollments`, `device_credentials` | create a code, activate | codes revoked, counted and consumed by several statements, which lock the same rows in different orders; unique index on the credential in force | a code is used once and its attempts counted; exactly one credential in force; no call is stuck |
| Device authentication (`devices/auth/`) | the tokens handed out | login, token checks | two queries, not one; a login overtaken by a re-enrolment | who is not authorised at any moment of a handshake gets no socket |
| Users and roles (`auth/`, `signaling/gateway/technicians.gateway.ts`) | table `users`, the tokens handed out | register, login, check-status, the guards, the handshake of a technician | a token outlives what it was signed for; two registrations of one address | one account per address; a token is worth what the row says when it is used |
| First administrator, password reset (`auth/bootstrap-admin.ts`, `auth/reset-admin-password.ts`) | table `users` | bootstrap, reset, from a console | several statements without a transaction, beside a running backend | they do nothing that is not theirs to do |
| Controllers, DTOs, configuration | none | routing, validation | none | — |

How they interact: the services call each other directly only for presence
(`isOnline`, `disconnectDevice`) and for notices; requests and sessions meet in the
database, at the row lock of the request (cancel and create) and of the session
(activate and close); the signaling only reads `remote_sessions`, and assign and create ask the
registry of sockets whether the tablet is online. The console scripts
meet the backend in the table `users` and nowhere else.

`PROJECT.json` lists the components with what is left out of each, and every
hazard with the line where it bites and the properties that watch it.

## 2. Modules

    AssistanceRows             the two tables: rows, statuses
      AssistanceLifecycle      abstract: every HTTP call is one atomic step
      SupportSessions          SupportRequestsService + RemoteSessionsService,
                               statement by statement; implements the lifecycle
        SupportSessions_proofs
        MCSupportSessions
    SessionRows                remote_sessions as the signaling sees it
    Signaling                  SignalingService and the rooms; extends SessionRows
      Signaling_proofs, MCSignaling
      Assistance               SupportSessions and Signaling in one process, over
                               the same rows and sockets; implements both
        Assistance_proofs, MCAssistance
    IssuedCredentials          abstract: the credential in force, replaced at once
      DevicePresence           logins, handshakes, presence, deactivation; built on it
        DevicePresence_proofs, MCDevicePresence
    EnrolmentLifecycle         abstract: codes and credentials, one step per call
      DeviceEnrollment         codes and credentials, row by row; implements it,
                               and IssuedCredentials
        DeviceEnrollment_proofs, MCDeviceEnrollment
    Users                      users, tokens, guards, console scripts
    DeviceRegistry             DevicesService.create
      Administration           both of them: a request that is admitted creates
        Administration_proofs, MCAdministration

`SupportNotices_proofs` goes on from `SupportSessions_proofs` with the notices.

**SupportSessions** composes requests and sessions in one module, because their
correctness is about each other. A call is a process with a program counter and its
local variables (`call[c]`: `actor`, `req`, `sess`, `seen` for the status it has
read, `end` for who closes). One action is one SQL statement or one synchronous
stretch of the handler. `request` and `session` hold committed rows; what an open
transaction has written is applied by its commit, and is visible before that only
to its own statements and to the unique indexes (`IndexedSession`). `requestLock` and
`sessionLock` are the row locks. READ COMMITTED is modelled as PostgreSQL does it: a
statement whose WHERE fails on the committed row does not wait, otherwise it waits for
the lock and judges the row as the holder left it. An insert that collides with an
uncommitted row of a unique index waits for that transaction. `Rollback` is the
exception in a transaction callback; `Crash` is the end of the process at any point, and
`LivingSpec` is `Spec` without it. `QueryFails` is a query that fails, or whose answer
is lost, wherever a call waits for one: in a transaction what it wrote is rolled back,
and after the commit what is committed stays and the notice is not sent, because the
handler reads the row again before (`findByIdOrFail` at
`support-requests.service.ts:277`, `:354`, `:397`) or because the COMMIT itself seemed to
fail. Presence is the set `online`. Two variables are history: `sent`, the notices handed
to Socket.IO, and `lost`, those that a failing query, a transport that throws or a crash
has kept from it. A notice carries only an id on the wire: the status or the end it is
tagged with is what the call that sends it announces, for the properties.

A reader can follow one operation: `remote-sessions.service.ts:136` (`create`) is
`StartCreate` (call arrives; a request that is not hers is a 404 and no step),
`CreateLock` (SELECT FOR UPDATE and the status test), `CreateCheck`
(`technicianHasLiveSession`), `CreatePresence` (`isOnline`, once that query is answered),
`CreateInsert` (`save`, the unique indexes, and the read of the device after it),
`CommitCreate`, `NotifyCreated` — whose emit is not caught, so a transport that throws
is a 500.

**Signaling** relies on one observation: with the in-memory adapter every await of
these handlers but the query on `remote_sessions` resolves within the same turn of
the event loop. A message is therefore three steps: arrival (with `leaveCurrentSession`
for a join), query, and all the rest. `heard` is history: the sessions in which a
client has been told (by ACK or `peer-joined`) that its peer is there, and it still
is. `gone` holds the sockets whose client has vanished and whose disconnection the
server has not seen, and `masked`, history too, those that came back behind such a
socket of their own end, whom nobody is told of: `hasParticipantInSession` cannot tell
a dead socket from a live one. `hasty`, also history, holds the sockets whose client has
sent a join while another of its joins was being handled: such a socket may end up in two
rooms, since each join leaves at its start and enters at its end. `Restart` is the end of
the process. The rows open and close as SessionRows says: a session opens with no live
rival of its tablet or technician, keeps its ends, and never comes back from a close. That
the calls do this and nothing else is `RowsAreAsExpected` of SupportSessions.

**Assistance** runs SupportSessions and Signaling side by side. The rows of `session` are
those of SupportSessions, of which the signaling sees the ends and whether one is live
(`seen`, `SignalingRow`, the WHERE of `findJoinableSession`). `TabletConnects` and
`SocketDisconnects` are steps of both: the first socket of a tablet brings it online and
the last one takes it offline (`DevicePresenceService`), which assign and create ask for.
`ProcessDies` ends both. Everything else is a step of one of them.

**DevicePresence** has a login as two steps (read the device; read the credential and
sign), a handshake as three (read the device, read the credential, register) and
`update` as `preload`, the SELECT of `save`, the UPDATE of `save`, and the tail. A
handshake needs a token that some login has signed (`tokens`); tokens are never taken
back, so one may be of any age. `save` of TypeORM compares the entity with the row it
reads again and writes the columns that differ. `withdrawn` is history: the sockets that
were registered when their authorization was taken away. `QueryFails` ends a call with a
500 where it waits for a query, also when the UPDATE of `save()` or the COMMIT of an
activation has taken effect and its answer is lost: `disconnectDevice` is not reached
then, and `forgotten`, history too, holds the sockets this leaves open until another
withdrawal or a disconnection. So is `outcast` of a socket history:
at every moment since its handshake began its device was inactive or its credential not
in force. The transaction of an enrolment is one step here, `Issue` of
IssuedCredentials; that DeviceEnrollment with all its statements does no more and no
less is its property `ImplementsCredentials`.

**DeviceEnrollment** takes an UPDATE or SELECT FOR UPDATE that may meet several rows
apart: its snapshot (`todo`), and then one row after the other in any order
(`LockNextCode`): it waits for the row's lock and judges the row again. `ORDER BY` of a
SELECT FOR UPDATE and the plan of an UPDATE would each fix an order; the model allows
all of them, so two calls may lock the same rows crosswise. PostgreSQL then fails one of
the transactions (`Deadlocked`, `Fail`); that any statement may fail is `Rollback`.
Statements on rows the transaction has locked itself are one step with the commit.
`wrong` is history: the wrong attempts that were answered.

**Users** has a request as the read of the row by `validateJwtPayload` with the guard
that follows it (`Authorise`), and then its handler. `register` is the INSERT, which
waits for another one of the same address, and the commit. E-mails are pairs of an
address and a spelling, because the code normalises them in some places
(`@BeforeInsert`, the scripts) and not in others (`loginUser`). Passwords decide only
whether a login happens and are left out. No route changes roles or `isActive`, so
`Administers` does that on the table, at any time. `barred` is history: the calls that
have had no right to do what they ask, at any time since they began. **DeviceRegistry**
is the loop of `DevicesService.create`, with the test in its handler (`Retriable`) and
its own condition (`LoopGoesOn`); `CommitDevice` may lose the answer of an INSERT
that took effect, and `made` remembers that. **Administration** composes the two: the
service runs for requests that the guard has admitted.

A `Fault_X`, right before `X`, is a slip the code could have made in `X`; no definition
uses it. Each is put in the place of `X` to see that the properties notice.

## 3. Runs

| Run | Instance | Shows |
|---|---|---|
| `pair` | 2 tablets, 2 technicians, 2 requests, 2 sessions, 2 calls | the tables agree, one winner, no safety net fires, no two calls wait for each other, notices true and new, history kept, rows as Signaling expects, refinement of AssistanceLifecycle, and `Inductive` |
| `assistance` | 1 tablet, 2 technicians, 1 request, 1 session, a socket of each kind, 2 calls and one message at a time, crashes, failing queries, a transport that throws | nobody is in a room without the tablet's consent |
| `live` | 1 tablet that comes and goes, 1 technician, 2 calls, failing queries, fairness | every call is answered, no notice is forgotten, every change is announced unless a query of its call fails |
| `signaling` | 2 sessions of one technician, 3 sockets, 2 messages at once, clients that vanish | rooms, one session per socket, who knows of whom, nothing relayed after a close |
| `presence` | 1 tablet, 2 sockets, 2 credentials, 2 calls, failing queries, fairness | presence is real, withdrawals reach their sockets unless they fail, outcasts stay out |
| `enrollment` | 1 tablet, 2 codes, 2 credentials, 2 calls, 2 attempts, fairness | one credential, a code ends once, attempts are counted, refinement of EnrolmentLifecycle and of IssuedCredentials, every call ends |
| `administration` | 2 users, 2 addresses in 3 spellings, 2 calls, 2 tablets, 2 public ids, 2 attempts | one account per address, outcasts are refused, late scripts do nothing, one tablet per create |

Five more runs each exhibit a disagreement between the code and what the repository
says of it (`PROJECT.json`, findings):

- `close_answer`: the answer of a close is built on the row read before its
  transaction; if an activation commits in between it has no `connectedAt`.
- `reconnection`: the waiting end is not told again when the other end comes back
  while its old socket has not been found dead.
- `late_registration`: a handshake that had read `isActive` registers after the
  deactivation has closed the sockets.
- `two_codes`: two codes created at once are both pending.
- `lost_deactivation`: a rename undoes a deactivation that commits between its
  `preload` and its `save`.

**Bounds.** Ids are finite sets and a row id is used once, so the number of requests,
sessions, codes and credentials bounds a behaviour; two of each are enough for a race
and its sequel (a second request after the first, a new code after a used one). With
all request ids in use `OpenInsert` is refused; with all codes or credentials in use the
INSERT of an enrolment fails and its transaction is rolled back (`NoIdLeft`); with all
users or tablets in use a commit of `administration` stays where it is, until it fails.
Two calls at a time show every pairwise race, a ring of two waits included; rings of
more calls, and more tablets and technicians, are the business of the proofs
(`NoDeadlock` is a theorem), and a lost update that a third call reads shows in the
history variables without the third call. `assistance` interleaves two calls with a message and
with the sockets, where the two modules meet; it looks at the rows and rooms only, so its
`VIEW` leaves out `sent` and `lost`, which no action reads. Messages among themselves are
the matter of `signaling`. Presence has a run of its own (`presence`, with overlapping
sockets), and one socket of each end is enough for `OnlyByConsent`, which speaks of one
socket at a time. `pair`, `live` and `close_answer` are about one life of the process
(`LivingSpec`).

Failing queries (`QueriesMayFail`) and a transport that throws (`EmitMayFail`) multiply the
histories `sent` and `lost`. Queries fail in `live`, `assistance` and `presence`, the
transport in `assistance` only; the theorems hold with both on, and it is they that say
that notices stay true, new and not forgotten when the transport throws. A tablet that has
connected may go again (`MayDisconnect`) in `live` and `assistance`: no call but `assign`
and `create` asks for presence, each once, and is refused without it, so in `pair`, whose
question is what two calls do to the tables, tablets come and stay; the theorems let them go.
Two attempts instead of five
(`MAX_FAILED_ATTEMPTS`, `PUBLIC_ID_MAX_ATTEMPTS`) still have a first, a last and one too
many. Symmetry is used where ids of a kind are
interchangeable and no liveness is checked. No run disables the deadlock check: a
state with no step at all would be reported. The theorems of section 4 have no
bounds.

**Fairness.** `live` assumes SF on `Continue(c)` for each call: PostgreSQL queues the
transactions that wait for a row, so a call whose lock is free again and again gets
it, and any other step only needs its turn of the event loop and an answer from the
database. `QueryFails` has no fairness: a query may fail at any time and never has to. `enrollment` assumes SF on `Continue(c) \/ Fail(c)`, for the same reason and
because `deadlock_timeout` makes PostgreSQL end a deadlock; without `Fail` two calls that
hold one code each would wait for ever. `presence` assumes WF on the steps of a call that has begun, which wait for
nobody, and again none on `QueryFails`. Nothing is assumed of clients or sockets: no new call or handshake has to come,
nobody has to disconnect. Liveness is about a process that lives: `live` has no
crashes, and in `presence` and `enrollment` a crash ends what was owed.

## 4. Proofs

The theorems hold for every value of the constants; they assume only what the modules'
ASSUMEs say (`None` is not an id, tablets are not technicians nor their sockets the same, the normal
spelling of an address is a spelling, attempts are a positive number, switches are
Booleans).

*SupportSessions.* `Exclusive` and `Consistent` are not inductive. That a close always
finds an ACCEPTED request is true because no cancel is past its check while a session
exists; that needs to know who holds the request's lock and what each transaction has
learned under it. `Inductive` adds to them: `RowsOK` (which rows have which owners),
`LocksOK` (a lock is held exactly by the call between taking and releasing it),
`ArgumentsOK` (what a call carries along still refers to rows of its actor) and
`TransactionOK` (what a transaction has read under its locks is still so; e.g. a
cancel about to commit has no session on its request). One lemma per action shows
`Inductive'`. From it follow, without further induction:

- `TypeCorrectness`, `TablesAgree`, `OneWinner`;
- `NetsStayUnused`: the conditional tests made under a lock cannot fail;
- `DeadlockFreedom`: calls waiting for a request and calls waiting for a session are
  ranked; the only call that could close a cycle is a create waiting at an index on a
  session somebody is closing, and `technicianHasLiveSession` together with the
  locks leaves only sessions whose holder waits for nobody;
- `HistoryStays` and `Refinement`: each commit, and each autocommitted UPDATE, is a
  step of AssistanceLifecycle and every other action a stutter;
- `RowsStayAsExpected`: the refinement leaves three ways to write a session. `Begin`
  `Opens` one of SessionRows, because the accepted request is the only active one of its
  tablet (`Exclusive`) and every live session has an accepted request (`Consistent`), so
  the tablet has no other, and the unique index keeps the technician's apart; `Finish`
  `Closes` one; `Establish` the signaling does not see.

*Signaling.* `Inductive` adds to `RoomsAreTheirs` what each message in flight knows:
its identity is its socket's, and once its query has answered it is an end of the
session. Of who knows of whom, a step either only takes sockets away (`Leaving`) or
lets one in (`Entering`), and both keep `PeersAreAnnounced` and `OneEndKnows`: who
enters is told by its ACK if a peer is there, and if a peer is not told then a live
socket of the same end was there and the peer knew. The exception for `masked` is
needed, as the `reconnection` run shows. `OneSessionEach` needs `JoinsOK`: a socket that
is not hasty has one join in flight at most, and is in no session while it has.

*Assistance.* Every step is a step of SupportSessions or leaves its variables alone
(`SessionsAreImplemented`), so what is proved of the calls holds here, and the rows change
as the environment of the signaling does (`RowsStayAsExpected`). With that each step is one
of Signaling or a stutter (`SignalingIsImplemented`), and the theorems of
Signaling_proofs, instantiated with the rows of SupportSessions, carry over.
`OnlyByConsent` then takes one invariant of each: a room has sockets of the two ends of its
session only (`RoomsAreTheirs`), and a session's request is one that this tablet has
accepted for this technician (`Consistent`). That the first socket of a tablet brings it
online and the last one takes it offline, which the steps of the sockets need to be steps
of SupportSessions, is an invariant on the way (`PresenceIsOfSockets`).

*SupportNotices.* What the tables warrant only grows, which follows from the refinement:
each step of AssistanceLifecycle takes a row forward. A commit announces what they have
come to warrant with it, and everything sent or about to be sent was warranted before;
so `NoticesAreTrue` and `NoticesAreNew` are kept together (`NoticesInv`). With them goes
`NothingIsForgotten` (`NothingStaysForgotten`): what a commit makes the tables call for is
just what its call then has to announce, and a call stops having to announce something only
by announcing it or by losing it to a failure.

*DevicePresence.* `IInv` adds to `PresenceIsReal` and `WithdrawalsAreUnderWay` what a
socket knows (`SocketOK`: its credential was issued; an outcast is unauthorised now; one
that has got past `isActive` is so because of its credential, which cannot come into force
again) and what a call has under way (`CallOK`). `OutcastsStayOut` is a consequence of
`SocketOK`: the two queries are made at different moments, and a socket that passes both
was authorised at one of them. A withdrawal adds the registered
sockets to `withdrawn` in the same step that makes its call one that `Closes`, and a
socket leaves `withdrawn` when it is closed, by whomever; a call that fails while it
`Closes` puts what it leaves behind in `forgotten`, and the next withdrawal takes it on
again. That is all there is to it, but it needs `WithdrawnAreOpen`, so that a socket cannot be registered again before.

*DeviceEnrollment.* `OneCredential` rests on the locks: the codes an activation has
locked are pending until its end and no other call can touch them, so the counts it has
read are still the counts; and an INSERT that the index admits leaves the credential the
transaction revokes as the only other one. `IInv` says this of every call between its
locks and its commit. The refinement maps each commit to `Issue`, `Miss` or `Activate`
and every other step, `Rollback`, `Fail` and `Crash` included, to a stutter: the mapping
looks at committed rows only. `CredentialsAreIssuedAtOnce` maps the commit of an activation
to `Issue`: what it revokes is all that was in force, because the index admitted its
INSERT and lets no other activation of the device in before its commit (`Alone`).

*Administration.* `IInv` says that rows are normalised, that inserts of one address wait
for each other (`InsertedAlone`), that a barred call has got no further than its first
read (`Waiting`), and of the registry that a call which has made a device has ended. That barred
calls stay where they are needs the row and the call at the same moment: a call admitted
at some time was entitled at that time, and is not barred from then on.

*Only model-checked*: liveness (`EveryCallIsAnswered`, `EveryChangeIsAnnounced`,
`WithdrawalsEnd`, `EveryCallEnds`), which is out of this prover's reach, as are fairness and
ENABLED: the refinements proved are those of the safety part of each specification.

## 5. What is not modelled

- Payload validation, DTOs, wording of errors, JWT signatures and expiry, bcrypt: they
  decide whether a call begins, and keep no state.
- A query that fails in every run: it is an action of every module (`QueryFails` of
  SupportSessions, DevicePresence and Users, `CreateFails` and `CommitDevice` of
  DeviceRegistry, `Rollback` of DeviceEnrollment, the failing answers of Signaling), but
  `pair` and the runs that show a disagreement have it off. A COMMIT whose answer is lost is
  a failure after it took effect in SupportSessions, DevicePresence and DeviceRegistry; in
  DeviceEnrollment only the answer of the call would differ, and `Disconnect`, the step it
  would skip, does nothing to the codes.
- The optional `technicalInfo` that an activation writes to its device
  (`device-enrollment.service.ts:195`): it is data, and the lock of the row of `devices` it
  takes is always asked for after those of the codes and before those of the credentials,
  so that it adds no ring.
- A call refused by its first statement: it changes nothing.
- Timestamps beyond set or unset, and the expiry of a code beyond happening once.
- More than one backend process: presence and rooms are in memory, and the docs rule
  it out.
- The shape of answers. Two of them are not what the documents say, and no run is about
  them: a `create` that runs out of public ids answers 400, not 500 (`docs/ENDPOINTS.md:381`),
  and an `assign` whose notice throws answers 500 for something that was done
  (`docs/ENDPOINTS.md:1155`).
- Two bootstraps that overlap: the model has them, and two with different addresses may
  both create an administrator, which "si, y solo si, todavia no hay ninguno"
  (`bootstrap-admin.ts:103`) does not allow. `LateScriptsDoNothing` is what is left.

## 6. Plan

1. Done: all components of section 1 that keep state, their safety properties as
   theorems, the lifecycles as refinements, and the composition of calls, signaling and
   sockets (Assistance), which implements both of its parts.
2. Liveness of creates and registrations (every call of `administration` ends), on an
   instance of its own without symmetry.
3. Assistance with the handshakes and withdrawals of DevicePresence in place of
   `TabletConnects` and `SocketDisconnects`.
4. The status code of an answer as part of a call, for what the documents say of it.
