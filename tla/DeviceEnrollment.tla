--------------------------- MODULE DeviceEnrollment ---------------------------
(***************************************************************************)
(* DeviceEnrollmentService and DeviceCredentialsService over PostgreSQL:   *)
(* activation codes, their attempts, and the one credential of a tablet.   *)
(*                                                                         *)
(* A call runs one SQL statement per step; an UPDATE or a SELECT FOR       *)
(* UPDATE that may meet several rows is the snapshot its statement takes,  *)
(* then one lock after the other, in any order, each row judged again when *)
(* its lock is there (READ COMMITTED).  A transaction installs what it has *)
(* written when it commits; statements on rows it has locked itself are    *)
(* one step with that commit.  The bcrypt work in between changes nothing  *)
(* but the time.                                                           *)
(***************************************************************************)
EXTENDS Naturals

CONSTANTS
    Devices,
    Codes,        \* device_enrollments.id
    Credentials,  \* device_credentials.id
    Calls,        \* HTTP calls served at the same time
    None,
    MaxFailedAttempts

ASSUME NoneIsNoId == None \notin Devices \cup Codes \cup Credentials \cup Calls
ASSUME AttemptsAreAllowed == MaxFailedAttempts \in Nat \ {0}

VARIABLES
    code,        \* device_enrollments, committed
    credential,  \* device_credentials, committed
    codeLock,    \* the transaction holding each row of device_enrollments
    credLock,    \* the transaction holding each row of device_credentials
    call,        \* where each call is, and its local variables
    wrong        \* history: the wrong codes each pending code was tried with

-----------------------------------------------------------------------------
locks == <<codeLock, credLock>>
vars == <<code, credential, codeLock, credLock, call, wrong>>

NoCode == [device |-> None, used |-> FALSE, revoked |-> FALSE, expired |-> FALSE, failed |-> 0]
NoCredential == [device |-> None, code |-> None, revoked |-> FALSE]
Unread == [e \in Codes |-> 0]
NoCall == [pc |-> "idle", device |-> None, given |-> None, todo |-> {}, codes |-> {},
           creds |-> {}, failed |-> Unread]

Pcs == {"idle", "findRevocable", "revokeCodes", "findCodes", "lockCodes", "countFailure",
        "consume", "findCreds", "revokeCreds", "insertCred", "commitActivate", "disconnect"}

At(c, pc) == call[c].pc = pc
Become(c, state) == call' = [call EXCEPT ![c] = state]
Goto(c, pc) == Become(c, [call[c] EXCEPT !.pc = pc])
Done(c) == Become(c, NoCall)

Unlock(c) ==
    /\ codeLock' = [e \in Codes |-> IF codeLock[e] = c THEN None ELSE codeLock[e]]
    /\ credLock' = [k \in Credentials |-> IF credLock[k] = c THEN None ELSE credLock[k]]

\* The transaction ends without having written anything.
Abort(c) == Unlock(c) /\ Done(c) /\ UNCHANGED <<code, credential, wrong>>

-----------------------------------------------------------------------------
\* Neither used nor revoked.  An expired code is still revoked by the next one.
Revocable(e, d) == code[e].device = d /\ ~code[e].used /\ ~code[e].revoked

Pending(e, d) == Revocable(e, d) /\ ~code[e].expired

InForce(k, d) == credential[k].device = d /\ ~credential[k].revoked

Fault_LockCode(c, e) == UNCHANGED codeLock
LockCode(c, e) == codeLock' = [codeLock EXCEPT ![e] = c]

\* The UPDATE of the rows found, or their SELECT FOR UPDATE, goes on to another
\* row: it waits for the transaction that holds it, and passes over a row that
\* was used or revoked meanwhile.
LockNextCode(c) ==
    \E e \in call[c].todo :
      /\ At(c, "revokeCodes") \/ At(c, "lockCodes")
      /\ codeLock[e] = None
      /\ IF Revocable(e, call[c].device)
           THEN /\ LockCode(c, e)
                /\ Become(c, [call[c] EXCEPT !.todo = @ \ {e},
                                             !.codes = @ \cup {e},
                                             !.failed[e] = code[e].failed])
           ELSE /\ Become(c, [call[c] EXCEPT !.todo = @ \ {e}])
                /\ UNCHANGED codeLock
      /\ UNCHANGED <<code, credential, credLock, wrong>>

-----------------------------------------------------------------------------
(* createEnrollmentCode.  A call for a device that is not active ends where *)
(* this one starts.                                                        *)

StartCreateCode(c, d) ==
    /\ At(c, "idle")
    /\ Become(c, [NoCall EXCEPT !.pc = "findRevocable", !.device = d])
    /\ UNCHANGED <<code, credential, locks, wrong>>

\* revokePendingEnrollments.
FindRevocable(c) ==
    /\ At(c, "findRevocable")
    /\ Become(c, [call[c] EXCEPT !.pc = "revokeCodes",
                                 !.todo = {e \in Codes : Revocable(e, call[c].device)}])
    /\ UNCHANGED <<code, credential, locks, wrong>>

\* The INSERT, which meets no unique index, and the COMMIT.
InsertCode(c) ==
    /\ At(c, "revokeCodes")
    /\ call[c].todo = {}
    /\ \E new \in Codes :                                 \* BOUND: an id is left
         /\ code[new] = NoCode
         /\ code' = [e \in Codes |->
                       CASE e = new             -> [NoCode EXCEPT !.device = call[c].device]
                         [] e \in call[c].codes -> [code[e] EXCEPT !.revoked = TRUE]
                         [] OTHER               -> code[e]]
    /\ Unlock(c)
    /\ Done(c)
    /\ UNCHANGED <<credential, wrong>>

-----------------------------------------------------------------------------
(* activate: runActivation in one transaction, then disconnectDevice.  Here *)
(* too the device read first is an active one.                             *)

\* given is a code some call has issued, or None for one that matches nothing.
StartActivate(c, d, given) ==
    /\ At(c, "idle")
    /\ given # None => code[given] # NoCode
    /\ Become(c, [NoCall EXCEPT !.pc = "findCodes", !.device = d, !.given = given])
    /\ UNCHANGED <<code, credential, locks, wrong>>

\* findPendingEnrollments: the expiry is judged here, against the time at which
\* the call began.
FindCodes(c) ==
    LET found == {e \in Codes : Pending(e, call[c].device)} IN
    /\ At(c, "findCodes")
    /\ IF found = {}
         THEN Done(c)
         ELSE Become(c, [call[c] EXCEPT !.pc = "lockCodes", !.todo = found])
    /\ UNCHANGED <<code, credential, locks, wrong>>

\* The code given matches one of the rows that came back, or none.
CompareCode(c) ==
    /\ At(c, "lockCodes")
    /\ call[c].todo = {}
    /\ IF call[c].codes = {}
         THEN Done(c)
         ELSE Goto(c, IF call[c].given \in call[c].codes THEN "consume" ELSE "countFailure")
    /\ UNCHANGED <<code, credential, locks, wrong>>

Fault_Exhausted(n) == n > MaxFailedAttempts
Exhausted(n) == n >= MaxFailedAttempts

\* registerFailedAttempts, from the counts the SELECT returned, and the COMMIT:
\* a refusal is an answer, not an exception.
CountFailure(c) ==
    LET count(e) == call[c].failed[e] + 1 IN
    /\ At(c, "countFailure")
    /\ code' = [e \in Codes |->
                  IF e \in call[c].codes
                    THEN [code[e] EXCEPT !.failed = count(e),
                                         !.revoked = @ \/ Exhausted(count(e))]
                    ELSE code[e]]
    /\ wrong' = [e \in Codes |-> IF e \in call[c].codes THEN wrong[e] + 1 ELSE wrong[e]]
    /\ Unlock(c)
    /\ Done(c)
    /\ UNCHANGED <<credential>>

\* Outside the transaction of the SELECT, the UPDATE would wait for it.
Fault_MayUpdate(c, e) == codeLock[e] = None
MayUpdate(c, e) == codeLock[e] \in {c, None}

\* The conditional UPDATE of the code, the "second barrier".
Consume(c) ==
    LET e == call[c].given IN
    /\ At(c, "consume")
    /\ MayUpdate(c, e)
    /\ IF code[e].used
         THEN Abort(c)
         ELSE /\ codeLock' = [codeLock EXCEPT ![e] = c]
              /\ Goto(c, "findCreds")
              /\ UNCHANGED <<code, credential, credLock, wrong>>

\* revokeActiveCredentials.
FindCreds(c) ==
    /\ At(c, "findCreds")
    /\ Become(c, [call[c] EXCEPT !.pc = "revokeCreds",
                                 !.creds = {k \in Credentials : InForce(k, call[c].device)}])
    /\ UNCHANGED <<code, credential, locks, wrong>>

RevokeCreds(c) ==
    LET mine == {k \in call[c].creds : InForce(k, call[c].device)} IN
    /\ At(c, "revokeCreds")
    /\ \A k \in call[c].creds : credLock[k] = None
    /\ credLock' = [k \in Credentials |-> IF k \in mine THEN c ELSE credLock[k]]
    /\ Become(c, [call[c] EXCEPT !.pc = "insertCred", !.creds = mine])
    /\ UNCHANGED <<code, credential, codeLock, wrong>>

Fault_IndexAllows(c) == TRUE

\* IDX_device_credentials_active.
IndexAllows(c) ==
    \A k \in Credentials : InForce(k, call[c].device) => k \in call[c].creds

\* The INSERT of the credential.  The index makes it wait for a transaction that
\* has inserted, or is revoking, another one of the device.
InsertCred(c) ==
    /\ At(c, "insertCred")
    /\ \A b \in Calls : At(b, "commitActivate") => call[b].device # call[c].device
    /\ \A k \in Credentials : InForce(k, call[c].device) => credLock[k] \in {c, None}
    /\ IF IndexAllows(c)
         THEN /\ Goto(c, "commitActivate")
              /\ UNCHANGED <<code, credential, locks, wrong>>
         ELSE Abort(c)

CommitActivate(c) ==
    /\ At(c, "commitActivate")
    /\ code' = [code EXCEPT ![call[c].given].used = TRUE]
    /\ \E new \in Credentials :                           \* BOUND: an id is left
         /\ credential[new] = NoCredential
         /\ credential' = [k \in Credentials |->
                CASE k = new             -> [NoCredential EXCEPT !.device = call[c].device,
                                                                !.code = call[c].given]
                  [] k \in call[c].creds -> [credential[k] EXCEPT !.revoked = TRUE]
                  [] OTHER               -> credential[k]]
    /\ Unlock(c)
    /\ Become(c, [NoCall EXCEPT !.pc = "disconnect", !.device = call[c].device])
    /\ UNCHANGED wrong

\* What this does to the sockets is the matter of DevicePresence.
Disconnect(c) ==
    /\ At(c, "disconnect")
    /\ Done(c)
    /\ UNCHANGED <<code, credential, locks, wrong>>

-----------------------------------------------------------------------------
(* PostgreSQL ends a transaction early.                                    *)

InTransaction(c) == ~At(c, "idle") /\ ~At(c, "disconnect")

\* Whose end c needs before its statement can go on.
WaitsFor(c) ==
    LET others == Calls \ {c} IN
    CASE At(c, "revokeCodes") \/ At(c, "lockCodes") ->
           IF \E e \in call[c].todo : codeLock[e] = None
             THEN {}
             ELSE {codeLock[e] : e \in call[c].todo} \cap others
      [] At(c, "consume")     -> {codeLock[call[c].given]} \cap others
      [] At(c, "revokeCreds") -> {credLock[k] : k \in call[c].creds} \cap others
      [] At(c, "insertCred")  ->
           {b \in others : At(b, "commitActivate") /\ call[b].device = call[c].device}
             \cup ({credLock[k] : k \in {l \in Credentials : InForce(l, call[c].device)}}
                     \cap others)
      [] OTHER                -> {}

\* c is in a ring of transactions that wait for each other.
Deadlocked(c) ==
    \E ring \in SUBSET Calls :
      /\ c \in ring
      /\ \A b \in ring : WaitsFor(b) # {} /\ WaitsFor(b) \subseteq ring

\* Nothing is left to the INSERT that comes next.
NoIdLeft(c) ==
    \/ At(c, "revokeCodes") /\ \A e \in Codes : code[e] # NoCode
    \/ At(c, "commitActivate") /\ \A k \in Credentials : credential[k] # NoCredential

\* The statement fails, the exception reaches DataSource.transaction, which
\* rolls back, and the call is answered with an error.
Rollback(c) == InTransaction(c) /\ Abort(c)

\* It must: deadlock_timeout has gone by, or the INSERT has no id to take.
Fail(c) == (Deadlocked(c) \/ NoIdLeft(c)) /\ Rollback(c)

\* CODE_TTL_MINUTES have gone by.  It makes no difference to a code that has ended.
Expires(e) ==
    /\ code[e] # NoCode
    /\ ~code[e].used /\ ~code[e].revoked /\ ~code[e].expired
    /\ code' = [code EXCEPT ![e].expired = TRUE]
    /\ UNCHANGED <<credential, locks, call, wrong>>

\* The process dies, and PostgreSQL undoes what was open.
Crash ==
    /\ call' = [c \in Calls |-> NoCall]
    /\ codeLock' = [e \in Codes |-> None]
    /\ credLock' = [k \in Credentials |-> None]
    /\ UNCHANGED <<code, credential, wrong>>

Init ==
    /\ code = [e \in Codes |-> NoCode]
    /\ credential = [k \in Credentials |-> NoCredential]
    /\ codeLock = [e \in Codes |-> None]
    /\ credLock = [k \in Credentials |-> None]
    /\ call = [c \in Calls |-> NoCall]
    /\ wrong = [e \in Codes |-> 0]

Continue(c) ==
    \/ FindRevocable(c) \/ LockNextCode(c) \/ InsertCode(c)
    \/ FindCodes(c) \/ CompareCode(c) \/ CountFailure(c) \/ Consume(c)
    \/ FindCreds(c) \/ RevokeCreds(c) \/ InsertCred(c)
    \/ CommitActivate(c) \/ Disconnect(c)

Next ==
    \/ \E c \in Calls :
         \/ \E d \in Devices :
              \/ StartCreateCode(c, d)
              \/ \E given \in Codes \cup {None} : StartActivate(c, d, given)
         \/ Continue(c)
         \/ Rollback(c)
    \/ \E e \in Codes : Expires(e)
    \/ Crash

Spec == Init /\ [][Next]_vars

\* The queue on a row is first come, first served, so a lock that is released
\* again and again is had in the end; and PostgreSQL breaks a deadlock.
Fairness == \A c \in Calls : SF_vars(Continue(c) \/ Fail(c))

FairSpec == Spec /\ Fairness
-----------------------------------------------------------------------------
(* Properties.                                                             *)

\* Every variable keeps its shape.
TypeOK ==
    /\ code \in [Codes -> [device : Devices \cup {None}, used : BOOLEAN, revoked : BOOLEAN,
                           expired : BOOLEAN, failed : 0..MaxFailedAttempts]]
    /\ credential \in [Credentials -> [device : Devices \cup {None},
                                       code : Codes \cup {None}, revoked : BOOLEAN]]
    /\ codeLock \in [Codes -> Calls \cup {None}]
    /\ credLock \in [Credentials -> Calls \cup {None}]
    /\ call \in [Calls -> [pc : Pcs, device : Devices \cup {None}, given : Codes \cup {None},
                           todo : SUBSET Codes, codes : SUBSET Codes,
                           creds : SUBSET Credentials,
                           failed : [Codes -> 0..MaxFailedAttempts]]]
    /\ wrong \in [Codes -> Nat]

\* A tablet that has been activated has exactly one credential in force, however
\* activations race with each other: issueCredential never leaves it with two,
\* and an activation that fails half way never leaves it with none.
OneCredential ==
    \A d \in Devices :
      LET issued == {k \in Credentials : credential[k].device = d} IN
      issued # {} => \E k \in issued : \A l \in issued : InForce(l, d) <=> l = k

\* A code ends once.  It activates a tablet at most once, its own, and never
\* after createEnrollmentCode or the attempts have revoked it; used and
\* exchanged for a credential are the same thing, though they are written by
\* two statements.
CodesEndOnce ==
    /\ \A e \in Codes : ~(code[e].used /\ code[e].revoked)
    /\ \A e \in Codes : code[e].used =>
         \E k \in Credentials : credential[k].code = e /\ credential[k].device = code[e].device
    /\ \A k, l \in Credentials : credential[k].code # None =>
         /\ code[credential[k].code].used
         /\ credential[l].code = credential[k].code => k = l

\* No wrong attempt is lost: the count read by one activation is not written
\* over that of another, so a code takes MaxFailedAttempts of them and no more.
AttemptsAreCounted ==
    \A e \in Codes :
      /\ code[e].failed = wrong[e]
      /\ code[e].failed <= MaxFailedAttempts
      /\ code[e].failed = MaxFailedAttempts => code[e].revoked

\* Every call is answered, unless the process dies: activations and new codes
\* that lock the same rows in different orders may block each other, but never
\* for good, and no call waits for a lock of its own.
EveryCallEnds == \A c \in Calls : ~At(c, "idle") ~> At(c, "idle")

-----------------------------------------------------------------------------
(* The rows tell the life of an enrolment, whatever goes on around them.   *)

Status(e) ==
    CASE code[e].device = None -> "none"
      [] code[e].used          -> "used"
      [] code[e].revoked       -> "revoked"
      [] OTHER                 -> "pending"

Lifecycle == INSTANCE EnrolmentLifecycle WITH
    status   <- [e \in Codes |-> Status(e)],
    owner    <- [e \in Codes |-> code[e].device],
    attempts <- [e \in Codes |-> code[e].failed],
    issued   <- {k \in Credentials : credential[k].device # None},
    current  <- [d \in Devices |-> {k \in Credentials : InForce(k, d)}]

\* A transaction that reads, locks, compares and writes row by row has the
\* effect of one atomic operation on codes and credentials, or none: every
\* write of these tables is an Issue, a Miss or an Activate of the lifecycle.
ImplementsLifecycle == Lifecycle!Spec

\* findActiveCredential, which the index lets find at most one.
CredentialOf(d) ==
    IF \E k \in Credentials : InForce(k, d)
      THEN CHOOSE k \in Credentials : InForce(k, d)
      ELSE None

Issuing == INSTANCE IssuedCredentials WITH
    issued  <- [k \in Credentials |-> credential[k].device],
    current <- [d \in Devices |-> CredentialOf(d)]

\* Whoever asks which credential is in force sees it replaced in one step, by a
\* new one, for one device: there is no moment between the old credential and
\* the new one, none at which it is an older one again, and none at which a
\* device is left without.
ImplementsCredentials == Issuing!Spec

-----------------------------------------------------------------------------
(* What the documentation says and the code does not do.                   *)

\* docs/ENDPOINTS.md:538, a new code revokes every previous pending code: only
\* the last one handed out can be used.
LatestCodeOnly ==
    \A d \in Devices : \A e, f \in Codes : Pending(e, d) /\ Pending(f, d) => e = f
=============================================================================
