----------------------- MODULE DeviceEnrollment_proofs -----------------------
(***************************************************************************)
(* Proofs about DeviceEnrollment, for any number of tablets, codes and     *)
(* calls: the rows a call works with are its own until its transaction     *)
(* ends, so what it decided when it locked them is still true when it      *)
(* commits.                                                                *)
(***************************************************************************)
EXTENDS DeviceEnrollment, TLAPS

-----------------------------------------------------------------------------
(* The inductive invariant.                                                *)

Holding == {"consume", "findCreds", "revokeCreds", "insertCred", "commitActivate"}

\* The codes of c are locked by it, can still be revoked, and are as it read them.
OwnsCodes(c) ==
    \A e \in call[c].codes :
      /\ codeLock[e] = c
      /\ Revocable(e, call[c].device)
      /\ call[c].failed[e] = code[e].failed

\* The credentials c is to revoke are locked by it, and in force.
OwnsCreds(c) ==
    At(c, "insertCred") \/ At(c, "commitActivate") =>
      \A k \in call[c].creds : credLock[k] = c /\ InForce(k, call[c].device)

\* Once the INSERT has passed the index, c is alone with the device.
Alone(c) ==
    At(c, "commitActivate") =>
      /\ IndexAllows(c)
      /\ \A b \in Calls : At(b, "commitActivate") /\ call[b].device = call[c].device => b = c

Shaped(c) ==
    /\ IF At(c, "idle") THEN call[c].codes = {} ELSE call[c].device \in Devices
    /\ At(c, "countFailure") => call[c].codes # {}
    /\ call[c].pc \in Holding => call[c].given \in call[c].codes

CallsOK == \A c \in Calls : Shaped(c) /\ OwnsCodes(c) /\ OwnsCreds(c) /\ Alone(c)

RowsOK == OneCredential /\ CodesEndOnce /\ AttemptsAreCounted

IInv == TypeOK /\ CallsOK /\ RowsOK

-----------------------------------------------------------------------------
(* Types.                                                                  *)

CallType == [pc : Pcs, device : Devices \cup {None}, given : Codes \cup {None},
             todo : SUBSET Codes, codes : SUBSET Codes, creds : SUBSET Credentials,
             failed : [Codes -> 0..MaxFailedAttempts]]

CodeType == [device : Devices \cup {None}, used : BOOLEAN, revoked : BOOLEAN,
             expired : BOOLEAN, failed : 0..MaxFailedAttempts]

CredType == [device : Devices \cup {None}, code : Codes \cup {None}, revoked : BOOLEAN]

LEMMA TypeOKIs ==
    TypeOK <=> /\ code \in [Codes -> CodeType]
               /\ credential \in [Credentials -> CredType]
               /\ codeLock \in [Codes -> Calls \cup {None}]
               /\ credLock \in [Credentials -> Calls \cup {None}]
               /\ call \in [Calls -> CallType]
               /\ wrong \in [Codes -> Nat]
BY DEF TypeOK, CodeType, CredType, CallType

LEMMA TypeOKNext ==
    TypeOK' <=> /\ code' \in [Codes -> CodeType]
                /\ credential' \in [Credentials -> CredType]
                /\ codeLock' \in [Codes -> Calls \cup {None}]
                /\ credLock' \in [Credentials -> Calls \cup {None}]
                /\ call' \in [Calls -> CallType]
                /\ wrong' \in [Codes -> Nat]
BY DEF TypeOK, CodeType, CredType, CallType

LEMMA NoCallType == NoCall \in CallType
BY AttemptsAreAllowed DEF NoCall, CallType, Pcs, Unread

\* The updates of a call's record that the actions make.
LEMMA SetTodo ==
    ASSUME NEW r \in CallType, NEW pc \in Pcs, NEW T \in SUBSET Codes
    PROVE  [r EXCEPT !.pc = pc, !.todo = T] \in CallType
BY DEF CallType

LEMMA SetCreds ==
    ASSUME NEW r \in CallType, NEW pc \in Pcs, NEW K \in SUBSET Credentials
    PROVE  [r EXCEPT !.pc = pc, !.creds = K] \in CallType
BY DEF CallType

LEMMA PassCode ==
    ASSUME NEW r \in CallType, NEW e \in Codes
    PROVE  [r EXCEPT !.todo = @ \ {e}] \in CallType
BY DEF CallType

LEMMA TakeCode ==
    ASSUME NEW r \in CallType, NEW e \in Codes, NEW n \in 0..MaxFailedAttempts
    PROVE  [r EXCEPT !.todo = @ \ {e}, !.codes = @ \cup {e}, !.failed[e] = n] \in CallType
<1>1. [r.failed EXCEPT ![e] = n] \in [Codes -> 0..MaxFailedAttempts]
  BY DEF CallType
<1>2. r.todo \ {e} \in SUBSET Codes /\ r.codes \cup {e} \in SUBSET Codes
  BY DEF CallType
<1> QED BY <1>1, <1>2 DEF CallType

LEMMA BecomeType ==
    ASSUME TypeOK, NEW c \in Calls, NEW r \in CallType, Become(c, r)
    PROVE  call' \in [Calls -> CallType]
BY DEF TypeOK, Become, CallType

LEMMA UnlockType ==
    ASSUME TypeOK, NEW c \in Calls, Unlock(c)
    PROVE  /\ codeLock' \in [Codes -> Calls \cup {None}]
           /\ credLock' \in [Credentials -> Calls \cup {None}]
BY DEF TypeOK, Unlock

LEMMA AbortType ==
    ASSUME TypeOK, NEW c \in Calls, Abort(c)
    PROVE  TypeOK'
<1>1. call' \in [Calls -> CallType]
  BY NoCallType, BecomeType DEF Abort, Done
<1> QED BY <1>1, UnlockType DEF Abort, TypeOK, CallType

LEMMA GotoType ==
    ASSUME TypeOK, NEW c \in Calls, NEW pc \in Pcs, Goto(c, pc)
    PROVE  call' \in [Calls -> CallType]
<1>1. call[c] \in CallType
  BY TypeOKIs
<1>2. [call[c] EXCEPT !.pc = pc] \in CallType
  BY <1>1 DEF CallType
<1> QED BY <1>2, BecomeType DEF Goto

LEMMA TypeStep ==
    ASSUME IInv, [Next]_vars
    PROVE  TypeOK'
<1> USE DEF IInv
<1>0. /\ code \in [Codes -> CodeType]
      /\ credential \in [Credentials -> CredType]
      /\ codeLock \in [Codes -> Calls \cup {None}]
      /\ credLock \in [Credentials -> Calls \cup {None}]
      /\ call \in [Calls -> CallType]
      /\ wrong \in [Codes -> Nat]
  BY TypeOKIs
<1>a. CASE UNCHANGED vars
  BY <1>a DEF vars, locks, TypeOK
<1>c. ASSUME NEW c \in Calls, NEW d \in Devices, StartCreateCode(c, d) PROVE TypeOK'
  <2>1. [NoCall EXCEPT !.pc = "findRevocable", !.device = d] \in CallType
    BY NoCallType DEF CallType, NoCall, Pcs
  <2> QED BY <1>c, <2>1, BecomeType DEF StartCreateCode, TypeOK, CallType, locks
<1>d. ASSUME NEW c \in Calls, NEW d \in Devices, NEW given \in Codes \cup {None},
             StartActivate(c, d, given)
      PROVE TypeOK'
  <2>1. [NoCall EXCEPT !.pc = "findCodes", !.device = d, !.given = given] \in CallType
    BY NoCallType DEF CallType, NoCall, Pcs
  <2> QED BY <1>d, <2>1, BecomeType DEF StartActivate, TypeOK, CallType, locks
<1>e. ASSUME NEW c \in Calls, FindRevocable(c) PROVE TypeOK'
  <2>1. [call[c] EXCEPT !.pc = "revokeCodes",
                        !.todo = {e \in Codes : Revocable(e, call[c].device)}] \in CallType
    BY <1>0, SetTodo DEF Pcs
  <2> QED BY <1>e, <2>1, BecomeType DEF FindRevocable, TypeOK, CallType, locks
<1>f. ASSUME NEW c \in Calls, LockNextCode(c) PROVE TypeOK'
  <2> PICK e \in call[c].todo : LockNextCode(c)!(e)
    BY <1>f DEF LockNextCode
  <2>1. e \in Codes /\ code[e].failed \in 0..MaxFailedAttempts
    BY <1>0 DEF CallType, TypeOK
  <2>2. /\ [call[c] EXCEPT !.todo = @ \ {e}, !.codes = @ \cup {e},
                           !.failed[e] = code[e].failed] \in CallType
        /\ [call[c] EXCEPT !.todo = @ \ {e}] \in CallType
    BY <1>0, <2>1, TakeCode, PassCode
  <2>3. call' \in [Calls -> CallType]
    BY <2>2, BecomeType
  <2>4. codeLock' \in [Codes -> Calls \cup {None}]
    BY <1>0, <2>1 DEF LockCode
  <2> QED BY <1>0, <2>3, <2>4, TypeOKNext
<1>g. ASSUME NEW c \in Calls, InsertCode(c) PROVE TypeOK'
  <2>1. call' \in [Calls -> CallType]
    BY <1>g, NoCallType, BecomeType DEF InsertCode, Done
  <2>2. call[c].device \in Devices \cup {None}
    BY <1>0 DEF CallType
  <2>3. [NoCode EXCEPT !.device = call[c].device] \in CodeType
    <3>1. 0 \in 0..MaxFailedAttempts
      BY AttemptsAreAllowed
    <3>2. NoCode \in CodeType
      BY <3>1 DEF NoCode, CodeType
    <3> QED BY <2>2, <3>2 DEF CodeType
  <2>4. \A e \in Codes : [code[e] EXCEPT !.revoked = TRUE] \in CodeType
    BY <1>0 DEF CodeType
  <2>5. code' \in [Codes -> CodeType]
    <3> PICK new \in Codes : InsertCode(c)!3!(new)
      BY <1>g DEF InsertCode
    <3> QED BY <1>0, <2>3, <2>4
  <2> QED BY <1>g, <1>0, <2>1, <2>5, UnlockType, TypeOKNext DEF InsertCode
<1>h. ASSUME NEW c \in Calls, FindCodes(c) PROVE TypeOK'
  <2>1. [call[c] EXCEPT !.pc = "lockCodes",
                        !.todo = {e \in Codes : Pending(e, call[c].device)}] \in CallType
    BY <1>0, SetTodo DEF Pcs
  <2>2. call' \in [Calls -> CallType]
    BY <1>h, <2>1, BecomeType, NoCallType DEF FindCodes, Done
  <2> QED BY <1>h, <2>2 DEF FindCodes, TypeOK, CallType, locks
<1>i. ASSUME NEW c \in Calls, CompareCode(c) PROVE TypeOK'
  <2>1. call' \in [Calls -> CallType]
    BY <1>i, BecomeType, GotoType, NoCallType DEF CompareCode, Done, Pcs
  <2> QED BY <1>i, <2>1 DEF CompareCode, TypeOK, CallType, locks
<1>j. ASSUME NEW c \in Calls, CountFailure(c) PROVE TypeOK'
  <2>1. call' \in [Calls -> CallType]
    BY <1>j, NoCallType, BecomeType DEF CountFailure, Done
  <2>2. \A e \in call[c].codes :
          /\ e \in Codes
          /\ call[c].failed[e] = code[e].failed
          /\ ~code[e].revoked
    BY <1>0 DEF CallType, CallsOK, OwnsCodes, Revocable
  <2>3. \A e \in call[c].codes : call[c].failed[e] + 1 \in 0..MaxFailedAttempts
    <3> SUFFICES ASSUME NEW e \in call[c].codes
                 PROVE  code[e].failed + 1 \in 0..MaxFailedAttempts
      BY <2>2
    <3>1. code[e].failed \in 0..MaxFailedAttempts
      BY <2>2, <1>0 DEF CodeType
    <3>2. code[e].failed # MaxFailedAttempts
      BY <2>2 DEF RowsOK, AttemptsAreCounted
    <3> QED BY <3>1, <3>2, AttemptsAreAllowed
  <2>4. \A e \in Codes : \A n \in 0..MaxFailedAttempts :
          [code[e] EXCEPT !.failed = n, !.revoked = @ \/ Exhausted(n)] \in CodeType
    BY <1>0 DEF CodeType, Exhausted
  <2>5. code' \in [Codes -> CodeType]
    BY <1>j, <1>0, <2>3, <2>4 DEF CountFailure
  <2>6. wrong' \in [Codes -> Nat]
    <3>1. wrong' = [e \in Codes |-> IF e \in call[c].codes THEN wrong[e] + 1 ELSE wrong[e]]
      BY <1>j DEF CountFailure
    <3>2. \A e \in Codes : wrong[e] \in Nat /\ wrong[e] + 1 \in Nat
      BY <1>0
    <3> QED BY <3>1, <3>2
  <2> QED BY <1>j, <1>0, <2>1, <2>5, <2>6, UnlockType, TypeOKNext DEF CountFailure
<1>k. ASSUME NEW c \in Calls, Consume(c) PROVE TypeOK'
  <2>1. CASE Abort(c)
    BY <2>1, AbortType
  <2>2. CASE ~Abort(c)
    <3>1. call' \in [Calls -> CallType]
      BY <1>k, <2>2, GotoType DEF Consume, Pcs
    <3>2. codeLock' \in [Codes -> Calls \cup {None}]
      BY <1>k, <2>2, <1>0 DEF Consume
    <3> QED BY <1>k, <2>2, <1>0, <3>1, <3>2, TypeOKNext DEF Consume
  <2> QED BY <2>1, <2>2
<1>l. ASSUME NEW c \in Calls, FindCreds(c) PROVE TypeOK'
  <2>1. [call[c] EXCEPT !.pc = "revokeCreds",
                        !.creds = {k \in Credentials : InForce(k, call[c].device)}] \in CallType
    BY <1>0, SetCreds DEF Pcs
  <2> QED BY <1>l, <2>1, BecomeType DEF FindCreds, TypeOK, CallType, locks
<1>m. ASSUME NEW c \in Calls, RevokeCreds(c) PROVE TypeOK'
  <2> DEFINE mine == {k \in call[c].creds : InForce(k, call[c].device)}
  <2>0. mine \in SUBSET Credentials
    BY <1>0 DEF CallType
  <2>1. [call[c] EXCEPT !.pc = "insertCred", !.creds = mine] \in CallType
    BY <1>0, <2>0, SetCreds DEF Pcs
  <2>2. call' \in [Calls -> CallType]
    BY <1>m, <2>1, BecomeType DEF RevokeCreds
  <2>3. credLock' \in [Credentials -> Calls \cup {None}]
    BY <1>m DEF RevokeCreds, TypeOK
  <2> QED BY <1>m, <2>2, <2>3 DEF RevokeCreds, TypeOK, CallType
<1>n. ASSUME NEW c \in Calls, InsertCred(c) PROVE TypeOK'
  <2>1. CASE Abort(c)
    BY <2>1, AbortType
  <2>2. CASE ~Abort(c)
    <3>1. call' \in [Calls -> CallType]
      BY <1>n, <2>2, GotoType DEF InsertCred, Pcs
    <3> QED BY <1>n, <2>2, <3>1 DEF InsertCred, TypeOK, CallType, locks
  <2> QED BY <2>1, <2>2
<1>o. ASSUME NEW c \in Calls, CommitActivate(c) PROVE TypeOK'
  <2>1. [NoCall EXCEPT !.pc = "disconnect", !.device = call[c].device] \in CallType
    BY <1>0, NoCallType DEF CallType, NoCall, Pcs
  <2>2. call' \in [Calls -> CallType]
    BY <1>o, <2>1, BecomeType DEF CommitActivate
  <2>3. call[c].device \in Devices \cup {None} /\ call[c].given \in Codes \cup {None}
    BY <1>0 DEF CallType
  <2>4. /\ [NoCredential EXCEPT !.device = call[c].device, !.code = call[c].given] \in CredType
        /\ \A k \in Credentials : [credential[k] EXCEPT !.revoked = TRUE] \in CredType
    BY <2>3, <1>0 DEF CredType, NoCredential
  <2>5. credential' \in [Credentials -> CredType]
    BY <1>o, <1>0, <2>4 DEF CommitActivate
  <2>6. \A e \in Codes : [code[e] EXCEPT !.used = TRUE] \in CodeType
    BY <1>0 DEF CodeType
  <2>7. code' \in [Codes -> CodeType]
    BY <1>o, <1>0, <2>6 DEF CommitActivate
  <2> QED BY <1>o, <1>0, <2>2, <2>5, <2>7, UnlockType, TypeOKNext DEF CommitActivate
<1>p. ASSUME NEW c \in Calls, Disconnect(c) PROVE TypeOK'
  BY <1>p, NoCallType, BecomeType DEF Disconnect, Done, TypeOK, CallType, locks
<1>q. ASSUME NEW c \in Calls, Rollback(c) PROVE TypeOK'
  BY <1>q, AbortType DEF Rollback
<1>r. ASSUME NEW e \in Codes, Expires(e) PROVE TypeOK'
  <2>1. [code[e] EXCEPT !.expired = TRUE] \in CodeType
    BY <1>0 DEF CodeType
  <2>2. code' \in [Codes -> CodeType]
    BY <1>r, <1>0, <2>1 DEF Expires
  <2> QED BY <1>r, <1>0, <2>2, TypeOKNext DEF Expires, locks
<1>s. CASE Crash
  BY <1>s, NoCallType DEF Crash, TypeOK, CallType
<1> QED
  BY <1>a, <1>c, <1>d, <1>e, <1>f, <1>g, <1>h, <1>i, <1>j, <1>k, <1>l, <1>m, <1>n, <1>o,
     <1>p, <1>q, <1>r, <1>s DEF Next, Continue

-----------------------------------------------------------------------------
(* What calls own.                                                         *)

CallOK(c) == Shaped(c) /\ OwnsCodes(c) /\ OwnsCreds(c) /\ Alone(c)

\* A step of c leaves the rows of the other calls alone, and lets nobody in
\* between the INSERT and the COMMIT of one of them.
LeavesOthers(c) ==
    \A b \in Calls \ {c} :
      /\ call'[b] = call[b]
      /\ \A e \in call[b].codes : code'[e] = code[e] /\ codeLock'[e] = codeLock[e]
      /\ \A k \in call[b].creds :
           At(b, "insertCred") \/ At(b, "commitActivate") =>
             credential'[k] = credential[k] /\ credLock'[k] = credLock[k]
      /\ At(b, "commitActivate") =>
           /\ \A k \in Credentials : InForce(k, call[b].device)' => InForce(k, call[b].device)
           /\ ~(At(c, "commitActivate")' /\ call'[c].device = call[b].device)

LEMMA OthersKeep ==
    ASSUME IInv, NEW c \in Calls, LeavesOthers(c), NEW b \in Calls \ {c}
    PROVE  CallOK(b)'
<1>0. CallOK(b) /\ call'[b] = call[b]
  BY DEF IInv, CallsOK, CallOK, LeavesOthers
<1>1. Shaped(b)'
  BY <1>0 DEF CallOK, Shaped, At
<1>2. OwnsCodes(b)'
  BY <1>0 DEF CallOK, OwnsCodes, Revocable, LeavesOthers
<1>3. OwnsCreds(b)'
  BY <1>0 DEF CallOK, OwnsCreds, InForce, LeavesOthers, At
<1>4. Alone(b)'
  <2>1. SUFFICES ASSUME At(b, "commitActivate")
                 PROVE  /\ IndexAllows(b)'
                        /\ \A a \in Calls : /\ At(a, "commitActivate")'
                                            /\ call'[a].device = call[b].device
                                            => a = b
    BY <1>0 DEF Alone, At
  <2>2. IndexAllows(b)'
    BY <1>0, <2>1 DEF CallOK, Alone, IndexAllows, LeavesOthers
  <2>3. ASSUME NEW a \in Calls, At(a, "commitActivate")', call'[a].device = call[b].device
        PROVE  a = b
    <3>1. a # c
      BY <2>1, <2>3 DEF LeavesOthers
    <3>2. call'[a] = call[a]
      BY <3>1 DEF LeavesOthers
    <3> QED BY <1>0, <2>1, <2>3, <3>2 DEF CallOK, Alone, At
  <2> QED BY <2>2, <2>3
<1> QED BY <1>1, <1>2, <1>3, <1>4 DEF CallOK

LEMMA StepOfOne ==
    ASSUME IInv, NEW c \in Calls, LeavesOthers(c), CallOK(c)'
    PROVE  CallsOK'
BY OthersKeep DEF CallsOK, CallOK

\* A step that changes no row and no lock of anybody else.
LEMMA QuietLeavesOthers ==
    ASSUME NEW c \in Calls, TypeOK, NEW r, Become(c, r), r.pc # "commitActivate",
           UNCHANGED <<code, credential, locks>>
    PROVE  LeavesOthers(c)
BY DEF LeavesOthers, Become, TypeOK, InForce, At, locks

LEMMA NoCallOK ==
    ASSUME NEW c \in Calls, TypeOK, Done(c)
    PROVE  CallOK(c)'
<1>1. call'[c] = NoCall
  BY DEF Done, Become, TypeOK
<1> QED BY <1>1 DEF NoCall, CallOK, Shaped, OwnsCodes, OwnsCreds, Alone, At, Holding

LEMMA AbortCalls ==
    ASSUME IInv, NEW c \in Calls, Abort(c)
    PROVE  CallsOK'
<1>1. CallOK(c)'
  BY NoCallOK DEF IInv, Abort
<1>2. LeavesOthers(c)
  <2>1. SUFFICES ASSUME NEW b \in Calls \ {c}
                 PROVE  /\ call'[b] = call[b]
                        /\ \A e \in call[b].codes : codeLock'[e] = codeLock[e]
                        /\ \A k \in call[b].creds :
                             At(b, "insertCred") \/ At(b, "commitActivate") =>
                               credLock'[k] = credLock[k]
                        /\ ~At(c, "commitActivate")'
    BY DEF LeavesOthers, Abort, InForce
  <2>2. call'[b] = call[b] /\ call'[c] = NoCall
    BY DEF IInv, TypeOK, Abort, Done, Become
  <2>3. OwnsCodes(b) /\ OwnsCreds(b) /\ call[b].codes \subseteq Codes
          /\ call[b].creds \subseteq Credentials
    BY DEF IInv, CallsOK, TypeOK
  <2>4. \A e \in call[b].codes : codeLock'[e] = codeLock[e]
    BY <2>3 DEF OwnsCodes, Abort, Unlock
  <2>5. \A k \in call[b].creds :
          At(b, "insertCred") \/ At(b, "commitActivate") => credLock'[k] = credLock[k]
    BY <2>3 DEF OwnsCreds, Abort, Unlock
  <2> QED BY <2>2, <2>4, <2>5 DEF At, NoCall
<1> QED BY <1>1, <1>2, StepOfOne

LEMMA CallsStep ==
    ASSUME IInv, [Next]_vars
    PROVE  CallsOK'
<1>0. /\ TypeOK
      /\ \A c \in Calls : CallOK(c)
      /\ \A c \in Calls : call[c] \in CallType
  BY TypeOKIs DEF IInv, CallsOK, CallOK
<1>1. NoCall.pc # "commitActivate" /\ NoCall.codes = {} /\ NoCall.creds = {}
  BY DEF NoCall
<1>a. CASE UNCHANGED vars
  BY <1>a DEF IInv, vars, locks, CallsOK, Shaped, OwnsCodes, OwnsCreds, Alone, At, Revocable,
              InForce, IndexAllows
<1>c. ASSUME NEW c \in Calls, NEW d \in Devices, StartCreateCode(c, d) PROVE CallsOK'
  <2> DEFINE r == [NoCall EXCEPT !.pc = "findRevocable", !.device = d]
  <2>1. LeavesOthers(c)
    BY <1>0, <1>c, QuietLeavesOthers DEF StartCreateCode, NoCall
  <2>2. call'[c] = r
    BY <1>0, <1>c DEF StartCreateCode, Become, TypeOK
  <2>3. CallOK(c)'
    BY <2>2 DEF CallOK, Shaped, OwnsCodes, OwnsCreds, Alone, At, NoCall, Holding
  <2> QED BY <2>1, <2>3, StepOfOne
<1>d. ASSUME NEW c \in Calls, NEW d \in Devices, NEW given \in Codes \cup {None},
             StartActivate(c, d, given)
      PROVE CallsOK'
  <2> DEFINE r == [NoCall EXCEPT !.pc = "findCodes", !.device = d, !.given = given]
  <2>1. LeavesOthers(c)
    BY <1>0, <1>d, QuietLeavesOthers DEF StartActivate, NoCall
  <2>2. call'[c] = r
    BY <1>0, <1>d DEF StartActivate, Become, TypeOK
  <2>3. CallOK(c)'
    BY <2>2 DEF CallOK, Shaped, OwnsCodes, OwnsCreds, Alone, At, NoCall, Holding
  <2> QED BY <2>1, <2>3, StepOfOne
<1>e. ASSUME NEW c \in Calls, FindRevocable(c) PROVE CallsOK'
  <2> DEFINE r == [call[c] EXCEPT !.pc = "revokeCodes",
                                  !.todo = {e \in Codes : Revocable(e, call[c].device)}]
  <2>1. r.pc = "revokeCodes" /\ r.device = call[c].device /\ r.codes = call[c].codes
          /\ r.failed = call[c].failed
    BY <1>0 DEF CallType
  <2>2. LeavesOthers(c) /\ call'[c] = r
    BY <1>0, <1>e, <2>1, QuietLeavesOthers DEF FindRevocable, Become, TypeOK
  <2>3. CallOK(c)'
    BY <1>0, <1>e, <2>1, <2>2
       DEF FindRevocable, CallOK, Shaped, OwnsCodes, OwnsCreds, Alone, At, Holding, Revocable, locks
  <2> QED BY <2>2, <2>3, StepOfOne
<1>f. ASSUME NEW c \in Calls, LockNextCode(c) PROVE CallsOK'
  <2> PICK e \in call[c].todo : LockNextCode(c)!(e)
    BY <1>f DEF LockNextCode
  <2>0. e \in Codes /\ codeLock[e] = None
    BY <1>0 DEF CallType
  <2>1. CASE ~Revocable(e, call[c].device)
    <3> DEFINE r == [call[c] EXCEPT !.todo = @ \ {e}]
    <3>1. r.pc = call[c].pc /\ r.device = call[c].device /\ r.codes = call[c].codes
            /\ r.failed = call[c].failed
      BY <1>0 DEF CallType
    <3>2. LeavesOthers(c) /\ call'[c] = r
      BY <1>0, <2>1, <3>1, QuietLeavesOthers DEF Become, TypeOK, At, locks
    <3>3. CallOK(c)'
      BY <1>0, <2>1, <3>1, <3>2
         DEF CallOK, Shaped, OwnsCodes, OwnsCreds, Alone, At, Holding, Revocable, locks
    <3> QED BY <3>2, <3>3, StepOfOne
  <2>2. CASE Revocable(e, call[c].device)
    <3> DEFINE r == [call[c] EXCEPT !.todo = @ \ {e}, !.codes = @ \cup {e},
                                    !.failed[e] = code[e].failed]
    <3>1. /\ r.pc = call[c].pc /\ r.device = call[c].device
          /\ r.codes = call[c].codes \cup {e}
          /\ r.failed = [call[c].failed EXCEPT ![e] = code[e].failed]
      BY <1>0 DEF CallType
    <3>2. call'[c] = r /\ codeLock' = [codeLock EXCEPT ![e] = c]
      BY <1>0, <2>2 DEF Become, TypeOK, LockCode
    <3>3. LeavesOthers(c)
      <4> SUFFICES ASSUME NEW b \in Calls \ {c}
                   PROVE  /\ call'[b] = call[b]
                          /\ \A f \in call[b].codes : codeLock'[f] = codeLock[f]
                          /\ ~At(c, "commitActivate")'
        BY DEF LeavesOthers, InForce
      <4>1. call'[b] = call[b]
        BY <1>0, <2>2 DEF Become, TypeOK
      <4>2. \A f \in call[b].codes : codeLock[f] = b
        BY <1>0 DEF CallOK, OwnsCodes
      <4>3. b # None
        BY NoneIsNoId
      <4> QED BY <1>0, <2>0, <3>1, <3>2, <4>1, <4>2, <4>3 DEF At, TypeOK
    <3>4. OwnsCodes(c)'
      <4> SUFFICES ASSUME NEW f \in r.codes
                   PROVE  /\ codeLock'[f] = c
                          /\ Revocable(f, call[c].device)
                          /\ r.failed[f] = code[f].failed
        BY <3>1, <3>2 DEF OwnsCodes, Revocable
      <4>1. call[c].failed \in [Codes -> 0..MaxFailedAttempts] /\ call[c].codes \subseteq Codes
        BY <1>0 DEF CallType
      <4>2. CASE f = e
        BY <1>0, <2>0, <2>2, <3>1, <3>2, <4>1, <4>2 DEF TypeOK
      <4>3. CASE f # e
        BY <1>0, <2>0, <3>1, <3>2, <4>1, <4>3 DEF CallOK, OwnsCodes, TypeOK
      <4> QED BY <4>2, <4>3
    <3>5. Shaped(c)' /\ OwnsCreds(c)' /\ Alone(c)'
      BY <1>0, <3>1, <3>2 DEF CallOK, Shaped, OwnsCreds, Alone, At, Holding
    <3> QED BY <3>3, <3>4, <3>5, StepOfOne DEF CallOK
  <2> QED BY <2>1, <2>2
<1>g. ASSUME NEW c \in Calls, InsertCode(c) PROVE CallsOK'
  <2> PICK new \in Codes : InsertCode(c)!3!(new)
    BY <1>g DEF InsertCode
  <2>1. CallOK(c)' /\ call'[c] = NoCall
    BY <1>0, <1>g, NoCallOK DEF InsertCode, Done, Become, TypeOK
  <2>2. LeavesOthers(c)
    <3> SUFFICES ASSUME NEW b \in Calls \ {c}
                 PROVE  /\ call'[b] = call[b]
                        /\ \A e \in call[b].codes : code'[e] = code[e] /\ codeLock'[e] = codeLock[e]
                        /\ \A k \in call[b].creds :
                             At(b, "insertCred") \/ At(b, "commitActivate") =>
                               credLock'[k] = credLock[k]
      BY <1>g, <2>1, <1>1 DEF LeavesOthers, InsertCode, InForce, At
    <3>1. call'[b] = call[b]
      BY <1>0, <1>g DEF InsertCode, Done, Become, TypeOK
    <3>2. /\ call[b].codes \subseteq Codes /\ call[b].creds \subseteq Credentials
          /\ OwnsCodes(b) /\ OwnsCreds(b) /\ Shaped(b) /\ OwnsCodes(c)
      BY <1>0 DEF CallType, CallOK
    <3>3. ASSUME NEW e \in call[b].codes
          PROVE  code'[e] = code[e] /\ codeLock'[e] = codeLock[e]
      <4>1. codeLock[e] = b /\ code[e].device = call[b].device /\ call[b].device \in Devices
        BY <3>2 DEF OwnsCodes, Revocable, Shaped
      <4>2. e # new /\ e \notin call[c].codes
        BY <3>2, <4>1, NoneIsNoId DEF NoCode, OwnsCodes
      <4> QED BY <1>g, <3>2, <4>1, <4>2 DEF InsertCode, Unlock
    <3>4. \A k \in call[b].creds : At(b, "insertCred") \/ At(b, "commitActivate") =>
            credLock'[k] = credLock[k]
      BY <1>g, <3>2 DEF InsertCode, Unlock, OwnsCreds
    <3> QED BY <3>1, <3>3, <3>4
  <2> QED BY <2>1, <2>2, StepOfOne
<1>h. ASSUME NEW c \in Calls, FindCodes(c) PROVE CallsOK'
  <2> DEFINE r == [call[c] EXCEPT !.pc = "lockCodes",
                                  !.todo = {e \in Codes : Pending(e, call[c].device)}]
  <2>1. r.pc = "lockCodes" /\ r.device = call[c].device /\ r.codes = call[c].codes
          /\ r.failed = call[c].failed
    BY <1>0 DEF CallType
  <2>2. LeavesOthers(c) /\ (Done(c) \/ call'[c] = r)
    BY <1>0, <1>h, <1>1, <2>1, QuietLeavesOthers DEF FindCodes, Become, TypeOK, Done
  <2>3. CASE call'[c] = r
    <3>1. CallOK(c)'
      BY <1>0, <1>h, <2>1, <2>3
         DEF FindCodes, CallOK, Shaped, OwnsCodes, OwnsCreds, Alone, At, Holding, Revocable, locks
    <3> QED BY <2>2, <3>1, StepOfOne
  <2> QED BY <1>0, <2>2, <2>3, NoCallOK, StepOfOne
<1>i. ASSUME NEW c \in Calls, CompareCode(c) PROVE CallsOK'
  <2> DEFINE r == [call[c] EXCEPT
                     !.pc = IF call[c].given \in call[c].codes THEN "consume" ELSE "countFailure"]
  <2>1. /\ r.pc \in {"consume", "countFailure"}
        /\ r.pc = "consume" => call[c].given \in call[c].codes
        /\ r.device = call[c].device /\ r.codes = call[c].codes
        /\ r.given = call[c].given /\ r.failed = call[c].failed
    BY <1>0 DEF CallType
  <2>2. LeavesOthers(c) /\ (Done(c) \/ (call'[c] = r /\ call[c].codes # {}))
    BY <1>0, <1>i, <1>1, <2>1, QuietLeavesOthers DEF CompareCode, Become, Goto, TypeOK, Done
  <2>3. CASE call'[c] = r /\ call[c].codes # {}
    <3>1. CallOK(c)'
      BY <1>0, <1>i, <2>1, <2>3
         DEF CompareCode, CallOK, Shaped, OwnsCodes, OwnsCreds, Alone, At, Holding, Revocable, locks
    <3> QED BY <2>2, <3>1, StepOfOne
  <2> QED BY <1>0, <2>2, <2>3, NoCallOK, StepOfOne
<1>j. ASSUME NEW c \in Calls, CountFailure(c) PROVE CallsOK'
  <2>0. /\ Done(c) /\ Unlock(c) /\ UNCHANGED credential
        /\ \A e \in Codes : e \notin call[c].codes => code'[e] = code[e]
    BY <1>j DEF CountFailure
  <2>1. CallOK(c)' /\ call'[c] = NoCall
    BY <1>0, <2>0, NoCallOK DEF Done, Become, TypeOK
  <2>2. LeavesOthers(c)
    <3> SUFFICES ASSUME NEW b \in Calls \ {c}
                 PROVE  /\ call'[b] = call[b]
                        /\ \A e \in call[b].codes : code'[e] = code[e] /\ codeLock'[e] = codeLock[e]
                        /\ \A k \in call[b].creds :
                             At(b, "insertCred") \/ At(b, "commitActivate") =>
                               credLock'[k] = credLock[k]
      BY <2>0, <2>1, <1>1 DEF LeavesOthers, InForce, At
    <3>1. call'[b] = call[b]
      BY <1>0, <2>0 DEF Done, Become, TypeOK
    <3>2. /\ call[b].codes \subseteq Codes /\ call[b].creds \subseteq Credentials
          /\ OwnsCodes(b) /\ OwnsCreds(b) /\ OwnsCodes(c)
      BY <1>0 DEF CallType, CallOK
    <3>3. ASSUME NEW e \in call[b].codes
          PROVE  code'[e] = code[e] /\ codeLock'[e] = codeLock[e]
      <4>1. codeLock[e] = b /\ e \notin call[c].codes /\ e \in Codes
        BY <3>2 DEF OwnsCodes
      <4> QED BY <2>0, <4>1 DEF Unlock
    <3>4. \A k \in call[b].creds : At(b, "insertCred") \/ At(b, "commitActivate") =>
            credLock'[k] = credLock[k]
      BY <2>0, <3>2 DEF Unlock, OwnsCreds
    <3> QED BY <3>1, <3>3, <3>4
  <2> QED BY <2>1, <2>2, StepOfOne
<1>k. ASSUME NEW c \in Calls, Consume(c) PROVE CallsOK'
  <2>1. CASE Abort(c)
    BY <2>1, AbortCalls
  <2>2. CASE ~Abort(c)
    <3> DEFINE r == [call[c] EXCEPT !.pc = "findCreds"]
    <3>1. /\ r.pc = "findCreds"
          /\ r.device = call[c].device /\ r.codes = call[c].codes
          /\ r.given = call[c].given /\ r.failed = call[c].failed
      BY <1>0 DEF CallType
    <3>2. call[c].given \in call[c].codes /\ codeLock[call[c].given] = c
      BY <1>0, <1>k DEF CallOK, Shaped, OwnsCodes, Consume, At, Holding
    <3>3. UNCHANGED <<code, credential, locks>> /\ Become(c, r)
      BY <1>0, <1>k, <2>2, <3>2 DEF Consume, Goto, locks, TypeOK
    <3>4. LeavesOthers(c) /\ call'[c] = r
      BY <1>0, <3>1, <3>3, QuietLeavesOthers DEF Become, TypeOK
    <3>5. CallOK(c)'
      BY <1>0, <1>k, <3>1, <3>2, <3>3, <3>4
         DEF Consume, CallOK, Shaped, OwnsCodes, OwnsCreds, Alone, At, Holding, Revocable, locks
    <3> QED BY <3>4, <3>5, StepOfOne
  <2> QED BY <2>1, <2>2
<1>l. ASSUME NEW c \in Calls, FindCreds(c) PROVE CallsOK'
  <2> DEFINE r == [call[c] EXCEPT !.pc = "revokeCreds",
                                  !.creds = {k \in Credentials : InForce(k, call[c].device)}]
  <2>1. /\ r.pc = "revokeCreds"
        /\ r.device = call[c].device /\ r.codes = call[c].codes
        /\ r.given = call[c].given /\ r.failed = call[c].failed
    BY <1>0 DEF CallType
  <2>2. LeavesOthers(c) /\ call'[c] = r
    BY <1>0, <1>l, <2>1, QuietLeavesOthers DEF FindCreds, Become, TypeOK
  <2>3. CallOK(c)'
    BY <1>0, <1>l, <2>1, <2>2
       DEF FindCreds, CallOK, Shaped, OwnsCodes, OwnsCreds, Alone, At, Holding, Revocable, locks
  <2> QED BY <2>2, <2>3, StepOfOne
<1>m. ASSUME NEW c \in Calls, RevokeCreds(c) PROVE CallsOK'
  <2> DEFINE mine == {k \in call[c].creds : InForce(k, call[c].device)}
             r == [call[c] EXCEPT !.pc = "insertCred", !.creds = mine]
  <2>1. /\ r.pc = "insertCred" /\ r.creds = mine
        /\ r.device = call[c].device /\ r.codes = call[c].codes
        /\ r.given = call[c].given /\ r.failed = call[c].failed
    BY <1>0 DEF CallType
  <2>2. /\ call'[c] = r
        /\ \A b \in Calls \ {c} : call'[b] = call[b]
    BY <1>0, <1>m DEF RevokeCreds, Become, TypeOK
  <2>3. /\ UNCHANGED <<code, credential, codeLock>>
        /\ \A k \in mine : credLock[k] = None /\ credLock'[k] = c
        /\ \A k \in Credentials : k \notin mine => credLock'[k] = credLock[k]
    <3>1. call[c].creds \subseteq Credentials
      BY <1>0 DEF CallType
    <3> QED BY <1>m, <3>1 DEF RevokeCreds
  <2>4. LeavesOthers(c)
    <3> SUFFICES ASSUME NEW b \in Calls \ {c}
                 PROVE  \A k \in call[b].creds :
                          At(b, "insertCred") \/ At(b, "commitActivate") =>
                            credLock'[k] = credLock[k]
      BY <2>1, <2>2, <2>3 DEF LeavesOthers, InForce, At
    <3>1. OwnsCreds(b) /\ call[b].creds \subseteq Credentials /\ b # None
      BY <1>0, NoneIsNoId DEF CallType, CallOK
    <3> QED BY <2>3, <3>1 DEF OwnsCreds
  <2>5. CallOK(c)'
    BY <1>0, <1>m, <2>1, <2>2, <2>3
       DEF RevokeCreds, CallOK, Shaped, OwnsCodes, OwnsCreds, Alone, At, Holding, Revocable, InForce
  <2> QED BY <2>4, <2>5, StepOfOne
<1>n. ASSUME NEW c \in Calls, InsertCred(c) PROVE CallsOK'
  <2>1. CASE Abort(c)
    BY <2>1, AbortCalls
  <2>2. CASE ~Abort(c)
    <3> DEFINE r == [call[c] EXCEPT !.pc = "commitActivate"]
    <3>1. /\ r.pc = "commitActivate" /\ r.creds = call[c].creds
          /\ r.device = call[c].device /\ r.codes = call[c].codes
          /\ r.given = call[c].given /\ r.failed = call[c].failed
      BY <1>0 DEF CallType
    <3>2. /\ UNCHANGED <<code, credential, codeLock, credLock>> /\ IndexAllows(c)
          /\ call'[c] = r /\ \A b \in Calls \ {c} : call'[b] = call[b]
      BY <1>0, <1>n, <2>2 DEF InsertCred, Goto, Become, locks, TypeOK
    <3>3. \A b \in Calls : At(b, "commitActivate") => call[b].device # call[c].device
      BY <1>n DEF InsertCred
    <3>4. LeavesOthers(c)
      BY <3>1, <3>2, <3>3 DEF LeavesOthers, InForce, At
    <3>5. Shaped(c)' /\ OwnsCodes(c)' /\ OwnsCreds(c)'
      BY <1>0, <1>n, <3>1, <3>2
         DEF InsertCred, CallOK, Shaped, OwnsCodes, OwnsCreds, At, Holding, Revocable, InForce
    <3>6. Alone(c)'
      <4>1. IndexAllows(c)'
        BY <3>1, <3>2 DEF IndexAllows, InForce
      <4>2. ASSUME NEW b \in Calls, At(b, "commitActivate")', call'[b].device = call'[c].device
            PROVE  b = c
        BY <3>1, <3>2, <3>3, <4>2 DEF At
      <4> QED BY <4>1, <4>2 DEF Alone
    <3> QED BY <3>4, <3>5, <3>6, StepOfOne DEF CallOK
  <2> QED BY <2>1, <2>2
<1>o. ASSUME NEW c \in Calls, CommitActivate(c) PROVE CallsOK'
  <2> DEFINE d == call[c].device
             r == [NoCall EXCEPT !.pc = "disconnect", !.device = d]
  <2> PICK new \in Credentials : CommitActivate(c)!3!(new)
    BY <1>o DEF CommitActivate
  <2>0. /\ r.pc = "disconnect" /\ r.device = d /\ r.codes = {} /\ r.creds = {}
        /\ call'[c] = r /\ \A b \in Calls \ {c} : call'[b] = call[b]
        /\ Unlock(c)
    BY <1>0, <1>o DEF CommitActivate, Become, TypeOK, NoCall
  <2>1. /\ CallOK(c) /\ d \in Devices
        /\ call[c].given \in call[c].codes /\ call[c].given \in Codes
        /\ call[c].creds \subseteq Credentials
    BY <1>0, <1>o DEF CommitActivate, CallOK, Shaped, At, Holding, CallType
  <2>2. CallOK(c)'
    BY <2>0, <2>1 DEF CallOK, Shaped, OwnsCodes, OwnsCreds, Alone, At, Holding
  <2>3. LeavesOthers(c)
    <3> SUFFICES ASSUME NEW b \in Calls \ {c}
                 PROVE  /\ \A e \in call[b].codes : code'[e] = code[e] /\ codeLock'[e] = codeLock[e]
                        /\ \A k \in call[b].creds :
                             At(b, "insertCred") \/ At(b, "commitActivate") =>
                               credential'[k] = credential[k] /\ credLock'[k] = credLock[k]
                        /\ At(b, "commitActivate") =>
                             \A k \in Credentials : InForce(k, call[b].device)' =>
                                                      InForce(k, call[b].device)
      BY <2>0 DEF LeavesOthers, At
    <3>1. /\ call[b].codes \subseteq Codes /\ call[b].creds \subseteq Credentials
          /\ OwnsCodes(b) /\ OwnsCreds(b) /\ Shaped(b)
      BY <1>0 DEF CallType, CallOK
    <3>2. ASSUME NEW e \in call[b].codes
          PROVE  code'[e] = code[e] /\ codeLock'[e] = codeLock[e]
      <4>1. codeLock[e] = b /\ codeLock[call[c].given] = c
        BY <2>1, <3>1 DEF CallOK, OwnsCodes
      <4> QED BY <1>0, <1>o, <2>0, <3>1, <4>1 DEF CommitActivate, Unlock, TypeOK
    <3>3. ASSUME NEW k \in call[b].creds, At(b, "insertCred") \/ At(b, "commitActivate")
          PROVE  credential'[k] = credential[k] /\ credLock'[k] = credLock[k]
      <4>1. credLock[k] = b /\ InForce(k, call[b].device) /\ call[b].device \in Devices
        BY <3>1, <3>3 DEF OwnsCreds, Shaped, At
      <4>2. k \notin call[c].creds
        BY <1>o, <2>1, <4>1 DEF CallOK, OwnsCreds, CommitActivate
      <4>3. k # new
        BY <4>1, NoneIsNoId DEF InForce, NoCredential
      <4> QED BY <2>0, <3>1, <4>1, <4>2, <4>3 DEF Unlock
    <3>4. ASSUME At(b, "commitActivate"), NEW k \in Credentials, InForce(k, call[b].device)'
          PROVE  InForce(k, call[b].device)
      <4>1. call[b].device # d
        BY <1>o, <2>1, <3>4 DEF CallOK, Alone, CommitActivate
      <4>2. CASE k = new
        BY <2>0, <3>4, <4>1, <4>2 DEF InForce, NoCredential
      <4>3. CASE k # new
        BY <1>0, <2>0, <3>4, <4>3 DEF InForce, TypeOK
      <4> QED BY <4>2, <4>3
    <3> QED BY <3>2, <3>3, <3>4
  <2> QED BY <2>2, <2>3, StepOfOne
<1>p. ASSUME NEW c \in Calls, Disconnect(c) PROVE CallsOK'
  <2>1. LeavesOthers(c) /\ CallOK(c)'
    BY <1>0, <1>p, <1>1, QuietLeavesOthers, NoCallOK DEF Disconnect, Done
  <2> QED BY <2>1, StepOfOne
<1>q. ASSUME NEW c \in Calls, Rollback(c) PROVE CallsOK'
  BY <1>q, AbortCalls DEF Rollback
<1>r. ASSUME NEW e \in Codes, Expires(e) PROVE CallsOK'
  <2>1. /\ \A f \in Codes : /\ code'[f].device = code[f].device
                             /\ code'[f].used = code[f].used
                             /\ code'[f].revoked = code[f].revoked
                             /\ code'[f].failed = code[f].failed
        /\ UNCHANGED <<credential, codeLock, credLock, call>>
    BY <1>0, <1>r DEF Expires, TypeOK, locks
  <2> SUFFICES ASSUME NEW c \in Calls PROVE CallOK(c)'
    BY DEF CallsOK, CallOK
  <2>2. Shaped(c)' /\ OwnsCreds(c)' /\ Alone(c)'
    BY <1>0, <2>1 DEF CallOK, Shaped, OwnsCreds, Alone, At, InForce, IndexAllows
  <2>3. OwnsCodes(c)'
    BY <1>0, <2>1 DEF CallOK, OwnsCodes, Revocable, CallType
  <2> QED BY <2>2, <2>3 DEF CallOK
<1>s. CASE Crash
  BY <1>s, <1>1 DEF Crash, CallsOK, Shaped, OwnsCodes, OwnsCreds, Alone, At, NoCall, Holding
<1> QED
  BY <1>a, <1>c, <1>d, <1>e, <1>f, <1>g, <1>h, <1>i, <1>j, <1>k, <1>l, <1>m, <1>n, <1>o,
     <1>p, <1>q, <1>r, <1>s DEF Next, Continue

-----------------------------------------------------------------------------
(* The rows.                                                               *)

\* Every step but these leaves the rows as they are.
LEMMA WritersOnly ==
    ASSUME [Next]_vars
    PROVE  \/ UNCHANGED <<code, credential, wrong>>
           \/ \E c \in Calls : InsertCode(c) \/ CountFailure(c) \/ CommitActivate(c)
           \/ \E e \in Codes : Expires(e)
<1>1. CASE UNCHANGED vars
  BY <1>1 DEF vars
<1>2. ASSUME NEW c \in Calls, NEW d \in Devices, NEW given,
             StartCreateCode(c, d) \/ StartActivate(c, d, given)
      PROVE  UNCHANGED <<code, credential, wrong>>
  BY <1>2 DEF StartCreateCode, StartActivate
<1>3. ASSUME NEW c \in Calls,
             \/ FindRevocable(c) \/ LockNextCode(c) \/ FindCodes(c) \/ CompareCode(c)
             \/ FindCreds(c) \/ RevokeCreds(c) \/ Disconnect(c)
      PROVE  UNCHANGED <<code, credential, wrong>>
  BY <1>3 DEF FindRevocable, LockNextCode, FindCodes, CompareCode, FindCreds, RevokeCreds, Disconnect
<1>4. ASSUME NEW c \in Calls, Consume(c) \/ InsertCred(c) \/ Rollback(c)
      PROVE  UNCHANGED <<code, credential, wrong>>
  BY <1>4 DEF Consume, InsertCred, Rollback, Abort
<1>5. CASE Crash
  BY <1>5 DEF Crash
<1>6. CASE \E e \in Codes : Expires(e)
  BY <1>6
<1>7. CASE \E c \in Calls : InsertCode(c) \/ CountFailure(c) \/ CommitActivate(c)
  BY <1>7
<1> QED BY <1>1, <1>2, <1>3, <1>4, <1>5, <1>6, <1>7 DEF Next, Continue

\* What InsertCode writes.
LEMMA InsertedCode ==
    ASSUME IInv, NEW c \in Calls, InsertCode(c)
    PROVE  /\ call[c].device \in Devices /\ call[c].codes \subseteq Codes
           /\ UNCHANGED <<credential, wrong>>
           /\ \E new \in Codes :
                /\ code[new] = NoCode /\ new \notin call[c].codes
                /\ code'[new] = [NoCode EXCEPT !.device = call[c].device]
                /\ \A e \in call[c].codes :
                     /\ Revocable(e, call[c].device)
                     /\ code'[e] = [code[e] EXCEPT !.revoked = TRUE]
                /\ \A e \in Codes : e # new /\ e \notin call[c].codes => code'[e] = code[e]
<1>1. /\ Shaped(c) /\ OwnsCodes(c) /\ call[c].codes \subseteq Codes
      /\ ~At(c, "idle")
  BY DEF IInv, CallsOK, TypeOK, InsertCode, At
<1>2. call[c].device \in Devices
  BY <1>1 DEF Shaped
<1>3. PICK new \in Codes : InsertCode(c)!3!(new)
  BY DEF InsertCode
<1>4. new \notin call[c].codes
  BY <1>1, <1>2, <1>3, NoneIsNoId DEF OwnsCodes, Revocable, NoCode
<1>5. \A e \in call[c].codes : Revocable(e, call[c].device)
  BY <1>1 DEF OwnsCodes
<1> QED BY <1>1, <1>2, <1>3, <1>4, <1>5 DEF InsertCode

\* What CountFailure writes.
LEMMA CountedFailure ==
    ASSUME IInv, NEW c \in Calls, CountFailure(c)
    PROVE  /\ call[c].device \in Devices
           /\ call[c].codes # {} /\ call[c].codes \subseteq Codes
           /\ UNCHANGED credential
           /\ \A e \in call[c].codes :
                /\ Revocable(e, call[c].device)
                /\ code'[e] = [code[e] EXCEPT !.failed = code[e].failed + 1,
                                              !.revoked = @ \/ Exhausted(code[e].failed + 1)]
                /\ wrong'[e] = wrong[e] + 1
           /\ \A e \in Codes : e \notin call[c].codes =>
                code'[e] = code[e] /\ wrong'[e] = wrong[e]
<1>1. /\ Shaped(c) /\ OwnsCodes(c) /\ call[c].codes \subseteq Codes
      /\ At(c, "countFailure")
  BY DEF IInv, CallsOK, TypeOK, CountFailure
<1>2. call[c].device \in Devices /\ call[c].codes # {}
  BY <1>1 DEF Shaped, At
<1>3. ASSUME NEW e \in call[c].codes
      PROVE  /\ Revocable(e, call[c].device)
             /\ code'[e] = [code[e] EXCEPT !.failed = code[e].failed + 1,
                                           !.revoked = @ \/ Exhausted(code[e].failed + 1)]
             /\ wrong'[e] = wrong[e] + 1
  <2>1. e \in Codes /\ Revocable(e, call[c].device) /\ call[c].failed[e] = code[e].failed
    BY <1>1 DEF OwnsCodes
  <2>2. code'[e] = [code[e] EXCEPT !.failed = call[c].failed[e] + 1,
                                  !.revoked = @ \/ Exhausted(call[c].failed[e] + 1)]
    BY <2>1 DEF CountFailure
  <2>3. wrong'[e] = wrong[e] + 1
    BY <2>1 DEF CountFailure
  <2> QED BY <2>1, <2>2, <2>3
<1>4. \A e \in Codes : e \notin call[c].codes => code'[e] = code[e] /\ wrong'[e] = wrong[e]
  BY DEF CountFailure
<1> QED BY <1>1, <1>2, <1>3, <1>4 DEF CountFailure

\* What CommitActivate writes.
LEMMA CommittedActivation ==
    ASSUME IInv, NEW c \in Calls, CommitActivate(c)
    PROVE  /\ call[c].device \in Devices
           /\ call[c].given \in Codes /\ Revocable(call[c].given, call[c].device)
           /\ code' = [code EXCEPT ![call[c].given].used = TRUE]
           /\ UNCHANGED wrong
           /\ \E new \in Credentials :
                /\ credential[new] = NoCredential
                /\ credential'[new] = [NoCredential EXCEPT !.device = call[c].device,
                                                           !.code = call[c].given]
                /\ \A k \in Credentials : k # new =>
                     credential'[k] = IF InForce(k, call[c].device)
                                        THEN [credential[k] EXCEPT !.revoked = TRUE]
                                        ELSE credential[k]
<1>1. /\ Shaped(c) /\ OwnsCodes(c) /\ OwnsCreds(c) /\ Alone(c)
      /\ call[c].codes \subseteq Codes /\ call[c].creds \subseteq Credentials
      /\ At(c, "commitActivate")
  BY DEF IInv, CallsOK, TypeOK, CommitActivate
<1>2. call[c].device \in Devices /\ call[c].given \in call[c].codes
  BY <1>1 DEF Shaped, At, Holding
<1>3. Revocable(call[c].given, call[c].device)
  BY <1>1, <1>2 DEF OwnsCodes
<1>4. \A k \in Credentials : k \in call[c].creds <=> InForce(k, call[c].device)
  BY <1>1 DEF OwnsCreds, Alone, IndexAllows
<1>5. PICK new \in Credentials : CommitActivate(c)!3!(new)
  BY DEF CommitActivate
<1>6. credential'[new] = [NoCredential EXCEPT !.device = call[c].device, !.code = call[c].given]
  <2>1. new \notin call[c].creds
    BY <1>2, <1>4, <1>5, NoneIsNoId DEF InForce, NoCredential
  <2> QED BY <1>5, <2>1
<1>7. ASSUME NEW k \in Credentials, k # new
      PROVE  credential'[k] = IF InForce(k, call[c].device)
                                THEN [credential[k] EXCEPT !.revoked = TRUE]
                                ELSE credential[k]
  <2>1. CASE k \in call[c].creds
    BY <1>4, <1>5, <1>7, <2>1
  <2>2. CASE k \notin call[c].creds
    BY <1>4, <1>5, <1>7, <2>2
  <2> QED BY <2>1, <2>2
<1> QED BY <1>1, <1>2, <1>3, <1>5, <1>6, <1>7 DEF CommitActivate

LEMMA RowsStep ==
    ASSUME IInv, [Next]_vars
    PROVE  RowsOK'
<1>0. /\ code \in [Codes -> CodeType] /\ credential \in [Credentials -> CredType]
      /\ wrong \in [Codes -> Nat]
      /\ OneCredential /\ CodesEndOnce /\ AttemptsAreCounted
  BY TypeOKIs DEF IInv, RowsOK
<1>1. CASE UNCHANGED <<code, credential, wrong>>
  BY <1>0, <1>1 DEF RowsOK, OneCredential, CodesEndOnce, AttemptsAreCounted, InForce
<1>2. ASSUME NEW c \in Calls, InsertCode(c) PROVE RowsOK'
  <2>0. PICK new \in Codes :
          /\ code[new] = NoCode /\ new \notin call[c].codes
          /\ code'[new] = [NoCode EXCEPT !.device = call[c].device]
          /\ \A e \in call[c].codes :
               /\ Revocable(e, call[c].device)
               /\ code'[e] = [code[e] EXCEPT !.revoked = TRUE]
          /\ \A e \in Codes : e # new /\ e \notin call[c].codes => code'[e] = code[e]
    BY <1>2, InsertedCode
  <2>1. UNCHANGED <<credential, wrong>> /\ call[c].codes \subseteq Codes
    BY <1>2, InsertedCode
  <2>2. /\ code'[new].used = FALSE /\ code'[new].revoked = FALSE /\ code'[new].failed = 0
        /\ code[new].used = FALSE /\ code[new].failed = 0
    BY <2>0 DEF NoCode
  <2>3. ASSUME NEW e \in Codes, e # new
        PROVE  /\ code'[e].used = code[e].used /\ code'[e].device = code[e].device
               /\ code'[e].failed = code[e].failed
               /\ code[e].revoked => code'[e].revoked
               /\ code'[e].used => (code'[e].revoked <=> code[e].revoked)
    <3>1. CASE e \notin call[c].codes
      BY <2>0, <2>3, <3>1
    <3>2. CASE e \in call[c].codes
      <4>1. /\ ~code[e].used
            /\ code'[e] = [code[e] EXCEPT !.revoked = TRUE]
        BY <2>0, <3>2 DEF Revocable
      <4>2. code[e] \in CodeType
        BY <1>0
      <4> QED BY <4>1, <4>2 DEF CodeType
    <3> QED BY <3>1, <3>2
  <2>4. OneCredential'
    BY <1>0, <2>1 DEF OneCredential, InForce
  <2>5. CodesEndOnce'
    <3>1. \A k \in Credentials : credential[k].code # None => credential[k].code \in Codes
      BY <1>0 DEF CredType
    <3> QED BY <1>0, <2>1, <2>2, <2>3, <3>1 DEF CodesEndOnce
  <2>6. AttemptsAreCounted'
    BY <1>0, <2>1, <2>2, <2>3, AttemptsAreAllowed DEF AttemptsAreCounted
  <2> QED BY <2>4, <2>5, <2>6 DEF RowsOK
<1>3. ASSUME NEW c \in Calls, CountFailure(c) PROVE RowsOK'
  <2>1. /\ UNCHANGED credential /\ call[c].codes \subseteq Codes
        /\ \A e \in Codes : e \notin call[c].codes => code'[e] = code[e] /\ wrong'[e] = wrong[e]
    BY <1>3, CountedFailure
  <2>2. ASSUME NEW e \in call[c].codes
        PROVE  /\ code[e].used = FALSE /\ code'[e].used = FALSE
               /\ code'[e].failed = code[e].failed + 1 /\ wrong'[e] = wrong[e] + 1
               /\ code[e].failed + 1 >= MaxFailedAttempts => code'[e].revoked
               /\ code[e].failed \in 0..MaxFailedAttempts /\ ~code[e].revoked
    <3>1. /\ Revocable(e, call[c].device)
          /\ code'[e] = [code[e] EXCEPT !.failed = code[e].failed + 1,
                                        !.revoked = @ \/ Exhausted(code[e].failed + 1)]
          /\ wrong'[e] = wrong[e] + 1
      BY <1>3, CountedFailure
    <3>2. code[e] \in CodeType
      BY <1>0, <2>1
    <3> QED BY <3>1, <3>2 DEF CodeType, Revocable, Exhausted
  <2>3. OneCredential'
    BY <1>0, <2>1 DEF OneCredential, InForce
  <2>4. CodesEndOnce'
    <3>1. \A k \in Credentials : credential[k].code # None => credential[k].code \in Codes
      BY <1>0 DEF CredType
    <3>2. \A e \in Codes : /\ code'[e].used = code[e].used
                           /\ code'[e].used => code'[e] = code[e]
      BY <1>0, <2>1, <2>2
    <3> QED BY <1>0, <2>1, <3>1, <3>2 DEF CodesEndOnce
  <2>5. AttemptsAreCounted'
    <3> SUFFICES ASSUME NEW e \in Codes
                 PROVE  /\ code'[e].failed = wrong'[e]
                        /\ code'[e].failed <= MaxFailedAttempts
                        /\ code'[e].failed = MaxFailedAttempts => code'[e].revoked
      BY DEF AttemptsAreCounted
    <3>1. CASE e \notin call[c].codes
      BY <1>0, <2>1, <3>1 DEF AttemptsAreCounted
    <3>2. CASE e \in call[c].codes
      <4>1. code[e].failed # MaxFailedAttempts /\ code[e].failed = wrong[e]
        BY <1>0, <2>2, <3>2 DEF AttemptsAreCounted
      <4>2. PICK n \in 0..MaxFailedAttempts : n = code[e].failed
        BY <2>2, <3>2
      <4>3. n + 1 <= MaxFailedAttempts /\ (n + 1 = MaxFailedAttempts => n + 1 >= MaxFailedAttempts)
        BY <4>1, <4>2, AttemptsAreAllowed
      <4>4. code'[e].failed = n + 1 /\ wrong'[e] = n + 1
        BY <2>2, <3>2, <4>1, <4>2
      <4>5. n + 1 >= MaxFailedAttempts => code'[e].revoked
        BY <2>2, <3>2, <4>2
      <4> QED BY <4>3, <4>4, <4>5
    <3> QED BY <3>1, <3>2
  <2> QED BY <2>3, <2>4, <2>5 DEF RowsOK
<1>4. ASSUME NEW c \in Calls, CommitActivate(c) PROVE RowsOK'
  <2> DEFINE d == call[c].device
             g == call[c].given
  <2>0. PICK new \in Credentials :
          /\ credential[new] = NoCredential
          /\ credential'[new] = [NoCredential EXCEPT !.device = d, !.code = g]
          /\ \A k \in Credentials : k # new =>
               credential'[k] = IF InForce(k, d) THEN [credential[k] EXCEPT !.revoked = TRUE]
                                                 ELSE credential[k]
    BY <1>4, CommittedActivation
  <2>1. /\ d \in Devices /\ g \in Codes /\ Revocable(g, d)
        /\ code' = [code EXCEPT ![g].used = TRUE] /\ UNCHANGED wrong
    BY <1>4, CommittedActivation
  <2>2. /\ credential'[new].device = d /\ credential'[new].code = g
        /\ credential'[new].revoked = FALSE
        /\ credential[new].device = None /\ credential[new].code = None
    BY <2>0 DEF NoCredential
  <2>3. ASSUME NEW k \in Credentials, k # new
        PROVE  /\ credential'[k].device = credential[k].device
               /\ credential'[k].code = credential[k].code
               /\ InForce(k, d) => credential'[k].revoked
               /\ ~InForce(k, d) => credential'[k] = credential[k]
    <3>1. credential[k] \in CredType
      BY <1>0
    <3>2. CASE InForce(k, d)
      <4>1. credential'[k] = [credential[k] EXCEPT !.revoked = TRUE]
        BY <2>0, <2>3, <3>2
      <4> QED BY <3>1, <3>2, <4>1 DEF CredType
    <3>3. CASE ~InForce(k, d)
      BY <2>0, <2>3, <3>3
    <3> QED BY <3>2, <3>3
  <2>4. /\ code'[g].used = TRUE /\ code'[g].device = d /\ code'[g].revoked = FALSE
        /\ code'[g].failed = code[g].failed
        /\ code[g].used = FALSE /\ code[g].device = d /\ code[g].revoked = FALSE
        /\ \A e \in Codes : e # g => code'[e] = code[e]
    BY <1>0, <2>1 DEF CodeType, Revocable
  <2>5. d # None /\ g # None
    BY <2>1, NoneIsNoId
  <2>6. OneCredential'
    <3> SUFFICES ASSUME NEW x \in Devices,
                        {k \in Credentials : credential'[k].device = x} # {}
                 PROVE  \E k \in {k \in Credentials : credential'[k].device = x} :
                          \A l \in {m \in Credentials : credential'[m].device = x} :
                            InForce(l, x)' <=> l = k
      BY DEF OneCredential
    <3>1. CASE x = d
      <4>1. InForce(new, x)'
        BY <2>2, <3>1 DEF InForce
      <4>2. ASSUME NEW l \in Credentials, l # new
            PROVE  ~InForce(l, x)'
        <5>1. CASE InForce(l, d)
          BY <2>3, <4>2, <5>1 DEF InForce
        <5>2. CASE ~InForce(l, d)
          BY <2>3, <3>1, <4>2, <5>2 DEF InForce
        <5> QED BY <5>1, <5>2
      <4>3. new \in {k \in Credentials : credential'[k].device = x}
        BY <2>2, <3>1
      <4> QED BY <3>1, <4>1, <4>2, <4>3
    <3>2. CASE x # d
      <4>1. ASSUME NEW l \in Credentials
            PROVE  /\ credential'[l].device = x <=> credential[l].device = x
                   /\ credential[l].device = x => (InForce(l, x)' <=> InForce(l, x))
        <5>1. CASE l = new
          BY <2>2, <3>2, <5>1, NoneIsNoId
        <5>2. CASE l # new
          BY <2>3, <3>2, <5>2 DEF InForce
        <5> QED BY <5>1, <5>2
      <4>2. {k \in Credentials : credential'[k].device = x}
              = {k \in Credentials : credential[k].device = x}
        BY <4>1
      <4>3. PICK k \in {k \in Credentials : credential[k].device = x} :
              \A l \in {m \in Credentials : credential[m].device = x} : InForce(l, x) <=> l = k
        BY <1>0, <4>2 DEF OneCredential
      <4> QED BY <4>1, <4>2, <4>3
    <3> QED BY <3>1, <3>2
  <2>7. CodesEndOnce'
    <3>1. \A e \in Codes : ~(code'[e].used /\ code'[e].revoked)
      BY <1>0, <2>4 DEF CodesEndOnce
    <3>2. ASSUME NEW e \in Codes, code'[e].used
          PROVE  \E k \in Credentials : /\ credential'[k].code = e
                                        /\ credential'[k].device = code'[e].device
      <4>1. CASE e = g
        BY <2>2, <2>4, <4>1
      <4>2. CASE e # g
        <5>1. PICK k \in Credentials : credential[k].code = e /\ credential[k].device = code[e].device
          BY <1>0, <2>4, <3>2, <4>2 DEF CodesEndOnce
        <5>2. k # new
          BY <2>2, <5>1, NoneIsNoId
        <5> QED BY <2>3, <2>4, <4>2, <5>1, <5>2
      <4> QED BY <4>1, <4>2
    <3>3. ASSUME NEW k \in Credentials, NEW l \in Credentials, credential'[k].code # None
          PROVE  /\ code'[credential'[k].code].used
                 /\ credential'[l].code = credential'[k].code => k = l
      <4>1. \A m \in Credentials : credential[m].code # g
        BY <1>0, <2>4, <2>5 DEF CodesEndOnce
      <4>2. \A m \in Credentials : credential[m].code # None =>
              credential[m].code \in Codes /\ code[credential[m].code].used
        BY <1>0 DEF CodesEndOnce, CredType
      <4>3. CASE k = new
        BY <2>2, <2>3, <2>4, <4>1, <4>3
      <4>4. CASE k # new
        <5>1. credential'[k].code = credential[k].code /\ credential[k].code # g
          BY <2>3, <4>1, <4>4
        <5>2. code'[credential'[k].code].used
          BY <2>4, <3>3, <4>2, <5>1
        <5>3. CASE l = new
          BY <2>2, <5>1, <5>2, <5>3
        <5>4. CASE l # new
          <6>1. credential'[l].code = credential[l].code
            BY <2>3, <5>4
          <6> QED BY <1>0, <3>3, <5>1, <5>2, <6>1 DEF CodesEndOnce
        <5> QED BY <5>2, <5>3, <5>4
      <4> QED BY <4>3, <4>4
    <3> QED BY <3>1, <3>2, <3>3 DEF CodesEndOnce
  <2>8. AttemptsAreCounted'
    BY <1>0, <2>1, <2>4 DEF AttemptsAreCounted
  <2> QED BY <2>6, <2>7, <2>8 DEF RowsOK
<1>5. ASSUME NEW x \in Codes, Expires(x) PROVE RowsOK'
  <2>1. /\ \A e \in Codes : /\ code'[e].device = code[e].device /\ code'[e].used = code[e].used
                             /\ code'[e].revoked = code[e].revoked
                             /\ code'[e].failed = code[e].failed
        /\ UNCHANGED <<credential, wrong>>
    BY <1>0, <1>5 DEF Expires, CodeType
  <2>2. \A k \in Credentials : credential[k].code # None => credential[k].code \in Codes
    BY <1>0 DEF CredType
  <2> QED BY <1>0, <2>1, <2>2 DEF RowsOK, OneCredential, CodesEndOnce, AttemptsAreCounted, InForce
<1> QED BY <1>1, <1>2, <1>3, <1>4, <1>5, WritersOnly

-----------------------------------------------------------------------------
(* The theorems.                                                           *)

LEMMA Initially == Init => IInv
<1> SUFFICES ASSUME Init PROVE IInv
  OBVIOUS
<1>1. NoCode \in CodeType /\ NoCredential \in CredType
  BY AttemptsAreAllowed DEF NoCode, NoCredential, CodeType, CredType
<1>2. TypeOK
  BY <1>1, NoCallType, TypeOKIs DEF Init
<1>3. CallsOK
  BY DEF Init, CallsOK, Shaped, OwnsCodes, OwnsCreds, Alone, At, NoCall, Holding
<1>4. \A e \in Codes : ~code[e].used /\ code[e].failed = 0 /\ wrong[e] = 0
  BY DEF Init, NoCode
<1>5. \A k \in Credentials : credential[k].device = None /\ credential[k].code = None
  BY DEF Init, NoCredential
<1>6. RowsOK
  BY <1>4, <1>5, NoneIsNoId, AttemptsAreAllowed
     DEF RowsOK, OneCredential, CodesEndOnce, AttemptsAreCounted
<1> QED BY <1>2, <1>3, <1>6 DEF IInv

\* The inductive invariant of codes, credentials, locks and calls holds of every behaviour.
THEOREM Invariance == Spec => []IInv
<1>1. IInv /\ [Next]_vars => IInv'
  BY TypeStep, CallsStep, RowsStep DEF IInv
<1> QED BY <1>1, Initially, PTL DEF Spec

\* Every variable of the enrolment keeps its shape.
THEOREM TypeCorrect == Spec => []TypeOK
<1>1. IInv => TypeOK
  BY DEF IInv
<1> QED BY <1>1, Invariance, PTL

\* However many activations race, a tablet that has been activated has exactly
\* one credential in force.
THEOREM OneCredentialInForce == Spec => []OneCredential
<1>1. IInv => OneCredential
  BY DEF IInv, RowsOK
<1> QED BY <1>1, Invariance, PTL

\* A code ends once: used for one credential of its tablet, or revoked.
THEOREM CodesAreSpentOnce == Spec => []CodesEndOnce
<1>1. IInv => CodesEndOnce
  BY DEF IInv, RowsOK
<1> QED BY <1>1, Invariance, PTL

\* No wrong attempt at a code is lost, and the code ends with the last it allows.
THEOREM NoAttemptIsLost == Spec => []AttemptsAreCounted
<1>1. IInv => AttemptsAreCounted
  BY DEF IInv, RowsOK
<1> QED BY <1>1, Invariance, PTL

-----------------------------------------------------------------------------
(* The refinement.                                                         *)

LEMMA RefinesInit == Init => Lifecycle!Init
<1> SUFFICES ASSUME Init PROVE Lifecycle!Init
  OBVIOUS
<1>1. \A e \in Codes : Status(e) = "none" /\ code[e].device = None /\ code[e].failed = 0
  BY DEF Init, NoCode, Status
<1>2. \A k \in Credentials : credential[k].device = None
  BY DEF Init, NoCredential
<1>3. \A d \in Devices : {k \in Credentials : InForce(k, d)} = {}
  BY <1>2, NoneIsNoId DEF InForce
<1>4. {k \in Credentials : credential[k].device # None} = {}
  BY <1>2
<1> QED BY <1>1, <1>3, <1>4 DEF Lifecycle!Init

\* Two states with the same rows, expiry apart, show the same lifecycle.
LEMMA SameRowsStutter ==
    ASSUME \A e \in Codes : /\ code'[e].device = code[e].device
                            /\ code'[e].used = code[e].used
                            /\ code'[e].revoked = code[e].revoked
                            /\ code'[e].failed = code[e].failed,
           UNCHANGED credential
    PROVE  UNCHANGED Lifecycle!vars
<1>1. \A e \in Codes : Status(e)' = Status(e)
  BY DEF Status
<1> QED BY <1>1 DEF Lifecycle!vars, InForce

\* A code shows as pending while the transaction of its device may revoke it.
LEMMA RevocableIsPending ==
    ASSUME TypeOK, NEW d \in Devices, NEW e \in Codes, Revocable(e, d)
    PROVE  e \in Lifecycle!PendingOf(d)
BY NoneIsNoId DEF Revocable, Status, Lifecycle!PendingOf

LEMMA RefinesInsertCode ==
    ASSUME IInv, NEW c \in Calls, InsertCode(c)
    PROVE  Lifecycle!Next
<1> PICK d, ended : d = call[c].device /\ ended = call[c].codes
  OBVIOUS
<1>0. PICK new \in Codes :
        /\ code[new] = NoCode /\ new \notin ended
        /\ code'[new] = [NoCode EXCEPT !.device = d]
        /\ \A e \in ended : Revocable(e, d) /\ code'[e] = [code[e] EXCEPT !.revoked = TRUE]
        /\ \A e \in Codes : e # new /\ e \notin ended => code'[e] = code[e]
  BY InsertedCode
<1>1. d \in Devices /\ d # None /\ ended \subseteq Codes /\ UNCHANGED credential
  BY InsertedCode, NoneIsNoId
<1>2. code \in [Codes -> CodeType] /\ TypeOK
  BY TypeOKIs DEF IInv
<1>3. Status(new) = "none" /\ Status(new)' = "pending"
       /\ code'[new].device = d /\ code'[new].failed = code[new].failed
  BY <1>0, <1>1 DEF Status, NoCode
<1>4. ASSUME NEW e \in ended
      PROVE  Status(e)' = "revoked" /\ code'[e].device = code[e].device
               /\ code'[e].failed = code[e].failed
  <2>1. code'[e] = [code[e] EXCEPT !.revoked = TRUE] /\ code[e] \in CodeType
    BY <1>0, <1>1, <1>2, <1>4
  <2>2. code[e].device = d /\ ~code[e].used
    BY <1>0, <1>4 DEF Revocable
  <2>3. /\ code'[e].device = d /\ ~code'[e].used /\ code'[e].revoked
        /\ code'[e].failed = code[e].failed
    BY <2>1, <2>2 DEF CodeType
  <2> QED BY <1>1, <2>2, <2>3 DEF Status
<1>5. ASSUME NEW e \in Codes, e # new, e \notin ended
      PROVE  Status(e)' = Status(e) /\ code'[e] = code[e]
  BY <1>0, <1>5 DEF Status
<1>6. ended \subseteq Lifecycle!PendingOf(d)
  BY <1>0, <1>1, <1>2, RevocableIsPending
<1>7. [e \in Codes |-> Status(e)]'
        = [e \in Codes |-> CASE e = new     -> "pending"
                             [] e \in ended -> "revoked"
                             [] OTHER       -> [f \in Codes |-> Status(f)][e]]
  BY <1>0, <1>3, <1>4, <1>5
<1>8. /\ [e \in Codes |-> code[e].device]' = [[e \in Codes |-> code[e].device] EXCEPT ![new] = d]
      /\ [e \in Codes |-> code[e].failed]' = [e \in Codes |-> code[e].failed]
  BY <1>0, <1>3, <1>4, <1>5
<1>9. Lifecycle!Issue(d, new, ended)
  <2>1. /\ {k \in Credentials : credential[k].device # None}'
             = {k \in Credentials : credential[k].device # None}
        /\ [x \in Devices |-> {k \in Credentials : InForce(k, x)}]'
             = [x \in Devices |-> {k \in Credentials : InForce(k, x)}]
    BY <1>1 DEF InForce
  <2>2. [e \in Codes |-> Status(e)][new] = "none"
    BY <1>3
  <2> QED BY <1>6, <1>7, <1>8, <2>1, <2>2 DEF Lifecycle!Issue
<1> QED BY <1>1, <1>9 DEF Lifecycle!Next

LEMMA RefinesCountFailure ==
    ASSUME IInv, NEW c \in Calls, CountFailure(c)
    PROVE  Lifecycle!Next
<1> PICK d, tried : d = call[c].device /\ tried = call[c].codes
  OBVIOUS
<1>1. /\ d \in Devices /\ d # None /\ tried # {} /\ tried \subseteq Codes /\ UNCHANGED credential
      /\ \A e \in Codes : e \notin tried => code'[e] = code[e]
  BY CountedFailure, NoneIsNoId
<1>2. code \in [Codes -> CodeType] /\ TypeOK
  BY TypeOKIs DEF IInv
<1>3. ASSUME NEW e \in tried
      PROVE  /\ Revocable(e, d)
             /\ code'[e].device = code[e].device
             /\ code'[e].failed = code[e].failed + 1
             /\ Status(e) = "pending"
             /\ Status(e)' = IF code[e].failed + 1 >= MaxFailedAttempts THEN "revoked" ELSE Status(e)
  <2>1. /\ Revocable(e, d)
        /\ code'[e] = [code[e] EXCEPT !.failed = code[e].failed + 1,
                                      !.revoked = @ \/ Exhausted(code[e].failed + 1)]
    BY CountedFailure
  <2>2. code[e] \in CodeType
    BY <1>1, <1>2
  <2>3. /\ code'[e].device = d /\ code[e].device = d /\ ~code[e].used /\ ~code[e].revoked
        /\ ~code'[e].used
        /\ code'[e].failed = code[e].failed + 1
        /\ code'[e].revoked <=> Exhausted(code[e].failed + 1)
    BY <2>1, <2>2 DEF Revocable, CodeType
  <2> QED BY <1>1, <2>1, <2>3 DEF Status, Exhausted
<1>4. ASSUME NEW e \in Codes, e \notin tried
      PROVE  Status(e)' = Status(e) /\ code'[e] = code[e]
  BY <1>1, <1>4 DEF Status
<1>5. tried \subseteq Lifecycle!PendingOf(d)
  BY <1>1, <1>2, <1>3, RevocableIsPending
<1>6. [e \in Codes |-> Status(e)]'
        = [e \in Codes |-> IF e \in tried
                              /\ [f \in Codes |-> code[f].failed][e] + 1 >= MaxFailedAttempts
                             THEN "revoked" ELSE [f \in Codes |-> Status(f)][e]]
  BY <1>1, <1>3, <1>4
<1>7. [e \in Codes |-> code[e].failed]'
        = [e \in Codes |-> IF e \in tried THEN [f \in Codes |-> code[f].failed][e] + 1
                                          ELSE [f \in Codes |-> code[f].failed][e]]
  BY <1>1, <1>3, <1>4
<1>8. [e \in Codes |-> code[e].device]' = [e \in Codes |-> code[e].device]
  BY <1>1, <1>3, <1>4
<1>9. Lifecycle!Miss(d, tried)
  <2>1. /\ {k \in Credentials : credential[k].device # None}'
             = {k \in Credentials : credential[k].device # None}
        /\ [x \in Devices |-> {k \in Credentials : InForce(k, x)}]'
             = [x \in Devices |-> {k \in Credentials : InForce(k, x)}]
    BY <1>1 DEF InForce
  <2> QED BY <1>1, <1>5, <1>6, <1>7, <1>8, <2>1 DEF Lifecycle!Miss
<1> QED BY <1>1, <1>9 DEF Lifecycle!Next

LEMMA RefinesCommitActivate ==
    ASSUME IInv, NEW c \in Calls, CommitActivate(c)
    PROVE  Lifecycle!Next
<1> PICK d, g : d = call[c].device /\ g = call[c].given
  OBVIOUS
<1>a. PICK new \in Credentials :
        /\ credential[new] = NoCredential
        /\ credential'[new] = [NoCredential EXCEPT !.device = call[c].device,
                                                   !.code = call[c].given]
        /\ \A k \in Credentials : k # new =>
             credential'[k] = IF InForce(k, call[c].device)
                                THEN [credential[k] EXCEPT !.revoked = TRUE]
                                ELSE credential[k]
  BY CommittedActivation
<1>0. /\ credential[new] = NoCredential
      /\ credential'[new] = [NoCredential EXCEPT !.device = d, !.code = g]
      /\ \A k \in Credentials : k # new =>
           credential'[k] = IF InForce(k, d) THEN [credential[k] EXCEPT !.revoked = TRUE]
                                             ELSE credential[k]
  BY <1>a
<1>1. /\ d \in Devices /\ d # None /\ g \in Codes /\ Revocable(g, d)
      /\ code' = [code EXCEPT ![g].used = TRUE]
  BY CommittedActivation, NoneIsNoId
<1>2. code \in [Codes -> CodeType] /\ credential \in [Credentials -> CredType] /\ TypeOK
  BY TypeOKIs DEF IInv
<1>3. /\ code'[g].used = TRUE /\ code'[g].device = code[g].device
      /\ code'[g].failed = code[g].failed
      /\ \A e \in Codes : e # g => code'[e] = code[e]
  BY <1>1, <1>2 DEF CodeType
<1>4. Status(g)' = "used"
  <2>1. code'[g].device # None /\ code'[g].used /\ ~code'[g].revoked
    BY <1>1, <1>2, <1>3 DEF Revocable, CodeType
  <2> QED BY <2>1 DEF Status
<1>5. \A e \in Codes : e # g => Status(e)' = Status(e)
  BY <1>3 DEF Status
<1>6. /\ credential'[new].device = d /\ credential'[new].revoked = FALSE
      /\ credential[new].device = None
  BY <1>0 DEF NoCredential
<1>7. ASSUME NEW k \in Credentials, k # new
      PROVE  /\ credential'[k].device = credential[k].device
             /\ InForce(k, d) => credential'[k].revoked
             /\ ~InForce(k, d) => credential'[k] = credential[k]
  <2>1. CASE InForce(k, d)
    <3>1. credential'[k] = [credential[k] EXCEPT !.revoked = TRUE] /\ credential[k] \in CredType
      BY <1>0, <1>2, <1>7, <2>1
    <3> QED BY <2>1, <3>1 DEF CredType
  <2>2. CASE ~InForce(k, d)
    BY <1>0, <1>7, <2>2
  <2> QED BY <2>1, <2>2
<1>8. {k \in Credentials : credential[k].device # None}'
        = {k \in Credentials : credential[k].device # None} \cup {new}
  BY <1>1, <1>6, <1>7
<1>9. ASSUME NEW x \in Devices
      PROVE  {k \in Credentials : InForce(k, x)}'
               = IF x = d THEN {new} ELSE {k \in Credentials : InForce(k, x)}
  <2>1. CASE x = d
    <3>1. InForce(new, x)'
      BY <1>6, <2>1 DEF InForce
    <3>2. ASSUME NEW k \in Credentials, k # new
          PROVE  ~InForce(k, x)'
      <4>1. CASE InForce(k, d)
        BY <1>7, <3>2, <4>1 DEF InForce
      <4>2. CASE ~InForce(k, d)
        BY <1>7, <2>1, <3>2, <4>2 DEF InForce
      <4> QED BY <4>1, <4>2
    <3> QED BY <2>1, <3>1, <3>2
  <2>2. CASE x # d
    <3>1. ~InForce(new, x) /\ ~InForce(new, x)'
      BY <1>6, <2>2, NoneIsNoId DEF InForce
    <3>2. ASSUME NEW k \in Credentials, k # new
          PROVE  InForce(k, x)' <=> InForce(k, x)
      <4>1. CASE InForce(k, d)
        BY <1>7, <2>2, <3>2, <4>1 DEF InForce
      <4>2. CASE ~InForce(k, d)
        BY <1>7, <3>2, <4>2 DEF InForce
      <4> QED BY <4>1, <4>2
    <3> QED BY <2>2, <3>1, <3>2
  <2> QED BY <2>1, <2>2
<1>10. [x \in Devices |-> {k \in Credentials : InForce(k, x)}]'
         = [[x \in Devices |-> {k \in Credentials : InForce(k, x)}] EXCEPT ![d] = {new}]
  BY <1>1, <1>9
<1>11. [e \in Codes |-> Status(e)]' = [[e \in Codes |-> Status(e)] EXCEPT ![g] = "used"]
  <2>1. [e \in Codes |-> Status(e)]' = [e \in Codes |-> IF e = g THEN "used" ELSE Status(e)]
    BY <1>4, <1>5
  <2>2. [[e \in Codes |-> Status(e)] EXCEPT ![g] = "used"]
          = [e \in Codes |-> IF e = g THEN "used" ELSE Status(e)]
    OBVIOUS
  <2> QED BY <2>1, <2>2
<1>12. /\ [e \in Codes |-> code[e].device]' = [e \in Codes |-> code[e].device]
       /\ [e \in Codes |-> code[e].failed]' = [e \in Codes |-> code[e].failed]
  BY <1>3
<1>13. g \in Lifecycle!PendingOf(d)
  BY <1>1, <1>2, RevocableIsPending
<1>14. new \notin {k \in Credentials : credential[k].device # None}
  BY <1>6
<1>15. Lifecycle!Activate(d, g, new)
  BY <1>8, <1>10, <1>11, <1>12, <1>13, <1>14 DEF Lifecycle!Activate
<1> QED BY <1>1, <1>15 DEF Lifecycle!Next

\* Row by row, with other calls in between, the transactions do what the
\* lifecycle does in one step.
THEOREM Refinement == Spec => ImplementsLifecycle
<1>1. IInv /\ [Next]_vars => [Lifecycle!Next]_Lifecycle!vars
  <2> SUFFICES ASSUME IInv, [Next]_vars
               PROVE  Lifecycle!Next \/ UNCHANGED Lifecycle!vars
    OBVIOUS
  <2>1. CASE UNCHANGED <<code, credential, wrong>>
    BY <2>1, SameRowsStutter
  <2>2. ASSUME NEW x \in Codes, Expires(x)
        PROVE  UNCHANGED Lifecycle!vars
    <3>1. code \in [Codes -> CodeType]
      BY TypeOKIs DEF IInv
    <3>2. \A e \in Codes : /\ code'[e].device = code[e].device /\ code'[e].used = code[e].used
                           /\ code'[e].revoked = code[e].revoked
                           /\ code'[e].failed = code[e].failed
      BY <2>2, <3>1 DEF Expires, CodeType
    <3> QED BY <2>2, <3>2, SameRowsStutter DEF Expires
  <2> QED BY <2>1, <2>2, WritersOnly, RefinesInsertCode, RefinesCountFailure,
             RefinesCommitActivate
<1> QED BY <1>1, Invariance, RefinesInit, PTL DEF Spec, ImplementsLifecycle, Lifecycle!Spec

-----------------------------------------------------------------------------
(* One credential after the other.                                         *)

\* The credential in force, when there is exactly one.
LEMMA TheCredential ==
    ASSUME NEW d \in Devices, NEW k \in Credentials,
           \A l \in Credentials : InForce(l, d) <=> l = k
    PROVE  CredentialOf(d) = k
BY DEF CredentialOf

LEMMA IssuesInit == Init => Issuing!Init
<1> SUFFICES ASSUME Init PROVE Issuing!Init
  OBVIOUS
<1>1. \A k \in Credentials : credential[k].device = None
  BY DEF Init, NoCredential
<1>2. \A d \in Devices : CredentialOf(d) = None
  BY <1>1, NoneIsNoId DEF CredentialOf, InForce
<1> QED BY <1>1, <1>2 DEF Issuing!Init

\* A step that leaves the credentials alone.
LEMMA SameCredentials ==
    ASSUME UNCHANGED credential
    PROVE  UNCHANGED Issuing!vars
<1>1. \A d \in Devices : CredentialOf(d)' = CredentialOf(d)
  BY DEF CredentialOf, InForce
<1> QED BY <1>1 DEF Issuing!vars

\* Alone with the device, a commit revokes the one credential that can be in
\* force, whichever it read, and brings in the one it inserts.
LEMMA CommitIssues ==
    ASSUME IInv, NEW c \in Calls, CommitActivate(c)
    PROVE  Issuing!Next
<1> PICK d : d = call[c].device
  OBVIOUS
<1>a. PICK new \in Credentials :
        /\ credential[new] = NoCredential
        /\ credential'[new] = [NoCredential EXCEPT !.device = call[c].device,
                                                   !.code = call[c].given]
        /\ \A k \in Credentials : k # new =>
             credential'[k] = IF InForce(k, call[c].device)
                                THEN [credential[k] EXCEPT !.revoked = TRUE]
                                ELSE credential[k]
  BY CommittedActivation
<1>1. d \in Devices /\ d # None /\ credential \in [Credentials -> CredType]
  <2>1. d \in Devices
    BY CommittedActivation
  <2>2. credential \in [Credentials -> CredType]
    BY TypeOKIs DEF IInv
  <2> QED BY <2>1, <2>2, NoneIsNoId
<1>2. /\ credential'[new].device = d /\ credential'[new].revoked = FALSE
      /\ credential[new].device = None
  BY <1>a DEF NoCredential
<1>3. ASSUME NEW k \in Credentials, k # new
      PROVE  /\ credential'[k].device = credential[k].device
             /\ credential'[k].revoked = (credential[k].revoked \/ credential[k].device = d)
  <2>0. credential[k] \in CredType
    BY <1>1
  <2>1. CASE InForce(k, d)
    BY <1>a, <1>3, <2>0, <2>1 DEF InForce, CredType
  <2>2. CASE ~InForce(k, d)
    BY <1>a, <1>3, <2>0, <2>2 DEF InForce, CredType
  <2> QED BY <2>1, <2>2
<1>4. [k \in Credentials |-> credential[k].device]'
        = [[k \in Credentials |-> credential[k].device] EXCEPT ![new] = d]
  BY <1>2, <1>3
<1>5. CredentialOf(d)' = new
  <2>1. \A k \in Credentials : InForce(k, d)' <=> k = new
    BY <1>2, <1>3 DEF InForce
  <2> QED BY <2>1 DEF CredentialOf, InForce
<1>6. ASSUME NEW x \in Devices, x # d
      PROVE  CredentialOf(x)' = CredentialOf(x)
  <2>1. \A k \in Credentials : InForce(k, x)' <=> InForce(k, x)
    BY <1>1, <1>2, <1>3, <1>6, NoneIsNoId DEF InForce
  <2> QED BY <2>1 DEF CredentialOf
<1>7. [x \in Devices |-> CredentialOf(x)]'
        = [[x \in Devices |-> CredentialOf(x)] EXCEPT ![d] = new]
  BY <1>5, <1>6
<1>8. Issuing!Issue(d, new)
  BY <1>2, <1>4, <1>7 DEF Issuing!Issue
<1> QED BY <1>1, <1>8 DEF Issuing!Next

\* The transactions of the enrolment give the tablets credentials, to whoever
\* asks for the one in force, the way DevicePresence takes it.
THEOREM CredentialsAreIssuedAtOnce == Spec => ImplementsCredentials
<1>1. IInv /\ [Next]_vars => [Issuing!Next]_Issuing!vars
  <2> SUFFICES ASSUME IInv, [Next]_vars
               PROVE  Issuing!Next \/ UNCHANGED Issuing!vars
    OBVIOUS
  <2>1. CASE UNCHANGED credential
    BY <2>1, SameCredentials
  <2>2. ASSUME NEW c \in Calls, InsertCode(c) \/ CountFailure(c)
        PROVE  UNCHANGED credential
    BY <2>2 DEF InsertCode, CountFailure
  <2>3. ASSUME NEW x \in Codes, Expires(x)
        PROVE  UNCHANGED credential
    BY <2>3 DEF Expires
  <2> QED BY <2>1, <2>2, <2>3, WritersOnly, CommitIssues
<1> QED BY <1>1, Invariance, IssuesInit, PTL DEF Spec, ImplementsCredentials, Issuing!Spec
=============================================================================
