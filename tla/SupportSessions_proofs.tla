----------------------- MODULE SupportSessions_proofs -----------------------
(***************************************************************************)
(* Inductive is an inductive invariant of SupportSessions, for any number  *)
(* of tablets, technicians, rows and concurrent calls, with crashes and    *)
(* with a transport that fails.  One lemma per action shows that it keeps  *)
(* Inductive; what the actions share is in the first lemmas.               *)
(***************************************************************************)
EXTENDS SupportSessions, TLAPS

-----------------------------------------------------------------------------
(* The state of a call.                                                    *)

LEMMA NoCallType == NoCall \in CallState
  BY DEF NoCall, CallState, Pcs, FreePcs

LEMMA PcType ==
  ASSUME NEW k \in CallState, NEW pc \in Pcs
  PROVE  [k EXCEPT !.pc = pc] \in CallState
  BY DEF CallState

\* The first state of a call on a request.
LEMMA RequestCallType ==
  ASSUME NEW pc \in Pcs, NEW a \in Devices \cup Technicians, NEW r \in Requests
  PROVE  [NoCall EXCEPT !.pc = pc, !.actor = a, !.req = r] \in CallState
  BY NoCallType DEF CallState

\* Only the entry of c changes when c moves.
LEMMA Moved ==
  ASSUME TypeOK, NEW c \in Calls, NEW k \in CallState, Become(c, k)
  PROVE  /\ call' \in [Calls -> CallState]
         /\ call'[c] = k
         /\ \A b \in Calls \ {c} : call'[b] = call[b]
  BY DEF TypeOK, Become

-----------------------------------------------------------------------------
(* Locks.  A call keeps, takes or releases them; the others do not move.   *)

\* c neither takes nor releases the lock of a request (of a session).
KeepsRequest(c) ==
    /\ UNCHANGED requestLock
    /\ call'[c].pc \in RequestHolding =>
         call[c].pc \in RequestHolding /\ call'[c].req = call[c].req
    /\ call[c].pc \in RequestHolding \cup {"rollback"} =>
         call'[c].pc \in RequestHolding \cup {"rollback"} /\ call'[c].req = call[c].req

KeepsSession(c) ==
    /\ UNCHANGED sessionLock
    /\ call'[c].pc \in SessionHolding =>
         call[c].pc \in SessionHolding /\ call'[c].sess = call[c].sess
    /\ call[c].pc \in SessionHolding \cup {"rollback"} =>
         call'[c].pc \in SessionHolding \cup {"rollback"} /\ call'[c].sess = call[c].sess

TakesRequest(c) ==
    /\ call'[c].req \in Requests
    /\ requestLock[call'[c].req] = None
    /\ requestLock' = [requestLock EXCEPT ![call'[c].req] = c]
    /\ call[c].pc \notin RequestHolding \cup {"rollback"}
    /\ call'[c].pc \in RequestHolding \cup {"rollback"}

TakesSession(c) ==
    /\ call'[c].sess \in Sessions
    /\ sessionLock[call'[c].sess] = None
    /\ sessionLock' = [sessionLock EXCEPT ![call'[c].sess] = c]
    /\ call[c].pc \notin SessionHolding \cup {"rollback"}
    /\ call'[c].pc \in SessionHolding \cup {"rollback"}

LEMMA RequestLocks ==
  ASSUME TypeOK, LocksOK, NEW c \in Calls, KeepsRequest(c) \/ TakesRequest(c),
         \A b \in Calls \ {c} : call'[b] = call[b]
  PROVE  /\ \A b \in Calls : call'[b].pc \in RequestHolding =>
              call'[b].req \in Requests /\ requestLock'[call'[b].req] = b
         /\ \A r \in Requests : requestLock'[r] # None =>
              /\ call'[requestLock'[r]].pc \in RequestHolding \cup {"rollback"}
              /\ call'[requestLock'[r]].req = r
  BY CallsAreNotNone DEF TypeOK, LocksOK, KeepsRequest, TakesRequest

LEMMA SessionLocks ==
  ASSUME TypeOK, LocksOK, NEW c \in Calls, KeepsSession(c) \/ TakesSession(c),
         \A b \in Calls \ {c} : call'[b] = call[b]
  PROVE  /\ \A b \in Calls : call'[b].pc \in SessionHolding =>
              call'[b].sess \in Sessions /\ sessionLock'[call'[b].sess] = b
         /\ \A s \in Sessions : sessionLock'[s] # None =>
              /\ call'[sessionLock'[s]].pc \in SessionHolding \cup {"rollback"}
              /\ call'[sessionLock'[s]].sess = s
  BY CallsAreNotNone DEF TypeOK, LocksOK, KeepsSession, TakesSession

LEMMA Locks ==
  ASSUME TypeOK, LocksOK, NEW c \in Calls,
         KeepsRequest(c) \/ TakesRequest(c), KeepsSession(c) \/ TakesSession(c),
         \A b \in Calls \ {c} : call'[b] = call[b]
  PROVE  LocksOK'
  BY RequestLocks, SessionLocks DEF LocksOK

LEMMA Unlocks ==
  ASSUME TypeOK, LocksOK, NEW c \in Calls, Unlock(c),
         call'[c].pc \notin RequestHolding \cup SessionHolding,
         \A b \in Calls \ {c} : call'[b] = call[b]
  PROVE  LocksOK' /\ requestLock' \in [Requests -> Calls \cup {None}]
                  /\ sessionLock' \in [Sessions -> Calls \cup {None}]
  BY CallsAreNotNone DEF TypeOK, LocksOK, Unlock

-----------------------------------------------------------------------------
(* Steps that leave the tables alone.                                      *)

LEMMA SameTables ==
  ASSUME Inductive, UNCHANGED tables
  PROVE  RowsOK' /\ Consistent' /\ Exclusive'
  BY DEF Inductive, tables, RowsOK, Consistent, Exclusive

LEMMA Bystanders ==
  ASSUME Inductive, UNCHANGED tables, NEW c \in Calls,
         \A b \in Calls \ {c} : call'[b] = call[b],
         call'[c].pc # "commitCreate"
  PROVE  \A b \in Calls \ {c} : ArgumentsOK(b)' /\ TransactionOK(b)'
  BY DEF Inductive, tables, ArgumentsOK, TransactionOK, At, NoSessionOf

\* What is left to show of a step of c that changes no table.
LEMMA Quiet ==
  ASSUME Inductive, UNCHANGED tables, NEW c \in Calls, NEW k \in CallState,
         Become(c, k), k.pc # "commitCreate",
         LocksOK', ArgumentsOK(c)', TransactionOK(c)',
         requestLock' \in [Requests -> Calls \cup {None}],
         sessionLock' \in [Sessions -> Calls \cup {None}],
         online' \in SUBSET Devices, sent' \in SUBSET Notice,
         lost' \in SUBSET Notice
  PROVE  Inductive'
<1>1. TypeOK
  BY DEF Inductive
<1>2. /\ call' \in [Calls -> CallState]
      /\ call'[c] = k
      /\ \A b \in Calls \ {c} : call'[b] = call[b]
  BY <1>1, Moved
<1>3. TypeOK'
  BY <1>1, <1>2 DEF TypeOK, tables
<1>4. \A b \in Calls : ArgumentsOK(b)' /\ TransactionOK(b)'
  BY <1>2, Bystanders
<1> QED
  BY <1>3, <1>4, SameTables DEF Inductive

-----------------------------------------------------------------------------
(* The first steps of the handlers: a free call takes its arguments.       *)

FirstPcs == {"openInsert", "acceptUpdate", "rejectUpdate", "cancelLock",
             "assignPresence", "createLock", "activateLock", "closeUpdate"}

\* A call that starts holds no lock and knows nothing of any transaction, so
\* only its arguments are left to show.
LEMMA Starts ==
  ASSUME Inductive, NEW c \in Calls, NEW k \in CallState, Free(c), Become(c, k),
         k.pc \in FirstPcs, UNCHANGED <<tables, locks, online, sent, lost>>,
         ArgumentsOK(c)'
  PROVE  Inductive'
<1>1. TypeOK /\ LocksOK
  BY DEF Inductive
<1>2. call'[c] = k /\ \A b \in Calls \ {c} : call'[b] = call[b]
  BY <1>1, Moved
<1>3. LocksOK'
  <2>1. KeepsRequest(c) /\ KeepsSession(c)
    BY <1>2 DEF KeepsRequest, KeepsSession, RequestHolding, SessionHolding,
                Free, FreePcs, FirstPcs, locks
  <2> QED
    BY <1>1, <1>2, <2>1, Locks
<1>4. TransactionOK(c)'
  BY <1>2 DEF TransactionOK, At, FirstPcs
<1> QED
  BY <1>1, <1>3, <1>4, Quiet DEF FirstPcs, TypeOK, locks

\* The calls on a request, of which ArgumentsOK asks at most these three facts.
LEMMA StartsOnRequest ==
  ASSUME Inductive, NEW c \in Calls, NEW a \in Devices \cup Technicians, NEW r \in Requests,
         NEW pc \in {"acceptUpdate", "rejectUpdate", "cancelLock", "assignPresence", "createLock"},
         Free(c), Become(c, [NoCall EXCEPT !.pc = pc, !.actor = a, !.req = r]),
         UNCHANGED <<tables, locks, online, sent, lost>>,
         request[r].status # "ABSENT",
         pc \in {"assignPresence", "createLock"} => a \in Technicians,
         pc = "createLock" => request[r].technician = a
  PROVE  Inductive'
<1> DEFINE k == [NoCall EXCEPT !.pc = pc, !.actor = a, !.req = r]
<1>1. k \in CallState
  BY RequestCallType DEF Pcs
<1>2. k.pc = pc /\ k.actor = a /\ k.req = r
  BY DEF NoCall
<1>3. call'[c] = k
  BY <1>1, Moved DEF Inductive
<1>4. ArgumentsOK(c)'
  BY <1>2, <1>3 DEF ArgumentsOK, At, tables
<1> QED
  BY <1>1, <1>2, <1>4, Starts DEF FirstPcs

\* The calls on a session.
LEMMA StartsOnSession ==
  ASSUME Inductive, NEW c \in Calls, NEW k \in CallState, Free(c), Become(c, k),
         UNCHANGED <<tables, locks, online, sent, lost>>,
         k.sess \in Sessions, session[k.sess].status # "ABSENT",
         \/ k.pc = "activateLock"
         \/ k.pc = "closeUpdate" /\ session[k.sess].request = k.req /\ k.end \in Ends
  PROVE  Inductive'
<1>1. call'[c] = k
  BY Moved DEF Inductive
<1>2. ArgumentsOK(c)'
  BY <1>1 DEF ArgumentsOK, At, tables
<1> QED
  BY <1>2, Starts DEF FirstPcs

LEMMA StartOpenStep ==
  ASSUME Inductive, NEW c \in Calls, NEW d \in Devices, StartOpen(c, d)
  PROVE  Inductive'
<1> DEFINE k == [NoCall EXCEPT !.pc = "openInsert", !.actor = d]
<1>1. k \in CallState /\ k.pc = "openInsert" /\ k.actor = d
  BY NoCallType DEF CallState, Pcs, NoCall
<1>2. call'[c] = k
  BY <1>1, Moved DEF Inductive, StartOpen
<1>3. ArgumentsOK(c)'
  BY <1>1, <1>2 DEF ArgumentsOK, At
<1> QED
  BY <1>1, <1>3, Starts DEF StartOpen, FirstPcs

LEMMA StartAcceptStep ==
  ASSUME Inductive, NEW c \in Calls, NEW d \in Devices, NEW r \in Requests,
         StartAnswer(c, d, r, "acceptUpdate")
  PROVE  Inductive'
  BY StartsOnRequest DEF StartAnswer, OwnedByDevice

LEMMA StartRejectStep ==
  ASSUME Inductive, NEW c \in Calls, NEW d \in Devices, NEW r \in Requests,
         StartAnswer(c, d, r, "rejectUpdate")
  PROVE  Inductive'
  BY StartsOnRequest DEF StartAnswer, OwnedByDevice

LEMMA StartCancelStep ==
  ASSUME Inductive, NEW c \in Calls, NEW d \in Devices, NEW r \in Requests, StartCancel(c, d, r)
  PROVE  Inductive'
  BY StartsOnRequest DEF StartCancel, OwnedByDevice

LEMMA StartAssignStep ==
  ASSUME Inductive, NEW c \in Calls, NEW t \in Technicians, NEW r \in Requests, StartAssign(c, t, r)
  PROVE  Inductive'
  BY StartsOnRequest DEF StartAssign, CanTake

LEMMA StartCreateStep ==
  ASSUME Inductive, NEW c \in Calls, NEW t \in Technicians, NEW r \in Requests, StartCreate(c, t, r)
  PROVE  Inductive'
  BY StartsOnRequest DEF StartCreate, OwnedByTechnician

LEMMA StartActivateStep ==
  ASSUME Inductive, NEW c \in Calls, NEW t \in Technicians, NEW s \in Sessions, StartActivate(c, t, s)
  PROVE  Inductive'
<1> DEFINE k == [NoCall EXCEPT !.pc = "activateLock", !.actor = t, !.sess = s]
<1>1. k \in CallState /\ k.pc = "activateLock" /\ k.sess = s
  BY NoCallType DEF CallState, Pcs, NoCall
<1> QED
  BY <1>1, StartsOnSession DEF StartActivate, OwnedByTechnician

LEMMA StartCloseStep ==
  ASSUME Inductive, NEW c \in Calls, NEW actor \in Devices \cup Technicians, NEW s \in Sessions,
         NEW end \in Ends, StartClose(c, actor, s, end)
  PROVE  Inductive'
<1> DEFINE k == [pc |-> "closeUpdate", actor |-> actor, end |-> end, sess |-> s,
                 req |-> session[s].request, seen |-> session[s].status]
<1>1. session[s] \in SessionRow /\ session[s].status # "ABSENT"
  BY DEF Inductive, TypeOK, StartClose, OwnedSession
<1>2. k \in CallState
  BY <1>1 DEF CallState, Pcs, SessionRow
<1> QED
  BY <1>1, <1>2, StartsOnSession DEF StartClose


-----------------------------------------------------------------------------
(* Steps inside a transaction, before its COMMIT.                          *)

LEMMA SeenType ==
  ASSUME NEW k \in CallState, NEW pc \in Pcs,
         NEW status \in ActiveRequestStatuses \cup TerminalRequestStatuses
                          \cup LiveSessionStatuses \cup {"CLOSED", "none"}
  PROVE  [k EXCEPT !.pc = pc, !.seen = status] \in CallState
  BY DEF CallState

LEMMA CancelLockStep ==
  ASSUME Inductive, NEW c \in Calls, CancelLock(c)
  PROVE  Inductive'
<1> DEFINE status == request[call[c].req].status
           pc == AfterCancelLock(status)
           k == [call[c] EXCEPT !.pc = pc, !.seen = status]
<1>1. /\ TypeOK /\ RowsOK /\ LocksOK /\ Consistent
      /\ ArgumentsOK(c) /\ TransactionOK(c) /\ call[c] \in CallState
  BY DEF Inductive, TypeOK
<1>2. k \in CallState
  <2>1. pc \in Pcs
    BY DEF AfterCancelLock, Pcs, RequestHolding
  <2>2. status \in ActiveRequestStatuses \cup TerminalRequestStatuses
    BY <1>1 DEF CancelLock, ArgumentsOK, At, TypeOK, RequestRow
  <2> QED
    BY <1>1, <2>1, <2>2, SeenType
<1>3. Become(c, k) /\ UNCHANGED tables
  BY DEF CancelLock, tables
<1>4. call'[c] = k /\ \A b \in Calls \ {c} : call'[b] = call[b]
  BY <1>1, <1>2, <1>3, Moved
<1>5. /\ k.pc = pc /\ k.seen = status /\ k.req = call[c].req /\ k.sess = call[c].sess
      /\ k.actor = call[c].actor
      /\ pc \in {"cancelCheck", "cancelUpdate", "rollback"}
      /\ pc = "cancelCheck" => status = "ACCEPTED"
      /\ pc = "cancelUpdate" => status \in {"WAITING", "ASSIGNED"}
  BY <1>1 DEF AfterCancelLock, CallState
<1> HIDE DEF k, pc
<1>6. LocksOK'
  <2>1. TakesRequest(c)
    BY <1>1, <1>4, <1>5 DEF CancelLock, LockRequest, TakesRequest, ArgumentsOK, At, RequestHolding
  <2>2. KeepsSession(c)
    BY <1>1, <1>4, <1>5 DEF CancelLock, KeepsSession, At, SessionHolding
  <2> QED
    BY <1>1, <1>4, <2>1, <2>2, Locks
<1>7. ArgumentsOK(c)' /\ TransactionOK(c)'
  <2> call[c].req \in Requests
    BY <1>1 DEF CancelLock, ArgumentsOK, At
  <2>1. status \in {"WAITING", "ASSIGNED"} => NoSessionOf(call[c].req)
    BY <1>1, NoneIsNobody DEF Consistent, NoSessionOf, RowsOK, NoSession
  <2>2. ArgumentsOK(c)'
    BY <1>4, <1>5 DEF ArgumentsOK, At
  <2>3. TransactionOK(c)'
    BY <1>3, <1>4, <1>5, <2>1
    DEF TransactionOK, At, tables, NoSessionOf, IsActive, ActiveRequestStatuses
  <2> QED
    BY <2>2, <2>3
<1> QED
  BY <1>1, <1>2, <1>3, <1>5, <1>6, <1>7, Quiet DEF TypeOK, CancelLock, LockRequest

LEMMA CancelCheckStep ==
  ASSUME Inductive, NEW c \in Calls, CancelCheck(c)
  PROVE  Inductive'
<1> DEFINE live == HasLiveRemoteSession(call[c].req)
           pc == IF live THEN "rollback" ELSE "cancelUpdate"
           k == [call[c] EXCEPT !.pc = pc]
<1>1. /\ TypeOK /\ RowsOK /\ LocksOK /\ Consistent
      /\ ArgumentsOK(c) /\ TransactionOK(c) /\ call[c] \in CallState
  BY DEF Inductive, TypeOK
<1>2. k \in CallState
  BY <1>1, PcType DEF Pcs, RequestHolding
<1>3. Become(c, k) /\ UNCHANGED tables
  BY DEF CancelCheck, Goto, tables
<1>4. call'[c] = k /\ \A b \in Calls \ {c} : call'[b] = call[b]
  BY <1>1, <1>2, <1>3, Moved
<1>5. /\ k.pc = pc /\ k.seen = call[c].seen /\ k.req = call[c].req
      /\ k.sess = call[c].sess
  BY <1>1 DEF CallState
<1> HIDE DEF k
<1>6. LocksOK'
  <2>1. KeepsRequest(c) /\ KeepsSession(c)
    BY <1>4, <1>5 DEF CancelCheck, KeepsRequest, KeepsSession, At, RequestHolding,
                      SessionHolding, locks
  <2> QED
    BY <1>1, <1>4, <2>1, Locks
<1>7. ArgumentsOK(c)' /\ TransactionOK(c)'
  <2>1. call[c].req \in Requests /\ request[call[c].req].status = "ACCEPTED"
        /\ call[c].seen = "ACCEPTED"
    BY <1>1 DEF CancelCheck, At, TransactionOK, LocksOK, RequestHolding
  <2>2. ~live => NoSessionOf(call[c].req)
    BY <1>1, <2>1, NoneIsNobody
    DEF HasLiveRemoteSession, Consistent, NoSessionOf, RowsOK, NoSession
  <2>3. ArgumentsOK(c)'
    BY <1>4, <1>5 DEF ArgumentsOK, At
  <2>4. TransactionOK(c)'
    BY <1>3, <1>4, <1>5, <2>1, <2>2
    DEF TransactionOK, At, tables, NoSessionOf, IsActive, ActiveRequestStatuses
  <2> QED
    BY <2>3, <2>4
<1> QED
  BY <1>1, <1>2, <1>3, <1>5, <1>6, <1>7, Quiet DEF TypeOK, CancelCheck, locks

LEMMA CancelUpdateStep ==
  ASSUME Inductive, NEW c \in Calls, CancelUpdate(c)
  PROVE  Inductive'
<1> DEFINE pc == IF IsActive(request[call[c].req]) THEN "commitCancel" ELSE "rollback"
           k == [call[c] EXCEPT !.pc = pc]
<1>1. /\ TypeOK /\ LocksOK
      /\ ArgumentsOK(c) /\ TransactionOK(c) /\ call[c] \in CallState
  BY DEF Inductive, TypeOK
<1>2. k \in CallState
  BY <1>1, PcType DEF Pcs, RequestHolding
<1>3. Become(c, k) /\ UNCHANGED tables
  BY DEF CancelUpdate, Goto, tables
<1>4. call'[c] = k /\ \A b \in Calls \ {c} : call'[b] = call[b]
  BY <1>1, <1>2, <1>3, Moved
<1>5. /\ k.pc = pc /\ k.seen = call[c].seen /\ k.req = call[c].req
      /\ k.sess = call[c].sess
  BY <1>1 DEF CallState
<1> HIDE DEF k
<1>6. LocksOK'
  <2>1. KeepsRequest(c) /\ KeepsSession(c)
    BY <1>4, <1>5 DEF CancelUpdate, KeepsRequest, KeepsSession, At, RequestHolding,
                      SessionHolding, locks
  <2> QED
    BY <1>1, <1>4, <2>1, Locks
<1>7. ArgumentsOK(c)' /\ TransactionOK(c)'
  <2>1. ArgumentsOK(c)'
    BY <1>4, <1>5 DEF ArgumentsOK, At
  <2>2. TransactionOK(c)'
    BY <1>1, <1>3, <1>4, <1>5
    DEF CancelUpdate, TransactionOK, At, tables, NoSessionOf, IsActive
  <2> QED
    BY <2>1, <2>2
<1> QED
  BY <1>1, <1>2, <1>3, <1>5, <1>6, <1>7, Quiet DEF TypeOK, CancelUpdate, locks

LEMMA CreateLockStep ==
  ASSUME Inductive, NEW c \in Calls, CreateLock(c)
  PROVE  Inductive'
<1> DEFINE pc == IF request[call[c].req].status = "ACCEPTED" THEN "createCheck" ELSE "rollback"
           k == [call[c] EXCEPT !.pc = pc]
<1>1. /\ TypeOK /\ LocksOK
      /\ ArgumentsOK(c) /\ TransactionOK(c) /\ call[c] \in CallState
  BY DEF Inductive, TypeOK
<1>2. k \in CallState
  BY <1>1, PcType DEF Pcs, RequestHolding
<1>3. Become(c, k) /\ UNCHANGED tables
  BY DEF CreateLock, Goto, tables
<1>4. call'[c] = k /\ \A b \in Calls \ {c} : call'[b] = call[b]
  BY <1>1, <1>2, <1>3, Moved
<1>5. k.pc = pc /\ k.req = call[c].req /\ k.sess = call[c].sess /\ k.actor = call[c].actor
  BY <1>1 DEF CallState
<1> HIDE DEF k
<1>6. LocksOK'
  <2>1. TakesRequest(c)
    BY <1>1, <1>4, <1>5 DEF CreateLock, LockRequest, TakesRequest, ArgumentsOK, At, RequestHolding
  <2>2. KeepsSession(c)
    BY <1>1, <1>4, <1>5 DEF CreateLock, KeepsSession, At, SessionHolding
  <2> QED
    BY <1>1, <1>4, <2>1, <2>2, Locks
<1>7. ArgumentsOK(c)' /\ TransactionOK(c)'
  <2>1. ArgumentsOK(c)'
    BY <1>4, <1>5 DEF ArgumentsOK, At
  <2>2. TransactionOK(c)'
    BY <1>1, <1>3, <1>4, <1>5 DEF CreateLock, TransactionOK, ArgumentsOK, At, tables
  <2> QED
    BY <2>1, <2>2
<1> QED
  BY <1>1, <1>2, <1>3, <1>5, <1>6, <1>7, Quiet DEF TypeOK, CreateLock, LockRequest

LEMMA CreateCheckStep ==
  ASSUME Inductive, NEW c \in Calls, CreateCheck(c)
  PROVE  Inductive'
<1> DEFINE busy == TechnicianHasLiveSession(call[c].actor)
           pc == IF busy THEN "rollback" ELSE "createPresence"
           k == [call[c] EXCEPT !.pc = pc]
<1>1. /\ TypeOK /\ RowsOK /\ LocksOK /\ Consistent
      /\ ArgumentsOK(c) /\ TransactionOK(c) /\ call[c] \in CallState
  BY DEF Inductive, TypeOK
<1>2. k \in CallState
  BY <1>1, PcType DEF Pcs, RequestHolding
<1>3. Become(c, k) /\ UNCHANGED tables
  BY DEF CreateCheck, Goto, tables
<1>4. call'[c] = k /\ \A b \in Calls \ {c} : call'[b] = call[b]
  BY <1>1, <1>2, <1>3, Moved
<1>5. k.pc = pc /\ k.req = call[c].req /\ k.sess = call[c].sess /\ k.actor = call[c].actor
  BY <1>1 DEF CallState
<1> HIDE DEF k
<1>6. LocksOK'
  <2>1. KeepsRequest(c) /\ KeepsSession(c)
    BY <1>4, <1>5 DEF CreateCheck, KeepsRequest, KeepsSession, At, RequestHolding,
                      SessionHolding, locks
  <2> QED
    BY <1>1, <1>4, <2>1, Locks
<1>7. ArgumentsOK(c)' /\ TransactionOK(c)'
  <2>1. /\ call[c].req \in Requests /\ request[call[c].req].status = "ACCEPTED"
        /\ request[call[c].req].technician = call[c].actor
    BY <1>1 DEF CreateCheck, At, TransactionOK, LocksOK, RequestHolding
  \* A session of this request would be live, and of this technician.
  <2>2. ~busy => NoSessionOf(call[c].req)
    BY <1>1, <2>1, NoneIsNobody
    DEF TechnicianHasLiveSession, Consistent, NoSessionOf, RowsOK, NoSession
  <2>3. ArgumentsOK(c)'
    BY <1>4, <1>5 DEF ArgumentsOK, At
  <2>4. TransactionOK(c)'
    BY <1>3, <1>4, <1>5, <2>1, <2>2 DEF TransactionOK, At, tables, NoSessionOf
  <2> QED
    BY <2>3, <2>4
<1> QED
  BY <1>1, <1>2, <1>3, <1>5, <1>6, <1>7, Quiet DEF TypeOK, CreateCheck, locks

LEMMA CreatePresenceStep ==
  ASSUME Inductive, NEW c \in Calls, CreatePresence(c)
  PROVE  Inductive'
<1> DEFINE pc == IF request[call[c].req].device \in online THEN "createInsert" ELSE "rollback"
           k == [call[c] EXCEPT !.pc = pc]
<1>1. /\ TypeOK /\ LocksOK
      /\ ArgumentsOK(c) /\ TransactionOK(c) /\ call[c] \in CallState
  BY DEF Inductive, TypeOK
<1>2. k \in CallState
  BY <1>1, PcType DEF Pcs, RequestHolding
<1>3. Become(c, k) /\ UNCHANGED tables
  BY DEF CreatePresence, Goto, tables
<1>4. call'[c] = k /\ \A b \in Calls \ {c} : call'[b] = call[b]
  BY <1>1, <1>2, <1>3, Moved
<1>5. k.pc = pc /\ k.req = call[c].req /\ k.sess = call[c].sess /\ k.actor = call[c].actor
  BY <1>1 DEF CallState
<1> HIDE DEF k
<1>6. LocksOK'
  <2>1. KeepsRequest(c) /\ KeepsSession(c)
    BY <1>4, <1>5 DEF CreatePresence, KeepsRequest, KeepsSession, At, RequestHolding,
                      SessionHolding, locks
  <2> QED
    BY <1>1, <1>4, <2>1, Locks
<1>7. ArgumentsOK(c)' /\ TransactionOK(c)'
  <2>1. ArgumentsOK(c)'
    BY <1>4, <1>5 DEF ArgumentsOK, At
  <2>2. TransactionOK(c)'
    BY <1>1, <1>3, <1>4, <1>5 DEF CreatePresence, TransactionOK, At, tables, NoSessionOf
  <2> QED
    BY <2>1, <2>2
<1> QED
  BY <1>1, <1>2, <1>3, <1>5, <1>6, <1>7, Quiet DEF TypeOK, CreatePresence, locks

\* assign looks for the tablet while it holds nothing.
LEMMA AssignPresenceStep ==
  ASSUME Inductive, NEW c \in Calls, AssignPresence(c)
  PROVE  Inductive'
<1>1. /\ TypeOK /\ LocksOK /\ ArgumentsOK(c) /\ At(c, "assignPresence")
      /\ call[c] \in CallState /\ UNCHANGED <<tables, locks, online, sent, lost>>
  BY DEF Inductive, TypeOK, AssignPresence
<1>2. PICK k \in CallState :
        /\ Become(c, k)
        /\ \/ k.pc = "idle"
           \/ k.pc = "assignUpdate" /\ k.req = call[c].req /\ k.actor = call[c].actor
  <2>1. CASE Goto(c, "assignUpdate")
    <3>1. [call[c] EXCEPT !.pc = "assignUpdate"] \in CallState
      BY <1>1, PcType DEF Pcs
    <3> QED
      BY <1>1, <2>1, <3>1 DEF Goto, CallState
  <2>2. CASE Refused(c)
    BY <2>2, NoCallType DEF Refused, NoCall
  <2> QED
    BY <2>1, <2>2 DEF AssignPresence
<1>3. call'[c] = k /\ \A b \in Calls \ {c} : call'[b] = call[b]
  BY <1>1, <1>2, Moved
<1>4. LocksOK'
  <2>1. KeepsRequest(c) /\ KeepsSession(c)
    BY <1>1, <1>2, <1>3 DEF KeepsRequest, KeepsSession, RequestHolding, SessionHolding, At, locks
  <2> QED
    BY <1>1, <1>3, <2>1, Locks
<1>5. ArgumentsOK(c)' /\ TransactionOK(c)'
  BY <1>1, <1>2, <1>3 DEF ArgumentsOK, TransactionOK, At
<1> QED
  BY <1>1, <1>2, <1>4, <1>5, Quiet DEF TypeOK, locks

LEMMA ActivateLockStep ==
  ASSUME Inductive, NEW c \in Calls, ActivateLock(c)
  PROVE  Inductive'
<1> DEFINE status == session[call[c].sess].status
           pc == AfterActivateLock(status)
           k == [call[c] EXCEPT !.pc = pc, !.seen = status]
<1>1. /\ TypeOK /\ LocksOK
      /\ ArgumentsOK(c) /\ TransactionOK(c) /\ call[c] \in CallState
  BY DEF Inductive, TypeOK
<1>2. k \in CallState
  <2>1. pc \in Pcs
    BY DEF AfterActivateLock, Pcs, SessionHolding
  <2>2. status \in LiveSessionStatuses \cup {"CLOSED"}
    BY <1>1 DEF ActivateLock, ArgumentsOK, At, TypeOK, SessionRow
  <2> QED
    BY <1>1, <2>1, <2>2, SeenType
<1>3. Become(c, k) /\ UNCHANGED tables
  BY DEF ActivateLock, tables
<1>4. call'[c] = k /\ \A b \in Calls \ {c} : call'[b] = call[b]
  BY <1>1, <1>2, <1>3, Moved
<1>5. /\ k.pc = pc /\ k.seen = status /\ k.req = call[c].req /\ k.sess = call[c].sess
      /\ pc \in {"activateUpdate", "commitActivate", "rollback"}
      /\ pc = "activateUpdate" => status = "CONNECTING"
      /\ pc = "commitActivate" => status = "ACTIVE"
  BY <1>1 DEF AfterActivateLock, CallState
<1> HIDE DEF k, pc
<1>6. LocksOK'
  <2>1. TakesSession(c)
    BY <1>1, <1>4, <1>5 DEF ActivateLock, LockSession, TakesSession, ArgumentsOK, At, SessionHolding
  <2>2. KeepsRequest(c)
    BY <1>1, <1>4, <1>5 DEF ActivateLock, KeepsRequest, At, RequestHolding
  <2> QED
    BY <1>1, <1>4, <2>1, <2>2, Locks
<1>7. ArgumentsOK(c)' /\ TransactionOK(c)'
  <2>1. ArgumentsOK(c)'
    BY <1>4, <1>5 DEF ArgumentsOK, At
  <2>2. TransactionOK(c)'
    BY <1>3, <1>4, <1>5 DEF TransactionOK, At, tables, IsLive, LiveSessionStatuses
  <2> QED
    BY <2>1, <2>2
<1> QED
  BY <1>1, <1>2, <1>3, <1>5, <1>6, <1>7, Quiet DEF TypeOK, ActivateLock, LockSession

LEMMA ActivateUpdateStep ==
  ASSUME Inductive, NEW c \in Calls, ActivateUpdate(c)
  PROVE  Inductive'
<1> DEFINE pc == IF session[call[c].sess].status = "CONNECTING"
                   THEN "commitActivate" ELSE "rollback"
           k == [call[c] EXCEPT !.pc = pc]
<1>1. /\ TypeOK /\ LocksOK
      /\ ArgumentsOK(c) /\ TransactionOK(c) /\ call[c] \in CallState
  BY DEF Inductive, TypeOK
<1>2. k \in CallState
  BY <1>1, PcType DEF Pcs, SessionHolding
<1>3. Become(c, k) /\ UNCHANGED tables
  BY DEF ActivateUpdate, Goto, tables
<1>4. call'[c] = k /\ \A b \in Calls \ {c} : call'[b] = call[b]
  BY <1>1, <1>2, <1>3, Moved
<1>5. /\ k.pc = pc /\ k.seen = call[c].seen /\ k.req = call[c].req
      /\ k.sess = call[c].sess
  BY <1>1 DEF CallState
<1> HIDE DEF k
<1>6. LocksOK'
  <2>1. KeepsRequest(c) /\ KeepsSession(c)
    BY <1>4, <1>5 DEF ActivateUpdate, KeepsRequest, KeepsSession, At, RequestHolding,
                      SessionHolding, locks
  <2> QED
    BY <1>1, <1>4, <2>1, Locks
<1>7. ArgumentsOK(c)' /\ TransactionOK(c)'
  <2>1. ArgumentsOK(c)'
    BY <1>4, <1>5 DEF ArgumentsOK, At
  <2>2. TransactionOK(c)'
    BY <1>1, <1>3, <1>4, <1>5
    DEF ActivateUpdate, TransactionOK, At, tables, IsLive, LiveSessionStatuses
  <2> QED
    BY <2>1, <2>2
<1> QED
  BY <1>1, <1>2, <1>3, <1>5, <1>6, <1>7, Quiet DEF TypeOK, ActivateUpdate, locks

LEMMA CloseUpdateStep ==
  ASSUME Inductive, NEW c \in Calls, CloseUpdate(c)
  PROVE  Inductive'
<1> DEFINE live == IsLive(session[call[c].sess])
           k == IF live THEN [call[c] EXCEPT !.pc = "closeComplete"] ELSE NoCall
<1>1. /\ TypeOK /\ LocksOK
      /\ ArgumentsOK(c) /\ TransactionOK(c) /\ call[c] \in CallState
  BY DEF Inductive, TypeOK
<1>2. k \in CallState
  BY <1>1, PcType, NoCallType DEF Pcs, SessionHolding
<1>3. Become(c, k) /\ UNCHANGED tables
  BY DEF CloseUpdate, Goto, Refused, tables
<1>4. call'[c] = k /\ \A b \in Calls \ {c} : call'[b] = call[b]
  BY <1>1, <1>2, <1>3, Moved
<1>5. /\ live => /\ k.pc = "closeComplete" /\ k.req = call[c].req
                 /\ k.sess = call[c].sess /\ k.end = call[c].end
      /\ ~live => k.pc = "idle"
  BY <1>1 DEF CallState, NoCall
<1> HIDE DEF k, live
<1>6. LocksOK'
  <2>1. live => TakesSession(c)
    BY <1>1, <1>4, <1>5 DEF CloseUpdate, LockSession, TakesSession, ArgumentsOK, At, SessionHolding, live
  <2>2. ~live => KeepsSession(c)
    BY <1>1, <1>4, <1>5 DEF CloseUpdate, KeepsSession, At, SessionHolding, live
  <2>3. KeepsRequest(c)
    BY <1>1, <1>4, <1>5 DEF CloseUpdate, KeepsRequest, At, RequestHolding
  <2> QED
    BY <1>1, <1>4, <2>1, <2>2, <2>3, Locks
<1>7. ArgumentsOK(c)' /\ TransactionOK(c)'
  <2>1. ArgumentsOK(c)'
    BY <1>1, <1>3, <1>4, <1>5 DEF CloseUpdate, ArgumentsOK, At, tables
  <2>2. TransactionOK(c)'
    BY <1>1, <1>3, <1>4, <1>5 DEF CloseUpdate, TransactionOK, At, tables, live
  <2> QED
    BY <2>1, <2>2
<1>8. sessionLock' \in [Sessions -> Calls \cup {None}] /\ UNCHANGED requestLock
  BY <1>1 DEF TypeOK, CloseUpdate, LockSession
<1> QED
  BY <1>1, <1>2, <1>3, <1>5, <1>6, <1>7, <1>8, Quiet DEF TypeOK, CloseUpdate

LEMMA CloseCompleteStep ==
  ASSUME Inductive, NEW c \in Calls, CloseComplete(c)
  PROVE  Inductive'
<1> DEFINE k == [call[c] EXCEPT !.pc = "commitClose"]
<1>1. /\ TypeOK /\ LocksOK /\ Consistent
      /\ ArgumentsOK(c) /\ TransactionOK(c) /\ call[c] \in CallState
  BY DEF Inductive, TypeOK
\* The session is live, so its request is ACCEPTED.
<1>2. /\ call[c].sess \in Sessions /\ IsLive(session[call[c].sess])
      /\ session[call[c].sess].request = call[c].req
      /\ call[c].req \in Requests /\ request[call[c].req].status = "ACCEPTED"
  <2>1. /\ call[c].sess \in Sessions /\ IsLive(session[call[c].sess])
        /\ session[call[c].sess].request = call[c].req
    BY <1>1 DEF CloseComplete, ArgumentsOK, TransactionOK, LocksOK, At, SessionHolding
  <2> QED
    BY <1>1, <2>1 DEF Consistent, IsLive, LiveSessionStatuses
<1>3. k \in CallState
  BY <1>1, PcType DEF Pcs, RequestHolding
<1>4. Become(c, k) /\ UNCHANGED tables
  BY <1>2 DEF CloseComplete, Goto, tables
<1>5. call'[c] = k /\ \A b \in Calls \ {c} : call'[b] = call[b]
  BY <1>1, <1>3, <1>4, Moved
<1>6. /\ k.pc = "commitClose" /\ k.req = call[c].req
      /\ k.sess = call[c].sess /\ k.end = call[c].end
  BY <1>1 DEF CallState
<1> HIDE DEF k
<1>7. LocksOK'
  <2>1. TakesRequest(c)
    BY <1>2, <1>5, <1>6 DEF CloseComplete, LockRequest, TakesRequest, At, RequestHolding
  <2>2. KeepsSession(c)
    BY <1>5, <1>6 DEF CloseComplete, KeepsSession, At, SessionHolding
  <2> QED
    BY <1>1, <1>5, <2>1, <2>2, Locks
<1>8. ArgumentsOK(c)' /\ TransactionOK(c)'
  <2>1. ArgumentsOK(c)'
    BY <1>1, <1>4, <1>5, <1>6 DEF CloseComplete, ArgumentsOK, At, tables
  <2>2. TransactionOK(c)'
    BY <1>2, <1>4, <1>5, <1>6 DEF TransactionOK, At, tables
  <2> QED
    BY <2>1, <2>2
<1>9. requestLock' \in [Requests -> Calls \cup {None}] /\ UNCHANGED sessionLock
  BY <1>1, <1>2 DEF TypeOK, CloseComplete, LockRequest
<1> QED
  BY <1>1, <1>3, <1>4, <1>6, <1>7, <1>8, <1>9, Quiet DEF TypeOK, CloseComplete

LEMMA RollbackStep ==
  ASSUME Inductive, NEW c \in Calls, Rollback(c)
  PROVE  Inductive'
<1>1. TypeOK /\ LocksOK
  BY DEF Inductive
<1>2. Become(c, NoCall) /\ UNCHANGED tables
  BY DEF Rollback, Refused, tables
<1>3. call'[c] = NoCall /\ \A b \in Calls \ {c} : call'[b] = call[b]
  BY <1>1, <1>2, NoCallType, Moved
<1>4. NoCall.pc = "idle"
  BY DEF NoCall
<1>5. /\ LocksOK'
      /\ requestLock' \in [Requests -> Calls \cup {None}]
      /\ sessionLock' \in [Sessions -> Calls \cup {None}]
  BY <1>1, <1>3, <1>4, Unlocks DEF Rollback, RequestHolding, SessionHolding
<1>6. ArgumentsOK(c)' /\ TransactionOK(c)'
  BY <1>3, <1>4 DEF ArgumentsOK, TransactionOK, At
<1> QED
  BY <1>1, <1>2, <1>4, <1>5, <1>6, NoCallType, Quiet DEF TypeOK, Rollback

-----------------------------------------------------------------------------
(* Steps that change the tables.                                           *)

\* How the tables may move under a call that is not the one moving: rows do not
\* go away, owners do not change, and no session comes to life.
Evolve ==
    /\ \A r \in Requests : request[r].status # "ABSENT" =>
         /\ request'[r].status # "ABSENT"
         /\ request[r].technician # None => request'[r].technician = request[r].technician
    /\ \A s \in Sessions :
         /\ session'[s].request = session[s].request
         /\ session'[s].technician = session[s].technician
         /\ session[s].status # "ABSENT" => session'[s].status # "ABSENT"
         /\ IsLive(session'[s]) => IsLive(session[s])

\* The rows b has locked stay as they are.
Undisturbed(b) ==
    /\ \A r \in Requests : requestLock[r] = b /\ call[b].pc \in RequestHolding
         => request'[r] = request[r]
    /\ \A s \in Sessions : sessionLock[s] = b /\ call[b].pc \in SessionHolding
         => session'[s] = session[s]

LEMMA Others ==
  ASSUME Inductive, NEW c \in Calls, NEW b \in Calls \ {c}, Evolve, Undisturbed(b),
         \A a \in Calls \ {c} : call'[a] = call[a],
         call'[c].pc # "commitCreate"
  PROVE  ArgumentsOK(b)' /\ TransactionOK(b)'
<1>1. /\ TypeOK /\ RowsOK /\ LocksOK /\ call'[b] = call[b]
      /\ ArgumentsOK(b) /\ TransactionOK(b)
  BY DEF Inductive
<1>2. ArgumentsOK(b)'
  <2>1. call[b].pc \in {"acceptUpdate", "rejectUpdate", "cancelLock"} =>
          request'[call[b].req].status # "ABSENT"
    BY <1>1 DEF ArgumentsOK, Evolve
  <2>2. At(b, "createLock") => request'[call[b].req].technician = call[b].actor
    <3>1. At(b, "createLock") =>
            /\ call[b].req \in Requests /\ call[b].actor \in Technicians
            /\ request[call[b].req].technician = call[b].actor
      BY <1>1 DEF ArgumentsOK, At
    <3>2. \A r \in Requests : request[r].technician # None =>
            request'[r].technician = request[r].technician
      BY <1>1 DEF Evolve, RowsOK, NoRequest
    <3> QED
      BY <3>1, <3>2, NoneIsNobody
  <2>3. call[b].pc \in {"activateLock", "closeUpdate", "notifyCreated",
                       "notifyActivated", "notifyClosed"} =>
          session'[call[b].sess].status # "ABSENT"
    BY <1>1 DEF ArgumentsOK, Evolve
  <2>4. call[b].pc \in {"closeUpdate", "closeComplete", "commitClose"} =>
          session'[call[b].sess].request = call[b].req
    <3>1. call[b].pc \in {"closeUpdate", "closeComplete", "commitClose"} =>
            /\ call[b].sess \in Sessions
            /\ session[call[b].sess].request = call[b].req
      BY <1>1 DEF ArgumentsOK, LocksOK, SessionHolding
    <3> QED
      BY <3>1 DEF Evolve
  <2> QED
    BY <1>1, <2>1, <2>2, <2>3, <2>4 DEF ArgumentsOK, At
<1>3. TransactionOK(b)'
  <2>1. call[b].pc \in RequestHolding =>
          call[b].req \in Requests /\ request'[call[b].req] = request[call[b].req]
    BY <1>1 DEF LocksOK, Undisturbed
  <2>2. call[b].pc \in SessionHolding =>
          call[b].sess \in Sessions /\ session'[call[b].sess] = session[call[b].sess]
    BY <1>1 DEF LocksOK, Undisturbed
  <2>3. NoSessionOf(call[b].req) => NoSessionOf(call[b].req)'
    BY <1>1 DEF NoSessionOf, Evolve
  <2>4. At(b, "commitCreate") =>
          /\ \A x \in Sessions :
               IsLive(session'[x]) => session'[x].technician # call'[b].actor
          /\ \A a \in Calls \ {b} :
               At(a, "commitCreate")' => call'[a].actor # call'[b].actor
    BY <1>1 DEF TransactionOK, Evolve, At
  <2> QED
    BY <1>1, <2>1, <2>2, <2>3, <2>4
    DEF TransactionOK, At, RequestHolding, SessionHolding
<1> QED
  BY <1>2, <1>3

LEMMA OpenInsertStep ==
  ASSUME Inductive, NEW c \in Calls, OpenInsert(c)
  PROVE  Inductive'
<1> DEFINE d == call[c].actor
<1>1. /\ TypeOK /\ RowsOK /\ LocksOK /\ Consistent /\ Exclusive
      /\ call[c] \in CallState /\ At(c, "openInsert") /\ d \in Devices
  BY DEF Inductive, TypeOK, ArgumentsOK, OpenInsert
<1>2. CASE Refused(c) /\ UNCHANGED request
  <2>1. Become(c, NoCall) /\ UNCHANGED tables /\ UNCHANGED <<locks, online, sent, lost>>
    BY <1>2 DEF OpenInsert, Refused, tables
  <2>2. call'[c] = NoCall /\ \A b \in Calls \ {c} : call'[b] = call[b]
    BY <1>1, <2>1, NoCallType, Moved
  <2>3. NoCall.pc = "idle"
    BY DEF NoCall
  <2>4. KeepsRequest(c) /\ KeepsSession(c)
    BY <1>1, <2>1, <2>2, <2>3
    DEF KeepsRequest, KeepsSession, RequestHolding, SessionHolding, At, locks
  <2>5. LocksOK'
    BY <1>1, <2>2, <2>4, Locks
  <2>6. ArgumentsOK(c)' /\ TransactionOK(c)'
    BY <2>2, <2>3 DEF ArgumentsOK, TransactionOK, At
  <2> QED
    BY <1>1, <2>1, <2>3, <2>5, <2>6, NoCallType, Quiet DEF TypeOK, locks
<1>3. ASSUME NEW r \in Requests, SameActiveDevice(d) = {},
             request[r].status = "ABSENT",
             request' = [request EXCEPT ![r] = WaitingRequest(d)],
             Become(c, [call[c] EXCEPT !.pc = "notifyOpened", !.req = r])
      PROVE  Inductive'
  <2> DEFINE k == [call[c] EXCEPT !.pc = "notifyOpened", !.req = r]
  <2>1. k \in CallState /\ k.pc = "notifyOpened" /\ k.req = r
    BY <1>1 DEF CallState, Pcs, NotifyPcs
  <2> HIDE DEF k
  <2>2. /\ call' \in [Calls -> CallState]
        /\ call'[c] = k /\ \A b \in Calls \ {c} : call'[b] = call[b]
    BY <1>1, <1>3, <2>1, Moved DEF k
  <2>3. UNCHANGED <<session, locks, online, sent, lost>>
    BY DEF OpenInsert
  <2>4. request' \in [Requests -> RequestRow]
    BY <1>1, <1>3 DEF TypeOK, WaitingRequest, RequestRow, ActiveRequestStatuses
  <2>5. /\ request'[r] = [status |-> "WAITING", device |-> d, technician |-> None]
        /\ \A q \in Requests \ {r} : request'[q] = request[q]
    BY <1>1, <1>3 DEF TypeOK, WaitingRequest
  <2>6. TypeOK'
    BY <1>1, <2>2, <2>3, <2>4 DEF TypeOK, locks
  <2>7. RowsOK'
    BY <1>1, <2>3, <2>5 DEF RowsOK
  <2>8. LocksOK'
    <3>1. KeepsRequest(c) /\ KeepsSession(c)
      BY <1>1, <2>1, <2>2, <2>3
      DEF KeepsRequest, KeepsSession, RequestHolding, SessionHolding, At, locks
    <3> QED
      BY <1>1, <2>2, <3>1, Locks
  <2>9. Consistent'
    BY <1>1, <1>3, <2>3, <2>5 DEF Consistent, IsLive
  <2>10. Exclusive'
    <3>1. \A q \in Requests : IsActive(request[q]) => request[q].device # d
      BY <1>3 DEF SameActiveDevice
    <3> QED
      BY <1>1, <1>3, <2>3, <2>5, <3>1 DEF Exclusive
  <2>11. \A b \in Calls \ {c} : ArgumentsOK(b)' /\ TransactionOK(b)'
    <3>1. Evolve
      BY <1>3, <2>3, <2>5 DEF Evolve
    <3>2. ASSUME NEW b \in Calls \ {c} PROVE Undisturbed(b)
      <4>1. requestLock[r] = b /\ call[b].pc \in RequestHolding => FALSE
        BY <1>1, <1>3, CallsAreNotNone
        DEF Inductive, LocksOK, TransactionOK, RequestHolding, At, IsActive, ActiveRequestStatuses
      <4> QED
        BY <2>3, <2>5, <4>1 DEF Undisturbed
    <3> QED
      BY <2>1, <2>2, <3>1, <3>2, Others
  <2>12. ArgumentsOK(c)' /\ TransactionOK(c)'
    BY <2>1, <2>2 DEF ArgumentsOK, TransactionOK, At
  <2> QED
    BY <2>6, <2>7, <2>8, <2>9, <2>10, <2>11, <2>12 DEF Inductive
<1> QED
  BY <1>2, <1>3 DEF OpenInsert

\* acceptByDevice and rejectByDevice.
LEMMA AnswerUpdateStep ==
  ASSUME Inductive, NEW c \in Calls, NEW pc \in {"acceptUpdate", "rejectUpdate"},
         NEW answer \in {"ACCEPTED", "REJECTED"},
         NEW next \in {"notifyAccepted", "notifyRejected"},
         AnswerUpdate(c, pc, answer, next)
  PROVE  Inductive'
<1> DEFINE r == call[c].req
<1>1. /\ TypeOK /\ RowsOK /\ LocksOK /\ Consistent /\ Exclusive
      /\ call[c] \in CallState /\ At(c, pc) /\ r \in Requests
  BY DEF Inductive, TypeOK, ArgumentsOK, AnswerUpdate, At
<1>2. UNCHANGED <<session, locks, online, sent, lost>>
  BY DEF AnswerUpdate
<1>3. CASE ~CanAnswer(r)
  <2>1. Become(c, NoCall) /\ UNCHANGED tables
    BY <1>2, <1>3 DEF AnswerUpdate, Refused, tables
  <2>2. call'[c] = NoCall /\ \A b \in Calls \ {c} : call'[b] = call[b]
    BY <1>1, <2>1, NoCallType, Moved
  <2>3. NoCall.pc = "idle"
    BY DEF NoCall
  <2>4. KeepsRequest(c) /\ KeepsSession(c)
    BY <1>1, <1>2, <2>2, <2>3
    DEF KeepsRequest, KeepsSession, RequestHolding, SessionHolding, At, locks
  <2>5. LocksOK'
    BY <1>1, <2>2, <2>4, Locks
  <2>6. ArgumentsOK(c)' /\ TransactionOK(c)'
    BY <2>2, <2>3 DEF ArgumentsOK, TransactionOK, At
  <2> QED
    BY <1>1, <1>2, <2>1, <2>3, <2>5, <2>6, NoCallType, Quiet DEF TypeOK, locks
<1>4. CASE CanAnswer(r)
  <2> DEFINE k == [call[c] EXCEPT !.pc = next]
  <2>1. /\ requestLock[r] = None /\ request[r].status = "ASSIGNED"
        /\ request' = [request EXCEPT ![r].status = answer]
        /\ Become(c, k)
    BY <1>4 DEF AnswerUpdate, CanAnswer, Goto
  <2>2. k \in CallState /\ k.pc = next /\ k.req = r
    BY <1>1, PcType DEF CallState, Pcs, NotifyPcs
  <2> HIDE DEF k
  <2>3. /\ call' \in [Calls -> CallState]
        /\ call'[c] = k /\ \A b \in Calls \ {c} : call'[b] = call[b]
    BY <1>1, <2>1, <2>2, Moved
  <2>4. /\ request' \in [Requests -> RequestRow]
        /\ request'[r].status = answer
        /\ request'[r].device = request[r].device
        /\ request'[r].technician = request[r].technician
        /\ \A q \in Requests \ {r} : request'[q] = request[q]
    BY <1>1, <2>1 DEF TypeOK, RequestRow, ActiveRequestStatuses, TerminalRequestStatuses
  <2>5. TypeOK'
    BY <1>1, <1>2, <2>3, <2>4 DEF TypeOK, locks
  <2>6. RowsOK'
    BY <1>1, <1>2, <2>1, <2>4 DEF RowsOK, NoRequest
  <2>7. LocksOK'
    <3>1. KeepsRequest(c) /\ KeepsSession(c)
      BY <1>1, <1>2, <2>2, <2>3
      DEF KeepsRequest, KeepsSession, RequestHolding, SessionHolding, At, locks
    <3> QED
      BY <1>1, <2>3, <3>1, Locks
  <2>8. Consistent'
    BY <1>1, <1>2, <2>1, <2>4 DEF Consistent, IsLive
  <2>9. Exclusive'
    BY <1>1, <1>2, <2>1, <2>4 DEF Exclusive, IsActive, ActiveRequestStatuses
  <2>10. \A b \in Calls \ {c} : ArgumentsOK(b)' /\ TransactionOK(b)'
    <3>1. Evolve
      BY <1>2, <2>4 DEF Evolve
    <3>2. \A b \in Calls \ {c} : Undisturbed(b)
      BY <1>2, <2>1, <2>4, CallsAreNotNone DEF Undisturbed
    <3> QED
      BY <2>2, <2>3, <3>1, <3>2, Others
  <2>11. ArgumentsOK(c)' /\ TransactionOK(c)'
    BY <1>1, <2>2, <2>3 DEF ArgumentsOK, TransactionOK, At
  <2> QED
    BY <2>5, <2>6, <2>7, <2>8, <2>9, <2>10, <2>11 DEF Inductive
<1> QED
  BY <1>3, <1>4

LEMMA AssignUpdateStep ==
  ASSUME Inductive, NEW c \in Calls, AssignUpdate(c)
  PROVE  Inductive'
<1> DEFINE r == call[c].req
<1>1. /\ TypeOK /\ RowsOK /\ LocksOK /\ Consistent /\ Exclusive
      /\ call[c] \in CallState /\ At(c, "assignUpdate") /\ r \in Requests
      /\ call[c].actor \in Technicians
  BY DEF Inductive, TypeOK, ArgumentsOK, AssignUpdate, At
<1>2. UNCHANGED <<session, locks, online, sent, lost>>
  BY DEF AssignUpdate
<1>3. CASE ~CanTake(r)
  <2>1. Become(c, NoCall) /\ UNCHANGED tables
    BY <1>2, <1>3 DEF AssignUpdate, Refused, tables
  <2>2. call'[c] = NoCall /\ \A b \in Calls \ {c} : call'[b] = call[b]
    BY <1>1, <2>1, NoCallType, Moved
  <2>3. NoCall.pc = "idle"
    BY DEF NoCall
  <2>4. KeepsRequest(c) /\ KeepsSession(c)
    BY <1>1, <1>2, <2>2, <2>3
    DEF KeepsRequest, KeepsSession, RequestHolding, SessionHolding, At, locks
  <2>5. LocksOK'
    BY <1>1, <2>2, <2>4, Locks
  <2>6. ArgumentsOK(c)' /\ TransactionOK(c)'
    BY <2>2, <2>3 DEF ArgumentsOK, TransactionOK, At
  <2> QED
    BY <1>1, <1>2, <2>1, <2>3, <2>5, <2>6, NoCallType, Quiet DEF TypeOK, locks
<1>4. CASE CanTake(r)
  <2> DEFINE k == [call[c] EXCEPT !.pc = "notifyAssigned"]
  <2>1. /\ requestLock[r] = None /\ request[r].status = "WAITING"
        /\ request' = [request EXCEPT ![r].status = "ASSIGNED",
                                      ![r].technician = call[c].actor]
        /\ Become(c, k)
    BY <1>4 DEF AssignUpdate, CanTake, Goto
  <2>2. k \in CallState /\ k.pc = "notifyAssigned" /\ k.req = r
    BY <1>1, PcType DEF CallState, Pcs, NotifyPcs
  <2> HIDE DEF k
  <2>3. /\ call' \in [Calls -> CallState]
        /\ call'[c] = k /\ \A b \in Calls \ {c} : call'[b] = call[b]
    BY <1>1, <2>1, <2>2, Moved
  <2>4. /\ request' \in [Requests -> RequestRow] /\ request[r].status = "WAITING"
        /\ request'[r].status = "ASSIGNED"
        /\ request'[r].device = request[r].device
        /\ request'[r].technician = call[c].actor
        /\ \A q \in Requests \ {r} : request'[q] = request[q]
    BY <1>1, <2>1 DEF TypeOK, RequestRow, ActiveRequestStatuses, TerminalRequestStatuses
  <2>5. TypeOK'
    BY <1>1, <1>2, <2>3, <2>4 DEF TypeOK, locks
  <2>6. RowsOK'
    BY <1>1, <1>2, <2>4 DEF RowsOK, NoRequest
  <2>7. LocksOK'
    <3>1. KeepsRequest(c) /\ KeepsSession(c)
      BY <1>1, <1>2, <2>2, <2>3
      DEF KeepsRequest, KeepsSession, RequestHolding, SessionHolding, At, locks
    <3> QED
      BY <1>1, <2>3, <3>1, Locks
  <2>8. Consistent'
    <3>1. \A s \in Sessions : session[s].status # "ABSENT" => session[s].request # r
      BY <1>1, <2>1 DEF Consistent, IsLive
    <3>2. \A q \in Requests : request'[q].status = "COMPLETED" => request'[q] = request[q]
      BY <2>4
    <3>3. session' = session
      BY <1>2
    <3> QED
      BY <1>1, <2>4, <3>1, <3>2, <3>3 DEF Consistent, IsLive
  <2>9. Exclusive'
    BY <1>1, <1>2, <2>4 DEF Exclusive, IsActive, ActiveRequestStatuses
  <2>10. \A b \in Calls \ {c} : ArgumentsOK(b)' /\ TransactionOK(b)'
    <3>1. Evolve
      BY <1>1, <1>2, <2>4, NoneIsNobody DEF Evolve, RowsOK
    <3>2. \A b \in Calls \ {c} : Undisturbed(b)
      BY <1>2, <2>1, <2>4, CallsAreNotNone DEF Undisturbed
    <3> QED
      BY <2>2, <2>3, <3>1, <3>2, Others
  <2>11. ArgumentsOK(c)' /\ TransactionOK(c)'
    BY <1>1, <2>2, <2>3 DEF ArgumentsOK, TransactionOK, At
  <2> QED
    BY <2>5, <2>6, <2>7, <2>8, <2>9, <2>10, <2>11 DEF Inductive
<1> QED
  BY <1>3, <1>4

-----------------------------------------------------------------------------
(* Commits.                                                                *)

LEMMA CommitCancelStep ==
  ASSUME Inductive, NEW c \in Calls, CommitCancel(c)
  PROVE  Inductive'
<1> DEFINE r == call[c].req
           k == [call[c] EXCEPT !.pc = "notifyCancelled"]
<1>1. /\ TypeOK /\ RowsOK /\ LocksOK /\ Consistent /\ Exclusive
      /\ call[c] \in CallState /\ At(c, "commitCancel")
      /\ r \in Requests /\ requestLock[r] = c
      /\ IsActive(request[r]) /\ NoSessionOf(r)
  BY DEF Inductive, TypeOK, CommitCancel, LocksOK, RequestHolding, At, TransactionOK
<1>2. /\ request' = [request EXCEPT ![r].status = "CANCELLED"]
      /\ Become(c, k) /\ Unlock(c) /\ UNCHANGED <<session, online, sent, lost>>
  BY DEF CommitCancel, Goto
<1>3. k \in CallState /\ k.pc = "notifyCancelled" /\ k.req = r
  BY <1>1, PcType DEF CallState, Pcs, NotifyPcs
<1> HIDE DEF k
<1>4. /\ call' \in [Calls -> CallState]
      /\ call'[c] = k /\ \A b \in Calls \ {c} : call'[b] = call[b]
  BY <1>1, <1>2, <1>3, Moved
<1>5. /\ request' \in [Requests -> RequestRow]
      /\ request'[r].status = "CANCELLED"
      /\ request'[r].device = request[r].device
      /\ request'[r].technician = request[r].technician
      /\ \A q \in Requests \ {r} : request'[q] = request[q]
  BY <1>1, <1>2 DEF TypeOK, RequestRow, ActiveRequestStatuses, TerminalRequestStatuses
<1>6. LocksOK' /\ requestLock' \in [Requests -> Calls \cup {None}]
               /\ sessionLock' \in [Sessions -> Calls \cup {None}]
  BY <1>1, <1>2, <1>3, <1>4, Unlocks DEF RequestHolding, SessionHolding
<1>7. TypeOK'
  BY <1>1, <1>2, <1>4, <1>5, <1>6 DEF TypeOK
<1>8. RowsOK'
  BY <1>1, <1>2, <1>5 DEF RowsOK, IsActive, ActiveRequestStatuses
<1>9. Consistent'
  BY <1>1, <1>2, <1>5 DEF Consistent, IsLive, IsActive, ActiveRequestStatuses, NoSessionOf
<1>10. Exclusive'
  BY <1>1, <1>2, <1>5 DEF Exclusive, IsActive, ActiveRequestStatuses
<1>11. \A b \in Calls \ {c} : ArgumentsOK(b)' /\ TransactionOK(b)'
  <2>1. Evolve
    BY <1>2, <1>5 DEF Evolve
  <2>2. \A b \in Calls \ {c} : Undisturbed(b)
    BY <1>1, <1>2, <1>5 DEF Undisturbed
  <2> QED
    BY <1>3, <1>4, <2>1, <2>2, Others
<1>12. ArgumentsOK(c)' /\ TransactionOK(c)'
  BY <1>1, <1>3, <1>4 DEF ArgumentsOK, TransactionOK, At
<1> QED
  BY <1>4, <1>7, <1>8, <1>6, <1>9, <1>10, <1>11, <1>12 DEF Inductive

LEMMA CommitActivateStep ==
  ASSUME Inductive, NEW c \in Calls, CommitActivate(c)
  PROVE  Inductive'
<1> DEFINE s == call[c].sess
<1>1. /\ TypeOK /\ RowsOK /\ LocksOK /\ Consistent /\ Exclusive
      /\ call[c] \in CallState /\ At(c, "commitActivate")
      /\ s \in Sessions /\ sessionLock[s] = c /\ IsLive(session[s])
  BY DEF Inductive, TypeOK, CommitActivate, LocksOK, SessionHolding, At, TransactionOK
<1>2. Unlock(c) /\ UNCHANGED <<request, online, sent, lost>>
  BY DEF CommitActivate
<1>3. CASE ~Activated(c)
  <2>1. Become(c, NoCall) /\ UNCHANGED tables
    BY <1>2, <1>3 DEF CommitActivate, Answered, tables
  <2>2. call'[c] = NoCall /\ \A b \in Calls \ {c} : call'[b] = call[b]
    BY <1>1, <2>1, NoCallType, Moved
  <2>3. NoCall.pc = "idle"
    BY DEF NoCall
  <2>4. LocksOK' /\ requestLock' \in [Requests -> Calls \cup {None}]
                 /\ sessionLock' \in [Sessions -> Calls \cup {None}]
    BY <1>1, <1>2, <2>2, <2>3, Unlocks DEF RequestHolding, SessionHolding
  <2>5. ArgumentsOK(c)' /\ TransactionOK(c)'
    BY <2>2, <2>3 DEF ArgumentsOK, TransactionOK, At
  <2> QED
    BY <1>1, <1>2, <2>1, <2>3, <2>4, <2>5, NoCallType, Quiet DEF TypeOK
<1>4. CASE Activated(c)
  <2> DEFINE k == [call[c] EXCEPT !.pc = "notifyActivated"]
  <2>1. /\ session' = [session EXCEPT ![s].status = "ACTIVE", ![s].connected = TRUE]
        /\ Become(c, k)
    BY <1>4 DEF CommitActivate, Goto
  <2>2. k \in CallState /\ k.pc = "notifyActivated" /\ k.sess = s
    BY <1>1, PcType DEF CallState, Pcs, NotifyPcs
  <2> HIDE DEF k
  <2>3. /\ call' \in [Calls -> CallState]
        /\ call'[c] = k /\ \A b \in Calls \ {c} : call'[b] = call[b]
    BY <1>1, <2>1, <2>2, Moved
  <2>4. /\ session' \in [Sessions -> SessionRow]
        /\ session'[s].status = "ACTIVE" /\ session'[s].connected
        /\ session'[s].request = session[s].request
        /\ session'[s].device = session[s].device
        /\ session'[s].technician = session[s].technician
        /\ \A x \in Sessions \ {s} : session'[x] = session[x]
    BY <1>1, <2>1 DEF TypeOK, SessionRow, LiveSessionStatuses
  <2>5. LocksOK' /\ requestLock' \in [Requests -> Calls \cup {None}]
                 /\ sessionLock' \in [Sessions -> Calls \cup {None}]
    BY <1>1, <1>2, <2>2, <2>3, Unlocks DEF RequestHolding, SessionHolding
  <2>6. TypeOK'
    BY <1>1, <1>2, <2>3, <2>4, <2>5 DEF TypeOK
  <2>7. RowsOK'
    BY <1>1, <1>2, <2>4 DEF RowsOK, IsLive, LiveSessionStatuses
  <2>8. Consistent'
    BY <1>1, <1>2, <2>4 DEF Consistent, IsLive, LiveSessionStatuses
  <2>9. Exclusive'
    BY <1>1, <1>2, <2>4 DEF Exclusive, IsLive, LiveSessionStatuses
  <2>10. \A b \in Calls \ {c} : ArgumentsOK(b)' /\ TransactionOK(b)'
    <3>1. Evolve
      BY <1>1, <1>2, <2>4 DEF Evolve
    <3>2. \A b \in Calls \ {c} : Undisturbed(b)
      BY <1>1, <1>2, <2>4 DEF Undisturbed
    <3> QED
      BY <2>2, <2>3, <3>1, <3>2, Others
  <2>11. ArgumentsOK(c)' /\ TransactionOK(c)'
    BY <1>1, <2>2, <2>3, <2>4 DEF ArgumentsOK, TransactionOK, At
  <2> QED
    BY <2>5, <2>6, <2>7, <2>8, <2>9, <2>10, <2>11 DEF Inductive
<1> QED
  BY <1>3, <1>4

LEMMA CommitCloseStep ==
  ASSUME Inductive, NEW c \in Calls, CommitClose(c)
  PROVE  Inductive'
<1> DEFINE s == call[c].sess
           r == call[c].req
           k == [call[c] EXCEPT !.pc = "notifyClosed"]
<1>1. /\ TypeOK /\ RowsOK /\ LocksOK /\ Consistent /\ Exclusive
      /\ call[c] \in CallState /\ At(c, "commitClose")
      /\ s \in Sessions /\ sessionLock[s] = c /\ IsLive(session[s])
      /\ r \in Requests /\ requestLock[r] = c /\ request[r].status = "ACCEPTED"
      /\ session[s].request = r /\ call[c].end \in Ends
  BY DEF Inductive, TypeOK, CommitClose, LocksOK, SessionHolding, RequestHolding, At,
         TransactionOK, ArgumentsOK
<1>2. /\ session' = [session EXCEPT ![s].status = "CLOSED", ![s].endedBy = call[c].end]
      /\ request' = [request EXCEPT ![r].status = "COMPLETED"]
      /\ Become(c, k) /\ Unlock(c) /\ UNCHANGED <<online, sent, lost>>
  BY DEF CommitClose, Goto
<1>3. /\ k \in CallState /\ k.pc = "notifyClosed" /\ k.sess = s
      /\ k.end = call[c].end
  BY <1>1, PcType DEF CallState, Pcs, NotifyPcs
<1> HIDE DEF k
<1>4. /\ call' \in [Calls -> CallState]
      /\ call'[c] = k /\ \A b \in Calls \ {c} : call'[b] = call[b]
  BY <1>1, <1>2, <1>3, Moved
<1>5. /\ request' \in [Requests -> RequestRow]
      /\ request'[r].status = "COMPLETED"
      /\ request'[r].device = request[r].device
      /\ request'[r].technician = request[r].technician
      /\ \A q \in Requests \ {r} : request'[q] = request[q]
  BY <1>1, <1>2 DEF TypeOK, RequestRow, ActiveRequestStatuses, TerminalRequestStatuses
<1>6. /\ session' \in [Sessions -> SessionRow]
      /\ session'[s].status = "CLOSED" /\ session'[s].endedBy = call[c].end
      /\ session'[s].request = r
      /\ session'[s].device = session[s].device
      /\ session'[s].technician = session[s].technician
      /\ \A x \in Sessions \ {s} : session'[x] = session[x]
  <2>1. /\ session[s] \in SessionRow
        /\ session' = [session EXCEPT ![s] =
                        [session[s] EXCEPT !.status = "CLOSED", !.endedBy = call[c].end]]
    BY <1>1, <1>2 DEF TypeOK
  <2>2. [session[s] EXCEPT !.status = "CLOSED", !.endedBy = call[c].end] \in SessionRow
    BY <1>1, <2>1 DEF SessionRow
  <2> QED
    BY <1>1, <2>1, <2>2 DEF TypeOK, SessionRow
<1>7. LocksOK' /\ requestLock' \in [Requests -> Calls \cup {None}]
               /\ sessionLock' \in [Sessions -> Calls \cup {None}]
  BY <1>1, <1>2, <1>3, <1>4, Unlocks DEF RequestHolding, SessionHolding
<1>8. TypeOK'
  BY <1>1, <1>2, <1>4, <1>5, <1>6, <1>7 DEF TypeOK
<1>9. RowsOK'
  <2>1. session'[s].status = "CLOSED" /\ ~IsLive(session'[s]) /\ session'[s].endedBy \in Ends
    BY <1>1, <1>6 DEF IsLive, LiveSessionStatuses
  <2>2. /\ request'[r].status = "COMPLETED" /\ request'[r].device \in Devices
        /\ request'[r].technician \in Technicians
    BY <1>1, <1>5 DEF RowsOK
  <2> QED
    BY <1>1, <1>5, <1>6, <2>1, <2>2 DEF RowsOK
<1>10. Consistent'
  <2>1. ~IsLive(session'[s])
    BY <1>6 DEF IsLive, LiveSessionStatuses
  <2>2. \A x \in Sessions \ {s} : session[x].status # "ABSENT" =>
           session[x].request # r
    BY <1>1 DEF Exclusive, IsLive, LiveSessionStatuses
  <2>3. ASSUME NEW x \in Sessions, session'[x].status # "ABSENT"
        PROVE  /\ session'[x].request \in Requests
               /\ session'[x].device = request'[session'[x].request].device
               /\ session'[x].technician = request'[session'[x].request].technician
               /\ request'[session'[x].request].status =
                    IF IsLive(session'[x]) THEN "ACCEPTED" ELSE "COMPLETED"
    <3>1. CASE x = s
      BY <1>1, <1>5, <1>6, <2>1, <3>1 DEF Consistent, IsLive, LiveSessionStatuses
    <3>2. CASE x # s
      BY <1>1, <1>5, <1>6, <2>2, <2>3, <3>2 DEF Consistent
    <3> QED
      BY <3>1, <3>2
  <2>4. ASSUME NEW q \in Requests, request'[q].status = "COMPLETED"
        PROVE  \E x \in Sessions : session'[x].request = q /\ session'[x].status = "CLOSED"
    <3>1. CASE q = r
      BY <1>1, <1>6, <3>1
    <3>2. CASE q # r
      BY <1>1, <1>5, <1>6, <2>4, <3>2 DEF Consistent
    <3> QED
      BY <3>1, <3>2
  <2> QED
    BY <2>3, <2>4 DEF Consistent, IsLive
<1>11. Exclusive'
  BY <1>1, <1>5, <1>6
  DEF Exclusive, IsLive, LiveSessionStatuses, IsActive, ActiveRequestStatuses
<1>12. \A b \in Calls \ {c} : ArgumentsOK(b)' /\ TransactionOK(b)'
  <2>1. Evolve
    BY <1>1, <1>5, <1>6 DEF Evolve, IsLive, LiveSessionStatuses
  <2>2. \A b \in Calls \ {c} : Undisturbed(b)
    BY <1>1, <1>5, <1>6 DEF Undisturbed
  <2> QED
    BY <1>3, <1>4, <2>1, <2>2, Others
<1>13. ArgumentsOK(c)' /\ TransactionOK(c)'
  BY <1>1, <1>3, <1>4, <1>6 DEF ArgumentsOK, TransactionOK, At
<1> QED
  BY <1>7, <1>8, <1>9, <1>10, <1>11, <1>12, <1>13 DEF Inductive

-----------------------------------------------------------------------------
(* create: the INSERT, and its COMMIT.                                     *)

LEMMA NewSessionOwners ==
  ASSUME NEW c \in Calls
  PROVE  /\ NewSession(c).status = "CONNECTING"
         /\ NewSession(c).request = call[c].req
         /\ NewSession(c).device = request[call[c].req].device
         /\ NewSession(c).technician = call[c].actor
         /\ NewSession(c).connected = FALSE
         /\ NewSession(c).endedBy = None
  BY DEF NewSession, ConnectingSession

\* The rows the unique indexes see: committed ones, and those about to be.
LEMMA IndexedRows ==
  ASSUME Inductive
  PROVE  /\ \A s \in Sessions : IsLive(session[s]) => IndexedSession(s) = session[s]
         /\ \A b \in Calls : At(b, "commitCreate") =>
              call[b].sess \in Sessions /\ IndexedSession(call[b].sess) = NewSession(b)
<1>1. ASSUME NEW s \in Sessions, IsLive(session[s])
      PROVE  IndexedSession(s) = session[s]
  <2>1. ASSUME NEW b \in SessionWriter(s), At(b, "commitCreate") PROVE FALSE
    <3>1. b \in Calls /\ sessionLock[s] = b /\ TransactionOK(b) /\ LocksOK
      BY DEF Inductive, SessionWriter
    <3>2. call[b].sess = s
      BY <1>1, <3>1, CallsAreNotNone DEF LocksOK
    <3> QED
      BY <1>1, <2>1, <3>1, <3>2 DEF TransactionOK, IsLive, LiveSessionStatuses
  <2> QED
    BY <2>1 DEF IndexedSession
<1>2. ASSUME NEW b \in Calls, At(b, "commitCreate")
      PROVE  call[b].sess \in Sessions /\ IndexedSession(call[b].sess) = NewSession(b)
  <2>1. call[b].sess \in Sessions /\ sessionLock[call[b].sess] = b
    BY <1>2 DEF Inductive, LocksOK, SessionHolding, At
  <2>2. b \in SessionWriter(call[b].sess)
    BY <1>2, <2>1 DEF SessionWriter, At
  <2> QED
    BY <1>2, <2>1, <2>2 DEF IndexedSession
<1> QED
  BY <1>1, <1>2

LEMMA CreateInsertStep ==
  ASSUME Inductive, NEW c \in Calls, CreateInsert(c)
  PROVE  Inductive'
<1> DEFINE r == call[c].req
           t == call[c].actor
<1>1. /\ TypeOK /\ RowsOK /\ LocksOK /\ Consistent /\ Exclusive
      /\ call[c] \in CallState /\ At(c, "createInsert") /\ TransactionOK(c)
      /\ r \in Requests /\ request[r].status = "ACCEPTED"
      /\ request[r].technician = t /\ NoSessionOf(r)
  BY DEF Inductive, TypeOK, CreateInsert, LocksOK, RequestHolding, At, TransactionOK
<1>2. UNCHANGED tables /\ UNCHANGED <<requestLock, online, sent, lost>>
  BY DEF CreateInsert, tables
<1>3. CASE Colliding(c) # {}
  <2> DEFINE k == [call[c] EXCEPT !.pc = "rollback"]
  <2>1. Become(c, k) /\ UNCHANGED sessionLock
    BY <1>3 DEF CreateInsert, Goto
  <2>2. k \in CallState /\ k.pc = "rollback" /\ k.req = r /\ k.sess = call[c].sess
    BY <1>1, PcType DEF CallState, Pcs
  <2> HIDE DEF k
  <2>3. call'[c] = k /\ \A b \in Calls \ {c} : call'[b] = call[b]
    BY <1>1, <2>1, <2>2, Moved
  <2>4. KeepsRequest(c) /\ KeepsSession(c)
    BY <1>1, <1>2, <2>1, <2>2, <2>3
    DEF KeepsRequest, KeepsSession, RequestHolding, SessionHolding, At
  <2>5. LocksOK'
    BY <1>1, <2>3, <2>4, Locks
  <2>6. ArgumentsOK(c)' /\ TransactionOK(c)'
    BY <2>2, <2>3 DEF ArgumentsOK, TransactionOK, At
  <2> QED
    BY <1>1, <1>2, <2>1, <2>2, <2>5, <2>6, Quiet DEF TypeOK
<1>4. ASSUME NEW s \in Sessions, Colliding(c) = {}, session[s].status = "ABSENT",
             sessionLock[s] = None, LockSession(c, s),
             Become(c, [call[c] EXCEPT !.pc = "commitCreate", !.sess = s])
      PROVE  Inductive'
  <2> DEFINE k == [call[c] EXCEPT !.pc = "commitCreate", !.sess = s]
  <2>1. /\ k \in CallState /\ k.pc = "commitCreate" /\ k.req = r
        /\ k.sess = s /\ k.actor = t
    BY <1>1 DEF CallState, Pcs, RequestHolding
  <2> HIDE DEF k
  <2>2. /\ call' \in [Calls -> CallState]
        /\ call'[c] = k /\ \A b \in Calls \ {c} : call'[b] = call[b]
    BY <1>1, <1>4, <2>1, Moved DEF k
  <2>3. TypeOK'
    BY <1>1, <1>2, <1>4, <2>2 DEF TypeOK, LockSession, tables
  <2>4. LocksOK'
    <3>1. KeepsRequest(c)
      BY <1>1, <1>2, <2>1, <2>2 DEF KeepsRequest, RequestHolding, At
    <3>2. TakesSession(c)
      BY <1>1, <1>4, <2>1, <2>2 DEF TakesSession, LockSession, SessionHolding, At
    <3> QED
      BY <1>1, <2>2, <3>1, <3>2, Locks
  \* The index of live technicians has let the row in.
  <2>5. /\ \A x \in Sessions : IsLive(session[x]) => session[x].technician # t
        /\ \A b \in Calls \ {c} : At(b, "commitCreate") => call[b].actor # t
    <3>1. \A x \in Sessions : IsLive(IndexedSession(x)) =>
             IndexedSession(x).technician # t
      BY <1>4, NewSessionOwners
      DEF Colliding, SameLiveTechnician, IsLive, LiveSessionStatuses
    <3>2. \A x \in Sessions : IsLive(session[x]) => session[x].technician # t
      BY <3>1, IndexedRows
    <3>3. ASSUME NEW b \in Calls, At(b, "commitCreate") PROVE call[b].actor # t
      <4>1. /\ call[b].sess \in Sessions
            /\ IndexedSession(call[b].sess).technician = call[b].actor
            /\ IsLive(IndexedSession(call[b].sess))
        BY <3>3, IndexedRows, NewSessionOwners DEF IsLive, LiveSessionStatuses
      <4> QED
        BY <3>1, <4>1
    <3> QED
      BY <3>2, <3>3
  <2>6. ArgumentsOK(c)' /\ TransactionOK(c)'
    <3>1. ArgumentsOK(c)'
      BY <2>1, <2>2 DEF ArgumentsOK, At
    <3>2. \A b \in Calls \ {c} : At(b, "commitCreate")' => call'[b].actor # call'[c].actor
      BY <2>1, <2>2, <2>5 DEF At
    <3>3. TransactionOK(c)'
      BY <1>1, <1>2, <1>4, <2>1, <2>2, <2>5, <3>2
      DEF TransactionOK, NoSessionOf, tables, At
    <3> QED
      BY <3>1, <3>3
  <2>7. ASSUME NEW b \in Calls \ {c} PROVE ArgumentsOK(b)' /\ TransactionOK(b)'
    <3>1. ArgumentsOK(b) /\ TransactionOK(b) /\ call'[b] = call[b]
      BY <2>2 DEF Inductive
    <3>2. ArgumentsOK(b)'
      BY <1>2, <3>1 DEF ArgumentsOK, At, tables
    <3>3. At(b, "commitCreate") => \A a \in Calls \ {b} :
             At(a, "commitCreate")' => call'[a].actor # call'[b].actor
      BY <2>1, <2>2, <2>5, <3>1 DEF TransactionOK, At
    <3>4. TransactionOK(b)'
      BY <1>2, <3>1, <3>3 DEF TransactionOK, NoSessionOf, At, tables
    <3> QED
      BY <3>2, <3>4
  <2> QED
    BY <1>2, <2>3, <2>4, <2>6, <2>7, SameTables DEF Inductive
<1> QED
  BY <1>3, <1>4 DEF CreateInsert

LEMMA CommitCreateStep ==
  ASSUME Inductive, NEW c \in Calls, CommitCreate(c)
  PROVE  Inductive'
<1> DEFINE r == call[c].req
           s == call[c].sess
           t == call[c].actor
           k == [call[c] EXCEPT !.pc = "notifyCreated"]
<1>1. /\ TypeOK /\ RowsOK /\ LocksOK /\ Consistent /\ Exclusive
      /\ call[c] \in CallState /\ At(c, "commitCreate") /\ TransactionOK(c)
      /\ r \in Requests /\ request[r].status = "ACCEPTED"
      /\ request[r].technician = t /\ NoSessionOf(r) /\ requestLock[r] = c
      /\ s \in Sessions /\ session[s].status = "ABSENT" /\ sessionLock[s] = c
      /\ \A x \in Sessions : IsLive(session[x]) => session[x].technician # t
      /\ \A b \in Calls \ {c} : At(b, "commitCreate") => call[b].actor # t
  BY DEF Inductive, TypeOK, CommitCreate, LocksOK, RequestHolding, SessionHolding, At,
         TransactionOK
<1>2. /\ session' = [session EXCEPT ![s] = NewSession(c)]
      /\ Become(c, k) /\ Unlock(c) /\ UNCHANGED <<request, online, sent, lost>>
  BY DEF CommitCreate, Goto
<1>3. k \in CallState /\ k.pc = "notifyCreated" /\ k.sess = s
  BY <1>1, PcType DEF CallState, Pcs, NotifyPcs
<1> HIDE DEF k
<1>4. /\ call' \in [Calls -> CallState]
      /\ call'[c] = k /\ \A b \in Calls \ {c} : call'[b] = call[b]
  BY <1>1, <1>2, <1>3, Moved
<1>5. /\ request[r].device \in Devices /\ t \in Technicians
  BY <1>1 DEF RowsOK
<1>6. /\ NewSession(c) \in SessionRow
      /\ session' \in [Sessions -> SessionRow]
      /\ session'[s].status = "CONNECTING" /\ session'[s].connected = FALSE
      /\ session'[s].request = r
      /\ session'[s].device = request[r].device
      /\ session'[s].technician = t
      /\ \A x \in Sessions \ {s} : session'[x] = session[x]
  <2>1. NewSession(c) \in SessionRow
    BY <1>1, <1>5 DEF NewSession, ConnectingSession, SessionRow, LiveSessionStatuses
  <2> QED
    BY <1>1, <1>2, <2>1, NewSessionOwners DEF TypeOK
<1>7. LocksOK' /\ requestLock' \in [Requests -> Calls \cup {None}]
               /\ sessionLock' \in [Sessions -> Calls \cup {None}]
  BY <1>1, <1>2, <1>3, <1>4, Unlocks DEF RequestHolding, SessionHolding
<1>8. TypeOK'
  BY <1>1, <1>2, <1>4, <1>6, <1>7 DEF TypeOK
<1>9. RowsOK'
  BY <1>1, <1>2, <1>6 DEF RowsOK, IsLive, LiveSessionStatuses
<1>10. Consistent'
  BY <1>1, <1>2, <1>6 DEF Consistent, IsLive, LiveSessionStatuses, NoSessionOf
\* A live session of the device would be a session of another ACCEPTED request
\* of the same device.
<1>11. Exclusive'
  <2>1. \A x \in Sessions : IsLive(session[x]) => session[x].device # request[r].device
    BY <1>1 DEF Consistent, Exclusive, IsActive, ActiveRequestStatuses, NoSessionOf,
                IsLive, LiveSessionStatuses
  <2>2. ASSUME NEW x \in Sessions, NEW y \in Sessions, x # y, session'[x].status # "ABSENT"
        PROVE  /\ session'[x].request # session'[y].request
               /\ IsLive(session'[x]) /\ IsLive(session'[y]) =>
                    /\ session'[x].device # session'[y].device
                    /\ session'[x].technician # session'[y].technician
    <3>1. CASE x = s
      BY <1>1, <1>6, <2>1, <2>2, <3>1 DEF NoSessionOf
    <3>2. CASE y = s
      BY <1>1, <1>6, <2>1, <2>2, <3>2 DEF NoSessionOf
    <3>3. CASE x # s /\ y # s
      BY <1>1, <1>6, <2>2, <3>3 DEF Exclusive
    <3> QED
      BY <3>1, <3>2, <3>3
  <2> QED
    BY <1>1, <1>2, <2>2 DEF Exclusive, IsActive, IsLive
<1>12. ASSUME NEW b \in Calls \ {c} PROVE ArgumentsOK(b)' /\ TransactionOK(b)'
  <2>1. ArgumentsOK(b) /\ TransactionOK(b) /\ call'[b] = call[b]
    BY <1>4 DEF Inductive
  <2>2. /\ call[b].pc \in RequestHolding => call[b].req # r
        /\ call[b].pc \in SessionHolding => call[b].sess \in Sessions \ {s}
    BY <1>1 DEF LocksOK
  <2>3. ArgumentsOK(b)'
    <3>1. call[b].pc \in {"activateLock", "closeUpdate", "notifyCreated",
                          "notifyActivated", "notifyClosed"} =>
            session'[call[b].sess].status # "ABSENT"
      BY <1>1, <1>6, <2>1 DEF ArgumentsOK
    <3>2. call[b].pc \in {"closeUpdate", "closeComplete", "commitClose"} =>
            session'[call[b].sess].request = call[b].req
      BY <1>1, <1>6, <2>1, <2>2 DEF ArgumentsOK, SessionHolding
    <3> QED
      BY <1>2, <2>1, <3>1, <3>2 DEF ArgumentsOK, At
  <2>4. TransactionOK(b)'
    <3>1. call[b].pc \in RequestHolding /\ NoSessionOf(call[b].req) =>
            NoSessionOf(call[b].req)'
      BY <1>6, <2>1, <2>2 DEF NoSessionOf
    <3>2. call[b].pc \in SessionHolding => session'[call[b].sess] = session[call[b].sess]
      BY <1>6, <2>2
    <3>3. At(b, "commitCreate") =>
            /\ \A x \in Sessions :
                 IsLive(session'[x]) => session'[x].technician # call'[b].actor
            /\ \A a \in Calls \ {b} :
                 At(a, "commitCreate")' => call'[a].actor # call'[b].actor
      BY <1>1, <1>3, <1>4, <1>6, <2>1 DEF TransactionOK, At
    <3> QED
      BY <1>2, <2>1, <3>1, <3>2, <3>3 DEF TransactionOK, At, RequestHolding, SessionHolding
  <2> QED
    BY <2>3, <2>4
<1>13. ArgumentsOK(c)' /\ TransactionOK(c)'
  BY <1>1, <1>3, <1>4, <1>6 DEF ArgumentsOK, TransactionOK, At
<1> QED
  BY <1>7, <1>8, <1>9, <1>10, <1>11, <1>12, <1>13 DEF Inductive

-----------------------------------------------------------------------------
(* The tails of the handlers, and what happens around the calls.           *)

LEMMA NoticesType ==
  ASSUME Inductive, NEW c \in Calls
  PROVE  NoticesOf(c) \in SUBSET Notice
<1>1. ArgumentsOK(c)
  BY DEF Inductive
<1>2. CASE call[c].pc \in {"notifyOpened", "notifyAccepted", "notifyRejected",
                           "notifyCancelled", "notifyAssigned"}
  <2>1. call[c].req \in Requests
    BY <1>1, <1>2 DEF ArgumentsOK
  <2>2. \A e \in {"queue-updated", "request-updated", "assigned"},
           status \in {"WAITING", "ASSIGNED", "ACCEPTED", "REJECTED", "CANCELLED"} :
          <<e, call[c].req, status>> \in Notice
    BY <2>1 DEF Notice, ActiveRequestStatuses, TerminalRequestStatuses
  <2>3. CancelNotice(c) \in Notice
    BY <2>2 DEF CancelNotice
  <2> QED
    BY <1>2, <2>2, <2>3 DEF NoticesOf, At
<1>3. CASE call[c].pc \in {"notifyCreated", "notifyActivated", "notifyClosed"}
  <2>1. call[c].sess \in Sessions
    BY <1>1, <1>3 DEF ArgumentsOK
  <2>2. \A e \in {"created", "active", "closed"}, end \in Ends :
          <<e, call[c].sess, end>> \in Notice
    BY <2>1 DEF Notice
  <2>3. OtherEnd(call[c].end) \in Ends
    BY DEF OtherEnd, Ends
  <2> QED
    BY <1>3, <2>2, <2>3 DEF NoticesOf, At, ActiveNotices, Ends
<1>4. CASE call[c].pc \notin {"notifyOpened", "notifyAccepted", "notifyRejected",
                              "notifyCancelled", "notifyAssigned", "notifyCreated",
                              "notifyActivated", "notifyClosed"}
  BY <1>4 DEF NoticesOf, At
<1> QED
  BY <1>2, <1>3, <1>4

\* A handler that ends, having announced all or part of what it had to.
LEMMA AnsweredStep ==
  ASSUME Inductive, NEW c \in Calls, call[c].pc \in NotifyPcs,
         Answered(c) \/ Failed(c),
         NEW D \in SUBSET NoticesOf(c), Announced(c, D),
         UNCHANGED <<tables, locks, online>>
  PROVE  Inductive'
<1>1. TypeOK /\ LocksOK
  BY DEF Inductive
<1>2. PICK k \in CallState : k.pc \in FreePcs /\ Become(c, k)
  BY NoCallType, PcType DEF Answered, Failed, FreePcs, Pcs, NoCall, CallState
<1>3. call'[c] = k /\ \A b \in Calls \ {c} : call'[b] = call[b]
  BY <1>1, <1>2, Moved
<1>4. LocksOK'
  <2>1. KeepsRequest(c) /\ KeepsSession(c)
    BY <1>2, <1>3 DEF KeepsRequest, KeepsSession, RequestHolding, SessionHolding,
                      NotifyPcs, FreePcs, locks
  <2> QED
    BY <1>1, <1>3, <2>1, Locks
<1>5. ArgumentsOK(c)' /\ TransactionOK(c)'
  BY <1>2, <1>3 DEF ArgumentsOK, TransactionOK, At, FreePcs
<1>6. sent' \in SUBSET Notice /\ lost' \in SUBSET Notice
  BY <1>1, NoticesType DEF TypeOK, Announced
<1> QED
  BY <1>1, <1>2, <1>4, <1>5, <1>6, Quiet DEF TypeOK, locks, FreePcs

LEMMA DeliveredNotices ==
  ASSUME NEW N
  PROVE  Delivered(N) \subseteq SUBSET N
  BY DEF Delivered

LEMMA NotifyStep ==
  ASSUME Inductive, NEW c \in Calls,
         \/ NotifyOpened(c) \/ NotifyAnswered(c) \/ NotifyCancelled(c) \/ NotifyAssigned(c)
         \/ NotifyCreated(c) \/ NotifyActivated(c) \/ NotifyClosed(c)
  PROVE  Inductive'
<1>1. call[c].pc \in NotifyPcs
  BY DEF NotifyOpened, NotifyAnswered, NotifyCancelled, NotifyAssigned, NotifyCreated,
         NotifyActivated, NotifyClosed, At, NotifyPcs
<1>2. EmitCaught(c) \/ EmitUncaught(c) \/ NotifyAssigned(c)
  BY DEF NotifyOpened, NotifyAnswered, NotifyCancelled, NotifyCreated,
         NotifyActivated, NotifyClosed
<1>3. CASE EmitCaught(c)
  BY <1>1, <1>3, DeliveredNotices, AnsweredStep DEF EmitCaught
<1>4. CASE EmitUncaught(c)
  BY <1>1, <1>4, DeliveredNotices, AnsweredStep DEF EmitUncaught
<1>5. CASE NotifyAssigned(c)
  <2>1. UNCHANGED <<tables, locks, online>>
    BY <1>5 DEF NotifyAssigned
  <2>2. PICK D \in Delivered(NoticesOf(c)) :
             \/ Announced(c, D) /\ Answered(c)
             \/ Announced(c, {}) /\ Failed(c)
    BY <1>5 DEF NotifyAssigned
  <2>3. CASE Announced(c, D) /\ Answered(c)
    BY <1>1, <2>1, <2>3, DeliveredNotices, AnsweredStep
  <2>4. CASE Announced(c, {}) /\ Failed(c)
    BY <1>1, <2>1, <2>4, AnsweredStep
  <2> QED
    BY <2>2, <2>3, <2>4
<1> QED
  BY <1>2, <1>3, <1>4, <1>5

\* A call that fails where it was: its locks go, the tables stay.
LEMMA QueryFailsStep ==
  ASSUME Inductive, NEW c \in Calls, QueryFails(c)
  PROVE  Inductive'
<1> DEFINE k == [NoCall EXCEPT !.pc = "failed"]
<1>1. TypeOK /\ LocksOK
  BY DEF Inductive
<1>2. k \in CallState /\ k.pc = "failed"
  BY NoCallType, PcType DEF Pcs, FreePcs, NoCall
<1>3. Become(c, k) /\ UNCHANGED tables
  BY DEF QueryFails, Failed, tables
<1>4. call'[c] = k /\ \A b \in Calls \ {c} : call'[b] = call[b]
  BY <1>1, <1>2, <1>3, Moved
<1> HIDE DEF k
<1>5. /\ LocksOK'
      /\ requestLock' \in [Requests -> Calls \cup {None}]
      /\ sessionLock' \in [Sessions -> Calls \cup {None}]
  BY <1>1, <1>2, <1>4, Unlocks DEF QueryFails, RequestHolding, SessionHolding
<1>6. ArgumentsOK(c)' /\ TransactionOK(c)'
  BY <1>2, <1>4 DEF ArgumentsOK, TransactionOK, At
<1>7. lost' \in SUBSET Notice
  BY <1>1, NoticesType DEF TypeOK, QueryFails
<1> QED
  BY <1>1, <1>2, <1>3, <1>5, <1>6, <1>7, Quiet DEF TypeOK, QueryFails

LEMMA PresenceStep ==
  ASSUME Inductive, NEW d \in Devices, DeviceConnects(d) \/ DeviceDisconnects(d)
  PROVE  Inductive'
<1>1. /\ UNCHANGED <<request, session, requestLock, sessionLock, call, sent, lost>>
      /\ online' \in SUBSET Devices
  BY DEF Inductive, TypeOK, DeviceConnects, DeviceDisconnects, tables, locks
<1>2. TypeOK' /\ LocksOK'
  BY <1>1 DEF Inductive, TypeOK, LocksOK
<1>3. \A c \in Calls : ArgumentsOK(c)' /\ TransactionOK(c)'
  BY <1>1 DEF Inductive, ArgumentsOK, TransactionOK, At, NoSessionOf
<1> QED
  BY <1>1, <1>2, <1>3, SameTables DEF Inductive, tables

LEMMA CrashStep ==
  ASSUME Inductive, Crash
  PROVE  Inductive'
<1>1. NoCall.pc = "idle"
  BY DEF NoCall
<1>2. /\ UNCHANGED tables /\ UNCHANGED sent
      /\ call' = [c \in Calls |-> NoCall]
      /\ requestLock' = [r \in Requests |-> None]
      /\ sessionLock' = [s \in Sessions |-> None]
      /\ online' = {}
  BY DEF Crash, tables
<1>3. TypeOK'
  <2>1. lost' \in SUBSET Notice
    BY NoticesType DEF Inductive, TypeOK, Crash
  <2> QED
    BY <1>2, <2>1, NoCallType DEF Inductive, TypeOK, tables
<1>4. LocksOK'
  BY <1>1, <1>2 DEF LocksOK, RequestHolding, SessionHolding
<1>5. \A c \in Calls : ArgumentsOK(c)' /\ TransactionOK(c)'
  BY <1>1, <1>2 DEF ArgumentsOK, TransactionOK, At
<1> QED
  BY <1>2, <1>3, <1>4, <1>5, SameTables DEF Inductive

LEMMA StutterStep ==
  ASSUME Inductive, UNCHANGED vars
  PROVE  Inductive'
<1>1. UNCHANGED tables /\ TypeOK' /\ LocksOK'
  BY DEF Inductive, vars, tables, TypeOK, LocksOK
<1>2. \A c \in Calls : ArgumentsOK(c)' /\ TransactionOK(c)'
  BY DEF Inductive, vars, ArgumentsOK, TransactionOK, At, NoSessionOf
<1> QED
  BY <1>1, <1>2, SameTables DEF Inductive

LEMMA InitInductive ==
  ASSUME Init
  PROVE  Inductive
<1>1. NoCall.pc = "idle"
  BY DEF NoCall
<1>2. TypeOK
  BY NoCallType DEF Init, TypeOK, NoRequest, NoSession, RequestRow, SessionRow
<1>3. RowsOK
  BY DEF Init, RowsOK, NoRequest, NoSession, IsLive, LiveSessionStatuses
<1>4. LocksOK
  BY <1>1 DEF Init, LocksOK, RequestHolding, SessionHolding
<1>5. Consistent /\ Exclusive
  BY DEF Init, Consistent, Exclusive, NoRequest, NoSession, IsActive, ActiveRequestStatuses
<1>6. \A c \in Calls : ArgumentsOK(c) /\ TransactionOK(c)
  BY <1>1 DEF Init, ArgumentsOK, TransactionOK, At
<1> QED
  BY <1>2, <1>3, <1>4, <1>5, <1>6 DEF Inductive

LEMMA StartStep ==
  ASSUME Inductive, NEW c \in Calls, Start(c)
  PROVE  Inductive'
<1>1. ASSUME NEW d \in Devices, StartOpen(c, d) PROVE Inductive'
  BY <1>1, StartOpenStep
<1>2. ASSUME NEW d \in Devices, NEW r \in Requests,
             \/ StartAnswer(c, d, r, "acceptUpdate")
             \/ StartAnswer(c, d, r, "rejectUpdate")
             \/ StartCancel(c, d, r)
      PROVE  Inductive'
  BY <1>2, StartAcceptStep, StartRejectStep, StartCancelStep
<1>3. ASSUME NEW t \in Technicians, NEW r \in Requests,
             StartAssign(c, t, r) \/ StartCreate(c, t, r)
      PROVE  Inductive'
  BY <1>3, StartAssignStep, StartCreateStep
<1>4. ASSUME NEW t \in Technicians, NEW s \in Sessions, StartActivate(c, t, s)
      PROVE  Inductive'
  BY <1>4, StartActivateStep
<1>5. ASSUME NEW a \in Devices \cup Technicians, NEW s \in Sessions, NEW end \in Ends,
             StartClose(c, a, s, end)
      PROVE  Inductive'
  BY <1>5, StartCloseStep
<1> QED
  BY <1>1, <1>2, <1>3, <1>4, <1>5 DEF Start, Ends

LEMMA ContinueStep ==
  ASSUME Inductive, NEW c \in Calls, Continue(c)
  PROVE  Inductive'
<1>1. CASE OpenInsert(c)
  BY <1>1, OpenInsertStep
<1>2. CASE AcceptUpdate(c) \/ RejectUpdate(c)
  BY <1>2, AnswerUpdateStep DEF AcceptUpdate, RejectUpdate
<1>3. CASE CancelLock(c) \/ CancelCheck(c) \/ CancelUpdate(c) \/ CommitCancel(c)
  BY <1>3, CancelLockStep, CancelCheckStep, CancelUpdateStep, CommitCancelStep
<1>4. CASE AssignPresence(c) \/ AssignUpdate(c)
  BY <1>4, AssignPresenceStep, AssignUpdateStep
<1>5. CASE \/ CreateLock(c) \/ CreateCheck(c) \/ CreatePresence(c)
           \/ CreateInsert(c) \/ CommitCreate(c)
  BY <1>5, CreateLockStep, CreateCheckStep, CreatePresenceStep, CreateInsertStep,
     CommitCreateStep
<1>6. CASE ActivateLock(c) \/ ActivateUpdate(c) \/ CommitActivate(c)
  BY <1>6, ActivateLockStep, ActivateUpdateStep, CommitActivateStep
<1>7. CASE CloseUpdate(c) \/ CloseComplete(c) \/ CommitClose(c)
  BY <1>7, CloseUpdateStep, CloseCompleteStep, CommitCloseStep
<1>8. CASE Rollback(c)
  BY <1>8, RollbackStep
<1>9. CASE \/ NotifyOpened(c) \/ NotifyAnswered(c) \/ NotifyCancelled(c) \/ NotifyAssigned(c)
           \/ NotifyCreated(c) \/ NotifyActivated(c) \/ NotifyClosed(c)
  BY <1>9, NotifyStep
<1> QED
  BY <1>1, <1>2, <1>3, <1>4, <1>5, <1>6, <1>7, <1>8, <1>9 DEF Continue

LEMMA NextStep ==
  ASSUME Inductive, [Next]_vars
  PROVE  Inductive'
<1>1. ASSUME NEW c \in Calls, Start(c) \/ Continue(c) \/ QueryFails(c) PROVE Inductive'
  BY <1>1, StartStep, ContinueStep, QueryFailsStep
<1>2. ASSUME NEW d \in Devices, DeviceConnects(d) \/ DeviceDisconnects(d) PROVE Inductive'
  BY <1>2, PresenceStep
<1> QED
  BY <1>1, <1>2, CrashStep, StutterStep DEF Next, LivingNext

-----------------------------------------------------------------------------
(* What every behaviour satisfies.                                         *)

\* Inductive holds at all times: it is what the rest follows from.
THEOREM Invariance == Spec => []Inductive
<1>1. Init => Inductive
  BY InitInductive
<1>2. Inductive /\ [Next]_vars => Inductive'
  BY NextStep
<1> QED
  BY <1>1, <1>2, PTL DEF Spec

\* Rows, locks, calls and notices keep their types.
THEOREM TypeCorrectness == Spec => []TypeOK
<1>1. Inductive => TypeOK
  BY DEF Inductive
<1> QED
  BY <1>1, Invariance, PTL

\* The two tables never disagree: whatever races, a live session rests on an
\* ACCEPTED request, a CLOSED one on a COMPLETED request, a COMPLETED request
\* on a CLOSED session.
THEOREM TablesAgree == Spec => []Consistent
<1>1. Inductive => Consistent
  BY DEF Inductive
<1> QED
  BY <1>1, Invariance, PTL

\* Racing calls never both win: one active request per tablet, one session per
\* request, one live session per tablet and per technician.
THEOREM OneWinner == Spec => []Exclusive
<1>1. Inductive => Exclusive
  BY DEF Inductive
<1> QED
  BY <1>1, Invariance, PTL

\* In any group of calls somebody can go on: create waits for session rows with
\* the request locked and close the other way round, but never about the same
\* request, since create goes on to its INSERT only if the request has no session.
THEOREM DeadlockFreedom == Spec => []NoDeadlock
<1>1. Inductive => NoDeadlock
  <2> SUFFICES ASSUME Inductive, NEW group \in SUBSET Calls, group # {},
                      \A c \in group : WaitsFor(c) \cap group # {}
               PROVE  FALSE
    BY DEF NoDeadlock
  <2>1. LocksOK /\ \A c \in Calls : ArgumentsOK(c) /\ TransactionOK(c)
    BY DEF Inductive
  \* Whoever is waited for holds a lock, and so waits inside create or close.
  <2>2. ASSUME NEW c \in group, NEW b \in WaitsFor(c) \cap group
        PROVE  /\ call[b].pc \in {"createInsert", "closeComplete"}
               /\ At(c, "closeComplete") => At(b, "createInsert") /\ call[b].req = call[c].req
               /\ At(c, "createInsert") => At(b, "closeComplete")
    <3>1. PICK a \in group : a \in WaitsFor(b)
      BY <2>2
    <3>2. call[b].pc \notin FreePcs \cup NotifyPcs \cup
            {"rollback", "cancelCheck", "cancelUpdate", "commitCancel", "createCheck",
             "createPresence", "commitCreate", "activateUpdate", "commitActivate", "commitClose"}
      BY <3>1 DEF WaitsFor, At, FreePcs, NotifyPcs
    <3>3. CASE At(c, "openInsert")
      <4>1. b \in RequestInsertWaitsFor(call[c].actor)
        BY <2>2, <3>3 DEF WaitsFor, At
      <4>2. call[b].pc \in {"commitCancel", "commitClose"}
        BY <4>1 DEF RequestInsertWaitsFor, RequestWriter
      <4> QED
        BY <3>2, <4>2
    <3>4. CASE At(c, "createInsert")
      <4>1. b \in SessionInsertWaitsFor(c)
        BY <2>2, <3>4 DEF WaitsFor, At
      <4>2. call[b].pc \in {"closeComplete", "commitClose", "commitCreate", "commitActivate"}
        BY <4>1 DEF SessionInsertWaitsFor, SessionWriter, At
      <4> QED
        BY <3>2, <3>4, <4>2 DEF At
    <3>5. CASE call[c].pc \in {"cancelLock", "createLock", "acceptUpdate", "rejectUpdate",
                               "assignUpdate", "closeComplete"}
      <4>1. requestLock[call[c].req] = b
        BY <2>2, <3>5 DEF WaitsFor, At
      <4>2. call[c].req \in Requests
        <5>1. CASE At(c, "closeComplete")
          BY <2>1, <2>2, <5>1 DEF Inductive, LocksOK, ArgumentsOK, TransactionOK, At,
                                  SessionHolding, Consistent, IsLive, LiveSessionStatuses
        <5> QED
          BY <2>1, <3>5, <5>1 DEF ArgumentsOK, At
      <4>3. call[b].pc \in RequestHolding \cup {"rollback"} /\ call[b].req = call[c].req
        BY <2>1, <4>1, <4>2, CallsAreNotNone DEF LocksOK
      <4> QED
        BY <3>2, <3>5, <4>3 DEF RequestHolding, At
    <3>6. CASE call[c].pc \in {"activateLock", "closeUpdate"}
      <4>1. sessionLock[call[c].sess] = b /\ call[c].sess \in Sessions
        BY <2>1, <2>2, <3>6 DEF WaitsFor, At, ArgumentsOK
      <4>2. call[b].pc \in SessionHolding \cup {"rollback"}
        BY <2>1, <4>1, CallsAreNotNone DEF LocksOK
      <4> QED
        BY <3>2, <3>6, <4>2 DEF SessionHolding, At
    <3> QED
      BY <2>2, <3>3, <3>4, <3>5, <3>6 DEF WaitsFor, At
  <2>3. PICK a \in group : At(a, "closeComplete")
    <3>1. PICK c \in group, b \in group : b \in WaitsFor(c)
      OBVIOUS
    <3>2. call[b].pc \in {"createInsert", "closeComplete"}
      BY <2>2, <3>1
    <3>3. PICK d \in group : d \in WaitsFor(b)
      OBVIOUS
    <3> QED
      BY <2>2, <3>1, <3>2, <3>3 DEF At
  <2>4. PICK b \in group : At(b, "createInsert") /\ call[b].req = call[a].req
    BY <2>2, <2>3
  <2>5. NoSessionOf(call[a].req)
    BY <2>1, <2>4 DEF TransactionOK, At
  <2>6. call[a].sess \in Sessions /\ session[call[a].sess].request = call[a].req
    BY <2>1, <2>3 DEF LocksOK, ArgumentsOK, At, SessionHolding
  <2> QED
    BY <2>5, <2>6 DEF NoSessionOf
<1> QED
  BY <1>1, Invariance, PTL

\* The conditions the services test a second time under their locks always hold,
\* and of the three unique indexes of remote_sessions only the one on the
\* technician of a live session ever refuses a row.
THEOREM NetsStayUnused == Spec => []SafetyNetsUnused
<1>1. Inductive => SafetyNetsUnused
  <2> SUFFICES ASSUME Inductive, NEW c \in Calls
               PROVE  /\ At(c, "cancelUpdate") => IsActive(request[call[c].req])
                      /\ At(c, "activateUpdate") => session[call[c].sess].status = "CONNECTING"
                      /\ At(c, "closeComplete") => request[call[c].req].status = "ACCEPTED"
                      /\ At(c, "createInsert") => \A s \in Colliding(c) :
                           /\ ~SameRequest(NewSession(c), IndexedSession(s))
                           /\ ~SameLiveDevice(NewSession(c), IndexedSession(s))
    BY DEF SafetyNetsUnused
  <2>1. RowsOK /\ LocksOK /\ Consistent /\ Exclusive /\ ArgumentsOK(c) /\ TransactionOK(c)
    BY DEF Inductive
  <2>2. At(c, "closeComplete") => request[call[c].req].status = "ACCEPTED"
    BY <2>1 DEF LocksOK, ArgumentsOK, TransactionOK, At, SessionHolding, Consistent,
                IsLive, LiveSessionStatuses
  <2>3. ASSUME At(c, "createInsert"), NEW s \in Colliding(c)
        PROVE  /\ ~SameRequest(NewSession(c), IndexedSession(s))
               /\ ~SameLiveDevice(NewSession(c), IndexedSession(s))
    <3>1. /\ call[c].req \in Requests /\ NoSessionOf(call[c].req)
          /\ request[call[c].req].status = "ACCEPTED" /\ requestLock[call[c].req] = c
      BY <2>1, <2>3 DEF TransactionOK, LocksOK, At, RequestHolding
    <3>2. CASE \E b \in SessionWriter(s) : At(b, "commitCreate")
      <4>1. PICK b \in Calls : sessionLock[s] = b /\ At(b, "commitCreate")
        BY <3>2 DEF SessionWriter
      <4>2. /\ IndexedSession(s) = NewSession(b) /\ b # c
            /\ call[b].req \in Requests /\ requestLock[call[b].req] = b
            /\ request[call[b].req].status = "ACCEPTED"
        BY <2>3, <3>2, <4>1 DEF IndexedSession, Inductive, TransactionOK, LocksOK, At,
                                RequestHolding
      <4>3. call[b].req # call[c].req
        BY <3>1, <4>2
      <4>4. request[call[b].req].device # request[call[c].req].device
        BY <2>1, <3>1, <4>2, <4>3 DEF Exclusive, IsActive, ActiveRequestStatuses
      <4> QED
        BY <4>2, <4>3, <4>4, NewSessionOwners DEF SameRequest, SameLiveDevice
    <3>3. CASE ~\E b \in SessionWriter(s) : At(b, "commitCreate")
      <4>1. IndexedSession(s) = session[s] /\ s \in Sessions
        BY <3>3 DEF IndexedSession, Colliding
      <4>2. session[s].request # call[c].req
        BY <3>1, <4>1 DEF NoSessionOf
      <4>3. IsLive(session[s]) => session[s].device # request[call[c].req].device
        BY <2>1, <3>1, <4>1, <4>2
        DEF Consistent, Exclusive, IsActive, ActiveRequestStatuses, IsLive, LiveSessionStatuses
      <4> QED
        BY <4>1, <4>2, <4>3, NewSessionOwners DEF SameRequest, SameLiveDevice
    <3> QED
      BY <3>2, <3>3
  <2> QED
    BY <2>1, <2>2, <2>3 DEF TransactionOK, At
<1> QED
  BY <1>1, Invariance, PTL

-----------------------------------------------------------------------------
(* Every step does to the tables what one atomic step would, or nothing.   *)

\* The instance reads the rows as SupportSessions does.
LEMMA SameRows ==
  /\ Lifecycle!NoRequest = NoRequest /\ Lifecycle!NoSession = NoSession
  /\ Lifecycle!Ends = Ends
  /\ \A d : Lifecycle!WaitingRequest(d) = WaitingRequest(d)
  /\ \A q : Lifecycle!IsActive(q) = IsActive(q)
  /\ \A x : Lifecycle!IsLive(x) = IsLive(x)
  /\ \A r, d, t : Lifecycle!ConnectingSession(r, d, t) = ConnectingSession(r, d, t)
  BY DEF Lifecycle!NoRequest, NoRequest, Lifecycle!NoSession, NoSession,
         Lifecycle!Ends, Ends, Lifecycle!WaitingRequest, WaitingRequest,
         Lifecycle!IsActive, IsActive, Lifecycle!IsLive, IsLive,
         Lifecycle!ActiveRequestStatuses, ActiveRequestStatuses,
         Lifecycle!LiveSessionStatuses, LiveSessionStatuses,
         Lifecycle!ConnectingSession, ConnectingSession

LEMMA OpenInsertLifts ==
  ASSUME Inductive, NEW c \in Calls, OpenInsert(c)
  PROVE  [Lifecycle!Next]_Lifecycle!vars
<1>1. call[c].actor \in Devices /\ UNCHANGED session
  BY DEF Inductive, ArgumentsOK, OpenInsert
<1>2. ASSUME NEW r \in Requests, SameActiveDevice(call[c].actor) = {},
             request[r].status = "ABSENT",
             request' = [request EXCEPT ![r] = WaitingRequest(call[c].actor)]
      PROVE  Lifecycle!Open(call[c].actor, r)
  BY <1>1, <1>2, SameRows DEF Lifecycle!Open, SameActiveDevice
<1> QED
  BY <1>1, <1>2 DEF OpenInsert, Lifecycle!Next, Lifecycle!vars

LEMMA AnswerUpdateLifts ==
  ASSUME Inductive, NEW c \in Calls, AcceptUpdate(c) \/ RejectUpdate(c)
  PROVE  [Lifecycle!Next]_Lifecycle!vars
<1>1. PICK answer \in {"ACCEPTED", "REJECTED"} :
        \/ CanAnswer(call[c].req) /\ request' = [request EXCEPT ![call[c].req].status = answer]
        \/ UNCHANGED request
  BY DEF AcceptUpdate, RejectUpdate, AnswerUpdate
<1>2. call[c].req \in Requests /\ UNCHANGED session
  BY DEF Inductive, ArgumentsOK, AcceptUpdate, RejectUpdate, AnswerUpdate, At
<1> QED
  BY <1>1, <1>2 DEF CanAnswer, Lifecycle!Answer, Lifecycle!Next, Lifecycle!vars

LEMMA AssignUpdateLifts ==
  ASSUME Inductive, NEW c \in Calls, AssignUpdate(c)
  PROVE  [Lifecycle!Next]_Lifecycle!vars
<1>1. call[c].req \in Requests /\ call[c].actor \in Technicians /\ UNCHANGED session
  BY DEF Inductive, ArgumentsOK, AssignUpdate, At
<1> QED
  BY <1>1 DEF AssignUpdate, CanTake, Lifecycle!Take, Lifecycle!Next, Lifecycle!vars

LEMMA CommitCancelLifts ==
  ASSUME Inductive, NEW c \in Calls, CommitCancel(c)
  PROVE  [Lifecycle!Next]_Lifecycle!vars
<1>1. call[c].req \in Requests /\ IsActive(request[call[c].req]) /\ NoSessionOf(call[c].req)
  BY DEF Inductive, LocksOK, TransactionOK, RequestHolding, CommitCancel, At
<1>2. Lifecycle!Withdraw(call[c].req)
  BY <1>1, SameRows DEF CommitCancel, NoSessionOf, Lifecycle!Withdraw
<1> QED
  BY <1>1, <1>2 DEF Lifecycle!Next

LEMMA CommitCreateLifts ==
  ASSUME Inductive, NEW c \in Calls, CommitCreate(c)
  PROVE  [Lifecycle!Next]_Lifecycle!vars
<1> DEFINE r == call[c].req
           s == call[c].sess
<1>1. /\ r \in Requests /\ request[r].status = "ACCEPTED"
      /\ request[r].technician = call[c].actor /\ NoSessionOf(r)
      /\ s \in Sessions /\ session[s].status = "ABSENT"
      /\ \A x \in Sessions : IsLive(session[x]) => session[x].technician # call[c].actor
  BY DEF Inductive, LocksOK, TransactionOK, RequestHolding, SessionHolding, CommitCreate, At
<1>2. NewSession(c) = ConnectingSession(r, request[r].device, request[r].technician)
  BY <1>1 DEF NewSession
<1>3. Lifecycle!Begin(r, s)
  BY <1>1, <1>2, SameRows DEF CommitCreate, NoSessionOf, Lifecycle!Begin
<1> QED
  BY <1>1, <1>3 DEF Lifecycle!Next

LEMMA CommitActivateLifts ==
  ASSUME Inductive, NEW c \in Calls, CommitActivate(c)
  PROVE  [Lifecycle!Next]_Lifecycle!vars
<1>1. /\ call[c].sess \in Sessions
      /\ Activated(c) => session[call[c].sess].status = "CONNECTING"
  BY DEF Inductive, LocksOK, TransactionOK, SessionHolding, CommitActivate, Activated, At
<1>2. CASE Activated(c)
  <2>1. Lifecycle!Establish(call[c].sess)
    BY <1>1, <1>2 DEF CommitActivate, Lifecycle!Establish
  <2> QED
    BY <1>1, <2>1 DEF Lifecycle!Next
<1>3. CASE ~Activated(c)
  BY <1>3 DEF CommitActivate, Lifecycle!vars
<1> QED
  BY <1>2, <1>3

LEMMA CommitCloseLifts ==
  ASSUME Inductive, NEW c \in Calls, CommitClose(c)
  PROVE  [Lifecycle!Next]_Lifecycle!vars
<1>1. /\ call[c].sess \in Sessions /\ IsLive(session[call[c].sess])
      /\ session[call[c].sess].request = call[c].req /\ call[c].end \in Ends
  BY DEF Inductive, LocksOK, ArgumentsOK, TransactionOK, SessionHolding, CommitClose, At
<1>2. Lifecycle!Finish(call[c].sess, call[c].end)
  BY <1>1, SameRows DEF CommitClose, Lifecycle!Finish
<1> QED
  BY <1>1, <1>2, SameRows DEF Lifecycle!Next

LEMMA EveryStepLifts ==
  ASSUME Inductive, [Next]_vars
  PROVE  [Lifecycle!Next]_Lifecycle!vars
<1>1. CASE UNCHANGED tables
  BY <1>1 DEF tables, Lifecycle!vars
<1>2. CASE ~UNCHANGED tables
  <2>1. PICK c \in Calls :
          \/ OpenInsert(c) \/ AcceptUpdate(c) \/ RejectUpdate(c) \/ AssignUpdate(c)
          \/ CommitCancel(c) \/ CommitCreate(c) \/ CommitActivate(c) \/ CommitClose(c)
    <3>1. ASSUME NEW c \in Calls, Start(c) \/ QueryFails(c) PROVE UNCHANGED tables
      BY <3>1 DEF Start, StartOpen, StartAnswer, StartCancel, StartAssign, StartCreate,
                  StartActivate, StartClose, QueryFails
    <3>2. (\E d \in Devices : DeviceConnects(d) \/ DeviceDisconnects(d)) \/ Crash
            \/ UNCHANGED vars => UNCHANGED tables
      BY DEF DeviceConnects, DeviceDisconnects, Crash, vars, tables
    <3>3. ASSUME NEW c \in Calls, Continue(c)
          PROVE  \/ UNCHANGED tables
                 \/ OpenInsert(c) \/ AcceptUpdate(c) \/ RejectUpdate(c) \/ AssignUpdate(c)
                 \/ CommitCancel(c) \/ CommitCreate(c) \/ CommitActivate(c) \/ CommitClose(c)
      BY <3>3
      DEF Continue, NotifyOpened, NotifyAnswered, NotifyCancelled, NotifyAssigned,
          NotifyCreated, NotifyActivated, NotifyClosed, EmitCaught, EmitUncaught,
          CancelLock, CancelCheck, CancelUpdate, AssignPresence, CreateLock, CreateCheck,
          CreatePresence, CreateInsert,
          ActivateLock, ActivateUpdate, CloseUpdate, CloseComplete, Rollback
    <3> QED
      BY <1>2, <3>1, <3>2, <3>3 DEF Next, LivingNext
  <2> QED
    BY <2>1, OpenInsertLifts, AnswerUpdateLifts, AssignUpdateLifts, CommitCancelLifts,
       CommitCreateLifts, CommitActivateLifts, CommitCloseLifts
<1> QED
  BY <1>1, <1>2

\* The interleaved calls implement the atomic ones.
THEOREM Refinement == Spec => ImplementsLifecycle
<1>1. Init => Lifecycle!Init
  BY SameRows DEF Init, Lifecycle!Init
<1>2. Inductive /\ [Next]_vars => [Lifecycle!Next]_Lifecycle!vars
  BY EveryStepLifts
<1> QED
  BY <1>1, <1>2, Invariance, PTL DEF Spec, Lifecycle!Spec, ImplementsLifecycle

\* No call changes a terminal request or a closed session, nor takes back that
\* a session was connected.
THEOREM HistoryStays == Spec => HistoryIsKept
<1> DEFINE Kept ==
      /\ \A r \in Requests : request[r].status \in TerminalRequestStatuses
                               => request'[r] = request[r]
      /\ \A s \in Sessions :
           /\ session[s].status = "CLOSED" => session'[s] = session[s]
           /\ session[s].connected => session'[s].connected
<1>1. ASSUME Inductive, [Next]_vars PROVE Kept
  <2>1. TypeOK /\ Consistent /\ RowsOK /\ [Lifecycle!Next]_Lifecycle!vars
    BY <1>1, EveryStepLifts DEF Inductive
  <2>2. CASE UNCHANGED Lifecycle!vars
    BY <2>2 DEF Lifecycle!vars
  <2>3. ASSUME NEW d \in Devices, NEW r \in Requests, Lifecycle!Open(d, r) PROVE Kept
    BY <2>1, <2>3 DEF Lifecycle!Open, TypeOK, TerminalRequestStatuses
  <2>4. ASSUME NEW t \in Technicians, NEW r \in Requests, Lifecycle!Take(t, r) PROVE Kept
    BY <2>1, <2>4 DEF Lifecycle!Take, TypeOK, TerminalRequestStatuses
  <2>5. ASSUME NEW r \in Requests, NEW answer \in {"ACCEPTED", "REJECTED"},
               Lifecycle!Answer(r, answer)
        PROVE  Kept
    BY <2>1, <2>5 DEF Lifecycle!Answer, TypeOK, TerminalRequestStatuses
  <2>6. ASSUME NEW r \in Requests, Lifecycle!Withdraw(r) PROVE Kept
    BY <2>1, <2>6, SameRows
    DEF Lifecycle!Withdraw, TypeOK, TerminalRequestStatuses, IsActive, ActiveRequestStatuses
  <2>7. ASSUME NEW r \in Requests, NEW s \in Sessions, Lifecycle!Begin(r, s) PROVE Kept
    BY <2>1, <2>7 DEF Lifecycle!Begin, TypeOK, RowsOK, NoSession
  <2>8. ASSUME NEW s \in Sessions, Lifecycle!Establish(s) PROVE Kept
    BY <2>1, <2>8 DEF Lifecycle!Establish, TypeOK, SessionRow
  <2>9. ASSUME NEW s \in Sessions, NEW end \in Ends, Lifecycle!Finish(s, end) PROVE Kept
    <3>1. session[s].request \in Requests /\ request[session[s].request].status = "ACCEPTED"
      BY <2>1, <2>9, SameRows DEF Lifecycle!Finish, Consistent, IsLive, LiveSessionStatuses
    <3> QED
      BY <2>1, <2>9, <3>1, SameRows DEF Lifecycle!Finish, TypeOK, SessionRow, TerminalRequestStatuses,
                              IsLive, LiveSessionStatuses
  <2> QED
    BY <2>1, <2>2, <2>3, <2>4, <2>5, <2>6, <2>7, <2>8, <2>9, SameRows DEF Lifecycle!Next
<1>2. Inductive /\ [Next]_vars => [Kept]_vars
  BY <1>1
<1> QED
  BY <1>2, Invariance, PTL DEF Spec, HistoryIsKept

-----------------------------------------------------------------------------
(* What Signaling takes for granted of the rows.                           *)

LEMMA SignalingRows ==
  ASSUME NEW s \in Sessions
  PROVE  /\ seen[s].device = session[s].device
         /\ seen[s].technician = session[s].technician
         /\ seen[s].status = IF IsLive(session[s]) THEN "LIVE" ELSE session[s].status
  BY DEF seen, SignalingRow

\* Two live sessions of one tablet would be two active requests of it.
LEMMA NoRivalOfTablet ==
  ASSUME Consistent, Exclusive, NEW r \in Requests, request[r].status = "ACCEPTED",
         NEW x \in Sessions, IsLive(session[x]), session[x].request # r
  PROVE  session[x].device # request[r].device
<1>1. /\ session[x].request \in Requests
      /\ request[session[x].request].status = "ACCEPTED"
      /\ session[x].device = request[session[x].request].device
  BY DEF Consistent, IsLive, LiveSessionStatuses
<1> QED
  BY <1>1 DEF Exclusive, IsActive, ActiveRequestStatuses

LEMMA BeginOpens ==
  ASSUME Inductive, NEW r \in Requests, NEW s \in Sessions, Lifecycle!Begin(r, s)
  PROVE  \E d \in Devices, t \in Technicians : Seen!Opens(s, d, t)
<1> DEFINE d == request[r].device
           t == request[r].technician
           new == ConnectingSession(r, d, t)
<1>1. TypeOK /\ RowsOK /\ Consistent /\ Exclusive
  BY DEF Inductive
<1>2. /\ request[r].status = "ACCEPTED" /\ session[s].status = "ABSENT"
      /\ session' = [session EXCEPT ![s] = new]
      /\ \A x \in Sessions : IsLive(session[x]) =>
           session[x].request # r /\ session[x].technician # t
  BY SameRows DEF Lifecycle!Begin
<1>3. d \in Devices /\ t \in Technicians
  BY <1>1, <1>2 DEF RowsOK
<1>4. \A x \in Sessions : seen[x].status = "LIVE" =>
        seen[x].device # d /\ seen[x].technician # t
  <2> SUFFICES ASSUME NEW x \in Sessions, seen[x].status = "LIVE"
               PROVE  seen[x].device # d /\ seen[x].technician # t
    OBVIOUS
  <2>1. IsLive(session[x])
    BY <1>1, SignalingRows DEF TypeOK, SessionRow, IsLive, LiveSessionStatuses
  <2> QED
    BY <1>1, <1>2, <2>1, SignalingRows, NoRivalOfTablet
<1>5. seen[s].status = "ABSENT"
  BY <1>2, SignalingRows DEF IsLive, LiveSessionStatuses
<1>6. SignalingRow(new) = [status |-> "LIVE", device |-> d, technician |-> t]
  BY DEF SignalingRow, ConnectingSession, IsLive, LiveSessionStatuses
<1>7. seen' = [seen EXCEPT ![s] = [status |-> "LIVE", device |-> d, technician |-> t]]
  BY <1>1, <1>2, <1>6 DEF TypeOK, seen
<1>8. Seen!Opens(s, d, t)
  BY <1>4, <1>5, <1>7 DEF Seen!Opens
<1> QED
  BY <1>3, <1>8

LEMMA EstablishIsNotSeen ==
  ASSUME Inductive, NEW s \in Sessions, Lifecycle!Establish(s)
  PROVE  UNCHANGED seen
<1>1. session \in [Sessions -> SessionRow]
  BY DEF Inductive, TypeOK
<1>2. \A x \in Sessions : SignalingRow(session'[x]) = SignalingRow(session[x])
  BY <1>1 DEF Lifecycle!Establish, SignalingRow, IsLive, LiveSessionStatuses, SessionRow
<1> QED
  BY <1>2 DEF seen

LEMMA FinishCloses ==
  ASSUME Inductive, NEW s \in Sessions, NEW end \in Ends, Lifecycle!Finish(s, end)
  PROVE  Seen!Closes(s)
<1>1. session \in [Sessions -> SessionRow]
  BY DEF Inductive, TypeOK
<1>2. /\ IsLive(session[s])
      /\ session' = [session EXCEPT ![s].status = "CLOSED", ![s].endedBy = end]
  BY SameRows DEF Lifecycle!Finish
<1>3. seen[s].status = "LIVE"
  BY <1>2, SignalingRows
<1>4. SignalingRow(session'[s]) = [SignalingRow(session[s]) EXCEPT !.status = "CLOSED"]
  BY <1>1, <1>2 DEF SignalingRow, IsLive, LiveSessionStatuses, SessionRow
<1>5. seen' = [seen EXCEPT ![s].status = "CLOSED"]
  BY <1>1, <1>2, <1>4 DEF seen
<1> QED
  BY <1>3, <1>5 DEF Seen!Closes

\* A step of the calls opens a session, closes one or does neither, as far as the
\* signaling can see.
LEMMA RowSteps ==
  ASSUME Inductive, [Next]_vars
  PROVE  [Seen!Changes]_seen
<1>1. [Lifecycle!Next]_Lifecycle!vars
  BY EveryStepLifts
<1>2. UNCHANGED session => UNCHANGED seen
  BY DEF seen
<1>3. CASE UNCHANGED session
  BY <1>2, <1>3
<1>4. CASE ~UNCHANGED session
  <2>1. \/ \E r \in Requests, s \in Sessions : Lifecycle!Begin(r, s)
        \/ \E s \in Sessions : Lifecycle!Establish(s)
        \/ \E s \in Sessions, end \in Ends : Lifecycle!Finish(s, end)
    BY <1>1, <1>4, SameRows
    DEF Lifecycle!Next, Lifecycle!vars, Lifecycle!Open, Lifecycle!Take, Lifecycle!Answer,
        Lifecycle!Withdraw
  <2> QED
    BY <2>1, BeginOpens, EstablishIsNotSeen, FinishCloses DEF Seen!Changes
<1> QED
  BY <1>3, <1>4

\* Signaling reads the rows as expected: no session opens while its tablet or its
\* technician has another that is live, none changes its ends, none that is closed
\* comes back, however the calls, their failures and crashes interleave.
THEOREM RowsStayAsExpected == Spec => RowsAreAsExpected
<1>1. Inductive /\ [Next]_vars => [Seen!Changes]_seen
  BY RowSteps
<1> QED
  BY <1>1, Invariance, PTL DEF Spec, RowsAreAsExpected
=============================================================================
