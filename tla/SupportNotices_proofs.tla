----------------------- MODULE SupportNotices_proofs ------------------------
(***************************************************************************)
(* The notices of SupportSessions are true and new, and none is forgotten. *)
(* What the tables warrant only grows, and a commit announces exactly      *)
(* something that they did not warrant before: so it has neither been sent *)
(* nor is anybody else about to send it.  And what they call for grows by  *)
(* no more than the commit announces.                                      *)
(***************************************************************************)
EXTENDS SupportSessions_proofs

\* What has been sent, and what is about to be, is warranted; and new; and all
\* that the tables call for is accounted for.
NoticesInv ==
    /\ NoticesAreTrue
    /\ \A c \in Calls : NoticesOf(c) \subseteq Warranted
    /\ NoticesAreNew
    /\ NothingIsForgotten

-----------------------------------------------------------------------------
(* What is warranted only grows.                                           *)

\* A request and a session only ever go forward.
RequestGrows(r) ==
    /\ request[r].status # "ABSENT" => request'[r].status # "ABSENT"
    /\ request[r].technician # None => request'[r].technician # None
    /\ request[r].status = "ACCEPTED" =>
         \/ request'[r].status \in {"ACCEPTED", "COMPLETED"}
         \/ request'[r].status = "CANCELLED" /\ request'[r].technician # None
    /\ request[r].status \in TerminalRequestStatuses => request'[r] = request[r]

SessionGrows(s) ==
    /\ session[s].status # "ABSENT" => session'[s].status # "ABSENT"
    /\ session[s].connected => session'[s].connected
    /\ session[s].status = "CLOSED" => session'[s] = session[s]

LEMMA WarrantedGrows ==
  ASSUME \A r \in Requests : RequestGrows(r), \A s \in Sessions : SessionGrows(s)
  PROVE  Warranted \subseteq Warranted'
<1> SUFFICES ASSUME NEW n \in Warranted PROVE n \in Warranted'
  OBVIOUS
<1>1. CASE \E r \in Requests : n = <<"queue-updated", r, "WAITING">> /\ request[r].status # "ABSENT"
  BY <1>1 DEF Warranted, Due, RequestGrows
<1>2. CASE \E r \in Requests, e \in {"assigned", "queue-updated"} :
             n = <<e, r, "ASSIGNED">> /\ request[r].technician # None
  BY <1>2 DEF Warranted, Due, RequestGrows
<1>3. CASE \E r \in Requests : /\ n = <<"request-updated", r, "ACCEPTED">>
                               /\ \/ request[r].status \in {"ACCEPTED", "COMPLETED"}
                                  \/ request[r].status = "CANCELLED" /\ request[r].technician # None
  <2>1. PICK r \in Requests : /\ n = <<"request-updated", r, "ACCEPTED">>
                              /\ \/ request'[r].status \in {"ACCEPTED", "COMPLETED"}
                                 \/ request'[r].status = "CANCELLED" /\ request'[r].technician # None
    BY <1>3 DEF RequestGrows, TerminalRequestStatuses
  <2> QED BY <2>1 DEF Warranted, Due
<1>4. CASE \E r \in Requests : n = <<"request-updated", r, "REJECTED">> /\ request[r].status = "REJECTED"
  BY <1>4 DEF Warranted, Due, RequestGrows, TerminalRequestStatuses
<1>5. CASE \E r \in Requests :
             /\ n = <<IF request[r].technician = None THEN "queue-updated" ELSE "request-updated",
                      r, "CANCELLED">>
             /\ request[r].status = "CANCELLED"
  <2>1. PICK r \in Requests :
             /\ n = <<IF request'[r].technician = None THEN "queue-updated" ELSE "request-updated",
                      r, "CANCELLED">>
             /\ request'[r].status = "CANCELLED"
    BY <1>5 DEF RequestGrows, TerminalRequestStatuses
  <2> QED BY <2>1 DEF Warranted, Due
<1>6. CASE \E s \in Sessions : n = <<"created", s, "DEVICE">> /\ session[s].status # "ABSENT"
  BY <1>6 DEF Warranted, Due, SessionGrows
<1>7. CASE \E s \in Sessions, e \in Ends : n = <<"active", s, e>> /\ session[s].connected
  BY <1>7 DEF Warranted, Due, SessionGrows
<1>8. CASE \E s \in Sessions : n = <<"closed", s, OtherEnd(session[s].endedBy)>>
                               /\ session[s].status = "CLOSED"
  BY <1>8 DEF Warranted, Due, SessionGrows
<1>9. CASE n \in Due
  BY <1>1, <1>2, <1>3, <1>4, <1>5, <1>6, <1>7, <1>8, <1>9 DEF Due
<1>10. CASE n \notin Due
  BY <1>3, <1>10 DEF Warranted
<1> QED BY <1>9, <1>10

LEMMA StepsGrow ==
  ASSUME Inductive, [Next]_vars
  PROVE  Warranted \subseteq Warranted'
<1> DEFINE Grows == (\A r \in Requests : RequestGrows(r)) /\ (\A s \in Sessions : SessionGrows(s))
<1>1. TypeOK /\ Consistent /\ RowsOK /\ [Lifecycle!Next]_Lifecycle!vars
  BY EveryStepLifts DEF Inductive
<1>2. ASSUME UNCHANGED Lifecycle!vars PROVE Grows
  BY <1>2 DEF Lifecycle!vars, RequestGrows, SessionGrows
<1>3. ASSUME NEW d \in Devices, NEW r \in Requests, Lifecycle!Open(d, r) PROVE Grows
  BY <1>1, <1>3, SameRows
  DEF Lifecycle!Open, RequestGrows, SessionGrows, TypeOK, RowsOK, NoRequest,
      TerminalRequestStatuses
<1>4. ASSUME NEW t \in Technicians, NEW r \in Requests, Lifecycle!Take(t, r) PROVE Grows
  BY <1>1, <1>4, NoneIsNobody
  DEF Lifecycle!Take, RequestGrows, SessionGrows, TypeOK, TerminalRequestStatuses
<1>5. ASSUME NEW r \in Requests, NEW answer \in {"ACCEPTED", "REJECTED"},
             Lifecycle!Answer(r, answer)
      PROVE  Grows
  BY <1>1, <1>5 DEF Lifecycle!Answer, RequestGrows, SessionGrows, TypeOK, TerminalRequestStatuses
<1>6. ASSUME NEW r \in Requests, Lifecycle!Withdraw(r) PROVE Grows
  <2>1. /\ request[r].status \in ActiveRequestStatuses /\ UNCHANGED session
        /\ request' = [request EXCEPT ![r].status = "CANCELLED"]
    BY <1>6, SameRows DEF Lifecycle!Withdraw, IsActive
  <2>2. /\ \A q \in Requests \ {r} : request'[q] = request[q]
        /\ request'[r].status = "CANCELLED" /\ request'[r].technician = request[r].technician
    BY <1>1, <2>1 DEF TypeOK, RequestRow
  <2>3. request[r].status = "ACCEPTED" => request[r].technician # None
    BY <1>1, NoneIsNobody DEF RowsOK
  <2>4. \A q \in Requests : RequestGrows(q)
    BY <2>1, <2>2, <2>3 DEF RequestGrows, TerminalRequestStatuses, ActiveRequestStatuses
  <2> QED
    BY <2>1, <2>4 DEF SessionGrows
<1>7. ASSUME NEW r \in Requests, NEW s \in Sessions, Lifecycle!Begin(r, s) PROVE Grows
  BY <1>1, <1>7 DEF Lifecycle!Begin, RequestGrows, SessionGrows, TypeOK, RowsOK, NoSession
<1>8. ASSUME NEW s \in Sessions, Lifecycle!Establish(s) PROVE Grows
  BY <1>1, <1>8 DEF Lifecycle!Establish, RequestGrows, SessionGrows, TypeOK, SessionRow
<1>9. ASSUME NEW s \in Sessions, NEW end \in Ends, Lifecycle!Finish(s, end) PROVE Grows
  <2>1. session[s].request \in Requests /\ request[session[s].request].status = "ACCEPTED"
    BY <1>1, <1>9, SameRows DEF Lifecycle!Finish, Consistent, IsLive, LiveSessionStatuses
  <2>2. \A q \in Requests : RequestGrows(q)
    BY <1>1, <1>9, <2>1
    DEF Lifecycle!Finish, RequestGrows, TypeOK, RequestRow, TerminalRequestStatuses
  <2>3. \A x \in Sessions : SessionGrows(x)
    BY <1>1, <1>9, SameRows
    DEF Lifecycle!Finish, SessionGrows, TypeOK, SessionRow, IsLive, LiveSessionStatuses
  <2> QED
    BY <2>2, <2>3
<1> HIDE DEF Grows
<1>10. Grows
  BY <1>1, <1>2, <1>3, <1>4, <1>5, <1>6, <1>7, <1>8, <1>9, SameRows DEF Lifecycle!Next, Grows
<1> QED
  BY <1>10, WarrantedGrows DEF Grows

\* Where a row has not moved the tables call for nothing new, and where it has
\* the new notice is in N.
LEMMA DueGrowsBy ==
  ASSUME NEW N,
         \A r \in Requests :
           \/ request'[r] = request[r]
           \/ /\ <<"queue-updated", r, "WAITING">> \in N \/ request[r].status # "ABSENT"
              /\ \/ request'[r].technician = None \/ request[r].technician # None
                 \/ {<<"assigned", r, "ASSIGNED">>, <<"queue-updated", r, "ASSIGNED">>} \subseteq N
              /\ request'[r].status \in {"ACCEPTED", "COMPLETED"} =>
                   request[r].status = "ACCEPTED" \/ <<"request-updated", r, "ACCEPTED">> \in N
              /\ request'[r].status = "REJECTED" => <<"request-updated", r, "REJECTED">> \in N
              /\ request'[r].status = "CANCELLED" =>
                   <<IF request'[r].technician = None THEN "queue-updated" ELSE "request-updated",
                     r, "CANCELLED">> \in N,
         \A s \in Sessions :
           \/ session'[s] = session[s]
           \/ /\ <<"created", s, "DEVICE">> \in N \/ session[s].status # "ABSENT"
              /\ \/ ~session'[s].connected \/ session[s].connected
                 \/ \A e \in Ends : <<"active", s, e>> \in N
              /\ session'[s].status = "CLOSED" =>
                   <<"closed", s, OtherEnd(session'[s].endedBy)>> \in N
  PROVE  Due' \subseteq Due \cup N
<1> SUFFICES ASSUME NEW n \in Due' PROVE n \in Due \cup N
  OBVIOUS
<1>1. CASE \E r \in Requests : n = <<"queue-updated", r, "WAITING">> /\ request'[r].status # "ABSENT"
  <2>1. PICK r \in Requests : n = <<"queue-updated", r, "WAITING">> /\ request'[r].status # "ABSENT"
    BY <1>1
  <2>2. request[r].status # "ABSENT" \/ n \in N
    BY <2>1
  <2> QED
    BY <2>1, <2>2 DEF Due
<1>2. CASE \E r \in Requests, e \in {"assigned", "queue-updated"} :
             n = <<e, r, "ASSIGNED">> /\ request'[r].technician # None
  <2>1. PICK r \in Requests, e \in {"assigned", "queue-updated"} :
             n = <<e, r, "ASSIGNED">> /\ request'[r].technician # None
    BY <1>2
  <2>2. request[r].technician # None \/ n \in N
    BY <2>1
  <2> QED
    BY <2>1, <2>2 DEF Due
<1>3. CASE \E r \in Requests : /\ n = <<"request-updated", r, "ACCEPTED">>
                               /\ request'[r].status \in {"ACCEPTED", "COMPLETED"}
  <2>1. PICK r \in Requests : /\ n = <<"request-updated", r, "ACCEPTED">>
                              /\ request'[r].status \in {"ACCEPTED", "COMPLETED"}
    BY <1>3
  <2>2. request[r].status \in {"ACCEPTED", "COMPLETED"} \/ n \in N
    BY <2>1
  <2> QED
    BY <2>1, <2>2 DEF Due
<1>4. CASE \E r \in Requests : n = <<"request-updated", r, "REJECTED">> /\ request'[r].status = "REJECTED"
  <2>1. PICK r \in Requests : n = <<"request-updated", r, "REJECTED">> /\ request'[r].status = "REJECTED"
    BY <1>4
  <2>2. request[r].status = "REJECTED" \/ n \in N
    BY <2>1
  <2> QED
    BY <2>1, <2>2 DEF Due
<1>5. CASE \E r \in Requests :
             /\ n = <<IF request'[r].technician = None THEN "queue-updated" ELSE "request-updated",
                      r, "CANCELLED">>
             /\ request'[r].status = "CANCELLED"
  <2>1. PICK r \in Requests :
             /\ n = <<IF request'[r].technician = None THEN "queue-updated" ELSE "request-updated",
                      r, "CANCELLED">>
             /\ request'[r].status = "CANCELLED"
    BY <1>5
  <2>2. request'[r] = request[r] \/ n \in N
    BY <2>1
  <2> QED
    BY <2>1, <2>2 DEF Due
<1>6. CASE \E s \in Sessions : n = <<"created", s, "DEVICE">> /\ session'[s].status # "ABSENT"
  <2>1. PICK s \in Sessions : n = <<"created", s, "DEVICE">> /\ session'[s].status # "ABSENT"
    BY <1>6
  <2>2. session[s].status # "ABSENT" \/ n \in N
    BY <2>1
  <2> QED
    BY <2>1, <2>2 DEF Due
<1>7. CASE \E s \in Sessions, e \in Ends : n = <<"active", s, e>> /\ session'[s].connected
  <2>1. PICK s \in Sessions, e \in Ends : n = <<"active", s, e>> /\ session'[s].connected
    BY <1>7
  <2>2. session[s].connected \/ n \in N
    BY <2>1
  <2> QED
    BY <2>1, <2>2 DEF Due
<1>8. CASE \E s \in Sessions : n = <<"closed", s, OtherEnd(session'[s].endedBy)>>
                               /\ session'[s].status = "CLOSED"
  <2>1. PICK s \in Sessions : n = <<"closed", s, OtherEnd(session'[s].endedBy)>>
                               /\ session'[s].status = "CLOSED"
    BY <1>8
  <2>2. session'[s] = session[s] \/ n \in N
    BY <2>1
  <2> QED
    BY <2>1, <2>2 DEF Due
<1>9. \/ n \in {<<"queue-updated", r, "WAITING">> :
                 r \in {q \in Requests : request'[q].status # "ABSENT"}}
      \/ n \in {<<e, r, "ASSIGNED">> : e \in {"assigned", "queue-updated"},
                 r \in {q \in Requests : request'[q].technician # None}}
      \/ n \in {<<"request-updated", r, "ACCEPTED">> :
                 r \in {q \in Requests : request'[q].status \in {"ACCEPTED", "COMPLETED"}}}
      \/ n \in {<<"request-updated", r, "REJECTED">> :
                 r \in {q \in Requests : request'[q].status = "REJECTED"}}
      \/ n \in {<<IF request'[r].technician = None THEN "queue-updated" ELSE "request-updated",
                   r, "CANCELLED">> :
                 r \in {q \in Requests : request'[q].status = "CANCELLED"}}
      \/ n \in {<<"created", s, "DEVICE">> :
                 s \in {x \in Sessions : session'[x].status # "ABSENT"}}
      \/ n \in {<<"active", s, e>> : e \in Ends,
                 s \in {x \in Sessions : session'[x].connected}}
      \/ n \in {<<"closed", s, OtherEnd(session'[s].endedBy)>> :
                 s \in {x \in Sessions : session'[x].status = "CLOSED"}}
  BY DEF Due, OtherEnd
<1> QED
  BY <1>1, <1>2, <1>3, <1>4, <1>5, <1>6, <1>7, <1>8, <1>9

LEMMA SameDue ==
  ASSUME UNCHANGED tables
  PROVE  Due' = Due
  BY DEF tables, Due, OtherEnd

-----------------------------------------------------------------------------
(* What one step may do to the notices.                                    *)

\* A call announces only in the synchronous tail of its handler.
LEMMA NothingToSay ==
  ASSUME NEW c \in Calls, call[c].pc \notin NotifyPcs
  PROVE  NoticesOf(c) = {}
  BY DEF NoticesOf, NotifyPcs, At

\* The other calls have the same to say as before.
LEMMA OthersSay ==
  ASSUME NEW b \in Calls, call'[b] = call[b]
  PROVE  NoticesOf(b)' = NoticesOf(b)
  BY DEF NoticesOf, CancelNotice, ActiveNotices, At

\* A step that sends nothing, after which c announces what was not warranted
\* before.
LEMMA Announces ==
  ASSUME NoticesInv, Warranted \subseteq Warranted', UNCHANGED sent,
         NEW c \in Calls, \A b \in Calls \ {c} : call'[b] = call[b],
         NoticesOf(c)' \subseteq Warranted', NoticesOf(c)' \cap Warranted = {},
         NothingIsForgotten'
  PROVE  NoticesInv'
<1>1. \A b \in Calls \ {c} : NoticesOf(b)' = NoticesOf(b)
  BY OthersSay
<1>2. \A b \in Calls : NoticesOf(b) \subseteq Warranted
  BY DEF NoticesInv
<1>3. sent \subseteq Warranted
  BY DEF NoticesInv, NoticesAreTrue
<1>4. NoticesAreTrue'
  BY <1>3 DEF NoticesAreTrue
<1>5. \A b \in Calls : NoticesOf(b)' \subseteq Warranted'
  BY <1>1, <1>2
<1>6. \A b \in Calls : NoticesOf(b)' \cap sent' = {}
  BY <1>1, <1>3 DEF NoticesInv, NoticesAreNew
<1>7. \A a \in Calls : \A b \in Calls \ {a} : NoticesOf(a)' \cap NoticesOf(b)' = {}
  <2> SUFFICES ASSUME NEW a \in Calls, NEW b \in Calls \ {a}
               PROVE  NoticesOf(a)' \cap NoticesOf(b)' = {}
    OBVIOUS
  <2>1. CASE a # c /\ b # c
    BY <1>1, <2>1 DEF NoticesInv, NoticesAreNew
  <2>2. CASE a = c
    BY <1>1, <1>2, <2>2
  <2>3. CASE b = c
    BY <1>1, <1>2, <2>3
  <2> QED BY <2>1, <2>2, <2>3
<1> QED
  BY <1>4, <1>5, <1>6, <1>7 DEF NoticesInv, NoticesAreNew

\* c hands over some of its notices, or has none, and then has nothing to say.
LEMMA Emits ==
  ASSUME NoticesInv, Warranted \subseteq Warranted',
         NEW c \in Calls, \A b \in Calls \ {c} : call'[b] = call[b],
         call'[c].pc \notin NotifyPcs, sent' \subseteq sent \cup NoticesOf(c),
         NothingIsForgotten'
  PROVE  NoticesInv'
<1>1. \A b \in Calls \ {c} : NoticesOf(b)' = NoticesOf(b)
  BY OthersSay
<1>2. NoticesOf(c)' = {}
  BY DEF NoticesOf, NotifyPcs, At
<1>3. NoticesAreTrue'
  BY DEF NoticesInv, NoticesAreTrue
<1>4. \A b \in Calls : NoticesOf(b)' \subseteq Warranted'
  BY <1>1, <1>2 DEF NoticesInv
<1>5. NoticesAreNew'
  BY <1>1, <1>2 DEF NoticesInv, NoticesAreNew
<1> QED
  BY <1>3, <1>4, <1>5 DEF NoticesInv

-----------------------------------------------------------------------------
(* The actions.                                                            *)

\* Only the entry of c changes when c moves.
LEMMA OneMoves ==
  ASSUME TypeOK, NEW c \in Calls, NEW k, Become(c, k)
  PROVE  call'[c] = k /\ \A b \in Calls \ {c} : call'[b] = call[b]
  BY DEF TypeOK, Become

\* c moves on to a state with nothing to say, leaves the tables alone, says no
\* more than it had to, and what it does not say is lost.
Silently(c) ==
    /\ \A b \in Calls \ {c} : call'[b] = call[b]
    /\ call'[c].pc \notin NotifyPcs
    /\ UNCHANGED tables
    /\ sent' \subseteq sent \cup NoticesOf(c)
    /\ sent \cup lost \cup NoticesOf(c) \subseteq sent' \cup lost'

\* What c had nothing to say before is silent if it sends nothing.
LEMMA StillSilent ==
  ASSUME TypeOK, NEW c \in Calls, call[c].pc \notin NotifyPcs,
         NEW k, Become(c, k), k.pc \notin NotifyPcs, UNCHANGED <<tables, sent, lost>>
  PROVE  Silently(c)
  BY OneMoves, NothingToSay DEF Silently

LEMMA StartIsSilent ==
  ASSUME TypeOK, NEW c \in Calls, Start(c)
  PROVE  Silently(c)
<1>1. PICK k : Become(c, k) /\ k.pc \notin NotifyPcs /\ UNCHANGED <<tables, sent, lost>>
  <2>1. ASSUME NEW d \in Devices, StartOpen(c, d)
        PROVE  \E k : Become(c, k) /\ k.pc \notin NotifyPcs /\ UNCHANGED <<tables, sent, lost>>
    BY <2>1 DEF StartOpen, NoCall, NotifyPcs
  <2>2. ASSUME NEW d \in Devices, NEW r \in Requests,
               NEW pc \in {"acceptUpdate", "rejectUpdate"}, StartAnswer(c, d, r, pc)
        PROVE  \E k : Become(c, k) /\ k.pc \notin NotifyPcs /\ UNCHANGED <<tables, sent, lost>>
    BY <2>2 DEF StartAnswer, NoCall, NotifyPcs
  <2>3. ASSUME NEW d \in Devices, NEW r \in Requests, StartCancel(c, d, r)
        PROVE  \E k : Become(c, k) /\ k.pc \notin NotifyPcs /\ UNCHANGED <<tables, sent, lost>>
    BY <2>3 DEF StartCancel, NoCall, NotifyPcs
  <2>4. ASSUME NEW t \in Technicians, NEW r \in Requests, StartAssign(c, t, r) \/ StartCreate(c, t, r)
        PROVE  \E k : Become(c, k) /\ k.pc \notin NotifyPcs /\ UNCHANGED <<tables, sent, lost>>
    BY <2>4 DEF StartAssign, StartCreate, NoCall, NotifyPcs
  <2>5. ASSUME NEW t \in Technicians, NEW s \in Sessions, StartActivate(c, t, s)
        PROVE  \E k : Become(c, k) /\ k.pc \notin NotifyPcs /\ UNCHANGED <<tables, sent, lost>>
    BY <2>5 DEF StartActivate, NoCall, NotifyPcs
  <2>6. ASSUME NEW a, NEW s \in Sessions, NEW end, StartClose(c, a, s, end)
        PROVE  \E k : Become(c, k) /\ k.pc \notin NotifyPcs /\ UNCHANGED <<tables, sent, lost>>
    BY <2>6 DEF StartClose, NotifyPcs
  <2> QED BY <2>1, <2>2, <2>3, <2>4, <2>5, <2>6 DEF Start
<1>2. call[c].pc \notin NotifyPcs
  BY DEF Start, StartOpen, StartAnswer, StartCancel, StartAssign, StartCreate,
         StartActivate, StartClose, Free, FreePcs, NotifyPcs
<1> QED BY <1>1, <1>2, StillSilent

\* The steps of a call that neither commit nor emit.
Working(c) ==
    \/ CancelLock(c) \/ CancelCheck(c) \/ CancelUpdate(c)
    \/ AssignPresence(c)
    \/ CreateLock(c) \/ CreateCheck(c) \/ CreatePresence(c) \/ CreateInsert(c)
    \/ ActivateLock(c) \/ ActivateUpdate(c)
    \/ CloseUpdate(c) \/ CloseComplete(c) \/ Rollback(c)

LEMMA WorkIsSilent ==
  ASSUME TypeOK, NEW c \in Calls, Working(c)
  PROVE  Silently(c)
<1>0. call[c] \in CallState
  BY DEF TypeOK
<1>1. PICK k : Become(c, k) /\ k.pc \notin NotifyPcs /\ UNCHANGED <<tables, sent, lost>>
  <2>1. CASE CancelLock(c)
    BY <1>0, <2>1 DEF CancelLock, AfterCancelLock, CallState, NotifyPcs
  <2>2. CASE CancelCheck(c) \/ CancelUpdate(c)
    BY <1>0, <2>2 DEF CancelCheck, CancelUpdate, Goto, CallState, NotifyPcs
  <2>3. CASE CreateLock(c) \/ CreateCheck(c) \/ CreatePresence(c)
    BY <1>0, <2>3 DEF CreateLock, CreateCheck, CreatePresence, Goto, CallState, NotifyPcs
  <2>4. CASE CreateInsert(c)
    BY <1>0, <2>4 DEF CreateInsert, Goto, CallState, NotifyPcs
  <2>5. CASE ActivateLock(c)
    BY <1>0, <2>5 DEF ActivateLock, AfterActivateLock, CallState, NotifyPcs
  <2>6. CASE ActivateUpdate(c)
    BY <1>0, <2>6 DEF ActivateUpdate, Goto, CallState, NotifyPcs
  <2>7. CASE CloseUpdate(c) \/ CloseComplete(c) \/ Rollback(c)
    BY <1>0, <2>7 DEF CloseUpdate, CloseComplete, Rollback, Goto, Refused, NoCall, CallState, NotifyPcs
  <2>8. CASE AssignPresence(c)
    BY <1>0, <2>8 DEF AssignPresence, Goto, Refused, NoCall, CallState, NotifyPcs
  <2> QED BY <2>1, <2>2, <2>3, <2>4, <2>5, <2>6, <2>7, <2>8 DEF Working
<1>2. call[c].pc \notin NotifyPcs
  BY DEF Working, CancelLock, CancelCheck, CancelUpdate, AssignPresence, CreateLock, CreateCheck,
         CreatePresence, CreateInsert, ActivateLock, ActivateUpdate, CloseUpdate, CloseComplete,
         Rollback, At, NotifyPcs
<1> QED BY <1>1, <1>2, StillSilent

Notifying(c) ==
    \/ NotifyOpened(c) \/ NotifyAnswered(c) \/ NotifyCancelled(c) \/ NotifyAssigned(c)
    \/ NotifyCreated(c) \/ NotifyActivated(c) \/ NotifyClosed(c)

LEMMA DeliveredAreTheirs ==
  ASSUME NEW N, NEW D \in Delivered(N)
  PROVE  D \subseteq N
  BY DEF Delivered

LEMMA NotifyingIsSilentAfter ==
  ASSUME TypeOK, NEW c \in Calls, Notifying(c) \/ QueryFails(c)
  PROVE  Silently(c)
<1>0. NoCall.pc \notin NotifyPcs /\ [NoCall EXCEPT !.pc = "failed"].pc \notin NotifyPcs
  BY DEF NoCall, NotifyPcs
<1>1. PICK D \in SUBSET NoticesOf(c) :
        Announced(c, D) /\ (Answered(c) \/ Failed(c)) /\ UNCHANGED tables
  <2>1. CASE EmitCaught(c) \/ EmitUncaught(c)
    BY <2>1, DeliveredAreTheirs DEF EmitCaught, EmitUncaught
  <2>2. CASE NotifyAssigned(c)
    BY <2>2, DeliveredAreTheirs DEF NotifyAssigned
  <2>3. CASE QueryFails(c)
    <3>1. Announced(c, {}) /\ Failed(c) /\ UNCHANGED tables
      BY <2>3 DEF QueryFails, Announced
    <3> QED BY <3>1
  <2> QED BY <2>1, <2>2, <2>3 DEF Notifying, NotifyOpened, NotifyAnswered, NotifyCancelled,
                                  NotifyCreated, NotifyActivated, NotifyClosed
<1>2. \E k : Become(c, k) /\ k.pc \notin NotifyPcs
  BY <1>0, <1>1 DEF Answered, Failed
<1>3. (\A b \in Calls \ {c} : call'[b] = call[b]) /\ call'[c].pc \notin NotifyPcs
  BY <1>2, OneMoves
<1> QED BY <1>1, <1>3 DEF Silently, Announced

LEMMA SilenceKeeps ==
  ASSUME NoticesInv, Warranted \subseteq Warranted', NEW c \in Calls, Silently(c)
  PROVE  NoticesInv'
<1>1. Due' = Due /\ \A b \in Calls \ {c} : NoticesOf(b)' = NoticesOf(b)
  BY SameDue, OthersSay DEF Silently
<1>2. NothingIsForgotten'
  <2> SUFFICES ASSUME NEW n \in Due
               PROVE  n \in sent' \cup lost' \/ \E b \in Calls : n \in NoticesOf(b)'
    BY <1>1 DEF NothingIsForgotten
  <2>1. n \in sent \cup lost \/ \E b \in Calls : n \in NoticesOf(b)
    BY DEF NoticesInv, NothingIsForgotten
  <2> QED
    BY <1>1, <2>1 DEF Silently
<1> QED
  BY <1>2, Emits DEF Silently

\* A commit of c, or an UPDATE or INSERT that commits by itself, after which c
\* announces the set N, which the tables have warranted only since, and which is
\* all that they call for since.
Speaks(c, N) ==
    /\ \A b \in Calls \ {c} : call'[b] = call[b]
    /\ UNCHANGED <<sent, lost>>
    /\ NoticesOf(c) = {}
    /\ NoticesOf(c)' = N
    /\ Due' \subseteq Due \cup N
    /\ N \subseteq Warranted'
    /\ N \cap Warranted = {}

LEMMA SpeechKeeps ==
  ASSUME NoticesInv, Warranted \subseteq Warranted', NEW c \in Calls, NEW N, Speaks(c, N)
  PROVE  NoticesInv'
<1>1. NoticesOf(c)' \subseteq Warranted' /\ NoticesOf(c)' \cap Warranted = {}
  BY DEF Speaks
<1>2. NothingIsForgotten'
  <2> SUFFICES ASSUME NEW n \in Due'
               PROVE  n \in sent' \cup lost' \/ \E b \in Calls : n \in NoticesOf(b)'
    BY DEF NothingIsForgotten
  <2>1. CASE n \in N
    BY <2>1 DEF Speaks
  <2>2. CASE n \in Due
    <3>1. n \in sent \cup lost \/ \E b \in Calls : n \in NoticesOf(b)
      BY <2>2 DEF NoticesInv, NothingIsForgotten
    <3>2. \A b \in Calls \ {c} : NoticesOf(b)' = NoticesOf(b)
      BY OthersSay DEF Speaks
    <3> QED
      BY <3>1, <3>2 DEF Speaks
  <2> QED
    BY <2>1, <2>2 DEF Speaks
<1> QED
  BY <1>1, <1>2, Announces DEF Speaks

LEMMA OpenInsertSpeaks ==
  ASSUME Inductive, NEW c \in Calls, OpenInsert(c)
  PROVE  Silently(c) \/ \E N : Speaks(c, N)
<1>0. call[c].pc \notin NotifyPcs /\ NoticesOf(c) = {}
  BY NothingToSay DEF OpenInsert, At, NotifyPcs
<1>1. TypeOK /\ RowsOK /\ UNCHANGED <<sent, lost>>
  BY DEF Inductive, OpenInsert
<1>2. CASE Refused(c) /\ UNCHANGED request
  <2>1. Become(c, NoCall) /\ NoCall.pc \notin NotifyPcs /\ UNCHANGED tables
    BY <1>2 DEF Refused, NoCall, NotifyPcs, tables, OpenInsert
  <2> QED BY <1>0, <1>1, <2>1, StillSilent
<1>3. CASE ~(Refused(c) /\ UNCHANGED request)
  <2>1. PICK r \in Requests :
          /\ request[r].status = "ABSENT"
          /\ request' = [request EXCEPT ![r] = WaitingRequest(call[c].actor)]
          /\ Become(c, [call[c] EXCEPT !.pc = "notifyOpened", !.req = r])
    BY <1>3 DEF OpenInsert
  <2> DEFINE n == <<"queue-updated", r, "WAITING">>
  <2> DEFINE k == [call[c] EXCEPT !.pc = "notifyOpened", !.req = r]
  <2>0. k.pc = "notifyOpened" /\ k.req = r
    BY <1>1 DEF TypeOK, CallState
  <2> HIDE DEF k
  <2>2. /\ \A b \in Calls \ {c} : call'[b] = call[b]
        /\ call'[c].pc = "notifyOpened" /\ call'[c].req = r
    <3>1. Become(c, k)
      BY <2>1 DEF k
    <3> QED BY <1>1, <2>0, <3>1, OneMoves
  <2>3. NoticesOf(c)' = {n}
    BY <2>2 DEF NoticesOf, At
  <2>4. request'[r].status = "WAITING"
    BY <1>1, <2>1 DEF TypeOK, WaitingRequest
  <2>5. n \in Warranted'
    BY <2>4 DEF Warranted, Due
  <2>6. n \notin Warranted
    BY <2>1 DEF Warranted, Due
  <2>7. Due' \subseteq Due \cup {n}
    <3>1. \A q \in Requests \ {r} : request'[q] = request[q]
      BY <1>1, <2>1 DEF TypeOK
    <3>2. request'[r].technician = None
      BY <1>1, <2>1 DEF TypeOK, WaitingRequest
    <3>3. UNCHANGED session
      BY DEF OpenInsert
    <3> QED BY <2>4, <3>1, <3>2, <3>3, DueGrowsBy
  <2> HIDE DEF n
  <2>8. Speaks(c, {n})
    BY <1>0, <1>1, <2>2, <2>3, <2>5, <2>6, <2>7 DEF Speaks
  <2> QED BY <2>8
<1> QED BY <1>2, <1>3

LEMMA AnswerUpdateSpeaks ==
  ASSUME Inductive, NEW c \in Calls, AcceptUpdate(c) \/ RejectUpdate(c)
  PROVE  Silently(c) \/ \E N : Speaks(c, N)
<1>0. call[c].pc \notin NotifyPcs /\ NoticesOf(c) = {}
  BY NothingToSay DEF AcceptUpdate, RejectUpdate, AnswerUpdate, At, NotifyPcs
<1>1. TypeOK /\ RowsOK /\ UNCHANGED <<sent, lost>>
  BY DEF Inductive, AcceptUpdate, RejectUpdate, AnswerUpdate
<1>2. CASE Refused(c) /\ UNCHANGED request
  <2>1. Become(c, NoCall) /\ NoCall.pc \notin NotifyPcs /\ UNCHANGED tables
    BY <1>2 DEF Refused, NoCall, NotifyPcs, tables, AcceptUpdate, RejectUpdate, AnswerUpdate
  <2> QED BY <1>0, <1>1, <2>1, StillSilent
<1>3. CASE ~(Refused(c) /\ UNCHANGED request)
  <2> DEFINE r == call[c].req
  <2>1. PICK answer \in {"ACCEPTED", "REJECTED"} :
          /\ request[r].status = "ASSIGNED"
          /\ request' = [request EXCEPT ![r].status = answer]
          /\ Goto(c, IF answer = "ACCEPTED" THEN "notifyAccepted" ELSE "notifyRejected")
    BY <1>3 DEF AcceptUpdate, RejectUpdate, AnswerUpdate, CanAnswer
  <2>0. r \in Requests
    BY DEF Inductive, ArgumentsOK, AcceptUpdate, RejectUpdate, AnswerUpdate, At
  <2> DEFINE n == <<"request-updated", r, answer>>
  <2>2. /\ \A b \in Calls \ {c} : call'[b] = call[b]
        /\ call'[c].pc = IF answer = "ACCEPTED" THEN "notifyAccepted" ELSE "notifyRejected"
        /\ call'[c].req = r
    BY <1>1, <2>1, OneMoves DEF TypeOK, CallState, Goto
  <2>3. NoticesOf(c)' = {n}
    BY <2>1, <2>2 DEF NoticesOf, At
  <2>4. request'[r].status = answer
    BY <1>1, <2>0, <2>1 DEF TypeOK, RequestRow
  <2>5. n \in Warranted'
    BY <2>0, <2>1, <2>4 DEF Warranted, Due
  <2>6. n \notin Warranted
    BY <2>0, <2>1 DEF Warranted, Due
  <2>7. Due' \subseteq Due \cup {n}
    <3>1. \A q \in Requests \ {r} : request'[q] = request[q]
      BY <1>1, <2>1 DEF TypeOK
    <3>2. request'[r].technician = request[r].technician
      BY <1>1, <2>0, <2>1 DEF TypeOK, RequestRow
    <3>3. UNCHANGED session
      BY DEF AcceptUpdate, RejectUpdate, AnswerUpdate
    <3>4. /\ request'[r].status \in {"ACCEPTED", "COMPLETED"} =>
               n = <<"request-updated", r, "ACCEPTED">>
          /\ request'[r].status = "REJECTED" => n = <<"request-updated", r, "REJECTED">>
          /\ request[r].status = "ASSIGNED" /\ request'[r].status # "CANCELLED"
      BY <2>1, <2>4
    <3> HIDE DEF n
    <3> QED BY <3>1, <3>2, <3>3, <3>4, DueGrowsBy
  <2> HIDE DEF n
  <2>8. Speaks(c, {n})
    BY <1>0, <1>1, <2>2, <2>3, <2>5, <2>6, <2>7 DEF Speaks
  <2> QED BY <2>8
<1> QED BY <1>2, <1>3

LEMMA AssignUpdateSpeaks ==
  ASSUME Inductive, NEW c \in Calls, AssignUpdate(c)
  PROVE  Silently(c) \/ \E N : Speaks(c, N)
<1>0. call[c].pc \notin NotifyPcs /\ NoticesOf(c) = {}
  BY NothingToSay DEF AssignUpdate, At, NotifyPcs
<1>1. TypeOK /\ RowsOK /\ UNCHANGED <<sent, lost>> /\ call[c].req \in Requests /\ call[c].actor \in Technicians
  BY DEF Inductive, ArgumentsOK, AssignUpdate, At
<1>2. CASE Refused(c) /\ UNCHANGED request
  <2>1. Become(c, NoCall) /\ NoCall.pc \notin NotifyPcs /\ UNCHANGED tables
    BY <1>2 DEF Refused, NoCall, NotifyPcs, tables, AssignUpdate
  <2> QED BY <1>0, <1>1, <2>1, StillSilent
<1>3. CASE ~(Refused(c) /\ UNCHANGED request)
  <2> DEFINE r == call[c].req
             N == {<<"assigned", r, "ASSIGNED">>, <<"queue-updated", r, "ASSIGNED">>}
  <2>1. /\ request[r].status = "WAITING"
        /\ request' = [request EXCEPT ![r].status = "ASSIGNED", ![r].technician = call[c].actor]
        /\ Goto(c, "notifyAssigned")
    BY <1>3 DEF AssignUpdate, CanTake
  <2>2. /\ \A b \in Calls \ {c} : call'[b] = call[b]
        /\ call'[c].pc = "notifyAssigned" /\ call'[c].req = r
    BY <1>1, <2>1, OneMoves DEF TypeOK, CallState, Goto
  <2>3. NoticesOf(c)' = N
    BY <2>2 DEF NoticesOf, At
  <2>4. request[r].technician = None /\ request'[r].technician # None
    BY <1>1, <2>1, NoneIsNobody DEF TypeOK, RequestRow, RowsOK
  <2>5. N \subseteq Warranted'
    BY <1>1, <2>4 DEF Warranted, Due
  <2>6. N \cap Warranted = {}
    BY <1>1, <2>4 DEF Warranted, Due
  <2>7. Due' \subseteq Due \cup N
    <3>1. \A q \in Requests \ {r} : request'[q] = request[q]
      BY <1>1, <2>1 DEF TypeOK
    <3>2. request'[r].status = "ASSIGNED"
      BY <1>1, <2>1 DEF TypeOK, RequestRow
    <3>3. UNCHANGED session
      BY DEF AssignUpdate
    <3> QED BY <2>1, <3>1, <3>2, <3>3, DueGrowsBy
  <2> HIDE DEF N
  <2>8. Speaks(c, N)
    BY <1>0, <1>1, <2>2, <2>3, <2>5, <2>6, <2>7 DEF Speaks
  <2> QED BY <2>8
<1> QED BY <1>2, <1>3

LEMMA CommitCancelSpeaks ==
  ASSUME Inductive, NEW c \in Calls, CommitCancel(c)
  PROVE  \E N : Speaks(c, N)
<1> DEFINE r == call[c].req
           n == <<IF call[c].seen = "WAITING" THEN "queue-updated" ELSE "request-updated",
                  r, "CANCELLED">>
<1>0. call[c].pc \notin NotifyPcs /\ NoticesOf(c) = {}
  BY NothingToSay DEF CommitCancel, At, NotifyPcs
<1>1. /\ TypeOK /\ RowsOK /\ UNCHANGED <<sent, lost>> /\ r \in Requests /\ IsActive(request[r])
      /\ call[c].seen = request[r].status
  BY DEF Inductive, LocksOK, RequestHolding, TransactionOK, CommitCancel, At
<1>2. /\ \A b \in Calls \ {c} : call'[b] = call[b]
      /\ call'[c].pc = "notifyCancelled" /\ call'[c].req = r /\ call'[c].seen = call[c].seen
  BY <1>1, OneMoves DEF CommitCancel, TypeOK, CallState, Goto
<1>3. NoticesOf(c)' = {n}
  BY <1>2 DEF NoticesOf, CancelNotice, At
<1>4. /\ request'[r].status = "CANCELLED" /\ request'[r].technician = request[r].technician
      /\ request[r].status # "CANCELLED"
  BY <1>1 DEF CommitCancel, TypeOK, RequestRow, IsActive, ActiveRequestStatuses
<1>5. call[c].seen = "WAITING" <=> request[r].technician = None
  BY <1>1, NoneIsNobody DEF RowsOK, IsActive, ActiveRequestStatuses
<1>6. n = <<IF request'[r].technician = None THEN "queue-updated" ELSE "request-updated",
            r, "CANCELLED">>
  BY <1>4, <1>5
<1>7. n \in Warranted'
  BY <1>1, <1>4, <1>6 DEF Warranted, Due
<1>8. n \notin Warranted
  BY <1>1, <1>4 DEF Warranted, Due
<1>9. Due' \subseteq Due \cup {n}
  <2>1. \A q \in Requests \ {r} : request'[q] = request[q]
    BY <1>1 DEF CommitCancel, TypeOK
  <2>2. request[r].status # "ABSENT"
    BY <1>1 DEF IsActive, ActiveRequestStatuses
  <2>3. UNCHANGED session
    BY DEF CommitCancel
  <2> QED BY <1>4, <1>6, <2>1, <2>2, <2>3, DueGrowsBy
<1> HIDE DEF n
<1>10. Speaks(c, {n})
  BY <1>0, <1>1, <1>2, <1>3, <1>7, <1>8, <1>9 DEF Speaks
<1> QED BY <1>10

LEMMA CommitCreateSpeaks ==
  ASSUME Inductive, NEW c \in Calls, CommitCreate(c)
  PROVE  \E N : Speaks(c, N)
<1> DEFINE s == call[c].sess
           n == <<"created", s, "DEVICE">>
<1>0. call[c].pc \notin NotifyPcs /\ NoticesOf(c) = {}
  BY NothingToSay DEF CommitCreate, At, NotifyPcs
<1>1. /\ TypeOK /\ UNCHANGED <<sent, lost>> /\ s \in Sessions /\ session[s].status = "ABSENT"
  BY DEF Inductive, LocksOK, SessionHolding, TransactionOK, CommitCreate, At
<1>2. /\ \A b \in Calls \ {c} : call'[b] = call[b]
      /\ call'[c].pc = "notifyCreated" /\ call'[c].sess = s
  BY <1>1, OneMoves DEF CommitCreate, TypeOK, CallState, Goto
<1>3. NoticesOf(c)' = {n}
  BY <1>2 DEF NoticesOf, At
<1>4. session'[s].status = "CONNECTING"
  BY <1>1 DEF CommitCreate, TypeOK, NewSession, ConnectingSession
<1>5. n \in Warranted'
  BY <1>1, <1>4 DEF Warranted, Due
<1>6. n \notin Warranted
  BY <1>1 DEF Warranted, Due
<1>7. Due' \subseteq Due \cup {n}
  <2>1. \A x \in Sessions \ {s} : session'[x] = session[x]
    BY <1>1 DEF CommitCreate, TypeOK
  <2>2. ~session'[s].connected
    BY <1>1 DEF CommitCreate, TypeOK, NewSession, ConnectingSession
  <2>3. UNCHANGED request
    BY DEF CommitCreate
  <2> QED BY <1>4, <2>1, <2>2, <2>3, DueGrowsBy
<1> HIDE DEF n
<1>8. Speaks(c, {n})
  BY <1>0, <1>1, <1>2, <1>3, <1>5, <1>6, <1>7 DEF Speaks
<1> QED BY <1>8

LEMMA CommitActivateSpeaks ==
  ASSUME Inductive, NEW c \in Calls, CommitActivate(c)
  PROVE  Silently(c) \/ \E N : Speaks(c, N)
<1> DEFINE s == call[c].sess
           N == {<<"active", s, e>> : e \in Ends}
<1>0. call[c].pc \notin NotifyPcs /\ NoticesOf(c) = {}
  BY NothingToSay DEF CommitActivate, At, NotifyPcs
<1>1. /\ TypeOK /\ RowsOK /\ UNCHANGED <<sent, lost>> /\ s \in Sessions
      /\ call[c].seen = session[s].status
  BY DEF Inductive, LocksOK, SessionHolding, TransactionOK, CommitActivate, At
<1>2. CASE Activated(c)
  <2>1. /\ session[s].status = "CONNECTING" /\ Goto(c, "notifyActivated")
        /\ session' = [session EXCEPT ![s].status = "ACTIVE", ![s].connected = TRUE]
    BY <1>1, <1>2 DEF CommitActivate, Activated
  <2>2. /\ \A b \in Calls \ {c} : call'[b] = call[b]
        /\ call'[c].pc = "notifyActivated" /\ call'[c].sess = s
    BY <1>1, <2>1, OneMoves DEF TypeOK, CallState, Goto
  <2>3. NoticesOf(c)' = N
    BY <2>2 DEF NoticesOf, ActiveNotices, At
  <2>4. session'[s].connected /\ ~session[s].connected
    BY <1>1, <2>1 DEF TypeOK, SessionRow, RowsOK, IsLive, LiveSessionStatuses
  <2>5. N \subseteq Warranted'
    BY <1>1, <2>4 DEF Warranted, Due
  <2>6. N \cap Warranted = {}
    BY <1>1, <2>4 DEF Warranted, Due
  <2>7. Due' \subseteq Due \cup N
    <3>1. \A x \in Sessions \ {s} : session'[x] = session[x]
      BY <1>1, <2>1 DEF TypeOK
    <3>2. session'[s].status = "ACTIVE"
      BY <1>1, <2>1 DEF TypeOK, SessionRow
    <3>3. UNCHANGED request
      BY DEF CommitActivate
    <3> QED BY <2>1, <3>1, <3>2, <3>3, DueGrowsBy
  <2> HIDE DEF N
  <2>8. Speaks(c, N)
    BY <1>0, <1>1, <2>2, <2>3, <2>5, <2>6, <2>7 DEF Speaks
  <2> QED BY <2>8
<1>3. CASE ~Activated(c)
  <2>1. Become(c, NoCall) /\ NoCall.pc \notin NotifyPcs /\ UNCHANGED tables
    BY <1>3 DEF CommitActivate, Answered, NoCall, NotifyPcs, tables
  <2> QED BY <1>0, <1>1, <2>1, StillSilent
<1> QED BY <1>2, <1>3

LEMMA CommitCloseSpeaks ==
  ASSUME Inductive, NEW c \in Calls, CommitClose(c)
  PROVE  \E N : Speaks(c, N)
<1> DEFINE s == call[c].sess
           n == <<"closed", s, OtherEnd(call[c].end)>>
<1>0. call[c].pc \notin NotifyPcs /\ NoticesOf(c) = {}
  BY NothingToSay DEF CommitClose, At, NotifyPcs
<1>1. /\ TypeOK /\ UNCHANGED <<sent, lost>> /\ s \in Sessions /\ IsLive(session[s])
      /\ call[c].end \in Ends
  BY DEF Inductive, LocksOK, SessionHolding, ArgumentsOK, TransactionOK, CommitClose, At
<1>2. /\ \A b \in Calls \ {c} : call'[b] = call[b]
      /\ call'[c].pc = "notifyClosed" /\ call'[c].sess = s /\ call'[c].end = call[c].end
  BY <1>1, OneMoves DEF CommitClose, TypeOK, CallState, Goto
<1>3. NoticesOf(c)' = {n}
  BY <1>2 DEF NoticesOf, OtherEnd, At
<1>4. session'[s].status = "CLOSED" /\ session'[s].endedBy = call[c].end
  BY <1>1 DEF CommitClose, TypeOK, SessionRow
<1>5. n \in Warranted'
  BY <1>1, <1>4 DEF Warranted, Due, OtherEnd
<1>6. n \notin Warranted
  BY <1>1 DEF Warranted, Due, IsLive, LiveSessionStatuses
<1>7. Due' \subseteq Due \cup {n}
  <2> DEFINE r == call[c].req
  <2>1. /\ session[s].request = r /\ r \in Requests /\ request[r].status = "ACCEPTED"
    BY <1>1 DEF Inductive, LocksOK, RequestHolding, ArgumentsOK, TransactionOK, CommitClose, At
  <2>2. \A x \in Sessions \ {s} : session'[x] = session[x]
    BY <1>1 DEF CommitClose, TypeOK
  <2>3. session'[s].connected = session[s].connected /\ session[s].status # "ABSENT"
    BY <1>1 DEF CommitClose, TypeOK, SessionRow, IsLive, LiveSessionStatuses
  <2>4. \A q \in Requests \ {r} : request'[q] = request[q]
    BY <1>1 DEF CommitClose, TypeOK
  <2>5. request'[r].status = "COMPLETED" /\ request'[r].technician = request[r].technician
    BY <1>1, <2>1 DEF CommitClose, TypeOK, RequestRow
  <2>6. n = <<"closed", s, OtherEnd(session'[s].endedBy)>>
    BY <1>4
  <2>7. s \in Sessions /\ session'[s].status = "CLOSED"
    BY <1>1, <1>4
  <2> HIDE DEF r, n, s
  <2>8. \A q \in Requests :
          \/ request'[q] = request[q]
          \/ /\ request[q].status = "ACCEPTED" /\ request'[q].status = "COMPLETED"
             /\ request'[q].technician = request[q].technician
    BY <2>1, <2>4, <2>5
  <2>9. \A x \in Sessions :
          \/ session'[x] = session[x]
          \/ /\ session[x].status # "ABSENT" /\ session'[x].connected = session[x].connected
             /\ n = <<"closed", x, OtherEnd(session'[x].endedBy)>>
    BY <2>2, <2>3, <2>6, <2>7
  <2> QED BY <2>8, <2>9, DueGrowsBy
<1> HIDE DEF n
<1>8. Speaks(c, {n})
  BY <1>0, <1>1, <1>2, <1>3, <1>5, <1>6, <1>7 DEF Speaks
<1> QED BY <1>8

-----------------------------------------------------------------------------
(* What every behaviour satisfies.                                         *)

LEMMA NoticesStep ==
  ASSUME Inductive, NoticesInv, [Next]_vars
  PROVE  NoticesInv'
<1>1. Warranted \subseteq Warranted' /\ TypeOK
  BY StepsGrow DEF Inductive
<1>2. ASSUME NEW c \in Calls, Start(c) \/ Working(c) \/ Notifying(c) \/ QueryFails(c)
      PROVE  NoticesInv'
  BY <1>1, <1>2, StartIsSilent, WorkIsSilent, NotifyingIsSilentAfter, SilenceKeeps
<1>3. ASSUME NEW c \in Calls,
             \/ OpenInsert(c) \/ AcceptUpdate(c) \/ RejectUpdate(c) \/ AssignUpdate(c)
             \/ CommitCancel(c) \/ CommitCreate(c) \/ CommitActivate(c) \/ CommitClose(c)
      PROVE  NoticesInv'
  <2>1. Silently(c) \/ \E N : Speaks(c, N)
    BY <1>3, OpenInsertSpeaks, AnswerUpdateSpeaks, AssignUpdateSpeaks, CommitCancelSpeaks,
       CommitCreateSpeaks, CommitActivateSpeaks, CommitCloseSpeaks
  <2> QED BY <1>1, <2>1, SilenceKeeps, SpeechKeeps
<1>4. ASSUME UNCHANGED <<tables, call, sent, lost>> PROVE NoticesInv'
  <2>1. Due' = Due /\ \A c \in Calls : NoticesOf(c)' = NoticesOf(c)
    BY <1>4, OthersSay, SameDue
  <2>2. NothingIsForgotten'
    BY <1>4, <2>1 DEF NoticesInv, NothingIsForgotten
  <2> QED BY <1>1, <1>4, <2>1, <2>2 DEF NoticesInv, NoticesAreTrue, NoticesAreNew
<1>5. CASE Crash
  <2>1. \A c \in Calls : NoticesOf(c)' = {}
    BY <1>5 DEF Crash, NoCall, NoticesOf, At
  <2>2. Due' = Due
    BY <1>5, SameDue DEF Crash
  <2>3. NothingIsForgotten'
    BY <1>5, <2>2 DEF Crash, NoticesInv, NothingIsForgotten
  <2> QED BY <1>1, <1>5, <2>1, <2>3 DEF Crash, NoticesInv, NoticesAreTrue, NoticesAreNew
<1>6. ASSUME NEW d \in Devices, DeviceConnects(d) \/ DeviceDisconnects(d)
      PROVE  UNCHANGED <<tables, call, sent, lost>>
  BY <1>6 DEF DeviceConnects, DeviceDisconnects
<1>7. UNCHANGED vars => UNCHANGED <<tables, call, sent, lost>>
  BY DEF vars, tables
<1>8. ASSUME NEW c \in Calls, Continue(c)
      PROVE  \/ Working(c) \/ Notifying(c)
             \/ OpenInsert(c) \/ AcceptUpdate(c) \/ RejectUpdate(c) \/ AssignUpdate(c)
             \/ CommitCancel(c) \/ CommitCreate(c) \/ CommitActivate(c) \/ CommitClose(c)
  BY <1>8 DEF Continue, Working, Notifying
<1>9. CASE \E c \in Calls : Start(c) \/ Continue(c) \/ QueryFails(c)
  <2>1. PICK c \in Calls : Start(c) \/ Continue(c) \/ QueryFails(c)
    BY <1>9
  <2> QED BY <1>2, <1>3, <1>8, <2>1
<1>10. CASE \E d \in Devices : DeviceConnects(d) \/ DeviceDisconnects(d)
  BY <1>4, <1>6, <1>10
<1>11. CASE UNCHANGED vars
  BY <1>4, <1>7, <1>11
<1> QED
  BY <1>5, <1>9, <1>10, <1>11 DEF Next, LivingNext

LEMMA NoticesHold == Spec => []NoticesInv
<1>1. Init => NoticesInv
  <2> SUFFICES ASSUME Init PROVE NoticesInv
    OBVIOUS
  <2>1. Due = {}
    BY DEF Init, Due, NoRequest, NoSession
  <2> QED
    BY <2>1 DEF Init, NoticesInv, NoticesAreTrue, NoticesAreNew, NothingIsForgotten,
                NoticesOf, NoCall, At
<1>2. Inductive /\ NoticesInv /\ [Next]_vars => NoticesInv'
  BY NoticesStep
<1> QED
  BY <1>1, <1>2, Invariance, PTL DEF Spec

\* Nothing is announced before it is committed, nor to the wrong audience,
\* whatever calls race and whenever the process dies.
THEOREM NoticesStayTrue == Spec => []NoticesAreTrue
<1>1. NoticesInv => NoticesAreTrue
  BY DEF NoticesInv
<1> QED
  BY <1>1, NoticesHold, PTL

\* No transition is announced twice, by the same call or by two: a retry, or the
\* loser of a race, has nothing left to announce.
THEOREM NoticesStayNew == Spec => []NoticesAreNew
<1>1. NoticesInv => NoticesAreNew
  BY DEF NoticesInv
<1> QED
  BY <1>1, NoticesHold, PTL

\* No commit forgets whom it concerns: at all times what the tables call for has
\* been announced, or lost to a failure of the transport, of a query or of the
\* process, or else a call is about to announce it.
THEOREM NothingStaysForgotten == Spec => []NothingIsForgotten
<1>1. NoticesInv => NothingIsForgotten
  BY DEF NoticesInv
<1> QED
  BY <1>1, NoticesHold, PTL
=============================================================================
