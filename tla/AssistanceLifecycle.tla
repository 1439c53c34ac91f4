------------------------- MODULE AssistanceLifecycle -------------------------
(***************************************************************************)
(* What the backend promises about an assistance, as if every HTTP call    *)
(* were a single atomic step: a request is opened by a tablet, taken by a  *)
(* technician, answered by the tablet, and turned into one remote session, *)
(* whose end is the end of the request too.                                *)
(*                                                                         *)
(* SupportSessions, where each call is a sequence of SQL statements that   *)
(* interleave with those of other calls, is shown to implement this.       *)
(***************************************************************************)
EXTENDS AssistanceRows

VARIABLES
    request,  \* support_requests, by id
    session   \* remote_sessions, by id

vars == <<request, session>>

Init ==
    /\ request = [r \in Requests |-> NoRequest]
    /\ session = [s \in Sessions |-> NoSession]

\* A tablet asks for help; it may only have one request under way.
Open(d, r) ==
    /\ request[r].status = "ABSENT"
    /\ \A q \in Requests : request[q].device = d => ~IsActive(request[q])
    /\ request' = [request EXCEPT ![r] = WaitingRequest(d)]
    /\ UNCHANGED session

\* A technician takes a request nobody has taken.
Take(t, r) ==
    /\ request[r].status = "WAITING"
    /\ request' = [request EXCEPT ![r].status = "ASSIGNED", ![r].technician = t]
    /\ UNCHANGED session

\* The tablet authorises that technician, or does not.
Answer(r, answer) ==
    /\ request[r].status = "ASSIGNED"
    /\ request' = [request EXCEPT ![r].status = answer]
    /\ UNCHANGED session

\* The tablet withdraws a request that has not become a session.
Withdraw(r) ==
    /\ IsActive(request[r])
    /\ \A s \in Sessions : session[s].request # r
    /\ request' = [request EXCEPT ![r].status = "CANCELLED"]
    /\ UNCHANGED session

\* The technician of an accepted request opens its session: the only one that
\* request will ever have, and the only live one of that technician.
Begin(r, s) ==
    /\ request[r].status = "ACCEPTED"
    /\ session[s].status = "ABSENT"
    /\ \A x \in Sessions :
         /\ session[x].request # r
         /\ session[x].technician = request[r].technician => ~IsLive(session[x])
    /\ session' = [session EXCEPT ![s] =
                     ConnectingSession(r, request[r].device, request[r].technician)]
    /\ UNCHANGED request

Establish(s) ==
    /\ session[s].status = "CONNECTING"
    /\ session' = [session EXCEPT ![s].status = "ACTIVE", ![s].connected = TRUE]
    /\ UNCHANGED request

\* Either end finishes a live session, and its request with it.
Finish(s, end) ==
    /\ IsLive(session[s])
    /\ session' = [session EXCEPT ![s].status = "CLOSED", ![s].endedBy = end]
    /\ request' = [request EXCEPT ![session[s].request].status = "COMPLETED"]

Next ==
    \/ \E d \in Devices, r \in Requests : Open(d, r)
    \/ \E t \in Technicians, r \in Requests : Take(t, r)
    \/ \E r \in Requests, answer \in {"ACCEPTED", "REJECTED"} : Answer(r, answer)
    \/ \E r \in Requests : Withdraw(r)
    \/ \E r \in Requests, s \in Sessions : Begin(r, s)
    \/ \E s \in Sessions : Establish(s)
    \/ \E s \in Sessions, end \in Ends : Finish(s, end)

Spec == Init /\ [][Next]_vars
=============================================================================
