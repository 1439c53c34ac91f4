--------------------------- MODULE AssistanceRows ---------------------------
(***************************************************************************)
(* The two tables of an assistance: support_requests and remote_sessions.  *)
(* A row id that is not in use yet has status "ABSENT".  Timestamps are    *)
(* reduced to what the code tells apart: connectedAt is set or it is not,  *)
(* and endedAt is set exactly when endedBy is.                             *)
(***************************************************************************)
CONSTANTS
    Devices,      \* devices.id
    Technicians,  \* users.id of the users holding the role tecnico or admin
    Requests,     \* the row ids support_requests can hand out
    Sessions,     \* the row ids remote_sessions can hand out
    None          \* SQL NULL, and the absence of a lock holder

ASSUME NoneIsNobody ==
    None \notin Devices \cup Technicians \cup Requests \cup Sessions

ActiveRequestStatuses == {"WAITING", "ASSIGNED", "ACCEPTED"}
TerminalRequestStatuses == {"REJECTED", "CANCELLED", "COMPLETED"}
LiveSessionStatuses == {"CONNECTING", "ACTIVE"}
Ends == {"TECHNICIAN", "DEVICE"}

RequestRow ==
    [status : ActiveRequestStatuses \cup TerminalRequestStatuses \cup {"ABSENT"},
     device : Devices \cup {None},
     technician : Technicians \cup {None}]

SessionRow ==
    [status : LiveSessionStatuses \cup {"CLOSED", "ABSENT"},
     request : Requests \cup {None},
     device : Devices \cup {None},
     technician : Technicians \cup {None},
     connected : BOOLEAN,
     endedBy : Ends \cup {None}]

NoRequest == [status |-> "ABSENT", device |-> None, technician |-> None]

NoSession ==
    [status |-> "ABSENT", request |-> None, device |-> None,
     technician |-> None, connected |-> FALSE, endedBy |-> None]

\* The row createForDevice inserts.
WaitingRequest(d) == [status |-> "WAITING", device |-> d, technician |-> None]

\* The row RemoteSessionsService.create inserts.
ConnectingSession(r, d, t) ==
    [status |-> "CONNECTING", request |-> r, device |-> d,
     technician |-> t, connected |-> FALSE, endedBy |-> None]

IsActive(q) == q.status \in ActiveRequestStatuses
IsLive(x) == x.status \in LiveSessionStatuses
=============================================================================
