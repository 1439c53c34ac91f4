----------------------------- MODULE SessionRows -----------------------------
(***************************************************************************)
(* remote_sessions as those see it who only ask whether a session is live  *)
(* and who its two ends are: the signaling.  CONNECTING and ACTIVE are the *)
(* same to it, "LIVE".                                                     *)
(***************************************************************************)
CONSTANTS Devices, Technicians, Sessions, None

VARIABLE session

NoRow == [status |-> "ABSENT", device |-> None, technician |-> None]

NoRows == [s \in Sessions |-> NoRow]

\* create: at most one live session per end.
Opens(s, d, t) ==
    /\ session[s].status = "ABSENT"
    /\ \A x \in Sessions : session[x].status = "LIVE" =>
         session[x].device # d /\ session[x].technician # t
    /\ session' = [session EXCEPT ![s] =
                     [status |-> "LIVE", device |-> d, technician |-> t]]

\* close.
Closes(s) ==
    /\ session[s].status = "LIVE"
    /\ session' = [session EXCEPT ![s].status = "CLOSED"]

Changes ==
    \E s \in Sessions :
      \/ \E d \in Devices, t \in Technicians : Opens(s, d, t)
      \/ Closes(s)
=============================================================================
