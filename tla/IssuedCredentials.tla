-------------------------- MODULE IssuedCredentials --------------------------
(***************************************************************************)
(* What the enrolment of tablets means to those who ask which credential   *)
(* is in force: it is issued in one step, which takes the place of the one *)
(* there was.  DevicePresence is built on this; DeviceEnrollment, with its *)
(* transactions, is shown to do no more and no less.                       *)
(***************************************************************************)
CONSTANTS Devices, Credentials, None

VARIABLES
    issued,   \* the device each credential was issued to
    current   \* the credential of each device that is in force

vars == <<issued, current>>

Init ==
    /\ issued = [cr \in Credentials |-> None]
    /\ current = [d \in Devices |-> None]

\* A credential is issued once.
Issue(d, cr) ==
    /\ issued[cr] = None
    /\ issued' = [issued EXCEPT ![cr] = d]
    /\ current' = [current EXCEPT ![d] = cr]

Next == \E d \in Devices, cr \in Credentials : Issue(d, cr)

Spec == Init /\ [][Next]_vars
=============================================================================
