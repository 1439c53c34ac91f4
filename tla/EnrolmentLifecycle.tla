------------------------- MODULE EnrolmentLifecycle -------------------------
(***************************************************************************)
(* What enrolling a tablet promises: an activation code is handed out,     *)
(* tried and exchanged for the one credential of its tablet, each of these *)
(* in one step that happens entirely or not at all.                        *)
(***************************************************************************)
EXTENDS Naturals

CONSTANTS Devices, Codes, Credentials, None, MaxFailedAttempts

VARIABLES
    status,    \* of each code
    owner,     \* the device each code was made for
    attempts,  \* the wrong codes counted against each code
    issued,    \* the credentials that exist
    current    \* the credentials in force of each device, one at most

vars == <<status, owner, attempts, issued, current>>

PendingOf(d) == {e \in Codes : status[e] = "pending" /\ owner[e] = d}

Init ==
    /\ status = [e \in Codes |-> "none"]
    /\ owner = [e \in Codes |-> None]
    /\ attempts = [e \in Codes |-> 0]
    /\ issued = {}
    /\ current = [d \in Devices |-> {}]

\* A new code for d.  It ends codes that were pending.
Issue(d, new, ended) ==
    /\ status[new] = "none"
    /\ ended \subseteq PendingOf(d)
    /\ status' = [e \in Codes |-> CASE e = new    -> "pending"
                                    [] e \in ended -> "revoked"
                                    [] OTHER      -> status[e]]
    /\ owner' = [owner EXCEPT ![new] = d]
    /\ UNCHANGED <<attempts, issued, current>>

\* A wrong code counts against the codes that were pending, and ends those for
\* which it was one too many.
Miss(d, tried) ==
    /\ tried # {}
    /\ tried \subseteq PendingOf(d)
    /\ attempts' = [e \in Codes |-> IF e \in tried THEN attempts[e] + 1 ELSE attempts[e]]
    /\ status' = [e \in Codes |->
                    IF e \in tried /\ attempts[e] + 1 >= MaxFailedAttempts
                      THEN "revoked" ELSE status[e]]
    /\ UNCHANGED <<owner, issued, current>>

\* A pending code becomes a credential, which replaces the one there was.
Activate(d, e, new) ==
    /\ e \in PendingOf(d)
    /\ new \notin issued
    /\ status' = [status EXCEPT ![e] = "used"]
    /\ issued' = issued \cup {new}
    /\ current' = [current EXCEPT ![d] = {new}]
    /\ UNCHANGED <<owner, attempts>>

Next ==
    \E d \in Devices :
      \/ \E new \in Codes, ended \in SUBSET Codes : Issue(d, new, ended)
      \/ \E tried \in SUBSET Codes : Miss(d, tried)
      \/ \E e \in Codes, new \in Credentials : Activate(d, e, new)

Spec == Init /\ [][Next]_vars
=============================================================================
