---------------------------- MODULE MCAssistance ----------------------------
(* Instances of Assistance for TLC.                                        *)
EXTENDS Assistance, TLC

\* Ids of each kind are interchangeable.
Symmetry ==
    Permutations(Devices) \cup Permutations(Technicians)
      \cup Permutations(Requests) \cup Permutations(Sessions)
      \cup Permutations(Calls) \cup Permutations(Messages)
      \cup Permutations(DeviceSockets) \cup Permutations(TechnicianSockets)

\* All but the histories of notices, on which no guard and no property of the run
\* depends.
Unannounced ==
    <<tables, locks, call, online, signaling>>
=============================================================================
