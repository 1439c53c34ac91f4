----------------------------- MODULE MCSignaling -----------------------------
(* Instances of Signaling for TLC.                                         *)
EXTENDS Signaling, TLC

\* Ids of each kind are interchangeable.
Symmetry ==
    Permutations(Devices) \cup Permutations(Technicians) \cup Permutations(Sessions)
      \cup Permutations(DeviceSockets) \cup Permutations(TechnicianSockets)
      \cup Permutations(Calls)
=============================================================================
