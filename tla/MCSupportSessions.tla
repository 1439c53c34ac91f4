-------------------------- MODULE MCSupportSessions --------------------------
(* Instances of SupportSessions for TLC.                                   *)
EXTENDS SupportSessions, TLC

\* Ids of each kind are interchangeable.  Only for runs without liveness.
Symmetry ==
    Permutations(Devices) \cup Permutations(Technicians)
      \cup Permutations(Requests) \cup Permutations(Sessions)
      \cup Permutations(Calls)
=============================================================================
