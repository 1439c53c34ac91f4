-------------------------- MODULE MCDeviceEnrollment --------------------------
(* Instances of DeviceEnrollment for TLC.                                  *)
EXTENDS DeviceEnrollment, TLC

\* Ids of each kind are interchangeable.
Symmetry ==
    Permutations(Devices) \cup Permutations(Codes)
      \cup Permutations(Credentials) \cup Permutations(Calls)
=============================================================================
