--------------------------- MODULE MCDevicePresence ---------------------------
(* Instances of DevicePresence for TLC.                                    *)
EXTENDS DevicePresence, TLC

\* Ids of each kind are interchangeable.  Only for runs without liveness.
Symmetry ==
    Permutations(Devices) \cup Permutations(Credentials)
      \cup Permutations(Sockets) \cup Permutations(Calls)
=============================================================================
