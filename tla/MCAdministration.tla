--------------------------- MODULE MCAdministration ---------------------------
(* Instances of Administration for TLC.                                    *)
EXTENDS Administration, TLC

CONSTANTS m1, m2

\* One address has two spellings, the other one.
MCSpellings == {<<m1, "lower">>, <<m1, "mixed">>, <<m2, "lower">>}

MCRoleSets == {{"admin"}, {"tecnico"}}

\* Ids of each kind are interchangeable.
Symmetry ==
    Permutations(Users) \cup Permutations(Calls)
      \cup Permutations(Devices) \cup Permutations(PublicIds)
=============================================================================
