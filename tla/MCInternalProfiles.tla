------------------------- MODULE MCInternalProfiles -------------------------
(* Constants of InternalProfiles for TLC.                                   *)
EXTENDS InternalProfiles, TLC

Symmetry == Permutations(Profiles) \cup Permutations(EnvironmentIds)
              \cup Permutations(Commands) \cup Permutations(Editions)
=============================================================================
