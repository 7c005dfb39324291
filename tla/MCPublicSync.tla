---------------------------- MODULE MCPublicSync ----------------------------
(* PublicSync for TLC.  Operators and collection uids are interchangeable; an   *)
(* environment uid is not, one of them may be the bound one.                    *)
EXTENDS PublicSync, TLC

Symmetry == Permutations(Operators) \cup Permutations(CollectionIds)
=============================================================================
