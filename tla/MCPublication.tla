--------------------------- MODULE MCPublication ----------------------------
(* Publication for TLC.                                                    *)
EXTENDS Publication, TLC

\* Folders are left out: Postman's numbering goes by the places of requests.
Symmetry == Permutations(Ops) \union Permutations(Names) \union Permutations(Contracts)
=============================================================================
