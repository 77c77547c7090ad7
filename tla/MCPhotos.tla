------------------------------- MODULE MCPhotos -------------------------------
(***************************************************************************)
(* Instances of Photos for TLC.                                            *)
(***************************************************************************)
EXTENDS Photos, TLC

\* There are enough photos to pass the quota by one for every worker.
ASSUME QuotaInReach == MaxPhotos >= LIMIT + Cardinality(Workers)

\* Nothing in Photos names a member of these sets.
Symmetry == Permutations(Users) \cup Permutations(Workers)
=============================================================================
