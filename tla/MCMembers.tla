------------------------------ MODULE MCMembers ------------------------------
(***************************************************************************)
(* Instances of Members for TLC.                                           *)
(***************************************************************************)
EXTENDS Members, TLC

\* Nothing in Members names a member of these sets.
Symmetry == Permutations(Names) \cup Permutations(Emails) \cup Permutations(Workers)
=============================================================================
