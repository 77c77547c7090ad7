------------------------------ MODULE MCBilling ------------------------------
(***************************************************************************)
(* Instances of Billing for TLC.  Every agreement that is billed can have  *)
(* its row: the cfg files give at least as many SubIds as Customers and    *)
(* Profiles together.                                                      *)
(***************************************************************************)
EXTENDS Billing, TLC

ASSUME EnoughRows ==
  Cardinality(SubIds) >= Cardinality(Customers) + Cardinality(Profiles)

\* Nothing in Billing names a member of these sets.
Symmetry ==
  Permutations(Users) \cup Permutations(Workers) \cup Permutations(Customers)
    \cup Permutations(Profiles) \cup Permutations(SubIds)
=============================================================================
