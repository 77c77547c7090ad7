------------------------------ MODULE MCMailbox ------------------------------
(***************************************************************************)
(* Instances of Mailbox for TLC.                                           *)
(***************************************************************************)
EXTENDS Mailbox, TLC

\* Nothing in Mailbox names a worker or a user.
Symmetry == Permutations(Workers) \cup Permutations(Subscribers)
              \cup Permutations(Users \ Subscribers)
=============================================================================
