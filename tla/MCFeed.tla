-------------------------------- MODULE MCFeed --------------------------------
(***************************************************************************)
(* Instances of Feed for TLC.                                              *)
(***************************************************************************)
EXTENDS Feed, TLC

\* There are dates for more than one page.
ASSUME PagesToTurn == MaxDates > PageSize

\* Nothing in Feed names a state.
Symmetry == Permutations(States)
=============================================================================
