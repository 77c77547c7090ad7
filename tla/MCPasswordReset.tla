--------------------------- MODULE MCPasswordReset ---------------------------
(***************************************************************************)
(* Instances of PasswordReset for TLC.                                     *)
(***************************************************************************)
EXTENDS PasswordReset

\* A link can outlive its time, and does so before the clock stops.
ASSUME TimeForExpiry == MaxClock > Lifetime
=============================================================================
