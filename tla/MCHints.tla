------------------------------- MODULE MCHints -------------------------------
(* Values of the constants of Hints for hints.cfg. *)
EXTENDS Hints, TLC

CONSTANTS s1, p1

==============================================================================
