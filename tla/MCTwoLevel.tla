----------------------------- MODULE MCTwoLevel -----------------------------
(***************************************************************************)
(* TwoLevel on a small instance: two keys over a level 0 of one place, so  *)
(* that it pushes entries out, a level 1 of two, and two expirations, so   *)
(* that a later Set can expire before an earlier one.                      *)
(***************************************************************************)
EXTENDS TwoLevel
=============================================================================
