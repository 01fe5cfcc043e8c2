-------------------------------- MODULE Store --------------------------------
(***************************************************************************)
(* What the two stores of store/, LruList and TwoLevel, are both about.    *)
(***************************************************************************)
CONSTANT Keys
=============================================================================
