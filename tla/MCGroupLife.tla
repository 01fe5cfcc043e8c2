---------------------------- MODULE MCGroupLife -----------------------------
(***************************************************************************)
(* An instance of GroupLife.  The two keys share a bit of the filter, and  *)
(* the sum of a round wraps around the word.                               *)
(***************************************************************************)
EXTENDS GroupLife

CONSTANTS k1, k2

KeysDef == {k1, k2}
Hash1Def == [k \in Keys |-> IF k = k1 THEN 3 ELSE 7]
Hash2Def == [k \in Keys |-> IF k = k1 THEN 6 ELSE 3]
=============================================================================
