----------------------------- MODULE MCLruSlab -----------------------------
(***************************************************************************)
(* LruSlab on a small instance: four nodes (a head, a tail and two between)*)
(* and one key more, so that nodes are taken over.                         *)
(***************************************************************************)
EXTENDS LruSlab, TLC

Symmetry == Permutations(Keys) \cup Permutations(Vals)
=============================================================================
