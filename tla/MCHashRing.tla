----------------------------- MODULE MCHashRing -----------------------------
(***************************************************************************)
(* Instances of HashRing.  Every placement of the virtual nodes on a ring  *)
(* with as many points as there are virtual nodes is an initial state.     *)
(***************************************************************************)
EXTENDS HashRing

(* The nodes play the same part.                                           *)
Symmetry == Permutations(Nodes)
=============================================================================
