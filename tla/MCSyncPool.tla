----------------------------- MODULE MCSyncPool -----------------------------
(***************************************************************************)
(* SyncPool on a small instance: one group (groups share nothing), a       *)
(* channel of two places, two workers and one task more than channel and   *)
(* workers can hold together, so that tasks are dropped.                   *)
(***************************************************************************)
EXTENDS SyncPool, TLC

Symmetry == Permutations(Workers) \cup Permutations(Tasks \ Stuck)
              \cup Permutations(Stuck)
=============================================================================
