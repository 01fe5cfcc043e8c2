--------------------------- MODULE MCSingleFlight ---------------------------
(***************************************************************************)
(* SingleFlight on a small instance.  Three goroutines are enough for a    *)
(* leader, a follower and a newcomer between wg.Done and m.Delete; each    *)
(* goroutine refers to at most one call object, so as many objects as      *)
(* goroutines never run out (the address of a dead one is reused).         *)
(***************************************************************************)
EXTENDS SingleFlight, TLC

Symmetry == Permutations(Callers) \cup Permutations(Calls)
              \cup Permutations(Outcomes) \cup Permutations(Keys)
=============================================================================
