----------------------------- MODULE RecencyList -----------------------------
(***************************************************************************)
(* What a level of the two-level store promises: a bounded list in order   *)
(* of use.  LruSlab, the linked list in an array, implements it.           *)
(***************************************************************************)
EXTENDS Recency

CONSTANTS Keys, Vals, Times, Cap, None

VARIABLES
  order,     \* the entries, the one used last first
  reported   \* what the last operation gave to onEvicted, or None

AbsInit == order = <<>> /\ reported = None

AbsPut(k, v, e) ==
  /\ order' = PutIn(order, Cap, [k |-> k, v |-> v, e |-> e])
  /\ reported' = IF Pushes(order, Cap, k) /\ Live(PushedOut(order))
                   THEN <<PushedOut(order).k, PushedOut(order).v>>
                   ELSE None

AbsGet(k) == order' = GetFrom(order, k) /\ reported' = None

AbsDel(k) == order' = DelFrom(order, k) /\ reported' = None

AbsNext ==
  \E k \in Keys :
    \/ \E v \in Vals, e \in Times : AbsPut(k, v, e)
    \/ AbsGet(k)
    \/ AbsDel(k)

AbsSpec == AbsInit /\ [][AbsNext]_<<order, reported>>
=============================================================================
