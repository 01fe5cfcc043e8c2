----------------------------- MODULE MCMigration -----------------------------
(***************************************************************************)
(* Migration on four nodes, the fewest of which a Set leaves one out, of   *)
(* which the primary of the key may leave; on two nodes that a third one   *)
(* joins as primary; and on three of which one that owns nothing may leave.*)
(***************************************************************************)
EXTENDS Migration

CONSTANTS n1, n2, n3, n4

Nodes4 == {n1, n2, n3, n4}
Ring4 == <<n1, n2, n3, n4>>

Scenarios4 ==
  { [up |-> Nodes4, join |-> {}, leave |-> {n1}],
    [up |-> {n2, n3}, join |-> {n1}, leave |-> {}],
    [up |-> {n1, n2, n3}, join |-> {}, leave |-> {n3}] }
=============================================================================
