---------------------------- MODULE MCMembership ----------------------------
(***************************************************************************)
(* Membership on a small instance: two peers and the node itself.          *)
(***************************************************************************)
EXTENDS Membership

CONSTANTS self, a, b
=============================================================================
