----------------------------- MODULE MCRemoteGet -----------------------------
(***************************************************************************)
(* RemoteGet on two nodes, which always call each other, or, when they     *)
(* find themselves in etcd, the same two, one of them itself.  A call      *)
(* object per goroutine.                                                   *)
(***************************************************************************)
EXTENDS RemoteGet

CONSTANTS n1, n2

Nodes2 == {n1, n2}
Ring2 == <<n1, n2>>
=============================================================================
