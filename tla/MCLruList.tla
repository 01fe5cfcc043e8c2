------------------------------ MODULE MCLruList ------------------------------
(***************************************************************************)
(* LruList on a small instance: two keys, two Gets, a limit that the two   *)
(* values together can pass.                                               *)
(***************************************************************************)
EXTENDS LruList

Elems5 == 1..5
=============================================================================
