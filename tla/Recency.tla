------------------------------- MODULE Recency -------------------------------
(***************************************************************************)
(* What put, get and del of store/lru2.go's cache struct mean, on the      *)
(* sequence of its entries from the head of the list (used last) to its    *)
(* tail.  An entry is [k, v, e]; e, the expiration time, is 0 once the     *)
(* entry is deleted: a deleted entry stays in the list until its place is  *)
(* needed.                                                                 *)
(***************************************************************************)
EXTENDS Naturals, SequencesExt

Deleted == 0

KeysIn(s) == {s[i].k : i \in DOMAIN s}
PlaceOf(s, k) == CHOOSE i \in DOMAIN s : s[i].k = k
EntryOf(s, k) == s[PlaceOf(s, k)]
Without(s, k) == IF k \in KeysIn(s) THEN RemoveAt(s, PlaceOf(s, k)) ELSE s

Live(x) == x.e # Deleted
HasLive(s, k) == k \in KeysIn(s) /\ Live(EntryOf(s, k))

Full(s, cap) == Len(s) = cap

(* The entry that put(k, ...) pushes out.                                  *)
Pushes(s, cap, k) == k \notin KeysIn(s) /\ Full(s, cap)
PushedOut(s) == s[Len(s)]

PutIn(s, cap, x) ==
  <<x>> \o IF Pushes(s, cap, x.k) THEN SubSeq(s, 1, Len(s) - 1)
           ELSE Without(s, x.k)

(* get: found even when deleted, and moved to the head all the same.       *)
GetFrom(s, k) ==
  IF k \in KeysIn(s) THEN <<EntryOf(s, k)>> \o Without(s, k) ELSE s

(* del: a live entry is marked and moved to the tail.                      *)
DelFrom(s, k) ==
  IF HasLive(s, k)
    THEN Append(Without(s, k), [EntryOf(s, k) EXCEPT !.e = Deleted])
    ELSE s
=============================================================================
