------------------------------- MODULE LruSlab -------------------------------
(***************************************************************************)
(* The cache struct of store/lru2.go: a doubly linked list kept in arrays. *)
(*                                                                         *)
(* Node i of the list is m[i] with the links dlnk[i].  dlnk[0] is the      *)
(* sentinel: its n is the head and its p the tail.  hmap finds a key's     *)
(* node.  Nodes are handed out in order until all are used; after that put *)
(* takes the tail's.  (The code indexes m from 0, dlnk from 1.)            *)
(***************************************************************************)
EXTENDS Naturals, Sequences

CONSTANTS
  Keys, Vals,
  Times,      \* expiration times put is called with
  Cap,        \* capacity: Options.CapPerBucket or Level2Cap
  None

ASSUME CapAssumption == Cap \in Nat \ {0}
ASSUME TimesAssumption == Times \subseteq Nat \ {0}

VARIABLES
  dlnk, m, hmap, last,
  reported    \* what the last operation gave to onEvicted, or None

vars == <<dlnk, m, hmap, last, reported>>

Nodes == 1..Cap
Absent == 0
NoEntry == [k |-> None, v |-> None, e |-> 0]

TypeOK ==
  /\ dlnk \in [0..Cap -> [p : 0..Cap, n : 0..Cap]]
  /\ m \in [Nodes -> [k : Keys, v : Vals, e : Times \cup {0}] \cup {NoEntry}]
  /\ hmap \in [Keys -> 0..Cap]
  /\ last \in 0..Cap
  /\ reported \in (Keys \X Vals) \cup {None}

(* Create                                                                  *)
Init ==
  /\ dlnk = [i \in 0..Cap |-> [p |-> 0, n |-> 0]]
  /\ m = [i \in Nodes |-> NoEntry]
  /\ hmap = [k \in Keys |-> Absent]
  /\ last = 0
  /\ reported = None

-----------------------------------------------------------------------------
(* FAULTY: the node that was first at the t end keeps its old f link.      *)
adjust_OneWay(d, idx, f, t) ==
  IF d[idx][f] = 0 THEN d
  ELSE LET d1 == [d  EXCEPT ![d[idx][t]][f] = d[idx][f]]
           d2 == [d1 EXCEPT ![d1[idx][f]][t] = d1[idx][t]]
           d3 == [d2 EXCEPT ![idx][f] = 0]
           d4 == [d3 EXCEPT ![idx][t] = d3[0][t]]
       IN  [d4 EXCEPT ![0][t] = idx]

(* adjust(idx, f, t): unlink node idx and put it at the t end; f and t are *)
(* "p" and "n" in one order or the other.                                  *)
adjust(d, idx, f, t) ==
  IF d[idx][f] = 0 THEN d
  ELSE LET d1 == [d  EXCEPT ![d[idx][t]][f] = d[idx][f]]
           d2 == [d1 EXCEPT ![d1[idx][f]][t] = d1[idx][t]]
           d3 == [d2 EXCEPT ![idx][f] = 0]
           d4 == [d3 EXCEPT ![idx][t] = d3[0][t]]
           d5 == [d4 EXCEPT ![d4[0][t]][f] = idx]
       IN  [d5 EXCEPT ![0][t] = idx]

ToHead(idx) == adjust(dlnk, idx, "p", "n")
ToTail(idx) == adjust(dlnk, idx, "n", "p")

(* put of a key that has a node, deleted or not.                           *)
PutExisting(k, v, e) ==
  /\ hmap[k] # Absent
  /\ m' = [m EXCEPT ![hmap[k]].v = v, ![hmap[k]].e = e]
  /\ dlnk' = ToHead(hmap[k])
  /\ reported' = None
  /\ UNCHANGED <<hmap, last>>

(* FAULTY: the key that owned the tail's node can still be found.          *)
PutReusing_KeyKept(k, v, e) ==
  LET tail == dlnk[0].p IN
  /\ hmap[k] = Absent /\ last = Cap
  /\ reported' = IF m[tail].e > 0 THEN <<m[tail].k, m[tail].v>> ELSE None
  /\ hmap' = [hmap EXCEPT ![k] = tail]
  /\ m' = [m EXCEPT ![tail] = [k |-> k, v |-> v, e |-> e]]
  /\ dlnk' = ToHead(tail)
  /\ UNCHANGED last

(* put of a new key when all nodes are in use: the tail's is taken.        *)
PutReusing(k, v, e) ==
  LET tail == dlnk[0].p IN
  /\ hmap[k] = Absent /\ last = Cap
  /\ reported' = IF m[tail].e > 0 THEN <<m[tail].k, m[tail].v>> ELSE None
  /\ hmap' = [hmap EXCEPT ![m[tail].k] = Absent, ![k] = tail]
  /\ m' = [m EXCEPT ![tail] = [k |-> k, v |-> v, e |-> e]]
  /\ dlnk' = ToHead(tail)
  /\ UNCHANGED last

(* put of a new key into the next unused node.                             *)
PutFresh(k, v, e) ==
  LET i == last + 1
      d == IF \A j \in Keys : hmap[j] = Absent
             THEN [dlnk EXCEPT ![0].p = i]
             ELSE [dlnk EXCEPT ![dlnk[0].n].p = i]
  IN  /\ hmap[k] = Absent /\ last # Cap
      /\ last' = i
      /\ m' = [m EXCEPT ![i] = [k |-> k, v |-> v, e |-> e]]
      /\ dlnk' = [d EXCEPT ![i] = [p |-> 0, n |-> d[0].n], ![0].n = i]
      /\ hmap' = [hmap EXCEPT ![k] = i]
      /\ reported' = None

put(k, v, e) ==
  PutExisting(k, v, e) \/ PutReusing(k, v, e) \/ PutFresh(k, v, e)

(* get: the node is moved to the head before the caller looks at expireAt. *)
get(k) ==
  /\ hmap[k] # Absent
  /\ dlnk' = ToHead(hmap[k])
  /\ reported' = None
  /\ UNCHANGED <<m, hmap, last>>

(* del: a node that is not deleted yet is marked and moved to the tail.    *)
del(k) ==
  /\ hmap[k] # Absent
  /\ m[hmap[k]].e > 0
  /\ m' = [m EXCEPT ![hmap[k]].e = 0]
  /\ dlnk' = ToTail(hmap[k])
  /\ reported' = None
  /\ UNCHANGED <<hmap, last>>

Next ==
  \E k \in Keys :
    \/ \E v \in Vals, e \in Times : put(k, v, e)
    \/ get(k)
    \/ del(k)

Spec == Init /\ [][Next]_vars

-----------------------------------------------------------------------------
(* The nodes met from one end of the list, as many as are in use.          *)
WalkFrom(link) ==
  LET node[i \in 1..last] ==
        IF i = 1 THEN dlnk[0][link] ELSE dlnk[node[i - 1]][link]
  IN  node

(* walk visits the entries from the head on.                               *)
Listed ==
  [i \in 1..last |->
     IF WalkFrom("n")[i] = 0 THEN NoEntry ELSE m[WalkFrom("n")[i]]]

Abs == INSTANCE RecencyList WITH order <- Listed

(* put, get and del do to the linked list what they should do to a list in *)
(* order of use: same entries, same order, same eviction, same report to   *)
(* onEvicted (lru2.go:305-384).                                            *)
ImplementsRecencyList == Abs!AbsSpec

(* The list reads the same from both ends, whatever adjust has moved: no   *)
(* node is lost to one direction, so that the tail put evicts is the last  *)
(* entry walk would show.                                                  *)
BothWaysAgree ==
  \A i \in 1..last : WalkFrom("p")[i] = WalkFrom("n")[last + 1 - i]

(* hmap and the nodes name each other: no key finds another key's node     *)
(* after its own has been taken.                                           *)
MapMatchesNodes ==
  /\ \A k \in Keys : hmap[k] # Absent => m[hmap[k]].k = k
  /\ \A i \in 1..last : hmap[m[i].k] = i
=============================================================================
