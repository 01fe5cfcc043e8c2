-------------------------------- MODULE Peers --------------------------------
(***************************************************************************)
(* Whom a node calls about the one key of RemoteGet, Replication and       *)
(* Migration (cache/peers.go).                                             *)
(***************************************************************************)
EXTENDS Naturals, Sequences, FiniteSets

CONSTANTS
  Nodes,   \* cache servers
  Ring     \* the nodes in the order the key meets them on the full ring

ASSUME RingAssumption ==
  /\ IsFiniteSet(Nodes)
  /\ Ring \in [1..Cardinality(Nodes) -> Nodes]
  /\ \A n \in Nodes : \E i \in 1..Len(Ring) : Ring[i] = n

VARIABLES
  listsSelf,   \* whether a node finds itself in etcd: Register puts the local
               \*   IP before an address ":port", and selfAddr stays ":port"
  clients,     \* clients[n]: the nodes in p.clients of n, and on its ring
  unhealthy    \* unhealthy[n]: those that are unhealthy

view == <<listsSelf, clients, unhealthy>>

(* What node n discovers among the nodes up: discovery skips selfAddr, so  *)
(* n is not on its own ring unless it is registered under another name.    *)
Discovered(n, up) == IF listsSelf THEN up ELSE up \ {n}

(* The nodes up have discovered each other, and are healthy.               *)
ViewInit(up) ==
  /\ listsSelf \in BOOLEAN
  /\ clients = [n \in Nodes |-> IF n \in up THEN Discovered(n, up) ELSE {}]
  /\ unhealthy = [n \in Nodes |-> {}]

(* Of the nodes S, the one the key meets first.                            *)
Nearest ==
  [S \in (SUBSET Nodes) \ {{}} |->
     Ring[CHOOSE i \in DOMAIN Ring :
            Ring[i] \in S /\ \A k \in DOMAIN Ring : k < i => Ring[k] \notin S]]

FirstTwo(S) ==
  IF S = {} THEN <<>>
  ELSE LET a == Nearest[S] IN
       IF S = {a} THEN <<a>> ELSE <<a, Nearest[S \ {a}]>>

Members(s) == {s[i] : i \in DOMAIN s}

(* PickPeerWithFallback on node n: primary, then replica.                  *)
Picked(n) == FirstTwo(clients[n] \ unhealthy[n])

(* GetAllPeers on node n.                                                  *)
AllPeers(n) == clients[n]
=============================================================================
