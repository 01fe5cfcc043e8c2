------------------------------ MODULE HashRing ------------------------------
(***************************************************************************)
(* The ring of consistenthash/con_hash.go: nodes stand on it at Replicas   *)
(* points each (virtual nodes); a key belongs to the nodes met clockwise   *)
(* from its own hash.  A balancer looks at the ring every second.          *)
(*                                                                         *)
(* vhash is HashFunc of "node-i", any function without collisions; it      *)
(* never changes.  Every method holds m.mu, so a call is one step; only    *)
(* the balancer lets go of it between its steps.  As ClientPicker does, a  *)
(* node is added only if it is not there.                                  *)
(***************************************************************************)
EXTENDS Naturals, FiniteSets, SequencesExt

CONSTANTS
  Nodes,
  NoNode,              \* the empty string: what hashMap has for other hashes
  Replicas,            \* config.DefaultReplicas
  MinReplicas, MaxReplicas,
  Points,              \* the hashes: 0..Points-1
  ThresholdPercent,    \* 100 * config.LoadBalanceThreshold
  MinRequests,         \* 1000: the balancer leaves fewer requests alone
  MaxRequests          \* bound: requests counted

ASSUME ReplicasAssumption == Replicas \in Nat \ {0} /\ Points \in Nat \ {0}
ASSUME NodeAssumption == NoNode \notin Nodes
ASSUME CountAssumption == MaxRequests \in Nat

VARIABLES
  vhash,
  keys, hashMap, nodeReplicas, unhealthyNodes,
  nodeCounts, totalRequests,
  balancer,   \* where checkAndRebalance is; "stuck": in Remove, for m.mu
  seenTotal   \* the total it has read

ring == <<keys, hashMap, nodeReplicas, unhealthyNodes>>
load == <<nodeCounts, totalRequests>>
ringVars == <<vhash, ring, load, balancer, seenTotal>>

Hashes == 0..(Points - 1)
Virtual == Nodes \X (0..(Replicas - 1))
Members == DOMAIN nodeReplicas

RingTypeOK ==
  /\ vhash \in [Virtual -> Hashes]
  /\ keys \in Seq(Hashes)
  /\ DOMAIN hashMap \subseteq Hashes /\ Range(hashMap) \subseteq Nodes
  /\ Members \subseteq Nodes /\ Range(nodeReplicas) \subseteq {Replicas}
  /\ unhealthyNodes \subseteq Nodes
  /\ DOMAIN nodeCounts = Members /\ Range(nodeCounts) \subseteq 0..MaxRequests
  /\ totalRequests \in 0..MaxRequests
  /\ balancer \in {"idle", "checking", "rebalancing", "stuck"}
  /\ seenTotal \in 0..MaxRequests

Nothing == [x \in {} |-> x]

RingInit ==
  /\ vhash \in [Virtual -> Hashes]
  /\ \A u, v \in Virtual : vhash[u] = vhash[v] => u = v
  /\ keys = <<>> /\ hashMap = Nothing /\ nodeReplicas = Nothing
  /\ unhealthyNodes = {}
  /\ nodeCounts = Nothing /\ totalRequests = 0
  /\ balancer = "idle" /\ seenTotal = 0

-----------------------------------------------------------------------------
(* The numbers of S from the least to the greatest.                        *)
InOrder(S) ==
  [k \in 1..Cardinality(S) |->
     CHOOSE x \in S : Cardinality({y \in S : y < x}) = k - 1]

(* What the ring answers to a key with hash h.                             *)

AtHash(x) == IF x \in DOMAIN hashMap THEN hashMap[x] ELSE NoNode

Start(h) ==
  IF \E i \in DOMAIN keys : keys[i] >= h
    THEN CHOOSE i \in DOMAIN keys :
           keys[i] >= h /\ \A j \in 1..(i - 1) : keys[j] < h
    ELSE 1

(* The nodes at the points of the ring from h on, all the way round.       *)
Walk(h) ==
  LET nodes == [i \in DOMAIN keys |-> AtHash(keys[i])]
  IN  SubSeq(nodes, Start(h), Len(keys)) \o SubSeq(nodes, 1, Start(h) - 1)

(* Where the walk meets a node, not one to be skipped, for the first time. *)
FirstMet(w, skipped) ==
  {i \in DOMAIN w : w[i] \notin skipped /\ \A j \in 1..(i - 1) : w[j] # w[i]}

(* The first n different nodes of the walk, without the skipped ones.      *)
FirstN(h, n, skipped) ==
  LET w == Walk(h)
      at == InOrder(FirstMet(w, skipped))
  IN  [i \in DOMAIN at \cap (1..n) |-> w[at[i]]]

GetN(h, n) == FirstN(h, n, {})

(* FAULTY: unhealthy nodes count towards n.                                *)
GetNHealthy_CountsAll(h, n) ==
  SelectSeq(GetN(h, n), LAMBDA node : node \notin unhealthyNodes)

GetNHealthy(h, n) == FirstN(h, n, unhealthyNodes)

(* GetHealthy: the first healthy node, or the one at which as many         *)
(* different nodes have been seen as there are.                            *)
GetHealthy(h) ==
  LET w == Walk(h)
      Stops(i) == \/ w[i] \notin unhealthyNodes
                  \/ Cardinality(ToSet(SubSeq(w, 1, i))) >= Cardinality(Members)
  IN  IF \E i \in DOMAIN w : Stops(i)
        THEN w[CHOOSE i \in DOMAIN w : Stops(i) /\ \A j \in 1..(i-1) : ~Stops(j)]
        ELSE NoNode

(* Every node a key with hash h can reach, nearest first.                  *)
Order(h) == GetN(h, Cardinality(Members) + 1)

-----------------------------------------------------------------------------
(* m.mu is free for a call.                                                *)
Free == balancer # "stuck"

HashesOf(n) == [i \in 1..Replicas |-> vhash[<<n, i - 1>>]]

(* addNode, without the sort its callers owe the ring.                     *)
Placed(n) == keys \o HashesOf(n)

(* Go's f[x] = v for every x of S.                                         *)
With(f, S, v) ==
  [x \in DOMAIN f \cup S |-> IF x \in S THEN v ELSE f[x]]

(* FAULTY: the new points stay where they were appended.                   *)
Add_Unsorted(n) ==
  /\ Free /\ n \notin Members
  /\ keys' = Placed(n)
  /\ hashMap' = With(hashMap, ToSet(HashesOf(n)), n)
  /\ nodeReplicas' = With(nodeReplicas, {n}, Replicas)
  /\ nodeCounts' = With(nodeCounts, {n} \ DOMAIN nodeCounts, 0)
  /\ UNCHANGED <<vhash, unhealthyNodes, totalRequests, balancer, seenTotal>>

(* Add; sort.Ints of hashes all different.                                 *)
Add(n) ==
  /\ Free /\ n \notin Members
  /\ keys' = InOrder(ToSet(Placed(n)))
  /\ hashMap' = With(hashMap, ToSet(HashesOf(n)), n)
  /\ nodeReplicas' = With(nodeReplicas, {n}, Replicas)
  /\ nodeCounts' = With(nodeCounts, {n} \ DOMAIN nodeCounts, 0)
  /\ UNCHANGED <<vhash, unhealthyNodes, totalRequests, balancer, seenTotal>>

(* FAULTY: the last point of the node is left on the ring.                 *)
RemoveNode_OneLeft(n) ==
  /\ Free /\ n \in Members
  /\ keys' = FoldLeft(RemoveFirst, keys, Tail(HashesOf(n)))
  /\ hashMap' = Restrict(hashMap, DOMAIN hashMap \ ToSet(HashesOf(n)))
  /\ nodeReplicas' = Restrict(nodeReplicas, Members \ {n})
  /\ nodeCounts' = Restrict(nodeCounts, Members \ {n})
  /\ unhealthyNodes' = unhealthyNodes \ {n}
  /\ UNCHANGED <<vhash, totalRequests, balancer, seenTotal>>

(* Remove.  Each hash is taken off the ring once.                          *)
RemoveNode(n) ==
  /\ Free /\ n \in Members
  /\ keys' = FoldLeft(RemoveFirst, keys, HashesOf(n))
  /\ hashMap' = Restrict(hashMap, DOMAIN hashMap \ ToSet(HashesOf(n)))
  /\ nodeReplicas' = Restrict(nodeReplicas, Members \ {n})
  /\ nodeCounts' = Restrict(nodeCounts, Members \ {n})
  /\ unhealthyNodes' = unhealthyNodes \ {n}
  /\ UNCHANGED <<vhash, totalRequests, balancer, seenTotal>>

MarkUnhealthy(n) ==
  /\ Free
  /\ unhealthyNodes' = unhealthyNodes \cup {n}
  /\ UNCHANGED <<vhash, keys, hashMap, nodeReplicas, load, balancer, seenTotal>>

MarkHealthy(n) ==
  /\ Free
  /\ unhealthyNodes' = unhealthyNodes \ {n}
  /\ UNCHANGED <<vhash, keys, hashMap, nodeReplicas, load, balancer, seenTotal>>

(* Get and GetHealthy count the request for the node they return.          *)
Count(node) ==
  /\ totalRequests < MaxRequests
  /\ totalRequests' = totalRequests + 1
  /\ nodeCounts' = [n \in DOMAIN nodeCounts |->
                      nodeCounts[n] + IF n = node THEN 1 ELSE 0]
  /\ UNCHANGED <<vhash, ring, balancer, seenTotal>>

Get(h) == Free /\ keys # <<>> /\ Count(Head(Walk(h)))

GetHealthyCounted(h) ==
  /\ Free /\ keys # <<>>
  /\ GetHealthy(h) \notin unhealthyNodes
  /\ Count(GetHealthy(h))

-----------------------------------------------------------------------------
(* The balancer.  avgLoad is total / nodes; fractions are cleared.         *)

Distance(a, b) == IF a > b THEN a - b ELSE b - a

Uneven(total) ==
  \E n \in Members :
    100 * Distance(nodeCounts[n] * Cardinality(Members), total)
      > ThresholdPercent * total

NewReplicas(n) ==
  LET share == nodeCounts[n] * Cardinality(Members)
      wanted == IF share > totalRequests
                  THEN (nodeReplicas[n] * totalRequests) \div share
                  ELSE (nodeReplicas[n] * (2 * totalRequests - share))
                         \div totalRequests
  IN  IF wanted > MaxReplicas THEN MaxReplicas
      ELSE IF wanted < MinReplicas THEN MinReplicas ELSE wanted

(* checkAndRebalance reads the total before it takes m.mu.                 *)
ReadTotal ==
  /\ balancer = "idle" /\ totalRequests >= MinRequests
  /\ balancer' = "checking" /\ seenTotal' = totalRequests
  /\ UNCHANGED <<vhash, ring, load>>

CheckLoad ==
  /\ balancer = "checking"
  /\ balancer' = IF Uneven(seenTotal) THEN "rebalancing" ELSE "idle"
  /\ seenTotal' = 0
  /\ UNCHANGED <<vhash, ring, load>>

(* rebalanceNodes.  If a node is to have other replicas it calls Remove,   *)
(* which locks m.mu, with m.mu locked.                                     *)
Rebalance ==
  /\ balancer = "rebalancing"
  /\ IF \E n \in Members : NewReplicas(n) # nodeReplicas[n]
       THEN balancer' = "stuck" /\ UNCHANGED load
       ELSE /\ balancer' = "idle"
            /\ nodeCounts' = [n \in Members |-> 0]
            /\ totalRequests' = 0
  /\ UNCHANGED <<vhash, ring, seenTotal>>

Balance == ReadTotal \/ CheckLoad \/ Rebalance

RingNext ==
  \/ \E n \in Nodes : Add(n) \/ RemoveNode(n) \/ MarkUnhealthy(n) \/ MarkHealthy(n)
  \/ \E h \in Hashes : Get(h) \/ GetHealthyCounted(h)
  \/ Balance

RingSpec == RingInit /\ [][RingNext]_ringVars

-----------------------------------------------------------------------------
(* A walk from any hash meets exactly the nodes that were added and not    *)
(* removed, so n nodes are found whenever there are n.                     *)
LookupsReachMembers == \A h \in Hashes : ToSet(Order(h)) = Members

(* How far clockwise from h a point x is, and the nearest point of n.      *)
Clockwise(h, x) == IF x >= h THEN x - h ELSE x + Points - h
Reach(n, h) ==
  Min({Clockwise(h, vhash[<<n, i>>]) : i \in 0..(Replicas - 1)})

(* Consistent hashing: whatever joined and left, the nodes of a key stand  *)
(* in the order of their own distance from it, which no other node can     *)
(* change: a join or a departure moves nothing between the others.         *)
NearestFirst ==
  \A h \in Hashes :
    LET o == Order(h) IN
      \A i \in 1..(Len(o) - 1) : Reach(o[i], h) < Reach(o[i + 1], h)

(* Failover: when the primary of a key becomes unhealthy, the replica it   *)
(* had becomes its primary; a key that has another primary keeps it.       *)
TakesOver(n, h) ==
  LET two == GetNHealthy(h, 2)
      left == {i \in DOMAIN two : two[i] # n}
  IN  GetNHealthy(h, 1)' = IF left = {} THEN <<>> ELSE <<two[Min(left)]>>

ReplicaTakesOver ==
  [][\A n \in Members \ unhealthyNodes : n \in unhealthyNodes' =>
       \A h \in Hashes : TakesOver(n, h)]_ringVars
=============================================================================
