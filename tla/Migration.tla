------------------------------ MODULE Migration ------------------------------
(***************************************************************************)
(* Nodes that join the cluster of Replication and nodes that leave it by   *)
(* GracefulShutdown, with the copies of the key that are then sent from    *)
(* node to node (cache/peers.go, cache/server.go).                         *)
(*                                                                         *)
(* A node that joins fetches the nodes there are and then registers; every *)
(* other node is told by its watch, sooner or later.  A node that has left *)
(* is not noticed by anyone: a DELETE event does not name it (Membership). *)
(* The keys of a group and then their values are read one by one; for one  *)
(* key that is one step, the read of its value.                            *)
(***************************************************************************)
EXTENDS Replication

CONSTANTS
  Scenarios   \* bound: which nodes run at first, which one may join, and which
              \*   one leave: records up, join, leave

ASSUME ScenarioAssumption ==
  \A s \in Scenarios :
    /\ s.up \subseteq Nodes /\ s.join \subseteq Nodes \ s.up /\ s.leave \subseteq s.up
    /\ \A n \in s.leave : s.up # {n}   \* the last node, whose copies nobody could
                                      \*   take over, does not leave

VARIABLES
  plan,      \* the join and the leave still to come
  came,      \* who has joined, and after which operation (history)
  news,      \* <<n, j>>: n is still to be told that j has registered
  mover,     \* mover[n]: the migrateDataToNewNode that runs on n
  away,      \* the MigrateDataAway that runs
  stale,     \* whether a copy sent was not the latest value (history)
  raced      \* writes that were on their way while a Delete was (history)

moveVars == <<plan, news, mover, away>>
histVars == <<came, stale>>
allVars == <<dataVars, trouble, up, view, moveVars, histVars, raced>>

NoMove == [step |-> "none"]

Values == {SourceValue} \cup Ops

MoveTypeOK ==
  /\ TypeOK
  /\ news \subseteq Nodes \X Nodes
  /\ mover \in [Nodes -> {NoMove} \cup [step : {"read", "mark"}, to : Nodes]
                         \cup [step : {"send"}, to : Nodes, val : Values]]
  /\ away \in {NoMove} \cup [step : {"read"}, from : Nodes, dests : SUBSET Nodes]
                       \cup [step : {"send"}, from : Nodes, dests : SUBSET Nodes,
                             to : Nodes, val : Values]
  /\ stale \in BOOLEAN /\ raced \subseteq Ops

Init ==
  /\ DataInit
  /\ \E s \in Scenarios :
       /\ up = s.up /\ ViewInit(s.up)
       /\ plan = [join |-> s.join, leave |-> s.leave]
  /\ news = {} /\ away = NoMove
  /\ mover = [n \in Nodes |-> NoMove]
  /\ came = [nodes |-> {}, after |-> 0] /\ stale = FALSE /\ raced = {}

(* No node comes or goes.                                                  *)
Steady ==
  /\ \A m \in news : m[1] \notin up
  /\ \A n \in up : mover[n] = NoMove
  /\ away = NoMove

(* A client makes a call, or a node begins to come or go.                  *)
Issue ==
  /\ (Quiet /\ Steady) \/ trouble < MaxTrouble
  /\ trouble' = IF Quiet /\ Steady THEN trouble ELSE trouble + 1

LastOp == Cardinality(Issued)

(* A copy arrives: Group.Set, which passes nothing on when the call is     *)
(* marked from_migration; or the call fails and the copy is lost.          *)
Deliver(n, v) ==
  \/ /\ cache' = [cache EXCEPT ![n] = v]
     /\ stale' = (stale \/ (Issued # {} /\ v # ValueOf(LastOp)))
     /\ UNCHANGED <<trouble, lossy, came>>
  \/ /\ trouble < MaxTrouble /\ trouble' = trouble + 1 /\ lossy' = TRUE
     /\ UNCHANGED <<cache, came, stale>>

-----------------------------------------------------------------------------
(* Server.Start on j, whose picker has fetched the nodes that run.         *)
Join(j) ==
  /\ Issue
  /\ j \in plan.join
  /\ plan' = [plan EXCEPT !.join = {}]
  /\ clients' = [clients EXCEPT ![j] = up]
  /\ up' = up \cup {j}
  /\ news' = {<<n, j>> : n \in {q \in up' : j \in Discovered(q, up')}}
  /\ came' = [nodes |-> {j}, after |-> LastOp]
  /\ UNCHANGED <<dataVars, listsSelf, unhealthy, mover, away, stale>>

(* handleWatchEvents on n: j is on the ring, unhealthy, and gets the data  *)
(* that is its own.                                                        *)
Discover(n, j) ==
  /\ n \in up /\ <<n, j>> \in news
  /\ news' = news \ {<<n, j>>}
  /\ clients' = [clients EXCEPT ![n] = @ \cup {j}]
  /\ unhealthy' = [unhealthy EXCEPT ![n] = @ \cup {j}]
  /\ mover' = [mover EXCEPT ![n] = [step |-> "read", to |-> j]]
  /\ UNCHANGED <<dataVars, trouble, listsSelf, up, plan, away, histVars>>

(* FAULTY: only healthy nodes are looked at, so never the new one.         *)
ShouldKeyBeOnNode_Healthy(n, q) == q \in PickedSet(n)

(* shouldKeyBeOnNode on n: GetN, healthy or not.                           *)
ShouldKeyBeOnNode(n, q) == q \in Members(FirstTwo(clients[n]))

Read(n) ==
  /\ n \in up /\ mover[n].step = "read"
  /\ LET j == mover[n].to IN
       mover' = [mover EXCEPT ![n] =
                   IF ShouldKeyBeOnNode(n, j) /\ cache[n] # Nothing
                     THEN [step |-> "send", to |-> j, val |-> cache[n]]
                     ELSE [step |-> "mark", to |-> j]]
  /\ UNCHANGED <<dataVars, trouble, up, view, plan, news, away, histVars>>

(* sendMigrateBatch.                                                       *)
Send(n) ==
  /\ n \in up /\ mover[n].step = "send" /\ mover[n].to \in up
  /\ Deliver(mover[n].to, mover[n].val)
  /\ mover' = [mover EXCEPT ![n] = [step |-> "mark", to |-> mover[n].to]]
  /\ UNCHANGED <<poolVars, opKind, todo, stray, fills, doomed, up, view, plan,
                 news, away>>

(* MarkHealthy: n routes to the new node from now on.                      *)
Mark(n) ==
  /\ n \in up /\ mover[n].step = "mark"
  /\ unhealthy' = [unhealthy EXCEPT ![n] = @ \ {mover[n].to}]
  /\ mover' = [mover EXCEPT ![n] = NoMove]
  /\ UNCHANGED <<dataVars, trouble, up, listsSelf, clients, plan, news, away, histVars>>

-----------------------------------------------------------------------------
(* FAULTY: the key is handed to the next node only.                        *)
Heirs_First(n) == {FirstTwo(clients[n] \ {n})[1]}

(* Where MigrateDataAway on n sends the key: GetN, but for selfAddr.       *)
Heirs(n) == Members(FirstTwo(clients[n]))

(* GracefulShutdown on n; first MigrateDataAway collects the keys.         *)
Leave(n) ==
  /\ Issue
  /\ n \in plan.leave
  /\ plan' = [plan EXCEPT !.leave = {}]
  /\ away' = [step |-> "read", from |-> n,
              dests |-> IF cache[n] = Nothing THEN {} ELSE Heirs(n)]
  /\ UNCHANGED <<dataVars, up, view, news, mover, histVars>>

AwayRead ==
  /\ away.step = "read"
  /\ LET v == cache[away.from] IN
       \E d \in away.dests :
         away' = IF v = Nothing THEN [away EXCEPT !.dests = @ \ {d}]
                 ELSE [step |-> "send", from |-> away.from,
                       dests |-> away.dests \ {d}, to |-> d, val |-> v]
  /\ UNCHANGED <<dataVars, trouble, up, view, plan, news, mover, histVars>>

AwaySend ==
  /\ away.step = "send" /\ away.to \in up
  /\ Deliver(away.to, away.val)
  /\ away' = [step |-> "read", from |-> away.from, dests |-> away.dests]
  /\ UNCHANGED <<poolVars, opKind, todo, stray, fills, doomed, up, view, plan,
                 news, mover>>

(* Stop, ClientPicker.Close and the end of the process.  The tasks in its  *)
(* channel are lost.                                                       *)
AwayStop ==
  /\ away.step = "read" /\ away.dests = {}
  /\ up' = up \ {away.from}
  /\ away' = NoMove
  /\ UNCHANGED <<dataVars, trouble, view, plan, news, mover, histVars>>

-----------------------------------------------------------------------------
(* Operations of the given kind that some node has still to be told of.    *)
UnderWay(kind) ==
  {i \in Issued : opKind[i] = kind /\
     \/ \E n \in up : \/ i \in admitted[n] \/ i \in Members(syncTasks[n])
                      \/ \E w \in Workers : task[n][w] = i
     \/ \E r \in stray : r[2] = i}

(* Values that may still be written somewhere.                             *)
OnTheirWay ==
  IF ~Steady THEN Issued
  ELSE UnderWay("set") \cup ({fills[i].val : i \in DOMAIN fills} \cap Ops)

MoverStep(n) == Read(n) \/ Send(n) \/ Mark(n)
AwayStep == AwayRead \/ AwaySend \/ AwayStop

Begins ==
  \E n \in Nodes :
    \/ /\ Issue
       /\ Fetch(n) \/ \E kind \in {"set", "delete"} : Write(n, kind)
       /\ UNCHANGED <<up, view, moveVars, histVars>>
    \/ Join(n)
    \/ Leave(n)

GoesOn ==
  \/ CarryOn /\ UNCHANGED <<up, view, moveVars, histVars>>
  \/ \E n \in Nodes : MoverStep(n) \/ \E j \in Nodes : Discover(n, j)
  \/ AwayStep

NoteRaces ==
  raced' = IF UnderWay("delete") = {} THEN raced ELSE raced \cup OnTheirWay

Next == (Begins \/ GoesOn) /\ NoteRaces

Spec == Init /\ [][Next]_allVars

(* Clients are free to stop; what has begun goes on somewhere, as long as  *)
(* it can: goroutines run, every RPC to a node that runs is served or      *)
(* fails, and etcd delivers its events.                                    *)
FairSpec == Spec /\ WF_allVars(GoesOn /\ NoteRaces)

-----------------------------------------------------------------------------
Settled == Quiet /\ Steady

NothingLost == ~lossy /\ \A n \in Nodes : dropped[n] = {}

(* The two nodes a reader expects a key on: the first two that run.        *)
Owners == FirstTwo(up)

(* Although every node may leave itself out of its ring, and so pick two   *)
(* peers of its own, a Set made on any node ends up on both owners, and    *)
(* stays on the owners there are after a node has joined, or has left by   *)
(* GracefulShutdown ("no cached data is lost", server.go:175), when calls, *)
(* joins and leaves do not overlap, none is lost and no copy sent was old. *)
(* A node that takes itself for a peer hands its copy to the first of the  *)
(* other two only (peers.go:319-321).                                      *)
OwnersHoldLastSet ==
  Settled /\ trouble = 0 /\ NothingLost /\ ~stale
    /\ Issued # {} /\ opKind[LastOp] = "set" =>
    \A i \in DOMAIN Owners :
      cache[Owners[i]] = LastOp \/ (i = 2 /\ listsSelf /\ \E n \in up : clients[n] \ up # {})

(* A node that has joined is not routed to before it has the key: once the *)
(* node n has marked it healthy, and n holds some Set, the last one is     *)
(* there, although other nodes may not have heard of it yet (peers.go:154, *)
(* 400, 435).  Not so when another node sends it an older copy afterwards, *)
(* which overwrites the newer one: nothing compares them (group.go:247).   *)
OnlineNodeHasKey ==
  Quiet /\ trouble = 0 /\ NothingLost /\ ~stale /\ LastOp = came.after =>
    \A n \in up : \A j \in PickedSet(n) \cap came.nodes :
      cache[n] \in Ops => cache[j] = LastOp

(* group.go:342: broadcastDelete "solves the dirty copies that cross-node  *)
(* Gets leave behind".  When everything has settled and nothing was lost,  *)
(* no node holds a value whose write had returned before a Delete was      *)
(* called, unless that value was on its way while the Delete was: fetched  *)
(* by a Get (group.go:156), in a task the Delete overtook (394), or in a   *)
(* copy sent for a node that came or went (peers.go:409).                  *)
NoDirtyCopy ==
  Settled /\ NothingLost => \A n \in up : cache[n] \notin doomed \ raced

(* Propagation ends: no call is passed on for ever between the nodes, even *)
(* when answers are lost and calls overlap (server.go:187, the from-peer   *)
(* mark), and every join and leave comes to its end.  But a Set to a node  *)
(* that has left waits for it for ever (client.go:111).                    *)
PropagationEnds ==
  <>[](Steady /\ (Quiet \/ \E n \in up : clients[n] \ up # {}))
=============================================================================
