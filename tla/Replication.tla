----------------------------- MODULE Replication -----------------------------
(***************************************************************************)
(* How the nodes of a cluster keep each other's caches up to date: Set,    *)
(* Delete and the fills of Get (cache/group.go), carried to other nodes by *)
(* the workers of SyncPool through Client and Server, for one key.         *)
(*                                                                         *)
(* A value is named by the operation that wrote it, SourceValue is what    *)
(* the getter reads.  Every node picks its peers from a ring that leaves   *)
(* itself out (ClientPicker never adds selfAddr), so no two nodes pick the *)
(* same two peers.  Which nodes there are changes in Migration.            *)
(***************************************************************************)
EXTENDS Peers

CONSTANTS
  Workers, BufferCap, NoTask,   \* of each node's SyncPool
  MaxOps,     \* bound: client Sets and Deletes
  MaxGets,    \* bound: Gets that miss
  MaxTrouble  \* bound: RPCs refused, lost or given up on while under way, and
              \*   calls made while others are under way, together

Ops == 1..MaxOps

ASSUME BoundsAssumption ==
  MaxOps \in Nat /\ MaxTrouble \in Nat /\ NoTask \notin Ops

SourceValue == 0
Nothing == MaxOps + 1       \* "not in the cache"

VARIABLES
  closed, done, admitted, syncTasks, wpc, task, finished, dropped, late,
  up,        \* nodes that run
  cache,     \* cache[n]: the value of the key in n's mainCache
  opKind,    \* opKind[i]: what the i-th client call is
  todo,      \* todo[n][w]: peers worker w of n still has to call
  stray,     \* <<peer, op>>: requests not yet served whose caller gave up
  fills,     \* fills[i]: what the i-th Get that missed is to add, and where
  trouble,   \* RPCs that went wrong and calls that overlapped so far
  lossy,     \* whether an RPC went wrong (history)
  doomed     \* writes that had returned when some Delete was called (history)

poolVars == <<closed, done, admitted, syncTasks, wpc, task, finished, dropped,
              late>>
dataVars == <<poolVars, cache, opKind, todo, stray, fills, lossy, doomed>>

Pool == INSTANCE SyncPool WITH Groups <- Nodes, Tasks <- Ops, Stuck <- {}

Issued == {i \in Ops : opKind[i] # "none"}

TypeOK ==
  /\ Pool!TypeOK
  /\ cache \in [Nodes -> {Nothing, SourceValue} \cup Ops]
  /\ opKind \in [Ops -> {"none", "set", "delete"}]
  /\ \A n \in Nodes, w \in Workers : todo[n][w] \subseteq Nodes
  /\ stray \subseteq Nodes \X Ops
  /\ fills \in Seq([node : Nodes, val : {Nothing, SourceValue} \cup Ops])
  /\ trouble \in 0..MaxTrouble /\ lossy \in BOOLEAN
  /\ doomed \subseteq Ops /\ up \subseteq Nodes

DataInit ==
  /\ Pool!Init
  /\ cache = [n \in Nodes |-> Nothing]
  /\ opKind = [i \in Ops |-> "none"]
  /\ todo = [n \in Nodes |-> [w \in Workers |-> {}]]
  /\ stray = {}
  /\ fills = <<>>
  /\ trouble = 0 /\ lossy = FALSE
  /\ doomed = {}

(* No call is under way anywhere, but for what ended with its node.        *)
Quiet ==
  /\ \A n \in up :
       /\ admitted[n] = {}
       /\ syncTasks[n] = <<>>
       /\ \A w \in Workers : wpc[n][w] = "select"
  /\ \A r \in stray : r[1] \notin up
  /\ \A i \in DOMAIN fills : fills[i].node \in up => fills[i].val = Nothing

-----------------------------------------------------------------------------
PickedSet(n) == Members(Picked(n))

(* FAULTY: a set is sent to the primary only.                              *)
Targets_PrimaryOnly(n, i) ==
  IF opKind[i] = "set" THEN Members(SubSeq(Picked(n), 1, 1))
                       ELSE AllPeers(n)

(* FAULTY: a delete is sent to the owners, as a set is.                    *)
Targets_OwnersOnly(n, i) == PickedSet(n)

(* The peers processSyncTask calls: syncToPeersWithReplica for a set,      *)
(* broadcastDelete for a delete.                                           *)
Targets(n, i) == IF opKind[i] = "set" THEN PickedSet(n) ELSE AllPeers(n)

(* Those it may call next.  A set goes to the primary first, which is the  *)
(* first on the ring; GetAllPeers ranges over a Go map, in any order.      *)
Callees(n, w) ==
  {p \in todo[n][w] : opKind[task[n][w]] = "set" => p = FirstTwo(todo[n][w])[1]}

(* FAULTY: the from_peer mark is lost on the way, so the handler takes the *)
(* call for a client's and passes it on.                                   *)
PassedOn_Echo(p, i) == {<<q, i>> : q \in PickedSet(p)}

(* What the handler of a call marked from_peer sends on: nothing.          *)
PassedOn(p, i) == {}

ValueOf(i) == IF opKind[i] = "set" THEN i ELSE Nothing

-----------------------------------------------------------------------------
(* Set or Delete of a client on node n, up to the offer to the channel:    *)
(* the local cache is written first.                                       *)
Write(n, kind) ==
  /\ n \in up /\ Issued # Ops
  /\ LET i == Cardinality(Issued) + 1 IN
       /\ Pool!Admit(n, i)
       /\ opKind' = [opKind EXCEPT ![i] = kind]
       /\ cache' = [cache EXCEPT ![n] = IF kind = "set" THEN i ELSE Nothing]
       /\ doomed' = IF kind = "set" THEN doomed
                    ELSE Issued \ UNION {admitted[q] : q \in Nodes}
  /\ UNCHANGED <<todo, stray, fills, lossy>>

(* The offer; the call returns.                                            *)
Offer(n, i) ==
  /\ n \in up /\ Pool!Submit(n, i)
  /\ UNCHANGED <<cache, opKind, todo, stray, fills, trouble, lossy, doomed>>

(* A worker receives a task and looks up whom to call.                     *)
Begin(n, w) ==
  /\ Pool!Take(n, w)
  /\ todo' = [todo EXCEPT ![n][w] = Targets(n, Head(syncTasks[n]))]
  /\ UNCHANGED <<cache, opKind, stray, fills, trouble, lossy, doomed>>

(* The next peer is called.  Its handler runs Group.Set or Group.Delete    *)
(* with the mark from_peer, and the answer comes back.                     *)
CallServed(n, w) ==
  /\ \E p \in Callees(n, w) \cap up :
       /\ cache' = [cache EXCEPT ![p] = ValueOf(task[n][w])]
       /\ stray' = stray \cup PassedOn(p, task[n][w])
       /\ todo' = [todo EXCEPT ![n][w] = @ \ {p}]
  /\ UNCHANGED <<poolVars, opKind, fills, trouble, lossy, doomed>>

(* The call fails: the peer never serves it, or serves it after the worker *)
(* has logged the error and gone on (the 3 s of Client.Delete are over, or *)
(* the connection broke).                                                  *)
CallFails(n, w) ==
  /\ trouble < MaxTrouble
  /\ \E p \in Callees(n, w) \cap up :
       /\ stray' \in {stray, stray \cup {<<p, task[n][w]>>}}
       /\ todo' = [todo EXCEPT ![n][w] = @ \ {p}]
  /\ trouble' = trouble + 1 /\ lossy' = TRUE
  /\ UNCHANGED <<poolVars, cache, opKind, fills, doomed>>

(* A node that is gone does not answer: Client.Delete gives up after 3 s,  *)
(* Client.Set, which has no deadline, never.                               *)
CallGivesUp(n, w) ==
  /\ \E p \in Callees(n, w) \ up :
       /\ opKind[task[n][w]] = "delete"
       /\ todo' = [todo EXCEPT ![n][w] = @ \ {p}]
  /\ UNCHANGED <<poolVars, cache, opKind, stray, fills, trouble, lossy, doomed>>

(* A peer serves a request nobody waits for any more.                      *)
ServeStray ==
  \E r \in stray :
    /\ r[1] \in up
    /\ cache' = [cache EXCEPT ![r[1]] = ValueOf(r[2])]
    /\ stray' = (stray \ {r}) \cup PassedOn(r[1], r[2])
    /\ UNCHANGED <<poolVars, opKind, todo, fills, trouble, lossy, doomed>>

(* processSyncTask returns.                                                *)
End(n, w) ==
  /\ todo[n][w] = {}
  /\ Pool!Finish(n, w)
  /\ UNCHANGED <<cache, opKind, todo, stray, fills, trouble, lossy, doomed>>

(* A Get that misses on n obtains a value: a picked peer's, when it has    *)
(* one and answers in time, or else the data source's.  (A peer that has   *)
(* none serves the call by a Get of its own.)                              *)
Fetch(n) ==
  /\ n \in up /\ cache[n] = Nothing
  /\ Len(fills) < MaxGets
  /\ \E v \in {cache[p] : p \in PickedSet(n) \cap up} \cup {SourceValue} :
       /\ v # Nothing
       /\ fills' = Append(fills, [node |-> n, val |-> v])
  /\ UNCHANGED <<poolVars, cache, opKind, todo, stray, lossy, doomed>>

(* load adds it to n's cache, whatever has happened to the key meanwhile.  *)
Fill(i) ==
  /\ fills[i].val # Nothing /\ fills[i].node \in up
  /\ cache' = [cache EXCEPT ![fills[i].node] = fills[i].val]
  /\ fills' = [fills EXCEPT ![i].val = Nothing]
  /\ UNCHANGED <<poolVars, opKind, todo, stray, trouble, lossy, doomed>>

WorkerStep(n, w) ==
  /\ n \in up
  /\ \/ Begin(n, w) \/ CallServed(n, w) \/ CallFails(n, w) \/ CallGivesUp(n, w)
     \/ End(n, w)

(* The steps by which calls already made go on.                            *)
CarryOn ==
  \/ \E n \in Nodes : \/ \E i \in Ops : Offer(n, i)
                      \/ \E w \in Workers : WorkerStep(n, w)
  \/ \E i \in DOMAIN fills : Fill(i)
  \/ ServeStray
=============================================================================
