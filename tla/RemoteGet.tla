------------------------------ MODULE RemoteGet ------------------------------
(***************************************************************************)
(* Group.Get across the nodes of a cluster, for one key: the local cache,  *)
(* the singleflight of the node (SingleFlight, one slot per node), the     *)
(* call of the primary, of the replica, and the getter.                    *)
(*                                                                         *)
(* The node that is called runs Group.Get itself: Client.Get carries no    *)
(* mark that says where the call comes from.  Where the ring of every node *)
(* leaves the node itself out, two nodes can call each other for the same  *)
(* key, and where it does not (listsSelf) a node can call itself.  The     *)
(* call then joins the flight that waits for its answer; the 3 s deadline  *)
(* of Client.Get ends that wait.                                           *)
(***************************************************************************)
EXTENDS Peers

CONSTANTS
  Threads,    \* goroutines: clients' calls and the handlers of calls
  Calls,      \* addresses of call objects (SingleFlight)
  MaxGets,    \* bound: Gets of clients
  MaxDown,    \* bound: nodes that stop
  GetterFails,   \* whether the data source may fail
  NoCall, NoNode, NoThread, Unset

ASSUME GetterAssumption == GetterFails \in BOOLEAN
ASSUME NoneAssumption ==
  /\ NoCall \notin Calls /\ NoNode \notin Nodes /\ NoThread \notin Threads
  /\ Unset \notin {"value", "error"}
ASSUME BoundAssumption == MaxGets \in Nat

VARIABLES
  m, released, val, panicked, pc, key, call,
  cached,    \* nodes whose mainCache holds the key
  result,    \* result[t]: what Do has returned to t, or Unset
  stage,     \* stage[t]: how far t is in Group.Get
  at,        \* at[t]: the node t runs on
  ask,       \* ask[t]: the position in Picked of the peer t's fn asks;
             \*   past the end it asks the getter
  child,     \* child[t]: the handler that serves t's call, or NoThread
  parent,    \* parent[t]: the thread that waits for handler t, or NoThread
  down,      \* nodes that have stopped
  gets       \* Gets clients have made

flightVars == <<m, released, val, panicked, pc, key, call>>
outer == <<down, view>>
vars == <<flightVars, cached, result, stage, at, ask, child, parent, gets, outer>>

Flight == INSTANCE SingleFlight WITH
            Callers <- Threads, Keys <- Nodes, NoKey <- NoNode,
            Outcomes <- {"value", "error"}

(* lookup: Get has begun; missed: the key was not in the cache; flight: in *)
(* loader.Do, or just out of it.                                           *)
Stages == {"free", "lookup", "missed", "flight"}

TypeOK ==
  /\ Flight!TypeOK
  /\ cached \subseteq Nodes
  /\ result \in [Threads -> {"value", "error", Unset}]
  /\ stage \in [Threads -> Stages]
  /\ at \in [Threads -> Nodes \cup {NoNode}]
  /\ ask \in [Threads -> 1..3]
  /\ child \in [Threads -> Threads \cup {NoThread}]
  /\ parent \in [Threads -> Threads \cup {NoThread}]
  /\ down \subseteq Nodes
  /\ gets \in 0..MaxGets

Init ==
  /\ Flight!Init
  /\ cached = {}
  /\ result = [t \in Threads |-> Unset]
  /\ stage = [t \in Threads |-> "free"]
  /\ at = [t \in Threads |-> NoNode]
  /\ ask = [t \in Threads |-> 1]
  /\ child = [t \in Threads |-> NoThread]
  /\ parent = [t \in Threads |-> NoThread]
  /\ down = {}
  /\ gets = 0
  /\ ViewInit(Nodes)

Runs(t) == stage[t] # "free" /\ at[t] \notin down

(* t's fn is about to ask a peer, is waiting for one, or has none left.    *)
InFn(t) == Runs(t) /\ stage[t] = "flight" /\ pc[t] = "run"

(* Goroutines and call objects are interchangeable: of the free ones,      *)
(* CHOOSE takes the same each time.                                        *)
FirstFree(t) == t = CHOOSE u \in Threads : stage[u] = "free"
FirstUnreferenced(c) == c = CHOOSE d \in Calls : Flight!Unreferenced(d)

HasPeer(t) == ask[t] <= Len(Picked(at[t]))

-----------------------------------------------------------------------------
(* A client calls Get on node n.                                           *)
ClientGet(t, n) ==
  /\ gets < MaxGets
  /\ stage[t] = "free" /\ FirstFree(t)
  /\ n \notin down
  /\ stage' = [stage EXCEPT ![t] = "lookup"]
  /\ at' = [at EXCEPT ![t] = n]
  /\ gets' = gets + 1
  /\ UNCHANGED <<flightVars, cached, result, ask, child, parent, outer>>

(* Get on t is over; with outcome o, if somebody still waits for it.  A    *)
(* peer's value is what the caller's fn returns; a peer's error makes the  *)
(* caller ask the next one.                                                *)
Answer(t, o) ==
  LET p == parent[t]
      waits == p # NoThread /\ at[p] \notin down
  IN  /\ stage' = [stage EXCEPT ![t] = "free"]
      /\ at' = [at EXCEPT ![t] = NoNode]
      /\ result' = [result EXCEPT ![t] = Unset]
      /\ parent' = [parent EXCEPT ![t] = NoThread]
      /\ child' = IF waits THEN [child EXCEPT ![p] = NoThread] ELSE child
      /\ IF waits /\ o = "value"
           THEN Flight!FnReturns(p, o)
           ELSE UNCHANGED flightVars
      /\ ask' = [u \in Threads |->
                   CASE u = t -> 1
                     [] waits /\ u = p /\ o # "value" -> ask[u] + 1
                     [] OTHER -> ask[u]]
      /\ UNCHANGED <<outer, gets>>

(* mainCache.Get: a hit is answered at once.                               *)
Lookup(t) ==
  /\ Runs(t) /\ stage[t] = "lookup"
  /\ IF at[t] \in cached
       THEN Answer(t, "value") /\ UNCHANGED cached
       ELSE /\ stage' = [stage EXCEPT ![t] = "missed"]
            /\ UNCHANGED <<flightVars, cached, result, at, ask, child, parent, outer,
                           gets>>

(* g.loader.Do                                                             *)
Load(t) ==
  /\ Runs(t) /\ stage[t] = "missed"
  /\ Flight!Do(t, at[t])
  /\ pc'[t] = "run" => FirstUnreferenced(call'[t])
  /\ stage' = [stage EXCEPT ![t] = "flight"]
  /\ ask' = [ask EXCEPT ![t] = 1]
  /\ UNCHANGED <<cached, result, at, child, parent, outer, gets>>

(* peer.Get reaches the peer, where goroutine c serves it.                 *)
CallPeer(t, c) ==
  /\ InFn(t) /\ HasPeer(t) /\ child[t] = NoThread
  /\ stage[c] = "free" /\ FirstFree(c)
  /\ \E q \in Nodes \ down :
       /\ q = Picked(at[t])[ask[t]]
       /\ at' = [at EXCEPT ![c] = q]
  /\ stage' = [stage EXCEPT ![c] = "lookup"]
  /\ parent' = [parent EXCEPT ![c] = t]
  /\ child' = [child EXCEPT ![t] = c]
  /\ UNCHANGED <<flightVars, cached, result, ask, outer, gets>>

(* FAULTY: the error of a peer is returned as the outcome of the load.     *)
CallFails_ErrorReturned(t) ==
  /\ InFn(t) /\ HasPeer(t) /\ child[t] = NoThread
  /\ Flight!FnReturns(t, "error")
  /\ UNCHANGED <<cached, result, stage, at, ask, child, parent, outer, gets>>

(* peer.Get fails before anybody serves it: the next source is asked.      *)
CallFails(t) ==
  /\ InFn(t) /\ HasPeer(t) /\ child[t] = NoThread
  /\ ask' = [ask EXCEPT ![t] = @ + 1]
  /\ UNCHANGED <<flightVars, cached, result, stage, at, child, parent, outer, gets>>

(* FAULTY: the call has no deadline.                                       *)
CallTimesOut_Never(t) == FALSE /\ UNCHANGED vars

(* The 3 s of Client.Get are over.  The handler runs on, for nobody.       *)
CallTimesOut(t) ==
  /\ InFn(t) /\ child[t] # NoThread
  /\ parent' = [parent EXCEPT ![child[t]] = NoThread]
  /\ child' = [child EXCEPT ![t] = NoThread]
  /\ ask' = [ask EXCEPT ![t] = @ + 1]
  /\ UNCHANGED <<flightVars, cached, result, stage, at, outer, gets>>

(* No peer is left: fn returns what the getter returns.                    *)
AskGetter(t) ==
  /\ InFn(t) /\ ~HasPeer(t)
  /\ \E o \in IF GetterFails THEN {"value", "error"} ELSE {"value"} :
       Flight!FnReturns(t, o)
  /\ UNCHANGED <<cached, result, stage, at, ask, child, parent, outer, gets>>

(* The steps of Do after fn.                                               *)
LeaveFlight(t) ==
  /\ Runs(t)
  /\ \/ Flight!WgDone(t) /\ UNCHANGED result
     \/ /\ Flight!MapDelete(t) \/ Flight!WaitReturns(t)
        /\ result' = [result EXCEPT ![t] = val[call[t]]]
  /\ UNCHANGED <<cached, stage, at, ask, child, parent, outer, gets>>

(* Do has returned: a value goes into the local cache, and Get returns.    *)
Return(t) ==
  /\ Runs(t) /\ stage[t] = "flight" /\ pc[t] = "idle"
  /\ cached' = IF result[t] = "value" THEN cached \cup {at[t]} ELSE cached
  /\ Answer(t, result[t])

(* A node stops: nothing runs on it any more and its answers are lost.     *)
Stop(n) ==
  /\ n \notin down
  /\ Cardinality(down) < MaxDown
  /\ down' = down \cup {n}
  /\ UNCHANGED <<flightVars, cached, result, stage, at, ask, child, parent, gets,
                 view>>

Step(t) ==
  \/ Lookup(t)
  \/ Load(t)
  \/ \E c \in Threads : CallPeer(t, c)
  \/ CallFails(t)
  \/ CallTimesOut(t)
  \/ AskGetter(t)
  \/ LeaveFlight(t)
  \/ Return(t)

Next ==
  \/ \E t \in Threads : Step(t) \/ \E n \in Nodes : ClientGet(t, n)
  \/ \E n \in Nodes : Stop(n)

Spec == Init /\ [][Next]_vars

(* A goroutine runs on, the getter returns and the 3 s of a call pass.     *)
FairSpec == Spec /\ \A t \in Threads : WF_vars(Step(t))

-----------------------------------------------------------------------------
(* Every Get on a node that stays up returns, although calls between nodes *)
(* can wait for each other in a circle and nodes stop (client.go:78).      *)
EveryGetReturns ==
  \A t \in Threads : Runs(t) ~> ~Runs(t)

(* What goes wrong between nodes never reaches the caller of Get: with a   *)
(* data source that works, every load ends with a value (group.go:171-189, *)
(* README: node failures are tolerated).                                   *)
PeerFailuresHidden ==
  ~GetterFails =>
    \A t \in Threads :
      stage[t] = "flight" /\ pc[t] = "idle" => result[t] = "value"

-----------------------------------------------------------------------------
(* The inductive invariant behind PeerFailuresHidden.  A thread is in Do   *)
(* only while its Get is at the load, which is where its node is known; no *)
(* fn panics; and with a data source that works the only outcome any call  *)
(* object ever holds is a value, since the errors of peers move ask on and *)
(* are not written.                                                        *)
GetTypeOK ==
  /\ result \in [Threads -> {"value", "error", Unset}]
  /\ stage \in [Threads -> Stages]
  /\ at \in [Threads -> Nodes \cup {NoNode}]
  /\ child \in [Threads -> Threads \cup {NoThread}]
  /\ parent \in [Threads -> Threads \cup {NoThread}]

RunsSomewhere == \A t \in Threads : stage[t] # "free" => at[t] \in Nodes

InDoOnlyToLoad == \A t \in Threads : stage[t] # "flight" => pc[t] = "idle"

NoErrorKept ==
  /\ \A c \in Calls : ~panicked[c]
  /\ ~GetterFails => \A c \in Calls : val[c] \in {"value", Unset}

GetInv ==
  /\ Flight!FlightInv
  /\ GetTypeOK
  /\ RunsSomewhere
  /\ InDoOnlyToLoad
  /\ NoErrorKept
  /\ PeerFailuresHidden
=============================================================================
