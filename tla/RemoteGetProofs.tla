--------------------------- MODULE RemoteGetProofs ---------------------------
(***************************************************************************)
(* Proofs about RemoteGet for any nodes, ring, goroutines and bounds: Get  *)
(* across nodes uses each node's singleflight only as SingleFlight allows, *)
(* so what SingleFlightProofs shows of a flight holds between nodes, and   *)
(* with it PeerFailuresHidden.                                             *)
(***************************************************************************)
EXTENDS RemoteGet, TLAPS

F == INSTANCE SingleFlightProofs WITH
       Callers <- Threads, Keys <- Nodes, NoKey <- NoNode,
       Outcomes <- {"value", "error"}

Outs == {"value", "error"}

-----------------------------------------------------------------------------
(* F repeats the definitions of Flight beside the theorems about them.     *)
LEMMA SameInv == Flight!FlightInv <=> F!FlightInv
  BY DEF Flight!FlightInv, F!FlightInv, Flight!TypeOK, F!TypeOK,
         Flight!LeaderSteps, F!LeaderSteps,
         Flight!LeaderIsRegistered, F!LeaderIsRegistered,
         Flight!LeaderIsAlone, F!LeaderIsAlone,
         Flight!RegisteredHasLeader, F!RegisteredHasLeader,
         Flight!Leads, F!Leads,
         Flight!FollowerHasCall, F!FollowerHasCall,
         Flight!ClosedWhileRunning, F!ClosedWhileRunning,
         Flight!ReleasedHasOutcome, F!ReleasedHasOutcome

LEMMA SameDo ==
  ASSUME NEW p \in Threads, NEW k \in Nodes
  PROVE  Flight!Do(p, k) <=> F!Do(p, k)
<1>1. Flight!Follow(p, k) <=> F!Follow(p, k)
  BY DEF Flight!Follow, F!Follow
<1>2. ASSUME NEW c \in Calls
      PROVE  /\ Flight!Unreferenced(c) <=> F!Unreferenced(c)
             /\ Flight!Lead(p, k, c) <=> F!Lead(p, k, c)
  BY DEF Flight!Lead, F!Lead, Flight!Unreferenced, F!Unreferenced
<1> QED
  BY <1>1, <1>2 DEF Flight!Do, F!Do

LEMMA SameProgress ==
  ASSUME NEW p \in Threads
  PROVE  Flight!Progress(p) <=> F!Progress(p)
<1>1. ASSUME NEW o \in Outs
      PROVE  Flight!FnReturns(p, o) <=> F!FnReturns(p, o)
  BY DEF Flight!FnReturns, F!FnReturns
<1>2. Flight!FnPanics(p) <=> F!FnPanics(p)
  BY DEF Flight!FnPanics, F!FnPanics
<1>3. Flight!WgDone(p) <=> F!WgDone(p)
  BY DEF Flight!WgDone, F!WgDone
<1>4. Flight!MapDelete(p) <=> F!MapDelete(p)
  BY DEF Flight!MapDelete, F!MapDelete
<1>5. Flight!WaitReturns(p) <=> F!WaitReturns(p)
  BY DEF Flight!WaitReturns, F!WaitReturns
<1> QED
  BY <1>1, <1>2, <1>3, <1>4, <1>5 DEF Flight!Progress, F!Progress, Outs

LEMMA FlightKept ==
  ASSUME Flight!FlightInv, [Flight!Next]_flightVars
  PROVE  Flight!FlightInv'
<1>1. F!FlightInv
  BY SameInv
<1>2. [F!Next]_F!flightVars
  BY SameDo, SameProgress DEF Flight!Next, F!Next, flightVars, F!flightVars
<1>3. F!FlightInv'
  BY <1>1, <1>2, F!NextKeepsFlightInv, NoneAssumption
<1> QED
  BY <1>3, SameInv, PTL

-----------------------------------------------------------------------------
(* Every step of Get across nodes is, for the flights of the nodes, a step *)
(* of Do on the node it runs on, or none.                                  *)
LEMMA StepIsFlightStep ==
  ASSUME GetInv, [Next]_vars
  PROVE  [Flight!Next]_flightVars
<1> DEFINE Moves == [Flight!Next]_flightVars
<1>1. ASSUME NEW p \in Threads, Flight!Progress(p)
      PROVE  Moves
  BY <1>1 DEF Flight!Next
<1>2. ASSUME NEW p \in Threads, NEW o \in Outs, Flight!FnReturns(p, o)
      PROVE  Moves
  BY <1>1, <1>2 DEF Flight!Progress, Outs
<1> HIDE DEF Moves
<1>3. ASSUME UNCHANGED flightVars
      PROVE  Moves
  BY <1>3 DEF Moves
<1>4. ASSUME NEW t \in Threads, NEW o, Answer(t, o)
      PROVE  Moves
  <2>1. CASE UNCHANGED flightVars
    BY <2>1, <1>3
  <2>2. CASE ~ UNCHANGED flightVars
    <3>1. parent[t] # NoThread /\ o = "value" /\ Flight!FnReturns(parent[t], o)
      BY <1>4, <2>2 DEF Answer
    <3>2. parent[t] \in Threads
      BY <3>1 DEF GetInv, GetTypeOK
    <3> QED
      BY <3>1, <3>2, <1>2 DEF Outs
  <2> QED
    BY <2>1, <2>2
<1>5. ASSUME NEW t \in Threads, Step(t)
      PROVE  Moves
  <2>1. CASE Lookup(t)
    BY <2>1, <1>3, <1>4 DEF Lookup
  <2>2. CASE Load(t)
    <3>1. at[t] \in Nodes /\ Flight!Do(t, at[t])
      BY <2>2 DEF Load, Runs, GetInv, RunsSomewhere
    <3> QED
      BY <3>1 DEF Moves, Flight!Next
  <2>3. CASE \E c \in Threads : CallPeer(t, c)
    BY <2>3, <1>3 DEF CallPeer
  <2>4. CASE CallFails(t)
    BY <2>4, <1>3 DEF CallFails
  <2>5. CASE CallTimesOut(t)
    BY <2>5, <1>3 DEF CallTimesOut
  <2>6. CASE AskGetter(t)
    BY <2>6, <1>2 DEF AskGetter, Outs
  <2>7. CASE LeaveFlight(t)
    BY <2>7, <1>1 DEF LeaveFlight, Flight!Progress
  <2>8. CASE Return(t)
    BY <2>8, <1>4 DEF Return
  <2> QED
    BY <1>5, <2>1, <2>2, <2>3, <2>4, <2>5, <2>6, <2>7, <2>8 DEF Step
<1>6. ASSUME NEW t \in Threads, NEW n \in Nodes, ClientGet(t, n)
      PROVE  Moves
  BY <1>3, <1>6 DEF ClientGet
<1>7. ASSUME NEW n \in Nodes, Stop(n)
      PROVE  Moves
  BY <1>3, <1>7 DEF Stop
<1>8. ASSUME UNCHANGED vars
      PROVE  Moves
  BY <1>3, <1>8 DEF vars
<1>9. Moves
  BY <1>5, <1>6, <1>7, <1>8 DEF Next
<1> QED
  BY <1>9 DEF Moves

-----------------------------------------------------------------------------
(* The parts of GetInv that are about Get.                                 *)
RestInv == GetTypeOK /\ RunsSomewhere /\ InDoOnlyToLoad /\ NoErrorKept
             /\ PeerFailuresHidden

USE DEF Stages

(* A Get that ends writes no outcome but "value", into the object of the   *)
(* thread that waits for it, which is another one.                         *)
LEMMA AnswerKeepsRest ==
  ASSUME GetInv, NEW t \in Threads, NEW o, Answer(t, o), pc[t] = "idle"
  PROVE  RestInv'
<1> DEFINE p == parent[t]
<1>1. \/ UNCHANGED flightVars
      \/ p \in Threads /\ Flight!FnReturns(p, "value")
  BY DEF Answer, GetInv, GetTypeOK
<1>2. GetTypeOK'
  BY DEF Answer, GetInv, GetTypeOK
<1>3. RunsSomewhere'
  BY DEF Answer, GetInv, GetTypeOK, RunsSomewhere
<1>4. CASE UNCHANGED flightVars
  <2>1. InDoOnlyToLoad' /\ PeerFailuresHidden'
    BY <1>4 DEF Answer, GetInv, GetTypeOK, InDoOnlyToLoad, PeerFailuresHidden,
         flightVars
  <2>2. NoErrorKept'
    BY <1>4 DEF GetInv, NoErrorKept, flightVars
  <2> QED
    BY <1>2, <1>3, <2>1, <2>2 DEF RestInv
<1>5. CASE p \in Threads /\ Flight!FnReturns(p, "value")
  <2> HIDE DEF p
  <2>1. /\ p # t /\ stage[p] = "flight"
        /\ pc' = [pc EXCEPT ![p] = "done"]
        /\ val' = [val EXCEPT ![call[p]] = "value"]
        /\ UNCHANGED panicked
    BY <1>5 DEF GetInv, InDoOnlyToLoad, Flight!FnReturns
  <2>2. pc \in [Threads -> Flight!LeaderSteps \cup {"idle", "wait"}]
        /\ val \in [Calls -> Outs \cup {Unset}]
    BY DEF GetInv, Flight!FlightInv, Flight!TypeOK, Outs
  <2>3. stage' = [stage EXCEPT ![t] = "free"]
        /\ result' = [result EXCEPT ![t] = Unset]
    BY DEF Answer
  <2>4. InDoOnlyToLoad' /\ PeerFailuresHidden'
    BY <2>1, <2>2, <2>3 DEF GetInv, GetTypeOK, InDoOnlyToLoad, PeerFailuresHidden
  <2>5. NoErrorKept'
    BY <2>1, <2>2 DEF GetInv, NoErrorKept
  <2> QED
    BY <1>2, <1>3, <2>4, <2>5 DEF RestInv
<1> QED
  BY <1>1, <1>4, <1>5

LEMMA LoadKeepsRest ==
  ASSUME GetInv, NEW t \in Threads, Load(t)
  PROVE  RestInv'
<1>1. /\ pc \in [Threads -> Flight!LeaderSteps \cup {"idle", "wait"}]
      /\ val \in [Calls -> Outs \cup {Unset}]
      /\ panicked \in [Calls -> BOOLEAN]
  BY DEF GetInv, Flight!FlightInv, Flight!TypeOK, Outs
<1>2. /\ \/ pc' = [pc EXCEPT ![t] = "wait"]
         \/ pc' = [pc EXCEPT ![t] = "run"]
      /\ stage' = [stage EXCEPT ![t] = "flight"]
      /\ UNCHANGED <<result, at, child, parent>>
  BY DEF Load, Flight!Do, Flight!Lead, Flight!Follow
<1>3. \/ UNCHANGED <<val, panicked>>
      \/ \E c \in Calls : /\ val' = [val EXCEPT ![c] = Unset]
                          /\ panicked' = [panicked EXCEPT ![c] = FALSE]
  BY DEF Load, Flight!Do, Flight!Lead, Flight!Follow
<1>4. GetTypeOK' /\ RunsSomewhere'
  BY <1>2 DEF GetInv, GetTypeOK, RunsSomewhere, Load, Runs
<1>5. InDoOnlyToLoad' /\ PeerFailuresHidden'
  BY <1>1, <1>2 DEF GetInv, GetTypeOK, InDoOnlyToLoad, PeerFailuresHidden
<1>6. NoErrorKept'
  BY <1>1, <1>3 DEF GetInv, NoErrorKept
<1> QED
  BY <1>4, <1>5, <1>6 DEF RestInv

(* Steps that touch neither a flight nor how far a Get is, except to start *)
(* one on a free goroutine.                                                *)
LEMMA CallsKeepRest ==
  ASSUME GetInv, NEW t \in Threads,
         \/ \E c \in Threads : CallPeer(t, c)
         \/ CallFails(t) \/ CallTimesOut(t)
         \/ \E n \in Nodes : ClientGet(t, n)
  PROVE  RestInv'
<1>1. CASE CallFails(t) \/ CallTimesOut(t)
  <2>1. /\ UNCHANGED <<flightVars, result, stage, at>>
        /\ GetTypeOK'
    BY <1>1 DEF CallFails, CallTimesOut, GetInv, GetTypeOK
  <2> QED
    BY <2>1 DEF RestInv, GetInv, RunsSomewhere, InDoOnlyToLoad, NoErrorKept,
         PeerFailuresHidden, flightVars
<1>2. CASE \/ \E c \in Threads : CallPeer(t, c)
           \/ \E n \in Nodes : ClientGet(t, n)
  <2>1. PICK c \in Threads, q \in Nodes :
          /\ stage[c] = "free"
          /\ stage' = [stage EXCEPT ![c] = "lookup"]
          /\ at' = [at EXCEPT ![c] = q]
          /\ UNCHANGED <<flightVars, result>>
    BY <1>2 DEF CallPeer, ClientGet
  <2>2. parent' \in [Threads -> Threads \cup {NoThread}]
        /\ child' \in [Threads -> Threads \cup {NoThread}]
    BY <1>2 DEF CallPeer, ClientGet, GetInv, GetTypeOK
  <2>3. GetTypeOK' /\ RunsSomewhere'
    BY <2>1, <2>2 DEF GetInv, GetTypeOK, RunsSomewhere
  <2>4. InDoOnlyToLoad' /\ NoErrorKept' /\ PeerFailuresHidden'
    BY <2>1 DEF GetInv, GetTypeOK, InDoOnlyToLoad, NoErrorKept,
         PeerFailuresHidden, flightVars
  <2> QED
    BY <2>3, <2>4 DEF RestInv
<1> QED
  BY <1>1, <1>2

LEMMA AskGetterKeepsRest ==
  ASSUME GetInv, NEW t \in Threads, AskGetter(t)
  PROVE  RestInv'
<1>1. PICK o \in Outs : /\ Flight!FnReturns(t, o)
                        /\ ~GetterFails => o = "value"
  BY DEF AskGetter, Outs
<1>2. /\ pc \in [Threads -> Flight!LeaderSteps \cup {"idle", "wait"}]
      /\ val \in [Calls -> Outs \cup {Unset}]
  BY DEF GetInv, Flight!FlightInv, Flight!TypeOK, Outs
<1>3. /\ pc' = [pc EXCEPT ![t] = "done"]
      /\ val' = [val EXCEPT ![call[t]] = o]
      /\ UNCHANGED panicked
      /\ stage[t] = "flight"
      /\ UNCHANGED <<result, stage, at, child, parent>>
  BY <1>1 DEF AskGetter, InFn, Flight!FnReturns
<1>4. GetTypeOK' /\ RunsSomewhere' /\ InDoOnlyToLoad' /\ PeerFailuresHidden'
  BY <1>2, <1>3 DEF GetInv, GetTypeOK, RunsSomewhere, InDoOnlyToLoad,
       PeerFailuresHidden
<1>5. NoErrorKept'
  BY <1>1, <1>2, <1>3 DEF GetInv, NoErrorKept
<1> QED
  BY <1>4, <1>5 DEF RestInv

(* A leader that leaves finds the outcome its fn wrote, a follower one the *)
(* leader wrote before wg.Done: a value, when the data source works.       *)
LEMMA LeaveFlightKeepsRest ==
  ASSUME GetInv, NEW t \in Threads, LeaveFlight(t)
  PROVE  RestInv'
<1>1. /\ pc \in [Threads -> Flight!LeaderSteps \cup {"idle", "wait"}]
      /\ val \in [Calls -> Outs \cup {Unset}]
  BY DEF GetInv, Flight!FlightInv, Flight!TypeOK, Outs
<1>2. UNCHANGED <<val, panicked, stage, at, child, parent>>
  BY DEF LeaveFlight, Flight!WgDone, Flight!MapDelete, Flight!WaitReturns
<1>3. RunsSomewhere' /\ NoErrorKept'
  BY <1>2 DEF GetInv, RunsSomewhere, NoErrorKept
<1>4. pc[t] # "idle" /\ stage[t] = "flight"
  BY DEF LeaveFlight, Flight!WgDone, Flight!MapDelete, Flight!WaitReturns,
       GetInv, InDoOnlyToLoad
<1>5. CASE Flight!WgDone(t) /\ UNCHANGED result
  <2>1. GetTypeOK' /\ InDoOnlyToLoad' /\ PeerFailuresHidden'
    BY <1>1, <1>2, <1>4, <1>5 DEF GetInv, GetTypeOK, InDoOnlyToLoad, PeerFailuresHidden,
         Flight!WgDone
  <2> QED
    BY <1>3, <2>1 DEF RestInv
<1>6. CASE /\ Flight!MapDelete(t) \/ Flight!WaitReturns(t)
           /\ result' = [result EXCEPT ![t] = val[call[t]]]
  <2>1. /\ pc' = [pc EXCEPT ![t] = "idle"]
        /\ call[t] \in Calls
        /\ val[call[t]] # Unset \/ panicked[call[t]]
    BY <1>6 DEF Flight!MapDelete, Flight!WaitReturns, GetInv,
         Flight!FlightInv, Flight!LeaderIsRegistered, Flight!LeaderSteps,
         Flight!FollowerHasCall, Flight!ClosedWhileRunning,
         Flight!ReleasedHasOutcome
  <2>2. val[call[t]] \in Outs /\ (~GetterFails => val[call[t]] = "value")
    BY <1>1, <2>1 DEF GetInv, NoErrorKept
  <2>3. GetTypeOK'
    BY <1>2, <1>6, <2>2 DEF GetInv, GetTypeOK, Outs
  <2>4. InDoOnlyToLoad' /\ PeerFailuresHidden'
    BY <1>1, <1>2, <1>4, <1>6, <2>1, <2>2 DEF GetInv, GetTypeOK, InDoOnlyToLoad,
         PeerFailuresHidden
  <2> QED
    BY <1>3, <2>3, <2>4 DEF RestInv
<1> QED
  BY <1>5, <1>6 DEF LeaveFlight

LEMMA StillKeepsRest ==
  ASSUME GetInv, UNCHANGED <<flightVars, result, stage, at, child, parent>>
  PROVE  RestInv'
  BY DEF GetInv, RestInv, GetTypeOK, RunsSomewhere, InDoOnlyToLoad,
     NoErrorKept, PeerFailuresHidden, flightVars

LEMMA NextKeepsGetInv == GetInv /\ [Next]_vars => GetInv'
<1> SUFFICES ASSUME GetInv, [Next]_vars
             PROVE  GetInv'
  OBVIOUS
<1>1. Flight!FlightInv'
  BY StepIsFlightStep, FlightKept DEF GetInv
<1>2. ASSUME NEW t \in Threads, Step(t)
      PROVE  RestInv'
  <2>1. CASE Lookup(t)
    <3>1. CASE at[t] \in cached
      BY <2>1, <3>1, AnswerKeepsRest DEF Lookup, GetInv, InDoOnlyToLoad
    <3>2. CASE at[t] \notin cached
      <4>1. /\ stage[t] = "lookup"
            /\ stage' = [stage EXCEPT ![t] = "missed"]
            /\ UNCHANGED <<flightVars, result, at, child, parent>>
        BY <2>1, <3>2 DEF Lookup
      <4> QED
        BY <4>1 DEF GetInv, RestInv, GetTypeOK, RunsSomewhere, InDoOnlyToLoad,
             NoErrorKept, PeerFailuresHidden, flightVars
    <3> QED
      BY <3>1, <3>2
  <2>2. CASE Return(t)
    BY <2>2, AnswerKeepsRest DEF Return
  <2> QED
    BY <1>2, <2>1, <2>2, LoadKeepsRest, CallsKeepRest, AskGetterKeepsRest,
       LeaveFlightKeepsRest DEF Step
<1>3. ASSUME NEW n \in Nodes, Stop(n)
      PROVE  RestInv'
  BY <1>3, StillKeepsRest DEF Stop
<1>4. ASSUME UNCHANGED vars
      PROVE  RestInv'
  BY <1>4, StillKeepsRest DEF vars
<1>5. RestInv'
  BY <1>2, <1>3, <1>4, CallsKeepRest DEF Next
<1> QED
  BY <1>1, <1>5 DEF GetInv, RestInv

LEMMA InitGetInv == Init => GetInv
<1> SUFFICES ASSUME Init
             PROVE  GetInv
  OBVIOUS
<1>1. F!Init
  BY DEF Init, Flight!Init, F!Init
<1>2. Flight!FlightInv
  BY <1>1, F!InitFlightInv, SameInv, NoneAssumption
<1>3. RestInv
  BY DEF Init, Flight!Init, RestInv, GetTypeOK, RunsSomewhere, InDoOnlyToLoad,
     NoErrorKept, PeerFailuresHidden
<1> QED
  BY <1>2, <1>3 DEF GetInv, RestInv

(* GetInv holds in every state of every behaviour of Get across nodes.     *)
THEOREM GetInvariance == Spec => []GetInv
<1>1. QED
  BY InitGetInv, NextKeepsGetInv, PTL DEF Spec

(* Get across nodes implements the singleflight of its nodes: whatever     *)
(* peers answer, fail or time out, each node's loader only takes the steps *)
(* of Group.Do and doCall (group.go:419-424, singleflight.go).             *)
THEOREM ImplementsSingleFlight == Spec => Flight!Spec
<1>1. Init => Flight!Init
  BY DEF Init
<1>2. GetInv /\ [Next]_vars => [Flight!Next]_Flight!flightVars
  BY StepIsFlightStep DEF flightVars, Flight!flightVars
<1> QED
  BY <1>1, <1>2, GetInvariance, PTL DEF Spec, Flight!Spec

(* A failing, slow or stopped peer never surfaces in Get while the data    *)
(* source works (group.go:171-189), for any cluster.                       *)
THEOREM FailuresHidden == Spec => []PeerFailuresHidden
<1>1. GetInv => PeerFailuresHidden
  BY DEF GetInv
<1> QED
  BY <1>1, GetInvariance, PTL

-----------------------------------------------------------------------------
(* A caller and its handler name each other until one lets go, and whoever *)
(* waits for a peer has one more source to ask after it.                   *)
AskInv ==
  /\ cached \subseteq Nodes /\ down \subseteq Nodes /\ gets \in 0..MaxGets
  /\ ask \in [Threads -> 1..3]
  /\ \A t \in Threads : child[t] # NoThread => ask[t] # 3
  /\ \A c \in Threads : parent[c] # NoThread => child[parent[c]] = c

(* A node asks two peers at the most: the primary and the replica.         *)
LEMMA TwoPeersAtMost ==
  ASSUME NEW t, HasPeer(t), ask[t] \in 1..3
  PROVE  ask[t] \in 1..2
<1>1. Len(Picked(at[t])) \in 0..2
  BY DEF Picked, FirstTwo
<1>2. ask[t] <= Len(Picked(at[t]))
  BY DEF HasPeer
<1>3. \A l \in 0..2, k \in 1..3 : k <= l => k \in 1..2
  OBVIOUS
<1> QED BY <1>1, <1>2, <1>3

LEMMA AnswerKeepsAsk ==
  ASSUME GetInv, AskInv, NEW t \in Threads, NEW o, Answer(t, o), cached' \subseteq Nodes
  PROVE  AskInv'
<1> DEFINE p == parent[t]
           waits == p # NoThread /\ at[p] \notin down
<1>1. /\ child \in [Threads -> Threads \cup {NoThread}]
      /\ parent \in [Threads -> Threads \cup {NoThread}]
  BY DEF GetInv, GetTypeOK
<1>2. /\ parent' = [parent EXCEPT ![t] = NoThread]
      /\ child' = IF waits THEN [child EXCEPT ![p] = NoThread] ELSE child
      /\ ask' = [u \in Threads |->
                   CASE u = t -> 1
                     [] waits /\ u = p /\ o # "value" -> ask[u] + 1
                     [] OTHER -> ask[u]]
      /\ UNCHANGED <<down, gets>>
  BY DEF Answer, outer
<1> HIDE DEF p, waits
<1>3. waits => p \in Threads /\ child[p] = t /\ t \in Threads
  BY <1>1 DEF AskInv, p, waits
<1>4. \A c \in Threads : parent'[c] # NoThread =>
        parent'[c] = parent[c] /\ c # t /\ child[parent[c]] = c /\ parent[c] \in Threads
  BY <1>1, <1>2 DEF AskInv
<1>5. \A c \in Threads : parent'[c] # NoThread => child'[parent'[c]] = c
  BY <1>1, <1>2, <1>3, <1>4
<1>6. ASSUME NEW u \in Threads
      PROVE  ask'[u] \in 1..3 /\ (child'[u] # NoThread => ask'[u] # 3)
  <2>1. ask[u] \in 1..3 /\ (child[u] # NoThread => ask[u] # 3)
    BY DEF AskInv
  <2>2. waits /\ u = p => ask[u] # 3
    BY <1>3, <2>1, NoneAssumption
  <2>3. waits /\ u = p => child'[u] = NoThread
    BY <1>1, <1>2
  <2>4. child'[u] # NoThread => child[u] # NoThread
    BY <1>1, <1>2
  <2>5. ask'[u] \in {1, ask[u]} \/ (waits /\ u = p /\ ask'[u] = ask[u] + 1)
    BY <1>2
  <2> QED BY <2>1, <2>2, <2>3, <2>4, <2>5
<1>7. DOMAIN ask' = Threads
  BY <1>2
<1> QED
  BY <1>2, <1>5, <1>6, <1>7 DEF AskInv

LEMMA StepKeepsAsk ==
  ASSUME GetInv, AskInv, NEW t \in Threads, Step(t)
  PROVE  AskInv'
<1>0. /\ child \in [Threads -> Threads \cup {NoThread}]
      /\ parent \in [Threads -> Threads \cup {NoThread}]
      /\ Runs(t) => at[t] \in Nodes
  BY DEF GetInv, GetTypeOK, RunsSomewhere, Runs
<1>1. CASE Lookup(t)
  <2>1. CASE at[t] \in cached
    BY <1>1, <2>1, AnswerKeepsAsk DEF Lookup, AskInv
  <2>2. CASE at[t] \notin cached
    BY <1>1, <2>2 DEF Lookup, AskInv, outer
  <2> QED BY <2>1, <2>2
<1>2. CASE Load(t)
  BY <1>2 DEF Load, AskInv, outer
<1>3. CASE \E c \in Threads : CallPeer(t, c)
  <2>1. PICK c \in Threads : CallPeer(t, c)
    BY <1>3
  <2>2. ask[t] \in 1..2 /\ child[t] = NoThread
    BY <2>1, TwoPeersAtMost DEF CallPeer, AskInv
  <2>3. /\ parent' = [parent EXCEPT ![c] = t]
        /\ child' = [child EXCEPT ![t] = c]
        /\ UNCHANGED <<ask, cached, down, gets>>
    BY <2>1 DEF CallPeer, outer
  <2>4. \A u \in Threads : parent[u] # t
    BY <2>2, NoneAssumption DEF AskInv
  <2> QED BY <1>0, <2>2, <2>3, <2>4 DEF AskInv
<1>4. CASE CallFails(t)
  <2>1. ask[t] \in 1..2 /\ child[t] = NoThread
    BY <1>4, TwoPeersAtMost DEF CallFails, AskInv
  <2> QED BY <1>4, <2>1 DEF CallFails, AskInv, outer
<1>5. CASE CallTimesOut(t)
  <2>1. /\ child[t] # NoThread /\ ask[t] \in 1..2
        /\ parent' = [parent EXCEPT ![child[t]] = NoThread]
        /\ child' = [child EXCEPT ![t] = NoThread]
        /\ ask' = [ask EXCEPT ![t] = @ + 1]
        /\ UNCHANGED <<cached, down, gets>>
    BY <1>5 DEF CallTimesOut, AskInv, outer
  <2>2. \A c \in Threads : parent'[c] # NoThread => child'[parent'[c]] = c
    BY <1>0, <2>1 DEF AskInv
  <2> QED BY <1>0, <2>1, <2>2 DEF AskInv
<1>6. CASE AskGetter(t) \/ LeaveFlight(t)
  BY <1>6 DEF AskGetter, LeaveFlight, AskInv, outer
<1>7. CASE Return(t)
  BY <1>0, <1>7, AnswerKeepsAsk DEF Return, AskInv
<1> QED
  BY <1>1, <1>2, <1>3, <1>4, <1>5, <1>6, <1>7 DEF Step

LEMMA NextKeepsAsk == GetInv /\ AskInv /\ [Next]_vars => AskInv'
<1> SUFFICES ASSUME GetInv, AskInv, [Next]_vars PROVE AskInv'
  OBVIOUS
<1>1. ASSUME NEW t \in Threads, NEW n \in Nodes, ClientGet(t, n)
      PROVE  AskInv'
  BY <1>1, BoundAssumption DEF ClientGet, AskInv, outer
<1>2. ASSUME NEW n \in Nodes, Stop(n)
      PROVE  AskInv'
  BY <1>2 DEF Stop, AskInv
<1>3. CASE UNCHANGED vars
  BY <1>3 DEF vars, outer, AskInv
<1> QED
  BY <1>1, <1>2, <1>3, StepKeepsAsk DEF Next

(* Every variable keeps its type, for any cluster: a load asks no more     *)
(* than two peers and the getter, whatever fails, times out or is answered *)
(* late (group.go:171-189).                                                *)
THEOREM TypesKept == Spec => []TypeOK
<1>1. Init => AskInv
  BY BoundAssumption DEF Init, AskInv
<1>2. GetInv /\ AskInv => TypeOK
  BY DEF GetInv, GetTypeOK, Flight!FlightInv, AskInv, TypeOK
<1> QED
  BY <1>1, <1>2, NextKeepsAsk, GetInvariance, PTL DEF Spec
=============================================================================
