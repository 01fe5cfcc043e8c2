--------------------------- MODULE MigrationProofs ---------------------------
(***************************************************************************)
(* NoDirtyCopy, OwnersHoldLastSet and OnlineNodeHasKey, for any nodes,     *)
(* ring, workers, channel sizes and numbers of calls, while nodes join and *)
(* leave.                                                                  *)
(*                                                                         *)
(* NoDirtyCopy speaks of the moment when all is quiet.  DirtyInv says of   *)
(* every moment why it will hold: a value that a Delete must have cleared  *)
(* (Dirty) is on its way to no cache, and each cache that still has it has *)
(* a delete coming.                                                        *)
(*                                                                         *)
(* The other two speak of runs without trouble.  PlaceInv, below, says     *)
(* what then goes on at a time, what the nodes know of each other, and     *)
(* where the last Set is while it spreads and while nodes come and go.     *)
(***************************************************************************)
EXTENDS Migration, FiniteSetTheorems, SequenceTheorems, WellFoundedInduction, TLAPS

(* What raced will be after the next step, whichever it is.                *)
Racing == IF UnderWay("delete") = {} THEN raced ELSE raced \cup OnTheirWay

(* Writes over before some Delete, and not on their way while a Delete was.*)
Dirty == doomed \ Racing

(* v may yet be written into the cache of a node that runs.                *)
Comes(v) ==
  \/ v \in UnderWay("set")
  \/ \E i \in DOMAIN fills : fills[i].val = v
  \/ \E n \in up : mover[n].step = "send" /\ mover[n].val = v
  \/ away.step = "send" /\ away.val = v

(* Node n is still to be told of operation i, by another node.             *)
Pends(i, n) ==
  \E q \in up \ {n} :
    \/ i \in admitted[q] \/ i \in Members(syncTasks[q])
    \/ \E w \in Workers : task[q][w] = i /\ n \in todo[q][w]

DeleteComes(n) == \E i \in Issued : opKind[i] = "delete" /\ Pends(i, n)

DirtyInv ==
  NothingLost =>
    \A v \in Dirty :
      /\ ~Comes(v)
      /\ \A n \in up : cache[n] = v => DeleteComes(n)

-----------------------------------------------------------------------------
(* What DirtyInv rests on.                                                 *)
IssuedInOrder == \E k \in 0..MaxOps : Issued = 1..k

IdleHoldsNothing ==
  \A q \in Nodes, w \in Workers :
    /\ wpc[q][w] = "select" => task[q][w] = NoTask
    /\ task[q][w] = NoTask => todo[q][w] = {}

StrayIsLoss == ~lossy => stray = {}

(* A node that has not joined yet holds nothing.                           *)
JoinersFresh ==
  \A j \in plan.join :
    /\ j \notin up /\ cache[j] = Nothing
    /\ admitted[j] = {} /\ syncTasks[j] = <<>>
    /\ \A w \in Workers : task[j][w] = NoTask
    /\ mover[j] = NoMove

LeaverRuns ==
  /\ plan.leave \subseteq up
  /\ away # NoMove => away.from \in up /\ plan.leave = {}

(* Every node that runs knows every other one or will be told of it.       *)
AllTold ==
  /\ \A q, n \in up : q # n => n \in clients[q] \/ <<q, n>> \in news
  /\ plan.join # {} => news = {}

Copies == {Nothing, SourceValue} \cup Ops
FillRecs == [node : Nodes, val : Copies]
MoveRecs == {NoMove} \cup [step : {"read", "mark"}, to : Nodes]
                     \cup [step : {"send"}, to : Nodes, val : Values]

AwayTyped ==
  \/ away = NoMove
  \/ \E from, dests : away = [step |-> "read", from |-> from, dests |-> dests]
  \/ \E from, dests, to : \E v \in Values :
       away = [step |-> "send", from |-> from, dests |-> dests, to |-> to, val |-> v]

DataTyped ==
  /\ cache \in [Nodes -> Copies]
  /\ opKind \in [Ops -> {"none", "set", "delete"}]
  /\ admitted \in [Nodes -> SUBSET Ops]
  /\ syncTasks \in [Nodes -> Seq(Ops)]
  /\ wpc \in [Nodes -> [Workers -> {"select", "busy"}]]
  /\ task \in [Nodes -> [Workers -> Ops \cup {NoTask}]]
  /\ dropped \in [Nodes -> SUBSET Ops]
  /\ DOMAIN todo = Nodes /\ \A n \in Nodes : DOMAIN todo[n] = Workers
  /\ fills \in Seq(FillRecs)
  /\ stray \subseteq Nodes \X Ops /\ lossy \in BOOLEAN
  /\ doomed \subseteq Issued

MoveTyped ==
  /\ up \subseteq Nodes
  /\ clients \in [Nodes -> SUBSET Nodes]
  /\ plan \in [join : SUBSET Nodes, leave : SUBSET Nodes]
  /\ news \subseteq Nodes \X Nodes
  /\ mover \in [Nodes -> MoveRecs]
  /\ AwayTyped

DataInv == DataTyped /\ IssuedInOrder /\ IdleHoldsNothing /\ StrayIsLoss
MoveInv == MoveTyped /\ JoinersFresh /\ LeaverRuns /\ AllTold
MigInv == DataInv /\ MoveInv /\ DirtyInv

-----------------------------------------------------------------------------
LEMMA NothingIsNoOp == Nothing \notin Ops /\ SourceValue \notin Ops
<1>1. MaxOps \in Nat
  BY BoundsAssumption
<1>2. MaxOps + 1 \notin 1..MaxOps
  BY <1>1
<1>3. 0 \notin 1..MaxOps
  OBVIOUS
<1> QED
  BY <1>2, <1>3 DEF Nothing, SourceValue, Ops

LEMMA AppendMembers ==
  ASSUME NEW E, NEW s \in Seq(E), NEW e \in E
  PROVE  Append(s, e) \in Seq(E) /\ Members(Append(s, e)) = Members(s) \cup {e}
<1>1. /\ Append(s, e) \in Seq(E) /\ Len(s) \in Nat /\ DOMAIN s = 1..Len(s)
      /\ DOMAIN Append(s, e) = 1..Len(s) + 1
      /\ \A i \in 1..Len(s) : Append(s, e)[i] = s[i]
      /\ Append(s, e)[Len(s) + 1] = e
  OBVIOUS
<1>2. ASSUME NEW x \in Members(Append(s, e))
      PROVE  x \in Members(s) \cup {e}
  BY <1>1, <1>2 DEF Members
<1>3. ASSUME NEW x \in Members(s) \cup {e}
      PROVE  x \in Members(Append(s, e))
  <2>1. CASE x = e
    BY <2>1, <1>1 DEF Members
  <2>2. CASE x \in Members(s)
    BY <2>2, <1>1 DEF Members
  <2> QED BY <1>3, <2>1, <2>2
<1> QED
  BY <1>1, <1>2, <1>3

LEMMA TailMembers ==
  ASSUME NEW E, NEW s \in Seq(E), s # <<>>
  PROVE  /\ Tail(s) \in Seq(E) /\ Head(s) \in E
         /\ Members(s) = Members(Tail(s)) \cup {Head(s)}
<1>1. Tail(s) \in Seq(E) /\ Head(s) \in E
  OBVIOUS
<1>2. Len(s) \in Nat /\ Len(s) > 0 /\ DOMAIN s = 1..Len(s)
  OBVIOUS
<1>3. Len(Tail(s)) = Len(s) - 1 /\ DOMAIN Tail(s) = 1..Len(s) - 1
  BY <1>1, <1>2
<1>4. \A i \in 1..Len(s) - 1 : Tail(s)[i] = s[i + 1]
  BY <1>1, <1>2
<1>5. Head(s) = s[1]
  OBVIOUS
<1>6. ASSUME NEW x \in Members(s)
      PROVE  x \in Members(Tail(s)) \cup {Head(s)}
  <2>1. PICK i \in 1..Len(s) : x = s[i]
    BY <1>2, <1>6 DEF Members
  <2>2. CASE i = 1
    BY <2>1, <2>2, <1>5
  <2>3. CASE i # 1
    <3>1. i - 1 \in 1..Len(s) - 1 /\ (i - 1) + 1 = i
      BY <2>3, <1>2
    <3>2. x = Tail(s)[i - 1]
      BY <2>1, <3>1, <1>4
    <3> QED BY <3>1, <3>2, <1>3 DEF Members
  <2> QED BY <2>2, <2>3
<1>7. ASSUME NEW x \in Members(Tail(s)) \cup {Head(s)}
      PROVE  x \in Members(s)
  BY <1>7, <1>2, <1>3, <1>4, <1>5 DEF Members
<1> QED
  BY <1>1, <1>6, <1>7

(* The number of the next operation is unused, and keeps them in order.    *)
LEMMA NextIssued ==
  ASSUME IssuedInOrder, Issued # Ops
  PROVE  LET i == Cardinality(Issued) + 1 IN
         i \in Ops /\ i \notin Issued /\ i \in 0..MaxOps /\ Issued \cup {i} = 1..i
<1>1. PICK k \in 0..MaxOps : Issued = 1..k
  BY DEF IssuedInOrder
<1>2. Cardinality(1..k) = k
  <2>1. 1 \in Int /\ k \in Int /\ (1 > k => k = 0)
    BY BoundsAssumption
  <2>2. Cardinality(1..k) = IF 1 > k THEN 0 ELSE k - 1 + 1
    BY <2>1, FS_Interval
  <2> QED BY <2>1, <2>2
<1>3. k # MaxOps
  BY <1>1 DEF Ops
<1> QED
  BY <1>1, <1>2, <1>3, BoundsAssumption DEF Ops

-----------------------------------------------------------------------------
(* While a delete is under way, what is not on its way is noted in Racing, *)
(* so no value of Dirty comes, and no node does.                           *)
CleanOrNothing ==
  UnderWay("delete") # {} => \A v \in Dirty : Steady /\ ~Comes(v)

LEMMA DeletingIsClean == DataTyped /\ MoveTyped => CleanOrNothing
<1> SUFFICES ASSUME DataTyped, MoveTyped, UnderWay("delete") # {},
                    NEW v \in Dirty
             PROVE  Steady /\ ~Comes(v)
  BY DEF CleanOrNothing
<1>1. v \in Issued /\ v \in Ops /\ v \notin OnTheirWay
  BY DEF DataTyped, Dirty, Racing, Issued
<1>2. Steady
  BY <1>1 DEF OnTheirWay
<1>3. v \notin UnderWay("set") /\ ~ \E i \in DOMAIN fills : fills[i].val = v
  BY <1>1, <1>2 DEF OnTheirWay
<1>4. \A n \in up : mover[n].step # "send"
  BY <1>2 DEF Steady, NoMove
<1>5. away.step # "send"
  BY <1>2 DEF Steady, NoMove
<1> QED
  BY <1>2, <1>3, <1>4, <1>5 DEF Comes

LEMMA ComingIsUnderWay ==
  ASSUME NEW n, DeleteComes(n)
  PROVE  UnderWay("delete") # {}
<1>1. PICK i \in Issued : opKind[i] = "delete" /\ Pends(i, n)
  BY DEF DeleteComes
<1>2. i \in UnderWay("delete")
  BY <1>1 DEF UnderWay, Pends
<1> QED
  BY <1>2

(* What is enough for a step to keep DirtyInv.                             *)
LEMMA FrameKeepsDirty ==
  ASSUME MigInv, DataTyped', MoveTyped', raced' = Racing,
         doomed' \subseteq doomed, NothingLost' => NothingLost,
         NothingLost' =>
           \A v \in Issued : Comes(v)' =>
             \/ Comes(v)
             \/ \E p \in up : /\ cache[p] = v
                              /\ UnderWay("delete") # {} => UnderWay("delete")' # {},
         NothingLost' =>
           \A v \in Dirty : ~Comes(v) =>
             \A n \in up' : cache'[n] = v =>
               n \in up /\ cache[n] = v /\ (DeleteComes(n) => DeleteComes(n)')
  PROVE  DirtyInv'
<1> SUFFICES ASSUME NothingLost', NEW v \in Dirty'
             PROVE  /\ ~Comes(v)'
                    /\ \A n \in up' : cache'[n] = v => DeleteComes(n)'
  BY DEF DirtyInv
<1>1. raced' \subseteq Racing'
  BY DEF Racing
<1>2. v \in Dirty /\ v \in Issued
  BY <1>1 DEF Dirty, MigInv, DataInv, DataTyped
<1>3. ~Comes(v) /\ \A n \in up : cache[n] = v => DeleteComes(n)
  BY <1>2 DEF MigInv, DirtyInv
<1>4. CleanOrNothing'
  BY DeletingIsClean, PTL
<1>5. ~Comes(v)'
  <2> SUFFICES ASSUME Comes(v)' PROVE FALSE
    OBVIOUS
  <2>1. PICK p \in up : /\ cache[p] = v
                        /\ UnderWay("delete") # {} => UnderWay("delete")' # {}
    BY <1>2, <1>3
  <2>2. UnderWay("delete")' # {}
    BY <2>1, <1>3, ComingIsUnderWay
  <2> QED BY <2>2, <1>4 DEF CleanOrNothing
<1> QED
  BY <1>2, <1>3, <1>5

(* Steps that leave the tasks alone leave alone what is under way.         *)
LEMMA SameTasks ==
  ASSUME UNCHANGED <<admitted, syncTasks, task, todo, opKind, stray, up>>
  PROVE  /\ Issued' = Issued
         /\ \A kind : UnderWay(kind)' = UnderWay(kind)
         /\ \A n : DeleteComes(n)' <=> DeleteComes(n)
  BY DEF Issued, UnderWay, DeleteComes, Pends

(* A step of the calls touches no node that has still to join.             *)
LEMMA CallsKeepMoves ==
  ASSUME MoveInv, UNCHANGED <<up, view, moveVars>>,
         \A j \in Nodes \ up :
           /\ cache'[j] = cache[j] /\ admitted'[j] = admitted[j]
           /\ syncTasks'[j] = syncTasks[j]
           /\ \A w \in Workers : task'[j][w] = task[j][w]
  PROVE  MoveInv'
<1>1. MoveTyped' /\ LeaverRuns' /\ AllTold'
  BY DEF MoveInv, MoveTyped, AwayTyped, LeaverRuns, AllTold, view, moveVars
<1>2. JoinersFresh'
  <2> SUFFICES ASSUME NEW j \in plan.join
               PROVE  /\ j \notin up /\ cache'[j] = Nothing
                      /\ admitted'[j] = {} /\ syncTasks'[j] = <<>>
                      /\ \A w \in Workers : task'[j][w] = NoTask
                      /\ mover[j] = NoMove
    BY DEF JoinersFresh, moveVars
  <2>1. j \in Nodes \ up
    BY DEF MoveInv, MoveTyped, JoinersFresh
  <2> QED BY <2>1 DEF MoveInv, JoinersFresh
<1> QED
  BY <1>1, <1>2 DEF MoveInv

-----------------------------------------------------------------------------
(* A Delete starts with every other node to be told, and a clean slate:    *)
(* whatever is on its way at that moment is noted as raced.                *)
LEMMA WriteKeepsInv ==
  ASSUME MigInv, NEW n \in Nodes, NEW kind \in {"set", "delete"}, Write(n, kind),
         UNCHANGED <<up, view, moveVars>>, raced' = Racing
  PROVE  MigInv'
<1>0. PICK i : i = Cardinality(Issued) + 1
  OBVIOUS
<1>1. i \in Ops /\ i \notin Issued /\ i \in 0..MaxOps /\ Issued \cup {i} = 1..i
  BY <1>0, NextIssued DEF MigInv, DataInv, Write
<1>2. /\ n \in up
      /\ admitted' = [admitted EXCEPT ![n] = @ \cup {i}]
      /\ opKind' = [opKind EXCEPT ![i] = kind]
      /\ cache' = [cache EXCEPT ![n] = IF kind = "set" THEN i ELSE Nothing]
      /\ doomed' = IF kind = "set" THEN doomed
                   ELSE Issued \ UNION {admitted[q] : q \in Nodes}
      /\ UNCHANGED <<syncTasks, wpc, task, dropped, todo, stray, fills, lossy>>
  BY <1>0 DEF Write, Pool!Admit
<1>3. Issued' = Issued \cup {i} /\ \A j \in Issued : opKind'[j] = opKind[j]
  BY <1>1, <1>2 DEF Issued, MigInv, DataInv, DataTyped
<1>4. DataTyped'
  <2>1. doomed' \subseteq Issued'
    BY <1>2, <1>3 DEF MigInv, DataInv, DataTyped
  <2>2. cache' \in [Nodes -> Copies] /\ opKind' \in [Ops -> {"none", "set", "delete"}]
        /\ admitted' \in [Nodes -> SUBSET Ops]
    BY <1>1, <1>2 DEF MigInv, DataInv, DataTyped, Copies
  <2> QED BY <1>2, <2>1, <2>2 DEF MigInv, DataInv, DataTyped
<1>5. DataInv'
  <2>1. IssuedInOrder'
    BY <1>1, <1>3 DEF IssuedInOrder
  <2>2. IdleHoldsNothing' /\ StrayIsLoss'
    BY <1>2 DEF MigInv, DataInv, IdleHoldsNothing, StrayIsLoss
  <2> QED BY <1>4, <2>1, <2>2 DEF DataInv
<1>6. MoveInv'
  BY <1>2, CallsKeepMoves DEF MigInv, DataInv, DataTyped
<1>7. CASE kind = "set"
  <2>1. NothingLost' => NothingLost
    BY <1>2 DEF NothingLost
  <2>2. ASSUME NEW v \in Issued, Comes(v)' PROVE Comes(v)
    <3>1. v \in UnderWay("set")' => v \in UnderWay("set")
      BY <1>1, <1>2, <1>3 DEF UnderWay, MigInv, DataInv, DataTyped, MoveInv, MoveTyped
    <3> QED BY <2>2, <3>1, <1>2 DEF Comes, moveVars
  <2>3. ASSUME NEW v \in Dirty, NEW x \in up', cache'[x] = v
        PROVE  x \in up /\ cache[x] = v /\ (DeleteComes(x) => DeleteComes(x)')
    <3>1. v \in Issued
      BY DEF Dirty, MigInv, DataInv, DataTyped
    <3>2. x \in up /\ cache[x] = v
      BY <1>1, <1>2, <1>7, <2>3, <3>1 DEF MigInv, DataInv, DataTyped, MoveInv, MoveTyped
    <3>3. \A j : Pends(j, x) => Pends(j, x)'
      BY <1>2 DEF Pends, MigInv, DataInv, DataTyped, MoveInv, MoveTyped
    <3> QED BY <3>2, <3>3, <1>3 DEF DeleteComes
  <2>4. doomed' \subseteq doomed
    BY <1>2, <1>7
  <2> HIDE DEF Dirty, Comes, DeleteComes, UnderWay, Racing
  <2>5. DirtyInv'
    BY <1>4, <1>6, <2>1, <2>2, <2>3, <2>4, FrameKeepsDirty DEF MoveInv
  <2> QED BY <1>5, <1>6, <2>5 DEF MigInv
<1>8. CASE kind = "delete"
  <2>1. i \in UnderWay("delete")'
    BY <1>1, <1>2, <1>3, <1>8 DEF UnderWay, MigInv, DataInv, DataTyped, MoveInv, MoveTyped
  <2>2. CleanOrNothing'
    BY <1>4, <1>6, DeletingIsClean, PTL DEF MoveInv
  <2>3. ASSUME NEW v \in Dirty', NEW x \in up', cache'[x] = v
        PROVE  DeleteComes(x)'
    <3>1. v \in Ops
      BY <1>4 DEF DataTyped, Dirty, Issued
    <3>2. x # n
      BY <1>2, <1>8, <2>3, <3>1, NothingIsNoOp DEF MigInv, DataInv, DataTyped,
         MoveInv, MoveTyped
    <3>3. i \in admitted'[n] /\ n \in up'
      BY <1>2 DEF MigInv, DataInv, DataTyped, MoveInv, MoveTyped
    <3>4. Pends(i, x)'
      BY <3>2, <3>3 DEF Pends
    <3>5. i \in Issued' /\ opKind'[i] = "delete"
      BY <1>1, <1>2, <1>3, <1>8 DEF MigInv, DataInv, DataTyped
    <3> QED BY <3>4, <3>5 DEF DeleteComes
  <2>4. DirtyInv'
    BY <2>1, <2>2, <2>3 DEF DirtyInv, CleanOrNothing
  <2> QED BY <1>5, <1>6, <2>4 DEF MigInv
<1> QED
  BY <1>7, <1>8

(* A Get obtains a value of Dirty only while a delete is still coming to   *)
(* the node it has it from.                                                *)
LEMMA FetchKeepsInv ==
  ASSUME MigInv, NEW n \in Nodes, Fetch(n),
         UNCHANGED <<up, view, moveVars>>, raced' = Racing
  PROVE  MigInv'
<1>1. PICK v0 \in {cache[p] : p \in PickedSet(n) \cap up} \cup {SourceValue} :
        v0 # Nothing /\ fills' = Append(fills, [node |-> n, val |-> v0])
  BY DEF Fetch
<1>2. UNCHANGED <<admitted, syncTasks, wpc, task, dropped, cache, opKind, todo, stray,
                  lossy, doomed>>
  BY DEF Fetch, poolVars
<1>3. v0 \in Copies /\ (v0 = SourceValue \/ \E p \in up : v0 = cache[p])
  BY <1>1 DEF MigInv, DataInv, DataTyped, MoveInv, MoveTyped, Copies
<1>4. fills' \in Seq(FillRecs) /\ \A v : (\E j \in DOMAIN fills' : fills'[j].val = v)
                                          => (\E j \in DOMAIN fills : fills[j].val = v) \/ v = v0
  <2>1. [node |-> n, val |-> v0] \in FillRecs
    BY <1>3 DEF FillRecs
  <2>2. fills \in Seq(FillRecs)
    BY DEF MigInv, DataInv, DataTyped
  <2>3. /\ DOMAIN fills = 1..Len(fills) /\ DOMAIN fills' = 1..Len(fills) + 1
        /\ Len(fills) \in Nat
        /\ \A j \in 1..Len(fills) : fills'[j] = fills[j]
        /\ fills'[Len(fills) + 1].val = v0
        /\ fills' \in Seq(FillRecs)
    BY <1>1, <2>1, <2>2
  <2> QED BY <2>3
<1>5. Issued' = Issued /\ \A x : UnderWay(x)' = UnderWay(x)
  BY <1>2, SameTasks
<1>6. DataInv'
  BY <1>2, <1>4, <1>5 DEF MigInv, DataInv, DataTyped, IssuedInOrder, IdleHoldsNothing,
     StrayIsLoss
<1>7. MoveInv'
  BY <1>2, CallsKeepMoves DEF MigInv
<1>8. NothingLost' => NothingLost
  BY <1>2 DEF NothingLost
<1>9. ASSUME NEW v \in Issued, Comes(v)'
      PROVE  Comes(v) \/ \E p \in up : cache[p] = v
  <2>1. v # SourceValue
    BY NothingIsNoOp DEF Issued
  <2> QED BY <1>3, <1>4, <1>5, <1>9, <2>1 DEF Comes, moveVars
<1>10. \A x : DeleteComes(x)' <=> DeleteComes(x)
  BY <1>2, SameTasks
<1>11. DirtyInv'
  <2> HIDE DEF Dirty, Comes, DeleteComes, UnderWay, Racing
  <2> QED BY <1>2, <1>5, <1>6, <1>7, <1>8, <1>9, <1>10, FrameKeepsDirty DEF MoveInv, DataInv
<1> QED
  BY <1>6, <1>7, <1>11 DEF MigInv

(* A request that offers its task loses it, which NothingLost excludes, or *)
(* moves it into the channel.                                              *)
LEMMA OfferKeepsInv ==
  ASSUME MigInv, NEW n \in Nodes, NEW i \in Ops, Offer(n, i),
         UNCHANGED <<up, view, moveVars>>, raced' = Racing
  PROVE  MigInv'
<1>1. /\ UNCHANGED <<wpc, task, cache, opKind, todo, stray, fills, lossy, doomed>>
      /\ n \in up /\ i \in admitted[n]
      /\ admitted' = [admitted EXCEPT ![n] = @ \ {i}]
      /\ \/ /\ syncTasks' = [syncTasks EXCEPT ![n] = Append(@, i)]
            /\ dropped' = dropped
         \/ /\ syncTasks' = syncTasks
            /\ dropped' = [dropped EXCEPT ![n] = @ \cup {i}]
  BY DEF Offer, Pool!Submit, Pool!Send, Pool!Drop
<1>2. syncTasks[n] \in Seq(Ops)
  BY DEF MigInv, DataInv, DataTyped
<1>3. /\ Append(syncTasks[n], i) \in Seq(Ops)
      /\ Members(Append(syncTasks[n], i)) = Members(syncTasks[n]) \cup {i}
  BY <1>2, AppendMembers
<1>4. Issued' = Issued
  BY <1>1 DEF Issued
<1>5. DataInv'
  <2>1. DataTyped'
    <3>1. syncTasks' \in [Nodes -> Seq(Ops)]
      BY <1>1, <1>3 DEF MigInv, DataInv, DataTyped
    <3>2. admitted' \in [Nodes -> SUBSET Ops]
      BY <1>1 DEF MigInv, DataInv, DataTyped
    <3>3. dropped' \in [Nodes -> SUBSET Ops]
      <4>1. [dropped EXCEPT ![n] = @ \cup {i}] \in [Nodes -> SUBSET Ops]
        BY DEF MigInv, DataInv, DataTyped
      <4> QED BY <1>1, <4>1 DEF MigInv, DataInv, DataTyped
    <3> QED BY <1>1, <1>4, <3>1, <3>2, <3>3 DEF MigInv, DataInv, DataTyped
  <2> QED BY <1>1, <1>4, <2>1 DEF MigInv, DataInv, IssuedInOrder, IdleHoldsNothing, StrayIsLoss
<1>6. MoveInv'
  BY <1>1, CallsKeepMoves DEF MigInv, DataInv, DataTyped
<1>7. CASE dropped' = [dropped EXCEPT ![n] = @ \cup {i}]
  <2>1. i \in dropped'[n]
    BY <1>7 DEF MigInv, DataInv, DataTyped
  <2>2. ~NothingLost'
    BY <2>1 DEF NothingLost
  <2> QED BY <1>5, <1>6, <2>2 DEF MigInv, DirtyInv
<1>8. CASE dropped' = dropped /\ syncTasks' = [syncTasks EXCEPT ![n] = Append(@, i)]
  <2>1. ASSUME NEW q \in Nodes, NEW j
        PROVE  j \in admitted'[q] \/ j \in Members(syncTasks'[q])
                 <=> j \in admitted[q] \/ j \in Members(syncTasks[q])
    <3>1. CASE q = n
      <4>1. admitted'[q] = admitted[q] \ {i} /\ syncTasks'[q] = Append(syncTasks[q], i)
        BY <1>1, <1>8, <3>1 DEF MigInv, DataInv, DataTyped
      <4> QED BY <1>1, <1>3, <3>1, <4>1
    <3>2. CASE q # n
      BY <1>1, <1>8, <3>2 DEF MigInv, DataInv, DataTyped
    <3> QED BY <3>1, <3>2
  <2>2. \A q \in up : q \in Nodes
    BY DEF MigInv, MoveInv, MoveTyped
  <2>3. \A x : UnderWay(x)' = UnderWay(x)
    BY <1>1, <1>4, <2>1, <2>2 DEF UnderWay
  <2>4. \A x : DeleteComes(x)' <=> DeleteComes(x)
    <3>1. \A j, x : Pends(j, x)' <=> Pends(j, x)
      BY <1>1, <2>1, <2>2 DEF Pends
    <3> QED BY <1>1, <1>4, <3>1 DEF DeleteComes
  <2>5. \A v : Comes(v)' => Comes(v)
    BY <1>1, <2>3 DEF Comes, moveVars
  <2>6. NothingLost' => NothingLost
    BY <1>1, <1>8 DEF NothingLost
  <2>7. DirtyInv'
    <3> HIDE DEF Dirty, Comes, DeleteComes, UnderWay, Racing
    <3> QED BY <1>1, <1>5, <1>6, <2>4, <2>5, <2>6, FrameKeepsDirty DEF MoveInv, DataInv
  <2> QED BY <1>5, <1>6, <2>7 DEF MigInv
<1> QED
  BY <1>1, <1>7, <1>8

(* A worker that takes a delete finds every other node on its ring, as no  *)
(* node comes or goes while there is something left for it to clear.       *)
LEMMA BeginKeepsInv ==
  ASSUME MigInv, NEW n \in Nodes, NEW w \in Workers, n \in up, Begin(n, w),
         UNCHANGED <<up, view, moveVars>>, raced' = Racing
  PROVE  MigInv'
<1>0. PICK i : i = Head(syncTasks[n])
  OBVIOUS
<1>1. /\ UNCHANGED <<admitted, dropped, cache, opKind, stray, fills, lossy, doomed>>
      /\ wpc[n][w] = "select" /\ syncTasks[n] # <<>>
      /\ task' = [task EXCEPT ![n][w] = i]
      /\ syncTasks' = [syncTasks EXCEPT ![n] = Tail(@)]
      /\ wpc' = [wpc EXCEPT ![n][w] = "busy"]
      /\ todo' = [todo EXCEPT ![n][w] = Targets(n, i)]
  BY <1>0 DEF Begin, Pool!Take, Pool!Receive
<1>2. syncTasks[n] \in Seq(Ops)
  BY DEF MigInv, DataInv, DataTyped
<1>3. /\ Tail(syncTasks[n]) \in Seq(Ops) /\ i \in Ops
      /\ Members(syncTasks[n]) = Members(Tail(syncTasks[n])) \cup {i}
  BY <1>0, <1>1, <1>2, TailMembers
<1>4. Issued' = Issued
  BY <1>1 DEF Issued
<1>T. /\ \A q \in Nodes, x \in Workers :
           /\ task'[q][x] = IF q = n /\ x = w THEN i ELSE task[q][x]
           /\ todo'[q][x] = IF q = n /\ x = w THEN Targets(n, i) ELSE todo[q][x]
           /\ wpc'[q][x] = IF q = n /\ x = w THEN "busy" ELSE wpc[q][x]
      /\ \A q \in Nodes : syncTasks'[q] = IF q = n THEN Tail(syncTasks[n]) ELSE syncTasks[q]
  <2>1. \A q \in Nodes, x \in Workers :
          task'[q][x] = IF q = n /\ x = w THEN i ELSE task[q][x]
    BY <1>1 DEF MigInv, DataInv, DataTyped
  <2>2. \A q \in Nodes, x \in Workers :
          todo'[q][x] = IF q = n /\ x = w THEN Targets(n, i) ELSE todo[q][x]
    BY <1>1 DEF MigInv, DataInv, DataTyped
  <2>3. \A q \in Nodes, x \in Workers :
          wpc'[q][x] = IF q = n /\ x = w THEN "busy" ELSE wpc[q][x]
    BY <1>1 DEF MigInv, DataInv, DataTyped
  <2>4. \A q \in Nodes : syncTasks'[q] = IF q = n THEN Tail(syncTasks[n]) ELSE syncTasks[q]
    BY <1>1 DEF MigInv, DataInv, DataTyped
  <2> QED BY <2>1, <2>2, <2>3, <2>4
<1>5. DataInv'
  <2>1. syncTasks' \in [Nodes -> Seq(Ops)]
    BY <1>1, <1>3 DEF MigInv, DataInv, DataTyped
  <2>2. task' \in [Nodes -> [Workers -> Ops \cup {NoTask}]]
    BY <1>1, <1>3 DEF MigInv, DataInv, DataTyped
  <2>3. wpc' \in [Nodes -> [Workers -> {"select", "busy"}]]
    BY <1>1 DEF MigInv, DataInv, DataTyped
  <2>4. DOMAIN todo' = Nodes /\ \A q \in Nodes : DOMAIN todo'[q] = Workers
    BY <1>1 DEF MigInv, DataInv, DataTyped
  <2>5. DataTyped'
    BY <1>1, <1>4, <2>1, <2>2, <2>3, <2>4 DEF MigInv, DataInv, DataTyped
  <2>6. IdleHoldsNothing'
    BY <1>3, <1>T, BoundsAssumption DEF MigInv, DataInv, IdleHoldsNothing
  <2> QED BY <1>1, <1>4, <2>5, <2>6 DEF MigInv, DataInv, IssuedInOrder, StrayIsLoss
<1>6. MoveInv'
  <2>1. \A j \in Nodes \ up : j # n
    OBVIOUS
  <2> QED BY <1>1, <1>T, <2>1, CallsKeepMoves DEF MigInv
<1>7. NothingLost' => NothingLost
  BY <1>1 DEF NothingLost
<1>8. task[n][w] = NoTask /\ todo[n][w] = {}
  BY <1>1 DEF MigInv, DataInv, IdleHoldsNothing
<1>9. \A q \in up : q \in Nodes
  BY DEF MigInv, MoveInv, MoveTyped
<1>10. ASSUME NEW v \in Issued, Comes(v)' PROVE Comes(v)
  <2>1. v \in UnderWay("set")' => v \in UnderWay("set")
    BY <1>1, <1>3, <1>4, <1>T, <1>9 DEF UnderWay
  <2> QED BY <1>1, <1>10, <2>1 DEF Comes, moveVars
<1>11. ASSUME NEW v \in Dirty, NEW x \in up, DeleteComes(x)
       PROVE  DeleteComes(x)'
  <2>1. PICK j \in Issued : opKind[j] = "delete" /\ Pends(j, x)
    BY <1>11 DEF DeleteComes
  <2>2. PICK q \in up \ {x} :
          \/ j \in admitted[q] \/ j \in Members(syncTasks[q])
          \/ \E u \in Workers : task[q][u] = j /\ x \in todo[q][u]
    BY <2>1 DEF Pends
  <2>3. CASE q = n /\ j = i
    <3>1. Steady
      BY <1>11, ComingIsUnderWay, DeletingIsClean DEF CleanOrNothing, MigInv, DataInv, MoveInv
    <3>2. x \in clients[n]
      BY <2>2, <2>3, <3>1 DEF MigInv, MoveInv, AllTold, Steady
    <3>3. x \in todo'[n][w] /\ task'[n][w] = j
      BY <1>T, <2>1, <2>3, <3>2 DEF Targets, AllPeers
    <3>4. Pends(j, x)'
      BY <1>6, <2>2, <2>3, <3>3 DEF Pends, moveVars
    <3> QED BY <1>1, <1>4, <2>1, <3>4 DEF DeleteComes
  <2>4. CASE ~(q = n /\ j = i)
    <3>1. \/ j \in admitted'[q] \/ j \in Members(syncTasks'[q])
          \/ \E u \in Workers : task'[q][u] = j /\ x \in todo'[q][u]
      <4>1. CASE j \in admitted[q]
        BY <4>1, <1>1
      <4>2. CASE j \in Members(syncTasks[q])
        BY <4>2, <2>4, <1>T, <1>3, <1>9
      <4>3. CASE \E u \in Workers : task[q][u] = j /\ x \in todo[q][u]
        <5>1. PICK u \in Workers : task[q][u] = j /\ x \in todo[q][u]
          BY <4>3
        <5>2. ~(q = n /\ u = w)
          BY <5>1, <1>8
        <5>3. task'[q][u] = task[q][u] /\ todo'[q][u] = todo[q][u]
          BY <1>T, <1>9, <5>2
        <5> QED BY <5>1, <5>3
      <4> QED BY <2>2, <4>1, <4>2, <4>3
    <3>2. Pends(j, x)'
      BY <2>2, <3>1 DEF Pends
    <3> QED BY <1>1, <1>4, <2>1, <3>2 DEF DeleteComes
  <2> QED BY <2>3, <2>4
<1>12. DirtyInv'
  <2> HIDE DEF Dirty, Comes, DeleteComes, UnderWay, Racing
  <2> QED BY <1>1, <1>5, <1>6, <1>7, <1>10, <1>11, FrameKeepsDirty DEF MoveInv, DataInv
<1> QED
  BY <1>5, <1>6, <1>12 DEF MigInv

(* A call to p is over: worker w of n has one peer less to call.           *)
LeftOut(n, w, p) ==
  /\ \A q \in Nodes, x \in Workers :
       todo'[q][x] = IF q = n /\ x = w THEN todo[n][w] \ {p} ELSE todo[q][x]
  /\ DOMAIN todo' = Nodes /\ \A q \in Nodes : DOMAIN todo'[q] = Workers
  /\ IdleHoldsNothing => IdleHoldsNothing'
  /\ Issued' = Issued
  /\ \A x : x # p => (DeleteComes(x) => DeleteComes(x)')

LEMMA LessToDo ==
  ASSUME DataTyped, MoveTyped, NEW n \in Nodes, NEW w \in Workers, NEW p,
         n \in up, todo' = [todo EXCEPT ![n][w] = @ \ {p}],
         UNCHANGED <<admitted, syncTasks, wpc, task, opKind, up>>
  PROVE  LeftOut(n, w, p)
<1>1. \A q \in Nodes, x \in Workers :
        todo'[q][x] = IF q = n /\ x = w THEN todo[n][w] \ {p} ELSE todo[q][x]
  BY DEF DataTyped
<1>2. DOMAIN todo' = Nodes /\ \A q \in Nodes : DOMAIN todo'[q] = Workers
  BY DEF DataTyped
<1>3. IdleHoldsNothing => IdleHoldsNothing'
  BY <1>1 DEF IdleHoldsNothing
<1>4. Issued' = Issued
  BY DEF Issued
<1>5. ASSUME NEW x, x # p, NEW i, Pends(i, x)
      PROVE  Pends(i, x)'
  BY <1>1, <1>5 DEF Pends, MoveTyped
<1>6. ASSUME NEW x, x # p, DeleteComes(x)
      PROVE  DeleteComes(x)'
  BY <1>4, <1>5, <1>6 DEF DeleteComes
<1> QED
  BY <1>1, <1>2, <1>3, <1>4, <1>6 DEF LeftOut

(* A call that is served tells one node: of a delete, and then it holds    *)
(* nothing; or of a set, whose value was on its way.                       *)
LEMMA CallServedKeepsInv ==
  ASSUME MigInv, NEW n \in Nodes, NEW w \in Workers, n \in up, CallServed(n, w),
         UNCHANGED <<up, view, moveVars>>, raced' = Racing
  PROVE  MigInv'
<1>0. PICK p \in Callees(n, w) \cap up :
        /\ cache' = [cache EXCEPT ![p] = ValueOf(task[n][w])]
        /\ stray' = stray \cup PassedOn(p, task[n][w])
        /\ todo' = [todo EXCEPT ![n][w] = @ \ {p}]
  BY DEF CallServed
<1>i. PICK i : i = task[n][w]
  OBVIOUS
<1>1. /\ UNCHANGED <<admitted, syncTasks, wpc, task, dropped, opKind, stray, fills, lossy,
                     doomed>>
      /\ p \in up /\ p \in todo[n][w]
      /\ cache' = [cache EXCEPT ![p] = ValueOf(i)]
      /\ todo' = [todo EXCEPT ![n][w] = @ \ {p}]
  BY <1>0, <1>i DEF CallServed, poolVars, PassedOn, Callees
<1>2. i \in Ops
  <2>1. i # NoTask
    BY <1>i, <1>1 DEF MigInv, DataInv, IdleHoldsNothing
  <2> QED BY <2>1, <1>i DEF MigInv, DataInv, DataTyped
<1>3. /\ \A q \in Nodes, x \in Workers :
           todo'[q][x] = IF q = n /\ x = w THEN todo[n][w] \ {p} ELSE todo[q][x]
      /\ DOMAIN todo' = Nodes /\ \A q \in Nodes : DOMAIN todo'[q] = Workers
      /\ IdleHoldsNothing'
      /\ Issued' = Issued
      /\ \A x : x # p => (DeleteComes(x) => DeleteComes(x)')
  <2>1. LeftOut(n, w, p)
    BY <1>1, LessToDo DEF MigInv, DataInv, MoveInv
  <2> QED BY <2>1 DEF LeftOut, MigInv, DataInv
<1>4. ValueOf(i) \in Copies /\ (ValueOf(i) # Nothing => i \in UnderWay("set") /\ ValueOf(i) = i)
  <2>1. CASE opKind[i] = "set"
    <3>1. i \in Issued
      BY <2>1, <1>2 DEF Issued
    <3>2. i \in UnderWay("set")
      BY <2>1, <3>1, <1>i DEF UnderWay
    <3> QED BY <2>1, <3>2, <1>2 DEF ValueOf, Copies
  <2>2. CASE opKind[i] # "set"
    BY <2>2 DEF ValueOf, Copies
  <2> QED BY <2>1, <2>2
<1>5. DataInv'
  <2>1. cache' \in [Nodes -> Copies]
    BY <1>1, <1>4 DEF MigInv, DataInv, DataTyped
  <2> QED BY <1>1, <1>3, <2>1 DEF MigInv, DataInv, DataTyped, IssuedInOrder, StrayIsLoss
<1>6. MoveInv'
  <2>1. \A j \in Nodes \ up : j # p
    BY <1>1
  <2>2. \A j \in Nodes \ up : cache'[j] = cache[j]
    BY <1>1, <2>1 DEF MigInv, DataInv, DataTyped
  <2> QED BY <1>1, <2>2, CallsKeepMoves DEF MigInv
<1>7. NothingLost' => NothingLost
  BY <1>1 DEF NothingLost
<1>8. ASSUME NEW v, Comes(v)' PROVE Comes(v)
  <2>1. v \in UnderWay("set")' => v \in UnderWay("set")
    BY <1>1, <1>3 DEF UnderWay
  <2> QED BY <1>1, <1>8, <2>1 DEF Comes, moveVars
<1>9. ASSUME NEW v \in Dirty, ~Comes(v), NEW x \in up, cache'[x] = v
      PROVE  cache[x] = v /\ x # p
  <2>1. v \in Ops
    BY DEF Dirty, MigInv, DataInv, DataTyped, Issued
  <2>2. ASSUME x = p PROVE FALSE
    <3>1. v = ValueOf(i)
      BY <1>1, <1>9, <2>2 DEF MigInv, DataInv, DataTyped, MoveInv, MoveTyped
    <3>2. v # Nothing
      BY <2>1, NothingIsNoOp
    <3>3. v \in UnderWay("set")
      BY <3>1, <3>2, <1>4
    <3> QED BY <3>3, <1>9 DEF Comes
  <2> QED BY <1>1, <1>9, <2>2 DEF MigInv, DataInv, DataTyped, MoveInv, MoveTyped
<1>10. DirtyInv'
  <2> HIDE DEF Dirty, Comes, DeleteComes, UnderWay, Racing
  <2> QED BY <1>1, <1>3, <1>5, <1>6, <1>7, <1>8, <1>9, FrameKeepsDirty DEF MoveInv, DataInv
<1> QED
  BY <1>5, <1>6, <1>10 DEF MigInv

(* A call that fails is a loss.                                            *)
LEMMA CallFailsKeepsInv ==
  ASSUME MigInv, NEW n \in Nodes, NEW w \in Workers, n \in up, CallFails(n, w),
         UNCHANGED <<up, view, moveVars>>
  PROVE  MigInv'
<1>0. PICK p \in Callees(n, w) \cap up :
        /\ stray' \in {stray, stray \cup {<<p, task[n][w]>>}}
        /\ todo' = [todo EXCEPT ![n][w] = @ \ {p}]
  BY DEF CallFails
<1>1. /\ UNCHANGED <<admitted, syncTasks, wpc, task, dropped, cache, opKind, fills, doomed>>
      /\ lossy' = TRUE
  BY DEF CallFails, poolVars
<1>2. /\ DOMAIN todo' = Nodes /\ \A q \in Nodes : DOMAIN todo'[q] = Workers
      /\ IdleHoldsNothing'
      /\ Issued' = Issued
  <2>1. LeftOut(n, w, p)
    BY <1>0, <1>1, LessToDo DEF MigInv, DataInv, MoveInv
  <2> QED BY <2>1 DEF LeftOut, MigInv, DataInv
<1>3. DataInv'
  <2>1. p \in Nodes /\ task[n][w] \in Ops
    BY <1>0, BoundsAssumption DEF Callees, MigInv, DataInv, DataTyped, IdleHoldsNothing,
       MoveInv, MoveTyped
  <2>2. stray' \subseteq Nodes \X Ops
    BY <1>0, <2>1 DEF MigInv, DataInv, DataTyped
  <2> QED BY <1>1, <1>2, <2>2 DEF MigInv, DataInv, DataTyped, IssuedInOrder, StrayIsLoss
<1>4. MoveInv'
  BY <1>1, CallsKeepMoves DEF MigInv
<1>5. DirtyInv'
  BY <1>1 DEF DirtyInv, NothingLost
<1> QED
  BY <1>3, <1>4, <1>5 DEF MigInv

(* A call is given up on only when nobody runs there any more.             *)
LEMMA CallGivesUpKeepsInv ==
  ASSUME MigInv, NEW n \in Nodes, NEW w \in Workers, n \in up, CallGivesUp(n, w),
         UNCHANGED <<up, view, moveVars>>, raced' = Racing
  PROVE  MigInv'
<1>0. PICK p : p \notin up /\ todo' = [todo EXCEPT ![n][w] = @ \ {p}]
  BY DEF CallGivesUp
<1>1. UNCHANGED <<admitted, syncTasks, wpc, task, dropped, cache, opKind, stray, fills, lossy,
                  doomed>>
  BY DEF CallGivesUp, poolVars
<1>2. /\ \A q \in Nodes, x \in Workers :
           todo'[q][x] = IF q = n /\ x = w THEN todo[n][w] \ {p} ELSE todo[q][x]
      /\ DOMAIN todo' = Nodes /\ \A q \in Nodes : DOMAIN todo'[q] = Workers
      /\ IdleHoldsNothing'
      /\ Issued' = Issued
      /\ \A x : x # p => (DeleteComes(x) => DeleteComes(x)')
  <2>1. LeftOut(n, w, p)
    BY <1>0, <1>1, LessToDo DEF MigInv, DataInv, MoveInv
  <2> QED BY <2>1 DEF LeftOut, MigInv, DataInv
<1>3. DataInv'
  BY <1>1, <1>2 DEF MigInv, DataInv, DataTyped, IssuedInOrder, StrayIsLoss
<1>4. MoveInv'
  BY <1>1, CallsKeepMoves DEF MigInv
<1>5. NothingLost' => NothingLost
  BY <1>1 DEF NothingLost
<1>6. ASSUME NEW v, Comes(v)' PROVE Comes(v)
  <2>1. v \in UnderWay("set")' => v \in UnderWay("set")
    BY <1>1, <1>2 DEF UnderWay
  <2> QED BY <1>1, <1>6, <2>1 DEF Comes, moveVars
<1>7. DirtyInv'
  <2> HIDE DEF Dirty, Comes, DeleteComes, UnderWay, Racing
  <2> QED BY <1>0, <1>1, <1>2, <1>3, <1>4, <1>5, <1>6, FrameKeepsDirty DEF MoveInv, DataInv
<1> QED
  BY <1>3, <1>4, <1>7 DEF MigInv

(* A request whose caller gave up comes only after a loss.                 *)
LEMMA ServeStrayKeepsInv ==
  ASSUME MigInv, ServeStray, UNCHANGED <<up, view, moveVars>>
  PROVE  MigInv'
<1>0. PICK r \in stray :
        /\ r[1] \in up
        /\ cache' = [cache EXCEPT ![r[1]] = ValueOf(r[2])]
  BY DEF ServeStray
<1>1. UNCHANGED <<admitted, syncTasks, wpc, task, dropped, opKind, todo, fills, lossy, doomed>>
  BY DEF ServeStray, poolVars
<1>2. lossy
  BY <1>0 DEF MigInv, DataInv, StrayIsLoss
<1>3. DataInv'
  <2>1. r[2] \in Ops
    BY <1>0 DEF MigInv, DataInv, DataTyped
  <2>2. ValueOf(r[2]) \in Copies
    BY <2>1 DEF ValueOf, Copies
  <2>3. cache' \in [Nodes -> Copies]
    BY <1>0, <2>2 DEF MigInv, DataInv, DataTyped
  <2>4. stray' \subseteq Nodes \X Ops
    BY DEF ServeStray, PassedOn, MigInv, DataInv, DataTyped
  <2>5. Issued' = Issued
    BY <1>1 DEF Issued
  <2> QED BY <1>1, <1>2, <2>3, <2>4, <2>5 DEF MigInv, DataInv, DataTyped, IssuedInOrder,
             IdleHoldsNothing, StrayIsLoss
<1>4. MoveInv'
  <2>1. \A j \in Nodes \ up : cache'[j] = cache[j]
    BY <1>0 DEF MigInv, DataInv, DataTyped
  <2> QED BY <1>1, <2>1, CallsKeepMoves DEF MigInv
<1>5. DirtyInv'
  BY <1>1, <1>2 DEF DirtyInv, NothingLost
<1> QED
  BY <1>3, <1>4, <1>5 DEF MigInv

(* A task ends when nobody is left to be told of it.                       *)
LEMMA EndKeepsInv ==
  ASSUME MigInv, NEW n \in Nodes, NEW w \in Workers, n \in up, End(n, w),
         UNCHANGED <<up, view, moveVars>>, raced' = Racing
  PROVE  MigInv'
<1>1. /\ UNCHANGED <<admitted, syncTasks, dropped, cache, opKind, todo, stray, fills, lossy,
                     doomed>>
      /\ todo[n][w] = {} /\ wpc[n][w] \in {"busy", "drainBusy"}
      /\ task' = [task EXCEPT ![n][w] = NoTask]
      /\ wpc' = [wpc EXCEPT ![n][w] = IF @ = "busy" THEN "select" ELSE "drain"]
  BY DEF End, Pool!Finish, Pool!Busy
<1>2. wpc[n][w] = "busy"
  BY <1>1 DEF MigInv, DataInv, DataTyped
<1>T. \A q \in Nodes, x \in Workers :
        /\ task'[q][x] = IF q = n /\ x = w THEN NoTask ELSE task[q][x]
        /\ wpc'[q][x] = IF q = n /\ x = w THEN "select" ELSE wpc[q][x]
  <2>1. \A q \in Nodes, x \in Workers :
          task'[q][x] = IF q = n /\ x = w THEN NoTask ELSE task[q][x]
    BY <1>1 DEF MigInv, DataInv, DataTyped
  <2>2. \A q \in Nodes, x \in Workers :
          wpc'[q][x] = IF q = n /\ x = w THEN "select" ELSE wpc[q][x]
    BY <1>1, <1>2 DEF MigInv, DataInv, DataTyped
  <2> QED BY <2>1, <2>2
<1>3. Issued' = Issued
  BY <1>1 DEF Issued
<1>4. DataInv'
  <2>1. task' \in [Nodes -> [Workers -> Ops \cup {NoTask}]]
    BY <1>1 DEF MigInv, DataInv, DataTyped
  <2>2. wpc' \in [Nodes -> [Workers -> {"select", "busy"}]]
    BY <1>1, <1>2 DEF MigInv, DataInv, DataTyped
  <2>3. IdleHoldsNothing'
    BY <1>1, <1>T DEF MigInv, DataInv, IdleHoldsNothing
  <2> QED BY <1>1, <1>3, <2>1, <2>2, <2>3 DEF MigInv, DataInv, DataTyped, IssuedInOrder,
             StrayIsLoss
<1>5. MoveInv'
  <2>1. \A j \in Nodes \ up : j # n
    OBVIOUS
  <2> QED BY <1>1, <1>T, <2>1, CallsKeepMoves DEF MigInv
<1>6. NothingLost' => NothingLost
  BY <1>1 DEF NothingLost
<1>7. \A q \in up : q \in Nodes
  BY DEF MigInv, MoveInv, MoveTyped
<1>8. ASSUME NEW v, Comes(v)' PROVE Comes(v)
  <2>1. v \in UnderWay("set")' => v \in UnderWay("set")
    <3>1. NoTask \notin Issued
      BY BoundsAssumption DEF Issued
    <3> QED BY <3>1, <1>1, <1>3, <1>7, <1>T DEF UnderWay
  <2> QED BY <1>1, <1>8, <2>1 DEF Comes, moveVars
<1>9. ASSUME NEW x, DeleteComes(x) PROVE DeleteComes(x)'
  <2>1. \A j : Pends(j, x) => Pends(j, x)'
    BY <1>1, <1>7, <1>T DEF Pends
  <2> QED BY <1>1, <1>3, <1>9, <2>1 DEF DeleteComes
<1>10. DirtyInv'
  <2> HIDE DEF Dirty, Comes, DeleteComes, UnderWay, Racing
  <2> QED BY <1>1, <1>4, <1>5, <1>6, <1>8, <1>9, FrameKeepsDirty DEF MoveInv, DataInv
<1> QED
  BY <1>4, <1>5, <1>10 DEF MigInv

(* What a Get is to add was on its way, so it is nothing of Dirty.         *)
LEMMA FillKeepsInv ==
  ASSUME MigInv, NEW i \in DOMAIN fills, Fill(i),
         UNCHANGED <<up, view, moveVars>>, raced' = Racing
  PROVE  MigInv'
<1>0. PICK p, u : p = fills[i].node /\ u = fills[i].val
  OBVIOUS
<1>1. /\ UNCHANGED <<admitted, syncTasks, wpc, task, dropped, opKind, todo, stray, lossy,
                     doomed>>
      /\ p \in up
      /\ cache' = [cache EXCEPT ![p] = u]
      /\ fills' = [fills EXCEPT ![i].val = Nothing]
  BY <1>0 DEF Fill, poolVars
<1>2. /\ fills \in Seq(FillRecs) /\ DOMAIN fills = 1..Len(fills) /\ Len(fills) \in Nat
      /\ fills[i] \in FillRecs
  BY DEF MigInv, DataInv, DataTyped
<1>3. u \in Copies
  BY <1>0, <1>2 DEF FillRecs
<1>4. /\ fills' \in Seq(FillRecs) /\ DOMAIN fills' = DOMAIN fills
      /\ \A j \in DOMAIN fills : fills'[j].val = IF j = i THEN Nothing ELSE fills[j].val
  <2>1. [fills[i] EXCEPT !.val = Nothing] \in FillRecs
        /\ [fills[i] EXCEPT !.val = Nothing].val = Nothing
    BY <1>2 DEF FillRecs, Copies
  <2>2. fills' = [fills EXCEPT ![i] = [fills[i] EXCEPT !.val = Nothing]]
    BY <1>1
  <2> QED BY <1>2, <2>1, <2>2
<1>5. Issued' = Issued /\ (\A x : UnderWay(x)' = UnderWay(x))
      /\ (\A x : DeleteComes(x)' <=> DeleteComes(x))
  BY <1>1, SameTasks
<1>6. DataInv'
  <2>1. cache' \in [Nodes -> Copies]
    BY <1>1, <1>3 DEF MigInv, DataInv, DataTyped
  <2> QED BY <1>1, <1>4, <1>5, <2>1 DEF MigInv, DataInv, DataTyped, IssuedInOrder,
             IdleHoldsNothing, StrayIsLoss
<1>7. MoveInv'
  <2>1. \A j \in Nodes \ up : cache'[j] = cache[j]
    BY <1>1 DEF MigInv, DataInv, DataTyped
  <2> QED BY <1>1, <2>1, CallsKeepMoves DEF MigInv
<1>8. NothingLost' => NothingLost
  BY <1>1 DEF NothingLost
<1>9. ASSUME NEW v \in Issued, Comes(v)' PROVE Comes(v)
  <2>1. v # Nothing
    BY NothingIsNoOp DEF Issued
  <2> QED BY <1>4, <1>5, <1>9, <2>1 DEF Comes, moveVars
<1>10. ASSUME NEW v \in Dirty, ~Comes(v), NEW x \in up, cache'[x] = v
       PROVE  cache[x] = v
  <2>1. u # v
    BY <1>0, <1>10 DEF Comes
  <2> QED BY <1>1, <1>10, <2>1 DEF MigInv, DataInv, DataTyped, MoveInv, MoveTyped
<1>11. DirtyInv'
  <2> HIDE DEF Dirty, Comes, DeleteComes, UnderWay, Racing
  <2> QED BY <1>1, <1>5, <1>6, <1>7, <1>8, <1>9, <1>10, FrameKeepsDirty DEF MoveInv, DataInv
<1> QED
  BY <1>6, <1>7, <1>11 DEF MigInv

LEMMA CallsKeepInv ==
  ASSUME MigInv, UNCHANGED <<up, view, moveVars>>, raced' = Racing,
         \/ CarryOn
         \/ \E n \in Nodes : Fetch(n) \/ \E kind \in {"set", "delete"} : Write(n, kind)
  PROVE  MigInv'
<1>1. ASSUME NEW n \in Nodes, NEW w \in Workers, WorkerStep(n, w)
      PROVE  MigInv'
  BY <1>1, BeginKeepsInv, CallServedKeepsInv, CallFailsKeepsInv, CallGivesUpKeepsInv,
     EndKeepsInv DEF WorkerStep
<1> QED
  BY <1>1, OfferKeepsInv, FillKeepsInv, ServeStrayKeepsInv, FetchKeepsInv, WriteKeepsInv
  DEF CarryOn

-----------------------------------------------------------------------------
(* A step of a node that comes or goes leaves the calls under way alone.   *)
taskVars == <<admitted, syncTasks, wpc, task, dropped, opKind, todo, stray, fills, doomed>>

LEMMA MovesKeepData ==
  ASSUME DataInv, UNCHANGED taskVars, cache' \in [Nodes -> Copies],
         lossy' = lossy \/ lossy' = TRUE
  PROVE  DataInv'
BY DEF DataInv, DataTyped, IssuedInOrder, IdleHoldsNothing, StrayIsLoss, taskVars, Issued

(* The node that joins holds nothing, and nothing is on its way to it.     *)
LEMMA JoinKeepsInv ==
  ASSUME MigInv, NEW j \in Nodes, Join(j), raced' = Racing
  PROVE  MigInv'
<1>1. /\ UNCHANGED <<dataVars, mover, away>>
      /\ j \in plan.join
      /\ plan' = [plan EXCEPT !.join = {}]
      /\ clients' = [clients EXCEPT ![j] = up]
      /\ up' = up \cup {j}
      /\ news' = {<<n, j>> : n \in {q \in up' : j \in Discovered(q, up')}}
  BY DEF Join
<1>2. UNCHANGED taskVars /\ UNCHANGED <<cache, lossy>>
  BY <1>1 DEF taskVars, dataVars, poolVars
<1>3. DataInv'
  BY <1>2, MovesKeepData DEF MigInv, DataInv, DataTyped
<1>4. plan' = [join |-> {}, leave |-> plan.leave]
  BY <1>1 DEF MigInv, MoveInv, MoveTyped
<1>5. MoveInv'
  <2>1. MoveTyped'
    <3>1. news' \subseteq Nodes \X Nodes /\ up' \subseteq Nodes
      BY <1>1 DEF MigInv, MoveInv, MoveTyped
    <3>2. clients' \in [Nodes -> SUBSET Nodes]
      BY <1>1 DEF MigInv, MoveInv, MoveTyped
    <3>3. plan' \in [join : SUBSET Nodes, leave : SUBSET Nodes]
      BY <1>4 DEF MigInv, MoveInv, MoveTyped
    <3>4. AwayTyped'
      BY <1>1 DEF MigInv, MoveInv, MoveTyped, AwayTyped
    <3> QED BY <1>1, <3>1, <3>2, <3>3, <3>4 DEF MigInv, MoveInv, MoveTyped
  <2>2. JoinersFresh' /\ LeaverRuns'
    BY <1>1, <1>4 DEF MigInv, MoveInv, JoinersFresh, LeaverRuns
  <2>3. ASSUME NEW q \in up', NEW n \in up', q # n
        PROVE  n \in clients'[q] \/ <<q, n>> \in news'
    <3>1. CASE n = j
      <4>1. j \in Discovered(q, up')
        BY <1>1, <2>3, <3>1 DEF Discovered
      <4> QED BY <1>1, <3>1, <4>1
    <3>2. CASE q = j
      BY <1>1, <2>3, <3>2 DEF MigInv, MoveInv, MoveTyped
    <3>3. CASE q # j /\ n # j
      <4>1. news = {}
        BY <1>1 DEF MigInv, MoveInv, AllTold
      <4>2. n \in clients[q]
        BY <1>1, <2>3, <3>3, <4>1 DEF MigInv, MoveInv, AllTold
      <4> QED BY <1>1, <3>3, <4>2 DEF MigInv, MoveInv, MoveTyped
    <3> QED BY <3>1, <3>2, <3>3
  <2>4. AllTold'
    BY <1>4, <2>3 DEF AllTold
  <2> QED BY <2>1, <2>2, <2>4 DEF MoveInv
<1>6. /\ j \notin up /\ cache[j] = Nothing /\ admitted[j] = {} /\ Members(syncTasks[j]) = {}
      /\ (\A w \in Workers : task[j][w] = NoTask)
      /\ mover[j].step # "send"
  BY <1>1 DEF MigInv, MoveInv, JoinersFresh, NoMove, Members
<1>7. Issued' = Issued
  BY <1>2 DEF Issued, taskVars
<1>8. \A x : UnderWay(x)' = UnderWay(x)
  <2>1. NoTask \notin Issued
    BY BoundsAssumption DEF Issued
  <2> QED BY <1>1, <1>2, <1>6, <1>7, <2>1 DEF UnderWay, taskVars
<1>9. \A v : Comes(v)' => Comes(v)
  BY <1>1, <1>2, <1>6, <1>8 DEF Comes, taskVars
<1>10. \A x : DeleteComes(x) => DeleteComes(x)'
  BY <1>1, <1>2, <1>7 DEF DeleteComes, Pends, taskVars
<1>11. \A v \in Issued : v # Nothing
  BY NothingIsNoOp DEF Issued
<1>12. Dirty \subseteq Issued /\ doomed' = doomed /\ (NothingLost' => NothingLost)
  BY <1>2 DEF Dirty, MigInv, DataInv, DataTyped, NothingLost, taskVars
<1>13. DirtyInv'
  <2> HIDE DEF Dirty, Comes, DeleteComes, UnderWay, Racing
  <2> QED BY <1>1, <1>2, <1>3, <1>5, <1>6, <1>9, <1>10, <1>11, <1>12, FrameKeepsDirty
          DEF MoveInv, DataInv
<1> QED
  BY <1>3, <1>5, <1>13 DEF MigInv

(* The mover of a node that runs goes on, whatever it does now.            *)
LEMMA MoversKeepMoves ==
  ASSUME MoveInv, NEW n \in Nodes, n \in up, NEW m \in MoveRecs,
         mover' = [mover EXCEPT ![n] = m],
         UNCHANGED <<admitted, syncTasks, task, up, clients, plan, news, away>>,
         \A j \in Nodes \ up : cache'[j] = cache[j]
  PROVE  MoveInv'
<1>1. MoveTyped'
  <2>1. mover' \in [Nodes -> MoveRecs]
    BY DEF MoveInv, MoveTyped
  <2> QED BY <2>1 DEF MoveInv, MoveTyped, AwayTyped
<1>2. LeaverRuns' /\ AllTold'
  BY DEF MoveInv, LeaverRuns, AllTold
<1>3. JoinersFresh'
  BY DEF MoveInv, MoveTyped, JoinersFresh
<1> QED
  BY <1>1, <1>2, <1>3 DEF MoveInv

LEMMA DiscoverKeepsInv ==
  ASSUME MigInv, NEW n \in Nodes, NEW j \in Nodes, Discover(n, j), raced' = Racing
  PROVE  MigInv'
<1>1. /\ UNCHANGED <<dataVars, up, plan, away>>
      /\ n \in up /\ <<n, j>> \in news
      /\ news' = news \ {<<n, j>>}
      /\ clients' = [clients EXCEPT ![n] = @ \cup {j}]
      /\ mover' = [mover EXCEPT ![n] = [step |-> "read", to |-> j]]
  BY DEF Discover
<1>2. UNCHANGED taskVars /\ UNCHANGED <<cache, lossy>>
  BY <1>1 DEF taskVars, dataVars, poolVars
<1>3. DataInv'
  BY <1>2, MovesKeepData DEF MigInv, DataInv, DataTyped
<1>4. MoveInv'
  <2>1. plan.join = {}
    BY <1>1 DEF MigInv, MoveInv, AllTold
  <2>2. MoveTyped'
    <3>1. mover' \in [Nodes -> MoveRecs]
      BY <1>1 DEF MigInv, MoveInv, MoveTyped, MoveRecs
    <3>2. clients' \in [Nodes -> SUBSET Nodes]
      BY <1>1 DEF MigInv, MoveInv, MoveTyped
    <3> QED BY <1>1, <3>1, <3>2 DEF MigInv, MoveInv, MoveTyped, AwayTyped
  <2>3. AllTold'
    BY <1>1, <2>1 DEF MigInv, MoveInv, MoveTyped, AllTold
  <2> QED BY <1>1, <2>1, <2>2, <2>3 DEF MigInv, MoveInv, JoinersFresh, LeaverRuns
<1>5. (\A x : UnderWay(x)' = UnderWay(x)) /\ (\A x : DeleteComes(x)' <=> DeleteComes(x))
  BY <1>1, <1>2, SameTasks DEF taskVars
<1>6. \A v : Comes(v)' => Comes(v)
  BY <1>1, <1>2, <1>5 DEF Comes, taskVars, MigInv, MoveInv, MoveTyped
<1>7. doomed' = doomed /\ (NothingLost' => NothingLost)
  BY <1>2 DEF NothingLost, taskVars
<1>8. DirtyInv'
  <2> HIDE DEF Dirty, Comes, DeleteComes, UnderWay, Racing
  <2> QED BY <1>1, <1>2, <1>3, <1>4, <1>5, <1>6, <1>7, FrameKeepsDirty DEF MoveInv, DataInv
<1> QED
  BY <1>3, <1>4, <1>8 DEF MigInv

(* What a mover reads is in a cache for which a delete is on its way, or   *)
(* it is nothing of Dirty.                                                 *)
LEMMA ReadKeepsInv ==
  ASSUME MigInv, NEW n \in Nodes, Read(n), raced' = Racing
  PROVE  MigInv'
<1>0. PICK m : m = IF ShouldKeyBeOnNode(n, mover[n].to) /\ cache[n] # Nothing
                     THEN [step |-> "send", to |-> mover[n].to, val |-> cache[n]]
                     ELSE [step |-> "mark", to |-> mover[n].to]
  OBVIOUS
<1>1. /\ UNCHANGED <<dataVars, up, clients, plan, news, away>>
      /\ n \in up /\ mover[n].step = "read"
      /\ mover' = [mover EXCEPT ![n] = m]
  BY <1>0 DEF Read, view
<1>2. UNCHANGED taskVars /\ UNCHANGED <<cache, lossy>>
  BY <1>1 DEF taskVars, dataVars, poolVars
<1>3. DataInv'
  BY <1>2, MovesKeepData DEF MigInv, DataInv, DataTyped
<1>4. m \in MoveRecs /\ (m.step = "send" => m.val = cache[n])
  <2>1. mover[n].to \in Nodes
    BY <1>1 DEF MigInv, MoveInv, MoveTyped, MoveRecs, NoMove
  <2>2. cache[n] # Nothing => cache[n] \in Values
    BY DEF MigInv, DataInv, DataTyped, Copies, Values
  <2> QED BY <1>0, <2>1, <2>2 DEF MoveRecs
<1>5. MoveInv'
  BY <1>1, <1>2, <1>4, MoversKeepMoves DEF MigInv, taskVars
<1>6. (\A x : UnderWay(x)' = UnderWay(x)) /\ (\A x : DeleteComes(x)' <=> DeleteComes(x))
  BY <1>1, <1>2, SameTasks DEF taskVars
<1>7. \A v : Comes(v)' => Comes(v) \/ cache[n] = v
  BY <1>1, <1>2, <1>4, <1>6 DEF Comes, taskVars, MigInv, MoveInv, MoveTyped
<1>8. doomed' = doomed /\ (NothingLost' => NothingLost)
  BY <1>2 DEF NothingLost, taskVars
<1>9. DirtyInv'
  <2> HIDE DEF Dirty, Comes, DeleteComes, UnderWay, Racing
  <2> QED BY <1>1, <1>2, <1>3, <1>5, <1>6, <1>7, <1>8, FrameKeepsDirty DEF MoveInv, DataInv
<1> QED
  BY <1>3, <1>5, <1>9 DEF MigInv

(* A copy that arrives was on its way; one that is lost is a loss.         *)
LEMMA DeliverKeepsDirty ==
  ASSUME MigInv, NEW p \in up, NEW u, Comes(u), Deliver(p, u),
         DataInv', MoveInv', raced' = Racing, UNCHANGED taskVars, UNCHANGED up,
         \A v : Comes(v)' => Comes(v)
  PROVE  DirtyInv'
<1>1. CASE lossy' = TRUE
  BY <1>1 DEF DirtyInv, NothingLost
<1>2. CASE cache' = [cache EXCEPT ![p] = u] /\ lossy' = lossy
  <2>1. NothingLost' => NothingLost
    BY <1>2 DEF NothingLost, taskVars
  <2>2. (\A x : UnderWay(x)' = UnderWay(x)) /\ (\A x : DeleteComes(x)' <=> DeleteComes(x))
    BY SameTasks DEF taskVars
  <2>3. ASSUME NEW v, ~Comes(v), NEW x \in up, cache'[x] = v
        PROVE  cache[x] = v
    <3>1. u # v
      BY <2>3
    <3> QED BY <1>2, <2>3, <3>1 DEF MigInv, DataInv, DataTyped, MoveInv, MoveTyped
  <2> HIDE DEF Dirty, Comes, DeleteComes, UnderWay, Racing
  <2> QED BY <2>1, <2>2, <2>3, FrameKeepsDirty DEF MoveInv, DataInv, taskVars
<1> QED
  BY <1>1, <1>2 DEF Deliver

(* What Deliver does to the caches is within their type.                   *)
LEMMA DeliverKeepsData ==
  ASSUME MigInv, NEW p \in up, NEW u \in Values, Deliver(p, u), UNCHANGED taskVars
  PROVE  DataInv' /\ \A j \in Nodes \ up : cache'[j] = cache[j]
<1>1. u \in Copies
  BY DEF Values, Copies
<1>2. cache' \in [Nodes -> Copies] /\ (lossy' = lossy \/ lossy' = TRUE)
      /\ \A j \in Nodes \ up : cache'[j] = cache[j]
  BY <1>1 DEF Deliver, MigInv, DataInv, DataTyped
<1> QED
  BY <1>2, MovesKeepData DEF MigInv

LEMMA SendKeepsInv ==
  ASSUME MigInv, NEW n \in Nodes, Send(n), raced' = Racing
  PROVE  MigInv'
<1>0. PICK p, u : p = mover[n].to /\ u = mover[n].val
  OBVIOUS
<1>1. /\ UNCHANGED taskVars /\ UNCHANGED <<up, clients, plan, news, away>>
      /\ n \in up /\ mover[n].step = "send" /\ p \in up
      /\ Deliver(p, u)
      /\ mover' = [mover EXCEPT ![n] = [step |-> "mark", to |-> p]]
  BY <1>0 DEF Send, view, taskVars, poolVars
<1>2. u \in Values /\ p \in Nodes
  BY <1>0, <1>1 DEF MigInv, MoveInv, MoveTyped, MoveRecs, NoMove
<1>3. DataInv' /\ \A j \in Nodes \ up : cache'[j] = cache[j]
  BY <1>1, <1>2, DeliverKeepsData
<1>4. MoveInv'
  <2>1. [step |-> "mark", to |-> p] \in MoveRecs
    BY <1>2 DEF MoveRecs
  <2> QED BY <1>1, <1>3, <2>1, MoversKeepMoves DEF MigInv, taskVars
<1>5. \A x : UnderWay(x)' = UnderWay(x)
  BY <1>1, SameTasks DEF taskVars
<1>6. \A v : Comes(v)' => Comes(v)
  BY <1>1, <1>5 DEF Comes, taskVars, MigInv, MoveInv, MoveTyped
<1>7. Comes(u)
  BY <1>0, <1>1 DEF Comes
<1>8. DirtyInv'
  BY <1>1, <1>3, <1>4, <1>6, <1>7, DeliverKeepsDirty
<1> QED
  BY <1>3, <1>4, <1>8 DEF MigInv

LEMMA MarkKeepsInv ==
  ASSUME MigInv, NEW n \in Nodes, Mark(n), raced' = Racing
  PROVE  MigInv'
<1>1. /\ UNCHANGED <<dataVars, up, clients, plan, news, away>>
      /\ n \in up /\ mover' = [mover EXCEPT ![n] = NoMove]
  BY DEF Mark
<1>2. UNCHANGED taskVars /\ UNCHANGED <<cache, lossy>>
  BY <1>1 DEF taskVars, dataVars, poolVars
<1>3. DataInv'
  BY <1>2, MovesKeepData DEF MigInv, DataInv, DataTyped
<1>4. MoveInv'
  BY <1>1, <1>2, MoversKeepMoves DEF MigInv, taskVars, MoveRecs
<1>5. (\A x : UnderWay(x)' = UnderWay(x)) /\ (\A x : DeleteComes(x)' <=> DeleteComes(x))
  BY <1>1, <1>2, SameTasks DEF taskVars
<1>6. \A v : Comes(v)' => Comes(v)
  BY <1>1, <1>2, <1>5 DEF Comes, taskVars, MigInv, MoveInv, MoveTyped, NoMove
<1>7. doomed' = doomed /\ (NothingLost' => NothingLost)
  BY <1>2 DEF NothingLost, taskVars
<1>8. DirtyInv'
  <2> HIDE DEF Dirty, Comes, DeleteComes, UnderWay, Racing
  <2> QED BY <1>1, <1>2, <1>3, <1>4, <1>5, <1>6, <1>7, FrameKeepsDirty DEF MoveInv, DataInv
<1> QED
  BY <1>3, <1>4, <1>8 DEF MigInv

-----------------------------------------------------------------------------
(* What a node that leaves does keeps the invariant when it is like what   *)
(* a mover does: it changes away only.                                     *)
LEMMA AwayKeepsMoves ==
  ASSUME MoveInv, away.from \in up, plan.leave = {} \/ plan'.leave = {},
         away' = NoMove \/ away'.from = away.from, AwayTyped',
         UNCHANGED <<admitted, syncTasks, task, up, clients, plan, news, mover>>,
         \A j \in Nodes \ up : cache'[j] = cache[j]
  PROVE  MoveInv'
<1>1. MoveTyped'
  BY DEF MoveInv, MoveTyped
<1>2. LeaverRuns' /\ AllTold'
  BY DEF MoveInv, LeaverRuns, AllTold
<1>3. JoinersFresh'
  BY DEF MoveInv, MoveTyped, JoinersFresh
<1> QED
  BY <1>1, <1>2, <1>3 DEF MoveInv

LEMMA LeaveKeepsInv ==
  ASSUME MigInv, NEW n \in Nodes, Leave(n), raced' = Racing
  PROVE  MigInv'
<1>1. /\ UNCHANGED <<dataVars, up, clients, news, mover>>
      /\ n \in plan.leave
      /\ plan' = [plan EXCEPT !.leave = {}]
      /\ \E d : away' = [step |-> "read", from |-> n, dests |-> d]
  BY DEF Leave, view
<1>2. UNCHANGED taskVars /\ UNCHANGED <<cache, lossy>>
  BY <1>1 DEF taskVars, dataVars, poolVars
<1>3. DataInv'
  BY <1>2, MovesKeepData DEF MigInv, DataInv, DataTyped
<1>4. plan' = [join |-> plan.join, leave |-> {}] /\ away'.step = "read" /\ away'.from = n
      /\ n \in up
  <2>1. plan' = [join |-> plan.join, leave |-> {}]
    BY <1>1 DEF MigInv, MoveInv, MoveTyped
  <2>2. PICK d : away' = [step |-> "read", from |-> n, dests |-> d]
    BY <1>1
  <2>3. n \in up
    BY <1>1 DEF MigInv, MoveInv, LeaverRuns
  <2> QED BY <2>1, <2>2, <2>3
<1>5. MoveInv'
  <2>1. AwayTyped'
    BY <1>1 DEF AwayTyped
  <2>2. plan' \in [join : SUBSET Nodes, leave : SUBSET Nodes]
    BY <1>4 DEF MigInv, MoveInv, MoveTyped
  <2>3. MoveTyped'
    BY <1>1, <2>1, <2>2 DEF MigInv, MoveInv, MoveTyped
  <2>4. JoinersFresh' /\ LeaverRuns' /\ AllTold'
    BY <1>1, <1>2, <1>4 DEF MigInv, MoveInv, JoinersFresh, LeaverRuns, AllTold, taskVars
  <2> QED BY <2>3, <2>4 DEF MoveInv
<1>6. (\A x : UnderWay(x)' = UnderWay(x)) /\ (\A x : DeleteComes(x)' <=> DeleteComes(x))
  BY <1>1, <1>2, SameTasks DEF taskVars
<1>7. \A v : Comes(v)' => Comes(v)
  BY <1>1, <1>2, <1>4, <1>6 DEF Comes, taskVars
<1>8. doomed' = doomed /\ (NothingLost' => NothingLost)
  BY <1>2 DEF NothingLost, taskVars
<1>9. DirtyInv'
  <2> HIDE DEF Dirty, Comes, DeleteComes, UnderWay, Racing
  <2> QED BY <1>1, <1>2, <1>3, <1>5, <1>6, <1>7, <1>8, FrameKeepsDirty DEF MoveInv, DataInv
<1> QED
  BY <1>3, <1>5, <1>9 DEF MigInv

LEMMA AwayReadKeepsInv ==
  ASSUME MigInv, AwayRead, raced' = Racing
  PROVE  MigInv'
<1>0. PICK v0 : v0 = cache[away.from]
  OBVIOUS
<1>1. /\ UNCHANGED <<dataVars, up, clients, plan, news, mover>>
      /\ away.step = "read"
      /\ \E d \in away.dests :
           away' = IF v0 = Nothing THEN [away EXCEPT !.dests = @ \ {d}]
                   ELSE [step |-> "send", from |-> away.from,
                         dests |-> away.dests \ {d}, to |-> d, val |-> v0]
  BY <1>0 DEF AwayRead, view
<1>2. UNCHANGED taskVars /\ UNCHANGED <<cache, lossy>>
  BY <1>1 DEF taskVars, dataVars, poolVars
<1>3. DataInv'
  BY <1>2, MovesKeepData DEF MigInv, DataInv, DataTyped
<1>4. PICK f, D : away = [step |-> "read", from |-> f, dests |-> D]
  BY <1>1 DEF MigInv, MoveInv, MoveTyped, AwayTyped, NoMove
<1>5. f \in up /\ plan.leave = {} /\ away.from = f
  BY <1>4 DEF MigInv, MoveInv, LeaverRuns, NoMove
<1>6. v0 # Nothing => v0 \in Values
  BY <1>0, <1>5 DEF MigInv, DataInv, DataTyped, MoveInv, MoveTyped, Copies, Values
<1>7. AwayTyped' /\ away'.from = f /\ (away'.step = "send" => away'.val = v0)
  <2>1. CASE v0 = Nothing
    <3>1. PICK d : away' = [step |-> "read", from |-> f, dests |-> D \ {d}]
      BY <1>1, <1>4, <2>1
    <3> QED BY <3>1 DEF AwayTyped
  <2>2. CASE v0 # Nothing
    <3>1. PICK d : away' = [step |-> "send", from |-> f, dests |-> D \ {d},
                            to |-> d, val |-> v0]
      BY <1>1, <1>4, <2>2
    <3> QED BY <3>1, <2>2, <1>6 DEF AwayTyped
  <2> QED BY <2>1, <2>2
<1>8. MoveInv'
  BY <1>1, <1>2, <1>5, <1>7, AwayKeepsMoves DEF MigInv, taskVars
<1>9. (\A x : UnderWay(x)' = UnderWay(x)) /\ (\A x : DeleteComes(x)' <=> DeleteComes(x))
  BY <1>1, <1>2, SameTasks DEF taskVars
<1>10. \A v : Comes(v)' => Comes(v) \/ cache[f] = v
  BY <1>0, <1>1, <1>2, <1>5, <1>7, <1>9 DEF Comes, taskVars
<1>11. doomed' = doomed /\ (NothingLost' => NothingLost)
  BY <1>2 DEF NothingLost, taskVars
<1>12. DirtyInv'
  <2> HIDE DEF Dirty, Comes, DeleteComes, UnderWay, Racing
  <2> QED BY <1>1, <1>2, <1>3, <1>5, <1>8, <1>9, <1>10, <1>11, FrameKeepsDirty
          DEF MoveInv, DataInv
<1> QED
  BY <1>3, <1>8, <1>12 DEF MigInv

LEMMA AwaySendKeepsInv ==
  ASSUME MigInv, AwaySend, raced' = Racing
  PROVE  MigInv'
<1>0. PICK f, D, p : \E u \in Values :
        away = [step |-> "send", from |-> f, dests |-> D, to |-> p, val |-> u]
  BY DEF AwaySend, MigInv, MoveInv, MoveTyped, AwayTyped, NoMove
<1>u. PICK u \in Values :
        away = [step |-> "send", from |-> f, dests |-> D, to |-> p, val |-> u]
  BY <1>0
<1>1. /\ UNCHANGED taskVars /\ UNCHANGED <<up, clients, plan, news, mover>>
      /\ p \in up
      /\ Deliver(p, u)
      /\ away' = [step |-> "read", from |-> f, dests |-> D]
  BY <1>u DEF AwaySend, view, taskVars, poolVars
<1>2. f \in up /\ plan.leave = {} /\ away.from = f
  BY <1>u DEF MigInv, MoveInv, LeaverRuns, NoMove
<1>3. DataInv' /\ \A j \in Nodes \ up : cache'[j] = cache[j]
  BY <1>1, DeliverKeepsData
<1>4. MoveInv'
  <2>1. AwayTyped' /\ away'.from = f
    BY <1>1 DEF AwayTyped
  <2> QED BY <1>1, <1>2, <1>3, <2>1, AwayKeepsMoves DEF MigInv, taskVars
<1>5. \A x : UnderWay(x)' = UnderWay(x)
  BY <1>1, SameTasks DEF taskVars
<1>6. \A v : Comes(v)' => Comes(v)
  BY <1>1, <1>5 DEF Comes, taskVars
<1>7. Comes(u)
  BY <1>u DEF Comes
<1>8. DirtyInv'
  BY <1>1, <1>3, <1>4, <1>6, <1>7, DeliverKeepsDirty
<1> QED
  BY <1>3, <1>4, <1>8 DEF MigInv

(* The tasks that end with a node were of no delete that a value of Dirty  *)
(* still waits for: such a delete would have found no node leaving.        *)
LEMMA AwayStopKeepsInv ==
  ASSUME MigInv, AwayStop, raced' = Racing
  PROVE  MigInv'
<1>1. /\ UNCHANGED <<dataVars, clients, plan, news, mover>>
      /\ away.step = "read"
      /\ up' = up \ {away.from}
      /\ away' = NoMove
  BY DEF AwayStop, view
<1>2. UNCHANGED taskVars /\ UNCHANGED <<cache, lossy>>
  BY <1>1 DEF taskVars, dataVars, poolVars
<1>3. DataInv'
  BY <1>2, MovesKeepData DEF MigInv, DataInv, DataTyped
<1>4. away # NoMove
  BY <1>1 DEF NoMove
<1>5. MoveInv'
  <2>1. MoveTyped'
    BY <1>1 DEF MigInv, MoveInv, MoveTyped, AwayTyped
  <2>2. JoinersFresh' /\ AllTold'
    BY <1>1, <1>2 DEF MigInv, MoveInv, JoinersFresh, AllTold, taskVars
  <2>3. LeaverRuns'
    BY <1>1, <1>4 DEF MigInv, MoveInv, LeaverRuns
  <2> QED BY <2>1, <2>2, <2>3 DEF MoveInv
<1>6. \A v : Comes(v)' => Comes(v)
  <2>1. Issued' = Issued
    BY <1>2 DEF Issued, taskVars
  <2>2. \A v : v \in UnderWay("set")' => v \in UnderWay("set")
    BY <1>1, <1>2, <2>1 DEF UnderWay, taskVars
  <2> QED BY <1>1, <1>2, <2>2 DEF Comes, taskVars, NoMove
<1>7. ASSUME NEW v \in Dirty, NEW x, DeleteComes(x) PROVE FALSE
  <2>1. Steady
    BY <1>7, ComingIsUnderWay, DeletingIsClean DEF CleanOrNothing, MigInv, DataInv, MoveInv
  <2> QED BY <2>1, <1>4 DEF Steady
<1>8. doomed' = doomed /\ (NothingLost' => NothingLost)
  BY <1>2 DEF NothingLost, taskVars
<1>9. DirtyInv'
  <2> HIDE DEF Dirty, Comes, DeleteComes, UnderWay, Racing
  <2> QED BY <1>1, <1>2, <1>3, <1>5, <1>6, <1>7, <1>8, FrameKeepsDirty DEF MoveInv, DataInv
<1> QED
  BY <1>3, <1>5, <1>9 DEF MigInv

-----------------------------------------------------------------------------
LEMMA InitMigInv == Init => MigInv
<1> SUFFICES ASSUME Init PROVE MigInv
  OBVIOUS
<1>1. PICK s \in Scenarios :
        /\ up = s.up /\ ViewInit(s.up)
        /\ plan = [join |-> s.join, leave |-> s.leave]
  BY DEF Init
<1>2. s.up \subseteq Nodes /\ s.join \subseteq Nodes \ s.up /\ s.leave \subseteq s.up
  BY ScenarioAssumption
<1>3. /\ cache = [n \in Nodes |-> Nothing] /\ opKind = [i \in Ops |-> "none"]
      /\ admitted = [n \in Nodes |-> {}] /\ syncTasks = [n \in Nodes |-> <<>>]
      /\ wpc = [n \in Nodes |-> [w \in Workers |-> "select"]]
      /\ task = [n \in Nodes |-> [w \in Workers |-> NoTask]]
      /\ dropped = [n \in Nodes |-> {}]
      /\ todo = [n \in Nodes |-> [w \in Workers |-> {}]]
      /\ stray = {} /\ fills = <<>> /\ lossy = FALSE /\ doomed = {}
  BY DEF Init, DataInit, Pool!Init
<1>4. Issued = {}
  BY <1>3 DEF Issued
<1>5. DataInv
  <2>1. DataTyped
    <3>1. /\ cache \in [Nodes -> Copies]
          /\ opKind \in [Ops -> {"none", "set", "delete"}]
          /\ admitted \in [Nodes -> SUBSET Ops]
          /\ dropped \in [Nodes -> SUBSET Ops]
      BY <1>3 DEF Copies
    <3>2. syncTasks \in [Nodes -> Seq(Ops)]
      BY <1>3
    <3>3. /\ wpc \in [Nodes -> [Workers -> {"select", "busy"}]]
          /\ task \in [Nodes -> [Workers -> Ops \cup {NoTask}]]
      BY <1>3
    <3>4. DOMAIN todo = Nodes /\ \A n \in Nodes : DOMAIN todo[n] = Workers
      BY <1>3
    <3>5. fills \in Seq(FillRecs)
      BY <1>3
    <3> QED BY <1>3, <1>4, <3>1, <3>2, <3>3, <3>4, <3>5 DEF DataTyped
  <2>2. IssuedInOrder
    <3>1. 0 \in 0..MaxOps /\ 1..0 = {}
      BY BoundsAssumption
    <3> QED BY <1>4, <3>1 DEF IssuedInOrder
  <2> QED BY <1>3, <2>1, <2>2 DEF DataInv, IdleHoldsNothing, StrayIsLoss
<1>6. MoveInv
  <2>1. news = {} /\ away = NoMove /\ mover = [n \in Nodes |-> NoMove]
        /\ clients = [n \in Nodes |-> IF n \in up THEN Discovered(n, up) ELSE {}]
    BY <1>1 DEF Init, ViewInit
  <2>2. MoveTyped
    BY <1>1, <1>2, <2>1 DEF MoveTyped, MoveRecs, AwayTyped, Discovered
  <2>3. JoinersFresh
    BY <1>1, <1>2, <1>3, <2>1 DEF JoinersFresh
  <2>4. LeaverRuns /\ AllTold
    BY <1>1, <1>2, <2>1 DEF LeaverRuns, AllTold, Discovered
  <2> QED BY <2>2, <2>3, <2>4 DEF MoveInv
<1>7. DirtyInv
  BY <1>3 DEF DirtyInv, Dirty
<1> QED
  BY <1>5, <1>6, <1>7 DEF MigInv

LEMMA NextKeepsMigInv == MigInv /\ [Next]_allVars => MigInv'
<1> SUFFICES ASSUME MigInv, [Next]_allVars PROVE MigInv'
  OBVIOUS
<1>1. CASE Next
  <2>1. raced' = Racing
    BY <1>1 DEF Next, NoteRaces, Racing
  <2> USE <2>1
  <2>2. ASSUME NEW n \in Nodes, Fetch(n) \/ \E kind \in {"set", "delete"} : Write(n, kind),
               UNCHANGED <<up, view, moveVars>>
        PROVE  MigInv'
    BY <2>2, CallsKeepInv
  <2>3. ASSUME NEW n \in Nodes, Join(n) \/ Leave(n)
        PROVE  MigInv'
    BY <2>3, JoinKeepsInv, LeaveKeepsInv
  <2>4. Begins => MigInv'
    BY <2>2, <2>3 DEF Begins
  <2>5. ASSUME CarryOn, UNCHANGED <<up, view, moveVars>>
        PROVE  MigInv'
    BY <2>5, CallsKeepInv
  <2>6. ASSUME NEW n \in Nodes, MoverStep(n) \/ \E j \in Nodes : Discover(n, j)
        PROVE  MigInv'
    BY <2>6, ReadKeepsInv, SendKeepsInv, MarkKeepsInv, DiscoverKeepsInv DEF MoverStep
  <2>7. AwayStep => MigInv'
    BY AwayReadKeepsInv, AwaySendKeepsInv, AwayStopKeepsInv DEF AwayStep
  <2>8. GoesOn => MigInv'
    BY <2>5, <2>6, <2>7 DEF GoesOn
  <2> QED BY <1>1, <2>4, <2>8 DEF Next
<1>2. CASE UNCHANGED allVars
  <2>1. UNCHANGED taskVars /\ UNCHANGED <<cache, lossy, up, clients, moveVars, raced>>
    BY <1>2 DEF allVars, dataVars, poolVars, view, taskVars
  <2>2. DataInv'
    BY <2>1, MovesKeepData DEF MigInv, DataInv, DataTyped
  <2>3. MoveInv'
    BY <2>1 DEF MigInv, MoveInv, MoveTyped, AwayTyped, JoinersFresh, LeaverRuns, AllTold,
       moveVars, taskVars
  <2>4. /\ Issued' = Issued
        /\ \A x : UnderWay(x)' = UnderWay(x)
        /\ \A x : DeleteComes(x)' <=> DeleteComes(x)
    BY <2>1, SameTasks DEF taskVars
  <2>5. Steady' <=> Steady
    BY <2>1 DEF Steady, moveVars
  <2>6. Dirty' = Dirty
    BY <2>1, <2>4, <2>5 DEF Dirty, Racing, OnTheirWay, taskVars
  <2>7. \A v : Comes(v)' <=> Comes(v)
    BY <2>1, <2>4 DEF Comes, taskVars, moveVars
  <2>8. DirtyInv'
    <3> HIDE DEF Dirty, Comes, DeleteComes
    <3> QED BY <2>1, <2>4, <2>6, <2>7 DEF DirtyInv, NothingLost, MigInv, taskVars
  <2> QED BY <2>2, <2>3, <2>8 DEF MigInv
<1> QED
  BY <1>1, <1>2

(* The invariant holds in every state the cluster can reach.               *)
THEOREM MigInvariance == Spec => []MigInv
<1>1. Init => MigInv
  BY InitMigInv
<1>2. MigInv /\ [Next]_allVars => MigInv'
  BY NextKeepsMigInv
<1> QED
  BY <1>1, <1>2, PTL DEF Spec

(* When all is quiet and nothing was lost no delete is still to be told.   *)
LEMMA QuietDeletesNothing ==
  ASSUME MigInv, NothingLost, Quiet
  PROVE  UnderWay("delete") = {}
<1>1. stray = {} /\ \A q \in up : q \in Nodes
  BY DEF NothingLost, MigInv, DataInv, StrayIsLoss, MoveInv, MoveTyped
<1>2. \A q \in up : /\ admitted[q] = {} /\ Members(syncTasks[q]) = {}
                   /\ \A w \in Workers : task[q][w] = NoTask
  BY <1>1 DEF Quiet, MigInv, DataInv, IdleHoldsNothing, Members
<1>3. NoTask \notin Issued
  BY BoundsAssumption DEF Issued
<1> QED BY <1>1, <1>2, <1>3 DEF UnderWay

(* broadcastDelete leaves no dirty copy behind (group.go:342): however     *)
(* many nodes, workers, calls, overlaps, joins and leaves there are, once  *)
(* all has settled and nothing was lost, no node holds a write that was    *)
(* over before a Delete and not on its way while the Delete was.           *)
THEOREM NoDirtyCopyLeft == Spec => []NoDirtyCopy
<1>1. MigInv => NoDirtyCopy
  <2> SUFFICES ASSUME MigInv, Settled, NothingLost, NEW n \in up,
                      cache[n] \in doomed \ raced
               PROVE  FALSE
    BY DEF NoDirtyCopy
  <2>1. UnderWay("delete") = {}
    BY QuietDeletesNothing DEF Settled
  <2>2. cache[n] \in Dirty
    BY <2>1 DEF Dirty, Racing
  <2>3. DeleteComes(n)
    BY <2>2 DEF MigInv, DirtyInv
  <2> QED BY <2>1, <2>3, ComingIsUnderWay
<1> QED
  BY <1>1, MigInvariance, PTL

-----------------------------------------------------------------------------
(***************************************************************************)
(* Which two nodes of a set the key meets first, GetN(key, 2): whatever    *)
(* the ring, the nodes are in order, and the owners among those that run   *)
(* are those that a node finds among the nodes it knows, when it knows     *)
(* itself or not, and when one it knows has left or is about to.           *)
(***************************************************************************)
(* A set of natural numbers has a least one.                               *)
LEMMA LeastOf ==
  ASSUME NEW T \in SUBSET Nat, T # {}
  PROVE  \E x \in T : \A y \in T : x <= y
<1>1. IsWellFoundedOn(OpToRel(<, Nat), Nat)
  BY NatLessThanWellFounded
<1>2. OpToRel(<, Nat) = {ss \in Nat \X Nat : ss[1] < ss[2]}
  BY DEF OpToRel
<1>3. PICK x \in T : \A y \in T : ~(<<y, x>> \in OpToRel(<, Nat))
  BY <1>1, WFMin
<1>4. ASSUME NEW y \in T PROVE x <= y
  <2>1. x \in Nat /\ y \in Nat
    OBVIOUS
  <2>2. ~(y < x)
    BY <1>2, <1>3, <2>1
  <2> QED BY <2>1, <2>2
<1> QED BY <1>3, <1>4

(* Where the key meets node q first.                                       *)
FirstAt(q, i) ==
  /\ i \in DOMAIN Ring /\ Ring[i] = q
  /\ \A k \in DOMAIN Ring : Ring[k] = q => i <= k
At(q) == CHOOSE i \in DOMAIN Ring : FirstAt(q, i)

Ahead(a, b) == At(a) < At(b)

(* q is the first of S that the key meets; it is the first or the second.  *)
IsFirst(q, S) == q \in S /\ \A a \in S : ~Ahead(a, q)
AmongTwo(q, S) ==
  q \in S /\ \A a, b \in S : Ahead(a, q) /\ Ahead(b, q) => a = b

(* The ring meets every node, and nothing else.                            *)
LEMMA RingPlaces ==
  /\ DOMAIN Ring \subseteq Nat
  /\ \A i \in DOMAIN Ring : Ring[i] \in Nodes
  /\ \A q \in Nodes : \E i \in DOMAIN Ring : Ring[i] = q
<1>1. Cardinality(Nodes) \in Nat
  BY RingAssumption, FS_CardinalityType
<1>2. DOMAIN Ring = 1..Cardinality(Nodes) /\ Len(Ring) = Cardinality(Nodes)
  BY <1>1, RingAssumption
<1> QED BY <1>1, <1>2, RingAssumption

(* Every node is met somewhere first.                                      *)
LEMMA AtIsFirst == ASSUME NEW q \in Nodes PROVE FirstAt(q, At(q)) /\ At(q) \in Nat
<1> DEFINE T == {i \in DOMAIN Ring : Ring[i] = q}
<1>1. T \in SUBSET Nat /\ T # {}
  BY RingPlaces
<1>2. PICK i \in T : \A k \in T : i <= k
  BY <1>1, LeastOf
<1>3. FirstAt(q, i)
  BY <1>2 DEF FirstAt
<1>4. FirstAt(q, At(q))
  BY <1>3 DEF At, FirstAt
<1> QED BY <1>4, RingPlaces DEF FirstAt

(* The nodes are in order.                                                 *)
LEMMA AheadOrders ==
  ASSUME NEW a \in Nodes, NEW b \in Nodes
  PROVE  /\ Ahead(a, b) \/ Ahead(b, a) \/ a = b
         /\ ~(Ahead(a, b) /\ Ahead(b, a)) /\ ~Ahead(a, a)
         /\ \A c \in Nodes : Ahead(a, b) /\ Ahead(b, c) => Ahead(a, c)
<1>1. \A q \in Nodes : At(q) \in Nat
  BY AtIsFirst
<1>2. At(a) = At(b) => a = b
  BY AtIsFirst DEF FirstAt
<1> QED BY <1>1, <1>2 DEF Ahead

(* Nearest finds the first of the nodes it is given.                       *)
LEMMA NearestIsFirst ==
  ASSUME NEW S \in SUBSET Nodes, S # {}
  PROVE  IsFirst(Nearest[S], S)
<1> DEFINE T == {i \in DOMAIN Ring : Ring[i] \in S}
           Met(i) == Ring[i] \in S /\ \A k \in DOMAIN Ring : k < i => Ring[k] \notin S
<1>1. T \in SUBSET Nat /\ T # {}
  BY RingPlaces
<1>2. PICK m \in T : \A k \in T : m <= k
  BY <1>1, LeastOf
<1>3. m \in DOMAIN Ring /\ Met(m)
  <2>1. \A k \in DOMAIN Ring : k \in Nat
    BY RingPlaces
  <2> QED BY <1>2, <2>1
<1>4. PICK i : i = CHOOSE k \in DOMAIN Ring : Met(k)
  OBVIOUS
<1>5. i \in DOMAIN Ring /\ Met(i) /\ Nearest[S] = Ring[i]
  <2>1. i \in DOMAIN Ring /\ Met(i)
    BY <1>3, <1>4
  <2>2. S \in (SUBSET Nodes) \ {{}}
    OBVIOUS
  <2>3. Nearest[S] = Ring[CHOOSE k \in DOMAIN Ring : Met(k)]
    BY <2>2 DEF Nearest
  <2> QED BY <1>4, <2>1, <2>3
<1>6. ASSUME NEW a \in S PROVE ~Ahead(a, Nearest[S])
  <2>1. FirstAt(a, At(a)) /\ FirstAt(Ring[i], At(Ring[i]))
    BY <1>5, AtIsFirst, RingPlaces
  <2>2. At(a) \in Nat /\ i \in Nat /\ At(Ring[i]) \in Nat
    BY <1>5, AtIsFirst, RingPlaces
  <2>3. ~(At(a) < i) /\ At(Ring[i]) <= i
    BY <1>5, <2>1, <2>2 DEF FirstAt
  <2> QED BY <1>5, <2>2, <2>3 DEF Ahead
<1> QED BY <1>5, <1>6 DEF IsFirst

(* What GetN(key, 2) comes to.                                             *)
TwoOf(S) ==
  /\ \A q : q \in Members(FirstTwo(S)) <=> AmongTwo(q, S)
  /\ DOMAIN FirstTwo(S) \subseteq {1, 2}
  /\ 1 \in DOMAIN FirstTwo(S) => IsFirst(FirstTwo(S)[1], S)

(* FirstTwo finds the first two of the nodes it is given.                  *)
LEMMA FirstTwoAre ==
  ASSUME NEW S \in SUBSET Nodes
  PROVE  TwoOf(S)
<1>1. CASE S = {}
  BY <1>1 DEF TwoOf, FirstTwo, Members, AmongTwo
<1>2. CASE S # {}
  <2>1. PICK a : a = Nearest[S]
    OBVIOUS
  <2>2. IsFirst(a, S)
    BY <1>2, <2>1, NearestIsFirst
  <2>3. CASE S = {a}
    <3>1. FirstTwo(S) = <<a>>
      BY <1>2, <2>1, <2>3 DEF FirstTwo
    <3>2. Members(<<a>>) = {a} /\ DOMAIN <<a>> = {1} /\ <<a>>[1] = a
      BY DEF Members
    <3>3. \A q : AmongTwo(q, S) <=> q = a
      BY <2>3 DEF AmongTwo
    <3> QED BY <2>2, <3>1, <3>2, <3>3 DEF TwoOf
  <2>4. CASE S # {a}
    <3>1. PICK b : b = Nearest[S \ {a}]
      OBVIOUS
    <3>2. IsFirst(b, S \ {a})
      <4>1. S \ {a} \in SUBSET Nodes /\ S \ {a} # {}
        BY <2>2, <2>4 DEF IsFirst
      <4> QED BY <3>1, <4>1, NearestIsFirst
    <3>3. FirstTwo(S) = <<a, b>>
      BY <1>2, <2>1, <2>4, <3>1 DEF FirstTwo
    <3>4. Members(<<a, b>>) = {a, b} /\ DOMAIN <<a, b>> = {1, 2} /\ <<a, b>>[1] = a
      BY DEF Members
    <3>5. ASSUME NEW q PROVE AmongTwo(q, S) <=> q \in {a, b}
      <4>1. a \in Nodes /\ b \in Nodes /\ a # b /\ a \in S /\ b \in S
        BY <2>2, <3>2 DEF IsFirst
      <4>2. Ahead(a, b)
        BY <2>2, <4>1, AheadOrders DEF IsFirst
      <4>3. CASE q \in {a, b}
        <5>1. \A x \in S : Ahead(x, q) => x = a
          BY <2>2, <3>2, <4>3 DEF IsFirst
        <5> QED BY <4>1, <4>3, <5>1 DEF AmongTwo
      <4>4. CASE q \in S \ {a, b}
        <5>1. Ahead(b, q)
          BY <3>2, <4>1, <4>4, AheadOrders DEF IsFirst
        <5>2. Ahead(a, q)
          BY <2>2, <4>1, <4>4, AheadOrders DEF IsFirst
        <5> QED BY <4>1, <4>4, <5>1, <5>2 DEF AmongTwo
      <4>5. CASE q \notin S
        BY <4>1, <4>5 DEF AmongTwo
      <4> QED BY <4>3, <4>4, <4>5
    <3> QED BY <2>2, <3>3, <3>4, <3>5 DEF TwoOf
  <2> QED BY <2>3, <2>4
<1> QED BY <1>1, <1>2

(* Who is ahead of whom, in sets of nodes that differ by one or two.       *)
LEMMA OthersAhead ==
  ASSUME NEW S \in SUBSET Nodes, NEW q \in S, ~AmongTwo(q, S)
  PROVE  \E a, b \in S : /\ a # b /\ Ahead(a, q) /\ Ahead(b, q)
                         /\ AmongTwo(a, S) /\ AmongTwo(b, S)
<1>1. PICK x, y \in S : x # y /\ Ahead(x, q) /\ Ahead(y, q)
  BY DEF AmongTwo
<1>2. PICK a : a = Nearest[S]
  OBVIOUS
<1>3. IsFirst(a, S)
  BY <1>2, NearestIsFirst
<1>4. S \ {a} # {}
  BY <1>1
<1>5. PICK b : b = Nearest[S \ {a}]
  OBVIOUS
<1>6. IsFirst(b, S \ {a})
  BY <1>4, <1>5, NearestIsFirst
<1>7. a \in Nodes /\ b \in Nodes /\ a # b /\ a \in S /\ b \in S /\ q \in Nodes
      /\ x \in Nodes /\ y \in Nodes
  BY <1>1, <1>3, <1>6 DEF IsFirst
<1>8. PICK z \in S : z # a /\ Ahead(z, q)
  BY <1>1
<1>9. Ahead(a, z) /\ (z = b \/ Ahead(b, z)) /\ z \in Nodes
  BY <1>3, <1>6, <1>7, <1>8, AheadOrders DEF IsFirst
<1>10. Ahead(a, q) /\ Ahead(b, q)
  BY <1>7, <1>8, <1>9, AheadOrders
<1>11. AmongTwo(a, S)
  BY <1>3 DEF IsFirst, AmongTwo
<1>12. AmongTwo(b, S)
  <2>1. \A c \in S : Ahead(c, b) => c = a
    BY <1>6 DEF IsFirst
  <2> QED BY <1>7, <2>1 DEF AmongTwo
<1> QED BY <1>7, <1>10, <1>11, <1>12

(* q, whose first two peers C run, and the first two of these are the      *)
(* first two that run.                                                     *)
LEMMA PickedAreOwners ==
  ASSUME NEW S \in SUBSET Nodes, NEW C \in SUBSET Nodes, NEW q,
         S \ {q} \subseteq C, \A y \in C : AmongTwo(y, C) => y \in S,
         NEW x \in S, x # q, AmongTwo(x, S)
  PROVE  AmongTwo(x, C)
<1> SUFFICES ASSUME ~AmongTwo(x, C) PROVE FALSE
  OBVIOUS
<1>1. PICK a, b \in C : /\ a # b /\ Ahead(a, x) /\ Ahead(b, x)
                        /\ AmongTwo(a, C) /\ AmongTwo(b, C)
  BY OthersAhead
<1> QED BY <1>1 DEF AmongTwo

(* What the nodes U know when j joins: C is what the first of the others,  *)
(* o, knows, of which G has left.                                          *)
LEMMA FirstSendsToOwner ==
  ASSUME NEW U \in SUBSET Nodes, NEW G \in SUBSET Nodes, NEW C \in SUBSET (U \cup G),
         NEW j \in U, NEW o, IsFirst(o, U \ {j}), NEW self,
         \A a, b \in G : a = b, j \in C, o \in C => self,
         AmongTwo(j, U), self /\ G # {} => IsFirst(j, U)
  PROVE  AmongTwo(j, C)
<1> SUFFICES ASSUME NEW a \in C, NEW b \in C, Ahead(a, j), Ahead(b, j), a # b
             PROVE  FALSE
  BY DEF AmongTwo
<1>0. \A x, y \in C : x \in Nodes /\ y \in Nodes
  OBVIOUS
<1>1. ASSUME NEW x \in C, NEW y \in C, Ahead(x, j), Ahead(y, j), x # y, x \in U, y \in G
      PROVE  FALSE
  <2>1. CASE self
    BY <1>1, <2>1 DEF IsFirst
  <2>2. CASE ~self
    <3>1. x # o /\ o \in U /\ o \in Nodes /\ x \in Nodes /\ j \in Nodes
      BY <1>1, <2>2 DEF IsFirst
    <3>2. x # j
      BY <1>1, <3>1, AheadOrders
    <3>3. Ahead(o, x)
      BY <1>1, <3>1, <3>2, AheadOrders DEF IsFirst
    <3>4. Ahead(o, j)
      BY <1>1, <3>1, <3>3, AheadOrders
    <3> QED BY <1>1, <3>1, <3>4 DEF AmongTwo
  <2> QED BY <2>1, <2>2
<1>2. CASE a \in U /\ b \in U
  BY <1>2 DEF AmongTwo
<1>3. CASE a \in G /\ b \in G
  BY <1>3
<1> QED BY <1>1, <1>2, <1>3

(* If any node n of the others, which knows D, would have j for an owner,  *)
(* so does the first of them, o, which knows C: what o knows and n does    *)
(* not is n itself, and o is ahead of n.                                   *)
LEMMA FirstSendsWhenAnyDoes ==
  ASSUME NEW U \in SUBSET Nodes, NEW G \in SUBSET Nodes, NEW C \in SUBSET (U \cup G),
         NEW D \in SUBSET Nodes, NEW j \in U, NEW n \in U \ {j},
         NEW o, IsFirst(o, U \ {j}), NEW self,
         G \subseteq D, U \ {n} \subseteq D, self => n \in D, j \in C, o \in C => self,
         AmongTwo(j, D)
  PROVE  AmongTwo(j, C)
<1> SUFFICES ASSUME NEW a \in C, NEW b \in C, Ahead(a, j), Ahead(b, j), a # b
             PROVE  FALSE
  BY DEF AmongTwo
<1>1. CASE a \in D /\ b \in D
  BY <1>1 DEF AmongTwo
<1>2. ASSUME NEW x \in C, x \notin D, Ahead(x, j), NEW y \in C, Ahead(y, j), x # y
      PROVE  FALSE
  <2>1. x = n /\ ~self
    BY <1>2
  <2>2. o # n /\ o \in D /\ y # o /\ y \in D
    BY <1>2, <2>1 DEF IsFirst
  <2>3. o \in Nodes /\ n \in Nodes /\ j \in Nodes
    BY <2>2
  <2>4. Ahead(o, n)
    BY <2>2, <2>3, AheadOrders DEF IsFirst
  <2>5. Ahead(o, j)
    BY <1>2, <2>1, <2>3, <2>4, AheadOrders
  <2> QED BY <1>2, <2>2, <2>5 DEF AmongTwo
<1> QED BY <1>1, <1>2

(* Who the owners are once l has left U.                                   *)
LEMMA OwnersWhenOneLeft ==
  ASSUME NEW U \in SUBSET Nodes, NEW l \in U, NEW x, AmongTwo(x, U \ {l})
  PROVE  /\ IsFirst(x, U \ {l}) => AmongTwo(x, U)
         /\ ~AmongTwo(l, U) => AmongTwo(x, U)
<1>0. x \in U /\ x \in Nodes /\ l \in Nodes
  BY DEF AmongTwo
<1>1. IsFirst(x, U \ {l}) => AmongTwo(x, U)
  BY <1>0 DEF IsFirst, AmongTwo
<1>2. ASSUME ~AmongTwo(l, U), ~AmongTwo(x, U) PROVE FALSE
  <2>1. PICK a, b \in U : a # b /\ Ahead(a, l) /\ Ahead(b, l)
    BY <1>2 DEF AmongTwo
  <2>2. Ahead(l, x)
    BY <1>0, <1>2 DEF AmongTwo
  <2>3. a \in Nodes /\ b \in Nodes /\ a # l /\ b # l
    BY <1>0, <2>1, AheadOrders
  <2>4. Ahead(a, x) /\ Ahead(b, x)
    BY <1>0, <2>1, <2>2, <2>3, AheadOrders
  <2> QED BY <2>1, <2>3, <2>4 DEF AmongTwo
<1> QED BY <1>1, <1>2

(* p and j are the first two of C, and somebody of U is ahead of j.        *)
LEMMA OtherIsFirst ==
  ASSUME NEW C \in SUBSET Nodes, NEW U \in SUBSET C, NEW p \in U, NEW j \in U, p # j,
         AmongTwo(p, C), AmongTwo(j, C), ~IsFirst(j, U)
  PROVE  IsFirst(p, U) /\ AmongTwo(p, U)
<1>1. PICK a \in U : Ahead(a, j)
  BY DEF IsFirst
<1>2. ASSUME NEW y \in U, Ahead(y, p) PROVE FALSE
  <2>0. a \in Nodes /\ y \in Nodes /\ p \in Nodes /\ j \in Nodes /\ a \in C /\ y \in C
        /\ p \in C /\ j \in C
    OBVIOUS
  <2>1. CASE Ahead(p, j)
    <3>1. Ahead(y, j) /\ y # p
      BY <1>2, <2>0, <2>1, AheadOrders
    <3> QED BY <2>0, <2>1, <3>1 DEF AmongTwo
  <2>2. CASE Ahead(j, p)
    <3>1. Ahead(a, p) /\ a # j
      BY <1>1, <2>0, <2>2, AheadOrders
    <3> QED BY <2>0, <2>2, <3>1 DEF AmongTwo
  <2> QED BY <2>0, <2>1, <2>2, AheadOrders
<1> QED BY <1>2 DEF IsFirst, AmongTwo

-----------------------------------------------------------------------------
(***************************************************************************)
(* The invariant of OwnersHoldLastSet and OnlineNodeHasKey.  While trouble *)
(* is 0, a call, a join or a leave begins only when no other is under way, *)
(* so at every moment one write spreads, one Get comes to its end, or one  *)
(* node comes or goes (OneByOne, which also says what the nodes then know  *)
(* of each other).  Placed says where the last Set is meanwhile.           *)
(***************************************************************************)
Idle(q) ==
  /\ admitted[q] = {} /\ syncTasks[q] = <<>>
  /\ \A w \in Workers : wpc[q][w] = "select"
AllIdle == \A q \in Nodes : Idle(q)

(* The i-th Get that missed has its value still to add.                    *)
Filling(i) == i \in DOMAIN fills /\ fills[i].val # Nothing

(* Nodes come or go, or one write spreads, or one Get comes to its end.    *)
OnlyLast ==
  \A q \in Nodes :
    /\ q \in up \/ Idle(q)
    /\ admitted[q] \subseteq {LastOp} /\ Members(syncTasks[q]) \subseteq {LastOp}
    /\ \A w \in Workers : /\ task[q][w] \in {NoTask, LastOp}
                          /\ wpc[q][w] = "busy" => task[q][w] # NoTask
OneFill ==
  \A i \in DOMAIN fills : Filling(i) =>
    /\ Steady /\ AllIdle
    /\ fills[i].node \in up /\ cache[fills[i].node] = Nothing
    /\ \A k \in DOMAIN fills : Filling(k) => k = i
OneMove ==
  away # NoMove =>
    (\A m \in news : m[1] \notin up) /\ (\A n \in up : mover[n] = NoMove)
Alone == ~lossy /\ (Steady \/ AllIdle) /\ OnlyLast /\ OneFill /\ OneMove

(* What nodes know of each other.  Gone: who has left is still known.      *)
Gone == (UNION {clients[q] : q \in up}) \ up

Roles ==
  /\ DOMAIN unhealthy = Nodes
  /\ \A a, b \in came.nodes : a = b
  /\ came.nodes \subseteq up /\ came.nodes \cap plan.leave = {}
  /\ plan.join # {} =>
       /\ came.nodes = {} /\ news = {} /\ \A q \in up : clients[q] \cap plan.join = {}
       /\ \A q \in plan.join : unhealthy[q] = {}
  /\ away # NoMove => away.from \notin came.nodes /\ up # {away.from}
  /\ \A n \in plan.leave : up # {n}

KnowsSelf(n) ==
  /\ n \in clients[n] => listsSelf
  /\ listsSelf => n \in clients[n] \/ <<n, n>> \in news
ToldLater(n) ==
  \A j \in Nodes : <<n, j>> \in news =>
    j \in came.nodes /\ j \notin clients[n] /\ mover[n] = NoMove /\ (n = j => listsSelf)
Unproven(n) ==
  /\ mover[n] = NoMove => unhealthy[n] = {}
  /\ mover[n] # NoMove =>
       /\ unhealthy[n] = {mover[n].to}
       /\ mover[n].to \in came.nodes /\ mover[n].to \in clients[n]
Remembered ==
  /\ \A n \in up \ came.nodes : Gone \subseteq clients[n]
  /\ \A a, b \in Gone : a = b
  /\ plan.leave # {} \/ away # NoMove => Gone = {}
Known ==
  /\ Roles /\ Remembered
  /\ \A n \in up : KnowsSelf(n) /\ ToldLater(n) /\ Unproven(n)

(* A node joins, until all have marked it healthy.                         *)
Joining == \/ \E m \in news : m[1] \in up
           \/ \E n \in up : mover[n] # NoMove

Since ==
  /\ came.after \in Nat /\ came.after <= LastOp
  /\ Joining => LastOp = came.after
  /\ came.nodes # {} /\ LastOp = came.after => AllIdle
  /\ Issued # {} => up # {} /\ (Joining => up # came.nodes)

Cleared ==
  /\ raced = {}
  /\ Issued # {} /\ opKind[LastOp] = "delete" => doomed = Issued \ {LastOp}

-----------------------------------------------------------------------------
Holds(q) == cache[q] = LastOp

(* The nodes whose owners have the key already.                            *)
Served == IF Joining THEN up \ came.nodes ELSE up

OwnersHold ==
  \A q \in Served :
    AmongTwo(q, Served) /\ (listsSelf /\ Gone # {} => IsFirst(q, Served)) => Holds(q)

(* The last Set spreads: who is still to pass it on has it, and each peer  *)
(* of a worker has it or is still to be called.                            *)
Spreads ==
  \A q \in up :
    /\ LastOp \in admitted[q] \/ LastOp \in Members(syncTasks[q]) => Holds(q)
    /\ \A w \in Workers : task[q][w] = LastOp =>
         /\ Holds(q)
         /\ \A p \in PickedSet(q) : p \in todo[q][w] \/ (p \in up /\ Holds(p))

(* What a mover is to send is what its node has.                           *)
SendsOwn ==
  \A n \in up \ came.nodes : mover[n].step = "send" => mover[n].val = cache[n]

(* A node that owns the key hands it to each of its heirs.                 *)
Inherits ==
  away # NoMove /\ ~listsSelf /\ AmongTwo(away.from, up) =>
    \A d \in clients[away.from] : AmongTwo(d, clients[away.from]) =>
      d \in away.dests \/ (away.step = "send" /\ away.to = d) \/ Holds(d)

(* The joined node j has the last Set if a node that knows it, and has     *)
(* done its part, would route to it; and has no other one.                 *)
Handed ==
  \A j \in came.nodes : \A n \in up \ {j} : AmongTwo(j, clients[n]) =>
    /\ Joining /\ mover[n].step \in {"none", "mark"} /\ cache[n] \in Ops => Holds(j)
    /\ ~Joining => Holds(j)
Fetched ==
  \A j \in came.nodes : Joining \/ AmongTwo(j, clients[j]) =>
    /\ cache[j] \in Ops => Holds(j)
    /\ \A i \in DOMAIN fills : Filling(i) /\ fills[i].node = j /\ fills[i].val \in Ops =>
         fills[i].val = LastOp

Calm == trouble = 0 /\ NothingLost /\ ~stale

Placed ==
  Calm /\ Issued # {} /\ opKind[LastOp] = "set" =>
    /\ Spreads /\ Inherits /\ SendsOwn
    /\ AllIdle => OwnersHold
    /\ LastOp = came.after => Handed /\ Fetched

(* Values come from Sets.                                                  *)
WasSet(v) == v \in Ops => opKind[v] = "set"
AllSet ==
  /\ \A q \in Nodes : WasSet(cache[q])
  /\ \A i \in DOMAIN fills : Filling(i) => WasSet(fills[i].val)
  /\ \A n \in Nodes : mover[n].step = "send" => WasSet(mover[n].val)
  /\ away.step = "send" => WasSet(away.val)

OneByOne == Alone /\ Known /\ Since /\ Cleared
PlaceInv ==
  /\ trouble \in Nat /\ AllSet
  /\ trouble = 0 => OneByOne
  /\ Placed

-----------------------------------------------------------------------------
(* Operations are numbered as they come.                                   *)
LEMMA LastIs ==
  ASSUME DataInv
  PROVE  /\ LastOp \in Nat /\ LastOp <= MaxOps /\ Issued = 1..LastOp
         /\ Issued # {} => LastOp \in Issued /\ LastOp \in Ops
         /\ LastOp + 1 \notin Issued
<1>1. PICK k \in 0..MaxOps : Issued = 1..k
  BY DEF DataInv, IssuedInOrder
<1>2. Cardinality(1..k) = k
  <2>1. 1 \in Int /\ k \in Int /\ (1 > k => k = 0)
    BY BoundsAssumption
  <2>2. Cardinality(1..k) = IF 1 > k THEN 0 ELSE k - 1 + 1
    BY <2>1, FS_Interval
  <2> QED BY <2>1, <2>2
<1>3. LastOp = k /\ k \in Nat
  BY <1>1, <1>2, BoundsAssumption DEF LastOp
<1> HIDE DEF LastOp
<1>4. LastOp \in Nat /\ LastOp <= MaxOps /\ Issued = 1..LastOp
  BY <1>1, <1>3, BoundsAssumption
<1> QED BY <1>4, BoundsAssumption DEF Ops

UpToLast == LastOp \in Nat /\ Issued = 1..LastOp

(* The same, as a formula that may be primed.                              *)
LEMMA IssuedUpToLast == DataInv => UpToLast
BY LastIs DEF UpToLast

(* Calls, joins and leaves begin when nothing else goes on.                *)
LEMMA BeginsQuiet ==
  ASSUME trouble \in Nat, trouble' = 0, Issue
  PROVE  trouble = 0 /\ Quiet /\ Steady
BY DEF Issue

(* When no call is under way nothing is left to do on any node.            *)
LEMMA QuietIsIdle ==
  ASSUME OneByOne, Quiet
  PROVE  AllIdle /\ \A i : ~Filling(i)
<1>1. AllIdle
  BY DEF OneByOne, Alone, OnlyLast, AllIdle, Idle, Quiet
<1>2. ASSUME NEW i, Filling(i) PROVE FALSE
  BY <1>2 DEF OneByOne, Alone, OneFill, Filling, Quiet
<1> QED BY <1>1, <1>2

(* A node that is idle holds no task anywhere.                             *)
LEMMA IdleTasks ==
  ASSUME MigInv, NEW q \in Nodes, Idle(q)
  PROVE  /\ admitted[q] = {} /\ Members(syncTasks[q]) = {}
         /\ \A w \in Workers : task[q][w] = NoTask
BY DEF Idle, Members, MigInv, DataInv, IdleHoldsNothing

(* Nothing races: values are on their way, or a delete is.                 *)
LEMMA NoRace ==
  ASSUME MigInv, OneByOne
  PROVE  UnderWay("delete") = {} \/ OnTheirWay = {}
<1> SUFFICES ASSUME UnderWay("delete") # {} PROVE OnTheirWay = {}
  OBVIOUS
<1>0. stray = {} /\ up \subseteq Nodes
  BY DEF OneByOne, Alone, MigInv, DataInv, StrayIsLoss, MoveInv, MoveTyped
<1>1. PICK i \in Issued :
        /\ opKind[i] = "delete"
        /\ \E n \in up : \/ i \in admitted[n] \/ i \in Members(syncTasks[n])
                         \/ \E w \in Workers : task[n][w] = i
  BY <1>0 DEF UnderWay
<1>2. PICK n \in up : \/ i \in admitted[n] \/ i \in Members(syncTasks[n])
                      \/ \E w \in Workers : task[n][w] = i
  BY <1>1
<1>3. NoTask \notin Issued
  BY BoundsAssumption DEF Issued
<1>4. ~Idle(n) /\ n \in Nodes
  BY <1>0, <1>2, <1>3, IdleTasks
<1>5. Steady /\ \A k : ~Filling(k)
  BY <1>4 DEF OneByOne, Alone, AllIdle, OneFill, Filling
<1>6. i = LastOp
  BY <1>2, <1>3, <1>4 DEF OneByOne, Alone, OnlyLast
<1>7. UnderWay("set") = {}
  <2> SUFFICES ASSUME NEW k \in UnderWay("set") PROVE FALSE
    OBVIOUS
  <2>1. PICK q \in up : \/ k \in admitted[q] \/ k \in Members(syncTasks[q])
                        \/ \E w \in Workers : task[q][w] = k
    BY <1>0 DEF UnderWay
  <2>2. k \in Issued /\ opKind[k] = "set"
    BY DEF UnderWay
  <2>3. k = LastOp
    BY <1>0, <1>3, <2>1, <2>2 DEF OneByOne, Alone, OnlyLast
  <2> QED BY <1>1, <1>6, <2>2, <2>3
<1>8. {fills[k].val : k \in DOMAIN fills} \cap Ops = {}
  BY <1>5, NothingIsNoOp DEF Filling
<1> QED BY <1>5, <1>7, <1>8 DEF OnTheirWay

(* What a step keeps that issues nothing.                                  *)
LEMMA SameOps ==
  ASSUME opKind' = opKind
  PROVE  Issued' = Issued /\ LastOp' = LastOp
BY DEF Issued, LastOp

(* A step that issues nothing notes no race.                               *)
LEMMA KeepsCleared ==
  ASSUME MigInv, OneByOne, raced' = Racing, UNCHANGED <<opKind, doomed>>
  PROVE  Cleared'
<1>1. Issued' = Issued /\ LastOp' = LastOp
  BY SameOps
<1>2. raced' = {}
  BY NoRace DEF Racing, OneByOne, Cleared
<1> QED BY <1>1, <1>2 DEF OneByOne, Cleared

(* A step that issues nothing copies values that were set.                 *)
LEMMA KeepsSet ==
  ASSUME AllSet, UNCHANGED opKind,
         \A q \in Nodes : cache'[q] = cache[q] \/ WasSet(cache'[q]),
         \A i : Filling(i)' =>
            \/ Filling(i) /\ fills'[i].val = fills[i].val
            \/ WasSet(fills'[i].val),
         \A n \in Nodes : mover'[n].step = "send" =>
            \/ mover[n].step = "send" /\ mover'[n].val = mover[n].val
            \/ WasSet(mover'[n].val),
         away'.step = "send" => away' = away \/ WasSet(away'.val)
  PROVE  AllSet'
BY DEF AllSet, WasSet, Filling

-----------------------------------------------------------------------------
(* Calls: the one that goes on keeps the invariant.                        *)
LEMMA SameViews ==
  ASSUME UNCHANGED <<up, view, moveVars, came>>
  PROVE  /\ Known' <=> Known
         /\ Joining' <=> Joining
         /\ Steady' <=> Steady
         /\ Served' = Served /\ Gone' = Gone
         /\ \A q : PickedSet(q)' = PickedSet(q)
<1>1. /\ UNCHANGED <<up, listsSelf, clients, unhealthy, plan, news, mover, away, came>>
  BY DEF view, moveVars
<1>2. Gone' = Gone
  BY <1>1 DEF Gone
<1>3. (Joining' <=> Joining) /\ (Steady' <=> Steady)
  BY <1>1 DEF Joining, Steady
<1>4. Served' = Served
  BY <1>1, <1>3 DEF Served
<1>5. \A q : PickedSet(q)' = PickedSet(q)
  BY <1>1 DEF PickedSet, Picked
<1>6. (Roles' <=> Roles) /\ (Remembered' <=> Remembered)
  BY <1>1, <1>2 DEF Roles, Remembered
<1>7. \A n : (KnowsSelf(n)' <=> KnowsSelf(n)) /\ (ToldLater(n)' <=> ToldLater(n))
             /\ (Unproven(n)' <=> Unproven(n))
  BY <1>1 DEF KnowsSelf, ToldLater, Unproven
<1>8. Known' <=> Known
  BY <1>1, <1>6, <1>7 DEF Known
<1> QED BY <1>2, <1>3, <1>4, <1>5, <1>8

(* When no node comes or goes none joins.                                  *)
LEMMA SteadyIsNotJoining == Steady => ~Joining /\ away = NoMove
BY DEF Steady, Joining

(* While a write spreads no node comes or goes and no Get is left to end.  *)
LEMMA BusyIsSteady ==
  ASSUME OneByOne, ~AllIdle
  PROVE  /\ Steady /\ ~Joining /\ away = NoMove /\ \A q \in up : mover[q] = NoMove
         /\ \A i : ~Filling(i)
         /\ came.nodes # {} => LastOp # came.after
<1>1. Steady /\ \A i : ~Filling(i)
  BY DEF OneByOne, Alone, OneFill, Filling
<1> QED BY <1>1, SteadyIsNotJoining DEF OneByOne, Since, Steady

LastSet == Calm /\ Issued # {} /\ opKind[LastOp] = "set"

(* A step of a write that spreads.                                         *)
LEMMA SpreadKeeps ==
  ASSUME MigInv, PlaceInv, NEW n \in Nodes, ~Idle(n),
         UNCHANGED <<opKind, fills, lossy, doomed, trouble, up, view, moveVars, histVars>>,
         raced' = Racing, AllSet', NothingLost' => NothingLost,
         trouble = 0 => OnlyLast',
         LastSet /\ NothingLost' => Spreads' /\ (AllIdle' => OwnersHold')
  PROVE  PlaceInv'
<1>1. Issued' = Issued /\ LastOp' = LastOp
  BY SameOps
<1>2. ~AllIdle
  BY DEF AllIdle
<1>v. UNCHANGED <<up, view, moveVars, came>>
  BY DEF histVars
<1>3. CASE trouble = 0
  <2>1. /\ Steady /\ ~Joining /\ away = NoMove /\ \A q \in up : mover[q] = NoMove
        /\ \A i : ~Filling(i)
        /\ came.nodes # {} => LastOp # came.after
    BY <1>2, <1>3, BusyIsSteady DEF PlaceInv
  <2>2. Steady' /\ ~Joining'
    BY <1>v, <2>1, SameViews
  <2>3. \A i : ~Filling(i)'
    BY <2>1 DEF Filling
  <2>4. UNCHANGED <<away, mover, came, stale>>
    BY DEF moveVars, histVars
  <2>5. Alone'
    BY <1>3, <2>1, <2>2, <2>3, <2>4 DEF Alone, OneFill, OneMove, PlaceInv, OneByOne
  <2>6. Known'
    BY <1>3, <1>v, SameViews DEF PlaceInv, OneByOne
  <2>7. Since'
    <3>1. came.after \in Nat /\ came.after <= LastOp /\ (Issued # {} => up # {})
      BY <1>3 DEF PlaceInv, OneByOne, Since
    <3> QED BY <1>1, <2>1, <2>2, <2>4, <3>1 DEF Since
  <2>8. Cleared'
    BY <1>3, KeepsCleared DEF PlaceInv
  <2>9. Placed'
    <3> SUFFICES ASSUME Calm', Issued' # {}, opKind'[LastOp'] = "set"
                 PROVE  /\ Spreads' /\ Inherits' /\ SendsOwn'
                        /\ AllIdle' => OwnersHold'
                        /\ LastOp' = came'.after => Handed' /\ Fetched'
      BY DEF Placed
    <3>1. LastSet /\ NothingLost'
      BY <1>1, <1>3, <2>4 DEF Calm, LastSet
    <3>2. Inherits' /\ SendsOwn'
      BY <2>1, <2>4 DEF Inherits, SendsOwn, NoMove
    <3>3. LastOp' = came'.after => Handed' /\ Fetched'
      BY <1>1, <2>1, <2>4 DEF Handed, Fetched
    <3> QED BY <3>1, <3>2, <3>3
  <2> QED BY <1>3, <2>5, <2>6, <2>7, <2>8, <2>9 DEF PlaceInv, OneByOne
<1>4. CASE trouble # 0
  BY <1>4 DEF PlaceInv, Placed, Calm
<1> QED BY <1>3, <1>4

(* The task of the last write gets into the channel, or something is lost. *)
LEMMA OfferPlaced ==
  ASSUME MigInv, MigInv', PlaceInv, NEW n \in Nodes, NEW i \in Ops, Offer(n, i),
         UNCHANGED <<up, view, moveVars, histVars>>, raced' = Racing
  PROVE  PlaceInv'
<1>1. /\ UNCHANGED <<wpc, task, cache, opKind, todo, stray, fills, lossy, doomed, trouble>>
      /\ n \in up /\ i \in admitted[n]
      /\ admitted' = [admitted EXCEPT ![n] = @ \ {i}]
      /\ \/ /\ syncTasks' = [syncTasks EXCEPT ![n] = Append(@, i)]
            /\ dropped' = dropped
         \/ /\ syncTasks' = syncTasks
            /\ dropped' = [dropped EXCEPT ![n] = @ \cup {i}]
  BY DEF Offer, Pool!Submit, Pool!Send, Pool!Drop
<1>2. syncTasks[n] \in Seq(Ops)
  BY DEF MigInv, DataInv, DataTyped
<1>3. /\ Append(syncTasks[n], i) \in Seq(Ops)
      /\ Members(Append(syncTasks[n], i)) = Members(syncTasks[n]) \cup {i}
  BY <1>2, AppendMembers
<1>4. /\ \A q \in Nodes : admitted'[q] = IF q = n THEN admitted[n] \ {i} ELSE admitted[q]
      /\ \A q \in Nodes :
           Members(syncTasks'[q]) \subseteq Members(syncTasks[q]) \cup (IF q = n THEN {i} ELSE {})
      /\ \A q \in Nodes : q # n => syncTasks'[q] = syncTasks[q]
  <2>1. \A q \in Nodes : admitted'[q] = IF q = n THEN admitted[n] \ {i} ELSE admitted[q]
    BY <1>1 DEF MigInv, DataInv, DataTyped
  <2>2. \A q \in Nodes : q # n => syncTasks'[q] = syncTasks[q]
    BY <1>1 DEF MigInv, DataInv, DataTyped
  <2>3. syncTasks'[n] = syncTasks[n] \/ syncTasks'[n] = Append(syncTasks[n], i)
    BY <1>1 DEF MigInv, DataInv, DataTyped
  <2> QED BY <1>3, <2>1, <2>2, <2>3
<1>5. ~Idle(n)
  BY <1>1 DEF Idle
<1>6. AllSet'
  <2>1. \A j : Filling(j)' => Filling(j) /\ fills'[j].val = fills[j].val
    BY <1>1 DEF Filling
  <2> QED BY <1>1, <2>1, KeepsSet DEF PlaceInv, moveVars
<1>7. NothingLost' => NothingLost /\ syncTasks' = [syncTasks EXCEPT ![n] = Append(@, i)]
  <2>1. CASE dropped' = dropped /\ syncTasks' = [syncTasks EXCEPT ![n] = Append(@, i)]
    BY <1>1, <2>1 DEF NothingLost
  <2>2. CASE dropped' = [dropped EXCEPT ![n] = @ \cup {i}]
    <3>1. i \in dropped'[n]
      BY <2>2 DEF MigInv, DataInv, DataTyped
    <3> QED BY <3>1 DEF NothingLost
  <2> QED BY <1>1, <2>1, <2>2
<1>8. LastOp' = LastOp
  BY <1>1, SameOps
<1>9. ASSUME trouble = 0 PROVE OnlyLast'
  <2>1. OnlyLast
    BY <1>9 DEF PlaceInv, OneByOne, Alone
  <2>2. \A q \in Nodes : q # n => (Idle(q)' <=> Idle(q))
    BY <1>1, <1>4 DEF Idle
  <2>3. n \in up /\ up' = up /\ i = LastOp
    BY <1>1, <2>1 DEF OnlyLast
  <2> QED BY <1>1, <1>4, <1>8, <2>1, <2>2, <2>3 DEF OnlyLast
<1>10. ASSUME LastSet, NothingLost' PROVE Spreads' /\ ~AllIdle'
  <2>1. Spreads /\ i = LastOp
    BY <1>1, <1>10 DEF LastSet, Calm, PlaceInv, Placed, OneByOne, Alone, OnlyLast
  <2>2. up \subseteq Nodes /\ \A q : PickedSet(q)' = PickedSet(q)
    BY SameViews DEF MigInv, MoveInv, MoveTyped, histVars
  <2>3. Spreads'
    BY <1>1, <1>4, <1>8, <2>1, <2>2 DEF Spreads, Holds
  <2>4. syncTasks'[n] # <<>>
    BY <1>2, <1>7, <1>10 DEF MigInv, DataInv, DataTyped
  <2> QED BY <2>3, <2>4 DEF AllIdle, Idle
<1> QED BY <1>1, <1>5, <1>6, <1>7, <1>9, <1>10, SpreadKeeps

(* A busy worker's task is the last operation.                             *)
LEMMA WorkersTask ==
  ASSUME MigInv, NEW n \in Nodes, NEW w \in Workers,
         wpc[n][w] = "busy" \/ todo[n][w] # {}
  PROVE  /\ ~Idle(n)
         /\ OneByOne => task[n][w] = LastOp
<1>1. wpc[n][w] = "busy"
  BY DEF MigInv, DataInv, DataTyped, IdleHoldsNothing
<1>2. ~Idle(n)
  BY <1>1 DEF Idle
<1> QED BY <1>1, <1>2 DEF OneByOne, Alone, OnlyLast

(* The worker that takes it is on a node that has the value.               *)
LEMMA BeginPlaced ==
  ASSUME MigInv, MigInv', PlaceInv, NEW n \in Nodes, NEW w \in Workers, n \in up, Begin(n, w),
         UNCHANGED <<up, view, moveVars, histVars>>, raced' = Racing
  PROVE  PlaceInv'
<1>0. PICK i : i = Head(syncTasks[n])
  OBVIOUS
<1>1. /\ UNCHANGED <<admitted, dropped, cache, opKind, stray, fills, lossy, doomed, trouble>>
      /\ wpc[n][w] = "select" /\ syncTasks[n] # <<>>
      /\ task' = [task EXCEPT ![n][w] = i]
      /\ syncTasks' = [syncTasks EXCEPT ![n] = Tail(@)]
      /\ wpc' = [wpc EXCEPT ![n][w] = "busy"]
      /\ todo' = [todo EXCEPT ![n][w] = Targets(n, i)]
  BY <1>0 DEF Begin, Pool!Take, Pool!Receive
<1>2. syncTasks[n] \in Seq(Ops)
  BY DEF MigInv, DataInv, DataTyped
<1>3. /\ Tail(syncTasks[n]) \in Seq(Ops) /\ i \in Ops
      /\ Members(syncTasks[n]) = Members(Tail(syncTasks[n])) \cup {i}
  BY <1>0, <1>1, <1>2, TailMembers
<1>4. /\ \A q \in Nodes, x \in Workers :
           task'[q][x] = IF q = n /\ x = w THEN i ELSE task[q][x]
      /\ \A q \in Nodes, x \in Workers :
           todo'[q][x] = IF q = n /\ x = w THEN Targets(n, i) ELSE todo[q][x]
      /\ \A q \in Nodes, x \in Workers :
           wpc'[q][x] = IF q = n /\ x = w THEN "busy" ELSE wpc[q][x]
      /\ \A q \in Nodes : syncTasks'[q] = IF q = n THEN Tail(syncTasks[n]) ELSE syncTasks[q]
  <2>1. \A q \in Nodes, x \in Workers :
          task'[q][x] = IF q = n /\ x = w THEN i ELSE task[q][x]
    BY <1>1 DEF MigInv, DataInv, DataTyped
  <2>2. \A q \in Nodes, x \in Workers :
          todo'[q][x] = IF q = n /\ x = w THEN Targets(n, i) ELSE todo[q][x]
    BY <1>1 DEF MigInv, DataInv, DataTyped
  <2>3. \A q \in Nodes, x \in Workers :
          wpc'[q][x] = IF q = n /\ x = w THEN "busy" ELSE wpc[q][x]
    BY <1>1 DEF MigInv, DataInv, DataTyped
  <2>4. \A q \in Nodes : syncTasks'[q] = IF q = n THEN Tail(syncTasks[n]) ELSE syncTasks[q]
    BY <1>1 DEF MigInv, DataInv, DataTyped
  <2> QED BY <2>1, <2>2, <2>3, <2>4
<1>5. ~Idle(n)
  BY <1>1 DEF Idle
<1>6. AllSet'
  <2>1. \A j : Filling(j)' => Filling(j) /\ fills'[j].val = fills[j].val
    BY <1>1 DEF Filling
  <2> QED BY <1>1, <2>1, KeepsSet DEF PlaceInv, moveVars
<1>7. NothingLost' => NothingLost
  BY <1>1 DEF NothingLost
<1>8. LastOp' = LastOp
  BY <1>1, SameOps
<1>m. \A q \in Nodes : Members(syncTasks'[q]) \subseteq Members(syncTasks[q])
  BY <1>3, <1>4
<1>9. ASSUME trouble = 0 PROVE OnlyLast' /\ i = LastOp
  <2>1. OnlyLast
    BY <1>9 DEF PlaceInv, OneByOne, Alone
  <2>2. \A q \in Nodes : q # n => (Idle(q)' <=> Idle(q))
    BY <1>1, <1>4 DEF Idle
  <2>3. i = LastOp /\ i # NoTask /\ n \in up'
    BY <1>3, <2>1, BoundsAssumption DEF OnlyLast
  <2>4. ASSUME NEW q \in Nodes
        PROVE  /\ q \in up' \/ Idle(q)'
               /\ admitted'[q] \subseteq {LastOp} /\ Members(syncTasks'[q]) \subseteq {LastOp}
    <3>1. q \in up' \/ Idle(q)'
      BY <2>1, <2>2, <2>3 DEF OnlyLast
    <3> QED BY <1>1, <1>m, <2>1, <3>1 DEF OnlyLast
  <2>5. ASSUME NEW q \in Nodes, NEW x \in Workers
        PROVE  /\ task'[q][x] \in {NoTask, LastOp}
               /\ wpc'[q][x] = "busy" => task'[q][x] # NoTask
    BY <1>4, <2>1, <2>3 DEF OnlyLast
  <2>6. OnlyLast'
    BY <1>8, <2>4, <2>5 DEF OnlyLast
  <2> QED BY <2>3, <2>6
<1>10. ASSUME LastSet, NothingLost' PROVE Spreads' /\ ~AllIdle'
  <2>1. Spreads /\ i = LastOp
    BY <1>9, <1>10 DEF LastSet, Calm, PlaceInv, Placed
  <2>2. up \subseteq Nodes /\ up' = up /\ \A q : PickedSet(q)' = PickedSet(q)
    BY SameViews DEF MigInv, MoveInv, MoveTyped, histVars
  <2>3. Targets(n, i) = PickedSet(n) /\ Holds(n)
    BY <1>3, <1>10, <2>1 DEF Targets, LastSet, Spreads
  <2>4. \A q \in up : LastOp' \in admitted'[q] \/ LastOp' \in Members(syncTasks'[q]) => Holds(q)'
    BY <1>1, <1>8, <1>m, <2>1, <2>2 DEF Spreads, Holds
  <2>5. ASSUME NEW q \in up, NEW x \in Workers, task'[q][x] = LastOp'
        PROVE  /\ Holds(q)'
               /\ \A p \in PickedSet(q)' : p \in todo'[q][x] \/ (p \in up' /\ Holds(p)')
    <3>1. CASE q = n /\ x = w
      BY <1>1, <1>4, <1>8, <2>2, <2>3, <3>1 DEF Holds
    <3>2. CASE ~(q = n /\ x = w)
      <4>1. task[q][x] = LastOp /\ todo'[q][x] = todo[q][x]
        BY <1>4, <1>8, <2>2, <2>5, <3>2
      <4> QED BY <1>1, <1>8, <2>1, <2>2, <4>1 DEF Spreads, Holds
    <3> QED BY <3>1, <3>2
  <2>6. Spreads'
    BY <2>2, <2>4, <2>5 DEF Spreads
  <2>7. ~Idle(n)'
    BY <1>4 DEF Idle
  <2> QED BY <2>6, <2>7 DEF AllIdle
<1> QED BY <1>1, <1>5, <1>6, <1>7, <1>9, <1>10, SpreadKeeps

(* The peer that serves the call has the value then.                       *)
LEMMA CallServedPlaced ==
  ASSUME MigInv, MigInv', PlaceInv, NEW n \in Nodes, NEW w \in Workers, n \in up,
         CallServed(n, w), UNCHANGED <<up, view, moveVars, histVars>>, raced' = Racing
  PROVE  PlaceInv'
<1>0. PICK p \in Callees(n, w) \cap up :
        /\ cache' = [cache EXCEPT ![p] = ValueOf(task[n][w])]
        /\ todo' = [todo EXCEPT ![n][w] = @ \ {p}]
  BY DEF CallServed
<1>i. PICK i : i = task[n][w]
  OBVIOUS
<1>1. /\ UNCHANGED <<admitted, syncTasks, wpc, task, dropped, opKind, fills, lossy, doomed,
                     trouble>>
      /\ p \in up /\ p \in todo[n][w] /\ p \in Nodes
      /\ cache' = [cache EXCEPT ![p] = ValueOf(i)]
  BY <1>0, <1>i DEF CallServed, poolVars, Callees, MigInv, MoveInv, MoveTyped
<1>2. ~Idle(n) /\ (OneByOne => i = LastOp)
  BY <1>1, <1>i, WorkersTask
<1>3. /\ \A q \in Nodes : cache'[q] = IF q = p THEN ValueOf(i) ELSE cache[q]
      /\ \A q \in Nodes, x \in Workers :
           todo'[q][x] = IF q = n /\ x = w THEN todo[n][w] \ {p} ELSE todo[q][x]
  BY <1>0, <1>1 DEF MigInv, DataInv, DataTyped
<1>4. LastOp' = LastOp /\ WasSet(ValueOf(i))
  BY <1>1, SameOps, NothingIsNoOp DEF WasSet, ValueOf
<1>5. AllSet'
  <2>1. \A j : Filling(j)' => Filling(j) /\ fills'[j].val = fills[j].val
    BY <1>1 DEF Filling
  <2> QED BY <1>1, <1>3, <1>4, <2>1, KeepsSet DEF PlaceInv, moveVars
<1>6. NothingLost' => NothingLost
  BY <1>1 DEF NothingLost
<1>7. \A q \in Nodes : Idle(q)' <=> Idle(q)
  BY <1>1 DEF Idle
<1>8. ASSUME trouble = 0 PROVE OnlyLast'
  BY <1>1, <1>4, <1>7, <1>8 DEF OnlyLast, PlaceInv, OneByOne, Alone
<1>9. ASSUME LastSet, NothingLost' PROVE Spreads' /\ ~AllIdle'
  <2>1. Spreads /\ i = LastOp /\ ValueOf(i) = LastOp
    BY <1>2, <1>9 DEF LastSet, Calm, PlaceInv, Placed, ValueOf
  <2>2. up \subseteq Nodes /\ up' = up /\ \A q : PickedSet(q)' = PickedSet(q)
    BY SameViews DEF MigInv, MoveInv, MoveTyped, histVars
  <2>3. \A q \in Nodes : (Holds(q) => Holds(q)') /\ (q = p => Holds(q)')
    BY <1>3, <1>4, <2>1 DEF Holds
  <2>4. \A q \in up : LastOp' \in admitted'[q] \/ LastOp' \in Members(syncTasks'[q]) => Holds(q)'
    BY <1>1, <1>4, <2>1, <2>2, <2>3 DEF Spreads
  <2>5. ASSUME NEW q \in up, NEW x \in Workers, task'[q][x] = LastOp'
        PROVE  /\ Holds(q)'
               /\ \A y \in PickedSet(q)' : y \in todo'[q][x] \/ (y \in up' /\ Holds(y)')
    <3>1. task[q][x] = LastOp
      BY <1>1, <1>4, <2>5
    <3>2. Holds(q) /\ \A y \in PickedSet(q) : y \in todo[q][x] \/ (y \in up /\ Holds(y))
      BY <2>1, <3>1 DEF Spreads
    <3>3. \A y : y \in todo[q][x] => y \in todo'[q][x] \/ y = p
      BY <1>3, <2>2
    <3> QED BY <1>1, <2>2, <2>3, <3>2, <3>3
  <2>6. Spreads'
    BY <2>2, <2>4, <2>5 DEF Spreads
  <2> QED BY <1>2, <1>7, <2>6 DEF AllIdle
<1> QED BY <1>1, <1>2, <1>5, <1>6, <1>8, <1>9, SpreadKeeps

(* Only a delete gives up.                                                 *)
LEMMA CallGivesUpPlaced ==
  ASSUME MigInv, MigInv', PlaceInv, NEW n \in Nodes, NEW w \in Workers, n \in up,
         CallGivesUp(n, w), UNCHANGED <<up, view, moveVars, histVars>>, raced' = Racing
  PROVE  PlaceInv'
<1>1. /\ UNCHANGED <<admitted, syncTasks, wpc, task, dropped, cache, opKind, fills, lossy,
                     doomed, trouble>>
      /\ todo[n][w] # {} /\ opKind[task[n][w]] = "delete"
  BY DEF CallGivesUp, poolVars, Callees
<1>2. ~Idle(n) /\ (OneByOne => task[n][w] = LastOp)
  BY <1>1, WorkersTask
<1>3. LastOp' = LastOp
  BY <1>1, SameOps
<1>4. AllSet'
  <2>1. \A j : Filling(j)' => Filling(j) /\ fills'[j].val = fills[j].val
    BY <1>1 DEF Filling
  <2> QED BY <1>1, <2>1, KeepsSet DEF PlaceInv, moveVars
<1>5. NothingLost' => NothingLost
  BY <1>1 DEF NothingLost
<1>6. \A q \in Nodes : Idle(q)' <=> Idle(q)
  BY <1>1 DEF Idle
<1>7. ASSUME trouble = 0 PROVE OnlyLast'
  BY <1>1, <1>3, <1>6, <1>7 DEF OnlyLast, PlaceInv, OneByOne, Alone
<1>8. ~LastSet
  BY <1>1, <1>2 DEF LastSet, Calm, PlaceInv
<1> QED BY <1>1, <1>2, <1>4, <1>5, <1>7, <1>8, SpreadKeeps

(* Steps that only trouble makes possible.                                 *)
LEMMA CallFailsPlaced ==
  ASSUME MigInv, PlaceInv, NEW n \in Nodes, NEW w \in Workers, CallFails(n, w),
         UNCHANGED <<up, view, moveVars, histVars>>
  PROVE  PlaceInv'
<1>1. UNCHANGED <<cache, opKind, fills, mover, away>> /\ trouble' = trouble + 1
  BY DEF CallFails, moveVars
<1>2. trouble' \in Nat /\ trouble' # 0
  BY <1>1 DEF PlaceInv
<1>3. \A j : Filling(j)' => Filling(j) /\ fills'[j].val = fills[j].val
  BY <1>1 DEF Filling
<1>4. AllSet'
  BY <1>1, <1>3, KeepsSet DEF PlaceInv
<1> QED BY <1>2, <1>4 DEF PlaceInv, Placed, Calm

(* A stray request was left by a call that failed.                         *)
LEMMA ServeStrayPlaced ==
  ASSUME MigInv, PlaceInv, ServeStray, UNCHANGED <<up, view, moveVars, histVars>>
  PROVE  PlaceInv'
<1>1. PICK r \in stray : cache' = [cache EXCEPT ![r[1]] = ValueOf(r[2])]
  BY DEF ServeStray
<1>2. UNCHANGED <<opKind, fills, trouble, mover, away>>
  BY DEF ServeStray, moveVars
<1>3. trouble # 0
  BY <1>1 DEF PlaceInv, OneByOne, Alone, MigInv, DataInv, StrayIsLoss
<1>4. \A q \in Nodes : cache'[q] = cache[q] \/ cache'[q] = ValueOf(r[2])
  BY <1>1 DEF MigInv, DataInv, DataTyped
<1>5. WasSet(ValueOf(r[2]))
  BY NothingIsNoOp DEF WasSet, ValueOf
<1>6. \A j : Filling(j)' => Filling(j) /\ fills'[j].val = fills[j].val
  BY <1>2 DEF Filling
<1>7. AllSet'
  BY <1>2, <1>4, <1>5, <1>6, KeepsSet DEF PlaceInv
<1> QED BY <1>2, <1>3, <1>7 DEF PlaceInv, Placed, Calm

(* Whom n picks, when it takes every node it knows for healthy.            *)
LEMMA PickedAre ==
  ASSUME MigInv, OneByOne, NEW n \in up, mover[n] = NoMove
  PROVE  \A y : y \in PickedSet(n) <=> AmongTwo(y, clients[n])
<1>1. unhealthy[n] = {}
  BY DEF OneByOne, Known, Unproven
<1>2. clients[n] \ unhealthy[n] = clients[n] /\ clients[n] \in SUBSET Nodes
  BY <1>1 DEF MigInv, MoveInv, MoveTyped
<1>3. PickedSet(n) = Members(FirstTwo(clients[n]))
  BY <1>2 DEF PickedSet, Picked
<1> QED BY <1>2, <1>3, FirstTwoAre DEF TwoOf

(* A set that has been to both peers of its node is on both owners: the    *)
(* peers run, having served the call, so a node that runs and is among the *)
(* first two of all is one of them, or is the node itself.                 *)
LEMMA EndPlaced ==
  ASSUME MigInv, MigInv', PlaceInv, NEW n \in Nodes, NEW w \in Workers, n \in up, End(n, w),
         UNCHANGED <<up, view, moveVars, histVars>>, raced' = Racing
  PROVE  PlaceInv'
<1>1. /\ UNCHANGED <<admitted, syncTasks, dropped, cache, opKind, todo, stray, fills, lossy,
                     doomed, trouble>>
      /\ todo[n][w] = {} /\ wpc[n][w] \in {"busy", "drainBusy"}
      /\ task' = [task EXCEPT ![n][w] = NoTask]
      /\ wpc' = [wpc EXCEPT ![n][w] = IF @ = "busy" THEN "select" ELSE "drain"]
  BY DEF End, Pool!Finish, Pool!Busy
<1>2. wpc[n][w] = "busy"
  BY <1>1 DEF MigInv, DataInv, DataTyped
<1>3. \A q \in Nodes, x \in Workers :
        /\ task'[q][x] = IF q = n /\ x = w THEN NoTask ELSE task[q][x]
        /\ wpc'[q][x] = IF q = n /\ x = w THEN "select" ELSE wpc[q][x]
  <2>1. \A q \in Nodes, x \in Workers :
          task'[q][x] = IF q = n /\ x = w THEN NoTask ELSE task[q][x]
    BY <1>1 DEF MigInv, DataInv, DataTyped
  <2>2. \A q \in Nodes, x \in Workers :
          wpc'[q][x] = IF q = n /\ x = w THEN "select" ELSE wpc[q][x]
    BY <1>1, <1>2 DEF MigInv, DataInv, DataTyped
  <2> QED BY <2>1, <2>2
<1>4. ~Idle(n) /\ (OneByOne => task[n][w] = LastOp)
  BY <1>2, WorkersTask
<1>5. LastOp' = LastOp
  BY <1>1, SameOps
<1>6. AllSet'
  <2>1. \A j : Filling(j)' => Filling(j) /\ fills'[j].val = fills[j].val
    BY <1>1 DEF Filling
  <2> QED BY <1>1, <2>1, KeepsSet DEF PlaceInv, moveVars
<1>7. NothingLost' => NothingLost
  BY <1>1 DEF NothingLost
<1>8. ASSUME trouble = 0 PROVE OnlyLast'
  <2>1. OnlyLast
    BY <1>8 DEF PlaceInv, OneByOne, Alone
  <2>2. \A q \in Nodes : q # n => (Idle(q)' <=> Idle(q))
    BY <1>1, <1>3 DEF Idle
  <2>3. \A q \in Nodes : q \in up' \/ Idle(q)'
    BY <2>1, <2>2 DEF OnlyLast
  <2> QED BY <1>1, <1>3, <1>5, <2>1, <2>3 DEF OnlyLast
<1>9. ASSUME LastSet, NothingLost' PROVE Spreads' /\ (AllIdle' => OwnersHold')
  <2>0. trouble = 0 /\ OneByOne /\ Spreads /\ LastOp \in Ops
    BY <1>9, LastIs DEF LastSet, Calm, PlaceInv, Placed, MigInv
  <2>1. /\ up \subseteq Nodes /\ up' = up /\ \A q : PickedSet(q)' = PickedSet(q)
        /\ Served' = Served /\ Gone' = Gone /\ listsSelf' = listsSelf
    BY SameViews DEF MigInv, MoveInv, MoveTyped, histVars, view
  <2>2. \A q : Holds(q)' <=> Holds(q)
    BY <1>1, <1>5 DEF Holds
  <2>3. LastOp # NoTask
    BY <2>0, BoundsAssumption
  <2>4. Spreads'
    <3>1. \A q \in up, x \in Workers : task'[q][x] = LastOp => task[q][x] = LastOp
      BY <1>3, <2>1, <2>3
    <3> QED BY <1>1, <1>5, <2>0, <2>1, <2>2, <3>1 DEF Spreads
  <2>5. /\ Steady /\ ~Joining /\ mover[n] = NoMove
    BY <1>4, <2>0, BusyIsSteady DEF AllIdle
  <2>6. Served = up
    BY <2>5 DEF Served
  <2>7. Holds(n) /\ \A p \in PickedSet(n) : p \in up /\ Holds(p)
    BY <1>1, <1>4, <2>0 DEF Spreads
  <2>8. up \ {n} \subseteq clients[n] /\ clients[n] \in SUBSET Nodes /\ up \in SUBSET Nodes
    <3>1. \A x : <<n, x>> \notin news
      <4>1. \A x : <<n, x>>[1] = n
        OBVIOUS
      <4> QED BY <2>5, <4>1 DEF Steady
    <3> QED BY <3>1 DEF MigInv, MoveInv, AllTold, MoveTyped
  <2>9. ASSUME NEW x \in up, AmongTwo(x, up) PROVE Holds(x)
    <3>1. \A y : y \in PickedSet(n) <=> AmongTwo(y, clients[n])
      BY <2>0, <2>5, PickedAre
    <3>2. CASE x # n
      <4>1. \A y \in clients[n] : AmongTwo(y, clients[n]) => y \in up
        BY <2>7, <3>1
      <4>2. AmongTwo(x, clients[n])
        BY <2>8, <2>9, <3>2, <4>1, PickedAreOwners
      <4> QED BY <2>7, <3>1, <4>2
    <3> QED BY <2>7, <3>2
  <2>10. OwnersHold'
    BY <2>1, <2>2, <2>6, <2>9 DEF OwnersHold
  <2> QED BY <2>4, <2>10
<1> QED BY <1>1, <1>4, <1>6, <1>7, <1>8, <1>9, SpreadKeeps

(* A write begins when all is quiet, and its own node has the value.       *)
LEMMA WritePlaced ==
  ASSUME MigInv, MigInv', PlaceInv, NEW n \in Nodes, NEW kind \in {"set", "delete"},
         Issue, Write(n, kind), UNCHANGED <<up, view, moveVars, histVars>>, raced' = Racing
  PROVE  PlaceInv'
<1>0. PICK i : i = LastOp + 1
  OBVIOUS
<1>1. i \in Ops /\ i \notin Issued /\ Issued \cup {i} = 1..i
  BY <1>0, NextIssued DEF MigInv, DataInv, Write, LastOp
<1>2. /\ n \in up
      /\ admitted' = [admitted EXCEPT ![n] = @ \cup {i}]
      /\ opKind' = [opKind EXCEPT ![i] = kind]
      /\ cache' = [cache EXCEPT ![n] = IF kind = "set" THEN i ELSE Nothing]
      /\ doomed' = IF kind = "set" THEN doomed
                   ELSE Issued \ UNION {admitted[q] : q \in Nodes}
      /\ UNCHANGED <<syncTasks, wpc, task, dropped, todo, stray, fills, lossy>>
  BY <1>0 DEF Write, Pool!Admit, LastOp
<1>3. /\ \A q \in Nodes : admitted'[q] = IF q = n THEN admitted[n] \cup {i} ELSE admitted[q]
      /\ \A q \in Nodes : cache'[q] = IF q # n THEN cache[q] ELSE IF kind = "set" THEN i ELSE Nothing
      /\ \A k \in Ops : opKind'[k] = IF k = i THEN kind ELSE opKind[k]
  BY <1>1, <1>2 DEF MigInv, DataInv, DataTyped
<1>4. Issued' = Issued \cup {i}
  BY <1>1, <1>3 DEF Issued
<1>5. LastOp' = i
  <2>0. DataInv'
    BY DEF MigInv
  <2>1. LastOp' \in Nat /\ Issued' = 1..LastOp'
    <3>1. UpToLast'
      BY <2>0, IssuedUpToLast, PTL
    <3> QED BY <3>1 DEF UpToLast
  <2>2. LastOp \in Nat
    BY LastIs DEF MigInv
  <2>3. 1..LastOp' = 1..i /\ i \in Nat
    BY <1>0, <1>1, <1>4, <2>1, <2>2
  <2> HIDE DEF LastOp
  <2> QED BY <2>1, <2>3, <1>0, <2>2
<1>6. UNCHANGED <<mover, away, news, came, stale>>
  BY DEF moveVars, histVars
<1>7. AllSet'
  <2>1. \A v : v # i /\ WasSet(v) => WasSet(v)'
    BY <1>3 DEF WasSet
  <2>2. ASSUME NEW v, v \in Values \cup Copies, WasSet(v) PROVE WasSet(v)'
    <3>1. CASE v = i
      BY <1>1, <2>2, <3>1 DEF WasSet, Issued
    <3> QED BY <2>1, <2>2, <3>1
  <2>3. ASSUME NEW q \in Nodes PROVE WasSet(cache[q])'
    <3>1. CASE q # n
      <4>1. cache'[q] = cache[q] /\ cache[q] \in Copies /\ WasSet(cache[q])
        BY <1>3, <3>1 DEF MigInv, DataInv, DataTyped, PlaceInv, AllSet
      <4> QED BY <2>2, <4>1 DEF WasSet
    <3>2. CASE q = n
      BY <1>1, <1>3, <3>2, NothingIsNoOp DEF WasSet
    <3> QED BY <3>1, <3>2
  <2>4. ASSUME NEW k, Filling(k)' PROVE WasSet(fills[k].val)'
    <3>1. Filling(k) /\ fills'[k] = fills[k]
      BY <1>2, <2>4 DEF Filling
    <3>2. WasSet(fills[k].val)
      BY <3>1 DEF PlaceInv, AllSet, Filling
    <3> QED BY <2>1, <3>1, <3>2, <1>1 DEF WasSet, Issued
  <2>5. ASSUME NEW q \in Nodes, mover'[q].step = "send" PROVE WasSet(mover[q].val)'
    <3>1. WasSet(mover[q].val)
      BY <1>6, <2>5 DEF PlaceInv, AllSet
    <3> QED BY <2>1, <3>1, <1>1, <1>6 DEF WasSet, Issued
  <2>6. ASSUME away'.step = "send" PROVE WasSet(away.val)'
    <3>1. WasSet(away.val)
      BY <1>6, <2>6 DEF PlaceInv, AllSet
    <3> QED BY <2>1, <3>1, <1>1, <1>6 DEF WasSet, Issued
  <2> QED BY <2>3, <2>4, <2>5, <2>6 DEF AllSet
<1>8. trouble' \in Nat
  BY DEF Issue, PlaceInv
<1>9. CASE trouble' = 0
  <2>1. trouble = 0 /\ Quiet /\ Steady /\ OneByOne
    BY <1>9, BeginsQuiet DEF PlaceInv
  <2>2. AllIdle /\ \A k : ~Filling(k)
    BY <2>1, QuietIsIdle
  <2>3. \A q \in Nodes : /\ admitted[q] = {} /\ Members(syncTasks[q]) = {}
                        /\ \A w \in Workers : task[q][w] = NoTask /\ wpc[q][w] = "select"
    BY <2>2, IdleTasks DEF AllIdle, Idle
  <2>v. UNCHANGED <<up, view, moveVars, came>>
    BY DEF histVars
  <2>4. Steady' /\ ~Joining' /\ Known'
    BY <2>1, <2>v, SameViews, SteadyIsNotJoining DEF OneByOne
  <2>5. ~AllIdle'
    BY <1>3 DEF AllIdle, Idle
  <2>6. Alone'
    <3>1. \A q \in Nodes : q # n => Idle(q)'
      BY <1>2, <1>3, <2>2 DEF AllIdle, Idle
    <3>2. OnlyLast'
      BY <1>2, <1>3, <1>5, <2>3, <3>1 DEF OnlyLast
    <3>3. \A k : ~Filling(k)'
      BY <1>2, <2>2 DEF Filling
    <3>4. OneMove'
      BY <1>6, <2>1 DEF OneMove, Steady
    <3> QED BY <1>2, <2>1, <2>4, <3>2, <3>3, <3>4 DEF Alone, OneFill, OneByOne
  <2>7. Since'
    <3>1. came.after \in Nat /\ came.after <= LastOp /\ LastOp \in Nat
      BY <2>1, LastIs DEF OneByOne, Since, MigInv
    <3>2. came.after <= i /\ i # came.after
      BY <1>0, <3>1
    <3> QED BY <1>2, <1>5, <1>6, <2>4, <3>1, <3>2 DEF Since
  <2>8. Cleared'
    <3>1. raced' = {}
      BY <2>1, NoRace DEF Racing, OneByOne, Cleared
    <3>2. ASSUME kind = "delete" PROVE doomed' = Issued' \ {i}
      <4>1. UNION {admitted[q] : q \in Nodes} = {}
        BY <2>3
      <4> QED BY <1>1, <1>2, <1>4, <3>2, <4>1
    <3> QED BY <1>1, <1>3, <1>5, <3>1, <3>2 DEF Cleared
  <2>9. Placed'
    <3> SUFFICES ASSUME Calm', Issued' # {}, opKind'[LastOp'] = "set"
                 PROVE  Spreads' /\ Inherits' /\ SendsOwn' /\ LastOp' # came'.after
      BY <2>5 DEF Placed
    <3>1. kind = "set"
      BY <1>1, <1>3, <1>5
    <3>2. i # NoTask /\ up \subseteq Nodes
      BY <1>1, BoundsAssumption DEF MigInv, MoveInv, MoveTyped
    <3>3. Spreads'
      BY <1>2, <1>3, <1>5, <2>3, <3>1, <3>2 DEF Spreads, Holds
    <3>4. Inherits' /\ SendsOwn'
      BY <1>6, <2>1 DEF Inherits, SendsOwn, Steady, NoMove
    <3>5. LastOp' # came'.after
      <4>1. came.after \in Nat /\ came.after <= LastOp /\ LastOp \in Nat
        BY <2>1, LastIs DEF OneByOne, Since, MigInv
      <4> QED BY <1>0, <1>5, <1>6, <4>1
    <3> QED BY <3>3, <3>4, <3>5
  <2> QED BY <1>7, <1>8, <2>4, <2>6, <2>7, <2>8, <2>9 DEF PlaceInv, OneByOne
<1>10. CASE trouble' # 0
  BY <1>7, <1>8, <1>10 DEF PlaceInv, Placed, Calm
<1> QED BY <1>9, <1>10

SpreadsIfAny == Issued # {} => Spreads

(* With nothing left to do nothing is still to be passed on.               *)
LEMMA IdleSpreads == MigInv /\ AllIdle => SpreadsIfAny
<1> SUFFICES ASSUME MigInv, AllIdle, Issued # {} PROVE Spreads
  BY DEF SpreadsIfAny
<1>1. LastOp \in Ops /\ LastOp # NoTask /\ up \subseteq Nodes
  BY LastIs, BoundsAssumption DEF MigInv, MoveInv, MoveTyped
<1>2. \A q \in up : /\ admitted[q] = {} /\ Members(syncTasks[q]) = {}
                   /\ \A w \in Workers : task[q][w] = NoTask
  BY <1>1, IdleTasks DEF AllIdle
<1> QED BY <1>1, <1>2 DEF Spreads

(* The first is among the first two.                                       *)
LEMMA FirstIsAmongTwo == ASSUME NEW S, NEW q, IsFirst(q, S) PROVE AmongTwo(q, S)
BY DEF IsFirst, AmongTwo

(* When nothing moves every node knows every other one.                    *)
LEMMA AllKnown ==
  ASSUME MigInv, OneByOne, ~Joining, NEW n \in up
  PROVE  /\ up \ {n} \subseteq clients[n] /\ clients[n] \in SUBSET Nodes
         /\ listsSelf => n \in clients[n]
         /\ mover[n] = NoMove
<1>1. \A x : <<n, x>> \notin news
  <2>1. \A x : <<n, x>>[1] = n
    OBVIOUS
  <2> QED BY <2>1 DEF Joining
<1> QED BY <1>1 DEF MigInv, MoveInv, AllTold, MoveTyped, OneByOne, Known, KnowsSelf, Joining

(* What a joined node that would pick itself gets from its other peer.     *)
LEMMA FetchedIsLast ==
  ASSUME MigInv, OneByOne, ~Joining, OwnersHold, Issued # {},
         NEW j \in up, AmongTwo(j, clients[j]), cache[j] = Nothing,
         NEW p \in PickedSet(j) \cap up, cache[p] # Nothing
  PROVE  cache[p] = LastOp
<1>1. Served = up /\ LastOp # Nothing /\ up \subseteq Nodes
  BY LastIs, NothingIsNoOp DEF Served, MigInv, MoveInv, MoveTyped
<1>2. up \ {j} \subseteq clients[j] /\ clients[j] \in SUBSET Nodes /\ j \in clients[j]
      /\ mover[j] = NoMove
  BY AllKnown DEF AmongTwo
<1>3. AmongTwo(p, clients[j])
  BY <1>2, PickedAre
<1>4. ~IsFirst(j, up)
  BY <1>1, FirstIsAmongTwo DEF OwnersHold, Holds
<1>5. IsFirst(p, up) /\ AmongTwo(p, up)
  <2>1. up \in SUBSET clients[j] /\ p # j
    BY <1>2
  <2> QED BY <1>2, <1>3, <1>4, <2>1, OtherIsFirst
<1> QED BY <1>1, <1>5 DEF OwnersHold, Holds

(* A Get begins when all is quiet, so its value is the source's or that of *)
(* a peer, which is an owner and has the last Set, if a joined node asks.  *)
LEMMA FetchPlaced ==
  ASSUME MigInv, MigInv', PlaceInv, NEW n \in Nodes, Issue, Fetch(n),
         UNCHANGED <<up, view, moveVars, histVars>>, raced' = Racing
  PROVE  PlaceInv'
<1>1. PICK v0 \in {cache[p] : p \in PickedSet(n) \cap up} \cup {SourceValue} :
        v0 # Nothing /\ fills' = Append(fills, [node |-> n, val |-> v0])
  BY DEF Fetch
<1>2. /\ n \in up /\ cache[n] = Nothing
      /\ UNCHANGED <<admitted, syncTasks, wpc, task, dropped, cache, opKind, todo, stray,
                     lossy, doomed>>
  BY DEF Fetch, poolVars
<1>3. UNCHANGED <<mover, away, news, came, stale>>
  BY DEF moveVars, histVars
<1>4. /\ DOMAIN fills = 1..Len(fills) /\ Len(fills) \in Nat
      /\ \A k : Filling(k)' => (Filling(k) /\ fills'[k] = fills[k]) \/ k = Len(fills) + 1
      /\ fills'[Len(fills) + 1] = [node |-> n, val |-> v0]
  <2>1. fills \in Seq(FillRecs)
    BY DEF MigInv, DataInv, DataTyped
  <2>2. fills' \in Seq(FillRecs)
    BY DEF MigInv, DataInv, DataTyped
  <2>3. /\ DOMAIN fills = 1..Len(fills) /\ Len(fills) \in Nat
        /\ DOMAIN fills' = 1..Len(fills) + 1
        /\ \A k \in 1..Len(fills) : fills'[k] = fills[k]
        /\ fills'[Len(fills) + 1] = [node |-> n, val |-> v0]
    BY <1>1, <2>1
  <2>4. Nothing' = Nothing
    BY DEF Nothing
  <2>5. ASSUME NEW k, Filling(k)'
        PROVE  (Filling(k) /\ fills'[k] = fills[k]) \/ k = Len(fills) + 1
    <3>1. k \in 1..Len(fills) + 1 /\ fills'[k].val # Nothing
      BY <2>3, <2>4, <2>5 DEF Filling
    <3>2. k \in 1..Len(fills) \/ k = Len(fills) + 1
      BY <2>3, <3>1
    <3> QED BY <2>3, <3>1, <3>2 DEF Filling
  <2> QED BY <2>3, <2>5
<1>5. SourceValue \notin Ops /\ up \subseteq Nodes
  BY NothingIsNoOp DEF MigInv, MoveInv, MoveTyped
<1>s. v0 = SourceValue \/ \E p \in PickedSet(n) \cap up : v0 = cache[p]
  BY <1>1
<1>6. AllSet'
  <2>1. WasSet(v0)
    <3>1. \A q \in Nodes : WasSet(cache[q])
      BY DEF PlaceInv, AllSet
    <3>2. CASE v0 = SourceValue
      BY <1>5, <3>2 DEF WasSet
    <3> QED BY <1>5, <1>s, <3>1, <3>2
  <2>2. \A k : Filling(k)' =>
          \/ Filling(k) /\ fills'[k].val = fills[k].val
          \/ WasSet(fills'[k].val)
    BY <1>4, <2>1
  <2> QED BY <1>2, <1>3, <2>2, KeepsSet DEF PlaceInv
<1>7. trouble' \in Nat
  BY DEF Issue, PlaceInv
<1>8. CASE trouble' = 0
  <2>1. trouble = 0 /\ Quiet /\ Steady /\ OneByOne
    BY <1>8, BeginsQuiet DEF PlaceInv
  <2>2. AllIdle /\ (\A k : ~Filling(k)) /\ ~Joining
    BY <2>1, QuietIsIdle, SteadyIsNotJoining
  <2>3. AllIdle'
    BY <1>2, <2>2 DEF AllIdle, Idle
  <2>v. UNCHANGED <<up, view, moveVars, came>>
    BY DEF histVars
  <2>4. /\ Steady' /\ ~Joining' /\ Known' /\ Served' = Served /\ Gone' = Gone
        /\ LastOp' = LastOp /\ Issued' = Issued
    BY <1>2, <2>1, <2>2, <2>v, SameViews, SameOps DEF OneByOne
  <2>5. \A k : Filling(k)' => k = Len(fills) + 1
    BY <1>4, <2>2
  <2>6. Alone'
    <3>1. OnlyLast'
      BY <1>2, <2>1, <2>4 DEF OnlyLast, OneByOne, Alone, Idle
    <3>2. OneFill'
      BY <1>2, <1>4, <2>3, <2>4, <2>5 DEF OneFill
    <3>3. OneMove'
      BY <1>3, <2>1 DEF OneMove, Steady
    <3> QED BY <1>2, <2>1, <2>3, <3>1, <3>2, <3>3 DEF Alone, OneByOne
  <2>7. Since'
    BY <1>2, <1>3, <2>1, <2>3, <2>4 DEF Since, OneByOne
  <2>8. Cleared'
    BY <1>2, <2>1, KeepsCleared
  <2>9. Placed'
    <3> SUFFICES ASSUME Calm', Issued' # {}, opKind'[LastOp'] = "set"
                 PROVE  /\ Spreads' /\ Inherits' /\ SendsOwn' /\ OwnersHold'
                        /\ LastOp' = came'.after => Handed' /\ Fetched'
      BY DEF Placed
    <3>1. Calm /\ Issued # {} /\ opKind[LastOp] = "set"
      BY <1>2, <1>3, <2>1, <2>4 DEF Calm, NothingLost
    <3>2. Inherits /\ SendsOwn /\ OwnersHold /\ (LastOp = came.after => Handed /\ Fetched)
      BY <2>2, <3>1 DEF PlaceInv, Placed
    <3>3. Spreads'
      <4>1. SpreadsIfAny'
        BY <2>3, IdleSpreads, PTL
      <4> QED BY <4>1 DEF SpreadsIfAny
    <3>4. clients' = clients /\ listsSelf' = listsSelf
      BY DEF view
    <3>5. Inherits' /\ SendsOwn' /\ OwnersHold'
      BY <1>2, <1>3, <2>4, <3>2, <3>4 DEF Inherits, SendsOwn, OwnersHold, Holds
    <3>6. ASSUME LastOp = came.after PROVE Handed'
      BY <1>2, <1>3, <2>2, <2>4, <3>2, <3>4, <3>6 DEF Handed, Holds
    <3>7. ASSUME LastOp = came.after PROVE Fetched'
      <4> SUFFICES ASSUME NEW j \in came.nodes, AmongTwo(j, clients[j])
                   PROVE  /\ cache[j] \in Ops => Holds(j)
                          /\ \A i : Filling(i)' /\ fills'[i].node = j /\ fills'[i].val \in Ops =>
                               fills'[i].val = LastOp
        BY <1>2, <1>3, <2>4, <3>4 DEF Fetched, Holds
      <4>1. cache[j] \in Ops => Holds(j)
        BY <3>2, <3>7 DEF Fetched
      <4>2. ASSUME n = j, v0 \in Ops PROVE v0 = LastOp
        <5>1. PICK p \in PickedSet(n) \cap up : v0 = cache[p]
          BY <1>5, <1>s, <4>2
        <5> QED BY <1>1, <1>2, <2>1, <2>2, <3>1, <3>2, <4>2, <5>1, FetchedIsLast
      <4> QED BY <1>4, <2>5, <4>1, <4>2
    <3> QED BY <1>3, <2>4, <3>3, <3>5, <3>6, <3>7
  <2> QED BY <1>6, <1>7, <2>4, <2>6, <2>7, <2>8, <2>9 DEF PlaceInv, OneByOne
<1>9. CASE trouble' # 0
  BY <1>6, <1>7, <1>9 DEF PlaceInv, Placed, Calm
<1> QED BY <1>8, <1>9

(* What a Get adds goes where there was nothing, on no owner.              *)
LEMMA FillPlaced ==
  ASSUME MigInv, MigInv', PlaceInv, NEW i \in DOMAIN fills, Fill(i),
         UNCHANGED <<up, view, moveVars, histVars>>, raced' = Racing
  PROVE  PlaceInv'
<1>0. PICK p, u : p = fills[i].node /\ u = fills[i].val
  OBVIOUS
<1>1. /\ UNCHANGED <<admitted, syncTasks, wpc, task, dropped, opKind, todo, stray, lossy,
                     doomed, trouble>>
      /\ p \in up /\ u # Nothing /\ up \subseteq Nodes
      /\ cache' = [cache EXCEPT ![p] = u]
      /\ fills' = [fills EXCEPT ![i].val = Nothing]
  BY <1>0 DEF Fill, poolVars, MigInv, MoveInv, MoveTyped
<1>2. UNCHANGED <<mover, away, news, came, stale>>
  BY DEF moveVars, histVars
<1>3. /\ \A q \in Nodes : cache'[q] = IF q = p THEN u ELSE cache[q]
      /\ Filling(i) /\ \A k : Filling(k)' => Filling(k) /\ k # i /\ fills'[k] = fills[k]
  <2>1. \A q \in Nodes : cache'[q] = IF q = p THEN u ELSE cache[q]
    BY <1>1 DEF MigInv, DataInv, DataTyped
  <2>2. fills \in Seq(FillRecs) /\ fills[i] \in FillRecs /\ DOMAIN fills = 1..Len(fills)
    BY DEF MigInv, DataInv, DataTyped
  <2>3. /\ DOMAIN fills' = DOMAIN fills /\ fills'[i].val = Nothing
        /\ \A k \in DOMAIN fills : k # i => fills'[k] = fills[k]
    BY <1>1, <2>2 DEF FillRecs
  <2>4. Nothing' = Nothing
    BY DEF Nothing
  <2> QED BY <1>0, <1>1, <2>1, <2>3, <2>4 DEF Filling
<1>4. LastOp' = LastOp /\ Issued' = Issued
  BY <1>1, SameOps
<1>5. AllSet'
  <2>1. WasSet(u)
    BY <1>0, <1>3 DEF PlaceInv, AllSet
  <2> QED BY <1>1, <1>2, <1>3, <2>1, KeepsSet DEF PlaceInv
<1>6. CASE trouble = 0
  <2>1. OneByOne /\ Steady /\ AllIdle /\ cache[p] = Nothing /\ \A k : Filling(k) => k = i
    BY <1>0, <1>3, <1>6 DEF PlaceInv, OneByOne, Alone, OneFill, Filling
  <2>2. ~Joining /\ away = NoMove /\ \A k : ~Filling(k)'
    BY <1>3, <2>1, SteadyIsNotJoining
  <2>3. AllIdle'
    BY <1>1, <2>1 DEF AllIdle, Idle
  <2>v. UNCHANGED <<up, view, moveVars, came>>
    BY DEF histVars
  <2>4. Steady' /\ ~Joining' /\ Known' /\ Served' = Served /\ Gone' = Gone
    BY <2>1, <2>2, <2>v, SameViews DEF OneByOne
  <2>5. Alone'
    <3>1. OnlyLast'
      BY <1>1, <1>4, <2>1 DEF OnlyLast, OneByOne, Alone, Idle
    <3>2. OneFill' /\ OneMove'
      BY <1>2, <2>2 DEF OneFill, OneMove
    <3> QED BY <1>1, <2>1, <2>3, <3>1, <3>2 DEF Alone, OneByOne
  <2>6. Since'
    BY <1>2, <1>4, <2>1, <2>3, <2>4 DEF Since, OneByOne
  <2>7. Cleared'
    BY <1>1, <2>1, KeepsCleared
  <2>8. Placed'
    <3> SUFFICES ASSUME Calm', Issued' # {}, opKind'[LastOp'] = "set"
                 PROVE  /\ Spreads' /\ Inherits' /\ SendsOwn' /\ OwnersHold'
                        /\ LastOp' = came'.after => Handed' /\ Fetched'
      BY DEF Placed
    <3>1. Calm /\ Issued # {} /\ opKind[LastOp] = "set"
      BY <1>1, <1>2, <1>4, <1>6 DEF Calm, NothingLost
    <3>2. Inherits /\ SendsOwn /\ OwnersHold /\ (LastOp = came.after => Handed /\ Fetched)
      BY <2>1, <3>1 DEF PlaceInv, Placed
    <3>3. Spreads'
      <4>1. SpreadsIfAny'
        BY <2>3, IdleSpreads, PTL
      <4> QED BY <4>1 DEF SpreadsIfAny
    <3>4. clients' = clients /\ listsSelf' = listsSelf
      BY DEF view
    <3>5. \A q \in Nodes : Holds(q) => Holds(q)'
      BY <1>3, <1>4, <2>1, <3>1, LastIs, NothingIsNoOp DEF Holds, MigInv
    <3>6. Served \subseteq Nodes /\ came.nodes \subseteq Nodes
      BY <1>1, <2>1, <2>2 DEF Served, OneByOne, Known, Roles
    <3>7. OwnersHold'
      BY <2>4, <3>2, <3>4, <3>5, <3>6 DEF OwnersHold
    <3>8. Inherits' /\ SendsOwn'
      BY <1>2, <2>1, <2>2 DEF Inherits, SendsOwn, Steady, NoMove
    <3>9. ASSUME LastOp = came.after PROVE Handed'
      BY <1>2, <2>2, <2>4, <3>2, <3>4, <3>5, <3>6, <3>9 DEF Handed
    <3>10. ASSUME LastOp = came.after PROVE Fetched'
      <4> SUFFICES ASSUME NEW j \in came.nodes, AmongTwo(j, clients[j]), cache'[j] \in Ops
                   PROVE  cache'[j] = LastOp
        BY <1>2, <1>4, <2>2, <2>4, <3>4 DEF Fetched, Holds
      <4>1. CASE j # p
        BY <1>3, <3>2, <3>6, <3>10, <4>1 DEF Fetched, Holds
      <4>2. CASE j = p
        <5>1. cache'[j] = u
          BY <1>3, <3>6, <4>2
        <5> QED BY <1>0, <1>3, <3>2, <3>10, <4>2, <5>1 DEF Fetched
      <4> QED BY <4>1, <4>2
    <3> QED BY <1>2, <1>4, <3>3, <3>7, <3>8, <3>9, <3>10
  <2> QED BY <1>1, <1>5, <2>4, <2>5, <2>6, <2>7, <2>8 DEF PlaceInv, OneByOne
<1>7. CASE trouble # 0
  BY <1>1, <1>5, <1>7 DEF PlaceInv, Placed, Calm
<1> QED BY <1>6, <1>7

(* Nodes come and go when no call is under way.                            *)
LEMMA MovesAreIdle ==
  ASSUME PlaceInv, trouble = 0, ~Steady
  PROVE  OneByOne /\ AllIdle /\ \A i : ~Filling(i)
BY DEF PlaceInv, OneByOne, Alone, OneFill, Filling

IdleGoesOn ==
  /\ AllIdle /\ (\A i : ~Filling(i)) /\ OnlyLast /\ Cleared /\ SpreadsIfAny
  /\ OneMove => Alone

(* When a node comes or goes the calls stay as they are: all done.         *)
LEMMA StaysIdle ==
  ASSUME MigInv, MigInv', OneByOne, AllIdle, \A i : ~Filling(i),
         UNCHANGED taskVars, lossy' = lossy, raced' = Racing
  PROVE  LastOp' = LastOp /\ Issued' = Issued /\ IdleGoesOn'
<1>1. UNCHANGED <<admitted, syncTasks, wpc, task, dropped, opKind, todo, stray, fills, doomed>>
  BY DEF taskVars
<1>2. LastOp' = LastOp /\ Issued' = Issued
  BY <1>1, SameOps
<1>3. AllIdle'
  BY <1>1 DEF AllIdle, Idle
<1>4. \A i : ~Filling(i)'
  BY <1>1 DEF Filling, Nothing
<1>5. OnlyLast'
  BY <1>1, <1>2, <1>3 DEF OnlyLast, OneByOne, Alone, AllIdle
<1>6. Cleared'
  BY <1>1, KeepsCleared
<1>7. SpreadsIfAny'
  BY <1>3, IdleSpreads, PTL
<1>8. OneMove' => Alone'
  BY <1>3, <1>4, <1>5 DEF Alone, OneFill, OneByOne
<1> QED BY <1>2, <1>3, <1>4, <1>5, <1>6, <1>7, <1>8 DEF IdleGoesOn

(* A node that joins has nothing, and is known by none yet: those that run *)
(* are still served as they were.                                          *)
LEMMA JoinPlaced ==
  ASSUME MigInv, MigInv', PlaceInv, NEW j \in Nodes, Join(j), raced' = Racing
  PROVE  PlaceInv'
<1>1. /\ UNCHANGED <<listsSelf, unhealthy, mover, away, stale>> /\ UNCHANGED taskVars
      /\ UNCHANGED <<cache, lossy>>
      /\ Issue /\ j \in plan.join
      /\ up' = up \cup {j}
      /\ news' = {<<n, j>> : n \in {q \in up' : j \in Discovered(q, up')}}
      /\ came' = [nodes |-> {j}, after |-> LastOp]
  BY DEF Join, taskVars, dataVars, poolVars
<1>2. /\ plan'.join = {} /\ plan'.leave = plan.leave
      /\ \A q \in Nodes : clients'[q] = IF q = j THEN up ELSE clients[q]
      /\ up \subseteq Nodes /\ \A q \in Nodes : clients[q] \subseteq Nodes
  BY DEF Join, MigInv, MoveInv, MoveTyped
<1>3. /\ j \notin up /\ cache[j] = Nothing /\ mover[j] = NoMove /\ plan.leave \subseteq up
      /\ news = {}
  BY <1>1 DEF MigInv, MoveInv, JoinersFresh, LeaverRuns, AllTold
<1>4. AllSet'
  BY <1>1, KeepsSet DEF PlaceInv, taskVars, Filling
<1>5. trouble' \in Nat
  BY <1>1 DEF Issue, PlaceInv
<1>6. CASE trouble' = 0
  <2>1. trouble = 0 /\ Quiet /\ Steady /\ OneByOne
    BY <1>1, <1>6, BeginsQuiet DEF PlaceInv
  <2>2. AllIdle /\ (\A i : ~Filling(i)) /\ ~Joining /\ away = NoMove
        /\ \A q \in up : mover[q] = NoMove
    BY <2>1, QuietIsIdle, SteadyIsNotJoining DEF Steady
  <2>3. LastOp' = LastOp /\ Issued' = Issued /\ IdleGoesOn'
    BY <1>1, <2>1, <2>2, StaysIdle
  <2>4. /\ came.nodes = {} /\ (\A q \in up : j \notin clients[q]) /\ unhealthy[j] = {}
        /\ (\A n \in plan.leave : up # {n}) /\ DOMAIN unhealthy = Nodes
    BY <1>1, <2>1 DEF OneByOne, Known, Roles
  <2>5. \A q, x : <<q, x>> \in news' => x = j /\ q \in up' /\ (q = j => listsSelf)
    <3>1. \A m \in news' : \E q \in up' : m = <<q, j>> /\ (q = j => listsSelf)
      BY <1>1 DEF Discovered
    <3>2. \A q, x, r : <<q, x>> = <<r, j>> => q = r /\ x = j
      OBVIOUS
    <3> QED BY <3>1, <3>2
  <2>6. \A q \in up' : (q = j => listsSelf) => <<q, j>> \in news'
    BY <1>1 DEF Discovered
  <2>7. Roles'
    BY <1>1, <1>2, <1>3, <2>2, <2>4 DEF Roles
  <2>8. Gone' = Gone
    <3>1. ASSUME NEW x PROVE x \in Gone' <=> x \in Gone
      <4>1. x \in Gone' <=> x \notin up' /\ \E q \in up' : x \in clients'[q]
        BY DEF Gone
      <4>2. x \in Gone <=> x \notin up /\ \E q \in up : x \in clients[q]
        BY DEF Gone
      <4> QED BY <1>1, <1>2, <1>3, <2>4, <4>1, <4>2
    <3> QED BY <3>1
  <2>9. Remembered'
    <3>1. \A q \in up' \ came'.nodes : q \in up \ came.nodes /\ clients'[q] = clients[q]
      BY <1>1, <1>2, <2>4
    <3> QED BY <1>1, <1>2, <2>1, <2>8, <3>1 DEF Remembered, OneByOne, Known
  <2>10. ASSUME NEW n \in up' PROVE KnowsSelf(n)' /\ ToldLater(n)' /\ Unproven(n)'
    <3>1. n \in Nodes
      BY <1>1, <1>2
    <3>2. CASE n = j
      <4>1. KnowsSelf(n)'
        BY <1>1, <1>2, <1>3, <2>6, <3>2 DEF KnowsSelf
      <4>2. ToldLater(n)'
        BY <1>1, <1>2, <1>3, <2>5, <3>2 DEF ToldLater
      <4>3. Unproven(n)'
        BY <1>1, <1>3, <2>4, <3>2 DEF Unproven
      <4> QED BY <4>1, <4>2, <4>3
    <3>3. CASE n # j
      <4>1. n \in up /\ clients'[n] = clients[n] /\ j \notin clients[n] /\ mover[n] = NoMove
        BY <1>1, <1>2, <2>2, <2>4, <3>1, <3>3
      <4>2. KnowsSelf(n) /\ Unproven(n)
        BY <2>1, <4>1 DEF OneByOne, Known
      <4>3. KnowsSelf(n)'
        BY <1>1, <1>3, <4>1, <4>2 DEF KnowsSelf
      <4>4. ToldLater(n)'
        BY <1>1, <2>5, <3>3, <4>1 DEF ToldLater
      <4>5. Unproven(n)'
        BY <1>1, <4>1, <4>2 DEF Unproven
      <4> QED BY <4>3, <4>4, <4>5
    <3> QED BY <3>2, <3>3
  <2>11. Since'
    <3>1. LastOp \in Nat
      BY LastIs DEF MigInv
    <3>2. Issued # {} => up' # {} /\ up' # {j}
      BY <1>1, <1>3, <2>1 DEF Since, OneByOne
    <3> HIDE DEF LastOp
    <3> QED BY <1>1, <2>3, <3>1, <3>2 DEF Since, IdleGoesOn
  <2>12. Alone'
    BY <1>1, <2>2, <2>3 DEF OneMove, IdleGoesOn
  <2>13. Placed'
    <3> SUFFICES ASSUME Calm', Issued' # {}, opKind'[LastOp'] = "set"
                 PROVE  /\ Spreads' /\ Inherits' /\ SendsOwn' /\ OwnersHold'
                        /\ Handed' /\ Fetched'
      BY DEF Placed
    <3>1. Calm /\ Issued # {} /\ opKind[LastOp] = "set"
      BY <1>1, <2>1, <2>3 DEF Calm, NothingLost, taskVars
    <3>2. OwnersHold
      BY <2>2, <3>1 DEF PlaceInv, Placed
    <3>3. Spreads'
      BY <2>3 DEF IdleGoesOn, SpreadsIfAny
    <3>4. Inherits' /\ SendsOwn'
      BY <1>1, <1>3, <2>2 DEF Inherits, SendsOwn, NoMove
    <3>5. Served' = Served
      <4>1. PICK q \in up : TRUE
        BY <2>1, <3>1 DEF Since, OneByOne
      <4>2. <<q, j>> \in news' /\ q \in up' /\ <<q, j>>[1] = q
        BY <1>1, <1>3, <2>6, <4>1
      <4>3. Joining'
        BY <4>2 DEF Joining
      <4> QED BY <1>1, <1>3, <2>2, <4>3 DEF Served
    <3>6. OwnersHold'
      BY <1>1, <2>3, <2>8, <3>2, <3>5 DEF OwnersHold, Holds
    <3>7. Handed'
      <4>1. \A n \in up' \ {j} : j \notin clients'[n]
        BY <1>1, <1>2, <2>4
      <4> QED BY <1>1, <4>1 DEF Handed, AmongTwo
    <3>8. Fetched'
      BY <1>1, <1>3, <2>3, NothingIsNoOp DEF Fetched, IdleGoesOn
    <3> QED BY <3>3, <3>4, <3>6, <3>7, <3>8
  <2> QED BY <1>4, <1>5, <2>3, <2>7, <2>9, <2>10, <2>11, <2>12, <2>13
          DEF PlaceInv, OneByOne, Known, IdleGoesOn
<1>7. CASE trouble' # 0
  BY <1>4, <1>5, <1>7 DEF PlaceInv, Placed, Calm
<1> QED BY <1>6, <1>7

-----------------------------------------------------------------------------
(* Nodes that come: j is told of, its data read, sent, and it is marked.   *)
LEMMA InGone ==
  ASSUME NEW x
  PROVE  x \in Gone <=> x \notin up /\ \E q \in up : x \in clients[q]
BY DEF Gone

(* A node that runs moves, or is still to be told.                         *)
LEMMA MoversAreAlone ==
  ASSUME PlaceInv, trouble = 0, NEW n \in up,
         mover[n] # NoMove \/ \E j : <<n, j>> \in news
  PROVE  /\ OneByOne /\ AllIdle /\ (\A i : ~Filling(i))
         /\ Joining /\ ~Steady /\ away = NoMove
<1>1. \A j : <<n, j>>[1] = n
  OBVIOUS
<1>2. Joining /\ ~Steady
  BY <1>1 DEF Joining, Steady
<1>3. OneByOne /\ AllIdle /\ \A i : ~Filling(i)
  BY <1>2, MovesAreIdle
<1>4. away = NoMove
  BY <1>1, <1>3 DEF OneByOne, Alone, OneMove
<1> QED BY <1>2, <1>3, <1>4

(* n hears of the joined node, and does not trust it yet.                  *)
LEMMA DiscoverPlaced ==
  ASSUME MigInv, MigInv', PlaceInv, NEW n \in Nodes, NEW j \in Nodes, Discover(n, j),
         raced' = Racing
  PROVE  PlaceInv'
<1>1. /\ UNCHANGED <<trouble, listsSelf, up, plan, away, came, stale>> /\ UNCHANGED taskVars
      /\ UNCHANGED <<cache, lossy>>
      /\ n \in up /\ <<n, j>> \in news
      /\ news' = news \ {<<n, j>>}
  BY DEF Discover, taskVars, dataVars, poolVars, histVars
<1>2. /\ \A q \in Nodes : clients'[q] = IF q = n THEN clients[n] \cup {j} ELSE clients[q]
      /\ \A q \in Nodes \ {n} : mover'[q] = mover[q]
      /\ mover'[n] = [step |-> "read", to |-> j]
      /\ up \subseteq Nodes
  BY DEF Discover, MigInv, MoveInv, MoveTyped
<1>3. unhealthy' = [unhealthy EXCEPT ![n] = @ \cup {j}]
  BY DEF Discover
<1>4. AllSet'
  BY <1>1, <1>2, KeepsSet DEF PlaceInv, taskVars, Filling
<1>5. CASE trouble = 0
  <2>1. /\ OneByOne /\ AllIdle /\ (\A i : ~Filling(i))
        /\ Joining /\ away = NoMove
    BY <1>1, <1>5, MoversAreAlone
  <2>2. LastOp' = LastOp /\ Issued' = Issued /\ IdleGoesOn'
    BY <1>1, <2>1, StaysIdle
  <2>3. mover'[n] # NoMove
    BY <1>2 DEF NoMove
  <2>4. Joining'
    BY <1>1, <2>3 DEF Joining
  <2>5. /\ j \in came.nodes /\ j \notin clients[n] /\ mover[n] = NoMove
        /\ (n = j => listsSelf) /\ unhealthy[n] = {}
    BY <1>1, <2>1 DEF OneByOne, Known, ToldLater, Unproven
  <2>6. Roles /\ Remembered /\ came.nodes \subseteq up /\ \A a, b \in came.nodes : a = b
    BY <2>1 DEF OneByOne, Known, Roles
  <2>7. plan.join = {}
    BY <1>1 DEF MigInv, MoveInv, AllTold
  <2>8. Roles'
    BY <1>1, <1>3, <2>6, <2>7 DEF Roles
  <2>9. Gone' = Gone
    <3>1. ASSUME NEW x PROVE x \in Gone' <=> x \in Gone
      <4>1. x \in Gone' <=> x \notin up' /\ \E q \in up' : x \in clients'[q]
        BY DEF Gone
      <4> QED BY <1>1, <1>2, <2>5, <2>6, <4>1, InGone
    <3> QED BY <3>1
  <2>10. Remembered'
    BY <1>1, <1>2, <2>6, <2>9 DEF Remembered
  <2>11. ASSUME NEW q \in up' PROVE KnowsSelf(q)' /\ ToldLater(q)' /\ Unproven(q)'
    <3>1. q \in up /\ q \in Nodes
      BY <1>1, <1>2
    <3>2. KnowsSelf(q) /\ ToldLater(q) /\ Unproven(q)
      BY <2>1, <3>1 DEF OneByOne, Known
    <3>3. \A x : <<q, x>> \in news' <=> <<q, x>> \in news /\ ~(q = n /\ x = j)
      <4>1. \A x : <<q, x>> = <<n, j>> <=> q = n /\ x = j
        OBVIOUS
      <4> QED BY <1>1, <4>1
    <3>4. CASE q = n
      <4>1. KnowsSelf(q)'
        BY <1>1, <1>2, <2>5, <3>1, <3>2, <3>3, <3>4 DEF KnowsSelf
      <4>2. ToldLater(q)'
        BY <2>5, <2>6, <3>2, <3>3, <3>4 DEF ToldLater
      <4>3. Unproven(q)'
        <5>1. unhealthy'[n] = {j}
          BY <1>3, <2>5, <2>6 DEF Roles
        <5> QED BY <1>1, <1>2, <2>3, <2>5, <3>4, <5>1 DEF Unproven
      <4> QED BY <4>1, <4>2, <4>3
    <3>5. CASE q # n
      <4>1. clients'[q] = clients[q] /\ mover'[q] = mover[q]
        BY <1>2, <3>1, <3>5
      <4>2. unhealthy'[q] = unhealthy[q]
        BY <1>3, <3>5
      <4> QED BY <1>1, <3>2, <3>3, <3>5, <4>1, <4>2 DEF KnowsSelf, ToldLater, Unproven
    <3> QED BY <3>4, <3>5
  <2>12. Since'
    BY <1>1, <2>1, <2>2, <2>4 DEF Since, OneByOne, IdleGoesOn
  <2>13. Alone'
    BY <1>1, <2>1, <2>2 DEF OneMove, IdleGoesOn
  <2>14. Placed'
    <3> SUFFICES ASSUME Calm', Issued' # {}, opKind'[LastOp'] = "set"
                 PROVE  /\ Spreads' /\ Inherits' /\ SendsOwn' /\ OwnersHold'
                        /\ LastOp' = came'.after => Handed' /\ Fetched'
      BY DEF Placed
    <3>1. Calm /\ Issued # {} /\ opKind[LastOp] = "set"
      BY <1>1, <2>2 DEF Calm, NothingLost, taskVars
    <3>2. OwnersHold /\ SendsOwn /\ (LastOp = came.after => Handed /\ Fetched)
      BY <2>1, <3>1 DEF PlaceInv, Placed
    <3>3. Spreads'
      BY <2>2 DEF IdleGoesOn, SpreadsIfAny
    <3>4. Inherits'
      BY <1>1, <2>1 DEF Inherits
    <3>5. SendsOwn'
      BY <1>1, <1>2, <3>2 DEF SendsOwn
    <3>6. OwnersHold'
      <4>1. Served' = Served
        BY <1>1, <2>1, <2>4 DEF Served
      <4> QED BY <1>1, <2>2, <2>9, <3>2, <4>1 DEF OwnersHold, Holds
    <3>7. ASSUME LastOp = came.after PROVE Handed'
      <4> SUFFICES ASSUME NEW x \in came.nodes, NEW q \in up \ {x},
                          AmongTwo(x, clients'[q]), mover'[q].step \in {"none", "mark"},
                          cache[q] \in Ops
                   PROVE  Holds(x)
        BY <1>1, <2>2, <2>4 DEF Handed, Holds
      <4>1. q # n
        BY <1>2
      <4>2. clients'[q] = clients[q] /\ mover'[q] = mover[q]
        BY <1>2, <4>1
      <4> QED BY <2>1, <3>2, <3>7, <4>2 DEF Handed
    <3>8. ASSUME LastOp = came.after PROVE Fetched'
      BY <1>1, <2>1, <2>2, <3>2, <3>8 DEF Fetched, Holds, IdleGoesOn
    <3> QED BY <1>1, <2>2, <3>3, <3>4, <3>5, <3>6, <3>7, <3>8
  <2> QED BY <1>1, <1>4, <1>5, <2>2, <2>8, <2>10, <2>11, <2>12, <2>13, <2>14
          DEF PlaceInv, OneByOne, Known, IdleGoesOn
<1>6. CASE trouble # 0
  BY <1>1, <1>4, <1>6 DEF PlaceInv, Placed, Calm
<1> QED BY <1>5, <1>6

(* A copy that arrives was the latest, if none sent was old.               *)
LEMMA DeliversLast ==
  ASSUME MigInv, PlaceInv, NEW p \in up, NEW u, Deliver(p, u), WasSet(u),
         UNCHANGED <<opKind, fills, dropped>>, UNCHANGED taskVars
  PROVE  /\ trouble' \in Nat
         /\ \A q \in Nodes : cache'[q] = cache[q] \/ WasSet(cache'[q])
         /\ trouble' = 0 => /\ trouble = 0 /\ lossy' = lossy
                            /\ \A q \in Nodes : q # p => cache'[q] = cache[q]
         /\ Calm' /\ Issued # {} /\ opKind[LastOp] = "set" =>
              /\ Calm /\ u = LastOp /\ cache'[p] = LastOp
              /\ \A q \in Nodes : Holds(q) => cache'[q] = LastOp
<1>0. p \in Nodes
  BY DEF MigInv, MoveInv, MoveTyped
<1>1. CASE /\ cache' = [cache EXCEPT ![p] = u]
           /\ stale' = (stale \/ (Issued # {} /\ u # ValueOf(LastOp)))
           /\ UNCHANGED <<trouble, lossy, came>>
  <2>1. \A q \in Nodes : cache'[q] = IF q = p THEN u ELSE cache[q]
    BY <1>1 DEF MigInv, DataInv, DataTyped
  <2>2. ASSUME Calm', Issued # {}, opKind[LastOp] = "set"
        PROVE  Calm /\ u = LastOp
    <3>1. ~stale /\ u = ValueOf(LastOp)
      BY <1>1, <2>2 DEF Calm
    <3>2. NothingLost /\ trouble = 0
      BY <1>1, <2>2 DEF Calm, NothingLost
    <3> QED BY <2>2, <3>1, <3>2 DEF ValueOf, Calm
  <2>3. trouble' \in Nat
    BY <1>1 DEF PlaceInv
  <2> QED BY <1>0, <1>1, <2>1, <2>2, <2>3 DEF Holds
<1>2. CASE trouble' = trouble + 1 /\ UNCHANGED cache
  <2>1. trouble' \in Nat /\ trouble' # 0
    BY <1>2 DEF PlaceInv
  <2> QED BY <1>2, <2>1 DEF Calm
<1> QED BY <1>1, <1>2 DEF Deliver

(* n reads its copy if it would route to the joined node.                  *)
LEMMA ReadPlaced ==
  ASSUME MigInv, MigInv', PlaceInv, NEW n \in Nodes, Read(n), raced' = Racing
  PROVE  PlaceInv'
<1>0. PICK m : m = IF ShouldKeyBeOnNode(n, mover[n].to) /\ cache[n] # Nothing
                     THEN [step |-> "send", to |-> mover[n].to, val |-> cache[n]]
                     ELSE [step |-> "mark", to |-> mover[n].to]
  OBVIOUS
<1>1. /\ UNCHANGED <<trouble, up, listsSelf, clients, unhealthy, plan, news, away, came, stale>>
      /\ UNCHANGED taskVars /\ UNCHANGED <<cache, lossy>>
      /\ n \in up /\ mover[n].step = "read"
      /\ mover' = [mover EXCEPT ![n] = m]
  BY <1>0 DEF Read, view, taskVars, dataVars, poolVars, histVars
<1>2. /\ \A q \in Nodes : mover'[q] = IF q = n THEN m ELSE mover[q]
      /\ up \subseteq Nodes
  BY <1>1 DEF MigInv, MoveInv, MoveTyped
<1>3. /\ m.to = mover[n].to /\ m # NoMove /\ mover[n] # NoMove /\ m.step \in {"send", "mark"}
      /\ (m.step = "send" => m.val = cache[n])
      /\ (m.step = "mark" => ~ShouldKeyBeOnNode(n, m.to) \/ cache[n] = Nothing)
  BY <1>0, <1>1 DEF NoMove
<1>4. AllSet'
  <2>1. \A q \in Nodes : WasSet(cache[q])
    BY DEF PlaceInv, AllSet
  <2> QED BY <1>1, <1>2, <1>3, <2>1, KeepsSet DEF PlaceInv, taskVars, Filling
<1>5. CASE trouble = 0
  <2>1. /\ OneByOne /\ AllIdle /\ (\A i : ~Filling(i))
        /\ Joining /\ away = NoMove
    BY <1>1, <1>3, <1>5, MoversAreAlone
  <2>2. LastOp' = LastOp /\ Issued' = Issued /\ IdleGoesOn'
    BY <1>1, <2>1, StaysIdle
  <2>3. Joining'
    BY <1>1, <1>2, <1>3 DEF Joining
  <2>4. /\ mover[n].to \in came.nodes /\ Roles /\ Remembered
        /\ \A a, b \in came.nodes : a = b
    BY <1>1, <1>3, <2>1 DEF OneByOne, Known, Unproven, Roles
  <2>5. Gone' = Gone
    BY <1>1 DEF Gone
  <2>6. Roles' /\ Remembered'
    BY <1>1, <2>4, <2>5 DEF Roles, Remembered
  <2>7. ASSUME NEW q \in up' PROVE KnowsSelf(q)' /\ ToldLater(q)' /\ Unproven(q)'
    <3>1. q \in up /\ q \in Nodes
      BY <1>1, <1>2
    <3>2. KnowsSelf(q) /\ ToldLater(q) /\ Unproven(q)
      BY <2>1, <3>1 DEF OneByOne, Known
    <3>3. /\ mover'[q].to = mover[q].to \/ mover'[q] = mover[q]
          /\ mover'[q] = NoMove <=> mover[q] = NoMove
      BY <1>2, <1>3, <3>1
    <3>4. KnowsSelf(q)' /\ ToldLater(q)'
      BY <1>1, <3>2, <3>3 DEF KnowsSelf, ToldLater
    <3>5. Unproven(q)'
      BY <1>1, <3>2, <3>3 DEF Unproven
    <3> QED BY <3>4, <3>5
  <2>8. Since'
    BY <1>1, <2>1, <2>2, <2>3 DEF Since, OneByOne, IdleGoesOn
  <2>9. Alone'
    BY <1>1, <2>1, <2>2 DEF OneMove, IdleGoesOn
  <2>10. Placed'
    <3> SUFFICES ASSUME Calm', Issued' # {}, opKind'[LastOp'] = "set"
                 PROVE  /\ Spreads' /\ Inherits' /\ SendsOwn' /\ OwnersHold'
                        /\ LastOp' = came'.after => Handed' /\ Fetched'
      BY DEF Placed
    <3>1. Calm /\ Issued # {} /\ opKind[LastOp] = "set"
      BY <1>1, <2>2 DEF Calm, NothingLost, taskVars
    <3>2. OwnersHold /\ SendsOwn /\ (LastOp = came.after => Handed /\ Fetched)
      BY <2>1, <3>1 DEF PlaceInv, Placed
    <3>3. Spreads'
      BY <2>2 DEF IdleGoesOn, SpreadsIfAny
    <3>4. Inherits'
      BY <1>1, <2>1 DEF Inherits
    <3>5. SendsOwn'
      BY <1>1, <1>2, <1>3, <3>2 DEF SendsOwn
    <3>6. OwnersHold'
      <4>1. Served' = Served
        BY <1>1, <2>1, <2>3 DEF Served
      <4> QED BY <1>1, <2>2, <2>5, <3>2, <4>1 DEF OwnersHold, Holds
    <3>7. ASSUME LastOp = came.after PROVE Handed'
      <4> SUFFICES ASSUME NEW x \in came.nodes, NEW q \in up \ {x},
                          AmongTwo(x, clients[q]), mover'[q].step \in {"none", "mark"},
                          cache[q] \in Ops
                   PROVE  Holds(x)
        BY <1>1, <2>2, <2>3 DEF Handed, Holds
      <4>1. CASE q # n
        BY <1>2, <2>1, <3>2, <3>7, <4>1 DEF Handed
      <4>2. CASE q = n
        <5>1. m.step = "mark" /\ cache[n] # Nothing /\ x = m.to
          BY <1>2, <1>3, <2>4, <4>2, NothingIsNoOp
        <5>2. clients[n] \in SUBSET Nodes
          BY DEF MigInv, MoveInv, MoveTyped
        <5>3. x \in Members(FirstTwo(clients[n]))
          BY <4>2, <5>2, FirstTwoAre DEF TwoOf
        <5> QED BY <1>3, <5>1, <5>3 DEF ShouldKeyBeOnNode
      <4> QED BY <4>1, <4>2
    <3>8. ASSUME LastOp = came.after PROVE Fetched'
      BY <1>1, <2>1, <2>2, <3>2, <3>8 DEF Fetched, Holds, IdleGoesOn
    <3> QED BY <1>1, <2>2, <3>3, <3>4, <3>5, <3>6, <3>7, <3>8
  <2> QED BY <1>1, <1>4, <1>5, <2>2, <2>6, <2>7, <2>8, <2>9, <2>10
          DEF PlaceInv, OneByOne, Known, IdleGoesOn
<1>6. CASE trouble # 0
  BY <1>1, <1>4, <1>6 DEF PlaceInv, Placed, Calm
<1> QED BY <1>5, <1>6

(* What n sends, when no copy sent is old, is the last Set.                *)
LEMMA SendPlaced ==
  ASSUME MigInv, MigInv', PlaceInv, NEW n \in Nodes, Send(n), raced' = Racing
  PROVE  PlaceInv'
<1>0. PICK p, u : p = mover[n].to /\ u = mover[n].val
  OBVIOUS
<1>1. /\ UNCHANGED <<up, listsSelf, clients, unhealthy, plan, news, away, came>>
      /\ UNCHANGED taskVars
      /\ n \in up /\ mover[n].step = "send" /\ p \in up
      /\ Deliver(p, u)
      /\ mover' = [mover EXCEPT ![n] = [step |-> "mark", to |-> p]]
  BY <1>0 DEF Send, view, taskVars, poolVars, Deliver
<1>2. /\ \A q \in Nodes : mover'[q] = IF q = n THEN [step |-> "mark", to |-> p] ELSE mover[q]
      /\ up \subseteq Nodes
      /\ mover[n] # NoMove /\ [step |-> "mark", to |-> p] # NoMove
  BY <1>1 DEF MigInv, MoveInv, MoveTyped, NoMove
<1>3. WasSet(u) /\ UNCHANGED <<opKind, fills, dropped>>
  BY <1>0, <1>1 DEF PlaceInv, AllSet, taskVars
<1>4. /\ trouble' \in Nat
      /\ \A q \in Nodes : cache'[q] = cache[q] \/ WasSet(cache'[q])
      /\ trouble' = 0 => /\ trouble = 0 /\ lossy' = lossy
                         /\ \A q \in Nodes : q # p => cache'[q] = cache[q]
      /\ Calm' /\ Issued # {} /\ opKind[LastOp] = "set" =>
           /\ Calm /\ u = LastOp /\ cache'[p] = LastOp
           /\ \A q \in Nodes : Holds(q) => cache'[q] = LastOp
  BY <1>1, <1>3, DeliversLast
<1>5. AllSet'
  BY <1>1, <1>2, <1>3, <1>4, KeepsSet DEF PlaceInv, taskVars, Filling
<1>6. CASE trouble' = 0
  <2>1. /\ OneByOne /\ AllIdle /\ (\A i : ~Filling(i))
        /\ Joining /\ away = NoMove
    BY <1>1, <1>2, <1>4, <1>6, MoversAreAlone
  <2>2. LastOp' = LastOp /\ Issued' = Issued /\ IdleGoesOn'
    BY <1>1, <1>4, <1>6, <2>1, StaysIdle
  <2>3. Joining'
    BY <1>1, <1>2 DEF Joining
  <2>4. /\ p \in came.nodes /\ Roles /\ Remembered /\ came.nodes \subseteq Nodes
        /\ \A a, b \in came.nodes : a = b
    BY <1>0, <1>1, <1>2, <2>1 DEF OneByOne, Known, Unproven, Roles
  <2>5. Gone' = Gone
    BY <1>1 DEF Gone
  <2>6. Roles' /\ Remembered'
    BY <1>1, <2>4, <2>5 DEF Roles, Remembered
  <2>7. ASSUME NEW q \in up' PROVE KnowsSelf(q)' /\ ToldLater(q)' /\ Unproven(q)'
    <3>1. q \in up /\ q \in Nodes
      BY <1>1, <1>2
    <3>2. KnowsSelf(q) /\ ToldLater(q) /\ Unproven(q)
      BY <2>1, <3>1 DEF OneByOne, Known
    <3>3. /\ mover'[q].to = mover[q].to \/ mover'[q] = mover[q]
          /\ mover'[q] = NoMove <=> mover[q] = NoMove
      BY <1>0, <1>2, <3>1
    <3>4. KnowsSelf(q)' /\ ToldLater(q)'
      BY <1>1, <3>2, <3>3 DEF KnowsSelf, ToldLater
    <3>5. Unproven(q)'
      BY <1>1, <3>2, <3>3 DEF Unproven
    <3> QED BY <3>4, <3>5
  <2>8. Since'
    BY <1>1, <2>1, <2>2, <2>3 DEF Since, OneByOne, IdleGoesOn
  <2>9. Alone'
    BY <1>1, <2>1, <2>2 DEF OneMove, IdleGoesOn
  <2>10. Placed'
    <3> SUFFICES ASSUME Calm', Issued' # {}, opKind'[LastOp'] = "set"
                 PROVE  /\ Spreads' /\ Inherits' /\ SendsOwn' /\ OwnersHold'
                        /\ LastOp' = came'.after => Handed' /\ Fetched'
      BY DEF Placed
    <3>1. Calm /\ Issued # {} /\ opKind[LastOp] = "set"
      BY <1>3, <1>4, <2>2
    <3>2. OwnersHold /\ SendsOwn /\ (LastOp = came.after => Handed /\ Fetched)
      BY <2>1, <3>1 DEF PlaceInv, Placed
    <3>3. cache'[p] = LastOp /\ \A q \in Nodes : Holds(q) => cache'[q] = LastOp
      BY <1>4, <3>1
    <3>4. \A q \in Nodes : q # p => cache'[q] = cache[q]
      BY <1>4, <1>6
    <3>5. Spreads'
      BY <2>2 DEF IdleGoesOn, SpreadsIfAny
    <3>6. Inherits'
      BY <1>1, <2>1 DEF Inherits
    <3>7. SendsOwn'
      BY <1>1, <1>2, <2>4, <3>2, <3>4 DEF SendsOwn
    <3>8. OwnersHold'
      <4>1. Served' = Served /\ Served \subseteq Nodes
        BY <1>1, <1>2, <2>1, <2>3 DEF Served
      <4> QED BY <1>1, <2>2, <2>5, <3>2, <3>3, <4>1 DEF OwnersHold, Holds
    <3>9. ASSUME LastOp = came.after PROVE Handed'
      <4> SUFFICES ASSUME NEW x \in came.nodes, NEW q \in up \ {x},
                          AmongTwo(x, clients[q]), mover'[q].step \in {"none", "mark"},
                          cache'[q] \in Ops
                   PROVE  cache'[x] = LastOp
        BY <1>1, <2>2, <2>3 DEF Handed, Holds
      <4>1. x = p
        BY <2>4
      <4> QED BY <3>3, <4>1
    <3>10. ASSUME LastOp = came.after PROVE Fetched'
      <4>1. \A x \in came.nodes : cache'[x] = LastOp
        BY <2>4, <3>3
      <4> QED BY <1>1, <2>2, <4>1 DEF Fetched, Holds, IdleGoesOn
    <3> QED BY <1>1, <2>2, <3>5, <3>6, <3>7, <3>8, <3>9, <3>10
  <2> QED BY <1>4, <1>5, <1>6, <2>2, <2>6, <2>7, <2>8, <2>9, <2>10
          DEF PlaceInv, OneByOne, Known, IdleGoesOn
<1>7. CASE trouble' # 0
  BY <1>4, <1>5, <1>7 DEF PlaceInv, Placed, Calm
<1> QED BY <1>6, <1>7

(* The last to mark the joined node j healthy: the first of the others has *)
(* handed it the key, if j is to have it.                                  *)
LEMMA OwnerHandsOver ==
  ASSUME MigInv, OneByOne, Joining, OwnersHold, Handed, LastOp \in Ops,
         NEW j \in came.nodes, NEW o, IsFirst(o, up \ {j}),
         \A q \in up : mover[q].step \in {"none", "mark"},
         AmongTwo(j, clients[o])
  PROVE  Holds(j)
<1>1. Served = up \ {j} /\ j \in up
  BY DEF Served, OneByOne, Known, Roles
<1>2. o \in up \ {j} /\ AmongTwo(o, up \ {j})
  BY DEF IsFirst, AmongTwo
<1>3. Holds(o)
  BY <1>1, <1>2 DEF OwnersHold
<1>4. cache[o] \in Ops
  BY <1>3 DEF Holds
<1> QED BY <1>2, <1>4 DEF Handed

(* What the nodes know when all have marked the joined node healthy.       *)
AllMet == \A q \in up : /\ up \ {q} \subseteq clients[q]
                        /\ listsSelf <=> q \in clients[q]

(* After a join every node knows every other, and itself if it is listed.  *)
LEMMA MetWhenSteady ==
  ASSUME MigInv, OneByOne, ~Joining
  PROVE  AllMet
BY AllKnown DEF AllMet, OneByOne, Known, KnowsSelf

(* When the last node has marked the joined node healthy, this one has the *)
(* last Set if it is an owner, or if any node picks it: the first of the   *)
(* others held the Set, as an owner of before, and has handed it over.     *)
LEMMA MarkPlaced ==
  ASSUME MigInv, MigInv', PlaceInv, NEW n \in Nodes, Mark(n), raced' = Racing
  PROVE  PlaceInv'
<1>1. /\ UNCHANGED <<trouble, up, listsSelf, clients, plan, news, away, came, stale>>
      /\ UNCHANGED taskVars /\ UNCHANGED <<cache, lossy>>
      /\ n \in up /\ mover[n].step = "mark"
      /\ mover' = [mover EXCEPT ![n] = NoMove]
      /\ unhealthy' = [unhealthy EXCEPT ![n] = @ \ {mover[n].to}]
  BY DEF Mark, taskVars, dataVars, poolVars, histVars
<1>2. /\ \A q \in Nodes : mover'[q] = IF q = n THEN NoMove ELSE mover[q]
      /\ up \subseteq Nodes /\ mover[n] # NoMove /\ NoMove.step = "none"
  BY <1>1 DEF MigInv, MoveInv, MoveTyped, NoMove
<1>3. AllSet'
  <2>1. \A q \in Nodes : mover'[q].step = "send" => mover'[q] = mover[q]
    BY <1>2
  <2> QED BY <1>1, <2>1, KeepsSet DEF PlaceInv, taskVars, Filling
<1>4. CASE trouble = 0
  <2>1. /\ OneByOne /\ AllIdle /\ (\A i : ~Filling(i))
        /\ Joining /\ away = NoMove
    BY <1>1, <1>2, <1>4, MoversAreAlone
  <2>2. LastOp' = LastOp /\ Issued' = Issued /\ IdleGoesOn'
    BY <1>1, <2>1, StaysIdle
  <2>4. /\ mover[n].to \in came.nodes /\ Roles /\ Remembered /\ came.nodes \subseteq up
        /\ (\A a, b \in came.nodes : a = b) /\ unhealthy[n] = {mover[n].to}
    BY <1>1, <1>2, <2>1 DEF OneByOne, Known, Unproven, Roles
  <2>5. Gone' = Gone
    BY <1>1 DEF Gone
  <2>6. Roles' /\ Remembered'
    BY <1>1, <2>4, <2>5 DEF Roles, Remembered
  <2>7. ASSUME NEW q \in up' PROVE KnowsSelf(q)' /\ ToldLater(q)' /\ Unproven(q)'
    <3>1. q \in up /\ q \in Nodes
      BY <1>1, <1>2
    <3>2. KnowsSelf(q) /\ ToldLater(q) /\ Unproven(q)
      BY <2>1, <3>1 DEF OneByOne, Known
    <3>3. CASE q = n
      <4>1. unhealthy'[n] = {}
        BY <1>1, <2>4 DEF Roles
      <4> QED BY <1>1, <1>2, <3>1, <3>2, <3>3, <4>1 DEF KnowsSelf, ToldLater, Unproven
    <3>4. CASE q # n
      BY <1>1, <1>2, <3>1, <3>2, <3>4 DEF KnowsSelf, ToldLater, Unproven
    <3> QED BY <3>3, <3>4
  <2>8. Since'
    BY <1>1, <2>1, <2>2 DEF Since, OneByOne, IdleGoesOn
  <2>9. Alone'
    BY <1>1, <2>1, <2>2 DEF OneMove, IdleGoesOn
  <2>o. OneByOne'
    BY <2>2, <2>6, <2>7, <2>8, <2>9 DEF OneByOne, Known, IdleGoesOn
  <2>10. Placed'
    <3> SUFFICES ASSUME Calm', Issued' # {}, opKind'[LastOp'] = "set"
                 PROVE  /\ Spreads' /\ Inherits' /\ SendsOwn' /\ OwnersHold'
                        /\ LastOp' = came'.after => Handed' /\ Fetched'
      BY DEF Placed
    <3>1. Calm /\ Issued # {} /\ opKind[LastOp] = "set"
      BY <1>1, <2>2 DEF Calm, NothingLost, taskVars
    <3>2. OwnersHold /\ SendsOwn /\ Handed /\ Fetched /\ LastOp \in Ops
      BY <2>1, <3>1, LastIs DEF PlaceInv, Placed, OneByOne, Since, MigInv
    <3>3. Spreads'
      BY <2>2 DEF IdleGoesOn, SpreadsIfAny
    <3>4. Inherits'
      BY <1>1, <2>1 DEF Inherits
    <3>5. SendsOwn'
      BY <1>1, <1>2, <3>2 DEF SendsOwn
    <3>6. PICK j : j = mover[n].to
      OBVIOUS
    <3>7. j \in came.nodes /\ came.nodes = {j} /\ j \in up /\ Served = up \ {j}
      BY <2>1, <2>4, <3>6 DEF Served
    <3>8. PICK o : o = Nearest[up \ {j}]
      OBVIOUS
    <3>9. IsFirst(o, up \ {j})
      <4>1. up \ {j} # {}
        BY <2>1, <3>1, <3>7 DEF Since, OneByOne
      <4> QED BY <1>2, <3>8, <4>1, NearestIsFirst
    <3>u. o \in up /\ o # j /\ Gone \subseteq Nodes /\ clients[o] \subseteq up \cup Gone
          /\ \A a, b \in Gone : a = b
      <4>1. o \in up /\ o # j
        BY <3>9 DEF IsFirst
      <4>2. \A x \in Gone : x \in Nodes
        BY <1>2, InGone DEF MigInv, MoveInv, MoveTyped
      <4>3. \A x \in clients[o] : x \in up \cup Gone
        BY <4>1, InGone
      <4> QED BY <2>4, <4>1, <4>2, <4>3 DEF Remembered
    <3>10. ASSUME ~Joining', AmongTwo(j, clients[o]) PROVE Holds(j)
      <4>1. ASSUME NEW q \in up PROVE mover[q].step \in {"none", "mark"}
        <5>1. mover'[q] = NoMove
          BY <1>1, <3>10 DEF Joining
        <5> QED BY <1>1, <1>2, <5>1
      <4> QED BY <2>1, <3>2, <3>7, <3>9, <3>10, <4>1, OwnerHandsOver
    <3>11. ASSUME ~Joining'
           PROVE  \A q \in up : /\ up \ {q} \subseteq clients[q]
                                /\ listsSelf <=> q \in clients[q]
      <4>1. AllMet'
        BY <2>o, <3>11, MetWhenSteady, PTL
      <4> QED BY <1>1, <4>1 DEF AllMet
    <3>12. OwnersHold'
      <4>1. CASE Joining'
        <5>1. Served' = Served
          BY <1>1, <2>1, <4>1 DEF Served
        <5> QED BY <1>1, <2>2, <2>5, <3>2, <5>1 DEF OwnersHold, Holds
      <4>2. CASE ~Joining'
        <5> SUFFICES ASSUME NEW q \in up, AmongTwo(q, up),
                            listsSelf /\ Gone # {} => IsFirst(q, up)
                     PROVE  Holds(q)
          BY <1>1, <2>2, <2>5, <4>2 DEF OwnersHold, Served, Holds
        <5>1. CASE q # j
          <6>1. AmongTwo(q, up \ {j}) /\ (IsFirst(q, up) => IsFirst(q, up \ {j}))
            BY <5>1 DEF AmongTwo, IsFirst
          <6> QED BY <3>2, <3>7, <5>1, <6>1 DEF OwnersHold
        <5>2. CASE q = j
          <6>1. j \in clients[o] /\ (o \in clients[o] => listsSelf)
            BY <3>7, <3>11, <3>u, <4>2
          <6>2. AmongTwo(j, clients[o])
            BY <1>2, <3>7, <3>9, <3>u, <5>2, <6>1, FirstSendsToOwner
          <6> QED BY <3>10, <4>2, <5>2, <6>2
        <5> QED BY <5>1, <5>2
      <4> QED BY <4>1, <4>2
    <3>13. Handed'
      <4> SUFFICES ASSUME NEW q \in up \ {j}, AmongTwo(j, clients[q])
                   PROVE  /\ Joining' /\ mover'[q].step \in {"none", "mark"}
                               /\ cache[q] \in Ops => Holds(j)
                          /\ ~Joining' => Holds(j)
        BY <1>1, <2>2, <3>7 DEF Handed, Holds
      <4>1. ASSUME mover'[q].step \in {"none", "mark"}, cache[q] \in Ops PROVE Holds(j)
        <5>1. mover[q].step \in {"none", "mark"}
          BY <1>1, <1>2, <4>1
        <5> QED BY <2>1, <3>2, <3>7, <4>1, <5>1 DEF Handed
      <4>2. ASSUME ~Joining' PROVE Holds(j)
        <5>1. Gone \subseteq clients[q] /\ clients[q] \in SUBSET Nodes
          BY <1>2, <2>4, <3>7 DEF Remembered, MigInv, MoveInv, MoveTyped
        <5>2. /\ j \in clients[o] /\ (o \in clients[o] => listsSelf)
              /\ up \ {q} \subseteq clients[q] /\ (listsSelf => q \in clients[q])
          BY <3>7, <3>11, <3>u, <4>2
        <5>3. /\ up \in SUBSET Nodes /\ Gone \in SUBSET Nodes
              /\ clients[o] \in SUBSET (up \cup Gone)
          BY <1>2, <3>u
        <5>4. AmongTwo(j, clients[o])
          <6> HIDE DEF Gone
          <6> QED BY <3>7, <3>9, <4>2, <5>1, <5>2, <5>3, FirstSendsWhenAnyDoes
        <5> QED BY <3>10, <4>2, <5>4
      <4> QED BY <4>1, <4>2
    <3>14. Fetched'
      BY <1>1, <2>1, <2>2, <3>2 DEF Fetched, Holds, IdleGoesOn
    <3> QED BY <3>3, <3>4, <3>5, <3>12, <3>13, <3>14
  <2> QED BY <1>1, <1>3, <1>4, <2>o, <2>10 DEF PlaceInv
<1>5. CASE trouble # 0
  BY <1>1, <1>3, <1>5 DEF PlaceInv, Placed, Calm
<1> QED BY <1>4, <1>5

-----------------------------------------------------------------------------
(* Nodes that go.                                                          *)
(* While a node leaves no other comes.                                     *)
LEMMA LeavesAlone ==
  ASSUME MigInv, PlaceInv, trouble = 0, away # NoMove
  PROVE  /\ OneByOne /\ AllIdle /\ (\A i : ~Filling(i)) /\ ~Joining
         /\ (\A q \in up : mover[q] = NoMove) /\ Gone = {} /\ Served = up
         /\ (\A m \in news : m[1] \notin up)
         /\ away.from \in up /\ away.from \in Nodes /\ away.from \notin came.nodes
         /\ up # {away.from} /\ plan.leave = {}
<1>1. OneByOne /\ AllIdle /\ \A i : ~Filling(i)
  BY MovesAreIdle DEF Steady
<1>2. (\A q \in up : mover[q] = NoMove) /\ \A m \in news : m[1] \notin up
  BY <1>1 DEF OneByOne, Alone, OneMove
<1>3. ~Joining
  BY <1>2 DEF Joining
<1>4. Gone = {} /\ away.from \notin came.nodes /\ up # {away.from}
  BY <1>1 DEF OneByOne, Known, Remembered, Roles
<1>5. away.from \in up /\ away.from \in Nodes /\ plan.leave = {}
  BY DEF MigInv, MoveInv, LeaverRuns, MoveTyped
<1> QED BY <1>1, <1>2, <1>3, <1>4, <1>5 DEF Served

(* What a step that only changes away, and caches, keeps.                  *)
LEMMA AwayKeeps ==
  ASSUME OneByOne, UNCHANGED <<up, view, news, mover, came>>,
         plan'.join = plan.join, plan'.leave = {}, plan.leave # {} \/ away # NoMove,
         LastOp' = LastOp, Issued' = Issued, IdleGoesOn', ~Joining, OneMove',
         away'.from \notin came.nodes, up # {away'.from}
  PROVE  OneByOne' /\ ~Joining' /\ Gone' = Gone /\ Served' = Served
<1>1. UNCHANGED <<listsSelf, clients, unhealthy>>
  BY DEF view
<1>2. Gone' = Gone
  BY <1>1 DEF Gone
<1>3. ~Joining'
  BY DEF Joining
<1>4. Served' = Served
  BY <1>3 DEF Served
<1>5. Roles'
  BY <1>1 DEF OneByOne, Known, Roles
<1>6. Remembered'
  BY <1>1, <1>2 DEF OneByOne, Known, Remembered
<1>7. \A q \in up' : KnowsSelf(q)' /\ ToldLater(q)' /\ Unproven(q)'
  BY <1>1 DEF OneByOne, Known, KnowsSelf, ToldLater, Unproven
<1>8. Since'
  BY <1>3 DEF Since, OneByOne, IdleGoesOn
<1> QED BY <1>2, <1>3, <1>4, <1>5, <1>6, <1>7, <1>8 DEF OneByOne, Known, IdleGoesOn

(* A node that leaves begins when all is quiet, so if it is an owner it    *)
(* has the last Set, and collects all its heirs.                           *)
LEMMA LeavePlaced ==
  ASSUME MigInv, MigInv', PlaceInv, NEW n \in Nodes, Leave(n), raced' = Racing
  PROVE  PlaceInv'
<1>0. PICK D : D = IF cache[n] = Nothing THEN {} ELSE Heirs(n)
  OBVIOUS
<1>1. /\ UNCHANGED <<up, view, news, mover, came, stale, cache, lossy>>
      /\ UNCHANGED taskVars
      /\ Issue /\ n \in plan.leave
      /\ away' = [step |-> "read", from |-> n, dests |-> D]
  BY <1>0 DEF Leave, taskVars, dataVars, poolVars, histVars
<1>2. plan'.join = plan.join /\ plan'.leave = {}
  BY DEF Leave, MigInv, MoveInv, MoveTyped
<1>3. away'.step = "read" /\ away'.from = n /\ away'.dests = D /\ n \in up
  BY <1>1 DEF MigInv, MoveInv, LeaverRuns
<1>4. AllSet'
  BY <1>1, <1>3, KeepsSet DEF PlaceInv, taskVars, Filling
<1>5. trouble' \in Nat
  BY <1>1 DEF Issue, PlaceInv
<1>6. CASE trouble' = 0
  <2>1. trouble = 0 /\ Quiet /\ Steady /\ OneByOne
    BY <1>1, <1>6, BeginsQuiet DEF PlaceInv
  <2>2. AllIdle /\ (\A i : ~Filling(i)) /\ ~Joining
    BY <2>1, QuietIsIdle, SteadyIsNotJoining
  <2>3. LastOp' = LastOp /\ Issued' = Issued /\ IdleGoesOn'
    BY <1>1, <2>1, <2>2, StaysIdle
  <2>4. OneMove'
    BY <1>1, <2>1 DEF OneMove, Steady
  <2>5. n \notin came.nodes /\ up # {n} /\ Gone = {} /\ plan.leave # {}
    BY <1>1, <2>1 DEF OneByOne, Known, Roles, Remembered
  <2>6. OneByOne' /\ ~Joining' /\ Gone' = Gone /\ Served' = Served /\ Served = up
    BY <1>1, <1>2, <1>3, <2>1, <2>2, <2>3, <2>4, <2>5, AwayKeeps DEF Served
  <2>7. Placed'
    <3> SUFFICES ASSUME Calm', Issued' # {}, opKind'[LastOp'] = "set"
                 PROVE  /\ Spreads' /\ Inherits' /\ SendsOwn' /\ OwnersHold'
                        /\ LastOp' = came'.after => Handed' /\ Fetched'
      BY DEF Placed
    <3>1. Calm /\ Issued # {} /\ opKind[LastOp] = "set"
      BY <1>1, <2>1, <2>3 DEF Calm, NothingLost, taskVars
    <3>2. OwnersHold /\ SendsOwn /\ (LastOp = came.after => Handed /\ Fetched)
      BY <2>2, <3>1 DEF PlaceInv, Placed
    <3>3. Spreads'
      BY <2>3 DEF IdleGoesOn, SpreadsIfAny
    <3>4. UNCHANGED <<listsSelf, clients>>
      BY <1>1 DEF view
    <3>5. Inherits'
      <4> SUFFICES ASSUME ~listsSelf, AmongTwo(n, up),
                          NEW d \in clients[n], AmongTwo(d, clients[n])
                   PROVE  d \in D
        BY <1>1, <1>3, <3>4 DEF Inherits
      <4>1. Holds(n)
        BY <2>6, <3>2 DEF OwnersHold, AmongTwo
      <4>2. cache[n] # Nothing
        BY <3>1, <4>1, LastIs, NothingIsNoOp DEF Holds, MigInv
      <4>3. clients[n] \in SUBSET Nodes
        BY DEF MigInv, MoveInv, MoveTyped
      <4> QED BY <1>0, <4>2, <4>3, FirstTwoAre DEF Heirs, TwoOf
    <3>6. SendsOwn'
      BY <1>1, <3>2 DEF SendsOwn
    <3>7. OwnersHold'
      BY <1>1, <2>3, <2>6, <3>2, <3>4 DEF OwnersHold, Holds
    <3>8. ASSUME LastOp = came.after PROVE Handed'
      BY <1>1, <2>2, <2>3, <2>6, <3>2, <3>4, <3>8 DEF Handed, Holds
    <3>9. ASSUME LastOp = came.after PROVE Fetched'
      BY <1>1, <2>2, <2>3, <2>6, <3>2, <3>4, <3>9 DEF Fetched, Holds, IdleGoesOn
    <3> QED BY <1>1, <2>3, <3>3, <3>5, <3>6, <3>7, <3>8, <3>9
  <2> QED BY <1>4, <1>5, <2>6, <2>7 DEF PlaceInv
<1>7. CASE trouble' # 0
  BY <1>4, <1>5, <1>7 DEF PlaceInv, Placed, Calm
<1> QED BY <1>6, <1>7

(* An heir is next, and gets what the node has.                            *)
LEMMA AwayReadPlaced ==
  ASSUME MigInv, MigInv', PlaceInv, AwayRead, raced' = Racing
  PROVE  PlaceInv'
<1>1. /\ UNCHANGED <<up, view, news, mover, came, stale, cache, lossy, trouble, plan>>
      /\ UNCHANGED taskVars
      /\ away.step = "read" /\ away # NoMove
  BY DEF AwayRead, taskVars, dataVars, poolVars, histVars, NoMove
<1>2. PICK f, D : away = [step |-> "read", from |-> f, dests |-> D]
  BY <1>1 DEF MigInv, MoveInv, MoveTyped, AwayTyped
<1>3. f = away.from /\ f \in Nodes /\ D = away.dests
  BY <1>1, <1>2 DEF MigInv, MoveInv, LeaverRuns, MoveTyped
<1>4. PICK d \in D :
        \/ cache[f] = Nothing /\ away' = [step |-> "read", from |-> f, dests |-> D \ {d}]
        \/ away' = [step |-> "send", from |-> f, dests |-> D \ {d}, to |-> d, val |-> cache[f]]
  BY <1>2 DEF AwayRead
<1>5. /\ away'.from = f /\ away'.dests = D \ {d} /\ away' # NoMove
      /\ away'.step = "send" => away'.val = cache[f] /\ away'.to = d
      /\ away'.step = "send" \/ cache[f] = Nothing
  BY <1>4 DEF NoMove
<1>6. AllSet'
  <2>1. WasSet(cache[f])
    BY <1>3 DEF PlaceInv, AllSet
  <2> QED BY <1>1, <1>5, <2>1, KeepsSet DEF PlaceInv, taskVars, Filling
<1>7. CASE trouble = 0
  <2>1. /\ OneByOne /\ AllIdle /\ (\A i : ~Filling(i)) /\ ~Joining
        /\ (\A q \in up : mover[q] = NoMove) /\ Gone = {} /\ Served = up
        /\ (\A m \in news : m[1] \notin up)
        /\ f \notin came.nodes /\ up # {f} /\ plan.leave = {}
    BY <1>1, <1>3, <1>7, LeavesAlone
  <2>2. LastOp' = LastOp /\ Issued' = Issued /\ IdleGoesOn'
    BY <1>1, <2>1, StaysIdle
  <2>3. OneMove'
    BY <1>1, <2>1 DEF OneMove
  <2>4. OneByOne' /\ ~Joining' /\ Gone' = Gone /\ Served' = Served
    BY <1>1, <1>5, <2>1, <2>2, <2>3, AwayKeeps
  <2>5. Placed'
    <3> SUFFICES ASSUME Calm', Issued' # {}, opKind'[LastOp'] = "set"
                 PROVE  /\ Spreads' /\ Inherits' /\ SendsOwn' /\ OwnersHold'
                        /\ LastOp' = came'.after => Handed' /\ Fetched'
      BY DEF Placed
    <3>1. Calm /\ Issued # {} /\ opKind[LastOp] = "set"
      BY <1>1, <2>2 DEF Calm, NothingLost, taskVars
    <3>2. Inherits /\ OwnersHold /\ SendsOwn /\ (LastOp = came.after => Handed /\ Fetched)
      BY <2>1, <3>1 DEF PlaceInv, Placed
    <3>3. Spreads'
      BY <2>2 DEF IdleGoesOn, SpreadsIfAny
    <3>4. UNCHANGED <<listsSelf, clients>>
      BY <1>1 DEF view
    <3>5. Inherits'
      <4> SUFFICES ASSUME ~listsSelf, AmongTwo(f, up),
                          NEW x \in clients[f], AmongTwo(x, clients[f])
                   PROVE  \/ x \in D \ {d} \/ (away'.step = "send" /\ away'.to = x)
                          \/ Holds(x)
        BY <1>1, <1>5, <2>2, <3>4 DEF Inherits, Holds
      <4>1. Holds(f)
        BY <2>1, <3>2 DEF OwnersHold, AmongTwo
      <4>2. cache[f] # Nothing
        BY <3>1, <4>1, LastIs, NothingIsNoOp DEF Holds, MigInv
      <4>3. x \in D \/ Holds(x)
        BY <1>1, <1>2, <1>3, <3>2 DEF Inherits
      <4> QED BY <1>5, <4>2, <4>3
    <3>6. SendsOwn'
      BY <1>1, <3>2 DEF SendsOwn
    <3>7. OwnersHold'
      BY <1>1, <2>2, <2>4, <3>2, <3>4 DEF OwnersHold, Holds
    <3>8. ASSUME LastOp = came.after PROVE Handed'
      BY <1>1, <2>1, <2>2, <2>4, <3>2, <3>4, <3>8 DEF Handed, Holds
    <3>9. ASSUME LastOp = came.after PROVE Fetched'
      BY <1>1, <2>1, <2>2, <2>4, <3>2, <3>4, <3>9 DEF Fetched, Holds, IdleGoesOn
    <3> QED BY <1>1, <2>2, <3>3, <3>5, <3>6, <3>7, <3>8, <3>9
  <2> QED BY <1>1, <1>6, <1>7, <2>4, <2>5 DEF PlaceInv
<1>8. CASE trouble # 0
  BY <1>1, <1>6, <1>8 DEF PlaceInv, Placed, Calm
<1> QED BY <1>7, <1>8

(* The heir has the last Set when the copy has arrived.                    *)
LEMMA AwaySendPlaced ==
  ASSUME MigInv, MigInv', PlaceInv, AwaySend, raced' = Racing
  PROVE  PlaceInv'
<1>1. /\ UNCHANGED <<up, view, news, mover, came, plan>> /\ UNCHANGED taskVars
      /\ away.step = "send" /\ away # NoMove /\ away.to \in up /\ Deliver(away.to, away.val)
      /\ away' = [step |-> "read", from |-> away.from, dests |-> away.dests]
  BY DEF AwaySend, taskVars, poolVars, Deliver, NoMove
<1>2. PICK f, p, u : f = away.from /\ p = away.to /\ u = away.val
  OBVIOUS
<1>3. /\ away'.from = f /\ away'.dests = away.dests /\ away' # NoMove /\ away'.step = "read"
      /\ f \in Nodes /\ p \in up /\ p \in Nodes /\ up \subseteq Nodes
  BY <1>1, <1>2 DEF MigInv, MoveInv, LeaverRuns, MoveTyped, NoMove
<1>4. WasSet(u) /\ Deliver(p, u) /\ UNCHANGED <<opKind, fills, dropped>>
  BY <1>1, <1>2 DEF PlaceInv, AllSet, taskVars
<1>5. /\ trouble' \in Nat
      /\ \A q \in Nodes : cache'[q] = cache[q] \/ WasSet(cache'[q])
      /\ trouble' = 0 => /\ trouble = 0 /\ lossy' = lossy
                         /\ \A q \in Nodes : q # p => cache'[q] = cache[q]
      /\ Calm' /\ Issued # {} /\ opKind[LastOp] = "set" =>
           /\ Calm /\ u = LastOp /\ cache'[p] = LastOp
           /\ \A q \in Nodes : Holds(q) => cache'[q] = LastOp
  BY <1>1, <1>3, <1>4, DeliversLast
<1>6. AllSet'
  BY <1>1, <1>3, <1>4, <1>5, KeepsSet DEF PlaceInv, Filling
<1>7. CASE trouble' = 0
  <2>1. /\ OneByOne /\ AllIdle /\ (\A i : ~Filling(i)) /\ ~Joining
        /\ (\A q \in up : mover[q] = NoMove) /\ Gone = {} /\ Served = up
        /\ (\A m \in news : m[1] \notin up)
        /\ f \notin came.nodes /\ up # {f} /\ plan.leave = {}
    BY <1>1, <1>2, <1>5, <1>7, LeavesAlone
  <2>2. LastOp' = LastOp /\ Issued' = Issued /\ IdleGoesOn'
    BY <1>1, <1>5, <1>7, <2>1, StaysIdle
  <2>3. OneMove'
    BY <1>1, <2>1 DEF OneMove
  <2>4. OneByOne' /\ ~Joining' /\ Gone' = Gone /\ Served' = Served
    BY <1>1, <1>3, <2>1, <2>2, <2>3, AwayKeeps
  <2>5. Placed'
    <3> SUFFICES ASSUME Calm', Issued' # {}, opKind'[LastOp'] = "set"
                 PROVE  /\ Spreads' /\ Inherits' /\ SendsOwn' /\ OwnersHold'
                        /\ LastOp' = came'.after => Handed' /\ Fetched'
      BY DEF Placed
    <3>1. Calm /\ Issued # {} /\ opKind[LastOp] = "set"
      BY <1>4, <1>5, <2>2
    <3>2. Inherits /\ OwnersHold /\ (LastOp = came.after => Handed /\ Fetched)
      BY <2>1, <3>1 DEF PlaceInv, Placed
    <3>3. cache'[p] = LastOp /\ \A q \in Nodes : Holds(q) => cache'[q] = LastOp
      BY <1>5, <3>1
    <3>4. \A q \in Nodes : q # p => cache'[q] = cache[q]
      BY <1>5, <1>7
    <3>5. Spreads'
      BY <2>2 DEF IdleGoesOn, SpreadsIfAny
    <3>6. UNCHANGED <<listsSelf, clients>> /\ \A q \in Nodes : clients[q] \subseteq Nodes
      BY <1>1 DEF view, MigInv, MoveInv, MoveTyped
    <3>7. Inherits'
      <4> SUFFICES ASSUME ~listsSelf, AmongTwo(f, up),
                          NEW x \in clients[f], AmongTwo(x, clients[f])
                   PROVE  x \in away.dests \/ cache'[x] = LastOp
        BY <1>1, <1>3, <2>2, <3>6 DEF Inherits, Holds
      <4>1. x \in away.dests \/ x = p \/ Holds(x)
        BY <1>1, <1>2, <3>2 DEF Inherits
      <4> QED BY <1>3, <3>3, <3>6, <4>1
    <3>8. SendsOwn'
      BY <1>1, <2>1 DEF SendsOwn, NoMove
    <3>9. OwnersHold'
      BY <1>1, <1>3, <2>1, <2>2, <2>4, <3>2, <3>3, <3>6 DEF OwnersHold, Holds
    <3>10. came.nodes \subseteq Nodes
      BY <1>3, <2>1 DEF OneByOne, Known, Roles
    <3>11. ASSUME LastOp = came.after PROVE Handed'
      <4> SUFFICES ASSUME NEW j \in came.nodes, NEW n \in up \ {j}, AmongTwo(j, clients[n])
                   PROVE  cache'[j] = LastOp
        BY <1>1, <2>2, <2>4, <3>6 DEF Handed, Holds
      <4>1. Holds(j)
        BY <2>1, <3>2, <3>11 DEF Handed
      <4> QED BY <3>3, <3>10, <4>1
    <3>12. ASSUME LastOp = came.after PROVE Fetched'
      <4> SUFFICES ASSUME NEW j \in came.nodes, AmongTwo(j, clients[j]), cache'[j] \in Ops
                   PROVE  cache'[j] = LastOp
        BY <1>1, <2>2, <2>4, <3>6 DEF Fetched, Holds, IdleGoesOn
      <4>1. CASE j = p
        BY <3>3, <4>1
      <4>2. CASE j # p
        <5>1. cache'[j] = cache[j]
          BY <3>4, <3>10, <4>2
        <5> QED BY <3>2, <3>12, <5>1 DEF Fetched, Holds
      <4> QED BY <4>1, <4>2
    <3> QED BY <1>1, <2>2, <3>5, <3>7, <3>8, <3>9, <3>11, <3>12
  <2> QED BY <1>5, <1>6, <1>7, <2>4, <2>5 DEF PlaceInv
<1>8. CASE trouble' # 0
  BY <1>5, <1>6, <1>8 DEF PlaceInv, Placed, Calm
<1> QED BY <1>7, <1>8

(* When a node is gone the first two of those left are its heirs, if it    *)
(* was an owner and does not know itself, or were the owners before; the   *)
(* first of them was one anyway.                                           *)
LEMMA AwayStopPlaced ==
  ASSUME MigInv, MigInv', PlaceInv, AwayStop, raced' = Racing
  PROVE  PlaceInv'
<1>0. PICK f : f = away.from
  OBVIOUS
<1>1. /\ UNCHANGED <<listsSelf, clients, unhealthy, news, mover, came, plan, stale, cache,
                     lossy, trouble>>
      /\ UNCHANGED taskVars
      /\ away.step = "read" /\ away # NoMove /\ away.dests = {}
      /\ up' = up \ {f} /\ away' = NoMove
  BY <1>0 DEF AwayStop, view, taskVars, dataVars, poolVars, histVars, NoMove
<1>2. AllSet'
  BY <1>1, KeepsSet DEF PlaceInv, taskVars, Filling, NoMove
<1>3. CASE trouble = 0
  <2>1. /\ OneByOne /\ AllIdle /\ (\A i : ~Filling(i)) /\ ~Joining
        /\ (\A q \in up : mover[q] = NoMove) /\ Gone = {} /\ Served = up
        /\ (\A m \in news : m[1] \notin up)
        /\ f \in up /\ f \in Nodes /\ f \notin came.nodes /\ up # {f} /\ plan.leave = {}
    BY <1>0, <1>1, <1>3, LeavesAlone
  <2>2. LastOp' = LastOp /\ Issued' = Issued /\ IdleGoesOn'
    BY <1>1, <2>1, StaysIdle
  <2>3. ~Joining' /\ Alone'
    BY <1>1, <2>1, <2>2 DEF Joining, OneMove, IdleGoesOn
  <2>4. Served' = up'
    BY <2>3 DEF Served
  <2>5. AllMet
    BY <2>1, MetWhenSteady
  <2>6. \A q \in up : clients[q] \subseteq up
    BY <2>1, InGone
  <2>7. \A x \in Gone' : x = f
    <3>1. ASSUME NEW x \in Gone' PROVE x = f
      <4>1. x \notin up' /\ \E q \in up' : x \in clients[q]
        BY <1>1 DEF Gone
      <4> QED BY <1>1, <2>6, <4>1
    <3> QED BY <3>1
  <2>8. Roles'
    BY <1>1, <2>1 DEF Roles, OneByOne, Known
  <2>9. Remembered'
    <3>1. \A n \in up' : f \in clients[n]
      BY <1>1, <2>1, <2>5 DEF AllMet
    <3> QED BY <1>1, <2>1, <2>7, <3>1 DEF Remembered
  <2>10. \A q \in up' : KnowsSelf(q)' /\ ToldLater(q)' /\ Unproven(q)'
    BY <1>1, <2>1 DEF OneByOne, Known, KnowsSelf, ToldLater, Unproven
  <2>11. Since'
    BY <1>1, <2>1, <2>2, <2>3 DEF Since, OneByOne, IdleGoesOn
  <2>12. Placed'
    <3> SUFFICES ASSUME Calm', Issued' # {}, opKind'[LastOp'] = "set"
                 PROVE  /\ Spreads' /\ Inherits' /\ SendsOwn' /\ OwnersHold'
                        /\ LastOp' = came'.after => Handed' /\ Fetched'
      BY DEF Placed
    <3>1. Calm /\ Issued # {} /\ opKind[LastOp] = "set"
      BY <1>1, <2>2 DEF Calm, NothingLost, taskVars
    <3>2. Inherits /\ OwnersHold /\ (LastOp = came.after => Handed /\ Fetched)
      BY <2>1, <3>1 DEF PlaceInv, Placed
    <3>3. Spreads'
      BY <2>2 DEF IdleGoesOn, SpreadsIfAny
    <3>4. Inherits' /\ SendsOwn'
      BY <1>1, <2>1 DEF Inherits, SendsOwn, NoMove
    <3>5. OwnersHold'
      <4> SUFFICES ASSUME NEW q \in up', AmongTwo(q, up'),
                          listsSelf /\ Gone' # {} => IsFirst(q, up')
                   PROVE  Holds(q)
        BY <1>1, <2>2, <2>4 DEF OwnersHold, Holds
      <4>1. up \in SUBSET Nodes /\ f \in up /\ up' = up \ {f} /\ q \in up
        BY <1>1, <2>1 DEF MigInv, MoveInv, MoveTyped
      <4>2. AmongTwo(q, up) => Holds(q)
        BY <2>1, <3>2, <4>1 DEF OwnersHold
      <4>3. CASE listsSelf
        <5>1. f \notin up' /\ f \in clients'[q]
          BY <1>1, <2>5, <4>1 DEF AllMet
        <5>2. f \in Gone'
          BY <5>1 DEF Gone
        <5>3. IsFirst(q, up \ {f}) /\ AmongTwo(q, up \ {f})
          BY <4>1, <4>3, <5>2
        <5> QED BY <4>1, <4>2, <5>3, OwnersWhenOneLeft
      <4>4. CASE ~listsSelf /\ ~AmongTwo(f, up)
        <5>1. AmongTwo(q, up \ {f})
          BY <4>1
        <5> QED BY <4>1, <4>2, <4>4, <5>1, OwnersWhenOneLeft
      <4>5. CASE ~listsSelf /\ AmongTwo(f, up)
        <5>1. clients[f] = up \ {f}
          BY <2>1, <2>5, <2>6, <4>5 DEF AllMet
        <5>2. q \in clients[f] /\ AmongTwo(q, clients[f])
          BY <4>1, <5>1
        <5> QED BY <1>0, <1>1, <3>2, <4>5, <5>2 DEF Inherits
      <4> QED BY <4>3, <4>4, <4>5
    <3>6. ASSUME LastOp = came.after PROVE Handed'
      BY <1>1, <2>1, <2>2, <2>3, <3>2, <3>6 DEF Handed, Holds
    <3>7. ASSUME LastOp = came.after PROVE Fetched'
      BY <1>1, <2>1, <2>2, <2>3, <3>2, <3>7 DEF Fetched, Holds, IdleGoesOn
    <3> QED BY <1>1, <2>2, <3>3, <3>4, <3>5, <3>6, <3>7
  <2> QED BY <1>1, <1>2, <1>3, <2>2, <2>3, <2>8, <2>9, <2>10, <2>11, <2>12
          DEF PlaceInv, OneByOne, Known, IdleGoesOn
<1>4. CASE trouble # 0
  BY <1>1, <1>2, <1>4 DEF PlaceInv, Placed, Calm
<1> QED BY <1>3, <1>4

-----------------------------------------------------------------------------
(* From all that: the invariant holds, and with it the two properties.     *)
LEMMA InitPlaceInv == Init => PlaceInv
<1> SUFFICES ASSUME Init PROVE PlaceInv
  OBVIOUS
<1>1. PICK s \in Scenarios :
        /\ up = s.up /\ ViewInit(s.up)
        /\ plan = [join |-> s.join, leave |-> s.leave]
  BY DEF Init
<1>2. s.up \subseteq Nodes /\ s.join \subseteq Nodes \ s.up /\ \A n \in s.leave : s.up # {n}
  BY ScenarioAssumption
<1>3. /\ cache = [n \in Nodes |-> Nothing] /\ opKind = [i \in Ops |-> "none"]
      /\ admitted = [n \in Nodes |-> {}] /\ syncTasks = [n \in Nodes |-> <<>>]
      /\ wpc = [n \in Nodes |-> [w \in Workers |-> "select"]]
      /\ task = [n \in Nodes |-> [w \in Workers |-> NoTask]]
      /\ fills = <<>> /\ lossy = FALSE /\ trouble = 0
  BY DEF Init, DataInit, Pool!Init
<1>4. /\ news = {} /\ away = NoMove /\ mover = [n \in Nodes |-> NoMove]
      /\ came = [nodes |-> {}, after |-> 0] /\ raced = {}
  BY DEF Init
<1>5. /\ clients = [n \in Nodes |-> IF n \in up THEN Discovered(n, up) ELSE {}]
      /\ unhealthy = [n \in Nodes |-> {}] /\ listsSelf \in BOOLEAN
  BY <1>1 DEF ViewInit
<1>6. Issued = {}
  BY <1>3 DEF Issued
<1>7. \A q \in up : /\ q \in Nodes /\ clients[q] \subseteq up
                    /\ listsSelf <=> q \in clients[q]
  BY <1>1, <1>2, <1>5 DEF Discovered
<1>8. (\A i : ~Filling(i)) /\ Steady /\ ~Joining /\ AllIdle
  BY <1>1, <1>2, <1>3, <1>4 DEF Filling, Steady, Joining, AllIdle, Idle
<1>9. AllSet
  BY <1>3, <1>4, <1>8, NothingIsNoOp DEF AllSet, WasSet, NoMove
<1>10. OnlyLast
  BY <1>3, <1>8 DEF OnlyLast, AllIdle, Members
<1>11. Alone
  BY <1>3, <1>4, <1>8, <1>10 DEF Alone, OneFill, OneMove
<1>12. Gone = {}
  <2>1. ASSUME NEW x PROVE x \notin Gone
    BY <1>7, InGone
  <2> QED BY <2>1
<1>13. Roles
  <2>1. DOMAIN unhealthy = Nodes
    BY <1>5
  <2>2. \A q \in plan.join : unhealthy[q] = {}
    BY <1>1, <1>2, <1>5
  <2>3. \A q \in up : clients[q] \cap plan.join = {}
    BY <1>1, <1>2, <1>7
  <2>4. \A n \in plan.leave : up # {n}
    BY <1>1, <1>2
  <2> QED BY <1>4, <2>1, <2>2, <2>3, <2>4 DEF Roles
<1>14. Remembered
  BY <1>12 DEF Remembered
<1>15. \A n \in up : KnowsSelf(n) /\ ToldLater(n) /\ Unproven(n)
  BY <1>4, <1>5, <1>7 DEF KnowsSelf, ToldLater, Unproven
<1>16. Since
  <2>1. LastOp = 0
    <3>1. Cardinality({}) = 0
      BY FS_EmptySet
    <3> QED BY <1>6, <3>1 DEF LastOp
  <2> QED BY <1>4, <1>6, <1>8, <2>1 DEF Since
<1>17. Cleared /\ Placed
  BY <1>4, <1>6 DEF Cleared, Placed
<1> QED BY <1>3, <1>9, <1>11, <1>13, <1>14, <1>15, <1>16, <1>17
        DEF PlaceInv, OneByOne, Known

(* A step that changes nothing.                                            *)
LEMMA StutterPlaced ==
  ASSUME PlaceInv, UNCHANGED allVars
  PROVE  PlaceInv'
<1>1. /\ UNCHANGED <<admitted, syncTasks, wpc, task, dropped, cache, opKind, todo, fills, lossy,
                     doomed, trouble, listsSelf, clients, up, mover, away, came, stale, raced>>
      /\ UNCHANGED <<view, moveVars>>
  BY DEF allVars, dataVars, poolVars, histVars, view, moveVars
<1>2. /\ Known' <=> Known
      /\ Joining' <=> Joining
      /\ Steady' <=> Steady
      /\ Served' = Served /\ Gone' = Gone
      /\ \A q : PickedSet(q)' = PickedSet(q)
  BY <1>1, SameViews
<1>3. LastOp' = LastOp /\ Issued' = Issued
  BY <1>1, SameOps
<1>4. (\A i : Filling(i)' <=> Filling(i)) /\ \A q : (Idle(q)' <=> Idle(q)) /\ (Holds(q)' <=> Holds(q))
  BY <1>1, <1>3 DEF Filling, Nothing, Idle, Holds
<1>5. (AllIdle' <=> AllIdle) /\ (OnlyLast' <=> OnlyLast)
  BY <1>1, <1>3, <1>4 DEF AllIdle, OnlyLast
<1>6. Alone' <=> Alone
  <2>1. OneFill' <=> OneFill
    BY <1>1, <1>2, <1>4, <1>5 DEF OneFill, Nothing
  <2>2. OneMove' <=> OneMove
    BY <1>1 DEF OneMove, moveVars
  <2> QED BY <1>1, <1>2, <1>5, <2>1, <2>2 DEF Alone
<1>7. (Since' <=> Since) /\ (Cleared' <=> Cleared)
  BY <1>1, <1>2, <1>3, <1>5 DEF Since, Cleared
<1>8. AllSet'
  BY <1>1, <1>4, KeepsSet DEF PlaceInv
<1>9. Placed'
  <2>1. Calm' <=> Calm
    BY <1>1 DEF Calm, NothingLost
  <2>2. Spreads' <=> Spreads
    BY <1>1, <1>2, <1>3, <1>4 DEF Spreads
  <2>3. (Inherits' <=> Inherits) /\ (SendsOwn' <=> SendsOwn)
    BY <1>1, <1>4 DEF Inherits, SendsOwn
  <2>4. OwnersHold' <=> OwnersHold
    BY <1>1, <1>2, <1>4 DEF OwnersHold
  <2>5. Handed' <=> Handed
    BY <1>1, <1>2, <1>4 DEF Handed
  <2>6. Fetched' <=> Fetched
    BY <1>1, <1>2, <1>3, <1>4 DEF Fetched
  <2> QED BY <1>1, <1>3, <1>5, <2>1, <2>2, <2>3, <2>4, <2>5, <2>6 DEF PlaceInv, Placed
<1> QED BY <1>1, <1>2, <1>6, <1>7, <1>8, <1>9 DEF PlaceInv, OneByOne

(* The steps of calls, together.                                           *)
LEMMA CallsPlaced ==
  ASSUME MigInv, MigInv', PlaceInv, CarryOn, UNCHANGED <<up, view, moveVars, histVars>>,
         raced' = Racing
  PROVE  PlaceInv'
<1>1. ASSUME NEW n \in Nodes, NEW i \in Ops, Offer(n, i) PROVE PlaceInv'
  BY <1>1, OfferPlaced
<1>2. ASSUME NEW n \in Nodes, NEW w \in Workers, WorkerStep(n, w) PROVE PlaceInv'
  BY <1>2, BeginPlaced, CallServedPlaced, CallFailsPlaced, CallGivesUpPlaced, EndPlaced
     DEF WorkerStep
<1>3. ASSUME NEW i \in DOMAIN fills, Fill(i) PROVE PlaceInv'
  BY <1>3, FillPlaced
<1>4. ServeStray => PlaceInv'
  BY ServeStrayPlaced
<1> QED BY <1>1, <1>2, <1>3, <1>4 DEF CarryOn

(* Every step keeps the invariant.                                         *)
LEMMA NextKeepsPlaceInv == MigInv /\ MigInv' /\ PlaceInv /\ [Next]_allVars => PlaceInv'
<1> SUFFICES ASSUME MigInv, MigInv', PlaceInv, [Next]_allVars PROVE PlaceInv'
  OBVIOUS
<1>1. CASE Next
  <2>1. raced' = Racing
    BY <1>1 DEF Next, NoteRaces, Racing
  <2> USE <2>1
  <2>2. ASSUME NEW n \in Nodes, Issue,
               Fetch(n) \/ \E kind \in {"set", "delete"} : Write(n, kind),
               UNCHANGED <<up, view, moveVars, histVars>>
        PROVE  PlaceInv'
    BY <2>2, FetchPlaced, WritePlaced
  <2>3. ASSUME NEW n \in Nodes, Join(n) \/ Leave(n)
        PROVE  PlaceInv'
    BY <2>3, JoinPlaced, LeavePlaced
  <2>4. Begins => PlaceInv'
    BY <2>2, <2>3 DEF Begins
  <2>5. ASSUME CarryOn, UNCHANGED <<up, view, moveVars, histVars>>
        PROVE  PlaceInv'
    BY <2>5, CallsPlaced
  <2>6. ASSUME NEW n \in Nodes, MoverStep(n) \/ \E j \in Nodes : Discover(n, j)
        PROVE  PlaceInv'
    BY <2>6, ReadPlaced, SendPlaced, MarkPlaced, DiscoverPlaced DEF MoverStep
  <2>7. AwayStep => PlaceInv'
    BY AwayReadPlaced, AwaySendPlaced, AwayStopPlaced DEF AwayStep
  <2>8. GoesOn => PlaceInv'
    BY <2>5, <2>6, <2>7 DEF GoesOn
  <2> QED BY <1>1, <2>4, <2>8 DEF Next
<1>2. CASE UNCHANGED allVars
  BY <1>2, StutterPlaced
<1> QED BY <1>1, <1>2

(* The invariant holds in every state the cluster can reach, whatever the  *)
(* nodes, the ring, the workers and the number of calls.                   *)
THEOREM PlaceInvariance == Spec => []PlaceInv
<1>1. Init => PlaceInv
  BY InitPlaceInv
<1>2. MigInv /\ MigInv' /\ PlaceInv /\ [Next]_allVars => PlaceInv'
  BY NextKeepsPlaceInv
<1> QED
  BY <1>1, <1>2, MigInvariance, PTL DEF Spec

(* A Set ends up on the two nodes a reader expects it on, and stays on     *)
(* those there are when nodes have joined or left by GracefulShutdown      *)
(* (server.go:175), in every run without trouble, overlap or an old copy   *)
(* sent; but for the second owner where nodes take themselves for peers    *)
(* and one has left.                                                       *)
THEOREM OwnersKeepLastSet == Spec => []OwnersHoldLastSet
<1>1. MigInv /\ PlaceInv => OwnersHoldLastSet
  <2> SUFFICES ASSUME MigInv, PlaceInv, Settled, trouble = 0, NothingLost, ~stale,
                      Issued # {}, opKind[LastOp] = "set", NEW i \in DOMAIN Owners
               PROVE  \/ cache[Owners[i]] = LastOp
                      \/ i = 2 /\ listsSelf /\ \E n \in up : clients[n] \ up # {}
    BY DEF OwnersHoldLastSet
  <2>1. OneByOne /\ AllIdle /\ ~Joining
    BY QuietIsIdle, SteadyIsNotJoining DEF PlaceInv, Settled
  <2>2. OwnersHold /\ Served = up
    BY <2>1 DEF PlaceInv, Placed, Calm, Served
  <2>3. TwoOf(up)
    BY FirstTwoAre DEF MigInv, MoveInv, MoveTyped
  <2>4. AmongTwo(Owners[i], up) /\ i \in {1, 2} /\ (i = 1 => IsFirst(Owners[i], up))
    <3>1. Owners[i] \in Members(FirstTwo(up))
      BY DEF Owners, Members
    <3> QED BY <2>3, <3>1 DEF TwoOf, Owners
  <2>5. Gone # {} => \E n \in up : clients[n] \ up # {}
    BY InGone
  <2>6. Holds(Owners[i]) \/ (listsSelf /\ Gone # {} /\ ~IsFirst(Owners[i], up))
    BY <2>2, <2>4 DEF OwnersHold, AmongTwo
  <2> QED BY <2>4, <2>5, <2>6 DEF Holds
<1> QED
  BY <1>1, MigInvariance, PlaceInvariance, PTL

(* A node is not routed to before it has the key (peers.go:154, 400, 435): *)
(* in every run without trouble, overlap or an old copy sent, a node that  *)
(* picks the joined node, and holds a value that was set, finds the last   *)
(* Set there.                                                              *)
THEOREM JoinedNodeHasKey == Spec => []OnlineNodeHasKey
<1>1. MigInv /\ PlaceInv => OnlineNodeHasKey
  <2> SUFFICES ASSUME MigInv, PlaceInv, Quiet, trouble = 0, NothingLost, ~stale,
                      LastOp = came.after,
                      NEW n \in up, NEW j \in PickedSet(n) \cap came.nodes, cache[n] \in Ops
               PROVE  cache[j] = LastOp
    BY DEF OnlineNodeHasKey
  <2>1. OneByOne /\ AllIdle
    BY QuietIsIdle DEF PlaceInv
  <2>2. n \in Nodes /\ clients[n] \in SUBSET Nodes
    BY DEF MigInv, MoveInv, MoveTyped
  <2>3. cache[n] \in Issued /\ opKind[cache[n]] = "set"
    BY <2>2 DEF PlaceInv, AllSet, WasSet, Issued
  <2>4. Issued # {} /\ LastOp \in Ops /\ opKind[LastOp] \in {"set", "delete"}
    BY <2>3, LastIs DEF MigInv, DataInv, DataTyped, Issued
  <2>5. CASE opKind[LastOp] = "set"
    <3>1. Handed /\ Fetched
      BY <2>4, <2>5 DEF PlaceInv, Placed, Calm
    <3>2. j \notin unhealthy[n]
      <4>1. clients[n] \ unhealthy[n] \in SUBSET Nodes
        BY <2>2
      <4>2. AmongTwo(j, clients[n] \ unhealthy[n])
        BY <4>1, FirstTwoAre DEF TwoOf, PickedSet, Picked
      <4> QED BY <4>2 DEF AmongTwo
    <3>3. mover[n] = NoMove
      <4>1. Unproven(n) /\ \A a, b \in came.nodes : a = b
        BY <2>1 DEF OneByOne, Known, Roles
      <4> QED BY <3>2, <4>1 DEF Unproven
    <3>4. AmongTwo(j, clients[n])
      BY <2>1, <3>3, PickedAre
    <3> QED BY <3>1, <3>3, <3>4 DEF Handed, Fetched, Holds, NoMove
  <2>6. CASE opKind[LastOp] = "delete"
    <3>1. UnderWay("delete") = {}
      BY QuietDeletesNothing
    <3>2. cache[n] \in Dirty
      <4>1. raced = {} /\ doomed = Issued \ {LastOp}
        BY <2>1, <2>4, <2>6 DEF OneByOne, Cleared
      <4> QED BY <2>3, <2>6, <3>1, <4>1 DEF Dirty, Racing
    <3>3. DeleteComes(n)
      BY <3>2 DEF MigInv, DirtyInv
    <3> QED BY <3>1, <3>3, ComingIsUnderWay
  <2> QED BY <2>4, <2>5, <2>6
<1> QED
  BY <1>1, MigInvariance, PlaceInvariance, PTL

-----------------------------------------------------------------------------
(* What MoveTypeOK says beyond MigInv: the parts of the pool, the peers    *)
(* still to be called, and the rest of a move.                             *)
PoolRest ==
  /\ closed \in [Nodes -> BOOLEAN] /\ done \in [Nodes -> BOOLEAN]
  /\ finished \in [Nodes -> SUBSET Ops] /\ late \in [Nodes -> SUBSET Ops]
  /\ \A n \in Nodes, w \in Workers : wpc[n][w] = "busy" => task[n][w] \in Ops

TodoNodes == \A n \in Nodes, w \in Workers : todo[n][w] \subseteq Nodes

AwayNodes ==
  away # NoMove =>
    /\ away.from \in Nodes /\ away.dests \subseteq Nodes
    /\ away.step = "send" => away.to \in Nodes

Counted == trouble \in 0..MaxTrouble /\ stale \in BOOLEAN /\ raced \subseteq Ops

TypesRest == PoolRest /\ TodoNodes /\ AwayNodes /\ Counted

(* The two nodes a key is sent to are nodes.                               *)
LEMMA FirstTwoAreNodes ==
  ASSUME NEW S \in SUBSET Nodes
  PROVE  Members(FirstTwo(S)) \subseteq Nodes
<1>1. \A q \in Members(FirstTwo(S)) : AmongTwo(q, S)
  BY FirstTwoAre DEF TwoOf
<1> QED BY <1>1 DEF AmongTwo

LEMMA CountOneMore ==
  ASSUME trouble \in 0..MaxTrouble, trouble < MaxTrouble
  PROVE  trouble + 1 \in 0..MaxTrouble
  BY BoundsAssumption

(* Requests and workers.                                                   *)
LEMMA PoolKeepsTypes ==
  ASSUME MigInv, PoolRest, NEW n \in Nodes,
         \/ \E i \in Ops : Pool!Admit(n, i) \/ Pool!Submit(n, i)
         \/ \E w \in Workers : Pool!Take(n, w) \/ Pool!Finish(n, w)
  PROVE  PoolRest'
<1>1. /\ wpc \in [Nodes -> [Workers -> {"select", "busy"}]]
      /\ task \in [Nodes -> [Workers -> Ops \cup {NoTask}]]
      /\ syncTasks \in [Nodes -> Seq(Ops)]
  BY DEF MigInv, DataInv, DataTyped
<1>2. ASSUME NEW i \in Ops, Pool!Admit(n, i) \/ Pool!Submit(n, i)
      PROVE  PoolRest'
  BY <1>2 DEF Pool!Admit, Pool!Submit, Pool!Send, Pool!Drop, PoolRest
<1>3. ASSUME NEW w \in Workers, Pool!Take(n, w)
      PROVE  PoolRest'
  <2>1. Head(syncTasks[n]) \in Ops
    BY <1>1, <1>3 DEF Pool!Take, Pool!Receive
  <2> QED BY <1>1, <1>3, <2>1 DEF Pool!Take, Pool!Receive, PoolRest
<1>4. ASSUME NEW w \in Workers, Pool!Finish(n, w)
      PROVE  PoolRest'
  <2>1. task[n][w] \in Ops
    BY <1>1, <1>4 DEF Pool!Finish, Pool!Busy, PoolRest
  <2> QED BY <1>1, <1>4, <2>1 DEF Pool!Finish, Pool!Busy, PoolRest
<1> QED BY <1>2, <1>3, <1>4

LEMMA CarryOnKeepsTypes ==
  ASSUME MigInv, PoolRest, TodoNodes, trouble \in 0..MaxTrouble, CarryOn
  PROVE  PoolRest' /\ TodoNodes' /\ trouble' \in 0..MaxTrouble
<1>0. /\ clients \in [Nodes -> SUBSET Nodes]
      /\ DOMAIN todo = Nodes /\ \A n \in Nodes : DOMAIN todo[n] = Workers
  BY DEF MigInv, DataInv, DataTyped, MoveInv, MoveTyped
<1>1. ASSUME NEW n \in Nodes, NEW i \in Ops, Offer(n, i)
      PROVE  PoolRest' /\ TodoNodes' /\ trouble' \in 0..MaxTrouble
  BY <1>1, PoolKeepsTypes DEF Offer, TodoNodes
<1>2. ASSUME NEW n \in Nodes, NEW w \in Workers, WorkerStep(n, w)
      PROVE  PoolRest' /\ TodoNodes' /\ trouble' \in 0..MaxTrouble
  <2>1. CASE Begin(n, w)
    <3>1. \A i : Targets(n, i) \subseteq Nodes
      <4>1. clients[n] \ unhealthy[n] \in SUBSET Nodes
        BY <1>0
      <4>2. PickedSet(n) \subseteq Nodes
        BY <4>1, FirstTwoAreNodes DEF PickedSet, Picked
      <4> QED BY <1>0, <4>2 DEF Targets, AllPeers
    <3>2. todo' = [todo EXCEPT ![n][w] = Targets(n, Head(syncTasks[n]))]
      BY <2>1 DEF Begin
    <3>3. TodoNodes'
      BY <1>0, <3>1, <3>2 DEF TodoNodes
    <3> QED BY <2>1, <3>3, PoolKeepsTypes DEF Begin
  <2>2. CASE CallServed(n, w) \/ CallFails(n, w) \/ CallGivesUp(n, w)
    <3>1. UNCHANGED poolVars /\ trouble' \in 0..MaxTrouble
      BY <2>2, CountOneMore DEF CallServed, CallFails, CallGivesUp
    <3>2. \E p : todo' = [todo EXCEPT ![n][w] = @ \ {p}]
      BY <2>2 DEF CallServed, CallFails, CallGivesUp
    <3>3. TodoNodes'
      BY <1>0, <3>2 DEF TodoNodes
    <3> QED BY <3>1, <3>3 DEF poolVars, PoolRest
  <2>3. CASE End(n, w)
    BY <2>3, PoolKeepsTypes DEF End, TodoNodes
  <2> QED BY <1>2, <2>1, <2>2, <2>3 DEF WorkerStep
<1>3. ASSUME (\E i \in DOMAIN fills : Fill(i)) \/ ServeStray
      PROVE  PoolRest' /\ TodoNodes' /\ trouble' \in 0..MaxTrouble
  BY <1>3 DEF Fill, ServeStray, poolVars, PoolRest, TodoNodes
<1> QED BY <1>1, <1>2, <1>3 DEF CarryOn

(* A client calls, or a node begins to come or go.                         *)
LEMMA BeginsKeepsTypes ==
  ASSUME MigInv, TypesRest, Begins
  PROVE  PoolRest' /\ TodoNodes' /\ AwayNodes' /\ trouble' \in 0..MaxTrouble /\ stale' \in BOOLEAN
<1>1. Issue => trouble' \in 0..MaxTrouble
  BY CountOneMore DEF Issue, TypesRest, Counted
<1>2. ASSUME NEW n \in Nodes, Issue, Fetch(n) \/ \E kind \in {"set", "delete"} : Write(n, kind),
             UNCHANGED <<up, view, moveVars, histVars>>
      PROVE  PoolRest' /\ TodoNodes' /\ AwayNodes' /\ stale' \in BOOLEAN
  <2>1. AwayNodes' /\ stale' \in BOOLEAN
    BY <1>2 DEF TypesRest, AwayNodes, Counted, moveVars, histVars
  <2>2. CASE Fetch(n)
    BY <2>1, <2>2 DEF Fetch, TypesRest, PoolRest, TodoNodes, poolVars
  <2>3. ASSUME NEW kind \in {"set", "delete"}, Write(n, kind)
        PROVE  PoolRest' /\ TodoNodes'
    <3>1. Cardinality(Issued) + 1 \in Ops
      BY <2>3, NextIssued DEF Write, MigInv, DataInv
    <3>2. PoolRest'
      BY <2>3, <3>1, PoolKeepsTypes DEF Write, TypesRest
    <3> QED BY <2>3, <3>2 DEF Write, TypesRest, TodoNodes
  <2> QED BY <1>2, <2>1, <2>2, <2>3
<1>3. ASSUME NEW n \in Nodes, Join(n)
      PROVE  PoolRest' /\ TodoNodes' /\ AwayNodes' /\ stale' \in BOOLEAN
  BY <1>3 DEF Join, TypesRest, PoolRest, TodoNodes, AwayNodes, Counted, dataVars, poolVars
<1>4. ASSUME NEW n \in Nodes, Leave(n)
      PROVE  PoolRest' /\ TodoNodes' /\ AwayNodes' /\ stale' \in BOOLEAN
  <2>1. Heirs(n) \subseteq Nodes
    BY FirstTwoAreNodes DEF Heirs, MigInv, MoveInv, MoveTyped
  <2>2. \E S \in SUBSET Nodes : away' = [step |-> "read", from |-> n, dests |-> S]
    BY <1>4, <2>1 DEF Leave
  <2>3. AwayNodes'
    BY <2>2 DEF AwayNodes
  <2> QED BY <1>4, <2>3 DEF Leave, TypesRest, PoolRest, TodoNodes, Counted, dataVars, poolVars, histVars
<1> QED
  BY <1>1, <1>2, <1>3, <1>4 DEF Begins, Join, Leave

(* The moves of a join and a leave.                                        *)
LEMMA MovesKeepTypes ==
  ASSUME MigInv, TypesRest,
         \/ \E n \in Nodes : MoverStep(n) \/ \E j \in Nodes : Discover(n, j)
         \/ AwayStep
  PROVE  PoolRest' /\ TodoNodes' /\ AwayNodes' /\ trouble' \in 0..MaxTrouble /\ stale' \in BOOLEAN
<1>1. UNCHANGED poolVars /\ UNCHANGED todo
  BY DEF MoverStep, Read, Send, Mark, Discover, AwayStep, AwayRead, AwaySend, AwayStop, dataVars
<1>2. PoolRest' /\ TodoNodes'
  BY <1>1 DEF TypesRest, PoolRest, TodoNodes, poolVars
<1>3. ASSUME NEW n, NEW v, Deliver(n, v)
      PROVE  trouble' \in 0..MaxTrouble /\ stale' \in BOOLEAN
  BY <1>3, CountOneMore DEF Deliver, TypesRest, Counted
<1>4. ASSUME NEW n \in Nodes, MoverStep(n) \/ \E j \in Nodes : Discover(n, j)
      PROVE  AwayNodes' /\ trouble' \in 0..MaxTrouble /\ stale' \in BOOLEAN
  <2>1. AwayNodes'
    BY <1>4 DEF MoverStep, Read, Send, Mark, Discover, TypesRest, AwayNodes
  <2>2. CASE Send(n)
    BY <1>3, <2>1, <2>2 DEF Send
  <2>3. CASE Read(n) \/ Mark(n) \/ \E j \in Nodes : Discover(n, j)
    BY <2>1, <2>3 DEF Read, Mark, Discover, TypesRest, Counted, histVars
  <2> QED BY <1>4, <2>2, <2>3 DEF MoverStep
<1>5. CASE AwayRead
  <2>1. away # NoMove
    BY <1>5 DEF AwayRead, NoMove
  <2>2. PICK d \in away.dests : away' \in {[away EXCEPT !.dests = @ \ {d}],
           [step |-> "send", from |-> away.from, dests |-> away.dests \ {d}, to |-> d,
            val |-> cache[away.from]]}
    BY <1>5 DEF AwayRead
  <2>3. PICK from, dests : away = [step |-> "read", from |-> from, dests |-> dests]
    BY <1>5, <2>1 DEF AwayRead, MigInv, MoveInv, MoveTyped, AwayTyped
  <2>4. from \in Nodes /\ dests \subseteq Nodes
    BY <2>1, <2>3 DEF TypesRest, AwayNodes
  <2>5. AwayNodes'
    BY <2>2, <2>3, <2>4 DEF AwayNodes
  <2> QED BY <1>2, <1>5, <2>5 DEF AwayRead, TypesRest, Counted, histVars
<1>6. CASE AwaySend
  <2>1. away # NoMove
    BY <1>6 DEF AwaySend, NoMove
  <2>2. AwayNodes'
    BY <1>6, <2>1 DEF AwaySend, TypesRest, AwayNodes
  <2> QED BY <1>2, <1>3, <1>6, <2>2 DEF AwaySend
<1>7. CASE AwayStop
  BY <1>2, <1>7 DEF AwayStop, TypesRest, AwayNodes, Counted, histVars
<1> QED
  BY <1>2, <1>4, <1>5, <1>6, <1>7 DEF AwayStep

LEMMA NextKeepsTypes == MigInv /\ TypesRest /\ [Next]_allVars => TypesRest'
<1> SUFFICES ASSUME MigInv, TypesRest, [Next]_allVars PROVE TypesRest'
  OBVIOUS
<1>1. CASE Next
  <2>1. raced' \subseteq Ops
    <3>1. OnTheirWay \subseteq Ops
      BY DEF OnTheirWay, UnderWay, Issued
    <3> QED BY <1>1, <3>1 DEF Next, NoteRaces, TypesRest, Counted
  <2>2. ASSUME CarryOn, UNCHANGED <<up, view, moveVars, histVars>>
        PROVE  PoolRest' /\ TodoNodes' /\ AwayNodes' /\ trouble' \in 0..MaxTrouble
                 /\ stale' \in BOOLEAN
    <3>1. AwayNodes' /\ stale' \in BOOLEAN
      BY <2>2 DEF TypesRest, AwayNodes, Counted, moveVars, histVars
    <3> QED BY <2>2, <3>1, CarryOnKeepsTypes DEF TypesRest, Counted
  <2>3. GoesOn => PoolRest' /\ TodoNodes' /\ AwayNodes' /\ trouble' \in 0..MaxTrouble
                    /\ stale' \in BOOLEAN
    BY <2>2, MovesKeepTypes DEF GoesOn
  <2> QED BY <1>1, <2>1, <2>3, BeginsKeepsTypes DEF Next, TypesRest, Counted
<1>2. CASE UNCHANGED allVars
  BY <1>2 DEF allVars, dataVars, poolVars, moveVars, histVars, TypesRest, PoolRest,
     TodoNodes, AwayNodes, Counted
<1> QED BY <1>1, <1>2

LEMMA InitTypes == Init => TypesRest
<1> SUFFICES ASSUME Init PROVE TypesRest
  OBVIOUS
<1>1. PoolRest
  BY DEF Init, DataInit, Pool!Init, PoolRest
<1>2. TodoNodes
  BY DEF Init, DataInit, TodoNodes
<1>3. AwayNodes
  BY DEF Init, AwayNodes
<1>4. Counted
  <2>1. 0 \in 0..MaxTrouble
    BY BoundsAssumption
  <2> QED BY <2>1 DEF Init, DataInit, Counted
<1> QED BY <1>1, <1>2, <1>3, <1>4 DEF TypesRest

(* Every variable keeps its type, while calls overlap and fail and nodes   *)
(* come and go: only nodes are called and only tasks accepted are done.    *)
THEOREM MoveTypesKept == Spec => []MoveTypeOK
<1>1. MigInv /\ TypesRest => MoveTypeOK
  <2> SUFFICES ASSUME MigInv, TypesRest PROVE MoveTypeOK
    OBVIOUS
  <2>1. Pool!TypeOK
    BY DEF MigInv, DataInv, DataTyped, TypesRest, PoolRest, Pool!TypeOK, Pool!WorkerSteps,
       Pool!Busy
  <2>2. doomed \subseteq Ops
    BY DEF MigInv, DataInv, DataTyped, Issued
  <2>3. TypeOK
    BY <2>1, <2>2 DEF MigInv, DataInv, DataTyped, MoveInv, MoveTyped, TypesRest, TodoNodes,
       Counted, TypeOK, Copies, FillRecs
  <2>4. \/ away = NoMove
        \/ away \in [step : {"read"}, from : Nodes, dests : SUBSET Nodes]
        \/ away \in [step : {"send"}, from : Nodes, dests : SUBSET Nodes,
                     to : Nodes, val : Values]
    BY DEF MigInv, MoveInv, MoveTyped, AwayTyped, TypesRest, AwayNodes
  <2>5. stale \in BOOLEAN /\ raced \subseteq Ops
    BY DEF TypesRest, Counted
  <2>6. /\ news \subseteq Nodes \X Nodes
        /\ mover \in [Nodes -> {NoMove} \cup [step : {"read", "mark"}, to : Nodes]
                               \cup [step : {"send"}, to : Nodes, val : Values]]
    BY DEF MigInv, MoveInv, MoveTyped, MoveRecs
  <2> QED BY <2>3, <2>4, <2>5, <2>6 DEF MoveTypeOK
<1> QED
  BY <1>1, InitTypes, NextKeepsTypes, MigInvariance, PTL DEF Spec
=============================================================================
