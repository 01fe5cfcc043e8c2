--------------------------- MODULE SyncPoolProofs ---------------------------
(***************************************************************************)
(* Proofs about SyncPool, for any groups, workers, tasks and buffer size:  *)
(* PoolInv is an invariant, and with it that every task is in one place    *)
(* and that no worker leaves an early task behind.                         *)
(*                                                                         *)
(* Groups share nothing, so a step of one group leaves the others' part of *)
(* the invariant alone (OtherGroups); what remains is one lemma for each   *)
(* action, about the group that acts.                                      *)
(***************************************************************************)
EXTENDS SyncPool, TLAPS

(* The part of PoolInv that speaks of one group.                           *)
GroupInv(g) ==
  /\ Len(syncTasks[g]) <= BufferCap
  /\ \A w \in Workers : wpc[g][w] \in Busy => task[g][w] \in Tasks
  /\ OnePlace(g)
  /\ \A w \in Workers :
       wpc[g][w] \in {"drain", "drainBusy", "exited"} => done[g]
  /\ \A w \in Workers : wpc[g][w] = "exited" => Queued(g) \subseteq late[g]

(* A step that leaves group g alone.                                       *)
Same(g) ==
  /\ done'[g] = done[g]
  /\ admitted'[g] = admitted[g]
  /\ syncTasks'[g] = syncTasks[g]
  /\ wpc'[g] = wpc[g]
  /\ task'[g] = task[g]
  /\ finished'[g] = finished[g]
  /\ dropped'[g] = dropped[g]
  /\ late'[g] = late[g]

-----------------------------------------------------------------------------
(* PoolInv is a type invariant and GroupInv of every group.                *)
LEMMA InvByGroup == PoolInv <=> TypeOK /\ \A g \in Groups : GroupInv(g)
BY DEF PoolInv, ChannelBounded, BusyHasTask, TaskInOnePlace, ExitAfterDone,
       EarlyTasksDrained, GroupInv

(* What holds of a group goes on holding while others act.                 *)
LEMMA OtherGroups ==
  ASSUME NEW g \in Groups, GroupInv(g), Same(g)
  PROVE  GroupInv(g)'
<1>1. Queued(g)' = Queued(g)
  BY DEF Same, Queued
<1>2. Held(g)' = Held(g)
  BY DEF Same, Held
<1>3. OnePlace(g)'
  BY <1>1, <1>2 DEF GroupInv, Same, OnePlace
<1> QED
  BY <1>1, <1>3 DEF GroupInv, Same

(* Sending on the channel adds one task to its contents.                   *)
LEMMA AppendContents ==
  ASSUME NEW S, NEW q \in Seq(S), NEW t \in S
  PROVE  /\ Append(q, t) \in Seq(S)
         /\ Len(Append(q, t)) = Len(q) + 1
         /\ {Append(q, t)[i] : i \in 1..Len(Append(q, t))}
              = {q[i] : i \in 1..Len(q)} \cup {t}
         /\ (\A i, j \in 1..Len(q) : q[i] = q[j] => i = j)
              /\ t \notin {q[i] : i \in 1..Len(q)}
            => \A i, j \in 1..Len(Append(q, t)) :
                 Append(q, t)[i] = Append(q, t)[j] => i = j
OBVIOUS

(* Receiving from it takes the head, and only the head, away.              *)
LEMMA TailContents ==
  ASSUME NEW S, NEW q \in Seq(S), q # <<>>,
         \A i, j \in 1..Len(q) : q[i] = q[j] => i = j
  PROVE  /\ Head(q) \in S /\ Tail(q) \in Seq(S)
         /\ Len(Tail(q)) = Len(q) - 1
         /\ Head(q) \in {q[i] : i \in 1..Len(q)}
         /\ {Tail(q)[i] : i \in 1..Len(Tail(q))}
              = {q[i] : i \in 1..Len(q)} \ {Head(q)}
         /\ \A i, j \in 1..Len(Tail(q)) : Tail(q)[i] = Tail(q)[j] => i = j
<1>1. Len(q) \in Nat \ {0} /\ Head(q) = q[1] /\ Head(q) \in S
  OBVIOUS
<1>2. Tail(q) \in Seq(S) /\ Len(Tail(q)) = Len(q) - 1
  OBVIOUS
<1>3. \A i \in 1..Len(q) - 1 : Tail(q)[i] = q[i + 1]
  OBVIOUS
<1>4. {Tail(q)[i] : i \in 1..Len(Tail(q))}
        = {q[i] : i \in 1..Len(q)} \ {Head(q)}
  <2>1. \A i \in 1..Len(q) - 1 : q[i + 1] # q[1]
    BY <1>1
  <2>2. \A j \in 1..Len(q) : j = 1 \/ (j - 1 \in 1..Len(q) - 1 /\ (j - 1) + 1 = j)
    BY <1>1
  <2>3. ASSUME NEW x \in {Tail(q)[i] : i \in 1..Len(Tail(q))}
        PROVE  x \in {q[i] : i \in 1..Len(q)} \ {Head(q)}
    <3>1. PICK i \in 1..Len(q) - 1 : x = Tail(q)[i]
      BY <1>2
    <3>2. x = q[i + 1] /\ i + 1 \in 1..Len(q)
      BY <1>1, <1>3, <3>1
    <3> QED BY <1>1, <2>1, <3>2
  <2>4. ASSUME NEW x \in {q[i] : i \in 1..Len(q)}, x # Head(q)
        PROVE  x \in {Tail(q)[i] : i \in 1..Len(Tail(q))}
    <3>1. PICK j \in 1..Len(q) : x = q[j]
      OBVIOUS
    <3>2. j - 1 \in 1..Len(Tail(q)) /\ Tail(q)[j - 1] = x
      BY <1>1, <1>2, <1>3, <2>2, <2>4, <3>1
    <3> QED BY <3>2
  <2> QED BY <2>3, <2>4
<1>5. \A i, j \in 1..Len(Tail(q)) : Tail(q)[i] = Tail(q)[j] => i = j
  BY <1>1, <1>2, <1>3
<1>6. Head(q) \in {q[i] : i \in 1..Len(q)}
  BY <1>1
<1> QED BY <1>1, <1>2, <1>4, <1>5, <1>6

-----------------------------------------------------------------------------
(* One lemma for each action: it keeps the part of PoolInv of the group    *)
(* that acts, and the types.                                               *)

(* An admitted task is new: it is in none of the places it could be in.    *)
LEMMA AdmitKeeps ==
  ASSUME TypeOK, NEW g \in Groups, GroupInv(g), NEW t \in Tasks, Admit(g, t)
  PROVE  TypeOK' /\ GroupInv(g)'
<1>1. TypeOK'
  BY DEF TypeOK, Admit
<1>2. Queued(g)' = Queued(g)
  BY DEF Admit, Queued
<1>3. Held(g)' = Held(g)
  BY DEF Admit, Held
<1>4. admitted'[g] = admitted[g] \cup {t}
  BY DEF TypeOK, Admit
<1>5. OnePlace(g)'
  BY <1>2, <1>3, <1>4 DEF GroupInv, OnePlace, Admit, Known
<1> QED
  BY <1>1, <1>2, <1>5 DEF GroupInv, Admit

(* A task moves from a request to the channel; if workers have exited,     *)
(* g.done is closed and the task counts as late.                           *)
LEMMA SendKeeps ==
  ASSUME TypeOK, NEW g \in Groups, GroupInv(g), NEW t \in Tasks, Send(g, t)
  PROVE  TypeOK' /\ GroupInv(g)'
<1>1. /\ syncTasks'[g] = Append(syncTasks[g], t)
      /\ admitted'[g] = admitted[g] \ {t}
      /\ syncTasks[g] \in Seq(Tasks)
  BY DEF TypeOK, Send
<1>2. t \notin Queued(g)
  BY DEF GroupInv, OnePlace, Send
<1>3. Queued(g)' = Queued(g) \cup {t}
  BY <1>1, AppendContents DEF Queued
<1>4. Held(g)' = Held(g)
  BY DEF Send, Held
<1>5. TypeOK'
  <2>1. Append(syncTasks[g], t) \in Seq(Tasks)
    BY <1>1
  <2> QED
    BY <2>1 DEF TypeOK, Send
<1>6. \A i, j \in 1..Len(syncTasks'[g]) :
        syncTasks'[g][i] = syncTasks'[g][j] => i = j
  BY <1>1, <1>2, AppendContents DEF GroupInv, OnePlace, Queued
<1>7. OnePlace(g)'
  BY <1>1, <1>3, <1>4, <1>6 DEF GroupInv, OnePlace, Send
<1>8. \A w \in Workers : wpc[g][w] = "exited" => Queued(g)' \subseteq late'[g]
  BY <1>3 DEF GroupInv, Send, TypeOK
<1>9. Len(syncTasks'[g]) <= BufferCap
  BY <1>1, BufferAssumption DEF Send
<1> QED
  BY <1>5, <1>7, <1>8, <1>9 DEF GroupInv, Send

(* A task moves from a request to the dropped ones.                        *)
LEMMA DropKeeps ==
  ASSUME TypeOK, NEW g \in Groups, GroupInv(g), NEW t \in Tasks, Drop(g, t)
  PROVE  TypeOK' /\ GroupInv(g)'
<1>1. TypeOK'
  BY DEF TypeOK, Drop
<1>2. Queued(g)' = Queued(g)
  BY DEF Drop, Queued
<1>3. Held(g)' = Held(g)
  BY DEF Drop, Held
<1>4. admitted'[g] = admitted[g] \ {t} /\ dropped'[g] = dropped[g] \cup {t}
  BY DEF TypeOK, Drop
<1>5. OnePlace(g)'
  BY <1>2, <1>3, <1>4 DEF GroupInv, OnePlace, Drop
<1> QED
  BY <1>1, <1>2, <1>5 DEF GroupInv, Drop

(* A task moves from the channel to a worker that held none.               *)
LEMMA ReceiveKeeps ==
  ASSUME TypeOK, NEW g \in Groups, GroupInv(g), NEW w \in Workers,
         NEW busy \in Busy, wpc[g][w] \in {"select", "drain"},
         busy = "drainBusy" => wpc[g][w] = "drain",
         Receive(g, w, busy)
  PROVE  TypeOK' /\ GroupInv(g)'
<1> DEFINE t == Head(syncTasks[g])
<1>1. /\ syncTasks[g] \in Seq(Tasks) /\ syncTasks[g] # <<>>
      /\ \A i, j \in 1..Len(syncTasks[g]) :
           syncTasks[g][i] = syncTasks[g][j] => i = j
  BY DEF TypeOK, Receive, GroupInv, OnePlace
<1>2. /\ t \in Tasks /\ Tail(syncTasks[g]) \in Seq(Tasks)
      /\ Len(Tail(syncTasks[g])) = Len(syncTasks[g]) - 1
      /\ \A i, j \in 1..Len(Tail(syncTasks[g])) :
           Tail(syncTasks[g])[i] = Tail(syncTasks[g])[j] => i = j
  BY <1>1, TailContents
<1>3. /\ syncTasks'[g] = Tail(syncTasks[g])
      /\ task'[g] = [task[g] EXCEPT ![w] = t]
      /\ wpc'[g] = [wpc[g] EXCEPT ![w] = busy]
  BY DEF TypeOK, Receive
<1>4. Queued(g)' = Queued(g) \ {t} /\ t \in Queued(g)
  BY <1>1, <1>3, TailContents DEF Queued
<1>5. wpc[g] \in [Workers -> WorkerSteps]
      /\ task[g] \in [Workers -> Tasks \cup {NoTask}]
  BY DEF TypeOK
<1>6. wpc[g][w] \notin Busy
  BY DEF Busy
<1>7. Held(g)' = Held(g) \cup {t}
  BY <1>3, <1>5, <1>6 DEF Held
<1>8. t \notin Held(g)
  BY <1>4 DEF GroupInv, OnePlace
<1>9. \A v, x \in Workers :
        wpc'[g][v] \in Busy /\ wpc'[g][x] \in Busy
          /\ task'[g][v] = task'[g][x] => v = x
  BY <1>3, <1>5, <1>8 DEF Held, GroupInv, OnePlace
<1>10. OnePlace(g)'
  BY <1>2, <1>3, <1>4, <1>7, <1>9 DEF GroupInv, OnePlace, Receive
<1>11. TypeOK'
  BY <1>2 DEF TypeOK, Receive, WorkerSteps
<1>12. Len(syncTasks'[g]) <= BufferCap
  BY <1>1, <1>2, <1>3, BufferAssumption DEF GroupInv
<1>13. \A v \in Workers : wpc'[g][v] \in Busy => task'[g][v] \in Tasks
  BY <1>2, <1>3, <1>5 DEF GroupInv
<1>14. \A v \in Workers :
         wpc'[g][v] \in {"drain", "drainBusy", "exited"} => done'[g]
  BY <1>3, <1>5 DEF GroupInv, Receive, Busy
<1>15. \A v \in Workers :
         wpc'[g][v] = "exited" => Queued(g)' \subseteq late'[g]
  BY <1>3, <1>4, <1>5 DEF GroupInv, Receive, Busy
<1> QED
  BY <1>10, <1>11, <1>12, <1>13, <1>14, <1>15 DEF GroupInv

(* A worker that holds no task changes its place and nothing else.         *)
LEMMA MoveKeeps ==
  ASSUME TypeOK, NEW g \in Groups, GroupInv(g), NEW w \in Workers,
         SeeDone(g, w) \/ Exit(g, w)
  PROVE  TypeOK' /\ GroupInv(g)'
<1> DEFINE to == IF SeeDone(g, w) THEN "drain" ELSE "exited"
<1>1. /\ UNCHANGED <<closed, done, admitted, syncTasks, task, finished,
                     dropped, late>>
      /\ wpc[g][w] \in {"select", "drain"}
      /\ done[g]
  BY DEF SeeDone, Exit, GroupInv
<1>2. wpc' = [wpc EXCEPT ![g][w] = to] /\ to \in {"drain", "exited"}
  BY DEF SeeDone, Exit
<1>3. to = "exited" => Queued(g) = {}
  BY DEF SeeDone, Exit, Queued
<1> HIDE DEF to
<1>4. wpc[g] \in [Workers -> WorkerSteps] /\ wpc'[g] = [wpc[g] EXCEPT ![w] = to]
  BY <1>2 DEF TypeOK
<1>5. Queued(g)' = Queued(g)
  BY <1>1 DEF Queued
<1>6. \A v \in Workers : wpc'[g][v] \in Busy <=> wpc[g][v] \in Busy
  BY <1>1, <1>2, <1>4 DEF Busy
<1>7. Held(g)' = Held(g)
  BY <1>1, <1>6 DEF Held
<1>8. OnePlace(g)'
  BY <1>1, <1>5, <1>6, <1>7 DEF GroupInv, OnePlace
<1>9. TypeOK'
  BY <1>1, <1>2 DEF TypeOK, WorkerSteps
<1>10. \A v \in Workers : wpc'[g][v] \in Busy => task'[g][v] \in Tasks
  BY <1>1, <1>6 DEF GroupInv
<1>11. \A v \in Workers :
         wpc'[g][v] = "exited" => Queued(g)' \subseteq late'[g]
  BY <1>1, <1>3, <1>4, <1>5 DEF GroupInv
<1> QED
  BY <1>1, <1>8, <1>9, <1>10, <1>11 DEF GroupInv

(* A task moves from a worker to the finished ones; nobody else held it.   *)
LEMMA FinishKeeps ==
  ASSUME TypeOK, NEW g \in Groups, GroupInv(g), NEW w \in Workers,
         Finish(g, w)
  PROVE  TypeOK' /\ GroupInv(g)'
<1> DEFINE t == task[g][w]
           to == IF wpc[g][w] = "busy" THEN "select" ELSE "drain"
<1>1. t \in Tasks /\ t \in Held(g) /\ wpc[g][w] \in Busy
  BY DEF Finish, GroupInv, Held
<1>2. wpc[g] \in [Workers -> WorkerSteps]
      /\ task[g] \in [Workers -> Tasks \cup {NoTask}]
  BY DEF TypeOK
<1>3. /\ wpc'[g] = [wpc[g] EXCEPT ![w] = to]
      /\ task'[g] = [task[g] EXCEPT ![w] = NoTask]
      /\ finished'[g] = finished[g] \cup {t}
      /\ to \in {"select", "drain"}
  BY DEF TypeOK, Finish
<1>4. to = "drain" => done[g]
  BY <1>1 DEF GroupInv, Busy
<1>5. TypeOK'
  BY <1>1 DEF TypeOK, Finish, WorkerSteps
<1> HIDE DEF t, to
<1>6. \A v \in Workers : wpc'[g][v] \in Busy <=> wpc[g][v] \in Busy /\ v # w
  BY <1>1, <1>2, <1>3 DEF Busy
<1>7. \A v \in Workers : v # w => task'[g][v] = task[g][v]
  BY <1>2, <1>3
<1>8. Held(g)' = Held(g) \ {t}
  <2>1. \A v \in Workers : wpc[g][v] \in Busy /\ v # w => task[g][v] # t
    BY <1>1 DEF GroupInv, OnePlace, t
  <2> QED
    BY <1>6, <1>7, <2>1 DEF Held, t
<1>9. Queued(g)' = Queued(g)
  BY DEF Finish, Queued
<1>10. OnePlace(g)'
  BY <1>1, <1>3, <1>6, <1>7, <1>8, <1>9 DEF GroupInv, OnePlace, Finish
<1>11. \A v \in Workers : wpc'[g][v] \in Busy => task'[g][v] \in Tasks
  BY <1>6, <1>7 DEF GroupInv
<1>12. \A v \in Workers :
         wpc'[g][v] \in {"drain", "drainBusy", "exited"} => done'[g]
  BY <1>2, <1>3, <1>4 DEF GroupInv, Finish
<1>13. \A v \in Workers :
         wpc'[g][v] = "exited" => Queued(g)' \subseteq late'[g]
  BY <1>2, <1>3, <1>9 DEF GroupInv, Finish
<1>14. Len(syncTasks'[g]) <= BufferCap
  BY DEF GroupInv, Finish
<1> QED
  BY <1>5, <1>10, <1>11, <1>12, <1>13, <1>14 DEF GroupInv

(* Close moves no task, and done only becomes true.                        *)
LEMMA CloseKeeps ==
  ASSUME TypeOK, NEW g \in Groups, GroupInv(g), CloseFlag(g) \/ CloseDone(g)
  PROVE  TypeOK' /\ GroupInv(g)'
<1>1. /\ UNCHANGED <<admitted, syncTasks, wpc, task, finished, dropped, late>>
      /\ done[g] => done'[g]
  BY DEF CloseFlag, CloseDone, TypeOK
<1>2. TypeOK'
  BY DEF TypeOK, CloseFlag, CloseDone
<1>3. Queued(g)' = Queued(g) /\ Held(g)' = Held(g)
  BY <1>1 DEF Queued, Held
<1>4. OnePlace(g)'
  BY <1>1, <1>3 DEF GroupInv, OnePlace
<1> QED
  BY <1>1, <1>2, <1>3, <1>4 DEF GroupInv

-----------------------------------------------------------------------------
(* What an action of group g writes is at g.                               *)
Acts(g) ==
  \/ \E t \in Tasks : Admit(g, t) \/ Submit(g, t)
  \/ \E w \in Workers : WorkerStep(g, w) \/ Finish(g, w)
  \/ CloseFlag(g)
  \/ CloseDone(g)

LEMMA ActsAlone ==
  ASSUME TypeOK, NEW g \in Groups, Acts(g), NEW h \in Groups, h # g
  PROVE  Same(h)
<1>1. ASSUME NEW t \in Tasks, Admit(g, t) \/ Send(g, t) \/ Drop(g, t)
      PROVE  Same(h)
  BY <1>1 DEF TypeOK, Same, Admit, Send, Drop
<1>2. ASSUME NEW w \in Workers, NEW busy \in Busy, Receive(g, w, busy)
      PROVE  Same(h)
  BY <1>2 DEF TypeOK, Same, Receive
<1>3. ASSUME NEW w \in Workers, SeeDone(g, w) \/ Exit(g, w) \/ Finish(g, w)
      PROVE  Same(h)
  BY <1>3 DEF TypeOK, Same, SeeDone, Exit, Finish
<1>4. CASE CloseFlag(g) \/ CloseDone(g)
  BY <1>4 DEF TypeOK, Same, CloseFlag, CloseDone
<1> QED
  BY <1>1, <1>2, <1>3, <1>4
  DEF Acts, Submit, WorkerStep, Take, DrainTake, Busy

LEMMA ActsKeeps ==
  ASSUME TypeOK, NEW g \in Groups, GroupInv(g), Acts(g)
  PROVE  TypeOK' /\ GroupInv(g)'
<1>1. ASSUME NEW t \in Tasks, Admit(g, t) \/ Send(g, t) \/ Drop(g, t)
      PROVE  TypeOK' /\ GroupInv(g)'
  BY <1>1, AdmitKeeps, SendKeeps, DropKeeps
<1>2. ASSUME NEW w \in Workers, Take(g, w) \/ DrainTake(g, w)
      PROVE  TypeOK' /\ GroupInv(g)'
  BY <1>2, ReceiveKeeps DEF Take, DrainTake, Busy
<1>3. ASSUME NEW w \in Workers, SeeDone(g, w) \/ Exit(g, w) \/ Finish(g, w)
      PROVE  TypeOK' /\ GroupInv(g)'
  BY <1>3, MoveKeeps, FinishKeeps
<1>4. CASE CloseFlag(g) \/ CloseDone(g)
  BY <1>4, CloseKeeps
<1> QED
  BY <1>1, <1>2, <1>3, <1>4 DEF Acts, Submit, WorkerStep

-----------------------------------------------------------------------------
LEMMA InitPoolInv == Init => PoolInv
<1> SUFFICES ASSUME Init PROVE TypeOK /\ \A g \in Groups : GroupInv(g)
  BY InvByGroup
<1>1. TypeOK
  BY DEF Init, TypeOK, WorkerSteps
<1>2. ASSUME NEW g \in Groups PROVE GroupInv(g)
  <2>1. /\ syncTasks[g] = <<>> /\ admitted[g] = {} /\ finished[g] = {}
        /\ dropped[g] = {} /\ \A w \in Workers : wpc[g][w] = "select"
    BY DEF Init
  <2>2. Queued(g) = {} /\ Held(g) = {}
    BY <2>1 DEF Queued, Held, Busy
  <2>3. OnePlace(g)
    BY <2>1, <2>2 DEF OnePlace, Busy
  <2> QED
    BY <2>1, <2>3, BufferAssumption DEF GroupInv, Busy
<1> QED
  BY <1>1, <1>2

LEMMA NextPoolInv == PoolInv /\ [Next]_poolVars => PoolInv'
<1> SUFFICES ASSUME TypeOK, \A g \in Groups : GroupInv(g), [Next]_poolVars
             PROVE  TypeOK' /\ \A g \in Groups : GroupInv(g)'
  BY InvByGroup DEF PoolInv, ChannelBounded, BusyHasTask, TaskInOnePlace,
     ExitAfterDone, EarlyTasksDrained, GroupInv
<1>1. CASE Next
  <2>1. PICK g \in Groups : Acts(g)
    BY <1>1 DEF Next, Acts
  <2> QED
    BY <2>1, ActsKeeps, ActsAlone, OtherGroups
<1>2. CASE UNCHANGED poolVars
  <2>1. TypeOK'
    BY <1>2 DEF TypeOK, poolVars
  <2>2. \A g \in Groups : Same(g)
    BY <1>2 DEF Same, poolVars
  <2> QED
    BY <2>1, <2>2, OtherGroups
<1> QED
  BY <1>1, <1>2

(* PoolInv holds in every state (group.go:380-398, 606-612).               *)
THEOREM PoolInvariance == Spec => []PoolInv
  BY InitPoolInv, NextPoolInv, PTL DEF Spec

(* Every task is in one place: no interleaving of requests, workers and    *)
(* Close processes a task twice or processes one that was dropped.         *)
THEOREM OnePlaceForEachTask == Spec => []TaskInOnePlace
<1>1. PoolInv => TaskInOnePlace
  BY DEF PoolInv
<1> QED
  BY <1>1, PoolInvariance, PTL

(* The drain of group.go:385-392 reaches every task that was in the        *)
(* channel when g.done was closed, before the worker that sees it empty    *)
(* returns.                                                                *)
THEOREM NoEarlyTaskLeft == Spec => []EarlyTasksDrained
<1>1. PoolInv => EarlyTasksDrained
  BY DEF PoolInv
<1> QED
  BY <1>1, PoolInvariance, PTL
=============================================================================
