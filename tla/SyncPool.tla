------------------------------ MODULE SyncPool ------------------------------
(***************************************************************************)
(* The asynchronous half of cache/group.go: the buffered channel           *)
(* g.syncTasks, the syncWorker goroutines that serve it, and Group.Close.  *)
(*                                                                         *)
(* Set and Delete check g.closed, write the local cache and then offer a   *)
(* task to the channel without blocking.  Close sets g.closed, then closes *)
(* g.done; a worker that sees g.done closed serves the channel until it    *)
(* finds it empty and returns.  A request may be between its check of      *)
(* g.closed and its offer while all of that happens.                       *)
(***************************************************************************)
EXTENDS Naturals, Sequences, FiniteSets

CONSTANTS
  Groups,      \* cache groups, each with a channel and workers of its own
  Workers,     \* the syncWorkerCount goroutines of a group
  Tasks,       \* addresses of syncTask objects
  BufferCap,   \* syncChannelBuffer
  Stuck,       \* tasks whose RPC need not end: Client.Set has no deadline
  NoTask       \* "no task in hand"

ASSUME BufferAssumption == BufferCap \in Nat \ {0}
ASSUME TaskAssumption == NoTask \notin Tasks
ASSUME StuckAssumption ==
  /\ Stuck \subseteq Tasks
  /\ IsFiniteSet(Stuck) /\ IsFiniteSet(Workers)
  /\ Cardinality(Stuck) < Cardinality(Workers)

VARIABLES
  closed,      \* closed[g]: g.closed = 1
  done,        \* done[g]: the channel g.done is closed
  admitted,    \* admitted[g]: tasks of requests between the check and the offer
  syncTasks,   \* syncTasks[g]: the channel's buffer
  wpc,         \* wpc[g][w]: where worker w is in syncWorker
  task,        \* task[g][w]: the task w processes
  finished,    \* finished[g]: tasks processSyncTask has returned from
  dropped,     \* dropped[g]: tasks the offer found no room for
  late         \* late[g]: tasks put in the channel after g.done was closed
               \*   (history; no action reads it)

poolVars == <<closed, done, admitted, syncTasks, wpc, task, finished, dropped,
              late>>

Busy == {"busy", "drainBusy"}
WorkerSteps == Busy \cup {"select", "drain", "exited"}

TypeOK ==
  /\ closed \in [Groups -> BOOLEAN]
  /\ done \in [Groups -> BOOLEAN]
  /\ admitted \in [Groups -> SUBSET Tasks]
  /\ syncTasks \in [Groups -> Seq(Tasks)]
  /\ wpc \in [Groups -> [Workers -> WorkerSteps]]
  /\ task \in [Groups -> [Workers -> Tasks \cup {NoTask}]]
  /\ finished \in [Groups -> SUBSET Tasks]
  /\ dropped \in [Groups -> SUBSET Tasks]
  /\ late \in [Groups -> SUBSET Tasks]

(* NewGroup: the workers are started before the group is published.        *)
Init ==
  /\ closed = [g \in Groups |-> FALSE]
  /\ done = [g \in Groups |-> FALSE]
  /\ admitted = [g \in Groups |-> {}]
  /\ syncTasks = [g \in Groups |-> <<>>]
  /\ wpc = [g \in Groups |-> [w \in Workers |-> "select"]]
  /\ task = [g \in Groups |-> [w \in Workers |-> NoTask]]
  /\ finished = [g \in Groups |-> {}]
  /\ dropped = [g \in Groups |-> {}]
  /\ late = [g \in Groups |-> {}]

Held(g) == {task[g][w] : w \in {v \in Workers : wpc[g][v] \in Busy}}

Queued(g) == {syncTasks[g][i] : i \in 1..Len(syncTasks[g])}

(* Where a task can be once a request has made it.                         *)
Known(g) == admitted[g] \cup Queued(g) \cup Held(g)
              \cup finished[g] \cup dropped[g]

-----------------------------------------------------------------------------
(* Set and Delete up to their select: not closed, local cache written.     *)
Admit(g, t) ==
  /\ ~closed[g]
  /\ t \notin Known(g)
  /\ admitted' = [admitted EXCEPT ![g] = @ \cup {t}]
  /\ UNCHANGED <<closed, done, syncTasks, wpc, task, finished, dropped, late>>

(* case g.syncTasks <- task                                                *)
Send(g, t) ==
  /\ t \in admitted[g]
  /\ Len(syncTasks[g]) < BufferCap
  /\ syncTasks' = [syncTasks EXCEPT ![g] = Append(@, t)]
  /\ admitted' = [admitted EXCEPT ![g] = @ \ {t}]
  /\ late' = IF done[g] THEN [late EXCEPT ![g] = @ \cup {t}] ELSE late
  /\ UNCHANGED <<closed, done, wpc, task, finished, dropped>>

(* FAULTY: no default branch, so a full channel makes the request wait.    *)
Drop_Blocks(g, t) == FALSE /\ UNCHANGED poolVars

(* default: the channel is full and the task is forgotten.                 *)
Drop(g, t) ==
  /\ t \in admitted[g]
  /\ Len(syncTasks[g]) >= BufferCap
  /\ admitted' = [admitted EXCEPT ![g] = @ \ {t}]
  /\ dropped' = [dropped EXCEPT ![g] = @ \cup {t}]
  /\ UNCHANGED <<closed, done, syncTasks, wpc, task, finished, late>>

Submit(g, t) == Send(g, t) \/ Drop(g, t)

(* FAULTY: the head is read and removed in two steps.                      *)
Receive_Peek(g, w, busy) ==
  /\ syncTasks[g] # <<>>
  /\ task' = [task EXCEPT ![g][w] = Head(syncTasks[g])]
  /\ wpc' = [wpc EXCEPT ![g][w] = busy]
  /\ UNCHANGED <<closed, done, admitted, syncTasks, finished, dropped, late>>

(* w receives the head of the channel.                                     *)
Receive(g, w, busy) ==
  /\ syncTasks[g] # <<>>
  /\ task' = [task EXCEPT ![g][w] = Head(syncTasks[g])]
  /\ syncTasks' = [syncTasks EXCEPT ![g] = Tail(@)]
  /\ wpc' = [wpc EXCEPT ![g][w] = busy]
  /\ UNCHANGED <<closed, done, admitted, finished, dropped, late>>

(* The outer select takes a task.  With both cases ready Go picks either.  *)
Take(g, w) == wpc[g][w] = "select" /\ Receive(g, w, "busy")

(* FAULTY: the worker returns as soon as it sees done closed.              *)
SeeDone_Returns(g, w) ==
  /\ wpc[g][w] = "select"
  /\ done[g]
  /\ wpc' = [wpc EXCEPT ![g][w] = "exited"]
  /\ UNCHANGED <<closed, done, admitted, syncTasks, task, finished, dropped,
                 late>>

(* The outer select takes <-g.done.                                        *)
SeeDone(g, w) ==
  /\ wpc[g][w] = "select"
  /\ done[g]
  /\ wpc' = [wpc EXCEPT ![g][w] = "drain"]
  /\ UNCHANGED <<closed, done, admitted, syncTasks, task, finished, dropped,
                 late>>

(* The inner select takes a task, or returns on an empty channel.          *)
DrainTake(g, w) == wpc[g][w] = "drain" /\ Receive(g, w, "drainBusy")

(* FAULTY: a worker that drains waits for more tasks.                      *)
Exit_Never(g, w) == FALSE /\ UNCHANGED poolVars

Exit(g, w) ==
  /\ wpc[g][w] = "drain"
  /\ syncTasks[g] = <<>>
  /\ wpc' = [wpc EXCEPT ![g][w] = "exited"]
  /\ UNCHANGED <<closed, done, admitted, syncTasks, task, finished, dropped,
                 late>>

(* FAULTY: the inner loop takes one task and returns.                      *)
Finish_ThenReturn(g, w) ==
  /\ wpc[g][w] \in Busy
  /\ finished' = [finished EXCEPT ![g] = @ \cup {task[g][w]}]
  /\ task' = [task EXCEPT ![g][w] = NoTask]
  /\ wpc' = [wpc EXCEPT ![g][w] = IF @ = "busy" THEN "select" ELSE "exited"]
  /\ UNCHANGED <<closed, done, admitted, syncTasks, dropped, late>>

(* processSyncTask returns, whatever its RPCs answered.                    *)
Finish(g, w) ==
  /\ wpc[g][w] \in Busy
  /\ finished' = [finished EXCEPT ![g] = @ \cup {task[g][w]}]
  /\ task' = [task EXCEPT ![g][w] = NoTask]
  /\ wpc' = [wpc EXCEPT ![g][w] = IF @ = "busy" THEN "select" ELSE "drain"]
  /\ UNCHANGED <<closed, done, admitted, syncTasks, dropped, late>>

(* Close, first step: the CAS on g.closed; only one caller passes it.      *)
CloseFlag(g) ==
  /\ ~closed[g]
  /\ closed' = [closed EXCEPT ![g] = TRUE]
  /\ UNCHANGED <<done, admitted, syncTasks, wpc, task, finished, dropped,
                 late>>

(* close(g.done), by the caller that passed the CAS.                       *)
CloseDone(g) ==
  /\ closed[g] /\ ~done[g]
  /\ done' = [done EXCEPT ![g] = TRUE]
  /\ UNCHANGED <<closed, admitted, syncTasks, wpc, task, finished, dropped,
                 late>>

WorkerStep(g, w) ==
  \/ Take(g, w)
  \/ SeeDone(g, w)
  \/ DrainTake(g, w)
  \/ Exit(g, w)

Next ==
  \E g \in Groups :
    \/ \E t \in Tasks : Admit(g, t) \/ Submit(g, t)
    \/ \E w \in Workers : WorkerStep(g, w) \/ Finish(g, w)
    \/ CloseFlag(g)
    \/ CloseDone(g)

Spec == Init /\ [][Next]_poolVars

(* A request that passed its check reaches the select: nothing in between  *)
(* waits for the pool.                                                     *)
FairSpec ==
  Spec /\ \A g \in Groups, t \in Tasks : WF_poolVars(Submit(g, t))

(* A worker is a scheduled goroutine, and an RPC of a task that is not     *)
(* Stuck ends.  The caller of Close runs on after the CAS.                 *)
PoolFair ==
  /\ \A g \in Groups : WF_poolVars(CloseDone(g))
  /\ \A g \in Groups, w \in Workers :
       /\ WF_poolVars(WorkerStep(g, w))
       /\ WF_poolVars(task[g][w] \notin Stuck /\ Finish(g, w))
-----------------------------------------------------------------------------
OnePlace(g) ==
  /\ \A i, j \in 1..Len(syncTasks[g]) :
       syncTasks[g][i] = syncTasks[g][j] => i = j
  /\ \A v, w \in Workers :
       wpc[g][v] \in Busy /\ wpc[g][w] \in Busy /\ task[g][v] = task[g][w]
       => v = w
  /\ admitted[g] \cap (Queued(g) \cup Held(g) \cup finished[g]
                         \cup dropped[g]) = {}
  /\ Queued(g) \cap (Held(g) \cup finished[g] \cup dropped[g]) = {}
  /\ Held(g) \cap (finished[g] \cup dropped[g]) = {}
  /\ finished[g] \cap dropped[g] = {}

(* A task is processed at most once and never both processed and dropped:  *)
(* each is in one place, through every interleaving of requests, workers   *)
(* and Close.                                                              *)
TaskInOnePlace == \A g \in Groups : OnePlace(g)

(* No worker leaves a task behind that was in the channel when g.done was  *)
(* closed (group.go:385, "drain the remaining tasks before closing"): what *)
(* an exited worker finds there later was put there after the close, by a  *)
(* request that had passed its check of g.closed before.                   *)
EarlyTasksDrained ==
  \A g \in Groups, w \in Workers :
    wpc[g][w] = "exited" => Queued(g) \subseteq late[g]

(* A task in the channel before g.done is closed is processed in the end,  *)
(* even when RPCs of other tasks hang in all workers but one.              *)
AcceptedRuns ==
  PoolFair =>
    \A g \in Groups : \A t \in Tasks \ Stuck :
      t \in Queued(g) /\ ~done[g] ~> t \in finished[g]

(* Set and Delete get past the select without any help from the workers    *)
(* (group.go:255 and 263, the request path is never blocked): no fairness  *)
(* of a worker is assumed here.                                            *)
SubmitReturns ==
  \A g \in Groups, t \in Tasks : t \in admitted[g] ~> t \notin admitted[g]

(* After Close every worker returns, except in an RPC that hangs.          *)
WorkersExit ==
  PoolFair =>
    \A g \in Groups :
      done[g] ~> \A w \in Workers :
                   wpc[g][w] = "exited" \/ task[g][w] \in Stuck

-----------------------------------------------------------------------------
(* The inductive invariant.                                                *)
ChannelBounded == \A g \in Groups : Len(syncTasks[g]) <= BufferCap

ExitAfterDone ==
  \A g \in Groups, w \in Workers :
    wpc[g][w] \in {"drain", "drainBusy", "exited"} => done[g]

BusyHasTask ==
  \A g \in Groups, w \in Workers :
    wpc[g][w] \in Busy => task[g][w] \in Tasks

PoolInv ==
  /\ TypeOK
  /\ ChannelBounded
  /\ BusyHasTask
  /\ TaskInOnePlace
  /\ ExitAfterDone
  /\ EarlyTasksDrained
=============================================================================
