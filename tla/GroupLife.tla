------------------------------ MODULE GroupLife ------------------------------
(***************************************************************************)
(* A Group from NewGroup to Close (group.go), with the table groups, the   *)
(* bloom filter and the Cache of CacheStore.                               *)
(*                                                                         *)
(* The table has one name here, and Groups are the groups made under it in *)
(* turn; Main is the first, and the calls that are followed are its calls. *)
(* Of another group only its place in the table and its Close are kept.    *)
(* A panic in a call ends the process.                                     *)
(***************************************************************************)
EXTENDS CacheStore, Bloom

CONSTANTS
  Groups, Main, NoGroup,
  Handlers,  \* the callers that are gRPC handlers
  MaxCalls   \* bound: calls of Main's methods

ASSUME GroupAssumption ==
  /\ Main \in Groups /\ NoGroup \notin Groups /\ MaxCalls \in Nat
  /\ Handlers \subseteq Callers

VARIABLES
  table,     \* groups[name], or NoGroup
  mutex,     \* groupsMu: "free", or held by "destroy" or "close"
  ending,    \* ending[g]: how far the Close of g is
  job,       \* job[p]: the call p is in, or NoJob
  calls,     \* calls made so far
  bits,      \* the bits of Main's filter
  acked,     \* history: keys whose Set or load has returned a value
  caught,    \* history: calls in the cache, past their check of closed,
             \*   when Close set that flag ...
  racing     \* ... and of these the Adds that had not seen a store yet

groupVars == <<table, mutex, ending, job, calls, bits, acked, caught, racing>>
allVars == <<vars, groupVars>>

NoJob == [op |-> "none"]

Ops == {"set", "get", "delete"}

Stages == {"find", "check", "filter", "look", "looking", "load", "add",
           "adding", "note"}

Endings == {"new", "open", "cache", "table", "closed"}

GroupTypeOK ==
  /\ TypeOK
  /\ table \in Groups \cup {NoGroup}
  /\ mutex \in {"free", "destroy", "close"}
  /\ ending \in [Groups -> Endings]
  /\ job \in [Callers -> {NoJob} \cup [op : Ops, key : Keys, pc : Stages]]
  /\ bits \subseteq 0..(BitCount - 1)
  /\ calls \in 0..MaxCalls
  /\ acked \subseteq Keys /\ caught \subseteq Callers /\ racing \subseteq Callers

GroupInit ==
  /\ Init
  /\ table = Main /\ mutex = "free"
  /\ ending = [g \in Groups |-> IF g = Main THEN "open" ELSE "new"]
  /\ job = [p \in Callers |-> NoJob]
  /\ calls = 0 /\ bits = {} /\ acked = {}
  /\ caught = {} /\ racing = {}

Alive == \A p \in Callers : at[p] # "crashed"

-----------------------------------------------------------------------------
(* The calls.  A gRPC handler first finds the group; who has the *Group    *)
(* calls it at once.                                                       *)
At(p, stage) == job[p] # NoJob /\ job[p].pc = stage

Stage(p, stage) == job' = [job EXCEPT ![p].pc = stage]

Return(p) == job' = [job EXCEPT ![p] = NoJob]

(* What a Delete does here is the same for every key.                      *)
CallKeys(op) == IF op = "delete" THEN {CHOOSE k \in Keys : TRUE} ELSE Keys

Call(p, op, k) ==
  /\ job[p] = NoJob /\ calls < MaxCalls /\ calls' = calls + 1
  /\ job' = [job EXCEPT ![p] =
               [op |-> op, key |-> k, pc |-> IF p \in Handlers THEN "find" ELSE "check"]]
  /\ UNCHANGED <<vars, table, mutex, ending, bits, acked, caught, racing>>

(* GetGroup, in a handler.                                                 *)
GetGroup(p) ==
  /\ At(p, "find") /\ mutex = "free"
  /\ IF table = Main THEN Stage(p, "check") ELSE Return(p)
  /\ UNCHANGED <<vars, table, mutex, ending, calls, bits, acked, caught, racing>>

(* Get, Set and Delete: g.closed.                                          *)
CheckClosed(p) ==
  /\ At(p, "check")
  /\ IF ending[Main] # "open" THEN Return(p)
     ELSE Stage(p, CASE job[p].op = "set" -> "add"
                     [] job[p].op = "get" -> "filter"
                     [] job[p].op = "delete" -> "look")
  /\ UNCHANGED <<vars, table, mutex, ending, calls, bits, acked, caught, racing>>

(* Get: ErrKeyNotFound without the filter's consent.                       *)
CheckFilter(p) ==
  /\ At(p, "filter")
  /\ IF Contains(bits, job[p].key) THEN Stage(p, "look") ELSE Return(p)
  /\ UNCHANGED <<vars, table, mutex, ending, calls, bits, acked, caught, racing>>

(* A look at the cache that finds nothing: Get goes on to load.            *)
Missed(p) == IF job[p].op = "get" THEN Stage(p, "load") ELSE Return(p)

Look(p) ==
  /\ At(p, "look")
  /\ \/ closed /\ Missed(p) /\ UNCHANGED vars
     \/ LookBegin(p) /\ Stage(p, "looking")
  /\ UNCHANGED <<table, mutex, ending, calls, bits, acked, caught, racing>>

LookedInitialized(p) ==
  /\ At(p, "looking") /\ LookInitialized(p, "wait")
  /\ IF initialized THEN UNCHANGED job ELSE Missed(p)
  /\ UNCHANGED <<table, mutex, ending, calls, bits, acked, caught, racing>>

(* The store may have the key or not: it evicts and expires.               *)
Looked(p) ==
  /\ At(p, "looking") /\ UseLocked(p)
  /\ Return(p) \/ Missed(p)
  /\ UNCHANGED <<table, mutex, ending, calls, bits, acked, caught, racing>>

(* loader.Do, with a value or an error.                                    *)
Load(p) ==
  /\ At(p, "load")
  /\ Stage(p, "add") \/ Return(p)
  /\ UNCHANGED <<vars, table, mutex, ending, calls, bits, acked, caught, racing>>

(* FAULTY: Add does not look at closed.                                    *)
Add_Unchecked(p) ==
  /\ At(p, "add")
  /\ Goto(p, "idle", "init") /\ Stage(p, "adding")
  /\ UNCHANGED <<store, initialized, closed, ticking, used, closing>>
  /\ UNCHANGED <<table, mutex, ending, calls, bits, acked, caught, racing>>

(* Cache.Add: refused, without a word to the caller, or begun.             *)
Add(p) ==
  /\ At(p, "add")
  /\ \/ closed /\ Stage(p, "note") /\ UNCHANGED vars
     \/ AddBegin(p) /\ Stage(p, "adding")
  /\ UNCHANGED <<table, mutex, ending, calls, bits, acked, caught, racing>>

Adding(p) ==
  /\ At(p, "adding")
  /\ \/ (InitFast(p) \/ InitLocked(p) \/ InitDone(p)) /\ UNCHANGED job
     \/ (Use(p) \/ AddTooLate(p)) /\ Stage(p, "note")
  /\ UNCHANGED <<table, mutex, ending, calls, bits, acked, caught, racing>>

(* bloomFilter.Add, and the call returns.                                  *)
Note(p) ==
  /\ At(p, "note")
  /\ bits' = AddTo(bits, job[p].key)
  /\ acked' = acked \cup {job[p].key}
  /\ Return(p)
  /\ UNCHANGED <<vars, table, mutex, ending, caught, racing, calls>>

-----------------------------------------------------------------------------
(* The table.  NewGroup replaces the group of the same name.               *)
NewGroup(g) ==
  /\ ending[g] = "new" /\ mutex = "free"
  /\ ending' = [ending EXCEPT ![g] = "open"]
  /\ table' = g
  /\ UNCHANGED <<vars, mutex, job, calls, bits, acked, caught, racing>>

(* Group.Close: g.closed and g.done; the cache; the table, where it takes  *)
(* out whatever group has the name.                                        *)
Close(g) ==
  /\ ending[g] = "open"
  /\ ending' = [ending EXCEPT ![g] = "cache"]
  /\ UNCHANGED <<vars, table, mutex, job, calls, bits, acked, caught, racing>>

CloseCacheBegin ==
  /\ ending[Main] = "cache" /\ CloseBegin
  /\ caught' = {p \in Callers : at[p] # "idle"}
  /\ racing' = {p \in Callers : at[p] \in {"init", "lock"}}
  /\ UNCHANGED <<table, mutex, ending, job, calls, bits, acked>>

CloseCacheStore ==
  /\ ending[Main] = "cache" /\ (CloseLocked \/ CloseStore)
  /\ UNCHANGED groupVars

CloseCache(g) ==
  /\ ending[g] = "cache"
  /\ IF g = Main THEN CloseDone ELSE UNCHANGED vars
  /\ ending' = [ending EXCEPT ![g] = "table"]
  /\ UNCHANGED <<table, mutex, job, calls, bits, acked, caught, racing>>

(* FAULTY: the group stays in the table.                                   *)
CloseTable_Kept(g) ==
  /\ ending[g] = "table" /\ mutex = "free"
  /\ ending' = [ending EXCEPT ![g] = "closed"]
  /\ UNCHANGED <<vars, table, mutex, job, calls, bits, acked, caught, racing>>

(* FAULTY: groupsMu is not given back.                                     *)
CloseTable_NoUnlock(g) ==
  /\ ending[g] = "table" /\ mutex = "free" /\ mutex' = "close"
  /\ ending' = [ending EXCEPT ![g] = "closed"]
  /\ table' = NoGroup
  /\ UNCHANGED <<vars, job, calls, bits, acked, caught, racing>>

CloseTable(g) ==
  /\ ending[g] = "table" /\ mutex = "free"
  /\ ending' = [ending EXCEPT ![g] = "closed"]
  /\ table' = NoGroup
  /\ UNCHANGED <<vars, mutex, job, calls, bits, acked, caught, racing>>

(* DestroyGroup and DestroyAllGroups call Close with groupsMu locked.  It  *)
(* returns at once from a group that is closed already; else it goes on to *)
(* the step that waits for groupsMu.                                       *)
DestroyGroup ==
  /\ table # NoGroup /\ mutex = "free"
  /\ IF ending[table] = "open"
     THEN /\ ending' = [ending EXCEPT ![table] = "cache"]
          /\ mutex' = "destroy"
          /\ UNCHANGED table
     ELSE table' = NoGroup /\ UNCHANGED <<mutex, ending>>
  /\ UNCHANGED <<vars, job, calls, bits, acked, caught, racing>>

-----------------------------------------------------------------------------
CallStep(p) ==
  \/ GetGroup(p) \/ CheckClosed(p) \/ CheckFilter(p) \/ Look(p)
  \/ LookedInitialized(p) \/ Looked(p) \/ Load(p) \/ Add(p) \/ Adding(p)
  \/ Note(p)

GroupNext ==
  /\ Alive
  /\ \/ \E p \in Callers : 
          CallStep(p) \/ \E op \in Ops : \E k \in CallKeys(op) : Call(p, op, k)
     \/ \E g \in Groups : NewGroup(g) \/ Close(g) \/ CloseCache(g) \/ CloseTable(g)
     \/ CloseCacheBegin \/ CloseCacheStore \/ DestroyGroup

(* A goroutine that can run does; groupsMu is held for a moment, but for   *)
(* what DestroyGroup does with it.                                         *)
GroupFairness == \A p \in Callers : WF_allVars(Alive /\ CallStep(p))

GroupSpec == GroupInit /\ [][GroupNext]_allVars /\ GroupFairness

-----------------------------------------------------------------------------
(* A key whose Set, or whose load, has returned is never answered with     *)
(* ErrKeyNotFound on the same node (group.go:122: the filter has no false  *)
(* negatives), whatever other keys, evictions and Close did meanwhile.     *)
SetThenContained == \A k \in acked : Contains(bits, k)

(* Once Close has returned, GetGroup does not give that group out.         *)
ClosedNotServed == \A g \in Groups : ending[g] = "closed" => table # g

(* A call panics on a nil store only if it was in the cache, past its      *)
(* check of closed, when Close set that flag: neither a call that finds    *)
(* the cache cold nor one that comes later does, although initialized and  *)
(* c.store are written one after the other and read without c.mu           *)
(* (cache.go:58-81, 108, 161, 214-218).                                    *)
NilStoreNeedsRace ==
  \A p \in Callers : at[p] = "crashed" => p \in caught

(* Once Close has returned, there is a store again - whose ticker nobody   *)
(* stops, and whose entries nobody reads - only if an Add that had passed  *)
(* its check of closed had still to see that there was one when Close set  *)
(* the flag (cache.go:89-94, 202).                                         *)
StoreLeakNeedsRace ==
  closing = "done" /\ store # NoStore => racing # {}

(* A handler gets its answer from GetGroup, unless a DestroyGroup of an    *)
(* open group, which never gives groupsMu back, came before it.            *)
LookupsReturn ==
  \A p \in Callers : At(p, "find") ~> ~At(p, "find") \/ mutex = "destroy" \/ ~Alive
=============================================================================
