----------------------------- MODULE Membership -----------------------------
(***************************************************************************)
(* How one node learns of the others (cache/peers.go): it fetches the      *)
(* addresses registered in etcd, then watches for changes.  A node found   *)
(* by the watch is unhealthy until its data has been migrated to it; a     *)
(* node said to leave is unhealthy at once and removed after 30 s.         *)
(*                                                                         *)
(* p.clients and the nodes of p.consHash change together and are one       *)
(* variable.  A batch of watch events is handled one event at a time: the  *)
(* goroutines it starts can be as late as the batch would make them.       *)
(***************************************************************************)
EXTENDS Naturals, Sequences, FiniteSets

CONSTANTS
  Addrs, Self,   \* addresses that may be registered; the node's own, selfAddr
  NoAddr,        \* the empty string
  DeleteNames,   \* whether the value of a DELETE event may, or may not, name
                 \*   the node: handleWatchEvents takes it that it does, etcd
                 \*   sends only the key of what was deleted
  DialFails,     \* whether NewClient may fail
  MaxUps         \* bound: registrations

ASSUME AddrAssumption == Self \in Addrs /\ NoAddr \notin Addrs
ASSUME SwitchAssumption == DeleteNames \in SUBSET BOOLEAN /\ DialFails \in BOOLEAN
ASSUME BoundAssumption == MaxUps \in Nat

VARIABLES
  registered,   \* addresses in etcd
  ups,          \* registrations so far
  phase,        \* how far startServiceDiscovery has come
  events,       \* watch events on their way
  clients,      \* addresses in p.clients, and on the ring
  unhealthy,    \* p.consHash.unhealthyNodes
  starting,     \* starting[a]: goroutines at the top of migrateDataToNewNode
  migrating,    \* migrating[a]: those that send to a's client
  stranded,     \* stranded[a]: those whose client of a was closed when a was
                \*   removed
  leaving,      \* leaving[a]: goroutines that sleep 30 s to remove a
  complete,     \* peers to whose present client a migration has run to its
                \*   end, or that were there first (history)
  early,        \* peers marked healthy by a migration to an earlier client of
                \*   theirs (history)
  missed        \* peers lost sight of: they came or left between fetch and
                \*   watch, were not dialled, or were back before their
                \*   removal (history)

vars == <<registered, ups, phase, events, clients, unhealthy, starting,
          migrating, stranded, leaving, complete, early, missed>>

TypeOK ==
  /\ registered \subseteq Addrs
  /\ ups \in 0..MaxUps
  /\ phase \in {"fetch", "fetched", "watching", "closed"}
  /\ events \in Seq([type : {"put", "delete"}, value : Addrs \cup {NoAddr}])
  /\ clients \subseteq Addrs \ {Self}
  /\ unhealthy \subseteq Addrs \ {Self}
  /\ starting \in [Addrs -> Nat]
  /\ migrating \in [Addrs -> Nat]
  /\ stranded \in [Addrs -> Nat]
  /\ leaving \in [Addrs -> Nat]
  /\ complete \subseteq Addrs /\ early \subseteq Addrs /\ missed \subseteq Addrs

(* Some nodes may be up before this one starts.                            *)
Init ==
  /\ registered \in SUBSET Addrs
  /\ ups = 0
  /\ phase = "fetch"
  /\ events = <<>>
  /\ clients = {} /\ unhealthy = {} /\ complete = {}
  /\ early = {} /\ missed = {}
  /\ starting = [a \in Addrs |-> 0]
  /\ migrating = [a \in Addrs |-> 0]
  /\ stranded = [a \in Addrs |-> 0]
  /\ leaving = [a \in Addrs |-> 0]

-----------------------------------------------------------------------------
(* etcd tells the watchers of a change, if there is one yet.               *)
Notify(type, value) ==
  events' = IF phase = "watching"
              THEN Append(events, [type |-> type, value |-> value])
              ELSE events

(* Nobody is told of a change after the fetch and before the watch.        *)
Gap(a) == missed' = IF phase = "fetched" THEN missed \cup ({a} \ {Self}) ELSE missed

(* A node registers, for the first time or again.                          *)
Register(a) ==
  /\ ups < MaxUps /\ phase # "closed"
  /\ ups' = ups + 1
  /\ registered' = registered \cup {a}
  /\ Gap(a)
  /\ Notify("put", a)
  /\ UNCHANGED <<phase, clients, unhealthy, starting, migrating, stranded,
                 leaving, complete, early>>

(* A node's lease is revoked, or runs out.                                 *)
Unregister(a) ==
  /\ a \in registered /\ phase # "closed"
  /\ registered' = registered \ {a}
  /\ Gap(a)
  /\ \E names \in DeleteNames : Notify("delete", IF names THEN a ELSE NoAddr)
  /\ UNCHANGED <<ups, phase, clients, unhealthy, starting, migrating, stranded,
                 leaving, complete, early>>

(* fetchAllServices: every address found is dialled and is healthy.        *)
Fetch ==
  /\ phase = "fetch"
  /\ phase' = "fetched"
  /\ \E failed \in SUBSET (registered \ {Self}) :
       /\ DialFails \/ failed = {}
       /\ clients' = registered \ (failed \cup {Self})
       /\ missed' = failed
  /\ complete' = clients'
  /\ UNCHANGED <<registered, ups, events, unhealthy, starting, migrating,
                 stranded, leaving, early>>

(* watchServiceChanges: Watch delivers what changes from now on.           *)
StartWatch ==
  /\ phase = "fetched"
  /\ phase' = "watching"
  /\ UNCHANGED <<registered, ups, events, clients, unhealthy, starting,
                 migrating, stranded, leaving, complete, early, missed>>

(* ClientPicker.Close, at the moment the watch sees it: what is on its way *)
(* is dropped.  The clients are closed but stay in p.clients, and what     *)
(* etcd does from now on reaches nobody; goroutines that run go on.        *)
Close ==
  /\ phase = "watching"
  /\ phase' = "closed"
  /\ events' = <<>>
  /\ UNCHANGED <<registered, ups, clients, unhealthy, starting,
                 migrating, stranded, leaving, complete, early, missed>>

(* FAULTY: the new node is not marked unhealthy.                           *)
HandlePut_Healthy(a) ==
  /\ a \notin clients
  /\ clients' = clients \cup {a}
  /\ starting' = [starting EXCEPT ![a] = @ + 1]
  /\ UNCHANGED <<unhealthy, leaving, missed>>

(* FAULTY: the new node is marked and migrated to, but never set.          *)
HandlePut_NotSet(a) ==
  /\ a \notin clients
  /\ unhealthy' = unhealthy \cup {a}
  /\ starting' = [starting EXCEPT ![a] = @ + 1]
  /\ UNCHANGED <<clients, leaving, missed>>

(* A PUT of an unknown address: dial, mark unhealthy, start the migration  *)
(* - the last two even when the dial has failed.                           *)
HandlePut(a) ==
  /\ a \notin clients
  /\ \/ clients' = clients \cup {a} /\ missed' = missed \ {a}
     \/ DialFails /\ missed' = missed \cup {a} /\ UNCHANGED clients
  /\ unhealthy' = unhealthy \cup {a}
  /\ starting' = [starting EXCEPT ![a] = @ + 1]
  /\ UNCHANGED leaving

(* A DELETE that names a known address.                                    *)
HandleDelete(a) ==
  /\ a \in clients
  /\ unhealthy' = unhealthy \cup {a}
  /\ leaving' = [leaving EXCEPT ![a] = @ + 1]
  /\ UNCHANGED <<clients, starting, missed>>

(* handleWatchEvents, for one event.                                       *)
HandleEvent ==
  /\ events # <<>>
  /\ events' = Tail(events)
  /\ LET e == Head(events)
         ignored == \/ e.value = Self
                    \/ e.type = "put" /\ e.value \in clients
                    \/ e.type = "delete" /\ e.value \notin clients
     IN  \/ ignored /\ UNCHANGED <<clients, unhealthy, starting, leaving, missed>>
         \/ ~ignored /\ e.type = "put" /\ HandlePut(e.value)
         \/ ~ignored /\ e.type = "delete" /\ HandleDelete(e.value)
  /\ UNCHANGED <<registered, ups, phase, migrating, stranded, complete, early>>

(* migrateDataToNewNode looks up the client and returns if there is none.  *)
MigrationStart(a) ==
  /\ starting[a] > 0
  /\ starting' = [starting EXCEPT ![a] = @ - 1]
  /\ migrating' = IF a \in clients THEN [migrating EXCEPT ![a] = @ + 1]
                  ELSE migrating
  /\ UNCHANGED <<registered, ups, phase, events, clients, unhealthy, stranded,
                 leaving, complete, early, missed>>

(* A migration is over, its keys sent or not: one to the present client,   *)
(* or one whose client has been closed.                                    *)
Migrated(a) ==
  \/ /\ migrating[a] > 0
     /\ migrating' = [migrating EXCEPT ![a] = @ - 1]
     /\ complete' = complete \cup {a}
     /\ UNCHANGED <<stranded, early>>
  \/ /\ stranded[a] > 0
     /\ stranded' = [stranded EXCEPT ![a] = @ - 1]
     /\ early' = early \cup (clients \cap {a})
     /\ UNCHANGED <<migrating, complete>>

(* FAULTY: the node stays unhealthy.                                       *)
MigrationEnd_NotHealthy(a) ==
  /\ Migrated(a)
  /\ UNCHANGED <<registered, ups, phase, events, clients, unhealthy, starting,
                 leaving, missed>>

(* The node is healthy if it has a client, the one sent to or another.     *)
MigrationEnd(a) ==
  /\ Migrated(a)
  /\ unhealthy' = IF a \in clients THEN unhealthy \ {a} ELSE unhealthy
  /\ UNCHANGED <<registered, ups, phase, events, clients, starting, leaving, missed>>

(* What a's client is closed to: the migrations that send to it, and what  *)
(* has been sent.  (Without a client there are none.)                      *)
Stranding(a) ==
  /\ stranded' = [stranded EXCEPT ![a] = @ + migrating[a]]
  /\ migrating' = [migrating EXCEPT ![a] = 0]
  /\ complete' = complete \ {a} /\ early' = early \ {a}

(* FAULTY: a node that is healthy again is taken to have come back.        *)
remove_IfUnhealthy(a) ==
  /\ leaving[a] > 0
  /\ leaving' = [leaving EXCEPT ![a] = @ - 1]
  /\ IF a \in unhealthy
       THEN Stranding(a) /\ clients' = clients \ {a}
       ELSE UNCHANGED <<clients, migrating, stranded, complete, early>>
  /\ missed' = missed \cup (clients \ clients')
  /\ unhealthy' = unhealthy \ {a}
  /\ UNCHANGED <<registered, ups, phase, events, starting>>

(* 30 s after the DELETE: close the client, take the node off the ring.    *)
remove(a) ==
  /\ leaving[a] > 0
  /\ leaving' = [leaving EXCEPT ![a] = @ - 1]
  /\ clients' = clients \ {a}
  /\ Stranding(a)
  /\ missed' = missed \cup (registered \cap clients \cap {a})
  /\ unhealthy' = IF a \in clients THEN unhealthy \ {a} ELSE unhealthy
  /\ UNCHANGED <<registered, ups, phase, events, starting>>

Next ==
  \/ Fetch
  \/ StartWatch
  \/ Close
  \/ HandleEvent
  \/ \E a \in Addrs :
       \/ Register(a)
       \/ Unregister(a)
       \/ MigrationStart(a)
       \/ MigrationEnd(a)
       \/ remove(a)

Spec == Init /\ [][Next]_vars

(* The node's goroutines run on; Client.Set ends while its peer is up.     *)
FairSpec ==
  /\ Spec
  /\ WF_vars(Fetch) /\ WF_vars(StartWatch) /\ WF_vars(HandleEvent)
  /\ \A a \in Addrs :
       /\ WF_vars(MigrationStart(a)) /\ WF_vars(remove(a))
       /\ WF_vars(a \in registered /\ MigrationEnd(a))

-----------------------------------------------------------------------------
(* What GetNHealthy may return.                                            *)
Routable(a) == a \in clients /\ a \notin unhealthy

(* README: "a node that comes online needs its data migrated first": no    *)
(* key is routed to a node found by the watch before a migration to its    *)
(* present client has come to its end (peers.go:152-155, 433-437), unless  *)
(* one whose client was closed by the node's removal ends after the node's *)
(* return, and finds it among the clients again (434).                     *)
OnlineAfterMigration == \A a \in Addrs : Routable(a) => a \in complete \cup early

(* A node that is discovered goes online, unless it goes away first.       *)
DiscoveredGoesOnline ==
  \A a \in Addrs :
    a \in clients ~> Routable(a) \/ a \notin clients \/ a \notin registered

(* A node that has left is forgotten, although a migration to it may end   *)
(* after its DELETE and mark it healthy again (peers.go:171-182, 435).     *)
LeaverForgotten == \A a \in Addrs : leaving[a] > 0 ~> a \notin clients

(* Once the events are handled this node knows every node in etcd, but for *)
(* those that registered between its fetch and its watch (peers.go:114,    *)
(* 125), that it could not dial (210), or that came back within the 30 s   *)
(* after their DELETE and were then removed all the same (152, 177).       *)
ViewComplete ==
  phase = "watching" /\ events = <<>> => registered \ {Self} \subseteq clients \cup missed

Settled ==
  /\ phase = "watching" /\ events = <<>>
  /\ \A a \in Addrs : starting[a] = 0 /\ migrating[a] = 0 /\ stranded[a] = 0

(* server.go:170: "the other nodes receive the DELETE event and mark this  *)
(* node unhealthy".                                                        *)
LeftIsUnhealthy ==
  Settled => \A a \in Addrs \ (registered \cup missed) : ~Routable(a)
=============================================================================
