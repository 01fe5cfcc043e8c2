---------------------------- MODULE PickerProofs ----------------------------
(***************************************************************************)
(* What a ClientPicker rests on.                                           *)
(*                                                                         *)
(* Whom it knows (Membership): OnlineAfterMigration and ViewComplete, for  *)
(* any addresses, any number of registrations, dials that fail or not, and *)
(* DELETE events that name the node or not; and what is left of the first's*)
(* exception when they do not, as etcd's do not.                           *)
(*                                                                         *)
(* Whose a key is (HashRing), for any nodes, replicas and placement: that  *)
(* the points of a set have one order, and what sort.Ints and the loop of  *)
(* Remove make of it; the invariant RingInv, that keys and hashMap hold    *)
(* the points of the members; what a walk round the ring comes to; then    *)
(* the three properties of lookups.                                        *)
(***************************************************************************)
EXTENDS Membership, HashRing, SequenceTheorems, FiniteSetTheorems,
        WellFoundedInduction, TLAPS

(* What a PUT says is an address.  (A DELETE may say nothing.)             *)
PutsNameNodes ==
  \A i \in 1..Len(events) : events[i].type = "put" => events[i].value \in Addrs

(* Why a peer in etcd that is neither known nor lost sight of will be      *)
(* known: a PUT of it is on its way.                                       *)
Announced(a) == \E i \in 1..Len(events) : events[i] = [type |-> "put", value |-> a]

EveryPeerAccounted ==
  /\ phase = "fetched" =>
       \A a \in registered \ {Self} : a \in clients \cup missed
  /\ phase = "watching" =>
       \A a \in registered \ {Self} : a \in clients \cup missed \/ Announced(a)

(* Only a peer that has a client is migrated to, or has been; and there is *)
(* none before the fetch.                                                  *)
PresentOnly ==
  /\ phase = "fetch" => clients = {} /\ events = <<>>
  /\ complete \cup early \subseteq clients
  /\ \A a \in Addrs : migrating[a] > 0 => a \in clients

ViewInv ==
  /\ TypeOK /\ PutsNameNodes /\ EveryPeerAccounted /\ PresentOnly
  /\ OnlineAfterMigration

LEMMA InitViewInv == Init => ViewInv
BY AddrAssumption, BoundAssumption
DEF Init, ViewInv, TypeOK, PutsNameNodes, EveryPeerAccounted, PresentOnly,
    OnlineAfterMigration, Routable

(* An event that is told is the last of the queue, after the others.       *)
LEMMA NotifyAppends ==
  ASSUME TypeOK, PutsNameNodes, NEW a \in Addrs,
         NEW type \in {"put", "delete"}, NEW value \in Addrs \cup {NoAddr},
         type = "put" => value = a,
         Notify(type, value)
  PROVE  /\ events' \in Seq([type : {"put", "delete"}, value : Addrs \cup {NoAddr}])
         /\ PutsNameNodes'
         /\ \A b : Announced(b) => Announced(b)'
         /\ phase = "watching" /\ type = "put" => Announced(a)'
<1> DEFINE e == [type |-> type, value |-> value]
<1>1. CASE phase = "watching"
  <2>1. events' = Append(events, e)
        BY <1>1 DEF Notify
  <2>2. /\ Len(events') = Len(events) + 1
        /\ \A i \in 1..Len(events) : events'[i] = events[i]
        /\ events'[Len(events) + 1] = e
        /\ Len(events) \in Nat
        BY <2>1 DEF TypeOK
  <2>3. events' \in Seq([type : {"put", "delete"}, value : Addrs \cup {NoAddr}])
        BY <2>1 DEF TypeOK
  <2>4. PutsNameNodes'
        BY <2>2 DEF PutsNameNodes
  <2>5. \A b : Announced(b) => Announced(b)'
        BY <2>2 DEF Announced
  <2>6. type = "put" => Announced(a)'
        BY <2>2 DEF Announced
  <2> QED BY <2>3, <2>4, <2>5, <2>6
<1>2. CASE phase # "watching"
      BY <1>2 DEF Notify, TypeOK, PutsNameNodes, Announced
<1> QED BY <1>1, <1>2

LEMMA RegisterKeepsInv ==
  ASSUME ViewInv, NEW a \in Addrs, Register(a)
  PROVE  ViewInv'
<1>1. /\ events' \in Seq([type : {"put", "delete"}, value : Addrs \cup {NoAddr}])
      /\ PutsNameNodes'
      /\ \A b : Announced(b) => Announced(b)'
      /\ phase = "watching" => Announced(a)'
      BY NotifyAppends DEF Register, ViewInv
<1>2. TypeOK'
      BY <1>1, BoundAssumption DEF ViewInv, TypeOK, Register, Gap
<1>3. EveryPeerAccounted'
      BY <1>1 DEF ViewInv, EveryPeerAccounted, Register, Gap
<1>4. OnlineAfterMigration'
      BY DEF ViewInv, OnlineAfterMigration, Routable, Register
<1>5. PresentOnly'
      BY DEF ViewInv, PresentOnly, Register, Notify
<1> QED BY <1>1, <1>2, <1>3, <1>4, <1>5 DEF ViewInv

LEMMA UnregisterKeepsInv ==
  ASSUME ViewInv, NEW a \in Addrs, Unregister(a)
  PROVE  ViewInv'
<1>1. /\ events' \in Seq([type : {"put", "delete"}, value : Addrs \cup {NoAddr}])
      /\ PutsNameNodes'
      /\ \A b : Announced(b) => Announced(b)'
      BY NotifyAppends DEF Unregister, ViewInv
<1>2. TypeOK'
      BY <1>1 DEF ViewInv, TypeOK, Unregister, Gap
<1>3. EveryPeerAccounted'
      BY <1>1 DEF ViewInv, EveryPeerAccounted, Unregister, Gap
<1>4. OnlineAfterMigration'
      BY DEF ViewInv, OnlineAfterMigration, Routable, Unregister
<1>5. PresentOnly'
      BY DEF ViewInv, PresentOnly, Unregister, Notify
<1> QED BY <1>1, <1>2, <1>3, <1>4, <1>5 DEF ViewInv

(* What becomes of the event at the head of the queue, and of the others.  *)
LEMMA HandleKeepsInv ==
  ASSUME ViewInv, HandleEvent
  PROVE  ViewInv'
<1> DEFINE e == Head(events)
<1>1. /\ events \in Seq([type : {"put", "delete"}, value : Addrs \cup {NoAddr}])
      /\ events # <<>> /\ events' = Tail(events)
      BY DEF ViewInv, TypeOK, HandleEvent
<1>2. /\ Len(events) \in Nat \ {0}
      /\ Len(events') = Len(events) - 1
      /\ \A i \in 1..Len(events') : events'[i] = events[i + 1]
      /\ events' \in Seq([type : {"put", "delete"}, value : Addrs \cup {NoAddr}])
      /\ e = events[1]
      /\ e.type \in {"put", "delete"} /\ e = [type |-> e.type, value |-> e.value]
  <2>1. /\ Len(events) \in Nat \ {0}
        /\ Len(events') = Len(events) - 1
        /\ \A i \in 1..Len(events') : events'[i] = events[i + 1]
        /\ e = events[1]
        BY <1>1
  <2>2. events' \in Seq([type : {"put", "delete"}, value : Addrs \cup {NoAddr}])
        BY <1>1
  <2>3. e \in [type : {"put", "delete"}, value : Addrs \cup {NoAddr}]
    <3> DEFINE E == [type : {"put", "delete"}, value : Addrs \cup {NoAddr}]
    <3>1. events \in Seq(E) /\ 1 \in 1..Len(events)
          BY <1>1, <2>1
    <3> HIDE DEF E
    <3>2. events[1] \in E
          BY <3>1
    <3> QED BY <2>1, <3>2 DEF E
  <2> QED BY <2>1, <2>2, <2>3
<1>3. PutsNameNodes'
      BY <1>2 DEF ViewInv, PutsNameNodes
<1>4. e.type = "put" => e.value \in Addrs
      BY <1>2 DEF ViewInv, PutsNameNodes
<1>5. \A a : Announced(a) => Announced(a)' \/ e = [type |-> "put", value |-> a]
  <2> SUFFICES ASSUME NEW a, Announced(a)
               PROVE  Announced(a)' \/ e = [type |-> "put", value |-> a]
      OBVIOUS
  <2>1. PICK i \in 1..Len(events) : events[i] = [type |-> "put", value |-> a]
        BY DEF Announced
  <2>2. CASE i = 1
        BY <1>2, <2>1, <2>2
  <2>3. CASE i # 1
    <3>1. i - 1 \in 1..Len(events') /\ events'[i - 1] = events[i]
          BY <1>2, <2>3
    <3> QED BY <2>1, <3>1 DEF Announced
  <2> QED BY <2>2, <2>3
<1>6. /\ UNCHANGED <<registered, ups, phase, migrating, stranded, complete, early>>
      /\ \/ /\ UNCHANGED <<clients, unhealthy, starting, leaving, missed>>
            /\ e.type = "put" => e.value \in clients \cup {Self}
         \/ e.type = "put" /\ e.value # Self /\ HandlePut(e.value)
         \/ e.type = "delete" /\ e.value # Self /\ HandleDelete(e.value)
      BY <1>2 DEF HandleEvent, HandlePut
<1> HIDE DEF e
<1>7. TypeOK'
  <2>1. ASSUME NEW a \in Addrs \ {Self}, HandlePut(a)
        PROVE  TypeOK'
        BY <1>2, <1>6, <2>1 DEF ViewInv, TypeOK, HandlePut
  <2>2. ASSUME NEW a, HandleDelete(a)
        PROVE  TypeOK'
        BY <1>2, <1>6, <2>2 DEF ViewInv, TypeOK, HandleDelete
  <2>3. CASE UNCHANGED <<clients, unhealthy, starting, leaving, missed>>
        BY <1>2, <1>6, <2>3 DEF ViewInv, TypeOK
  <2> QED BY <1>4, <1>6, <2>1, <2>2, <2>3
<1>8. EveryPeerAccounted'
  <2> SUFFICES ASSUME NEW a \in registered \ {Self}
               PROVE  /\ phase = "fetched" => a \in clients' \cup missed'
                      /\ phase = "watching" => a \in clients' \cup missed' \/ Announced(a)'
      BY <1>6 DEF EveryPeerAccounted
  <2>1. a \in clients \cup missed => a \in clients' \cup missed'
        BY <1>6 DEF HandlePut, HandleDelete
  <2>2. e = [type |-> "put", value |-> a] => a \in clients' \cup missed'
        BY <1>6 DEF HandlePut
  <2> QED BY <1>5, <2>1, <2>2 DEF ViewInv, EveryPeerAccounted
<1>9. OnlineAfterMigration'
      BY <1>6 DEF ViewInv, OnlineAfterMigration, Routable, HandlePut, HandleDelete
<1>10. PresentOnly'
      BY <1>1, <1>6 DEF ViewInv, PresentOnly, HandlePut, HandleDelete
<1> QED BY <1>3, <1>7, <1>8, <1>9, <1>10 DEF ViewInv

(* The phases of startServiceDiscovery, and Close.                         *)
LEMMA PhaseKeepsInv ==
  ASSUME ViewInv, Fetch \/ StartWatch \/ Close
  PROVE  ViewInv'
<1>1. CASE Fetch
  <2>1. TypeOK' /\ PutsNameNodes' /\ EveryPeerAccounted' /\ OnlineAfterMigration'
        BY <1>1 DEF Fetch, ViewInv, TypeOK, PutsNameNodes, EveryPeerAccounted,
                    Announced, OnlineAfterMigration, Routable
  <2>2. PresentOnly'
        BY <1>1 DEF Fetch, ViewInv, PresentOnly
  <2> QED BY <2>1, <2>2 DEF ViewInv
<1>2. CASE StartWatch
      BY <1>2 DEF StartWatch, ViewInv, TypeOK, PutsNameNodes, EveryPeerAccounted,
                  PresentOnly, Announced, OnlineAfterMigration, Routable
<1>3. CASE Close
      BY <1>3 DEF Close, ViewInv, TypeOK, PutsNameNodes, EveryPeerAccounted,
                  PresentOnly, Announced, OnlineAfterMigration, Routable
<1> QED BY <1>1, <1>2, <1>3

(* The goroutines a PUT and a DELETE start.                                *)
LEMMA GoroutineKeepsInv ==
  ASSUME ViewInv, NEW a \in Addrs, MigrationStart(a) \/ MigrationEnd(a) \/ remove(a)
  PROVE  ViewInv'
<1>1. UNCHANGED <<registered, ups, phase, events>>
      BY DEF MigrationStart, MigrationEnd, remove
<1>2. PutsNameNodes' /\ \A b : Announced(b)' = Announced(b)
      BY <1>1 DEF ViewInv, PutsNameNodes, Announced
<1>3. /\ TypeOK /\ PresentOnly
      /\ migrating[a] \in Nat /\ stranded[a] \in Nat
      BY DEF ViewInv, TypeOK
<1>4. TypeOK'
  <2>1. CASE MigrationStart(a)
        BY <1>1, <1>3, <2>1 DEF TypeOK, MigrationStart
  <2>2. CASE MigrationEnd(a)
    <3>1. /\ migrating' \in [Addrs -> Nat] /\ stranded' \in [Addrs -> Nat]
          /\ complete' \subseteq Addrs /\ early' \subseteq Addrs
      <4>1. migrating[a] > 0 => migrating[a] - 1 \in Nat
            BY <1>3
      <4>2. stranded[a] > 0 => stranded[a] - 1 \in Nat
            BY <1>3
      <4> QED BY <1>3, <2>2, <4>1, <4>2 DEF TypeOK, MigrationEnd, Migrated
    <3> QED BY <1>1, <1>3, <2>2, <3>1 DEF TypeOK, MigrationEnd
  <2>3. CASE remove(a)
    <3>1. /\ migrating' \in [Addrs -> Nat] /\ stranded' \in [Addrs -> Nat]
          /\ complete' \subseteq Addrs /\ early' \subseteq Addrs
      <4>1. stranded[a] + migrating[a] \in Nat
            BY <1>3
      <4>2. /\ migrating' = [migrating EXCEPT ![a] = 0]
            /\ stranded' = [stranded EXCEPT ![a] = stranded[a] + migrating[a]]
            /\ complete' = complete \ {a} /\ early' = early \ {a}
            BY <2>3 DEF remove, Stranding
      <4> QED BY <1>3, <4>1, <4>2 DEF TypeOK
    <3>2. /\ clients' \subseteq Addrs \ {Self} /\ unhealthy' \subseteq Addrs \ {Self}
          /\ missed' \subseteq Addrs /\ starting' = starting
          BY <1>3, <2>3 DEF TypeOK, remove
    <3>3. leaving' \in [Addrs -> Nat]
      <4>1. leaving[a] > 0 => leaving[a] - 1 \in Nat
            BY <1>3 DEF TypeOK
      <4> QED BY <1>3, <2>3, <4>1 DEF TypeOK, remove
    <3> QED BY <1>1, <1>3, <3>1, <3>2, <3>3 DEF TypeOK
  <2> QED BY <2>1, <2>2, <2>3
<1>5. EveryPeerAccounted'
  <2>1. (clients \cup missed) \cap registered \subseteq clients' \cup missed'
        BY DEF MigrationStart, MigrationEnd, remove
  <2> QED BY <1>1, <1>2, <2>1 DEF ViewInv, EveryPeerAccounted
<1>6. PresentOnly'
  <2>1. CASE MigrationStart(a)
        BY <1>3, <2>1 DEF PresentOnly, MigrationStart
  <2>2. CASE MigrationEnd(a)
    <3>1. clients' = clients /\ Migrated(a)
          BY <2>2 DEF MigrationEnd
    <3>2. \A b \in Addrs : migrating'[b] > 0 => migrating[b] > 0
          BY <1>3, <3>1 DEF TypeOK, Migrated
    <3>3. complete' \cup early' \subseteq clients
          BY <1>3, <3>1 DEF PresentOnly, Migrated
    <3> QED BY <1>1, <1>3, <3>1, <3>2, <3>3 DEF PresentOnly
  <2>3. CASE remove(a)
    <3>1. /\ clients' = clients \ {a} /\ complete' = complete \ {a} /\ early' = early \ {a}
          /\ migrating' = [migrating EXCEPT ![a] = 0]
          BY <2>3 DEF remove, Stranding
    <3>2. \A b \in Addrs : migrating'[b] > 0 => b # a /\ migrating[b] > 0
          BY <1>3, <3>1 DEF TypeOK
    <3> QED BY <1>1, <1>3, <3>1, <3>2 DEF PresentOnly
  <2> QED BY <2>1, <2>2, <2>3
<1>7. OnlineAfterMigration'
  <2> SUFFICES ASSUME NEW b \in Addrs, Routable(b)' PROVE b \in complete' \cup early'
      BY DEF OnlineAfterMigration
  <2>1. Routable(b) => b \in complete \cup early
        BY DEF ViewInv, OnlineAfterMigration
  <2>2. CASE MigrationStart(a)
        BY <2>1, <2>2 DEF Routable, MigrationStart
  <2>3. CASE MigrationEnd(a)
        BY <2>1, <2>3 DEF Routable, MigrationEnd, Migrated
  <2>4. CASE remove(a)
        BY <2>1, <2>4 DEF Routable, remove, Stranding
  <2> QED BY <2>2, <2>3, <2>4
<1> QED BY <1>2, <1>4, <1>5, <1>6, <1>7 DEF ViewInv

LEMMA NextKeepsViewInv == ViewInv /\ [Next]_vars => ViewInv'
<1> SUFFICES ASSUME ViewInv, [Next]_vars
             PROVE  ViewInv'
    OBVIOUS
<1>1. CASE Next
      BY <1>1, RegisterKeepsInv, UnregisterKeepsInv, HandleKeepsInv, PhaseKeepsInv,
         GoroutineKeepsInv DEF Next
<1>2. CASE UNCHANGED vars
      BY <1>2 DEF vars, ViewInv, TypeOK, PutsNameNodes, EveryPeerAccounted,
                  PresentOnly, Announced, OnlineAfterMigration, Routable
<1> QED BY <1>1, <1>2

THEOREM ViewInvariance == Spec => []ViewInv
BY InitViewInv, NextKeepsViewInv, PTL DEF Spec

(* README: no key is routed to a node that was discovered before a         *)
(* migration to it has ended, whatever PUTs, DELETEs, migrations and       *)
(* removals of it cross: one to its present client, or one that its removal*)
(* has cut off and that ends after its return (peers.go:152-155, 171-182,  *)
(* 433-437).                                                               *)
THEOREM NoRouteBeforeMigration == Spec => []OnlineAfterMigration
<1>1. ViewInv => OnlineAfterMigration
      BY DEF ViewInv
<1> QED BY <1>1, ViewInvariance, PTL

(* DELETE events are as etcd sends them, with the key and no value.        *)
EtcdDeletes == DeleteNames = {FALSE}

(* Then no node is taken to leave, none is removed, no migration cut off.  *)
NobodyLeaves ==
  /\ \A i \in 1..Len(events) : events[i].type = "delete" => events[i].value = NoAddr
  /\ \A a \in Addrs : leaving[a] = 0 /\ stranded[a] = 0
  /\ early = {}

LEMMA NextKeepsNobodyLeaves ==
  ASSUME EtcdDeletes, ViewInv, NobodyLeaves, [Next]_vars
  PROVE  NobodyLeaves'
<1>1. /\ events \in Seq([type : {"put", "delete"}, value : Addrs \cup {NoAddr}])
      /\ Len(events) \in Nat /\ clients \subseteq Addrs
      /\ leaving \in [Addrs -> Nat] /\ stranded \in [Addrs -> Nat]
      BY DEF ViewInv, TypeOK
<1>2. ASSUME UNCHANGED <<leaving, stranded, early>>,
             \/ events' \in {events, <<>>}
             \/ \E a \in Addrs : Notify("put", a)
             \/ Notify("delete", NoAddr)
             \/ events # <<>> /\ events' = Tail(events)
      PROVE  NobodyLeaves'
  <2> DEFINE Told(q) == \A i \in 1..Len(q) : q[i].type = "delete" => q[i].value = NoAddr
  <2>1. Told(events)
        BY DEF NobodyLeaves
  <2>2. ASSUME NEW e, Notify(e.type, e.value), e = [type |-> e.type, value |-> e.value],
               e.type = "delete" => e.value = NoAddr
        PROVE  Told(events')
    <3>1. CASE phase = "watching"
      <4>1. events' = Append(events, e)
            BY <2>2, <3>1 DEF Notify
      <4>2. /\ Len(events') = Len(events) + 1 /\ events'[Len(events) + 1] = e
            /\ \A i \in 1..Len(events) : events'[i] = events[i]
            BY <1>1, <4>1
      <4> QED BY <1>1, <2>1, <2>2, <4>2
    <3>2. CASE phase # "watching"
          BY <2>1, <2>2, <3>2 DEF Notify
    <3> QED BY <3>1, <3>2
  <2>3. ASSUME events' \in {events, <<>>} PROVE Told(events')
        BY <2>1, <2>3
  <2>4. ASSUME \E a \in Addrs : Notify("put", a) PROVE Told(events')
    <3>1. PICK a \in Addrs : Notify("put", a)
          BY <2>4
    <3> DEFINE e == [type |-> "put", value |-> a]
    <3>2. e.type = "put" /\ e.value = a
          OBVIOUS
    <3> HIDE DEF Told
    <3> QED BY <2>2, <3>1, <3>2
  <2>5. ASSUME Notify("delete", NoAddr) PROVE Told(events')
    <3> DEFINE e == [type |-> "delete", value |-> NoAddr]
    <3>1. e.type = "delete" /\ e.value = NoAddr
          OBVIOUS
    <3> HIDE DEF Told
    <3> QED BY <2>2, <2>5, <3>1
  <2>6. ASSUME events # <<>>, events' = Tail(events) PROVE Told(events')
    <3>1. Len(events') = Len(events) - 1 /\ \A i \in 1..Len(events') : events'[i] = events[i + 1]
          BY <1>1, <2>6
    <3>2. \A i \in 1..Len(events') : i + 1 \in 1..Len(events)
          BY <1>1, <3>1
    <3> QED BY <2>1, <3>1, <3>2
  <2>7. Told(events')
    <3> HIDE DEF Told
    <3> QED BY <1>2, <2>3, <2>4, <2>5, <2>6
  <2> QED BY <1>2, <2>7 DEF NobodyLeaves
<1>3. CASE HandleEvent
  <2>1. Head(events) = events[1] /\ 1 \in 1..Len(events)
        BY <1>1, <1>3 DEF HandleEvent
  <2>2. Head(events).type = "delete" => Head(events).value \notin clients
        BY <1>1, <2>1, AddrAssumption DEF NobodyLeaves
  <2>3. UNCHANGED <<leaving, stranded, early>> /\ events # <<>> /\ events' = Tail(events)
        BY <1>3, <2>2 DEF HandleEvent, HandlePut
  <2> QED BY <1>2, <2>3
<1>4. ASSUME NEW a \in Addrs, Register(a) \/ Unregister(a)
      PROVE  NobodyLeaves'
  <2>1. UNCHANGED <<leaving, stranded, early>>
        BY <1>4 DEF Register, Unregister
  <2>2. Notify("put", a) \/ Notify("delete", NoAddr)
        BY <1>4 DEF Register, Unregister, EtcdDeletes
  <2> QED BY <1>2, <2>1, <2>2
<1>5. CASE Fetch \/ StartWatch \/ Close \/ UNCHANGED vars
  <2>1. UNCHANGED <<leaving, stranded, early>> /\ events' \in {events, <<>>}
        BY <1>5 DEF Fetch, StartWatch, Close, vars
  <2> QED BY <1>2, <2>1
<1>6. ASSUME NEW a \in Addrs, MigrationStart(a) \/ MigrationEnd(a)
      PROVE  NobodyLeaves'
  <2>1. stranded[a] = 0
        BY DEF NobodyLeaves
  <2>2. UNCHANGED <<events, leaving, stranded, early>>
        BY <1>6, <2>1 DEF MigrationStart, MigrationEnd, Migrated
  <2> QED BY <1>2, <2>2
<1>7. ASSUME NEW a \in Addrs, remove(a)
      PROVE  FALSE
  <2>1. leaving[a] = 0 /\ leaving[a] > 0
        BY <1>7 DEF NobodyLeaves, remove
  <2> QED BY <2>1
<1> QED BY <1>3, <1>4, <1>5, <1>6, <1>7 DEF Next

(* With the DELETE events etcd sends, a node that was discovered gets no   *)
(* key before a migration to the client it is known by has ended, without  *)
(* exception (peers.go:145, 152-155, 433-437).                             *)
THEOREM MigratedFirst ==
  ASSUME EtcdDeletes
  PROVE  Spec => [](\A a \in Addrs : Routable(a) => a \in complete)
<1> DEFINE Migrated1 == \A a \in Addrs : Routable(a) => a \in complete
<1>1. Init => NobodyLeaves
      BY DEF Init, NobodyLeaves
<1>2. ViewInv /\ NobodyLeaves => Migrated1
      BY DEF ViewInv, NobodyLeaves, OnlineAfterMigration
<1>3. ViewInv /\ NobodyLeaves /\ [Next]_vars => NobodyLeaves'
      BY NextKeepsNobodyLeaves
<1> HIDE DEF Migrated1
<1>4. Spec => []Migrated1
      BY <1>1, <1>2, <1>3, ViewInvariance, PTL DEF Spec
<1> QED BY <1>4 DEF Migrated1

(* With its events handled, a node knows every node in etcd but for those  *)
(* it lost sight of between fetch and watch, by a dial, or by a removal    *)
(* that came late (peers.go:114, 125, 152, 177, 210).                      *)
THEOREM NoPeerForgotten == Spec => []ViewComplete
<1>1. ViewInv => ViewComplete
      BY DEF ViewInv, EveryPeerAccounted, ViewComplete, Announced
<1> QED BY <1>1, ViewInvariance, PTL

-----------------------------------------------------------------------------
(* A set of natural numbers has a least one.                               *)
LEMMA LeastOf ==
  ASSUME NEW T \in SUBSET Nat, T # {}
  PROVE  \E x \in T : \A y \in T : x <= y
<1>1. IsWellFoundedOn(OpToRel(<, Nat), Nat)
  BY NatLessThanWellFounded
<1>2. OpToRel(<, Nat) = {ss \in Nat \X Nat : ss[1] < ss[2]}
  BY DEF OpToRel
<1>3. PICK x \in T : \A y \in T : ~(<<y, x>> \in OpToRel(<, Nat))
  BY <1>1, WFMin
<1>4. ASSUME NEW y \in T PROVE x <= y
  <2>1. x \in Nat /\ y \in Nat
    OBVIOUS
  <2>2. ~(y < x)
    BY <1>2, <1>3, <2>1
  <2> QED BY <2>1, <2>2
<1> QED BY <1>3, <1>4

(* A set of numbers up to R has a greatest one.                            *)
LEMMA GreatestOf ==
  ASSUME NEW R \in Nat, NEW d \in SUBSET (1..R), d # {}
  PROVE  Max(d) \in d
<1> DEFINE up == {R - i : i \in d}
<1>1. \A i \in d : i \in Nat /\ R - i \in Nat
  OBVIOUS
<1>2. up \in SUBSET Nat /\ up # {}
  BY <1>1
<1>3. PICK x \in up : \A y \in up : x <= y
  <2> HIDE DEF up
  <2> QED BY <1>2, LeastOf
<1>4. PICK m \in d : x = R - m
  OBVIOUS
<1>5. ASSUME NEW i \in d PROVE m >= i
  <2>1. R - m <= R - i
    BY <1>3, <1>4
  <2>2. i \in Nat /\ m \in Nat
    BY <1>1
  <2> QED BY <2>1, <2>2
<1>6. \E z \in d : \A y \in d : z >= y
  BY <1>5
<1> QED BY <1>6 DEF Max

(* How many numbers of S are less than x.                                  *)
Rank(S, x) == Cardinality({y \in S : y < x})

(* A greater number has more numbers below it.                             *)
LEMMA RankGrows ==
  ASSUME NEW S \in SUBSET Nat, IsFiniteSet(S), NEW x \in S
  PROVE  /\ Rank(S, x) \in 0..Cardinality(S) - 1
         /\ \A y \in S : x < y => Rank(S, x) < Rank(S, y)
<1> DEFINE Below(z) == {y \in S : y < z}
<1>1. \A z : IsFiniteSet(Below(z)) /\ Cardinality(Below(z)) \in Nat
        /\ Cardinality(Below(z)) <= Cardinality(S)
        /\ (Cardinality(Below(z)) = Cardinality(S) => Below(z) = S)
  BY FS_Subset, FS_CardinalityType
<1>2. x \in Nat /\ x \notin Below(x)
  OBVIOUS
<1>3. Cardinality(S) \in Nat
  BY FS_CardinalityType
<1>4. Cardinality(Below(x)) # Cardinality(S)
  <2> HIDE DEF Below
  <2>1. Below(x) # S
    BY <1>2
  <2> QED BY <1>1, <2>1
<1>5. ASSUME NEW y \in S, x < y PROVE Cardinality(Below(x)) < Cardinality(Below(y))
  <2>1. Below(x) \in SUBSET Below(y) /\ x \in Below(y)
    <3>1. y \in Nat /\ \A z \in S : z \in Nat
      OBVIOUS
    <3>2. \A z \in S : z < x => z < y
      BY <1>2, <1>5, <3>1
    <3> QED BY <1>5, <3>2
  <2> HIDE DEF Below
  <2>2. Cardinality(Below(x)) <= Cardinality(Below(y)) /\ Cardinality(Below(x)) # Cardinality(Below(y))
    BY <1>1, <1>2, <2>1, FS_Subset
  <2> QED BY <1>1, <2>2
<1>6. Rank(S, x) = Cardinality(Below(x)) /\ \A y : Rank(S, y) = Cardinality(Below(y))
  BY DEF Rank
<1> HIDE DEF Below
<1>7. Rank(S, x) \in 0..Cardinality(S) - 1
  BY <1>1, <1>3, <1>4, <1>6
<1> QED BY <1>5, <1>6, <1>7

(* Numbers that have as many below them are the same.                      *)
LEMMA RankTells ==
  ASSUME NEW S \in SUBSET Nat, IsFiniteSet(S), NEW x \in S, NEW y \in S,
         Rank(S, x) = Rank(S, y)
  PROVE  x = y
<1>1. ~(x < y) /\ ~(y < x)
  <2>1. Rank(S, x) \in Nat
    BY RankGrows, FS_CardinalityType
  <2> QED BY <2>1, RankGrows
<1> QED BY <1>1

(* t lists the numbers of S, each once, from the least to the greatest.    *)
Lists(t, S) ==
  /\ t \in Seq(S) /\ Len(t) = Cardinality(S)
  /\ \A i, j \in 1..Len(t) : i < j => t[i] < t[j]
  /\ \A x \in S : \E i \in 1..Len(t) : t[i] = x

LEMMA InOrderLists ==
  ASSUME NEW S \in SUBSET Nat, IsFiniteSet(S)
  PROVE  Lists(InOrder(S), S)
<1> DEFINE n == Cardinality(S)
           t == InOrder(S)
           r == [x \in S |-> Rank(S, x)]
<1>0. n \in Nat /\ n - 1 \in Int
  BY FS_CardinalityType
<1>1. r \in Injection(S, 0..n - 1)
  <2>1. r \in [S -> 0..n - 1]
    BY RankGrows
  <2>2. \A x, y \in S : r[x] = r[y] => x = y
    BY RankTells
  <2> QED BY <2>1, <2>2 DEF Injection, IsInjective
<1>2. IsFiniteSet(0..n - 1) /\ Cardinality(0..n - 1) = n
  <2>1. 0 \in Int
    OBVIOUS
  <2>2. IsFiniteSet(0..n - 1) /\ Cardinality(0..n - 1) = IF 0 > n - 1 THEN 0 ELSE (n - 1) - 0 + 1
    BY <1>0, <2>1, FS_Interval
  <2> HIDE DEF n
  <2> QED BY <1>0, <2>2
<1>3. r \in Surjection(S, 0..n - 1)
  <2> HIDE DEF r
  <2> QED BY <1>1, <1>2, FS_Injection
<1>4. ASSUME NEW k \in 1..n PROVE t[k] \in S /\ Rank(S, t[k]) = k - 1
  <2>1. k - 1 \in 0..n - 1
    BY <1>0
  <2>2. \E x \in S : Cardinality({y \in S : y < x}) = k - 1
    BY <1>3, <2>1 DEF Surjection, Rank
  <2>3. t[k] = CHOOSE x \in S : Cardinality({y \in S : y < x}) = k - 1
    BY DEF InOrder
  <2> QED BY <2>2, <2>3 DEF Rank
<1>5. t \in [1..n -> S]
  <2>1. t = [k \in 1..n |-> t[k]]
    BY DEF InOrder
  <2> HIDE DEF t
  <2> QED BY <1>4, <2>1
<1>6. t \in Seq(S) /\ Len(t) = n
  <2> HIDE DEF t, n
  <2> QED BY <1>0, <1>5, LenProperties
<1> HIDE DEF t, n
<1>7. ASSUME NEW i \in 1..n, NEW j \in 1..n, i < j PROVE t[i] < t[j]
  <2>1. t[i] \in Nat /\ t[j] \in Nat /\ t[i] \in S /\ t[j] \in S
    BY <1>4
  <2>2. t[i] # t[j] /\ ~(t[j] < t[i])
    <3>1. Rank(S, t[i]) = i - 1 /\ Rank(S, t[j]) = j - 1 /\ i \in Nat /\ j \in Nat
      BY <1>0, <1>4
    <3>2. ~(Rank(S, t[j]) < Rank(S, t[i])) /\ Rank(S, t[i]) # Rank(S, t[j])
      BY <1>7, <3>1
    <3>3. t[j] < t[i] => Rank(S, t[j]) < Rank(S, t[i])
      BY <2>1, RankGrows
    <3> QED BY <3>2, <3>3
  <2> QED BY <2>1, <2>2
<1>8. ASSUME NEW x \in S PROVE \E i \in 1..n : t[i] = x
  <2>1. Rank(S, x) \in 0..n - 1
    <3> USE DEF n
    <3> QED BY RankGrows
  <2>2. Rank(S, x) + 1 \in 1..n /\ (Rank(S, x) + 1) - 1 = Rank(S, x)
    BY <1>0, <2>1
  <2>3. t[Rank(S, x) + 1] \in S /\ Rank(S, t[Rank(S, x) + 1]) = Rank(S, x)
    <3> DEFINE k == Rank(S, x) + 1
    <3>1. k \in 1..n /\ k - 1 = Rank(S, x)
      BY <2>2
    <3> HIDE DEF k
    <3>2. t[k] \in S /\ Rank(S, t[k]) = Rank(S, x)
      BY <1>4, <3>1
    <3> QED BY <3>2 DEF k
  <2>4. t[Rank(S, x) + 1] = x
    <3>1. PICK y \in S : y = t[Rank(S, x) + 1]
      BY <2>3
    <3>2. Rank(S, y) = Rank(S, x)
      BY <2>3, <3>1
    <3>3. y = x
      BY <3>2, RankTells
    <3> QED BY <3>1, <3>3
  <2> QED BY <2>2, <2>4
<1> QED BY <1>6, <1>7, <1>8 DEF Lists, t, n

LEMMA InOrderFunction ==
  ASSUME NEW S
  PROVE  InOrder(S) = [k \in 1..Cardinality(S) |-> InOrder(S)[k]]
<1> DEFINE n == Cardinality(S)
           t == InOrder(S)
<1>1. t = [k \in 1..n |-> t[k]]
  BY DEF InOrder
<1> QED BY <1>1

(* There is no other such list.                                            *)
LEMMA ListIsInOrder ==
  ASSUME NEW S \in SUBSET Nat, NEW t \in Seq(S),
         \A i, j \in 1..Len(t) : i < j => t[i] < t[j],
         \A x \in S : \E i \in 1..Len(t) : t[i] = x
  PROVE  IsFiniteSet(S) /\ Len(t) = Cardinality(S) /\ t = InOrder(S)
<1> DEFINE m == Len(t)
<1>0. m \in Nat /\ t \in [1..m -> S]
  BY LenProperties
<1>1. ASSUME NEW k \in Nat, k <= m
      PROVE  /\ IsFiniteSet({t[i] : i \in 1..k})
             /\ Cardinality({t[i] : i \in 1..k}) = k
  <2> DEFINE R == {t[i] : i \in 1..k}
             f == [i \in 1..k |-> t[i]]
  <2>1. f \in Bijection(1..k, R)
    <3>1. f \in [1..k -> R] /\ \A x \in R : \E i \in 1..k : f[i] = x
      OBVIOUS
    <3>2. ASSUME NEW i \in 1..k, NEW j \in 1..k, f[i] = f[j] PROVE i = j
      <4>1. i \in 1..m /\ j \in 1..m /\ t[i] = t[j]
        BY <1>0, <1>1, <3>2
      <4>3. t[i] \in Nat /\ t[j] \in Nat /\ i \in Nat /\ j \in Nat
        <5>1. t[i] \in S /\ t[j] \in S
          BY <1>0, <4>1
        <5>2. t[i] \in Nat /\ t[j] \in Nat
          BY <5>1
        <5>3. i \in Nat /\ j \in Nat
          BY <1>1
        <5> QED BY <5>2, <5>3
      <4>2. ~(i < j) /\ ~(j < i)
        BY <4>1, <4>3
      <4> QED BY <4>2, <4>3
    <3> QED BY <3>1, <3>2 DEF Bijection, Injection, Surjection, IsInjective
  <2>2. ExistsBijection(1..k, R)
    BY <2>1 DEF ExistsBijection
  <2>3. IsFiniteSet(1..k) /\ Cardinality(1..k) = k
    <3>1. 1 \in Int /\ k \in Int
      OBVIOUS
    <3>2. IsFiniteSet(1..k) /\ Cardinality(1..k) = IF 1 > k THEN 0 ELSE k - 1 + 1
      BY <3>1, FS_Interval
    <3> QED BY <3>2
  <2> HIDE DEF R
  <2>4. IsFiniteSet(R) /\ Cardinality(R) = k
    BY <2>2, <2>3, FS_Bijection
  <2> QED BY <2>4 DEF R
<1>2. S = {t[i] : i \in 1..m}
  BY <1>0
<1>3. IsFiniteSet(S) /\ Cardinality(S) = m
  <2>1. m \in Nat /\ m <= m
    BY <1>0
  <2> HIDE DEF m
  <2> QED BY <1>1, <1>2, <2>1
<1>4. ASSUME NEW k \in 1..m PROVE Rank(S, t[k]) = k - 1
  <2>1. k - 1 \in Nat /\ k - 1 <= m
    BY <1>0
  <2>2. {y \in S : y < t[k]} = {t[i] : i \in 1..k - 1}
    <3>1. ASSUME NEW i \in 1..m PROVE t[i] < t[k] <=> i < k
      <4>1. t[i] \in Nat /\ t[k] \in Nat /\ (i < k => t[i] < t[k]) /\ (k < i => t[k] < t[i])
        BY <1>0
      <4>2. i \in Nat /\ k \in Nat /\ (i < k \/ i = k \/ k < i)
        BY <1>0
      <4>3. CASE i = k
        BY <4>1, <4>2, <4>3
      <4> QED BY <4>1, <4>2, <4>3
    <3>2. \A i \in 1..m : i < k <=> i \in 1..k - 1
      BY <1>0
    <3>3. \A i \in 1..k - 1 : i \in 1..m
      BY <1>0
    <3> QED BY <1>2, <3>1, <3>2, <3>3
  <2>3. Cardinality({t[i] : i \in 1..k - 1}) = k - 1
    BY <1>1, <2>1
  <2> QED BY <2>2, <2>3 DEF Rank
<1>5. ASSUME NEW k \in 1..m PROVE t[k] = InOrder(S)[k]
  <2>1. InOrder(S)[k] = CHOOSE x \in S : Cardinality({y \in S : y < x}) = k - 1
    BY <1>3 DEF InOrder
  <2>2. t[k] \in S /\ Cardinality({y \in S : y < t[k]}) = k - 1
    BY <1>0, <1>4 DEF Rank
  <2>3. InOrder(S)[k] \in S /\ Rank(S, InOrder(S)[k]) = k - 1
    BY <2>1, <2>2 DEF Rank
  <2>4. PICK y \in S : y = InOrder(S)[k]
    BY <2>3
  <2>5. PICK x \in S : x = t[k]
    BY <2>2
  <2>6. Rank(S, x) = Rank(S, y)
    BY <1>4, <2>3, <2>4, <2>5
  <2>7. x = y
    BY <1>3, <2>6, RankTells
  <2> QED BY <2>4, <2>5, <2>7
<1>6. InOrder(S) = [k \in 1..m |-> InOrder(S)[k]]
  <2> HIDE DEF m
  <2> QED BY <1>3, InOrderFunction
<1>7. t = InOrder(S)
  <2> HIDE DEF m
  <2> QED BY <1>0, <1>5, <1>6
<1> QED BY <1>3, <1>7

(* The elements of a list with one taken out.                              *)
LEMMA RemoveAtElements ==
  ASSUME NEW E, NEW s \in Seq(E), NEW p \in 1..Len(s)
  PROVE  LET r == RemoveAt(s, p) IN
         /\ r \in Seq(E) /\ Len(r) = Len(s) - 1
         /\ \A i \in 1..Len(s) - 1 : r[i] = IF i < p THEN s[i] ELSE s[i + 1]
<1> DEFINE a == SubSeq(s, 1, p - 1)
           b == SubSeq(s, p + 1, Len(s))
<1>0. Len(s) \in Nat /\ \A i \in 1..Len(s) : s[i] \in E
  BY LenProperties
<1>1. a \in Seq(E) /\ Len(a) = p - 1 /\ \A i \in 1..p - 1 : a[i] = s[i]
  <2>1. 1 \in Int /\ p - 1 \in Int /\ \A i \in 1..p - 1 : s[i] \in E
    BY <1>0
  <2>2. /\ a \in Seq(E) /\ Len(a) = IF 1 <= p - 1 THEN (p - 1) - 1 + 1 ELSE 0
        /\ \A i \in 1..(p - 1) - 1 + 1 : a[i] = s[1 + i - 1]
    BY <2>1, SubSeqProperties
  <2> HIDE DEF a
  <2>3. Len(a) = p - 1 /\ (p - 1) - 1 + 1 = p - 1
    BY <1>0, <2>2
  <2>4. ASSUME NEW i \in 1..p - 1 PROVE a[i] = s[i]
    <3>1. 1 + i - 1 = i /\ i \in 1..(p - 1) - 1 + 1
      BY <1>0
    <3>2. a[i] = s[1 + i - 1]
      BY <2>2, <3>1
    <3> QED BY <3>1, <3>2
  <2> QED BY <2>2, <2>3, <2>4
<1>2. b \in Seq(E) /\ Len(b) = Len(s) - p /\ \A i \in 1..Len(s) - p : b[i] = s[p + i]
  <2>1. p + 1 \in Int /\ Len(s) \in Int /\ \A i \in p + 1..Len(s) : s[i] \in E
    BY <1>0
  <2>2. /\ b \in Seq(E)
        /\ Len(b) = IF p + 1 <= Len(s) THEN Len(s) - (p + 1) + 1 ELSE 0
        /\ \A i \in 1..Len(s) - (p + 1) + 1 : b[i] = s[(p + 1) + i - 1]
    BY <2>1, SubSeqProperties
  <2> HIDE DEF b
  <2>3. Len(b) = Len(s) - p /\ Len(s) - (p + 1) + 1 = Len(s) - p
    BY <1>0, <2>2
  <2>4. ASSUME NEW i \in 1..Len(s) - p PROVE b[i] = s[p + i]
    <3>1. (p + 1) + i - 1 = p + i /\ i \in 1..Len(s) - (p + 1) + 1
      BY <1>0
    <3>2. b[i] = s[(p + 1) + i - 1]
      BY <2>2, <3>1
    <3> QED BY <3>1, <3>2
  <2> QED BY <2>2, <2>3, <2>4
<1>3. RemoveAt(s, p) = a \o b
  BY DEF RemoveAt
<1> HIDE DEF a, b
<1>4. /\ a \o b \in Seq(E) /\ Len(a \o b) = Len(a) + Len(b)
      /\ \A i \in 1..Len(a) + Len(b) :
           (a \o b)[i] = IF i <= Len(a) THEN a[i] ELSE b[i - Len(a)]
  BY <1>1, <1>2, ConcatProperties
<1>5. ASSUME NEW i \in 1..Len(s) - 1
      PROVE  (a \o b)[i] = IF i < p THEN s[i] ELSE s[i + 1]
  <2>1. CASE i < p
    BY <2>1, <1>0, <1>1, <1>2, <1>4
  <2>2. CASE ~(i < p)
    <3>1. (a \o b)[i] = b[i - (p - 1)]
      BY <2>2, <1>0, <1>1, <1>2, <1>4
    <3>2. i - (p - 1) \in 1..Len(s) - p /\ p + (i - (p - 1)) = i + 1
      BY <2>2, <1>0
    <3> QED BY <3>1, <3>2, <1>2, <2>2
  <2> QED BY <2>1, <2>2
<1> QED
  BY <1>0, <1>1, <1>2, <1>3, <1>4, <1>5

(* Taking one number off an ordered list leaves the others in order.       *)
LEMMA RemoveFirstInOrder ==
  ASSUME NEW S \in SUBSET Nat, IsFiniteSet(S), NEW x \in S
  PROVE  RemoveFirst(InOrder(S), x) = InOrder(S \ {x})
<1> DEFINE s == InOrder(S)
           n == Len(s)
<1>1. Lists(s, S)
  BY InOrderLists
<1> HIDE DEF s
<1>2. s \in Seq(S) /\ n \in Nat /\ s \in [1..n -> S]
  BY <1>1, LenProperties DEF Lists
<1>3. \A i, j \in 1..n : i < j => s[i] < s[j]
  BY <1>1 DEF Lists
<1>4. \A y \in S : \E i \in 1..n : s[i] = y
  BY <1>1 DEF Lists
<1>5. ASSUME NEW i \in 1..n, NEW j \in 1..n, s[i] = s[j] PROVE i = j
  <2>1. s[i] \in Nat /\ i \in Nat /\ j \in Nat
    <3>1. s[i] \in S
      BY <1>2
    <3>2. s[i] \in Nat
      BY <3>1
    <3>3. i \in Nat /\ j \in Nat
      BY <1>2
    <3> QED BY <3>2, <3>3
  <2>2. ~(i < j) /\ ~(j < i)
    BY <1>3, <1>5, <2>1
  <2> QED BY <2>1, <2>2
<1> HIDE DEF n
<1>6. PICK p \in 1..n : s[p] = x
  BY <1>4
<1>7. RemoveFirst(s, x) = RemoveAt(s, p)
  <2> DEFINE I == {i \in 1..Len(s) : s[i] = x}
  <2>1. I = {p}
    BY <1>5, <1>6 DEF n
  <2>2. Min(I) = p
    <3>1. p <= p
      BY <1>2, <1>6
    <3> HIDE DEF I
    <3> QED BY <2>1, <3>1 DEF Min
  <2>3. SelectInSeq(s, LAMBDA v : v = x) = IF I # {} THEN Min(I) ELSE 0
    BY DEF SelectInSeq
  <2>4. \E i \in 1..Len(s) : s[i] = x
    BY <1>6 DEF n
  <2>5. RemoveFirst(s, x) = RemoveAt(s, SelectInSeq(s, LAMBDA v : v = x))
    BY <2>4 DEF RemoveFirst
  <2>6. SelectInSeq(s, LAMBDA v : v = x) = p
    <3> HIDE DEF I
    <3> QED BY <2>1, <2>2, <2>3
  <2> QED BY <2>5, <2>6
<1> DEFINE r == RemoveAt(s, p)
<1>8. /\ r \in Seq(S) /\ Len(r) = n - 1
      /\ \A i \in 1..n - 1 : r[i] = IF i < p THEN s[i] ELSE s[i + 1]
  BY <1>2, <1>6, RemoveAtElements DEF n
<1> HIDE DEF r
<1>9. ASSUME NEW i \in 1..n - 1
      PROVE  \E j \in 1..n : r[i] = s[j] /\ j # p /\ (i < p => j = i) /\ (~(i < p) => j = i + 1)
  <2>1. i \in 1..n /\ i + 1 \in 1..n /\ i \in Nat /\ p \in Nat
    BY <1>2, <1>6
  <2>2. CASE i < p
    BY <1>8, <2>1, <2>2
  <2>3. CASE ~(i < p)
    <3>1. r[i] = s[i + 1] /\ i + 1 # p
      BY <1>8, <2>1, <2>3
    <3> QED BY <2>1, <2>3, <3>1
  <2> QED BY <2>2, <2>3
<1>10. ASSUME NEW i \in 1..n - 1 PROVE r[i] \in S \ {x}
  BY <1>2, <1>5, <1>6, <1>9
<1>11. ASSUME NEW i \in 1..n - 1, NEW j \in 1..n - 1, i < j PROVE r[i] < r[j]
  <2>1. PICK k \in 1..n : r[i] = s[k] /\ (i < p => k = i) /\ (~(i < p) => k = i + 1)
    BY <1>9
  <2>2. PICK l \in 1..n : r[j] = s[l] /\ (j < p => l = j) /\ (~(j < p) => l = j + 1)
    BY <1>9
  <2>3. k < l
    BY <1>2, <1>6, <1>11, <2>1, <2>2
  <2> QED BY <1>3, <2>1, <2>2, <2>3
<1>12. ASSUME NEW y \in S \ {x} PROVE \E i \in 1..n - 1 : r[i] = y
  <2>1. PICK k \in 1..n : s[k] = y /\ k # p
    BY <1>4, <1>6
  <2>2. CASE k < p
    <3>1. k \in 1..n - 1
      BY <1>2, <1>6, <2>2
    <3> QED BY <1>8, <2>1, <2>2, <3>1
  <2>3. CASE p < k
    <3>1. k - 1 \in 1..n - 1 /\ ~(k - 1 < p) /\ (k - 1) + 1 = k
      BY <1>2, <1>6, <2>3
    <3> QED BY <1>8, <2>1, <3>1
  <2> QED BY <1>2, <1>6, <2>1, <2>2, <2>3
<1>13. r \in Seq(S \ {x})
  <2>1. r \in [1..n - 1 -> S \ {x}] /\ n - 1 \in Nat
    <3>1. r \in [1..n - 1 -> S]
      BY <1>8, LenProperties
    <3>2. n - 1 \in Nat
      BY <1>2, <1>6
    <3> QED BY <1>10, <3>1, <3>2
  <2> QED BY <2>1, LenProperties
<1>14. r = InOrder(S \ {x})
  <2>1. S \ {x} \in SUBSET Nat
    OBVIOUS
  <2> QED BY <1>8, <1>11, <1>12, <1>13, <2>1, ListIsInOrder
<1> QED BY <1>7, <1>14 DEF r, s

(* What the loop of Remove leaves (con_hash.go:104-113): the ring without  *)
(* the hashes of the node, each of them taken off once.                    *)
LEMMA RemovedInOrder ==
  ASSUME NEW S \in SUBSET Nat, IsFiniteSet(S), NEW R \in Nat, NEW s \in [1..R -> S],
         \A i, j \in 1..R : s[i] = s[j] => i = j
  PROVE  FoldLeft(RemoveFirst, InOrder(S), s) = InOrder(S \ {s[i] : i \in 1..R})
<1> DEFINE Gone(d) == {s[i] : i \in d}
           F(T) == T = [d \in SUBSET (1..R) |->
                          IF d = {} THEN InOrder(S)
                          ELSE RemoveFirst(T[d \ {Max(d)}], s[Max(d)])]
           fold == CHOOSE T : F(T)
           G == [d \in SUBSET (1..R) |-> InOrder(S \ Gone(d))]
<1>1. DOMAIN s = 1..R
  OBVIOUS
<1>2. FoldLeft(RemoveFirst, InOrder(S), s) = fold[1..R]
  BY <1>1 DEF FoldLeft, MapThenFoldSet
<1>3. ASSUME NEW d \in SUBSET (1..R), d # {} PROVE Max(d) \in d
  BY <1>3, GreatestOf
<1>4. ASSUME NEW d \in SUBSET (1..R), d # {}
      PROVE  G[d] = RemoveFirst(G[d \ {Max(d)}], s[Max(d)])
  <2> DEFINE e == d \ {Max(d)}
             m == Max(d)
  <2>1. m \in d /\ e \in SUBSET (1..R) /\ m \in 1..R
    BY <1>3, <1>4
  <2>2. G[d] = InOrder(S \ Gone(d)) /\ G[e] = InOrder(S \ Gone(e))
    BY <2>1
  <2>3. Gone(d) = Gone(e) \cup {s[m]} /\ s[m] \notin Gone(e) /\ s[m] \in S
    BY <2>1
  <2> HIDE DEF Gone, G
  <2>4. S \ Gone(e) \in SUBSET Nat /\ IsFiniteSet(S \ Gone(e)) /\ s[m] \in S \ Gone(e)
    BY <2>3, FS_Subset
  <2>5. RemoveFirst(InOrder(S \ Gone(e)), s[m]) = InOrder((S \ Gone(e)) \ {s[m]})
    BY <2>4, RemoveFirstInOrder
  <2>6. (S \ Gone(e)) \ {s[m]} = S \ Gone(d)
    BY <2>3
  <2> QED BY <2>2, <2>5, <2>6
<1>5. G[{}] = InOrder(S)
  <2>1. {} \in SUBSET (1..R) /\ S \ Gone({}) = S
    OBVIOUS
  <2> HIDE DEF Gone
  <2> QED BY <2>1
<1>6. F(G)
  <2>1. \A d \in SUBSET (1..R) : G[d] = IF d = {} THEN InOrder(S)
                                       ELSE RemoveFirst(G[d \ {Max(d)}], s[Max(d)])
    <3> HIDE DEF G
    <3> QED BY <1>4, <1>5
  <2>2. G = [d \in SUBSET (1..R) |-> G[d]]
    OBVIOUS
  <2> HIDE DEF G
  <2> QED BY <2>1, <2>2
<1>7. F(fold)
  <2> HIDE DEF F
  <2> QED BY <1>6
<1>8. \A d \in SUBSET (1..R) : fold[d] = IF d = {} THEN InOrder(S)
                                       ELSE RemoveFirst(fold[d \ {Max(d)}], s[Max(d)])
  <2> HIDE DEF fold
  <2> QED BY <1>7
<1> HIDE DEF fold, G, F
<1>9. \A d \in SUBSET (1..R) : fold[d] = G[d]
  <2> DEFINE Bad == {n \in Nat : \E d \in SUBSET (1..R) : Cardinality(d) = n /\ fold[d] # G[d]}
  <2>1. \A d \in SUBSET (1..R) : IsFiniteSet(d) /\ Cardinality(d) \in Nat
    <3>1. IsFiniteSet(1..R)
      <4>1. 1 \in Int /\ R \in Int
        OBVIOUS
      <4> QED BY <4>1, FS_Interval
    <3> QED BY <3>1, FS_Subset, FS_CardinalityType
  <2>2. Bad = {}
    <3> SUFFICES ASSUME Bad # {} PROVE FALSE
      OBVIOUS
    <3>1. PICK n \in Bad : \A y \in Bad : n <= y
      <4> HIDE DEF Bad
      <4>1. Bad \in SUBSET Nat
        BY DEF Bad
      <4> QED BY <4>1, LeastOf
    <3>2. PICK d \in SUBSET (1..R) : Cardinality(d) = n /\ fold[d] # G[d]
      OBVIOUS
    <3>3. d # {}
      BY <1>5, <1>8, <3>2
    <3>4. Max(d) \in d /\ Cardinality(d \ {Max(d)}) = n - 1
      BY <1>3, <2>1, <3>2, <3>3, FS_RemoveElement
    <3>5. n \in Nat /\ n - 1 \in Nat /\ d \ {Max(d)} \in SUBSET (1..R)
      BY <2>1, <3>4
    <3>6. ~(n <= n - 1)
      BY <3>5
    <3>7. n - 1 \notin Bad
      <4> HIDE DEF Bad
      <4> QED BY <3>1, <3>6
    <3>8. fold[d \ {Max(d)}] = G[d \ {Max(d)}]
      BY <3>4, <3>5, <3>7
    <3>9. fold[d] = RemoveFirst(fold[d \ {Max(d)}], s[Max(d)])
      BY <1>8, <3>3
    <3>10. G[d] = RemoveFirst(G[d \ {Max(d)}], s[Max(d)])
      BY <1>4, <3>3
    <3> QED BY <3>2, <3>8, <3>9, <3>10
  <2> QED BY <2>1, <2>2
<1>10. 1..R \in SUBSET (1..R) /\ G[1..R] = InOrder(S \ {s[i] : i \in 1..R})
  BY DEF G
<1> QED BY <1>2, <1>9, <1>10

-----------------------------------------------------------------------------
(* The points of a node, and of the nodes of M.                            *)
PointsOf(n) == {vhash[<<n, i>>] : i \in 0..(Replicas - 1)}
AllPoints(M) == {x \in Hashes : \E n \in M : x \in PointsOf(n)}

Placement ==
  /\ vhash \in [Virtual -> Hashes]
  /\ \A u, v \in Virtual : vhash[u] = vhash[v] => u = v

(* keys holds the points of the members, in order, and hashMap tells whose *)
(* they are; no node has more requests than there were.                    *)
RingInv ==
  /\ RingTypeOK /\ Placement
  /\ IsFiniteSet(Members)
  /\ keys = InOrder(AllPoints(Members))
  /\ DOMAIN hashMap = AllPoints(Members)
  /\ \A n \in Members : \A x \in PointsOf(n) : hashMap[x] = n
  /\ \A n \in Members : nodeCounts[n] <= totalRequests

(* Numbers of points are few.                                              *)
LEMMA PointsFinite ==
  ASSUME NEW M
  PROVE  AllPoints(M) \in SUBSET Nat /\ IsFiniteSet(AllPoints(M))
<1>1. Hashes \in SUBSET Nat /\ IsFiniteSet(Hashes)
  <2>1. 0 \in Int /\ Points - 1 \in Int
    BY ReplicasAssumption
  <2>2. IsFiniteSet(Hashes)
    BY <2>1, FS_Interval DEF Hashes
  <2> QED BY <2>2 DEF Hashes
<1>2. AllPoints(M) \in SUBSET Hashes
  BY DEF AllPoints
<1> QED BY <1>1, <1>2, FS_Subset

(* The points of a node are what HashesOf lists, all different.            *)
LEMMA PointsAreHashes ==
  ASSUME Placement, NEW n \in Nodes
  PROVE  /\ HashesOf(n) \in [1..Replicas -> PointsOf(n)]
         /\ PointsOf(n) = {HashesOf(n)[i] : i \in 1..Replicas}
         /\ ToSet(HashesOf(n)) = PointsOf(n)
         /\ \A i, j \in 1..Replicas : HashesOf(n)[i] = HashesOf(n)[j] => i = j
         /\ PointsOf(n) \in SUBSET Hashes /\ PointsOf(n) # {}
<1>0. Replicas \in Nat /\ 1 <= Replicas
  BY ReplicasAssumption
<1>1. \A i \in 1..Replicas : i - 1 \in 0..(Replicas - 1) /\ HashesOf(n)[i] = vhash[<<n, i - 1>>]
  BY <1>0 DEF HashesOf
<1>2. \A i \in 0..(Replicas - 1) : i + 1 \in 1..Replicas /\ (i + 1) - 1 = i
  BY <1>0
<1>3. HashesOf(n) = [i \in 1..Replicas |-> vhash[<<n, i - 1>>]]
  BY DEF HashesOf
<1>4. \A i \in 1..Replicas : HashesOf(n)[i] \in PointsOf(n)
  BY <1>1 DEF PointsOf
<1>5. HashesOf(n) \in [1..Replicas -> PointsOf(n)]
  BY <1>3, <1>4
<1>6. PointsOf(n) = {HashesOf(n)[i] : i \in 1..Replicas}
  <2>1. ASSUME NEW i \in 0..(Replicas - 1)
        PROVE  \E j \in 1..Replicas : vhash[<<n, i>>] = HashesOf(n)[j]
    <3>1. i + 1 \in 1..Replicas /\ (i + 1) - 1 = i
      BY <1>2
    <3>2. HashesOf(n)[i + 1] = vhash[<<n, (i + 1) - 1>>]
      BY <1>3, <3>1
    <3> QED BY <3>1, <3>2
  <2>2. PointsOf(n) \subseteq {HashesOf(n)[i] : i \in 1..Replicas}
    BY <2>1 DEF PointsOf
  <2> QED BY <1>4, <2>2
<1>7. \A i \in 0..(Replicas - 1) : <<n, i>> \in Virtual
  BY DEF Virtual
<1>8. ASSUME NEW i \in 1..Replicas, NEW j \in 1..Replicas, HashesOf(n)[i] = HashesOf(n)[j]
      PROVE  i = j
  <2>1. <<n, i - 1>> \in Virtual /\ <<n, j - 1>> \in Virtual
    BY <1>1, <1>7
  <2>2. vhash[<<n, i - 1>>] = vhash[<<n, j - 1>>]
    BY <1>1, <1>8
  <2>3. <<n, i - 1>> = <<n, j - 1>>
    BY <2>1, <2>2 DEF Placement
  <2>4. i - 1 = j - 1
    BY <2>3
  <2> QED BY <2>4, <1>0
<1>9. PointsOf(n) \in SUBSET Hashes
  <2>1. \A i \in 0..(Replicas - 1) : vhash[<<n, i>>] \in Hashes
    BY <1>7 DEF Placement
  <2> QED BY <2>1 DEF PointsOf
<1>10. PointsOf(n) # {}
  BY <1>0, <1>5
<1>11. ToSet(HashesOf(n)) = PointsOf(n)
  <2>1. DOMAIN HashesOf(n) = 1..Replicas
    BY <1>3
  <2> QED BY <1>6, <2>1 DEF ToSet
<1> QED BY <1>5, <1>6, <1>8, <1>9, <1>10, <1>11

(* Two nodes have no point in common.                                      *)
LEMMA PointsApart ==
  ASSUME Placement, NEW n \in Nodes, NEW m \in Nodes, NEW x,
         x \in PointsOf(n), x \in PointsOf(m)
  PROVE  n = m
<1>1. PICK i \in 0..(Replicas - 1) : x = vhash[<<n, i>>]
  BY DEF PointsOf
<1>2. PICK j \in 0..(Replicas - 1) : x = vhash[<<m, j>>]
  BY DEF PointsOf
<1>3. <<n, i>> \in Virtual /\ <<m, j>> \in Virtual
  BY DEF Virtual
<1>4. <<n, i>> = <<m, j>>
  BY <1>1, <1>2, <1>3 DEF Placement
<1> QED BY <1>4

(* What stands on the ring.                                                *)
LEMMA RingHolds ==
  ASSUME RingInv
  PROVE  /\ keys \in Seq(Hashes) /\ Len(keys) = Cardinality(AllPoints(Members))
         /\ \A i, j \in 1..Len(keys) : i < j => keys[i] < keys[j]
         /\ \A i \in 1..Len(keys) : keys[i] \in AllPoints(Members)
         /\ \A x \in AllPoints(Members) : \E i \in 1..Len(keys) : keys[i] = x
         /\ ToSet(keys) = AllPoints(Members)
<1> DEFINE S == AllPoints(Members)
<1>1. S \in SUBSET Nat /\ IsFiniteSet(S) /\ S \subseteq Hashes
  BY PointsFinite DEF AllPoints
<1>2. keys = InOrder(S)
  BY DEF RingInv
<1> HIDE DEF S
<1>3. Lists(keys, S)
  BY <1>1, <1>2, InOrderLists
<1>4. keys \in Seq(S) /\ Len(keys) \in Nat /\ keys \in [1..Len(keys) -> S]
  BY <1>3, LenProperties DEF Lists
<1>5. keys \in Seq(Hashes)
  BY <1>1, <1>4, SeqMonotonic
<1>6. ToSet(keys) = S
  BY <1>3, <1>4 DEF ToSet, Lists
<1> QED BY <1>3, <1>4, <1>5, <1>6 DEF Lists, S

LEMMA InitRingInv == RingInit => RingInv
<1> SUFFICES ASSUME RingInit PROVE RingInv
  OBVIOUS
<1>1. Members = {} /\ DOMAIN hashMap = {} /\ DOMAIN nodeCounts = {}
  BY DEF RingInit, Members, Nothing
<1>2. AllPoints(Members) = {}
  BY <1>1 DEF AllPoints
<1>3. keys = InOrder({})
  <2>1. {} \in SUBSET Nat /\ <<>> \in Seq({}) /\ Len(<<>>) = 0
    BY EmptySeq
  <2>2. <<>> = InOrder({})
    <3> DEFINE e == <<>>
    <3>1. e \in Seq({}) /\ Len(e) = 0
      BY <2>1
    <3> HIDE DEF e
    <3>2. \A i : i \notin 1..Len(e)
      BY <3>1
    <3>3. e = InOrder({})
      BY <2>1, <3>1, <3>2, ListIsInOrder
    <3> QED BY <3>3 DEF e
  <2> QED BY <2>2 DEF RingInit
<1>4. Placement
  BY DEF RingInit, Placement
<1>5. keys \in Seq(Hashes)
  BY EmptySeq DEF RingInit
<1>6. RingTypeOK
  BY <1>1, <1>4, <1>5, CountAssumption DEF RingInit, RingTypeOK, Placement, Range
<1> QED BY <1>1, <1>2, <1>3, <1>4, <1>6, FS_EmptySet DEF RingInv

(* addNode: the new points join those on the ring.                         *)
LEMMA PlacedPoints ==
  ASSUME RingInv, NEW n \in Nodes
  PROVE  ToSet(Placed(n)) = AllPoints(Members \cup {n})
<1> DEFINE a == keys
           b == HashesOf(n)
<1>1. a \in Seq(Hashes) /\ ToSet(a) = AllPoints(Members)
  BY RingHolds
<1>2. /\ b \in [1..Replicas -> PointsOf(n)] /\ ToSet(b) = PointsOf(n)
      /\ PointsOf(n) \subseteq Hashes
  BY PointsAreHashes DEF RingInv
<1> HIDE DEF a, b
<1>3. b \in Seq(Hashes) /\ Len(b) = Replicas /\ DOMAIN b = 1..Replicas
  <2>1. Replicas \in Nat /\ b \in [1..Replicas -> Hashes]
    BY <1>2, ReplicasAssumption
  <2> QED BY <2>1
<1>4. Len(a) \in Nat /\ DOMAIN a = 1..Len(a) /\ Len(b) \in Nat
  BY <1>1, <1>3, LenProperties
<1>5. /\ a \o b \in Seq(Hashes) /\ Len(a \o b) = Len(a) + Len(b)
      /\ \A i \in 1..Len(a) + Len(b) :
           (a \o b)[i] = IF i <= Len(a) THEN a[i] ELSE b[i - Len(a)]
  BY <1>1, <1>3, ConcatProperties
<1>6. ToSet(a \o b) = ToSet(a) \cup ToSet(b)
  <2>1. DOMAIN (a \o b) = 1..Len(a) + Len(b)
    BY <1>5, LenProperties
  <2>2. ASSUME NEW i \in 1..Len(a) + Len(b)
        PROVE  (a \o b)[i] \in ToSet(a) \cup ToSet(b)
    <3>1. CASE i <= Len(a)
      <4>1. i \in 1..Len(a) /\ (a \o b)[i] = a[i]
        BY <1>4, <1>5, <3>1
      <4> QED BY <1>4, <4>1 DEF ToSet
    <3>2. CASE ~(i <= Len(a))
      <4>1. i - Len(a) \in 1..Len(b) /\ (a \o b)[i] = b[i - Len(a)]
        BY <1>4, <1>5, <3>2
      <4> QED BY <1>3, <4>1 DEF ToSet
    <3> QED BY <3>1, <3>2
  <2>3. ASSUME NEW i \in 1..Len(a) PROVE a[i] \in ToSet(a \o b)
    <3>1. i \in 1..Len(a) + Len(b) /\ (a \o b)[i] = a[i]
      BY <1>4, <1>5
    <3> QED BY <2>1, <3>1 DEF ToSet
  <2>4. ASSUME NEW i \in 1..Len(b) PROVE b[i] \in ToSet(a \o b)
    <3>1. i + Len(a) \in 1..Len(a) + Len(b) /\ ~(i + Len(a) <= Len(a)) /\ (i + Len(a)) - Len(a) = i
      BY <1>4
    <3>2. (a \o b)[i + Len(a)] = b[(i + Len(a)) - Len(a)]
      BY <1>5, <3>1
    <3> QED BY <2>1, <3>1, <3>2 DEF ToSet
  <2>5. ToSet(a \o b) \subseteq ToSet(a) \cup ToSet(b)
    BY <2>1, <2>2 DEF ToSet
  <2>6. ToSet(a) \subseteq ToSet(a \o b)
    BY <1>4, <2>3 DEF ToSet
  <2>7. ToSet(b) \subseteq ToSet(a \o b)
    BY <1>3, <2>4 DEF ToSet
  <2> QED BY <2>5, <2>6, <2>7
<1>7. AllPoints(Members) \cup PointsOf(n) = AllPoints(Members \cup {n})
  BY <1>2 DEF AllPoints
<1>8. Placed(n) = a \o b
  BY DEF Placed, a, b
<1> QED BY <1>1, <1>2, <1>6, <1>7, <1>8

LEMMA AddKeeps ==
  ASSUME RingInv, NEW n \in Nodes, Add(n)
  PROVE  RingInv'
<1>1. n \notin Members /\ Members' = Members \cup {n} /\ vhash' = vhash
  BY DEF Add, Members, With
<1>2. \A m : PointsOf(m)' = PointsOf(m)
  BY <1>1 DEF PointsOf
<1>3. AllPoints(Members)' = AllPoints(Members \cup {n})
  BY <1>1, <1>2 DEF AllPoints
<1>4. keys' = InOrder(AllPoints(Members))'
  BY <1>3, PlacedPoints DEF Add
<1>5. Placement /\ Placement' /\ RingTypeOK /\ Members \subseteq Nodes
  BY <1>1 DEF RingInv, RingTypeOK, Placement
<1>6. IsFiniteSet(Members)'
  BY <1>1, FS_AddElement DEF RingInv
<1>7. /\ ToSet(HashesOf(n)) = PointsOf(n) /\ PointsOf(n) \subseteq Hashes
  BY <1>5, PointsAreHashes
<1>8. hashMap' = [x \in AllPoints(Members) \cup PointsOf(n) |->
                    IF x \in PointsOf(n) THEN n ELSE hashMap[x]]
  BY <1>7 DEF Add, With, RingInv
<1>9. DOMAIN hashMap' = AllPoints(Members)'
  <2>1. AllPoints(Members) \cup PointsOf(n) = AllPoints(Members \cup {n})
    BY <1>7 DEF AllPoints
  <2> QED BY <1>3, <1>8, <2>1
<1>10. ASSUME NEW m \in Members', NEW x \in PointsOf(m)' PROVE hashMap'[x] = m
  <2>1. m \in Nodes /\ x \in PointsOf(m) /\ (m = n \/ m \in Members)
    BY <1>1, <1>2, <1>5
  <2>2. CASE m = n
    BY <1>8, <2>1, <2>2
  <2>3. CASE m \in Members
    <3>1. x \notin PointsOf(n)
      BY <1>1, <1>5, <2>1, <2>3, PointsApart
    <3>2. x \in AllPoints(Members)
      BY <1>5, <2>1, <2>3, PointsAreHashes DEF AllPoints
    <3>3. hashMap[x] = m
      BY <2>1, <2>3 DEF RingInv
    <3> QED BY <1>8, <3>1, <3>2, <3>3
  <2> QED BY <2>1, <2>2, <2>3
<1>11. Range(hashMap)' \subseteq Nodes
  <2>1. \A x \in DOMAIN hashMap' : \E m \in Members' : x \in PointsOf(m)'
    BY <1>9 DEF AllPoints
  <2>2. Members' \subseteq Nodes
    BY <1>1, <1>5
  <2> QED BY <1>10, <2>1, <2>2 DEF Range
<1>12. nodeCounts' = [m \in Members \cup {n} |-> IF m = n THEN 0 ELSE nodeCounts[m]]
  BY <1>1, <1>5 DEF Add, With, RingTypeOK
<1>13. /\ DOMAIN nodeCounts' = Members' /\ Range(nodeCounts)' \subseteq 0..MaxRequests
       /\ \A m \in Members' : nodeCounts'[m] <= totalRequests'
  <2>1. totalRequests' = totalRequests /\ totalRequests \in 0..MaxRequests
    BY <1>5 DEF Add, RingTypeOK
  <2>2. \A m \in Members : nodeCounts[m] \in 0..MaxRequests /\ nodeCounts[m] <= totalRequests
    BY <1>5 DEF RingInv, RingTypeOK, Range
  <2>3. 0 \in 0..MaxRequests /\ 0 <= totalRequests
    BY <2>1, CountAssumption
  <2> QED BY <1>1, <1>12, <2>1, <2>2, <2>3 DEF Range
<1>14. Range(nodeReplicas)' \subseteq {Replicas}
  BY <1>5 DEF Add, With, RingTypeOK, Range, Members
<1>15. keys' \in Seq(Hashes)
  <2> DEFINE S == AllPoints(Members \cup {n})
  <2>1. S \in SUBSET Nat /\ IsFiniteSet(S) /\ S \subseteq Hashes
    BY PointsFinite DEF AllPoints
  <2>2. keys' = InOrder(S)
    BY PlacedPoints DEF Add
  <2> HIDE DEF S
  <2>3. keys' \in Seq(S)
    BY <2>1, <2>2, InOrderLists DEF Lists
  <2> QED BY <2>1, <2>3, SeqMonotonic
<1>16. RingTypeOK'
  <2>1. DOMAIN hashMap' \subseteq Hashes
    BY <1>3, <1>9 DEF AllPoints
  <2>2. /\ unhealthyNodes' = unhealthyNodes /\ totalRequests' = totalRequests
        /\ balancer' = balancer /\ seenTotal' = seenTotal
    BY DEF Add
  <2> QED BY <1>1, <1>5, <1>11, <1>13, <1>14, <1>15, <2>1, <2>2 DEF RingTypeOK
<1> QED BY <1>4, <1>5, <1>6, <1>9, <1>10, <1>13, <1>16 DEF RingInv

LEMMA RemoveNodeKeeps ==
  ASSUME RingInv, NEW n \in Nodes, RemoveNode(n)
  PROVE  RingInv'
<1>1. n \in Members /\ Members' = Members \ {n} /\ vhash' = vhash
  BY DEF RemoveNode, Members, Restrict
<1>2. \A m : PointsOf(m)' = PointsOf(m)
  BY <1>1 DEF PointsOf
<1>3. AllPoints(Members)' = AllPoints(Members \ {n})
  BY <1>1, <1>2 DEF AllPoints
<1>5. Placement /\ Placement' /\ RingTypeOK /\ Members \subseteq Nodes
  BY <1>1 DEF RingInv, RingTypeOK, Placement
<1>6. IsFiniteSet(Members)'
  BY <1>1, FS_RemoveElement DEF RingInv
<1>7. /\ ToSet(HashesOf(n)) = PointsOf(n) /\ PointsOf(n) \subseteq Hashes
  BY <1>5, PointsAreHashes
<1>8. AllPoints(Members \ {n}) = AllPoints(Members) \ PointsOf(n)
  <2>1. ASSUME NEW x \in Hashes, NEW m \in Members, x \in PointsOf(m), x \in PointsOf(n)
        PROVE  m = n
    BY <1>5, <2>1, PointsApart
  <2> QED BY <1>1, <2>1 DEF AllPoints
<1>4. keys' = InOrder(AllPoints(Members))'
  <2> DEFINE S == AllPoints(Members)
             s == HashesOf(n)
  <2>1. S \in SUBSET Nat /\ IsFiniteSet(S) /\ Replicas \in Nat
    BY PointsFinite, ReplicasAssumption
  <2>2. PointsOf(n) \subseteq S
    BY <1>1, <1>7 DEF AllPoints
  <2>3. /\ s \in [1..Replicas -> S] /\ PointsOf(n) = {s[i] : i \in 1..Replicas}
        /\ \A i, j \in 1..Replicas : s[i] = s[j] => i = j
    <3> HIDE DEF S
    <3>1. s \in [1..Replicas -> PointsOf(n)]
      BY <1>5, PointsAreHashes
    <3> QED BY <1>5, <2>2, <3>1, PointsAreHashes
  <2>4. keys' = FoldLeft(RemoveFirst, InOrder(S), s)
    BY DEF RemoveNode, RingInv
  <2> HIDE DEF S, s
  <2>5. keys' = InOrder(S \ {s[i] : i \in 1..Replicas})
    BY <2>1, <2>3, <2>4, RemovedInOrder
  <2>6. keys' = InOrder(S \ PointsOf(n))
    BY <2>3, <2>5
  <2> QED BY <1>3, <1>8, <2>6 DEF S
<1>9. hashMap' = [x \in AllPoints(Members) \ PointsOf(n) |-> hashMap[x]]
  BY <1>7 DEF RemoveNode, Restrict, RingInv
<1>10. DOMAIN hashMap' = AllPoints(Members)'
  BY <1>3, <1>8, <1>9
<1>11. ASSUME NEW m \in Members', NEW x \in PointsOf(m)' PROVE hashMap'[x] = m
  <2>1. m \in Nodes /\ x \in PointsOf(m) /\ m # n /\ m \in Members
    BY <1>1, <1>2, <1>5
  <2>2. x \notin PointsOf(n)
    BY <1>5, <2>1, PointsApart
  <2>3. x \in AllPoints(Members)
    BY <1>5, <2>1, PointsAreHashes DEF AllPoints
  <2>4. hashMap[x] = m
    BY <2>1 DEF RingInv
  <2> QED BY <1>9, <2>2, <2>3, <2>4
<1>12. Range(hashMap)' \subseteq Nodes
  <2>1. \A x \in DOMAIN hashMap' : hashMap'[x] = hashMap[x] /\ x \in DOMAIN hashMap
    BY <1>9 DEF RingInv
  <2> QED BY <1>5, <2>1 DEF Range, RingTypeOK
<1>13. nodeCounts' = [m \in Members \ {n} |-> nodeCounts[m]]
  BY DEF RemoveNode, Restrict
<1>14. /\ DOMAIN nodeCounts' = Members' /\ Range(nodeCounts)' \subseteq 0..MaxRequests
       /\ \A m \in Members' : nodeCounts'[m] <= totalRequests'
  <2>1. totalRequests' = totalRequests
    BY DEF RemoveNode
  <2>2. \A m \in Members : nodeCounts[m] \in 0..MaxRequests /\ nodeCounts[m] <= totalRequests
    BY <1>5 DEF RingInv, RingTypeOK, Range
  <2> QED BY <1>1, <1>13, <2>1, <2>2 DEF Range
<1>15. Range(nodeReplicas)' \subseteq {Replicas}
  BY <1>5 DEF RemoveNode, Restrict, RingTypeOK, Range, Members
<1>16. keys' \in Seq(Hashes)
  <2> DEFINE S == AllPoints(Members \ {n})
  <2>1. S \in SUBSET Nat /\ IsFiniteSet(S) /\ S \subseteq Hashes
    BY PointsFinite DEF AllPoints
  <2>2. keys' = InOrder(S)
    BY <1>3, <1>4
  <2> HIDE DEF S
  <2>3. keys' \in Seq(S)
    BY <2>1, <2>2, InOrderLists DEF Lists
  <2> QED BY <2>1, <2>3, SeqMonotonic
<1>17. RingTypeOK'
  <2>1. DOMAIN hashMap' \subseteq Hashes
    BY <1>3, <1>10 DEF AllPoints
  <2>2. /\ unhealthyNodes' \subseteq unhealthyNodes /\ totalRequests' = totalRequests
        /\ balancer' = balancer /\ seenTotal' = seenTotal
    BY DEF RemoveNode
  <2> QED BY <1>1, <1>5, <1>12, <1>14, <1>15, <1>16, <2>1, <2>2 DEF RingTypeOK
<1> QED BY <1>4, <1>5, <1>6, <1>10, <1>11, <1>14, <1>17 DEF RingInv

LEMMA CountKeeps ==
  ASSUME RingInv, NEW node, Count(node)
  PROVE  RingInv'
<1>1. /\ vhash' = vhash /\ keys' = keys /\ hashMap' = hashMap /\ nodeReplicas' = nodeReplicas
      /\ unhealthyNodes' = unhealthyNodes /\ balancer' = balancer /\ seenTotal' = seenTotal
  BY DEF Count, ring
<1>2. /\ totalRequests \in 0..MaxRequests /\ totalRequests < MaxRequests
      /\ totalRequests' = totalRequests + 1
      /\ nodeCounts' = [n \in DOMAIN nodeCounts |->
                          nodeCounts[n] + IF n = node THEN 1 ELSE 0]
      /\ DOMAIN nodeCounts = Members
  BY DEF Count, RingInv, RingTypeOK
<1>3. ASSUME NEW n \in Members
      PROVE  nodeCounts'[n] \in 0..MaxRequests /\ nodeCounts'[n] <= totalRequests'
  <2>1. nodeCounts[n] \in 0..MaxRequests /\ nodeCounts[n] <= totalRequests
    BY <1>2 DEF RingInv, RingTypeOK, Range
  <2>2. nodeCounts'[n] = nodeCounts[n] \/ nodeCounts'[n] = nodeCounts[n] + 1
    BY <1>2, <2>1
  <2> QED BY <1>2, <2>1, <2>2, CountAssumption
<1>4. DOMAIN nodeCounts' = Members /\ Range(nodeCounts)' \subseteq 0..MaxRequests
  BY <1>2, <1>3 DEF Range
<1>5. Members' = Members
  BY <1>1 DEF Members
<1>6. AllPoints(Members)' = AllPoints(Members) /\ \A n : PointsOf(n)' = PointsOf(n)
  BY <1>1, <1>5 DEF AllPoints, PointsOf
<1>7. totalRequests' \in 0..MaxRequests
  BY <1>2, CountAssumption
<1>8. RingTypeOK' /\ Placement'
  BY <1>1, <1>4, <1>5, <1>7 DEF RingInv, RingTypeOK, Placement, Range
<1> QED BY <1>1, <1>3, <1>5, <1>6, <1>8 DEF RingInv

LEMMA RestKeeps ==
  ASSUME RingInv, UNCHANGED <<vhash, keys, hashMap, nodeReplicas>>,
         unhealthyNodes' \subseteq Nodes,
         UNCHANGED load \/ (nodeCounts' = [n \in Members |-> 0] /\ totalRequests' = 0),
         balancer' \in {"idle", "checking", "rebalancing", "stuck"},
         seenTotal' \in 0..MaxRequests
  PROVE  RingInv'
<1>1. Members' = Members
  BY DEF Members
<1>2. AllPoints(Members)' = AllPoints(Members) /\ \A n : PointsOf(n)' = PointsOf(n)
  BY <1>1 DEF AllPoints, PointsOf
<1>3. /\ DOMAIN nodeCounts' = Members /\ Range(nodeCounts)' \subseteq 0..MaxRequests
      /\ totalRequests' \in 0..MaxRequests
      /\ \A n \in Members : nodeCounts'[n] <= totalRequests'
  <2>1. CASE UNCHANGED load
    BY <2>1 DEF load, RingInv, RingTypeOK, Range
  <2>2. CASE nodeCounts' = [n \in Members |-> 0] /\ totalRequests' = 0
    BY <2>2, CountAssumption DEF Range
  <2> QED BY <2>1, <2>2
<1>4. RingTypeOK' /\ Placement'
  BY <1>1, <1>3 DEF RingInv, RingTypeOK, Placement, Range
<1> QED BY <1>1, <1>2, <1>3, <1>4 DEF RingInv

(* con_hash.go:60-118: Add and Remove keep keys and hashMap in   *)
(* step, and no other method touches them.                                 *)
THEOREM RingInvariance == RingSpec => []RingInv
<1>1. RingInv /\ [RingNext]_ringVars => RingInv'
  <2> SUFFICES ASSUME RingInv, [RingNext]_ringVars PROVE RingInv'
    OBVIOUS
  <2>0. RingTypeOK
    BY DEF RingInv
  <2>1. ASSUME NEW n \in Nodes, MarkUnhealthy(n) \/ MarkHealthy(n) PROVE RingInv'
    BY <2>0, <2>1, RestKeeps DEF MarkUnhealthy, MarkHealthy, RingTypeOK
  <2>2. ASSUME NEW h \in Hashes, Get(h) \/ GetHealthyCounted(h) PROVE RingInv'
    BY <2>2, CountKeeps DEF Get, GetHealthyCounted
  <2>3. CASE ReadTotal
    BY <2>0, <2>3, RestKeeps DEF ReadTotal, RingTypeOK, ring
  <2>4. CASE CheckLoad
    <3>1. 0 \in 0..MaxRequests
      BY CountAssumption
    <3> QED BY <2>0, <2>4, <3>1, RestKeeps DEF CheckLoad, RingTypeOK, ring
  <2>5. CASE Rebalance
    BY <2>0, <2>5, RestKeeps DEF Rebalance, RingTypeOK, ring
  <2>6. CASE UNCHANGED ringVars
    BY <2>0, <2>6, RestKeeps DEF ringVars, RingTypeOK, ring, load
  <2> QED BY <2>1, <2>2, <2>3, <2>4, <2>5, <2>6, AddKeeps, RemoveNodeKeeps
          DEF RingNext, Balance
<1> QED BY <1>1, InitRingInv, PTL DEF RingSpec

-----------------------------------------------------------------------------
(* The points a walk from h comes to, one after the other.                 *)
Turn(h, i) ==
  IF i <= Len(keys) - Start(h) + 1 THEN Start(h) + i - 1
  ELSE i - (Len(keys) - Start(h) + 1)
Visited(h) == [i \in 1..Len(keys) |-> keys[Turn(h, i)]]

(* The search for the first point from h on (con_hash.go:193-199).         *)
LEMMA StartFound ==
  ASSUME RingInv, NEW h \in Hashes
  PROVE  /\ Start(h) \in Nat /\ 1 <= Start(h) /\ Start(h) <= Len(keys) + 1
         /\ \A i \in 1..Len(keys) : i < Start(h) => keys[i] < h
         /\ \/ \A i \in 1..Len(keys) : i >= Start(h) => keys[i] >= h
            \/ Start(h) = 1 /\ \A i \in 1..Len(keys) : keys[i] < h
<1> DEFINE L == Len(keys)
           big == {i \in 1..L : keys[i] >= h}
<1>1. L \in Nat /\ DOMAIN keys = 1..L /\ \A i \in 1..L : keys[i] \in Nat
  <2>1. keys \in Seq(Hashes)
    BY RingHolds
  <2>2. \A i \in 1..L : keys[i] \in Hashes
    BY <2>1, LenProperties
  <2> QED BY <2>1, <2>2, LenProperties DEF Hashes
<1>2. h \in Nat
  BY DEF Hashes
<1>3. \A i, j \in 1..L : i < j => keys[i] < keys[j]
  BY RingHolds
<1>4. CASE big = {}
  <2>1. \A i \in 1..L : keys[i] < h
    BY <1>1, <1>2, <1>4
  <2>2. ~(\E i \in DOMAIN keys : keys[i] >= h)
    BY <1>1, <1>4
  <2>3. Start(h) = 1
    BY <2>2 DEF Start
  <2> QED BY <1>1, <2>1, <2>3
<1>5. CASE big # {}
  <2>1. big \in SUBSET Nat
    BY <1>1
  <2> HIDE DEF big
  <2>2. PICK b \in big : \A y \in big : b <= y
    BY <1>5, <2>1, LeastOf
  <2>3. b \in 1..L /\ keys[b] >= h /\ \A j \in 1..(b - 1) : keys[j] < h
    <3>1. b \in 1..L /\ keys[b] >= h
      BY <2>2 DEF big
    <3>2. ASSUME NEW j \in 1..(b - 1) PROVE keys[j] < h
      <4>1. j \in 1..L /\ ~(b <= j)
        BY <1>1, <3>1
      <4>2. j \notin big
        BY <2>2, <4>1
      <4> QED BY <1>1, <1>2, <4>1, <4>2 DEF big
    <3> QED BY <3>1, <3>2
  <2>4. \E i \in DOMAIN keys : keys[i] >= h /\ \A j \in 1..(i - 1) : keys[j] < h
    BY <1>1, <2>3
  <2>5. /\ Start(h) \in 1..L /\ keys[Start(h)] >= h
        /\ \A j \in 1..(Start(h) - 1) : keys[j] < h
    <3>1. \E i \in DOMAIN keys : keys[i] >= h
      BY <2>4
    <3>2. Start(h) = CHOOSE i \in DOMAIN keys :
                       keys[i] >= h /\ \A j \in 1..(i - 1) : keys[j] < h
      BY <3>1 DEF Start
    <3> QED BY <1>1, <2>4, <3>2
  <2>6. ASSUME NEW i \in 1..L, i >= Start(h) PROVE keys[i] >= h
    <3>1. CASE i = Start(h)
      BY <2>5, <3>1
    <3>2. CASE Start(h) < i
      BY <1>1, <1>2, <1>3, <2>5, <3>2
    <3> QED BY <1>1, <2>5, <2>6, <3>1, <3>2
  <2>7. ASSUME NEW i \in 1..L, i < Start(h) PROVE keys[i] < h
    <3>1. i \in 1..(Start(h) - 1)
      BY <1>1, <2>5, <2>7
    <3> QED BY <2>5, <3>1
  <2> QED BY <1>1, <2>5, <2>6, <2>7
<1> QED BY <1>4, <1>5

(* The walk comes to each point once, the nearest first.                   *)
LEMMA VisitsAll ==
  ASSUME RingInv, NEW h \in Hashes
  PROVE  /\ Visited(h) \in [1..Len(keys) -> AllPoints(Members)]
         /\ \A x \in AllPoints(Members) : \E i \in 1..Len(keys) : Visited(h)[i] = x
         /\ \A i, j \in 1..Len(keys) :
              i < j => Clockwise(h, Visited(h)[i]) < Clockwise(h, Visited(h)[j])
<1> DEFINE L == Len(keys)
           st == Start(h)
           v == Visited(h)
<1>1. /\ L \in Nat /\ \A i \in 1..L : keys[i] \in AllPoints(Members)
      /\ \A i, j \in 1..L : i < j => keys[i] < keys[j]
      /\ \A x \in AllPoints(Members) : \E i \in 1..L : keys[i] = x
  BY RingHolds, LenProperties
<1>2. \A x \in AllPoints(Members) : x \in Nat /\ x < Points
  BY ReplicasAssumption DEF AllPoints, Hashes
<1>3. h \in Nat /\ h < Points /\ Points \in Nat
  BY ReplicasAssumption DEF Hashes
<1>4. /\ st \in Nat /\ 1 <= st /\ st <= L + 1
      /\ \A i \in 1..L : i < st => keys[i] < h
      /\ \/ \A i \in 1..L : i >= st => keys[i] >= h
         \/ st = 1 /\ \A i \in 1..L : keys[i] < h
  BY StartFound
<1>5. \A i \in 1..L : Turn(h, i) = IF i <= L - st + 1 THEN st + i - 1 ELSE i - (L - st + 1)
  BY DEF Turn
<1>6. \A i \in 1..L : v[i] = keys[Turn(h, i)]
  BY DEF Visited
<1>7. v = [i \in 1..L |-> keys[Turn(h, i)]]
  BY DEF Visited
<1> HIDE DEF L, st, v
<1>8. ASSUME NEW i \in 1..L PROVE Turn(h, i) \in 1..L
  BY <1>1, <1>4, <1>5
<1>9. v \in [1..L -> AllPoints(Members)]
  BY <1>1, <1>7, <1>8
<1>10. ASSUME NEW x \in AllPoints(Members) PROVE \E i \in 1..L : v[i] = x
  <2>1. PICK p \in 1..L : keys[p] = x
    BY <1>1
  <2>2. CASE p >= st
    <3>1. p - st + 1 \in 1..L /\ Turn(h, p - st + 1) = p
      BY <1>1, <1>4, <1>5, <2>2
    <3> QED BY <1>6, <2>1, <3>1
  <2>3. CASE p < st
    <3>1. p + (L - st + 1) \in 1..L /\ Turn(h, p + (L - st + 1)) = p
      BY <1>1, <1>4, <1>5, <2>3
    <3> QED BY <1>6, <2>1, <3>1
  <2> QED BY <1>1, <1>4, <2>2, <2>3
<1>11. ASSUME NEW i \in 1..L, NEW j \in 1..L, i < j
       PROVE  Clockwise(h, v[i]) < Clockwise(h, v[j])
  <2> DEFINE a == Turn(h, i)
             b == Turn(h, j)
  <2>1. a \in 1..L /\ b \in 1..L /\ v[i] = keys[a] /\ v[j] = keys[b]
    BY <1>6, <1>8
  <2>2. /\ a = IF i <= L - st + 1 THEN st + i - 1 ELSE i - (L - st + 1)
        /\ b = IF j <= L - st + 1 THEN st + j - 1 ELSE j - (L - st + 1)
    BY <1>5
  <2> HIDE DEF a, b
  <2>3. \/ st <= a /\ a < b
        \/ b < st /\ st <= a
        \/ a < b /\ b < st
    BY <1>1, <1>4, <1>11, <2>2
  <2>4. /\ keys[a] \in Nat /\ keys[a] < Points /\ keys[b] \in Nat /\ keys[b] < Points
        /\ a \in Nat /\ b \in Nat
    BY <1>1, <1>2, <2>1
  <2>5. CASE st <= a /\ a < b
    <3>1. keys[a] < keys[b]
      BY <1>1, <2>1, <2>5
    <3>2. CASE keys[a] >= h
      BY <1>3, <2>1, <2>4, <3>1, <3>2 DEF Clockwise
    <3>3. CASE keys[a] < h /\ keys[b] < h
      BY <1>3, <2>1, <2>4, <3>1, <3>3 DEF Clockwise
    <3>4. keys[a] >= h \/ keys[b] < h
      BY <1>4, <2>1, <2>4, <2>5
    <3> QED BY <1>3, <2>4, <3>2, <3>3, <3>4
  <2>6. CASE b < st /\ st <= a
    <3>1. keys[b] < h /\ keys[a] >= h
      BY <1>4, <2>1, <2>4, <2>6
    <3> QED BY <1>3, <2>1, <2>4, <3>1 DEF Clockwise
  <2>7. CASE a < b /\ b < st
    <3>1. keys[a] < keys[b] /\ keys[a] < h /\ keys[b] < h
      BY <1>1, <1>4, <2>1, <2>4, <2>7
    <3> QED BY <1>3, <2>1, <2>4, <3>1 DEF Clockwise
  <2> QED BY <2>3, <2>5, <2>6, <2>7
<1> QED BY <1>9, <1>10, <1>11 DEF v, L

(* The nodes of the walk: the owners of the points it comes to.            *)
LEMMA WalkIsVisited ==
  ASSUME RingInv, NEW h \in Hashes
  PROVE  /\ Walk(h) \in Seq(Nodes) /\ Len(Walk(h)) = Len(keys)
         /\ \A i \in 1..Len(keys) : /\ Walk(h)[i] \in Members
                                    /\ Visited(h)[i] \in PointsOf(Walk(h)[i])
<1> DEFINE L == Len(keys)
           st == Start(h)
           nodes == [i \in DOMAIN keys |-> AtHash(keys[i])]
           a == SubSeq(nodes, st, L)
           b == SubSeq(nodes, 1, st - 1)
           w == a \o b
<1>1. L \in Nat /\ DOMAIN keys = 1..L /\ \A i \in 1..L : keys[i] \in AllPoints(Members)
  BY RingHolds, LenProperties
<1>2. ASSUME NEW x \in AllPoints(Members)
      PROVE  AtHash(x) \in Members /\ x \in PointsOf(AtHash(x)) /\ AtHash(x) \in Nodes
  <2>1. PICK n \in Members : x \in PointsOf(n)
    BY DEF AllPoints
  <2>2. AtHash(x) = n
    BY <2>1 DEF AtHash, RingInv
  <2> QED BY <2>1, <2>2 DEF RingInv, RingTypeOK
<1>3. /\ st \in Nat /\ 1 <= st /\ st <= L + 1
  BY StartFound
<1>4. \A i \in 1..L : nodes[i] = AtHash(keys[i]) /\ nodes[i] \in Nodes
  BY <1>1, <1>2
<1>5. Walk(h) = w
  BY DEF Walk
<1>6. \A i \in 1..L : Turn(h, i) = IF i <= L - st + 1 THEN st + i - 1 ELSE i - (L - st + 1)
  BY DEF Turn
<1>7. \A i \in 1..L : Visited(h)[i] = keys[Turn(h, i)]
  BY DEF Visited
<1> HIDE DEF L, st, nodes
<1>8. a \in Seq(Nodes) /\ Len(a) = L - st + 1 /\ \A i \in 1..L - st + 1 : a[i] = nodes[st + i - 1]
  <2>1. st \in Int /\ L \in Int /\ \A i \in st..L : nodes[i] \in Nodes
    BY <1>1, <1>3, <1>4
  <2>2. /\ a \in Seq(Nodes) /\ Len(a) = IF st <= L THEN L - st + 1 ELSE 0
        /\ \A i \in 1..L - st + 1 : a[i] = nodes[st + i - 1]
    BY <2>1, SubSeqProperties
  <2> HIDE DEF a
  <2> QED BY <1>1, <1>3, <2>2
<1>9. b \in Seq(Nodes) /\ Len(b) = st - 1 /\ \A i \in 1..st - 1 : b[i] = nodes[i]
  <2>1. 1 \in Int /\ st - 1 \in Int /\ \A i \in 1..st - 1 : nodes[i] \in Nodes
    BY <1>1, <1>3, <1>4
  <2>2. /\ b \in Seq(Nodes) /\ Len(b) = IF 1 <= st - 1 THEN (st - 1) - 1 + 1 ELSE 0
        /\ \A i \in 1..(st - 1) - 1 + 1 : b[i] = nodes[1 + i - 1]
    BY <2>1, SubSeqProperties
  <2> HIDE DEF b
  <2>3. Len(b) = st - 1 /\ (st - 1) - 1 + 1 = st - 1
    BY <1>3, <2>2
  <2>4. ASSUME NEW i \in 1..st - 1 PROVE b[i] = nodes[i]
    <3>1. 1 + i - 1 = i /\ i \in 1..(st - 1) - 1 + 1
      BY <1>3
    <3>2. b[i] = nodes[1 + i - 1]
      BY <2>2, <3>1
    <3> QED BY <3>1, <3>2
  <2> QED BY <2>2, <2>3, <2>4
<1> HIDE DEF a, b
<1>10. /\ w \in Seq(Nodes) /\ Len(w) = Len(a) + Len(b)
       /\ \A i \in 1..Len(a) + Len(b) : w[i] = IF i <= Len(a) THEN a[i] ELSE b[i - Len(a)]
  BY <1>8, <1>9, ConcatProperties
<1>11. Len(w) = L
  BY <1>1, <1>3, <1>8, <1>9, <1>10
<1> HIDE DEF w
<1>12. ASSUME NEW i \in 1..L
       PROVE  w[i] \in Members /\ Visited(h)[i] \in PointsOf(w[i])
  <2>1. i \in Nat /\ i \in 1..Len(a) + Len(b)
    BY <1>1, <1>10, <1>11
  <2>2. Turn(h, i) \in 1..L /\ w[i] = nodes[Turn(h, i)]
    <3>1. CASE i <= L - st + 1
      <4>1. Turn(h, i) = st + i - 1 /\ st + i - 1 \in 1..L /\ i \in 1..L - st + 1
        BY <1>1, <1>3, <1>6, <3>1
      <4>2. w[i] = a[i]
        BY <1>8, <1>10, <2>1, <3>1
      <4> QED BY <1>8, <4>1, <4>2
    <3>2. CASE ~(i <= L - st + 1)
      <4>1. /\ Turn(h, i) = i - (L - st + 1) /\ i - (L - st + 1) \in 1..L
            /\ i - (L - st + 1) \in 1..st - 1
        BY <1>1, <1>3, <1>6, <3>2
      <4>2. w[i] = b[i - (L - st + 1)]
        BY <1>8, <1>10, <2>1, <3>2
      <4> QED BY <1>9, <4>1, <4>2
    <3> QED BY <3>1, <3>2
  <2>3. w[i] = AtHash(keys[Turn(h, i)]) /\ keys[Turn(h, i)] \in AllPoints(Members)
    BY <1>1, <1>4, <2>2
  <2> QED BY <1>2, <1>7, <2>3
<1> QED BY <1>5, <1>10, <1>11, <1>12 DEF L

(* Every node that is not skipped is met, and first at one place.          *)
LEMMA AllAreMet ==
  ASSUME RingInv, NEW h \in Hashes, NEW skipped, NEW F, F = FirstMet(Walk(h), skipped)
  PROVE  /\ F \in SUBSET (1..Len(keys)) /\ F \in SUBSET Nat /\ IsFiniteSet(F)
         /\ \A i \in F : Walk(h)[i] \in Members \ skipped
         /\ \A n \in Members \ skipped : \E i \in F : Walk(h)[i] = n
         /\ \A i \in F : \A j \in 1..Len(keys) : Walk(h)[j] = Walk(h)[i] => i <= j
<1> DEFINE L == Len(keys)
           w == Walk(h)
<1>0. L \in Nat
  BY RingHolds, LenProperties
<1>1. /\ w \in Seq(Nodes) /\ Len(w) = L
      /\ \A i \in 1..L : w[i] \in Members /\ Visited(h)[i] \in PointsOf(w[i])
  BY WalkIsVisited
<1>2. DOMAIN w = 1..L
  BY <1>1, LenProperties
<1>3. F = {i \in DOMAIN w : w[i] \notin skipped /\ \A j \in 1..(i - 1) : w[j] # w[i]}
  BY DEF FirstMet
<1> HIDE DEF w, L
<1>4. F \in SUBSET (1..L) /\ F \in SUBSET Nat /\ IsFiniteSet(F)
  <2>1. 1 \in Int /\ L \in Int
    BY <1>0
  <2>2. IsFiniteSet(1..L)
    BY <2>1, FS_Interval
  <2>3. F \in SUBSET (1..L)
    BY <1>2, <1>3
  <2>4. IsFiniteSet(F)
    BY <2>2, <2>3, FS_Subset
  <2>5. \A i \in 1..L : i \in Nat
    BY <1>0
  <2>6. F \in SUBSET Nat
    BY <2>3, <2>5
  <2> QED BY <2>3, <2>4, <2>6
<1>5. \A i \in F : w[i] \in Members \ skipped
  BY <1>1, <1>2, <1>3
<1>6. ASSUME NEW n \in Members \ skipped PROVE \E i \in F : w[i] = n
  <2> DEFINE T == {i \in 1..L : w[i] = n}
  <2>1. PICK x \in PointsOf(n) : x \in AllPoints(Members)
    <3>1. n \in Nodes /\ Placement
      BY <1>6 DEF RingInv, RingTypeOK
    <3>2. PointsOf(n) # {} /\ PointsOf(n) \subseteq Hashes
      BY <3>1, PointsAreHashes
    <3> QED BY <1>6, <3>2 DEF AllPoints
  <2>2. PICK i \in 1..L : Visited(h)[i] = x
    BY <2>1, VisitsAll DEF L
  <2>3. w[i] = n
    <3>1. w[i] \in Nodes /\ n \in Nodes /\ Placement
      BY <1>1, <1>6 DEF RingInv, RingTypeOK
    <3>2. x \in PointsOf(w[i])
      BY <1>1, <2>2
    <3> QED BY <2>1, <3>1, <3>2, PointsApart
  <2>4. T # {} /\ T \in SUBSET Nat
    BY <2>3
  <2>5. PICK f \in T : \A j \in T : f <= j
    <3> HIDE DEF T
    <3> QED BY <2>4, LeastOf
  <2>6. f \in 1..L /\ w[f] = n
    OBVIOUS
  <2>7. ASSUME NEW j \in 1..(f - 1) PROVE w[j] # w[f]
    <3>1. j \in 1..L /\ ~(f <= j)
      BY <1>0, <2>6
    <3>2. j \notin T
      <4> HIDE DEF T
      <4> QED BY <2>5, <3>1
    <3> QED BY <2>6, <3>1, <3>2
  <2> QED BY <1>2, <1>3, <2>6, <2>7
<1>7. ASSUME NEW i \in F, NEW j \in 1..L, w[j] = w[i] PROVE i <= j
  <2>1. i \in 1..L /\ \A k \in 1..(i - 1) : w[k] # w[i]
    BY <1>2, <1>3
  <2>2. j \notin 1..(i - 1)
    BY <1>7, <2>1
  <2> QED BY <1>0, <2>1, <2>2
<1> QED BY <1>4, <1>5, <1>6, <1>7 DEF L, w

(* All the nodes of a key, as GetN lists them when there are enough.       *)
LEMMA OrderListsFirst ==
  ASSUME RingInv, NEW h \in Hashes, NEW F, F = FirstMet(Walk(h), {})
  PROVE  /\ Lists(InOrder(F), F) /\ Len(InOrder(F)) \in Nat
         /\ InOrder(F) \in [1..Len(InOrder(F)) -> F]
         /\ Order(h) = [i \in 1..Len(InOrder(F)) |-> Walk(h)[InOrder(F)[i]]]
<1> DEFINE t == InOrder(F)
           w == Walk(h)
           n == Cardinality(Members) + 1
<1>1. /\ F \in SUBSET Nat /\ IsFiniteSet(F)
      /\ \A i \in F : w[i] \in Members
      /\ \A i, j \in F : w[i] = w[j] => i = j
  <2>1. /\ F \in SUBSET (1..Len(keys)) /\ F \in SUBSET Nat /\ IsFiniteSet(F)
        /\ \A i \in F : w[i] \in Members
        /\ \A i \in F : \A j \in 1..Len(keys) : w[j] = w[i] => i <= j
    BY AllAreMet
  <2> HIDE DEF w
  <2>2. ASSUME NEW i \in F, NEW j \in F, w[i] = w[j] PROVE i = j
    <3>1. i <= j /\ j <= i /\ i \in Nat /\ j \in Nat
      BY <2>1, <2>2
    <3> QED BY <3>1
  <2> QED BY <2>1, <2>2
<1>2. Lists(t, F)
  BY <1>1, InOrderLists
<1>3. Order(h) = [i \in DOMAIN t \cap (1..n) |-> w[t[i]]]
  BY DEF Order, GetN, FirstN
<1> HIDE DEF t, w
<1>4. t \in Seq(F) /\ Len(t) = Cardinality(F) /\ Len(t) \in Nat
      /\ DOMAIN t = 1..Len(t) /\ t \in [1..Len(t) -> F]
  BY <1>2, LenProperties DEF Lists
<1>5. Cardinality(F) <= Cardinality(Members)
  <2> DEFINE g == [i \in F |-> w[i]]
  <2>1. g \in Injection(F, Members)
    BY <1>1 DEF Injection, IsInjective
  <2> HIDE DEF g
  <2> QED BY <2>1, FS_Injection DEF RingInv
<1>6. Cardinality(Members) \in Nat
  BY FS_CardinalityType DEF RingInv
<1> HIDE DEF n
<1>7. DOMAIN t \cap (1..n) = 1..Len(t)
  BY <1>4, <1>5, <1>6 DEF n
<1> QED BY <1>2, <1>3, <1>4, <1>7 DEF t, w

(* con_hash.go:186-214, GetN: a lookup finds exactly the nodes that were   *)
(* added and not removed.                                                  *)
THEOREM LookupsReach == RingSpec => []LookupsReachMembers
<1>1. RingInv => LookupsReachMembers
  <2> SUFFICES ASSUME RingInv, NEW h \in Hashes PROVE ToSet(Order(h)) = Members
    BY DEF LookupsReachMembers
  <2>1. PICK F : F = FirstMet(Walk(h), {})
    OBVIOUS
  <2>2. /\ \A i \in F : Walk(h)[i] \in Members
        /\ \A n \in Members : \E i \in F : Walk(h)[i] = n
    BY <2>1, AllAreMet
  <2> DEFINE t == InOrder(F)
             L == Len(t)
  <2>3. /\ Lists(t, F) /\ t \in [1..L -> F]
        /\ Order(h) = [i \in 1..L |-> Walk(h)[t[i]]]
    BY <2>1, OrderListsFirst
  <2>4. \A x \in F : \E i \in 1..L : t[i] = x
    BY <2>3 DEF Lists
  <2> HIDE DEF t, L
  <2>5. ToSet(Order(h)) = {Walk(h)[t[i]] : i \in 1..L}
    BY <2>3 DEF ToSet
  <2>6. ASSUME NEW n \in Members PROVE n \in ToSet(Order(h))
    <3>1. PICK x \in F : Walk(h)[x] = n
      BY <2>2
    <3>2. PICK i \in 1..L : t[i] = x
      BY <2>4
    <3> QED BY <2>5, <3>1, <3>2
  <2>7. ASSUME NEW i \in 1..L PROVE Walk(h)[t[i]] \in Members
    BY <2>2, <2>3
  <2> QED BY <2>5, <2>6, <2>7
<1> QED BY <1>1, RingInvariance, PTL

(* The first place of a node on a walk is at its nearest point.            *)
LEMMA ReachIsFirst ==
  ASSUME RingInv, NEW h \in Hashes, NEW F, F = FirstMet(Walk(h), {}), NEW i \in F
  PROVE  Reach(Walk(h)[i], h) = Clockwise(h, Visited(h)[i])
<1> DEFINE n == Walk(h)[i]
           d == Visited(h)
           L == Len(keys)
           D == {Clockwise(h, vhash[<<n, k>>]) : k \in 0..(Replicas - 1)}
<1>1. /\ F \in SUBSET (1..L) /\ n \in Members
      /\ \A j \in 1..L : Walk(h)[j] = n => i <= j
  BY AllAreMet
<1>2. \A j \in 1..L : Walk(h)[j] \in Members /\ d[j] \in PointsOf(Walk(h)[j])
  BY WalkIsVisited
<1>3. /\ \A x \in AllPoints(Members) : \E j \in 1..L : d[j] = x
      /\ \A j, k \in 1..L : j < k => Clockwise(h, d[j]) < Clockwise(h, d[k])
  BY VisitsAll
<1>4. Placement /\ Members \subseteq Nodes /\ L \in Nat
  BY RingHolds, LenProperties DEF RingInv, RingTypeOK
<1>5. Reach(n, h) = Min(D)
  BY DEF Reach
<1> HIDE DEF n, d, L
<1>6. D = {Clockwise(h, x) : x \in PointsOf(n)}
  BY DEF PointsOf
<1> HIDE DEF D
<1>7. d[i] \in PointsOf(n)
  BY <1>1, <1>2 DEF n
<1>8. ASSUME NEW x \in PointsOf(n)
      PROVE  Clockwise(h, x) \in Nat /\ Clockwise(h, d[i]) <= Clockwise(h, x)
  <2>1. x \in Hashes /\ d[i] \in Hashes
    BY <1>1, <1>4, <1>7, PointsAreHashes
  <2>2. Clockwise(h, x) \in Nat /\ Clockwise(h, d[i]) \in Nat
    BY <2>1, ReplicasAssumption DEF Clockwise, Hashes
  <2>3. PICK j \in 1..L : d[j] = x
    BY <1>1, <1>3, <2>1 DEF AllPoints
  <2>4. Walk(h)[j] = n
    BY <1>1, <1>2, <1>4, <2>3, PointsApart
  <2>5. i <= j /\ i \in 1..L
    BY <1>1, <2>4
  <2>6. CASE i = j
    BY <2>2, <2>3, <2>6
  <2>7. CASE i < j
    BY <1>3, <2>2, <2>3, <2>5, <2>7
  <2> QED BY <1>4, <2>2, <2>5, <2>6, <2>7
<1>9. Clockwise(h, d[i]) \in D /\ \A y \in D : Clockwise(h, d[i]) <= y
  BY <1>6, <1>7, <1>8
<1>10. \A x, y \in D : x <= y /\ y <= x => x = y
  BY <1>6, <1>8
<1>11. Min(D) = Clockwise(h, d[i])
  BY <1>9, <1>10 DEF Min
<1> QED BY <1>5, <1>11 DEF n, d

(* con_hash.go:186-214: the nodes of a key stand in the order of their     *)
(* nearest points, and of nothing else that happened on the ring.          *)
THEOREM NearestComesFirst == RingSpec => []NearestFirst
<1>1. RingInv => NearestFirst
  <2> SUFFICES ASSUME RingInv, NEW h \in Hashes, NEW i \in 1..(Len(Order(h)) - 1)
               PROVE  Reach(Order(h)[i], h) < Reach(Order(h)[i + 1], h)
    BY DEF NearestFirst
  <2>1. PICK F : F = FirstMet(Walk(h), {})
    OBVIOUS
  <2> DEFINE t == InOrder(F)
             L == Len(t)
  <2>2. /\ Lists(t, F) /\ L \in Nat /\ t \in [1..L -> F]
        /\ Order(h) = [k \in 1..L |-> Walk(h)[t[k]]]
    BY <2>1, OrderListsFirst
  <2>3. F \in SUBSET (1..Len(keys))
    BY <2>1, AllAreMet
  <2>4. \A k, l \in 1..L : k < l => t[k] < t[l]
    BY <2>2 DEF Lists
  <2> HIDE DEF t, L
  <2>5. Len(Order(h)) = L
    BY <2>2
  <2>6. i \in 1..L /\ i + 1 \in 1..L /\ i < i + 1
    BY <2>2, <2>5
  <2>7. t[i] \in F /\ t[i + 1] \in F /\ t[i] < t[i + 1]
    BY <2>2, <2>4, <2>6
  <2>8. Order(h)[i] = Walk(h)[t[i]] /\ Order(h)[i + 1] = Walk(h)[t[i + 1]]
    BY <2>2, <2>6
  <2>9. /\ Reach(Walk(h)[t[i]], h) = Clockwise(h, Visited(h)[t[i]])
        /\ Reach(Walk(h)[t[i + 1]], h) = Clockwise(h, Visited(h)[t[i + 1]])
    BY <2>1, <2>7, ReachIsFirst
  <2>10. Clockwise(h, Visited(h)[t[i]]) < Clockwise(h, Visited(h)[t[i + 1]])
    BY <2>3, <2>7, VisitsAll
  <2> QED BY <2>8, <2>9, <2>10
<1> QED BY <1>1, RingInvariance, PTL

LEMMA LeastIsFirst ==
  ASSUME NEW S \in SUBSET Nat, IsFiniteSet(S), NEW x \in S, \A y \in S : x <= y
  PROVE  1 \in DOMAIN InOrder(S) /\ InOrder(S)[1] = x
<1> DEFINE t == InOrder(S)
<1>1. Lists(t, S)
  BY InOrderLists
<1> HIDE DEF t
<1>2. /\ Len(t) \in Nat /\ DOMAIN t = 1..Len(t) /\ \A i \in 1..Len(t) : t[i] \in S
  BY <1>1, LenProperties DEF Lists
<1>3. PICK k \in 1..Len(t) : t[k] = x
  BY <1>1 DEF Lists
<1>4. 1 \in 1..Len(t) /\ (k = 1 \/ 1 < k)
  BY <1>2
<1>5. CASE 1 < k
  <2>1. t[1] < t[k] /\ t[1] \in Nat /\ x \in Nat /\ x <= t[1]
    BY <1>1, <1>2, <1>4, <1>5 DEF Lists
  <2> QED BY <1>3, <2>1
<1> QED BY <1>2, <1>3, <1>4, <1>5 DEF t

(* q has the first n nodes of the walk w, at the places t.                 *)
FirstAre(q, n, w, t) ==
  /\ DOMAIN q = 1..Len(t) \cap (1..n)
  /\ \A i \in 1..Len(t) \cap (1..n) : q[i] = w[t[i]]

LEMMA FirstNIs ==
  ASSUME RingInv, NEW h \in Hashes, NEW n \in Nat, NEW skipped,
         NEW F, F = FirstMet(Walk(h), skipped)
  PROVE  /\ Lists(InOrder(F), F) /\ Len(InOrder(F)) \in Nat
         /\ InOrder(F) \in [1..Len(InOrder(F)) -> F]
         /\ FirstAre(FirstN(h, n, skipped), n, Walk(h), InOrder(F))
<1>1. /\ F \in SUBSET Nat /\ IsFiniteSet(F)
  BY AllAreMet
<1> DEFINE t == InOrder(F)
           w == Walk(h)
<1>2. Lists(t, F)
  BY <1>1, InOrderLists
<1>3. FirstN(h, n, skipped) = [i \in DOMAIN t \cap (1..n) |-> w[t[i]]]
  BY DEF FirstN
<1> HIDE DEF t, w
<1>4. Len(t) \in Nat /\ DOMAIN t = 1..Len(t) /\ t \in [1..Len(t) -> F]
  BY <1>2, LenProperties DEF Lists
<1> QED BY <1>2, <1>3, <1>4 DEF t, w, FirstAre

(* con_hash.go:217-245, 319-323: the next node takes*)
(* the place of the one that fails, in one step and only for its own keys. *)
THEOREM Failover == RingSpec => ReplicaTakesOver
<1> DEFINE Over == \A n \in Members \ unhealthyNodes : n \in unhealthyNodes' =>
                     \A h \in Hashes : TakesOver(n, h)
<1>1. ASSUME RingInv, [RingNext]_ringVars, NEW n \in Members \ unhealthyNodes,
             n \in unhealthyNodes', NEW h \in Hashes
      PROVE  TakesOver(n, h)
  <2>1. unhealthyNodes' = unhealthyNodes \cup {n} /\ keys' = keys /\ hashMap' = hashMap
    <3>1. CASE UNCHANGED ringVars
      BY <1>1, <3>1 DEF ringVars, ring
    <3>2. ASSUME NEW m \in Nodes, Add(m) \/ RemoveNode(m) PROVE FALSE
      BY <1>1, <3>2 DEF Add, RemoveNode
    <3>3. ASSUME NEW m \in Nodes, MarkHealthy(m) PROVE FALSE
      BY <1>1, <3>3 DEF MarkHealthy
    <3>4. ASSUME NEW m \in Nodes, MarkUnhealthy(m)
          PROVE  unhealthyNodes' = unhealthyNodes \cup {n} /\ keys' = keys /\ hashMap' = hashMap
      BY <1>1, <3>4 DEF MarkUnhealthy
    <3>5. ASSUME NEW g \in Hashes, Get(g) \/ GetHealthyCounted(g) PROVE FALSE
      BY <1>1, <3>5 DEF Get, GetHealthyCounted, Count, ring
    <3>6. CASE Balance
      BY <1>1, <3>6 DEF Balance, ReadTotal, CheckLoad, Rebalance, ring
    <3> QED BY <1>1, <3>1, <3>2, <3>3, <3>4, <3>5, <3>6 DEF RingNext
  <2>2. Walk(h)' = Walk(h)
    BY <2>1 DEF Walk, Start, AtHash
  <2>3. PICK w : w = Walk(h)
    OBVIOUS
  <2>4. PICK U : U = unhealthyNodes
    OBVIOUS
  <2>5. PICK F : F = FirstMet(w, U)
    OBVIOUS
  <2>6. PICK G : G = FirstMet(w, U \cup {n})
    OBVIOUS
  <2> DEFINE t == InOrder(F)
             u == InOrder(G)
             L == Len(t)
             two == GetNHealthy(h, 2)
             one == [i \in DOMAIN u \cap (1..1) |-> w[u[i]]]
             left == {i \in DOMAIN two : two[i] # n}
  <2>7. GetNHealthy(h, 1)' = one
    BY <2>1, <2>2, <2>3, <2>4, <2>6 DEF GetNHealthy, FirstN
  <2>8. /\ Lists(t, F) /\ L \in Nat /\ t \in [1..L -> F]
        /\ DOMAIN two = 1..L \cap (1..2) /\ \A i \in 1..L \cap (1..2) : two[i] = w[t[i]]
    <3>1. 2 \in Nat
      OBVIOUS
    <3> DEFINE q == FirstN(h, 2, U)
    <3>2. F = FirstMet(Walk(h), U)
      BY <2>3, <2>5
    <3>3. /\ Lists(InOrder(F), F) /\ Len(InOrder(F)) \in Nat
          /\ InOrder(F) \in [1..Len(InOrder(F)) -> F]
      BY <1>1, <3>1, <3>2, FirstNIs
    <3>4. FirstAre(FirstN(h, 2, U), 2, Walk(h), InOrder(F))
      BY <1>1, <3>1, <3>2, FirstNIs
    <3>5. two = FirstN(h, 2, U)
      BY <2>4 DEF GetNHealthy
    <3> HIDE DEF two
    <3> QED BY <2>3, <3>3, <3>4, <3>5 DEF FirstAre
  <2>9. /\ F \in SUBSET Nat /\ IsFiniteSet(F) /\ F \in SUBSET (1..Len(keys))
        /\ \A m \in Members \ U : \E i \in F : w[i] = m
        /\ \A i \in F : \A j \in 1..Len(keys) : w[j] = w[i] => i <= j
    BY <1>1, <2>3, <2>4, <2>5, AllAreMet
  <2>10. ASSUME NEW i \in F, NEW j \in F, w[i] = w[j] PROVE i = j
    <3>1. i <= j /\ j <= i /\ i \in Nat /\ j \in Nat
      BY <2>9, <2>10
    <3> QED BY <3>1
  <2>11. PICK z \in F : w[z] = n
    BY <2>4, <2>9
  <2>12. G = F \ {z}
    <3>1. G = {i \in F : w[i] # n}
      BY <2>5, <2>6 DEF FirstMet
    <3> QED BY <2>10, <2>11, <3>1
  <2> HIDE DEF t, u, L, two
  <2>13. /\ \A i, j \in 1..L : i < j => t[i] < t[j]
         /\ \A x \in F : \E i \in 1..L : t[i] = x
    BY <2>8 DEF Lists, L
  <2>14. PICK y \in 1..L : t[y] = z
    BY <2>11, <2>13
  <2>15. G \in SUBSET Nat /\ IsFiniteSet(G)
    BY <2>9, <2>12, FS_Subset
  <2>16. \A i \in 1..L : t[i] \in F /\ t[i] \in Nat
    BY <2>8, <2>9
  <2>17. ASSUME NEW x \in G, \A k \in G : x <= k PROVE one = <<w[x]>>
    <3>1. 1 \in DOMAIN u /\ u[1] = x
      BY <2>15, <2>17, LeastIsFirst DEF u
    <3>2. DOMAIN u \cap (1..1) = {1}
      BY <3>1
    <3>3. one = [i \in {1} |-> w[x]]
      BY <3>1, <3>2
    <3> QED BY <3>3
  <2>18. CASE L = 1
    <3>1. y = 1 /\ \A x \in F : x = z
      BY <2>13, <2>14, <2>18
    <3>2. G = {}
      BY <2>12, <3>1
    <3>3. DOMAIN u = {}
      <4>1. Cardinality(G) = 0
        BY <3>2, FS_EmptySet
      <4>2. DOMAIN u = 1..Cardinality(G)
        BY DEF u, InOrder
      <4> QED BY <4>1, <4>2
    <3>4. one = <<>>
      BY <3>3
    <3>5. DOMAIN two = {1} /\ two[1] = w[t[1]]
      <4>1. 1..L \cap (1..2) = {1}
        BY <2>18
      <4> QED BY <2>8, <4>1 DEF L
    <3>6. two[1] = n
      BY <2>11, <2>14, <3>1, <3>5
    <3>7. left = {}
      BY <3>5, <3>6
    <3> QED BY <2>7, <3>4, <3>7 DEF two, TakesOver
  <2>19. CASE L > 1
    <3>1. 1 \in 1..L /\ 2 \in 1..L /\ 1..L \cap (1..2) = {1, 2} /\ L \in Nat
      BY <2>8, <2>19 DEF L
    <3>2. DOMAIN two = {1, 2} /\ two[1] = w[t[1]] /\ two[2] = w[t[2]]
      BY <2>8, <3>1 DEF L
    <3>3. t[1] \in F /\ t[2] \in F /\ t[1] < t[2]
      BY <2>13, <2>16, <3>1
    <3>4. \A x \in F : x = t[1] \/ t[2] <= x
      <4>1. ASSUME NEW x \in F PROVE x = t[1] \/ t[2] <= x
        <5>1. PICK k \in 1..L : t[k] = x
          BY <2>13
        <5>2. k = 1 \/ k = 2 \/ 2 < k
          BY <3>1
        <5>3. CASE 2 < k
          BY <2>13, <2>16, <3>1, <5>1, <5>3
        <5>4. CASE k = 2
          BY <2>16, <3>1, <5>1, <5>4
        <5> QED BY <5>1, <5>2, <5>3, <5>4
      <4> QED BY <4>1
    <3>5. CASE w[t[1]] = n
      <4>1. z = t[1]
        BY <2>10, <2>11, <3>3, <3>5
      <4>2. t[2] \in G /\ \A k \in G : t[2] <= k
        BY <2>12, <2>16, <3>1, <3>3, <3>4, <4>1
      <4>3. w[t[2]] # n
        BY <2>10, <2>16, <3>1, <3>3, <3>5
      <4>4. left = {2}
        BY <3>2, <3>5, <4>3
      <4>5. Min(left) = 2
        BY <4>4 DEF Min
      <4>6. one = <<w[t[2]]>>
        BY <2>17, <4>2
      <4> QED BY <2>7, <3>2, <4>4, <4>5, <4>6 DEF two, TakesOver
    <3>6. CASE w[t[1]] # n
      <4>1. t[1] \in G
        BY <2>11, <2>12, <3>3, <3>6
      <4>2. \A k \in G : t[1] <= k
        BY <2>9, <2>12, <2>16, <3>1, <3>3, <3>4
      <4>3. 1 \in left /\ left \subseteq {1, 2}
        BY <3>2, <3>6
      <4>4. Min(left) = 1
        <5>1. \A k \in left : 1 <= k
          BY <4>3
        <5>2. \A m \in left : (\A k \in left : m <= k) => m = 1
          BY <4>3
        <5> QED BY <4>3, <5>1, <5>2 DEF Min
      <4>5. one = <<w[t[1]]>>
        BY <2>17, <4>1, <4>2
      <4> QED BY <2>7, <3>2, <4>3, <4>4, <4>5 DEF two, TakesOver
    <3> QED BY <3>5, <3>6
  <2> QED BY <2>8, <2>14, <2>18, <2>19 DEF L
<1>2. RingInv /\ [RingNext]_ringVars => [Over]_ringVars
  BY <1>1
<1> HIDE DEF Over
<1>3. RingSpec => [][Over]_ringVars
  BY <1>2, RingInvariance, PTL DEF RingSpec
<1> QED BY <1>3, PTL DEF ReplicaTakesOver, Over
=============================================================================
