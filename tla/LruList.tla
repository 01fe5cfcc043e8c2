------------------------------- MODULE LruList -------------------------------
(***************************************************************************)
(* The store of store/lru.go: a map of keys to the elements of a linked    *)
(* list, in order of use, within a limit of bytes.                         *)
(*                                                                         *)
(* The list is Go's container/list with its links: element 0 is the root,  *)
(* link[0].n the front (used longest ago), link[0].p the back.  mine[e] is *)
(* e.list = l.  A method that locks c.mu once is one step; Get locks it    *)
(* twice, and evict is a step for each element it removes, with c.mu held. *)
(* A value is its length.  Time is when an entry's expiration passes.      *)
(***************************************************************************)
EXTENDS Integers, FiniteSets, FiniteSetsExt, Store

CONSTANTS
  KeyLen,     \* len(key)
  Vals,       \* lengths of values
  MaxBytes,   \* Options.MaxBytes; 0 is no limit
  Getters,    \* goroutines that call Get
  Elems,      \* bound: elements of the list, 1..n
  MaxDeletes  \* bound: goroutines in "go c.Delete(key)" for one key

ASSUME SizeAssumption == KeyLen \in Nat \ {0} /\ Vals \subseteq Nat /\ MaxBytes \in Nat
ASSUME BoundAssumption == Elems \subseteq Nat \ {0} /\ MaxDeletes \in Nat
ASSUME KeyAssumption == Keys \cap {"cleaner", "none"} = {}  \* values of evictor

VARIABLES
  link, mine, entry, count,    \* the list; count is l.len
  items, expires, usedBytes,
  reading,    \* reading[p]: the key and element of a Get between its locks
  deleting,   \* deleting[k]: goroutines on their way to Delete(k)
  evictor,    \* who is in evict with c.mu held: a key being set, "cleaner"
  closed,     \* closeCh is closed
  crashed     \* a type assertion on the root's Value has panicked

list == <<link, mine, entry, count>>
lruVars == <<list, items, expires, usedBytes, reading, deleting, evictor, closed,
          crashed>>

Root == 0
Absent == 0
Idle == [k |-> "none", e |-> 0]
NoEntry == [k |-> "none", v |-> 0]

LruTypeOK ==
  /\ link \in [Elems \cup {Root} -> [p : Elems \cup {Root}, n : Elems \cup {Root}]]
  /\ mine \in [Elems -> BOOLEAN]
  /\ entry \in [Elems -> [k : Keys, v : Vals] \cup {NoEntry}]
  /\ count \in Nat /\ usedBytes \in Nat
  /\ items \in [Keys -> Elems \cup {Absent}]
  /\ expires \in [Keys -> {"never", "later", "past"}]
  /\ reading \in [Getters -> [k : Keys, e : Elems] \cup {Idle}]
  /\ deleting \in [Keys -> 0..MaxDeletes]
  /\ evictor \in Keys \cup {"cleaner", "none"}
  /\ closed \in BOOLEAN /\ crashed \in BOOLEAN

LruInit ==
  /\ link = [e \in Elems \cup {Root} |-> [p |-> Root, n |-> Root]]
  /\ mine = [e \in Elems |-> FALSE]
  /\ entry = [e \in Elems |-> NoEntry]
  /\ count = 0 /\ usedBytes = 0
  /\ items = [k \in Keys |-> Absent]
  /\ expires = [k \in Keys |-> "never"]
  /\ reading = [p \in Getters |-> Idle]
  /\ deleting = [k \in Keys |-> 0]
  /\ evictor = "none"
  /\ closed = FALSE /\ crashed = FALSE

-----------------------------------------------------------------------------
(* container/list on links l.                                              *)

Unlinked(l, e) ==
  LET l1 == [l EXCEPT ![l[e].p].n = l[e].n]
  IN  [l1 EXCEPT ![l1[e].n].p = l1[e].p]

(* e between x and the element after x.                                    *)
LinkedAfter(l, e, x) ==
  LET l1 == [l EXCEPT ![e] = [p |-> x, n |-> l[x].n]]
      l2 == [l1 EXCEPT ![x].n = e]
  IN  [l2 EXCEPT ![l2[e].n].p = e]

(* MoveToBack leaves an element of no list, or of another, alone.  The     *)
(* back is found before e is unlinked.                                     *)
MoveToBack(e) ==
  IF ~mine[e] \/ link[Root].p = e THEN link
  ELSE LinkedAfter(Unlinked(link, e), e, link[Root].p)

(* Elements a Set can be given: what nothing refers to is collected.       *)
Held == {items[k] : k \in Keys} \cup {reading[p].e : p \in Getters}
Spare ==
  Elems \ (Held \cup UNION {{link[e].p, link[e].n} : e \in Held \cup {Root}})

-----------------------------------------------------------------------------
LruUnlocked == evictor = "none" /\ ~crashed

(* FAULTY: the bytes of the key stay accounted for.                        *)
removeElement_KeyBytes(e) ==
  /\ link' = IF mine[e] THEN [Unlinked(link, e) EXCEPT
                                ![e] = [p |-> Root, n |-> Root]] ELSE link
  /\ count' = IF mine[e] THEN count - 1 ELSE count
  /\ mine' = [mine EXCEPT ![e] = FALSE]
  /\ entry' = [entry EXCEPT ![e] = NoEntry]
  /\ items' = [items EXCEPT ![entry[e].k] = Absent]
  /\ expires' = [expires EXCEPT ![entry[e].k] = "never"]
  /\ usedBytes' = usedBytes - entry[e].v

(* FAULTY: the expiration time outlives the entry.                         *)
removeElement_KeepExpiry(e) ==
  /\ link' = IF mine[e] THEN [Unlinked(link, e) EXCEPT
                                ![e] = [p |-> Root, n |-> Root]] ELSE link
  /\ count' = IF mine[e] THEN count - 1 ELSE count
  /\ mine' = [mine EXCEPT ![e] = FALSE]
  /\ entry' = [entry EXCEPT ![e] = NoEntry]
  /\ items' = [items EXCEPT ![entry[e].k] = Absent]
  /\ usedBytes' = usedBytes - (KeyLen + entry[e].v)
  /\ UNCHANGED expires

removeElement(e) ==
  /\ link' = IF mine[e] THEN [Unlinked(link, e) EXCEPT
                                ![e] = [p |-> Root, n |-> Root]] ELSE link
  /\ count' = IF mine[e] THEN count - 1 ELSE count
  /\ mine' = [mine EXCEPT ![e] = FALSE]
  /\ entry' = [entry EXCEPT ![e] = NoEntry]
  /\ items' = [items EXCEPT ![entry[e].k] = Absent]
  /\ expires' = [expires EXCEPT ![entry[e].k] = "never"]
  /\ usedBytes' = usedBytes - (KeyLen + entry[e].v)

(* SetWithExpiration of a key that has an entry; nothing is evicted.       *)
SetExisting(k, v, x) ==
  /\ LruUnlocked /\ items[k] # Absent
  /\ entry' = [entry EXCEPT ![items[k]].v = v]
  /\ usedBytes' = usedBytes + v - entry[items[k]].v
  /\ link' = MoveToBack(items[k])
  /\ expires' = [expires EXCEPT ![k] = x]
  /\ UNCHANGED <<mine, count, items, reading, deleting, evictor, closed, crashed>>

(* FAULTY: the new entry goes to the front, where evict begins.            *)
SetNew_AtFront(k, v, x) ==
  /\ LruUnlocked /\ items[k] = Absent
  /\ \E e \in Spare :
       /\ \A f \in Spare : e <= f
       /\ link' = LinkedAfter(link, e, Root)
       /\ mine' = [mine EXCEPT ![e] = TRUE]
       /\ entry' = [entry EXCEPT ![e] = [k |-> k, v |-> v]]
       /\ items' = [items EXCEPT ![k] = e]
  /\ count' = count + 1
  /\ usedBytes' = usedBytes + KeyLen + v
  /\ expires' = [expires EXCEPT ![k] = x]
  /\ evictor' = k
  /\ UNCHANGED <<reading, deleting, closed, crashed>>

(* SetWithExpiration of another key; it goes on to evict, and x says how   *)
(* the entry stands when evict reads the clock.                            *)
SetNew(k, v, x) ==
  /\ LruUnlocked /\ items[k] = Absent
  /\ \E e \in Spare :
       /\ \A f \in Spare : e <= f
       /\ link' = LinkedAfter(link, e, link[Root].p)
       /\ mine' = [mine EXCEPT ![e] = TRUE]
       /\ entry' = [entry EXCEPT ![e] = [k |-> k, v |-> v]]
       /\ items' = [items EXCEPT ![k] = e]
  /\ count' = count + 1
  /\ usedBytes' = usedBytes + KeyLen + v
  /\ expires' = [expires EXCEPT ![k] = x]
  /\ evictor' = k
  /\ UNCHANGED <<reading, deleting, closed, crashed>>

(* cleanupLoop                                                             *)
Cleanup ==
  /\ LruUnlocked /\ ~closed
  /\ evictor' = "cleaner"
  /\ UNCHANGED <<list, items, expires, usedBytes, reading, deleting, closed,
                 crashed>>

Outdated == {k \in Keys : expires[k] = "past" /\ items[k] # Absent}

EvictOutdated(k) ==
  /\ evictor # "none" /\ ~crashed
  /\ k \in Outdated
  /\ removeElement(items[k])
  /\ UNCHANGED <<reading, deleting, evictor, closed, crashed>>

TooMuch == MaxBytes > 0 /\ usedBytes > MaxBytes /\ count > 0

(* Front() of a list whose len is not 0 is root.next, whatever that is.    *)
EvictOldest ==
  /\ evictor # "none" /\ ~crashed
  /\ Outdated = {} /\ TooMuch
  /\ IF link[Root].n = Root
       THEN /\ crashed' = TRUE
            /\ UNCHANGED <<list, items, expires, usedBytes>>
       ELSE removeElement(link[Root].n) /\ UNCHANGED crashed
  /\ UNCHANGED <<reading, deleting, evictor, closed>>

EvictDone ==
  /\ evictor # "none" /\ ~crashed
  /\ Outdated = {} /\ ~TooMuch
  /\ evictor' = "none"
  /\ UNCHANGED <<list, items, expires, usedBytes, reading, deleting, closed,
                 crashed>>

(* Delete, called by a client, or by Set of a nil value.                   *)
LruDelete(k) ==
  /\ LruUnlocked /\ items[k] # Absent
  /\ removeElement(items[k])
  /\ UNCHANGED <<reading, deleting, evictor, closed, crashed>>

(* The Delete that a Get has started.                                      *)
AsyncDelete(k) ==
  /\ LruUnlocked /\ deleting[k] > 0
  /\ deleting' = [deleting EXCEPT ![k] = @ - 1]
  /\ IF items[k] # Absent THEN removeElement(items[k])
     ELSE UNCHANGED <<list, items, expires, usedBytes>>
  /\ UNCHANGED <<reading, evictor, closed, crashed>>

(* list.Init() cuts the root off and leaves the elements alone, but as no  *)
(* Get is between its locks (Cache.Get and Cache.Clear hold Cache.mu) they *)
(* are garbage.                                                            *)
Clear ==
  /\ LruUnlocked /\ \A p \in Getters : reading[p] = Idle
  /\ link' = [e \in Elems \cup {Root} |-> [p |-> Root, n |-> Root]]
  /\ mine' = [e \in Elems |-> FALSE]
  /\ entry' = [e \in Elems |-> NoEntry]
  /\ count' = 0 /\ usedBytes' = 0
  /\ items' = [k \in Keys |-> Absent]
  /\ expires' = [k \in Keys |-> "never"]
  /\ UNCHANGED <<reading, deleting, evictor, closed, crashed>>

(* Get under the read lock: an entry found, or found too late.             *)
GetFound(p, k) ==
  /\ LruUnlocked /\ reading[p] = Idle
  /\ items[k] # Absent /\ expires[k] # "past"
  /\ reading' = [reading EXCEPT ![p] = [k |-> k, e |-> items[k]]]
  /\ UNCHANGED <<list, items, expires, usedBytes, deleting, evictor, closed,
                 crashed>>

GetOutdated(p, k) ==
  /\ LruUnlocked /\ reading[p] = Idle
  /\ k \in Outdated /\ deleting[k] < MaxDeletes
  /\ deleting' = [deleting EXCEPT ![k] = @ + 1]
  /\ UNCHANGED <<list, items, expires, usedBytes, reading, evictor, closed,
                 crashed>>

(* FAULTY: the element is linked to the back without a look at its list.   *)
GetMove_AnyList(p) ==
  /\ LruUnlocked /\ reading[p] # Idle
  /\ link' = IF items[reading[p].k] # Absent /\ link[Root].p # reading[p].e
               THEN LinkedAfter(Unlinked(link, reading[p].e), reading[p].e,
                                link[Root].p)
               ELSE link
  /\ reading' = [reading EXCEPT ![p] = Idle]
  /\ UNCHANGED <<mine, entry, count, items, expires, usedBytes, deleting,
                 evictor, closed, crashed>>

(* Get under the write lock: it asks whether the key is there, and moves   *)
(* the element it found before.                                            *)
GetMove(p) ==
  /\ LruUnlocked /\ reading[p] # Idle
  /\ link' = IF items[reading[p].k] # Absent THEN MoveToBack(reading[p].e)
             ELSE link
  /\ reading' = [reading EXCEPT ![p] = Idle]
  /\ UNCHANGED <<mine, entry, count, items, expires, usedBytes, deleting,
                 evictor, closed, crashed>>

(* Close; Cache.Close calls it once.                                       *)
Close ==
  /\ ~closed
  /\ closed' = TRUE
  /\ UNCHANGED <<list, items, expires, usedBytes, reading, deleting, evictor,
                 crashed>>

(* evict reads the clock once, before its loop.                            *)
TimePasses(k) ==
  /\ LruUnlocked /\ expires[k] = "later"
  /\ expires' = [expires EXCEPT ![k] = "past"]
  /\ UNCHANGED <<list, items, usedBytes, reading, deleting, evictor, closed,
                 crashed>>

LruNext ==
  \/ \E k \in Keys, v \in Vals :
       \/ \E x \in {"never", "later"} : SetExisting(k, v, x)
       \/ \E x \in {"never", "later", "past"} : SetNew(k, v, x)
  \/ \E k \in Keys : EvictOutdated(k) \/ LruDelete(k) \/ AsyncDelete(k) \/ TimePasses(k)
  \/ \E p \in Getters : GetMove(p) \/ \E k \in Keys : GetFound(p, k) \/ GetOutdated(p, k)
  \/ Cleanup \/ EvictOldest \/ EvictDone \/ Clear \/ Close

LruSpec == LruInit /\ [][LruNext]_lruVars

-----------------------------------------------------------------------------
Present == {k \in Keys : items[k] # Absent}

(* The list, from both ends, is the elements of the map: what is reachable *)
(* is linked both ways, belongs to the list and is found under its key,    *)
(* and there are as many elements as keys.                                 *)
ListMatchesItems ==
  /\ \A k \in Present : mine[items[k]] /\ entry[items[k]].k = k
  /\ LET in == {items[k] : k \in Present} \cup {Root}
     IN  \A e \in in : /\ link[e].n \in in /\ link[e].p \in in
                       /\ link[link[e].n].p = e /\ link[link[e].p].n = e
  /\ count = Cardinality(Present)

(* usedBytes is what the entries take, after any order of Sets, Deletes    *)
(* and evictions.                                                          *)
BytesAreExact ==
  usedBytes = FoldSet(LAMBDA k, sum : sum + KeyLen + entry[items[k]].v, 0, Present)

(* An expiration time is kept for an entry only.                           *)
ExpiryHasEntry == \A k \in Keys : expires[k] # "never" => k \in Present

(* A Set is not undone by its own eviction, unless its entry alone is      *)
(* larger than the limit or has expired by then.                           *)
SetSurvivesItsEviction ==
  [][\A k \in Present : (evictor = k /\ k \notin Present')
       => expires[k] = "past" \/ KeyLen + entry[items[k]].v > MaxBytes]_lruVars
=============================================================================
