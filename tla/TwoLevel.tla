------------------------------ MODULE TwoLevel ------------------------------
(***************************************************************************)
(* One bucket of lru2Store (store/lru2.go): two lists in order of use      *)
(* (Recency; LruSlab shows that the linked list in arrays is one).  Set    *)
(* writes into level 0; a Get that finds the key there moves it to level   *)
(* 1; other Gets look into level 1.  Every operation holds the bucket's    *)
(* lock and is one step, except three: a Set reads the clock before it has *)
(* the lock, Clear gives the lock back between collecting the keys and     *)
(* deleting each of them, and the cleaner, which does the same with the    *)
(* keys it finds expired, reads the clock before it has the lock and keeps *)
(* the lock, but not the clock, all the while.                             *)
(*                                                                         *)
(* A value is the number of the Set that wrote it.                         *)
(***************************************************************************)
EXTENDS Recency, Store

CONSTANTS
  Cap0, Cap1,   \* Options.CapPerBucket and Level2Cap
  TTLs,         \* expirations Set is called with: cache.Add takes the time
                \*   until a deadline, which no two calls need have equal
  MaxSets,      \* bound: Sets
  MaxTime,      \* bound: the clock
  MaxClears,    \* bound: calls of Clear
  None

ASSUME CapAssumption == Cap0 \in Nat \ {0} /\ Cap1 \in Nat \ {0}
ASSUME TTLAssumption == TTLs \subseteq Nat \ {0}
ASSUME NoneAssumption == None \notin [v : Nat, e : Nat]

VARIABLES
  l0, l1,      \* s.caches[idx][0] and [1]
  now,         \* the package's clock
  sets,        \* Sets so far
  begun,       \* what Sets that wait for the lock are going to write
  clears,      \* Clears so far
  clearing,    \* keys a Clear has collected and not deleted yet
  cleaning,    \* keys the cleaner has found expired and not deleted yet; it
               \*   holds the bucket's lock while there are any
  got,         \* what the last operation, if a read, has returned, or None
  latest,      \* latest[k]: value and expiration that the last Set of k has
               \*   written, None after a Delete (history)
  pushed       \* keys level 0 has pushed out, live, since their last Set
               \*   (history)

vars ==
  <<l0, l1, now, sets, begun, clears, clearing, cleaning, got, latest, pushed>>

Expired(x) == now >= x.e
Unlocked == cleaning = {}

Init ==
  /\ l0 = <<>> /\ l1 = <<>>
  /\ now = 1
  /\ sets = 0 /\ begun = {} /\ clears = 0
  /\ clearing = {} /\ cleaning = {}
  /\ got = None
  /\ latest = [k \in Keys |-> None]
  /\ pushed = {}

-----------------------------------------------------------------------------
(* SetWithExpiration up to the lock: the time at which the entry expires.  *)
SetBegin(k, ttl) ==
  /\ sets < MaxSets
  /\ sets' = sets + 1
  /\ begun' = begun \cup {[k |-> k, v |-> sets + 1, e |-> now + ttl]}
  /\ got' = None
  /\ UNCHANGED <<l0, l1, now, clears, clearing, cleaning, latest, pushed>>

(* The rest of it: into level 0, whatever level 1 holds.  Of two Sets of a *)
(* key the one that gets the lock later is the last one, though it may have*)
(* begun first, and may expire first.                                      *)
Set(x) ==
  /\ x \in begun /\ Unlocked
  /\ begun' = begun \ {x}
  /\ l0' = PutIn(l0, Cap0, x)
  /\ latest' = [latest EXCEPT ![x.k] = [v |-> x.v, e |-> x.e]]
  /\ pushed' = IF Pushes(l0, Cap0, x.k) /\ Live(PushedOut(l0))
                 THEN (pushed \cup {PushedOut(l0).k}) \ {x.k}
                 ELSE pushed \ {x.k}
  /\ got' = None
  /\ UNCHANGED <<l1, now, sets, clears, clearing, cleaning>>

(* What a read returns, and which read it was.                             *)
Found(x, read) == [k |-> x.k, v |-> x.v, e |-> x.e, by |-> read]

(* FAULTY: level 1's copy stays when level 0's has expired.                *)
GetFirst_KeepsSecond(k) ==
  /\ HasLive(l0, k)
  /\ l0' = DelFrom(l0, k)
  /\ LET x == EntryOf(l0, k) IN
       IF Expired(x)
         THEN l1' = l1 /\ got' = None
         ELSE l1' = PutIn(l1, Cap1, x) /\ got' = Found(x, "Get")

(* Get: level 0 has the key.  Its entry there is marked deleted; if it is  *)
(* valid it is put into level 1, if it has expired level 1's goes too.     *)
GetFirst(k) ==
  /\ HasLive(l0, k)
  /\ l0' = DelFrom(l0, k)
  /\ LET x == EntryOf(l0, k) IN
       IF Expired(x)
         THEN l1' = DelFrom(l1, k) /\ got' = None
         ELSE l1' = PutIn(l1, Cap1, x) /\ got' = Found(x, "Get")

(* FAULTY: level 1's entry is taken without a look at the clock.           *)
GetSecond_NoClock(k) ==
  /\ ~HasLive(l0, k)
  /\ l1' = GetFrom(l1, k)
  /\ got' = IF HasLive(l1, k) THEN Found(EntryOf(l1, k), "Get") ELSE None
  /\ UNCHANGED l0

(* Get: level 0 does not have it.  _get moves level 1's entry, live or     *)
(* not, to the head and takes it only if it is valid.                      *)
GetSecond(k) ==
  /\ ~HasLive(l0, k)
  /\ l1' = GetFrom(l1, k)
  /\ got' = IF HasLive(l1, k) /\ ~Expired(EntryOf(l1, k))
              THEN Found(EntryOf(l1, k), "Get") ELSE None
  /\ UNCHANGED l0

Get(k) ==
  /\ Unlocked
  /\ GetFirst(k) \/ GetSecond(k)
  /\ UNCHANGED <<now, sets, begun, clears, clearing, cleaning, latest, pushed>>

(* GetValue, which moves nothing.  An entry of level 0 that has expired    *)
(* does not hide level 1's.                                                *)
GetValue(k) ==
  /\ Unlocked
  /\ LET valid(l) == HasLive(l, k) /\ ~Expired(EntryOf(l, k)) IN
       got' = IF valid(l0) THEN Found(EntryOf(l0, k), "GetValue")
              ELSE IF valid(l1) THEN Found(EntryOf(l1, k), "GetValue") ELSE None
  /\ UNCHANGED <<l0, l1, now, sets, begun, clears, clearing, cleaning, latest, pushed>>

(* FAULTY: the copy in level 1 is forgotten.                               *)
delete_Level0(k) == l0' = DelFrom(l0, k) /\ UNCHANGED l1

(* s.delete, in both levels.                                               *)
delete(k) == l0' = DelFrom(l0, k) /\ l1' = DelFrom(l1, k)

Delete(k) ==
  /\ Unlocked
  /\ delete(k)
  /\ latest' = [latest EXCEPT ![k] = None]
  /\ got' = None
  /\ UNCHANGED <<now, sets, begun, clears, clearing, cleaning, pushed>>

HoldsExpiredAt(k, t) ==
  \/ HasLive(l0, k) /\ t >= EntryOf(l0, k).e
  \/ HasLive(l1, k) /\ t >= EntryOf(l1, k).e

HoldsExpired(k) == HoldsExpiredAt(k, now)

(* FAULTY: only level 0 is looked through.                                 *)
ExpiredKeys_Level0(t) == {k \in Keys : HasLive(l0, k) /\ t >= EntryOf(l0, k).e}

(* FAULTY: an expiration time is enough, the clock is not asked.           *)
ExpiredKeys_NoClock(t) == {k \in Keys : HoldsExpiredAt(k, t) \/ HasLive(l1, k)}

(* What cleanupLoop collects from both levels, each key once.              *)
ExpiredKeys(t) == {k \in Keys : HoldsExpiredAt(k, t)}

(* t is what the clock showed when the round began, before it had the lock.*)
CleanupFind ==
  \E t \in 1 .. now :
    /\ Unlocked /\ ExpiredKeys(t) # {}
    /\ cleaning' = ExpiredKeys(t)
    /\ got' = None
    /\ UNCHANGED <<l0, l1, now, sets, begun, clears, clearing, latest, pushed>>

(* The order of the deletions is the order of the deleted entries at the   *)
(* lists' ends only; every order is allowed here.                          *)
CleanupDelete(k) ==
  /\ k \in cleaning
  /\ cleaning' = cleaning \ {k}
  /\ delete(k)
  /\ got' = None
  /\ UNCHANGED <<now, sets, begun, clears, clearing, latest, pushed>>

LiveKeys == {k \in Keys : HasLive(l0, k) \/ HasLive(l1, k)}

(* Clear collects the keys under the lock ...                              *)
ClearCollect ==
  /\ Unlocked /\ clearing = {} /\ clears < MaxClears
  /\ clearing' = LiveKeys
  /\ clears' = clears + 1
  /\ got' = None
  /\ UNCHANGED <<l0, l1, now, sets, begun, cleaning, latest, pushed>>

(* ... and then calls Delete for each.                                     *)
ClearDelete(k) ==
  /\ k \in clearing
  /\ clearing' = clearing \ {k}
  /\ Unlocked
  /\ delete(k)
  /\ latest' = [latest EXCEPT ![k] = None]
  /\ got' = None
  /\ UNCHANGED <<now, sets, begun, clears, cleaning, pushed>>

(* The clock is advanced every 100 ms, whoever holds the lock.             *)
Tick ==
  /\ now < MaxTime
  /\ now' = now + 1
  /\ got' = None
  /\ UNCHANGED <<l0, l1, sets, begun, clears, clearing, cleaning, latest, pushed>>

Next ==
  \/ \E k \in Keys :
       \/ \E ttl \in TTLs : SetBegin(k, ttl)
       \/ Get(k)
       \/ GetValue(k)
       \/ Delete(k)
       \/ ClearDelete(k)
       \/ CleanupDelete(k)
  \/ \E x \in begun : Set(x)
  \/ CleanupFind
  \/ ClearCollect
  \/ Tick

Spec == Init /\ [][Next]_vars

(* cleanupLoop ticks for ever, and ends each of its rounds; nothing else   *)
(* has to happen.                                                          *)
FairSpec ==
  /\ Spec /\ WF_vars(CleanupFind)
  /\ \A k \in Keys : WF_vars(CleanupDelete(k))

-----------------------------------------------------------------------------
(* A Get returns what the last Set of the key wrote, although an older copy*)
(* may be in level 1 and may expire later than the newer one, as long as   *)
(* level 0 has not pushed the newer one out (lru2.go:53-91).  GetValue,    *)
(* which deletes nothing, looks past an expired entry of level 0 and may   *)
(* return the older copy, but only once the newer one's time is over       *)
(* (lru2.go:208-230).                                                      *)
ReadsLastWrite ==
  got # None /\ got.k \notin pushed =>
    /\ latest[got.k] # None
    /\ \/ got.v = latest[got.k].v
       \/ got.by = "GetValue" /\ now >= latest[got.k].e

(* After Delete no level has the key, and nothing brings it back but a     *)
(* Set: not a promotion, not a copy left in level 1 (lru2.go:399-417).     *)
NoResurrection ==
  \A k \in Keys : latest[k] = None => k \notin LiveKeys

(* No read returns an entry whose time is over.                            *)
ExpiredNotServed == got # None => now < got.e

(* What has expired does not stay: the cleaner gets to both levels.        *)
ExpiredGoes ==
  \A k \in Keys : HoldsExpired(k) ~> ~HoldsExpired(k)

(* lru2.go:426, "check for expired items and clean them up": the cleaner   *)
(* takes nothing of a key neither of whose copies has expired.             *)
CleanupSparesFresh ==
  [][(\E k \in Keys : CleanupDelete(k)) =>
       \A k \in Keys : ~HoldsExpired(k) =>
         /\ HasLive(l0, k) => HasLive(l0', k)
         /\ HasLive(l1, k) => HasLive(l1', k)]_vars
=============================================================================
