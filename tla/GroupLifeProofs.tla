--------------------------- MODULE GroupLifeProofs ---------------------------
(***************************************************************************)
(* OneStore of a Cache, and what its flag says of its store, for any       *)
(* number of callers; that a group uses its Cache as CacheStore allows, so *)
(* that they hold in a group; and SetThenContained, ClosedNotServed,       *)
(* NilStoreNeedsRace and StoreLeakNeedsRace, for any callers, keys, hashes *)
(* and groups.                                                             *)
(***************************************************************************)
EXTENDS GroupLife, TLAPS

(* What those who hold c.mu rely on: a call between the creation of the    *)
(* store and the flag is alone there, and so is Close.                     *)
MuInv ==
  /\ closed <=> closing # "no"
  /\ \A p, q \in Callers : at[p] = "made" /\ at[q] = "made" => p = q
  /\ \A p \in Callers : at[p] = "made" =>
       store # NoStore /\ ~initialized /\ closing \notin {"stopped", "emptied"}
  /\ Free => (initialized <=> store # NoStore)
  /\ closing = "stopped" => store # NoStore /\ ticking = {}
  /\ closing = "emptied" => store = NoStore

(* Until Close begins, who has seen the flag finds a store.                *)
FindsStore ==
  ~closed => \A p \in Callers :
               /\ at[p] # "crashed"
               /\ at[p] \in {"use", "wait"} => store # NoStore

(* A second store is not created because the flag tells of the first.      *)
StoreInv == TypeOK /\ OneStore /\ MuInv /\ FindsStore

LEMMA StoreInit == Init => StoreInv
BY StoreAssumption
DEF Init, StoreInv, TypeOK, OneStore, MuInv, FindsStore, Free, Places

(* A move of one caller.                                                   *)
LEMMA GotoMoves ==
  ASSUME TypeOK, NEW p \in Callers, NEW from, NEW to \in Places,
         Goto(p, from, to)
  PROVE  /\ at[p] = from /\ at'[p] = to /\ at' \in [Callers -> Places]
         /\ \A q \in Callers : q # p => at'[q] = at[q]
BY DEF TypeOK, Goto

(* A flag seen before Close begins tells the truth.                        *)
LEMMA SeenIsThere ==
  ASSUME StoreInv, initialized, ~closed
  PROVE  store # NoStore
BY DEF StoreInv, MuInv, Free

(* The steps of a call that leave store and flags alone.                   *)
LEMMA MoveKeepsInv ==
  ASSUME StoreInv, NEW p \in Callers, NEW from, NEW to \in Places, Goto(p, from, to),
         from # "made", to # "made",
         UNCHANGED <<store, initialized, closed, ticking, used, closing>>,
         ~closed => to # "crashed" /\ (to \in {"use", "wait"} => store # NoStore)
  PROVE  StoreInv'
<1>1. /\ at[p] = from /\ at'[p] = to /\ at' \in [Callers -> Places]
      /\ \A q \in Callers : q # p => at'[q] = at[q]
      BY GotoMoves DEF StoreInv
<1>2. \A q \in Callers : at'[q] = "made" <=> at[q] = "made"
      BY <1>1
<1>3. Free' <=> Free
      BY <1>2 DEF Free
<1>4. MuInv'
      BY <1>2, <1>3 DEF StoreInv, MuInv
<1>5. FindsStore'
      BY <1>1 DEF StoreInv, FindsStore
<1> QED BY <1>1, <1>4, <1>5 DEF StoreInv, TypeOK, OneStore

(* ensureInitialized makes a store only when there is none.                *)
LEMMA CreateKeepsInv ==
  ASSUME StoreInv, NEW p \in Callers, Free, ~initialized, Create(p),
         UNCHANGED <<initialized, closed, closing>>
  PROVE  StoreInv'
<1> DEFINE s == CHOOSE s \in Stores : s \notin used
<1>1. /\ at[p] = "lock" /\ at'[p] = "made" /\ at' \in [Callers -> Places]
      /\ \A q \in Callers : q # p => at'[q] = at[q]
      BY GotoMoves DEF StoreInv, Create, Places
<1>2. s \in Stores
  <2>1. \E t \in Stores : t \notin used
        BY DEF StoreInv, TypeOK, Create
  <2> QED BY <2>1
<1>3. store' = s /\ ticking' = ticking \cup {s} /\ used' = used \cup {s}
      BY DEF Create
<1> HIDE DEF s
<1>4. store' # NoStore
      BY <1>2, <1>3, StoreAssumption
<1>5. store = NoStore /\ ticking = {}
  <2>1. store = NoStore
        BY DEF StoreInv, MuInv
  <2> QED BY <2>1, StoreAssumption DEF StoreInv, TypeOK, OneStore
<1>6. OneStore'
      BY <1>3, <1>4, <1>5 DEF StoreInv, OneStore
<1>7. MuInv'
  <2>1. ~Free'
        BY <1>1 DEF Free
  <2>2. \A q \in Callers : at'[q] = "made" => q = p
        BY <1>1 DEF Free
  <2> QED BY <1>4, <2>1, <2>2 DEF StoreInv, MuInv, Free
<1>8. FindsStore'
      BY <1>1, <1>4 DEF StoreInv, FindsStore
<1>9. TypeOK'
      BY <1>1, <1>2, <1>3 DEF StoreInv, TypeOK
<1> QED BY <1>6, <1>7, <1>8, <1>9 DEF StoreInv

LEMMA InitDoneKeepsInv ==
  ASSUME StoreInv, NEW p \in Callers, InitDone(p)
  PROVE  StoreInv'
<1>1. /\ at[p] = "made" /\ at'[p] = "use" /\ at' \in [Callers -> Places]
      /\ \A q \in Callers : q # p => at'[q] = at[q]
      BY GotoMoves DEF StoreInv, InitDone, Places
<1>2. store # NoStore /\ \A q \in Callers : at'[q] # "made"
      BY <1>1 DEF StoreInv, MuInv
<1>3. MuInv'
      BY <1>2 DEF StoreInv, MuInv, InitDone
<1>4. FindsStore'
      BY <1>1, <1>2 DEF StoreInv, FindsStore, InitDone
<1> QED BY <1>1, <1>3, <1>4 DEF StoreInv, TypeOK, OneStore, InitDone

LEMMA CloseKeepsInv ==
  ASSUME StoreInv, CloseBegin \/ CloseLocked \/ CloseStore \/ CloseDone
  PROVE  StoreInv'
<1> USE DEF StoreInv, FindsStore
<1>1. CASE CloseBegin
      BY <1>1 DEF CloseBegin, TypeOK, OneStore, MuInv, Free
<1>2. CASE CloseLocked
  <2>1. closing = "won" /\ closed /\ Free
        BY <1>2 DEF CloseLocked, MuInv
  <2>2. ticking' = {} /\ closing' = IF store = NoStore THEN "emptied" ELSE "stopped"
        BY <1>2, StoreAssumption DEF CloseLocked, TypeOK, OneStore
  <2>3. MuInv'
        BY <1>2, <2>1, <2>2 DEF CloseLocked, MuInv, Free
  <2> QED BY <1>2, <2>1, <2>2, <2>3 DEF CloseLocked, TypeOK, OneStore
<1>3. CASE CloseStore
  <2>1. closing = "stopped" /\ closed /\ ticking = {}
        /\ \A p \in Callers : at[p] # "made"
        BY <1>3 DEF CloseStore, MuInv
  <2> QED BY <1>3, <2>1 DEF CloseStore, TypeOK, OneStore, MuInv, Free
<1>4. CASE CloseDone
  <2>1. closing = "emptied" /\ closed /\ store = NoStore
        /\ \A p \in Callers : at[p] # "made"
        BY <1>4 DEF CloseDone, MuInv
  <2> QED BY <1>4, <2>1 DEF CloseDone, TypeOK, OneStore, MuInv, Free
<1> QED BY <1>1, <1>2, <1>3, <1>4

LEMMA StoreStep == StoreInv /\ [Next]_vars => StoreInv'
<1> SUFFICES ASSUME StoreInv, [Next]_vars
             PROVE  StoreInv'
    OBVIOUS
<1> USE DEF Places
<1>1. ASSUME NEW p \in Callers, AddBegin(p) \/ LookBegin(p) \/ AddTooLate(p)
      PROVE  StoreInv'
      BY <1>1, MoveKeepsInv DEF AddBegin, LookBegin, AddTooLate
<1>2. ASSUME NEW p \in Callers, InitFast(p)
      PROVE  StoreInv'
      BY <1>2, MoveKeepsInv, SeenIsThere DEF InitFast
<1>3. ASSUME NEW p \in Callers, InitLocked(p)
      PROVE  StoreInv'
  <2>1. CASE initialized
        BY <1>3, <2>1, MoveKeepsInv, SeenIsThere DEF InitLocked
  <2>2. CASE ~initialized
        BY <1>3, <2>2, CreateKeepsInv DEF InitLocked
  <2> QED BY <2>1, <2>2
<1>4. ASSUME NEW p \in Callers, LookInitialized(p, "use") \/ LookInitialized(p, "wait")
      PROVE  StoreInv'
      BY <1>4, MoveKeepsInv, SeenIsThere DEF LookInitialized
<1>5. ASSUME NEW p \in Callers, Use(p) \/ UseLocked(p)
      PROVE  StoreInv'
  <2>1. PICK place \in {"use", "wait"} : UseFrom(p, place)
        BY <1>5 DEF Use, UseLocked
  <2>2. at[p] = place
        BY <2>1 DEF UseFrom, Goto
  <2>3. ~closed => store # NoStore
        BY <2>2 DEF StoreInv, FindsStore
  <2> QED BY <2>1, <2>3, MoveKeepsInv DEF UseFrom
<1>6. CASE UNCHANGED vars
      BY <1>6 DEF vars, StoreInv, TypeOK, OneStore, MuInv, FindsStore, Free
<1> QED BY <1>1, <1>2, <1>3, <1>4, <1>5, <1>6, InitDoneKeepsInv, CloseKeepsInv DEF Next

(* Double-checked creation (cache.go:56-85) makes one store, whoever comes *)
(* first, and Close (200-221) leaves no ticker on for the one it takes.    *)
THEOREM OneStoreAlways == Spec => []OneStore
<1>1. StoreInv => OneStore
      BY DEF StoreInv
<1> QED BY <1>1, StoreInit, StoreStep, PTL DEF Spec

(* Whoever gets c.mu finds that initialized tells whether there is a store.*)
(* Without c.mu the flag may say so falsely only between the two writes of *)
(* Close (cache.go:214, 218), although it is read on its own at 58, 108,   *)
(* 161, 225 and 234.                                                       *)
FlagAgrees ==
  /\ Free => (initialized <=> store # NoStore)
  /\ initialized /\ store = NoStore => closing = "emptied"

THEOREM FlagTellsOfStore == Spec => []FlagAgrees
<1>1. StoreInv => FlagAgrees
      BY DEF StoreInv, MuInv, FlagAgrees, Free, TypeOK
<1> QED BY <1>1, StoreInit, StoreStep, PTL DEF Spec

-----------------------------------------------------------------------------
(* What a step of a group does to its cache is a step of the cache.        *)
LEMMA CacheStep == [GroupNext]_allVars => [Next]_vars
<1> SUFFICES ASSUME [GroupNext]_allVars
             PROVE  [Next]_vars
    OBVIOUS
<1>1. ASSUME NEW p \in Callers, CallStep(p)
      PROVE  [Next]_vars
  <2>1. CASE GetGroup(p) \/ CheckClosed(p) \/ CheckFilter(p) \/ Load(p) \/ Note(p)
        BY <2>1 DEF GetGroup, CheckClosed, CheckFilter, Load, Note
  <2>2. CASE Look(p)
        BY <2>2 DEF Look, Next
  <2>3. CASE LookedInitialized(p)
        BY <2>3 DEF LookedInitialized, Next
  <2>4. CASE Looked(p)
        BY <2>4 DEF Looked, Next
  <2>5. CASE Add(p)
        BY <2>5 DEF Add, Next
  <2>6. CASE Adding(p)
        BY <2>6 DEF Adding, Next
  <2> QED BY <1>1, <2>1, <2>2, <2>3, <2>4, <2>5, <2>6 DEF CallStep
<1>2. ASSUME NEW p \in Callers, NEW op \in Ops, NEW k \in CallKeys(op), Call(p, op, k)
      PROVE  [Next]_vars
      BY <1>2 DEF Call
<1>3. ASSUME NEW g \in Groups, NewGroup(g) \/ Close(g) \/ CloseTable(g)
      PROVE  [Next]_vars
      BY <1>3 DEF NewGroup, Close, CloseTable
<1>4. ASSUME NEW g \in Groups, CloseCache(g)
      PROVE  [Next]_vars
      BY <1>4 DEF CloseCache, Next
<1>5. CASE CloseCacheBegin
      BY <1>5 DEF CloseCacheBegin, Next
<1>6. CASE DestroyGroup \/ CloseCacheStore
      BY <1>6 DEF DestroyGroup, CloseCacheStore, Next
<1>7. CASE UNCHANGED allVars
      BY <1>7 DEF allVars
<1> QED BY <1>1, <1>2, <1>3, <1>4, <1>5, <1>6, <1>7 DEF GroupNext

(* Every behaviour of a group is one of its Cache: Get, Set and Delete, a  *)
(* Close and a DestroyGroup use it in no way CacheStore leaves out.        *)
THEOREM GroupUsesCache == GroupSpec => Spec
<1>1. GroupInit => Init
      BY DEF GroupInit
<1> QED BY <1>1, CacheStep, PTL DEF GroupSpec, Spec

(* So no calls, Close or DestroyGroup of a group make it create two stores *)
(* before Close, nor leave on the ticker of one it has given up            *)
(* (cache.go:56-85, 200-221).                                              *)
THEOREM GroupHasOneStore == GroupSpec => []OneStore
BY GroupUsesCache, OneStoreAlways, PTL

(* And its flag says falsely that there is a store only within Close.      *)
THEOREM GroupFlagTells == GroupSpec => []FlagAgrees
BY GroupUsesCache, FlagTellsOfStore, PTL

-----------------------------------------------------------------------------
(* The filter.                                                             *)
LEMMA AddToContains ==
  ASSUME NEW bs, NEW k
  PROVE  /\ Contains(AddTo(bs, k), k)
         /\ \A j : Contains(bs, j) => Contains(AddTo(bs, k), j)
BY DEF Contains, AddTo

(* Only Note writes the filter, and what is acknowledged.                  *)
LEMMA FilterStep ==
  [GroupNext]_allVars =>
    \/ \E p \in Callers : Note(p)
    \/ UNCHANGED <<bits, acked>>
<1> SUFFICES ASSUME [GroupNext]_allVars,
                    ~ \E p \in Callers : Note(p)
             PROVE  UNCHANGED <<bits, acked>>
    OBVIOUS
<1>1. ASSUME NEW p \in Callers, CallStep(p)
      PROVE  UNCHANGED <<bits, acked>>
      BY <1>1 DEF CallStep, GetGroup, CheckClosed, CheckFilter, Load, Look,
                  LookedInitialized, Looked, Add, Adding
<1>2. ASSUME NEW p \in Callers, NEW op \in Ops, NEW k \in CallKeys(op), Call(p, op, k)
      PROVE  UNCHANGED <<bits, acked>>
      BY <1>2 DEF Call
<1>3. ASSUME NEW g \in Groups,
             NewGroup(g) \/ Close(g) \/ CloseCache(g) \/ CloseTable(g)
      PROVE  UNCHANGED <<bits, acked>>
      BY <1>3 DEF NewGroup, Close, CloseCache, CloseTable
<1>4. CASE CloseCacheBegin \/ CloseCacheStore \/ DestroyGroup
      BY <1>4 DEF CloseCacheBegin, CloseCacheStore, DestroyGroup, groupVars
<1>5. CASE UNCHANGED allVars
      BY <1>5 DEF allVars, groupVars
<1> QED BY <1>1, <1>2, <1>3, <1>4, <1>5 DEF GroupNext

(* group.go:123, 159, 254, bloom.go: for all hashes, sizes and keys, what  *)
(* was set or loaded on a node passes its filter from then on.             *)
THEOREM NoFalseNegatives == GroupSpec => []SetThenContained
<1>1. GroupInit => SetThenContained
      BY DEF GroupInit, SetThenContained
<1>2. SetThenContained /\ [GroupNext]_allVars => SetThenContained'
  <2> SUFFICES ASSUME SetThenContained, [GroupNext]_allVars, NEW k \in acked'
               PROVE  Contains(bits', k)
      BY DEF SetThenContained, Contains
  <2>1. ASSUME NEW p \in Callers, Note(p)
        PROVE  Contains(bits', k)
    <3>1. bits' = AddTo(bits, job[p].key) /\ acked' = acked \cup {job[p].key}
          BY <2>1 DEF Note
    <3>2. CASE k \in acked
          BY <3>1, <3>2, AddToContains DEF SetThenContained
    <3>3. CASE k = job[p].key
          BY <3>1, <3>3, AddToContains
    <3> QED BY <3>1, <3>2, <3>3
  <2>2. CASE UNCHANGED <<bits, acked>>
        BY <2>2 DEF SetThenContained
  <2> QED BY <2>1, <2>2, FilterStep
<1> QED BY <1>1, <1>2, PTL DEF GroupSpec

-----------------------------------------------------------------------------
(* The table.                                                              *)
TableTyped == ending \in [Groups -> Endings] /\ table \in Groups \cup {NoGroup}

TableInv == TableTyped /\ ClosedNotServed

LEMMA TableStep == TableInv /\ [GroupNext]_allVars => TableInv'
<1> SUFFICES ASSUME TableInv, [GroupNext]_allVars
             PROVE  TableInv'
    OBVIOUS
<1> USE GroupAssumption DEF TableInv, TableTyped, ClosedNotServed, Endings
<1>1. CASE UNCHANGED <<table, ending>>
      BY <1>1
<1>2. ASSUME NEW p \in Callers, CallStep(p)
      PROVE  UNCHANGED <<table, ending>>
      BY <1>2 DEF CallStep, GetGroup, CheckClosed, CheckFilter, Load, Look, Note,
                  LookedInitialized, Looked, Add, Adding
<1>3. ASSUME NEW p \in Callers, NEW op \in Ops, NEW k \in CallKeys(op), Call(p, op, k)
      PROVE  UNCHANGED <<table, ending>>
      BY <1>3 DEF Call
<1>4. ASSUME NEW g \in Groups, NewGroup(g)
      PROVE  TableInv'
      BY <1>4 DEF NewGroup
<1>5. ASSUME NEW g \in Groups, Close(g) \/ CloseCache(g)
      PROVE  TableInv'
      BY <1>5 DEF Close, CloseCache
<1>6. ASSUME NEW g \in Groups, CloseTable(g)
      PROVE  TableInv'
      BY <1>6 DEF CloseTable
<1>7. CASE DestroyGroup
      BY <1>7 DEF DestroyGroup
<1>8. CASE CloseCacheBegin \/ CloseCacheStore \/ UNCHANGED allVars
      BY <1>1, <1>8 DEF CloseCacheBegin, CloseCacheStore, allVars, groupVars
<1> QED BY <1>1, <1>2, <1>3, <1>4, <1>5, <1>6, <1>7, <1>8 DEF GroupNext

(* group.go:226, 437, 579-621: whatever groups are made, closed and        *)
(* destroyed under one name, GetGroup gives out none whose Close has       *)
(* returned.                                                               *)
THEOREM NoClosedGroupServed == GroupSpec => []ClosedNotServed
<1>1. GroupInit => TableInv
      BY GroupAssumption
      DEF GroupInit, TableInv, TableTyped, ClosedNotServed, Endings
<1>2. TableInv => ClosedNotServed
      BY DEF TableInv
<1> QED BY <1>1, <1>2, TableStep, PTL DEF GroupSpec

-----------------------------------------------------------------------------
(* Calls that Close has caught.  Once it has set its flag no call comes    *)
(* into the cache, and those that are there are in caught; so are the Adds *)
(* that have not seen a store, in racing.                                  *)
Caught ==
  closed => \A p \in Callers :
              /\ at[p] # "idle" => p \in caught
              /\ at[p] \in {"init", "lock"} => p \in racing

CloseInv == StoreInv /\ Caught /\ StoreLeakNeedsRace

(* The steps of the cache, but for the one by which Close begins.          *)
StepButClose ==
  \/ \E p \in Callers :
       \/ AddBegin(p) \/ InitFast(p) \/ InitLocked(p) \/ InitDone(p)
       \/ LookBegin(p) \/ LookInitialized(p, "wait")
       \/ Use(p) \/ UseLocked(p) \/ AddTooLate(p)
  \/ CloseLocked \/ CloseStore \/ CloseDone
  \/ UNCHANGED vars

(* Both are set once, by the step that sets the cache's closed.            *)
LEMMA CaughtStep ==
  [GroupNext]_allVars =>
    CloseCacheBegin \/ (StepButClose /\ UNCHANGED <<caught, racing>>)
<1> SUFFICES ASSUME [GroupNext]_allVars, ~CloseCacheBegin
             PROVE  StepButClose /\ UNCHANGED <<caught, racing>>
    OBVIOUS
<1> USE DEF StepButClose
<1>1. ASSUME NEW p \in Callers, CallStep(p)
      PROVE  StepButClose /\ UNCHANGED <<caught, racing>>
  <2>1. CASE GetGroup(p) \/ CheckClosed(p) \/ CheckFilter(p) \/ Load(p) \/ Note(p)
        BY <2>1 DEF GetGroup, CheckClosed, CheckFilter, Load, Note
  <2>2. CASE Look(p) \/ LookedInitialized(p) \/ Looked(p)
        BY <2>2 DEF Look, LookedInitialized, Looked
  <2>3. CASE Add(p) \/ Adding(p)
        BY <2>3 DEF Add, Adding
  <2> QED BY <1>1, <2>1, <2>2, <2>3 DEF CallStep
<1>2. ASSUME NEW p \in Callers, NEW op \in Ops, NEW k \in CallKeys(op), Call(p, op, k)
      PROVE  StepButClose /\ UNCHANGED <<caught, racing>>
      BY <1>2 DEF Call
<1>3. ASSUME NEW g \in Groups,
             NewGroup(g) \/ Close(g) \/ CloseCache(g) \/ CloseTable(g)
      PROVE  StepButClose /\ UNCHANGED <<caught, racing>>
      BY <1>3 DEF NewGroup, Close, CloseCache, CloseTable
<1>4. CASE CloseCacheStore \/ DestroyGroup \/ UNCHANGED allVars
      BY <1>4 DEF CloseCacheStore, DestroyGroup, allVars, groupVars
<1> QED BY <1>1, <1>2, <1>3, <1>4 DEF GroupNext

LEMMA CloseStep == CloseInv /\ [GroupNext]_allVars => CloseInv'
<1> SUFFICES ASSUME CloseInv, [GroupNext]_allVars
             PROVE  Caught' /\ StoreLeakNeedsRace'
    BY CacheStep, StoreStep DEF CloseInv
<1> USE DEF CloseInv, StoreInv, TypeOK, Caught, StoreLeakNeedsRace
<1>1. CASE CloseCacheBegin
      BY <1>1 DEF CloseCacheBegin, CloseBegin
<1>2. ASSUME UNCHANGED <<caught, racing>>, NEW p \in Callers,
             \/ AddBegin(p) \/ InitFast(p) \/ InitDone(p) \/ LookBegin(p)
             \/ LookInitialized(p, "wait")
             \/ UseFrom(p, "use") \/ UseFrom(p, "wait") \/ AddTooLate(p)
      PROVE  Caught' /\ StoreLeakNeedsRace'
  <2>1. UNCHANGED <<closed, closing, store>>
        BY <1>2 DEF AddBegin, InitFast, InitDone, LookBegin, LookInitialized, UseFrom,
                    AddTooLate
  <2>2. closed => \A q \in Callers :
          /\ at'[q] # "idle" => at[q] # "idle"
          /\ at'[q] \in {"init", "lock"} => at[q] \in {"init", "lock"}
        BY <1>2 DEF AddBegin, InitFast, InitDone, LookBegin, LookInitialized, UseFrom,
                    AddTooLate, Goto
  <2> QED BY <1>2, <2>1, <2>2
(* Who creates a store after Close is in racing.                           *)
<1>3. ASSUME UNCHANGED <<caught, racing>>, NEW p \in Callers, InitLocked(p)
      PROVE  Caught' /\ StoreLeakNeedsRace'
  <2>1. at[p] = "lock" /\ UNCHANGED <<closed, closing>>
        BY <1>3 DEF InitLocked, Create, Goto
  <2>2. Caught'
        BY <1>3, <2>1 DEF InitLocked, Create, Goto
  <2>3. closing = "done" => p \in racing
        BY <2>1 DEF MuInv
  <2> QED BY <1>3, <2>1, <2>2, <2>3
(* What Close leaves is no store.                                          *)
<1>4. ASSUME UNCHANGED <<caught, racing>>, CloseLocked \/ CloseStore \/ CloseDone
      PROVE  Caught' /\ StoreLeakNeedsRace'
  <2>1. UNCHANGED <<closed, at>> /\ (closing' = "done" => store' = NoStore)
        BY <1>4 DEF CloseLocked, CloseStore, CloseDone, MuInv
  <2> QED BY <1>4, <2>1
<1>5. ASSUME UNCHANGED <<caught, racing>>, UNCHANGED vars
      PROVE  Caught' /\ StoreLeakNeedsRace'
      BY <1>5 DEF vars
<1> QED BY <1>1, <1>2, <1>3, <1>4, <1>5, CaughtStep DEF StepButClose, Use, UseLocked

LEMMA CloseInvariance == GroupSpec => []CloseInv
<1>1. GroupInit => CloseInv
  <2>1. GroupInit => StoreInv
        BY StoreInit DEF GroupInit
  <2> QED BY <2>1 DEF GroupInit, Init, CloseInv, Caught, StoreLeakNeedsRace
<1> QED BY <1>1, CloseStep, PTL DEF GroupSpec

(* cache.go:89-118, 161-168, 200-221: whoever calls a nil store had passed *)
(* its check of closed when Close set the flag.                            *)
THEOREM NoNilWithoutRace == GroupSpec => []NilStoreNeedsRace
<1>1. CloseInv => NilStoreNeedsRace
      BY DEF CloseInv, StoreInv, FindsStore, Caught, NilStoreNeedsRace
<1> QED BY <1>1, CloseInvariance, PTL

(* cache.go:56-104, 200-221: a store that there is after Close was created *)
(* by an Add that had passed its check of closed when Close set the flag.  *)
THEOREM NoLeakWithoutRace == GroupSpec => []StoreLeakNeedsRace
<1>1. CloseInv => StoreLeakNeedsRace
      BY DEF CloseInv
<1> QED BY <1>1, CloseInvariance, PTL
=============================================================================
