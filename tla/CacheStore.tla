----------------------------- MODULE CacheStore -----------------------------
(***************************************************************************)
(* The life of the store behind a Cache (cache.go): created by the first   *)
(* Add, shared by every call, given up by Close.                           *)
(*                                                                         *)
(* A call first looks at the atomic flags closed and initialized, without  *)
(* a lock, then uses c.store: Get, Len, Delete and Clear with c.mu, Add,   *)
(* AddWithExpiration, Keys and GetRawValue without it.  c.mu is held over  *)
(* several steps by the call that creates the store and by Close, which    *)
(* write c.store and the flag one after the other; every other call holds  *)
(* it for one step.  (A call without c.mu that reads c.store while it is   *)
(* written may see half of it: it panics, as with nil, or has the store.)  *)
(***************************************************************************)
EXTENDS Naturals, FiniteSets

CONSTANTS
  Callers,
  Stores,    \* bound: stores that can be created
  NoStore    \* nil

ASSUME StoreAssumption == NoStore \notin Stores

VARIABLES
  store, initialized, closed,
  ticking,   \* stores whose cleanup ticker runs
  used,      \* stores created so far
  at,        \* at[p]: where a caller is
  closing    \* where the call of Close that won is

vars == <<store, initialized, closed, ticking, used, at, closing>>

(* In an Add: "init", "lock", "made"; in another call: "lookup", "wait";   *)
(* in either: "use".                                                       *)
Places == {"idle", "init", "lock", "made", "lookup", "wait", "use", "crashed"}

TypeOK ==
  /\ store \in Stores \cup {NoStore}
  /\ initialized \in BOOLEAN /\ closed \in BOOLEAN
  /\ ticking \subseteq used /\ used \subseteq Stores
  /\ at \in [Callers -> Places]
  /\ closing \in {"no", "won", "stopped", "emptied", "done"}

Init ==
  /\ store = NoStore
  /\ initialized = FALSE /\ closed = FALSE
  /\ ticking = {} /\ used = {}
  /\ at = [p \in Callers |-> "idle"]
  /\ closing = "no"

Goto(p, from, to) == at[p] = from /\ at' = [at EXCEPT ![p] = to]

(* c.mu is not held over steps.                                            *)
Free == closing \notin {"stopped", "emptied"} /\ \A p \in Callers : at[p] # "made"

-----------------------------------------------------------------------------
(* Add and AddWithExpiration: not closed.                                  *)
AddBegin(p) ==
  /\ Goto(p, "idle", "init") /\ ~closed
  /\ UNCHANGED <<store, initialized, closed, ticking, used, closing>>

(* ensureInitialized without the lock.                                     *)
InitFast(p) ==
  /\ Goto(p, "init", IF initialized THEN "use" ELSE "lock")
  /\ UNCHANGED <<store, initialized, closed, ticking, used, closing>>

(* c.store = NewStore(...), with c.mu.                                     *)
Create(p) ==
  /\ Goto(p, "lock", "made")
  /\ used # Stores
  /\ LET s == CHOOSE s \in Stores : s \notin used
     IN  store' = s /\ ticking' = ticking \cup {s} /\ used' = used \cup {s}

(* FAULTY: the flag is not read again under the lock.                      *)
InitLocked_Unchecked(p) ==
  /\ Free
  /\ Create(p)
  /\ UNCHANGED <<initialized, closed, closing>>

(* ensureInitialized with the lock: the flag again, and the store ...      *)
InitLocked(p) ==
  /\ Free
  /\ IF initialized THEN Goto(p, "lock", "use") /\ UNCHANGED <<store, ticking, used>>
     ELSE Create(p)
  /\ UNCHANGED <<initialized, closed, closing>>

(* ... and then the flag.                                                  *)
InitDone(p) ==
  /\ Goto(p, "made", "use")
  /\ initialized' = TRUE
  /\ UNCHANGED <<store, closed, ticking, used, closing>>

(* FAULTY: closed is not looked at.                                        *)
LookBegin_Unchecked(p) ==
  /\ Goto(p, "idle", "lookup")
  /\ UNCHANGED <<store, initialized, closed, ticking, used, closing>>

(* The other calls: not closed ...                                         *)
LookBegin(p) ==
  /\ Goto(p, "idle", "lookup") /\ ~closed
  /\ UNCHANGED <<store, initialized, closed, ticking, used, closing>>

(* ... and initialized: a second load.  Then Get, Len, Delete and Clear    *)
(* "wait" for c.mu; Keys and GetRawValue "use" c.store at once.            *)
LookInitialized(p, next) ==
  /\ Goto(p, "lookup", IF initialized THEN next ELSE "idle")
  /\ UNCHANGED <<store, initialized, closed, ticking, used, closing>>

(* A method of c.store is called; of a nil store, it panics.               *)
UseFrom(p, place) ==
  /\ Goto(p, place, IF store = NoStore THEN "crashed" ELSE "idle")
  /\ UNCHANGED <<store, initialized, closed, ticking, used, closing>>

Use(p) == UseFrom(p, "use")

UseLocked(p) == Free /\ UseFrom(p, "wait")

(* AddWithExpiration of an entry whose time is over.                       *)
AddTooLate(p) ==
  /\ Goto(p, "use", "idle")
  /\ UNCHANGED <<store, initialized, closed, ticking, used, closing>>

(* Close: closed; then, with c.mu, the store's Close, which stops its      *)
(* ticker, c.store and initialized.                                        *)
CloseBegin ==
  /\ closing = "no" /\ closing' = "won"
  /\ closed' = TRUE
  /\ UNCHANGED <<store, initialized, ticking, used, at>>

CloseLocked ==
  /\ closing = "won" /\ Free
  /\ closing' = IF store = NoStore THEN "emptied" ELSE "stopped"
  /\ ticking' = ticking \ {store}
  /\ UNCHANGED <<store, initialized, closed, used, at>>

CloseStore ==
  /\ closing = "stopped" /\ closing' = "emptied"
  /\ store' = NoStore
  /\ UNCHANGED <<initialized, closed, ticking, used, at>>

CloseDone ==
  /\ closing = "emptied" /\ closing' = "done"
  /\ initialized' = FALSE
  /\ UNCHANGED <<store, closed, ticking, used, at>>

Next ==
  \/ \E p \in Callers :
       \/ AddBegin(p) \/ InitFast(p) \/ InitLocked(p) \/ InitDone(p)
       \/ LookBegin(p) \/ LookInitialized(p, "use") \/ LookInitialized(p, "wait")
       \/ Use(p) \/ UseLocked(p) \/ AddTooLate(p)
  \/ CloseBegin \/ CloseLocked \/ CloseStore \/ CloseDone

Spec == Init /\ [][Next]_vars

-----------------------------------------------------------------------------
(* However many first Adds race, they create one store, the one all calls  *)
(* use, until Close takes it (cache.go:58-82); and no ticker runs on for a *)
(* store that c.store does not name any more (212-214).                    *)
OneStore ==
  /\ closing \in {"no", "won"} => used = {store} \ {NoStore}
  /\ ticking \subseteq {store}

(* A call on a cache that is not initialized is a miss (cache.go:107), and *)
(* not a call of a nil store.                                              *)
NoNilStore == \A p \in Callers : at[p] # "crashed"
=============================================================================
