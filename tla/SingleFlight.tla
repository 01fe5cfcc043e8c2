---------------------------- MODULE SingleFlight ----------------------------
(***************************************************************************)
(* cache/singleflight/singleflight.go: Group.Do and doCall.                *)
(*                                                                         *)
(* Goroutines call Do(key, fn).  The first one for a key stores a fresh    *)
(* call object in the sync.Map and runs fn; the others find that object    *)
(* and wait on its WaitGroup.  The leader's deferred function releases the *)
(* waiters (wg.Done), then removes the key (m.Delete), then re-panics if   *)
(* fn panicked.  Each of those is a step of its own: other goroutines run  *)
(* between any two of them.                                                *)
(***************************************************************************)
EXTENDS FiniteSets

CONSTANTS
  Callers,   \* goroutines that call Do
  Keys,      \* keys they ask for
  Calls,     \* addresses of call objects
  Outcomes,  \* what fn can leave in (c.val, c.err), errors included
  NoCall,    \* "no call object"
  NoKey,     \* "not in a Do"
  Unset      \* the zero value of (c.val, c.err)

ASSUME CallAssumption == NoCall \notin Calls
ASSUME KeyAssumption == NoKey \notin Keys
ASSUME OutcomeAssumption == Unset \notin Outcomes

VARIABLES
  m,         \* m[k]: the call object stored under k in Group.m, or NoCall
  released,  \* released[c]: c.wg has been brought to zero
  val,       \* val[c]: c.val and c.err
  panicked,  \* panicked[c]: the fn run for c panicked
  pc,        \* pc[p]: where goroutine p is
  key,       \* key[p]: the key of p's current Do, or NoKey
  call       \* call[p]: the call object p leads or waits on

flightVars == <<m, released, val, panicked, pc, key, call>>

(* The leader of a flight is at "run", "done" or "unmap", a follower at    *)
(* "wait".                                                                 *)
LeaderSteps == {"run", "done", "unmap"}

TypeOK ==
  /\ m \in [Keys -> Calls \cup {NoCall}]
  /\ released \in [Calls -> BOOLEAN]
  /\ val \in [Calls -> Outcomes \cup {Unset}]
  /\ panicked \in [Calls -> BOOLEAN]
  /\ pc \in [Callers -> LeaderSteps \cup {"idle", "wait"}]
  /\ key \in [Callers -> Keys \cup {NoKey}]
  /\ call \in [Callers -> Calls \cup {NoCall}]

Init ==
  /\ m = [k \in Keys |-> NoCall]
  /\ released = [c \in Calls |-> FALSE]
  /\ val = [c \in Calls |-> Unset]
  /\ panicked = [c \in Calls |-> FALSE]
  /\ pc = [p \in Callers |-> "idle"]
  /\ key = [p \in Callers |-> NoKey]
  /\ call = [p \in Callers |-> NoCall]

(* A new call object is at an address nothing refers to any more.          *)
Unreferenced(c) ==
  /\ \A k \in Keys : m[k] # c
  /\ \A p \in Callers : call[p] # c

(* LoadOrStore stored p's own object: p runs fn for it.                    *)
Lead(p, k, c) ==
  /\ m[k] = NoCall
  /\ m' = [m EXCEPT ![k] = c]
  /\ released' = [released EXCEPT ![c] = FALSE]
  /\ val' = [val EXCEPT ![c] = Unset]
  /\ panicked' = [panicked EXCEPT ![c] = FALSE]
  /\ call' = [call EXCEPT ![p] = c]
  /\ pc' = [pc EXCEPT ![p] = "run"]

(* LoadOrStore found an object: p waits on it, whether or not its fn has   *)
(* already finished.                                                       *)
Follow(p, k) ==
  /\ m[k] # NoCall
  /\ call' = [call EXCEPT ![p] = m[k]]
  /\ pc' = [pc EXCEPT ![p] = "wait"]
  /\ UNCHANGED <<m, released, val, panicked>>

(* FAULTY: the object is stored whether or not one is there.               *)
Do_Overwrite(p, k) ==
  /\ pc[p] = "idle"
  /\ key' = [key EXCEPT ![p] = k]
  /\ \E c \in {d \in Calls : Unreferenced(d)} :
       /\ m' = [m EXCEPT ![k] = c]
       /\ released' = [released EXCEPT ![c] = FALSE]
       /\ val' = [val EXCEPT ![c] = Unset]
       /\ panicked' = [panicked EXCEPT ![c] = FALSE]
       /\ call' = [call EXCEPT ![p] = c]
       /\ pc' = [pc EXCEPT ![p] = "run"]

Do(p, k) ==
  /\ pc[p] = "idle"
  /\ key' = [key EXCEPT ![p] = k]
  /\ \/ Follow(p, k)
     \/ \E c \in {d \in Calls : Unreferenced(d)} : Lead(p, k, c)

(* c.val, c.err = fn()                                                     *)
FnReturns(p, o) ==
  /\ pc[p] = "run"
  /\ val' = [val EXCEPT ![call[p]] = o]
  /\ pc' = [pc EXCEPT ![p] = "done"]
  /\ UNCHANGED <<m, released, panicked, key, call>>

(* fn panics: the deferred function runs with c.val and c.err never set.   *)
FnPanics(p) ==
  /\ pc[p] = "run"
  /\ panicked' = [panicked EXCEPT ![call[p]] = TRUE]
  /\ pc' = [pc EXCEPT ![p] = "done"]
  /\ UNCHANGED <<m, released, val, key, call>>

(* FAULTY: the waiters are released by the goroutine that runs fn, early.  *)
WgDone_BeforeFn(p) ==
  /\ pc[p] \in {"run", "done"}
  /\ ~released[call[p]]
  /\ released' = [released EXCEPT ![call[p]] = TRUE]
  /\ pc' = [pc EXCEPT ![p] = IF @ = "run" THEN "run" ELSE "unmap"]
  /\ UNCHANGED <<m, val, panicked, key, call>>

(* FAULTY: a panic unwinds past wg.Done.                                   *)
WgDone_NotOnPanic(p) ==
  /\ pc[p] = "done"
  /\ released' = [released EXCEPT ![call[p]] = ~panicked[call[p]]]
  /\ pc' = [pc EXCEPT ![p] = "unmap"]
  /\ UNCHANGED <<m, val, panicked, key, call>>

(* c.wg.Done()                                                             *)
WgDone(p) ==
  /\ pc[p] = "done"
  /\ released' = [released EXCEPT ![call[p]] = TRUE]
  /\ pc' = [pc EXCEPT ![p] = "unmap"]
  /\ UNCHANGED <<m, val, panicked, key, call>>

(* FAULTY: a panic unwinds past m.Delete.                                  *)
MapDelete_NotOnPanic(p) ==
  /\ pc[p] = "unmap"
  /\ m' = IF panicked[call[p]] THEN m ELSE [m EXCEPT ![key[p]] = NoCall]
  /\ key' = [key EXCEPT ![p] = NoKey]
  /\ call' = [call EXCEPT ![p] = NoCall]
  /\ pc' = [pc EXCEPT ![p] = "idle"]
  /\ UNCHANGED <<released, val, panicked>>

(* g.m.Delete(key); then the leader returns c.val, c.err, or re-panics and *)
(* returns nothing.                                                        *)
MapDelete(p) ==
  /\ pc[p] = "unmap"
  /\ m' = [m EXCEPT ![key[p]] = NoCall]
  /\ key' = [key EXCEPT ![p] = NoKey]
  /\ call' = [call EXCEPT ![p] = NoCall]
  /\ pc' = [pc EXCEPT ![p] = "idle"]
  /\ UNCHANGED <<released, val, panicked>>

(* existingCall.wg.Wait(); return existingCall.val, existingCall.err       *)
WaitReturns(p) ==
  /\ pc[p] = "wait"
  /\ released[call[p]]
  /\ key' = [key EXCEPT ![p] = NoKey]
  /\ call' = [call EXCEPT ![p] = NoCall]
  /\ pc' = [pc EXCEPT ![p] = "idle"]
  /\ UNCHANGED <<m, released, val, panicked>>

(* What goroutine p does by itself once it has called Do.                  *)
Progress(p) ==
  \/ \E o \in Outcomes : FnReturns(p, o)
  \/ FnPanics(p)
  \/ WgDone(p)
  \/ MapDelete(p)
  \/ WaitReturns(p)

Next ==
  \E p \in Callers :
    \/ \E k \in Keys : Do(p, k)
    \/ Progress(p)

Spec == Init /\ [][Next]_flightVars

(* fn is loadData: it ends because peer.Get has a 3 s deadline and the     *)
(* getter is given a context with a 30 s timeout.  The other steps are a   *)
(* scheduled goroutine's.  Nobody is obliged to call Do.                   *)
FairSpec == Spec /\ \A p \in Callers : WF_flightVars(Progress(p))

-----------------------------------------------------------------------------
(* Calls that somebody waits on or leads.                                  *)
Leads(p, c) == pc[p] \in LeaderSteps /\ call[p] = c

(* At most one fn runs per key at any moment: the point of Do, whatever    *)
(* the interleaving of LoadOrStore, wg.Done and m.Delete.                  *)
OneFlightPerKey ==
  \A p, q \in Callers :
    pc[p] = "run" /\ pc[q] = "run" /\ key[p] = key[q] => p = q

(* Waiters that are let go find the outcome: wg.Done follows the           *)
(* assignment of c.val and c.err, unless fn panicked and never made it.    *)
ReleasedHasOutcome ==
  \A p \in Callers :
    pc[p] = "wait" /\ released[call[p]] =>
      val[call[p]] # Unset \/ panicked[call[p]]

(* Every object in the map has a goroutine about to take it out, on the    *)
(* panicking path too, so that no later Do waits for a flight that is over *)
(* and was left behind.                                                    *)
RegisteredHasLeader ==
  \A k \in Keys :
    m[k] # NoCall => \E p \in Callers : Leads(p, m[k]) /\ key[p] = k

(* Every Do returns (or re-panics) once fn ends.                           *)
EveryDoReturns ==
  \A p \in Callers : pc[p] # "idle" ~> pc[p] = "idle"

-----------------------------------------------------------------------------
(* The inductive invariant behind OneFlightPerKey and RegisteredHasLeader. *)
(* A leader's object is in the map under the leader's key until it takes   *)
(* it out, and a follower's object, if still in the map, is under the      *)
(* follower's key.                                                         *)
LeaderIsRegistered ==
  \A p \in Callers : pc[p] \in LeaderSteps =>
    /\ call[p] \in Calls
    /\ key[p] \in Keys
    /\ m[key[p]] = call[p]

LeaderIsAlone ==
  \A p, q \in Callers :
    /\ pc[p] \in LeaderSteps /\ pc[q] \in LeaderSteps
    /\ key[p] = key[q] \/ call[p] = call[q]
    => p = q

FollowerHasCall ==
  \A p \in Callers : pc[p] = "wait" => call[p] \in Calls

(* An object is released only when fn is over; while its leader runs fn it *)
(* is closed.                                                              *)
ClosedWhileRunning ==
  \A p \in Callers :
    /\ pc[p] = "run" => ~released[call[p]]
    /\ pc[p] \in {"done", "unmap"} =>
         val[call[p]] # Unset \/ panicked[call[p]]

FlightInv ==
  /\ TypeOK
  /\ LeaderIsRegistered
  /\ LeaderIsAlone
  /\ RegisteredHasLeader
  /\ FollowerHasCall
  /\ ClosedWhileRunning
  /\ ReleasedHasOutcome
=============================================================================
