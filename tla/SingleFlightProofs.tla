------------------------- MODULE SingleFlightProofs -------------------------
(***************************************************************************)
(* Proofs about SingleFlight for any sets of goroutines, keys and call     *)
(* objects.  FlightInv is inductive; the properties the runs check follow  *)
(* from it.                                                                *)
(***************************************************************************)
EXTENDS SingleFlight, TLAPS

LEMMA InitFlightInv == Init => FlightInv
  BY CallAssumption, KeyAssumption, OutcomeAssumption
  DEF Init, FlightInv, TypeOK, LeaderIsRegistered, LeaderIsAlone,
      RegisteredHasLeader, FollowerHasCall, ClosedWhileRunning,
      ReleasedHasOutcome, LeaderSteps, Leads

(* A goroutine that stores its own object becomes the only leader of its   *)
(* key: any other would be registered under that key.                      *)
LEMMA LeadKeepsInv ==
  ASSUME FlightInv, NEW p \in Callers, NEW k \in Keys,
         NEW c \in Calls, Unreferenced(c),
         pc[p] = "idle", key' = [key EXCEPT ![p] = k],
         Lead(p, k, c)
  PROVE  FlightInv'
<1> USE CallAssumption, KeyAssumption, OutcomeAssumption
<1>1. TypeOK'
  BY DEF FlightInv, TypeOK, Lead, LeaderSteps
<1>2. LeaderIsRegistered'
  BY DEF FlightInv, TypeOK, LeaderIsRegistered, Lead, LeaderSteps,
         Unreferenced
<1>3. LeaderIsAlone'
  BY DEF FlightInv, TypeOK, LeaderIsRegistered, LeaderIsAlone, Lead,
         LeaderSteps, Unreferenced
<1>4. RegisteredHasLeader'
  <2> SUFFICES ASSUME NEW j \in Keys, m'[j] # NoCall
               PROVE  \E q \in Callers : Leads(q, m[j])' /\ key'[q] = j
    BY DEF RegisteredHasLeader
  <2>1. CASE j = k
    BY <2>1 DEF FlightInv, TypeOK, Lead, Leads, LeaderSteps
  <2>2. CASE j # k
    <3>1. m'[j] = m[j]
      BY <2>2 DEF FlightInv, TypeOK, Lead
    <3>2. PICK q \in Callers : Leads(q, m[j]) /\ key[q] = j
      BY <3>1 DEF FlightInv, RegisteredHasLeader
    <3>3. q # p
      BY <3>2 DEF Leads, LeaderSteps
    <3> QED
      BY <3>1, <3>2, <3>3 DEF FlightInv, TypeOK, Lead, Leads
  <2> QED
    BY <2>1, <2>2
<1>5. FollowerHasCall'
  BY DEF FlightInv, TypeOK, FollowerHasCall, Lead
<1>6. ClosedWhileRunning'
  BY DEF FlightInv, TypeOK, ClosedWhileRunning, LeaderIsRegistered, Lead,
         LeaderSteps, Unreferenced
<1>7. ReleasedHasOutcome'
  BY DEF FlightInv, TypeOK, ReleasedHasOutcome, FollowerHasCall, Lead,
         Unreferenced
<1> QED
  BY <1>1, <1>2, <1>3, <1>4, <1>5, <1>6, <1>7 DEF FlightInv

(* A follower boards a registered object, whose leader either still runs   *)
(* fn (then the object is closed) or has its outcome.                      *)
LEMMA FollowKeepsInv ==
  ASSUME FlightInv, NEW p \in Callers, NEW k \in Keys,
         pc[p] = "idle", key' = [key EXCEPT ![p] = k],
         Follow(p, k)
  PROVE  FlightInv'
<1> USE CallAssumption, KeyAssumption, OutcomeAssumption
<1>1. TypeOK'
  BY DEF FlightInv, TypeOK, Follow, LeaderSteps
<1>2. LeaderIsRegistered'
  BY DEF FlightInv, TypeOK, LeaderIsRegistered, Follow, LeaderSteps
<1>3. LeaderIsAlone'
  BY DEF FlightInv, TypeOK, LeaderIsAlone, Follow, LeaderSteps
<1>4. RegisteredHasLeader'
  BY DEF FlightInv, TypeOK, RegisteredHasLeader, Follow, Leads, LeaderSteps
<1>5. FollowerHasCall'
  BY DEF FlightInv, TypeOK, FollowerHasCall, Follow
<1>6. ClosedWhileRunning'
  BY DEF FlightInv, TypeOK, ClosedWhileRunning, Follow
<1>7. ReleasedHasOutcome'
  <2>1. PICK q \in Callers : Leads(q, m[k])
    BY DEF FlightInv, RegisteredHasLeader, Follow
  <2>2. released[m[k]] => val[m[k]] # Unset \/ panicked[m[k]]
    BY <2>1 DEF FlightInv, ClosedWhileRunning, Leads, LeaderSteps
  <2> QED
    BY <2>2 DEF FlightInv, TypeOK, ReleasedHasOutcome, Follow
<1> QED
  BY <1>1, <1>2, <1>3, <1>4, <1>5, <1>6, <1>7 DEF FlightInv

(* fn ends, by returning or by panicking: the outcome or the panic is      *)
(* recorded in the one object p leads.                                     *)
LEMMA FnEndKeepsInv ==
  ASSUME FlightInv, NEW p \in Callers,
         (\E o \in Outcomes : FnReturns(p, o)) \/ FnPanics(p)
  PROVE  FlightInv'
<1> USE OutcomeAssumption
<1>1. /\ pc[p] = "run" /\ pc' = [pc EXCEPT ![p] = "done"]
      /\ UNCHANGED <<m, released, key, call>>
  BY DEF FnReturns, FnPanics
<1>2. call[p] \in Calls
  BY <1>1 DEF FlightInv, LeaderIsRegistered, LeaderSteps
<1>3. /\ val' \in [Calls -> Outcomes \cup {Unset}]
      /\ panicked' \in [Calls -> BOOLEAN]
      /\ val'[call[p]] # Unset \/ panicked'[call[p]]
      /\ \A c \in Calls : val[c] # Unset \/ panicked[c]
                            => val'[c] # Unset \/ panicked'[c]
  <2>1. CASE \E o \in Outcomes : FnReturns(p, o)
    BY <1>2, <2>1 DEF FlightInv, TypeOK, FnReturns
  <2>2. CASE FnPanics(p)
    BY <1>2, <2>2 DEF FlightInv, TypeOK, FnPanics
  <2> QED
    BY <2>1, <2>2
<1>4. TypeOK'
  BY <1>1, <1>3 DEF FlightInv, TypeOK, LeaderSteps
<1>5. LeaderIsRegistered' /\ LeaderIsAlone' /\ FollowerHasCall'
  BY <1>1 DEF FlightInv, TypeOK, LeaderIsRegistered, LeaderIsAlone,
              FollowerHasCall, LeaderSteps
<1>6. RegisteredHasLeader'
  BY <1>1 DEF FlightInv, TypeOK, RegisteredHasLeader, Leads, LeaderSteps
<1>7. ClosedWhileRunning' /\ ReleasedHasOutcome'
  BY <1>1, <1>2, <1>3 DEF FlightInv, TypeOK, ClosedWhileRunning,
              ReleasedHasOutcome, LeaderIsRegistered, FollowerHasCall,
              LeaderSteps
<1> QED
  BY <1>4, <1>5, <1>6, <1>7 DEF FlightInv

LEMMA WgDoneKeepsInv ==
  ASSUME FlightInv, NEW p \in Callers, WgDone(p)
  PROVE  FlightInv'
<1>1. call[p] \in Calls
  BY DEF FlightInv, LeaderIsRegistered, LeaderSteps, WgDone
<1>2. TypeOK' /\ LeaderIsRegistered' /\ LeaderIsAlone' /\ FollowerHasCall'
  BY <1>1 DEF FlightInv, TypeOK, LeaderIsRegistered, LeaderIsAlone,
              FollowerHasCall, LeaderSteps, WgDone
<1>3. RegisteredHasLeader'
  BY DEF FlightInv, TypeOK, RegisteredHasLeader, Leads, LeaderSteps, WgDone
<1>4. ClosedWhileRunning'
  BY <1>1 DEF FlightInv, TypeOK, ClosedWhileRunning, LeaderIsAlone,
              LeaderSteps, WgDone
<1>5. ReleasedHasOutcome'
  BY <1>1 DEF FlightInv, TypeOK, ClosedWhileRunning, ReleasedHasOutcome,
              FollowerHasCall, WgDone
<1> QED
  BY <1>2, <1>3, <1>4, <1>5 DEF FlightInv

(* Nobody else leads the key that p removes.                               *)
LEMMA MapDeleteKeepsInv ==
  ASSUME FlightInv, NEW p \in Callers, MapDelete(p)
  PROVE  FlightInv'
<1> USE KeyAssumption
<1>1. call[p] \in Calls /\ key[p] \in Keys
  BY DEF FlightInv, LeaderIsRegistered, LeaderSteps, MapDelete
<1>2. TypeOK'
  BY <1>1 DEF FlightInv, TypeOK, LeaderSteps, MapDelete
<1>3. LeaderIsRegistered'
  BY <1>1 DEF FlightInv, TypeOK, LeaderIsRegistered, LeaderIsAlone,
              LeaderSteps, MapDelete
<1>4. LeaderIsAlone' /\ FollowerHasCall' /\ ClosedWhileRunning'
        /\ ReleasedHasOutcome'
  BY DEF FlightInv, TypeOK, LeaderIsAlone, FollowerHasCall,
         ClosedWhileRunning, ReleasedHasOutcome, LeaderSteps, MapDelete
<1>5. RegisteredHasLeader'
  <2> SUFFICES ASSUME NEW j \in Keys, m'[j] # NoCall
               PROVE  \E q \in Callers : Leads(q, m[j])' /\ key'[q] = j
    BY DEF RegisteredHasLeader
  <2>1. j # key[p] /\ m'[j] = m[j]
    BY <1>1 DEF FlightInv, TypeOK, MapDelete
  <2>2. PICK q \in Callers : Leads(q, m[j]) /\ key[q] = j
    BY <2>1 DEF FlightInv, RegisteredHasLeader
  <2>3. q # p
    BY <2>1, <2>2
  <2> QED
    BY <2>1, <2>2, <2>3 DEF FlightInv, TypeOK, MapDelete, Leads
<1> QED
  BY <1>2, <1>3, <1>4, <1>5 DEF FlightInv

LEMMA WaitReturnsKeepsInv ==
  ASSUME FlightInv, NEW p \in Callers, WaitReturns(p)
  PROVE  FlightInv'
<1>1. TypeOK'
  BY DEF FlightInv, TypeOK, FollowerHasCall, LeaderSteps, WaitReturns
<1>2. LeaderIsRegistered' /\ LeaderIsAlone' /\ FollowerHasCall'
        /\ ClosedWhileRunning' /\ ReleasedHasOutcome'
  BY DEF FlightInv, TypeOK, LeaderIsRegistered, LeaderIsAlone,
         FollowerHasCall, ClosedWhileRunning, ReleasedHasOutcome,
         LeaderSteps, WaitReturns
<1>3. RegisteredHasLeader'
  BY DEF FlightInv, TypeOK, RegisteredHasLeader, Leads, LeaderSteps,
         WaitReturns
<1> QED
  BY <1>1, <1>2, <1>3 DEF FlightInv

LEMMA NextKeepsFlightInv == FlightInv /\ [Next]_flightVars => FlightInv'
<1> SUFFICES ASSUME FlightInv, [Next]_flightVars
             PROVE  FlightInv'
  OBVIOUS
<1>1. ASSUME NEW p \in Callers, NEW k \in Keys, Do(p, k)
      PROVE  FlightInv'
  <2>1. CASE Follow(p, k)
    BY <1>1, <2>1, FollowKeepsInv DEF Do
  <2>2. CASE \E c \in {d \in Calls : Unreferenced(d)} : Lead(p, k, c)
    BY <1>1, <2>2, LeadKeepsInv DEF Do
  <2> QED
    BY <1>1, <2>1, <2>2 DEF Do
<1>2. ASSUME NEW p \in Callers, Progress(p)
      PROVE  FlightInv'
  BY <1>2, FnEndKeepsInv, WgDoneKeepsInv, MapDeleteKeepsInv,
     WaitReturnsKeepsInv DEF Progress
<1>3. CASE UNCHANGED flightVars
  BY <1>3 DEF flightVars, FlightInv, TypeOK, LeaderIsRegistered,
     LeaderIsAlone, RegisteredHasLeader, FollowerHasCall,
     ClosedWhileRunning, ReleasedHasOutcome, Leads
<1> QED
  BY <1>1, <1>2, <1>3 DEF Next

(* FlightInv holds in every state of every behaviour of Do and doCall.     *)
THEOREM FlightInvariance == Spec => []FlightInv
<1>1. QED
  BY InitFlightInv, NextKeepsFlightInv, PTL DEF Spec

(* Do keeps its promise for any number of goroutines and keys: one fn per  *)
(* key at a time (singleflight.go:18-20).                                  *)
THEOREM OneFlight == Spec => []OneFlightPerKey
<1>1. FlightInv => OneFlightPerKey
  BY DEF FlightInv, LeaderIsAlone, OneFlightPerKey, LeaderSteps
<1> QED
  BY <1>1, FlightInvariance, PTL

(* A waiter that is let go reads an outcome (singleflight.go:30-36).       *)
THEOREM OutcomeBeforeRelease == Spec => []ReleasedHasOutcome
<1>1. FlightInv => ReleasedHasOutcome
  BY DEF FlightInv
<1> QED
  BY <1>1, FlightInvariance, PTL

(* No call object outlives its leader in the map (singleflight.go:32).     *)
THEOREM NoOrphanInMap == Spec => []RegisteredHasLeader
<1>1. FlightInv => RegisteredHasLeader
  BY DEF FlightInv
<1> QED
  BY <1>1, FlightInvariance, PTL
=============================================================================
