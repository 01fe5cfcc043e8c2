CONSTANTS
  Callers = {p1, p2, p3}
  Keys = {k1, k2}
  Calls = {c1, c2, c3}
  Outcomes = {o1, o2}
  NoCall = NoCall
  NoKey = NoKey
  Unset = Unset
SPECIFICATION FairSpec
INVARIANTS OneFlightPerKey ReleasedHasOutcome RegisteredHasLeader
PROPERTIES EveryDoReturns
