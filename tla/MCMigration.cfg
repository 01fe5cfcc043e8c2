CONSTANTS
  n1 = n1
  n2 = n2
  n3 = n3
  n4 = n4
  NoTask = NoTask
  Nodes <- Nodes4
  Ring <- Ring4
  Scenarios <- Scenarios4
  Workers = {w1}
  BufferCap = 1
  MaxOps = 2
  MaxGets = 1
  MaxTrouble = 1
SPECIFICATION FairSpec
CHECK_DEADLOCK FALSE
INVARIANTS OwnersHoldLastSet NoDirtyCopy OnlineNodeHasKey
PROPERTIES PropagationEnds
