CONSTANTS
  n1 = n1
  n2 = n2
  NoCall = NoCall
  NoNode = NoNode
  NoThread = NoThread
  Unset = Unset
  Nodes <- Nodes2
  Ring <- Ring2
  Threads = {t1, t2, t3}
  Calls = {c1, c2, c3}
  MaxGets = 2
  MaxDown = 1
  GetterFails = FALSE
SPECIFICATION FairSpec
CHECK_DEADLOCK FALSE
INVARIANTS PeerFailuresHidden
PROPERTIES EveryGetReturns
