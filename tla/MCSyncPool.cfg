CONSTANTS
  Groups = {g1}
  Workers = {w1, w2}
  Tasks = {t1, t2, t3, t4}
  BufferCap = 2
  Stuck = {t1}
  NoTask = NoTask
SPECIFICATION FairSpec
CHECK_DEADLOCK FALSE
INVARIANTS TaskInOnePlace EarlyTasksDrained
PROPERTIES SubmitReturns AcceptedRuns WorkersExit
