CONSTANTS
  Keys = {k1,k2}
  Cap0 = 1
  Cap1 = 2
  TTLs = {1,2}
  MaxSets = 3
  MaxTime = 3
  MaxClears = 1
  None = None
SPECIFICATION FairSpec
CHECK_DEADLOCK FALSE
INVARIANTS ReadsLastWrite NoResurrection ExpiredNotServed
PROPERTIES CleanupSparesFresh ExpiredGoes
