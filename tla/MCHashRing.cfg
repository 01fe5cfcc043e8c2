CONSTANTS
  Nodes = {n1, n2, n3}
  NoNode = none
  Replicas = 2
  MinReplicas = 1
  MaxReplicas = 3
  Points = 6
  ThresholdPercent = 25
  MinRequests = 1
  MaxRequests = 1
SPECIFICATION RingSpec
SYMMETRY Symmetry
CHECK_DEADLOCK FALSE
INVARIANTS LookupsReachMembers NearestFirst
PROPERTIES ReplicaTakesOver
