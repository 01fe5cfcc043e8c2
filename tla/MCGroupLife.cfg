SPECIFICATION GroupSpec
CONSTANTS
  Callers = {p1, p2}
  Stores = {s1, s2}
  NoStore = nil
  k1 = k1
  k2 = k2
  Keys <- KeysDef
  Hash1 <- Hash1Def
  Hash2 <- Hash2Def
  WordSize = 8
  BitCount = 3
  HashCount = 2
  Main = g1
  Groups = {g1, g2}
  NoGroup = none
  MaxCalls = 3
  Handlers = {p1}
INVARIANTS OneStore NilStoreNeedsRace SetThenContained ClosedNotServed StoreLeakNeedsRace
PROPERTIES LookupsReturn
CHECK_DEADLOCK FALSE
