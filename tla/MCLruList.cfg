CONSTANTS
  Keys = {k1, k2}
  KeyLen = 1
  Vals = {1, 2}
  MaxBytes = 4
  Getters = {p1, p2}
  Elems <- Elems5
  MaxDeletes = 1
SPECIFICATION LruSpec
INVARIANTS ListMatchesItems BytesAreExact ExpiryHasEntry
PROPERTIES SetSurvivesItsEviction
