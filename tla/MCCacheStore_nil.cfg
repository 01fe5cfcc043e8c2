SPECIFICATION Spec
CONSTANTS
  Callers = {p1, p2, p3}
  Stores = {s1, s2, s3, s4}
  NoStore = nil
INVARIANTS NoNilStore
CHECK_DEADLOCK FALSE
