CONSTANTS
  self = self
  a = a
  b = b
  Addrs = {self, a, b}
  Self = self
  NoAddr = NoAddr
  DeleteNames = {FALSE}
  DialFails = FALSE
  MaxUps = 1
SPECIFICATION Spec
CHECK_DEADLOCK FALSE
INVARIANTS LeftIsUnhealthy
