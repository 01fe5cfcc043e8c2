CONSTANTS
  self = self
  a = a
  b = b
  Addrs = {self, a, b}
  Self = self
  NoAddr = NoAddr
  DeleteNames = {TRUE, FALSE}
  DialFails = TRUE
  MaxUps = 2
SPECIFICATION FairSpec
CHECK_DEADLOCK FALSE
INVARIANTS OnlineAfterMigration ViewComplete
PROPERTIES DiscoveredGoesOnline LeaverForgotten
