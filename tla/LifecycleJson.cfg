CONSTANTS
  Requests = {r1}
  ClientIds = {c1, c2}
  BrokerIds = {b1}
  None = None
  Backend = "Json"
  HardenMayFail = FALSE
  MaxClock = 2
  MaxPendingAge = 0
SPECIFICATION Spec
INVARIANTS TypeOK
PROPERTIES TerminalNeverOverwritten
