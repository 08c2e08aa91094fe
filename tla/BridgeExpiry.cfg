CONSTANTS
  None = None
  Poison = Poison
  r1 = r1
  r2 = r2
  Requests = {r1, r2}
  Commands <- MCCommands
  Streams <- ExpiryStreams
  ReadCount = 2
  ClaimCount = 2
  MaxClaimPages = 1
  AlwaysIdle = FALSE
  Mortal = {}
SPECIFICATION Spec
INVARIANTS SettledIsResolved
