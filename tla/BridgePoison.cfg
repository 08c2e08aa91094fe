CONSTANTS
  None = None
  Poison = Poison
  r1 = r1
  r2 = r2
  Requests = {r1, r2}
  Commands <- MCCommands
  Streams <- PageStreams
  ReadCount = 2
  ClaimCount = 2
  MaxClaimPages = 2
  AlwaysIdle = TRUE
  Mortal = {}
SPECIFICATION FairSpec
PROPERTIES PoisonSettles
