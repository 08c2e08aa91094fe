CONSTANTS
  None = None
  Poison = Poison
  r1 = r1
  r2 = r2
  Requests = {r1, r2}
  Commands <- MCCommands
  Streams <- ConsumerStreams
  ReadCount = 2
  ClaimCount = 2
  MaxClaimPages = 1
  AlwaysIdle = FALSE
  Mortal <- MortalStreams
SPECIFICATION Spec
INVARIANTS TypeOK OneVerdict DuplicateFollowsVerdict SettledIsAnswered ReadyOwesNothing AtMostOneEffect EffectIsJournaled JournalReplayable OneOpenLifecycle AcceptedIsFinal
CHECK_DEADLOCK FALSE
