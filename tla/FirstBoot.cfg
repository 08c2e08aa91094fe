CONSTANTS
  None = None
  Torn = Torn
  b1 = b1
  b2 = b2
  Bundles <- MCBundles
  MaxAttempts = 2
SPECIFICATION FairSpec
INVARIANTS TypeOK PhaseIsTrue AttemptsAreNew ClassifiedOnce CrashIsClassified OneAuthority
PROPERTIES Converges
CHECK_DEADLOCK FALSE
