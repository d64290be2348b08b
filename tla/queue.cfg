SPECIFICATION FairSpec
CONSTANTS
  Names <- FourNames
  Canonical <- LegacyAndCurrent
  MaxAttempts = 2
  Interruptible = TRUE
  MaxCrashes = 2
  MaxRevivals = 1
  NoFile = NoFile
INVARIANTS
  TypeOK
  OnePlace
  RunsCounted
  RetryBound
PROPERTIES
  NeverDropped
  KeepsPromise
  Settles
CHECK_DEADLOCK FALSE
