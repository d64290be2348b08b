SPECIFICATION FairSpec
CONSTANTS
  Branches <- OneBranch
  Commits <- LineAndOrphan
  Ancestors <- LineAndOrphanAncestors
  InitialTips <- EqualOrNothing
  Polled <- LeftSide
  Syncs <- Sync
  UserMoves <- Everything
  MaxMoves = 2
  MaxIncidents = 1
  None = None
INVARIANTS
  TypeOK
PROPERTIES
  DeletesOnlyAfterPeople
  Reconciles
  KeepsPromise
CHECK_DEADLOCK FALSE
