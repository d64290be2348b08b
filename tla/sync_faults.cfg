SPECIFICATION Spec
CONSTANTS
  Branches <- TwoBranches
  Commits <- Fork
  Ancestors <- ForkAncestors
  InitialTips <- FromRootOrNothing
  Protected <- LeftMain
  Workers <- Nobody
  Syncs <- Sync
  Approvers <- Nobody
  UserMoves <- Everything
  MaxMoves = 2
  Faults = TRUE
  QuarantineTries = 2
  None = None
INVARIANTS
  TypeOK
  BranchesApart
PROPERTIES
  KeepsPromise
  ExactWhenCalm
CHECK_DEADLOCK FALSE
