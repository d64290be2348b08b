SPECIFICATION Spec
CONSTANTS
  Branches <- TwoBranches
  Commits <- Fork
  Ancestors <- ForkAncestors
  InitialTips <- FromRoot
  Protected <- Nothing
  Workers <- Worker
  Syncs <- Sync
  Approvers <- Nobody
  UserMoves <- Forward
  MaxMoves = 2
  Faults = FALSE
  QuarantineTries = 3
  None = None
INVARIANTS
  BranchesApart
CHECK_DEADLOCK FALSE
