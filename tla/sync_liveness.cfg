SPECIFICATION FairSpec
CONSTANTS
  Branches <- OneBranch
  Commits <- Tree
  Ancestors <- TreeAncestors
  InitialTips <- FromRootOrNothing
  Protected <- LeftMain
  Workers <- Worker
  Syncs <- Nobody
  Approvers <- Nobody
  UserMoves <- Forward
  MaxMoves = 3
  Faults = FALSE
  QuarantineTries = 3
  None = None
INVARIANTS
  NothingForgotten
PROPERTIES
  Converges
CHECK_DEADLOCK FALSE
