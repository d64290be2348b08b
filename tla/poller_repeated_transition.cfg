SPECIFICATION FairSpec
CONSTANTS
  Branches <- OneBranch
  Commits <- Line
  Ancestors <- LineAncestors
  InitialTips <- OnlyLeft
  Polled <- LeftSide
  Syncs <- Nobody
  UserMoves <- ForwardDelete
  MaxMoves = 2
  MaxIncidents = 0
  None = None
PROPERTIES
  RepeatedTransitionIsReconciled
CHECK_DEADLOCK FALSE
