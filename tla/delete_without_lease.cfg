SPECIFICATION Spec
CONSTANTS
  Branches <- OneBranch
  Commits <- Line
  Ancestors <- LineAncestors
  InitialTips <- FromRoot
  Protected <- Nothing
  Workers <- Worker
  Syncs <- Nobody
  Approvers <- Nobody
  UserMoves <- ForwardDelete
  MaxMoves = 2
  Faults = FALSE
  QuarantineTries = 3
  None = None
PROPERTIES
  DeletionIsExact
CHECK_DEADLOCK FALSE
