SPECIFICATION Spec
CONSTANTS
  Branches <- OneBranch
  Commits <- Line
  Ancestors <- LineAncestors
  InitialTips <- FromRoot
  Protected <- LeftMain
  Workers <- Worker
  Syncs <- Nobody
  Approvers <- Approver
  UserMoves <- Forward
  MaxMoves = 2
  Faults = FALSE
  QuarantineTries = 3
  None = None
PROPERTIES
  ApprovalIsExact
CHECK_DEADLOCK FALSE
