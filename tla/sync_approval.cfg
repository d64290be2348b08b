SPECIFICATION Spec
CONSTANTS
  Branches <- OneBranch
  Commits <- Tree
  Ancestors <- TreeAncestors
  InitialTips <- FromRoot
  Protected <- LeftMain
  Workers <- Worker
  Syncs <- Nobody
  Approvers <- Approver
  UserMoves <- Everything
  MaxMoves = 2
  Faults = FALSE
  QuarantineTries = 3
  None = None
PROPERTIES
  KeepsPromise
  ProtectedOnlyByApproval
  ExactWhenCalm
  UpdateIsAccountedFor
  DeletionIsAccountedFor
CHECK_DEADLOCK FALSE
