SPECIFICATION Spec
CONSTANTS
  Branches <- OneBranch
  Commits <- Line
  Ancestors <- LineAncestors
  InitialTips <- FromRoot
  Protected <- LeftMain
  Workers <- Worker
  Syncs <- Nobody
  Approvers <- Approver
  UserMoves <- Forward
  MaxMoves = 2
  Faults = TRUE
  QuarantineTries = 2
  None = None
PROPERTIES
  KeepsPromise
  ProtectedOnlyByApproval
  ExactWhenCalm
  ApprovalIsAnswered
CHECK_DEADLOCK FALSE
