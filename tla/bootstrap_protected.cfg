SPECIFICATION Spec
CONSTANTS
  PairNames <- MCPairNames
  Spellings <- MCSpellings
  Normal <- MCNormal
  Unpadded <- MCUnpadded
  FullNames <- MCFullNames
  WellFormed <- MCWellFormed
  Lower <- MCLower
  Folded <- MCFolded
  AsciiNames <- MCAsciiNames
  BranchNames <- MCBranchNames
  PlainNames <- MCPlainNames
  Branches <- MCBranches
  Commits <- MCCommits
  Ancestors <- MCAncestors
  None = None
  InitialFile <- GatedPair
  NewPairs <- MCNewPairs
  Adders <- MCAdders
  OtherRefs <- MCTags
  InitialRemotes <- MCInitialRemotes
  Secrets <- Github
  StartLimitBurst = 3
  MaxMoves = 1
  MaxIncidents = 1
PROPERTY SeedRespectsGate
CHECK_DEADLOCK FALSE
