SPECIFICATION FairSpec
CONSTANTS
  PairNames <- MCPairNames
  Spellings <- MCSpellings
  Normal <- MCNormal
  Unpadded <- MCUnpadded
  FullNames <- MCFullNames
  WellFormed <- MCWellFormed
  Lower <- MCLower
  Folded <- MCFolded
  AsciiNames <- MCAsciiNames
  BranchNames <- MCBranchNames
  PlainNames <- MCPlainNames
  Branches <- MCBranches
  Commits <- MCCommits
  Ancestors <- MCAncestors
  None = None
  InitialFile <- OnePair
  NewPairs <- MCNewPairs
  Adders <- MCAdders
  OtherRefs <- MCTags
  InitialRemotes <- MCInitialRemotes
  Secrets <- Github
  StartLimitBurst = 3
  MaxMoves = 1
  MaxIncidents = 2
INVARIANTS TypeOK  NoSeedSkipped BootstrappedBeforeWork
PROPERTIES SeedsOnlyNew Serves GivenUpForCause
CHECK_DEADLOCK FALSE
