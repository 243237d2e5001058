SPECIFICATION FairSpec
CONSTANTS
  N = 3
  Token <- MCToken
  None <- MCNone
  Worlds <- AnyLinks
  Handler = {h1, h2}
  MaxChainDepth = 2
  Faults = TRUE
  Purging = TRUE
INVARIANTS SameLineage RootWhenOnFile
PROPERTIES EveryWalkEnds
