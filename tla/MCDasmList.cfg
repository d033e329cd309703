SPECIFICATION FairSpec
CONSTANTS
  AddrSpace = 7
  IntMax = 15
  CountSpace = 32
  NULL = NULL
  Memories <- MCMemories
  Sizes <- MCSizes
  Orgs <- MCOrgs
INVARIANTS ListAsSaid
