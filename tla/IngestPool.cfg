SPECIFICATION FairSpec
CONSTANTS
  None = None
  first = first
  again = again
  revised = revised
  foreign = foreign
  Requests = {first, foreign}
  Tenant <- MCTenant
  Sha <- MCSha
  RoNumber <- MCRoNumber
  Hashes <- MCHashes
  PoolSize = 2
  MaxFaults = 0
PROPERTY
  RequestEnds
CHECK_DEADLOCK FALSE
