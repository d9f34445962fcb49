SPECIFICATION FairSpec
CONSTANTS
  None = None
  first = first
  again = again
  revised = revised
  foreign = foreign
  Requests = {first, revised, foreign}
  Tenant <- MCTenant
  Sha <- MCSha
  RoNumber <- MCRoNumber
  Hashes <- MCHashes
  PoolSize = 4
  MaxFaults = 1
INVARIANTS
  TypeOK
  AllOrNothing
  AuditMatchesStore
  
  
PROPERTIES
  ApiSpec
  RequestEnds
CHECK_DEADLOCK FALSE
