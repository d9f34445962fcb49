SPECIFICATION Spec
CONSTANTS
  None = None
  first = first
  again = again
  revised = revised
  foreign = foreign
  Requests = {first, again}
  Tenant <- MCTenant
  Sha <- MCVisits
  RoNumber <- MCVisits
  Hashes <- MCHashes
  PoolSize = 3
  MaxFaults = 0
INVARIANT
  CustomerHasOneUuid
CHECK_DEADLOCK FALSE
