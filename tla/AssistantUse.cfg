SPECIFICATION FairSpec
CONSTANTS
  None = None
  ann = ann
  bob = bob
  room = room
  first = first
  second = second
  why = why
  erase = erase
  spy = spy
  quick = quick
  how = how
  peek = peek
  look = look
  Users = {ann, bob}
  Requests = {first, second, why, erase}
  User <- MCUser
  Kind <- MCKind
  Strategy <- MCStrategy
  PoolSize = 1
  Retention = 1
  MaxDay = 0
  MaxFaults = 1
  FaultKinds = {"statement", "commit", "llm", "crash"}
INVARIANTS
  DeletionSticks
PROPERTIES
  OrderlyUse
  QuestionEnds
CHECK_DEADLOCK FALSE
