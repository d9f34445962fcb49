SPECIFICATION Spec
CONSTANTS
  None = None
  ann = ann
  bob = bob
  room = room
  first = first
  second = second
  why = why
  erase = erase
  spy = spy
  quick = quick
  how = how
  peek = peek
  look = look
  Users = {ann, bob}
  Requests = {room, first, second, why, erase, spy, quick, how, peek, look}
  User <- MCUser
  Kind <- MCKind
  Strategy <- MCStrategy
  PoolSize = 2
  Retention = 1
  MaxDay = 2
  MaxFaults = 1
  FaultKinds = {"statement", "commit", "llm", "crash", "cleanup"}
ACTION_CONSTRAINT OneView
INVARIANTS
  TypeOK
  AnswersStayPrivate
  RetentionHolds
PROPERTY
  ChatSpec
CHECK_DEADLOCK FALSE
