SPECIFICATION Spec
CONSTANTS
  None = None
  a = a
  b = b
  p = p
  upload = upload
  renamed = renamed
  other = other
  folder = folder
  mangled = mangled
  second = second
  tUpload = tUpload
  tPair = tPair
  tMixed = tMixed
  tGarbage = tGarbage
  Workers = {w1, w2}
  Ids = {m1, m2}
  Texts = {tPair, tMixed}
  Unparsable = {}
  Events = {upload, renamed, other, folder, mangled, second}
  Contents = {a, b, p}
  Readable = {upload}
  Body <- MCBody
  Kind <- MCKind
  Content <- MCContent
  Truncated <- MCTruncated
  BatchSize = 2
  MaxDequeueCount = 2
  Budget <- OneOfEach
  MaxMix = 2
SYMMETRY MCSymmetry
INVARIANTS
  TypeOK
  ClaimIsExclusive
  GatewayAgrees
  
  PoisonKeepsBodies
  StrandedNeedsFault
PROPERTIES
  RegistrySpec
CHECK_DEADLOCK FALSE
