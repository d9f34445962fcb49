SPECIFICATION FairSpec
CONSTANTS
  None = None
  a = a
  b = b
  p = p
  upload = upload
  renamed = renamed
  other = other
  folder = folder
  mangled = mangled
  second = second
  tUpload = tUpload
  tPair = tPair
  tMixed = tMixed
  tGarbage = tGarbage
  Workers = {w1}
  Ids = {m1}
  Texts = {tUpload}
  Unparsable = {}
  Events = {upload, renamed, other, folder, mangled, second}
  Contents = {a, b, p}
  Readable = {upload, second}
  Body <- MCBody
  Kind <- MCKind
  Content <- MCContent
  Truncated <- MCTruncated
  BatchSize = 2
  MaxDequeueCount = 2
  Budget <- OneCrash
  MaxMix = 1
PROPERTY
  ClaimEnds
CHECK_DEADLOCK FALSE
