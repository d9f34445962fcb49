SPECIFICATION Spec
CONSTANTS
  empty = empty
  word = word
  indiana = indiana
  phone = phone
  name = name
  Documents <- MCDocuments
  Content <- MCContent
  Numerals = {"0", "1", "01", "2", "3"}
  ParsedInt <- MCParsedInt
  Words = {empty, word, indiana, phone, name}
  Empty = empty
  KeyWords = {indiana}
  Patterns = {phone}
  Scans = {s1, s2}
  Paths = {"a", "b"}
  Folder <- MCFolder
  Owner <- MCOwner
  Contents = {"small", "large"}
  Oversized = {"large"}
  Batches = {b1, b2}
  MaxWrites = 2
  NoFile = NoFile
  NoBatch = NoBatch
  NoScan = NoScan
  NoEntry = NoEntry
  Flushes = {f1, f2}
  FlushEvery = 2
  MaxResults = 4
  NoFlush = NoFlush
  Gateways = {gateway1, gateway2}
  RepairOrders = {ro1, ro2}
  OldKey = "k1"
  NewKey = "k2"
  MaxIngests = 3
  NoRing = NoRing
  NoVaultRow = NoVaultRow
  NoWork = NoWork
SYMMETRY Interchangeable
INVARIANTS
  DocumentsAndJobsTypeOK
  LinesAreDense
  MoneyAddsUp
  NothingIsLost
  
  RegistryMatchesFiles
  
  
CHECK_DEADLOCK FALSE
