----------------------- MODULE DocumentsAndJobsProofs -----------------------
(***************************************************************************)
(* Theorems about the jobs around the ingest, for any number of scans,     *)
(* flushes, gateways and repair orders: FtpWatcher, WorkerMetrics and      *)
(* KeyRotation; and about the module that checks them beside RoDocument.   *)
(***************************************************************************)
EXTENDS MCDocumentsAndJobs, RoDocumentProofs

(***************************************************************************)
(* FtpWatcher: the registry of files and the folders they are moved to.    *)
(***************************************************************************)

Registered == {"validate", "fail", "accept"}
PastHash == {"find", "duplicate", "copy", "metadata", "insert"} \cup Registered
Past(s) == scan[s] # NoScan /\ scan[s].pc \in PastHash

\* What a scan knows at each step.
ScanOK(s) ==
  scan[s] # NoScan =>
    /\ scan[s].pc # "list" => file[scan[s].path] # NoFile
    /\ scan[s].pc \in PastHash => scan[s].hash \in Contents /\ sighted[HashKey(s)] # 0
    /\ scan[s].pc \in {"find", "copy"} => file[scan[s].path] = scan[s].hash \/ scan[s].torn
    /\ scan[s].pc \in {"metadata", "insert"} =>
         scan[s].batch # NoBatch /\ (copy[scan[s].batch] = scan[s].hash \/ scan[s].batch \in torn)
    /\ scan[s].pc = "insert" => metadata[Folder[scan[s].path]] = scan[s].batch
    /\ scan[s].pc \in Registered => entry[HashKey(s)] # NoEntry

\* Each scan has sighted what it handles, and so had the one that registered
\* the row.
SightedOK ==
  /\ \A s, q \in Scans : s # q /\ Past(s) /\ Past(q) /\ HashKey(s) = HashKey(q) => sighted[HashKey(s)] = 2
  /\ \A k \in Keys : entry[k] # NoEntry => sighted[k] # 0
  /\ \A s \in Scans :
       Past(s) /\ scan[s].pc \notin Registered /\ entry[HashKey(s)] # NoEntry => sighted[HashKey(s)] = 2

WatcherInv ==
  /\ WatcherTypeOK /\ (\A s \in Scans : ScanOK(s)) /\ SightedOK /\ RegistryMatchesFiles
-----------------------------------------------------------------------------
\* A scan that lists the directory is at no file.
LEMMA ListingIsScan ==
  ASSUME NEW todo \in SUBSET Paths
  PROVE  Listing(todo) \in ScanStates /\ Listing(todo).pc = "list"
<1>1. (CHOOSE p \in Paths : TRUE) \in Paths
  BY WatcherAssumption
<1> QED
  BY <1>1 DEF Listing, ScanStates, ScanSteps

\* What a scan is at is a file of a folder, and its hash a key.
LEMMA ScanFacts ==
  ASSUME WatcherTypeOK, NEW s \in Scans, scan[s] # NoScan
  PROVE  /\ scan[s] \in ScanStates
         /\ Folder[scan[s].path] \in Folders
         /\ scan[s].hash \in Contents => HashKey(s) \in Keys
         /\ file[scan[s].path] \in Contents \cup {NoFile}
  BY DEF WatcherTypeOK, ScanStates, Folders, Keys, HashKey, Path

\* A scan goes on to the next file, or ends, and statuses may change that were
\* there before: the rest stays as it was.
LEMMA PassOn ==
  ASSUME WatcherInv, NEW s \in Scans, NEW x \in ScanStates \cup {NoScan},
         scan' = [scan EXCEPT ![s] = x],
         x # NoScan => x.pc \in {"list", "settle", "hash"} /\ (x.pc = "list" \/ file[x.path] # NoFile),
         UNCHANGED <<file, writes, schema, copy, metadata, sighted, torn>>,
         entry' \in [Keys -> Entries \cup {NoEntry}],
         \A k \in Keys :
           /\ entry'[k] = NoEntry <=> entry[k] = NoEntry
           /\ entry[k] # NoEntry =>
                entry'[k].batch = entry[k].batch /\ (entry'[k].status = "DUPLICATE" => sighted[k] = 2),
         done' \subseteq Paths, taken' \in [Paths -> Keys \cup {NoEntry}],
         \A p \in done' : taken'[p] # NoEntry /\ entry[taken'[p]] # NoEntry
  PROVE  WatcherInv'
<1> USE DEF WatcherInv
<1>1. WatcherTypeOK'
  BY DEF WatcherTypeOK
<1>2. /\ scan'[s] = x /\ ~Past(s)'
      /\ \A q \in Scans \ {s} : scan'[q] = scan[q] /\ HashKey(q)' = HashKey(q) /\ (Past(q)' <=> Past(q))
  BY DEF WatcherTypeOK, Past, PastHash, Registered, HashKey, Path
<1>3. ASSUME NEW q \in Scans PROVE ScanOK(q)'
  <2>1. CASE q = s
    BY <1>2, <2>1 DEF ScanOK, PastHash, Registered
  <2>2. CASE q # s
    <3>1. scan[q] # NoScan /\ scan[q].pc \in Registered => HashKey(q) \in Keys
      BY ScanFacts DEF ScanOK, PastHash
    <3> QED
      BY <1>2, <2>2, <3>1 DEF ScanOK
  <2> QED
    BY <2>1, <2>2
<1>4. SightedOK'
  <2>1. \A q \in Scans : Past(q) => HashKey(q) \in Keys
    BY ScanFacts DEF ScanOK, Past
  <2> QED
    BY <1>2, <2>1 DEF SightedOK
<1>5. RegistryMatchesFiles'
  <2>1. \A k \in Keys : entry'[k] # NoEntry => entry[k] # NoEntry /\ entry'[k].batch = entry[k].batch
    OBVIOUS
  <2>2. \A p \in done' : taken'[p] \in Keys
    BY DEF WatcherTypeOK
  <2> QED
    BY <2>1, <2>2 DEF RegistryMatchesFiles
<1> QED
  BY <1>1, <1>3, <1>4, <1>5

\* Setting a status changes a row that is there, and nothing else.
LEMMA StatusSet ==
  ASSUME WatcherInv, NEW k \in Keys, NEW status \in {"RECEIVED", "VALIDATED", "FAILED", "DUPLICATE"},
         SetStatus(k, status), status = "DUPLICATE" => entry[k] = NoEntry \/ sighted[k] = 2
  PROVE  /\ entry' \in [Keys -> Entries \cup {NoEntry}]
         /\ \A j \in Keys :
              /\ entry'[j] = NoEntry <=> entry[j] = NoEntry
              /\ entry[j] # NoEntry =>
                   entry'[j].batch = entry[j].batch /\ (entry'[j].status = "DUPLICATE" => sighted[j] = 2)
<1>1. CASE entry[k] = NoEntry
  BY <1>1 DEF WatcherInv, WatcherTypeOK, SetStatus, RegistryMatchesFiles
<1>2. CASE entry[k] # NoEntry
  <2>1. entry' = [entry EXCEPT ![k] = [entry[k] EXCEPT !.status = status]]
    BY <1>2 DEF SetStatus
  <2>2. entry[k] \in Entries
    BY <1>2 DEF WatcherInv, WatcherTypeOK
  <2> DEFINE e == [entry[k] EXCEPT !.status = status]
  <2>3. e \in Entries /\ e.batch = entry[k].batch /\ e.status = status
    BY <2>2 DEF Entries
  <2>4. e # NoEntry
    BY <2>3, WatcherAssumption
  <2> HIDE DEF e
  <2> QED
    BY <1>2, <2>1, <2>3, <2>4 DEF WatcherInv, WatcherTypeOK, RegistryMatchesFiles, e
<1> QED
  BY <1>1, <1>2

LEMMA WatcherStarts == WatcherInit => WatcherInv
<1> SUFFICES ASSUME WatcherInit PROVE WatcherInv
  OBVIOUS
<1>1. WatcherTypeOK
  BY WatcherAssumption DEF WatcherInit, WatcherTypeOK
<1>2. (\A s \in Scans : ScanOK(s)) /\ SightedOK /\ RegistryMatchesFiles
  BY DEF WatcherInit, ScanOK, SightedOK, RegistryMatchesFiles, Past
<1> QED
  BY <1>1, <1>2 DEF WatcherInv

\* Steps that only list, stat or give up.
LEMMA ListingKeeps ==
  ASSUME WatcherInv, NEW s \in Scans,
         \/ StartScan(s) \/ (\E p \in Paths : LookAt(s, p)) \/ EndScan(s) \/ SettleFile(s)
         \/ ScanFails(s) \/ (WriteMetadata(s) /\ UNCHANGED metadata) \/ (InsertEntry(s) /\ UNCHANGED entry)
  PROVE  WatcherInv'
<1> DEFINE PassesOn(x) ==
      /\ x \in ScanStates \cup {NoScan} /\ scan' = [scan EXCEPT ![s] = x]
      /\ x # NoScan => x.pc \in {"list", "settle", "hash"} /\ (x.pc = "list" \/ file[x.path] # NoFile)
<1>1. ASSUME NEW x, PassesOn(x),
             UNCHANGED <<file, writes, schema, done, copy, metadata, entry, ghosts>>
      PROVE  WatcherInv'
  <2>1. /\ entry' \in [Keys -> Entries \cup {NoEntry}]
        /\ \A k \in Keys :
             /\ entry'[k] = NoEntry <=> entry[k] = NoEntry
             /\ entry[k] # NoEntry =>
                  entry'[k].batch = entry[k].batch /\ (entry'[k].status = "DUPLICATE" => sighted[k] = 2)
        /\ done' \subseteq Paths /\ taken' \in [Paths -> Keys \cup {NoEntry}]
        /\ \A p \in done' : taken'[p] # NoEntry /\ entry[taken'[p]] # NoEntry
    BY <1>1 DEF WatcherInv, WatcherTypeOK, RegistryMatchesFiles, ghosts
  <2> QED
    BY <1>1, <2>1, PassOn DEF ghosts
<1>2. ASSUME scan[s] # NoScan
      PROVE  Listing(scan[s].todo) \in ScanStates /\ Listing(scan[s].todo).pc = "list"
  BY <1>2, ScanFacts, ListingIsScan DEF WatcherInv, ScanStates
<1>3. CASE StartScan(s)
  <2>1. PassesOn(Listing(Paths))
    BY <1>3, ListingIsScan DEF StartScan
  <2> QED
    BY <1>1, <1>3, <2>1 DEF StartScan
<1>4. ASSUME NEW p \in Paths, LookAt(s, p) PROVE WatcherInv'
  <2> DEFINE next == Listing(scan[s].todo \ {p})
             x == IF p \in done \/ file[p] = NoFile THEN next
                  ELSE [next EXCEPT !.pc = "settle", !.path = p, !.hash = file[p]]
  <2>1. scan[s] \in ScanStates
    BY <1>4, ScanFacts DEF WatcherInv, LookAt, InStep
  <2>2. next \in ScanStates /\ next.pc = "list"
    BY <2>1, ListingIsScan DEF ScanStates
  <2>3. file[p] \in Contents \cup {NoFile}
    BY DEF WatcherInv, WatcherTypeOK
  <2> HIDE DEF next
  <2>4. x \in ScanStates /\ x.pc \in {"list", "settle", "hash"} /\ (x.pc = "list" \/ file[x.path] # NoFile)
    BY <2>2, <2>3 DEF ScanStates, ScanSteps
  <2>5. scan' = [scan EXCEPT ![s] = x]
    BY <1>4 DEF LookAt, next
  <2> QED
    BY <1>1, <1>4, <2>4, <2>5 DEF LookAt
<1>5. CASE EndScan(s)
  BY <1>1, <1>5 DEF EndScan
<1>6. CASE SettleFile(s)
  <2>1. scan[s] # NoScan /\ scan[s].pc = "settle" /\ scan[s] \in ScanStates
    BY <1>6, ScanFacts DEF WatcherInv, SettleFile, InStep
  <2>2. CASE file[Path(s)] = scan[s].hash
    <3>1. PassesOn([scan[s] EXCEPT !.pc = "hash"])
      BY <1>6, <2>1, <2>2 DEF SettleFile, Step, WatcherInv, ScanOK, ScanStates, ScanSteps, WatcherTypeOK
    <3> QED
      BY <1>1, <1>6, <3>1 DEF SettleFile
  <2>3. CASE file[Path(s)] # scan[s].hash
    <3>1. PassesOn(Listing(scan[s].todo))
      BY <1>2, <1>6, <2>1, <2>3 DEF SettleFile, NextFile
    <3> QED
      BY <1>1, <1>6, <3>1 DEF SettleFile
  <2> QED
    BY <2>2, <2>3
<1>7. CASE ScanFails(s)
  <2>1. CASE scan' = [scan EXCEPT ![s] = NoScan]
    BY <1>1, <1>7, <2>1 DEF ScanFails
  <2>2. CASE NextFile(s)
    <3>1. PassesOn(Listing(scan[s].todo))
      BY <1>2, <1>7, <2>2 DEF ScanFails, NextFile
    <3> QED
      BY <1>1, <1>7, <3>1 DEF ScanFails
  <2> QED
    BY <1>7, <2>1, <2>2 DEF ScanFails
<1>8. CASE WriteMetadata(s) /\ UNCHANGED metadata
  <2>1. scan[s] # NoScan /\ scan[s].pc = "metadata" /\ scan[s] \in ScanStates /\ scan[s].batch # NoBatch
        /\ Folder[scan[s].path] \in Folders
    BY <1>8, ScanFacts DEF WatcherInv, WriteMetadata, InStep, ScanOK
  <2>2. NextFile(s)
    BY <1>8, <2>1 DEF WriteMetadata, Path, WatcherInv, WatcherTypeOK
  <2>3. PassesOn(Listing(scan[s].todo))
    BY <1>2, <2>1, <2>2 DEF NextFile
  <2> QED
    BY <1>1, <1>8, <2>3 DEF WriteMetadata
<1>9. CASE InsertEntry(s) /\ UNCHANGED entry
  <2>1. scan[s] # NoScan /\ scan[s].pc = "insert" /\ scan[s] \in ScanStates /\ scan[s].batch # NoBatch
        /\ HashKey(s) \in Keys
    BY <1>9, ScanFacts DEF WatcherInv, InsertEntry, InStep, ScanOK, PastHash
  <2>2. [batch |-> scan[s].batch, status |-> "RECEIVED"] \in Entries
    BY <2>1 DEF ScanStates, Entries
  <2>3. NextFile(s)
    BY <1>9, <2>1, <2>2, WatcherAssumption DEF InsertEntry, WatcherInv, WatcherTypeOK
  <2>4. PassesOn(Listing(scan[s].todo))
    BY <1>2, <2>1, <2>3 DEF NextFile
  <2> QED
    BY <1>1, <1>9, <2>4 DEF InsertEntry
<1> QED
  BY <1>3, <1>4, <1>5, <1>6, <1>7, <1>8, <1>9

\* Steps that set a status and go on.
LEMMA StatusKeeps ==
  ASSUME WatcherInv, NEW s \in Scans, FileIsDuplicate(s) \/ FileFails(s) \/ FileIsAccepted(s)
  PROVE  WatcherInv'
<1>1. /\ scan[s] # NoScan /\ scan[s].pc \in {"duplicate", "fail", "accept"} /\ scan[s] \in ScanStates
      /\ HashKey(s) \in Keys
  BY ScanFacts DEF WatcherInv, FileIsDuplicate, FileFails, FileIsAccepted, InStep, ScanOK, PastHash,
    Registered
<1> DEFINE x == Listing(scan[s].todo)
<1>2. x \in ScanStates /\ x.pc = "list" /\ scan' = [scan EXCEPT ![s] = x]
  <2>1. scan[s].todo \in SUBSET Paths
    BY <1>1 DEF ScanStates
  <2> QED
    BY <2>1, ListingIsScan DEF FileIsDuplicate, FileFails, FileIsAccepted, NextFile
<1>3. /\ entry' \in [Keys -> Entries \cup {NoEntry}]
      /\ \A j \in Keys :
           /\ entry'[j] = NoEntry <=> entry[j] = NoEntry
           /\ entry[j] # NoEntry =>
                entry'[j].batch = entry[j].batch /\ (entry'[j].status = "DUPLICATE" => sighted[j] = 2)
  <2>1. CASE FileIsDuplicate(s)
    <3>1. entry[HashKey(s)] = NoEntry \/ sighted[HashKey(s)] = 2
      BY <1>1, <2>1 DEF WatcherInv, SightedOK, Past, PastHash, Registered, FileIsDuplicate, InStep
    <3> QED
      BY <1>1, <2>1, <3>1, StatusSet DEF FileIsDuplicate
  <2>2. CASE FileFails(s)
    BY <1>1, <2>2, StatusSet DEF FileFails
  <2>3. CASE FileIsAccepted(s)
    BY <1>1, <2>3, StatusSet DEF FileIsAccepted
  <2> QED
    BY <2>1, <2>2, <2>3
<1>4. /\ done' \subseteq Paths /\ taken' \in [Paths -> Keys \cup {NoEntry}]
      /\ \A p \in done' : taken'[p] # NoEntry /\ entry[taken'[p]] # NoEntry
  <2>1. CASE FileIsDuplicate(s) \/ FileFails(s)
    BY <2>1 DEF FileIsDuplicate, FileFails, WatcherInv, WatcherTypeOK, RegistryMatchesFiles, ghosts
  <2>2. CASE FileIsAccepted(s)
    <3>1. Path(s) \in Paths
      BY <1>1 DEF Path, ScanStates
    <3>2. entry[HashKey(s)] # NoEntry
      BY <1>1, <2>2 DEF WatcherInv, ScanOK, Registered, FileIsAccepted, InStep
    <3>3. HashKey(s) # NoEntry
      BY <1>1, WatcherAssumption
    <3>4. done' = done \cup {Path(s)} /\ taken' = [taken EXCEPT ![Path(s)] = HashKey(s)]
      BY <2>2 DEF FileIsAccepted
    <3> QED
      BY <1>1, <3>1, <3>2, <3>3, <3>4 DEF WatcherInv, WatcherTypeOK, RegistryMatchesFiles
  <2> QED
    BY <2>1, <2>2
<1>5. UNCHANGED <<file, writes, schema, copy, metadata, sighted, torn>>
  BY DEF FileIsDuplicate, FileFails, FileIsAccepted, ghosts
<1> HIDE DEF x
<1> QED
  BY <1>2, <1>3, <1>4, <1>5, PassOn

\* A file is written to: the scans that handle it are torn.
LEMMA WriteFileKeeps ==
  ASSUME WatcherInv, NEW p \in Paths, NEW c \in Contents, WriteFile(p, c)
  PROVE  WatcherInv'
<1> USE DEF WatcherInv
<1>1. ASSUME NEW q \in Scans
      PROVE  /\ scan'[q] \in ScanStates \cup {NoScan}
             /\ scan'[q] = NoScan <=> scan[q] = NoScan
             /\ scan[q] # NoScan =>
                  /\ scan[q] \in ScanStates
                  /\ scan'[q].pc = scan[q].pc /\ scan'[q].path = scan[q].path /\ scan'[q].hash = scan[q].hash
                  /\ scan'[q].batch = scan[q].batch
                  /\ scan[q].torn => scan'[q].torn
                  /\ scan[q].path = p /\ scan[q].pc \notin {"list", "settle"} => scan'[q].torn
  <2>1. CASE scan[q] = NoScan
    BY <2>1 DEF WriteFile
  <2>2. CASE scan[q] # NoScan
    <3>1. scan[q] \in ScanStates /\ [scan[q] EXCEPT !.torn = TRUE] \in ScanStates
      BY <2>2, ScanFacts DEF ScanStates
    <3>2. scan'[q] = IF scan[q].pc \notin {"list", "settle"} /\ scan[q].path = p
                       THEN [scan[q] EXCEPT !.torn = TRUE] ELSE scan[q]
      BY <2>2 DEF WriteFile, Path
    <3>3. [scan[q] EXCEPT !.torn = TRUE] # NoScan
      BY <3>1, WatcherAssumption
    <3> QED
      BY <2>2, <3>1, <3>2, <3>3 DEF ScanStates
  <2> QED
    BY <2>1, <2>2
<1>2. WatcherTypeOK'
  <2>1. scan' \in [Scans -> ScanStates \cup {NoScan}]
    BY <1>1 DEF WriteFile
  <2>2. file' \in [Paths -> Contents \cup {NoFile}] /\ writes' \in 0 .. MaxWrites
    BY WatcherAssumption DEF WriteFile, WatcherTypeOK
  <2> QED
    BY <2>1, <2>2 DEF WriteFile, WatcherTypeOK, ghosts
<1>3. \A q \in Scans : scan[q] # NoScan => HashKey(q)' = HashKey(q)
  BY <1>1 DEF HashKey, Path
<1>4. \A q \in Scans : Past(q)' <=> Past(q)
  BY <1>1 DEF Past
<1>5. ASSUME NEW q \in Scans PROVE ScanOK(q)'
  <2> SUFFICES ASSUME scan[q] # NoScan PROVE ScanOK(q)'
    BY <1>1 DEF ScanOK
  <2>1. \A r \in Paths : file'[r] = IF r = p THEN c ELSE file[r]
    BY DEF WriteFile, WatcherTypeOK
  <2>2. scan[q].path \in Paths /\ c # NoFile
    BY <1>1, WatcherAssumption DEF ScanStates
  <2> QED
    <3>1. UNCHANGED <<copy, metadata, entry, sighted, torn>>
      BY DEF WriteFile, ghosts
    <3>2. ScanOK(q)
      OBVIOUS
    <3> QED
      BY <1>1, <1>3, <2>1, <2>2, <3>1, <3>2 DEF ScanOK, PastHash, Registered
<1>6. SightedOK'
  BY <1>1, <1>3, <1>4 DEF SightedOK, WriteFile, ghosts, Past
<1>7. RegistryMatchesFiles'
  BY DEF RegistryMatchesFiles, WriteFile, ghosts
<1> QED
  BY <1>2, <1>5, <1>6, <1>7

\* The hash of a file counts as a sighting.
LEMMA HashFileKeeps ==
  ASSUME WatcherInv, NEW s \in Scans, HashFile(s)
  PROVE  WatcherInv'
<1> USE DEF WatcherInv
<1> DEFINE k == <<Owner[Folder[Path(s)]], file[Path(s)]>>
           x == [scan[s] EXCEPT !.hash = file[Path(s)], !.pc = "find"]
<1>1. /\ scan[s] # NoScan /\ scan[s].pc = "hash" /\ scan[s] \in ScanStates
      /\ file[Path(s)] \in Contents /\ k \in Keys /\ ~Past(s)
  BY ScanFacts DEF HashFile, InStep, ScanOK, Path, Keys, Past, PastHash, Registered
<1>2. x \in ScanStates /\ x.pc = "find" /\ x.path = scan[s].path /\ x.hash = file[x.path] /\ x # NoScan
  BY <1>1, WatcherAssumption DEF ScanStates, ScanSteps, Path
<1>3. /\ scan' = [scan EXCEPT ![s] = x]
      /\ sighted' = [sighted EXCEPT ![k] = IF @ = 2 THEN 2 ELSE @ + 1]
      /\ UNCHANGED <<file, writes, schema, done, copy, metadata, entry, torn, taken>>
  BY DEF HashFile
<1>4. HashKey(s)' = k
  BY <1>2, <1>3 DEF HashKey, Path, WatcherTypeOK
<1> HIDE DEF x, k
<1>5. /\ scan'[s] = x
      /\ \A q \in Scans \ {s} : scan'[q] = scan[q] /\ HashKey(q)' = HashKey(q) /\ (Past(q)' <=> Past(q))
  BY <1>3 DEF WatcherTypeOK, Past, HashKey, Path
<1>6. /\ sighted' \in [Keys -> 0 .. 2]
      /\ \A j \in Keys : sighted[j] # 0 => sighted'[j] # 0
      /\ \A j \in Keys : sighted[j] = 2 => sighted'[j] = 2
      /\ sighted'[k] # 0 /\ (sighted[k] # 0 => sighted'[k] = 2)
  BY <1>1, <1>3 DEF WatcherTypeOK
<1>7. WatcherTypeOK'
  BY <1>2, <1>3, <1>6 DEF WatcherTypeOK
<1>8. \A q \in Scans : Past(q) => HashKey(q) \in Keys
  BY ScanFacts DEF ScanOK, Past
<1>9. ASSUME NEW q \in Scans PROVE ScanOK(q)'
  <2>1. CASE q = s
    BY <1>1, <1>2, <1>3, <1>4, <1>5, <1>6, <2>1 DEF ScanOK, Registered, PastHash, Path
  <2>2. CASE q # s
    BY <1>3, <1>5, <1>6, <1>8, <2>2 DEF ScanOK, Past, PastHash
  <2> QED
    BY <2>1, <2>2
<1>10. SightedOK'
  <2>1. ASSUME NEW q \in Scans, NEW r \in Scans, q # r, Past(q)', Past(r)', HashKey(q)' = HashKey(r)'
        PROVE  sighted'[HashKey(q)'] = 2
    <3>1. ASSUME NEW t \in Scans \ {s}, Past(t), HashKey(t) = k
          PROVE  sighted'[k] = 2
      BY <1>6, <3>1 DEF ScanOK, Past
    <3>2. CASE q # s /\ r # s
      BY <1>5, <1>6, <1>8, <2>1, <3>2 DEF SightedOK
    <3>3. CASE q = s
      BY <1>4, <1>5, <2>1, <3>1, <3>3
    <3>4. CASE r = s
      BY <1>4, <1>5, <2>1, <3>1, <3>4
    <3> QED
      BY <3>2, <3>3, <3>4
  <2>2. \A j \in Keys : entry'[j] # NoEntry => sighted'[j] # 0
    BY <1>3, <1>6 DEF SightedOK
  <2>3. ASSUME NEW q \in Scans, Past(q)', scan'[q].pc \notin Registered, entry'[HashKey(q)'] # NoEntry
        PROVE  sighted'[HashKey(q)'] = 2
    <3>1. CASE q = s
      BY <1>1, <1>3, <1>4, <1>6, <2>3, <3>1 DEF SightedOK, k
    <3>2. CASE q # s
      BY <1>3, <1>5, <1>6, <1>8, <2>3, <3>2 DEF SightedOK
    <3> QED
      BY <3>1, <3>2
  <2> QED
    BY <2>1, <2>2, <2>3 DEF SightedOK
<1>11. RegistryMatchesFiles'
  BY <1>3, <1>6 DEF RegistryMatchesFiles
<1> QED
  BY <1>7, <1>9, <1>10, <1>11

\* Steps that go on with the same file and change nothing.
LEMMA MoveKeeps ==
  ASSUME WatcherInv, NEW s \in Scans, FindEntry(s) \/ ValidateFile(s)
  PROVE  WatcherInv'
<1> USE DEF WatcherInv
<1>1. /\ scan[s] # NoScan /\ scan[s].pc \in {"find", "validate"} /\ scan[s] \in ScanStates
      /\ HashKey(s) \in Keys
  BY ScanFacts DEF FindEntry, ValidateFile, InStep, ScanOK, PastHash, Registered
<1>2. PICK pc \in ScanSteps :
        /\ scan' = [scan EXCEPT ![s].pc = pc]
        /\ \/ scan[s].pc = "find" /\ pc \in {"copy", "duplicate"}
           \/ scan[s].pc = "validate" /\ pc \in {"fail", "accept"}
  <2>1. CASE FindEntry(s)
    <3>1. CASE entry[HashKey(s)] = NoEntry
      <4>1. scan' = [scan EXCEPT ![s].pc = "copy"]
        BY <2>1, <3>1 DEF FindEntry, Step
      <4>2. scan[s].pc = "find" /\ "copy" \in ScanSteps
        BY <2>1 DEF FindEntry, InStep, ScanSteps
      <4> QED
        BY <4>1, <4>2
    <3>2. CASE entry[HashKey(s)] # NoEntry
      <4>1. scan' = [scan EXCEPT ![s].pc = "duplicate"]
        BY <2>1, <3>2 DEF FindEntry, Step
      <4>2. scan[s].pc = "find" /\ "duplicate" \in ScanSteps
        BY <2>1 DEF FindEntry, InStep, ScanSteps
      <4> QED
        BY <4>1, <4>2
    <3> QED
      BY <3>1, <3>2
  <2>2. CASE ValidateFile(s)
    BY <2>2 DEF ValidateFile, InStep, Step, ScanSteps
  <2> QED
    BY <2>1, <2>2
<1> DEFINE x == [scan[s] EXCEPT !.pc = pc]
<1>3. /\ x \in ScanStates /\ x.pc = pc /\ x # NoScan /\ scan' = [scan EXCEPT ![s] = x]
      /\ x.path = scan[s].path /\ x.hash = scan[s].hash /\ x.torn = scan[s].torn
  BY <1>1, <1>2, WatcherAssumption DEF ScanStates
<1> HIDE DEF x
<1>4. UNCHANGED <<file, writes, schema, done, copy, metadata, entry, ghosts>>
  BY DEF FindEntry, ValidateFile
<1>5. /\ scan'[s] = x /\ HashKey(s)' = HashKey(s) /\ Past(s)' /\ Past(s)
      /\ (x.pc \in Registered <=> scan[s].pc \in Registered)
      /\ \A q \in Scans \ {s} : scan'[q] = scan[q] /\ HashKey(q)' = HashKey(q) /\ (Past(q)' <=> Past(q))
  BY <1>1, <1>2, <1>3 DEF WatcherTypeOK, Past, HashKey, Path, PastHash, Registered
<1>6. WatcherTypeOK'
  <2>1. scan' \in [Scans -> ScanStates \cup {NoScan}]
    BY <1>3 DEF WatcherTypeOK
  <2> QED
    BY <1>4, <2>1 DEF WatcherTypeOK, ghosts
<1>7. ASSUME NEW q \in Scans PROVE ScanOK(q)'
  <2>1. CASE q = s
    BY <1>1, <1>2, <1>3, <1>4, <1>5, <2>1 DEF ScanOK, ghosts, PastHash, Registered
  <2>2. CASE q # s
    BY <1>4, <1>5, <2>2 DEF ScanOK, ghosts
  <2> QED
    BY <2>1, <2>2
<1>8. SightedOK' /\ RegistryMatchesFiles'
  BY <1>4, <1>5 DEF SightedOK, RegistryMatchesFiles, ghosts
<1> QED
  BY <1>6, <1>7, <1>8

\* The copy holds what the file holds, which is its hash unless it is torn.
LEMMA CopyFileKeeps ==
  ASSUME WatcherInv, NEW s \in Scans, CopyFile(s)
  PROVE  WatcherInv'
<1> USE DEF WatcherInv
<1>1. /\ scan[s] # NoScan /\ scan[s].pc = "copy" /\ scan[s] \in ScanStates
      /\ HashKey(s) \in Keys /\ scan[s].hash \in Contents
      /\ file[scan[s].path] = scan[s].hash \/ scan[s].torn
      /\ file[scan[s].path] \in Contents \cup {NoFile}
  BY ScanFacts DEF CopyFile, InStep, ScanOK, PastHash
<1>2. PICK b \in Batches :
        /\ copy[b] = NoFile
        /\ copy' = [copy EXCEPT ![b] = file[Path(s)]]
        /\ torn' = IF scan[s].torn THEN torn \cup {b} ELSE torn
        /\ scan' = [scan EXCEPT ![s].pc = "metadata", ![s].batch = b]
  BY DEF CopyFile
<1> DEFINE x == [scan[s] EXCEPT !.pc = "metadata", !.batch = b]
<1>3. /\ x \in ScanStates /\ x.pc = "metadata" /\ x.batch = b /\ x # NoScan
      /\ x.path = scan[s].path /\ x.hash = scan[s].hash
      /\ scan' = [scan EXCEPT ![s] = x]
  <2>1. /\ x \in ScanStates /\ x.pc = "metadata" /\ x.batch = b
        /\ x.path = scan[s].path /\ x.hash = scan[s].hash
    BY <1>1 DEF ScanStates, ScanSteps
  <2>2. x # NoScan
    BY <2>1, WatcherAssumption
  <2>3. scan' = [scan EXCEPT ![s] = x]
    BY <1>2 DEF WatcherTypeOK
  <2> QED
    BY <2>1, <2>2, <2>3
<1> HIDE DEF x
<1>4. UNCHANGED <<file, writes, schema, done, metadata, entry, sighted, taken>>
  BY DEF CopyFile
<1>5. /\ scan'[s] = x /\ HashKey(s)' = HashKey(s) /\ Past(s)' /\ Past(s)
      /\ \A q \in Scans \ {s} : scan'[q] = scan[q] /\ HashKey(q)' = HashKey(q) /\ (Past(q)' <=> Past(q))
  BY <1>1, <1>3 DEF WatcherTypeOK, Past, HashKey, Path, PastHash
<1>6. /\ copy' \in [Batches -> Contents \cup {NoFile}] /\ torn' \subseteq Batches /\ torn \subseteq torn'
      /\ \A a \in Batches : copy[a] # NoFile => copy'[a] = copy[a]
      /\ copy'[b] = scan[s].hash \/ b \in torn'
  BY <1>1, <1>2 DEF WatcherTypeOK, Path
<1>7. WatcherTypeOK'
  BY <1>3, <1>4, <1>6 DEF WatcherTypeOK
<1>8. \A c \in Contents : c # NoFile
  BY WatcherAssumption
<1>9. ASSUME NEW q \in Scans PROVE ScanOK(q)'
  <2>1. CASE q = s
    BY <1>1, <1>3, <1>4, <1>5, <1>6, <2>1, WatcherAssumption DEF ScanOK, PastHash, Registered
  <2>2. CASE q # s
    <3> SUFFICES ASSUME scan[q] # NoScan PROVE ScanOK(q)'
      BY <1>5, <2>2 DEF ScanOK
    <3>1. scan[q] \in ScanStates
      BY ScanFacts
    <3>2. scan[q].pc \in {"metadata", "insert"} => scan[q].batch \in Batches /\ scan[q].hash \in Contents
      BY <3>1 DEF ScanOK, PastHash, ScanStates
    <3> QED
      BY <1>4, <1>5, <1>6, <1>8, <2>2, <3>2 DEF ScanOK
  <2> QED
    BY <2>1, <2>2
<1>10. SightedOK'
  BY <1>1, <1>3, <1>4, <1>5 DEF SightedOK, Registered
<1>11. RegistryMatchesFiles'
  <2>1. \A k \in Keys : entry[k] # NoEntry => entry[k].batch \in Batches /\ k[2] \in Contents
    BY DEF WatcherTypeOK, Entries, Keys
  <2> QED
    BY <1>4, <1>6, <1>8, <2>1 DEF RegistryMatchesFiles
<1> QED
  BY <1>7, <1>9, <1>10, <1>11

\* metadata.json is written once for a folder.
LEMMA WriteMetadataKeeps ==
  ASSUME WatcherInv, NEW s \in Scans, WriteMetadata(s), metadata' # metadata
  PROVE  WatcherInv'
<1> USE DEF WatcherInv
<1>1. /\ scan[s] # NoScan /\ scan[s].pc = "metadata" /\ scan[s] \in ScanStates
      /\ HashKey(s) \in Keys /\ scan[s].batch # NoBatch /\ scan[s].batch \in Batches
      /\ Folder[scan[s].path] \in Folders
  BY ScanFacts DEF WriteMetadata, InStep, ScanOK, PastHash, ScanStates
<1>2. /\ metadata[Folder[scan[s].path]] = NoBatch
      /\ metadata' = [metadata EXCEPT ![Folder[scan[s].path]] = scan[s].batch]
      /\ scan' = [scan EXCEPT ![s].pc = "insert"]
      /\ UNCHANGED <<file, writes, schema, done, copy, entry, ghosts>>
  BY DEF WriteMetadata, Step, Path
<1> DEFINE x == [scan[s] EXCEPT !.pc = "insert"]
<1>3. /\ x \in ScanStates /\ x.pc = "insert" /\ x.batch = scan[s].batch /\ x # NoScan
      /\ x.path = scan[s].path /\ x.hash = scan[s].hash
      /\ scan' = [scan EXCEPT ![s] = x]
  BY <1>1, <1>2, WatcherAssumption DEF ScanStates, ScanSteps
<1> HIDE DEF x
<1>4. /\ scan'[s] = x /\ HashKey(s)' = HashKey(s) /\ Past(s)' /\ Past(s)
      /\ \A q \in Scans \ {s} : scan'[q] = scan[q] /\ HashKey(q)' = HashKey(q) /\ (Past(q)' <=> Past(q))
  BY <1>1, <1>3 DEF WatcherTypeOK, Past, HashKey, Path, PastHash
<1>5. /\ metadata' \in [Folders -> Batches \cup {NoBatch}]
      /\ \A f \in Folders : metadata[f] # NoBatch => metadata'[f] = metadata[f]
      /\ metadata'[Folder[scan[s].path]] = scan[s].batch
  BY <1>1, <1>2 DEF WatcherTypeOK
<1>6. WatcherTypeOK'
  <2>1. scan' \in [Scans -> ScanStates \cup {NoScan}]
    BY <1>3 DEF WatcherTypeOK
  <2> QED
    BY <1>2, <1>5, <2>1 DEF WatcherTypeOK, ghosts
<1>7. UNCHANGED <<file, copy, entry, done, sighted, torn, taken>>
  BY <1>2 DEF ghosts
<1>8. ASSUME NEW q \in Scans PROVE ScanOK(q)'
  <2>1. CASE q = s
    BY <1>1, <1>3, <1>4, <1>5, <1>7, <2>1 DEF ScanOK, PastHash, Registered
  <2>2. CASE q # s
    <3> SUFFICES ASSUME scan[q] # NoScan PROVE ScanOK(q)'
      BY <1>4, <2>2 DEF ScanOK
    <3>1. Folder[scan[q].path] \in Folders
      BY ScanFacts
    <3> QED
      BY <1>4, <1>5, <1>7, <2>2, <3>1 DEF ScanOK
  <2> QED
    BY <2>1, <2>2
<1>9. SightedOK'
  BY <1>1, <1>3, <1>4, <1>7 DEF SightedOK, Registered
<1>10. RegistryMatchesFiles'
  <2>1. \A k \in Keys : entry[k] # NoEntry => entry[k].batch # NoBatch
    BY WatcherAssumption DEF WatcherTypeOK, Entries
  <2> QED
    BY <1>5, <1>7, <2>1 DEF RegistryMatchesFiles
<1> QED
  BY <1>6, <1>8, <1>9, <1>10

\* A new row is the first one of its content.
LEMMA InsertEntryKeeps ==
  ASSUME WatcherInv, NEW s \in Scans, InsertEntry(s), entry' # entry
  PROVE  WatcherInv'
<1> USE DEF WatcherInv
<1> DEFINE e == [batch |-> scan[s].batch, status |-> "RECEIVED"]
           x == [scan[s] EXCEPT !.pc = "validate"]
           k == HashKey(s)
<1>1. /\ scan[s] # NoScan /\ scan[s].pc = "insert" /\ scan[s] \in ScanStates
      /\ k \in Keys /\ scan[s].batch \in Batches
      /\ Folder[scan[s].path] \in Folders /\ Past(s)
  BY ScanFacts DEF InsertEntry, InStep, ScanOK, PastHash, ScanStates, Past
<1>2. /\ entry[k] = NoEntry /\ entry' = [entry EXCEPT ![k] = e]
      /\ scan' = [scan EXCEPT ![s].pc = "validate"]
      /\ UNCHANGED <<file, writes, schema, done, copy, metadata, ghosts>>
  BY DEF InsertEntry, Step
<1>3. /\ x \in ScanStates /\ x.pc = "validate" /\ x # NoScan
      /\ x.path = scan[s].path /\ x.hash = scan[s].hash
      /\ scan' = [scan EXCEPT ![s] = x]
  BY <1>1, <1>2, WatcherAssumption DEF ScanStates, ScanSteps
<1>4. e \in Entries /\ e # NoEntry /\ e.batch = scan[s].batch /\ e.status = "RECEIVED"
  BY <1>1, WatcherAssumption DEF Entries
<1>5. /\ copy[scan[s].batch] = k[2] \/ scan[s].batch \in torn
      /\ Owner[Folder[scan[s].path]] = k[1] /\ metadata[Folder[scan[s].path]] = scan[s].batch
  BY <1>1 DEF ScanOK, HashKey, Path
<1>6. sighted[k] # 0 /\ \A q \in Scans \ {s} : Past(q) /\ HashKey(q) = k => sighted[k] = 2
  BY <1>1 DEF ScanOK, SightedOK, Past
<1>7. /\ scan'[s] = x /\ HashKey(s)' = k /\ Past(s)'
      /\ \A q \in Scans \ {s} : scan'[q] = scan[q] /\ HashKey(q)' = HashKey(q) /\ (Past(q)' <=> Past(q))
  BY <1>1, <1>3 DEF WatcherTypeOK, Past, HashKey, Path, PastHash, Registered
<1> HIDE DEF x, e, k
<1>8. /\ entry' \in [Keys -> Entries \cup {NoEntry}] /\ entry'[k] = e
      /\ \A j \in Keys \ {k} : entry'[j] = entry[j]
  BY <1>1, <1>2, <1>4 DEF WatcherTypeOK
<1>9. WatcherTypeOK'
  <2>1. scan' \in [Scans -> ScanStates \cup {NoScan}]
    BY <1>3 DEF WatcherTypeOK
  <2> QED
    BY <1>2, <1>8, <2>1 DEF WatcherTypeOK, ghosts
<1>10. UNCHANGED <<file, copy, metadata, done, sighted, torn, taken>>
  BY <1>2 DEF ghosts
<1>11. \A q \in Scans : Past(q) => HashKey(q) \in Keys
  BY ScanFacts DEF ScanOK, Past
<1>12. ASSUME NEW q \in Scans PROVE ScanOK(q)'
  <2>1. CASE q = s
    BY <1>1, <1>3, <1>4, <1>7, <1>8, <1>10, <2>1 DEF ScanOK, PastHash, Registered, k
  <2>2. CASE q # s
    BY <1>4, <1>7, <1>8, <1>10, <1>11, <2>2 DEF ScanOK, Past, PastHash
  <2> QED
    BY <2>1, <2>2
<1>13. SightedOK'
  <2>1. \A q, r \in Scans : q # r /\ Past(q)' /\ Past(r)' /\ HashKey(q)' = HashKey(r)' => sighted'[HashKey(q)'] = 2
    BY <1>1, <1>6, <1>7, <1>10 DEF SightedOK
  <2>2. \A j \in Keys : entry'[j] # NoEntry => sighted'[j] # 0
    BY <1>6, <1>8, <1>10 DEF SightedOK
  <2>3. \A q \in Scans :
          Past(q)' /\ scan'[q].pc \notin Registered /\ entry'[HashKey(q)'] # NoEntry => sighted'[HashKey(q)'] = 2
    BY <1>3, <1>6, <1>7, <1>8, <1>10, <1>11 DEF SightedOK, Registered
  <2> QED
    BY <2>1, <2>2, <2>3 DEF SightedOK
<1>14. RegistryMatchesFiles'
  <2>1. ASSUME NEW j \in Keys, entry'[j] # NoEntry
        PROVE  /\ copy'[entry'[j].batch] = j[2] \/ entry'[j].batch \in torn'
               /\ \E f \in Folders : Owner[f] = j[1] /\ metadata'[f] = entry'[j].batch
               /\ entry'[j].status = "DUPLICATE" => sighted'[j] = 2
    <3>1. CASE j = k
      BY <1>1, <1>4, <1>5, <1>8, <1>10, <3>1
    <3>2. CASE j # k
      BY <1>8, <1>10, <2>1, <3>2 DEF RegistryMatchesFiles
    <3> QED
      BY <3>1, <3>2
  <2>2. \A p \in done' : taken'[p] # NoEntry /\ entry'[taken'[p]] # NoEntry
    BY <1>4, <1>8, <1>10 DEF RegistryMatchesFiles, WatcherTypeOK
  <2> QED
    BY <2>1, <2>2 DEF RegistryMatchesFiles
<1> QED
  BY <1>9, <1>12, <1>13, <1>14

\* The watcher dies, and forgets what it has processed.
LEMMA DeathKeeps ==
  ASSUME WatcherInv, WatcherDies
  PROVE  WatcherInv'
<1> USE DEF WatcherInv, WatcherDies
<1>1. WatcherTypeOK'
  BY DEF WatcherTypeOK, ghosts
<1>2. (\A s \in Scans : ScanOK(s))' /\ SightedOK' /\ RegistryMatchesFiles'
  BY DEF ScanOK, SightedOK, RegistryMatchesFiles, Past, ghosts
<1> QED
  BY <1>1, <1>2

\* Every step keeps the invariant.
LEMMA WatcherKeeps == WatcherInv /\ [WatcherNext]_watcherVars => WatcherInv'
<1> SUFFICES ASSUME WatcherInv, [WatcherNext]_watcherVars PROVE WatcherInv'
  OBVIOUS
<1>1. CASE UNCHANGED watcherVars
  BY <1>1 DEF watcherVars, ghosts, WatcherInv, WatcherTypeOK, ScanOK, SightedOK, RegistryMatchesFiles,
    Past, HashKey, Path
<1>2. CASE \E p \in Paths, c \in Contents : WriteFile(p, c)
  BY <1>2, WriteFileKeeps
<1>3. CASE WatcherDies
  BY <1>3, DeathKeeps
<1>4. ASSUME NEW s \in Scans,
             \/ StartScan(s) \/ (\E p \in Paths : LookAt(s, p)) \/ EndScan(s)
             \/ SettleFile(s) \/ HashFile(s) \/ FindEntry(s) \/ FileIsDuplicate(s)
             \/ CopyFile(s) \/ WriteMetadata(s) \/ InsertEntry(s)
             \/ ValidateFile(s) \/ FileFails(s) \/ FileIsAccepted(s)
             \/ ScanFails(s)
      PROVE  WatcherInv'
  BY <1>4, ListingKeeps, StatusKeeps, HashFileKeeps, MoveKeeps, CopyFileKeeps, WriteMetadataKeeps,
    InsertEntryKeeps
<1> QED
  BY <1>1, <1>2, <1>3, <1>4 DEF WatcherNext

\* Types of the files, the raw copies, the rows and the scans.
THEOREM WatcherTypeCorrect == WatcherSpec => []WatcherTypeOK
<1>1. WatcherInv => WatcherTypeOK
  BY DEF WatcherInv
<1> QED
  BY WatcherStarts, WatcherKeeps, <1>1, PTL DEF WatcherSpec

\* However many scans overlap: a row stands for a raw copy of its content
\* unless the file was written to meanwhile, a DUPLICATE was seen twice, and
\* a path that is passed over has a row (ftp_intake_watcher.ts:183-250).
THEOREM RegistryStaysTrue == WatcherSpec => []RegistryMatchesFiles
<1>1. WatcherInv => RegistryMatchesFiles
  BY DEF WatcherInv
<1> QED
  BY WatcherStarts, WatcherKeeps, <1>1, PTL DEF WatcherSpec

-----------------------------------------------------------------------------
(***************************************************************************)
(* WorkerMetrics: the row of the metrics table counts no result twice and  *)
(* misses none, but for what the code loses or repeats when flushes overlap*)
(* or fail.                                                                *)
(***************************************************************************)

Busy(f) == flush[f] # NoFlush
NoneStored == \A f \in Flushes : ~FlushAt(f, "stored")

\* What is pending has been counted.
PendingOK ==
  /\ Total(counted) <= MaxResults
  /\ \A o \in Outcomes : pending[o] <= counted[o]

\* Unless flushes overlap or fail after they wrote, one flush at a time takes
\* no more to the row than it takes off the pending counts.
OnceOK ==
  ~again =>
    /\ \A f, g \in Flushes : Busy(f) /\ Busy(g) => f = g
    /\ \A o \in Outcomes :
         /\ NoneStored => stored[o] + pending[o] <= counted[o]
         /\ \A f \in Flushes :
              /\ FlushAt(f, "sent") => flush[f].sent[o] <= pending[o]
              /\ FlushAt(f, "stored") =>
                   stored[o] + pending[o] <= counted[o] + flush[f].sent[o] /\ stored[o] <= counted[o]

\* Unless results come during a flush, a flush resets no more than it wrote,
\* also when others write the same counts.
NoneMissed ==
  ~lost =>
    \A o \in Outcomes :
      /\ NoneStored => stored[o] + pending[o] >= counted[o]
      /\ \A f \in Flushes :
           /\ FlushAt(f, "sent") \/ FlushAt(f, "stored") => pending[o] <= flush[f].sent[o]
           /\ FlushAt(f, "stored") => stored[o] + pending[o] >= counted[o] + flush[f].sent[o]
           /\ \A g \in Flushes \ {f} :
                FlushAt(f, "stored") /\ FlushAt(g, "stored") => stored[o] >= counted[o] + flush[f].sent[o]

MetricsInv == MetricsTypeOK /\ PendingOK /\ OnceOK /\ NoneMissed
-----------------------------------------------------------------------------
\* A flush that begins has written nothing, and was alone unless noted.
LEMMA BeginKeeps ==
  ASSUME MetricsTypeOK, NEW f \in Flushes, Begin(f)
  PROVE  /\ flush' \in [Flushes -> FlushStates \cup {NoFlush}] /\ again' \in BOOLEAN
         /\ ~FlushAt(f, "sent")' /\ ~FlushAt(f, "stored")' /\ flush[f] = NoFlush
         /\ \A g \in Flushes \ {f} : flush'[g] = flush[g]
         /\ ~again' => ~again /\ Idle
<1>1. [pc |-> "connect", sent |-> Zero] \in FlushStates
  BY MetricsAssumption DEF FlushStates, Zero
<1> QED
  BY <1>1 DEF Begin, MetricsTypeOK, FlushAt

\* The first flush is connecting, the others are where they were.
LEMMA StartedFlush ==
  ASSUME MetricsInv, UNCHANGED stored,
         \/ \E f \in Flushes : Begin(f)
         \/ UNCHANGED <<flush, again>>
  PROVE  /\ flush' \in [Flushes -> FlushStates \cup {NoFlush}] /\ again' \in BOOLEAN
         /\ \A f \in Flushes, pc \in {"sent", "stored"} :
              FlushAt(f, pc)' <=> FlushAt(f, pc)
         /\ \A f \in Flushes : FlushAt(f, "sent") \/ FlushAt(f, "stored") => flush'[f] = flush[f]
         /\ ~again' => ~again /\ \A f, g \in Flushes : Busy(f)' /\ Busy(g)' => f = g
<1>1. CASE UNCHANGED <<flush, again>>
  BY <1>1 DEF MetricsInv, MetricsTypeOK, OnceOK, FlushAt, Busy
<1>2. ASSUME NEW f \in Flushes, Begin(f)
      PROVE  /\ flush' \in [Flushes -> FlushStates \cup {NoFlush}] /\ again' \in BOOLEAN
             /\ \A g \in Flushes, pc \in {"sent", "stored"} :
                  FlushAt(g, pc)' <=> FlushAt(g, pc)
             /\ \A g \in Flushes : FlushAt(g, "sent") \/ FlushAt(g, "stored") => flush'[g] = flush[g]
             /\ ~again' => ~again /\ \A g, h \in Flushes : Busy(g)' /\ Busy(h)' => g = h
  BY <1>2, BeginKeeps DEF MetricsInv, FlushAt, Busy, Idle
<1> QED
  BY <1>1, <1>2

LEMMA MetricsStart == MetricsInit => MetricsInv
<1> SUFFICES ASSUME MetricsInit PROVE MetricsInv
  OBVIOUS
<1> USE MetricsAssumption DEF MetricsInit, Zero, Outcomes
<1>1. MetricsTypeOK
  <2>1. Zero \in [Outcomes -> 0 .. MaxResults] /\ Zero \in [Outcomes -> Nat]
    OBVIOUS
  <2> QED
    BY <2>1 DEF MetricsTypeOK
<1>2. PendingOK
  BY DEF PendingOK, Total
<1>3. OnceOK /\ NoneMissed
  BY DEF OnceOK, NoneMissed, Busy, FlushAt, NoneStored
<1> QED
  BY <1>1, <1>2, <1>3 DEF MetricsInv

LEMMA RecordKeeps ==
  ASSUME MetricsInv, NEW o \in Outcomes, Record(o)
  PROVE  MetricsInv'
<1> USE MetricsAssumption DEF MetricsInv, Record
<1>1. /\ flush' \in [Flushes -> FlushStates \cup {NoFlush}] /\ again' \in BOOLEAN
      /\ \A f \in Flushes, pc \in {"sent", "stored"} :
           FlushAt(f, pc)' <=> FlushAt(f, pc)
      /\ \A f \in Flushes : FlushAt(f, "sent") \/ FlushAt(f, "stored") => flush'[f] = flush[f]
      /\ ~again' => ~again /\ \A f, g \in Flushes : Busy(f)' /\ Busy(g)' => f = g
  BY StartedFlush
<1>2. /\ counted \in [Outcomes -> 0 .. MaxResults] /\ pending \in [Outcomes -> 0 .. MaxResults]
      /\ stored \in [Outcomes -> Nat]
      /\ counted' = [counted EXCEPT ![o] = @ + 1] /\ pending' = [pending EXCEPT ![o] = @ + 1]
  BY DEF MetricsTypeOK
<1> HIDE DEF Record
<1>9. ASSUME NEW q \in Outcomes
      PROVE  \/ pending'[q] = pending[q] /\ counted'[q] = counted[q]
             \/ pending'[q] = pending[q] + 1 /\ counted'[q] = counted[q] + 1
  <2>1. CASE q = o
    BY <1>2, <2>1
  <2>2. CASE q # o
    BY <1>2, <2>2
  <2> QED
    BY <2>1, <2>2
<1> USE DEF Record
<1>3. PendingOK'
  BY <1>2 DEF PendingOK, Total, Outcomes
<1>4. MetricsTypeOK'
  <2>1. counted[o] + 1 \in 0 .. MaxResults
    BY <1>2 DEF PendingOK, Total, Outcomes
  <2>2. pending[o] + 1 \in 0 .. MaxResults
    BY <1>2, <2>1 DEF PendingOK
  <2> QED
    BY <1>1, <1>2, <2>1, <2>2 DEF MetricsTypeOK
<1>5. OnceOK'
  <2> SUFFICES ASSUME ~again', NEW q \in Outcomes
               PROVE  /\ NoneStored' => stored'[q] + pending'[q] <= counted'[q]
                      /\ \A f \in Flushes :
                           /\ FlushAt(f, "sent")' => flush'[f].sent[q] <= pending'[q]
                           /\ FlushAt(f, "stored")' =>
                                /\ stored'[q] + pending'[q] <= counted'[q] + flush'[f].sent[q]
                                /\ stored'[q] <= counted'[q]
    BY <1>1 DEF OnceOK
  <2>1. \/ pending'[q] = pending[q] /\ counted'[q] = counted[q]
        \/ pending'[q] = pending[q] + 1 /\ counted'[q] = counted[q] + 1
    BY <1>9
  <2>2. NoneStored' => NoneStored
    BY <1>1 DEF NoneStored
  <2>3. stored[q] \in Nat /\ pending[q] \in Nat /\ counted[q] \in Nat /\ stored' = stored
    BY <1>2
  <2>4. ASSUME NEW f \in Flushes, FlushAt(f, "sent") \/ FlushAt(f, "stored")
        PROVE  flush[f].sent[q] \in Nat /\ flush'[f] = flush[f]
    BY <1>1, <2>4 DEF FlushAt, FlushStates, MetricsTypeOK
  <2> QED
    BY <1>1, <2>1, <2>2, <2>3, <2>4 DEF OnceOK
<1>6. NoneMissed'
  <2> SUFFICES ASSUME ~lost'
               PROVE  NoneMissed'
    BY DEF NoneMissed
  <2>1. \A f \in Flushes : ~FlushAt(f, "sent") /\ ~FlushAt(f, "stored")
    OBVIOUS
  <2>2. \A f \in Flushes : ~FlushAt(f, "sent")' /\ ~FlushAt(f, "stored")'
    BY <1>1, <2>1
  <2>3. ASSUME NEW q \in Outcomes PROVE stored'[q] + pending'[q] >= counted'[q]
    <3>1. stored[q] + pending[q] >= counted[q]
      BY <2>1 DEF NoneMissed, NoneStored
    <3>2. stored[q] \in Nat /\ pending[q] \in Nat /\ counted[q] \in Nat /\ stored'[q] = stored[q]
      BY <1>2
    <3> QED
      BY <1>9, <3>1, <3>2
  <2> QED
    BY <2>2, <2>3 DEF NoneMissed
<1> QED
  BY <1>3, <1>4, <1>5, <1>6

LEMMA StopKeeps ==
  ASSUME MetricsInv, Stop
  PROVE  MetricsInv'
<1> USE MetricsAssumption DEF MetricsInv, Stop
<1>1. /\ flush' \in [Flushes -> FlushStates \cup {NoFlush}] /\ again' \in BOOLEAN
      /\ \A f \in Flushes, pc \in {"sent", "stored"} :
           FlushAt(f, pc)' <=> FlushAt(f, pc)
      /\ \A f \in Flushes : FlushAt(f, "sent") \/ FlushAt(f, "stored") => flush'[f] = flush[f]
      /\ ~again' => ~again /\ \A f, g \in Flushes : Busy(f)' /\ Busy(g)' => f = g
  BY StartedFlush
<1>2. MetricsTypeOK' /\ PendingOK'
  BY <1>1 DEF MetricsTypeOK, PendingOK, Total
<1>3. NoneStored' <=> NoneStored
  BY <1>1 DEF NoneStored
<1>4. OnceOK'
  BY <1>1, <1>3 DEF OnceOK
<1>5. NoneMissed'
  BY <1>1, <1>3 DEF NoneMissed
<1> QED
  BY <1>2, <1>4, <1>5

LEMMA SendKeeps ==
  ASSUME MetricsInv, NEW f \in Flushes, Send(f)
  PROVE  MetricsInv'
<1> USE MetricsAssumption DEF MetricsInv, Send
<1>1. [pc |-> "sent", sent |-> pending] \in FlushStates
  BY DEF MetricsTypeOK, FlushStates
<1>2. /\ FlushAt(f, "sent")' /\ ~FlushAt(f, "stored")' /\ flush'[f].sent = pending
      /\ Busy(f) /\ ~FlushAt(f, "stored")
      /\ \A g \in Flushes \ {f} : flush'[g] = flush[g]
  BY <1>1 DEF MetricsTypeOK, FlushAt, Busy
<1>3. MetricsTypeOK' /\ PendingOK'
  BY <1>1 DEF MetricsTypeOK, PendingOK, Total
<1>4. NoneStored' <=> NoneStored
  BY <1>2 DEF NoneStored, FlushAt
<1>5. \A o \in Outcomes : pending[o] \in Nat /\ stored[o] \in Nat /\ counted[o] \in Nat
  BY DEF MetricsTypeOK
<1>6. OnceOK'
  BY <1>2, <1>4, <1>5 DEF OnceOK, Busy, FlushAt
<1>7. NoneMissed'
  BY <1>2, <1>4, <1>5 DEF NoneMissed, FlushAt
<1> QED
  BY <1>3, <1>6, <1>7

LEMMA UpsertKeeps ==
  ASSUME MetricsInv, NEW f \in Flushes, Upsert(f)
  PROVE  MetricsInv'
<1> USE MetricsAssumption DEF MetricsInv, Upsert
<1>1. flush[f] \in FlushStates /\ [flush[f] EXCEPT !.pc = "stored"] \in FlushStates
  BY DEF MetricsTypeOK, FlushStates, FlushAt
<1>2. /\ FlushAt(f, "stored")' /\ ~FlushAt(f, "sent")' /\ flush'[f].sent = flush[f].sent
      /\ FlushAt(f, "sent") /\ ~FlushAt(f, "stored") /\ Busy(f)
      /\ \A g \in Flushes \ {f} : flush'[g] = flush[g]
  BY <1>1 DEF MetricsTypeOK, FlushAt, FlushStates, Busy
<1>3. \A o \in Outcomes : /\ pending[o] \in Nat /\ stored[o] \in Nat /\ counted[o] \in Nat
                          /\ flush[f].sent[o] \in Nat /\ stored'[o] = stored[o] + flush[f].sent[o]
  BY <1>1 DEF MetricsTypeOK, FlushStates, Plus
<1>4. MetricsTypeOK' /\ PendingOK'
  <2>1. stored' \in [Outcomes -> Nat]
    BY <1>3 DEF Plus
  <2> QED
    BY <1>1, <2>1 DEF MetricsTypeOK, PendingOK, Total
<1>5. ~NoneStored'
  BY <1>2 DEF NoneStored
<1>6. OnceOK'
  <2> SUFFICES ASSUME ~again', NEW o \in Outcomes
               PROVE  /\ \A g, h \in Flushes : Busy(g)' /\ Busy(h)' => g = h
                      /\ \A g \in Flushes :
                           /\ FlushAt(g, "sent")' => flush'[g].sent[o] <= pending'[o]
                           /\ FlushAt(g, "stored")' =>
                                /\ stored'[o] + pending'[o] <= counted'[o] + flush'[g].sent[o]
                                /\ stored'[o] <= counted'[o]
    BY <1>5 DEF OnceOK, Outcomes
  <2>1. \A g \in Flushes : Busy(g)' => g = f
    BY <1>2 DEF OnceOK, Busy
  <2>2. NoneStored
    BY <1>2 DEF OnceOK, NoneStored, FlushAt, Busy
  <2>3. stored[o] + pending[o] <= counted[o] /\ flush[f].sent[o] <= pending[o]
    BY <1>2, <2>2 DEF OnceOK
  <2>4. stored'[o] + pending[o] <= counted[o] + flush[f].sent[o] /\ stored'[o] <= counted[o]
    BY <1>3, <2>3
  <2>5. \A g \in Flushes : FlushAt(g, "sent")' \/ FlushAt(g, "stored")' => g = f
    BY <2>1 DEF FlushAt, Busy
  <2> QED
    BY <1>2, <2>1, <2>4, <2>5
<1>7. NoneMissed'
  <2> SUFFICES ASSUME ~lost', NEW o \in Outcomes, NEW g \in Flushes
               PROVE  /\ FlushAt(g, "sent")' \/ FlushAt(g, "stored")' => pending'[o] <= flush'[g].sent[o]
                      /\ FlushAt(g, "stored")' =>
                           stored'[o] + pending'[o] >= counted'[o] + flush'[g].sent[o]
                      /\ \A h \in Flushes \ {g} : FlushAt(g, "stored")' /\ FlushAt(h, "stored")' =>
                           stored'[o] >= counted'[o] + flush'[g].sent[o]
    BY <1>5 DEF NoneMissed
  <2>1. pending[o] <= flush[f].sent[o]
    BY <1>2 DEF NoneMissed
  <2>2. stored[o] + pending[o] >= counted[o]
    <3>1. CASE NoneStored
      BY <3>1 DEF NoneMissed
    <3>2. CASE ~NoneStored
      <4>1. PICK h \in Flushes : FlushAt(h, "stored")
        BY <3>2 DEF NoneStored
      <4>2. flush[h].sent[o] \in Nat
        BY <4>1 DEF FlushAt, MetricsTypeOK, FlushStates
      <4> QED
        BY <1>3, <4>1, <4>2 DEF NoneMissed
    <3> QED
      BY <3>1, <3>2
  <2>3. ASSUME NEW h \in Flushes \ {f}, FlushAt(h, "stored")
        PROVE  /\ flush[h].sent[o] \in Nat /\ stored'[o] >= counted[o] + flush[h].sent[o]
               /\ stored[o] >= counted[o]
    <3>1. flush[h].sent[o] \in Nat
      BY <2>3 DEF FlushAt, MetricsTypeOK, FlushStates
    <3>2. stored[o] + pending[o] >= counted[o] + flush[h].sent[o] /\ pending[o] <= flush[h].sent[o]
      BY <2>3 DEF NoneMissed
    <3> QED
      BY <1>3, <2>1, <3>1, <3>2
  <2>4. CASE g = f
    <3>1. stored'[o] + pending[o] >= counted[o] + flush[f].sent[o]
      BY <1>3, <2>2
    <3>2. ASSUME NEW h \in Flushes \ {f}, FlushAt(h, "stored")'
          PROVE  stored'[o] >= counted[o] + flush[f].sent[o]
      <4>1. FlushAt(h, "stored")
        BY <1>2, <3>2 DEF FlushAt
      <4> QED
        BY <1>3, <2>3, <4>1
    <3> QED
      BY <1>2, <2>1, <2>4, <3>1, <3>2
  <2>5. CASE g # f
    <3>1. /\ FlushAt(g, "sent")' = FlushAt(g, "sent") /\ FlushAt(g, "stored")' = FlushAt(g, "stored")
          /\ flush'[g] = flush[g]
      BY <1>2, <2>5 DEF FlushAt
    <3>2. FlushAt(g, "sent") \/ FlushAt(g, "stored") => pending[o] <= flush[g].sent[o]
      BY DEF NoneMissed
    <3>3. FlushAt(g, "stored") => stored'[o] >= counted[o] + flush[g].sent[o] /\ flush[g].sent[o] \in Nat
      BY <2>3, <2>5
    <3>4. FlushAt(g, "stored") => stored'[o] + pending[o] >= counted[o] + flush[g].sent[o]
      BY <1>3, <3>3
    <3> QED
      BY <3>1, <3>2, <3>3, <3>4
  <2> QED
    BY <2>4, <2>5
<1> QED
  BY <1>4, <1>6, <1>7

\* A flush takes off the pending counts, which it has written.
LEMMA ResetKeeps ==
  ASSUME MetricsInv, NEW f \in Flushes, Reset(f)
  PROVE  MetricsInv'
<1> USE MetricsAssumption DEF MetricsInv, Reset
<1>1. /\ flush[f] \in FlushStates /\ ~Busy(f)' /\ FlushAt(f, "stored") /\ Busy(f)
      /\ \A g \in Flushes \ {f} : flush'[g] = flush[g]
  BY DEF MetricsTypeOK, FlushAt, Busy
<1>2. \A o \in Outcomes : /\ pending[o] \in Nat /\ stored[o] \in Nat /\ counted[o] \in Nat
                          /\ flush[f].sent[o] \in Nat /\ pending'[o] = 0
  BY <1>1 DEF MetricsTypeOK, FlushStates, Zero
<1>3. MetricsTypeOK'
  <2>1. pending' \in [Outcomes -> 0 .. MaxResults]
    BY DEF Zero
  <2> QED
    BY <2>1 DEF MetricsTypeOK
<1>4. PendingOK'
  BY <1>2 DEF PendingOK, Total
<1>5. OnceOK'
  <2> SUFFICES ASSUME ~again', NEW o \in Outcomes
               PROVE  (\A g \in Flushes : ~Busy(g)') /\ stored'[o] + pending'[o] <= counted'[o]
    BY DEF OnceOK, FlushAt, Busy
  <2>1. \A g \in Flushes : ~Busy(g)'
    BY <1>1 DEF OnceOK, Busy
  <2>2. stored[o] <= counted[o]
    BY <1>1 DEF OnceOK
  <2> QED
    BY <1>2, <2>1, <2>2
<1>6. NoneMissed'
  <2> SUFFICES ASSUME ~lost', NEW o \in Outcomes
               PROVE  /\ stored'[o] + pending'[o] >= counted'[o]
                      /\ \A g \in Flushes :
                           FlushAt(g, "sent")' \/ FlushAt(g, "stored")' => pending'[o] <= flush'[g].sent[o]
                      /\ \A g \in Flushes :
                           FlushAt(g, "stored")' => stored'[o] >= counted'[o] + flush'[g].sent[o]
    BY <1>2 DEF NoneMissed
  <2>1. stored[o] >= counted[o]
    BY <1>1, <1>2 DEF NoneMissed
  <2>2. ASSUME NEW g \in Flushes, FlushAt(g, "sent")' \/ FlushAt(g, "stored")'
        PROVE  /\ g # f /\ flush'[g] = flush[g] /\ flush[g].sent[o] \in Nat
               /\ FlushAt(g, "stored")' => FlushAt(g, "stored")
    <3>1. g # f
      BY <1>1, <2>2 DEF FlushAt, Busy
    <3>2. flush'[g] = flush[g] /\ flush[g] # NoFlush
      BY <1>1, <2>2, <3>1 DEF FlushAt
    <3> QED
      BY <3>1, <3>2 DEF FlushAt, MetricsTypeOK, FlushStates
  <2>3. ASSUME NEW g \in Flushes, FlushAt(g, "stored")'
        PROVE  stored[o] >= counted[o] + flush[g].sent[o]
    BY <1>1, <2>2, <2>3 DEF NoneMissed
  <2> QED
    BY <1>2, <2>1, <2>2, <2>3
<1> QED
  BY <1>3, <1>4, <1>5, <1>6

\* A flush that fails leaves the pending counts alone.
LEMMA FailureKeeps ==
  ASSUME MetricsInv, NEW f \in Flushes, FlushFails(f)
  PROVE  MetricsInv'
<1> USE MetricsAssumption DEF MetricsInv, FlushFails
<1>1. /\ flush[f] \in FlushStates /\ ~Busy(f)' /\ Busy(f)
      /\ \A g \in Flushes \ {f} : flush'[g] = flush[g]
      /\ \A g \in Flushes, pc \in {"sent", "stored"} : FlushAt(g, pc)' => g # f /\ FlushAt(g, pc)
  BY DEF MetricsTypeOK, FlushAt, Busy
<1>2. \A o \in Outcomes : /\ pending[o] \in Nat /\ stored[o] \in Nat /\ counted[o] \in Nat
                          /\ flush[f].sent[o] \in Nat
  BY <1>1 DEF MetricsTypeOK, FlushStates
<1>3. MetricsTypeOK' /\ PendingOK'
  BY DEF MetricsTypeOK, PendingOK, Total
<1>4. OnceOK'
  <2> SUFFICES ASSUME ~again'
               PROVE  OnceOK'
    BY DEF OnceOK
  <2>1. \A g \in Flushes : ~Busy(g)'
    BY <1>1 DEF OnceOK, Busy
  <2>2. ~again /\ ~FlushAt(f, "stored")
    OBVIOUS
  <2>3. NoneStored
    BY <1>1, <2>2 DEF OnceOK, NoneStored, FlushAt, Busy
  <2>4. \A o \in Outcomes : stored[o] + pending[o] <= counted[o]
    BY <2>2, <2>3 DEF OnceOK
  <2> QED
    BY <2>1, <2>4 DEF OnceOK, FlushAt, Busy
<1>5. NoneMissed'
  <2> SUFFICES ASSUME ~lost', NEW o \in Outcomes
               PROVE  /\ NoneStored' => stored[o] + pending[o] >= counted[o]
                      /\ \A g \in Flushes :
                           /\ FlushAt(g, "sent")' \/ FlushAt(g, "stored")' => pending[o] <= flush'[g].sent[o]
                           /\ FlushAt(g, "stored")' =>
                                stored[o] + pending[o] >= counted[o] + flush'[g].sent[o]
                           /\ \A h \in Flushes \ {g} : FlushAt(g, "stored")' /\ FlushAt(h, "stored")' =>
                                stored[o] >= counted[o] + flush'[g].sent[o]
    BY DEF NoneMissed
  <2>1. NoneStored' => stored[o] + pending[o] >= counted[o]
    <3>1. CASE FlushAt(f, "stored")
      <4>1. stored[o] + pending[o] >= counted[o] + flush[f].sent[o]
        BY <3>1 DEF NoneMissed
      <4> QED
        BY <1>2, <4>1
    <3>2. CASE ~FlushAt(f, "stored")
      <4>1. NoneStored' => NoneStored
        BY <1>1, <3>2 DEF NoneStored, FlushAt
      <4> QED
        BY <4>1 DEF NoneMissed
    <3> QED
      BY <3>1, <3>2
  <2> QED
    BY <1>1, <2>1 DEF NoneMissed
<1> QED
  BY <1>3, <1>4, <1>5

\* What is pending when the process ends counts as lost, unless it was written.
LEMMA EndKeeps ==
  ASSUME MetricsInv, WorkerEnds
  PROVE  MetricsInv'
<1> USE MetricsAssumption DEF MetricsInv, WorkerEnds
<1>1. \A f \in Flushes : ~Busy(f)' /\ ~FlushAt(f, "sent")' /\ ~FlushAt(f, "stored")'
  BY DEF Busy, FlushAt
<1>2. \A o \in Outcomes : /\ pending[o] \in Nat /\ stored[o] \in Nat /\ counted[o] \in Nat
                          /\ pending'[o] = 0
  BY DEF MetricsTypeOK, Zero
<1>3. MetricsTypeOK'
  <2>1. pending' \in [Outcomes -> 0 .. MaxResults]
    BY DEF Zero
  <2> QED
    BY <2>1 DEF MetricsTypeOK
<1>4. PendingOK'
  BY <1>2 DEF PendingOK, Total
<1>5. OnceOK'
  <2> SUFFICES ASSUME ~again, NEW o \in Outcomes
               PROVE  stored[o] <= counted[o]
    BY <1>1, <1>2 DEF OnceOK
  <2>1. CASE NoneStored
    BY <1>2, <2>1 DEF OnceOK
  <2>2. CASE ~NoneStored
    BY <2>2 DEF OnceOK, NoneStored
  <2> QED
    BY <2>1, <2>2
<1>6. NoneMissed'
  <2> SUFFICES ASSUME ~lost', NEW o \in Outcomes
               PROVE  stored[o] >= counted[o]
    BY <1>1, <1>2 DEF NoneMissed
  <2>1. CASE pending = Zero /\ NoneStored
    <3>1. pending[o] = 0
      BY <2>1 DEF Zero
    <3>2. ~lost /\ stored[o] + pending[o] >= counted[o]
      BY <2>1 DEF NoneMissed
    <3> QED
      BY <1>2, <3>1, <3>2
  <2>2. CASE ~NoneStored
    <3>1. PICK f \in Flushes : FlushAt(f, "stored")
      BY <2>2 DEF NoneStored
    <3>2. stored[o] + pending[o] >= counted[o] + flush[f].sent[o] /\ pending[o] <= flush[f].sent[o]
      BY <3>1 DEF NoneMissed
    <3>3. flush[f].sent[o] \in Nat
      BY <3>1 DEF FlushAt, MetricsTypeOK, FlushStates
    <3> QED
      BY <1>2, <3>2, <3>3
  <2> QED
    BY <2>1, <2>2 DEF NoneStored
<1> QED
  BY <1>3, <1>4, <1>5, <1>6

\* Every step keeps the invariant.
LEMMA MetricsKeep == MetricsInv /\ [MetricsNext]_metricsVars => MetricsInv'
<1> SUFFICES ASSUME MetricsInv, [MetricsNext]_metricsVars PROVE MetricsInv'
  OBVIOUS
<1>1. CASE UNCHANGED metricsVars
  BY <1>1 DEF metricsVars, MetricsInv, MetricsTypeOK, PendingOK, OnceOK, NoneMissed, Busy, FlushAt,
    NoneStored
<1>2. CASE MetricsNext
  BY <1>2, RecordKeeps, StopKeeps, SendKeeps, UpsertKeeps, ResetKeeps, FailureKeeps, EndKeeps
    DEF MetricsNext
<1> QED
  BY <1>1, <1>2

\* Types of the counters, the row and the flushes; in particular a flush never
\* sends more than the results there are.
THEOREM MetricsTypeCorrect == MetricsSpec => []MetricsTypeOK
<1>1. MetricsInv => MetricsTypeOK
  BY DEF MetricsInv
<1> QED
  BY MetricsStart, MetricsKeep, <1>1, PTL DEF MetricsSpec

\* The row of app.ingest_worker_metrics and the pending counts are exact,
\* unless flushes overlapped or failed after they wrote, or results came
\* during a flush (index.js:184-207), for any number of flushes.
THEOREM CountsStayExact == MetricsSpec => []CountsAreExact
<1>1. MetricsInv => CountsAreExact
  <2> SUFFICES ASSUME MetricsInv, NEW o \in Outcomes
               PROVE  /\ ~again => stored[o] + pending[o] <= counted[o] + Unreset(o)
                      /\ ~lost => stored[o] + pending[o] >= counted[o] + Unreset(o)
    BY DEF CountsAreExact
  <2>1. CASE NoneStored
    <3>1. {f \in Flushes : FlushAt(f, "stored")} = {}
      BY <2>1 DEF NoneStored
    <3>2. Unreset(o) = 0
      BY <3>1 DEF Unreset
    <3>3. counted[o] \in Nat
      BY DEF MetricsInv, MetricsTypeOK
    <3> QED
      BY <2>1, <3>2, <3>3 DEF MetricsInv, OnceOK, NoneMissed
  <2>2. CASE ~NoneStored
    <3> DEFINE storedBy == {f \in Flushes : FlushAt(f, "stored")}
    <3>1. storedBy # {}
      BY <2>2 DEF NoneStored
    <3>2. PICK f : f = CHOOSE g \in storedBy : TRUE
      OBVIOUS
    <3>3. f \in storedBy
      BY <3>1, <3>2
    <3>4. Unreset(o) = flush[f].sent[o]
      BY <3>1, <3>2 DEF Unreset
    <3> QED
      BY <3>3, <3>4 DEF MetricsInv, OnceOK, NoneMissed
  <2> QED
    BY <2>1, <2>2
<1> QED
  BY MetricsStart, MetricsKeep, <1>1, PTL DEF MetricsSpec

-----------------------------------------------------------------------------
(***************************************************************************)
(* KeyRotation: the rows of the vault stay readable and current.           *)
(***************************************************************************)

\* The state of the script; it holds no rows while it does not run.
ScriptTypeOK ==
  /\ script = [rows |-> script.rows, running |-> script.running, ring |-> script.ring,
               active |-> script.active, late |-> script.late]
  /\ script.running \in BOOLEAN /\ script.late \in BOOLEAN
  /\ script.active \in KeyRefs
  /\ ~script.running => DOMAIN script.rows = {} /\ ~script.late

\* The operator adds the new key, then removes the old one.
ConfigOK ==
  \/ config = [active |-> OldKey, ring |-> {OldKey}]
  \/ config = [active |-> NewKey, ring |-> KeyRefs]
  \/ config = [active |-> NewKey, ring |-> {NewKey}] /\ safe

\* Whoever uses the new key has it from the configuration.
NewKeyOK ==
  config.active = OldKey =>
    /\ \A g \in Gateways : activeOf[g] = OldKey
    /\ \A r \in RepairOrders : vault[r] # NoVaultRow => vault[r].key = OldKey
    /\ script.running => script.active = OldKey

\* A gateway encrypts with the key it has.
WorkOK == \A g \in Gateways : work[g] # NoWork => work[g].key = activeOf[g]

AllNew == config.active = NewKey /\ \A g \in Gateways : activeOf[g] = NewKey

\* A run that was started late enough has all rows of the old key before it.
LateOK ==
  script.late =>
    /\ AllNew /\ script.active = NewKey
    /\ \A r \in RepairOrders \ DOMAIN script.rows :
         vault[r] # NoVaultRow => vault[r].key = NewKey

\* After such a run nothing uses the old key.
SafeOK ==
  safe =>
    /\ AllNew /\ (script.running => script.active = NewKey)
    /\ \A r \in RepairOrders : vault[r] # NoVaultRow => vault[r].key = NewKey

\* Rows, and the script's copies of them, are those of the newest ingest.
CurrentOK ==
  /\ \A r \in RepairOrders :
       vault[r] # NoVaultRow => vault[r].ingest = newest[r] \/ r \in overtaken
  /\ \A r \in DOMAIN script.rows : script.rows[r].ingest = newest[r] \/ r \in overtaken

RotationInv ==
  /\ RotationTypeOK /\ ScriptTypeOK /\ ConfigOK /\ NewKeyOK
  /\ WorkOK /\ LateOK /\ SafeOK /\ CurrentOK

-----------------------------------------------------------------------------
\* The invariant holds before anything is stored.
LEMMA RotationStarts == RotationInit => RotationInv
<1> USE RotationAssumption
<1> SUFFICES ASSUME RotationInit PROVE RotationInv
  OBVIOUS
<1>1. RotationTypeOK
  <2>1. DOMAIN script.rows = {}
    BY DEF RotationInit, NoScript
  <2>2. config \in [active : KeyRefs, ring : SUBSET KeyRefs]
    BY DEF RotationInit, KeyRefs
  <2>3. activeOf \in [Gateways -> KeyRefs] /\ safe \in BOOLEAN /\ overtaken \subseteq RepairOrders
    BY DEF RotationInit, KeyRefs
  <2>4. ingests \in 0 .. MaxIngests /\ newest \in [RepairOrders -> 0 .. MaxIngests]
    BY DEF RotationInit
  <2> QED
    BY <2>1, <2>2, <2>3, <2>4 DEF RotationInit, RotationTypeOK
<1>2. ScriptTypeOK /\ ConfigOK /\ NewKeyOK /\ WorkOK
  BY DEF RotationInit, ScriptTypeOK, ConfigOK, NewKeyOK, WorkOK, KeyRefs, NoScript
<1>3. LateOK /\ SafeOK /\ CurrentOK
  BY DEF RotationInit, LateOK, SafeOK, CurrentOK, NoScript
<1> QED
  BY <1>1, <1>2, <1>3 DEF RotationInv

\* A loaded ring is a ring again, and at least the configured keys are in it.
LEMMA RingLoads ==
  ASSUME RotationInv, NEW ring \in (SUBSET KeyRefs) \cup {NoRing}
  PROVE  LoadedRing(ring) \in (SUBSET KeyRefs) \cup {NoRing}
BY DEF RotationInv, RotationTypeOK, LoadedRing

\* An ingest that encrypts adds work with the gateway's key.
LEMMA EncryptKeeps ==
  ASSUME RotationInv, NEW g \in Gateways, NEW r \in RepairOrders, Encrypt(g, r)
  PROVE  RotationInv'
<1> USE RotationAssumption DEF RotationInv, Encrypt
<1>1. RotationTypeOK'
  <2>1. LoadedRing(ringOf[g]) \in (SUBSET KeyRefs) \cup {NoRing}
    BY RingLoads DEF RotationTypeOK
  <2>2. ingests' \in 0 .. MaxIngests /\ ingests + 1 \in 1 .. ingests'
    BY DEF RotationTypeOK
  <2>3. work' \in [Gateways -> [ro : RepairOrders, key : KeyRefs, ingest : 1 .. ingests'] \cup {NoWork}]
    BY <2>2 DEF RotationTypeOK
  <2> QED
    BY <2>1, <2>2, <2>3 DEF RotationTypeOK
<1>2. WorkOK'
  BY DEF WorkOK, RotationTypeOK
<1>3. (ScriptTypeOK /\ ConfigOK /\ NewKeyOK /\ LateOK /\ SafeOK /\ CurrentOK)'
  BY DEF ScriptTypeOK, ConfigOK, NewKeyOK, LateOK, SafeOK, CurrentOK, AllNew
<1> QED
  BY <1>1, <1>2, <1>3

\* A stored row has its gateway's key, and is the newest; the script's copy of
\* it is overtaken.
LEMMA StoreKeeps ==
  ASSUME RotationInv, NEW g \in Gateways, StoreVaultRow(g)
  PROVE  RotationInv'
<1> DEFINE w == work[g]
<1> USE RotationAssumption DEF RotationInv, StoreVaultRow
<1>1. w \in [ro : RepairOrders, key : KeyRefs, ingest : 1 .. ingests] /\ w.key = activeOf[g]
  BY DEF RotationTypeOK, WorkOK
<1>2. RotationTypeOK'
  <2>1. [key |-> w.key, ingest |-> w.ingest, hashes |-> TRUE] \in VaultRows
    BY <1>1 DEF RotationTypeOK, VaultRows
  <2>2. w.ingest \in 0 .. MaxIngests
    BY <1>1 DEF RotationTypeOK
  <2> QED
    BY <1>1, <2>1, <2>2 DEF RotationTypeOK
<1>3. (ScriptTypeOK /\ ConfigOK)' /\ WorkOK'
  BY DEF ScriptTypeOK, ConfigOK, WorkOK, RotationTypeOK
<1>4. (NewKeyOK /\ LateOK /\ SafeOK)'
  BY <1>1 DEF NewKeyOK, LateOK, SafeOK, AllNew, RotationTypeOK
<1>5. CurrentOK'
  BY <1>1 DEF CurrentOK, ScriptTypeOK, RotationTypeOK
<1> QED
  BY <1>2, <1>3, <1>4, <1>5

\* A gateway that restarts gets the configured key.
LEMMA RestartKeeps ==
  ASSUME RotationInv, NEW g \in Gateways, RestartGateway(g)
  PROVE  RotationInv'
<1> USE RotationAssumption DEF RotationInv, RestartGateway
<1>1. RotationTypeOK' /\ WorkOK'
  BY DEF RotationTypeOK, WorkOK
<1>2. (ScriptTypeOK /\ ConfigOK /\ CurrentOK)'
  BY DEF ScriptTypeOK, ConfigOK, CurrentOK
<1>3. (NewKeyOK /\ LateOK /\ SafeOK)'
  BY DEF NewKeyOK, LateOK, SafeOK, AllNew, RotationTypeOK
<1> QED
  BY <1>1, <1>2, <1>3

\* The script starts with all rows there are.
LEMMA ReadKeeps ==
  ASSUME RotationInv, ReadVault
  PROVE  RotationInv'
<1> USE RotationAssumption DEF RotationInv, ReadVault
<1>1. /\ script'.running /\ script'.active = config.active
      /\ script'.late = (config.active = NewKey /\ \A g \in Gateways : activeOf[g] = NewKey)
      /\ DOMAIN script'.rows = {q \in RepairOrders : vault[q] # NoVaultRow}
      /\ \A r \in DOMAIN script'.rows : script'.rows[r] = vault[r]
  OBVIOUS
<1>2. RotationTypeOK'
  BY <1>1 DEF RotationTypeOK
<1>3. ScriptTypeOK'
  BY <1>1 DEF ScriptTypeOK, RotationTypeOK
<1>4. (ConfigOK /\ WorkOK)'
  BY DEF ConfigOK, WorkOK
<1>5. (NewKeyOK /\ LateOK /\ SafeOK)'
  BY <1>1 DEF NewKeyOK, LateOK, SafeOK, AllNew
<1>6. CurrentOK'
  BY <1>1 DEF CurrentOK
<1> QED
  BY <1>2, <1>3, <1>4, <1>5, <1>6

\* A row that is rewritten has the script's key and the ingest that was read.
LEMMA RewriteKeeps ==
  ASSUME RotationInv, NEW r \in RepairOrders, RewriteRow(r)
  PROVE  RotationInv'
<1> USE RotationAssumption DEF RotationInv, RewriteRow
<1>1. /\ script'.running /\ script'.active = script.active /\ script'.late = script.late
      /\ DOMAIN script'.rows = DOMAIN script.rows \ {r}
      /\ \A q \in DOMAIN script'.rows : script'.rows[q] = script.rows[q]
  BY DEF Rest, ScriptTypeOK
<1>2. RotationTypeOK'
  <2>1. [key |-> script.active, ingest |-> script.rows[r].ingest, hashes |-> FALSE] \in VaultRows
    BY DEF RotationTypeOK, ScriptTypeOK, VaultRows
  <2> QED
    BY <1>1, <2>1 DEF RotationTypeOK
<1>3. ScriptTypeOK'
  BY <1>1 DEF ScriptTypeOK, Rest
<1>4. (ConfigOK /\ WorkOK)'
  BY DEF ConfigOK, WorkOK
<1>5. (NewKeyOK /\ LateOK /\ SafeOK)'
  BY <1>1 DEF NewKeyOK, LateOK, SafeOK, AllNew, RotationTypeOK
<1>6. CurrentOK'
  BY <1>1 DEF CurrentOK, RotationTypeOK
<1> QED
  BY <1>2, <1>3, <1>4, <1>5, <1>6

\* A run that ends has rewritten all rows: if it was late, OldKey may go.
LEMMA ScriptEndKeeps ==
  ASSUME RotationInv, ScriptEnds \/ ScriptFails
  PROVE  RotationInv'
<1> USE RotationAssumption DEF RotationInv, ScriptEnds, ScriptFails
<1>1. DOMAIN script'.rows = {} /\ ~script'.running /\ ~script'.late /\ script'.active = OldKey
  BY DEF NoScript
<1>2. RotationTypeOK'
  BY <1>1 DEF RotationTypeOK, ScriptTypeOK
<1>3. ScriptTypeOK'
  <2>1. script' = NoScript
    OBVIOUS
  <2> QED
    BY <1>1, <2>1 DEF ScriptTypeOK, NoScript, KeyRefs
<1>4. (ConfigOK /\ WorkOK /\ NewKeyOK /\ LateOK)'
  BY <1>1 DEF ConfigOK, WorkOK, NewKeyOK, LateOK
<1>5. SafeOK'
  BY <1>1 DEF SafeOK, LateOK, AllNew
<1>6. CurrentOK'
  BY <1>1 DEF CurrentOK
<1> QED
  BY <1>2, <1>3, <1>4, <1>5, <1>6

\* The operator's steps.
LEMMA KeysKeep ==
  ASSUME RotationInv, AddKey \/ RemoveKey
  PROVE  RotationInv'
<1> USE RotationAssumption DEF RotationInv, AddKey, RemoveKey
<1>1. RotationTypeOK'
  BY DEF RotationTypeOK, KeyRefs
<1>2. (ScriptTypeOK /\ WorkOK /\ CurrentOK)'
  BY DEF ScriptTypeOK, WorkOK, CurrentOK
<1>3. (ConfigOK /\ NewKeyOK /\ LateOK /\ SafeOK)'
  BY DEF ConfigOK, NewKeyOK, LateOK, SafeOK, AllNew, KeyRefs
<1> QED
  BY <1>1, <1>2, <1>3

\* Every step keeps the invariant.
LEMMA RotationKeeps == RotationInv /\ [RotationNext]_rotationVars => RotationInv'
<1> SUFFICES ASSUME RotationInv, [RotationNext]_rotationVars PROVE RotationInv'
  OBVIOUS
<1>1. CASE UNCHANGED rotationVars
  BY <1>1 DEF rotationVars, RotationInv, RotationTypeOK, ScriptTypeOK, ConfigOK, NewKeyOK, WorkOK,
    LateOK, SafeOK, CurrentOK, AllNew
<1>2. CASE RotationNext
  BY <1>2, EncryptKeeps, StoreKeeps, RestartKeeps, ReadKeeps, RewriteKeeps, ScriptEndKeeps, KeysKeep
    DEF RotationNext
<1> QED
  BY <1>1, <1>2

\* Types of the key ring, the gateways, the vault and the script.
THEOREM RotationTypeCorrect == RotationSpec => []RotationTypeOK
<1>1. RotationInv => RotationTypeOK
  BY DEF RotationInv
<1> QED
  BY RotationStarts, RotationKeeps, <1>1, PTL DEF RotationSpec

\* Every row of the vault can be decrypted with the configured key ring, also
\* after the old key was removed, and holds the newest ingest unless that was
\* stored while the script was running (pii_reencrypt.ts:15-48).
THEOREM VaultStaysCurrent == RotationSpec => []VaultIsCurrent
<1>1. RotationInv => VaultIsCurrent
  <2> SUFFICES ASSUME RotationInv, NEW r \in RepairOrders, vault[r] # NoVaultRow
               PROVE  vault[r].key \in config.ring /\ (vault[r].ingest = newest[r] \/ r \in overtaken)
    BY DEF VaultIsCurrent
  <2>1. vault[r].key \in KeyRefs
    BY DEF RotationInv, RotationTypeOK, VaultRows
  <2> QED
    BY <2>1, RotationAssumption DEF RotationInv, ConfigOK, NewKeyOK, SafeOK, CurrentOK, KeyRefs
<1> QED
  BY RotationStarts, RotationKeeps, <1>1, PTL DEF RotationSpec

-----------------------------------------------------------------------------
(***************************************************************************)
(* The document and the jobs, as they are checked.                         *)
(***************************************************************************)

\* Each part of a behaviour is a behaviour of its module.
THEOREM DocumentsAndJobsAreAll == Spec => RoSpec /\ WatcherSpec /\ MetricsSpec /\ RotationSpec
<1>1. Init => RoInit /\ WatcherInit /\ MetricsInit /\ RotationInit
  BY DEF Init
<1>2. [Next]_<<focus, roVars, watcherVars, metricsVars, rotationVars>> =>
        /\ [RoNext]_roVars /\ [WatcherNext]_watcherVars
        /\ [MetricsNext]_metricsVars /\ [RotationNext]_rotationVars
  BY DEF Next
<1> QED
  BY <1>1, <1>2, PTL DEF Spec, RoSpec, WatcherSpec, MetricsSpec, RotationSpec

\* The document, the scans and the registry, the counters, and the vault keep
\* their types, for any documents and any number of scans, flushes and gateways.
THEOREM DocumentsAndJobsTypeCorrect == Spec => []DocumentsAndJobsTypeOK
<1> DEFINE F == focus \in {"document", "watcher", "metrics", "rotation"}
<1>1. Init => F
  BY DEF Init
<1>2. F /\ [Next]_<<focus, roVars, watcherVars, metricsVars, rotationVars>> => F'
  BY DEF Next
<1>3. Spec => []F
  BY <1>1, <1>2, PTL DEF Spec
<1>4. F /\ RoTypeOK /\ WatcherTypeOK /\ MetricsTypeOK /\ RotationTypeOK => DocumentsAndJobsTypeOK
  BY DEF DocumentsAndJobsTypeOK
<1> QED
  BY <1>3, <1>4, DocumentsAndJobsAreAll, RoTypeCorrect, WatcherTypeCorrect, MetricsTypeCorrect,
     RotationTypeCorrect, PTL
=============================================================================
