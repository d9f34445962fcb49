----------------------------- MODULE FtpWatcher -----------------------------
(***************************************************************************)
(* The FTP intake watcher (scripts/ftp_intake_watcher.ts): every two       *)
(* seconds a scan of the incoming directory is started, whether or not the *)
(* last one is over.  A scan handles one file after the other: it waits    *)
(* for the file to be stable, hashes it, looks for its row, copies it to   *)
(* the raw intake directory with its metadata, and registers it.  A file   *)
(* may be written to at any time, and the watcher may die at any time.     *)
(***************************************************************************)
EXTENDS Naturals

CONSTANTS
  Scans,       \* scans that run at one time
  Paths,       \* files in the incoming directory
  Folder,      \* Folder[p]: tenant and date of path p
  Owner,       \* Owner[f]: the tenant of folder f
  Contents,    \* contents of files
  Oversized,   \* those larger than FTP_MAX_UPLOAD_BYTES
  Batches,     \* batch ids: as many files may be copied
  MaxWrites,   \* how often files are written
  NoFile, NoBatch, NoScan, NoEntry

Folders == {Folder[p] : p \in Paths}
Keys == {Owner[f] : f \in Folders} \X Contents

Entries == [batch : Batches, status : {"RECEIVED", "VALIDATED", "FAILED", "DUPLICATE"}]

ScanSteps ==
  {"list", "settle", "hash", "find", "duplicate", "copy", "metadata", "insert", "validate",
   "fail", "accept"}

\* A running scan: its step, the paths before it, and the path it is at, with
\* its hash, the batch of its copy, and whether it was written to meanwhile.
ScanStates ==
  [pc : ScanSteps, todo : SUBSET Paths, path : Paths, hash : Contents \cup {NoFile},
   batch : Batches \cup {NoBatch}, torn : BOOLEAN]

ASSUME WatcherAssumption ==
  /\ Paths # {} /\ DOMAIN Folder = Paths
  /\ \A p \in Paths : Folder[p] \in DOMAIN Owner
  /\ Oversized \subseteq Contents
  /\ MaxWrites \in Nat
  /\ NoFile \notin Contents /\ NoBatch \notin Batches
  /\ NoScan \notin ScanStates /\ NoEntry \notin Entries \cup Keys

VARIABLES
  file,      \* file[p]: content of the file at p, or NoFile
  writes,    \* how often a file was written
  schema,    \* whether CHECK (status) is that of 0025_ingest_files.sql
  done,      \* `processed`: paths that are not looked at again
  copy,      \* copy[b]: content of the raw copy of batch b, or NoFile
  metadata,  \* metadata[f]: the batch that metadata.json of folder f tells of
  entry,     \* entry[k]: row of app.ingest_files, or NoEntry
  scan,      \* scan[s]: what scan s is at, or NoScan
  sighted,   \* sighted[k]: how often a file was hashed to k, up to two
  torn,      \* batches whose file was written to while it was handled
  taken      \* taken[p]: the key under which p was processed, or NoEntry

ghosts == <<sighted, torn, taken>>
watcherVars == <<file, writes, schema, done, copy, metadata, entry, scan, ghosts>>

WatcherInit ==
  /\ file = [p \in Paths |-> NoFile]
  /\ writes = 0
  /\ schema \in BOOLEAN
  /\ done = {}
  /\ copy = [b \in Batches |-> NoFile]
  /\ metadata = [f \in Folders |-> NoBatch]
  /\ entry = [k \in Keys |-> NoEntry]
  /\ scan = [s \in Scans |-> NoScan]
  /\ sighted = [k \in Keys |-> 0]
  /\ torn = {}
  /\ taken = [p \in Paths |-> NoEntry]

-----------------------------------------------------------------------------
InStep(s, pc) == scan[s] # NoScan /\ scan[s].pc = pc
Path(s) == scan[s].path
HashKey(s) == <<Owner[Folder[Path(s)]], scan[s].hash>>

Step(s, pc) == scan' = [scan EXCEPT ![s].pc = pc]

Listing(todo) ==
  [pc |-> "list", todo |-> todo, path |-> CHOOSE p \in Paths : TRUE, hash |-> NoFile,
   batch |-> NoBatch, torn |-> FALSE]

\* On to the next entry of the directory.
NextFile(s) == scan' = [scan EXCEPT ![s] = Listing(@.todo)]

\* A client of the FTP server writes a file; whoever handles it is torn.
WriteFile(p, c) ==
  /\ writes < MaxWrites /\ writes' = writes + 1
  /\ file[p] # c
  /\ file' = [file EXCEPT ![p] = c]
  /\ scan' = [s \in Scans |->
       IF scan[s] # NoScan /\ scan[s].pc \notin {"list", "settle"} /\ Path(s) = p
         THEN [scan[s] EXCEPT !.torn = TRUE] ELSE scan[s]]
  /\ UNCHANGED <<schema, done, copy, metadata, entry, ghosts>>

StartScan(s) ==
  /\ scan[s] = NoScan
  /\ scan' = [scan EXCEPT ![s] = Listing(Paths)]
  /\ UNCHANGED <<file, writes, schema, done, copy, metadata, entry, ghosts>>

\* handleFile, up to the first stat; files that came after the listing, or
\* are processed, are passed over.
LookAt(s, p) ==
  /\ InStep(s, "list") /\ p \in scan[s].todo
  /\ LET next == Listing(scan[s].todo \ {p})
     IN scan' = [scan EXCEPT ![s] =
          IF p \in done \/ file[p] = NoFile THEN next
          ELSE [next EXCEPT !.pc = "settle", !.path = p, !.hash = file[p]]]
  /\ UNCHANGED <<file, writes, schema, done, copy, metadata, entry, ghosts>>

EndScan(s) ==
  /\ InStep(s, "list") /\ scan[s].todo = {}
  /\ scan' = [scan EXCEPT ![s] = NoScan]
  /\ UNCHANGED <<file, writes, schema, done, copy, metadata, entry, ghosts>>

\* isStableFile: the second stat, half a second later.
SettleFile(s) ==
  /\ InStep(s, "settle")
  /\ IF file[Path(s)] = scan[s].hash THEN Step(s, "hash") ELSE NextFile(s)
  /\ UNCHANGED <<file, writes, schema, done, copy, metadata, entry, ghosts>>

HashFile(s) ==
  /\ InStep(s, "hash")
  /\ scan' = [scan EXCEPT ![s].hash = file[Path(s)], ![s].pc = "find"]
  /\ LET k == <<Owner[Folder[Path(s)]], file[Path(s)]>>
     IN sighted' = [sighted EXCEPT ![k] = IF @ = 2 THEN 2 ELSE @ + 1]
  /\ UNCHANGED <<file, writes, schema, done, copy, metadata, entry, torn, taken>>

FindEntry(s) ==
  /\ InStep(s, "find")
  /\ Step(s, IF entry[HashKey(s)] = NoEntry THEN "copy" ELSE "duplicate")
  /\ UNCHANGED <<file, writes, schema, done, copy, metadata, entry, ghosts>>

\* The row of that content becomes DUPLICATE, whatever it was.
SetStatus(k, status) ==
  entry' = IF entry[k] = NoEntry THEN entry ELSE [entry EXCEPT ![k].status = status]

FileIsDuplicate(s) ==
  /\ InStep(s, "duplicate")
  /\ SetStatus(HashKey(s), "DUPLICATE")
  /\ NextFile(s)
  /\ UNCHANGED <<file, writes, schema, done, copy, metadata, ghosts>>

\* copyImmutable: what the file holds by now.
CopyFile(s) ==
  /\ InStep(s, "copy")
  /\ \E b \in Batches :
       /\ copy[b] = NoFile
       /\ copy' = [copy EXCEPT ![b] = file[Path(s)]]
       /\ torn' = IF scan[s].torn THEN torn \cup {b} ELSE torn
       /\ scan' = [scan EXCEPT ![s].pc = "metadata", ![s].batch = b]
  /\ UNCHANGED <<file, writes, schema, done, metadata, entry, sighted, taken>>

\* Mistake: metadata.json is overwritten.
WriteMetadataAnyway(s) ==
  /\ InStep(s, "metadata")
  /\ metadata' = [metadata EXCEPT ![Folder[Path(s)]] = scan[s].batch]
  /\ Step(s, "insert")
  /\ UNCHANGED <<file, writes, schema, done, copy, entry, ghosts>>

\* writeMetadata: metadata.json must not be there; the raw copy stays.
WriteMetadata(s) ==
  /\ InStep(s, "metadata")
  /\ LET f == Folder[Path(s)]
     IN IF metadata[f] = NoBatch
          THEN metadata' = [metadata EXCEPT ![f] = scan[s].batch] /\ Step(s, "insert")
          ELSE NextFile(s) /\ UNCHANGED metadata
  /\ UNCHANGED <<file, writes, schema, done, copy, entry, ghosts>>

\* insertIngestFile: unique by content, and RECEIVED must pass the CHECK.
InsertEntry(s) ==
  /\ InStep(s, "insert")
  /\ IF schema /\ entry[HashKey(s)] = NoEntry
       THEN /\ entry' = [entry EXCEPT ![HashKey(s)] = [batch |-> scan[s].batch, status |-> "RECEIVED"]]
            /\ Step(s, "validate")
       ELSE NextFile(s) /\ UNCHANGED entry
  /\ UNCHANGED <<file, writes, schema, done, copy, metadata, ghosts>>

\* validateFile looks at the incoming file, not at the copy.
ValidateFile(s) ==
  /\ InStep(s, "validate")
  /\ Step(s, IF file[Path(s)] \in Oversized THEN "fail" ELSE "accept")
  /\ UNCHANGED <<file, writes, schema, done, copy, metadata, entry, ghosts>>

FileFails(s) ==
  /\ InStep(s, "fail")
  /\ SetStatus(HashKey(s), "FAILED")
  /\ NextFile(s)
  /\ UNCHANGED <<file, writes, schema, done, copy, metadata, ghosts>>

\* Only now is the path processed.
FileIsAccepted(s) ==
  /\ InStep(s, "accept")
  /\ SetStatus(HashKey(s), "VALIDATED")
  /\ done' = done \cup {Path(s)}
  /\ taken' = [taken EXCEPT ![Path(s)] = HashKey(s)]
  /\ NextFile(s)
  /\ UNCHANGED <<file, writes, schema, copy, metadata, sighted, torn>>

\* A failed INSERT or copy ends the file, any other failure ends the scan.
ScanFails(s) ==
  /\ scan[s] # NoScan
  /\ IF scan[s].pc \in {"copy", "metadata", "insert"}
       THEN NextFile(s) ELSE scan' = [scan EXCEPT ![s] = NoScan]
  /\ UNCHANGED <<file, writes, schema, done, copy, metadata, entry, ghosts>>

WatcherDies ==
  /\ \E s \in Scans : scan[s] # NoScan
  /\ scan' = [s \in Scans |-> NoScan]
  /\ done' = {}
  /\ UNCHANGED <<file, writes, schema, copy, metadata, entry, ghosts>>

WatcherNext ==
  \/ \E p \in Paths, c \in Contents : WriteFile(p, c)
  \/ \E s \in Scans :
       \/ StartScan(s) \/ (\E p \in Paths : LookAt(s, p)) \/ EndScan(s)
       \/ SettleFile(s) \/ HashFile(s) \/ FindEntry(s) \/ FileIsDuplicate(s)
       \/ CopyFile(s) \/ WriteMetadata(s) \/ InsertEntry(s)
       \/ ValidateFile(s) \/ FileFails(s) \/ FileIsAccepted(s)
       \/ ScanFails(s)
  \/ WatcherDies

WatcherSpec == WatcherInit /\ [][WatcherNext]_watcherVars

-----------------------------------------------------------------------------
WatcherTypeOK ==
  /\ file \in [Paths -> Contents \cup {NoFile}]
  /\ writes \in 0 .. MaxWrites
  /\ schema \in BOOLEAN
  /\ done \subseteq Paths
  /\ copy \in [Batches -> Contents \cup {NoFile}]
  /\ metadata \in [Folders -> Batches \cup {NoBatch}]
  /\ entry \in [Keys -> Entries \cup {NoEntry}]
  /\ scan \in [Scans -> ScanStates \cup {NoScan}]
  /\ sighted \in [Keys -> 0 .. 2]
  /\ torn \subseteq Batches
  /\ taken \in [Paths -> Keys \cup {NoEntry}]

\* A row stands for a raw copy with that content, unless the file was written
\* to while it was handled, and for the only metadata.json of a folder of its
\* tenant: no second file of a tenant and day is ever registered.  A row that
\* is DUPLICATE was seen twice, by two scans, two paths or one path again;
\* and a path is passed over only if its content has a row (handleFile).
RegistryMatchesFiles ==
  /\ \A k \in Keys :
       entry[k] # NoEntry =>
         /\ copy[entry[k].batch] = k[2] \/ entry[k].batch \in torn
         /\ \E f \in Folders : Owner[f] = k[1] /\ metadata[f] = entry[k].batch
         /\ entry[k].status = "DUPLICATE" => sighted[k] = 2
  /\ \A p \in done : taken[p] # NoEntry /\ entry[taken[p]] # NoEntry
=============================================================================
