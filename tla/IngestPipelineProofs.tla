----------------------- MODULE IngestPipelineProofs -----------------------
(***************************************************************************)
(* Proofs about IngestPipeline, for any requests, keys, hashes, pool size  *)
(* and number of failures.  They rest on IInv of PipelineInvariant.        *)
(***************************************************************************)
EXTENDS PipelineInvariant, FiniteSetTheorems, TLAPS

-----------------------------------------------------------------------------
(***************************************************************************)
(* The pool and its queue.                                                 *)
(***************************************************************************)

\* The connections in use are finitely many.
LEMMA BusyFinite ==
  ASSUME TypeOK
  PROVE  /\ IsFiniteSet(Holders) /\ Cardinality(Holders) \in Nat
         /\ IsFiniteSet(writing) /\ Cardinality(writing) \in Nat
  <1>1. Holders \subseteq Requests /\ writing \subseteq Requests
    BY DEF Holders, TypeOK
  <1>. QED
    BY <1>1, ConstantsAssumption, FS_Subset, FS_CardinalityType

\* A step that only gives connections back keeps the pool within its size.
LEMMA PoolShrinks ==
  ASSUME TypeOK, Holders' \subseteq Holders, writing' \subseteq writing
  PROVE  Busy' <= PoolSize
  <1>1. Cardinality(Holders') <= Cardinality(Holders) /\ Cardinality(Holders') \in Nat
    BY BusyFinite, FS_Subset, FS_CardinalityType
  <1>2. Cardinality(writing') <= Cardinality(writing) /\ Cardinality(writing') \in Nat
    BY BusyFinite, FS_Subset, FS_CardinalityType
  <1>3. Cardinality(Holders) + Cardinality(writing) <= PoolSize /\ PoolSize \in Nat
    BY ConstantsAssumption DEF TypeOK, Busy
  <1>. QED
    BY <1>1, <1>2, <1>3, BusyFinite DEF Busy

\* The connection that Connect hands out is one the pool still has.
LEMMA PoolGrows ==
  ASSUME TypeOK, QueueOK, NEW r \in Requests, Connect(r)
  PROVE  Busy' <= PoolSize
  <1>1. Busy < PoolSize /\ Busy = Cardinality(Holders) + Cardinality(writing) /\ PoolSize \in Nat
    BY ConstantsAssumption DEF Connect, Busy
  <1>2. pc[r] \in Waits /\ r \notin writing
    BY DEF Connect, QueueOK, TypeOK
  <1>3. CASE pc[r] = "connect"
    <2>1. r \notin Holders /\ Holders' = Holders \cup {r} /\ writing' = writing
      BY <1>3 DEF Connect, Holders, InTransaction, Statements, TypeOK
    <2>2. Cardinality(Holders') = Cardinality(Holders) + 1
      BY <2>1, BusyFinite, FS_AddElement
    <2>. QED
      BY <1>1, <2>1, <2>2, BusyFinite DEF Busy
  <1>4. CASE pc[r] # "connect"
    <2>1. Holders' = Holders /\ writing' = writing \cup {r}
      BY <1>4 DEF Connect, Holders
    <2>2. Cardinality(writing') = Cardinality(writing) + 1
      BY <1>2, <2>1, BusyFinite, FS_AddElement
    <2>. QED
      BY <1>1, <2>1, <2>2, BusyFinite DEF Busy
  <1>. QED
    BY <1>3, <1>4

\* The request at the head of the queue leaves it.
LEMMA ConnectQueue ==
  ASSUME TypeOK, QueueOK, NEW r \in Requests, Connect(r)
  PROVE  /\ pc' \in [Requests -> Labels]
         /\ waiting' \in Seq(Requests)
         /\ writing' \subseteq {s \in Requests : pc'[s] \in AuditActions}
         /\ QueueOK'
  <1>1. /\ waiting' \in Seq(Requests) /\ Len(waiting') = Len(waiting) - 1
        /\ \A i \in 1 .. Len(waiting') : waiting'[i] = waiting[i + 1]
        /\ r = waiting[1] /\ Len(waiting) \in Nat /\ Len(waiting) > 0
    BY DEF Connect, TypeOK
  <1>2. pc[r] \in Waits /\ r \notin writing
    BY <1>1 DEF QueueOK
  <1>3. \A i \in 1 .. Len(waiting') : waiting'[i] # r /\ i + 1 \in 1 .. Len(waiting)
    BY <1>1 DEF QueueOK
  <1>4. /\ pc' \in [Requests -> Labels]
        /\ writing' \subseteq {s \in Requests : pc'[s] \in AuditActions}
        /\ \A s \in Requests \ {r} : pc'[s] = pc[s] /\ (s \in writing' <=> s \in writing)
    BY <1>2 DEF Connect, TypeOK, Labels, InTransaction, Statements, Waits, AuditActions
  <1>5. \A i \in 1 .. Len(waiting') : pc'[waiting'[i]] \in Waits /\ waiting'[i] \notin writing'
    <2>. SUFFICES ASSUME NEW i \in 1 .. Len(waiting')
                  PROVE  pc'[waiting'[i]] \in Waits /\ waiting'[i] \notin writing'
      OBVIOUS
    <2>1. i + 1 \in 1 .. Len(waiting) /\ waiting'[i] = waiting[i + 1] /\ waiting'[i] # r
      BY <1>1, <1>3
    <2>2. waiting'[i] \in Requests \ {r}
      BY <1>1, <2>1
    <2>. QED
      BY <2>1, <2>2, <1>4 DEF QueueOK
  <1>6. \A i, j \in 1 .. Len(waiting') : waiting'[i] = waiting'[j] => i = j
    BY <1>1, <1>3 DEF QueueOK
  <1>. QED
    BY <1>1, <1>4, <1>5, <1>6 DEF QueueOK

\* Every other step of a request ends what it waited for, takes it to one
\* label, and leaves it with the connection it had or with none.
LEMMA ProceedQueue ==
  ASSUME TypeOK, QueueOK, NEW r \in Requests, NEW label \in Labels, Proceed(r, label),
         writing' = writing \ {r},
         pc[r] \in Waits => r \in writing,
         label \in InTransaction => pc[r] \in InTransaction
  PROVE  /\ pc' \in [Requests -> Labels]
         /\ waiting' \in Seq(Requests)
         /\ writing' \subseteq {s \in Requests : pc'[s] \in AuditActions}
         /\ Busy' <= PoolSize
         /\ QueueOK'
  <1>1. /\ pc' \in [Requests -> Labels] /\ pc'[r] = label
        /\ \A s \in Requests \ {r} : pc'[s] = pc[s]
    BY DEF Proceed, TypeOK
  <1>2. writing' \subseteq {s \in Requests : pc'[s] \in AuditActions}
    BY <1>1 DEF TypeOK
  <1>3. Busy' <= PoolSize
    BY <1>1, PoolShrinks DEF Holders
  <1>4. \A i \in 1 .. Len(waiting) : waiting[i] \in Requests \ {r}
    BY DEF QueueOK, TypeOK
  <1>5. CASE label \notin Waits
    <2>1. waiting' = waiting /\ waiting \in Seq(Requests)
      BY <1>5 DEF Proceed, TypeOK
    <2>. QED
      BY <1>1, <1>2, <1>3, <1>4, <2>1 DEF QueueOK
  <1>6. CASE label \in Waits
    <2>1. /\ waiting' = Append(waiting, r) /\ waiting \in Seq(Requests)
      BY <1>6 DEF Proceed, TypeOK
    <2>2. /\ waiting' \in Seq(Requests) /\ Len(waiting') = Len(waiting) + 1 /\ Len(waiting) \in Nat
          /\ waiting'[Len(waiting) + 1] = r
          /\ \A i \in 1 .. Len(waiting) : waiting'[i] = waiting[i]
      BY <2>1
    <2>3. \A i \in 1 .. Len(waiting') : i = Len(waiting) + 1 \/ i \in 1 .. Len(waiting)
      BY <2>2
    <2>4. \A i \in 1 .. Len(waiting') : pc'[waiting'[i]] \in Waits /\ waiting'[i] \notin writing'
      BY <1>1, <1>4, <1>6, <2>2, <2>3 DEF QueueOK
    <2>5. \A i, j \in 1 .. Len(waiting') : waiting'[i] = waiting'[j] => i = j
      BY <1>4, <2>2, <2>3 DEF QueueOK
    <2>. QED
      BY <1>1, <1>2, <1>3, <2>2, <2>4, <2>5 DEF QueueOK
  <1>. QED
    BY <1>5, <1>6
\* How far a step of a request takes it.
LEMMA StepProceeds ==
  ASSUME TypeOK, NEW r \in Requests, Step(r) \/ Failure(r), ~Connect(r)
  PROVE  \E label \in Labels :
           /\ Proceed(r, label)
           /\ writing' = writing \ {r}
           /\ pc[r] \in Waits => r \in writing
           /\ label \in InTransaction => pc[r] \in InTransaction
  <1>. USE DEF TypeOK, Labels, InTransaction, Statements, Waits, AuditActions, Over
  <1>1. CASE ReadFile(r)
    BY <1>1 DEF ReadFile
  <1>2. CASE RefuseFile(r)
    BY <1>2 DEF RefuseFile
  <1>3. CASE Resolve(r)
    BY <1>3 DEF Resolve
  <1>4. CASE WriteVault(r)
    BY <1>4 DEF WriteVault, Insert
  <1>5. CASE StoreDocument(r)
    BY <1>5 DEF StoreDocument, InsertUnique, Insert, Rivals, SameKey
  <1>6. CASE StoreRepairOrder(r)
    BY <1>6 DEF StoreRepairOrder, InsertUnique, Insert, Rivals, SameKey
  <1>7. CASE StoreRepairOrderDetails(r)
    BY <1>7 DEF StoreRepairOrderDetails, Insert
  <1>8. CASE EmbedChunks(r)
    BY <1>8 DEF EmbedChunks
  <1>9. CASE StoreChunks(r)
    BY <1>9 DEF StoreChunks, Insert
  <1>10. CASE Commit(r)
    BY <1>10 DEF Commit
  <1>11. CASE CommitUnconfirmed(r)
    BY <1>11 DEF CommitUnconfirmed, Fault
  <1>12. CASE StatementFails(r)
    BY <1>12 DEF StatementFails, Fault
  <1>13. CASE Rollback(r)
    BY <1>13 DEF Rollback
  <1>14. CASE WriteAudit(r)
    BY <1>14 DEF WriteAudit, Fault, AfterAudit
  <1>15. CASE Accept(r)
    BY <1>15 DEF Accept, Answer
  <1>16. CASE Refuse(r)
    BY <1>16 DEF Refuse, Answer
  <1>. QED
    BY <1>1, <1>2, <1>3, <1>4, <1>5, <1>6, <1>7, <1>8, <1>9,
       <1>10, <1>11, <1>12, <1>13, <1>14, <1>15, <1>16 DEF Step, Failure

\* Each step keeps the other variables within their types.
LEMMA DataTypes ==
  ASSUME TypeOK, NEW r \in Requests, Step(r) \/ Failure(r)
  PROVE  /\ rows' \in [Requests -> SUBSET RowKinds]
         /\ committed' \subseteq Requests /\ unsure' \subseteq committed'
         /\ uuid' \in [Requests -> Requests \cup {None}]
         /\ known' \in [Requests -> SUBSET Requests]
         /\ audit' \subseteq Requests \X AuditActions
         /\ unwritten' \subseteq Requests \X AuditActions
         /\ answer' \in [Requests -> {"none", "ok", "error"}]
         /\ faults' \in 0 .. MaxFaults
  <1>. USE ConstantsAssumption DEF TypeOK, RowKinds, database, identity, trail
  <1>1. CASE Connect(r)
    BY <1>1 DEF Connect
  <1>2. CASE ReadFile(r)
    BY <1>2 DEF ReadFile
  <1>3. CASE RefuseFile(r)
    BY <1>3 DEF RefuseFile
  <1>4. CASE Resolve(r)
    BY <1>4 DEF Resolve
  <1>5. CASE WriteVault(r)
    BY <1>5 DEF WriteVault, Insert
  <1>6. CASE StoreDocument(r)
    BY <1>6 DEF StoreDocument, InsertUnique, Insert, Rivals, SameKey
  <1>7. CASE StoreRepairOrder(r)
    BY <1>7 DEF StoreRepairOrder, InsertUnique, Insert, Rivals, SameKey
  <1>8. CASE StoreRepairOrderDetails(r)
    BY <1>8 DEF StoreRepairOrderDetails, Insert
  <1>9. CASE EmbedChunks(r)
    BY <1>9 DEF EmbedChunks
  <1>10. CASE StoreChunks(r)
    BY <1>10 DEF StoreChunks, Insert
  <1>11. CASE Commit(r)
    BY <1>11 DEF Commit
  <1>12. CASE CommitUnconfirmed(r)
    BY <1>12 DEF CommitUnconfirmed, Fault
  <1>13. CASE StatementFails(r)
    BY <1>13 DEF StatementFails, Fault
  <1>14. CASE Rollback(r)
    BY <1>14 DEF Rollback
  <1>15. CASE WriteAudit(r)
    BY <1>15 DEF WriteAudit, Fault, AfterAudit
  <1>16. CASE Accept(r)
    BY <1>16 DEF Accept, Answer
  <1>17. CASE Refuse(r)
    BY <1>17 DEF Refuse, Answer
  <1>. QED
    BY <1>1, <1>2, <1>3, <1>4, <1>5, <1>6, <1>7, <1>8, <1>9,
       <1>10, <1>11, <1>12, <1>13, <1>14, <1>15, <1>16, <1>17 DEF Step, Failure

LEMMA TypeStep ==
  ASSUME TypeOK, QueueOK, NEW r \in Requests, Step(r) \/ Failure(r)
  PROVE  TypeOK' /\ QueueOK'
  <1>1. CASE Connect(r)
    BY <1>1, PoolGrows, ConnectQueue, DataTypes DEF TypeOK
  <1>2. CASE ~Connect(r)
    BY <1>2, StepProceeds, ProceedQueue, DataTypes DEF TypeOK
  <1>. QED
    BY <1>1, <1>2

-----------------------------------------------------------------------------
(***************************************************************************)
(* What a step of one request does to its rows, identity and audit trail.  *)
(***************************************************************************)

\* WriteAudit adds one entry, or loses one.
LEMMA AuditEntry ==
  ASSUME NEW r \in Requests, WriteAudit(r)
  PROVE  /\ audit \subseteq audit' /\ unwritten \subseteq unwritten'
         /\ <<r, pc[r]>> \in audit' \cup unwritten'
         /\ \A s \in Requests : \A action \in AuditActions :
              <<s, action>> \in audit' => <<s, action>> \in audit \/ (s = r /\ action = pc[r])
  <1>1. /\ audit' \in {audit, audit \cup {<<r, pc[r]>>}}
        /\ unwritten' \in {unwritten, unwritten \cup {<<r, pc[r]>>}}
        /\ <<r, pc[r]>> \in audit' \cup unwritten'
    BY DEF WriteAudit
  <1>2. audit \subseteq audit' /\ unwritten \subseteq unwritten'
    BY <1>1
  <1>3. ASSUME NEW s \in Requests, NEW action \in AuditActions
        PROVE  <<s, action>> \in audit' => <<s, action>> \in audit \/ (s = r /\ action = pc[r])
    <2>1. <<s, action>> = <<r, pc[r]>> => s = r /\ action = pc[r]
      OBVIOUS
    <2>. QED
      BY <1>1, <2>1
  <1>4. \A s \in Requests : \A action \in AuditActions :
          <<s, action>> \in audit' => <<s, action>> \in audit \/ (s = r /\ action = pc[r])
    BY <1>3
  <1>. QED
    BY <1>1, <1>2, <1>4

\* The label that follows each audit entry.
LEMMA AuditGoesOn ==
  ASSUME pc \in [Requests -> Labels], NEW r \in Requests, WriteAudit(r), pc[r] \in AuditActions,
         NEW s \in Requests
  PROVE  /\ s # r => pc'[s] = pc[s]
         /\ pc[r] = "PII_WRITE" => pc'[r] = "UPLOAD_DOC"
         /\ pc[r] = "UPLOAD_DOC" => pc'[r] = "document"
         /\ pc[r] = "INGEST_COMPLETE" => pc'[r] = "commit"
         /\ pc[r] = "INGEST_FAILED" => pc'[r] = "refuse"
  BY DEF WriteAudit, Proceed, AfterAudit

\* What has been audited before each statement, after one more entry.
LEMMA AuditKeepsTrail ==
  ASSUME TypeOK, TrailOK, NEW r \in Requests, WriteAudit(r)
  PROVE  TrailOK'
  <1>0. pc \in [Requests -> Labels] /\ pc[r] \in AuditActions
    BY DEF TypeOK, WriteAudit
  <1>. USE <1>0, AuditEntry, AuditGoesOn DEF TrailOK, AuditActions, Over
  <1>1. ASSUME NEW s \in Requests
        PROVE  pc'[s] \in {"UPLOAD_DOC", "document", "order", "details", "embed", "chunks",
                  "INGEST_COMPLETE", "commit"} => <<s, "PII_WRITE">> \in audit' \cup unwritten'
    OBVIOUS
  <1>2. ASSUME NEW s \in Requests
        PROVE  pc'[s] \in {"document", "order", "details", "embed", "chunks", "INGEST_COMPLETE", "commit"}
                 => <<s, "UPLOAD_DOC">> \in audit' \cup unwritten'
    OBVIOUS
  <1>3. ASSUME NEW s \in Requests
        PROVE  pc'[s] = "commit" => <<s, "INGEST_COMPLETE">> \in audit' \cup unwritten'
    OBVIOUS
  <1>4. ASSUME NEW s \in Requests
        PROVE  <<s, "INGEST_FAILED">> \in audit' => pc'[s] \in {"refuse"} \cup Over
    OBVIOUS
  <1>. QED
    BY <1>1, <1>2, <1>3, <1>4

\* The entries agree with the store after one more.
LEMMA AuditKeepsMatch ==
  ASSUME TypeOK, TrailOK, PlaceOK, AuditMatchesStore, NEW r \in Requests, WriteAudit(r)
  PROVE  AuditMatchesStore'
  <1>1. UNCHANGED <<committed, unsure>> /\ (faults' = 0 => faults = 0)
    BY DEF WriteAudit, TypeOK, Fault, database
  <1>2. pc \in [Requests -> Labels] /\ pc[r] \in AuditActions /\ committed \subseteq Requests
    BY DEF TypeOK, WriteAudit
  <1>. USE <1>1, <1>2, AuditEntry, AuditGoesOn DEF AuditMatchesStore, PlaceOK, AuditActions, Over
  <1>3. ASSUME NEW s \in Requests
        PROVE  s \in committed =>
                 \A action \in {"PII_WRITE", "UPLOAD_DOC", "INGEST_COMPLETE"} :
                   <<s, action>> \in audit' \cup unwritten'
    OBVIOUS
  <1>4. ASSUME NEW s \in Requests
        PROVE  s \in committed /\ <<s, "INGEST_FAILED">> \in audit' => s \in unsure
    OBVIOUS
  <1>5. ASSUME NEW s \in Requests
        PROVE  <<s, "INGEST_COMPLETE">> \in audit' /\ faults' = 0 =>
                 s \in committed \/ pc'[s] = "commit"
    <2>1. CASE s = r
      BY <2>1
    <2>2. CASE s # r
      <3>1. <<s, "INGEST_COMPLETE">> \in audit' => <<s, "INGEST_COMPLETE">> \in audit
        BY <2>2
      <3>2. pc'[s] = pc[s]
        BY <2>2
      <3>3. <<s, "INGEST_COMPLETE">> \in audit /\ faults = 0 => s \in committed \/ pc[s] = "commit"
        BY DEF AuditMatchesStore
      <3>. QED
        BY <3>1, <3>2, <3>3, <1>1
    <2>. QED
      BY <2>1, <2>2
  <1>. QED
    BY <1>3, <1>4, <1>5

\* Each step finds a request where it may be, and leaves it so.
LEMMA PlaceStep ==
  ASSUME IInv, NEW r \in Requests, Step(r) \/ Failure(r)
  PROVE  PlaceOK'
  <1>. USE DEF IInv, TypeOK, PlaceOK, Proceed, database, identity, trail,
             InTransaction, Statements, Waits, AuditActions, Over, RowKinds
  <1>1. CASE Connect(r)
    BY <1>1 DEF Connect
  <1>2. CASE ReadFile(r)
    BY <1>2 DEF ReadFile
  <1>3. CASE RefuseFile(r)
    BY <1>3 DEF RefuseFile
  <1>4. CASE Resolve(r)
    BY <1>4 DEF Resolve
  <1>5. CASE WriteVault(r)
    BY <1>5 DEF WriteVault, Insert
  <1>6. CASE StoreDocument(r)
    BY <1>6 DEF StoreDocument, InsertUnique, Insert, Rivals, SameKey
  <1>7. CASE StoreRepairOrder(r)
    BY <1>7 DEF StoreRepairOrder, InsertUnique, Insert, Rivals, SameKey
  <1>8. CASE StoreRepairOrderDetails(r)
    BY <1>8 DEF StoreRepairOrderDetails, Insert
  <1>9. CASE EmbedChunks(r)
    BY <1>9 DEF EmbedChunks
  <1>10. CASE StoreChunks(r)
    BY <1>10 DEF StoreChunks, Insert
  <1>11. CASE Commit(r)
    BY <1>11 DEF Commit
  <1>12. CASE CommitUnconfirmed(r)
    BY <1>12 DEF CommitUnconfirmed, Fault
  <1>13. CASE StatementFails(r)
    BY <1>13 DEF StatementFails, Fault
  <1>14. CASE Rollback(r)
    BY <1>14 DEF Rollback
  <1>15. CASE WriteAudit(r)
    BY <1>15 DEF WriteAudit, Fault, AfterAudit
  <1>16. CASE Accept(r)
    BY <1>16 DEF Accept, Answer
  <1>17. CASE Refuse(r)
    BY <1>17 DEF Refuse, Answer
  <1>. QED
    BY <1>1, <1>2, <1>3, <1>4, <1>5, <1>6, <1>7, <1>8, <1>9,
       <1>10, <1>11, <1>12, <1>13, <1>14, <1>15, <1>16, <1>17 DEF Step, Failure

\* What a transaction has inserted follows the label of its statement.
LEMMA RowsStep ==
  ASSUME IInv, NEW r \in Requests, Step(r) \/ Failure(r)
  PROVE  RowsOK'
  <1>. USE DEF IInv, TypeOK, RowsOK, Proceed, database, identity, trail,
             PlaceOK, AllOrNothing, RowKinds,
             InTransaction, Statements, Waits, AuditActions, Over
  <1>1. CASE Connect(r)
    BY <1>1 DEF Connect
  <1>2. CASE ReadFile(r)
    BY <1>2 DEF ReadFile
  <1>3. CASE RefuseFile(r)
    BY <1>3 DEF RefuseFile
  <1>4. CASE Resolve(r)
    BY <1>4 DEF Resolve
  <1>5. CASE WriteVault(r)
    BY <1>5 DEF WriteVault, Insert
  <1>6. CASE StoreDocument(r)
    BY <1>6 DEF StoreDocument, InsertUnique, Insert, Rivals, SameKey
  <1>7. CASE StoreRepairOrder(r)
    BY <1>7 DEF StoreRepairOrder, InsertUnique, Insert, Rivals, SameKey
  <1>8. CASE StoreRepairOrderDetails(r)
    BY <1>8 DEF StoreRepairOrderDetails, Insert
  <1>9. CASE EmbedChunks(r)
    BY <1>9 DEF EmbedChunks
  <1>10. CASE StoreChunks(r)
    BY <1>10 DEF StoreChunks, Insert
  <1>11. CASE Commit(r)
    BY <1>11 DEF Commit
  <1>12. CASE CommitUnconfirmed(r)
    BY <1>12 DEF CommitUnconfirmed, Fault
  <1>13. CASE StatementFails(r)
    BY <1>13 DEF StatementFails, Fault
  <1>14. CASE Rollback(r)
    BY <1>14 DEF Rollback
  <1>15. CASE WriteAudit(r)
    BY <1>15 DEF WriteAudit, Fault, AfterAudit
  <1>16. CASE Accept(r)
    BY <1>16 DEF Accept, Answer
  <1>17. CASE Refuse(r)
    BY <1>17 DEF Refuse, Answer
  <1>. QED
    BY <1>1, <1>2, <1>3, <1>4, <1>5, <1>6, <1>7, <1>8, <1>9,
       <1>10, <1>11, <1>12, <1>13, <1>14, <1>15, <1>16, <1>17 DEF Step, Failure

\* An insert that meets the key of another request, finished or not, does
\* not take effect.
LEMMA KeysStep ==
  ASSUME IInv, NEW r \in Requests, Step(r) \/ Failure(r)
  PROVE  KeysOK'
  <1>. USE DEF IInv, TypeOK, KeysOK, Proceed, database, identity, trail,
             SameDocument, SameOrder, RowKinds,
             InTransaction, Statements, Waits, AuditActions, Over
  <1>1. CASE Connect(r)
    BY <1>1 DEF Connect
  <1>2. CASE ReadFile(r)
    BY <1>2 DEF ReadFile
  <1>3. CASE RefuseFile(r)
    BY <1>3 DEF RefuseFile
  <1>4. CASE Resolve(r)
    BY <1>4 DEF Resolve
  <1>5. CASE WriteVault(r)
    BY <1>5 DEF WriteVault, Insert
  <1>6. CASE StoreDocument(r)
    BY <1>6 DEF StoreDocument, InsertUnique, Insert, Rivals, SameKey
  <1>7. CASE StoreRepairOrder(r)
    BY <1>7 DEF StoreRepairOrder, InsertUnique, Insert, Rivals, SameKey
  <1>8. CASE StoreRepairOrderDetails(r)
    BY <1>8 DEF StoreRepairOrderDetails, Insert
  <1>9. CASE EmbedChunks(r)
    BY <1>9 DEF EmbedChunks
  <1>10. CASE StoreChunks(r)
    BY <1>10 DEF StoreChunks, Insert
  <1>11. CASE Commit(r)
    BY <1>11 DEF Commit
  <1>12. CASE CommitUnconfirmed(r)
    BY <1>12 DEF CommitUnconfirmed, Fault
  <1>13. CASE StatementFails(r)
    BY <1>13 DEF StatementFails, Fault
  <1>14. CASE Rollback(r)
    BY <1>14 DEF Rollback
  <1>15. CASE WriteAudit(r)
    BY <1>15 DEF WriteAudit, Fault, AfterAudit
  <1>16. CASE Accept(r)
    BY <1>16 DEF Accept, Answer
  <1>17. CASE Refuse(r)
    BY <1>17 DEF Refuse, Answer
  <1>. QED
    BY <1>1, <1>2, <1>3, <1>4, <1>5, <1>6, <1>7, <1>8, <1>9,
       <1>10, <1>11, <1>12, <1>13, <1>14, <1>15, <1>16, <1>17 DEF Step, Failure

\* A customer_uuid is generated once, and copied from committed requests.
LEMMA UuidStep ==
  ASSUME IInv, NEW r \in Requests, Step(r) \/ Failure(r)
  PROVE  UuidOK'
  <1>. USE DEF IInv, TypeOK, UuidOK, Proceed, database, identity, trail,
             PlaceOK, Labels,
             InTransaction, Statements, Waits, AuditActions, Over
  <1>1. CASE Connect(r)
    BY <1>1 DEF Connect
  <1>2. CASE ReadFile(r)
    BY <1>2 DEF ReadFile
  <1>3. CASE RefuseFile(r)
    BY <1>3 DEF RefuseFile
  <1>4. CASE Resolve(r)
    BY <1>4 DEF Resolve
  <1>5. CASE WriteVault(r)
    BY <1>5 DEF WriteVault, Insert
  <1>6. CASE StoreDocument(r)
    BY <1>6 DEF StoreDocument, InsertUnique, Insert, Rivals, SameKey
  <1>7. CASE StoreRepairOrder(r)
    BY <1>7 DEF StoreRepairOrder, InsertUnique, Insert, Rivals, SameKey
  <1>8. CASE StoreRepairOrderDetails(r)
    BY <1>8 DEF StoreRepairOrderDetails, Insert
  <1>9. CASE EmbedChunks(r)
    BY <1>9 DEF EmbedChunks
  <1>10. CASE StoreChunks(r)
    BY <1>10 DEF StoreChunks, Insert
  <1>11. CASE Commit(r)
    BY <1>11 DEF Commit
  <1>12. CASE CommitUnconfirmed(r)
    BY <1>12 DEF CommitUnconfirmed, Fault
  <1>13. CASE StatementFails(r)
    BY <1>13 DEF StatementFails, Fault
  <1>14. CASE Rollback(r)
    BY <1>14 DEF Rollback
  <1>15. CASE WriteAudit(r)
    BY <1>15 DEF WriteAudit, Fault, AfterAudit
  <1>16. CASE Accept(r)
    BY <1>16 DEF Accept, Answer
  <1>17. CASE Refuse(r)
    BY <1>17 DEF Refuse, Answer
  <1>. QED
    BY <1>1, <1>2, <1>3, <1>4, <1>5, <1>6, <1>7, <1>8, <1>9,
       <1>10, <1>11, <1>12, <1>13, <1>14, <1>15, <1>16, <1>17 DEF Step, Failure

\* Audit entries are written, or lost, before the label that follows.
LEMMA TrailStep ==
  ASSUME IInv, NEW r \in Requests, Step(r) \/ Failure(r)
  PROVE  TrailOK'
  <1>. USE DEF IInv, TypeOK, TrailOK, Proceed, database, identity, trail,
             PlaceOK,
             InTransaction, Statements, Waits, AuditActions, Over
  <1>1. CASE Connect(r)
    BY <1>1 DEF Connect
  <1>2. CASE ReadFile(r)
    BY <1>2 DEF ReadFile
  <1>3. CASE RefuseFile(r)
    BY <1>3 DEF RefuseFile
  <1>4. CASE Resolve(r)
    BY <1>4 DEF Resolve
  <1>5. CASE WriteVault(r)
    BY <1>5 DEF WriteVault, Insert
  <1>6. CASE StoreDocument(r)
    BY <1>6 DEF StoreDocument, InsertUnique, Insert, Rivals, SameKey
  <1>7. CASE StoreRepairOrder(r)
    BY <1>7 DEF StoreRepairOrder, InsertUnique, Insert, Rivals, SameKey
  <1>8. CASE StoreRepairOrderDetails(r)
    BY <1>8 DEF StoreRepairOrderDetails, Insert
  <1>9. CASE EmbedChunks(r)
    BY <1>9 DEF EmbedChunks
  <1>10. CASE StoreChunks(r)
    BY <1>10 DEF StoreChunks, Insert
  <1>11. CASE Commit(r)
    BY <1>11 DEF Commit
  <1>12. CASE CommitUnconfirmed(r)
    BY <1>12 DEF CommitUnconfirmed, Fault
  <1>13. CASE StatementFails(r)
    BY <1>13 DEF StatementFails, Fault
  <1>14. CASE Rollback(r)
    BY <1>14 DEF Rollback
  <1>15. CASE WriteAudit(r)
    BY <1>15, AuditKeepsTrail
  <1>16. CASE Accept(r)
    BY <1>16 DEF Accept, Answer
  <1>17. CASE Refuse(r)
    BY <1>17 DEF Refuse, Answer
  <1>. QED
    BY <1>1, <1>2, <1>3, <1>4, <1>5, <1>6, <1>7, <1>8, <1>9,
       <1>10, <1>11, <1>12, <1>13, <1>14, <1>15, <1>16, <1>17 DEF Step, Failure

\* A transaction that is not committed leaves with its rows.
LEMMA StoredStep ==
  ASSUME IInv, NEW r \in Requests, Step(r) \/ Failure(r)
  PROVE  AllOrNothing'
  <1>. USE DEF IInv, TypeOK, AllOrNothing, Proceed, database, identity, trail,
             RowsOK, PlaceOK, RowKinds,
             InTransaction, Statements, Waits, AuditActions, Over
  <1>1. CASE Connect(r)
    BY <1>1 DEF Connect
  <1>2. CASE ReadFile(r)
    BY <1>2 DEF ReadFile
  <1>3. CASE RefuseFile(r)
    BY <1>3 DEF RefuseFile
  <1>4. CASE Resolve(r)
    BY <1>4 DEF Resolve
  <1>5. CASE WriteVault(r)
    BY <1>5 DEF WriteVault, Insert
  <1>6. CASE StoreDocument(r)
    BY <1>6 DEF StoreDocument, InsertUnique, Insert, Rivals, SameKey
  <1>7. CASE StoreRepairOrder(r)
    BY <1>7 DEF StoreRepairOrder, InsertUnique, Insert, Rivals, SameKey
  <1>8. CASE StoreRepairOrderDetails(r)
    BY <1>8 DEF StoreRepairOrderDetails, Insert
  <1>9. CASE EmbedChunks(r)
    BY <1>9 DEF EmbedChunks
  <1>10. CASE StoreChunks(r)
    BY <1>10 DEF StoreChunks, Insert
  <1>11. CASE Commit(r)
    BY <1>11 DEF Commit
  <1>12. CASE CommitUnconfirmed(r)
    BY <1>12 DEF CommitUnconfirmed, Fault
  <1>13. CASE StatementFails(r)
    BY <1>13 DEF StatementFails, Fault
  <1>14. CASE Rollback(r)
    BY <1>14 DEF Rollback
  <1>15. CASE WriteAudit(r)
    BY <1>15 DEF WriteAudit, Fault, AfterAudit
  <1>16. CASE Accept(r)
    BY <1>16 DEF Accept, Answer
  <1>17. CASE Refuse(r)
    BY <1>17 DEF Refuse, Answer
  <1>. QED
    BY <1>1, <1>2, <1>3, <1>4, <1>5, <1>6, <1>7, <1>8, <1>9,
       <1>10, <1>11, <1>12, <1>13, <1>14, <1>15, <1>16, <1>17 DEF Step, Failure

\* The audit entries of a request agree with its place.
LEMMA AuditStep ==
  ASSUME IInv, NEW r \in Requests, Step(r) \/ Failure(r)
  PROVE  AuditMatchesStore'
  <1>. USE DEF IInv, TypeOK, AuditMatchesStore, Proceed, database, identity, trail,
             TrailOK, PlaceOK,
             InTransaction, Statements, Waits, AuditActions, Over
  <1>1. CASE Connect(r)
    BY <1>1 DEF Connect
  <1>2. CASE ReadFile(r)
    BY <1>2 DEF ReadFile
  <1>3. CASE RefuseFile(r)
    BY <1>3 DEF RefuseFile
  <1>4. CASE Resolve(r)
    BY <1>4 DEF Resolve
  <1>5. CASE WriteVault(r)
    BY <1>5 DEF WriteVault, Insert
  <1>6. CASE StoreDocument(r)
    BY <1>6 DEF StoreDocument, InsertUnique, Insert, Rivals, SameKey
  <1>7. CASE StoreRepairOrder(r)
    BY <1>7 DEF StoreRepairOrder, InsertUnique, Insert, Rivals, SameKey
  <1>8. CASE StoreRepairOrderDetails(r)
    BY <1>8 DEF StoreRepairOrderDetails, Insert
  <1>9. CASE EmbedChunks(r)
    BY <1>9 DEF EmbedChunks
  <1>10. CASE StoreChunks(r)
    BY <1>10 DEF StoreChunks, Insert
  <1>11. CASE Commit(r)
    BY <1>11 DEF Commit
  <1>12. CASE CommitUnconfirmed(r)
    <2>1. faults' # 0
      BY <1>12 DEF CommitUnconfirmed, Fault
    <2>. QED
      BY <1>12, <2>1 DEF CommitUnconfirmed, Fault
  <1>13. CASE StatementFails(r)
    <2>1. faults' # 0
      BY <1>13 DEF StatementFails, Fault
    <2>. QED
      BY <1>13, <2>1 DEF StatementFails, Fault
  <1>14. CASE Rollback(r)
    BY <1>14 DEF Rollback
  <1>15. CASE WriteAudit(r)
    BY <1>15, AuditKeepsMatch
  <1>16. CASE Accept(r)
    BY <1>16 DEF Accept, Answer
  <1>17. CASE Refuse(r)
    BY <1>17 DEF Refuse, Answer
  <1>. QED
    BY <1>1, <1>2, <1>3, <1>4, <1>5, <1>6, <1>7, <1>8, <1>9,
       <1>10, <1>11, <1>12, <1>13, <1>14, <1>15, <1>16, <1>17 DEF Step, Failure

\* The committed request a customer_uuid was copied from stays.
LEMMA IdentityStep ==
  ASSUME IInv, NEW r \in Requests, Step(r) \/ Failure(r)
  PROVE  IdentityHasSource'
  <1>. USE DEF IInv, TypeOK, IdentityHasSource, Proceed, database, identity, trail,
             UuidOK, PlaceOK, Matches,
             InTransaction, Statements, Waits, AuditActions, Over
  <1>1. CASE Connect(r)
    BY <1>1 DEF Connect
  <1>2. CASE ReadFile(r)
    BY <1>2 DEF ReadFile
  <1>3. CASE RefuseFile(r)
    BY <1>3 DEF RefuseFile
  <1>4. CASE Resolve(r)
    BY <1>4 DEF Resolve
  <1>5. CASE WriteVault(r)
    BY <1>5 DEF WriteVault, Insert
  <1>6. CASE StoreDocument(r)
    BY <1>6 DEF StoreDocument, InsertUnique, Insert, Rivals, SameKey
  <1>7. CASE StoreRepairOrder(r)
    BY <1>7 DEF StoreRepairOrder, InsertUnique, Insert, Rivals, SameKey
  <1>8. CASE StoreRepairOrderDetails(r)
    BY <1>8 DEF StoreRepairOrderDetails, Insert
  <1>9. CASE EmbedChunks(r)
    BY <1>9 DEF EmbedChunks
  <1>10. CASE StoreChunks(r)
    BY <1>10 DEF StoreChunks, Insert
  <1>11. CASE Commit(r)
    BY <1>11 DEF Commit
  <1>12. CASE CommitUnconfirmed(r)
    BY <1>12 DEF CommitUnconfirmed, Fault
  <1>13. CASE StatementFails(r)
    BY <1>13 DEF StatementFails, Fault
  <1>14. CASE Rollback(r)
    BY <1>14 DEF Rollback
  <1>15. CASE WriteAudit(r)
    BY <1>15 DEF WriteAudit, Fault, AfterAudit
  <1>16. CASE Accept(r)
    BY <1>16 DEF Accept, Answer
  <1>17. CASE Refuse(r)
    BY <1>17 DEF Refuse, Answer
  <1>. QED
    BY <1>1, <1>2, <1>3, <1>4, <1>5, <1>6, <1>7, <1>8, <1>9,
       <1>10, <1>11, <1>12, <1>13, <1>14, <1>15, <1>16, <1>17 DEF Step, Failure

\* A customer_uuid that was found is that of an earlier request.
LEMMA KnownStep ==
  ASSUME IInv, NEW r \in Requests, Step(r) \/ Failure(r)
  PROVE  KnownCustomerKeepsUuid'
  <1>. USE DEF IInv, TypeOK, KnownCustomerKeepsUuid, Proceed, database, identity, trail,
             UuidOK, Matches,
             InTransaction, Statements, Waits, AuditActions, Over
  <1>1. CASE Connect(r)
    BY <1>1 DEF Connect
  <1>2. CASE ReadFile(r)
    BY <1>2 DEF ReadFile
  <1>3. CASE RefuseFile(r)
    BY <1>3 DEF RefuseFile
  <1>4. CASE Resolve(r)
    <2>1. uuid[r] = None /\ None \notin Requests
      BY <1>4, ConstantsAssumption DEF Resolve
    <2>2. \A s \in committed : uuid[s] # r
      BY <2>1
    <2>3. \A s \in Requests \ {r} : uuid'[s] = uuid[s] /\ known'[s] = known[s]
      BY <1>4 DEF Resolve
    <2>4. known'[r] = committed
      BY <1>4 DEF Resolve
    <2>5. (\E s \in committed : Matches(r, s)) => uuid'[r] # r
      BY <1>4, <2>2 DEF Resolve
    <2>. QED
      BY <2>3, <2>4, <2>5
  <1>5. CASE WriteVault(r)
    BY <1>5 DEF WriteVault, Insert
  <1>6. CASE StoreDocument(r)
    BY <1>6 DEF StoreDocument, InsertUnique, Insert, Rivals, SameKey
  <1>7. CASE StoreRepairOrder(r)
    BY <1>7 DEF StoreRepairOrder, InsertUnique, Insert, Rivals, SameKey
  <1>8. CASE StoreRepairOrderDetails(r)
    BY <1>8 DEF StoreRepairOrderDetails, Insert
  <1>9. CASE EmbedChunks(r)
    BY <1>9 DEF EmbedChunks
  <1>10. CASE StoreChunks(r)
    BY <1>10 DEF StoreChunks, Insert
  <1>11. CASE Commit(r)
    BY <1>11 DEF Commit
  <1>12. CASE CommitUnconfirmed(r)
    BY <1>12 DEF CommitUnconfirmed, Fault
  <1>13. CASE StatementFails(r)
    BY <1>13 DEF StatementFails, Fault
  <1>14. CASE Rollback(r)
    BY <1>14 DEF Rollback
  <1>15. CASE WriteAudit(r)
    BY <1>15 DEF WriteAudit, Fault, AfterAudit
  <1>16. CASE Accept(r)
    BY <1>16 DEF Accept, Answer
  <1>17. CASE Refuse(r)
    BY <1>17 DEF Refuse, Answer
  <1>. QED
    BY <1>1, <1>2, <1>3, <1>4, <1>5, <1>6, <1>7, <1>8, <1>9,
       <1>10, <1>11, <1>12, <1>13, <1>14, <1>15, <1>16, <1>17 DEF Step, Failure

-----------------------------------------------------------------------------
(***************************************************************************)
(* The invariant and its consequences.                                     *)
(***************************************************************************)

\* A crash leaves nobody in a transaction, and only committed rows.
LEMMA CrashKeeps ==
  ASSUME IInv, Crash
  PROVE  IInv'
  <1>. USE DEF IInv, Crash, identity, trail
  <1>1. /\ pc' \in [Requests -> Labels]
        /\ \A r \in Requests : pc'[r] \in {"read", "done", "gone"} /\ (pc'[r] # "gone" => pc'[r] = pc[r])
    BY DEF TypeOK, Labels, Over
  <1>2. /\ rows' \in [Requests -> SUBSET RowKinds]
        /\ \A r \in Requests : rows'[r] = IF r \in committed THEN rows[r] ELSE {}
    BY DEF TypeOK
  <1>3. Busy' <= PoolSize
    BY <1>1, PoolShrinks DEF Holders, InTransaction, Statements
  <1>4. TypeOK'
    BY <1>1, <1>2, <1>3, ConstantsAssumption DEF TypeOK, Fault
  <1>5. QueueOK'
    BY DEF QueueOK
  <1>6. PlaceOK'
    BY <1>1 DEF PlaceOK, Over
  <1>7. RowsOK'
    BY <1>1 DEF RowsOK
  <1>8. KeysOK'
    BY <1>2 DEF KeysOK, SameDocument, SameOrder
  <1>9. UuidOK'
    BY <1>1 DEF UuidOK
  <1>10. TrailOK'
    BY <1>1 DEF TrailOK, Over
  <1>11. AllOrNothing'
    BY <1>1, <1>2 DEF AllOrNothing, InTransaction, Statements
  <1>12. AuditMatchesStore'
    <2>1. faults' # 0
      BY DEF Fault, TypeOK
    <2>. QED
      BY <2>1 DEF AuditMatchesStore, TypeOK
  <1>13. IdentityHasSource' /\ KnownCustomerKeepsUuid'
    BY DEF IdentityHasSource, KnownCustomerKeepsUuid
  <1>. QED
    BY <1>4, <1>5, <1>6, <1>7, <1>8, <1>9, <1>10, <1>11, <1>12, <1>13

-----------------------------------------------------------------------------

LEMMA InitHolds ==
  ASSUME Init
  PROVE  IInv
  <1>. USE DEF Init
  <1>1. Busy <= PoolSize
    <2>1. Holders = {} /\ writing = {}
      BY DEF Holders, InTransaction, Statements
    <2>. QED
      BY <2>1, FS_EmptySet, ConstantsAssumption DEF Busy
  <1>2. TypeOK
    BY <1>1, ConstantsAssumption DEF TypeOK, Labels, RowKinds
  <1>3. QueueOK /\ PlaceOK /\ RowsOK /\ KeysOK /\ UuidOK /\ TrailOK
    BY DEF QueueOK, PlaceOK, RowsOK, KeysOK, UuidOK, TrailOK, Over
  <1>4. AllOrNothing /\ AuditMatchesStore /\ IdentityHasSource /\ KnownCustomerKeepsUuid
    BY DEF AllOrNothing, AuditMatchesStore, IdentityHasSource, KnownCustomerKeepsUuid
  <1>. QED
    BY <1>2, <1>3, <1>4 DEF IInv

LEMMA StutterHolds ==
  ASSUME IInv, UNCHANGED vars
  PROVE  IInv'
  <1>. USE DEF IInv, vars, database, identity, trail
  <1>1. TypeOK'
    BY DEF TypeOK, Busy, Holders
  <1>2. QueueOK' /\ PlaceOK' /\ RowsOK' /\ KeysOK' /\ UuidOK' /\ TrailOK'
    BY DEF QueueOK, PlaceOK, RowsOK, KeysOK, UuidOK, TrailOK
  <1>3. AllOrNothing' /\ AuditMatchesStore' /\ IdentityHasSource' /\ KnownCustomerKeepsUuid'
    BY DEF AllOrNothing, AuditMatchesStore, IdentityHasSource, KnownCustomerKeepsUuid
  <1>. QED
    BY <1>1, <1>2, <1>3

LEMMA NextHolds ==
  ASSUME IInv, [Next]_vars
  PROVE  IInv'
  <1>1. CASE UNCHANGED vars
    BY <1>1, StutterHolds
  <1>2. CASE Crash
    BY <1>2, CrashKeeps
  <1>3. ASSUME NEW r \in Requests, Step(r) \/ Failure(r)
        PROVE  IInv'
    <2>1. TypeOK' /\ QueueOK'
      BY <1>3, TypeStep DEF IInv
    <2>2. PlaceOK' /\ RowsOK' /\ KeysOK' /\ UuidOK' /\ TrailOK'
      BY <1>3, PlaceStep, RowsStep, KeysStep, UuidStep, TrailStep
    <2>3. AllOrNothing' /\ AuditMatchesStore' /\ IdentityHasSource' /\ KnownCustomerKeepsUuid'
      BY <1>3, StoredStep, AuditStep, IdentityStep, KnownStep
    <2>. QED
      BY <2>1, <2>2, <2>3 DEF IInv
  <1>. QED
    BY <1>1, <1>2, <1>3 DEF Next

\* The inductive invariant holds in every reachable state.
THEOREM Invariant == Spec => []IInv
  <1>1. Init => IInv
    BY InitHolds
  <1>2. IInv /\ [Next]_vars => IInv'
    BY NextHolds
  <1>. QED
    BY <1>1, <1>2, PTL DEF Spec

\* Every variable has its type, and the pool never has more than PoolSize
\* connections in use.
THEOREM TypeCorrect == Spec => []TypeOK
  <1>1. IInv => TypeOK
    BY DEF IInv
  <1>. QED
    BY <1>1, Invariant, PTL

\* A committed request has all its rows, and any other leaves none behind.
THEOREM StoredWhole == Spec => []AllOrNothing
  <1>1. IInv => AllOrNothing
    BY DEF IInv
  <1>. QED
    BY <1>1, Invariant, PTL

\* The audit entries of a request tell whether it is stored.
THEOREM AuditAgrees == Spec => []AuditMatchesStore
  <1>1. IInv => AuditMatchesStore
    BY DEF IInv
  <1>. QED
    BY <1>1, Invariant, PTL

\* A reused customer_uuid comes from a committed request of the same tenant
\* that shares a hash.
THEOREM IdentityStaysInTenant == Spec => []IdentityHasSource
  <1>1. IInv => IdentityHasSource
    BY DEF IInv
  <1>. QED
    BY <1>1, Invariant, PTL

\* A customer known when a request looks it up keeps its customer_uuid.
THEOREM KnownCustomer == Spec => []KnownCustomerKeepsUuid
  <1>1. IInv => KnownCustomerKeepsUuid
    BY DEF IInv
  <1>. QED
    BY <1>1, Invariant, PTL

-----------------------------------------------------------------------------
(***************************************************************************)
(* The handler implements IngestApi: a commit is its Store, the answers    *)
(* are its Accept and Refuse, every other step leaves its state alone.     *)
(***************************************************************************)

\* A transaction at its COMMIT holds both keys, so no stored file has them.
LEMMA CommitStores ==
  ASSUME IInv, NEW r \in Requests, Commit(r) \/ CommitUnconfirmed(r)
  PROVE  Api!Store(r)
  <1>. USE DEF IInv, TypeOK, identity, trail
  <1>1. /\ pc[r] = "commit" /\ committed' = committed \cup {r} /\ UNCHANGED answer
        /\ unsure' \in {unsure, unsure \cup {r}}
    BY DEF Commit, CommitUnconfirmed
  <1>2. r \notin committed /\ answer[r] = "none"
    BY <1>1 DEF PlaceOK, Over
  <1>3. \A s \in committed : ~Conflicting(r, s)
    <2>. SUFFICES ASSUME NEW s \in committed
                  PROVE  ~Conflicting(r, s)
      OBVIOUS
    <2>1. r # s /\ s \in Requests
      BY <1>2
    <2>2. {"document", "order"} \subseteq rows[r] \cap rows[s]
      BY <1>1, <2>1 DEF RowsOK, AllOrNothing, RowKinds
    <2>. QED
      BY <2>1, <2>2 DEF KeysOK, Conflicting
  <1>. QED
    BY <1>1, <1>2, <1>3 DEF Api!Store

\* The answers.
LEMMA AnswerAnswers ==
  ASSUME IInv, NEW r \in Requests, Accept(r) \/ Refuse(r)
  PROVE  Api!Accept(r) \/ Api!Refuse(r)
  <1>. USE DEF IInv, TypeOK, database
  <1>1. CASE Accept(r)
    BY <1>1 DEF Accept, Answer, PlaceOK, Api!Accept
  <1>2. CASE Refuse(r)
    BY <1>2 DEF Refuse, Answer, PlaceOK, Api!Refuse
  <1>. QED
    BY <1>1, <1>2

LEMMA NextImplements ==
  ASSUME IInv, [Next]_vars
  PROVE  [Api!Next]_(Api!vars)
  <1>. USE DEF Api!vars, database, identity, trail
  <1>1. CASE UNCHANGED vars \/ Crash
    BY <1>1 DEF vars, Crash
  <1>2. ASSUME NEW r \in Requests, Commit(r) \/ CommitUnconfirmed(r)
        PROVE  Api!Next
    BY <1>2, CommitStores DEF Api!Next
  <1>3. ASSUME NEW r \in Requests, Accept(r) \/ Refuse(r)
        PROVE  Api!Next
    BY <1>3, AnswerAnswers DEF Api!Next
  <1>4. ASSUME NEW r \in Requests, Step(r) \/ Failure(r),
               ~(Commit(r) \/ CommitUnconfirmed(r) \/ Accept(r) \/ Refuse(r))
        PROVE  UNCHANGED Api!vars
    BY <1>4 DEF Step, Failure, Connect, ReadFile, RefuseFile, Resolve, WriteVault,
         StoreDocument, StoreRepairOrder, StoreRepairOrderDetails, EmbedChunks, StoreChunks,
         StatementFails, Rollback, WriteAudit, Insert, InsertUnique
  <1>. QED
    BY <1>1, <1>2, <1>3, <1>4 DEF Next

\* Every behaviour of the handler is one of IngestApi.
THEOREM ImplementsApi == Spec => ApiSpec
  <1>1. Init => Api!Init
    BY DEF Init, Api!Init
  <1>2. IInv /\ [Next]_vars => [Api!Next]_(Api!vars)
    BY NextImplements
  <1>. QED
    BY <1>1, <1>2, Invariant, PTL DEF Spec, ApiSpec, Api!Spec
=============================================================================
