--------------------------- MODULE IngestPipeline ---------------------------
(***************************************************************************)
(* The ingest API of the gateway: ingestFromStorageHandler, the            *)
(* transaction of runIngestPipeline, and the audit entries both write.     *)
(* Many requests are in flight at once, interleaved at every await.        *)
(*                                                                         *)
(* All of them share one connection pool.  A transaction holds a           *)
(* connection from BEGIN to COMMIT, and auditLog takes a second one while  *)
(* the first is held.  pool.connect waits without limit, in FIFO order.    *)
(*                                                                         *)
(* The transactions run at READ COMMITTED: a statement sees what others    *)
(* committed, and an INSERT that meets the unique key of an unfinished     *)
(* transaction waits until that one ends.                                  *)
(***************************************************************************)
EXTENDS Naturals, Sequences, FiniteSets

CONSTANTS
  Requests,   \* POSTs; each also names the customer_uuid it would generate
  Tenant,     \* Tenant[r]: tenant of request r
  Sha,        \* Sha[r]: sha256 of its file
  RoNumber,   \* RoNumber[r]: repair order number in the file
  Hashes,     \* Hashes[r]: hashes of the customer's PII in the file
  PoolSize,   \* max of the pg Pool
  MaxFaults,  \* how many failures may happen in one behaviour
  None

ASSUME ConstantsAssumption ==
  /\ IsFiniteSet(Requests)
  /\ PoolSize \in Nat \ {0}
  /\ MaxFaults \in Nat
  /\ None \notin Requests

VARIABLES
  pc,         \* where each request is
  waiting,    \* FIFO queue in front of the pool
  writing,    \* requests whose audit entry has a connection
  rows,       \* rows[r]: kinds of rows the transaction of r has inserted
  committed,  \* requests whose transaction is committed
  unsure,     \* those whose COMMIT failed after it took effect
  uuid,       \* uuid[r]: customer_uuid of the rows of r
  known,      \* known[r]: what was committed when r looked the customer up
  audit,      \* rows of app.audit_logs, as pairs of request and action
  unwritten,  \* audit entries that failed to be written
  answer,     \* HTTP answer of each request
  faults      \* failures so far

database == <<rows, committed, unsure>>
identity == <<uuid, known>>
trail == <<audit, unwritten>>
vars == <<pc, waiting, writing, database, identity, trail, answer, faults>>

AuditActions == {"PII_WRITE", "UPLOAD_DOC", "INGEST_COMPLETE", "INGEST_FAILED"}

RowKinds == {"vault", "document", "order", "details", "chunks"}

\* Labels at which a request holds the connection of its transaction.
Statements == {"resolve", "vault", "document", "order", "details", "embed", "chunks", "commit"}
InTransaction ==
  Statements \cup {"PII_WRITE", "UPLOAD_DOC", "INGEST_COMPLETE", "rollback"}

\* Labels at which it waits for a connection, or writes an audit entry.
Waits == {"connect"} \cup AuditActions

Over == {"done", "gone"}
Labels == InTransaction \cup Waits \cup Over \cup {"read", "accept", "refuse"}

Holders == {r \in Requests : pc[r] \in InTransaction}
Busy == Cardinality(Holders) + Cardinality(writing)

TypeOK ==
  /\ pc \in [Requests -> Labels]
  /\ waiting \in Seq(Requests)
  /\ writing \subseteq {r \in Requests : pc[r] \in AuditActions}
  /\ Busy <= PoolSize
  /\ rows \in [Requests -> SUBSET RowKinds]
  /\ committed \subseteq Requests
  /\ unsure \subseteq committed
  /\ uuid \in [Requests -> Requests \cup {None}]
  /\ known \in [Requests -> SUBSET Requests]
  /\ audit \subseteq Requests \X AuditActions
  /\ unwritten \subseteq Requests \X AuditActions
  /\ answer \in [Requests -> {"none", "ok", "error"}]
  /\ faults \in 0 .. MaxFaults

Init ==
  /\ pc = [r \in Requests |-> "read"]
  /\ waiting = <<>>
  /\ writing = {}
  /\ rows = [r \in Requests |-> {}]
  /\ committed = {}
  /\ unsure = {}
  /\ uuid = [r \in Requests |-> None]
  /\ known = [r \in Requests |-> {}]
  /\ audit = {}
  /\ unwritten = {}
  /\ answer = [r \in Requests |-> "none"]
  /\ faults = 0

-----------------------------------------------------------------------------
(***************************************************************************)
(* The connection pool (pg).                                               *)
(***************************************************************************)

Fault ==
  /\ faults < MaxFaults
  /\ faults' = faults + 1

\* Request r goes on at label; pool.connect puts it at the end of the queue.
Proceed(r, label) ==
  /\ pc' = [pc EXCEPT ![r] = label]
  /\ waiting' = IF label \in Waits THEN Append(waiting, r) ELSE waiting

\* Mistake: the pool hands out more connections than it may open.
ConnectUnbounded(r) ==
  /\ waiting # <<>> /\ r = Head(waiting)
  /\ waiting' = Tail(waiting)
  /\ IF pc[r] = "connect"
     THEN pc' = [pc EXCEPT ![r] = "resolve"] /\ UNCHANGED writing
     ELSE writing' = writing \cup {r} /\ UNCHANGED pc
  /\ UNCHANGED <<database, identity, trail, answer, faults>>

\* The request at the head of the queue gets a connection: it opens its
\* transaction, or begins to write its audit entry.
Connect(r) ==
  /\ waiting # <<>> /\ r = Head(waiting) /\ Busy < PoolSize
  /\ waiting' = Tail(waiting)
  /\ IF pc[r] = "connect"
     THEN pc' = [pc EXCEPT ![r] = "resolve"] /\ UNCHANGED writing
     ELSE writing' = writing \cup {r} /\ UNCHANGED pc
  /\ UNCHANGED <<database, identity, trail, answer, faults>>

-----------------------------------------------------------------------------
(***************************************************************************)
(* ingestFromStorageHandler before the pipeline.                           *)
(***************************************************************************)

ReadFile(r) ==
  /\ pc[r] = "read"
  /\ Proceed(r, "connect")
  /\ UNCHANGED <<writing, database, identity, trail, answer, faults>>

\* A bad storage_uri is refused at once; a file that is too large or of the
\* wrong type leaves an audit entry first.
RefuseFile(r) ==
  /\ pc[r] = "read"
  /\ \E label \in {"refuse", "INGEST_FAILED"} : Proceed(r, label)
  /\ UNCHANGED <<writing, database, identity, trail, answer, faults>>

-----------------------------------------------------------------------------
(***************************************************************************)
(* runIngestPipeline, inside runWithTransaction.                           *)
(***************************************************************************)

\* Mistake: the lookup is not restricted to the tenant.
MatchesAnyTenant(r, s) == Hashes[r] \cap Hashes[s] # {}

\* The vault row of s answers the query of findCustomerUuidByHashes for r.
Matches(r, s) == Tenant[r] = Tenant[s] /\ Hashes[r] \cap Hashes[s] # {}

\* Mistake: every repair order gets a customer_uuid of its own.
ResolveFresh(r) ==
  /\ pc[r] = "resolve" /\ Hashes[r] # {}
  /\ uuid' = [uuid EXCEPT ![r] = r]
  /\ known' = [known EXCEPT ![r] = committed]
  /\ Proceed(r, "vault")
  /\ UNCHANGED <<writing, database, trail, answer, faults>>

\* Routing and validation passed.  LIMIT 1 without an order: any match.
Resolve(r) ==
  /\ pc[r] = "resolve" /\ Hashes[r] # {}
  /\ LET found == {s \in committed : Matches(r, s)}
     IN \/ found = {} /\ uuid' = [uuid EXCEPT ![r] = r]
        \/ \E s \in found : uuid' = [uuid EXCEPT ![r] = uuid[s]]
  /\ known' = [known EXCEPT ![r] = committed]
  /\ Proceed(r, "vault")
  /\ UNCHANGED <<writing, database, trail, answer, faults>>

\* Insert the row of kind, which is also the label of the statement.
Insert(r, kind, next) ==
  /\ pc[r] = kind
  /\ rows' = [rows EXCEPT ![r] = @ \cup {kind}]
  /\ Proceed(r, next)
  /\ UNCHANGED <<writing, committed, unsure, identity, trail, answer, faults>>

\* Mistake: the write of the vault goes unrecorded.
WriteVaultUnaudited(r) == Insert(r, "vault", "UPLOAD_DOC")

WriteVault(r) == Insert(r, "vault", "PII_WRITE")

\* The unique keys of app.documents and app.repair_orders.
SameDocument(r, s) == Tenant[r] = Tenant[s] /\ Sha[r] = Sha[s]
SameOrder(r, s) == Tenant[r] = Tenant[s] /\ RoNumber[r] = RoNumber[s]
SameKey(kind, r, s) == IF kind = "document" THEN SameDocument(r, s) ELSE SameOrder(r, s)

Rivals(r, kind) == {s \in Requests \ {r} : SameKey(kind, r, s) /\ kind \in rows[s]}

\* An unfinished rival holds its key: the statement waits for its end.
InsertUnique(r, kind, next) ==
  /\ pc[r] = kind
  /\ Rivals(r, kind) \subseteq committed
  /\ IF Rivals(r, kind) = {}
     THEN Insert(r, kind, next)
     ELSE /\ Proceed(r, "rollback")
          /\ UNCHANGED <<writing, database, identity, trail, answer, faults>>

StoreDocument(r) == InsertUnique(r, "document", "order")

StoreRepairOrder(r) == InsertUnique(r, "order", "details")

StoreRepairOrderDetails(r) == Insert(r, "details", "embed")

\* Mistake: the chunks are embedded and then not stored.
EmbedOnly(r) ==
  /\ pc[r] = "embed"
  /\ Proceed(r, "INGEST_COMPLETE")
  /\ UNCHANGED <<writing, database, identity, trail, answer, faults>>

EmbedChunks(r) ==
  /\ pc[r] = "embed"
  /\ Proceed(r, "chunks")
  /\ UNCHANGED <<writing, database, identity, trail, answer, faults>>

StoreChunks(r) == Insert(r, "chunks", "INGEST_COMPLETE")

Commit(r) ==
  /\ pc[r] = "commit"
  /\ committed' = committed \cup {r}
  /\ Proceed(r, "accept")
  /\ UNCHANGED <<writing, rows, unsure, identity, trail, answer, faults>>

\* COMMIT takes effect but its answer is lost: the code sees an exception.
CommitUnconfirmed(r) ==
  /\ Fault
  /\ pc[r] = "commit"
  /\ committed' = committed \cup {r}
  /\ unsure' = unsure \cup {r}
  /\ Proceed(r, "rollback")
  /\ UNCHANGED <<writing, rows, identity, trail, answer>>

\* A validation, a statement or the embedding service fails.
StatementFails(r) ==
  /\ Fault
  /\ pc[r] \in Statements
  /\ Proceed(r, "rollback")
  /\ UNCHANGED <<writing, database, identity, trail, answer>>

\* Mistake: the error is not thrown on after the ROLLBACK.
RollbackSwallowed(r) ==
  /\ pc[r] = "rollback"
  /\ rows' = IF r \in committed THEN rows ELSE [rows EXCEPT ![r] = {}]
  /\ Proceed(r, "accept")
  /\ UNCHANGED <<writing, committed, unsure, identity, trail, answer, faults>>

\* Mistake: the connection goes back to the pool without a ROLLBACK.
RollbackMissing(r) ==
  /\ pc[r] = "rollback"
  /\ Proceed(r, "INGEST_FAILED")
  /\ UNCHANGED <<writing, database, identity, trail, answer, faults>>

\* The connection is given back, then the handler writes its audit entry.
Rollback(r) ==
  /\ pc[r] = "rollback"
  /\ rows' = IF r \in committed THEN rows ELSE [rows EXCEPT ![r] = {}]
  /\ Proceed(r, "INGEST_FAILED")
  /\ UNCHANGED <<writing, committed, unsure, identity, trail, answer, faults>>

-----------------------------------------------------------------------------
(***************************************************************************)
(* auditLog: on a connection of its own; an error is logged and dropped.   *)
(***************************************************************************)

AfterAudit ==
  [PII_WRITE |-> "UPLOAD_DOC", UPLOAD_DOC |-> "document",
   INGEST_COMPLETE |-> "commit", INGEST_FAILED |-> "refuse"]

WriteAudit(r) ==
  /\ r \in writing
  /\ writing' = writing \ {r}
  /\ \/ audit' = audit \cup {<<r, pc[r]>>} /\ UNCHANGED <<unwritten, faults>>
     \/ unwritten' = unwritten \cup {<<r, pc[r]>>} /\ Fault /\ UNCHANGED audit
  /\ Proceed(r, AfterAudit[pc[r]])
  /\ UNCHANGED <<database, identity, answer>>

-----------------------------------------------------------------------------

Answer(r, label, status) ==
  /\ pc[r] = label
  /\ answer' = [answer EXCEPT ![r] = status]
  /\ Proceed(r, "done")
  /\ UNCHANGED <<writing, database, identity, trail, faults>>

Accept(r) == Answer(r, "accept", "ok")

Refuse(r) == Answer(r, "refuse", "error")

\* The gateway process dies: nobody in flight is answered, the database rolls
\* open transactions back.  A request that is still "read" arrives later.
Crash ==
  /\ Fault
  /\ \E r \in Requests : pc[r] \notin Over \cup {"read"}
  /\ pc' = [r \in Requests |-> IF pc[r] \in {"read", "done"} THEN pc[r] ELSE "gone"]
  /\ waiting' = <<>>
  /\ writing' = {}
  /\ rows' = [r \in Requests |-> IF r \in committed THEN rows[r] ELSE {}]
  /\ UNCHANGED <<committed, unsure, identity, trail, answer>>

Step(r) ==
  \/ Connect(r) \/ ReadFile(r) \/ Resolve(r) \/ WriteVault(r) \/ StoreDocument(r)
  \/ StoreRepairOrder(r) \/ StoreRepairOrderDetails(r) \/ EmbedChunks(r) \/ StoreChunks(r)
  \/ Commit(r) \/ Rollback(r) \/ WriteAudit(r) \/ Accept(r) \/ Refuse(r)

Failure(r) == RefuseFile(r) \/ StatementFails(r) \/ CommitUnconfirmed(r)

Next == Crash \/ \E r \in Requests : Step(r) \/ Failure(r)

Spec == Init /\ [][Next]_vars

\* Node runs what can run, PostgreSQL and the embedding service answer (each
\* call of the latter is aborted after ten seconds).
Fairness == \A r \in Requests : WF_vars(Step(r))

FairSpec == Spec /\ Fairness
-----------------------------------------------------------------------------
(***************************************************************************)
(* Properties.                                                             *)
(***************************************************************************)

Conflicting(r, s) == SameDocument(r, s) \/ SameOrder(r, s)

Api == INSTANCE IngestApi WITH stored <- committed

\* The handler, with its transaction, audit entries, failures and crashes,
\* does to every request what IngestApi says: no two requests with one key of
\* a tenant are both stored, 201 is answered after COMMIT only, and an error
\* only for a file that was not stored or whose COMMIT was not confirmed.
ApiSpec == Api!Spec

\* Nothing of a request that is not committed outlives it, and what is
\* committed is complete: a failure at any statement leaves no partial file.
AllOrNothing ==
  \A r \in Requests :
    /\ r \in committed => rows[r] = RowKinds
    /\ r \notin committed /\ pc[r] \notin InTransaction => rows[r] = {}

\* Each stored file has its three audit entries, except those that failed to
\* be written; no stored file is reported as INGEST_FAILED, unless its COMMIT
\* was not confirmed; and a file reported as complete is stored, or will be,
\* unless something fails after the entry, which is written before COMMIT.
AuditMatchesStore ==
  \A r \in Requests :
    /\ r \in committed => \A action \in {"PII_WRITE", "UPLOAD_DOC", "INGEST_COMPLETE"} :
                             <<r, action>> \in audit \cup unwritten
    /\ r \in committed /\ <<r, "INGEST_FAILED">> \in audit => r \in unsure
    /\ <<r, "INGEST_COMPLETE">> \in audit /\ faults = 0 => r \in committed \/ pc[r] = "commit"

\* A customer_uuid that is not new comes from a stored repair order of the
\* same tenant that shares a hash: identities never leak between tenants or
\* between customers with nothing in common.
IdentityHasSource ==
  \A r \in Requests :
    uuid[r] \notin {None, r} =>
      \E s \in committed \ {r} :
        uuid[s] = uuid[r] /\ Tenant[s] = Tenant[r] /\ Hashes[s] \cap Hashes[r] # {}

\* A repair order whose customer was in the vault when it was looked up does
\* not get a new customer_uuid.
KnownCustomerKeepsUuid ==
  \A r \in Requests :
    (\E s \in known[r] : Tenant[s] = Tenant[r] /\ Hashes[s] \cap Hashes[r] # {})
      => uuid[r] # r

\* All repair orders of one customer of a tenant have one customer_uuid.
CustomerHasOneUuid ==
  \A r, s \in committed :
    Tenant[r] = Tenant[s] /\ Hashes[r] = Hashes[s] => uuid[r] = uuid[s]

\* Every request that asked the pool for a connection is over some time:
\* neither the pool nor the unique keys make requests wait for each other.
RequestEnds == \A r \in Requests : pc[r] = "connect" ~> pc[r] \in Over
=============================================================================
