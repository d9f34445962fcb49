------------------------- MODULE PipelineInvariant -------------------------
(***************************************************************************)
(* The inductive invariant of IngestPipeline.  That the keys of stored     *)
(* files differ rests on unfinished transactions holding their keys, and   *)
(* what a request has inserted, audited and been told rests on its place   *)
(* in the handler.                                                         *)
(***************************************************************************)
EXTENDS IngestPipeline

\* Requests wait for one connection each, and only where they need one.
QueueOK ==
  /\ \A i \in 1 .. Len(waiting) : pc[waiting[i]] \in Waits /\ waiting[i] \notin writing
  /\ \A i, j \in 1 .. Len(waiting) : waiting[i] = waiting[j] => i = j

\* Where a request can be that is committed, or is not.
PlaceOK ==
  \A r \in Requests :
    /\ r \in committed =>
         pc[r] \in {"accept", "rollback", "INGEST_FAILED", "refuse"} \cup Over
    /\ pc[r] = "accept" => r \in committed \ unsure
    /\ pc[r] \in {"rollback", "INGEST_FAILED", "refuse"} => r \notin committed \ unsure
    /\ answer[r] # "none" => pc[r] = "done"

\* What a transaction has inserted before each statement.
RowsOK ==
  \A r \in Requests :
    /\ pc[r] \in {"resolve", "vault"} => rows[r] = {}
    /\ pc[r] \in {"PII_WRITE", "UPLOAD_DOC", "document"} => rows[r] = {"vault"}
    /\ pc[r] = "order" => rows[r] = {"vault", "document"}
    /\ pc[r] = "details" => rows[r] = {"vault", "document", "order"}
    /\ pc[r] \in {"embed", "chunks"} => rows[r] = {"vault", "document", "order", "details"}
    /\ pc[r] \in {"INGEST_COMPLETE", "commit"} => rows[r] = RowKinds

\* No two transactions, finished or not, hold one key.
KeysOK ==
  \A r, s \in Requests : r # s =>
    /\ "document" \in rows[r] /\ "document" \in rows[s] => ~SameDocument(r, s)
    /\ "order" \in rows[r] /\ "order" \in rows[s] => ~SameOrder(r, s)

\* A customer_uuid in use belongs to the request that generated it.
UuidOK ==
  \A r \in Requests :
    /\ pc[r] \in {"read", "connect", "resolve"} => uuid[r] = None /\ known[r] = {}
    /\ uuid[r] # None => uuid[uuid[r]] = uuid[r]

\* What has been audited before each statement.
TrailOK ==
  \A r \in Requests :
    /\ pc[r] \in {"UPLOAD_DOC", "document", "order", "details", "embed", "chunks",
                  "INGEST_COMPLETE", "commit"} => <<r, "PII_WRITE">> \in audit \cup unwritten
    /\ pc[r] \in {"document", "order", "details", "embed", "chunks", "INGEST_COMPLETE", "commit"} =>
         <<r, "UPLOAD_DOC">> \in audit \cup unwritten
    /\ pc[r] = "commit" => <<r, "INGEST_COMPLETE">> \in audit \cup unwritten
    /\ <<r, "INGEST_FAILED">> \in audit => pc[r] \in {"refuse"} \cup Over

IInv ==
  /\ TypeOK /\ QueueOK /\ PlaceOK /\ RowsOK /\ KeysOK /\ UuidOK /\ TrailOK
  /\ AllOrNothing /\ AuditMatchesStore /\ IdentityHasSource /\ KnownCustomerKeepsUuid
=============================================================================
