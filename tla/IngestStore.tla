---------------------------- MODULE IngestStore ----------------------------
(***************************************************************************)
(* The table app.ingest_files as the intake worker uses it.  There is one  *)
(* row per content: the table is unique on (tenant_id, content_hash), and  *)
(* such a pair is a member of Contents here.  Every operator below is one  *)
(* SQL statement of ops/intake-worker/ingestStore.js.  Statements run in   *)
(* autocommit mode, so each of them is one atomic change of the table, and *)
(* two statements of one worker may be separated by statements of another. *)
(* The role the worker connects with is taken to bypass row-level security *)
(* (README): set_config(..., true) outside of a transaction ends with its  *)
(* own statement, and the policies of the table would hide every row.      *)
(*                                                                         *)
(* Of a row only the status and duplicate_count are kept.  error_code,     *)
(* storage_uri, last_event_id and the timestamps decide nothing in the     *)
(* worker.                                                                 *)
(***************************************************************************)
EXTENDS Naturals

CONSTANT Contents   \* pairs (tenant_id, content_hash)

\* "ABSENT": the table holds no row of that content yet.  The other members
\* are the ones the worker writes; it never writes the DUPLICATE status.
Status == {"ABSENT", "PENDING", "PROCESSING", "INGESTED", "FAILED"}

Row == [status : Status, duplicates : Nat]

EmptyTable == [c \in Contents |-> [status |-> "ABSENT", duplicates |-> 0]]

\* Content c was claimed by some worker, now or earlier.
Claimed(rows, c) == rows[c].status \in {"PROCESSING", "INGESTED", "FAILED"}

-----------------------------------------------------------------------------

\* INSERT ... ON CONFLICT DO UPDATE: a conflict leaves the status alone.
UpsertIngestFile(rows, c) ==
  IF rows[c].status = "ABSENT"
  THEN [rows EXCEPT ![c] = [status |-> "PENDING", duplicates |-> 0]]
  ELSE rows

\* Two mistakes the claim could make: it takes over a row that another worker
\* has, and it takes up a file that failed before.
ClaimableWhileOpen(rows, c) == rows[c].status \in {"PENDING", "PROCESSING"}

ClaimableAgain(rows, c) == rows[c].status \in {"PENDING", "FAILED"}

\* UPDATE ... WHERE status = 'PENDING' finds a row.
Claimable(rows, c) == rows[c].status = "PENDING"

ClaimIngestFile(rows, c) ==
  IF Claimable(rows, c) THEN [rows EXCEPT ![c].status = "PROCESSING"] ELSE rows

\* UPDATE duplicate_count: the statement has no condition on the status.
MarkDuplicate(rows, c) ==
  IF rows[c].status # "ABSENT" THEN [rows EXCEPT ![c].duplicates = @ + 1] ELSE rows

MarkFailed(rows, c) ==
  IF rows[c].status = "PROCESSING" THEN [rows EXCEPT ![c].status = "FAILED"] ELSE rows

\* The mistake of waiting for the wrong status.
MarkPendingIngested(rows, c) ==
  IF rows[c].status = "PENDING" THEN [rows EXCEPT ![c].status = "INGESTED"] ELSE rows

MarkIngested(rows, c) ==
  IF rows[c].status = "PROCESSING" THEN [rows EXCEPT ![c].status = "INGESTED"] ELSE rows

FetchIngestStatus(rows, c) == rows[c].status
=============================================================================
