--------------------------- MODULE WorkerMetrics ---------------------------
(***************************************************************************)
(* The counters of an intake worker (index.js, ingestStore.js): results    *)
(* are counted in memory, and from time to time, without waiting for it,   *)
(* what is pending is added to the worker's row of                         *)
(* app.ingest_worker_metrics and set to zero.                              *)
(***************************************************************************)
EXTENDS Naturals

CONSTANTS
  Flushes,     \* flushes that run at one time
  FlushEvery,  \* METRICS_FLUSH_EVERY
  MaxResults,  \* results of one behaviour
  NoFlush

Outcomes == {"INGESTED", "DUPLICATE", "FAILED"}

\* A running flush: where it is, and the counts it has read.
FlushStates == [pc : {"connect", "sent", "stored"}, sent : [Outcomes -> 0 .. MaxResults]]

ASSUME MetricsAssumption ==
  /\ FlushEvery \in Nat \ {0} /\ MaxResults \in Nat
  /\ NoFlush \notin FlushStates

VARIABLES
  counted,   \* counted[o]: results with outcome o, of all processes of this worker
  pending,   \* pendingSuccess, pendingDuplicate, pendingFailure
  stored,    \* the row's success_count, duplicate_count, failure_count
  flush,     \* flush[f]: [pc, sent], or NoFlush
  stopping,  \* SIGTERM was handled
  again,     \* ghost: counts may have been written twice
  lost       \* ghost: counts may have been dropped

metricsVars == <<counted, pending, stored, flush, stopping, again, lost>>

Zero == [o \in Outcomes |-> 0]
Plus(a, b) == [o \in Outcomes |-> a[o] + b[o]]
Total(a) == a["INGESTED"] + a["DUPLICATE"] + a["FAILED"]

MetricsInit ==
  /\ counted = Zero /\ pending = Zero /\ stored = Zero
  /\ flush = [f \in Flushes |-> NoFlush]
  /\ stopping = FALSE
  /\ again = FALSE /\ lost = FALSE

-----------------------------------------------------------------------------
Idle == \A f \in Flushes : flush[f] = NoFlush
FlushAt(f, pc) == flush[f] # NoFlush /\ flush[f].pc = pc

\* flushMetrics, up to the wait for a connection.
Begin(f) ==
  /\ flush[f] = NoFlush
  /\ flush' = [flush EXCEPT ![f] = [pc |-> "connect", sent |-> Zero]]
  /\ again' = (again \/ ~Idle)

\* recordMetrics: a flush is started when enough is pending, also when one
\* runs.  What is recorded after a flush has read the counters gets lost
\* with its reset.
Record(o) ==
  /\ ~stopping
  /\ Total(counted) < MaxResults
  /\ counted' = [counted EXCEPT ![o] = @ + 1]
  /\ pending' = [pending EXCEPT ![o] = @ + 1]
  /\ lost' = (lost \/ \E f \in Flushes : FlushAt(f, "sent") \/ FlushAt(f, "stored"))
  /\ IF Total(pending') >= FlushEvery
       THEN \E f \in Flushes : Begin(f)
       ELSE UNCHANGED <<flush, again>>
  /\ UNCHANGED <<stored, stopping>>

\* SIGTERM and SIGINT.
Stop ==
  /\ ~stopping /\ stopping' = TRUE
  /\ IF pending = Zero THEN UNCHANGED <<flush, again>> ELSE \E f \in Flushes : Begin(f)
  /\ UNCHANGED <<counted, pending, stored, lost>>

\* The counters are read when the connection is there.
Send(f) ==
  /\ FlushAt(f, "connect")
  /\ flush' = [flush EXCEPT ![f] = [pc |-> "sent", sent |-> pending]]
  /\ UNCHANGED <<counted, pending, stored, stopping, again, lost>>

\* Mistake: the row is replaced instead of added to.
UpsertReplaces(f) ==
  /\ FlushAt(f, "sent")
  /\ stored' = flush[f].sent
  /\ flush' = [flush EXCEPT ![f].pc = "stored"]
  /\ UNCHANGED <<counted, pending, stopping, again, lost>>

\* upsertWorkerMetrics: ON CONFLICT adds to the row.
Upsert(f) ==
  /\ FlushAt(f, "sent")
  /\ stored' = Plus(stored, flush[f].sent)
  /\ flush' = [flush EXCEPT ![f].pc = "stored"]
  /\ UNCHANGED <<counted, pending, stopping, again, lost>>

Reset(f) ==
  /\ FlushAt(f, "stored")
  /\ pending' = Zero
  /\ flush' = [flush EXCEPT ![f] = NoFlush]
  /\ UNCHANGED <<counted, stored, stopping, again, lost>>

\* No connection, or the statement fails: everything stays pending.  If it
\* was only the answer that failed, the counts are written again.
FlushFails(f) ==
  /\ flush[f] # NoFlush
  /\ flush' = [flush EXCEPT ![f] = NoFlush]
  /\ again' = (again \/ FlushAt(f, "stored"))
  /\ UNCHANGED <<counted, pending, stored, stopping, lost>>

\* After the flush of SIGTERM, or at any time: what is pending is gone.
WorkerEnds ==
  /\ pending' = Zero
  /\ flush' = [f \in Flushes |-> NoFlush]
  /\ stopping' = FALSE
  /\ lost' = (lost \/ (pending # Zero /\ ~\E f \in Flushes : FlushAt(f, "stored")))
  /\ UNCHANGED <<counted, stored, again>>

MetricsNext ==
  \/ \E o \in Outcomes : Record(o)
  \/ Stop \/ WorkerEnds
  \/ \E f \in Flushes : Send(f) \/ Upsert(f) \/ Reset(f) \/ FlushFails(f)

MetricsSpec == MetricsInit /\ [][MetricsNext]_metricsVars

-----------------------------------------------------------------------------
MetricsTypeOK ==
  /\ counted \in [Outcomes -> 0 .. MaxResults]
  /\ pending \in [Outcomes -> 0 .. MaxResults]
  /\ stored \in [Outcomes -> Nat]
  /\ flush \in [Flushes -> FlushStates \cup {NoFlush}]
  /\ stopping \in BOOLEAN /\ again \in BOOLEAN /\ lost \in BOOLEAN

\* What a running flush has stored and not yet taken off the pending counts.
Unreset(o) ==
  LET storedBy == {f \in Flushes : FlushAt(f, "stored")}
  IN IF storedBy = {} THEN 0 ELSE flush[CHOOSE f \in storedBy : TRUE].sent[o]

\* The row never counts a result twice, unless two flushes overlapped or the
\* answer of one was lost; and it misses none, but for those that were
\* recorded during a flush or pending when the process ended (index.js:184-207).
CountsAreExact ==
  \A o \in Outcomes :
    /\ ~again => stored[o] + pending[o] <= counted[o] + Unreset(o)
    /\ ~lost => stored[o] + pending[o] >= counted[o] + Unreset(o)
=============================================================================
