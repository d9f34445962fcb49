---------------------------- MODULE IntakeWorker ----------------------------
(***************************************************************************)
(* The intake worker (ops/intake-worker): processes that take Event Grid   *)
(* messages off an Azure Storage Queue, claim the uploaded file in         *)
(* app.ingest_files, hand it to the ingest API of the gateway and record   *)
(* the outcome.  Several workers may run; each may be killed at any        *)
(* instruction and is restarted by systemd.  The queue delivers at least   *)
(* once: a message that is received becomes visible again when its         *)
(* visibility timeout ends, whether or not its receiver is still at work.  *)
(*                                                                         *)
(* Every await of the code is a boundary between two steps here.  The      *)
(* visibility timeout (30 s) and the API timeout (15 s) are not timed:     *)
(* either may end at any point of the processing of a batch, which the     *)
(* code allows, because a batch of ten may take ten API timeouts.          *)
(***************************************************************************)
EXTENDS IngestStore, Sequences, FiniteSets

CONSTANTS
  Workers,
  Ids,              \* identities of messages of the main queue
  Texts,            \* message bodies Event Grid may put on the queue
  Unparsable,       \* the bodies parseEvents throws on
  Events,           \* the events in those bodies
  Body,             \* Body[t]: the sequence of events parseEvents returns
  Kind,             \* what processEvent finds out about an event
  Content,          \* Content[e]: content of the whole blob the event names
  Truncated,        \* Truncated[e]: contents of the prefixes of that blob
  Readable,         \* events whose storage_uri the gateway can open
  BatchSize,        \* numberOfMessages of receiveMessages
  MaxDequeueCount,  \* deliveries after which a failing message is poisoned
  Budget,           \* Budget[f]: how many faults of kind f may happen
  MaxMix,           \* how many kinds of faults may happen in one behaviour
  None

\* "other": not a BlobCreated event.  "noUri": no data.url.  "mangled": the
\* url or the subject cannot be decoded.  "badPath": the subject names no
\* tenant.  "invalid": extension, size or XML is refused.
Kinds == {"other", "noUri", "mangled", "badPath", "invalid", "valid"}

\* "crash": a process dies.  "statement": a SQL statement fails or its answer
\* is lost.  "download": blob storage fails.  "gateway": the API call fails.
\* "queue": a queue call fails.  "lease": a visibility timeout ends while the
\* receiver is still at work.  "redrive": the operator redrives a message.
FaultKinds == {"crash", "statement", "download", "gateway", "queue", "lease", "redrive"}

ASSUME ConstantsAssumption ==
  /\ Unparsable \subseteq Texts
  /\ Body \in [Texts -> Seq(Events)]
  /\ Kind \in [Events -> Kinds]
  /\ Content \in [Events -> Contents]
  /\ Truncated \in [Events -> SUBSET Contents]
  /\ Readable \subseteq Events
  /\ BatchSize \in Nat \ {0}
  /\ MaxDequeueCount \in Nat \ {0}
  /\ Budget \in [FaultKinds -> Nat]
  /\ MaxMix \in Nat

VARIABLES
  rows,       \* app.ingest_files
  queue,      \* the main queue, by message identity
  poison,     \* poison[t]: copies of body t on the poison queue
  redriving,  \* body redrive_poison_queue.js sent and has yet to delete
  pc,         \* where each worker is
  batch,      \* deliveries it received and has not started on
  current,    \* delivery it is handling
  position,   \* index of the event it is handling in the body
  content,    \* hash it computed for that event
  broken,     \* its download ended in a stream error
  failing,    \* a result of this message was FAILED and retryable
  reply,      \* answer of the ingest API it has not looked at
  requests,   \* requests the gateway has not finished
  stored,     \* contents the gateway committed
  calls,      \* calls[c]: POSTs of callIngestApi about c, ever
  faults      \* faults[f]: faults of kind f so far

azure == <<queue, poison, redriving>>
local == <<batch, current, position, content, broken, failing, reply>>
gateway == <<requests, stored, calls>>
vars == <<rows, azure, pc, local, gateway, faults>>

Message == [state : {"unsent", "visible", "hidden", "done", "poisoned"},
            text : Texts \cup {None}, count : Nat, redriven : BOOLEAN]

\* The count of a delivery is also its pop receipt: both are new each time
\* the message is received.
Delivery == [id : Ids, count : Nat]

Request == [worker : Workers, event : Events]

Idle == {"next", "down"}
RowSteps == {"upsert", "claim", "fetch", "markDuplicate", "markFailed", "markIngested"}
Owning == {"submit", "await", "markFailed", "markIngested"}
Labels == Idle \cup RowSteps \cup Owning \cup {"event", "ack", "catch", "poison", "unqueue"}

TypeOK ==
  /\ rows \in [Contents -> Row]
  /\ queue \in [Ids -> Message]
  /\ poison \in [Texts -> Nat]
  /\ redriving \in Texts \cup {None}
  /\ pc \in [Workers -> Labels]
  /\ batch \in [Workers -> SUBSET Delivery]
  /\ current \in [Workers -> Delivery \cup {None}]
  /\ position \in [Workers -> Nat]
  /\ content \in [Workers -> Contents \cup {None}]
  /\ broken \in [Workers -> BOOLEAN]
  /\ failing \in [Workers -> BOOLEAN]
  /\ reply \in [Workers -> {"none", "ok", "error"}]
  /\ requests \subseteq Request
  /\ stored \subseteq Contents
  /\ calls \in [Contents -> Nat]
  /\ faults \in [FaultKinds -> Nat]

Init ==
  /\ rows = EmptyTable
  /\ queue = [i \in Ids |-> [state |-> "unsent", text |-> None, count |-> 0, redriven |-> FALSE]]
  /\ poison = [t \in Texts |-> 0]
  /\ redriving = None
  /\ pc = [w \in Workers |-> "next"]
  /\ batch = [w \in Workers |-> {}]
  /\ current = [w \in Workers |-> None]
  /\ position = [w \in Workers |-> 0]
  /\ content = [w \in Workers |-> None]
  /\ broken = [w \in Workers |-> FALSE]
  /\ failing = [w \in Workers |-> FALSE]
  /\ reply = [w \in Workers |-> "none"]
  /\ requests = {}
  /\ stored = {}
  /\ calls = [c \in Contents |-> 0]
  /\ faults = [f \in FaultKinds |-> 0]

-----------------------------------------------------------------------------
(***************************************************************************)
(* Helpers.                                                                *)
(***************************************************************************)

Spend(fault) ==
  /\ faults[fault] < Budget[fault]
  /\ Cardinality({f \in FaultKinds \ {fault} : faults[f] > 0}) < MaxMix
  /\ faults' = [faults EXCEPT ![fault] = @ + 1]

Goto(w, label) == pc' = [pc EXCEPT ![w] = label]

\* The message and the event that worker w is handling.
Text(w) == queue[current[w].id].text
Event(w) == Body[Text(w)][position[w]]
AtEvent(w) == pc[w] = "event" /\ position[w] <= Len(Body[Text(w)])

\* The process of w is gone, or has not begun: it holds nothing.
Forget(w) ==
  /\ batch' = [batch EXCEPT ![w] = {}]
  /\ current' = [current EXCEPT ![w] = None]
  /\ position' = [position EXCEPT ![w] = 0]
  /\ content' = [content EXCEPT ![w] = None]
  /\ broken' = [broken EXCEPT ![w] = FALSE]
  /\ failing' = [failing EXCEPT ![w] = FALSE]
  /\ reply' = [reply EXCEPT ![w] = "none"]

\* processEvent returned a result; intakeHandler goes on with the next event.
Return(w, retryable) ==
  /\ Goto(w, "event")
  /\ position' = [position EXCEPT ![w] = @ + 1]
  /\ failing' = [failing EXCEPT ![w] = @ \/ retryable]
  /\ content' = [content EXCEPT ![w] = None]
  /\ broken' = [broken EXCEPT ![w] = FALSE]
  /\ reply' = [reply EXCEPT ![w] = "none"]
  /\ UNCHANGED <<batch, current>>

\* The loop of main goes on with the next message of the batch.
NextMessage(w) ==
  /\ Goto(w, "next")
  /\ current' = [current EXCEPT ![w] = None]
  /\ position' = [position EXCEPT ![w] = 0]
  /\ content' = [content EXCEPT ![w] = None]
  /\ broken' = [broken EXCEPT ![w] = FALSE]
  /\ failing' = [failing EXCEPT ![w] = FALSE]
  /\ reply' = [reply EXCEPT ![w] = "none"]
  /\ UNCHANGED batch

-----------------------------------------------------------------------------
(***************************************************************************)
(* The storage queue (external).                                           *)
(***************************************************************************)

InQueue(i) == queue[i].state \in {"visible", "hidden"}

\* A delivery can delete its message until the message is received again.
ReceiptValid(d) == InQueue(d.id) /\ queue[d.id].count = d.count

\* Some running worker still means to work on the latest delivery of i.
Held(i) ==
  \E w \in Workers :
    \E d \in batch[w] \cup (IF pc[w] \in Idle THEN {} ELSE {current[w]}) :
      d.id = i /\ d.count = queue[i].count

Send(i, t, again) ==
  /\ queue[i].state = "unsent"
  /\ queue' = [queue EXCEPT ![i] =
                 [state |-> "visible", text |-> t, count |-> 0, redriven |-> again]]

\* Event Grid delivers at least once: the same body may be sent repeatedly.
Publish(i, t) ==
  /\ Send(i, t, FALSE)
  /\ UNCHANGED <<rows, poison, redriving, pc, local, gateway, faults>>

Reappear(i) ==
  /\ queue[i].state = "hidden"
  /\ queue' = [queue EXCEPT ![i].state = "visible"]
  /\ IF Held(i) THEN Spend("lease") ELSE UNCHANGED faults
  /\ UNCHANGED <<rows, poison, redriving, pc, local, gateway>>

-----------------------------------------------------------------------------
(***************************************************************************)
(* queueWorker.js: the loop of main and handleMessage.                     *)
(***************************************************************************)

\* receiveMessages: the order of the batch is the queue's, so it is left open.
Receive(w) ==
  /\ pc[w] = "next" /\ batch[w] = {}
  /\ \E some \in SUBSET {i \in Ids : queue[i].state = "visible"} :
       /\ some # {} /\ Cardinality(some) <= BatchSize
       /\ queue' = [i \in Ids |->
                      IF i \in some
                      THEN [queue[i] EXCEPT !.state = "hidden", !.count = @ + 1]
                      ELSE queue[i]]
       /\ batch' = [batch EXCEPT ![w] = {[id |-> i, count |-> queue[i].count + 1] : i \in some}]
  /\ UNCHANGED <<rows, poison, redriving, pc, current, position, content, broken,
                 failing, reply, gateway, faults>>

Take(w) ==
  /\ pc[w] = "next"
  /\ \E d \in batch[w] :
       /\ batch' = [batch EXCEPT ![w] = @ \ {d}]
       /\ current' = [current EXCEPT ![w] = d]
       /\ Goto(w, IF queue[d.id].text \in Unparsable THEN "catch" ELSE "event")
  /\ position' = [position EXCEPT ![w] = 1]
  /\ UNCHANGED <<rows, azure, content, broken, failing, reply, gateway, faults>>

\* Mistake: results that ask for a retry are ignored.
EndWithoutRetry(w) ==
  /\ pc[w] = "event" /\ position[w] > Len(Body[Text(w)])
  /\ Goto(w, "ack")
  /\ UNCHANGED <<rows, azure, local, gateway, faults>>

\* All events are done: handleMessage throws if a result was retryable.
EndOfEvents(w) ==
  /\ pc[w] = "event" /\ position[w] > Len(Body[Text(w)])
  /\ Goto(w, IF failing[w] THEN "catch" ELSE "ack")
  /\ UNCHANGED <<rows, azure, local, gateway, faults>>

\* Mistake: a delete that is refused is tried again until it works.
AckUntilDone(w) ==
  /\ pc[w] = "ack"
  /\ ReceiptValid(current[w])
  /\ queue' = [queue EXCEPT ![current[w].id].state = "done"]
  /\ NextMessage(w)
  /\ UNCHANGED <<rows, poison, redriving, gateway, faults>>

\* deleteMessage after success; with a stale receipt it throws into the catch.
Ack(w) ==
  /\ pc[w] = "ack"
  /\ IF ReceiptValid(current[w])
     THEN /\ queue' = [queue EXCEPT ![current[w].id].state = "done"]
          /\ NextMessage(w)
     ELSE /\ Goto(w, "catch")
          /\ UNCHANGED <<queue, local>>
  /\ UNCHANGED <<rows, poison, redriving, gateway, faults>>

\* The call fails, before or after the queue deleted the message.
AckFails(w) ==
  /\ pc[w] = "ack"
  /\ Spend("queue")
  /\ \/ UNCHANGED queue
     \/ /\ ReceiptValid(current[w])
        /\ queue' = [queue EXCEPT ![current[w].id].state = "done"]
  /\ Goto(w, "catch")
  /\ UNCHANGED <<rows, poison, redriving, local, gateway>>

\* Below the limit the message is left to reappear.
Catch(w) ==
  /\ pc[w] = "catch"
  /\ IF current[w].count >= MaxDequeueCount
     THEN Goto(w, "poison") /\ UNCHANGED local
     ELSE NextMessage(w)
  /\ UNCHANGED <<rows, azure, gateway, faults>>

\* Mistake: a failed send to the poison queue is swallowed.
SendNoPoison(w) ==
  /\ pc[w] = "poison"
  /\ Goto(w, "unqueue")
  /\ UNCHANGED <<rows, azure, local, gateway, faults>>

SendPoison(w) ==
  /\ pc[w] = "poison"
  /\ poison' = [poison EXCEPT ![Text(w)] = @ + 1]
  /\ Goto(w, "unqueue")
  /\ UNCHANGED <<rows, queue, redriving, local, gateway, faults>>

\* deleteMessage after poisoning is outside the try: if it throws, so does
\* main, and the process exits.
Unqueue(w) ==
  /\ pc[w] = "unqueue"
  /\ IF ReceiptValid(current[w])
     THEN /\ queue' = [queue EXCEPT ![current[w].id].state = "poisoned"]
          /\ NextMessage(w)
     ELSE /\ Goto(w, "down")
          /\ Forget(w)
          /\ UNCHANGED queue
  /\ UNCHANGED <<rows, poison, redriving, gateway, faults>>

\* A kill, a signal, or a queue call outside the try that fails.
Crash(w) ==
  /\ pc[w] # "down"
  /\ Spend("crash")
  /\ Goto(w, "down")
  /\ Forget(w)
  /\ UNCHANGED <<rows, azure, gateway>>

Restart(w) ==
  /\ pc[w] = "down"
  /\ Goto(w, "next")
  /\ UNCHANGED <<rows, azure, local, gateway, faults>>

-----------------------------------------------------------------------------
(***************************************************************************)
(* BlobCreatedIntake/index.js: processEvent, up to the claim.              *)
(***************************************************************************)

SkipEvent(w) ==
  /\ AtEvent(w) /\ Kind[Event(w)] = "other"
  /\ Return(w, FALSE)
  /\ UNCHANGED <<rows, azure, gateway, faults>>

\* MISSING_STORAGE_URI and INVALID_PATH: FAILED without a row.
RefuseEvent(w) ==
  /\ AtEvent(w) /\ Kind[Event(w)] \in {"noUri", "badPath"}
  /\ Return(w, TRUE)
  /\ UNCHANGED <<rows, azure, gateway, faults>>

\* decodeURIComponent or new URL throws: the rest of the body is not handled.
EventThrows(w) ==
  /\ AtEvent(w) /\ Kind[Event(w)] = "mangled"
  /\ Goto(w, "catch")
  /\ UNCHANGED <<rows, azure, local, gateway, faults>>

BlobAccessFails(w) ==
  /\ AtEvent(w) /\ Kind[Event(w)] \in {"badPath", "invalid", "valid"}
  /\ Spend("download")
  /\ Return(w, TRUE)
  /\ UNCHANGED <<rows, azure, gateway>>

Hashed(w, c, streamError) ==
  /\ AtEvent(w) /\ Kind[Event(w)] \in {"invalid", "valid"}
  /\ content' = [content EXCEPT ![w] = c]
  /\ broken' = [broken EXCEPT ![w] = streamError]
  /\ Goto(w, "upsert")
  /\ UNCHANGED <<rows, azure, batch, current, position, failing, reply, gateway>>

Download(w) == Hashed(w, Content[Event(w)], FALSE) /\ UNCHANGED faults

\* A stream error: the hash of what was read so far is used all the same.
DownloadBreaks(w) ==
  /\ AtEvent(w)
  /\ \E c \in Truncated[Event(w)] : Hashed(w, c, TRUE)
  /\ Spend("download")

\* What the statement worker w is about to execute does to the table.
Executed(w) ==
  CASE pc[w] = "upsert" -> UpsertIngestFile(rows, content[w])
    [] pc[w] = "claim" -> ClaimIngestFile(rows, content[w])
    [] pc[w] = "fetch" -> rows
    [] pc[w] = "markDuplicate" -> MarkDuplicate(rows, content[w])
    [] pc[w] = "markFailed" -> MarkFailed(rows, content[w])
    [] pc[w] = "markIngested" -> MarkIngested(rows, content[w])

Upsert(w) ==
  /\ pc[w] = "upsert"
  /\ rows' = Executed(w)
  /\ Goto(w, "claim")
  /\ UNCHANGED <<azure, local, gateway, faults>>

\* Mistake: a refused file is reported by an exception, without markFailed.
ClaimThenThrow(w) ==
  /\ pc[w] = "claim"
  /\ rows' = Executed(w)
  /\ Goto(w, IF ~Claimable(rows, content[w]) THEN "fetch"
             ELSE IF broken[w] \/ Kind[Event(w)] = "invalid" THEN "catch"
             ELSE "submit")
  /\ UNCHANGED <<azure, local, gateway, faults>>

\* A claimed content is refused at once for a broken download or a failed
\* check of extension, size or XML.
Claim(w) ==
  /\ pc[w] = "claim"
  /\ rows' = Executed(w)
  /\ Goto(w, IF ~Claimable(rows, content[w]) THEN "fetch"
             ELSE IF broken[w] \/ Kind[Event(w)] = "invalid" THEN "markFailed"
             ELSE "submit")
  /\ UNCHANGED <<azure, local, gateway, faults>>

\* Not claimed: INGESTED is a duplicate, FAILED is retried, and everything
\* else counts as being in the hands of another worker.
Fetch(w) ==
  /\ pc[w] = "fetch"
  /\ LET status == FetchIngestStatus(rows, content[w])
     IN IF status = "INGESTED"
        THEN Goto(w, "markDuplicate") /\ UNCHANGED local
        ELSE Return(w, status = "FAILED")
  /\ UNCHANGED <<rows, azure, gateway, faults>>

DuplicateMarked(w) ==
  /\ pc[w] = "markDuplicate"
  /\ rows' = Executed(w)
  /\ Return(w, FALSE)
  /\ UNCHANGED <<azure, gateway, faults>>

-----------------------------------------------------------------------------
(***************************************************************************)
(* processEvent, from the claim on, and the gateway's side of the call.    *)
(***************************************************************************)

Submit(w) ==
  /\ pc[w] = "submit"
  /\ requests' = requests \cup {[worker |-> w, event |-> Event(w)]}
  /\ calls' = [calls EXCEPT ![content[w]] = @ + 1]
  /\ Goto(w, "await")
  /\ UNCHANGED <<rows, azure, local, stored, faults>>

\* Mistake: the error of the call is not caught in processEvent.
CallThrows(w) ==
  /\ pc[w] \in {"submit", "await"}
  /\ Spend("gateway")
  /\ Goto(w, "catch")
  /\ UNCHANGED <<rows, azure, local, gateway>>

\* No token, connection refused, or the abort after ingestTimeoutMs: a
\* request that was sent stays with the gateway.
CallFails(w) ==
  /\ pc[w] \in {"submit", "await"}
  /\ Spend("gateway")
  /\ Goto(w, "markFailed")
  /\ UNCHANGED <<rows, azure, local, gateway>>

\* Mistake: any response counts as a success.
AnswerUnread(w) ==
  /\ pc[w] = "await" /\ reply[w] # "none"
  /\ Goto(w, "markIngested")
  /\ UNCHANGED <<rows, azure, local, gateway, faults>>

Answer(w) ==
  /\ pc[w] = "await" /\ reply[w] # "none"
  /\ Goto(w, IF reply[w] = "ok" THEN "markIngested" ELSE "markFailed")
  /\ UNCHANGED <<rows, azure, local, gateway, faults>>

FailureMarked(w) ==
  /\ pc[w] = "markFailed"
  /\ rows' = Executed(w)
  /\ Return(w, TRUE)
  /\ UNCHANGED <<azure, gateway, faults>>

IngestMarked(w) ==
  /\ pc[w] = "markIngested"
  /\ rows' = Executed(w)
  /\ Return(w, FALSE)
  /\ UNCHANGED <<azure, gateway, faults>>

\* A statement throws, before or after it took effect: processEvent and
\* handleMessage pass the error on, the rest of the body is not handled.
StatementFails(w) ==
  /\ pc[w] \in RowSteps
  /\ Spend("statement")
  /\ rows' \in {rows, Executed(w)}
  /\ Goto(w, "catch")
  /\ UNCHANGED <<azure, local, gateway>>

\* The response reaches the worker if it is still waiting for it.
Respond(r, status) ==
  /\ r \in requests
  /\ requests' = requests \ {r}
  /\ reply' = IF pc[r.worker] = "await" /\ content[r.worker] = Content[r.event]
              THEN [reply EXCEPT ![r.worker] = status]
              ELSE reply
  /\ UNCHANGED <<rows, azure, pc, batch, current, position, content, broken, failing, calls>>

GatewayStores(r) ==
  /\ r.event \in Readable
  /\ Respond(r, "ok")
  /\ stored' = stored \cup {Content[r.event]}
  /\ UNCHANGED faults

\* A storage_uri it cannot open is refused; so is a file when it fails.
GatewayRefuses(r) ==
  /\ Respond(r, "error")
  /\ IF r.event \in Readable THEN Spend("gateway") ELSE UNCHANGED faults
  /\ UNCHANGED stored

-----------------------------------------------------------------------------
(***************************************************************************)
(* redrive_poison_queue.js.                                                *)
(***************************************************************************)

RedriveSend(i, t) ==
  /\ redriving = None /\ poison[t] > 0
  /\ Spend("redrive")
  /\ Send(i, t, TRUE)
  /\ redriving' = t
  /\ UNCHANGED <<rows, poison, pc, local, gateway>>

\* Mistake: the message just moved is deleted again and again.
RedriveDeleteRepeats ==
  /\ redriving # None
  /\ poison' = [poison EXCEPT ![redriving] = @ - 1]
  /\ UNCHANGED <<rows, queue, redriving, pc, local, gateway, faults>>

RedriveDelete ==
  /\ redriving # None
  /\ poison' = [poison EXCEPT ![redriving] = @ - 1]
  /\ redriving' = None
  /\ UNCHANGED <<rows, queue, pc, local, gateway, faults>>

\* The script dies or its delete fails: the copy stays on the poison queue.
RedriveStops ==
  /\ redriving # None
  /\ Spend("crash")
  /\ redriving' = None
  /\ UNCHANGED <<rows, queue, poison, pc, local, gateway>>

-----------------------------------------------------------------------------

\* Steps of a worker that no fault causes.
WorkerStep(w) ==
  \/ Receive(w) \/ Take(w) \/ EndOfEvents(w) \/ Ack(w) \/ Catch(w)
  \/ SendPoison(w) \/ Unqueue(w) \/ Restart(w)
  \/ SkipEvent(w) \/ RefuseEvent(w) \/ EventThrows(w) \/ Download(w)
  \/ Upsert(w) \/ Claim(w) \/ Fetch(w) \/ DuplicateMarked(w)
  \/ Submit(w) \/ Answer(w) \/ FailureMarked(w) \/ IngestMarked(w)

WorkerFault(w) ==
  \/ AckFails(w) \/ Crash(w) \/ BlobAccessFails(w) \/ DownloadBreaks(w)
  \/ CallFails(w) \/ StatementFails(w)

GatewayStep == \E r \in requests : GatewayStores(r) \/ GatewayRefuses(r)

Redrive == RedriveDelete \/ RedriveStops \/ (\E i \in Ids, t \in Texts : RedriveSend(i, t))

Next ==
  \/ \E w \in Workers : WorkerStep(w) \/ WorkerFault(w)
  \/ \E i \in Ids : Reappear(i) \/ (\E t \in Texts : Publish(i, t))
  \/ GatewayStep
  \/ Redrive

Spec == Init /\ [][Next]_vars

\* Node keeps a running worker running and systemd restarts it, a visibility
\* timeout ends, and the gateway answers.  Nobody has to publish or redrive.
Fairness ==
  /\ \A w \in Workers : WF_vars(WorkerStep(w))
  /\ \A i \in Ids : WF_vars(Reappear(i) /\ ~Held(i))
  /\ WF_vars(GatewayStep)

FairSpec == Spec /\ Fairness

-----------------------------------------------------------------------------
(***************************************************************************)
(* Properties.                                                             *)
(***************************************************************************)

\* A worker between its claim and the statement that ends it has the content
\* to itself, and the row still says PROCESSING.  markFailed and markIngested
\* therefore never miss the row: processEvent ignores what they return.
ClaimIsExclusive ==
  /\ \A w, v \in Workers :
       pc[w] \in Owning /\ pc[v] \in Owning /\ content[w] = content[v] => w = v
  /\ \A w \in Workers : pc[w] \in Owning => rows[content[w]].status = "PROCESSING"

\* The gateway is asked about a content once at most, whatever is delivered
\* again, redriven or restarted; a row says INGESTED only when the gateway
\* stored the content, also when the answer races the abort of the call; and
\* only ingested contents count duplicates, although markDuplicate acts on a
\* status read two statements earlier.
GatewayAgrees ==
  \A c \in Contents :
    /\ calls[c] <= 1
    /\ rows[c].status = "INGESTED" => c \in stored
    /\ c \in stored => calls[c] = 1
    /\ rows[c].duplicates > 0 => rows[c].status = "INGESTED"

\* The fate of the one request about c, as IngestRegistry names it.
RequestFate(c) ==
  IF calls[c] = 0 THEN "none"
  ELSE IF c \in stored THEN "stored"
  ELSE IF \E r \in requests : Content[r.event] = c THEN "open"
  ELSE "refused"

Registry == INSTANCE IngestRegistry WITH
  status <- [c \in Contents |-> rows[c].status],
  duplicates <- [c \in Contents |-> rows[c].duplicates],
  request <- [c \in Contents |-> RequestFate(c)]

\* The workers together, with every crash, redelivery and lost answer, do to
\* each content what IngestRegistry says: one claim, one request, one end.
RegistrySpec == Registry!Spec

\* Event e left a trace in the table: a content its download can hash to was
\* claimed.
Accounted(e) ==
  \E c \in {Content[e]} \cup Truncated[e] : Claimed(rows, c)

\* A message that is deleted as processed was: no event of it was refused
\* without a row, and each of its files had been claimed.  What fails stays
\* on the queue or goes to the poison queue, also when a statement throws in
\* the middle of a body of several events.
DoneIsAccounted ==
  \A i \in Ids : queue[i].state = "done" =>
    /\ queue[i].text \notin Unparsable
    /\ \A n \in 1 .. Len(Body[queue[i].text]) :
         LET e == Body[queue[i].text][n]
         IN /\ Kind[e] \notin {"noUri", "mangled", "badPath"}
            /\ Kind[e] \in {"invalid", "valid"} => Accounted(e)

\* No body is lost on its way to the poison queue and back: every message
\* given up on has a copy there, or was sent to the main queue again.
PoisonKeepsBodies ==
  \A t \in Texts :
    Cardinality({i \in Ids : queue[i].state = "poisoned" /\ queue[i].text = t})
      <= poison[t] + Cardinality({i \in Ids : queue[i].redriven /\ queue[i].text = t})

\* A row stays PROCESSING with no worker behind it only after a crash or a
\* failed statement, and each of them strands one content at most.
StrandedNeedsFault ==
  Cardinality({c \in Contents :
      /\ rows[c].status = "PROCESSING"
      /\ \A w \in Workers : pc[w] \in Owning => content[w] # c})
    <= faults["crash"] + faults["statement"]

\* Every message Event Grid delivers leaves the main queue: it is processed
\* or it is poisoned after MaxDequeueCount deliveries.
MessageSettles ==
  \A i \in Ids : queue[i].state = "visible" ~> queue[i].state \in {"done", "poisoned"}

\* A valid file that is announced ends up INGESTED.
FileIngested ==
  \A i \in Ids, e \in Events :
    queue[i].state = "visible" /\ Kind[e] = "valid" /\ (\E n \in 1 .. Len(Body[queue[i].text]) :
                                                         Body[queue[i].text][n] = e)
      ~> rows[Content[e]].status = "INGESTED"

\* A claim is followed by one of the two states the intake ends in.
ClaimEnds ==
  \A c \in Contents :
    rows[c].status = "PROCESSING" ~> rows[c].status \in {"INGESTED", "FAILED"}

\* With no fault at all every valid file is ingested, for any number of
\* workers and of repeated deliveries.
CleanFileIngested == [](\A f \in FaultKinds : faults[f] = 0) => FileIngested

\* Expired leases, failed downloads, API timeouts and failed queue calls leave
\* no claim without an end: only a crash or a failed statement can.
LiveClaimEnds == [](faults["crash"] = 0 /\ faults["statement"] = 0) => ClaimEnds

\* A FAILED content is not in the gateway's store.
FailedIsNotStored ==
  \A c \in Contents : rows[c].status = "FAILED" => c \notin stored
=============================================================================
