------------------------ MODULE IntakeOutcomeProofs ------------------------
(***************************************************************************)
(* Theorems about IntakeWorker that speak of several messages or contents  *)
(* at once: what a deleted message stands for, what the poison queue       *)
(* holds, how many rows are left without a worker, and that the workers    *)
(* implement IngestRegistry.                                               *)
(***************************************************************************)
EXTENDS IntakeWorkerProofs, FiniteSetTheorems

-----------------------------------------------------------------------------
(***************************************************************************)
(* Counting.                                                               *)
(***************************************************************************)

\* A finite set that gains one element at most counts one more at most.
LEMMA OneMore ==
  ASSUME NEW S, IsFiniteSet(S), NEW x, NEW T, T \subseteq S \cup {x}
  PROVE  /\ IsFiniteSet(T)
         /\ Cardinality(S) \in Nat /\ Cardinality(T) \in Nat
         /\ Cardinality(T) <= Cardinality(S) + 1
<1>1. /\ IsFiniteSet(S \cup {x})
      /\ Cardinality(S \cup {x}) = IF x \in S THEN Cardinality(S) ELSE Cardinality(S) + 1
  BY FS_AddElement
<1>2. IsFiniteSet(T) /\ Cardinality(T) <= Cardinality(S \cup {x}) BY <1>1, FS_Subset
<1>3. Cardinality(S) \in Nat /\ Cardinality(T) \in Nat BY <1>2, FS_CardinalityType
<1>4. QED BY <1>1, <1>2, <1>3

\* One that gains none counts no more.
LEMMA NoMore ==
  ASSUME NEW S, IsFiniteSet(S), NEW T, T \subseteq S
  PROVE  /\ IsFiniteSet(T)
         /\ Cardinality(S) \in Nat /\ Cardinality(T) \in Nat
         /\ Cardinality(T) <= Cardinality(S)
<1>1. IsFiniteSet(T) /\ Cardinality(T) <= Cardinality(S) BY FS_Subset
<1>2. QED BY <1>1, FS_CardinalityType

-----------------------------------------------------------------------------
(***************************************************************************)
(* What every step does to the queue, the table and the other workers.     *)
(***************************************************************************)

\* The step is one of w.
OnlyMoves(w) == \A v \in Workers : v # w => Untouched(v) /\ failing'[v] = failing[v]

LEMMA WorkerMovesAlone ==
  ASSUME IInv, NEW w \in Workers, WorkerStep(w) \/ WorkerFault(w)
  PROVE  OnlyMoves(w)
<1>1. TypeOK BY DEF IInv
<1>2. CASE Receive(w) BY <1>1, <1>2 DEF OnlyMoves, Untouched, TypeOK, Receive
<1>3. CASE Take(w) BY <1>1, <1>3 DEF OnlyMoves, Untouched, TypeOK, Take, Goto
<1>4. CASE EndOfEvents(w) \/ EventThrows(w) \/ Restart(w) \/ AckFails(w)
  BY <1>1, <1>4
     DEF OnlyMoves, Untouched, TypeOK, EndOfEvents, EventThrows, Restart, AckFails, Goto, local
<1>5. CASE Upsert(w) \/ Claim(w) \/ Submit(w) \/ Answer(w) \/ CallFails(w) \/ StatementFails(w) \/ SendPoison(w)
  BY <1>1, <1>5
     DEF OnlyMoves, Untouched, TypeOK, Upsert, Claim, Submit, Answer, CallFails, StatementFails,
         SendPoison, Goto, local
<1>6. CASE Ack(w) \/ Catch(w)
  BY <1>1, <1>6 DEF OnlyMoves, Untouched, TypeOK, Ack, Catch, Goto, NextMessage, local
<1>7. CASE Unqueue(w) \/ Crash(w)
  BY <1>1, <1>7 DEF OnlyMoves, Untouched, TypeOK, Unqueue, Crash, Goto, NextMessage, Forget
<1>8. CASE SkipEvent(w) \/ RefuseEvent(w) \/ BlobAccessFails(w)
  BY <1>1, <1>8
     DEF OnlyMoves, Untouched, TypeOK, SkipEvent, RefuseEvent, BlobAccessFails, Return, Goto
<1>9. CASE Fetch(w) BY <1>1, <1>9 DEF OnlyMoves, Untouched, TypeOK, Fetch, Return, Goto, local
<1>10. CASE DuplicateMarked(w) \/ FailureMarked(w) \/ IngestMarked(w)
  BY <1>1, <1>10
     DEF OnlyMoves, Untouched, TypeOK, DuplicateMarked, FailureMarked, IngestMarked, Return, Goto
<1>11. CASE Download(w) \/ DownloadBreaks(w)
  BY <1>1, <1>11 DEF OnlyMoves, Untouched, TypeOK, Download, DownloadBreaks, Hashed, Goto
<1>12. QED
  BY <1>2, <1>3, <1>4, <1>5, <1>6, <1>7, <1>8, <1>9, <1>10, <1>11 DEF WorkerStep, WorkerFault

\* What a step leaves alone that no worker takes part in.
LEMMA OthersMoveNoWorker ==
  ASSUME \/ \E i \in Ids : Reappear(i) \/ (\E t \in Texts : Publish(i, t))
         \/ GatewayStep \/ Redrive \/ UNCHANGED vars
  PROVE  UNCHANGED <<rows, pc, batch, current, position, content, broken, failing>>
BY DEF Reappear, Publish, GatewayStep, GatewayStores, GatewayRefuses, Respond, Redrive, RedriveSend,
       RedriveDelete, RedriveStops, vars, local

\* The steps that change the main queue.
LEMMA QueueMovers ==
  ASSUME [Next]_vars
  PROVE  \/ queue' = queue
         \/ \E w \in Workers : Receive(w) \/ Ack(w) \/ AckFails(w) \/ Unqueue(w)
         \/ \E i \in Ids : Reappear(i)
         \/ \E i \in Ids, t \in Texts : Publish(i, t) \/ RedriveSend(i, t)
<1>1. ASSUME NEW w \in Workers, WorkerStep(w) \/ WorkerFault(w)
      PROVE  queue' = queue \/ Receive(w) \/ Ack(w) \/ AckFails(w) \/ Unqueue(w)
  BY <1>1
     DEF WorkerStep, WorkerFault, Take, EndOfEvents, Catch, SendPoison, Restart, SkipEvent, RefuseEvent,
         EventThrows, Download, Hashed, Upsert, Claim, Fetch, DuplicateMarked, Submit, Answer,
         FailureMarked, IngestMarked, Crash, BlobAccessFails, DownloadBreaks, CallFails, StatementFails,
         azure
<1>2. GatewayStep \/ RedriveDelete \/ RedriveStops \/ UNCHANGED vars => queue' = queue
  BY DEF GatewayStep, GatewayStores, GatewayRefuses, Respond, RedriveDelete, RedriveStops, vars, azure
<1>3. QED BY <1>1, <1>2 DEF Next, Redrive

LEMMA StepGrows == ASSUME IInv, [Next]_vars PROVE QueueGrows /\ TableGrows
<1>1. QueueGrows
  <2>1. ASSUME NEW w \in Workers, Receive(w) PROVE QueueGrows BY <2>1, ReceiveGrows
  <2>2. ASSUME NEW w \in Workers, Ack(w) \/ AckFails(w) \/ Unqueue(w) PROVE QueueGrows
    <3>1. pc[w] \in Handling BY <2>2 DEF Ack, AckFails, Unqueue, Handling, Labels, Idle
    <3>2. QED BY <2>2, <3>1, DeleteGrows DEF Ack, AckFails, Unqueue
  <2>3. ASSUME NEW i \in Ids, Reappear(i) PROVE QueueGrows
    BY <2>3, MoveGrows DEF Reappear, IInv
  <2>4. ASSUME NEW i \in Ids, NEW t \in Texts, Publish(i, t) \/ RedriveSend(i, t) PROVE QueueGrows
    BY <2>4, SendGrows DEF Publish, RedriveSend
  <2>5. CASE queue' = queue BY <2>5, SameQueueGrows DEF IInv
  <2>6. QED BY <2>1, <2>2, <2>3, <2>4, <2>5, QueueMovers
<1>2. ASSUME NEW w \in Workers, WorkerStep(w) \/ WorkerFault(w) PROVE TableGrows
  <2>1. CASE rows' = rows BY <2>1, SameTableGrows DEF IInv
  <2>2. CASE rows' # rows
    <3>1. pc[w] \in RowSteps /\ rows' \in {rows, Executed(w)}
      BY <1>2, <2>2
         DEF WorkerStep, WorkerFault, Receive, Take, EndOfEvents, Ack, Catch, SendPoison, Unqueue,
             Restart, SkipEvent, RefuseEvent, EventThrows, Download, Hashed, Upsert, Claim, Fetch,
             DuplicateMarked, Submit, Answer, FailureMarked, IngestMarked, AckFails, Crash,
             BlobAccessFails, DownloadBreaks, CallFails, StatementFails, RowSteps
    <3>2. QED BY <3>1, StatementKeepsRows
  <2>3. QED BY <2>1, <2>2
<1>3. CASE \E w \in Workers : WorkerStep(w) \/ WorkerFault(w) BY <1>1, <1>2, <1>3
<1>4. CASE \/ \E i \in Ids : Reappear(i) \/ (\E t \in Texts : Publish(i, t))
           \/ GatewayStep \/ Redrive \/ UNCHANGED vars
  BY <1>1, <1>4, OthersMoveNoWorker, SameTableGrows DEF IInv
<1>5. QED BY <1>3, <1>4 DEF Next

-----------------------------------------------------------------------------
(***************************************************************************)
(* A message that is deleted as processed.                                 *)
(***************************************************************************)

\* What was accounted for stays so.
LEMMA AccountedStays == ASSUME TableGrows PROVE AccountedEvents \subseteq AccountedEvents'
<1>1. \A e \in Events : Content[e] \in Contents /\ Truncated[e] \subseteq Contents
  BY ConstantsAssumption
<1>2. \A e \in Events : Accounted(e) => Accounted(e)'
  BY <1>1 DEF Accounted, TableGrows
<1>3. QED BY <1>2 DEF AccountedEvents

\* The body of the message that w handles.
LEMMA TextFacts ==
  ASSUME IInv, QueueGrows, NEW w \in Workers, pc[w] \in Handling
  PROVE  /\ current[w] \in Delivery /\ current[w].id \in Ids
         /\ queue[current[w].id].state # "unsent"
         /\ Text(w) \in Texts /\ Body[Text(w)] \in Seq(Events)
         /\ queue'[current[w].id].text = Text(w)
         /\ \A n \in 1 .. Len(Body[Text(w)]) : Body[Text(w)][n] \in Events
<1>1. /\ current[w] \in Delivery /\ current[w].id \in Ids
      /\ queue[current[w].id].state # "unsent"
  BY DEF IInv, HeldOK, Delivery
<1>2. Text(w) \in Texts BY <1>1 DEF IInv, SentHasBody, Text
<1>3. Body[Text(w)] \in Seq(Events) BY <1>2, ConstantsAssumption
<1>4. queue'[current[w].id].text = Text(w) BY <1>1 DEF QueueGrows, Text
<1>5. QED BY <1>1, <1>2, <1>3, <1>4

ProgressLabels == {"event", "ack"} \cup Hashing

\* A worker that the step leaves alone.
LEMMA StillKeepsProgress ==
  ASSUME IInv, QueueGrows, TableGrows, NEW v \in Workers,
         pc'[v] = pc[v], current'[v] = current[v], position'[v] = position[v],
         content'[v] = content[v], failing'[v] = failing[v], ProgressOK(v)
  PROVE  ProgressOK(v)'
<1> SUFFICES ASSUME pc[v] \in ProgressLabels PROVE ProgressOK(v)'
  BY DEF ProgressOK, ProgressLabels
<1>1. pc[v] \in Handling
  BY DEF ProgressLabels, Handling, Labels, Idle, Hashing, RowSteps, Owning
<1>2. Text(v)' = Text(v) BY <1>1, TextFacts DEF Text
<1>3. Event(v)' = Event(v) BY <1>2 DEF Event
<1>4. AccountedEvents \subseteq AccountedEvents' BY AccountedStays
<1>5. /\ Text(v) \notin Unparsable
      /\ ~failing[v] => \A n \in 1 .. Len(Body[Text(v)]) :
                          n < position[v] => Body[Text(v)][n] \in AccountedEvents
      /\ pc[v] = "ack" => ~failing[v] /\ position[v] > Len(Body[Text(v)])
      /\ pc[v] \in Hashing =>
           /\ Kind[Event(v)] \in {"invalid", "valid"}
           /\ content[v] \in {Content[Event(v)]} \cup Truncated[Event(v)]
  BY DEF ProgressOK, ProgressLabels
<1>6. ~failing[v] => \A n \in 1 .. Len(Body[Text(v)]) :
                       n < position[v] => Body[Text(v)][n] \in AccountedEvents'
  BY <1>4, <1>5
<1>7. QED BY <1>2, <1>3, <1>5, <1>6 DEF ProgressOK

\* processEvent returned: with a retry, or with the event accounted for.
LEMMA ReturnProgress ==
  ASSUME IInv, QueueGrows, TableGrows, NEW w \in Workers, NEW r \in BOOLEAN, Return(w, r),
         pc[w] \in {"event"} \cup Hashing, ProgressOK(w),
         position[w] <= Len(Body[Text(w)]),
         r \/ Event(w) \in AccountedEvents
  PROVE  ProgressOK(w)'
<1>1. /\ pc'[w] = "event" /\ position'[w] = position[w] + 1 /\ position[w] \in Nat
      /\ failing'[w] = (failing[w] \/ r) /\ current'[w] = current[w]
  BY DEF Return, Goto, IInv, TypeOK
<1>2. pc[w] \in Handling BY DEF Handling, Labels, Idle, Hashing, RowSteps, Owning
<1>3. Text(w)' = Text(w) BY <1>1, <1>2, TextFacts DEF Text
<1>4. AccountedEvents \subseteq AccountedEvents' BY AccountedStays
<1>5. /\ Text(w) \notin Unparsable
      /\ ~failing[w] => \A n \in 1 .. Len(Body[Text(w)]) :
                          n < position[w] => Body[Text(w)][n] \in AccountedEvents
  BY DEF ProgressOK
<1>6. ~failing'[w] => \A n \in 1 .. Len(Body[Text(w)]) :
                        n < position'[w] => Body[Text(w)][n] \in AccountedEvents'
  <2>1. SUFFICES ASSUME ~failing'[w], NEW n \in 1 .. Len(Body[Text(w)]), n < position'[w]
                 PROVE  Body[Text(w)][n] \in AccountedEvents'
    OBVIOUS
  <2>2. ~failing[w] /\ ~r BY <1>1, <2>1
  <2>3. CASE n < position[w] BY <1>4, <1>5, <2>2, <2>3
  <2>4. CASE n = position[w]
    <3>1. Body[Text(w)][n] \in AccountedEvents BY <2>2, <2>4 DEF Event
    <3>2. QED BY <1>4, <3>1
  <2>5. QED BY <1>1, <2>1, <2>3, <2>4
<1>7. QED BY <1>1, <1>3, <1>5, <1>6 DEF ProgressOK, Hashing, RowSteps, Owning

\* A worker that leaves the message or gives it up has nothing to show.
LEMMA AwayProgress ==
  ASSUME NEW w, pc'[w] \in {"next", "down", "catch", "poison", "unqueue"}
  PROVE  ProgressOK(w)'
BY DEF ProgressOK, Hashing, RowSteps, Owning

\* A worker that moves between the labels at which it has a hash.
LEMMA HashedProgress ==
  ASSUME IInv, QueueGrows, TableGrows, NEW w \in Workers, pc[w] \in Hashing, pc'[w] \in Hashing,
         UNCHANGED local, ProgressOK(w)
  PROVE  ProgressOK(w)'
<1>1. pc[w] \in Handling BY DEF Handling, Labels, Idle, Hashing, RowSteps, Owning
<1>2. Text(w)' = Text(w) BY <1>1, TextFacts DEF Text, local
<1>3. Event(w)' = Event(w) BY <1>2 DEF Event, local
<1>4. AccountedEvents \subseteq AccountedEvents' BY AccountedStays
<1>5. /\ Text(w) \notin Unparsable
      /\ ~failing[w] => \A n \in 1 .. Len(Body[Text(w)]) :
                          n < position[w] => Body[Text(w)][n] \in AccountedEvents
      /\ Kind[Event(w)] \in {"invalid", "valid"}
      /\ content[w] \in {Content[Event(w)]} \cup Truncated[Event(w)]
  BY DEF ProgressOK
<1>6. ~failing[w] => \A n \in 1 .. Len(Body[Text(w)]) :
                       n < position[w] => Body[Text(w)][n] \in AccountedEvents'
  BY <1>4, <1>5
<1>7. pc'[w] # "ack" BY DEF Hashing, RowSteps, Owning
<1>8. QED BY <1>2, <1>3, <1>5, <1>6, <1>7 DEF ProgressOK, local

\* A worker with a hash has an event of the body, and a claim of that hash
\* accounts for it.
LEMMA ClaimAccounts ==
  ASSUME IInv, NEW w \in Workers, pc[w] \in Hashing, ProgressOK(w)
  PROVE  /\ position[w] <= Len(Body[Text(w)])
         /\ Claimed(rows, content[w]) => Event(w) \in AccountedEvents
<1>1. position[w] <= Len(Body[Text(w)]) BY DEF IInv, HashOK
<1>2. pc[w] \in Handling BY DEF Handling, Labels, Idle, Hashing, RowSteps, Owning
<1>3. Event(w) \in Events BY <1>1, <1>2, EventType
<1>4. QED BY <1>1, <1>3 DEF ProgressOK, AccountedEvents, Accounted

LEMMA HashProgress ==
  ASSUME IInv, QueueGrows, TableGrows, NEW w \in Workers, NEW c, NEW streamError, ProgressOK(w),
         Hashed(w, c, streamError), c \in {Content[Event(w)]} \cup Truncated[Event(w)]
  PROVE  ProgressOK(w)'
<1>1. /\ pc[w] = "event" /\ pc[w] \in Handling /\ pc'[w] = "upsert" /\ content'[w] = c
      /\ Kind[Event(w)] \in {"invalid", "valid"}
      /\ current' = current /\ position' = position /\ failing' = failing
  BY DEF Hashed, AtEvent, Goto, IInv, TypeOK, Handling, Labels, Idle
<1>2. Text(w)' = Text(w) BY <1>1, TextFacts DEF Text
<1>3. Event(w)' = Event(w) BY <1>1, <1>2 DEF Event
<1>4. AccountedEvents \subseteq AccountedEvents' BY AccountedStays
<1>5. /\ Text(w) \notin Unparsable
      /\ ~failing[w] => \A n \in 1 .. Len(Body[Text(w)]) :
                          n < position[w] => Body[Text(w)][n] \in AccountedEvents
  BY <1>1 DEF ProgressOK
<1>6. ~failing[w] => \A n \in 1 .. Len(Body[Text(w)]) :
                       n < position[w] => Body[Text(w)][n] \in AccountedEvents'
  BY <1>4, <1>5
<1>7. QED BY <1>1, <1>2, <1>3, <1>5, <1>6 DEF ProgressOK

\* Take: a body that parses is begun at its first event.
LEMMA TakeProgress ==
  ASSUME IInv, NEW w \in Workers, Take(w) PROVE ProgressOK(w)'
<1>1. PICK d \in batch[w] :
        /\ current' = [current EXCEPT ![w] = d]
        /\ Goto(w, IF queue[d.id].text \in Unparsable THEN "catch" ELSE "event")
  BY DEF Take
<1>2. /\ current'[w] = d /\ position'[w] = 1 /\ queue' = queue
      /\ pc'[w] = IF queue[d.id].text \in Unparsable THEN "catch" ELSE "event"
  BY <1>1 DEF Take, Goto, IInv, TypeOK, azure
<1>3. CASE pc'[w] = "catch" BY <1>3, AwayProgress
<1>4. CASE pc'[w] = "event" /\ queue[d.id].text \notin Unparsable
  <2>1. Text(w)' \notin Unparsable BY <1>2, <1>4 DEF Text
  <2>2. \A n \in 1 .. Len(Body[Text(w)'])  : ~(n < position'[w]) BY <1>2
  <2>3. QED BY <1>4, <2>1, <2>2 DEF ProgressOK, Hashing, RowSteps, Owning
<1>5. QED BY <1>2, <1>3, <1>4

\* EndOfEvents: a message is acknowledged only when no result asked for a retry.
LEMMA EndProgress ==
  ASSUME IInv, QueueGrows, TableGrows, NEW w \in Workers, ProgressOK(w), EndOfEvents(w)
  PROVE  ProgressOK(w)'
<1>1. /\ pc[w] = "event" /\ pc[w] \in Handling /\ position[w] > Len(Body[Text(w)])
      /\ pc'[w] = IF failing[w] THEN "catch" ELSE "ack"
      /\ UNCHANGED local
  BY DEF EndOfEvents, Goto, IInv, TypeOK, Handling, Labels, Idle
<1>2. Text(w)' = Text(w) BY <1>1, TextFacts DEF Text, local
<1>3. AccountedEvents \subseteq AccountedEvents' BY AccountedStays
<1>4. /\ Text(w) \notin Unparsable
      /\ ~failing[w] => \A n \in 1 .. Len(Body[Text(w)]) :
                          n < position[w] => Body[Text(w)][n] \in AccountedEvents
  BY <1>1 DEF ProgressOK
<1>5. ~failing[w] => \A n \in 1 .. Len(Body[Text(w)]) :
                       n < position[w] => Body[Text(w)][n] \in AccountedEvents'
  BY <1>3, <1>4
<1>6. CASE failing[w] BY <1>1, <1>6, AwayProgress
<1>7. CASE ~failing[w]
  <2>1. pc'[w] = "ack" /\ pc'[w] \notin Hashing BY <1>1, <1>7 DEF Hashing, RowSteps, Owning
  <2>2. QED BY <1>1, <1>2, <1>4, <1>5, <1>7, <2>1 DEF ProgressOK, local
<1>8. QED BY <1>6, <1>7

LEMMA WorkerProgress ==
  ASSUME IInv, QueueGrows, TableGrows, NEW w \in Workers, ProgressOK(w), WorkerStep(w) \/ WorkerFault(w)
  PROVE  ProgressOK(w)'
<1>1. pc \in [Workers -> Labels] BY DEF IInv, TypeOK
<1>2. CASE Receive(w)
  <2>1. pc'[w] = "next" BY <1>2 DEF Receive
  <2>2. QED BY <2>1, AwayProgress
<1>3. CASE Take(w) BY <1>3, TakeProgress
<1>4. CASE EndOfEvents(w) BY <1>4, EndProgress
<1>5. CASE Ack(w) \/ Catch(w) \/ SendPoison(w) \/ Unqueue(w) \/ Restart(w) \/ EventThrows(w)
  BY <1>1, <1>5, AwayProgress
     DEF Ack, Catch, SendPoison, Unqueue, Restart, EventThrows, NextMessage, Goto
<1>6. CASE AckFails(w) \/ Crash(w) \/ StatementFails(w)
  BY <1>1, <1>6, AwayProgress DEF AckFails, Crash, StatementFails, Goto
<1>7. CASE SkipEvent(w)
  <2>1. pc[w] \in Handling BY <1>7 DEF SkipEvent, AtEvent, Handling, Labels, Idle
  <2>2. Event(w) \in Events /\ Kind[Event(w)] = "other"
    BY <1>7, <2>1, EventType DEF SkipEvent, AtEvent
  <2>3. Event(w) \in AccountedEvents BY <2>2 DEF AccountedEvents
  <2>4. QED BY <1>7, <2>3, ReturnProgress DEF SkipEvent, AtEvent
<1>8. CASE RefuseEvent(w) \/ BlobAccessFails(w)
  BY <1>8, ReturnProgress DEF RefuseEvent, BlobAccessFails, AtEvent
<1>9. CASE Download(w) BY <1>9, HashProgress DEF Download
<1>10. CASE DownloadBreaks(w) BY <1>10, HashProgress DEF DownloadBreaks
<1>11. CASE Upsert(w) \/ Claim(w) \/ Submit(w) \/ Answer(w) \/ CallFails(w)
  BY <1>1, <1>11, HashedProgress
     DEF Upsert, Claim, Submit, Answer, CallFails, Goto, Hashing, RowSteps, Owning
<1>12. CASE Fetch(w)
  <2>1. pc[w] = "fetch" /\ pc[w] \in Hashing BY <1>12 DEF Fetch, Hashing, RowSteps
  <2>2. Claimed(rows, content[w]) BY <2>1 DEF IInv, RowOK
  <2>3. Event(w) \in AccountedEvents /\ position[w] <= Len(Body[Text(w)]) BY <2>1, <2>2, ClaimAccounts
  <2>4. CASE Goto(w, "markDuplicate") /\ UNCHANGED local
    BY <1>1, <2>1, <2>4, HashedProgress DEF Goto, Hashing, RowSteps
  <2>5. CASE \E r \in BOOLEAN : Return(w, r) BY <2>1, <2>3, <2>5, ReturnProgress
  <2>6. QED BY <1>12, <2>4, <2>5 DEF Fetch
<1>13. CASE DuplicateMarked(w) \/ FailureMarked(w) \/ IngestMarked(w)
  <2>1. pc[w] \in {"markDuplicate", "markFailed", "markIngested"} /\ pc[w] \in Hashing
    BY <1>13 DEF DuplicateMarked, FailureMarked, IngestMarked, Hashing, RowSteps
  <2>2. Claimed(rows, content[w])
    BY <2>1, HashedFacts DEF IInv, RowOK, Claimed, Owning
  <2>3. Event(w) \in AccountedEvents /\ position[w] <= Len(Body[Text(w)]) BY <2>1, <2>2, ClaimAccounts
  <2>4. QED
    BY <1>13, <2>1, <2>3, ReturnProgress DEF DuplicateMarked, FailureMarked, IngestMarked
<1>14. QED
  BY <1>2, <1>3, <1>4, <1>5, <1>6, <1>7, <1>8, <1>9, <1>10, <1>11, <1>12, <1>13, WorkerStep(w) \/ WorkerFault(w)
     DEF WorkerStep, WorkerFault

\* What deleting a message asks for: it is processed only with the receipt of
\* a worker that is done with its body.
LEMMA DoneBySomeone ==
  ASSUME IInv, [Next]_vars, NEW i \in Ids, queue'[i].state = "done", queue[i].state # "done"
  PROVE  \E w \in Workers : pc[w] = "ack" /\ current[w].id = i
<1>1. queue \in [Ids -> Message] BY DEF IInv, TypeOK
<1>2. ASSUME NEW w \in Workers, Ack(w) \/ AckFails(w)
      PROVE  pc[w] = "ack" /\ current[w].id = i
  BY <1>1, <1>2 DEF Ack, AckFails, Message, ReceiptValid
<1>3. ASSUME NEW w \in Workers, Unqueue(w) PROVE FALSE
  BY <1>1, <1>3 DEF Unqueue, Message
<1>4. ASSUME NEW w \in Workers, Receive(w) PROVE FALSE
  <2>1. PICK some \in SUBSET {j \in Ids : queue[j].state = "visible"} :
          queue' = [j \in Ids |->
                      IF j \in some
                      THEN [queue[j] EXCEPT !.state = "hidden", !.count = @ + 1]
                      ELSE queue[j]]
    BY <1>4 DEF Receive
  <2>2. QED BY <1>1, <2>1 DEF Message
<1>5. ASSUME NEW j \in Ids, Reappear(j) PROVE FALSE
  BY <1>1, <1>5 DEF Reappear, Message
<1>6. ASSUME NEW j \in Ids, NEW t \in Texts, Publish(j, t) \/ RedriveSend(j, t) PROVE FALSE
  BY <1>1, <1>6 DEF Publish, RedriveSend, Send, Message
<1>7. QED BY <1>2, <1>3, <1>4, <1>5, <1>6, QueueMovers

LEMMA DoneNext == IInv /\ DoneInv /\ [Next]_vars => DoneInv'
<1> SUFFICES ASSUME IInv, DoneInv, [Next]_vars PROVE DoneInv' OBVIOUS
<1>1. QueueGrows /\ TableGrows BY StepGrows
<1>2. \A v \in Workers : ProgressOK(v)'
  <2>1. CASE \E w \in Workers : WorkerStep(w) \/ WorkerFault(w)
    <3>1. PICK w \in Workers : WorkerStep(w) \/ WorkerFault(w) BY <2>1
    <3>2. ProgressOK(w)' BY <1>1, <3>1, WorkerProgress DEF DoneInv
    <3>3. \A v \in Workers : v # w => Untouched(v) /\ failing'[v] = failing[v]
      BY <3>1, WorkerMovesAlone DEF OnlyMoves
    <3>4. QED BY <1>1, <3>2, <3>3, StillKeepsProgress DEF DoneInv, Untouched
  <2>2. CASE \/ \E i \in Ids : Reappear(i) \/ (\E t \in Texts : Publish(i, t))
             \/ GatewayStep \/ Redrive \/ UNCHANGED vars
    <3>1. TAKE v \in Workers
    <3>2. UNCHANGED <<pc, current, position, content, failing>> BY <2>2, OthersMoveNoWorker
    <3>3. QED BY <1>1, <3>2, StillKeepsProgress DEF DoneInv
  <2>3. QED BY <2>1, <2>2 DEF Next
<1>3. DoneIsAccounted'
  <2>1. SUFFICES ASSUME NEW i \in Ids, queue'[i].state = "done"
                 PROVE  /\ queue'[i].text \notin Unparsable
                        /\ \A n \in 1 .. Len(Body[queue'[i].text]) :
                             Body[queue'[i].text][n] \in AccountedEvents'
    BY DEF DoneIsAccounted, AccountedEvents
  <2>2. AccountedEvents \subseteq AccountedEvents' BY <1>1, AccountedStays
  <2>3. CASE queue[i].state = "done"
    <3>1. queue'[i].text = queue[i].text /\ queue[i].text \in Texts
      BY <1>1, <2>3 DEF QueueGrows, IInv, SentHasBody
    <3>2. Body[queue[i].text] \in Seq(Events) BY <3>1, ConstantsAssumption
    <3>3. queue[i].text \notin Unparsable BY <2>3 DEF DoneInv, DoneIsAccounted
    <3>4. ASSUME NEW n \in 1 .. Len(Body[queue[i].text])
          PROVE  Body[queue[i].text][n] \in AccountedEvents
      <4>1. PICK e \in Events : e = Body[queue[i].text][n] BY <3>2
      <4>2. /\ Kind[e] \notin {"noUri", "mangled", "badPath"}
            /\ Kind[e] \in {"invalid", "valid"} => Accounted(e)
        BY <2>3, <4>1 DEF DoneInv, DoneIsAccounted
      <4>3. QED BY <4>1, <4>2 DEF AccountedEvents
    <3>5. QED BY <2>2, <3>1, <3>3, <3>4
  <2>4. CASE queue[i].state # "done"
    <3>1. PICK w \in Workers : pc[w] = "ack" /\ current[w].id = i
      BY <2>1, <2>4, DoneBySomeone
    <3>2. pc[w] \in Handling BY <3>1 DEF Handling, Labels, Idle
    <3>3. queue'[i].text = Text(w) /\ Body[Text(w)] \in Seq(Events)
      BY <1>1, <3>1, <3>2, TextFacts
    <3>4. /\ Text(w) \notin Unparsable
          /\ position[w] > Len(Body[Text(w)])
          /\ \A n \in 1 .. Len(Body[Text(w)]) :
               n < position[w] => Body[Text(w)][n] \in AccountedEvents
      BY <3>1 DEF DoneInv, ProgressOK
    <3>5. position[w] \in Nat /\ Len(Body[Text(w)]) \in Nat BY <3>3 DEF IInv, TypeOK
    <3>6. QED BY <2>2, <3>3, <3>4, <3>5
  <2>5. QED BY <2>3, <2>4
<1>4. QED BY <1>2, <1>3 DEF DoneInv

\* A message that queueWorker.js deletes as processed was handled to its end:
\* its body parsed, no event of it was refused without a row, and every file it
\* names had been claimed, for any bodies, any number of workers, deliveries
\* and faults.
THEOREM DoneMeansAccounted == Spec => []DoneIsAccounted
<1>1. Init => DoneInv
  BY DEF Init, DoneInv, ProgressOK, DoneIsAccounted, Hashing, RowSteps, Owning
<1>2. DoneInv => DoneIsAccounted BY DEF DoneInv
<1>3. QED BY <1>1, <1>2, DoneNext, InvariantHolds, PTL DEF Spec
-----------------------------------------------------------------------------
(***************************************************************************)
(* Rows that are left PROCESSING.                                          *)
(***************************************************************************)

\* The contents StrandedNeedsFault counts.
Stranded ==
  {c \in Contents :
     /\ rows[c].status = "PROCESSING"
     /\ \A w \in Workers : pc[w] \in Owning => content[w] # c}

\* The faults that may strand a content.
Stranding == faults["crash"] + faults["statement"]

LEMMA SpendCounts ==
  ASSUME TypeOK, NEW f \in FaultKinds, Spend(f)
  PROVE  /\ faults'[f] = faults[f] + 1
         /\ \A g \in FaultKinds : faults[g] \in Nat /\ faults'[g] \in Nat /\ faults'[g] >= faults[g]
BY DEF TypeOK, Spend

\* Faults are never taken back.
LEMMA FaultsGrow ==
  ASSUME IInv, [Next]_vars
  PROVE  \A g \in FaultKinds : faults[g] \in Nat /\ faults'[g] \in Nat /\ faults'[g] >= faults[g]
<1>1. TypeOK BY DEF IInv
<1>2. CASE faults' = faults BY <1>1, <1>2 DEF TypeOK
<1>3. CASE \E f \in FaultKinds : Spend(f) BY <1>1, <1>3, SpendCounts
<1>4. ASSUME NEW w \in Workers, WorkerStep(w)
      PROVE  faults' = faults
  BY <1>4
     DEF WorkerStep, Receive, Take, EndOfEvents, Ack, Catch, SendPoison, Unqueue, Restart, SkipEvent,
         RefuseEvent, EventThrows, Download, Hashed, Upsert, Claim, Fetch, DuplicateMarked, Submit,
         Answer, FailureMarked, IngestMarked
<1>5. ASSUME NEW w \in Workers, WorkerFault(w)
      PROVE  \E f \in FaultKinds : Spend(f)
  BY <1>5
     DEF WorkerFault, AckFails, Crash, BlobAccessFails, DownloadBreaks, CallFails, StatementFails,
         FaultKinds
<1>6. ASSUME \/ \E i \in Ids : Reappear(i) \/ (\E t \in Texts : Publish(i, t))
             \/ GatewayStep \/ Redrive \/ UNCHANGED vars
      PROVE  faults' = faults \/ \E f \in FaultKinds : Spend(f)
  BY <1>6
     DEF Reappear, Publish, GatewayStep, GatewayStores, GatewayRefuses, Redrive, RedriveSend,
         RedriveDelete, RedriveStops, vars, FaultKinds
<1>7. QED BY <1>2, <1>3, <1>4, <1>5, <1>6 DEF Next

\* A step of w changes the row of its own content at most.
LEMMA OwnRowOnly ==
  ASSUME IInv, NEW w \in Workers, WorkerStep(w) \/ WorkerFault(w)
  PROVE  \A c \in Contents : c # content[w] => rows'[c] = rows[c]
<1>1. CASE rows' = rows BY <1>1
<1>2. CASE rows' # rows
  <2>1. pc[w] \in RowSteps /\ rows' \in {rows, Executed(w)}
    BY <1>2
       DEF WorkerStep, WorkerFault, Receive, Take, EndOfEvents, Ack, Catch, SendPoison, Unqueue,
           Restart, SkipEvent, RefuseEvent, EventThrows, Download, Hashed, Upsert, Claim, Fetch,
           DuplicateMarked, Submit, Answer, FailureMarked, IngestMarked, AckFails, Crash,
           BlobAccessFails, DownloadBreaks, CallFails, StatementFails, RowSteps
  <2>2. QED BY <2>1, StatementKeepsRows
<1>3. QED BY <1>1, <1>2

\* It strands that content at most.
LEMMA OwnStrandedOnly ==
  ASSUME IInv, NEW w \in Workers, WorkerStep(w) \/ WorkerFault(w)
  PROVE  Stranded' \subseteq Stranded \cup {content[w]}
<1>1. SUFFICES ASSUME NEW c \in Contents, c \in Stranded', c # content[w] PROVE c \in Stranded
  BY DEF Stranded
<1>2. rows'[c] = rows[c] BY <1>1, OwnRowOnly
<1>3. ASSUME NEW v \in Workers, pc[v] \in Owning PROVE content[v] # c
  <2>1. CASE v = w BY <1>1, <2>1
  <2>2. CASE v # w
    <3>1. pc'[v] = pc[v] /\ content'[v] = content[v]
      BY <2>2, WorkerMovesAlone DEF OnlyMoves, Untouched
    <3>2. QED BY <1>1, <1>3, <3>1 DEF Stranded
  <2>3. QED BY <2>1, <2>2
<1>4. QED BY <1>1, <1>2, <1>3 DEF Stranded

\* A content that w neither owns nor takes up was stranded before.
LEMMA StillStranded ==
  ASSUME IInv, NEW w \in Workers, WorkerStep(w) \/ WorkerFault(w), pc[w] \notin Owning,
         NEW c \in Contents, c \in Stranded', rows[c].status = "PROCESSING"
  PROVE  c \in Stranded
<1>1. \A v \in Workers : pc[v] \in Owning => pc'[v] = pc[v] /\ content'[v] = content[v]
  BY WorkerMovesAlone DEF OnlyMoves, Untouched
<1>2. QED BY <1>1 DEF Stranded

\* Without a crash or a failed statement it strands none.
LEMMA NoneStranded ==
  ASSUME IInv, NEW w \in Workers, WorkerStep(w) \/ WorkerFault(w), ~Crash(w), ~StatementFails(w)
  PROVE  Stranded' \subseteq Stranded
<1> DEFINE c == content[w]
<1>1. SUFFICES ASSUME c \in Contents, c \in Stranded' PROVE c \in Stranded
  BY OwnStrandedOnly DEF Stranded
<1>2. rows'[c].status = "PROCESSING" /\ (pc'[w] \in Owning => content'[w] # c)
  BY <1>1 DEF Stranded
<1>3. rows \in [Contents -> Row] /\ pc \in [Workers -> Labels] BY DEF IInv, TypeOK
<1>4. CASE Submit(w) \/ Answer(w) \/ CallFails(w)
  BY <1>2, <1>3, <1>4 DEF Submit, Answer, CallFails, Goto, Owning, local
<1>5. CASE FailureMarked(w)
  <2>1. pc[w] = "markFailed" /\ rows' = MarkFailed(rows, c) BY <1>5 DEF FailureMarked, Executed
  <2>2. QED BY <1>1, <1>2, <1>3, <2>1 DEF MarkFailed
<1>6. CASE IngestMarked(w)
  <2>1. pc[w] = "markIngested" /\ rows' = MarkIngested(rows, c) BY <1>6 DEF IngestMarked, Executed
  <2>2. QED BY <1>1, <1>2, <1>3, <2>1 DEF MarkIngested
<1>7. CASE Claim(w) /\ Claimable(rows, c)
  <2>1. pc'[w] \in Owning /\ content' = content BY <1>3, <1>7 DEF Claim, Goto, Owning, local
  <2>2. QED BY <1>2, <2>1
<1>8. CASE ~(Submit(w) \/ Answer(w) \/ CallFails(w) \/ FailureMarked(w) \/ IngestMarked(w)
             \/ (Claim(w) /\ Claimable(rows, c)))
  <2>1. pc[w] \notin Owning
    BY <1>8
       DEF WorkerStep, WorkerFault, Receive, Take, EndOfEvents, Ack, Catch, SendPoison, Unqueue,
           Restart, SkipEvent, RefuseEvent, EventThrows, Download, Hashed, AtEvent, Upsert, Claim, Fetch,
           DuplicateMarked, AckFails, BlobAccessFails, DownloadBreaks, Owning
  <2>2. CASE Upsert(w)
    <3>1. rows' = UpsertIngestFile(rows, c) BY <2>2 DEF Upsert, Executed
    <3>2. QED BY <1>1, <1>2, <1>3, <2>1, <2>2, <3>1, StillStranded DEF UpsertIngestFile
  <2>3. CASE DuplicateMarked(w)
    <3>1. rows' = MarkDuplicate(rows, c) BY <2>3 DEF DuplicateMarked, Executed
    <3>2. rows[c].status = "PROCESSING" BY <1>1, <1>2, <1>3, <3>1 DEF MarkDuplicate, Row
    <3>3. QED BY <1>1, <2>1, <3>2, StillStranded
  <2>4. CASE Claim(w) /\ ~Claimable(rows, c)
    <3>1. rows' = rows BY <2>4 DEF Claim, Executed, ClaimIngestFile
    <3>2. QED BY <1>1, <1>2, <2>1, <3>1, StillStranded
  <2>5. CASE rows' = rows BY <1>1, <1>2, <2>1, <2>5, StillStranded
  <2>6. QED
    BY <1>8, <2>2, <2>3, <2>4, <2>5
       DEF WorkerStep, WorkerFault, Receive, Take, EndOfEvents, Ack, Catch, SendPoison, Unqueue,
           Restart, SkipEvent, RefuseEvent, EventThrows, Download, Hashed, Fetch, AckFails,
           BlobAccessFails, DownloadBreaks
<1>9. QED BY <1>4, <1>5, <1>6, <1>7, <1>8

LEMMA StrandedNext == IInv /\ StrandedInv /\ [Next]_vars => StrandedInv'
<1> SUFFICES ASSUME IInv, StrandedInv, [Next]_vars PROVE StrandedInv' OBVIOUS
<1>1. /\ "crash" \in FaultKinds /\ "statement" \in FaultKinds
      /\ Stranding \in Nat /\ Stranding' \in Nat /\ Stranding' >= Stranding
  BY FaultsGrow DEF FaultKinds, Stranding
<1>2. IsFiniteSet(Registered) /\ Stranded \subseteq Registered /\ Cardinality(Stranded) <= Stranding
  BY DEF StrandedInv, StrandedNeedsFault, Stranded, Stranding, Registered
<1>3. IsFiniteSet(Stranded) BY <1>2, FS_Subset
<1>4. SUFFICES IsFiniteSet(Registered)' /\ Cardinality(Stranded') <= Stranding'
  BY DEF StrandedInv, StrandedNeedsFault, Stranded, Stranding
<1>5. CASE \E w \in Workers : WorkerStep(w) \/ WorkerFault(w)
  <2>1. PICK w \in Workers : WorkerStep(w) \/ WorkerFault(w) BY <1>5
  <2>2. IsFiniteSet(Registered')
    <3>1. Registered' \subseteq Registered \cup {content[w]}
      BY <2>1, OwnRowOnly DEF Registered
    <3>2. QED BY <1>2, <3>1, OneMore
  <2>3. CASE Crash(w) \/ StatementFails(w)
    <3>1. Stranding' >= Stranding + 1
      BY <1>1, <2>3, SpendCounts DEF Crash, StatementFails, Stranding, IInv
    <3>2. Cardinality(Stranded') <= Cardinality(Stranded) + 1
          /\ Cardinality(Stranded) \in Nat /\ Cardinality(Stranded') \in Nat
      BY <1>3, <2>1, OwnStrandedOnly, OneMore
    <3>3. QED BY <1>1, <1>2, <2>2, <3>1, <3>2
  <2>4. CASE ~(Crash(w) \/ StatementFails(w))
    <3>1. Cardinality(Stranded') <= Cardinality(Stranded)
          /\ Cardinality(Stranded) \in Nat /\ Cardinality(Stranded') \in Nat
      BY <1>3, <2>1, <2>4, NoneStranded, NoMore
    <3>2. QED BY <1>1, <1>2, <2>2, <3>1
  <2>5. QED BY <2>3, <2>4
<1>6. CASE \/ \E i \in Ids : Reappear(i) \/ (\E t \in Texts : Publish(i, t))
           \/ GatewayStep \/ Redrive \/ UNCHANGED vars
  <2>1. UNCHANGED <<rows, pc, content>> BY <1>6, OthersMoveNoWorker
  <2>2. Registered' = Registered /\ Stranded' = Stranded BY <2>1 DEF Registered, Stranded
  <2>3. Cardinality(Stranded) \in Nat BY <1>3, FS_CardinalityType
  <2>4. QED BY <1>1, <1>2, <2>2, <2>3
<1>7. QED BY <1>5, <1>6 DEF Next

\* A row stays PROCESSING without a worker behind it only after a crash or a
\* statement that failed, and there are never more such rows than such faults:
\* an expired lease, a failed download, the abort of callIngestApi or a queue
\* error strands nothing.
THEOREM StrandingNeedsFault == Spec => []StrandedNeedsFault
<1>1. Init => StrandedInv
  <2> SUFFICES ASSUME Init PROVE StrandedInv OBVIOUS
  <2>1. Registered = {} BY DEF Init, EmptyTable, Registered
  <2>2. Stranded = {} BY <2>1 DEF Registered, Stranded
  <2>3. faults["crash"] = 0 /\ faults["statement"] = 0 BY DEF Init, FaultKinds
  <2>4. Cardinality(Stranded) <= Stranding BY <2>2, <2>3, FS_EmptySet DEF Stranding
  <2>5. QED
    BY <2>1, <2>4, FS_EmptySet DEF StrandedInv, StrandedNeedsFault, Stranded, Stranding
<1>2. StrandedInv => StrandedNeedsFault BY DEF StrandedInv
<1>3. QED BY <1>1, <1>2, StrandedNext, InvariantHolds, PTL DEF Spec
-----------------------------------------------------------------------------
(***************************************************************************)
(* Messages that are given up on.                                          *)
(***************************************************************************)

\* A message that was sent is only counted up, hidden, shown and deleted; one
\* that ends as poisoned was deleted by the worker that poisoned it.
LEMMA SentStays ==
  ASSUME IInv, [Next]_vars, NEW i \in Ids, queue[i].state # "unsent"
  PROVE  /\ queue[i].count \in Nat /\ queue'[i].count \in Nat /\ queue'[i].count >= queue[i].count
         /\ queue'[i].redriven = queue[i].redriven
         /\ queue'[i].state \in {"visible", "hidden"} => InQueue(i)
         /\ queue'[i].state = "poisoned" /\ queue[i].state # "poisoned" =>
              \E w \in Workers : pc[w] = "unqueue" /\ current[w].id = i /\ ReceiptValid(current[w])
<1> DEFINE Goal ==
         /\ queue[i].count \in Nat /\ queue'[i].count \in Nat /\ queue'[i].count >= queue[i].count
         /\ queue'[i].redriven = queue[i].redriven
         /\ queue'[i].state \in {"visible", "hidden"} => InQueue(i)
         /\ queue'[i].state = "poisoned" /\ queue[i].state # "poisoned" =>
              \E w \in Workers : pc[w] = "unqueue" /\ current[w].id = i /\ ReceiptValid(current[w])
<1>1. queue \in [Ids -> Message] /\ queue[i] \in Message BY DEF IInv, TypeOK
<1>2. CASE queue' = queue BY <1>1, <1>2 DEF InQueue, Message
<1>3. ASSUME NEW w \in Workers, Ack(w) \/ AckFails(w) PROVE Goal
  BY <1>1, <1>3 DEF Ack, AckFails, Message, InQueue
<1>4. ASSUME NEW w \in Workers, Unqueue(w) PROVE Goal
  BY <1>1, <1>4 DEF Unqueue, Message, InQueue
<1>5. ASSUME NEW w \in Workers, Receive(w) PROVE Goal
  <2>1. PICK some \in SUBSET {j \in Ids : queue[j].state = "visible"} :
          queue' = [j \in Ids |->
                      IF j \in some
                      THEN [queue[j] EXCEPT !.state = "hidden", !.count = @ + 1]
                      ELSE queue[j]]
    BY <1>5 DEF Receive
  <2>2. CASE i \notin some
    <3>1. queue'[i] = queue[i] BY <2>1, <2>2
    <3>2. QED BY <1>1, <3>1 DEF Message, InQueue
  <2>3. CASE i \in some
    <3>1. queue'[i] = [queue[i] EXCEPT !.state = "hidden", !.count = @ + 1] BY <2>1, <2>3
    <3>2. queue'[i] = [state |-> "hidden", text |-> queue[i].text,
                       count |-> queue[i].count + 1, redriven |-> queue[i].redriven]
      BY <1>1, <3>1 DEF Message
    <3>3. queue[i].state = "visible" BY <2>3
    <3>4. QED BY <1>1, <3>2, <3>3 DEF Message, InQueue
  <2>4. QED BY <2>2, <2>3
<1>6. ASSUME NEW j \in Ids, Reappear(j) PROVE Goal
  BY <1>1, <1>6 DEF Reappear, Message, InQueue
<1>7. ASSUME NEW j \in Ids, NEW t \in Texts, Publish(j, t) \/ RedriveSend(j, t) PROVE Goal
  BY <1>1, <1>7 DEF Publish, RedriveSend, Send, Message, InQueue
<1>8. QED BY <1>2, <1>3, <1>4, <1>5, <1>6, <1>7, QueueMovers

\* One that was not is sent, or left alone.
LEMMA UnsentStays ==
  ASSUME IInv, [Next]_vars, NEW i \in Ids, queue[i].state = "unsent"
  PROVE  \/ queue'[i] = queue[i]
         \/ /\ queue'[i].state = "visible"
            /\ \E t \in Texts : Publish(i, t) \/ RedriveSend(i, t)
<1> DEFINE Goal == \/ queue'[i] = queue[i]
                   \/ /\ queue'[i].state = "visible"
                      /\ \E t \in Texts : Publish(i, t) \/ RedriveSend(i, t)
<1>1. queue \in [Ids -> Message] /\ queue[i] \in Message BY DEF IInv, TypeOK
<1>2. CASE queue' = queue BY <1>2
<1>3. ASSUME NEW w \in Workers, Ack(w) \/ AckFails(w) \/ Unqueue(w) PROVE Goal
  BY <1>1, <1>3 DEF Ack, AckFails, Unqueue, ReceiptValid, InQueue
<1>4. ASSUME NEW w \in Workers, Receive(w) PROVE Goal
  BY <1>1, <1>4 DEF Receive
<1>5. ASSUME NEW j \in Ids, Reappear(j) PROVE Goal
  BY <1>1, <1>5 DEF Reappear
<1>6. ASSUME NEW j \in Ids, NEW t \in Texts, Publish(j, t) \/ RedriveSend(j, t) PROVE Goal
  BY <1>1, <1>6 DEF Publish, RedriveSend, Send
<1>7. QED BY <1>2, <1>3, <1>4, <1>5, <1>6, QueueMovers

\* A worker comes to its second delete call by way of SendPoison, and stays
\* with the delivery it has.
LEMMA UnqueueReached ==
  ASSUME IInv, [Next]_vars, NEW w \in Workers, pc'[w] = "unqueue"
  PROVE  current'[w] = current[w] /\ (pc[w] = "unqueue" \/ SendPoison(w))
<1>1. pc \in [Workers -> Labels] BY DEF IInv, TypeOK
<1>2. ASSUME NEW v \in Workers, v # w, WorkerStep(v) \/ WorkerFault(v)
      PROVE  current'[w] = current[w] /\ pc[w] = "unqueue"
  BY <1>2, WorkerMovesAlone DEF OnlyMoves, Untouched
<1>3. ASSUME WorkerFault(w) PROVE FALSE
  BY <1>1, <1>3
     DEF WorkerFault, AckFails, Crash, BlobAccessFails, DownloadBreaks, Hashed, CallFails,
         StatementFails, Return, Goto
<1>4. ASSUME WorkerStep(w), ~SendPoison(w), ~Receive(w) PROVE FALSE
  <2>1. CASE Take(w) \/ EndOfEvents(w) \/ Ack(w) \/ Catch(w) \/ Unqueue(w) \/ Restart(w)
    BY <1>1, <2>1 DEF Take, EndOfEvents, Ack, Catch, Unqueue, Restart, NextMessage, Goto
  <2>2. CASE SkipEvent(w) \/ RefuseEvent(w) \/ EventThrows(w) \/ Download(w) \/ Upsert(w) \/ Claim(w) \/ Fetch(w)
    BY <1>1, <2>2
       DEF SkipEvent, RefuseEvent, EventThrows, Download, Hashed, Upsert, Claim, Fetch, Return, Goto
  <2>3. CASE DuplicateMarked(w) \/ Submit(w) \/ Answer(w) \/ FailureMarked(w) \/ IngestMarked(w)
    BY <1>1, <2>3 DEF DuplicateMarked, Submit, Answer, FailureMarked, IngestMarked, Return, Goto
  <2>4. QED BY <1>4, <2>1, <2>2, <2>3 DEF WorkerStep
<1>5. CASE Receive(w) BY <1>5 DEF Receive
<1>6. CASE SendPoison(w) BY <1>6 DEF SendPoison, local
<1>7. CASE \/ \E i \in Ids : Reappear(i) \/ (\E t \in Texts : Publish(i, t))
           \/ GatewayStep \/ Redrive \/ UNCHANGED vars
  BY <1>7, OthersMoveNoWorker
<1>8. QED BY <1>2, <1>3, <1>4, <1>5, <1>6, <1>7 DEF Next

\* The deliveries a worker has after a step.
LEMMA ReceiptsNext ==
  ASSUME IInv, \A w \in Workers : ReceiptsOK(w), [Next]_vars, NEW w \in Workers
  PROVE  ReceiptsOK(w)'
<1>1. /\ queue \in [Ids -> Message] /\ pc \in [Workers -> Labels]
      /\ batch \in [Workers -> SUBSET Delivery]
      /\ current \in [Workers -> Delivery \cup {None}]
  BY DEF IInv, TypeOK
<1>2. ASSUME NEW d \in Delivery, queue[d.id].state # "unsent", d.count <= queue[d.id].count
      PROVE  d.count <= queue'[d.id].count
  <2>1. d.id \in Ids /\ d.count \in Nat BY DEF Delivery
  <2>2. QED BY <1>2, <2>1, SentStays
<1>3. /\ \A d \in batch[w] :
           d \in Delivery /\ queue[d.id].state # "unsent" /\ d.count <= queue[d.id].count
      /\ pc[w] \in Handling =>
           /\ current[w] \in Delivery /\ queue[current[w].id].state # "unsent"
           /\ current[w].count <= queue[current[w].id].count
  BY <1>1 DEF IInv, HeldOK, ReceiptsOK
<1>4. CASE batch'[w] \subseteq batch[w] /\ (pc'[w] \in Handling => pc[w] \in Handling /\ current'[w] = current[w])
  BY <1>2, <1>3, <1>4 DEF ReceiptsOK
<1>5. CASE Receive(w)
  <2>1. PICK some \in SUBSET {i \in Ids : queue[i].state = "visible"} :
          /\ queue' = [i \in Ids |->
                         IF i \in some
                         THEN [queue[i] EXCEPT !.state = "hidden", !.count = @ + 1]
                         ELSE queue[i]]
          /\ batch' = [batch EXCEPT ![w] = {[id |-> i, count |-> queue[i].count + 1] : i \in some}]
    BY <1>5 DEF Receive
  <2>2. pc'[w] = "next" /\ pc'[w] \notin Handling BY <1>5 DEF Receive, Handling, Idle
  <2>3. ASSUME NEW d \in batch'[w] PROVE d.count <= queue'[d.id].count
    <3>1. batch'[w] = {[id |-> i, count |-> queue[i].count + 1] : i \in some} BY <1>1, <2>1
    <3>2. PICK i \in some : d = [id |-> i, count |-> queue[i].count + 1] BY <3>1
    <3>3. queue[i] \in Message BY <1>1
    <3>4. queue'[i] = [queue[i] EXCEPT !.state = "hidden", !.count = @ + 1] BY <2>1
    <3>5. queue'[i].count = queue[i].count + 1 /\ queue[i].count \in Nat
      BY <3>3, <3>4 DEF Message
    <3>6. QED BY <3>2, <3>5
  <2>4. QED BY <2>2, <2>3 DEF ReceiptsOK
<1>6. CASE Take(w)
  <2>1. PICK d \in batch[w] : current' = [current EXCEPT ![w] = d] /\ batch' = [batch EXCEPT ![w] = @ \ {d}]
    BY <1>6 DEF Take
  <2>2. current'[w] = d /\ batch'[w] \subseteq batch[w] BY <1>1, <2>1
  <2>3. QED BY <1>2, <1>3, <2>2 DEF ReceiptsOK
<1>7. ASSUME NEW v \in Workers, v # w, WorkerStep(v) \/ WorkerFault(v) PROVE ReceiptsOK(w)'
  BY <1>4, <1>7, WorkerMovesAlone DEF OnlyMoves, Untouched
<1>8. ASSUME WorkerStep(w) \/ WorkerFault(w), ~Receive(w), ~Take(w) PROVE ReceiptsOK(w)'
  <2>1. CASE \/ Ack(w) \/ Catch(w) \/ Unqueue(w) \/ Restart(w) \/ Crash(w)
    BY <1>1, <1>4, <2>1
       DEF Ack, Catch, Unqueue, Restart, Crash, NextMessage, Forget, Goto, Handling, Labels, Idle, local
  <2>2. CASE EndOfEvents(w) \/ SendPoison(w) \/ EventThrows(w) \/ AckFails(w)
    BY <1>1, <1>4, <2>2
       DEF EndOfEvents, SendPoison, EventThrows, AtEvent, AckFails, Goto, Handling, Labels, Idle, local
  <2>3. CASE SkipEvent(w) \/ RefuseEvent(w) \/ BlobAccessFails(w)
    BY <1>1, <1>4, <2>3
       DEF SkipEvent, RefuseEvent, BlobAccessFails, AtEvent, Return, Goto, Handling, Labels, Idle
  <2>4. CASE Download(w) \/ DownloadBreaks(w) \/ Fetch(w)
    BY <1>1, <1>4, <2>4
       DEF Download, DownloadBreaks, Hashed, AtEvent, Fetch, Return, Goto, Handling, Labels, Idle, RowSteps, local
  <2>5. CASE DuplicateMarked(w) \/ FailureMarked(w) \/ IngestMarked(w)
    BY <1>1, <1>4, <2>5
       DEF DuplicateMarked, FailureMarked, IngestMarked, Return, Goto, Handling, Labels, Idle, RowSteps
  <2>6. CASE Upsert(w) \/ Claim(w) \/ Submit(w) \/ Answer(w) \/ CallFails(w) \/ StatementFails(w)
    BY <1>1, <1>4, <2>6
       DEF Upsert, Claim, Submit, Answer, CallFails, StatementFails, Goto, Handling, Labels, Idle,
           RowSteps, Owning, local
  <2>7. QED BY <1>8, <2>1, <2>2, <2>3, <2>4, <2>5, <2>6 DEF WorkerStep, WorkerFault
<1>9. CASE \/ \E i \in Ids : Reappear(i) \/ (\E t \in Texts : Publish(i, t))
           \/ GatewayStep \/ Redrive \/ UNCHANGED vars
  BY <1>4, <1>9, OthersMoveNoWorker
<1>10. QED BY <1>5, <1>6, <1>7, <1>8, <1>9 DEF Next
\* A message joins those given up on when its body is sent to the poison queue.
LEMMA GivenUpGrows ==
  ASSUME IInv, \A w \in Workers : ReceiptsOK(w), [Next]_vars, NEW t \in Texts, NEW i \in GivenUp(t)'
  PROVE  \/ i \in GivenUp(t)
         \/ \E w \in Workers : SendPoison(w) /\ i = current[w].id /\ t = Text(w)
<1>1. i \in Ids /\ queue'[i].text = t BY DEF GivenUp
<1>2. QueueGrows BY StepGrows
<1>3. CASE queue'[i].state = "poisoned"
  <2>1. queue[i].state # "unsent" BY <1>1, <1>3, UnsentStays
  <2>2. queue[i].text = t BY <1>1, <1>2, <2>1 DEF QueueGrows
  <2>3. QED BY <1>1, <1>3, <2>1, <2>2, SentStays DEF GivenUp
<1>4. CASE queue'[i].state # "poisoned"
  <2>1. PICK w \in Workers : pc'[w] = "unqueue" /\ current'[w].id = i /\ ReceiptValid(current[w])'
    BY <1>4 DEF GivenUp
  <2>2. current'[w] = current[w] /\ (pc[w] = "unqueue" \/ SendPoison(w)) BY <2>1, UnqueueReached
  <2>3. /\ current[w].id = i /\ queue'[i].count = current[w].count
        /\ queue'[i].state \in {"visible", "hidden"}
    BY <2>1, <2>2 DEF ReceiptValid, InQueue
  <2>4. pc[w] \in Handling BY <2>2 DEF SendPoison, Handling, Labels, Idle
  <2>5. current[w] \in Delivery /\ queue[i].state # "unsent" BY <2>3, <2>4 DEF IInv, HeldOK
  <2>6. queue[i].text = t BY <1>1, <1>2, <2>5 DEF QueueGrows
  <2>7. CASE SendPoison(w) BY <2>3, <2>6, <2>7 DEF Text
  <2>8. CASE pc[w] = "unqueue"
    <3>1. current[w].count <= queue[i].count BY <2>3, <2>4 DEF ReceiptsOK
    <3>2. /\ queue[i].count \in Nat /\ queue'[i].count \in Nat /\ queue'[i].count >= queue[i].count
          /\ InQueue(i)
      BY <1>1, <2>3, <2>5, SentStays
    <3>3. current[w].count = queue[i].count BY <2>3, <3>1, <3>2
    <3>4. ReceiptValid(current[w]) BY <2>3, <3>2, <3>3 DEF ReceiptValid
    <3>5. QED BY <1>1, <2>3, <2>6, <2>8, <3>4 DEF GivenUp
  <2>9. QED BY <2>2, <2>7, <2>8
<1>5. QED BY <1>3, <1>4

\* One message is sent at a time, and none is forgotten.
LEMMA SentGrows ==
  ASSUME IInv, [Next]_vars
  PROVE  \E i : Sent' \subseteq Sent \cup {i}
<1>1. queue \in [Ids -> Message] BY DEF IInv, TypeOK
<1>2. ASSUME NEW i \in Ids, NEW t \in Texts, Publish(i, t) \/ RedriveSend(i, t)
      PROVE  Sent' \subseteq Sent \cup {i}
  BY <1>1, <1>2 DEF Publish, RedriveSend, Send, Sent
<1>3. CASE ~\E i \in Ids, t \in Texts : Publish(i, t) \/ RedriveSend(i, t)
  <2>1. Sent' \subseteq Sent \cup {None} BY <1>3, UnsentStays DEF Sent
  <2>2. QED BY <2>1
<1>4. QED BY <1>2, <1>3

LEMMA RedrivenGrows ==
  ASSUME IInv, \A i \in Ids : queue[i].redriven => i \in Sent, [Next]_vars
  PROVE  /\ \A i \in Ids : queue'[i].redriven => i \in Sent'
         /\ \A t \in Texts : Redriven(t) \subseteq Redriven(t)'
<1>1. ASSUME NEW i \in Ids, queue'[i].redriven PROVE i \in Sent'
  <2>1. CASE queue[i].state # "unsent" BY <2>1, StepGrows DEF QueueGrows, Sent
  <2>2. CASE queue[i].state = "unsent" BY <1>1, <2>2, UnsentStays DEF Sent
  <2>3. QED BY <2>1, <2>2
<1>2. ASSUME NEW t \in Texts, NEW i \in Redriven(t) PROVE i \in Redriven(t)'
  <2>1. i \in Ids /\ queue[i].redriven /\ queue[i].text = t /\ queue[i].state # "unsent"
    BY DEF Redriven, Sent
  <2>2. queue'[i].redriven = queue[i].redriven /\ queue'[i].text = queue[i].text
    BY <2>1, SentStays, StepGrows DEF QueueGrows
  <2>3. QED BY <2>1, <2>2 DEF Redriven
<1>3. QED BY <1>1, <1>2

\* The steps that change what is on the poison queue, or on its way back.
LEMMA PoisonMovers ==
  ASSUME [Next]_vars
  PROVE  \/ UNCHANGED <<poison, redriving>>
         \/ \E w \in Workers : SendPoison(w)
         \/ RedriveDelete \/ RedriveStops
         \/ \E i \in Ids, t \in Texts : RedriveSend(i, t)
<1>1. ASSUME NEW w \in Workers, WorkerStep(w) \/ WorkerFault(w)
      PROVE  UNCHANGED <<poison, redriving>> \/ SendPoison(w)
  BY <1>1
     DEF WorkerStep, WorkerFault, Receive, Take, EndOfEvents, Ack, Catch, Unqueue, Restart, SkipEvent,
         RefuseEvent, EventThrows, Download, Hashed, Upsert, Claim, Fetch, DuplicateMarked, Submit,
         Answer, FailureMarked, IngestMarked, AckFails, Crash, BlobAccessFails, DownloadBreaks, CallFails,
         StatementFails, azure
<1>2. ASSUME \/ \E i \in Ids : Reappear(i) \/ (\E t \in Texts : Publish(i, t))
             \/ GatewayStep \/ UNCHANGED vars
      PROVE  UNCHANGED <<poison, redriving>>
  BY <1>2 DEF Reappear, Publish, GatewayStep, GatewayStores, GatewayRefuses, Respond, vars, azure
<1>3. QED BY <1>1, <1>2 DEF Next, Redrive

\* The count for one body, when nothing joins those given up on.
LEMMA CoverNext ==
  ASSUME IInv, PoisonInv, [Next]_vars, NEW t \in Texts
  PROVE  Cardinality(GivenUp(t)') + InTransit(t)' <= poison'[t] + Cardinality(Redriven(t)')
<1>1. /\ IsFiniteSet(Sent) /\ Sent \subseteq Ids /\ poison[t] \in Nat
      /\ Cardinality(GivenUp(t)) + InTransit(t) <= poison[t] + Cardinality(Redriven(t))
      /\ InTransit(t) \in {0, 1}
  BY DEF PoisonInv, IInv, TypeOK, Sent, InTransit
<1>2. GivenUp(t) \subseteq Sent
  <2>1. ASSUME NEW i \in GivenUp(t) PROVE i \in Sent
    <3>1. i \in Ids BY DEF GivenUp
    <3>2. CASE queue[i].state = "poisoned" BY <3>1, <3>2 DEF Sent
    <3>3. CASE \E w \in Workers : pc[w] = "unqueue" /\ current[w].id = i /\ ReceiptValid(current[w])
      BY <3>1, <3>3 DEF ReceiptValid, InQueue, Sent
    <3>4. QED BY <3>2, <3>3 DEF GivenUp
  <2>2. QED BY <2>1
<1>3. IsFiniteSet(GivenUp(t)) /\ Cardinality(GivenUp(t)) \in Nat BY <1>1, <1>2, NoMore
<1>4. /\ IsFiniteSet(Sent')
      /\ Redriven(t)' \subseteq Sent' /\ Redriven(t) \subseteq Redriven(t)'
  <2>1. PICK i : Sent' \subseteq Sent \cup {i} BY SentGrows
  <2>2. IsFiniteSet(Sent') BY <1>1, <2>1, OneMore
  <2>3. QED BY <2>2, RedrivenGrows DEF PoisonInv, Redriven
<1>5. /\ IsFiniteSet(Redriven(t)') /\ Cardinality(Redriven(t)) \in Nat
      /\ Cardinality(Redriven(t)') \in Nat /\ Cardinality(Redriven(t)) <= Cardinality(Redriven(t)')
  <2>1. IsFiniteSet(Redriven(t)') BY <1>4, NoMore
  <2>2. QED BY <1>4, <2>1, NoMore
<1>6. CASE \E w \in Workers : SendPoison(w) /\ Text(w) = t
  <2>1. PICK w \in Workers : SendPoison(w) /\ Text(w) = t BY <1>6
  <2>2. poison'[t] = poison[t] + 1 /\ redriving' = redriving
    BY <2>1 DEF SendPoison, IInv, TypeOK
  <2>3. InTransit(t)' = InTransit(t) BY <2>2 DEF InTransit
  <2>4. pc' = [pc EXCEPT ![w] = "unqueue"] /\ current' = current /\ queue' = queue
    BY <2>1 DEF SendPoison, Goto, local
  <2>5. GivenUp(t)' \subseteq GivenUp(t) \cup {current[w].id}
    BY <2>4 DEF GivenUp, ReceiptValid, InQueue, IInv, TypeOK
  <2>6. /\ Cardinality(GivenUp(t)') \in Nat
        /\ Cardinality(GivenUp(t)') <= Cardinality(GivenUp(t)) + 1
    BY <1>3, <2>5, OneMore
  <2>7. QED BY <1>1, <1>3, <1>5, <2>2, <2>3, <2>6
<1>7. CASE ~\E w \in Workers : SendPoison(w) /\ Text(w) = t
  <2>1. GivenUp(t)' \subseteq GivenUp(t) BY <1>7, GivenUpGrows DEF PoisonInv
  <2>2. /\ Cardinality(GivenUp(t)') \in Nat
        /\ Cardinality(GivenUp(t)') <= Cardinality(GivenUp(t))
    BY <1>3, <2>1, NoMore
  <2>3. CASE poison'[t] = poison[t] /\ InTransit(t)' = InTransit(t)
    BY <1>1, <1>3, <1>5, <2>2, <2>3
  <2>4. CASE UNCHANGED <<poison, redriving>> BY <2>3, <2>4 DEF InTransit
  <2>5. CASE \E w \in Workers : SendPoison(w)
    BY <1>7, <2>3, <2>5 DEF SendPoison, IInv, TypeOK, InTransit
  <2>6. CASE RedriveDelete
    <3>1. redriving # None /\ redriving' = None BY <2>6 DEF RedriveDelete
    <3>2. InTransit(t)' = 0 BY <3>1 DEF InTransit
    <3>3. CASE redriving = t
      <4>1. InTransit(t) = 1 /\ poison'[t] = poison[t] - 1
        BY <2>6, <3>1, <3>3 DEF RedriveDelete, InTransit, IInv, TypeOK
      <4>2. QED BY <1>1, <1>3, <1>5, <2>2, <3>2, <4>1
    <3>4. CASE redriving # t
      <4>1. InTransit(t) = 0 /\ poison'[t] = poison[t]
        BY <2>6, <3>4 DEF RedriveDelete, InTransit, IInv, TypeOK
      <4>2. QED BY <2>3, <3>2, <4>1
    <3>5. QED BY <3>3, <3>4
  <2>7. CASE RedriveStops
    <3>1. poison' = poison /\ InTransit(t)' = 0 BY <2>7 DEF RedriveStops, InTransit
    <3>2. QED BY <1>1, <1>3, <1>5, <2>2, <3>1
  <2>8. CASE \E i \in Ids, s \in Texts : RedriveSend(i, s)
    <3>1. PICK i \in Ids, s \in Texts : RedriveSend(i, s) BY <2>8
    <3>2. /\ poison' = poison /\ redriving = None /\ redriving' = s
          /\ queue[i].state = "unsent" /\ queue' = [queue EXCEPT ![i] =
               [state |-> "visible", text |-> s, count |-> 0, redriven |-> TRUE]]
      BY <3>1 DEF RedriveSend, Send
    <3>3. InTransit(t) = 0 BY <3>2 DEF InTransit
    <3>4. CASE s # t \/ s = None
      <4>1. InTransit(t)' = 0 BY <3>2, <3>4 DEF InTransit
      <4>2. QED BY <2>3, <3>2, <3>3, <4>1
    <3>5. CASE s = t
      <4>1. InTransit(t)' \in {0, 1} BY DEF InTransit
      <4>2. i \notin Redriven(t) BY <3>2 DEF PoisonInv, Redriven, Sent
      <4>3. i \in Redriven(t)' BY <3>2, <3>5 DEF Redriven, IInv, TypeOK
      <4>4. IsFiniteSet(Redriven(t)) BY <1>4, <1>5, NoMore
      <4>5. /\ IsFiniteSet(Redriven(t) \cup {i})
            /\ Cardinality(Redriven(t) \cup {i}) = Cardinality(Redriven(t)) + 1
        BY <4>2, <4>4, FS_AddElement
      <4>6. Cardinality(Redriven(t) \cup {i}) <= Cardinality(Redriven(t)')
        BY <1>4, <1>5, <4>3, NoMore
      <4>7. QED BY <1>1, <1>3, <1>5, <2>2, <3>2, <3>3, <4>1, <4>5, <4>6
    <3>6. QED BY <3>4, <3>5
  <2>9. QED BY <2>4, <2>5, <2>6, <2>7, <2>8, PoisonMovers
<1>8. QED BY <1>6, <1>7

LEMMA PoisonNext == IInv /\ PoisonInv /\ [Next]_vars => PoisonInv'
<1> SUFFICES ASSUME IInv, PoisonInv, [Next]_vars PROVE PoisonInv' OBVIOUS
<1>1. IsFiniteSet(Sent')
  <2>1. PICK i : Sent' \subseteq Sent \cup {i} BY SentGrows
  <2>2. QED BY <2>1, OneMore DEF PoisonInv
<1>2. \A w \in Workers : ReceiptsOK(w)' BY ReceiptsNext DEF PoisonInv
<1>3. \A i \in Ids : queue'[i].redriven => i \in Sent' BY RedrivenGrows DEF PoisonInv
<1>4. \A t \in Texts :
        Cardinality(GivenUp(t)') + InTransit(t)' <= poison'[t] + Cardinality(Redriven(t)')
  BY CoverNext
<1>5. QED BY <1>1, <1>2, <1>3, <1>4 DEF PoisonInv

\* No body is lost between the main queue, the poison queue and the redrive
\* script: for any number of messages with the same body, workers, stale
\* receipts and scripts that stop half way, each message that queueWorker.js
\* gave up on has a copy on the poison queue or was sent again.
THEOREM NoBodyIsLost == Spec => []PoisonKeepsBodies
<1>1. Init => PoisonInv
  <2> SUFFICES ASSUME Init PROVE PoisonInv OBVIOUS
  <2>1. Sent = {} /\ \A t \in Texts : GivenUp(t) = {} /\ Redriven(t) = {}
    BY DEF Init, Sent, GivenUp, Redriven
  <2>2. \A w \in Workers : ReceiptsOK(w) BY DEF Init, ReceiptsOK, Handling, Idle
  <2>3. \A i \in Ids : ~queue[i].redriven BY DEF Init
  <2>4. \A t \in Texts : InTransit(t) = 0 /\ poison[t] = 0 BY DEF Init, InTransit
  <2>5. QED BY <2>1, <2>2, <2>3, <2>4, FS_EmptySet DEF PoisonInv
<1>2. IInv /\ PoisonInv => PoisonKeepsBodies
  <2> SUFFICES ASSUME IInv, PoisonInv, NEW t \in Texts
               PROVE  Cardinality({i \in Ids : queue[i].state = "poisoned" /\ queue[i].text = t})
                        <= poison[t] + Cardinality({i \in Ids : queue[i].redriven /\ queue[i].text = t})
    BY DEF PoisonKeepsBodies
  <2>1. /\ IsFiniteSet(Sent) /\ poison[t] \in Nat
        /\ Cardinality(GivenUp(t)) + InTransit(t) <= poison[t] + Cardinality(Redriven(t))
        /\ InTransit(t) \in {0, 1}
    BY DEF PoisonInv, IInv, TypeOK, InTransit
  <2>2. GivenUp(t) \subseteq Sent BY DEF GivenUp, Sent, ReceiptValid, InQueue
  <2>3. Redriven(t) \subseteq Sent BY DEF PoisonInv, Redriven
  <2>4. /\ IsFiniteSet(GivenUp(t)) /\ Cardinality(GivenUp(t)) \in Nat
        /\ Cardinality(Redriven(t)) \in Nat
    BY <2>1, <2>2, <2>3, NoMore
  <2>5. {i \in Ids : queue[i].state = "poisoned" /\ queue[i].text = t} \subseteq GivenUp(t)
    BY DEF GivenUp
  <2>6. /\ Cardinality({i \in Ids : queue[i].state = "poisoned" /\ queue[i].text = t}) \in Nat
        /\ Cardinality({i \in Ids : queue[i].state = "poisoned" /\ queue[i].text = t})
             <= Cardinality(GivenUp(t))
    BY <2>4, <2>5, NoMore
  <2>7. QED BY <2>1, <2>4, <2>6 DEF Redriven
<1>3. QED BY <1>1, <1>2, PoisonNext, InvariantHolds, PTL DEF Spec
-----------------------------------------------------------------------------
(***************************************************************************)
(* The workers implement IngestRegistry: every step of IntakeWorker is a   *)
(* step of IngestRegistry on one content, or changes nothing that          *)
(* IngestRegistry speaks of.                                               *)
(***************************************************************************)

\* What IngestRegistry sees.
StatusOf == [c \in Contents |-> rows[c].status]
DuplicatesOf == [c \in Contents |-> rows[c].duplicates]
RequestOf == [c \in Contents |-> RequestFate(c)]

LEMMA SeenStutter ==
  ASSUME StatusOf' = StatusOf, DuplicatesOf' = DuplicatesOf, RequestOf' = RequestOf
  PROVE  UNCHANGED Registry!vars
BY DEF Registry!vars, StatusOf, DuplicatesOf, RequestOf

LEMMA GatewayIdleSeen == ASSUME UNCHANGED gateway PROVE RequestOf' = RequestOf
BY DEF gateway, RequestOf, RequestFate

\* A step that leaves the table and the gateway alone.
LEMMA SilentStep ==
  ASSUME rows' = rows, UNCHANGED gateway
  PROVE  [Registry!Next]_(Registry!vars)
BY SeenStutter, GatewayIdleSeen DEF StatusOf, DuplicatesOf

\* A statement that moves a row from one status to another.
LEMMA RowMove ==
  ASSUME rows \in [Contents -> Row], NEW c \in Contents, UNCHANGED gateway,
         NEW from, NEW to, rows[c].status = from,
         rows' \in [Contents -> Row], rows'[c].status = to, rows'[c].duplicates = rows[c].duplicates,
         \A d \in Contents : d # c => rows'[d] = rows[d]
  PROVE  Registry!Move(c, from, to)
<1>1. StatusOf[c] = from BY DEF StatusOf
<1>2. StatusOf' = [StatusOf EXCEPT ![c] = to] BY DEF StatusOf
<1>3. DuplicatesOf' = DuplicatesOf BY DEF DuplicatesOf
<1>4. RequestOf' = RequestOf BY GatewayIdleSeen
<1>5. QED BY <1>1, <1>2, <1>3, <1>4 DEF Registry!Move, StatusOf, DuplicatesOf, RequestOf

LEMMA StatementStep ==
  ASSUME IInv, NEW w \in Workers, pc[w] \in RowSteps, rows' \in {rows, Executed(w)}, UNCHANGED gateway
  PROVE  [Registry!Next]_(Registry!vars)
<1> DEFINE c == content[w]
<1>1. /\ c \in Contents /\ rows \in [Contents -> Row] /\ rows' \in [Contents -> Row]
      /\ \A d \in Contents : d # c => rows'[d] = rows[d]
  BY HashedFacts, StatementKeepsRows DEF Hashing, IInv, TypeOK, TableGrows
<1>2. CASE rows' = rows BY <1>2, SilentStep
<1>3. CASE rows' # rows
  <2>1. rows' = Executed(w) BY <1>3
  <2>2. CASE pc[w] = "upsert"
    <3>1. rows' = UpsertIngestFile(rows, c) BY <2>1, <2>2 DEF Executed
    <3>2. rows[c].status = "ABSENT" /\ rows'[c] = [status |-> "PENDING", duplicates |-> 0]
      BY <1>1, <1>3, <3>1 DEF UpsertIngestFile
    <3>3. rows[c].duplicates = 0
      BY <1>1, <3>2 DEF IInv, GatewayAgrees, Row
    <3>4. Registry!Move(c, "ABSENT", "PENDING") BY <1>1, <3>2, <3>3, RowMove
    <3>5. QED BY <1>1, <3>4 DEF Registry!Next, Registry!Register
  <2>3. CASE pc[w] = "claim"
    <3>1. rows' = ClaimIngestFile(rows, c) BY <2>1, <2>3 DEF Executed
    <3>2. /\ rows[c].status = "PENDING" /\ rows'[c].status = "PROCESSING"
          /\ rows'[c].duplicates = rows[c].duplicates
      BY <1>1, <1>3, <3>1 DEF ClaimIngestFile, Claimable, Row
    <3>3. Registry!Move(c, "PENDING", "PROCESSING") BY <1>1, <3>2, RowMove
    <3>4. QED BY <1>1, <3>3 DEF Registry!Next, Registry!Claim
  <2>4. CASE pc[w] = "fetch" BY <1>3, <2>1, <2>4 DEF Executed
  <2>5. CASE pc[w] = "markDuplicate"
    <3>1. rows' = MarkDuplicate(rows, c) BY <2>1, <2>5 DEF Executed
    <3>2. rows[c].status = "INGESTED" BY <2>5 DEF IInv, RowOK
    <3>3. /\ rows'[c].status = rows[c].status
          /\ rows'[c].duplicates = rows[c].duplicates + 1
      BY <1>1, <1>3, <3>1 DEF MarkDuplicate, Row
    <3>4. StatusOf' = StatusOf BY <1>1, <3>3 DEF StatusOf
    <3>5. DuplicatesOf' = [DuplicatesOf EXCEPT ![c] = @ + 1] BY <1>1, <3>3 DEF DuplicatesOf
    <3>6. RequestOf' = RequestOf BY GatewayIdleSeen
    <3>7. StatusOf[c] = "INGESTED" BY <1>1, <3>2 DEF StatusOf
    <3>8. Registry!CountDuplicate(c)
      BY <3>4, <3>5, <3>6, <3>7 DEF Registry!CountDuplicate, StatusOf, DuplicatesOf, RequestOf
    <3>9. Registry!Next BY <1>1, <3>8 DEF Registry!Next, Registry!CountDuplicate
    <3>10. QED BY <3>9
  <2>6. CASE pc[w] = "markFailed"
    <3>1. rows' = MarkFailed(rows, c) BY <2>1, <2>6 DEF Executed
    <3>2. /\ rows[c].status = "PROCESSING" /\ rows'[c].status = "FAILED"
          /\ rows'[c].duplicates = rows[c].duplicates
      BY <1>1, <1>3, <3>1 DEF MarkFailed, Row
    <3>3. Registry!Move(c, "PROCESSING", "FAILED") BY <1>1, <3>2, RowMove
    <3>4. QED BY <1>1, <3>3 DEF Registry!Next, Registry!Fail
  <2>7. CASE pc[w] = "markIngested"
    <3>1. rows' = MarkIngested(rows, c) BY <2>1, <2>7 DEF Executed
    <3>2. /\ rows[c].status = "PROCESSING" /\ rows'[c].status = "INGESTED"
          /\ rows'[c].duplicates = rows[c].duplicates
      BY <1>1, <1>3, <3>1 DEF MarkIngested, Row
    <3>3. Registry!Move(c, "PROCESSING", "INGESTED") BY <1>1, <3>2, RowMove
    <3>4. RequestOf[c] = "stored"
      BY <1>1, <2>7 DEF IInv, RowOK, GatewayAgrees, RequestOf, RequestFate
    <3>5. QED BY <1>1, <3>3, <3>4 DEF Registry!Next, Registry!Accept, RequestOf
  <2>8. QED BY <2>2, <2>3, <2>4, <2>5, <2>6, <2>7 DEF RowSteps
<1>4. QED BY <1>2, <1>3

LEMMA SubmitStep ==
  ASSUME IInv, NEW w \in Workers, Submit(w)
  PROVE  [Registry!Next]_(Registry!vars)
<1>0. pc[w] = "submit" /\ pc[w] \in Hashing /\ pc[w] \in Owning
  BY DEF Submit, Hashing, Owning
<1>00. PICK c \in Contents : c = content[w] BY <1>0, HashedFacts
<1>1. /\ pc[w] = "submit" /\ pc[w] \in Hashing /\ pc[w] \in Owning
      /\ rows' = rows /\ stored' = stored
      /\ requests' = requests \cup {[worker |-> w, event |-> Event(w)]}
      /\ calls' = [calls EXCEPT ![c] = @ + 1]
  BY <1>00 DEF Submit, Hashing, Owning
<1>2. c \in Contents /\ calls[c] = 0 /\ rows[c].status = "PROCESSING"
  BY <1>00, <1>1, HashedFacts
<1>3. c = Content[Event(w)] BY <1>00, <1>1 DEF IInv, HashOK
<1>4. c \notin stored BY <1>2 DEF IInv, GatewayAgrees
<1>5. calls'[c] = 1 /\ \A d \in Contents : d # c => calls'[d] = calls[d]
  BY <1>1, <1>2 DEF IInv, TypeOK
<1>6. StatusOf' = StatusOf /\ DuplicatesOf' = DuplicatesOf BY <1>1 DEF StatusOf, DuplicatesOf
<1>7. StatusOf[c] = "PROCESSING" BY <1>2 DEF StatusOf
<1>8. RequestOf[c] = "none" BY <1>2 DEF RequestOf, RequestFate
<1>9. RequestFate(c)' = "open"
  <2>1. calls'[c] # 0 BY <1>5
  <2>2. c \notin stored' BY <1>1, <1>4
  <2>3. [worker |-> w, event |-> Event(w)] \in requests' BY <1>1
  <2>4. Content[[worker |-> w, event |-> Event(w)].event] = c BY <1>3
  <2>5. \E r \in requests' : Content[r.event] = c BY <2>3, <2>4
  <2>6. QED BY <2>1, <2>2, <2>5 DEF RequestFate
<1>10. \A d \in Contents : d # c => RequestFate(d)' = RequestFate(d)
  BY <1>1, <1>3, <1>5 DEF RequestFate
<1>11. RequestOf' = [RequestOf EXCEPT ![c] = "open"]
  <2>1. RequestOf' = [d \in Contents |-> RequestFate(d)'] BY DEF RequestOf
  <2>2. \A d \in Contents : d # c => RequestOf[d] = RequestFate(d)' BY <1>10 DEF RequestOf
  <2>3. QED BY <1>2, <1>9, <2>1, <2>2 DEF RequestOf
<1>12. Registry!Submit(c)
  BY <1>6, <1>7, <1>8, <1>11 DEF Registry!Submit, StatusOf, DuplicatesOf, RequestOf
<1>13. QED BY <1>2, <1>12 DEF Registry!Next

LEMMA AnswerStep ==
  ASSUME IInv, NEW r \in requests, GatewayStores(r) \/ GatewayRefuses(r)
  PROVE  [Registry!Next]_(Registry!vars)
<1> DEFINE c == Content[r.event]
<1>1. /\ rows' = rows /\ calls' = calls /\ requests' = requests \ {r}
      /\ stored' = stored \/ stored' = stored \cup {c}
  BY DEF GatewayStores, GatewayRefuses, Respond
<1>2. c \in Contents
  BY ConstantsAssumption DEF IInv, TypeOK, Request
<1>3. calls[c] > 0 /\ c \notin stored /\ \A s \in requests : Content[s.event] = c => s = r
  BY DEF IInv, RequestsMatchCalls
<1>4. StatusOf' = StatusOf /\ DuplicatesOf' = DuplicatesOf BY <1>1 DEF StatusOf, DuplicatesOf
<1>5. calls[c] # 0 BY <1>2, <1>3 DEF IInv, TypeOK
<1>6. RequestOf[c] = "open" BY <1>2, <1>3, <1>5 DEF RequestOf, RequestFate
<1>7. RequestFate(c)' \in {"stored", "refused"}
  BY <1>1, <1>3, <1>5 DEF RequestFate
<1>8. \A d \in Contents : d # c => RequestFate(d)' = RequestFate(d)
  BY <1>1 DEF RequestFate
<1>9. PICK fate \in {"stored", "refused"} : RequestFate(c)' = fate BY <1>7
<1>10. RequestOf' = [RequestOf EXCEPT ![c] = fate] BY <1>2, <1>8, <1>9 DEF RequestOf
<1>11. Registry!Answer(c)
  BY <1>4, <1>6, <1>10 DEF Registry!Answer, StatusOf, DuplicatesOf, RequestOf
<1>12. QED BY <1>2, <1>11 DEF Registry!Next

LEMMA WorkerStepSeen ==
  ASSUME IInv, NEW w \in Workers, WorkerStep(w)
  PROVE  [Registry!Next]_(Registry!vars)
<1>1. CASE Receive(w) \/ Take(w) \/ EndOfEvents(w) \/ Ack(w) \/ Catch(w)
  BY <1>1, SilentStep DEF Receive, Take, EndOfEvents, Ack, Catch
<1>2. CASE SendPoison(w) \/ Unqueue(w) \/ Restart(w) \/ SkipEvent(w) \/ RefuseEvent(w)
  BY <1>2, SilentStep DEF SendPoison, Unqueue, Restart, SkipEvent, RefuseEvent
<1>3. CASE EventThrows(w) \/ Download(w) \/ Fetch(w) \/ Answer(w)
  BY <1>3, SilentStep DEF EventThrows, Download, Hashed, Fetch, Answer
<1>4. CASE Upsert(w) \/ Claim(w) \/ DuplicateMarked(w) \/ FailureMarked(w) \/ IngestMarked(w)
  BY <1>4, StatementStep DEF Upsert, Claim, DuplicateMarked, FailureMarked, IngestMarked, RowSteps
<1>5. CASE Submit(w) BY <1>5, SubmitStep
<1>6. QED BY <1>1, <1>2, <1>3, <1>4, <1>5 DEF WorkerStep

LEMMA WorkerFaultSeen ==
  ASSUME IInv, NEW w \in Workers, WorkerFault(w)
  PROVE  [Registry!Next]_(Registry!vars)
<1>1. CASE AckFails(w) \/ Crash(w) \/ BlobAccessFails(w)
  BY <1>1, SilentStep DEF AckFails, Crash, BlobAccessFails
<1>2. CASE DownloadBreaks(w) \/ CallFails(w)
  BY <1>2, SilentStep DEF DownloadBreaks, Hashed, CallFails
<1>3. CASE StatementFails(w) BY <1>3, StatementStep DEF StatementFails
<1>4. QED BY <1>1, <1>2, <1>3 DEF WorkerFault

LEMMA NextSeen == IInv /\ [Next]_vars => [Registry!Next]_(Registry!vars)
<1> SUFFICES ASSUME IInv, [Next]_vars PROVE [Registry!Next]_(Registry!vars) OBVIOUS
<1>1. CASE \E w \in Workers : WorkerStep(w) \/ WorkerFault(w)
  BY <1>1, WorkerStepSeen, WorkerFaultSeen
<1>2. CASE \E i \in Ids : Reappear(i) \/ (\E t \in Texts : Publish(i, t))
  BY <1>2, SilentStep DEF Reappear, Publish
<1>3. CASE GatewayStep BY <1>3, AnswerStep DEF GatewayStep
<1>4. CASE Redrive
  BY <1>4, SilentStep DEF Redrive, RedriveDelete, RedriveStops, RedriveSend
<1>5. CASE UNCHANGED vars BY <1>5, SilentStep DEF vars
<1>6. QED BY <1>1, <1>2, <1>3, <1>4, <1>5 DEF Next

LEMMA InitSeen == Init => Registry!Init
<1> SUFFICES ASSUME Init PROVE Registry!Init OBVIOUS
<1>1. StatusOf = [c \in Contents |-> "ABSENT"] /\ DuplicatesOf = [c \in Contents |-> 0]
  BY DEF Init, EmptyTable, StatusOf, DuplicatesOf
<1>2. RequestOf = [c \in Contents |-> "none"] BY DEF Init, RequestOf, RequestFate
<1>3. QED BY <1>1, <1>2 DEF Registry!Init, StatusOf, DuplicatesOf, RequestOf

\* However many workers handle however many deliveries of a file, and
\* whatever fails, the intake does to each content what IngestRegistry says:
\* it registers it, claims it once, asks the gateway once at most, and writes
\* INGESTED only after the gateway stored it; no end state is ever left.
THEOREM ImplementsRegistry == Spec => RegistrySpec
<1>1. Spec => []IInv BY InvariantHolds
<1>2. QED BY <1>1, InitSeen, NextSeen, PTL DEF Spec, RegistrySpec, Registry!Spec
=============================================================================
