------------------------- MODULE IntakeWorkerProofs -------------------------
(***************************************************************************)
(* Theorems about IntakeWorker, for any sets of workers, messages, bodies  *)
(* and contents, any batch size and any budget of faults.                  *)
(***************************************************************************)
EXTENDS IntakeInvariant, TLAPS

-----------------------------------------------------------------------------
(***************************************************************************)
(* The shapes of steps.  Most actions touch one worker and leave the rest  *)
(* of the state in one of these relations to the next state.               *)
(***************************************************************************)

\* The process of v does nothing.
Untouched(v) ==
  /\ pc'[v] = pc[v]
  /\ batch'[v] = batch[v]
  /\ current'[v] = current[v]
  /\ position'[v] = position[v]
  /\ content'[v] = content[v]
  /\ broken'[v] = broken[v]
  /\ reply'[v] = reply[v]

\* Messages are sent and move on, but keep their bodies.
QueueGrows ==
  /\ queue' \in [Ids -> Message]
  /\ \A i \in Ids : queue'[i].state # "unsent" => queue'[i].text \in Texts
  /\ \A i \in Ids : queue[i].state # "unsent" =>
       queue'[i].state # "unsent" /\ queue'[i].text = queue[i].text

\* Rows move towards an end state.
TableGrows ==
  /\ rows' \in [Contents -> Row]
  /\ \A c \in Contents :
       /\ rows[c].status # "ABSENT" => rows'[c].status # "ABSENT"
       /\ Claimed(rows, c) => Claimed(rows', c)
       /\ rows[c].status = "INGESTED" => rows'[c].status = "INGESTED"

\* No worker becomes the owner of a content.
NoNewOwner ==
  \A v \in Workers : pc'[v] \in Owning => pc[v] \in Owning /\ content'[v] = content[v]

LEMMA SpendType ==
  ASSUME faults \in [FaultKinds -> Nat], NEW f \in FaultKinds, Spend(f)
  PROVE  faults' \in [FaultKinds -> Nat]
BY DEF Spend

\* A message that is deleted or reappears keeps its body.
LEMMA MoveGrows ==
  ASSUME TypeOK, SentHasBody, NEW i \in Ids, queue[i].state # "unsent",
         NEW s \in {"visible", "done", "poisoned"},
         queue' = [queue EXCEPT ![i].state = s]
  PROVE  QueueGrows
BY DEF TypeOK, Message, SentHasBody, QueueGrows

LEMMA SameQueueGrows ==
  ASSUME TypeOK, SentHasBody, queue' = queue PROVE QueueGrows
BY DEF TypeOK, SentHasBody, QueueGrows

LEMMA SameTableGrows ==
  ASSUME TypeOK, rows' = rows PROVE TableGrows
BY DEF TypeOK, TableGrows

\* A worker the step does not touch keeps what it relies on.
LEMMA UntouchedKeeps ==
  ASSUME IInv, QueueGrows, TableGrows, stored \subseteq stored',
         NEW v \in Workers, Untouched(v),
         pc[v] = "submit" => calls'[content[v]] = calls[content[v]]
  PROVE  HeldOK(v)' /\ HashOK(v)' /\ RowOK(v)'
<1>1. HeldOK(v)'
  <2>1. HeldOK(v) /\ batch[v] \subseteq Delivery /\ \A i \in Ids : queue[i].state # "unsent" => queue'[i].state # "unsent"
    BY DEF IInv, TypeOK, QueueGrows
  <2>2. QED BY <2>1 DEF HeldOK, Untouched, Delivery
<1>2. HashOK(v)'
  <2>1. HashOK(v) BY DEF IInv
  <2>2. SUFFICES ASSUME pc[v] \in Hashing PROVE HashOK(v)'
    BY DEF HashOK, Untouched
  <2>3. Text(v)' = Text(v)
    BY <2>2 DEF IInv, HeldOK, Handling, Hashing, Labels, Idle, RowSteps, Owning, Text, QueueGrows,
                Untouched, Delivery
  <2>4. QED BY <2>1, <2>3 DEF HashOK, Untouched, Event
<1>3. RowOK(v)'
  <2>1. RowOK(v) /\ (pc[v] \in {"claim", "fetch", "markDuplicate"} => content[v] \in Contents)
    BY DEF IInv, HashOK, Hashing, RowSteps
  <2>2. QED BY <2>1 DEF RowOK, Untouched, TableGrows
<1>4. QED BY <1>1, <1>2, <1>3

\* Nothing happens to the table and nobody becomes an owner.
LEMMA NoNewOwnerKeeps ==
  ASSUME IInv, rows' = rows, NoNewOwner PROVE ClaimIsExclusive'
BY DEF IInv, ClaimIsExclusive, NoNewOwner

\* Nothing happens to the table, the calls and the gateway.
LEMMA GatewayIdleKeeps ==
  ASSUME IInv, rows' = rows, UNCHANGED gateway PROVE RequestsMatchCalls' /\ GatewayAgrees'
BY DEF IInv, RequestsMatchCalls, GatewayAgrees, Claimed, gateway

LocalTypeOK ==
  /\ pc \in [Workers -> Labels]
  /\ batch \in [Workers -> SUBSET Delivery]
  /\ current \in [Workers -> Delivery \cup {None}]
  /\ position \in [Workers -> Nat]
  /\ content \in [Workers -> Contents \cup {None}]
  /\ broken \in [Workers -> BOOLEAN]
  /\ failing \in [Workers -> BOOLEAN]
  /\ reply \in [Workers -> {"none", "ok", "error"}]

OutsideTypeOK ==
  /\ poison \in [Texts -> Nat]
  /\ redriving \in Texts \cup {None}
  /\ faults \in [FaultKinds -> Nat]

\* The step changes the state of worker w and of no other, and what w relies
\* on holds afterwards.
LocalStep(w) ==
  /\ LocalTypeOK'
  /\ \A v \in Workers : v # w => Untouched(v)
  /\ HeldOK(w)' /\ HashOK(w)' /\ RowOK(w)'

-----------------------------------------------------------------------------
(***************************************************************************)
(* The ways a worker moves on.                                             *)
(***************************************************************************)

LEMMA ReturnStep ==
  ASSUME IInv, QueueGrows, NEW w \in Workers, NEW r \in BOOLEAN, pc[w] \in Handling, Return(w, r)
  PROVE  LocalStep(w) /\ NoNewOwner
<1>1. LocalTypeOK' BY DEF IInv, TypeOK, LocalTypeOK, Return, Goto, Labels
<1>2. /\ pc'[w] = "event" /\ position'[w] = position[w] + 1 /\ reply'[w] = "none"
      /\ current'[w] = current[w] /\ batch'[w] = batch[w]
  BY DEF IInv, TypeOK, Return, Goto
<1>3. HeldOK(w)'
  BY <1>2 DEF IInv, TypeOK, HeldOK, QueueGrows, Delivery
<1>4. HashOK(w)' /\ RowOK(w)'
  BY <1>2 DEF HashOK, RowOK, Hashing, RowSteps, Owning
<1>5. \A v \in Workers : v # w => Untouched(v)
  BY DEF IInv, TypeOK, Return, Goto, Untouched
<1>6. NoNewOwner
  BY <1>2, <1>5 DEF NoNewOwner, Untouched, Owning
<1>7. QED BY <1>1, <1>3, <1>4, <1>5, <1>6 DEF LocalStep

LEMMA LeaveStep ==
  ASSUME IInv, QueueGrows, NEW w \in Workers, NextMessage(w)
  PROVE  LocalStep(w) /\ NoNewOwner
<1>1. LocalTypeOK' BY DEF IInv, TypeOK, LocalTypeOK, NextMessage, Goto, Labels, Idle
<1>2. pc'[w] = "next" /\ reply'[w] = "none" /\ batch'[w] = batch[w]
  BY DEF IInv, TypeOK, NextMessage, Goto
<1>3. HeldOK(w)'
  BY <1>2 DEF IInv, TypeOK, HeldOK, QueueGrows, Delivery, Handling, Idle
<1>4. HashOK(w)' /\ RowOK(w)'
  BY <1>2 DEF HashOK, RowOK, Hashing, RowSteps, Owning
<1>5. \A v \in Workers : v # w => Untouched(v)
  BY DEF IInv, TypeOK, NextMessage, Goto, Untouched
<1>6. NoNewOwner
  BY <1>2, <1>5 DEF NoNewOwner, Untouched, Owning
<1>7. QED BY <1>1, <1>3, <1>4, <1>5, <1>6 DEF LocalStep

LEMMA ExitStep ==
  ASSUME IInv, NEW w \in Workers, Goto(w, "down"), Forget(w)
  PROVE  LocalStep(w) /\ NoNewOwner
<1>1. LocalTypeOK' BY DEF IInv, TypeOK, LocalTypeOK, Forget, Goto, Labels, Idle
<1>2. pc'[w] = "down" /\ reply'[w] = "none" /\ batch'[w] = {}
  BY DEF IInv, TypeOK, Forget, Goto
<1>3. HeldOK(w)' /\ HashOK(w)' /\ RowOK(w)'
  BY <1>2 DEF HeldOK, HashOK, RowOK, Handling, Idle, Hashing, RowSteps, Owning
<1>4. \A v \in Workers : v # w => Untouched(v)
  BY DEF IInv, TypeOK, Forget, Goto, Untouched
<1>5. NoNewOwner
  BY <1>2, <1>4 DEF NoNewOwner, Untouched, Owning
<1>6. QED BY <1>1, <1>3, <1>4, <1>5 DEF LocalStep

\* A worker moves to a label at which it relies on nothing about the table.
LEMMA JumpStep ==
  ASSUME IInv, QueueGrows, NEW w \in Workers, UNCHANGED local,
         NEW l \in {"next", "event", "ack", "catch", "poison", "unqueue"}, Goto(w, l),
         l # "next" => pc[w] \in Handling,
         reply[w] = "none" \/ l \in {"catch", "poison", "unqueue"}
  PROVE  LocalStep(w) /\ NoNewOwner
<1>1. LocalTypeOK' BY DEF IInv, TypeOK, LocalTypeOK, Goto, Labels, Idle, local
<1>2. pc'[w] = l /\ current'[w] = current[w] /\ position'[w] = position[w]
      /\ batch'[w] = batch[w] /\ reply'[w] = reply[w]
  BY DEF IInv, TypeOK, Goto, local
<1>3. HeldOK(w)'
  BY <1>2 DEF IInv, TypeOK, HeldOK, QueueGrows, Delivery, Handling, Idle
<1>4. HashOK(w)' /\ RowOK(w)'
  BY <1>2 DEF HashOK, RowOK, Hashing, RowSteps, Owning
<1>5. \A v \in Workers : v # w => Untouched(v)
  BY DEF IInv, TypeOK, Goto, Untouched, local
<1>6. NoNewOwner
  BY <1>2, <1>5 DEF NoNewOwner, Untouched, Owning
<1>7. QED BY <1>1, <1>3, <1>4, <1>5, <1>6 DEF LocalStep

\* A step of w that leaves the table and the gateway alone keeps the
\* invariant if it keeps what w itself relies on.
LEMMA QuietWorkerKeeps ==
  ASSUME IInv, NEW w \in Workers, LocalStep(w), QueueGrows, rows' = rows, UNCHANGED gateway,
         OutsideTypeOK', NoNewOwner, RedriveHasCopy'
  PROVE  IInv'
<1>1. SentHasBody' BY DEF QueueGrows, SentHasBody
<1>2. ASSUME NEW v \in Workers PROVE HeldOK(v)' /\ HashOK(v)' /\ RowOK(v)'
  <2>1. CASE v = w BY <2>1 DEF LocalStep
  <2>2. CASE v # w
    <3>1. TableGrows BY SameTableGrows DEF IInv
    <3>2. QED BY <2>2, <3>1, UntouchedKeeps DEF LocalStep, gateway
  <2>3. QED BY <2>1, <2>2
<1>3. TypeOK'
  BY DEF IInv, TypeOK, LocalStep, LocalTypeOK, OutsideTypeOK, QueueGrows, gateway
<1>4. QED BY <1>1, <1>2, <1>3, NoNewOwnerKeeps, GatewayIdleKeeps DEF IInv

\* The common case: only the worker moves.
LEMMA SilentWorkerKeeps ==
  ASSUME IInv, NEW w \in Workers, LocalStep(w), rows' = rows, UNCHANGED azure, UNCHANGED gateway,
         faults' \in [FaultKinds -> Nat], NoNewOwner
  PROVE  IInv'
<1>1. QueueGrows BY SameQueueGrows DEF IInv, azure
<1>2. OutsideTypeOK' /\ RedriveHasCopy'
  BY DEF IInv, TypeOK, OutsideTypeOK, RedriveHasCopy, azure
<1>3. QED BY <1>1, <1>2, QuietWorkerKeeps

-----------------------------------------------------------------------------
(***************************************************************************)
(* The steps of main in queueWorker.js.                                    *)
(***************************************************************************)

\* A message that is received is hidden and keeps its body.
LEMMA ReceiveGrows == ASSUME IInv, NEW w \in Workers, Receive(w) PROVE QueueGrows
<1>1. PICK some \in SUBSET {i \in Ids : queue[i].state = "visible"} :
        queue' = [i \in Ids |->
                    IF i \in some
                    THEN [queue[i] EXCEPT !.state = "hidden", !.count = @ + 1]
                    ELSE queue[i]]
  BY DEF Receive
<1>2. ASSUME NEW i \in Ids
      PROVE  /\ queue'[i] \in Message
             /\ queue'[i].text = queue[i].text
             /\ queue[i].state # "unsent" => queue'[i].state # "unsent"
             /\ queue'[i].state # "unsent" => queue[i].state # "unsent"
  <2>1. queue[i] \in Message BY DEF IInv, TypeOK
  <2>2. CASE i \in some
    <3>1. queue'[i] = [queue[i] EXCEPT !.state = "hidden", !.count = @ + 1] BY <1>1, <2>2
    <3>2. queue[i].state = "visible" BY <2>2
    <3>3. queue'[i] = [state |-> "hidden", text |-> queue[i].text,
                       count |-> queue[i].count + 1, redriven |-> queue[i].redriven]
      BY <2>1, <3>1 DEF Message
    <3>4. QED BY <2>1, <3>2, <3>3 DEF Message
  <2>3. CASE i \notin some
    <3>1. queue'[i] = queue[i] BY <1>1, <2>3
    <3>2. QED BY <2>1, <3>1
  <2>4. QED BY <2>2, <2>3
<1>3. QED BY <1>1, <1>2 DEF IInv, SentHasBody, QueueGrows

LEMMA ReceiveKeeps == ASSUME IInv, NEW w \in Workers, Receive(w) PROVE IInv'
<1>1. PICK some \in SUBSET {i \in Ids : queue[i].state = "visible"} :
        /\ queue' = [i \in Ids |->
                       IF i \in some
                       THEN [queue[i] EXCEPT !.state = "hidden", !.count = @ + 1]
                       ELSE queue[i]]
        /\ batch' = [batch EXCEPT ![w] = {[id |-> i, count |-> queue[i].count + 1] : i \in some}]
  BY DEF Receive
<1>2. QueueGrows BY ReceiveGrows
<1>3. batch'[w] \subseteq Delivery /\ \A d \in batch'[w] : queue'[d.id].state # "unsent"
  <2>1. batch'[w] = {[id |-> i, count |-> queue[i].count + 1] : i \in some}
    BY <1>1 DEF IInv, TypeOK
  <2>2. \A i \in some : queue[i].count \in Nat /\ queue[i].state # "unsent"
    BY <1>1 DEF IInv, TypeOK, Message
  <2>3. \A i \in some : queue'[i].state # "unsent"
    BY <1>2, <2>2 DEF QueueGrows
  <2>4. QED BY <2>1, <2>2, <2>3 DEF Delivery
<1>4. pc[w] = "next" /\ UNCHANGED <<pc, current, position, content, broken, failing, reply>>
  BY DEF Receive
<1>5. LocalTypeOK' /\ \A v \in Workers : v # w => Untouched(v)
  BY <1>1, <1>3, <1>4 DEF IInv, TypeOK, LocalTypeOK, Untouched
<1>6. HeldOK(w)' /\ HashOK(w)' /\ RowOK(w)'
  BY <1>3, <1>4 DEF IInv, HeldOK, HashOK, RowOK, Handling, Idle, Hashing, RowSteps, Owning
<1>7. rows' = rows /\ UNCHANGED gateway /\ OutsideTypeOK' /\ NoNewOwner /\ RedriveHasCopy'
  BY <1>4 DEF Receive, IInv, TypeOK, OutsideTypeOK, NoNewOwner, RedriveHasCopy
<1>8. QED BY <1>2, <1>5, <1>6, <1>7, QuietWorkerKeeps DEF LocalStep

LEMMA TakeKeeps == ASSUME IInv, NEW w \in Workers, Take(w) PROVE IInv'
<1>1. PICK d \in batch[w] :
        /\ batch' = [batch EXCEPT ![w] = @ \ {d}]
        /\ current' = [current EXCEPT ![w] = d]
        /\ Goto(w, IF queue[d.id].text \in Unparsable THEN "catch" ELSE "event")
  BY DEF Take
<1>2. d \in Delivery /\ queue[d.id].state # "unsent"
  BY DEF IInv, TypeOK, HeldOK
<1>3. pc'[w] \in {"catch", "event"} /\ current'[w] = d /\ position'[w] = 1 /\ batch'[w] \subseteq batch[w]
      /\ reply'[w] = "none" /\ queue' = queue
  BY <1>1 DEF IInv, TypeOK, RowOK, Take, Goto, azure
<1>4. LocalTypeOK' /\ \A v \in Workers : v # w => Untouched(v)
  BY <1>1, <1>2 DEF IInv, TypeOK, LocalTypeOK, Take, Goto, Untouched, Labels
<1>5. HeldOK(w)' /\ HashOK(w)' /\ RowOK(w)'
  BY <1>2, <1>3 DEF IInv, HeldOK, HashOK, RowOK, Hashing, RowSteps, Owning
<1>6. NoNewOwner
  BY <1>3, <1>4 DEF NoNewOwner, Untouched, Owning
<1>7. QED
  BY <1>4, <1>5, <1>6, SilentWorkerKeeps DEF LocalStep, Take, IInv, TypeOK

LEMMA EndOfEventsKeeps == ASSUME IInv, NEW w \in Workers, EndOfEvents(w) PROVE IInv'
<1>1. reply[w] = "none" BY DEF IInv, RowOK, EndOfEvents
<1>2. LocalStep(w) /\ NoNewOwner
  BY <1>1, SameQueueGrows, JumpStep
     DEF EndOfEvents, IInv, azure, Handling, Labels, Idle
<1>3. QED BY <1>2, SilentWorkerKeeps DEF EndOfEvents, IInv, TypeOK

LEMMA RestartKeeps == ASSUME IInv, NEW w \in Workers, Restart(w) PROVE IInv'
<1>1. reply[w] = "none" BY DEF IInv, RowOK, TypeOK, Restart
<1>2. LocalStep(w) /\ NoNewOwner
  BY <1>1, SameQueueGrows, JumpStep DEF Restart, IInv, azure
<1>3. QED BY <1>2, SilentWorkerKeeps DEF Restart, IInv, TypeOK

\* A message is deleted from the main queue, or the call has no effect.
LEMMA DeleteGrows ==
  ASSUME IInv, NEW w \in Workers, pc[w] \in Handling, NEW s \in {"done", "poisoned"},
         \/ queue' = queue
         \/ /\ ReceiptValid(current[w])
            /\ queue' = [queue EXCEPT ![current[w].id].state = s]
  PROVE  QueueGrows
<1>1. current[w] \in Delivery /\ queue[current[w].id].state # "unsent" BY DEF IInv, HeldOK
<1>2. CASE queue' = queue BY <1>2, SameQueueGrows DEF IInv
<1>3. CASE queue' = [queue EXCEPT ![current[w].id].state = s]
  BY <1>1, <1>3, MoveGrows DEF IInv, Delivery
<1>4. QED BY <1>2, <1>3

LEMMA AckKeeps == ASSUME IInv, NEW w \in Workers, Ack(w) PROVE IInv'
<1>1. pc[w] = "ack" /\ pc[w] \in Handling BY DEF Ack, Handling, Labels, Idle
<1>2. QueueGrows BY <1>1, DeleteGrows DEF Ack
<1>3. LocalStep(w) /\ NoNewOwner
  BY <1>1, <1>2, LeaveStep, JumpStep DEF Ack
<1>4. rows' = rows /\ UNCHANGED gateway /\ OutsideTypeOK' /\ RedriveHasCopy'
  BY DEF Ack, IInv, TypeOK, OutsideTypeOK, RedriveHasCopy
<1>5. QED BY <1>2, <1>3, <1>4, QuietWorkerKeeps

LEMMA AckFailsKeeps == ASSUME IInv, NEW w \in Workers, AckFails(w) PROVE IInv'
<1>1. pc[w] = "ack" /\ pc[w] \in Handling BY DEF AckFails, Handling, Labels, Idle
<1>2. QueueGrows BY <1>1, DeleteGrows DEF AckFails
<1>3. LocalStep(w) /\ NoNewOwner
  BY <1>1, <1>2, JumpStep DEF AckFails
<1>4. faults' \in [FaultKinds -> Nat]
  BY SpendType DEF AckFails, IInv, TypeOK, FaultKinds
<1>5. rows' = rows /\ UNCHANGED gateway /\ OutsideTypeOK' /\ RedriveHasCopy'
  BY <1>4 DEF AckFails, IInv, TypeOK, OutsideTypeOK, RedriveHasCopy
<1>6. QED BY <1>2, <1>3, <1>5, QuietWorkerKeeps

LEMMA CatchKeeps == ASSUME IInv, NEW w \in Workers, Catch(w) PROVE IInv'
<1>1. pc[w] \in Handling BY DEF Catch, Handling, Labels, Idle
<1>2. QueueGrows BY SameQueueGrows DEF Catch, IInv, azure
<1>3. LocalStep(w) /\ NoNewOwner
  BY <1>1, <1>2, LeaveStep, JumpStep DEF Catch
<1>4. QED BY <1>3, SilentWorkerKeeps DEF Catch, IInv, TypeOK

LEMMA SendPoisonKeeps == ASSUME IInv, NEW w \in Workers, SendPoison(w) PROVE IInv'
<1>1. pc[w] \in Handling BY DEF SendPoison, Handling, Labels, Idle
<1>2. QueueGrows BY SameQueueGrows DEF SendPoison, IInv
<1>3. LocalStep(w) /\ NoNewOwner BY <1>1, <1>2, JumpStep DEF SendPoison
<1>4. OutsideTypeOK' /\ RedriveHasCopy'
  <2>1. Text(w) \in Texts
    BY <1>1 DEF IInv, HeldOK, SentHasBody, Text, Delivery
  <2>2. poison' \in [Texts -> Nat] /\ \A t \in Texts : poison'[t] >= poison[t]
    BY <2>1 DEF SendPoison, IInv, TypeOK
  <2>3. QED BY <2>2 DEF SendPoison, IInv, TypeOK, OutsideTypeOK, RedriveHasCopy
<1>5. QED BY <1>2, <1>3, <1>4, QuietWorkerKeeps DEF SendPoison

LEMMA UnqueueKeeps == ASSUME IInv, NEW w \in Workers, Unqueue(w) PROVE IInv'
<1>1. pc[w] \in Handling BY DEF Unqueue, Handling, Labels, Idle
<1>2. QueueGrows BY <1>1, DeleteGrows DEF Unqueue
<1>3. LocalStep(w) /\ NoNewOwner BY <1>2, LeaveStep, ExitStep DEF Unqueue
<1>4. rows' = rows /\ UNCHANGED gateway /\ OutsideTypeOK' /\ RedriveHasCopy'
  BY DEF Unqueue, IInv, TypeOK, OutsideTypeOK, RedriveHasCopy
<1>5. QED BY <1>2, <1>3, <1>4, QuietWorkerKeeps

LEMMA CrashKeeps == ASSUME IInv, NEW w \in Workers, Crash(w) PROVE IInv'
<1>1. faults' \in [FaultKinds -> Nat] BY SpendType DEF Crash, IInv, TypeOK, FaultKinds
<1>2. QED BY <1>1, ExitStep, SilentWorkerKeeps DEF Crash

-----------------------------------------------------------------------------
(***************************************************************************)
(* The statements on app.ingest_files.                                     *)
(***************************************************************************)

\* What one statement does to the table: it keeps the type, touches the row
\* of its own content only, and never takes a claim back.
LEMMA StatementEffect ==
  ASSUME TypeOK, NEW w \in Workers, pc[w] \in RowSteps, content[w] \in Contents
  PROVE  /\ Executed(w) \in [Contents -> Row]
         /\ \A c \in Contents : c # content[w] => Executed(w)[c] = rows[c]
         /\ \A c \in Contents : Claimed(rows, c) => Claimed(Executed(w), c)
<1>1. rows \in [Contents -> Row] BY DEF TypeOK
<1>2. CASE pc[w] = "upsert"
  <2>1. Executed(w) = UpsertIngestFile(rows, content[w]) BY <1>2 DEF Executed
  <2>2. QED BY <1>1, <2>1 DEF UpsertIngestFile, Row, Status, Claimed
<1>3. CASE pc[w] = "claim"
  <2>1. Executed(w) = ClaimIngestFile(rows, content[w]) BY <1>3 DEF Executed
  <2>2. QED BY <1>1, <2>1 DEF ClaimIngestFile, Claimable, Row, Status, Claimed
<1>4. CASE pc[w] = "fetch"
  <2>1. Executed(w) = rows BY <1>4 DEF Executed
  <2>2. QED BY <1>1, <2>1
<1>5. CASE pc[w] = "markDuplicate"
  <2>1. Executed(w) = MarkDuplicate(rows, content[w]) BY <1>5 DEF Executed
  <2>2. QED BY <1>1, <2>1 DEF MarkDuplicate, Row, Status, Claimed
<1>6. CASE pc[w] = "markFailed"
  <2>1. Executed(w) = MarkFailed(rows, content[w]) BY <1>6 DEF Executed
  <2>2. QED BY <1>1, <2>1 DEF MarkFailed, Row, Status, Claimed
<1>7. CASE pc[w] = "markIngested"
  <2>1. Executed(w) = MarkIngested(rows, content[w]) BY <1>7 DEF Executed
  <2>2. QED BY <1>1, <2>1 DEF MarkIngested, Row, Status, Claimed
<1>8. QED BY <1>2, <1>3, <1>4, <1>5, <1>6, <1>7 DEF RowSteps

\* A statement of w on one row keeps the invariant if it takes the row from
\* no other owner and marks as ingested what the gateway stored.
LEMMA OneRowKeeps ==
  ASSUME IInv, NEW w \in Workers, LocalStep(w), content[w] \in Contents,
         UNCHANGED azure, UNCHANGED gateway, faults' \in [FaultKinds -> Nat], TableGrows,
         \A c \in Contents : c # content[w] => rows'[c] = rows[c],
         rows'[content[w]].status = "INGESTED" => content[w] \in stored,
         rows'[content[w]].duplicates > 0 => rows'[content[w]].status = "INGESTED",
         pc'[w] \in Owning => content'[w] = content[w]
                              /\ rows'[content[w]].status = "PROCESSING"
                              /\ (pc[w] \in Owning \/ rows[content[w]].status # "PROCESSING"),
         pc[w] \notin Owning /\ rows[content[w]].status = "PROCESSING"
           => rows'[content[w]].status = "PROCESSING"
  PROVE  IInv'
<1>1. QueueGrows BY SameQueueGrows DEF IInv, azure
<1>2. SentHasBody' BY <1>1 DEF QueueGrows, SentHasBody
<1>3. \A v \in Workers : HeldOK(v)' /\ HashOK(v)' /\ RowOK(v)'
  BY <1>1, UntouchedKeeps DEF LocalStep, gateway
<1>4. TypeOK' /\ RedriveHasCopy'
  BY DEF IInv, TypeOK, LocalStep, LocalTypeOK, TableGrows, RedriveHasCopy, gateway, azure
<1>5. RequestsMatchCalls'
  BY DEF IInv, RequestsMatchCalls, TableGrows, gateway
<1>6. GatewayAgrees'
  BY DEF IInv, GatewayAgrees, gateway
<1>7. ClaimIsExclusive'
  <2>1. ASSUME NEW v \in Workers, pc'[v] \in Owning
        PROVE  content'[v] = content[v] /\ content[v] \in Contents
               /\ (v # w => pc[v] \in Owning /\ rows[content[v]].status = "PROCESSING")
    <3>1. CASE v = w BY <2>1, <3>1
    <3>2. CASE v # w
      <4>1. pc[v] \in Owning /\ content'[v] = content[v] BY <2>1, <3>2 DEF LocalStep, Untouched
      <4>2. QED BY <4>1 DEF IInv, ClaimIsExclusive, HashOK, Hashing
    <3>3. QED BY <3>1, <3>2
  <2>2. ASSUME NEW v \in Workers, v # w, pc'[v] \in Owning
        PROVE  rows'[content[v]].status = "PROCESSING"
               /\ (pc'[w] \in Owning => content[v] # content[w])
    <3>1. pc[v] \in Owning /\ rows[content[v]].status = "PROCESSING" /\ content[v] \in Contents
      BY <2>1, <2>2
    <3>2. CASE content[v] # content[w] BY <3>1, <3>2
    <3>3. CASE content[v] = content[w]
      <4>1. pc[w] \notin Owning BY <2>2, <3>1, <3>3 DEF IInv, ClaimIsExclusive
      <4>2. QED BY <3>1, <3>3, <4>1
    <3>4. QED BY <3>2, <3>3
  <2>3. ASSUME NEW u \in Workers, NEW v \in Workers, pc'[u] \in Owning, pc'[v] \in Owning,
               content'[u] = content'[v]
        PROVE  u = v
    <3>1. content[u] = content[v] BY <2>1, <2>3
    <3>2. CASE u # w /\ v # w BY <2>1, <2>3, <3>1, <3>2 DEF IInv, ClaimIsExclusive
    <3>3. CASE u = w \/ v = w BY <2>2, <2>3, <3>1, <3>3
    <3>4. QED BY <3>2, <3>3
  <2>4. ASSUME NEW v \in Workers, pc'[v] \in Owning
        PROVE  rows'[content'[v]].status = "PROCESSING"
    <3>1. CASE v = w BY <2>4, <3>1
    <3>2. CASE v # w BY <2>1, <2>2, <2>4, <3>2
    <3>3. QED BY <3>1, <3>2
  <2>5. QED BY <2>3, <2>4 DEF ClaimIsExclusive
<1>8. QED BY <1>2, <1>3, <1>4, <1>5, <1>6, <1>7 DEF IInv

\* A worker that hashed its event moves on with it.
LEMMA StayStep ==
  ASSUME IInv, NEW w \in Workers, UNCHANGED local, UNCHANGED azure, NEW l \in Hashing, Goto(w, l),
         pc[w] \in Hashing, l \in {"submit", "await"} => ~broken[w], RowOK(w)'
  PROVE  LocalStep(w)
<1>1. LocalTypeOK' BY DEF IInv, TypeOK, LocalTypeOK, Goto, Labels, Idle, local, Hashing
<1>2. pc'[w] = l BY DEF IInv, TypeOK, Goto
<1>3. HeldOK(w)'
  BY <1>2 DEF IInv, HeldOK, Handling, Hashing, Labels, Idle, RowSteps, Owning, local, azure
<1>4. HashOK(w)' BY <1>2 DEF IInv, HashOK, Text, Event, local, azure
<1>5. \A v \in Workers : v # w => Untouched(v) BY DEF IInv, TypeOK, Goto, Untouched, local
<1>6. QED BY <1>1, <1>3, <1>4, <1>5 DEF LocalStep

-----------------------------------------------------------------------------
(***************************************************************************)
(* The steps of processEvent.                                              *)
(***************************************************************************)

LEMMA SkipEventKeeps == ASSUME IInv, NEW w \in Workers, SkipEvent(w) PROVE IInv'
<1>1. pc[w] \in Handling BY DEF SkipEvent, AtEvent, Handling, Labels, Idle
<1>2. LocalStep(w) /\ NoNewOwner
  BY <1>1, SameQueueGrows, ReturnStep DEF SkipEvent, IInv, azure
<1>3. QED BY <1>2, SilentWorkerKeeps DEF SkipEvent, IInv, TypeOK

LEMMA RefuseEventKeeps == ASSUME IInv, NEW w \in Workers, RefuseEvent(w) PROVE IInv'
<1>1. pc[w] \in Handling BY DEF RefuseEvent, AtEvent, Handling, Labels, Idle
<1>2. LocalStep(w) /\ NoNewOwner
  BY <1>1, SameQueueGrows, ReturnStep DEF RefuseEvent, IInv, azure
<1>3. QED BY <1>2, SilentWorkerKeeps DEF RefuseEvent, IInv, TypeOK

LEMMA EventThrowsKeeps == ASSUME IInv, NEW w \in Workers, EventThrows(w) PROVE IInv'
<1>1. pc[w] \in Handling /\ reply[w] = "none"
  BY DEF EventThrows, AtEvent, Handling, Labels, Idle, IInv, RowOK
<1>2. LocalStep(w) /\ NoNewOwner
  BY <1>1, SameQueueGrows, JumpStep DEF EventThrows, IInv, azure
<1>3. QED BY <1>2, SilentWorkerKeeps DEF EventThrows, IInv, TypeOK

LEMMA BlobAccessFailsKeeps == ASSUME IInv, NEW w \in Workers, BlobAccessFails(w) PROVE IInv'
<1>1. pc[w] \in Handling BY DEF BlobAccessFails, AtEvent, Handling, Labels, Idle
<1>2. LocalStep(w) /\ NoNewOwner
  BY <1>1, SameQueueGrows, ReturnStep DEF BlobAccessFails, IInv, azure
<1>3. faults' \in [FaultKinds -> Nat]
  BY SpendType DEF BlobAccessFails, IInv, TypeOK, FaultKinds
<1>4. QED BY <1>2, <1>3, SilentWorkerKeeps DEF BlobAccessFails

\* The event a worker is at is one of Events.
LEMMA EventType ==
  ASSUME IInv, NEW w \in Workers, pc[w] \in Handling, position[w] <= Len(Body[Text(w)])
  PROVE  Text(w) \in Texts /\ Event(w) \in Events
<1>1. Text(w) \in Texts
  BY DEF IInv, HeldOK, SentHasBody, Text, Delivery
<1>2. Body[Text(w)] \in Seq(Events) BY <1>1, ConstantsAssumption
<1>3. position[w] \in Nat /\ position[w] # 0 BY DEF IInv, TypeOK, HeldOK
<1>4. position[w] \in 1 .. Len(Body[Text(w)]) BY <1>2, <1>3
<1>5. QED BY <1>1, <1>2, <1>4 DEF Event

LEMMA HashedKeeps ==
  ASSUME IInv, NEW w \in Workers, NEW c \in Contents, NEW streamError \in BOOLEAN,
         Hashed(w, c, streamError), ~streamError => c = Content[Event(w)],
         faults' \in [FaultKinds -> Nat]
  PROVE  IInv'
<1>1. pc[w] = "event" /\ pc[w] \in Handling /\ position[w] <= Len(Body[Text(w)])
  BY DEF Hashed, AtEvent, Handling, Labels, Idle
<1>2. pc'[w] = "upsert" /\ content'[w] = c /\ broken'[w] = streamError
  BY DEF IInv, TypeOK, Hashed, Goto
<1>3. LocalTypeOK' /\ \A v \in Workers : v # w => Untouched(v)
  BY DEF IInv, TypeOK, LocalTypeOK, Hashed, Goto, Untouched, Labels, RowSteps
<1>4. HeldOK(w)'
  BY <1>1 DEF IInv, HeldOK, Hashed, azure
<1>5. HashOK(w)'
  BY <1>1, <1>2 DEF HashOK, Hashed, Text, Event, azure
<1>6. RowOK(w)' BY <1>1, <1>2 DEF IInv, RowOK, Hashed
<1>7. NoNewOwner BY <1>2, <1>3 DEF NoNewOwner, Untouched, Owning
<1>8. QED BY <1>3, <1>4, <1>5, <1>6, <1>7, SilentWorkerKeeps DEF LocalStep, Hashed

LEMMA DownloadKeeps == ASSUME IInv, NEW w \in Workers, Download(w) PROVE IInv'
<1>1. pc[w] \in Handling /\ position[w] <= Len(Body[Text(w)])
  BY DEF Download, Hashed, AtEvent, Handling, Labels, Idle
<1>2. Content[Event(w)] \in Contents BY <1>1, EventType, ConstantsAssumption
<1>3. QED BY <1>2, HashedKeeps DEF Download, IInv, TypeOK

LEMMA DownloadBreaksKeeps == ASSUME IInv, NEW w \in Workers, DownloadBreaks(w) PROVE IInv'
<1>1. pc[w] \in Handling /\ position[w] <= Len(Body[Text(w)])
  BY DEF DownloadBreaks, AtEvent, Handling, Labels, Idle
<1>2. Truncated[Event(w)] \subseteq Contents BY <1>1, EventType, ConstantsAssumption
<1>3. faults' \in [FaultKinds -> Nat]
  BY SpendType DEF DownloadBreaks, IInv, TypeOK, FaultKinds
<1>4. PICK c \in Truncated[Event(w)] : Hashed(w, c, TRUE) BY DEF DownloadBreaks
<1>5. QED BY <1>2, <1>3, <1>4, HashedKeeps

\* What every worker with a hash knows.
LEMMA HashedFacts ==
  ASSUME IInv, NEW w \in Workers, pc[w] \in Hashing
  PROVE  /\ content[w] \in Contents
         /\ pc[w] \in Handling
         /\ pc[w] \in RowSteps => reply[w] = "none" \/ pc[w] \in {"markFailed", "markIngested"}
         /\ pc[w] \in Owning => rows[content[w]].status = "PROCESSING"
         /\ pc[w] = "submit" => calls[content[w]] = 0
<1>1. HashOK(w) /\ RowOK(w) BY DEF IInv
<1>2. QED
  BY <1>1 DEF HashOK, RowOK, Handling, Hashing, Labels, Idle, RowSteps, Owning, IInv, ClaimIsExclusive

\* What a statement of w does, whether or not its answer arrives.
LEMMA StatementKeepsRows ==
  ASSUME IInv, NEW w \in Workers, pc[w] \in RowSteps, rows' \in {rows, Executed(w)}
  PROVE  /\ TableGrows
         /\ \A c \in Contents : c # content[w] => rows'[c] = rows[c]
         /\ rows'[content[w]].status = "INGESTED" => content[w] \in stored
         /\ rows'[content[w]].duplicates > 0 => rows'[content[w]].status = "INGESTED"
         /\ pc[w] \notin Owning /\ rows[content[w]].status = "PROCESSING"
              => rows'[content[w]].status = "PROCESSING"
<1>1. /\ content[w] \in Contents /\ TypeOK
      /\ rows[content[w]] \in Row
      /\ pc[w] = "markDuplicate" => rows[content[w]].status = "INGESTED"
      /\ pc[w] = "markIngested" => content[w] \in stored
      /\ rows[content[w]].status = "INGESTED" => content[w] \in stored
      /\ rows[content[w]].duplicates > 0 => rows[content[w]].status = "INGESTED"
      /\ pc[w] \in {"markFailed", "markIngested"} => pc[w] \in Owning
  BY HashedFacts DEF IInv, TypeOK, RowOK, GatewayAgrees, Hashing, Owning
<1>2. CASE rows' = rows
  BY <1>1, <1>2, SameTableGrows
<1>3. CASE rows' = Executed(w)
  <2>1. /\ rows' \in [Contents -> Row]
        /\ \A c \in Contents : c # content[w] => rows'[c] = rows[c]
        /\ \A c \in Contents : Claimed(rows, c) => Claimed(rows', c)
    BY <1>1, <1>3, StatementEffect DEF Claimed
  <2>2. /\ rows[content[w]].status # "ABSENT" => rows'[content[w]].status # "ABSENT"
        /\ rows[content[w]].status = "INGESTED" => rows'[content[w]].status = "INGESTED"
        /\ rows'[content[w]].status = "INGESTED" => content[w] \in stored
        /\ rows'[content[w]].duplicates > 0 => rows'[content[w]].status = "INGESTED"
        /\ pc[w] \notin Owning /\ rows[content[w]].status = "PROCESSING"
             => rows'[content[w]].status = "PROCESSING"
    <3>1. CASE pc[w] = "upsert"
      <4>1. rows' = UpsertIngestFile(rows, content[w]) BY <1>3, <3>1 DEF Executed
      <4>2. QED BY <1>1, <4>1 DEF UpsertIngestFile, TypeOK, Row
    <3>2. CASE pc[w] = "claim"
      <4>1. rows' = ClaimIngestFile(rows, content[w]) BY <1>3, <3>2 DEF Executed
      <4>2. QED BY <1>1, <4>1 DEF ClaimIngestFile, Claimable, TypeOK, Row
    <3>3. CASE pc[w] = "fetch"
      <4>1. rows' = rows BY <1>3, <3>3 DEF Executed
      <4>2. QED BY <1>1, <4>1
    <3>4. CASE pc[w] = "markDuplicate"
      <4>1. rows' = MarkDuplicate(rows, content[w]) BY <1>3, <3>4 DEF Executed
      <4>2. QED BY <1>1, <3>4, <4>1 DEF MarkDuplicate, TypeOK, Row
    <3>5. CASE pc[w] = "markFailed"
      <4>1. rows' = MarkFailed(rows, content[w]) BY <1>3, <3>5 DEF Executed
      <4>2. QED BY <1>1, <3>5, <4>1 DEF MarkFailed, TypeOK, Row
    <3>6. CASE pc[w] = "markIngested"
      <4>1. rows' = MarkIngested(rows, content[w]) BY <1>3, <3>6 DEF Executed
      <4>2. QED BY <1>1, <3>6, <4>1 DEF MarkIngested, TypeOK, Row
    <3>7. QED BY <3>1, <3>2, <3>3, <3>4, <3>5, <3>6 DEF RowSteps
  <2>3. QED BY <2>1, <2>2 DEF TableGrows
<1>4. QED BY <1>2, <1>3

LEMMA UpsertKeeps == ASSUME IInv, NEW w \in Workers, Upsert(w) PROVE IInv'
<1>1. pc[w] = "upsert" /\ pc[w] \in RowSteps /\ pc[w] \in Hashing /\ pc[w] \notin Owning
  BY DEF Upsert, RowSteps, Hashing, Owning
<1>2. pc'[w] = "claim" /\ content'[w] = content[w] /\ reply'[w] = "none"
  BY <1>1, HashedFacts DEF Upsert, Goto, IInv, TypeOK, local
<1>3. rows'[content[w]].status # "ABSENT"
  <2>1. rows' = UpsertIngestFile(rows, content[w]) /\ rows \in [Contents -> Row]
    BY <1>1 DEF Upsert, Executed, IInv, TypeOK
  <2>2. QED BY <1>1, <2>1, HashedFacts DEF UpsertIngestFile
<1>4. RowOK(w)' BY <1>2, <1>3 DEF RowOK
<1>5. LocalStep(w) BY <1>1, <1>4, StayStep DEF Upsert, Hashing, RowSteps
<1>6. pc'[w] \notin Owning BY <1>2 DEF Owning
<1>7. content[w] \in Contents BY <1>1, HashedFacts
<1>8. faults' \in [FaultKinds -> Nat] /\ UNCHANGED azure /\ UNCHANGED gateway
  BY DEF Upsert, IInv, TypeOK
<1>9. QED BY <1>1, <1>5, <1>6, <1>7, <1>8, StatementKeepsRows, OneRowKeeps DEF Upsert

LEMMA ClaimKeeps == ASSUME IInv, NEW w \in Workers, Claim(w) PROVE IInv'
<1>1. pc[w] = "claim" /\ pc[w] \in RowSteps /\ pc[w] \in Hashing /\ pc[w] \notin Owning
  BY DEF Claim, RowSteps, Hashing, Owning
<1>2. /\ content[w] \in Contents /\ reply[w] = "none"
      /\ rows[content[w]].status # "ABSENT"
      /\ rows \in [Contents -> Row]
  BY <1>1, HashedFacts DEF IInv, RowOK, TypeOK
<1>3. rows' = ClaimIngestFile(rows, content[w]) BY <1>1 DEF Claim, Executed
<1>4. faults' \in [FaultKinds -> Nat] /\ UNCHANGED azure /\ UNCHANGED gateway /\ UNCHANGED local
  BY DEF Claim, IInv, TypeOK
<1>5. CASE rows[content[w]].status # "PENDING"
  <2>1. pc'[w] = "fetch" /\ Goto(w, "fetch") BY <1>5 DEF Claim, Claimable, Goto, IInv, TypeOK
  <2>2. rows' = rows BY <1>3, <1>5 DEF ClaimIngestFile, Claimable
  <2>3. Claimed(rows, content[w])
    BY <1>2, <1>5 DEF Claimed, Row, Status
  <2>4. RowOK(w)' BY <1>2, <1>4, <2>1, <2>2, <2>3 DEF RowOK, Claimed, local
  <2>5. LocalStep(w) BY <1>1, <1>4, <2>1, <2>4, StayStep DEF Hashing, RowSteps
  <2>6. pc'[w] \notin Owning BY <2>1 DEF Owning
  <2>7. QED BY <1>1, <1>2, <1>4, <2>2, <2>5, <2>6, StatementKeepsRows, OneRowKeeps
<1>6. CASE rows[content[w]].status = "PENDING"
  <2>1. rows'[content[w]].status = "PROCESSING"
    BY <1>2, <1>3, <1>6 DEF ClaimIngestFile, Claimable, Row
  <2>2. calls[content[w]] = 0
    BY <1>2, <1>6 DEF IInv, RequestsMatchCalls, Claimed, TypeOK
  <2>3. PICK l \in {"markFailed", "submit"} : Goto(w, l) /\ (l = "submit" => ~broken[w])
    BY <1>6 DEF Claim, Claimable
  <2>4. pc'[w] = l BY <2>3 DEF Goto, IInv, TypeOK
  <2>5. RowOK(w)' BY <1>2, <1>4, <2>2, <2>4 DEF RowOK, local, gateway
  <2>6. LocalStep(w) BY <1>1, <1>4, <2>3, <2>5, StayStep DEF Hashing, RowSteps, Owning
  <2>7. content'[w] = content[w] BY <1>4 DEF local
  <2>8. QED
    BY <1>1, <1>2, <1>4, <1>6, <2>1, <2>6, <2>7, StatementKeepsRows, OneRowKeeps DEF Claim
<1>7. QED BY <1>5, <1>6

LEMMA FetchKeeps == ASSUME IInv, NEW w \in Workers, Fetch(w) PROVE IInv'
<1>1. pc[w] = "fetch" /\ pc[w] \in Hashing BY DEF Fetch, Hashing, RowSteps
<1>2. pc[w] \in Handling /\ reply[w] = "none" BY <1>1, HashedFacts DEF RowSteps
<1>3. rows' = rows /\ UNCHANGED azure /\ UNCHANGED gateway /\ faults' \in [FaultKinds -> Nat]
  BY DEF Fetch, IInv, TypeOK
<1>4. CASE rows[content[w]].status = "INGESTED"
  <2>1. Goto(w, "markDuplicate") /\ UNCHANGED local BY <1>4 DEF Fetch, FetchIngestStatus
  <2>2. pc'[w] = "markDuplicate" BY <2>1 DEF Goto, IInv, TypeOK
  <2>3. RowOK(w)' BY <1>2, <1>3, <1>4, <2>1, <2>2 DEF RowOK, local
  <2>4. LocalStep(w) BY <1>1, <1>3, <2>1, <2>3, StayStep DEF Hashing, RowSteps
  <2>5. NoNewOwner BY <2>2, <2>4 DEF NoNewOwner, LocalStep, Untouched, Owning
  <2>6. QED BY <1>3, <2>4, <2>5, SilentWorkerKeeps
<1>5. CASE rows[content[w]].status # "INGESTED"
  <2>1. PICK r \in BOOLEAN : Return(w, r) BY <1>5 DEF Fetch, FetchIngestStatus
  <2>2. LocalStep(w) /\ NoNewOwner
    BY <1>2, <1>3, <2>1, SameQueueGrows, ReturnStep DEF IInv, azure
  <2>3. QED BY <1>3, <2>2, SilentWorkerKeeps
<1>6. QED BY <1>4, <1>5

\* The statements after which processEvent returns.
LEMMA LastStatementKeeps ==
  ASSUME IInv, NEW w \in Workers, pc[w] \in RowSteps, rows' = Executed(w), NEW r \in BOOLEAN, Return(w, r),
         UNCHANGED <<azure, gateway, faults>>
  PROVE  IInv'
<1>1. pc[w] \in Hashing BY DEF Hashing
<1>2. LocalStep(w) /\ NoNewOwner
  BY <1>1, HashedFacts, SameQueueGrows, ReturnStep DEF IInv, azure
<1>3. pc'[w] \notin Owning BY DEF Return, Goto, IInv, TypeOK, Owning
<1>4. QED
  BY <1>1, <1>2, <1>3, HashedFacts, StatementKeepsRows, OneRowKeeps DEF IInv, TypeOK

LEMMA DuplicateMarkedKeeps == ASSUME IInv, NEW w \in Workers, DuplicateMarked(w) PROVE IInv'
BY LastStatementKeeps DEF DuplicateMarked, RowSteps

LEMMA FailureMarkedKeeps == ASSUME IInv, NEW w \in Workers, FailureMarked(w) PROVE IInv'
BY LastStatementKeeps DEF FailureMarked, RowSteps

LEMMA IngestMarkedKeeps == ASSUME IInv, NEW w \in Workers, IngestMarked(w) PROVE IInv'
BY LastStatementKeeps DEF IngestMarked, RowSteps

LEMMA StatementFailsKeeps == ASSUME IInv, NEW w \in Workers, StatementFails(w) PROVE IInv'
<1>1. pc[w] \in RowSteps /\ pc[w] \in Hashing BY DEF StatementFails, Hashing
<1>2. pc[w] \in Handling /\ content[w] \in Contents BY <1>1, HashedFacts
<1>3. LocalStep(w) /\ NoNewOwner
  BY <1>2, SameQueueGrows, JumpStep DEF StatementFails, IInv, azure
<1>4. pc'[w] \notin Owning BY DEF StatementFails, Goto, IInv, TypeOK, Owning
<1>5. faults' \in [FaultKinds -> Nat]
  BY SpendType DEF StatementFails, IInv, TypeOK, FaultKinds
<1>6. QED
  BY <1>1, <1>2, <1>3, <1>4, <1>5, StatementKeepsRows, OneRowKeeps DEF StatementFails

LEMMA CallFailsKeeps == ASSUME IInv, NEW w \in Workers, CallFails(w) PROVE IInv'
<1>1. pc[w] \in Owning /\ pc[w] \in Hashing BY DEF CallFails, Owning, Hashing
<1>2. pc'[w] = "markFailed" BY DEF CallFails, Goto, IInv, TypeOK
<1>3. RowOK(w)' BY <1>2 DEF RowOK
<1>4. LocalStep(w) BY <1>1, <1>3, StayStep DEF CallFails, Hashing, RowSteps
<1>5. NoNewOwner BY <1>1, <1>4 DEF NoNewOwner, LocalStep, Untouched, CallFails, local
<1>6. faults' \in [FaultKinds -> Nat]
  BY SpendType DEF CallFails, IInv, TypeOK, FaultKinds
<1>7. QED BY <1>4, <1>5, <1>6, SilentWorkerKeeps DEF CallFails

LEMMA AnswerKeeps == ASSUME IInv, NEW w \in Workers, Answer(w) PROVE IInv'
<1>1. pc[w] = "await" /\ pc[w] \in Owning /\ pc[w] \in Hashing BY DEF Answer, Owning, Hashing
<1>2. PICK l \in {"markIngested", "markFailed"} :
        Goto(w, l) /\ (l = "markIngested" => reply[w] = "ok")
  BY DEF Answer
<1>3. pc'[w] = l BY <1>2 DEF Goto, IInv, TypeOK
<1>4. RowOK(w)' BY <1>1, <1>2, <1>3 DEF IInv, RowOK, Answer, local, gateway
<1>5. LocalStep(w) BY <1>1, <1>2, <1>4, StayStep DEF Answer, Hashing, RowSteps
<1>6. NoNewOwner BY <1>1, <1>5 DEF NoNewOwner, LocalStep, Untouched, Answer, local
<1>7. QED BY <1>5, <1>6, SilentWorkerKeeps DEF Answer, IInv, TypeOK

LEMMA SubmitKeeps == ASSUME IInv, NEW w \in Workers, Submit(w) PROVE IInv'
<1> DEFINE e == Event(w)
           c == content[w]
<1>1. /\ pc[w] = "submit" /\ pc[w] \in Hashing /\ pc[w] \in Owning
      /\ rows' = rows /\ UNCHANGED azure /\ UNCHANGED local
      /\ pc'[w] = "await" /\ stored' = stored
      /\ requests' = requests \cup {[worker |-> w, event |-> e]}
      /\ calls' = [calls EXCEPT ![c] = @ + 1]
  BY DEF Submit, Hashing, Owning, Goto, IInv, TypeOK
<1>2. /\ c \in Contents /\ pc[w] \in Handling /\ calls[c] = 0
      /\ rows[c].status = "PROCESSING" /\ reply[w] = "none"
  BY <1>1, HashedFacts DEF IInv, RowOK
<1>3. ~broken[w] /\ c = Content[e] /\ e \in Events
  BY <1>1, <1>2, EventType DEF IInv, HashOK
<1>4. RowOK(w)' BY <1>1, <1>2 DEF RowOK, local
<1>5. LocalStep(w) BY <1>1, <1>3, <1>4, StayStep DEF Submit, Hashing, Owning
<1>6. QueueGrows /\ TableGrows BY <1>1, SameQueueGrows, SameTableGrows DEF IInv, azure
<1>7. /\ calls' \in [Contents -> Nat] /\ calls'[c] = 1
      /\ \A d \in Contents : d # c => calls'[d] = calls[d]
  BY <1>1, <1>2 DEF IInv, TypeOK
<1>8. \A v \in Workers : HeldOK(v)' /\ HashOK(v)' /\ RowOK(v)'
  <2>1. ASSUME NEW v \in Workers, v # w PROVE HeldOK(v)' /\ HashOK(v)' /\ RowOK(v)'
    <3>1. pc[v] = "submit" => content[v] # c /\ content[v] \in Contents
      BY <1>1, <2>1, HashedFacts DEF IInv, ClaimIsExclusive, Owning, Hashing
    <3>2. QED BY <1>1, <1>5, <1>6, <1>7, <2>1, <3>1, UntouchedKeeps DEF LocalStep
  <2>2. QED BY <1>5, <2>1 DEF LocalStep
<1>9. c \notin stored BY <1>2 DEF IInv, GatewayAgrees
<1>10. TypeOK'
  BY <1>1, <1>3, <1>5, <1>7 DEF IInv, TypeOK, LocalStep, LocalTypeOK, azure, Submit, Request
<1>11. RequestsMatchCalls'
  <2>1. \A d \in Contents : calls'[d] > 0 => Claimed(rows', d)
    BY <1>1, <1>2, <1>7 DEF IInv, RequestsMatchCalls, Claimed
  <2>2. ASSUME NEW r \in requests
        PROVE  calls[Content[r.event]] > 0 /\ Content[r.event] \notin stored
               /\ Content[r.event] \in Contents
    BY <2>2, ConstantsAssumption DEF IInv, TypeOK, RequestsMatchCalls, Request
  <2>3. \A r \in requests : Content[r.event] # c BY <1>2, <2>2
  <2>4. \A r \in requests' : calls'[Content[r.event]] > 0 /\ Content[r.event] \notin stored'
    BY <1>1, <1>3, <1>7, <1>9, <2>2, <2>3
  <2>5. \A r, s \in requests' : Content[r.event] = Content[s.event] => r = s
    BY <1>1, <1>3, <2>3 DEF IInv, RequestsMatchCalls
  <2>6. QED BY <2>1, <2>4, <2>5 DEF RequestsMatchCalls
<1>12. GatewayAgrees' BY <1>1, <1>7, <1>9 DEF IInv, GatewayAgrees
<1>13. ClaimIsExclusive'
  BY <1>1, <1>5 DEF IInv, ClaimIsExclusive, LocalStep, Untouched, local
<1>14. SentHasBody' /\ RedriveHasCopy' BY <1>1 DEF IInv, SentHasBody, RedriveHasCopy, azure
<1>15. QED BY <1>8, <1>10, <1>11, <1>12, <1>13, <1>14 DEF IInv

-----------------------------------------------------------------------------
(***************************************************************************)
(* The steps of the gateway, of the queue and of the redrive script.       *)
(***************************************************************************)

LEMMA RespondKeeps ==
  ASSUME IInv, NEW r \in requests, NEW status \in {"ok", "error"}, Respond(r, status),
         stored' = stored \/ stored' = stored \cup {Content[r.event]},
         status = "ok" => Content[r.event] \in stored',
         faults' \in [FaultKinds -> Nat]
  PROVE  IInv'
<1> DEFINE c == Content[r.event]
<1>1. /\ r.worker \in Workers /\ c \in Contents /\ stored \subseteq stored'
      /\ rows' = rows /\ UNCHANGED azure /\ calls' = calls /\ requests' \subseteq requests
      /\ UNCHANGED <<pc, batch, current, position, content, broken, failing>>
  BY ConstantsAssumption DEF IInv, TypeOK, Request, Respond
<1>2. \A v \in Workers :
        \/ reply'[v] = reply[v]
        \/ /\ reply'[v] = status
           /\ pc[v] = "await"
           /\ content[v] = c
  <2>1. CASE pc[r.worker] = "await" /\ content[r.worker] = c
    <3>1. reply' = [reply EXCEPT ![r.worker] = status] BY <2>1 DEF Respond
    <3>2. QED BY <2>1, <3>1 DEF IInv, TypeOK
  <2>2. CASE ~(pc[r.worker] = "await" /\ content[r.worker] = c)
    <3>1. reply' = reply BY <2>2 DEF Respond
    <3>2. QED BY <3>1
  <2>3. QED BY <2>1, <2>2
<1>3. TypeOK'
  <2>1. reply' \in [Workers -> {"none", "ok", "error"}] BY DEF Respond, IInv, TypeOK
  <2>2. QED BY <1>1, <2>1 DEF IInv, TypeOK, azure
<1>4. \A v \in Workers : HeldOK(v)' /\ HashOK(v)'
  BY <1>1 DEF IInv, HeldOK, HashOK, Text, Event, azure
<1>5. \A v \in Workers : RowOK(v)'
  BY <1>1, <1>2 DEF IInv, RowOK, Claimed
<1>6. calls[c] = 1 /\ r \notin requests'
  BY <1>1 DEF IInv, RequestsMatchCalls, GatewayAgrees, TypeOK, Respond
<1>7. RequestsMatchCalls'
  BY <1>1, <1>6 DEF IInv, RequestsMatchCalls, Claimed
<1>8. GatewayAgrees' BY <1>1, <1>6 DEF IInv, GatewayAgrees
<1>9. ClaimIsExclusive' BY <1>1 DEF IInv, ClaimIsExclusive
<1>10. SentHasBody' /\ RedriveHasCopy' BY <1>1 DEF IInv, SentHasBody, RedriveHasCopy, azure
<1>11. QED BY <1>3, <1>4, <1>5, <1>7, <1>8, <1>9, <1>10 DEF IInv

LEMMA GatewayStepKeeps == ASSUME IInv, GatewayStep PROVE IInv'
<1>1. PICK r \in requests : GatewayStores(r) \/ GatewayRefuses(r) BY DEF GatewayStep
<1>2. CASE GatewayStores(r) BY <1>2, RespondKeeps DEF GatewayStores, IInv, TypeOK
<1>3. CASE GatewayRefuses(r)
  <2>1. faults' \in [FaultKinds -> Nat]
    BY <1>3, SpendType DEF GatewayRefuses, IInv, TypeOK, FaultKinds
  <2>2. QED BY <1>3, <2>1, RespondKeeps DEF GatewayRefuses
<1>4. QED BY <1>1, <1>2, <1>3

\* A step in which no worker takes part.
LEMMA QueueStepKeeps ==
  ASSUME IInv, QueueGrows, rows' = rows, UNCHANGED pc, UNCHANGED local, UNCHANGED gateway,
         OutsideTypeOK', RedriveHasCopy'
  PROVE  IInv'
<1>1. TableGrows BY SameTableGrows DEF IInv
<1>2. \A v \in Workers : Untouched(v) BY DEF Untouched, local
<1>3. NoNewOwner BY <1>2 DEF NoNewOwner, Untouched
<1>4. \A v \in Workers : HeldOK(v)' /\ HashOK(v)' /\ RowOK(v)'
  BY <1>1, <1>2, UntouchedKeeps DEF gateway
<1>5. TypeOK'
  BY DEF IInv, TypeOK, OutsideTypeOK, QueueGrows, gateway, local
<1>6. SentHasBody' BY DEF QueueGrows, SentHasBody
<1>7. QED BY <1>3, <1>4, <1>5, <1>6, NoNewOwnerKeeps, GatewayIdleKeeps DEF IInv

LEMMA SendGrows ==
  ASSUME IInv, NEW i \in Ids, NEW t \in Texts, NEW again \in BOOLEAN, Send(i, t, again)
  PROVE  QueueGrows
BY DEF IInv, TypeOK, SentHasBody, Send, QueueGrows, Message

LEMMA PublishKeeps == ASSUME IInv, NEW i \in Ids, NEW t \in Texts, Publish(i, t) PROVE IInv'
<1>1. QueueGrows BY SendGrows DEF Publish
<1>2. OutsideTypeOK' /\ RedriveHasCopy'
  BY DEF Publish, IInv, TypeOK, OutsideTypeOK, RedriveHasCopy
<1>3. QED BY <1>1, <1>2, QueueStepKeeps DEF Publish

LEMMA ReappearKeeps == ASSUME IInv, NEW i \in Ids, Reappear(i) PROVE IInv'
<1>1. QueueGrows BY MoveGrows DEF Reappear, IInv
<1>2. faults' \in [FaultKinds -> Nat]
  BY SpendType DEF Reappear, IInv, TypeOK, FaultKinds
<1>3. OutsideTypeOK' /\ RedriveHasCopy'
  BY <1>2 DEF Reappear, IInv, TypeOK, OutsideTypeOK, RedriveHasCopy
<1>4. QED BY <1>1, <1>3, QueueStepKeeps DEF Reappear

LEMMA RedriveSendKeeps == ASSUME IInv, NEW i \in Ids, NEW t \in Texts, RedriveSend(i, t) PROVE IInv'
<1>1. QueueGrows BY SendGrows DEF RedriveSend
<1>2. faults' \in [FaultKinds -> Nat]
  BY SpendType DEF RedriveSend, IInv, TypeOK, FaultKinds
<1>3. OutsideTypeOK' /\ RedriveHasCopy'
  BY <1>2 DEF RedriveSend, IInv, TypeOK, OutsideTypeOK, RedriveHasCopy
<1>4. QED BY <1>1, <1>3, QueueStepKeeps DEF RedriveSend

LEMMA RedriveDeleteKeeps == ASSUME IInv, RedriveDelete PROVE IInv'
<1>1. QueueGrows BY SameQueueGrows DEF RedriveDelete, IInv
<1>2. redriving \in Texts /\ poison[redriving] \in Nat /\ poison[redriving] > 0
  BY DEF RedriveDelete, IInv, TypeOK, RedriveHasCopy
<1>3. poison' \in [Texts -> Nat] BY <1>2 DEF RedriveDelete, IInv, TypeOK
<1>4. OutsideTypeOK' /\ RedriveHasCopy'
  BY <1>3 DEF RedriveDelete, IInv, TypeOK, OutsideTypeOK, RedriveHasCopy
<1>5. QED BY <1>1, <1>4, QueueStepKeeps DEF RedriveDelete

LEMMA RedriveStopsKeeps == ASSUME IInv, RedriveStops PROVE IInv'
<1>1. QueueGrows BY SameQueueGrows DEF RedriveStops, IInv
<1>2. faults' \in [FaultKinds -> Nat]
  BY SpendType DEF RedriveStops, IInv, TypeOK, FaultKinds
<1>3. OutsideTypeOK' /\ RedriveHasCopy'
  BY <1>2 DEF RedriveStops, IInv, TypeOK, OutsideTypeOK, RedriveHasCopy
<1>4. QED BY <1>1, <1>3, QueueStepKeeps DEF RedriveStops

LEMMA StutterKeeps == ASSUME IInv, UNCHANGED vars PROVE IInv'
<1>1. QueueGrows BY SameQueueGrows DEF vars, azure, IInv
<1>2. OutsideTypeOK' /\ RedriveHasCopy'
  BY DEF vars, azure, IInv, TypeOK, OutsideTypeOK, RedriveHasCopy
<1>3. QED BY <1>1, <1>2, QueueStepKeeps DEF vars

-----------------------------------------------------------------------------
(***************************************************************************)
(* The invariant and what follows from it.                                 *)
(***************************************************************************)

LEMMA InitEstablishes == Init => IInv
<1> SUFFICES ASSUME Init PROVE IInv OBVIOUS
<1>1. TypeOK
  BY DEF Init, TypeOK, EmptyTable, Row, Status, Message, Labels, Idle, FaultKinds
<1>2. \A w \in Workers : HeldOK(w) /\ HashOK(w) /\ RowOK(w)
  BY DEF Init, HeldOK, HashOK, RowOK, Handling, Idle, Hashing, RowSteps, Owning
<1>3. SentHasBody /\ RequestsMatchCalls /\ RedriveHasCopy
  BY DEF Init, SentHasBody, RequestsMatchCalls, RedriveHasCopy
<1>4. ClaimIsExclusive BY DEF Init, ClaimIsExclusive, Owning
<1>5. GatewayAgrees
  <2> USE DEF GatewayAgrees
  <2>1. TAKE c \in Contents
  <2>2. calls[c] = 0 /\ c \notin stored BY DEF Init
  <2>3. rows[c].status = "ABSENT" /\ rows[c].duplicates = 0 BY DEF Init, EmptyTable
  <2>4. calls[c] <= 1 BY <2>2
  <2>5. ~(rows[c].duplicates > 0) BY <2>3
  <2>6. QED BY <2>2, <2>3, <2>4, <2>5
<1>6. QED BY <1>1, <1>2, <1>3, <1>4, <1>5 DEF IInv

LEMMA WorkerStepKeeps == ASSUME IInv, NEW w \in Workers, WorkerStep(w) PROVE IInv'
BY ReceiveKeeps, TakeKeeps, EndOfEventsKeeps, AckKeeps, CatchKeeps, SendPoisonKeeps,
   UnqueueKeeps, RestartKeeps, SkipEventKeeps, RefuseEventKeeps, EventThrowsKeeps, DownloadKeeps, UpsertKeeps,
   ClaimKeeps, FetchKeeps, DuplicateMarkedKeeps, SubmitKeeps, AnswerKeeps, FailureMarkedKeeps,
   IngestMarkedKeeps
   DEF WorkerStep

LEMMA WorkerFaultKeeps == ASSUME IInv, NEW w \in Workers, WorkerFault(w) PROVE IInv'
BY AckFailsKeeps, CrashKeeps, BlobAccessFailsKeeps, DownloadBreaksKeeps, CallFailsKeeps,
   StatementFailsKeeps
   DEF WorkerFault

LEMMA NextKeeps == IInv /\ [Next]_vars => IInv'
<1> SUFFICES ASSUME IInv, [Next]_vars PROVE IInv' OBVIOUS
<1>1. CASE \E w \in Workers : WorkerStep(w) \/ WorkerFault(w)
  BY <1>1, WorkerStepKeeps, WorkerFaultKeeps
<1>2. CASE \E i \in Ids : Reappear(i) \/ (\E t \in Texts : Publish(i, t))
  BY <1>2, ReappearKeeps, PublishKeeps
<1>3. CASE GatewayStep BY <1>3, GatewayStepKeeps
<1>4. CASE Redrive
  BY <1>4, RedriveDeleteKeeps, RedriveStopsKeeps, RedriveSendKeeps DEF Redrive
<1>5. CASE UNCHANGED vars BY <1>5, StutterKeeps
<1>6. QED BY <1>1, <1>2, <1>3, <1>4, <1>5 DEF Next

LEMMA InvariantHolds == Spec => []IInv
BY InitEstablishes, NextKeeps, PTL DEF Spec

\* The table, the queue, the workers and the gateway keep their types: no
\* counter of the poison queue is taken below zero by redrive_poison_queue.js
\* and every label a worker reaches is one of the code's awaits.
THEOREM TypeCorrect == Spec => []TypeOK
<1>1. IInv => TypeOK BY DEF IInv
<1>2. QED BY <1>1, InvariantHolds, PTL

\* For any number of workers, deliveries and faults, the UPDATE ... WHERE
\* status = 'PENDING' of claimIngestFile gives a content to one worker, and
\* the row says PROCESSING until that worker marks it.
THEOREM ClaimExclusive == Spec => []ClaimIsExclusive
<1>1. IInv => ClaimIsExclusive BY DEF IInv
<1>2. QED BY <1>1, InvariantHolds, PTL

\* For any number of workers, deliveries and faults, callIngestApi is called
\* once at most for a content and the table says INGESTED only of contents
\* that the gateway stored.
THEOREM GatewayAgreement == Spec => []GatewayAgrees
<1>1. IInv => GatewayAgrees BY DEF IInv
<1>2. QED BY <1>1, InvariantHolds, PTL
=============================================================================
