-------------------------- MODULE IntakeInvariant --------------------------
(***************************************************************************)
(* The inductive invariant of IntakeWorker.  ClaimIsExclusive and          *)
(* GatewayAgrees are not inductive: that a claim is exclusive rests on     *)
(* what a worker knows about the row at each statement, and that a content *)
(* is submitted once rests on the claim being exclusive.                   *)
(***************************************************************************)
EXTENDS IntakeWorker

\* Labels at which a worker handles a delivery.
Handling == Labels \ Idle

\* Labels at which it has hashed the event it is at.
Hashing == RowSteps \cup Owning

\* Every message that was sent has a body.
SentHasBody == \A i \in Ids : queue[i].state # "unsent" => queue[i].text \in Texts

\* Every delivery that w holds is of a message that was sent.
HeldOK(w) ==
  /\ \A d \in batch[w] : queue[d.id].state # "unsent"
  /\ pc[w] \in Handling =>
       /\ current[w] \in Delivery
       /\ queue[current[w].id].state # "unsent"
       /\ position[w] # 0

\* A worker that computed a hash is at an event of the body.
HashOK(w) ==
  pc[w] \in Hashing =>
    /\ position[w] <= Len(Body[Text(w)])
    /\ content[w] \in Contents
    /\ ~broken[w] => content[w] = Content[Event(w)]
    /\ pc[w] \in {"submit", "await"} => ~broken[w]

\* What w may rely on at each statement and at the call of the API.
RowOK(w) ==
  /\ pc[w] = "claim" => rows[content[w]].status # "ABSENT"
  /\ pc[w] = "fetch" => Claimed(rows, content[w])
  /\ pc[w] = "markDuplicate" => rows[content[w]].status = "INGESTED"
  /\ pc[w] = "submit" => calls[content[w]] = 0
  /\ pc[w] = "markIngested" => content[w] \in stored
  /\ pc[w] = "await" /\ reply[w] = "ok" => content[w] \in stored
  /\ reply[w] # "none" =>
       pc[w] \in {"await", "markFailed", "markIngested", "catch", "poison", "unqueue"}

\* Requests belong to claimed contents, one to each.
RequestsMatchCalls ==
  /\ \A c \in Contents : calls[c] > 0 => Claimed(rows, c)
  /\ \A r \in requests :
       calls[Content[r.event]] > 0 /\ Content[r.event] \notin stored
  /\ \A r, s \in requests : Content[r.event] = Content[s.event] => r = s

RedriveHasCopy == redriving # None => poison[redriving] > 0

IInv ==
  /\ TypeOK
  /\ SentHasBody
  /\ \A w \in Workers : HeldOK(w) /\ HashOK(w) /\ RowOK(w)
  /\ RequestsMatchCalls
  /\ RedriveHasCopy
  /\ ClaimIsExclusive
  /\ GatewayAgrees

-----------------------------------------------------------------------------
(***************************************************************************)
(* What is kept on top of IInv, for the three properties that speak of     *)
(* several messages or contents at once.                                   *)
(***************************************************************************)

\* Events that were handled to an end, if they name a file at all.
AccountedEvents ==
  {e \in Events :
     /\ Kind[e] \notin {"noUri", "mangled", "badPath"}
     /\ Kind[e] \in {"invalid", "valid"} => Accounted(e)}

\* Unless a result of this message asked for a retry, the events behind w
\* are accounted for; the hash it computed is one of the event it is at.
ProgressOK(w) ==
  pc[w] \in {"event", "ack"} \cup Hashing =>
    /\ Text(w) \notin Unparsable
    /\ ~failing[w] => \A n \in 1 .. Len(Body[Text(w)]) :
                        n < position[w] => Body[Text(w)][n] \in AccountedEvents
    /\ pc[w] = "ack" => ~failing[w] /\ position[w] > Len(Body[Text(w)])
    /\ pc[w] \in Hashing =>
         /\ Kind[Event(w)] \in {"invalid", "valid"}
         /\ content[w] \in {Content[Event(w)]} \cup Truncated[Event(w)]

DoneInv ==
  /\ \A w \in Workers : ProgressOK(w)
  /\ DoneIsAccounted

Sent == {i \in Ids : queue[i].state # "unsent"}

\* No delivery is newer than the latest one of its message.
ReceiptsOK(w) ==
  /\ \A d \in batch[w] : d.count <= queue[d.id].count
  /\ pc[w] \in Handling => current[w].count <= queue[current[w].id].count

\* Messages with body t that were given up on, or are about to be: their copy
\* was sent to the poison queue and the receipt to delete them still holds.
GivenUp(t) ==
  {i \in Ids :
     /\ queue[i].text = t
     /\ \/ queue[i].state = "poisoned"
        \/ \E w \in Workers :
             pc[w] = "unqueue" /\ current[w].id = i /\ ReceiptValid(current[w])}

Redriven(t) == {i \in Ids : queue[i].redriven /\ queue[i].text = t}

\* The copy that redrive_poison_queue.js has sent on and not yet deleted.
InTransit(t) == IF redriving # None /\ redriving = t THEN 1 ELSE 0

PoisonInv ==
  /\ IsFiniteSet(Sent)
  /\ \A w \in Workers : ReceiptsOK(w)
  /\ \A i \in Ids : queue[i].redriven => i \in Sent
  /\ \A t \in Texts :
       Cardinality(GivenUp(t)) + InTransit(t) <= poison[t] + Cardinality(Redriven(t))

Registered == {c \in Contents : rows[c].status # "ABSENT"}

StrandedInv == IsFiniteSet(Registered) /\ StrandedNeedsFault
=============================================================================
