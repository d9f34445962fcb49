-------------------------- MODULE AssistantProofs --------------------------
(***************************************************************************)
(* Proofs about Assistant, for any users, requests, pool size, retention   *)
(* and number of failures.  They rest on IInv of AssistantInvariant.       *)
(***************************************************************************)
EXTENDS AssistantInvariant, FiniteSetTheorems, TLAPS

-----------------------------------------------------------------------------
(***************************************************************************)
(* The connections of transactions.                                        *)
(***************************************************************************)

Holders == {r \in Requests : pc[r] \in InTransaction}

LEMMA HoldersFinite == IsFiniteSet(Holders) /\ Cardinality(Holders) \in Nat
  <1>1. Holders \subseteq Requests
    BY DEF Holders
  <1>. QED
    BY <1>1, ConstantsAssumption, FS_Subset, FS_CardinalityType

\* A step that gives connections back keeps the pool within its size.
LEMMA PoolShrinks ==
  ASSUME TypeOK, Holders' \subseteq Holders
  PROVE  Cardinality(Holders') <= PoolSize
  <1>1. Cardinality(Holders') <= Cardinality(Holders) /\ Cardinality(Holders') \in Nat
    BY HoldersFinite, FS_Subset, FS_CardinalityType
  <1>2. Cardinality(Holders) <= PoolSize /\ PoolSize \in Nat
    BY ConstantsAssumption DEF TypeOK, Holders
  <1>. QED
    BY <1>1, <1>2, HoldersFinite

\* A transaction that begins takes a connection the pool still has.
LEMMA PoolGrows ==
  ASSUME TypeOK, Free, NEW r \in Requests, Holders' \subseteq Holders \cup {r}
  PROVE  Cardinality(Holders') <= PoolSize
  <1>1. Cardinality(Holders) < PoolSize /\ PoolSize \in Nat
    BY ConstantsAssumption DEF Free, Holders
  <1>2. CASE r \in Holders
    <2>1. Holders' \subseteq Holders
      BY <1>2
    <2>. QED
      BY <2>1, PoolShrinks
  <1>3. CASE r \notin Holders
    <2>1. IsFiniteSet(Holders \cup {r}) /\ Cardinality(Holders \cup {r}) = Cardinality(Holders) + 1
      BY <1>3, HoldersFinite, FS_AddElement
    <2>2. Cardinality(Holders') <= Cardinality(Holders \cup {r}) /\ Cardinality(Holders') \in Nat
      BY <2>1, FS_Subset, FS_CardinalityType
    <2>. QED
      BY <1>1, <2>1, <2>2, HoldersFinite
  <1>. QED
    BY <1>2, <1>3

-----------------------------------------------------------------------------
(***************************************************************************)
(* Where a step takes a request.                                           *)
(***************************************************************************)

\* A step moves one request, and only to where its kind may be; a failure of
\* /answer or /search ends every request in progress.
LEMMA StepMoves ==
  ASSUME TypeOK, PlaceOK, NEW r \in Requests, Step(r) \/ Failure(r)
  PROVE  \/ Die
         \/ \E label \in Labels \ {"new"} :
              /\ pc' = [pc EXCEPT ![r] = label]
              /\ label \in InTransaction \ {"drop"} => pc[r] = "new" /\ Free
              /\ label = "drop" => pc[r] = "sweep"
              /\ label \in {"insert", "clear", "store"} => Kind[r] = "ask"
              /\ label \in {"sweep", "drop"} => Kind[r] = "delete"
              /\ label \in Working => Kind[r] \in {"ask", "answer", "search"}
              /\ label \in Working /\ Kind[r] = "ask" => InProgress(r)
              /\ label = "done" /\ Kind[r] = "delete" => pc[r] = "drop"
  <1>. USE ConstantsAssumption DEF TypeOK, PlaceOK, Labels, InTransaction, Working, Over, InProgress, Goto, Kinds, Strategies
  <1>1. CASE OpenNamed(r) \/ OpenNew(r) \/ OpenDeletion(r)
    BY <1>1 DEF OpenNamed, OpenNew, OpenDeletion, Find
  <1>2. CASE Insert(r) \/ Clear(r) \/ Arrive(r) \/ Create(r) \/ Sweep(r) \/ Drop(r)
    BY <1>2 DEF Insert, Clear, Arrive, Create, Sweep, Drop
  <1>3. CASE Classify(r)
    BY <1>3 DEF Classify
  <1>4. CASE Lookup(r)
    BY <1>4 DEF Lookup
  <1>5. CASE Search(r) \/ Cite(r) \/ Store(r) \/ Reply(r)
    BY <1>5 DEF Search, Cite, Store, Reply
  <1>6. CASE Failure(r)
    BY <1>6 DEF Failure, StatementFails, LlmFails, CommitUnconfirmed, Throw
  <1>. QED
    BY <1>1, <1>2, <1>3, <1>4, <1>5, <1>6 DEF Step
-----------------------------------------------------------------------------
(***************************************************************************)
(* Type correctness.                                                       *)
(***************************************************************************)

\* Labels and connections.
LEMMA LabelTypes ==
  ASSUME TypeOK, PlaceOK, NEW r \in Requests, Step(r) \/ Failure(r)
  PROVE  pc' \in [Requests -> Labels] /\ Cardinality(Holders') <= PoolSize
  <1>1. CASE Die
    <2>1. pc' \in [Requests -> Labels] /\ Holders' \subseteq Holders
      BY <1>1 DEF Die, TypeOK, Holders, InTransaction, Working, Over, Labels, InProgress
    <2>. QED
      BY <2>1, PoolShrinks
  <1>2. ASSUME NEW label \in Labels, pc' = [pc EXCEPT ![r] = label],
               label \in InTransaction \ {"drop"} => pc[r] = "new" /\ Free,
               label = "drop" => pc[r] = "sweep"
        PROVE  pc' \in [Requests -> Labels] /\ Cardinality(Holders') <= PoolSize
    <2>1. pc' \in [Requests -> Labels]
      BY <1>2 DEF TypeOK
    <2>2. CASE label \in InTransaction \ {"drop"}
      <3>1. Holders' \subseteq Holders \cup {r}
        BY <1>2 DEF TypeOK, Holders
      <3>. QED
        BY <1>2, <2>1, <2>2, <3>1, PoolGrows
    <2>3. CASE label \notin InTransaction \ {"drop"}
      <3>1. Holders' \subseteq Holders
        BY <1>2, <2>3 DEF TypeOK, Holders, InTransaction
      <3>. QED
        BY <2>1, <3>1, PoolShrinks
    <2>. QED
      BY <2>2, <2>3
  <1>. QED
    BY <1>1, <1>2, StepMoves

\* Messages are written by requests that know their conversation.
LEMMA WrittenType ==
  ASSUME TypeOK, NEW r \in Requests, target[r] \in Requests, NEW role \in {"USER", "ASSISTANT"}
  PROVE  Written(r, role) \in Message
  BY DEF TypeOK, Written, Message

LEMMA KeyType ==
  ASSUME TypeOK, NEW r \in Requests
  PROVE  Key(r) \in Keys
  BY ConstantsAssumption DEF TypeOK, Key, Keys

\* The other variables.
LEMMA DataTypes ==
  ASSUME TypeOK, PlaceOK, NEW r \in Requests, Step(r) \/ Failure(r)
  PROVE  /\ target' \in [Requests -> Requests \cup {None}]
         /\ live' \subseteq Requests
         /\ touched' \in [Requests -> 0 .. MaxDay]
         /\ messages' \subseteq Message
         /\ doomed' \in [Requests -> SUBSET Message]
         /\ context' \in [Keys -> Requests \cup {None}]
         /\ latest' \in [Keys -> Requests \cup {None}]
         /\ basis' \in [Requests -> Requests \cup {None}]
         /\ UNCHANGED <<cleanup, purged, day>>
         /\ faults' \in 0 .. MaxFaults
  <1>. USE ConstantsAssumption DEF TypeOK, tables, memory, script
  <1>1. CASE OpenNamed(r) \/ OpenNew(r) \/ OpenDeletion(r)
    BY <1>1 DEF OpenNamed, OpenNew, OpenDeletion, Find, Conversations
  <1>2. CASE Insert(r)
    <2>1. target[r] \in Requests
      BY <1>2 DEF Insert, PlaceOK, InProgress, InTransaction
    <2>. QED
      BY <1>2, <2>1, WrittenType DEF Insert, Inserted
  <1>3. CASE Store(r)
    <2>1. target[r] \in Requests
      BY <1>3 DEF Store, PlaceOK, InProgress, Working
    <2>. QED
      BY <1>3, <2>1, WrittenType, KeyType DEF Store, Stored
  <1>4. CASE Clear(r) \/ Cite(r) \/ Reply(r)
    BY <1>4, KeyType DEF Clear, Cite, Reply
  <1>5. CASE Classify(r)
    BY <1>5, KeyType DEF Classify
  <1>6. CASE Arrive(r) \/ Lookup(r) \/ Search(r) \/ Create(r) \/ Sweep(r) \/ Drop(r)
    BY <1>6 DEF Arrive, Lookup, Search, Create, Created, Sweep, Drop, Dropped
  <1>7. CASE StatementFails(r) \/ LlmFails(r)
    BY <1>7 DEF StatementFails, LlmFails, Throw, Die, Fault
  <1>8. CASE CommitUnconfirmed(r)
    <2>1. pc[r] \in {"insert", "store"} => target[r] \in Requests
      BY DEF PlaceOK, InProgress, InTransaction, Working
    <2>2. /\ UNCHANGED <<target, doomed, context, basis, cleanup, purged, day>>
          /\ faults' \in 0 .. MaxFaults
      BY <1>8 DEF CommitUnconfirmed, Fault
    <2>3. /\ live' \subseteq Requests
          /\ touched' \in [Requests -> 0 .. MaxDay]
          /\ latest' \in [Keys -> Requests \cup {None}]
      BY <1>8, KeyType DEF CommitUnconfirmed, Inserted, Stored, Dropped, Created
    <2>4. messages' \subseteq Message
      BY <1>8, <2>1, WrittenType DEF CommitUnconfirmed, Inserted, Stored, Dropped, Created
    <2>. QED
      BY <2>2, <2>3, <2>4
  <1>. QED
    BY <1>1, <1>2, <1>3, <1>4, <1>5, <1>6, <1>7, <1>8 DEF Step, Failure

LEMMA TypeStep ==
  ASSUME TypeOK, PlaceOK, NEW r \in Requests, Step(r) \/ Failure(r)
  PROVE  TypeOK'
  BY LabelTypes, DataTypes DEF TypeOK, Holders

-----------------------------------------------------------------------------
(***************************************************************************)
(* Places, conversations and messages.                                     *)
(***************************************************************************)

\* A request keeps its target once it is begun.
LEMMA TargetKept ==
  ASSUME TypeOK, NEW r \in Requests, Step(r) \/ Failure(r)
  PROVE  \A s \in Requests : pc[s] # "new" => target'[s] = target[s]
  BY DEF TypeOK, Step, Failure, OpenNamed, OpenNew, OpenDeletion, Find, Insert, Clear, Arrive,
     Classify, Lookup, Search, Cite, Store, Reply, Create, Sweep, Drop, StatementFails, LlmFails,
     CommitUnconfirmed, Throw, Die, Goto

\* A question that begins has a conversation of its own user, a deletion one
\* that is live.
LEMMA Begins ==
  ASSUME TypeOK, NEW r \in Requests, Step(r) \/ Failure(r), pc[r] = "new", pc'[r] \in {"insert", "sweep"}
  PROVE  /\ target'[r] \in Requests
         /\ Kind[r] = "ask" => User[target'[r]] = User[r]
         /\ Kind[r] = "delete" => target'[r] \in live /\ User[target'[r]] = User[r]
         /\ UNCHANGED <<tables, doomed>>
  <1>. USE DEF TypeOK, Goto
  <1>1. CASE OpenNamed(r) \/ OpenDeletion(r)
    BY <1>1 DEF OpenNamed, OpenDeletion, Find, Owned, Conversations
  <1>2. CASE OpenNew(r)
    BY <1>2 DEF OpenNew
  <1>3. CASE Arrive(r) \/ Create(r)
    BY <1>3 DEF Arrive, Create
  <1>4. CASE Failure(r)
    BY <1>4 DEF Failure, StatementFails, LlmFails, CommitUnconfirmed, Throw, Die, InProgress, InTransaction, Working
  <1>. QED
    BY <1>1, <1>2, <1>3, <1>4 DEF Step, Insert, Clear, Classify, Lookup, Search, Cite, Store, Reply, Sweep, Drop

LEMMA PlaceStep ==
  ASSUME TypeOK, PlaceOK, NEW r \in Requests, Step(r) \/ Failure(r)
  PROVE  PlaceOK'
  <1>1. CASE Die
    BY <1>1 DEF Die, PlaceOK, TypeOK, InProgress, InTransaction, Working
  <1>2. CASE ~Die
    <2>1. PICK label \in Labels \ {"new"} :
              /\ pc' = [pc EXCEPT ![r] = label]
              /\ label \in InTransaction \ {"drop"} => pc[r] = "new" /\ Free
              /\ label = "drop" => pc[r] = "sweep"
              /\ label \in {"insert", "clear", "store"} => Kind[r] = "ask"
              /\ label \in {"sweep", "drop"} => Kind[r] = "delete"
              /\ label \in Working => Kind[r] \in {"ask", "answer", "search"}
              /\ label \in Working /\ Kind[r] = "ask" => InProgress(r)
      BY <1>2, StepMoves
    <2>2. ASSUME NEW s \in Requests, s # r
          PROVE  pc'[s] = pc[s] /\ (pc[s] # "new" => target'[s] = target[s])
      BY <2>1, <2>2, TargetKept DEF TypeOK
    <2>3. pc'[r] = label
      BY <2>1 DEF TypeOK
    <2>4. Kind[r] = "ask" /\ InProgress(r)' => target'[r] \in Requests /\ User[target'[r]] = User[r]
      <3>1. CASE pc[r] = "new"
        BY <2>1, <2>3, <3>1, Begins DEF InProgress, InTransaction, Working
      <3>2. CASE pc[r] # "new"
        BY <2>1, <2>3, <3>2, TargetKept DEF PlaceOK, InProgress, InTransaction, Working
      <3>. QED
        BY <3>1, <3>2
    <2>. QED
      BY <2>1, <2>2, <2>3, <2>4 DEF PlaceOK, InProgress, InTransaction, Working
  <1>. QED
    BY <1>1, <1>2

\* Requests do not go back before the places where they write.
LEMMA Forward ==
  ASSUME TypeOK, PlaceOK, NEW r \in Requests, Step(r) \/ Failure(r), NEW s \in Requests
  PROVE  /\ pc[s] # "new" => pc'[s] # "new"
         /\ pc[s] \notin {"new", "insert"} => pc'[s] \notin {"new", "insert"}
         /\ pc[s] \in {"reply"} \cup Over => pc'[s] \in {"reply"} \cup Over
         /\ s # r => pc'[s] = pc[s] \/ pc'[s] = "gone"
  <1>. USE DEF TypeOK, Goto, Over, Working, InTransaction, InProgress
  <1>1. CASE OpenNamed(r) \/ OpenNew(r) \/ OpenDeletion(r)
    BY <1>1 DEF OpenNamed, OpenNew, OpenDeletion, Find
  <1>2. CASE Insert(r) \/ Clear(r) \/ Arrive(r) \/ Create(r) \/ Sweep(r) \/ Drop(r)
    BY <1>2 DEF Insert, Clear, Arrive, Create, Sweep, Drop
  <1>3. CASE Classify(r)
    BY <1>3 DEF Classify
  <1>4. CASE Lookup(r)
    BY <1>4 DEF Lookup, PlaceOK
  <1>5. CASE Search(r) \/ Cite(r) \/ Store(r) \/ Reply(r)
    BY <1>5 DEF Search, Cite, Store, Reply
  <1>6. CASE Failure(r)
    BY <1>6 DEF Failure, StatementFails, LlmFails, CommitUnconfirmed, Throw, Die, Fragile
  <1>. QED
    BY <1>1, <1>2, <1>3, <1>4, <1>5, <1>6 DEF Step

\* What a step writes, and where the request is that does.
LEMMA StepWrites ==
  ASSUME TypeOK, PlaceOK, NEW r \in Requests, Step(r) \/ Failure(r)
  PROVE  /\ live' \subseteq live
            \/ /\ live' = live \cup {r} /\ touched' = [touched EXCEPT ![r] = day]
               /\ pc[r] \in {"new", "insert"} /\ pc'[r] \notin {"new", "insert"}
         /\ messages' \subseteq messages
            \/ /\ messages' = messages \cup {Written(r, "USER")} /\ pc[r] = "insert" /\ pc'[r] \notin {"new", "insert"}
            \/ /\ messages' = messages \cup {Written(r, "ASSISTANT")}
               /\ pc[r] = "store" /\ pc'[r] \in {"reply"} \cup Over
         /\ doomed' = doomed
            \/ /\ doomed' = [doomed EXCEPT ![r] = {m \in messages : m.conversation = target[r]}]
               /\ pc[r] = "sweep" /\ pc'[r] = "drop"
  <1>. USE DEF TypeOK, Goto, Over, tables
  <1>1. CASE OpenNamed(r) \/ OpenNew(r) \/ OpenDeletion(r)
    BY <1>1 DEF OpenNamed, OpenNew, OpenDeletion
  <1>2. CASE Insert(r) \/ Create(r) \/ Store(r)
    BY <1>2 DEF Insert, Inserted, Create, Created, Store, Stored
  <1>3. CASE Sweep(r) \/ Drop(r)
    BY <1>3 DEF Sweep, Drop, Dropped
  <1>4. CASE Clear(r) \/ Arrive(r) \/ Classify(r) \/ Lookup(r) \/ Search(r) \/ Cite(r) \/ Reply(r)
    BY <1>4 DEF Clear, Arrive, Classify, Lookup, Search, Cite, Reply
  <1>5. CASE StatementFails(r) \/ LlmFails(r)
    BY <1>5 DEF StatementFails, LlmFails, Throw, Die
  <1>6. CASE CommitUnconfirmed(r)
    BY <1>6 DEF CommitUnconfirmed, Inserted, Stored, Dropped, Created
  <1>. QED
    BY <1>1, <1>2, <1>3, <1>4, <1>5, <1>6 DEF Step, Failure

\* Where a deletion can be, and that it deleted what it saw when it is over.
LEMMA DeletionMoves ==
  ASSUME TypeOK, PlaceOK, NEW r \in Requests, Step(r) \/ Failure(r), Kind[r] = "delete",
         pc'[r] \in {"sweep", "drop", "done"}
  PROVE  \/ pc[r] = "new" /\ pc'[r] = "sweep"
         \/ pc[r] = "sweep" /\ pc'[r] = "drop"
         \/ /\ pc[r] = "drop" /\ pc'[r] = "done"
            /\ target[r] \notin live' /\ messages' = messages \ doomed[r] /\ UNCHANGED doomed
  <1>. USE DEF TypeOK, PlaceOK, Goto, Working
  <1>1. CASE OpenDeletion(r) \/ Sweep(r) \/ Drop(r)
    BY <1>1 DEF OpenDeletion, Find, Sweep, Drop, Dropped
  <1>2. CASE \/ OpenNamed(r) \/ OpenNew(r) \/ Insert(r) \/ Clear(r) \/ Arrive(r) \/ Classify(r)
             \/ Lookup(r) \/ Search(r) \/ Cite(r) \/ Store(r) \/ Reply(r) \/ Create(r)
    BY <1>2 DEF OpenNamed, OpenNew, Insert, Clear, Arrive, Classify, Lookup, Search, Cite, Store,
       Reply, Create
  <1>3. CASE Failure(r)
    BY <1>3 DEF Failure, StatementFails, LlmFails, CommitUnconfirmed, Throw
  <1>. QED
    BY <1>1, <1>2, <1>3 DEF Step

\* A deletion that goes on to its second statement has seen its conversation.
LEMMA SweepSees ==
  ASSUME TypeOK, NEW r \in Requests, Step(r) \/ Failure(r), pc[r] = "sweep", pc'[r] = "drop"
  PROVE  doomed'[r] = {m \in messages : m.conversation = target[r]}
  <1>1. Sweep(r) \/ StatementFails(r) \/ CommitUnconfirmed(r)
    BY DEF Step, Failure, OpenNamed, OpenNew, Insert, Clear, Arrive, Classify, Lookup, Search, Cite,
       Store, Reply, Create, OpenDeletion, Drop, LlmFails
  <1>2. CASE StatementFails(r) \/ CommitUnconfirmed(r)
    BY <1>2 DEF TypeOK, StatementFails, CommitUnconfirmed, Throw, Die, Goto
  <1>3. CASE Sweep(r)
    BY <1>3 DEF TypeOK, Sweep
  <1>. QED
    BY <1>1, <1>2, <1>3

LEMMA ConversationsStep ==
  ASSUME TypeOK, PlaceOK, ConversationsOK, NEW r \in Requests, Step(r) \/ Failure(r)
  PROVE  ConversationsOK'
  <1>1. \A c \in live' : pc'[c] \notin {"new", "insert"}
    BY StepWrites, Forward DEF ConversationsOK, TypeOK
  <1>2. ASSUME NEW s \in Requests, Kind[s] = "delete", pc'[s] \in {"sweep", "drop", "done"}
        PROVE  /\ target'[s] \in Requests /\ User[target'[s]] = User[s]
               /\ pc'[target'[s]] \notin {"new", "insert"}
    <2>1. CASE pc[s] \in {"sweep", "drop", "done"}
      BY <1>2, <2>1, TargetKept, Forward DEF ConversationsOK
    <2>2. CASE pc[s] \notin {"sweep", "drop", "done"}
      <3>1. s = r /\ pc[r] = "new" /\ pc'[r] = "sweep"
        BY <1>2, <2>2, Forward, DeletionMoves
      <3>. QED
        BY <1>2, <3>1, Begins, Forward DEF ConversationsOK
    <2>. QED
      BY <2>1, <2>2
  <1>3. ASSUME NEW s \in Requests, Kind[s] = "delete", pc'[s] = "drop", NEW m \in doomed'[s]
        PROVE  m.conversation = target'[s]
    <2>1. pc[s] \in {"sweep", "drop"} /\ target'[s] = target[s]
      BY <1>3, Forward, DeletionMoves, TargetKept
    <2>2. CASE pc[s] = "drop"
      <3>1. s # r
        BY <1>3, <2>2, DeletionMoves
      <3>. QED
        BY <1>3, <2>1, <2>2, <3>1, StepWrites DEF TypeOK, ConversationsOK
    <2>3. CASE pc[s] = "sweep"
      <3>1. s = r
        BY <1>3, <2>3, Forward
      <3>. QED
        BY <1>3, <2>1, <2>3, <3>1, SweepSees DEF TypeOK
    <2>. QED
      BY <2>1, <2>2, <2>3
  <1>. QED
    BY <1>1, <1>2, <1>3 DEF ConversationsOK

LEMMA MessagesStep ==
  ASSUME TypeOK, PlaceOK, MessagesOK, NEW r \in Requests, Step(r) \/ Failure(r)
  PROVE  MessagesOK'
  <1>1. \A m \in messages : m.author \in Requests
    BY DEF TypeOK, Message
  <1>2. \A s \in Requests : \A m \in doomed[s] : m.author \in Requests
    BY DEF TypeOK, Message
  <1>3. Unwritten(messages)'
    BY <1>1, StepWrites, Forward DEF MessagesOK, Unwritten, Written
  <1>4. ASSUME NEW s \in Requests
        PROVE  Unwritten(doomed[s])'
    BY <1>1, <1>2, <1>4, StepWrites, Forward DEF MessagesOK, Unwritten, TypeOK
  <1>. QED
    BY <1>3, <1>4 DEF MessagesOK

LEMMA DeletionStep ==
  ASSUME TypeOK, PlaceOK, ConversationsOK, MessagesOK, DeletionSticks,
         NEW r \in Requests, Step(r) \/ Failure(r)
  PROVE  DeletionSticks'
  <1>. SUFFICES ASSUME NEW s \in Requests, Kind[s] = "delete", pc'[s] = "done"
                PROVE  target'[s] \notin live' /\ doomed'[s] \cap messages' = {}
    BY DEF DeletionSticks
  <1>1. CASE pc[s] # "done"
    <2>1. s = r
      BY <1>1, Forward
    <2>. QED
      BY <1>1, <2>1, DeletionMoves, TargetKept
  <1>2. CASE pc[s] = "done"
    <2>1. target'[s] = target[s] /\ doomed'[s] = doomed[s] /\ target[s] \in Requests
      BY <1>2, TargetKept, StepWrites DEF TypeOK, ConversationsOK
    <2>2. target[s] \notin live'
      BY <1>2, StepWrites DEF DeletionSticks, ConversationsOK
    <2>3. doomed[s] \cap messages' = {}
      <3>1. \A m \in doomed[s] : m \notin messages
        BY <1>2 DEF DeletionSticks
      <3>2. \A m \in doomed[s] :
              /\ pc[r] = "insert" => m # Written(r, "USER")
              /\ pc[r] = "store" => m # Written(r, "ASSISTANT")
        BY DEF MessagesOK, Unwritten, Written, Over
      <3>. QED
        BY <3>1, <3>2, StepWrites
    <2>. QED
      BY <2>1, <2>2, <2>3
  <1>. QED
    BY <1>1, <1>2

-----------------------------------------------------------------------------
(***************************************************************************)
(* Contexts and owners.                                                    *)
(***************************************************************************)

\* A step keeps a context under the key of its request, or forgets contexts,
\* or reads the one under the key of its request.
LEMMA ContextWrites ==
  ASSUME TypeOK, NEW r \in Requests, Step(r) \/ Failure(r)
  PROVE  \/ basis' = basis /\ \A k \in Keys : context'[k] \in {context[k], None}
         \/ pc[r] # "new" /\ basis' = basis /\ context' = [context EXCEPT ![Key(r)] = r]
         \/ pc[r] # "new" /\ basis' = [basis EXCEPT ![r] = context[Key(r)]] /\ context' = context
  <1>. USE DEF TypeOK, memory
  <1>1. CASE Clear(r) \/ Cite(r)
    BY <1>1 DEF Clear, Cite
  <1>2. CASE Classify(r)
    BY <1>2 DEF Classify
  <1>3. CASE \/ OpenNamed(r) \/ OpenNew(r) \/ Insert(r) \/ Arrive(r) \/ Lookup(r) \/ Search(r)
             \/ Store(r) \/ Reply(r) \/ Create(r) \/ OpenDeletion(r) \/ Sweep(r) \/ Drop(r)
    BY <1>3 DEF OpenNamed, OpenNew, Insert, Arrive, Lookup, Search, Store, Reply, Create,
       OpenDeletion, Sweep, Drop
  <1>4. CASE Failure(r)
    BY <1>4 DEF Failure, StatementFails, LlmFails, CommitUnconfirmed, Throw, Die
  <1>. QED
    BY <1>1, <1>2, <1>3, <1>4 DEF Step

LEMMA OwnersStep ==
  ASSUME TypeOK, PlaceOK, ContextOK, AnswersStayPrivate, NEW r \in Requests, Step(r) \/ Failure(r)
  PROVE  ContextOK' /\ AnswersStayPrivate'
  <1>1. \A s \in Requests : pc[s] # "new" => Key(s)' = Key(s)
    BY TargetKept DEF Key
  <1>2. \A k \in Keys : context[k] \in Requests \cup {None}
    BY DEF TypeOK
  <1>3. \A s \in Requests : basis[s] \in Requests \cup {None}
    BY DEF TypeOK
  <1>4. Key(r) \in Keys
    BY KeyType
  <1>5. \A s \in Requests : pc[s] # "new" => pc'[s] # "new"
    BY Forward
  <1>6. \A m \in messages' : User[m.author] = User[m.conversation]
    <2>1. pc[r] \in {"insert", "store"} => User[target[r]] = User[r]
      BY DEF PlaceOK, InProgress, InTransaction, Working
    <2>. QED
      BY <2>1, StepWrites DEF AnswersStayPrivate, Written
  <1>7. CASE basis' = basis /\ \A k \in Keys : context'[k] \in {context[k], None}
    BY <1>1, <1>2, <1>3, <1>5, <1>6, <1>7 DEF ContextOK, AnswersStayPrivate
  <1>8. CASE pc[r] # "new" /\ basis' = basis /\ context' = [context EXCEPT ![Key(r)] = r]
    <2>1. \A k \in Keys : context'[k] = IF k = Key(r) THEN r ELSE context[k]
      BY <1>4, <1>8 DEF TypeOK
    <2>. QED
      BY <1>1, <1>2, <1>3, <1>5, <1>6, <1>8, <2>1 DEF ContextOK, AnswersStayPrivate
  <1>9. CASE pc[r] # "new" /\ basis' = [basis EXCEPT ![r] = context[Key(r)]] /\ context' = context
    <2>1. \A s \in Requests : basis'[s] = IF s = r THEN context[Key(r)] ELSE basis[s]
      BY <1>9 DEF TypeOK
    <2>. QED
      BY <1>1, <1>2, <1>3, <1>4, <1>5, <1>6, <1>9, <2>1 DEF ContextOK, AnswersStayPrivate
  <1>. QED
    BY <1>7, <1>8, <1>9, ContextWrites

-----------------------------------------------------------------------------
(***************************************************************************)
(* Dates.                                                                  *)
(***************************************************************************)

\* An answer makes its conversation as young as itself.
LEMMA StepTouches ==
  ASSUME TypeOK, PlaceOK, NEW r \in Requests, Step(r) \/ Failure(r)
  PROVE  \/ UNCHANGED touched /\ live' \subseteq live /\ messages' \subseteq messages \cup {Written(r, "USER")}
         \/ /\ touched' = [touched EXCEPT ![r] = day] /\ live' = live \cup {r}
            /\ messages' \subseteq messages \cup {Written(r, "USER")}
         \/ /\ UNCHANGED live /\ messages' = messages \cup {Written(r, "ASSISTANT")}
            /\ touched' = IF target[r] \in live THEN [touched EXCEPT ![target[r]] = day] ELSE touched
  <1>. USE DEF TypeOK, tables
  <1>1. CASE OpenNamed(r) \/ OpenNew(r) \/ OpenDeletion(r)
    BY <1>1 DEF OpenNamed, OpenNew, OpenDeletion
  <1>2. CASE Insert(r) \/ Create(r) \/ Store(r)
    BY <1>2 DEF Insert, Inserted, Create, Created, Store, Stored
  <1>3. CASE Sweep(r) \/ Drop(r)
    BY <1>3 DEF Sweep, Drop, Dropped
  <1>4. CASE Clear(r) \/ Arrive(r) \/ Classify(r) \/ Lookup(r) \/ Search(r) \/ Cite(r) \/ Reply(r)
    BY <1>4 DEF Clear, Arrive, Classify, Lookup, Search, Cite, Reply
  <1>5. CASE StatementFails(r) \/ LlmFails(r)
    BY <1>5 DEF StatementFails, LlmFails, Throw, Die
  <1>6. CASE CommitUnconfirmed(r)
    BY <1>6 DEF CommitUnconfirmed, Inserted, Stored, Dropped, Created
  <1>. QED
    BY <1>1, <1>2, <1>3, <1>4, <1>5, <1>6 DEF Step, Failure

LEMMA DatesStep ==
  ASSUME TypeOK, PlaceOK, DatesOK, RetentionHolds, NEW r \in Requests, Step(r) \/ Failure(r)
  PROVE  DatesOK' /\ RetentionHolds'
  <1>1. UNCHANGED <<cleanup, purged, day>> /\ day \in Nat /\ purged \in Nat
    BY DataTypes, ConstantsAssumption DEF TypeOK
  <1>2. \A m \in messages' : m \in messages \/ m \in {Written(r, "USER"), Written(r, "ASSISTANT")}
    BY StepWrites
  <1>3. \A m \in messages' : m \in messages \/ m.day = day
    BY <1>2 DEF Written
  <1>4. \A m \in messages : m.day \in Nat /\ m.conversation \in Requests
    BY ConstantsAssumption DEF TypeOK, Message
  <1>5. \A m \in messages' : m.day <= day /\ m.day >= purged
    BY <1>1, <1>3, <1>4 DEF DatesOK, RetentionHolds
  <1>6. ASSUME cleanup # None
        PROVE  cleanup.cutoff <= day /\ \A m \in messages' : m.day >= cleanup.cutoff \/ m \in cleanup.doomed
    <2>1. cleanup.cutoff <= day /\ cleanup.cutoff \in Nat
      BY <1>6, ConstantsAssumption DEF TypeOK, DatesOK
    <2>. QED
      BY <1>1, <1>3, <1>6, <2>1 DEF DatesOK
  <1>7. ASSUME NEW m \in messages', m.role = "ASSISTANT", m.conversation \in live'
        PROVE  m.day <= touched'[m.conversation]
    <2>1. Written(r, "USER").role = "USER" /\ Written(r, "ASSISTANT").conversation = target[r]
      BY DEF Written
    <2>2. \A n \in messages : n.day <= day
      BY DEF DatesOK
    <2>3. m \in messages /\ m.conversation \in live => m.day <= touched[m.conversation]
      BY <1>7 DEF DatesOK
    <2>. QED
      BY <1>1, <1>3, <1>4, <1>7, <2>1, <2>2, <2>3, StepTouches DEF TypeOK
  <1>. QED
    BY <1>1, <1>5, <1>6, <1>7 DEF DatesOK, RetentionHolds

-----------------------------------------------------------------------------
(***************************************************************************)
(* The invariant.                                                          *)
(***************************************************************************)

LEMMA InitInv == Init => IInv
  <1>. SUFFICES ASSUME Init PROVE IInv
    OBVIOUS
  <1>. USE ConstantsAssumption DEF Init
  <1>1. TypeOK
    <2>1. {r \in Requests : pc[r] \in InTransaction} = {}
      BY DEF InTransaction
    <2>2. Cardinality({r \in Requests : pc[r] \in InTransaction}) = 0
      BY <2>1, FS_EmptySet
    <2>. QED
      BY <2>2 DEF TypeOK, Labels, Keys
  <1>2. PlaceOK /\ ConversationsOK /\ MessagesOK
    BY DEF PlaceOK, ConversationsOK, MessagesOK, Unwritten, Working, InTransaction, InProgress
  <1>3. ContextOK /\ DatesOK /\ AnswersStayPrivate /\ DeletionSticks /\ RetentionHolds
    BY DEF ContextOK, DatesOK, AnswersStayPrivate, DeletionSticks, RetentionHolds
  <1>. QED
    BY <1>1, <1>2, <1>3 DEF IInv

\* The steps of requests.
LEMMA RequestInv ==
  ASSUME IInv, NEW r \in Requests, Step(r) \/ Failure(r)
  PROVE  IInv'
  BY TypeStep, PlaceStep, ConversationsStep, MessagesStep, OwnersStep, DatesStep, DeletionStep DEF IInv

\* Requests that end in a crash, and contexts that are forgotten.
LEMMA ForgetInv ==
  ASSUME IInv, Crash \/ \E k \in Keys : Expire(k)
  PROVE  IInv'
  <1>1. /\ UNCHANGED <<target, tables, doomed, latest, basis, script, day>>
        /\ pc' \in [Requests -> Labels] /\ context' \in [Keys -> Requests \cup {None}]
        /\ \A s \in Requests : pc'[s] = pc[s] \/ (pc'[s] = "gone" /\ pc[s] # "new")
        /\ \A k \in Keys : context'[k] \in {context[k], None}
        /\ faults' \in 0 .. MaxFaults
    BY ConstantsAssumption DEF IInv, TypeOK, Crash, Die, Expire, Fault, Labels, Over, memory, InProgress,
       InTransaction, Working
  <1>. USE <1>1 DEF IInv, tables, script
  <1>2. TypeOK'
    <2>1. Holders' \subseteq Holders
      BY DEF Holders, InTransaction
    <2>. QED
      BY <2>1, PoolShrinks DEF TypeOK, Holders
  <1>3. PlaceOK'
    BY DEF PlaceOK, InProgress, InTransaction, Working
  <1>4. ConversationsOK' /\ DeletionSticks'
    BY DEF ConversationsOK, DeletionSticks, TypeOK
  <1>5. MessagesOK'
    <2>1. /\ \A m \in messages : m.author \in Requests
          /\ \A s \in Requests : \A m \in doomed[s] : m.author \in Requests
      BY DEF TypeOK, Message
    <2>. QED
      BY <2>1 DEF MessagesOK, Unwritten, Over
  <1>6. ContextOK' /\ AnswersStayPrivate'
    BY DEF ContextOK, AnswersStayPrivate, Key, TypeOK
  <1>7. DatesOK' /\ RetentionHolds'
    BY DEF DatesOK, RetentionHolds
  <1>. QED
    BY <1>2, <1>3, <1>4, <1>5, <1>6, <1>7

\* Days and cleanups: the table of messages only loses rows.
LEMMA CleanupInv ==
  ASSUME IInv, NextDay \/ Cleanup
  PROVE  IInv'
  <1>1. /\ UNCHANGED <<pc, target, touched, doomed, memory>>
        /\ live' \subseteq live /\ messages' \subseteq messages /\ faults' \in 0 .. MaxFaults
    BY ConstantsAssumption DEF IInv, TypeOK, NextDay, Cleanup, CleanupMessages, CleanupConversations,
       CleanupFails, Fault, tables, script
  <1>. USE <1>1 DEF IInv, memory
  <1>2. PlaceOK' /\ ConversationsOK' /\ MessagesOK' /\ ContextOK' /\ AnswersStayPrivate' /\ DeletionSticks'
    BY DEF PlaceOK, ConversationsOK, MessagesOK, Unwritten, ContextOK, AnswersStayPrivate, DeletionSticks,
       InProgress, Key
  <1>3. \A m \in messages : m.day \in Nat /\ m.conversation \in Requests
    BY ConstantsAssumption DEF TypeOK, Message
  <1>4. /\ day \in 0 .. MaxDay /\ purged \in 0 .. MaxDay /\ Retention \in Nat /\ MaxDay \in Nat
        /\ \A c \in Requests : touched[c] \in Nat
        /\ cleanup # None => cleanup.cutoff \in 0 .. MaxDay /\ cleanup.doomed \subseteq Message
    BY ConstantsAssumption DEF TypeOK
  <1>5. CASE NextDay
    <2>1. /\ day' \in 0 .. MaxDay /\ day <= day' /\ UNCHANGED <<live, messages, cleanup, purged>>
      BY <1>4, <1>5 DEF NextDay, tables, script
    <2>2. TypeOK'
      BY <2>1 DEF TypeOK
    <2>3. DatesOK' /\ RetentionHolds'
      BY <1>3, <1>4, <2>1 DEF DatesOK, RetentionHolds
    <2>. QED
      BY <1>2, <2>2, <2>3
  <1>6. CASE CleanupMessages
    <2>1. /\ UNCHANGED <<live, messages, purged, day>>
          /\ cleanup' = [cutoff |-> day - Retention, doomed |-> {m \in messages : m.day < day - Retention}]
          /\ day - Retention \in 0 .. MaxDay
      BY <1>4, <1>6 DEF CleanupMessages, tables
    <2>2. cleanup' \in [cutoff : 0 .. MaxDay, doomed : SUBSET Message]
      BY <2>1 DEF TypeOK
    <2>3. TypeOK'
      BY <2>1, <2>2 DEF TypeOK
    <2>4. cleanup'.cutoff <= day /\ \A m \in messages : m.day >= cleanup'.cutoff \/ m \in cleanup'.doomed
      BY <1>3, <1>4, <2>1
    <2>5. DatesOK' /\ RetentionHolds'
      BY <2>1, <2>4 DEF DatesOK, RetentionHolds
    <2>. QED
      BY <1>2, <2>3, <2>5
  <1>7. CASE CleanupConversations
    <2>1. /\ cleanup # None /\ cleanup' = None /\ purged' = cleanup.cutoff /\ UNCHANGED day
          /\ messages' = messages \ cleanup.doomed
      BY <1>7 DEF CleanupConversations
    <2>2. TypeOK'
      BY <1>4, <2>1 DEF TypeOK
    <2>3. DatesOK' /\ RetentionHolds'
      BY <2>1 DEF DatesOK, RetentionHolds
    <2>. QED
      BY <1>2, <2>2, <2>3
  <1>8. CASE CleanupFails
    <2>1. cleanup' = None /\ UNCHANGED <<live, messages, purged, day>>
      BY <1>8 DEF CleanupFails, tables
    <2>2. TypeOK' /\ DatesOK' /\ RetentionHolds'
      BY <2>1 DEF TypeOK, DatesOK, RetentionHolds
    <2>. QED
      BY <1>2, <2>2
  <1>. QED
    BY <1>5, <1>6, <1>7, <1>8 DEF Cleanup

LEMMA StutterInv ==
  ASSUME IInv, UNCHANGED vars
  PROVE  IInv'
  BY DEF vars, tables, memory, script, IInv, TypeOK, PlaceOK, ConversationsOK, MessagesOK, Unwritten,
     ContextOK, DatesOK, AnswersStayPrivate, DeletionSticks, RetentionHolds, InProgress, Key

\* Every reachable state satisfies the inductive invariant.
THEOREM Invariant == Spec => []IInv
  <1>1. IInv /\ [Next]_vars => IInv'
    BY RequestInv, ForgetInv, CleanupInv, StutterInv DEF Next
  <1>. QED
    BY <1>1, InitInv, PTL DEF Spec

\* Every variable keeps its type, and the transactions of chat.ts never hold
\* more connections than the pool of the gateway has.
THEOREM TypeCorrect == Spec => []TypeOK
  <1>1. IInv => TypeOK
    BY DEF IInv
  <1>. QED
    BY <1>1, Invariant, PTL

\* Users never meet: chat.ts only opens conversations of the user who asks, and
\* the context store is written and read under the user's own key.
THEOREM PrivateAnswers == Spec => []AnswersStayPrivate
  <1>1. IInv => AnswersStayPrivate
    BY DEF IInv
  <1>. QED
    BY <1>1, Invariant, PTL

\* What DELETE /chat/conversations deleted does not come back, although answers
\* to its questions may be stored later.
THEOREM DeletionFinal == Spec => []DeletionSticks
  <1>1. IInv => DeletionSticks
    BY DEF IInv
  <1>. QED
    BY <1>1, Invariant, PTL

\* No message outlives a cleanup of cleanup_chat_history.ts that was due to it,
\* whatever is written between its two statements.
THEOREM RetentionKept == Spec => []RetentionHolds
  <1>1. IInv => RetentionHolds
    BY DEF IInv
  <1>. QED
    BY <1>1, Invariant, PTL

-----------------------------------------------------------------------------
(***************************************************************************)
(* Conversations that go.                                                  *)
(***************************************************************************)

\* A request takes a conversation away only where it deletes it.
LEMMA StepDrops ==
  ASSUME TypeOK, NEW r \in Requests, Step(r) \/ Failure(r), NEW c \in live \ live'
  PROVE  pc[r] = "drop" /\ target[r] = c
  <1>1. CASE Drop(r) \/ Insert(r) \/ Store(r) \/ Create(r)
    BY <1>1 DEF Drop, Dropped, Insert, Inserted, Store, Stored, Create, Created
  <1>2. CASE \/ OpenNamed(r) \/ OpenNew(r) \/ Clear(r) \/ Arrive(r) \/ Classify(r) \/ Lookup(r)
             \/ Search(r) \/ Cite(r) \/ Reply(r) \/ OpenDeletion(r) \/ Sweep(r)
    BY <1>2 DEF OpenNamed, OpenNew, Clear, Arrive, Classify, Lookup, Search, Cite, Reply, OpenDeletion,
       Sweep, tables
  <1>3. CASE StatementFails(r) \/ LlmFails(r)
    BY <1>3 DEF StatementFails, LlmFails, Throw, Die, tables
  <1>4. CASE CommitUnconfirmed(r)
    BY <1>4 DEF CommitUnconfirmed, Inserted, Stored, Dropped, Created
  <1>. QED
    BY <1>1, <1>2, <1>3, <1>4 DEF Step, Failure

\* What a cleanup takes away has no answers left.
LEMMA CleanupDrops ==
  ASSUME IInv, CleanupConversations, NEW c \in live \ live',
         NEW m \in messages', m.conversation = c
  PROVE  m.role = "USER"
  <1>1. cleanup # None /\ messages' = messages \ cleanup.doomed /\ ~(touched[c] >= cleanup.cutoff)
    BY DEF CleanupConversations
  <1>2. m \in messages /\ m.day >= cleanup.cutoff
    BY <1>1 DEF IInv, DatesOK
  <1>3. m.role = "ASSISTANT" => m.day <= touched[c]
    BY <1>2 DEF IInv, DatesOK
  <1>4. m.day \in Nat /\ touched[c] \in Nat /\ cleanup.cutoff \in Nat /\ m.role \in {"USER", "ASSISTANT"}
    BY <1>1, <1>2, ConstantsAssumption DEF IInv, TypeOK, Message
  <1>. QED
    BY <1>1, <1>2, <1>3, <1>4

\* A conversation goes only by DELETE /chat/conversations, or by a cleanup that
\* leaves no answer of it behind.
THEOREM AnswersKeepConversation == Spec => ConversationKeepsAnswers
  <1>. DEFINE Gone == \A c \in live \ live' :
                        \/ \E r \in Requests : pc[r] = "drop" /\ target[r] = c
                        \/ \A m \in messages' : m.conversation = c => m.role = "USER"
  <1>1. ASSUME IInv, [Next]_vars
        PROVE  Gone
    <2>1. CASE \E r \in Requests : Step(r) \/ Failure(r)
      BY <1>1, <2>1, StepDrops DEF IInv
    <2>2. CASE CleanupConversations
      BY <1>1, <2>2, CleanupDrops
    <2>3. CASE UNCHANGED vars \/ (\E k \in Keys : Expire(k)) \/ Crash \/ NextDay \/ CleanupMessages \/ CleanupFails
      BY <2>3 DEF vars, tables, Expire, Crash, Die, NextDay, CleanupMessages, CleanupFails
    <2>. QED
      BY <1>1, <2>1, <2>2, <2>3 DEF Next, Cleanup
  <1>2. IInv /\ [Next]_vars => [Gone]_vars
    BY <1>1
  <1>. QED
    BY <1>2, Invariant, PTL DEF Spec, ConversationKeepsAnswers
-----------------------------------------------------------------------------
(***************************************************************************)
(* Orderly use: no failures, and one request at a time under each key.     *)
(***************************************************************************)

Orderly == faults = 0 /\ ~Overlap

\* What fails is counted.
LEMMA NothingFails ==
  ASSUME faults = 0, faults' = 0, NEW kind
  PROVE  ~Fault(kind)
  BY DEF Fault

\* Nobody else is at work under the key of a request.
LEMMA KeysApart ==
  ASSUME ~Overlap, NEW r \in Requests, NEW s \in Requests, r # s,
         Kind[r] # "search", Kind[s] # "search", InProgress(r), InProgress(s)
  PROVE  Key(r) # Key(s)
  BY DEF Overlap

\* Nobody else of the same user is at work in its conversation.
LEMMA ConversationsApart ==
  ASSUME ~Overlap, NEW r \in Requests, NEW s \in Requests, r # s, User[r] = User[s],
         Kind[r] \in {"ask", "delete"}, Kind[s] \in {"ask", "delete"}, InProgress(r), InProgress(s)
  PROVE  target[r] # target[s]
  BY KeysApart DEF Key

\* A request keeps its key once it is begun.
LEMMA KeyKept ==
  ASSUME TypeOK, NEW r \in Requests, Step(r), NEW s \in Requests, pc[s] # "new"
  PROVE  Key(s)' = Key(s)
  BY TargetKept DEF Key

LEMMA PathStep ==
  ASSUME TypeOK, PlaceOK, PathOK, NEW r \in Requests, Step(r)
  PROVE  PathOK'
  <1>. USE ConstantsAssumption DEF TypeOK, Goto, Over, memory
  <1>1. CASE \/ OpenNamed(r) \/ OpenNew(r) \/ Insert(r) \/ Clear(r) \/ Arrive(r) \/ Create(r)
             \/ OpenDeletion(r) \/ Sweep(r) \/ Drop(r)
    BY <1>1 DEF PathOK, OpenNamed, OpenNew, Find, Insert, Clear, Arrive, Create, OpenDeletion, Sweep, Drop
  <1>2. CASE Classify(r)
    BY <1>2 DEF PathOK, Classify, PlaceOK, Working
  <1>3. CASE Lookup(r)
    BY <1>3 DEF PathOK, Lookup, PlaceOK, Working
  <1>4. CASE Search(r)
    BY <1>4 DEF PathOK, Search, PlaceOK, Working
  <1>5. CASE Cite(r) \/ Store(r) \/ Reply(r)
    BY <1>5 DEF PathOK, Cite, Store, Reply
  <1>. QED
    BY <1>1, <1>2, <1>3, <1>4, <1>5 DEF Step

\* Whoever is about to give an answer is in progress, under a key of its own.
LEMMA AnsweringFacts ==
  ASSUME TypeOK, PlaceOK, NEW r \in Requests, Answering(r)
  PROVE  InProgress(r) /\ Kind[r] \in {"ask", "answer"} /\ pc[r] \notin {"new", "cite", "remember"}
  BY DEF Answering, PlaceOK, InProgress, Working

\* Steps that keep no context and give no answer.
LEMMA LastQuiet ==
  ASSUME TypeOK, PlaceOK, PathOK, LastOK, ProvenanceIsLast, NEW r \in Requests, Step(r),
         UNCHANGED memory,
         \A s \in Requests : Answering(s)' <=> Answering(s),
         \A s \in Requests : pc'[s] = "reply" => pc[s] = "reply" \/ basis[s] = None
  PROVE  LastOK' /\ ProvenanceIsLast'
  <1>1. \A s \in Requests : Answering(s) \/ pc[s] = "reply" => Key(s)' = Key(s)
    BY KeyKept, AnsweringFacts
  <1>2. LastOK'
    BY <1>1 DEF LastOK, memory
  <1>3. ProvenanceIsLast'
    BY <1>1 DEF ProvenanceIsLast, memory
  <1>. QED
    BY <1>2, <1>3

LEMMA LastStep ==
  ASSUME IInv, UseInv, ~Overlap, NEW r \in Requests, Step(r)
  PROVE  LastOK' /\ ProvenanceIsLast'
  <1>. USE DEF Goto
  <1>0. TypeOK /\ PlaceOK /\ PathOK /\ LastOK /\ ProvenanceIsLast
    BY DEF IInv, UseInv
  <1>1. CASE \/ OpenNamed(r) \/ OpenNew(r) \/ Insert(r) \/ Arrive(r) \/ Create(r)
             \/ OpenDeletion(r) \/ Sweep(r) \/ Drop(r)
    <2>1. /\ UNCHANGED memory
          /\ \A s \in Requests : pc'[s] # pc[s] => s = r /\ pc[r] \in {"new", "insert", "sweep", "drop"}
                                                 /\ pc'[r] \notin {"store", "reply"}
      BY <1>0, <1>1 DEF TypeOK, OpenNamed, OpenNew, Find, Insert, Arrive, Create, OpenDeletion, Sweep, Drop
    <2>. QED
      BY <1>0, <2>1, LastQuiet DEF Answering
  <1>2. CASE Lookup(r) \/ Search(r)
    <2>1. /\ UNCHANGED memory
          /\ pc[r] \in {"lookup", "search"}
          /\ \A s \in Requests : pc'[s] # pc[s] => s = r
          /\ pc'[r] = "reply" => Kind[r] = "search"
          /\ pc'[r] # "store"
      BY <1>0, <1>2 DEF TypeOK, Lookup, Search, PlaceOK, Working
    <2>2. basis[r] = None
      BY <1>0, <2>1 DEF PathOK, Over
    <2>. QED
      BY <1>0, <2>1, <2>2, LastQuiet DEF Answering
  <1>3. ASSUME NEW key \in Keys, key = Key(r), InProgress(r), Kind[r] \in {"ask", "answer"}
        PROVE  \A s \in Requests \ {r} :
                 /\ Answering(s) => Key(s) # key
                 /\ pc[s] = "reply" /\ basis[s] # None => Key(s) # key
    BY <1>0, <1>3, KeysApart, AnsweringFacts DEF PathOK, InProgress, Working
  <1>4. \A s \in Requests : pc[s] # "new" => Key(s)' = Key(s)
    BY <1>0, KeyKept
  <1>5. Key(r) \in Keys
    BY <1>0, KeyType
  <1>6. CASE Clear(r)
    <2>1. /\ UNCHANGED <<latest, basis>>
          /\ \A k \in Keys : context'[k] \in {context[k], None}
          /\ pc[r] = "clear" /\ pc' = [pc EXCEPT ![r] = "classify"]
      BY <1>0, <1>6 DEF TypeOK, Clear
    <2>2. \A s \in Requests : /\ Answering(s)' <=> Answering(s)
                              /\ pc'[s] = "reply" <=> pc[s] = "reply"
      BY <1>0, <2>1 DEF TypeOK, Answering
    <2>3. \A s \in Requests : Answering(s) => Key(s) \in Keys /\ Key(s)' = Key(s)
      BY <1>0, <1>4, AnsweringFacts, KeyType
    <2>4. LastOK'
      BY <1>0, <2>1, <2>2, <2>3 DEF LastOK
    <2>5. ProvenanceIsLast'
      BY <1>0, <1>4, <2>1, <2>2 DEF ProvenanceIsLast
    <2>. QED
      BY <2>4, <2>5
  <1>7. CASE Classify(r)
    <2>1. /\ UNCHANGED <<context, latest>>
          /\ pc[r] = "classify"
          /\ \A s \in Requests \ {r} : pc'[s] = pc[s] /\ basis'[s] = basis[s]
          /\ pc'[r] # "store"
          /\ pc'[r] = "reply" => Strategy[r] = "bypass"
          /\ basis'[r] = basis[r] \/ (Kind[r] # "search" /\ basis'[r] = context[Key(r)])
      <3>1. CASE Strategy[r] = "bypass"
        BY <1>0, <1>7, <3>1 DEF TypeOK, Classify
      <3>2. CASE Strategy[r] # "bypass"
        BY <1>0, <1>7, <3>2 DEF TypeOK, Classify
      <3>. QED
        BY <3>1, <3>2
    <2>2. \A s \in Requests : Answering(s)' <=> Answering(s)
      BY <1>0, <2>1 DEF Answering
    <2>3. LastOK'
      BY <1>0, <1>4, <2>1, <2>2, AnsweringFacts DEF LastOK
    <2>4. basis[r] = None
      BY <1>0, <2>1 DEF PathOK, Over
    <2>5. basis'[r] # None => basis'[r] = latest[Key(r)]
      <3>1. SUFFICES ASSUME basis'[r] # None PROVE basis'[r] = latest[Key(r)]
        OBVIOUS
      <3>2. InProgress(r) /\ Kind[r] \in {"ask", "answer"} /\ basis'[r] = context[Key(r)]
        BY <1>0, <2>1, <2>4, <3>1 DEF PlaceOK, InProgress, Working
      <3>3. \A s \in Requests : Answering(s) => Key(s) # Key(r)
        BY <1>3, <1>5, <2>1, <3>2 DEF Answering
      <3>. QED
        BY <1>0, <1>5, <3>1, <3>2, <3>3 DEF LastOK
    <2>6. ProvenanceIsLast'
      BY <1>0, <1>4, <2>1, <2>5 DEF ProvenanceIsLast
    <2>. QED
      BY <2>3, <2>6
  <1>8. CASE Cite(r)
    <2>1. /\ pc[r] \in {"cite", "remember"} /\ Kind[r] \in {"ask", "answer"} /\ Strategy[r] # "bypass"
          /\ basis[r] = None
          /\ UNCHANGED <<latest, basis>>
          /\ context' = [context EXCEPT ![Key(r)] = r]
          /\ pc' = [pc EXCEPT ![r] = IF Kind[r] = "ask" THEN "store" ELSE "reply"]
      BY <1>0, <1>8 DEF Cite, PathOK, Over
    <2>2. /\ \A s \in Requests \ {r} : /\ Answering(s)' <=> Answering(s)
                                       /\ pc'[s] = pc[s]
          /\ Answering(r)'
      BY <1>0, <2>1 DEF TypeOK, Answering
    <2>3. InProgress(r)
      BY <2>1 DEF InProgress, Working
    <2>4. \A s \in Requests \ {r} : Answering(s) => Key(s) # Key(r) /\ Key(s)' = Key(s) /\ Key(s) \in Keys
      BY <1>0, <1>3, <1>4, <1>5, <2>1, <2>3, AnsweringFacts, KeyType
    <2>5. Key(r)' = Key(r)
      BY <1>4, <2>1
    <2>6. /\ context'[Key(r)] = r
          /\ \A k \in Keys \ {Key(r)} : context'[k] = context[k]
      BY <1>0, <1>5, <2>1 DEF TypeOK
    <2>7. ASSUME NEW k \in Keys, context'[k] # None
          PROVE  context'[k] = latest'[k] \/ \E s \in Requests : Answering(s)' /\ Key(s)' = k
      <3>1. CASE k = Key(r)
        BY <2>2, <2>5, <3>1
      <3>2. CASE k # Key(r)
        <4>1. context[k] = latest[k] \/ \E s \in Requests : Answering(s) /\ Key(s) = k
          BY <1>0, <2>6, <2>7, <3>2 DEF LastOK
        <4>2. \A s \in Requests : Answering(s) => s # r
          BY <2>1 DEF Answering
        <4>. QED
          BY <2>1, <2>2, <2>4, <2>6, <3>2, <4>1, <4>2
      <3>. QED
        BY <3>1, <3>2
    <2>8. ASSUME NEW s \in Requests, Answering(s)'
          PROVE  context'[Key(s)'] \in {None, s}
      <3>1. CASE s = r
        BY <2>5, <2>6, <3>1
      <3>2. CASE s # r
        BY <1>0, <2>2, <2>4, <2>6, <2>8, <3>2 DEF LastOK
      <3>. QED
        BY <3>1, <3>2
    <2>9. LastOK'
      <3>1. \A s \in Requests : context'[Key(s)'] = context[Key(s)]'
        OBVIOUS
      <3>. QED
        BY <2>7, <2>8, <3>1 DEF LastOK
    <2>10. ProvenanceIsLast'
      BY <1>0, <1>4, <2>1, <2>2 DEF ProvenanceIsLast
    <2>. QED
      BY <2>9, <2>10
  \* An answer becomes the last one under its key.
  <1>9. ASSUME Answering(r), InProgress(r), Kind[r] \in {"ask", "answer"}, Strategy[r] # "bypass",
               UNCHANGED <<context, basis>>, latest' = [latest EXCEPT ![Key(r)] = r],
               \A s \in Requests \ {r} : pc'[s] = pc[s], ~Answering(r)'
        PROVE  LastOK' /\ ProvenanceIsLast'
    <2>1. \A s \in Requests \ {r} : /\ Answering(s)' <=> Answering(s)
                                    /\ Answering(s) \/ pc[s] = "reply" => Key(s)' = Key(s)
                                    /\ Answering(s) => Key(s) # Key(r)
                                    /\ Key(s) \in Keys
      BY <1>0, <1>3, <1>4, <1>5, <1>9, AnsweringFacts, KeyType DEF Answering
    <2>2. /\ latest'[Key(r)] = r
          /\ \A k \in Keys \ {Key(r)} : latest'[k] = latest[k]
      BY <1>0, <1>5, <1>9 DEF TypeOK
    <2>3. ASSUME NEW k \in Keys, context[k] # None
          PROVE  context[k] = latest'[k] \/ \E s \in Requests : Answering(s)' /\ Key(s)' = k
      <3>1. CASE k = Key(r)
        BY <1>0, <1>9, <2>2, <2>3, <3>1 DEF LastOK
      <3>2. CASE k # Key(r)
        <4>1. context[k] = latest[k] \/ \E s \in Requests \ {r} : Answering(s) /\ Key(s) = k
          BY <1>0, <2>3, <3>2 DEF LastOK
        <4>. QED
          BY <2>1, <2>2, <3>2, <4>1
      <3>. QED
        BY <3>1, <3>2
    <2>4. \A s \in Requests : Answering(s)' => context[Key(s)'] \in {None, s}
      BY <1>0, <1>9, <2>1 DEF LastOK
    <2>5. LastOK'
      BY <1>9, <2>3, <2>4 DEF LastOK
    <2>6. ASSUME NEW s \in Requests, pc'[s] = "reply", basis[s] # None
          PROVE  basis[s] = latest'[Key(s)']
      <3>1. s # r
        BY <1>0, <1>9, <2>6 DEF PathOK
      <3>2. pc[s] = "reply" /\ Key(s) # Key(r)
        BY <1>3, <1>5, <1>9, <2>6, <3>1
      <3>. QED
        BY <1>0, <2>1, <2>2, <2>6, <3>1, <3>2 DEF ProvenanceIsLast
    <2>7. ProvenanceIsLast'
      BY <1>9, <2>6 DEF ProvenanceIsLast
    <2>. QED
      BY <2>5, <2>7
  <1>10. CASE Store(r)
    <2>1. /\ Answering(r) /\ UNCHANGED <<context, basis>> /\ latest' = [latest EXCEPT ![Key(r)] = r]
          /\ pc' = [pc EXCEPT ![r] = "reply"]
      BY <1>10 DEF Store, Stored, Answering
    <2>2. Kind[r] = "ask" /\ Strategy[r] # "bypass"
      BY <1>0, <1>10 DEF Store, PlaceOK, PathOK
    <2>3. (\A s \in Requests \ {r} : pc'[s] = pc[s]) /\ pc'[r] = "reply"
      BY <1>0, <2>1 DEF TypeOK
    <2>4. ~Answering(r)'
      BY <2>2, <2>3 DEF Answering
    <2>. QED
      BY <1>0, <1>9, <2>1, <2>2, <2>3, <2>4, AnsweringFacts
  <1>11. CASE Reply(r)
    <2>1. /\ UNCHANGED <<context, basis>> /\ pc[r] = "reply"
          /\ (\A s \in Requests \ {r} : pc'[s] = pc[s]) /\ pc'[r] = "done"
      BY <1>0, <1>11 DEF TypeOK, Reply
    <2>2. CASE Kind[r] = "answer" /\ Strategy[r] # "bypass"
      <3>1. Answering(r) /\ ~Answering(r)' /\ latest' = [latest EXCEPT ![Key(r)] = r]
        BY <1>11, <2>1, <2>2 DEF Reply, Answering
      <3>. QED
        BY <1>0, <1>9, <2>1, <2>2, <3>1, AnsweringFacts
    <2>3. CASE ~(Kind[r] = "answer" /\ Strategy[r] # "bypass")
      <3>1. UNCHANGED memory
        BY <1>11, <2>3 DEF Reply, memory
      <3>2. \A s \in Requests : /\ Answering(s)' <=> Answering(s)
                                /\ pc'[s] = "reply" => pc[s] = "reply"
        BY <2>1, <2>3 DEF Answering
      <3>. QED
        BY <1>0, <3>1, <3>2, LastQuiet
    <2>. QED
      BY <2>2, <2>3
  <1>. QED
    BY <1>1, <1>2, <1>6, <1>7, <1>8, <1>10, <1>11 DEF Step

\* A request that is over does not go on.
LEMMA Finished ==
  ASSUME TypeOK, PlaceOK, NEW r \in Requests, Step(r), NEW s \in Requests, InProgress(s)'
  PROVE  pc[s] \notin Over
  BY DEF TypeOK, Step, OpenNamed, OpenNew, OpenDeletion, Find, Insert, Clear, Arrive,
     Classify, Lookup, Search, Cite, Store, Reply, Create, Sweep, Drop, Goto, Over, InProgress,
     InTransaction, Working

\* Who is at work in a conversation after a step was so before, or has begun.
LEMMA WorkBegins ==
  ASSUME IInv, NEW r \in Requests, Step(r), NEW s \in Requests, Kind[s] = "ask", InProgress(s)'
  PROVE  \/ InProgress(s) /\ target'[s] = target[s]
         \/ s = r /\ pc[s] = "new" /\ (target'[s] = s \/ target'[s] \in live) /\ UNCHANGED tables
  <1>0. TypeOK /\ PlaceOK
    BY DEF IInv
  <1>1. CASE pc[s] # "new"
    <2>1. target'[s] = target[s]
      BY <1>0, <1>1, TargetKept
    <2>2. pc[s] \notin Over
      BY <1>0, Finished
    <2>. QED
      BY <1>0, <1>1, <2>1, <2>2 DEF TypeOK, Labels, InProgress
  <1>2. CASE pc[s] = "new"
    <2>1. s = r
      BY <1>0, <1>2, Forward DEF InProgress, InTransaction, Working
    <2>2. OpenNamed(r) \/ OpenNew(r)
      BY <1>0, <1>2, <2>1 DEF Step, Insert, Clear, Arrive, Classify, Lookup, Search, Cite, Store, Reply,
         Create, OpenDeletion, Sweep, Drop
    <2>. QED
      BY <1>0, <1>2, <2>1, <2>2 DEF TypeOK, OpenNamed, OpenNew, Find, Owned, Goto, InProgress, InTransaction,
         Working
  <1>. QED
    BY <1>1, <1>2

LEMMA DeletedStep ==
  ASSUME IInv, UseInv, ~Overlap, NEW r \in Requests, Step(r)
  PROVE  DeletedOK' /\ DeletionIsComplete'
  <1>0. TypeOK /\ PlaceOK /\ ConversationsOK /\ DeletionSticks /\ DeletedOK /\ DeletionIsComplete
    BY DEF IInv, UseInv
  <1>. SUFFICES ASSUME NEW d \in Requests, Kind[d] = "delete"
                PROVE  /\ pc'[d] = "drop" =>
                            \A m \in messages' : m.conversation = target'[d] => m \in doomed'[d]
                       /\ pc'[d] = "done" =>
                            /\ \A s \in Requests :
                                 Kind[s] = "ask" /\ InProgress(s)' => target'[s] # target'[d]
                            /\ \A m \in messages' : m.conversation # target'[d]
    BY DEF DeletedOK, DeletionIsComplete
  \* Whoever writes a message is at work in its conversation.
  <1>1. ASSUME NEW m \in messages', m \notin messages
        PROVE  /\ m.conversation = target[r] /\ Kind[r] = "ask" /\ InProgress(r)
               /\ User[target[r]] = User[r] /\ doomed' = doomed
    <2>1. pc[r] \in {"insert", "store"} /\ m.conversation = target[r] /\ doomed' = doomed
      BY <1>0, <1>1, StepWrites DEF Written
    <2>. QED
      BY <1>0, <2>1 DEF PlaceOK, InProgress, InTransaction, Working
  <1>2. pc[d] # "new" => target'[d] = target[d]
    BY <1>0, TargetKept
  <1>3. CASE pc'[d] \notin {"drop", "done"}
    BY <1>3
  <1>4. CASE d # r /\ pc'[d] \in {"drop", "done"}
    <2>1. pc'[d] = pc[d] /\ target'[d] = target[d]
      BY <1>0, <1>2, <1>4, Forward
    <2>2. User[target[d]] = User[d] /\ target[d] \in Requests
      BY <1>0, <1>4, <2>1 DEF ConversationsOK
    <2>3. ASSUME pc[d] = "drop", NEW m \in messages', m.conversation = target[d]
          PROVE  m \in doomed'[d]
      <3>1. m \in messages
        <4>1. SUFFICES ASSUME m \notin messages PROVE FALSE
          OBVIOUS
        <4>2. InProgress(d)
          BY <2>3 DEF InProgress, InTransaction
        <4>. QED
          BY <1>1, <1>4, <2>2, <2>3, <4>1, <4>2, ConversationsApart
      <3>2. m \in doomed[d]
        BY <1>0, <2>3, <3>1 DEF DeletedOK
      <3>. QED
        BY <1>0, <1>4, <3>2, StepWrites DEF TypeOK
    <2>4. ASSUME pc[d] = "done"
          PROVE  /\ \A s \in Requests : Kind[s] = "ask" /\ InProgress(s)' => target'[s] # target[d]
                 /\ \A m \in messages' : m.conversation # target[d]
      <3>1. target[d] \notin live /\ pc[target[d]] # "new"
        BY <1>0, <2>4 DEF DeletionSticks, ConversationsOK
      <3>2. \A s \in Requests : Kind[s] = "ask" /\ InProgress(s) => target[s] # target[d]
        BY <1>0, <2>4 DEF DeletedOK
      <3>3. \A s \in Requests : Kind[s] = "ask" /\ InProgress(s)' => target'[s] # target[d]
        BY <3>1, <3>2, WorkBegins
      <3>4. \A m \in messages' : m.conversation # target[d]
        BY <1>0, <1>1, <2>4, <3>2 DEF DeletionIsComplete
      <3>. QED
        BY <3>3, <3>4
    <2>. QED
      BY <2>1, <2>2, <2>3, <2>4
  <1>5. CASE d = r /\ pc'[d] \in {"drop", "done"}
    <2>2. CASE pc[r] = "sweep" /\ pc'[r] = "drop"
      <3>1. doomed'[r] = {m \in messages : m.conversation = target[r]}
        BY <1>0, <2>2, SweepSees
      <3>2. messages' \subseteq messages
        BY <1>0, <2>2, StepWrites
      <3>. QED
        BY <1>2, <1>5, <2>2, <3>1, <3>2
    <2>3. CASE /\ pc[r] = "drop" /\ pc'[r] = "done"
               /\ target[r] \notin live' /\ messages' = messages \ doomed[r] /\ UNCHANGED doomed
      <3>1. User[target[r]] = User[r] /\ InProgress(r)
        BY <1>0, <1>5, <2>3 DEF ConversationsOK, InProgress, InTransaction
      <3>2. \A m \in messages' : m.conversation # target[r]
        BY <1>0, <1>5, <2>3 DEF DeletedOK
      <3>3. ASSUME NEW s \in Requests, Kind[s] = "ask", InProgress(s)'
            PROVE  target'[s] # target[r]
        <4>1. s # r
          BY <1>5, <3>3
        <4>2. InProgress(s) /\ target'[s] = target[s]
          BY <2>3, <3>3, <4>1, WorkBegins
        <4>3. User[target[s]] = User[s]
          BY <1>0, <3>3, <4>2 DEF PlaceOK
        <4>. QED
          BY <1>5, <3>1, <3>3, <4>1, <4>2, <4>3, ConversationsApart
      <3>. QED
        BY <1>2, <1>5, <2>3, <3>1, <3>2, <3>3
    <2>. QED
      BY <1>0, <1>5, <2>2, <2>3, DeletionMoves
  <1>. QED
    BY <1>3, <1>4, <1>5

\* What no request does: contexts that expire, days that pass, cleanups.
LEMMA UseQuiet ==
  ASSUME IInv, UseInv, UNCHANGED <<pc, target, doomed, latest, basis>>, messages' \subseteq messages,
         \A k \in Keys : context'[k] \in {context[k], None}
  PROVE  UseInv'
  <1>1. \A s \in Requests : /\ Key(s) \in Keys /\ Key(s)' = Key(s)
                            /\ Answering(s)' <=> Answering(s)
                            /\ InProgress(s)' <=> InProgress(s)
    BY KeyType DEF IInv, Key, Answering, InProgress
  <1>2. PathOK'
    BY DEF UseInv, PathOK
  <1>3. LastOK'
    BY <1>1 DEF UseInv, LastOK
  <1>4. DeletedOK' /\ DeletionIsComplete'
    BY <1>1 DEF UseInv, DeletedOK, DeletionIsComplete
  <1>5. ProvenanceIsLast'
    BY <1>1 DEF UseInv, ProvenanceIsLast
  <1>. QED
    BY <1>2, <1>3, <1>4, <1>5 DEF UseInv

LEMMA UseStep ==
  ASSUME IInv, UseInv, Orderly, Orderly', [Next]_vars
  PROVE  UseInv'
  <1>1. CASE \E r \in Requests : Step(r)
    BY <1>1, PathStep, LastStep, DeletedStep DEF IInv, UseInv, Orderly
  <1>2. ~(\E r \in Requests : Failure(r)) /\ ~Crash /\ ~CleanupFails
    BY NothingFails DEF Orderly, Failure, StatementFails, LlmFails, CommitUnconfirmed, Crash, CleanupFails
  <1>3. CASE \E k \in Keys : Expire(k)
    BY <1>3, UseQuiet DEF Expire, tables, IInv, TypeOK
  <1>4. CASE NextDay \/ CleanupMessages \/ CleanupConversations \/ UNCHANGED vars
    BY <1>4, UseQuiet DEF NextDay, CleanupMessages, CleanupConversations, vars, tables, memory
  <1>. QED
    BY <1>1, <1>2, <1>3, <1>4 DEF Next, Cleanup

\* When nothing fails and nobody uses one conversation twice at a time, a
\* provenance question is told about the last answer, and a deletion leaves no
\* message, whatever happens under other keys: both read what is committed under
\* the one key (answerContextStore.ts, chat.ts).
THEOREM UseStaysOrderly == Spec => OrderlyUse
  <1>1. Init => UseInv
    BY DEF Init, UseInv, PathOK, LastOK, DeletedOK, ProvenanceIsLast, DeletionIsComplete, Answering,
       Over, InProgress, InTransaction, Working
  <1>2. IInv /\ UseInv /\ Orderly /\ Orderly' /\ [Next]_vars => UseInv'
    BY UseStep
  <1>3. UseInv => ProvenanceIsLast /\ DeletionIsComplete
    BY DEF UseInv
  <1>4. Orderly <=> faults = 0 /\ ~Overlap
    BY DEF Orderly
  <1>. QED
    BY <1>1, <1>2, <1>3, <1>4, Invariant, PTL DEF Spec, OrderlyUse

-----------------------------------------------------------------------------
(***************************************************************************)
(* Assistant implements ChatLog.                                           *)
(***************************************************************************)

\* A request is at work nowhere if it has no conversation or is over.
LEMMA PlaceFacts ==
  ASSUME TypeOK, PlaceOK, NEW r \in Requests
  PROVE  /\ Place \in [Requests -> Requests \cup {None}]
         /\ pc[r] \in {"insert", "clear", "store"} => Kind[r] = "ask" /\ Place[r] = target[r]
         /\ pc[r] \in {"sweep", "drop"} => Kind[r] = "delete" /\ Place[r] = target[r]
         /\ pc[r] \in {"new", "reply"} \cup Over => Place[r] = None
         /\ r \in Fresh <=> pc[r] \in {"new", "insert", "sweep", "drop"}
  BY DEF TypeOK, PlaceOK, Place, Fresh, InProgress, InTransaction, Working, Over

\* What a step of r does not touch.
LEMMA OthersStay ==
  ASSUME TypeOK, NEW r \in Requests,
         \A s \in Requests \ {r} : pc'[s] = pc[s] /\ (pc[s] # "new" => target'[s] = target[s])
  PROVE  /\ \A s \in Requests \ {r} : Place'[s] = Place[s]
         /\ Place' = [Place EXCEPT ![r] = Place'[r]]
         /\ r \in Fresh' => Fresh' = Fresh \cup {r}
         /\ r \notin Fresh' => Fresh' = Fresh \ {r}
  <1>1. ASSUME NEW s \in Requests \ {r}
        PROVE  Place'[s] = Place[s] /\ (s \in Fresh' <=> s \in Fresh)
    BY <1>1 DEF Place, Fresh, InProgress, InTransaction, Working
  <1>2. Place' = [Place EXCEPT ![r] = Place'[r]]
    BY <1>1 DEF Place
  <1>3. Fresh \subseteq Requests /\ Fresh' \subseteq Requests
    BY DEF Fresh
  <1>. QED
    BY <1>1, <1>2, <1>3

\* A step moves one request, unless the process ends.
LEMMA OneMoves ==
  ASSUME TypeOK, PlaceOK, NEW r \in Requests, Step(r) \/ Failure(r), ~Die
  PROVE  \A s \in Requests \ {r} : pc'[s] = pc[s] /\ (pc[s] # "new" => target'[s] = target[s])
  BY StepMoves, TargetKept DEF TypeOK

\* Requests that begin.
LEMMA BeginEnters ==
  ASSUME TypeOK, PlaceOK, NEW r \in Requests, OpenNamed(r) \/ OpenNew(r) \/ OpenDeletion(r), ~Die
  PROVE  Chat!Next
  <1>1. pc[r] = "new" /\ Kind[r] \in {"ask", "delete"} /\ UNCHANGED <<live, messages>>
    BY DEF OpenNamed, OpenNew, OpenDeletion, tables
  <1>2. Place[r] = None /\ r \in Fresh
    BY <1>1, PlaceFacts
  <1>3. \A s \in Requests \ {r} : pc'[s] = pc[s] /\ (pc[s] # "new" => target'[s] = target[s])
    BY OneMoves DEF Step
  <1>4. CASE pc'[r] = "refused"
    <2>1. r \notin Fresh' /\ Place'[r] = None
      BY <1>4 DEF Fresh, Place, InProgress, InTransaction, Working
    <2>2. Fresh' \subseteq Fresh /\ DOMAIN Place' = Requests /\ \A s \in Requests : Place'[s] \in {Place[s], None}
      BY <1>3, <2>1, OthersStay DEF Place
    <2>. QED
      BY <1>1, <2>2 DEF Chat!Next, Chat!Leave
  <1>5. CASE pc'[r] # "refused"
    <2>1. /\ pc'[r] \in {"insert", "sweep"}
          /\ target'[r] \in Requests
          /\ \/ target'[r] \in live /\ target'[r] # r /\ User[target'[r]] = User[r]
             \/ target'[r] = r /\ Kind[r] = "ask"
      BY <1>5 DEF TypeOK, OpenNamed, OpenNew, OpenDeletion, Find, Owned, Goto, Conversations
    <2>2. r \in Fresh' /\ Place'[r] = target'[r]
      BY <1>1, <2>1 DEF Fresh, Place, InProgress, InTransaction
    <2>3. Fresh' = Fresh /\ Place' = [Place EXCEPT ![r] = target'[r]]
      BY <1>2, <1>3, <2>2, OthersStay
    <2>4. Chat!Enter(r)
      BY <1>1, <1>2, <2>1, <2>3 DEF Chat!Enter
    <2>. QED
      BY <2>4 DEF Chat!Next
  <1>. QED
    BY <1>4, <1>5

\* The four writes, also those whose COMMIT is not confirmed.
LEMMA InsertAsks ==
  ASSUME TypeOK, PlaceOK, NEW r \in Requests, Insert(r) \/ CommitUnconfirmed(r), pc[r] = "insert", ~Die
  PROVE  Chat!Ask(r)
  <1>1. Inserted(r) /\ pc'[r] \in {"clear", "failed"} /\ target' = target
    BY DEF TypeOK, Insert, CommitUnconfirmed, Goto
  <1>2. Kind[r] = "ask" /\ Place[r] = target[r] /\ target[r] \in Requests /\ r \in Fresh
    BY PlaceFacts DEF PlaceOK, InProgress, InTransaction
  <1>3. \A s \in Requests \ {r} : pc'[s] = pc[s] /\ (pc[s] # "new" => target'[s] = target[s])
    BY OneMoves DEF Step, Failure
  <1>4. r \notin Fresh' /\ Place'[r] \in {Place[r], None}
    BY <1>1, <1>2 DEF Fresh, Place, InTransaction
  <1>5. Fresh' = Fresh \ {r} /\ (Place' = Place \/ Place' = [Place EXCEPT ![r] = None])
    BY <1>3, <1>4, OthersStay, PlaceFacts
  <1>6. day \in 0 .. MaxDay /\ target[r] # None
    BY <1>2, ConstantsAssumption DEF TypeOK
  <1>7. live' = IF Place[r] = r THEN live \cup {r} ELSE live
    BY <1>1, <1>2 DEF Inserted
  <1>8. Chat!Say(r, "USER")
    BY <1>1, <1>2, <1>6 DEF Inserted, Written, Chat!Say
  <1>. QED
    BY <1>2, <1>5, <1>6, <1>7, <1>8 DEF Chat!Ask

LEMMA StoreAnswers ==
  ASSUME TypeOK, PlaceOK, NEW r \in Requests, Store(r) \/ CommitUnconfirmed(r), pc[r] = "store", ~Die
  PROVE  Chat!Answer(r)
  <1>1. Stored(r) /\ pc'[r] \in {"reply", "failed"}
    BY DEF TypeOK, Store, CommitUnconfirmed, Goto
  <1>2. Kind[r] = "ask" /\ Place[r] = target[r] /\ target[r] \in Requests /\ r \notin Fresh
    BY PlaceFacts DEF PlaceOK, InProgress, Working
  <1>3. \A s \in Requests \ {r} : pc'[s] = pc[s] /\ (pc[s] # "new" => target'[s] = target[s])
    BY OneMoves DEF Step, Failure
  <1>4. r \notin Fresh' /\ Place'[r] = None
    BY <1>1 DEF Fresh, Place, InProgress, InTransaction, Working
  <1>5. Fresh' = Fresh /\ Place' = [Place EXCEPT ![r] = None]
    BY <1>2, <1>3, <1>4, OthersStay
  <1>6. day \in 0 .. MaxDay /\ target[r] # None
    BY <1>2, ConstantsAssumption DEF TypeOK
  <1>7. Chat!Say(r, "ASSISTANT") /\ live' = live
    BY <1>1, <1>2, <1>6 DEF Stored, Written, Chat!Say
  <1>. QED
    BY <1>2, <1>5, <1>6, <1>7 DEF Chat!Answer

LEMMA CreateCreates ==
  ASSUME TypeOK, PlaceOK, NEW r \in Requests, Create(r) \/ CommitUnconfirmed(r), pc[r] = "new", ~Die
  PROVE  Chat!Create(r)
  <1>1. Created(r) /\ pc'[r] \in {"done", "failed"} /\ messages' = messages /\ Kind[r] = "create"
    BY DEF TypeOK, Create, CommitUnconfirmed, Goto
  <1>2. Place[r] = None /\ r \in Fresh
    BY PlaceFacts
  <1>3. \A s \in Requests \ {r} : pc'[s] = pc[s] /\ (pc[s] # "new" => target'[s] = target[s])
    BY OneMoves DEF Step, Failure
  <1>4. r \notin Fresh' /\ Place'[r] = None
    BY <1>1 DEF Fresh, Place, InProgress, InTransaction, Working
  <1>5. Fresh' = Fresh \ {r} /\ Place' = Place
    BY <1>2, <1>3, <1>4, OthersStay, PlaceFacts
  <1>. QED
    BY <1>1, <1>2, <1>5 DEF Chat!Create, Created

LEMMA DropDeletes ==
  ASSUME TypeOK, PlaceOK, ConversationsOK, NEW r \in Requests, Drop(r) \/ CommitUnconfirmed(r),
         pc[r] = "drop", ~Die
  PROVE  Chat!Delete(r)
  <1>1. Dropped(r) /\ pc'[r] \in {"done", "failed"}
    BY DEF TypeOK, Drop, CommitUnconfirmed, Goto
  <1>2. Kind[r] = "delete" /\ Place[r] = target[r] /\ r \in Fresh
    BY PlaceFacts
  <1>3. target[r] \in Requests /\ \A m \in doomed[r] : m.conversation = target[r]
    BY <1>2 DEF ConversationsOK
  <1>4. \A s \in Requests \ {r} : pc'[s] = pc[s] /\ (pc[s] # "new" => target'[s] = target[s])
    BY OneMoves DEF Step, Failure
  <1>5. r \notin Fresh' /\ Place'[r] = None
    BY <1>1 DEF Fresh, Place, InProgress, InTransaction, Working
  <1>6. Fresh' = Fresh \ {r} /\ Place' = [Place EXCEPT ![r] = None]
    BY <1>4, <1>5, OthersStay
  <1>7. target[r] # None
    BY <1>3, ConstantsAssumption
  <1>. QED
    BY <1>1, <1>2, <1>3, <1>6, <1>7 DEF Chat!Delete, Dropped

\* Everything else a request does writes nothing.
LEMMA QuietLeaves ==
  ASSUME TypeOK, PlaceOK, UNCHANGED <<live, messages>>,
         \A s \in Requests : pc[s] # "new" => target'[s] = target[s],
         \A s \in Requests :
           \/ pc'[s] = pc[s] \/ pc'[s] \in Over
           \/ pc'[s] \in Working /\ Kind[s] \notin {"ask", "delete"}
           \/ pc'[s] \in Working /\ InProgress(s) /\ pc[s] # "reply"
           \/ pc[s] = "sweep" /\ pc'[s] = "drop"
  PROVE  Chat!Leave
  <1>1. ASSUME NEW s \in Requests
        PROVE  (s \in Fresh' => s \in Fresh) /\ Place'[s] \in {Place[s], None}
    BY <1>1 DEF Fresh, Place, InProgress, InTransaction, Working, Over
  <1>2. Fresh' \subseteq Fresh
    BY <1>1 DEF Fresh
  <1>3. DOMAIN Place' = Requests
    BY DEF Place
  <1>. QED
    BY <1>1, <1>2, <1>3 DEF Chat!Leave

\* When the process ends every request in progress does.
LEMMA DieLeaves ==
  ASSUME TypeOK, PlaceOK, Die
  PROVE  Chat!Leave
  <1>1. UNCHANGED <<live, messages, target>>
    BY DEF Die, tables
  <1>2. \A s \in Requests : pc'[s] = pc[s] \/ pc'[s] \in Over
    BY DEF Die, Over
  <1>. QED
    BY <1>1, <1>2, QuietLeaves

LEMMA StepImplements ==
  ASSUME IInv, NEW r \in Requests, Step(r) \/ Failure(r)
  PROVE  Chat!Next
  <1>0. TypeOK /\ PlaceOK /\ ConversationsOK
    BY DEF IInv
  <1>1. CASE Die
    BY <1>0, <1>1, DieLeaves DEF Chat!Next
  <1>2. CASE ~Die /\ (OpenNamed(r) \/ OpenNew(r) \/ OpenDeletion(r))
    BY <1>0, <1>2, BeginEnters
  <1>3. CASE ~Die /\ (Insert(r) \/ Store(r) \/ Create(r) \/ Drop(r) \/ CommitUnconfirmed(r))
    <2>1. pc[r] \in {"insert", "store", "new", "drop"}
      BY <1>3 DEF Insert, Store, Create, Drop, CommitUnconfirmed
    <2>2. Chat!Ask(r) \/ Chat!Answer(r) \/ Chat!Create(r) \/ Chat!Delete(r)
      <3>1. CASE pc[r] = "insert"
        BY <1>0, <1>3, <3>1, InsertAsks DEF Store, Create, Drop
      <3>2. CASE pc[r] = "store"
        BY <1>0, <1>3, <3>2, StoreAnswers DEF Insert, Create, Drop
      <3>3. CASE pc[r] = "new"
        BY <1>0, <1>3, <3>3, CreateCreates DEF Insert, Store, Drop
      <3>4. CASE pc[r] = "drop"
        BY <1>0, <1>3, <3>4, DropDeletes DEF Insert, Store, Create
      <3>. QED
        BY <2>1, <3>1, <3>2, <3>3, <3>4
    <2>. QED
      BY <2>2 DEF Chat!Next
  <1>4. CASE /\ ~Die
             /\ \/ Clear(r) \/ Arrive(r) \/ Classify(r) \/ Lookup(r) \/ Search(r) \/ Cite(r) \/ Reply(r)
                \/ Sweep(r) \/ StatementFails(r) \/ LlmFails(r)
    <2>1. UNCHANGED <<live, messages, target>>
      BY <1>4 DEF Clear, Arrive, Classify, Lookup, Search, Cite, Reply, Sweep, StatementFails, LlmFails,
         Throw, tables
    <2>2. \A s \in Requests \ {r} : pc'[s] = pc[s]
      BY <1>0, <1>4, OneMoves DEF Step, Failure
    <2>3. \/ pc'[r] \in Over
          \/ pc[r] = "sweep" /\ pc'[r] = "drop"
          \/ pc'[r] \in Working /\ Kind[r] \notin {"ask", "delete"}
          \/ pc'[r] \in Working /\ InProgress(r) /\ pc[r] # "reply"
      <3>1. CASE Arrive(r) \/ Reply(r) \/ Sweep(r) \/ StatementFails(r) \/ LlmFails(r)
        BY <1>0, <1>4, <3>1 DEF TypeOK, Arrive, Reply, Sweep, StatementFails, LlmFails, Throw, Goto, Over, Working
      <3>2. CASE Clear(r) \/ Search(r) \/ Cite(r)
        BY <1>0, <3>2 DEF TypeOK, Clear, Search, Cite, Goto, InProgress, Working
      <3>3. CASE Classify(r)
        BY <1>0, <3>3 DEF TypeOK, Classify, Goto, InProgress, Working
      <3>4. CASE Lookup(r)
        BY <1>0, <3>4 DEF TypeOK, PlaceOK, Lookup, Goto, InProgress, Working
      <3>. QED
        BY <1>4, <3>1, <3>2, <3>3, <3>4
    <2>4. Chat!Leave
      BY <1>0, <2>1, <2>2, <2>3, QuietLeaves
    <2>. QED
      BY <2>4 DEF Chat!Next
  <1>. QED
    BY <1>1, <1>2, <1>3, <1>4 DEF Step, Failure

LEMMA NextImplements ==
  ASSUME IInv, [Next]_vars
  PROVE  [Chat!Next]_(Chat!vars)
  <1>0. TypeOK /\ PlaceOK
    BY DEF IInv
  <1>1. CASE \E r \in Requests : Step(r) \/ Failure(r)
    BY <1>1, StepImplements
  <1>2. CASE Crash
    BY <1>0, <1>2, DieLeaves DEF Crash, Chat!Next
  <1>3. CASE CleanupConversations
    <2>1. \A m \in messages' : m.conversation \in live \ live' => m.role = "USER"
      BY <1>3, CleanupDrops
    <2>2. live' \subseteq live /\ messages' \subseteq messages /\ UNCHANGED <<pc, target>>
      BY <1>3 DEF CleanupConversations
    <2>3. UNCHANGED <<Fresh, Place>>
      BY <2>2 DEF Fresh, Place, InProgress
    <2>. QED
      BY <2>1, <2>2, <2>3 DEF Chat!Forget, Chat!Next
  <1>4. CASE \/ UNCHANGED vars \/ (\E k \in Keys : Expire(k)) \/ NextDay \/ CleanupMessages \/ CleanupFails
    <2>1. UNCHANGED <<pc, target, live, messages>>
      BY <1>4 DEF vars, tables, Expire, NextDay, CleanupMessages, CleanupFails
    <2>. QED
      BY <2>1 DEF Fresh, Place, InProgress, Chat!vars
  <1>. QED
    BY <1>1, <1>2, <1>3, <1>4 DEF Next, Cleanup

\* Every behaviour of the gateway and the retention script is one of ChatLog:
\* questions are asked once and answered once at most, where their user opened a
\* conversation, and nothing but deletions and cleanups takes messages away.
THEOREM ImplementsChatLog == Spec => ChatSpec
  <1>1. Init => Chat!Init
    BY DEF Init, Chat!Init, Fresh, Place, InProgress, InTransaction, Working
  <1>2. IInv /\ [Next]_vars => [Chat!Next]_(Chat!vars)
    BY NextImplements
  <1>. QED
    BY <1>1, <1>2, Invariant, PTL DEF Spec, ChatSpec, Chat!Spec
=============================================================================
