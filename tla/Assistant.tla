----------------------------- MODULE Assistant -----------------------------
(***************************************************************************)
(* Questions about repair orders: the chat (POST /chat/messages and the    *)
(* routes that create and delete conversations), POST /answer and /search, *)
(* the in-memory store of answer contexts they share, and the retention    *)
(* script.  All requests run in one gateway process and interleave at      *)
(* every await.                                                            *)
(*                                                                         *)
(* A request is also the identity that it generates: a question without a  *)
(* conversation and a creation name the conversation they insert, and a    *)
(* question names its answer.  The tables have no foreign keys.            *)
(*                                                                         *)
(* Every statement that writes is the last one of its transaction or takes *)
(* no lock that the others wait for, so that the step that executes it     *)
(* also commits; what a transaction deletes it has read at an earlier      *)
(* statement.  The texts of questions and answers are left out.            *)
(***************************************************************************)
EXTENDS Naturals, FiniteSets

CONSTANTS
  Users,
  Requests,
  User,        \* User[r]: who sent request r (one user of one tenant)
  Kind,        \* Kind[r]: the route
  Strategy,    \* Strategy[r]: initial retrieval strategy of a question
  PoolSize,    \* connections of the gateway
  Retention,   \* CHAT_RETENTION_DAYS
  MaxDay,      \* days in a behaviour
  MaxFaults,   \* failures in a behaviour
  FaultKinds,  \* the failures that may happen
  None

Kinds == {"ask", "answer", "search", "create", "delete"}

\* "bypass" stands for the intent provenance_query, which retrieves nothing.
Strategies == {"bypass", "direct", "hybrid", "broad"}

ASSUME ConstantsAssumption ==
  /\ User \in [Requests -> Users]
  /\ Kind \in [Requests -> Kinds]
  /\ Strategy \in [Requests -> Strategies]
  /\ PoolSize \in Nat \ {0}
  /\ Retention \in Nat
  /\ MaxDay \in Nat
  /\ MaxFaults \in Nat
  /\ FaultKinds \subseteq {"statement", "commit", "llm", "crash", "cleanup"}
  /\ IsFiniteSet(Requests)
  /\ None \notin Requests

VARIABLES
  pc,        \* where each request is
  target,    \* the conversation it is about
  live,      \* rows of chat.conversations
  touched,   \* touched[c]: last_message_at of conversation c
  messages,  \* chat.messages
  doomed,    \* doomed[r]: messages a deletion has deleted, not yet committed
  context,   \* the answer context store: the answer kept under each key
  latest,    \* the last answer that was given under each key
  basis,     \* basis[r]: the answer that a provenance question was told about
  cleanup,   \* the transaction of cleanup_chat_history.ts
  purged,    \* cutoff of the last cleanup that was committed
  day,
  faults

tables == <<live, touched, messages>>
memory == <<context, latest, basis>>
script == <<cleanup, purged>>
vars == <<pc, target, tables, doomed, memory, script, day, faults>>

\* Labels at which the connection of a transaction is held.
InTransaction == {"insert", "sweep", "drop"}
Working == {"clear", "classify", "lookup", "search", "cite", "remember", "store", "reply"}
Over == {"done", "refused", "failed", "gone"}
Labels == {"new"} \cup InTransaction \cup Working \cup Over
InProgress(r) == pc[r] \in InTransaction \cup Working

Message == [conversation : Requests, author : Requests,
            role : {"USER", "ASSISTANT"}, day : 0 .. MaxDay]

\* The requests that may insert a conversation, under their own name.
Conversations == {r \in Requests : Kind[r] \in {"ask", "create"}}

\* Keys of the context store: tenant:user:conversation and tenant:user:answer.
Keys == Users \X (Requests \cup {None})
Key(r) == <<User[r], IF Kind[r] = "answer" THEN None ELSE target[r]>>

TypeOK ==
  /\ pc \in [Requests -> Labels]
  /\ target \in [Requests -> Requests \cup {None}]
  /\ live \subseteq Requests
  /\ touched \in [Requests -> 0 .. MaxDay]
  /\ messages \subseteq Message
  /\ doomed \in [Requests -> SUBSET Message]
  /\ context \in [Keys -> Requests \cup {None}]
  /\ latest \in [Keys -> Requests \cup {None}]
  /\ basis \in [Requests -> Requests \cup {None}]
  /\ cleanup = None \/ cleanup \in [cutoff : 0 .. MaxDay, doomed : SUBSET Message]
  /\ purged \in 0 .. MaxDay
  /\ day \in 0 .. MaxDay
  /\ faults \in 0 .. MaxFaults
  /\ Cardinality({r \in Requests : pc[r] \in InTransaction}) <= PoolSize

Init ==
  /\ pc = [r \in Requests |-> "new"]
  /\ target = [r \in Requests |-> None]
  /\ live = {}
  /\ touched = [r \in Requests |-> 0]
  /\ messages = {}
  /\ doomed = [r \in Requests |-> {}]
  /\ context = [k \in Keys |-> None]
  /\ latest = [k \in Keys |-> None]
  /\ basis = [r \in Requests |-> None]
  /\ cleanup = None
  /\ purged = 0
  /\ day = 0
  /\ faults = 0

-----------------------------------------------------------------------------
(***************************************************************************)
(* Helpers.                                                                *)
(***************************************************************************)

Goto(r, label) == pc' = [pc EXCEPT ![r] = label]

\* pool.connect gets a connection at once; otherwise the request waits.
Free == Cardinality({r \in Requests : pc[r] \in InTransaction}) < PoolSize

Fault(kind) ==
  /\ kind \in FaultKinds
  /\ faults < MaxFaults
  /\ faults' = faults + 1

Written(r, role) == [conversation |-> target[r], author |-> r, role |-> role, day |-> day]

\* The SELECT on conversation_id, tenant_id and user_id finds c.
OwnedByAnyone(r, c) == c \in live
Owned(r, c) == c \in live /\ User[c] = User[r]

\* Request r names conversation c: it goes on at label, or it ends with 404.
Find(r, c, label) ==
  \/ Owned(r, c) /\ target' = [target EXCEPT ![r] = c] /\ Goto(r, label)
  \/ ~Owned(r, c) /\ Goto(r, "refused") /\ UNCHANGED target

-----------------------------------------------------------------------------
(***************************************************************************)
(* The first transaction of POST /chat/messages.                           *)
(***************************************************************************)

\* The question names a conversation.
OpenNamed(r) ==
  /\ pc[r] = "new" /\ Kind[r] = "ask" /\ Free
  /\ \E c \in Conversations \ {r} : Find(r, c, "insert")
  /\ UNCHANGED <<tables, doomed, memory, script, day, faults>>

\* Mistake: a client of its own, outside the pool.
OpenNewUnpooled(r) ==
  /\ pc[r] = "new" /\ Kind[r] = "ask"
  /\ target' = [target EXCEPT ![r] = r]
  /\ Goto(r, "insert")
  /\ UNCHANGED <<tables, doomed, memory, script, day, faults>>

OpenNew(r) ==
  /\ pc[r] = "new" /\ Kind[r] = "ask" /\ Free
  /\ target' = [target EXCEPT ![r] = r]
  /\ Goto(r, "insert")
  /\ UNCHANGED <<tables, doomed, memory, script, day, faults>>

\* What the transaction leaves behind when it commits.
Inserted(r) ==
  /\ messages' = messages \cup {Written(r, "USER")}
  /\ IF target[r] = r
     THEN live' = live \cup {r} /\ touched' = [touched EXCEPT ![r] = day]
     ELSE UNCHANGED <<live, touched>>

\* Mistake: an audit entry is written before the transaction ends.
InsertAudited(r) ==
  /\ pc[r] = "insert" /\ Free
  /\ Inserted(r)
  /\ Goto(r, "clear")
  /\ UNCHANGED <<target, doomed, memory, script, day, faults>>

Insert(r) ==
  /\ pc[r] = "insert"
  /\ Inserted(r)
  /\ Goto(r, "clear")
  /\ UNCHANGED <<target, doomed, memory, script, day, faults>>

Clear(r) ==
  /\ pc[r] = "clear"
  /\ context' = IF target[r] = r THEN [context EXCEPT ![Key(r)] = None] ELSE context
  /\ Goto(r, "classify")
  /\ UNCHANGED <<target, tables, doomed, latest, basis, script, day, faults>>

-----------------------------------------------------------------------------
(***************************************************************************)
(* What the three routes for questions do alike.  auditLog waits for a     *)
(* connection, but none is held meanwhile, and its errors are dropped.     *)
(***************************************************************************)

\* /answer and /search start with the classification.
Arrive(r) ==
  /\ pc[r] = "new" /\ Kind[r] \in {"answer", "search"}
  /\ Goto(r, "classify")
  /\ UNCHANGED <<target, tables, doomed, memory, script, day, faults>>

\* INTENT_CLASSIFY is audited; then a provenance question reads the context.
Classify(r) ==
  /\ pc[r] = "classify" /\ Free
  /\ IF Strategy[r] = "bypass"
     THEN /\ Goto(r, "reply")
          /\ basis' = IF Kind[r] = "search" THEN basis
                      ELSE [basis EXCEPT ![r] = context[Key(r)]]
     ELSE /\ Goto(r, IF Strategy[r] = "direct" THEN "lookup" ELSE "search")
          /\ UNCHANGED basis
  /\ UNCHANGED <<target, tables, doomed, context, latest, script, day, faults>>

\* A direct lookup finds repair orders, or falls back to HYBRID_SEARCH.  /answer
\* words what it found itself, the chat asks the language model.
Lookup(r) ==
  /\ pc[r] = "lookup" /\ Free
  /\ \/ Goto(r, "search")
     \/ Goto(r, [ask |-> "cite", answer |-> "remember", search |-> "reply"][Kind[r]])
  /\ UNCHANGED <<target, tables, doomed, memory, script, day, faults>>

Search(r) ==
  /\ pc[r] = "search" /\ Free
  /\ Goto(r, IF Kind[r] = "search" THEN "reply" ELSE "cite")
  /\ UNCHANGED <<target, tables, doomed, memory, script, day, faults>>

\* Mistake: the context is kept for the user, whatever the conversation.
CiteForUser(r) ==
  /\ pc[r] \in {"cite", "remember"}
  /\ context' = [k \in Keys |-> IF k[1] = User[r] THEN r ELSE context[k]]
  /\ Goto(r, IF Kind[r] = "ask" THEN "store" ELSE "reply")
  /\ UNCHANGED <<target, tables, doomed, latest, basis, script, day, faults>>

\* Mistake: a context that is there is not replaced.
CiteOnce(r) ==
  /\ pc[r] \in {"cite", "remember"}
  /\ context' = IF context[Key(r)] = None THEN [context EXCEPT ![Key(r)] = r] ELSE context
  /\ Goto(r, IF Kind[r] = "ask" THEN "store" ELSE "reply")
  /\ UNCHANGED <<target, tables, doomed, latest, basis, script, day, faults>>

\* The answer is there and its context is kept before the answer is stored.
Cite(r) ==
  /\ pc[r] \in {"cite", "remember"}
  /\ context' = [context EXCEPT ![Key(r)] = r]
  /\ Goto(r, IF Kind[r] = "ask" THEN "store" ELSE "reply")
  /\ UNCHANGED <<target, tables, doomed, latest, basis, script, day, faults>>

\* INSERT and UPDATE: the latter may find no conversation any more.
Stored(r) ==
  /\ messages' = messages \cup {Written(r, "ASSISTANT")}
  /\ touched' = IF target[r] \in live THEN [touched EXCEPT ![target[r]] = day] ELSE touched
  /\ latest' = [latest EXCEPT ![Key(r)] = r]
  /\ UNCHANGED live

\* Mistake: an UPDATE that finds nothing inserts the conversation again.
StoreRevives(r) ==
  /\ pc[r] = "store" /\ Free
  /\ messages' = messages \cup {Written(r, "ASSISTANT")}
  /\ live' = live \cup {target[r]}
  /\ touched' = [touched EXCEPT ![target[r]] = day]
  /\ latest' = [latest EXCEPT ![Key(r)] = r]
  /\ Goto(r, "reply")
  /\ UNCHANGED <<target, doomed, context, basis, script, day, faults>>

Store(r) ==
  /\ pc[r] = "store" /\ Free
  /\ Stored(r)
  /\ Goto(r, "reply")
  /\ UNCHANGED <<target, doomed, context, basis, script, day, faults>>

Reply(r) ==
  /\ pc[r] = "reply"
  /\ Goto(r, "done")
  /\ latest' = IF Kind[r] = "answer" /\ Strategy[r] # "bypass"
               THEN [latest EXCEPT ![Key(r)] = r] ELSE latest
  /\ UNCHANGED <<target, tables, doomed, context, basis, script, day, faults>>

\* A context is dropped half an hour after it was kept.
Expire(k) ==
  /\ context[k] # None
  /\ context' = [context EXCEPT ![k] = None]
  /\ UNCHANGED <<pc, target, tables, doomed, latest, basis, script, day, faults>>

-----------------------------------------------------------------------------
(***************************************************************************)
(* POST and DELETE /chat/conversations.                                    *)
(***************************************************************************)

Created(r) == live' = live \cup {r} /\ touched' = [touched EXCEPT ![r] = day]

Create(r) ==
  /\ pc[r] = "new" /\ Kind[r] = "create" /\ Free
  /\ Created(r)
  /\ Goto(r, "done")
  /\ UNCHANGED <<target, messages, doomed, memory, script, day, faults>>

OpenDeletion(r) ==
  /\ pc[r] = "new" /\ Kind[r] = "delete" /\ Free
  /\ \E c \in Conversations \ {r} : Find(r, c, "sweep")
  /\ UNCHANGED <<tables, doomed, memory, script, day, faults>>

\* DELETE FROM chat.messages: the messages that are committed by now.
Sweep(r) ==
  /\ pc[r] = "sweep"
  /\ doomed' = [doomed EXCEPT ![r] = {m \in messages : m.conversation = target[r]}]
  /\ Goto(r, "drop")
  /\ UNCHANGED <<target, tables, memory, script, day, faults>>

\* DELETE FROM chat.conversations, and COMMIT.
Dropped(r) ==
  /\ messages' = messages \ doomed[r]
  /\ live' = live \ {target[r]}
  /\ UNCHANGED touched

Drop(r) ==
  /\ pc[r] = "drop"
  /\ Dropped(r)
  /\ Goto(r, "done")
  /\ UNCHANGED <<target, doomed, memory, script, day, faults>>

-----------------------------------------------------------------------------
(***************************************************************************)
(* Failures.                                                               *)
(***************************************************************************)

\* Labels at which the route of r may see an exception of a statement.
Fragile(r) ==
  IF Kind[r] \in {"answer", "search"} THEN {"lookup", "search"}
  ELSE {"new", "insert", "lookup", "search", "store", "sweep", "drop"}

\* The gateway process ends: requests and contexts are lost, and PostgreSQL
\* rolls transactions back.
Die ==
  /\ pc' = [r \in Requests |-> IF InProgress(r) THEN "gone" ELSE pc[r]]
  /\ context' = [k \in Keys |-> None]
  /\ UNCHANGED <<target, tables, doomed, latest, basis, script, day>>

\* The chat routes catch the exception and answer with an error.  /answer and
\* /search do not: Express 4 ignores the rejected promise of a handler, and
\* node ends the process.
Throw(r) ==
  IF Kind[r] \in {"answer", "search"} THEN Die
  ELSE /\ Goto(r, "failed")
       /\ UNCHANGED <<target, tables, doomed, memory, script, day>>

StatementFails(r) ==
  /\ pc[r] \in Fragile(r)
  /\ Fault("statement")
  /\ Throw(r)

\* generateChatAnswer fails twice.
LlmFails(r) ==
  /\ pc[r] = "cite"
  /\ Fault("llm")
  /\ Throw(r)

\* Mistake: a COMMIT whose answer is lost is tried again.
CommitRetried(r) ==
  /\ Fault("commit")
  /\ \/ pc[r] = "insert" /\ Inserted(r) /\ UNCHANGED latest
     \/ pc[r] = "store" /\ Free /\ Stored(r)
     \/ pc[r] = "drop" /\ Dropped(r) /\ UNCHANGED latest
  /\ UNCHANGED <<pc, target, doomed, context, basis, script, day>>

\* COMMIT takes effect, but its answer is lost.
CommitUnconfirmed(r) ==
  /\ Fault("commit")
  /\ \/ pc[r] = "insert" /\ Inserted(r) /\ UNCHANGED latest
     \/ pc[r] = "store" /\ Free /\ Stored(r)
     \/ pc[r] = "drop" /\ Dropped(r) /\ UNCHANGED latest
     \/ pc[r] = "new" /\ Kind[r] = "create" /\ Free /\ Created(r) /\ UNCHANGED <<messages, latest>>
  /\ Goto(r, "failed")
  /\ UNCHANGED <<target, doomed, context, basis, script, day>>

Crash ==
  /\ Fault("crash")
  /\ (\E r \in Requests : InProgress(r)) \/ (\E k \in Keys : context[k] # None)
  /\ Die

-----------------------------------------------------------------------------
(***************************************************************************)
(* cleanup_chat_history.ts: one transaction of two statements, with a pool *)
(* of its own.  now() is the time at which the transaction began.          *)
(***************************************************************************)

\* Transactions of the gateway are short against a day: none spans midnight, so
\* that now(), the time at which one began, is the day of its last statement.
NextDay ==
  /\ day < MaxDay
  /\ \A r \in Requests : pc[r] \notin InTransaction
  /\ day' = day + 1
  /\ UNCHANGED <<pc, target, tables, doomed, memory, script, faults>>

\* A cleanup with the cutoff of the last one would find nothing.
CleanupMessages ==
  /\ cleanup = None
  /\ day > Retention + purged
  /\ LET cutoff == day - Retention
     IN cleanup' = [cutoff |-> cutoff, doomed |-> {m \in messages : m.day < cutoff}]
  /\ UNCHANGED <<pc, target, tables, doomed, memory, purged, day, faults>>

\* Mistake: the messages are deleted by way of their conversations.
CleanupByConversation ==
  /\ cleanup # None
  /\ LET old == {c \in live : touched[c] < cleanup.cutoff}
     IN /\ live' = live \ old
        /\ messages' = {m \in messages : m.conversation \notin old}
  /\ purged' = cleanup.cutoff
  /\ cleanup' = None
  /\ UNCHANGED <<pc, target, touched, doomed, memory, day, faults>>

\* DELETE FROM chat.conversations, and COMMIT.
CleanupConversations ==
  /\ cleanup # None
  /\ messages' = messages \ cleanup.doomed
  /\ live' = {c \in live : touched[c] >= cleanup.cutoff}
  /\ purged' = cleanup.cutoff
  /\ cleanup' = None
  /\ UNCHANGED <<pc, target, touched, doomed, memory, day, faults>>

CleanupFails ==
  /\ cleanup # None
  /\ Fault("cleanup")
  /\ cleanup' = None
  /\ UNCHANGED <<pc, target, tables, doomed, memory, purged, day>>

-----------------------------------------------------------------------------

Step(r) ==
  \/ OpenNamed(r) \/ OpenNew(r) \/ Insert(r) \/ Clear(r) \/ Arrive(r) \/ Classify(r)
  \/ Lookup(r) \/ Search(r) \/ Cite(r) \/ Store(r) \/ Reply(r)
  \/ Create(r) \/ OpenDeletion(r) \/ Sweep(r) \/ Drop(r)

Failure(r) == StatementFails(r) \/ LlmFails(r) \/ CommitUnconfirmed(r)

Cleanup == CleanupMessages \/ CleanupConversations \/ CleanupFails

Next ==
  \/ \E r \in Requests : Step(r) \/ Failure(r)
  \/ \E k \in Keys : Expire(k)
  \/ Crash \/ NextDay \/ Cleanup

Spec == Init /\ [][Next]_vars

\* Node runs what can run, PostgreSQL and the Azure services answer or time
\* out.  Days, cleanups and failures need not happen.
Fairness == \A r \in Requests : WF_vars(Step(r))

FairSpec == Spec /\ Fairness
-----------------------------------------------------------------------------
(***************************************************************************)
(* Properties.                                                             *)
(***************************************************************************)

\* Users never meet: a conversation holds messages of its owner only, a
\* context is kept under the key of the question it answers, and a provenance
\* question is told about an answer to its own user in its own conversation.
AnswersStayPrivate ==
  /\ \A m \in messages : User[m.author] = User[m.conversation]
  /\ \A k \in Keys : context[k] # None => Key(context[k]) = k
  /\ \A r \in Requests : basis[r] # None => Key(basis[r]) = Key(r)

\* A conversation that was deleted stays deleted, with every message the
\* deletion saw, although answers to its questions may still be stored.
DeletionSticks ==
  \A r \in Requests :
    Kind[r] = "delete" /\ pc[r] = "done" =>
      target[r] \notin live /\ doomed[r] \cap messages = {}

\* No message survives a cleanup that should have deleted it, also when its
\* conversation goes on, has gone, or was written to in the meantime.
RetentionHolds == \A m \in messages : m.day >= purged

\* Unless its owner deletes it, a conversation does not go before its answers:
\* an answer that is stored between the two statements of a cleanup keeps it.
ConversationKeepsAnswers ==
  [][\A c \in live \ live' :
       \/ \E r \in Requests : pc[r] = "drop" /\ target[r] = c
       \/ \A m \in messages' : m.conversation = c => m.role = "USER"]_vars

\* Two requests under one key are in progress.
Overlap ==
  \E r, s \in {q \in Requests : Kind[q] # "search" /\ InProgress(q)} : r # s /\ Key(r) = Key(s)

\* A provenance question that is about to be answered was told about the last
\* answer given under its key.
ProvenanceIsLast ==
  \A r \in Requests : pc[r] = "reply" /\ basis[r] # None => basis[r] = latest[Key(r)]

\* A conversation that was deleted has no messages.
DeletionIsComplete ==
  \A r \in Requests :
    Kind[r] = "delete" /\ pc[r] = "done" => \A m \in messages : m.conversation # target[r]

\* Provenance and deletion do what they say when nothing fails and nobody uses
\* one conversation twice at a time, whatever happens in other conversations.
OrderlyUse ==
  [](faults = 0 /\ ~Overlap) => [](ProvenanceIsLast /\ DeletionIsComplete)

\* Every request that was begun is over some time: waiting for a connection,
\* requests do not hold one.
QuestionEnds == \A r \in Requests : InProgress(r) ~> pc[r] \in Over

\* Every question is answered.
QuestionsAnswered == \A r \in Requests : pc[r] \notin {"failed", "gone"}
-----------------------------------------------------------------------------
(***************************************************************************)
(* The refinement of ChatLog.  A request is at work in a conversation from *)
(* the moment it opened it until its last write or its end, and it is      *)
(* fresh until its first transaction has ended.                            *)
(***************************************************************************)

Fresh == {r \in Requests : pc[r] \in {"new"} \cup InTransaction}

Place ==
  [r \in Requests |->
     IF Kind[r] \in {"ask", "delete"} /\ InProgress(r) /\ pc[r] # "reply" THEN target[r] ELSE None]

Chat == INSTANCE ChatLog WITH
  Days <- 0 .. MaxDay,
  fresh <- Fresh,
  place <- Place,
  log <- messages

\* The gateway and the retention script implement ChatLog: whatever meets
\* whatever, questions are asked once and answered once at most, in a
\* conversation of their user that was there when they opened it, and only
\* deletions and cleanups take messages away (chat.ts, cleanup_chat_history.ts).
ChatSpec == Chat!Spec
=============================================================================
