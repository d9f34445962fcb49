------------------------ MODULE AssistantInvariant ------------------------
(***************************************************************************)
(* The inductive invariant of Assistant.  That a deletion sticks rests on  *)
(* every conversation and message being inserted once, at one place of one *)
(* request; that users never meet rests on a request keeping its key from  *)
(* the moment it is begun; that answers keep their conversation rests on   *)
(* last_message_at being at least as young as they are.                    *)
(***************************************************************************)
EXTENDS Assistant

\* Where each kind of request can be, and what it knows there.
PlaceOK ==
  \A r \in Requests :
    /\ pc[r] \in {"insert", "clear", "store"} => Kind[r] = "ask"
    /\ pc[r] \in {"sweep", "drop"} => Kind[r] = "delete"
    /\ pc[r] \in Working => Kind[r] \in {"ask", "answer", "search"}
    /\ Kind[r] = "ask" /\ InProgress(r) => target[r] \in Requests /\ User[target[r]] = User[r]

\* A conversation is inserted once, and deleted after that by its user; the
\* deletion saw messages of this conversation.
ConversationsOK ==
  /\ \A c \in live : pc[c] \notin {"new", "insert"}
  /\ \A r \in Requests :
       Kind[r] = "delete" /\ pc[r] \in {"sweep", "drop", "done"} =>
         /\ target[r] \in Requests /\ User[target[r]] = User[r]
         /\ pc[target[r]] \notin {"new", "insert"}
         /\ pc[r] = "drop" => \A m \in doomed[r] : m.conversation = target[r]

\* A request that has not passed the place where it inserts its message has
\* none, neither in the table nor among those that a deletion saw.
Unwritten(M) ==
  \A m \in M :
    /\ m.role = "USER" => pc[m.author] \notin {"new", "insert"}
    /\ m.role = "ASSISTANT" => pc[m.author] \in {"reply"} \cup Over

MessagesOK == Unwritten(messages) /\ \A r \in Requests : Unwritten(doomed[r])

\* Contexts belong to requests that have a key.
ContextOK ==
  /\ \A k \in Keys : context[k] # None => pc[context[k]] # "new"
  /\ \A r \in Requests : basis[r] # None => pc[r] # "new" /\ pc[basis[r]] # "new"

\* Nothing is younger than today, answers are not younger than their
\* conversation, and what a cleanup did not see is not due.
DatesOK ==
  /\ purged <= day
  /\ \A m \in messages :
       /\ m.day <= day
       /\ m.role = "ASSISTANT" /\ m.conversation \in live => m.day <= touched[m.conversation]
  /\ cleanup # None =>
       /\ cleanup.cutoff <= day
       /\ \A m \in messages : m.day >= cleanup.cutoff \/ m \in cleanup.doomed

IInv ==
  /\ TypeOK /\ PlaceOK /\ ConversationsOK /\ MessagesOK /\ ContextOK /\ DatesOK
  /\ AnswersStayPrivate /\ DeletionSticks /\ RetentionHolds

-----------------------------------------------------------------------------
(***************************************************************************)
(* What is kept on top of IInv as long as nothing fails and nobody uses    *)
(* one conversation twice at a time.                                       *)
(***************************************************************************)

\* Requests whose answer is kept as a context and not yet the last one given.
Answering(r) ==
  \/ pc[r] = "store"
  \/ pc[r] = "reply" /\ Kind[r] = "answer" /\ Strategy[r] # "bypass"

\* Only provenance questions go without retrieval and have a basis.
PathOK ==
  \A r \in Requests :
    /\ pc[r] \in {"lookup", "search", "cite", "remember", "store"} => Strategy[r] # "bypass"
    /\ pc[r] \in {"cite", "remember"} => Kind[r] \in {"ask", "answer"}
    /\ basis[r] # None =>
         /\ Strategy[r] = "bypass" /\ Kind[r] \in {"ask", "answer"}
         /\ pc[r] \in {"reply"} \cup Over

\* A context is that of the last answer given under its key, or of the one that
\* is about to be given.
LastOK ==
  /\ \A k \in Keys :
       context[k] # None =>
         context[k] = latest[k] \/ \E r \in Requests : Answering(r) /\ Key(r) = k
  /\ \A r \in Requests : Answering(r) => context[Key(r)] \in {None, r}

\* A deletion sees every message of its conversation, and nobody is at work in
\* it afterwards.
DeletedOK ==
  \A r \in Requests : Kind[r] = "delete" =>
    /\ pc[r] = "drop" => \A m \in messages : m.conversation = target[r] => m \in doomed[r]
    /\ pc[r] = "done" =>
         \A s \in Requests : Kind[s] = "ask" /\ InProgress(s) => target[s] # target[r]

UseInv == PathOK /\ LastOK /\ DeletedOK /\ ProvenanceIsLast /\ DeletionIsComplete
=============================================================================
