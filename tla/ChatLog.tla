------------------------------ MODULE ChatLog ------------------------------
(***************************************************************************)
(* What the chat promises about conversations, seen as one log of messages *)
(* without transactions, contexts, retrieval or dates of conversations.    *)
(*                                                                         *)
(* A request is good for one write: it creates a conversation, or asks its *)
(* question, or deletes.  It writes where it entered, which was a          *)
(* conversation of its own user that was there at that moment.  A question *)
(* is answered once at most, after it was asked and in the conversation in *)
(* which it was asked.  What has gone does not come back, though messages  *)
(* of questions that had entered may still be written.                     *)
(***************************************************************************)
CONSTANTS Requests, User, Kind, Days, None

VARIABLES
  fresh,   \* requests that have not yet done their one write
  place,   \* place[r]: the conversation in which r is at work, if any
  live,    \* the conversations that exist; one bears the name of its request
  log      \* the messages

vars == <<fresh, place, live, log>>

Init ==
  /\ fresh = Requests
  /\ place = [r \in Requests |-> None]
  /\ live = {}
  /\ log = {}

Say(r, role) ==
  \E d \in Days :
    log' = log \cup {[conversation |-> place[r], author |-> r, role |-> role, day |-> d]}

\* A question or a deletion names a conversation of its user, or a question
\* is going to begin one.
Enter(r) ==
  /\ r \in fresh /\ place[r] = None
  /\ \E c \in Requests :
       /\ \/ c \in live /\ c # r /\ User[c] = User[r] /\ Kind[r] \in {"ask", "delete"}
          \/ c = r /\ Kind[r] = "ask"
       /\ place' = [place EXCEPT ![r] = c]
  /\ UNCHANGED <<fresh, live, log>>

Create(r) ==
  /\ r \in fresh /\ Kind[r] = "create"
  /\ fresh' = fresh \ {r}
  /\ live' = live \cup {r}
  /\ UNCHANGED <<place, log>>

\* Nobody waits for an answer any more if the COMMIT was not confirmed.
Ask(r) ==
  /\ r \in fresh /\ place[r] # None /\ Kind[r] = "ask"
  /\ fresh' = fresh \ {r}
  /\ live' = IF place[r] = r THEN live \cup {r} ELSE live
  /\ Say(r, "USER")
  /\ place' = place \/ place' = [place EXCEPT ![r] = None]

Answer(r) ==
  /\ r \notin fresh /\ place[r] # None /\ Kind[r] = "ask"
  /\ Say(r, "ASSISTANT")
  /\ place' = [place EXCEPT ![r] = None]
  /\ UNCHANGED <<fresh, live>>

\* A deletion takes messages of its conversation only.
Delete(r) ==
  /\ r \in fresh /\ place[r] # None /\ Kind[r] = "delete"
  /\ fresh' = fresh \ {r}
  /\ place' = [place EXCEPT ![r] = None]
  /\ live' = live \ {place[r]}
  /\ log' \subseteq log
  /\ \A m \in log \ log' : m.conversation = place[r]

\* Requests end without a write: refused, failed, or answered without one.
Leave ==
  /\ fresh' \subseteq fresh
  /\ UNCHANGED <<live, log>>
  /\ DOMAIN place' = Requests
  /\ \A r \in Requests : place'[r] \in {place[r], None}

\* What is old goes: messages, and conversations without their answers.
Forget ==
  /\ live' \subseteq live
  /\ log' \subseteq log
  /\ \A m \in log' : m.conversation \in live \ live' => m.role = "USER"
  /\ UNCHANGED <<fresh, place>>

Next ==
  \/ Leave \/ Forget
  \/ \E r \in Requests : Enter(r) \/ Create(r) \/ Ask(r) \/ Answer(r) \/ Delete(r)

Spec == Init /\ [][Next]_vars
=============================================================================
