----------------------------- MODULE IngestApi -----------------------------
(***************************************************************************)
(* What POST /ingest promises about each request: the file is stored whole *)
(* or not at all, a success is only answered for a file that is stored,    *)
(* and no two stored files of a tenant have the same bytes or the same     *)
(* repair order number.  An error answer normally means that nothing was   *)
(* stored; when the database loses its answer to COMMIT, it may not.       *)
(***************************************************************************)
CONSTANTS
  Requests,
  Conflicting(_, _)   \* two requests that must not both be stored

VARIABLES
  stored,   \* requests whose file is in the tables
  unsure,   \* those among them whose COMMIT was not confirmed
  answer    \* answer[r]: "none" yet, "ok" or "error"

vars == <<stored, unsure, answer>>

Init ==
  /\ stored = {}
  /\ unsure = {}
  /\ answer = [r \in Requests |-> "none"]

Store(r) ==
  /\ answer[r] = "none" /\ r \notin stored
  /\ \A s \in stored : ~Conflicting(r, s)
  /\ stored' = stored \cup {r}
  /\ \/ UNCHANGED unsure
     \/ unsure' = unsure \cup {r}
  /\ UNCHANGED answer

Accept(r) ==
  /\ answer[r] = "none" /\ r \in stored \ unsure
  /\ answer' = [answer EXCEPT ![r] = "ok"]
  /\ UNCHANGED <<stored, unsure>>

Refuse(r) ==
  /\ answer[r] = "none" /\ r \notin stored \ unsure
  /\ answer' = [answer EXCEPT ![r] = "error"]
  /\ UNCHANGED <<stored, unsure>>

Next == \E r \in Requests : Store(r) \/ Accept(r) \/ Refuse(r)

Spec == Init /\ [][Next]_vars
=============================================================================
