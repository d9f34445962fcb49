--------------------------- MODULE IngestRegistry ---------------------------
(***************************************************************************)
(* What the intake promises about one content (one file of one tenant),    *)
(* whoever processes it, however often its event is delivered and whatever *)
(* crashes: it is registered, claimed once, handed to the ingest API at    *)
(* most once, and ends as INGESTED or FAILED.  INGESTED is only written    *)
(* once the API has stored the content, and neither end state is ever      *)
(* left.  The API may store a content after the intake gave up on it.      *)
(***************************************************************************)
EXTENDS Naturals

CONSTANT Contents

VARIABLES
  status,      \* status of the content in app.ingest_files
  duplicates,  \* its duplicate_count
  request      \* the one request to the ingest API about it

vars == <<status, duplicates, request>>

Init ==
  /\ status = [c \in Contents |-> "ABSENT"]
  /\ duplicates = [c \in Contents |-> 0]
  /\ request = [c \in Contents |-> "none"]

Move(c, from, to) ==
  /\ status[c] = from
  /\ status' = [status EXCEPT ![c] = to]
  /\ UNCHANGED <<duplicates, request>>

Register(c) == Move(c, "ABSENT", "PENDING")

Claim(c) == Move(c, "PENDING", "PROCESSING")

Fail(c) == Move(c, "PROCESSING", "FAILED")

Accept(c) == request[c] = "stored" /\ Move(c, "PROCESSING", "INGESTED")

Submit(c) ==
  /\ status[c] = "PROCESSING"
  /\ request[c] = "none"
  /\ request' = [request EXCEPT ![c] = "open"]
  /\ UNCHANGED <<status, duplicates>>

Answer(c) ==
  /\ request[c] = "open"
  /\ \E fate \in {"stored", "refused"} : request' = [request EXCEPT ![c] = fate]
  /\ UNCHANGED <<status, duplicates>>

CountDuplicate(c) ==
  /\ status[c] = "INGESTED"
  /\ duplicates' = [duplicates EXCEPT ![c] = @ + 1]
  /\ UNCHANGED <<status, request>>

Next ==
  \E c \in Contents :
    \/ Register(c) \/ Claim(c) \/ Fail(c) \/ Accept(c)
    \/ Submit(c) \/ Answer(c) \/ CountDuplicate(c)

Spec == Init /\ [][Next]_vars
=============================================================================
