------------------------- MODULE MCAssistantHistory -------------------------
(***************************************************************************)
(* Five views of the safety of Assistant in one run: "chat" and "answers"  *)
(* have questions and provenance questions of two users on one day;        *)
(* "deletion" has a deletion of what somebody is writing to; "dates" has   *)
(* questions and cleanups on several days, with the failures of commits and*)
(* of the script, and leaves contexts alone; "search" has a search beside  *)
(* a question.                                                             *)
(***************************************************************************)
EXTENDS MCAssistant

Cast == [chat |-> {first, why, spy},
         answers |-> {quick, how, peek},
         dates |-> {room, first, second},
         search |-> {first, look},
         deletion |-> {room, first, erase}]

\* A behaviour begins requests of one view only, and a step keeps to what
\* that view is about.
OneView ==
  \E view \in DOMAIN Cast :
    /\ {r \in Requests : pc'[r] # "new"} \subseteq Cast[view]
    /\ view # "dates" => day' = 0
    /\ view = "dates" =>
         /\ faults' = faults \/ <<tables, cleanup>>' # <<tables, cleanup>>
         /\ \A k \in Keys : context'[k] = None => context[k] = None
=============================================================================
