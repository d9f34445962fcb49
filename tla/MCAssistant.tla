---------------------------- MODULE MCAssistant ----------------------------
(***************************************************************************)
(* Small instances of Assistant for TLC: each takes some of the requests.  *)
(***************************************************************************)
EXTENDS Assistant

CONSTANTS ann, bob                                                             \* users
CONSTANTS room, first, second, why, erase, spy, quick, how, peek, look   \* requests

MCUser == [r \in Requests |-> IF r \in {spy, peek, look} THEN bob ELSE ann]

MCKind == [r \in Requests |->
  CASE r = room -> "create"
    [] r = erase -> "delete"
    [] r \in {quick, how, peek} -> "answer"
    [] r = look -> "search"
    [] OTHER -> "ask"]

MCStrategy == [r \in Requests |->
  CASE r \in {why, spy, how, peek} -> "bypass"
    [] r \in {first, quick} -> "direct"
    [] OTHER -> "hybrid"]
=============================================================================
