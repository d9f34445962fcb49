--------------------------- MODULE MCIntakeWorker ---------------------------
(***************************************************************************)
(* Small instances of IntakeWorker for TLC.                                *)
(***************************************************************************)
EXTENDS IntakeWorker, TLC

CONSTANTS a, b, p                      \* contents: two files and a prefix
CONSTANTS upload, renamed, other, folder, mangled, second   \* events
CONSTANTS tUpload, tPair, tMixed, tGarbage  \* bodies

MCKind == [e \in Events |->
  CASE e = renamed -> "invalid"
    [] e = other -> "other"
    [] e = folder -> "badPath"
    [] e = mangled -> "mangled"
    [] OTHER -> "valid"]

MCContent == [e \in Events |-> IF e = second THEN b ELSE a]

\* A download that breaks may have read a prefix both files share, or all.
MCTruncated == [e \in Events |-> {p, MCContent[e]}]

MCBody == [t \in Texts |->
  CASE t = tUpload -> <<other, upload>>
    [] t = tPair -> <<second, upload>>
    [] t = tMixed -> <<folder, renamed, mangled>>
    [] OTHER -> <<>>]

MCSymmetry == Permutations(Workers) \cup Permutations(Ids)

NoFault == [f \in FaultKinds |-> 0]

OneGatewayFault == [NoFault EXCEPT !["gateway"] = 1]

OneCrash == [NoFault EXCEPT !["crash"] = 1]

\* Every kind of fault may happen, though MaxMix bounds how many in one run.
OneOfEach == [f \in FaultKinds |-> 1]
=============================================================================
