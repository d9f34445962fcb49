------------------------ MODULE AdministrationProofs ------------------------
(***************************************************************************)
(* Theorems about what administrators do: SftpProvisioning, for any        *)
(* operations that interleave and any number of failures, and Accounts,    *)
(* for any connections, accounts, tenants and settings.                    *)
(***************************************************************************)
EXTENDS MCAdministration, SequenceTheorems, TLAPS

(***************************************************************************)
(* SftpProvisioning: rows, local users and audit entries of tenants.       *)
(***************************************************************************)

\* The row of a creation is there once its COMMIT took effect, and the account
\* before it is this creation's.
CreationOK(o) ==
  LET t == OpTenant[o]
  IN /\ step[o] \in {"idle", "checked", "applied", "updated"} => ~Exists(t)
     /\ step[o] \in {"committed", "succeeded"} => Exists(t)
     /\ step[o] \in {"failing", "marked", "failed"} => (Exists(t) <=> o \in unsure)
     /\ o \in unsure => step[o] \in {"failing", "marked", "failed", "gone"}
     /\ Exists(t) => row[t].name = OpName[o]
     /\ step[o] \in {"idle", "checked"} => localUser[t] = NoUser
     /\ step[o] \in {"applied", "updated"} => localUser[t] = o
     /\ ~Exists(t) /\ localUser[t] # NoUser => step[o] \in {"applied", "updated"} \/ o \in hurt
     /\ Exists(t) /\ localUser[t] = NoUser =>
          \E p \in Operations : OpTenant[p] = t /\ OpKind[p] = "remove" /\ step[p] # "idle"

\* Every other operation found a tenant before it went on.
FoundOK(o) ==
  OpKind[o] # "create" =>
    /\ step[o] # "committed"
    /\ ~Exists(OpTenant[o]) => step[o] \notin {"checked", "applied", "updated", "succeeded"}

\* An audit entry is written once, at the end.
TrailOK == \A e \in trail : step[e[1]] = e[2]

\* Whoever is between the check of a name and the COMMIT has the name for
\* itself, unless it was raced.
Claiming(o) == OpKind[o] = "create" /\ step[o] \in {"checked", "applied", "updated"}
ClaimOK(o) ==
  Claiming(o) =>
    /\ \A t \in Tenants : Exists(t) /\ row[t].name = OpName[o] => OpName[o] \in raced
    /\ \A p \in Operations : Claiming(p) /\ OpName[p] = OpName[o] => p = o \/ OpName[o] \in raced

\* What an operation leaves if nobody interferes.
AccountAfter(o) == IF OpKind[o] = "remove" THEN NoUser ELSE o
RowAfter(o) ==
  LET r == row[OpTenant[o]]
  IN r.enabled = (OpKind[o] # "remove") /\ r.named = r.enabled /\ ~r.error

\* An operation that has met no other one is the only one that runs on its
\* tenant, and finds what it wrote.
AloneOK(o) ==
  o \in alone =>
    /\ step[o] # "idle"
    /\ step[o] \in Running => Others(o) = {}
    /\ step[o] \in {"applied", "updated", "committed"} => localUser[OpTenant[o]] = AccountAfter(o)
    /\ Done(o) => RowAfter(o)
    /\ step[o] = "succeeded" /\ latest[OpTenant[o]] = o /\ Quiet(OpTenant[o]) =>
         localUser[OpTenant[o]] = AccountAfter(o) /\ RowAfter(o)

LatestOK ==
  \A t \in Tenants : latest[t] # NoUser => OpTenant[latest[t]] = t /\ step[latest[t]] \in Over

SftpInv ==
  /\ SftpTypeOK /\ TrailOK /\ LatestOK /\ NamesAreUnique
  /\ \A o \in Creations : CreationOK(o)
  /\ \A o \in Operations : FoundOK(o) /\ ClaimOK(o) /\ AloneOK(o)
-----------------------------------------------------------------------------
\* Rows of the table stay rows of the table.
LEMMA RowsStay ==
  ASSUME NEW r \in Rows, NEW kind
  PROVE  /\ Settled(r, kind) \in Rows /\ Settled(r, kind).name = r.name
         /\ Settled(r, kind).enabled = (kind # "remove")
         /\ Settled(r, kind).named = (kind # "remove") /\ ~Settled(r, kind).error
         /\ Blamed(r, kind) \in Rows /\ Blamed(r, kind).name = r.name
<1>1. Settled(r, kind) \in Rows /\ Settled(r, kind).name = r.name
  BY DEF Settled, Provisioned, Removed, Rows
<1>2. /\ Settled(r, kind).enabled = (kind # "remove")
      /\ Settled(r, kind).named = (kind # "remove") /\ ~Settled(r, kind).error
  BY DEF Settled, Provisioned, Removed, Rows
<1>3. Blamed(r, kind) \in Rows /\ Blamed(r, kind).name = r.name
  <2>1. CASE kind = "provision"
    BY <2>1 DEF Blamed, ProvisioningFailed, Rows
  <2>2. CASE kind = "rotate"
    BY <2>2 DEF Blamed, RotationFailed, Rows
  <2>3. CASE kind \notin {"provision", "rotate"}
    BY <2>3 DEF Blamed
  <2> QED
    BY <2>1, <2>2, <2>3
<1> QED
  BY <1>1, <1>2, <1>3

\* What Azure does is what the operation is for.
LEMMA AzureObeys ==
  ASSUME SftpTypeOK, NEW o \in Operations, ApplyToAzure(o)
  PROVE  /\ localUser' \in [Tenants -> Operations \cup {NoUser}]
         /\ localUser' = [localUser EXCEPT ![OpTenant[o]] = AccountAfter(o)]
         /\ localUser'[OpTenant[o]] = AccountAfter(o)
<1>1. OpTenant[o] \in Tenants
  BY DEF Tenants
<1>2. localUser' = [localUser EXCEPT ![OpTenant[o]] = AccountAfter(o)]
  BY DEF ApplyToAzure, PutUser, DropUser, AccountAfter
<1> QED
  BY <1>1, <1>2 DEF SftpTypeOK, AccountAfter

LEMMA CallKeeps ==
  ASSUME SftpInv, NEW o \in Operations, CallAzure(o)
  PROVE  SftpInv'
<1>0. OpTenant[o] \in Tenants
  BY DEF Tenants
<1>a. /\ localUser' \in [Tenants -> Operations \cup {NoUser}]
      /\ localUser' = [localUser EXCEPT ![OpTenant[o]] = AccountAfter(o)]
      /\ localUser'[OpTenant[o]] = AccountAfter(o)
  BY AzureObeys DEF SftpInv, CallAzure
<1>1. SftpTypeOK'
  BY <1>0, <1>a DEF SftpInv, SftpTypeOK, CallAzure, Go, history, Running
<1>2. TrailOK' /\ LatestOK'
  BY DEF SftpInv, SftpTypeOK, CallAzure, Go, history, TrailOK, LatestOK, Running, Over
<1>3. NamesAreUnique'
  BY DEF SftpInv, NamesAreUnique, CallAzure, Exists, history
<1>4. ASSUME NEW p \in Creations PROVE CreationOK(p)'
  <2>1. CASE p = o
    BY <1>0, <1>4, <1>a, <2>1, SftpAssumption DEF SftpInv, SftpTypeOK, CallAzure, Go, history,
     CreationOK, AccountAfter, Exists, Creations
  <2>2. CASE p # o /\ OpTenant[p] = OpTenant[o]
    <3>1. OpKind[o] # "create" /\ Exists(OpTenant[o])
      BY <1>4, <2>2, SftpAssumption DEF SftpInv, FoundOK, CallAzure, Creations
    <3> QED
      BY <1>0, <1>4, <1>a, <2>2, <3>1, SftpAssumption DEF SftpInv, SftpTypeOK, CallAzure, Go, history,
       CreationOK, AccountAfter, Exists, Creations
  <2>3. CASE OpTenant[p] # OpTenant[o]
    BY <1>0, <1>4, <1>a, <2>3, SftpAssumption DEF SftpInv, SftpTypeOK, CallAzure, Go, history,
     CreationOK, Exists, Creations
  <2> QED
    BY <2>1, <2>2, <2>3
<1>5. ASSUME NEW p \in Operations PROVE FoundOK(p)'
  BY <1>0, <1>5, SftpAssumption DEF SftpInv, SftpTypeOK, CallAzure, Go, history, FoundOK, Exists
<1>6. ASSUME NEW p \in Operations PROVE ClaimOK(p)'
  BY <1>0, <1>6, SftpAssumption DEF SftpInv, SftpTypeOK, CallAzure, Go, history, ClaimOK, Claiming, Exists
<1>7. ASSUME NEW p \in Operations PROVE AloneOK(p)'
  BY <1>0, <1>7, <1>a, SftpAssumption DEF SftpInv, SftpTypeOK, CallAzure, Go, history,
     AloneOK, Others, Done, Quiet, RowAfter, AccountAfter, Running, Over
<1> QED
  BY <1>1, <1>2, <1>3, <1>4, <1>5, <1>6, <1>7 DEF SftpInv

\* A failure, seen or unseen by Azure, leaves the row as it is.
LEMMA FailureKeeps ==
  ASSUME SftpInv, NEW o \in Operations,
         AzureRefuses(o) \/ AzureAnswerLost(o) \/ StatementFails(o) \/ MarkFails(o)
  PROVE  SftpInv'
<1>0. OpTenant[o] \in Tenants
  BY DEF Tenants
<1>1. PICK s \in {"failing", "marked"} :
        /\ step' = [step EXCEPT ![o] = s]
        /\ s = "failing" => step[o] \in {"checked", "applied", "updated"}
        /\ s = "marked" => step[o] = "failing" /\ OpKind[o] # "create"
        /\ step[o] = "updated" => OpKind[o] = "create"
  BY SftpAssumption DEF AzureRefuses, AzureAnswerLost, StatementFails, MarkFails, Mishap, Go
<1>2. /\ mishaps' \in 0 .. MaxMishaps /\ hurt' = hurt \cup {o}
      /\ UNCHANGED <<row, trail, unsure, alone, raced, latest>>
  BY SftpAssumption DEF AzureRefuses, AzureAnswerLost, StatementFails, MarkFails, Mishap, SftpInv, SftpTypeOK
<1>3. /\ localUser' \in [Tenants -> Operations \cup {NoUser}]
      /\ \/ localUser' = localUser
         \/ step[o] = "checked" /\ localUser' = [localUser EXCEPT ![OpTenant[o]] = AccountAfter(o)]
  BY AzureObeys DEF SftpInv, SftpTypeOK, AzureRefuses, AzureAnswerLost, StatementFails, MarkFails
<1>4. SftpTypeOK' /\ TrailOK' /\ LatestOK' /\ NamesAreUnique'
  BY <1>0, <1>1, <1>2, <1>3 DEF SftpInv, SftpTypeOK, TrailOK, LatestOK, NamesAreUnique, Exists, Running, Over
<1>5. ASSUME NEW p \in Creations PROVE CreationOK(p)'
  <2>1. CASE p = o
    BY <1>0, <1>1, <1>2, <1>3, <1>5, <2>1 DEF SftpInv, SftpTypeOK, CreationOK, AccountAfter, Exists, Creations
  <2>2. CASE p # o /\ OpTenant[p] = OpTenant[o]
    <3>1. OpKind[o] # "create" /\ (step[o] = "checked" => Exists(OpTenant[o]))
      BY <1>5, <2>2, SftpAssumption DEF SftpInv, FoundOK, Creations
    <3> QED
      BY <1>0, <1>1, <1>2, <1>3, <1>5, <2>2, <3>1, SftpAssumption
        DEF SftpInv, SftpTypeOK, CreationOK, AccountAfter, Exists, Creations
  <2>3. CASE OpTenant[p] # OpTenant[o]
    <3>1. p \in Operations /\ OpTenant[p] \in Tenants
      BY <1>5 DEF Creations, Tenants
    <3>2. /\ localUser'[OpTenant[p]] = localUser[OpTenant[p]] /\ step'[p] = step[p]
          /\ \A q \in Operations : step[q] # "idle" => step'[q] # "idle"
      BY <1>0, <1>1, <1>3, <2>3, <3>1 DEF SftpInv, SftpTypeOK
    <3> QED
      BY <1>2, <1>5, <3>1, <3>2 DEF SftpInv, CreationOK, Exists
  <2> QED
    BY <2>1, <2>2, <2>3
<1>6. ASSUME NEW p \in Operations PROVE FoundOK(p)' /\ ClaimOK(p)'
  BY <1>1, <1>2, <1>6 DEF SftpInv, SftpTypeOK, FoundOK, ClaimOK, Claiming, Exists
<1>7. ASSUME NEW p \in Operations PROVE AloneOK(p)'
  <2>1. CASE p = o
    BY <1>0, <1>1, <1>2, <1>7, <2>1 DEF SftpInv, SftpTypeOK, AloneOK, Others, Done, Running
  <2>2. CASE p # o /\ OpTenant[p] = OpTenant[o]
    BY <1>0, <1>1, <1>2, <1>7, <2>2 DEF SftpInv, SftpTypeOK, AloneOK, Others, Done, Quiet, Running
  <2>3. CASE OpTenant[p] # OpTenant[o]
    <3>1. OpTenant[p] \in Tenants /\ localUser'[OpTenant[p]] = localUser[OpTenant[p]]
      BY <1>0, <1>3, <1>7, <2>3 DEF SftpInv, SftpTypeOK, Tenants
    <3> QED
      BY <1>1, <1>2, <1>7, <2>3, <3>1
        DEF SftpInv, SftpTypeOK, AloneOK, Others, Done, Quiet, RowAfter, AccountAfter, Running
  <2> QED
    BY <2>1, <2>2, <2>3
<1> QED
  BY <1>4, <1>5, <1>6, <1>7 DEF SftpInv

\* Statements outside of a creation change a row that is there and leave its
\* name alone.
LEMMA RowKeeps ==
  ASSUME SftpInv, NEW o \in Operations, Update(o) \/ MarkFailure(o)
  PROVE  SftpInv'
<1>0. OpTenant[o] \in Tenants /\ row[OpTenant[o]] \in Rows \cup {NoRow}
  BY DEF Tenants, SftpInv, SftpTypeOK
<1>1. PICK s \in {"updated", "marked"} :
        /\ step' = [step EXCEPT ![o] = s]
        /\ s = "updated" => step[o] = "applied"
        /\ s = "marked" => step[o] = "failing"
        /\ UNCHANGED <<localUser, trail, mishaps, history>>
        /\ ~Exists(OpTenant[o]) => row' = row
        /\ Exists(OpTenant[o]) =>
             row' = [row EXCEPT ![OpTenant[o]] =
                       IF s = "updated" THEN Settled(row[OpTenant[o]], OpKind[o]) ELSE Blamed(row[OpTenant[o]], OpKind[o])]
  BY DEF Update, MarkFailure, Go
<1>2. /\ row' \in [Tenants -> Rows \cup {NoRow}]
      /\ \A t \in Tenants : (Exists(t)' <=> Exists(t)) /\ (Exists(t) => row'[t].name = row[t].name)
      /\ \A t \in Tenants \ {OpTenant[o]} : row'[t] = row[t]
      /\ s = "updated" /\ Exists(OpTenant[o]) => RowAfter(o)'
  <2>1. CASE ~Exists(OpTenant[o])
    BY <1>1, <2>1 DEF SftpInv, SftpTypeOK, Exists
  <2>2. CASE Exists(OpTenant[o])
    <3>1. row[OpTenant[o]] \in Rows
      BY <1>0, <2>2 DEF Exists
    <3> DEFINE r == IF s = "updated" THEN Settled(row[OpTenant[o]], OpKind[o]) ELSE Blamed(row[OpTenant[o]], OpKind[o])
    <3>2. r \in Rows /\ r.name = row[OpTenant[o]].name /\ r # NoRow
      BY <3>1, RowsStay, SftpAssumption
    <3>3. s = "updated" => r.enabled = (OpKind[o] # "remove") /\ r.named = r.enabled /\ ~r.error
      BY <3>1, RowsStay
    <3>4. row' = [row EXCEPT ![OpTenant[o]] = r]
      BY <1>1, <2>2
    <3> HIDE DEF r
    <3> QED
      BY <1>0, <2>2, <3>2, <3>3, <3>4 DEF SftpInv, SftpTypeOK, Exists, RowAfter
  <2> QED
    BY <2>1, <2>2
<1>3. SftpTypeOK' /\ TrailOK' /\ LatestOK'
  BY <1>1, <1>2 DEF SftpInv, SftpTypeOK, TrailOK, LatestOK, history, Running, Over
<1>4. NamesAreUnique'
  BY <1>1, <1>2 DEF SftpInv, NamesAreUnique, history
<1>5. ASSUME NEW p \in Creations PROVE CreationOK(p)'
  <2>1. OpTenant[p] \in Tenants
    BY <1>5 DEF Creations, Tenants
  <2> QED
    BY <1>1, <1>2, <1>5, <2>1 DEF SftpInv, SftpTypeOK, CreationOK, history, Creations
<1>6. ASSUME NEW p \in Operations PROVE FoundOK(p)' /\ ClaimOK(p)'
  <2>1. OpTenant[p] \in Tenants
    BY <1>6 DEF Tenants
  <2> QED
    BY <1>1, <1>2, <1>6, <2>1 DEF SftpInv, SftpTypeOK, FoundOK, ClaimOK, Claiming, history
<1>7. ASSUME NEW p \in Operations PROVE AloneOK(p)'
  <2>0. OpTenant[p] \in Tenants
    BY <1>7 DEF Tenants
  <2>1. CASE p = o
    <3>1. OpKind[o] # "create" /\ step[o] = "applied" => Exists(OpTenant[o])
      BY DEF SftpInv, FoundOK
    <3> QED
      BY <1>0, <1>1, <1>2, <1>7, <2>1, <3>1
        DEF SftpInv, SftpTypeOK, AloneOK, Others, Done, AccountAfter, history, Running
  <2>2. CASE p # o /\ OpTenant[p] = OpTenant[o]
    BY <1>1, <1>7, <2>2 DEF SftpInv, SftpTypeOK, AloneOK, Others, Done, Quiet, history, Running
  <2>3. CASE OpTenant[p] # OpTenant[o]
    <3>1. row'[OpTenant[p]] = row[OpTenant[p]]
      BY <1>2, <2>0, <2>3
    <3> QED
      BY <1>1, <1>7, <2>3, <3>1
        DEF SftpInv, SftpTypeOK, AloneOK, Others, Done, Quiet, RowAfter, AccountAfter, history, Running
  <2> QED
    BY <2>1, <2>2, <2>3
<1> QED
  BY <1>3, <1>4, <1>5, <1>6, <1>7 DEF SftpInv

\* A COMMIT makes the tenant, whose name it had to itself unless it was raced.
LEMMA CommitKeeps ==
  ASSUME SftpInv, NEW o \in Operations, Commit(o) \/ CommitUnconfirmed(o)
  PROVE  SftpInv'
<1>0. /\ OpTenant[o] \in Tenants /\ o \in Creations /\ step[o] = "updated" /\ OpKind[o] = "create"
      /\ OpTenant[o] \notin OldTenants /\ \A p \in Creations : OpTenant[p] = OpTenant[o] => p = o
  BY SftpAssumption DEF Tenants, Commit, CommitUnconfirmed, Creations
<1> DEFINE made == Provisioned(NewRow(OpName[o]))
<1>1. /\ made \in Rows /\ made.name = OpName[o] /\ made # NoRow
      /\ made.enabled = TRUE /\ made.named = TRUE /\ made.error = FALSE
  BY <1>0, SftpAssumption DEF Provisioned, NewRow, Rows
<1>2. row' = [row EXCEPT ![OpTenant[o]] = made]
  BY DEF Commit, CommitUnconfirmed, CreatedRow
<1> HIDE DEF made
<1>3. /\ row' \in [Tenants -> Rows \cup {NoRow}] /\ row'[OpTenant[o]] = made
      /\ \A t \in Tenants \ {OpTenant[o]} : row'[t] = row[t]
  BY <1>0, <1>1, <1>2 DEF SftpInv, SftpTypeOK
<1>4. PICK s \in {"committed", "failing"} :
        /\ step' = [step EXCEPT ![o] = s]
        /\ s = "committed" => hurt' = hurt /\ unsure' = unsure
        /\ s = "failing" => hurt' = hurt \cup {o} /\ unsure' = unsure \cup {o}
        /\ mishaps' \in 0 .. MaxMishaps
        /\ UNCHANGED <<localUser, trail, alone, raced, latest>>
  BY SftpAssumption DEF Commit, CommitUnconfirmed, Mishap, Go, history, SftpInv, SftpTypeOK
<1>5. SftpTypeOK' /\ TrailOK' /\ LatestOK'
  BY <1>0, <1>3, <1>4 DEF SftpInv, SftpTypeOK, TrailOK, LatestOK, Running, Over
<1>6. ~Exists(OpTenant[o]) /\ localUser[OpTenant[o]] = o /\ Claiming(o) /\ ClaimOK(o)
  BY <1>0 DEF SftpInv, CreationOK, Claiming
<1>7. NamesAreUnique'
  BY <1>1, <1>3, <1>4, <1>6 DEF SftpInv, NamesAreUnique, Exists, ClaimOK
<1>8. ASSUME NEW p \in Creations PROVE CreationOK(p)'
  <2>1. CASE p = o
    BY <1>0, <1>1, <1>3, <1>4, <1>6, <2>1, SftpAssumption DEF SftpInv, SftpTypeOK, CreationOK, Exists
  <2>2. CASE p # o
    <3>1. OpTenant[p] \in Tenants \ {OpTenant[o]} /\ p \in Operations
      BY <1>0, <1>8, <2>2 DEF Creations, Tenants
    <3> QED
      BY <1>0, <1>3, <1>4, <1>8, <2>2, <3>1 DEF SftpInv, SftpTypeOK, CreationOK, Exists
  <2> QED
    BY <2>1, <2>2
<1>9. ASSUME NEW p \in Operations PROVE FoundOK(p)' /\ ClaimOK(p)'
  <2>1. OpTenant[p] \in Tenants
    BY <1>9 DEF Tenants
  <2>2. FoundOK(p)'
    BY <1>0, <1>1, <1>3, <1>4, <1>9, <2>1 DEF SftpInv, SftpTypeOK, FoundOK, Exists
  <2>3. ASSUME Claiming(p)' PROVE p # o /\ Claiming(p)
    BY <1>0, <1>4, <1>9, <2>3 DEF SftpInv, SftpTypeOK, Claiming
  <2>4. ClaimOK(p)'
    BY <1>0, <1>1, <1>3, <1>4, <1>6, <1>9, <2>3 DEF SftpInv, SftpTypeOK, ClaimOK, Claiming, Exists
  <2> QED
    BY <2>2, <2>4
<1>10. ASSUME NEW p \in Operations PROVE AloneOK(p)'
  <2>0. OpTenant[p] \in Tenants
    BY <1>10 DEF Tenants
  <2>1. CASE p = o
    BY <1>0, <1>1, <1>3, <1>4, <1>6, <1>10, <2>1
      DEF SftpInv, SftpTypeOK, AloneOK, Others, Done, RowAfter, AccountAfter, Running
  <2>2. CASE p # o /\ OpTenant[p] = OpTenant[o]
    BY <1>0, <1>4, <1>10, <2>2 DEF SftpInv, SftpTypeOK, AloneOK, Others, Done, Quiet, Running
  <2>3. CASE OpTenant[p] # OpTenant[o]
    <3>1. row'[OpTenant[p]] = row[OpTenant[p]]
      BY <1>3, <2>0, <2>3
    <3> QED
      BY <1>0, <1>4, <1>10, <2>3, <3>1
        DEF SftpInv, SftpTypeOK, AloneOK, Others, Done, Quiet, RowAfter, AccountAfter, Running
  <2> QED
    BY <2>1, <2>2, <2>3
<1> QED
  BY <1>5, <1>7, <1>8, <1>9, <1>10 DEF SftpInv

\* An operation begins: those it meets are not alone any more, and neither is
\* it; a creation that finds its name free meets the others that have it.
LEMMA StartKeeps ==
  ASSUME SftpInv, NEW o \in Operations, CheckName(o) \/ CheckTenant(o)
  PROVE  SftpInv'
<1>0. OpTenant[o] \in Tenants
  BY DEF Tenants
<1>1. PICK s \in {"checked", "failing"} :
        /\ step' = [step EXCEPT ![o] = s]
        /\ step[o] = "idle"
        /\ OpKind[o] # "create" /\ s = "checked" => Exists(OpTenant[o])
        /\ OpKind[o] = "create" /\ s = "checked" => ~NameTaken(OpName[o])
        /\ UNCHANGED <<row, localUser, trail, mishaps, hurt, unsure, latest>>
  BY DEF CheckName, CheckTenant, Go
<1>2. /\ raced' \subseteq {OpName[p] : p \in Creations} /\ raced \subseteq raced'
      /\ OpKind[o] = "create" =>
           \A q \in Operations \ {o} : Claiming(q) /\ OpName[q] = OpName[o] => OpName[o] \in raced'
  <2>1. CASE CheckName(o)
    BY <2>1 DEF CheckName, SftpInv, SftpTypeOK, Claiming, Creations, Running
  <2>2. CASE CheckTenant(o)
    BY <2>2 DEF CheckTenant, SftpInv, SftpTypeOK
  <2> QED
    BY <2>1, <2>2
<1>3. /\ alone' \subseteq Operations
      /\ \A p \in alone' : p \in alone \/ p = o
      /\ \A p \in alone' : step[p] \in Running /\ OpTenant[p] = OpTenant[o] => p = o
      /\ o \in alone' => Others(o) = {}
  <2>1. o \notin alone
    BY <1>1 DEF SftpInv, AloneOK
  <2>2. Meet(o)
    BY DEF CheckName, CheckTenant
  <2>3. CASE Others(o) = {}
    BY <2>1, <2>2, <2>3 DEF Meet, Others, SftpInv, SftpTypeOK
  <2>4. CASE Others(o) # {}
    BY <2>1, <2>2, <2>4 DEF Meet, Others, SftpInv, SftpTypeOK
  <2> QED
    BY <2>3, <2>4
<1>4. SftpTypeOK' /\ TrailOK' /\ LatestOK' /\ NamesAreUnique'
  <2>1. SftpTypeOK'
    BY <1>1, <1>2, <1>3 DEF SftpInv, SftpTypeOK, Running
  <2>2. TrailOK' /\ LatestOK'
    BY <1>1 DEF SftpInv, SftpTypeOK, TrailOK, LatestOK, Over
  <2>3. NamesAreUnique'
    BY <1>1, <1>2 DEF SftpInv, NamesAreUnique, Exists
  <2> QED
    BY <2>1, <2>2, <2>3
<1>5. ASSUME NEW p \in Creations PROVE CreationOK(p)'
  <2>1. \A q \in Operations : step[q] # "idle" => step'[q] # "idle"
    BY <1>1 DEF SftpInv, SftpTypeOK
  <2> QED
    BY <1>1, <1>5, <2>1 DEF SftpInv, SftpTypeOK, CreationOK, Exists, Creations
<1>6. ASSUME NEW p \in Operations PROVE FoundOK(p)'
  BY <1>1, <1>6 DEF SftpInv, SftpTypeOK, FoundOK, Exists
<1>7. ASSUME NEW p \in Operations PROVE ClaimOK(p)'
  <2> SUFFICES ASSUME Claiming(p)' PROVE ClaimOK(p)'
    BY DEF ClaimOK
  <2>1. CASE p = o
    BY <1>1, <1>2, <1>7, <2>1 DEF SftpInv, SftpTypeOK, ClaimOK, Claiming, NameTaken, Exists
  <2>2. CASE p # o
    BY <1>1, <1>2, <1>7, <2>2 DEF SftpInv, SftpTypeOK, ClaimOK, Claiming, NameTaken, Exists
  <2> QED
    BY <2>1, <2>2
<1>8. ASSUME NEW p \in Operations PROVE AloneOK(p)'
  <2>1. CASE p = o
    BY <1>1, <1>3, <1>8, <2>1 DEF SftpInv, SftpTypeOK, AloneOK, Others, Done, Running
  <2>2. CASE p # o /\ OpTenant[p] = OpTenant[o]
    BY <1>1, <1>3, <1>8, <2>2 DEF SftpInv, SftpTypeOK, AloneOK, Others, Done, Quiet, Running
  <2>3. CASE OpTenant[p] # OpTenant[o]
    BY <1>1, <1>3, <1>8, <2>3
      DEF SftpInv, SftpTypeOK, AloneOK, Others, Done, Quiet, RowAfter, AccountAfter, Running
  <2> QED
    BY <2>1, <2>2, <2>3
<1> QED
  BY <1>4, <1>5, <1>6, <1>7, <1>8 DEF SftpInv

\* An operation ends, and its tenant is left as it is.
LEMMA ReportKeeps ==
  ASSUME SftpInv, NEW o \in Operations, Report(o) \/ ReportUnwritten(o)
  PROVE  SftpInv'
<1>0. OpTenant[o] \in Tenants
  BY DEF Tenants
<1>1. PICK s \in {"succeeded", "failed"} :
        /\ step' = [step EXCEPT ![o] = s]
        /\ s = "succeeded" => Done(o)
        /\ s = "failed" => step[o] = "marked"
        /\ mishaps' \in 0 .. MaxMishaps /\ hurt' \in {hurt, hurt \cup {o}}
        /\ trail' \subseteq trail \cup {<<o, s>>}
        /\ latest' = [latest EXCEPT ![OpTenant[o]] = o]
        /\ UNCHANGED <<row, localUser, unsure, alone, raced>>
  <2>1. CASE Report(o)
    BY <2>1 DEF Report, Go, SftpInv, SftpTypeOK
  <2>2. CASE ReportUnwritten(o)
    <3> DEFINE s == IF Done(o) THEN "succeeded" ELSE "failed"
    <3>1. Mishap(o, s) /\ mishaps' \in 0 .. MaxMishaps
      BY <2>2, SftpAssumption DEF ReportUnwritten, Mishap, SftpInv, SftpTypeOK
    <3>2. step' = [step EXCEPT ![o] = s] /\ hurt' = hurt \cup {o}
      BY <3>1 DEF Mishap, Go
    <3>3. /\ s \in {"succeeded", "failed"} /\ (s = "succeeded" => Done(o))
          /\ s = "failed" => step[o] = "marked"
      BY <2>2 DEF ReportUnwritten
    <3> HIDE DEF s
    <3> QED
      BY <2>2, <3>1, <3>2, <3>3 DEF ReportUnwritten
  <2> QED
    BY <2>1, <2>2
<1>2. step[o] \in {"updated", "committed", "marked"}
  BY <1>1 DEF Done
<1>3. SftpTypeOK' /\ NamesAreUnique'
  BY <1>0, <1>1 DEF SftpInv, SftpTypeOK, NamesAreUnique, Exists, Over
<1>4. TrailOK'
  <2>1. \A e \in trail : e[1] # o
    BY <1>2 DEF SftpInv, SftpTypeOK, TrailOK
  <2>2. \A e \in trail : e[1] \in Operations
    BY DEF SftpInv, SftpTypeOK
  <2> QED
    BY <1>1, <2>1, <2>2 DEF SftpInv, SftpTypeOK, TrailOK
<1>5. LatestOK'
  BY <1>0, <1>1 DEF SftpInv, SftpTypeOK, LatestOK, Over
<1>6. ASSUME NEW p \in Creations PROVE CreationOK(p)'
  <2>0. p \in Operations /\ OpTenant[p] \in Tenants
    BY <1>6 DEF Creations, Tenants
  <2>1. \A q \in Operations : step[q] # "idle" => step'[q] # "idle"
    BY <1>1 DEF SftpInv, SftpTypeOK
  <2>2. CASE p = o
    BY <1>1, <1>2, <1>6, <2>0, <2>1, <2>2 DEF SftpInv, SftpTypeOK, CreationOK, Done, Exists, Creations
  <2>3. CASE p # o
    <3>1. step'[p] = step[p] /\ hurt \subseteq hurt'
      BY <1>1, <2>0, <2>3 DEF SftpInv, SftpTypeOK
    <3> QED
      BY <1>1, <1>6, <2>1, <3>1 DEF SftpInv, CreationOK, Exists
  <2> QED
    BY <2>2, <2>3
<1>7. ASSUME NEW p \in Operations PROVE FoundOK(p)' /\ ClaimOK(p)'
  <2>1. FoundOK(p)'
    BY <1>1, <1>2, <1>7 DEF SftpInv, SftpTypeOK, FoundOK, Done, Exists
  <2>2. ClaimOK(p)'
    BY <1>1, <1>7 DEF SftpInv, SftpTypeOK, ClaimOK, Claiming, Exists
  <2> QED
    BY <2>1, <2>2
<1>8. ASSUME NEW p \in Operations PROVE AloneOK(p)'
  <2>1. CASE p = o
    <3>1. step'[o] = s /\ s \notin Running /\ ~Done(o)'
      BY <1>1 DEF SftpInv, SftpTypeOK, Done, Running
    <3>2. (RowAfter(o)' <=> RowAfter(o)) /\ AccountAfter(o)' = AccountAfter(o)
      BY <1>1 DEF RowAfter, AccountAfter
    <3>3. o \in alone /\ Done(o) => localUser[OpTenant[o]] = AccountAfter(o) /\ RowAfter(o)
      BY DEF SftpInv, AloneOK, Done
    <3> QED
      BY <1>1, <2>1, <3>1, <3>2, <3>3 DEF AloneOK, Running
  <2>2. CASE p # o /\ OpTenant[p] = OpTenant[o]
    BY <1>0, <1>1, <1>2, <1>8, <2>2 DEF SftpInv, SftpTypeOK, AloneOK, Others, Done, Running
  <2>3. CASE OpTenant[p] # OpTenant[o]
    BY <1>0, <1>1, <1>8, <2>3
      DEF SftpInv, SftpTypeOK, AloneOK, Others, Done, Quiet, RowAfter, AccountAfter, Running
  <2> QED
    BY <2>1, <2>2, <2>3
<1> QED
  BY <1>3, <1>4, <1>5, <1>6, <1>7, <1>8 DEF SftpInv

\* All that run end at once; a tenant on which somebody ran is nobody's.
LEMMA DeathKeeps ==
  ASSUME SftpInv, GatewayDies
  PROVE  SftpInv'
<1> DEFINE dead == {o \in Operations : step[o] \in Running}
<1>1. /\ step' = [o \in Operations |-> IF o \in dead THEN "gone" ELSE step[o]]
      /\ hurt' = hurt \cup dead /\ mishaps' \in 0 .. MaxMishaps
      /\ UNCHANGED <<row, localUser, trail, unsure, alone, raced>>
  BY SftpAssumption DEF GatewayDies, SftpInv, SftpTypeOK
<1>2. ASSUME NEW t \in Tenants
      PROVE  \/ latest'[t] = latest[t] /\ \A o \in dead : OpTenant[o] # t
             \/ latest'[t] \in dead /\ OpTenant[latest'[t]] = t
  <2> DEFINE d == {o \in dead : OpTenant[o] = t}
  <2>1. latest'[t] = IF d = {} THEN latest[t] ELSE CHOOSE o \in d : TRUE
    BY <1>2 DEF GatewayDies
  <2>2. d # {} => (CHOOSE o \in d : TRUE) \in d
    OBVIOUS
  <2> QED
    BY <2>1, <2>2
<1>3. SftpTypeOK' /\ TrailOK' /\ NamesAreUnique'
  <2>1. latest' \in [Tenants -> Operations \cup {NoUser}]
    <3>1. latest' = [t \in Tenants |-> latest'[t]]
      BY DEF GatewayDies
    <3> QED
      BY <1>2, <3>1 DEF SftpInv, SftpTypeOK
  <2>2. SftpTypeOK'
    BY <1>1, <2>1 DEF SftpInv, SftpTypeOK, Over
  <2>3. TrailOK'
    BY <1>1 DEF SftpInv, SftpTypeOK, TrailOK, Running
  <2>4. NamesAreUnique'
    BY <1>1 DEF SftpInv, NamesAreUnique, Exists
  <2> QED
    BY <2>2, <2>3, <2>4
<1>4. LatestOK'
  BY <1>1, <1>2 DEF SftpInv, SftpTypeOK, LatestOK, Running, Over
<1>5. ASSUME NEW p \in Creations PROVE CreationOK(p)'
  <2>1. p \in Operations /\ \A q \in Operations : step[q] # "idle" => step'[q] # "idle"
    BY <1>1, <1>5 DEF SftpInv, SftpTypeOK, Creations, Running
  <2>2. CASE p \in dead
    BY <1>1, <1>5, <2>1, <2>2 DEF SftpInv, SftpTypeOK, CreationOK, Exists
  <2>3. CASE p \notin dead
    BY <1>1, <1>5, <2>1, <2>3 DEF SftpInv, SftpTypeOK, CreationOK, Exists, Running
  <2> QED
    BY <2>2, <2>3
<1>6. ASSUME NEW p \in Operations PROVE FoundOK(p)' /\ ClaimOK(p)'
  <2>1. FoundOK(p)'
    BY <1>1, <1>6 DEF SftpInv, SftpTypeOK, FoundOK, Exists, Running
  <2>2. ClaimOK(p)'
    BY <1>1, <1>6 DEF SftpInv, SftpTypeOK, ClaimOK, Claiming, Running
  <2> QED
    BY <2>1, <2>2
<1>7. ASSUME NEW p \in Operations PROVE AloneOK(p)'
  <2>0. OpTenant[p] \in Tenants
    BY <1>7 DEF Tenants
  <2>1. step'[p] \notin Running /\ (step'[p] = "succeeded" => step[p] = "succeeded") /\ ~Done(p)'
        /\ (step[p] # "idle" => step'[p] # "idle")
    BY <1>1, <1>7 DEF SftpInv, SftpTypeOK, Running, Done
  <2>2. ASSUME step[p] = "succeeded", latest'[OpTenant[p]] = p
        PROVE  latest[OpTenant[p]] = p /\ Quiet(OpTenant[p])
    BY <1>2, <2>0, <2>2 DEF Quiet, Running
  <2>3. step'[p] \notin {"applied", "updated", "committed"}
    BY <2>1 DEF Running
  <2> QED
    BY <1>1, <1>7, <2>1, <2>2, <2>3 DEF SftpInv, AloneOK, RowAfter, AccountAfter
<1> QED
  BY <1>3, <1>4, <1>5, <1>6, <1>7 DEF SftpInv

LEMMA SftpStarts == SftpInit => SftpInv
<1> SUFFICES ASSUME SftpInit PROVE SftpInv
  OBVIOUS
<1>1. ASSUME NEW t \in OldTenants PROVE NewRow(NoName) \in Rows
  BY DEF NewRow, Rows
<1>2. SftpTypeOK
  BY <1>1, SftpAssumption DEF SftpInit, SftpTypeOK
<1>3. TrailOK /\ LatestOK
  BY DEF SftpInit, TrailOK, LatestOK
<1>4. NamesAreUnique
  BY DEF SftpInit, NamesAreUnique, Exists, NewRow
<1>5. ASSUME NEW o \in Creations PROVE CreationOK(o)
  <2>1. OpTenant[o] \in Tenants \ OldTenants /\ o \in Operations
    BY <1>5, SftpAssumption DEF Tenants, Creations
  <2> QED
    BY <1>5, <2>1 DEF SftpInit, CreationOK, Exists
<1>6. ASSUME NEW o \in Operations PROVE FoundOK(o) /\ ClaimOK(o) /\ AloneOK(o)
  BY <1>6 DEF SftpInit, FoundOK, ClaimOK, Claiming, AloneOK
<1> QED
  BY <1>2, <1>3, <1>4, <1>5, <1>6 DEF SftpInv

\* Every step keeps the invariant.
LEMMA SftpKeeps == SftpInv /\ [SftpNext]_sftpVars => SftpInv'
<1> SUFFICES ASSUME SftpInv, [SftpNext]_sftpVars PROVE SftpInv'
  OBVIOUS
<1>1. CASE UNCHANGED sftpVars
  BY <1>1 DEF sftpVars, history, SftpInv, SftpTypeOK, TrailOK, LatestOK, NamesAreUnique, CreationOK, FoundOK,
    ClaimOK, Claiming, AloneOK, Others, Done, Quiet, RowAfter, AccountAfter, Exists
<1>2. CASE SftpNext
  BY <1>2, CallKeeps, FailureKeeps, RowKeeps, CommitKeeps, StartKeeps, ReportKeeps, DeathKeeps DEF SftpNext
<1> QED
  BY <1>1, <1>2

LEMMA SftpInvariant == SftpSpec => []SftpInv
  BY SftpStarts, SftpKeeps, PTL DEF SftpSpec

\* Types of the operations, the tenants and the accounts.
THEOREM SftpTypeCorrect == SftpSpec => []SftpTypeOK
<1>1. SftpInv => SftpTypeOK
  BY DEF SftpInv
<1> QED
  BY SftpInvariant, <1>1, PTL

\* However creations, provisioning, rotation and removal interleave, fail and
\* end with the gateway: an account is that of a tenant, of a creation that
\* runs or of one that met a failure, and a tenant that was created has an
\* account until one is removed (adminApi.ts:236).
THEOREM NoOrphanAccounts == SftpSpec => []AccountsHaveTenants
<1>1. SftpInv => AccountsHaveTenants
  <2> SUFFICES ASSUME SftpInv, NEW o \in Creations
               PROVE  LET t == OpTenant[o]
                      IN /\ localUser[t] # NoUser /\ ~Exists(t) => step[o] \in Running \/ o \in hurt
                         /\ Exists(t) /\ localUser[t] = NoUser =>
                              \E p \in Operations : OpTenant[p] = t /\ OpKind[p] = "remove" /\ step[p] # "idle"
    BY DEF AccountsHaveTenants
  <2> QED
    BY DEF SftpInv, CreationOK, Running
<1> QED
  BY SftpInvariant, <1>1, PTL

\* An operation that succeeds and has met no other one leaves row and account
\* in agreement, until the next one begins on that tenant.
THEOREM SuccessIsSettled == SftpSpec => []SuccessSettles
<1>1. SftpInv => SuccessSettles
  <2> SUFFICES ASSUME SftpInv, NEW t \in Tenants, NEW o \in alone,
                      latest[t] = o, step[o] = "succeeded", Quiet(t)
               PROVE  /\ row[t].enabled <=> localUser[t] # NoUser
                      /\ row[t].named <=> row[t].enabled
                      /\ ~row[t].error
                      /\ localUser[t] = IF OpKind[o] = "remove" THEN NoUser ELSE o
    BY DEF SuccessSettles
  <2>1. o \in Operations /\ o # NoUser
    BY SftpAssumption DEF SftpInv, SftpTypeOK
  <2>2. OpTenant[o] = t
    BY <2>1 DEF SftpInv, LatestOK
  <2>3. localUser[t] = AccountAfter(o) /\ RowAfter(o)
    BY <2>1, <2>2 DEF SftpInv, AloneOK
  <2> QED
    BY <2>1, <2>2, <2>3 DEF RowAfter, AccountAfter
<1> QED
  BY SftpInvariant, <1>1, PTL

\* Two tenants have one name only if their creations overlapped: the name is
\* looked up by a statement of its own (adminApi.ts, TENANT_EXISTS).
THEOREM NamesStayUnique == SftpSpec => []NamesAreUnique
<1>1. SftpInv => NamesAreUnique
  BY DEF SftpInv
<1> QED
  BY SftpInvariant, <1>1, PTL

\* The audit log tells of a creation what became of it, unless its COMMIT was
\* not confirmed.
THEOREM CreationAuditStaysTrue == SftpSpec => []CreationAuditIsTrue
<1>1. SftpInv => CreationAuditIsTrue
  <2> SUFFICES ASSUME SftpInv, NEW o \in Creations
               PROVE  /\ <<o, "succeeded">> \in trail => Exists(OpTenant[o])
                      /\ <<o, "failed">> \in trail => (Exists(OpTenant[o]) <=> o \in unsure)
    BY DEF CreationAuditIsTrue
  <2>1. \A outcome : <<o, outcome>> \in trail => step[o] = outcome
    BY DEF SftpInv, TrailOK
  <2> QED
    BY <2>1 DEF SftpInv, CreationOK
<1> QED
  BY SftpInvariant, <1>1, PTL
-----------------------------------------------------------------------------
(***************************************************************************)
(* Accounts: tokens, requests and the rate limit.                          *)
(***************************************************************************)

Home(r) == HomeTenant[r.task.by]
Goal(r) == HomeTenant[r.task.on]

Handling == {"find", "manage", "their_group", "own_group", "scope", "scoped",
             "name", "new_group", "write"}

\* Whoever has a role now has had it up to now.
GoodOK == \A p \in People, r \in Roles : IsActive(p, r) => good[p][r] = now + 1

\* A token outlives the role by its own life and the login that issued it.
TokensOK ==
  \A p \in People : \A t \in tokens[p] : t.exp + 1 <= good[p][t.role] + TTL + Patience

\* The window that is being counted began no later than the latest admission,
\* and MAX_REQUESTS admissions before its first lie a window behind it.
Windowed(b, a) ==
  /\ b = NoBucket => a = <<>>
  /\ b # NoBucket => b.count >= 1 /\ Len(a) >= 1 /\ a[1] >= b.start
  /\ \A i \in 1 .. Len(a) :
       /\ i >= b.count => a[i] <= b.start
       /\ i >= b.count + MAX_REQUESTS => a[i] + WINDOW <= b.start

BucketOK(p) == Windowed(bucket[p], admitted[p])

\* A login found the role when it began, any other request a token.
TimelyOK(r) ==
  LET until == good[r.task.by][r.role]
  IN IF r.pc = "issue" THEN r.since + 1 <= until ELSE r.since + 1 < until + TTL + Patience

\* A tenant that is active now was so at some moment of the request.
TenantOK(r) ==
  /\ Home(r) \in open => r.open
  /\ r.pc = "admit" /\ r.role # "DEVELOPER" => r.open

\* Tenants that share a group now did so at some moment of the request; so
\* did those between whose two reads no more than one group was assigned.
ScopeOK(r) ==
  /\ r.task.on \in People /\ SameGroup(Home(r), Goal(r), groupOf) => r.shared
  /\ r.pc = "own_group" =>
       /\ r.moves = 0 => r.read = groupOf[Goal(r)]
       /\ r.moves <= 1 /\ r.read # NoGroup /\ groupOf[Home(r)] = r.read => r.shared
  /\ r.pc = "write" /\ r.role = "DEALERADMIN" /\ r.moves <= 1
       /\ r.task.kind \in UserKinds \cup {"add_user"} /\ Goal(r) # NoTenant => r.shared

\* Which requests come to which statement.
PlaceOK(r) ==
  /\ r.pc \in Handling =>
       /\ Home(r) \in Dealers
       /\ r.task.kind \in {"add_user", "set_role"} => r.task.value \in Roles
  /\ r.pc = "find" => r.task.kind \in UserKinds
  /\ r.pc \in {"manage", "their_group", "own_group"} => r.task.kind \in UserKinds \cup {"add_user"}
  /\ r.pc \in {"their_group", "own_group"} => Goal(r) \in Dealers
  /\ r.pc \in {"scope", "scoped"} => r.task.kind = "set_tenant"
  /\ r.pc \in {"name", "new_group"} => r.task.kind = "assign_group" /\ r.task.value \in GroupNames

RequestOK(r) ==
  r # NoRequest =>
    /\ r \in Requests /\ now - r.since <= Patience
    /\ TimelyOK(r) /\ TenantOK(r) /\ ScopeOK(r) /\ PlaceOK(r)

RequestsOK ==
  /\ req = [s \in Slots |-> req[s]]
  /\ \A s \in Slots : RequestOK(req[s])

AccInv ==
  /\ AccTypeOK /\ GoodOK /\ TokensOK /\ RequestsOK
  /\ tokens = [p \in People |-> tokens[p]]
  /\ admitted = [p \in People |-> admitted[p]]
  /\ \A p \in People : BucketOK(p)
-----------------------------------------------------------------------------
Places == {"issue", "guard", "admit"} \cup Handling

\* What a request may be about.
LEMMA TaskFacts ==
  ASSUME NEW t \in Tasks
  PROVE  /\ t.by \in People
         /\ t.kind \in UserKinds \cup {"login", "use", "add_user"} => t.on \in People
         /\ t.kind \in {"set_tenant", "assign_group"} => t.on \in Dealers
         /\ t.kind = "add_group" => t.value \in GroupNames
         /\ t.kind = "assign_group" => t.value \in Groups \cup GroupNames \cup {NoGroup}
BY DEF Tasks, UserKinds

\* Requests are not disturbed by accounts that gain a role.
LEMMA RequestStays ==
  ASSUME NEW r, RequestOK(r), UNCHANGED <<now, open, groupOf>>, AccTypeOK,
         good' \in [People -> [Roles -> 0 .. now + 1]],
         \A p \in People, role \in Roles : good[p][role] <= good'[p][role]
  PROVE  RequestOK(r)'
<1>1. CASE r = NoRequest
  BY <1>1 DEF RequestOK
<1>2. CASE r # NoRequest
  <2>1. r \in Requests /\ r \in Requests' /\ r.task.by \in People /\ r.role \in Roles /\ r.since \in Nat
    BY <1>2, TaskFacts DEF RequestOK, Requests, AccTypeOK
  <2>2. TimelyOK(r)'
    <3>1. good[r.task.by][r.role] <= good'[r.task.by][r.role]
      BY <2>1
    <3>2. good[r.task.by][r.role] \in Nat /\ good'[r.task.by][r.role] \in Nat
      BY <2>1 DEF AccTypeOK
    <3> QED
      BY <1>2, <2>1, <3>1, <3>2, AccountsAssumption DEF RequestOK, TimelyOK
  <2>3. TenantOK(r)' /\ ScopeOK(r)' /\ PlaceOK(r)'
    BY <1>2 DEF RequestOK, TenantOK, ScopeOK, PlaceOK, SameGroup
  <2> QED
    BY <1>2, <2>1, <2>2, <2>3 DEF RequestOK
<1> QED
  BY <1>1, <1>2

LEMMA SlotChanges ==
  ASSUME AccInv, NEW s \in Slots, NEW r, RequestOK(r), req' = [req EXCEPT ![s] = r],
         UNCHANGED <<now, open, groupOf>>,
         good' \in [People -> [Roles -> 0 .. now + 1]],
         \A p \in People, role \in Roles : good[p][role] <= good'[p][role]
  PROVE  RequestsOK'
<1>1. req' = [q \in Slots |-> req'[q]]
  BY DEF AccInv, RequestsOK
<1>2. ASSUME NEW q \in Slots PROVE RequestOK(req[q])'
  <2>1. ASSUME NEW y, y = req'[q] PROVE RequestOK(y)'
    <3>1. RequestOK(y)
      BY <2>1 DEF AccInv, RequestsOK
    <3> QED
      BY <3>1, RequestStays DEF AccInv
  <2> QED
    BY <2>1
<1> QED
  BY <1>1, <1>2 DEF RequestsOK

\* A step of one request that leaves everything else alone.
LEMMA QuietKeeps ==
  ASSUME AccInv, NEW s \in Slots, NEW r, RequestOK(r), req' = [req EXCEPT ![s] = r], Unchanged
  PROVE  AccInv'
<1>1. RequestsOK'
  <2>1. good \in [People -> [Roles -> 0 .. now + 1]] /\ now \in Nat
    BY AccountsAssumption DEF AccInv, AccTypeOK
  <2>2. \A p \in People, role \in Roles : good[p][role] \in Nat
    BY <2>1
  <2>3. UNCHANGED <<now, open, groupOf>> /\ good' = good
    BY DEF Unchanged, tables
  <2>4. \A p \in People, role \in Roles : good[p][role] <= good'[p][role]
    BY <2>2, <2>3
  <2>5. good' \in [People -> [Roles -> 0 .. now + 1]]
    BY <2>1, <2>3
  <2> QED
    BY <2>3, <2>4, <2>5, SlotChanges
<1>2. AccTypeOK'
  BY <1>1 DEF AccInv, AccTypeOK, Unchanged, tables, RequestsOK, RequestOK, Requests
<1>3. GoodOK' /\ TokensOK' /\ \A p \in People : BucketOK(p)'
  BY DEF AccInv, GoodOK, IsActive, TokensOK, BucketOK, Unchanged, tables
<1>4. tokens' = [p \in People |-> tokens'[p]] /\ admitted' = [p \in People |-> admitted'[p]]
  BY DEF AccInv, Unchanged
<1> QED
  BY <1>1, <1>2, <1>3, <1>4 DEF AccInv

LEMMA EndKeeps ==
  ASSUME AccInv, NEW s \in Slots, End(s), Unchanged
  PROVE  AccInv'
<1>1. RequestOK(NoRequest)
  BY DEF RequestOK
<1> QED
  BY <1>1, QuietKeeps DEF End

\* What is known of a request under way.
LEMMA RequestFacts ==
  ASSUME AccInv, NEW s \in Slots, req[s] # NoRequest
  PROVE  /\ req[s] \in Requests /\ req[s].task \in Tasks /\ By(s) \in People /\ now \in Nat
         /\ req[s].since \in 0 .. now /\ now - req[s].since <= Patience
         /\ req[s].role \in Roles /\ req[s].read \in Groups \cup {NoGroup}
         /\ req[s].moves \in 0 .. 2 /\ req[s].open \in BOOLEAN /\ req[s].shared \in BOOLEAN
         /\ TenantOf(s) \in Dealers \cup {NoTenant}
         /\ req[s].task.on \in People => Target(s) \in Dealers \cup {NoTenant}
         /\ TimelyOK(req[s]) /\ TenantOK(req[s]) /\ ScopeOK(req[s]) /\ PlaceOK(req[s])
<1>1. RequestOK(req[s])
  BY DEF AccInv, RequestsOK
<1>2. now \in Nat
  BY AccountsAssumption DEF AccInv, AccTypeOK
<1>3. req[s] \in Requests /\ req[s].task \in Tasks /\ now - req[s].since <= Patience
  BY <1>1 DEF RequestOK, Requests
<1>4. By(s) \in People
  BY <1>3, TaskFacts DEF By
<1> QED
  BY <1>1, <1>2, <1>3, <1>4, AccountsAssumption DEF RequestOK, Requests, By, TenantOf, Target

\* A request that goes on with what it has.
LEMMA GoesOn ==
  ASSUME AccInv, NEW s \in Slots, req[s] # NoRequest, req[s].pc # "issue",
         NEW x \in Requests, x.pc # "issue",
         x.task = req[s].task, x.since = req[s].since, x.role = req[s].role,
         x.open = req[s].open, x.shared = req[s].shared, x.moves = req[s].moves,
         x.pc = "admit" /\ x.role # "DEVELOPER" => x.open,
         ScopeOK(req[s]) => ScopeOK(x),
         PlaceOK(x)
  PROVE  RequestOK(x)
<1>1. now - x.since <= Patience /\ TenantOK(req[s]) /\ TimelyOK(req[s]) /\ ScopeOK(req[s])
  BY RequestFacts
<1>2. TenantOK(x)
  BY <1>1 DEF TenantOK, Home
<1>3. TimelyOK(x)
  BY <1>1 DEF TimelyOK
<1> QED
  BY <1>1, <1>2, <1>3 DEF RequestOK
-----------------------------------------------------------------------------
LEMMA GuardTenantKeeps ==
  ASSUME AccInv, NEW s \in Slots, GuardTenant(s)
  PROVE  AccInv'
<1>1. Unchanged /\ At(s, "guard")
  BY DEF GuardTenant, Unchanged
<1>2. CASE End(s)
  BY <1>1, <1>2, EndKeeps
<1>3. CASE TenantOf(s) \in open /\ Advance(s, "admit")
  <2> DEFINE x == [req[s] EXCEPT !.pc = "admit"]
  <2>1. /\ x \in Requests /\ x.pc = "admit" /\ x.task = req[s].task /\ x.since = req[s].since
        /\ x.role = req[s].role /\ x.open = req[s].open /\ x.shared = req[s].shared
        /\ x.moves = req[s].moves
    BY <1>1, RequestFacts DEF At, Requests
  <2> HIDE DEF x
  <2>2. req[s].open
    BY <1>1, <1>3, RequestFacts DEF At, TenantOK, Home, TenantOf, By
  <2>3. ScopeOK(req[s]) => ScopeOK(x)
    BY <2>1 DEF ScopeOK, Home, Goal
  <2>4. PlaceOK(x)
    BY <2>1 DEF PlaceOK, Handling
  <2>5. RequestOK(x)
    BY <1>1, <2>1, <2>2, <2>3, <2>4, GoesOn DEF At
  <2> QED
    BY <1>1, <1>3, <2>5, QuietKeeps DEF Advance, x
<1> QED
  BY <1>2, <1>3 DEF GuardTenant

\* A statement of a handler that changes nothing but where its request stands.
LEMMA StepKeeps ==
  ASSUME AccInv, NEW s \in Slots, NEW from \in Handling, At(s, from), NEW pc \in Handling,
         NEW g \in Groups \cup {NoGroup},
         AdvanceWith(s, pc, g) \/ (Advance(s, pc) /\ g = req[s].read),
         \A x : /\ x.pc = pc /\ x.read = g /\ x.task = req[s].task /\ x.role = req[s].role
                /\ x.shared = req[s].shared /\ x.moves = req[s].moves
                => ScopeOK(x) /\ PlaceOK(x),
         Unchanged
  PROVE  AccInv'
<1>1. req[s] \in Requests /\ pc \in Places /\ pc \notin {"issue", "admit"}
      /\ req[s] # NoRequest /\ req[s].pc # "issue"
  BY RequestFacts DEF At, Handling, Places
<1>2. ASSUME NEW x \in Requests, req' = [req EXCEPT ![s] = x],
             x.pc = pc, x.read = g, x.task = req[s].task, x.since = req[s].since,
             x.role = req[s].role, x.open = req[s].open, x.shared = req[s].shared,
             x.moves = req[s].moves
      PROVE  AccInv'
  <2>1. ScopeOK(x) /\ PlaceOK(x)
    BY <1>2
  <2>2. RequestOK(x)
    BY <1>1, <1>2, <2>1, GoesOn
  <2> QED
    BY <1>2, <2>2, QuietKeeps
<1>3. CASE AdvanceWith(s, pc, g)
  <2> DEFINE x == [req[s] EXCEPT !.pc = pc, !.read = g]
  <2>1. /\ x \in Requests /\ x.pc = pc /\ x.read = g /\ x.task = req[s].task
        /\ x.since = req[s].since /\ x.role = req[s].role /\ x.open = req[s].open
        /\ x.shared = req[s].shared /\ x.moves = req[s].moves
    BY <1>1 DEF Requests, Places, Handling
  <2>2. req' = [req EXCEPT ![s] = x]
    BY <1>3 DEF AdvanceWith
  <2> HIDE DEF x
  <2> QED
    BY <1>2, <2>1, <2>2
<1>4. CASE Advance(s, pc) /\ g = req[s].read
  <2> DEFINE x == [req[s] EXCEPT !.pc = pc]
  <2>1. /\ x \in Requests /\ x.pc = pc /\ x.read = g /\ x.task = req[s].task
        /\ x.since = req[s].since /\ x.role = req[s].role /\ x.open = req[s].open
        /\ x.shared = req[s].shared /\ x.moves = req[s].moves
    BY <1>1, <1>4 DEF Requests, Places, Handling
  <2>2. req' = [req EXCEPT ![s] = x]
    BY <1>4 DEF Advance
  <2> HIDE DEF x
  <2> QED
    BY <1>2, <2>1, <2>2
<1> QED
  BY <1>3, <1>4

LEMMA FindUserKeeps ==
  ASSUME AccInv, NEW s \in Slots, FindUser(s)
  PROVE  AccInv'
<1>1. Unchanged /\ At(s, "find") /\ req[s].read \in Groups \cup {NoGroup}
  BY RequestFacts DEF FindUser, At
<1>2. ASSUME NEW x, x.pc = "manage", x.task = req[s].task
      PROVE  PlaceOK(x)
  BY <1>1, <1>2, RequestFacts DEF PlaceOK, At, Handling, Home
<1>3. ASSUME NEW x, x.pc = "manage", x.task = req[s].task, x.shared = req[s].shared
      PROVE  ScopeOK(x)
  BY <1>1, <1>3, RequestFacts DEF ScopeOK, At, Home, Goal
<1>4. CASE Advance(s, "manage")
  BY <1>1, <1>2, <1>3, <1>4, StepKeeps DEF Handling
<1> QED
  BY <1>1, <1>4, EndKeeps DEF FindUser

\* A dealer administrator writes without reading groups only what is in no tenant.
LEMMA ManageKeeps ==
  ASSUME AccInv, NEW s \in Slots, Manage(s)
  PROVE  AccInv'
<1>1. Unchanged /\ At(s, "manage") /\ req[s].read \in Groups \cup {NoGroup}
  BY RequestFacts DEF Manage, At
<1>2. PlaceOK(req[s]) /\ ScopeOK(req[s])
  BY <1>1, RequestFacts DEF At
<1>3. CASE Advance(s, "write") /\ (req[s].role # "DEALERADMIN" \/ Target(s) = NoTenant)
  <2>1. ASSUME NEW x, x.pc = "write", x.task = req[s].task
        PROVE  PlaceOK(x)
    BY <1>1, <1>2, <2>1 DEF PlaceOK, At, Handling, Home
  <2>2. ASSUME NEW x, x.pc = "write", x.task = req[s].task, x.role = req[s].role,
               x.shared = req[s].shared
        PROVE  ScopeOK(x)
    BY <1>1, <1>2, <1>3, <2>2 DEF ScopeOK, At, Home, Goal, Target
  <2> QED
    BY <1>1, <1>3, <2>1, <2>2, StepKeeps DEF Handling
<1>4. CASE Advance(s, "their_group") /\ Target(s) # NoTenant
  <2>1. Target(s) \in Dealers
    <3>1. req[s].task.on \in People
      BY <1>1, <1>2, RequestFacts, TaskFacts DEF PlaceOK, At
    <3> QED
      BY <1>1, <1>4, <3>1, RequestFacts DEF At
  <2>2. ASSUME NEW x, x.pc = "their_group", x.task = req[s].task
        PROVE  PlaceOK(x)
    BY <1>1, <1>2, <2>1, <2>2 DEF PlaceOK, At, Handling, Home, Goal, Target
  <2>3. ASSUME NEW x, x.pc = "their_group", x.task = req[s].task, x.shared = req[s].shared
        PROVE  ScopeOK(x)
    BY <1>1, <1>2, <2>3 DEF ScopeOK, At, Home, Goal
  <2> QED
    BY <1>1, <1>4, <2>2, <2>3, StepKeeps DEF Handling
<1>5. CASE End(s)
  BY <1>1, <1>5, EndKeeps
<1> QED
  BY <1>3, <1>4, <1>5 DEF Manage

LEMMA ReadTheirGroupKeeps ==
  ASSUME AccInv, NEW s \in Slots, ReadTheirGroup(s)
  PROVE  AccInv'
<1>1. Unchanged /\ At(s, "their_group") /\ PlaceOK(req[s]) /\ ScopeOK(req[s])
  BY RequestFacts DEF ReadTheirGroup, At
<1>2. Target(s) \in Dealers /\ TenantOf(s) \in Dealers /\ req[s].task.on \in People
  BY <1>1, RequestFacts, TaskFacts DEF PlaceOK, At, Handling, Home, Goal, Target, TenantOf, By
<1>3. groupOf[Target(s)] \in Groups \cup {NoGroup}
  BY <1>2 DEF AccInv, AccTypeOK
<1>4. ASSUME NEW x, x.pc = "own_group", x.task = req[s].task
      PROVE  PlaceOK(x)
  BY <1>1, <1>4 DEF PlaceOK, At, Handling, Home, Goal
<1>5. ASSUME NEW x, x.pc = "own_group", x.read = groupOf[Target(s)], x.task = req[s].task,
             x.shared = req[s].shared
      PROVE  ScopeOK(x)
  BY <1>1, <1>2, <1>5 DEF ScopeOK, SameGroup, At, Home, Goal, Target, TenantOf, By
<1> QED
  BY <1>1, <1>3, <1>4, <1>5, StepKeeps DEF ReadTheirGroup, Handling

LEMMA ReadOwnGroupKeeps ==
  ASSUME AccInv, NEW s \in Slots, ReadOwnGroup(s)
  PROVE  AccInv'
<1>1. /\ Unchanged /\ At(s, "own_group") /\ PlaceOK(req[s]) /\ ScopeOK(req[s])
      /\ req[s].read \in Groups \cup {NoGroup}
  BY RequestFacts DEF ReadOwnGroup, At
<1>2. CASE Advance(s, "write") /\ req[s].read # NoGroup /\ groupOf[TenantOf(s)] = req[s].read
  <2>1. ASSUME NEW x, x.pc = "write", x.task = req[s].task
        PROVE  PlaceOK(x)
    BY <1>1, <2>1 DEF PlaceOK, At, Handling, Home
  <2>2. ASSUME NEW x, x.pc = "write", x.task = req[s].task, x.role = req[s].role,
               x.shared = req[s].shared, x.moves = req[s].moves
        PROVE  ScopeOK(x)
    BY <1>1, <1>2, <2>2 DEF ScopeOK, At, Home, Goal, TenantOf, By
  <2> QED
    BY <1>1, <1>2, <2>1, <2>2, StepKeeps DEF Handling
<1>3. CASE End(s)
  BY <1>1, <1>3, EndKeeps
<1> QED
  BY <1>2, <1>3 DEF ReadOwnGroup

LEMMA ReadScopeKeeps ==
  ASSUME AccInv, NEW s \in Slots, ReadScope(s)
  PROVE  AccInv'
<1>1. Unchanged /\ At(s, "scope") /\ PlaceOK(req[s]) /\ ScopeOK(req[s])
  BY RequestFacts DEF ReadScope, At
<1>2. TenantOf(s) \in Dealers
  BY <1>1 DEF PlaceOK, At, Handling, Home, TenantOf, By
<1>3. groupOf[TenantOf(s)] \in Groups \cup {NoGroup}
  BY <1>2 DEF AccInv, AccTypeOK
<1>4. ASSUME NEW x, x.pc = "scoped", x.task = req[s].task
      PROVE  PlaceOK(x)
  BY <1>1, <1>4 DEF PlaceOK, At, Handling, Home
<1>5. ASSUME NEW x, x.pc = "scoped", x.task = req[s].task, x.shared = req[s].shared
      PROVE  ScopeOK(x)
  BY <1>1, <1>5 DEF ScopeOK, At, Home, Goal
<1> QED
  BY <1>1, <1>3, <1>4, <1>5, StepKeeps DEF ReadScope, Handling

LEMMA ReadScopedKeeps ==
  ASSUME AccInv, NEW s \in Slots, ReadScoped(s)
  PROVE  AccInv'
<1>1. /\ Unchanged /\ At(s, "scoped") /\ PlaceOK(req[s]) /\ ScopeOK(req[s])
      /\ req[s].read \in Groups \cup {NoGroup}
  BY RequestFacts DEF ReadScoped, At
<1>2. CASE Advance(s, "write")
  <2>1. ASSUME NEW x, x.pc = "write", x.task = req[s].task
        PROVE  PlaceOK(x)
    BY <1>1, <2>1 DEF PlaceOK, At, Handling, Home
  <2>2. ASSUME NEW x, x.pc = "write", x.task = req[s].task, x.shared = req[s].shared
        PROVE  ScopeOK(x)
    BY <1>1, <2>2 DEF ScopeOK, At, PlaceOK, Home, Goal, UserKinds
  <2> QED
    BY <1>1, <1>2, <2>1, <2>2, StepKeeps DEF Handling
<1>3. CASE End(s)
  BY <1>1, <1>3, EndKeeps
<1> QED
  BY <1>2, <1>3 DEF ReadScoped

LEMMA FindGroupKeeps ==
  ASSUME AccInv, NEW s \in Slots, FindGroup(s)
  PROVE  AccInv'
<1>1. /\ Unchanged /\ At(s, "name") /\ PlaceOK(req[s]) /\ ScopeOK(req[s])
      /\ req[s].read \in Groups \cup {NoGroup}
  BY RequestFacts DEF FindGroup, At
<1>2. ASSUME NEW x, x.pc \in {"write", "new_group"}, x.task = req[s].task
      PROVE  PlaceOK(x)
  BY <1>1, <1>2 DEF PlaceOK, At, Handling, Home
<1>3. ASSUME NEW x, x.pc \in {"write", "new_group"}, x.task = req[s].task, x.shared = req[s].shared
      PROVE  ScopeOK(x)
  BY <1>1, <1>3 DEF ScopeOK, At, PlaceOK, Home, Goal, UserKinds
<1>4. CASE Advance(s, "new_group")
  BY <1>1, <1>2, <1>3, <1>4, StepKeeps DEF Handling
<1>5. ASSUME NEW g \in Groups, AdvanceWith(s, "write", g) PROVE AccInv'
  BY <1>1, <1>2, <1>3, <1>5, StepKeeps DEF Handling
<1> QED
  BY <1>4, <1>5 DEF FindGroup
-----------------------------------------------------------------------------
\* A request at its start.
LEMMA NewRequestOK ==
  ASSUME AccInv, NEW task \in Tasks, NEW pc \in {"issue", "guard", "admit"}, NEW role \in Roles,
         pc = "issue" => now + 1 <= good[task.by][role],
         pc # "issue" => now + 1 < good[task.by][role] + TTL + Patience,
         pc = "admit" => role = "DEVELOPER"
  PROVE  RequestOK(NewRequest(task, pc, role))
<1> DEFINE x == NewRequest(task, pc, role)
<1>0. now \in Nat
  BY AccountsAssumption DEF AccInv, AccTypeOK
<1>1. /\ x.task = task /\ x.pc = pc /\ x.since = now /\ x.role = role /\ x.read = NoGroup /\ x.moves = 0
      /\ x.open = (HomeTenant[task.by] \in open)
      /\ x.shared = (task.on \in People /\ SameGroup(HomeTenant[task.by], HomeTenant[task.on], groupOf))
  BY DEF NewRequest
<1>2. x \in Requests
  BY <1>0 DEF NewRequest, Requests
<1> HIDE DEF x
<1>3. now - x.since <= Patience
  BY <1>0, <1>1, AccountsAssumption
<1>4. TimelyOK(x)
  BY <1>1 DEF TimelyOK
<1>5. TenantOK(x)
  BY <1>1 DEF TenantOK, Home
<1>6. ScopeOK(x)
  BY <1>1 DEF ScopeOK, Home, Goal
<1>7. PlaceOK(x)
  BY <1>1 DEF PlaceOK, Handling
<1> QED
  BY <1>2, <1>3, <1>4, <1>5, <1>6, <1>7 DEF RequestOK, x

LEMMA LookUpLoginKeeps ==
  ASSUME AccInv, NEW s \in Slots, LookUpLogin(s)
  PROVE  AccInv'
<1>1. PICK task \in agenda.tasks, role \in Roles :
        /\ IsActive(task.by, role)
        /\ req' = [req EXCEPT ![s] = NewRequest(task, "issue", role)]
  BY DEF LookUpLogin
<1>2. task \in Tasks /\ task.by \in People /\ now \in Nat
  BY <1>1, AccountsAssumption, TaskFacts DEF AccInv, AccTypeOK
<1>3. good[task.by][role] = now + 1
  BY <1>1, <1>2 DEF AccInv, GoodOK
<1>4. RequestOK(NewRequest(task, "issue", role))
  BY <1>2, <1>3, NewRequestOK
<1>5. Unchanged
  BY DEF LookUpLogin, Unchanged
<1> QED
  BY <1>1, <1>4, <1>5, QuietKeeps

LEMMA AuthenticateKeeps ==
  ASSUME AccInv, NEW s \in Slots, Authenticate(s)
  PROVE  AccInv'
<1>1. PICK task \in agenda.tasks : \E token \in tokens[task.by] :
        /\ Verified(token)
        /\ req' = [req EXCEPT ![s] =
             NewRequest(task, IF token.role = "DEVELOPER" THEN "admit" ELSE "guard", token.role)]
  BY DEF Authenticate
<1>2. PICK token \in tokens[task.by] :
        /\ Verified(token)
        /\ req' = [req EXCEPT ![s] =
             NewRequest(task, IF token.role = "DEVELOPER" THEN "admit" ELSE "guard", token.role)]
  BY <1>1
<1>3. task \in Tasks /\ task.by \in People /\ now \in Nat
  BY <1>1, AccountsAssumption, TaskFacts DEF AccInv, AccTypeOK
<1>4. token.role \in Roles /\ token.exp \in Nat /\ good[task.by][token.role] \in Nat
  BY <1>2, <1>3, AccountsAssumption DEF AccInv, AccTypeOK
<1>5. now + 1 < good[task.by][token.role] + TTL + Patience
  BY <1>2, <1>3, <1>4, AccountsAssumption DEF AccInv, TokensOK, Verified
<1>6. RequestOK(NewRequest(task, IF token.role = "DEVELOPER" THEN "admit" ELSE "guard", token.role))
  BY <1>3, <1>4, <1>5, NewRequestOK
<1>7. Unchanged
  BY DEF Authenticate, Unchanged
<1> QED
  BY <1>2, <1>6, <1>7, QuietKeeps
-----------------------------------------------------------------------------
\* A sequence kept with the latest element first and cut at n elements.
LEMMA LatestFirst ==
  ASSUME NEW S, NEW a \in Seq(S), NEW e \in S, NEW n \in 1 .. Len(a) + 1
  PROVE  LET b == SubSeq(<<e>> \o a, 1, n)
         IN b \in Seq(S) /\ Len(b) = n /\ b[1] = e /\ \A i \in 2 .. n : b[i] = a[i - 1]
<1> DEFINE c == <<e>> \o a
<1>1. <<e>> \in Seq(S) /\ Len(<<e>>) = 1 /\ <<e>>[1] = e /\ Len(a) \in Nat
  BY LenProperties
<1>2. /\ c \in Seq(S) /\ Len(c) = 1 + Len(a)
      /\ \A i \in 1 .. 1 + Len(a) : c[i] = IF i <= 1 THEN <<e>>[i] ELSE a[i - 1]
  BY <1>1, ConcatProperties
<1> HIDE DEF c
<1>3. \A i \in 1 .. n : c[i] \in S
  BY <1>1, <1>2, ElementOfSeq
<1>4. /\ SubSeq(c, 1, n) \in Seq(S) /\ Len(SubSeq(c, 1, n)) = n
      /\ \A i \in 1 .. n : SubSeq(c, 1, n)[i] = c[i]
  BY <1>1, <1>3, SubSeqProperties
<1>5. \A i \in 2 .. n : c[i] = a[i - 1]
  BY <1>1, <1>2
<1>6. c[1] = e
  BY <1>1, <1>2
<1> QED
  BY <1>4, <1>5, <1>6 DEF c

\* Counting a request as the rate limit does keeps windows apart.
LEMMA WindowsStayApart ==
  ASSUME NEW tick \in Nat, NEW b \in [count : 0 .. MAX_REQUESTS, start : 0 .. tick],
         NEW a \in Seq(0 .. tick), NEW c \in Seq(0 .. tick), NEW d,
         Windowed(b, a),
         Len(c) \in 1 .. Len(a) + 1, c[1] = tick, \A i \in 2 .. Len(c) : c[i] = a[i - 1],
         \/ (b = NoBucket \/ tick - b.start >= WINDOW) /\ d = [count |-> 1, start |-> tick]
         \/ b # NoBucket /\ b.count < MAX_REQUESTS /\ d = [b EXCEPT !.count = @ + 1]
  PROVE  d \in [count : 0 .. MAX_REQUESTS, start : 0 .. tick] /\ Windowed(d, c)
<1>1. /\ Len(a) \in Nat /\ Len(c) \in Nat
      /\ \A i \in 1 .. Len(a) : a[i] \in 0 .. tick
      /\ \A i \in 1 .. Len(c) : c[i] \in 0 .. tick
  BY ElementOfSeq, LenProperties
<1>2. MAX_REQUESTS \in Nat /\ MAX_REQUESTS >= 1 /\ WINDOW \in Nat
  BY AccountsAssumption
<1>3. b.count \in 0 .. MAX_REQUESTS /\ b.start \in 0 .. tick
  OBVIOUS
<1>4. ASSUME NEW i \in 1 .. Len(c), i >= 2
      PROVE  i - 1 \in 1 .. Len(a) /\ c[i] = a[i - 1] /\ a[i - 1] \in 0 .. tick
  <2>1. i - 1 \in 1 .. Len(a) /\ i \in 2 .. Len(c)
    BY <1>1, <1>4
  <2> QED
    BY <1>1, <2>1
<1>5. CASE (b = NoBucket \/ tick - b.start >= WINDOW) /\ d = [count |-> 1, start |-> tick]
  <2>1. d \in [count : 0 .. MAX_REQUESTS, start : 0 .. tick] /\ d.count = 1 /\ d.start = tick /\ d # NoBucket
    BY <1>2, <1>5 DEF NoBucket
  <2>2. ASSUME NEW i \in 1 .. Len(c), i >= 1 + MAX_REQUESTS PROVE c[i] + WINDOW <= tick
    <3>1. i >= 2 /\ i \in Nat /\ i - 1 >= b.count
      <4> DEFINE k == b.count
      <4>1. k \in Nat /\ k <= MAX_REQUESTS /\ i \in Nat
        BY <1>1, <1>2, <1>3
      <4> HIDE DEF k
      <4>2. i >= 2 /\ i - 1 >= k
        BY <1>2, <2>2, <4>1, SMTT(60)
      <4> QED
        BY <4>1, <4>2 DEF k
    <3>2. i - 1 \in 1 .. Len(a) /\ c[i] = a[i - 1] /\ a[i - 1] \in 0 .. tick
      BY <1>4, <3>1
    <3>3. b # NoBucket
      <4>1. ASSUME a = <<>> PROVE FALSE
        <5>1. Len(a) = 0
          BY <4>1
        <5> QED
          BY <3>2, <5>1
      <4> QED
        BY <4>1 DEF Windowed
    <3>4. a[i - 1] <= b.start
      BY <3>1, <3>2 DEF Windowed
    <3> QED
      BY <1>2, <1>3, <1>5, <3>2, <3>3, <3>4, SMTT(60)
  <2> QED
    BY <1>1, <2>1, <2>2 DEF Windowed
<1>6. CASE b # NoBucket /\ b.count < MAX_REQUESTS /\ d = [b EXCEPT !.count = @ + 1]
  <2>1. d.count = b.count + 1 /\ d.start = b.start /\ d = [count |-> b.count + 1, start |-> b.start]
    BY <1>6
  <2>2. b.count + 1 \in 0 .. MAX_REQUESTS /\ b.count + 1 >= 1
    BY <1>2, <1>3, <1>6
  <2>a. d \in [count : 0 .. MAX_REQUESTS, start : 0 .. tick] /\ d # NoBucket /\ d.count >= 1
    BY <1>3, <2>1, <2>2 DEF NoBucket
  <2>3. ASSUME NEW i \in 1 .. Len(c), i >= b.count + 1
        PROVE  c[i] <= b.start /\ (i >= b.count + 1 + MAX_REQUESTS => c[i] + WINDOW <= b.start)
    <3>1. b.count >= 1
      BY <1>6 DEF Windowed
    <3>2. i >= 2 /\ i - 1 >= b.count /\ i \in Nat
      BY <1>3, <2>3, <3>1
    <3>3. i - 1 \in 1 .. Len(a) /\ c[i] = a[i - 1]
      BY <1>4, <3>2
    <3>4. /\ a[i - 1] <= b.start
          /\ i - 1 >= b.count + MAX_REQUESTS => a[i - 1] + WINDOW <= b.start
      BY <3>2, <3>3 DEF Windowed
    <3>5. i >= b.count + 1 + MAX_REQUESTS => i - 1 >= b.count + MAX_REQUESTS
      BY <1>2, <1>3, <3>2
    <3> QED
      BY <3>3, <3>4, <3>5
  <2>4. c[1] >= d.start
    BY <1>3, <2>1
  <2> QED
    BY <1>1, <1>2, <1>3, <2>1, <2>a, <2>3, <2>4 DEF Windowed
<1> QED
  BY <1>5, <1>6
-----------------------------------------------------------------------------
\* A request ends while accounts may gain roles.
LEMMA EndOfRequest ==
  ASSUME AccInv, NEW s \in Slots, End(s), UNCHANGED <<now, open, groupOf>>,
         good' \in [People -> [Roles -> 0 .. now + 1]],
         \A p \in People, role \in Roles : good[p][role] <= good'[p][role]
  PROVE  RequestsOK'
<1>1. RequestOK(NoRequest)
  BY DEF RequestOK
<1> QED
  BY <1>1, SlotChanges DEF End

\* Nothing is lost of what an account was.
LEMMA GoodStays ==
  ASSUME AccInv
  PROVE  /\ now \in Nat /\ good \in [People -> [Roles -> 0 .. now + 1]]
         /\ \A p \in People, role \in Roles : good[p][role] \in 0 .. now + 1
         /\ \A p \in People, role \in Roles : good[p][role] <= good[p][role]
<1>1. now \in Nat /\ good \in [People -> [Roles -> 0 .. now + 1]]
  BY AccountsAssumption DEF AccInv, AccTypeOK
<1>2. \A p \in People, role \in Roles : good[p][role] \in 0 .. now + 1
  BY <1>1
<1> QED
  BY <1>1, <1>2

LEMMA IssueTokenKeeps ==
  ASSUME AccInv, NEW s \in Slots, IssueToken(s)
  PROVE  AccInv'
<1> DEFINE p == By(s)
           r == req[s]
           t == [role |-> r.role, exp |-> now + TTL]
<1>1. /\ p \in People /\ r.role \in Roles /\ r.since \in 0 .. now /\ now - r.since <= Patience
      /\ r.since + 1 <= good[p][r.role] /\ now \in Nat
  BY RequestFacts DEF IssueToken, At, TimelyOK, By
<1>2. /\ tokens' = [tokens EXCEPT ![p] = @ \cup {t}]
      /\ UNCHANGED <<agenda, now, account, open, groupOf, groupName, bucket, good, admitted>>
      /\ End(s)
  BY DEF IssueToken, Issued, tables
<1>3. RequestsOK'
  BY <1>2, GoodStays, EndOfRequest
<1>4. ASSUME NEW q \in People
      PROVE  tokens'[q] = IF q = p THEN tokens[q] \cup {t} ELSE tokens[q]
  BY <1>1, <1>2 DEF AccInv
<1>5. t \in [role : Roles, exp : now + 1 .. now + TTL]
  BY <1>1, AccountsAssumption
<1>6. AccTypeOK'
  BY <1>2, <1>3, <1>4, <1>5 DEF AccInv, AccTypeOK, RequestsOK, RequestOK, Requests
<1>7. t.exp + 1 <= good[p][r.role] + TTL + Patience
  <2>1. good[p][r.role] \in Nat
    BY <1>1, GoodStays
  <2> QED
    BY <1>1, <2>1, AccountsAssumption
<1>8. TokensOK'
  BY <1>2, <1>4, <1>7 DEF AccInv, TokensOK
<1>9. GoodOK' /\ \A q \in People : BucketOK(q)'
  BY <1>2 DEF AccInv, GoodOK, IsActive, BucketOK
<1>10. tokens' = [q \in People |-> tokens'[q]] /\ admitted' = [q \in People |-> admitted'[q]]
  BY <1>2 DEF AccInv
<1> QED
  BY <1>3, <1>6, <1>8, <1>9, <1>10 DEF AccInv

\* The handler of an admitted request begins where its kind belongs.
LEMMA FirstPlace ==
  ASSUME AccInv, NEW s \in Slots, At(s, "admit"), Permitted(s), FirstStep(s) # "end",
         NEW x, x.pc = FirstStep(s), x.task = req[s].task
  PROVE  /\ x.pc \in Handling \ {"own_group"} /\ PlaceOK(x)
         /\ x.pc = "write" => x.task.kind \notin UserKinds \cup {"add_user"}
<1> DEFINE task == req[s].task
           role == req[s].role
           first == FirstStep(s)
<1>1. task \in Tasks /\ role \in Roles
  BY RequestFacts DEF At
<1>2. TenantOf(s) \in Dealers
  BY RequestFacts DEF At, Permitted, PolicyAllows
<1>3. allowedRolesForCreator(role) \subseteq Roles
  BY <1>1 DEF allowedRolesForCreator, Roles
<1>4. CASE task.kind = "add_user"
  <2>1. first = "manage" /\ task.value \in Roles
    BY <1>3, <1>4 DEF FirstStep, BeginAdding, UserKinds
  <2> QED
    BY <1>2, <1>4, <2>1 DEF PlaceOK, Handling, UserKinds, Home, TenantOf, By
<1>5. CASE task.kind \in UserKinds
  <2>1. first = "find" /\ (task.kind = "set_role" => task.value \in Roles)
    BY <1>3, <1>5 DEF FirstStep, BeginUpdating, UserKinds
  <2> QED
    BY <1>2, <1>5, <2>1 DEF PlaceOK, Handling, UserKinds, Home, TenantOf, By
<1>6. CASE task.kind = "set_tenant"
  <2>1. first \in {"scope", "write"}
    BY <1>6 DEF FirstStep, BeginSwitching, UserKinds
  <2> QED
    BY <1>2, <1>6, <2>1 DEF PlaceOK, Handling, UserKinds, Home, TenantOf, By
<1>7. CASE task.kind = "add_group"
  <2>1. first = "write"
    BY <1>7 DEF FirstStep, BeginGrouping, UserKinds
  <2> QED
    BY <1>2, <1>7, <2>1 DEF PlaceOK, Handling, UserKinds, Home, TenantOf, By
<1>8. CASE task.kind = "assign_group"
  <2>1. first = "write" \/ (first = "name" /\ task.value \in GroupNames)
    BY <1>8 DEF FirstStep, BeginAssigning, UserKinds
  <2> QED
    BY <1>2, <1>8, <2>1 DEF PlaceOK, Handling, UserKinds, Home, TenantOf, By
<1> QED
  BY <1>4, <1>5, <1>6, <1>7, <1>8 DEF FirstStep

LEMMA AdmitKeeps ==
  ASSUME AccInv, NEW s \in Slots, Admit(s)
  PROVE  AccInv'
<1> DEFINE p == By(s)
           n == IF Len(admitted[p]) + 1 < 2 * MAX_REQUESTS THEN Len(admitted[p]) + 1 ELSE 2 * MAX_REQUESTS
           c == SubSeq(<<now>> \o admitted[p], 1, n)
           d == Counted(bucket[p])
<1>1. /\ p \in People /\ now \in Nat /\ At(s, "admit") /\ ScopeOK(req[s])
      /\ req[s].read \in Groups \cup {NoGroup} /\ req[s] \in Requests
      /\ req[s] # NoRequest /\ req[s].pc = "admit"
  BY RequestFacts DEF Admit, At
<1>2. /\ bucket' = [bucket EXCEPT ![p] = d] /\ admitted' = [admitted EXCEPT ![p] = c]
      /\ Permitted(s) /\ WithinLimit(bucket[p])
      /\ UNCHANGED <<agenda, now, account, open, groupOf, groupName, tokens, good>>
  BY DEF Admit, tables
<1>3. RequestsOK'
  <2>1. CASE End(s)
    BY <1>2, <2>1, GoodStays, EndOfRequest
  <2>2. CASE FirstStep(s) # "end" /\ Advance(s, FirstStep(s))
    <3> DEFINE x == [req[s] EXCEPT !.pc = FirstStep(s)]
    <3>1. x.pc = FirstStep(s) /\ x.task = req[s].task
      BY <1>1 DEF Requests
    <3>2. /\ x.pc \in Handling \ {"own_group"} /\ PlaceOK(x)
          /\ x.pc = "write" => x.task.kind \notin UserKinds \cup {"add_user"}
      BY <1>1, <1>2, <2>2, <3>1, FirstPlace
    <3>3. /\ x \in Requests /\ x.since = req[s].since
          /\ x.role = req[s].role /\ x.open = req[s].open /\ x.shared = req[s].shared
          /\ x.moves = req[s].moves
      BY <1>1, <3>1, <3>2 DEF Requests, Handling
    <3>4. req' = [req EXCEPT ![s] = x]
      BY <2>2 DEF Advance
    <3> HIDE DEF x
    <3>5. ScopeOK(x)
      BY <1>1, <3>1, <3>2, <3>3 DEF ScopeOK, Home, Goal
    <3>6. x.pc # "issue" /\ x.pc # "admit"
      BY <3>2 DEF Handling
    <3>7. RequestOK(x)
      BY <1>1, <3>1, <3>2, <3>3, <3>5, <3>6, GoesOn
    <3> QED
      BY <1>2, <3>4, <3>7, GoodStays, SlotChanges
  <2> QED
    BY <2>1, <2>2 DEF Admit
<1>4. /\ admitted[p] \in Seq(0 .. now) /\ Len(admitted[p]) \in Nat /\ Len(admitted[p]) <= 2 * MAX_REQUESTS
      /\ bucket[p] \in [count : 0 .. MAX_REQUESTS, start : 0 .. now] /\ Windowed(bucket[p], admitted[p])
  BY <1>1, LenProperties DEF AccInv, AccTypeOK, BucketOK
<1>5. n \in 1 .. Len(admitted[p]) + 1 /\ n <= 2 * MAX_REQUESTS
  BY <1>4, AccountsAssumption
<1>6. c \in Seq(0 .. now) /\ Len(c) = n /\ c[1] = now /\ \A i \in 2 .. n : c[i] = admitted[p][i - 1]
  BY <1>1, <1>4, <1>5, LatestFirst
<1>7. \/ (bucket[p] = NoBucket \/ now - bucket[p].start >= WINDOW) /\ d = [count |-> 1, start |-> now]
      \/ /\ bucket[p] # NoBucket /\ bucket[p].count < MAX_REQUESTS
         /\ d = [bucket[p] EXCEPT !.count = @ + 1]
  BY <1>2 DEF WithinLimit, Counted, NewWindow
<1> HIDE DEF n, c, d
<1>8. d \in [count : 0 .. MAX_REQUESTS, start : 0 .. now] /\ Windowed(d, c)
  BY <1>1, <1>4, <1>5, <1>6, <1>7, WindowsStayApart
<1>9. ASSUME NEW q \in People
      PROVE  /\ bucket'[q] = IF q = p THEN d ELSE bucket[q]
             /\ admitted'[q] = IF q = p THEN c ELSE admitted[q]
  BY <1>2 DEF AccInv, AccTypeOK
<1>10. \A q \in People : BucketOK(q)'
  BY <1>8, <1>9 DEF AccInv, BucketOK
<1>11. AccTypeOK'
  <2>1. bucket' \in [People -> [count : 0 .. MAX_REQUESTS, start : 0 .. now]]
    BY <1>2, <1>8 DEF AccInv, AccTypeOK
  <2>2. \A q \in People : admitted'[q] \in Seq(0 .. now) /\ Len(admitted'[q]) <= 2 * MAX_REQUESTS
    BY <1>5, <1>6, <1>9 DEF AccInv, AccTypeOK
  <2>3. \A q \in Slots : req'[q] # NoRequest => req'[q] \in Requests' /\ now - req'[q].since <= Patience
    BY <1>2, <1>3 DEF RequestsOK, RequestOK
  <2> QED
    BY <1>2, <2>1, <2>2, <2>3 DEF AccInv, AccTypeOK
<1>12. GoodOK' /\ TokensOK'
  BY <1>2 DEF AccInv, GoodOK, IsActive, TokensOK
<1>13. tokens' = [q \in People |-> tokens'[q]] /\ admitted' = [q \in People |-> admitted'[q]]
  BY <1>2 DEF AccInv
<1> QED
  BY <1>3, <1>10, <1>11, <1>12, <1>13 DEF AccInv

\* Requests that are refused or fail.
LEMMA RefusalKeeps ==
  ASSUME AccInv, NEW s \in Slots, Deny(s) \/ RequestFails(s)
  PROVE  AccInv'
BY EndKeeps DEF Deny, RequestFails, Unchanged

LEMMA InsertGroupKeeps ==
  ASSUME AccInv, NEW s \in Slots, InsertGroup(s)
  PROVE  AccInv'
<1>1. PICK g \in Groups :
        groupName' = [groupName EXCEPT ![g] = req[s].task.value] /\ AdvanceWith(s, "write", g)
  BY DEF InsertGroup, FreshGroups
<1>2. /\ At(s, "new_group") /\ req[s] # NoRequest /\ req[s].pc # "issue"
      /\ PlaceOK(req[s]) /\ ScopeOK(req[s]) /\ req[s] \in Requests
      /\ UNCHANGED <<agenda, now, account, open, groupOf, tokens, bucket, good, admitted>>
  BY RequestFacts DEF InsertGroup, At
<1>3. req[s].task.kind = "assign_group" /\ req[s].task.value \in GroupNames
  BY <1>2 DEF PlaceOK, At
<1> DEFINE x == [req[s] EXCEPT !.pc = "write", !.read = g]
<1>4. /\ x \in Requests /\ x.pc = "write" /\ x.read = g /\ x.task = req[s].task
      /\ x.since = req[s].since /\ x.role = req[s].role /\ x.open = req[s].open
      /\ x.shared = req[s].shared /\ x.moves = req[s].moves
  BY <1>2 DEF Requests
<1>5. req' = [req EXCEPT ![s] = x]
  BY <1>1 DEF AdvanceWith
<1> HIDE DEF x
<1>6. ScopeOK(x) /\ PlaceOK(x)
  BY <1>2, <1>3, <1>4 DEF ScopeOK, PlaceOK, Handling, Home, Goal, UserKinds, At
<1>7. RequestOK(x)
  BY <1>2, <1>4, <1>6, GoesOn
<1>8. RequestsOK'
  BY <1>2, <1>5, <1>7, GoodStays, SlotChanges
<1>9. AccTypeOK'
  BY <1>1, <1>2, <1>3, <1>8 DEF AccInv, AccTypeOK, RequestsOK, RequestOK, Requests
<1>10. GoodOK' /\ TokensOK' /\ \A q \in People : BucketOK(q)'
  BY <1>2 DEF AccInv, GoodOK, IsActive, TokensOK, BucketOK
<1>11. tokens' = [q \in People |-> tokens'[q]] /\ admitted' = [q \in People |-> admitted'[q]]
  BY <1>2 DEF AccInv
<1> QED
  BY <1>8, <1>9, <1>10, <1>11 DEF AccInv
-----------------------------------------------------------------------------
\* The tables of accounts change; whoever has a role then or had it still is
\* what the account is good for.
LEMMA GoodGrows ==
  ASSUME AccInv, NEW acc, NEW tick \in Nat, now <= tick
  PROVE  /\ GoodUpTo(tick, acc) \in [People -> [Roles -> 0 .. tick + 1]]
         /\ \A p \in People, role \in Roles :
              /\ good[p][role] <= GoodUpTo(tick, acc)[p][role]
              /\ acc[p] = [role |-> role, active |-> TRUE] => GoodUpTo(tick, acc)[p][role] = tick + 1
<1>1. now \in Nat /\ \A p \in People, role \in Roles : good[p][role] \in 0 .. now + 1
  BY GoodStays
<1>2. ASSUME NEW p \in People, NEW role \in Roles
      PROVE  /\ GoodUpTo(tick, acc)[p][role] \in 0 .. tick + 1
             /\ good[p][role] <= GoodUpTo(tick, acc)[p][role]
             /\ acc[p] = [role |-> role, active |-> TRUE] => GoodUpTo(tick, acc)[p][role] = tick + 1
  <2>1. GoodUpTo(tick, acc)[p][role] =
          IF acc[p] = [role |-> role, active |-> TRUE] \/ IsActive(p, role)
          THEN tick + 1 ELSE good[p][role]
    BY DEF GoodUpTo
  <2>2. good[p][role] \in 0 .. now + 1
    BY <1>1
  <2> QED
    BY <1>1, <2>1, <2>2
<1>3. GoodUpTo(tick, acc) =
        [p \in People |-> [r \in Roles |-> GoodUpTo(tick, acc)[p][r]]]
  BY DEF GoodUpTo
<1>4. GoodUpTo(tick, acc) \in [People -> [Roles -> 0 .. tick + 1]]
  BY <1>2, <1>3
<1> QED
  BY <1>2, <1>4

LEMMA WriteUserKeeps ==
  ASSUME AccInv, NEW s \in Slots, NEW acc, WriteUser(s, acc),
         acc \in [People -> [role : Roles, active : BOOLEAN] \cup {NotYet, Deleted}],
         UNCHANGED <<agenda, now, tokens, bucket, admitted>>
  PROVE  AccInv'
<1>1. /\ account' = acc /\ good' = GoodUpTo(now, acc) /\ End(s)
      /\ UNCHANGED <<agenda, now, open, groupOf, groupName, tokens, bucket, admitted>>
  BY DEF WriteUser
<1>2. now \in Nat /\ now <= now
  BY GoodStays
<1>a. /\ GoodUpTo(now, acc) \in [People -> [Roles -> 0 .. now + 1]]
      /\ \A p \in People, role \in Roles :
           /\ good[p][role] <= GoodUpTo(now, acc)[p][role]
           /\ acc[p] = [role |-> role, active |-> TRUE] => GoodUpTo(now, acc)[p][role] = now + 1
  BY <1>2, GoodGrows
<1>3. /\ good' \in [People -> [Roles -> 0 .. now + 1]]
      /\ \A p \in People, role \in Roles :
           /\ good[p][role] <= good'[p][role]
           /\ acc[p] = [role |-> role, active |-> TRUE] => good'[p][role] = now + 1
  BY <1>1, <1>a
<1>4. RequestsOK'
  BY <1>1, <1>3, EndOfRequest
<1>5. AccTypeOK'
  BY <1>1, <1>3, <1>4 DEF AccInv, AccTypeOK, RequestsOK, RequestOK, Requests
<1>6. GoodOK'
  BY <1>1, <1>3 DEF GoodOK, IsActive
<1>7. TokensOK'
  <2>1. ASSUME NEW p \in People, NEW t \in tokens[p]
        PROVE  t.exp + 1 <= good'[p][t.role] + TTL + Patience
    <3>1. t.role \in Roles /\ t.exp \in Nat /\ t.exp + 1 <= good[p][t.role] + TTL + Patience
      BY <1>2, <2>1, AccountsAssumption DEF AccInv, AccTypeOK, TokensOK
    <3>2. good[p][t.role] <= good'[p][t.role] /\ good[p][t.role] \in Nat /\ good'[p][t.role] \in Nat
      BY <1>3, <3>1, GoodStays
    <3> QED
      BY <3>1, <3>2, AccountsAssumption
  <2> QED
    BY <1>1, <2>1 DEF TokensOK
<1>8. \A p \in People : BucketOK(p)'
  BY <1>1 DEF AccInv, BucketOK
<1>9. tokens' = [p \in People |-> tokens'[p]] /\ admitted' = [p \in People |-> admitted'[p]]
  BY <1>1 DEF AccInv
<1> QED
  BY <1>4, <1>5, <1>6, <1>7, <1>8, <1>9 DEF AccInv

\* What only the tables of tenants and groups and the requests see.
LEMMA TenantsChange ==
  ASSUME AccInv, RequestsOK', UNCHANGED <<agenda, now, account, tokens, bucket, good, admitted>>,
         open' \subseteq Dealers, groupOf' \in [Dealers -> Groups \cup {NoGroup}],
         groupName' \in [Groups -> GroupNames \cup {NotYet}]
  PROVE  AccInv'
<1>1. AccTypeOK'
  BY DEF AccInv, AccTypeOK, RequestsOK, RequestOK, Requests
<1>2. GoodOK' /\ TokensOK' /\ \A p \in People : BucketOK(p)'
  BY DEF AccInv, GoodOK, IsActive, TokensOK, BucketOK
<1>3. tokens' = [p \in People |-> tokens'[p]] /\ admitted' = [p \in People |-> admitted'[p]]
  BY DEF AccInv
<1> QED
  BY <1>1, <1>2, <1>3 DEF AccInv

LEMMA SwitchTenantKeeps ==
  ASSUME AccInv, NEW s \in Slots, At(s, "write"), SwitchTenant(s, req[s].task),
         UNCHANGED <<agenda, now, tokens, bucket, admitted>>
  PROVE  AccInv'
<1>1. req[s].task \in Tasks /\ req[s].task.kind = "set_tenant"
  BY RequestFacts DEF At, SwitchTenant
<1>2. open' \subseteq Dealers
  BY <1>1, TaskFacts DEF SwitchTenant, AccInv, AccTypeOK
<1>3. req' = [q \in Slots |-> req'[q]]
  BY DEF SwitchTenant
<1>4. ASSUME NEW q \in Slots PROVE RequestOK(req[q])'
  <2>1. CASE req'[q] = NoRequest
    BY <2>1 DEF RequestOK
  <2>2. CASE req'[q] # NoRequest
    <3> DEFINE x == [req[q] EXCEPT !.open = @ \/ TenantOf(q) \in open']
    <3>1. req[q] # NoRequest /\ req'[q] = x
      BY <2>2 DEF SwitchTenant
    <3>2. /\ req[q] \in Requests /\ now - req[q].since <= Patience
          /\ TimelyOK(req[q]) /\ TenantOK(req[q]) /\ ScopeOK(req[q]) /\ PlaceOK(req[q])
      BY <3>1, RequestFacts
    <3>3. /\ x \in Requests /\ x.task = req[q].task /\ x.since = req[q].since /\ x.pc = req[q].pc
          /\ x.role = req[q].role /\ x.read = req[q].read /\ x.shared = req[q].shared
          /\ x.moves = req[q].moves /\ x.open = (req[q].open \/ TenantOf(q) \in open')
      BY <3>2 DEF Requests
    <3> HIDE DEF x
    <3>4. /\ UNCHANGED <<now, groupOf, good>>
      BY DEF SwitchTenant
    <3>5. ASSUME NEW y, y = x PROVE RequestOK(y)'
      <4>1. y \in Requests'
        BY <3>3, <3>4, <3>5 DEF Requests
      <4>2. TimelyOK(y)'
        BY <3>2, <3>3, <3>4, <3>5 DEF TimelyOK
      <4>3. TenantOK(y)'
        BY <3>2, <3>3, <3>5 DEF TenantOK, Home, TenantOf, By
      <4>4. ScopeOK(y)'
        BY <3>2, <3>3, <3>4, <3>5 DEF ScopeOK, SameGroup, Home, Goal
      <4>5. PlaceOK(y)'
        BY <3>2, <3>3, <3>5 DEF PlaceOK, Home, Goal
      <4> QED
        BY <3>2, <3>3, <3>4, <3>5, <4>1, <4>2, <4>3, <4>4, <4>5 DEF RequestOK
    <3> QED
      BY <3>1, <3>5
  <2> QED
    BY <2>1, <2>2
<1>5. RequestsOK'
  BY <1>3, <1>4 DEF RequestsOK
<1> QED
  BY <1>2, <1>5, TenantsChange DEF SwitchTenant, AccInv, AccTypeOK

\* Between the two reads of a dealer administrator no more than one group is
\* assigned: whichever tenant gets it, the groups read were equal at a moment.
LEMMA AssignmentShares ==
  ASSUME NEW own \in Dealers, NEW their \in Dealers, NEW t \in Dealers, NEW g, NEW of,
         of = [groupOf EXCEPT ![t] = g], groupOf \in [Dealers -> Groups \cup {NoGroup}],
         groupOf[their] # NoGroup, of[own] = groupOf[their]
  PROVE  SameGroup(own, their, groupOf) \/ SameGroup(own, their, of)
<1>1. CASE t = own /\ t # their
  BY <1>1 DEF SameGroup
<1>2. CASE t # own
  BY <1>2 DEF SameGroup
<1>3. CASE t = own /\ t = their
  BY <1>3 DEF SameGroup
<1> QED
  BY <1>1, <1>2, <1>3

LEMMA AssignGroupKeeps ==
  ASSUME AccInv, NEW s \in Slots, At(s, "write"), AssignGroup(s, req[s].task),
         UNCHANGED <<agenda, now, tokens, bucket, admitted>>
  PROVE  AccInv'
<1> DEFINE t == req[s].task.on
           g == IF req[s].task.value \in GroupNames THEN req[s].read ELSE req[s].task.value
<1>1. req[s].task \in Tasks /\ req[s].task.kind = "assign_group" /\ req[s].read \in Groups \cup {NoGroup}
  BY RequestFacts DEF At, AssignGroup
<1>2. t \in Dealers /\ g \in Groups \cup {NoGroup}
  BY <1>1, TaskFacts
<1>3. /\ groupOf' = [groupOf EXCEPT ![t] = g] /\ groupOf \in [Dealers -> Groups \cup {NoGroup}]
      /\ UNCHANGED <<agenda, now, account, open, groupName, tokens, bucket, good, admitted>>
  BY DEF AssignGroup, AccInv, AccTypeOK
<1> HIDE DEF t, g
<1>4. groupOf' \in [Dealers -> Groups \cup {NoGroup}]
  BY <1>2, <1>3
<1>5. req' = [q \in Slots |-> req'[q]]
  BY DEF AssignGroup
<1>6. ASSUME NEW q \in Slots PROVE RequestOK(req[q])'
  <2>1. CASE req'[q] = NoRequest
    BY <2>1 DEF RequestOK
  <2>2. CASE req'[q] # NoRequest
    <3> DEFINE share == req[q].task.on \in People /\ SameGroup(TenantOf(q), HomeTenant[req[q].task.on], groupOf')
               b == req[q].shared \/ share
               m == IF req[q].moves = 2 THEN 2 ELSE req[q].moves + 1
               x == [req[q] EXCEPT !.shared = b, !.moves = m]
    <3>1. req[q] # NoRequest /\ req'[q] = x
      BY <2>2 DEF AssignGroup
    <3>2. /\ req[q] \in Requests /\ now - req[q].since <= Patience /\ req[q].moves \in 0 .. 2
          /\ req[q].task \in Tasks
          /\ TimelyOK(req[q]) /\ TenantOK(req[q]) /\ ScopeOK(req[q]) /\ PlaceOK(req[q])
      BY <3>1, RequestFacts
    <3>3. share \in BOOLEAN /\ (share <=> /\ req[q].task.on \in People
                                         /\ SameGroup(Home(req[q]), Goal(req[q]), groupOf'))
      BY DEF SameGroup, Home, Goal, TenantOf, By
    <3>a. b \in BOOLEAN /\ m \in 0 .. 2 /\ m # 0 /\ (m <= 1 => req[q].moves = 0)
      BY <3>2, <3>3 DEF Requests
    <3> HIDE DEF share, m, b
    <3>4. /\ x \in Requests /\ x.task = req[q].task /\ x.since = req[q].since /\ x.pc = req[q].pc
          /\ x.role = req[q].role /\ x.read = req[q].read /\ x.open = req[q].open
          /\ x.shared = b /\ x.moves = m
      BY <3>2, <3>a DEF Requests
    <3> HIDE DEF x
    <3>5. x.moves # 0 /\ (x.moves <= 1 => req[q].moves = 0) /\ (req[q].shared \/ share => x.shared)
      BY <3>4, <3>a DEF b
    <3>6. ASSUME x.pc = "own_group", x.moves <= 1, x.read # NoGroup, groupOf'[Home(x)] = x.read
          PROVE  x.shared
      <4>1. /\ Home(req[q]) \in Dealers /\ Goal(req[q]) \in Dealers /\ req[q].task.on \in People
            /\ req[q].read = groupOf[Goal(req[q])]
        BY <3>2, <3>4, <3>5, <3>6, TaskFacts DEF PlaceOK, ScopeOK, Handling
      <4>2. \/ SameGroup(Home(req[q]), Goal(req[q]), groupOf)
            \/ SameGroup(Home(req[q]), Goal(req[q]), groupOf')
        <5>1. groupOf[Goal(req[q])] # NoGroup /\ groupOf'[Home(req[q])] = groupOf[Goal(req[q])]
          BY <3>4, <3>6, <4>1 DEF Home
        <5> QED
          BY <1>2, <1>3, <4>1, <5>1, AssignmentShares
      <4> QED
        BY <3>2, <3>3, <3>5, <4>1, <4>2 DEF ScopeOK
    <3>7. ASSUME NEW y, y = x PROVE RequestOK(y)'
      <4>1. y \in Requests'
        BY <1>3, <3>4, <3>7 DEF Requests
      <4>2. TimelyOK(y)'
        BY <1>3, <3>2, <3>4, <3>7 DEF TimelyOK
      <4>3. TenantOK(y)'
        BY <1>3, <3>2, <3>4, <3>7 DEF TenantOK, Home
      <4>4. ScopeOK(y)'
        <5>1. y.task.on \in People /\ SameGroup(Home(y), Goal(y), groupOf') => y.shared
          BY <3>3, <3>4, <3>5, <3>7 DEF Home, Goal
        <5>2. ASSUME y.pc = "write", y.role = "DEALERADMIN", y.moves <= 1,
                     y.task.kind \in UserKinds \cup {"add_user"}, Goal(y) # NoTenant
              PROVE  y.shared
          <6>1. req[q].moves = 0 /\ req[q].moves <= 1
            BY <3>5, <3>7, <5>2
          <6>2. req[q].shared
            BY <3>2, <3>4, <3>7, <5>2, <6>1 DEF ScopeOK, Goal
          <6> QED
            BY <3>5, <3>7, <6>2
        <5> QED
          BY <3>5, <3>6, <3>7, <5>1, <5>2 DEF ScopeOK, SameGroup, Home, Goal
      <4>5. PlaceOK(y)'
        BY <3>2, <3>4, <3>7 DEF PlaceOK, Home, Goal
      <4> QED
        BY <1>3, <3>2, <3>4, <3>7, <4>1, <4>2, <4>3, <4>4, <4>5 DEF RequestOK
    <3> QED
      BY <3>1, <3>7
  <2> QED
    BY <2>1, <2>2
<1>7. RequestsOK'
  BY <1>5, <1>6 DEF RequestsOK
<1> QED
  BY <1>3, <1>4, <1>7, TenantsChange DEF AccInv, AccTypeOK

LEMMA WriteKeeps ==
  ASSUME AccInv, NEW s \in Slots, Write(s)
  PROVE  AccInv'
<1> DEFINE task == req[s].task
<1>1. /\ At(s, "write") /\ task \in Tasks /\ PlaceOK(req[s])
      /\ UNCHANGED <<agenda, now, tokens, bucket, admitted>>
      /\ account \in [People -> [role : Roles, active : BOOLEAN] \cup {NotYet, Deleted}]
  BY RequestFacts DEF Write, At, AccInv, AccTypeOK
<1>2. task.kind \in {"add_user", "set_role"} => task.value \in Roles
  BY <1>1 DEF PlaceOK, Handling, At
<1>3. task.kind \in UserKinds \cup {"add_user"} => task.on \in People
  BY <1>1, TaskFacts
<1>4. CASE AddUser(s, task)
  <2>1. [account EXCEPT ![task.on] = [role |-> task.value, active |-> TRUE]]
          \in [People -> [role : Roles, active : BOOLEAN] \cup {NotYet, Deleted}]
    BY <1>1, <1>2, <1>4 DEF AddUser
  <2> QED
    BY <1>1, <1>4, <2>1, WriteUserKeeps DEF AddUser
<1>5. CASE UpdateUser(s, task)
  <2>1. task.on \in People /\ account[task.on] \in [role : Roles, active : BOOLEAN]
    BY <1>1, <1>3, <1>5 DEF UpdateUser, There, UserKinds
  <2>2. [account EXCEPT ![task.on].active = (task.value = "on")]
          \in [People -> [role : Roles, active : BOOLEAN] \cup {NotYet, Deleted}]
    BY <1>1, <2>1
  <2>3. task.kind = "set_role" =>
          [account EXCEPT ![task.on].role = task.value]
            \in [People -> [role : Roles, active : BOOLEAN] \cup {NotYet, Deleted}]
    BY <1>1, <1>2, <2>1
  <2> QED
    BY <1>1, <1>5, <2>2, <2>3, WriteUserKeeps DEF UpdateUser
<1>6. CASE DeleteUser(s, task)
  <2>1. [account EXCEPT ![task.on] = Deleted]
          \in [People -> [role : Roles, active : BOOLEAN] \cup {NotYet, Deleted}]
    BY <1>1
  <2> QED
    BY <1>1, <1>6, <2>1, WriteUserKeeps DEF DeleteUser
<1>7. CASE MissUser(s, task)
  BY <1>1, <1>7, WriteUserKeeps DEF MissUser
<1>8. CASE SwitchTenant(s, task)
  BY <1>1, <1>8, SwitchTenantKeeps
<1>9. CASE AddGroup(s, task)
  <2>1. task.value \in GroupNames
    BY <1>1, <1>9, TaskFacts DEF AddGroup
  <2>2. groupName' \in [Groups -> GroupNames \cup {NotYet}]
    BY <1>9, <2>1 DEF AddGroup, AccInv, AccTypeOK
  <2>3. RequestsOK'
    BY <1>1, <1>9, GoodStays, EndOfRequest DEF AddGroup
  <2> QED
    BY <1>1, <1>9, <2>2, <2>3, TenantsChange DEF AddGroup, AccInv, AccTypeOK
<1>10. CASE AssignGroup(s, task)
  BY <1>1, <1>10, AssignGroupKeeps
<1> QED
  BY <1>4, <1>5, <1>6, <1>7, <1>8, <1>9, <1>10 DEF Write
-----------------------------------------------------------------------------
\* Time passes: roles that are held are held longer, the others lose tokens.
LEMMA TickKeeps ==
  ASSUME AccInv, Tick
  PROVE  AccInv'
<1>1. /\ now \in Nat /\ now' = now + 1 /\ now' \in Nat /\ now <= now' /\ now < agenda.ticks
      /\ agenda.ticks \in Nat
      /\ UNCHANGED <<agenda, account, open, groupOf, groupName, bucket, req, admitted>>
  BY GoodStays, AccountsAssumption DEF Tick, tables, AccInv, AccTypeOK
<1>2. /\ GoodUpTo(now', account) \in [People -> [Roles -> 0 .. now' + 1]]
      /\ \A p \in People, role \in Roles :
           /\ good[p][role] <= GoodUpTo(now', account)[p][role]
           /\ account[p] = [role |-> role, active |-> TRUE] => GoodUpTo(now', account)[p][role] = now' + 1
  BY <1>1, GoodGrows
<1>3. /\ good' \in [People -> [Roles -> 0 .. now' + 1]]
      /\ \A p \in People, role \in Roles :
           /\ good[p][role] <= good'[p][role] /\ good[p][role] \in Nat /\ good'[p][role] \in Nat
           /\ account[p] = [role |-> role, active |-> TRUE] => good'[p][role] = now' + 1
  <2>1. good' = GoodUpTo(now', account)
    BY DEF Tick
  <2>2. good' \in [People -> [Roles -> 0 .. now' + 1]]
    BY <1>2, <2>1
  <2>3. \A p \in People, role \in Roles : good'[p][role] \in Nat
    BY <1>1, <2>2
  <2> QED
    BY <1>1, <1>2, <2>1, <2>2, <2>3, GoodStays
<1>4. GoodOK'
  BY <1>1, <1>3 DEF GoodOK, IsActive
<1>5. ASSUME NEW p \in People, NEW t \in tokens'[p]
      PROVE  /\ t \in [role : Roles, exp : now' + 1 .. now' + TTL]
             /\ t.exp + 1 <= good'[p][t.role] + TTL + Patience
  <2>1. t \in tokens[p] /\ now' < t.exp
    BY <1>5 DEF Tick
  <2>2. t \in [role : Roles, exp : now + 1 .. now + TTL] /\ t.exp + 1 <= good[p][t.role] + TTL + Patience
    BY <2>1 DEF AccInv, AccTypeOK, TokensOK
  <2>3. t.role \in Roles /\ t.exp \in Nat /\ t.exp <= now + TTL
    BY <1>1, <2>2, AccountsAssumption
  <2>4. t.exp \in now' + 1 .. now' + TTL
    BY <1>1, <2>1, <2>3, AccountsAssumption
  <2>5. t.exp + 1 <= good'[p][t.role] + TTL + Patience
    <3>1. good[p][t.role] <= good'[p][t.role] /\ good[p][t.role] \in Nat /\ good'[p][t.role] \in Nat
      BY <1>3, <2>3
    <3> QED
      BY <2>2, <2>3, <3>1, AccountsAssumption
  <2> QED
    BY <2>2, <2>4, <2>5
<1>6. TokensOK'
  BY <1>5 DEF TokensOK
<1>7. RequestsOK'
  <2>1. ASSUME NEW s \in Slots, NEW r, r = req[s] PROVE RequestOK(r)'
    <3>1. CASE r = NoRequest
      BY <3>1 DEF RequestOK
    <3>2. CASE r # NoRequest
      <4>1. /\ r \in Requests /\ r.since \in 0 .. now /\ r.task.by \in People /\ r.role \in Roles
            /\ TimelyOK(r) /\ TenantOK(r) /\ ScopeOK(r) /\ PlaceOK(r)
        BY <2>1, <3>2, RequestFacts DEF By
      <4>2. now' - r.since <= Patience
        <5>1. now - r.since < Patience
          BY <2>1, <3>2 DEF Tick
        <5> QED
          BY <1>1, <4>1, <5>1, AccountsAssumption
      <4>3. r.since \in 0 .. now'
        BY <1>1, <4>1
      <4>4. r \in Requests'
        BY <4>1, <4>3 DEF Requests
      <4>5. TimelyOK(r)'
        <5>1. /\ good[r.task.by][r.role] <= good'[r.task.by][r.role]
              /\ good[r.task.by][r.role] \in Nat /\ good'[r.task.by][r.role] \in Nat /\ r.since \in Nat
          <6>1. r.task.by \in People /\ r.role \in Roles /\ r.since \in Nat
            BY <1>1, <4>1
          <6> QED
            BY <1>3, <6>1
        <5> QED
          BY <4>1, <5>1, AccountsAssumption DEF TimelyOK
      <4>6. TenantOK(r)' /\ ScopeOK(r)' /\ PlaceOK(r)'
        BY <1>1, <4>1 DEF TenantOK, ScopeOK, PlaceOK, SameGroup
      <4> QED
        BY <4>2, <4>4, <4>5, <4>6 DEF RequestOK
    <3> QED
      BY <3>1, <3>2
  <2>2. req' = [s \in Slots |-> req'[s]]
    BY <1>1 DEF AccInv, RequestsOK
  <2> QED
    BY <1>1, <2>1, <2>2 DEF RequestsOK
<1>8. AccTypeOK'
  <2>1. bucket' \in [People -> [count : 0 .. MAX_REQUESTS, start : 0 .. now']]
    <3>1. 0 .. now \subseteq 0 .. now'
      BY <1>1
    <3>2. [count : 0 .. MAX_REQUESTS, start : 0 .. now] \subseteq [count : 0 .. MAX_REQUESTS, start : 0 .. now']
      BY <3>1
    <3> QED
      BY <1>1, <3>2 DEF AccInv, AccTypeOK
  <2>2. ASSUME NEW p \in People PROVE admitted'[p] \in Seq(0 .. now')
    <3> DEFINE a == admitted[p]
    <3>1. a \in Seq(0 .. now)
      BY DEF AccInv, AccTypeOK
    <3> HIDE DEF a
    <3>2. Len(a) \in Nat /\ SubSeq(a, 1, Len(a)) = a
      BY <3>1, LenProperties, SubSeqFull
    <3>3. \A i \in 1 .. Len(a) : a[i] \in 0 .. now'
      BY <1>1, <3>1, ElementOfSeq
    <3>4. SubSeq(a, 1, Len(a)) \in Seq(0 .. now')
      BY <3>2, <3>3, SubSeqProperties
    <3> QED
      BY <1>1, <3>2, <3>4 DEF a
  <2>3. now' \in 0 .. agenda'.ticks
    BY <1>1
  <2>4. \A p \in People : tokens'[p] \subseteq [role : Roles, exp : now' + 1 .. now' + TTL]
    BY <1>5
  <2>5. \A s \in Slots : req'[s] # NoRequest => req'[s] \in Requests' /\ now' - req'[s].since <= Patience
    BY <1>7 DEF RequestsOK, RequestOK
  <2> QED
    BY <1>1, <1>3, <2>1, <2>2, <2>3, <2>4, <2>5 DEF AccInv, AccTypeOK
<1>9. \A p \in People : BucketOK(p)'
  BY <1>1 DEF AccInv, BucketOK
<1>10. tokens' = [p \in People |-> tokens'[p]] /\ admitted' = [p \in People |-> admitted'[p]]
  BY <1>1 DEF AccInv, Tick
<1> QED
  BY <1>4, <1>6, <1>7, <1>8, <1>9, <1>10 DEF AccInv

\* The process restarts: nothing is counted and nobody is being served.
LEMMA RestartKeeps ==
  ASSUME AccInv, Restart
  PROVE  AccInv'
<1>1. /\ bucket' = [p \in People |-> NoBucket] /\ req' = [s \in Slots |-> NoRequest]
      /\ admitted' = [p \in People |-> <<>>] /\ now \in Nat
      /\ UNCHANGED <<agenda, now, account, open, groupOf, groupName, tokens, good>>
  BY GoodStays DEF Restart, tables
<1>2. RequestsOK'
  BY <1>1 DEF RequestsOK, RequestOK
<1>3. NoBucket \in [count : 0 .. MAX_REQUESTS, start : 0 .. now]
  BY <1>1, AccountsAssumption DEF NoBucket
<1>4. <<>> \in Seq(0 .. now) /\ Len(<<>>) <= 2 * MAX_REQUESTS
  BY EmptySeq, AccountsAssumption
<1>5. AccTypeOK'
  BY <1>1, <1>2, <1>3, <1>4 DEF AccInv, AccTypeOK, RequestsOK, RequestOK
<1>6. GoodOK' /\ TokensOK'
  BY <1>1 DEF AccInv, GoodOK, IsActive, TokensOK
<1>7. \A p \in People : BucketOK(p)'
  BY <1>1 DEF BucketOK, Windowed
<1>8. tokens' = [p \in People |-> tokens'[p]] /\ admitted' = [p \in People |-> admitted'[p]]
  BY <1>1 DEF AccInv
<1> QED
  BY <1>2, <1>5, <1>6, <1>7, <1>8 DEF AccInv

LEMMA AccStarts == AccInit => AccInv
<1> SUFFICES ASSUME AccInit PROVE AccInv
  OBVIOUS
<1>1. now = 0 /\ agenda \in Agendas /\ agenda.ticks \in Nat
  BY AccountsAssumption DEF AccInit
<1>2. account \in [People -> [role : Roles, active : BOOLEAN] \cup {NotYet, Deleted}]
  BY AccountsAssumption DEF AccInit
<1>3. /\ open \subseteq Dealers /\ groupOf \in [Dealers -> Groups \cup {NoGroup}]
      /\ groupName \in [Groups -> GroupNames \cup {NotYet}]
  BY AccountsAssumption DEF AccInit
<1>4. ASSUME NEW p \in People, NEW t \in tokens[p]
      PROVE  t \in [role : Roles, exp : 1 .. TTL] /\ t.exp + 1 <= good[p][t.role] + TTL + Patience
  <2>1. FirstRole[p] \in Roles /\ t = [role |-> FirstRole[p], exp |-> TTL]
    BY <1>4, AccountsAssumption DEF AccInit
  <2>2. good[p][FirstRole[p]] = 1
    BY <2>1 DEF AccInit
  <2>3. t.role = FirstRole[p] /\ t.exp = TTL
    BY <2>1
  <2>4. t \in [role : Roles, exp : 1 .. TTL]
    BY <2>1, AccountsAssumption
  <2>5. t.exp + 1 <= good[p][t.role] + TTL + Patience
    BY <2>2, <2>3, AccountsAssumption
  <2> QED
    BY <2>4, <2>5
<1>5. good \in [People -> [Roles -> 0 .. 1]]
  BY DEF AccInit
<1>6. NoBucket \in [count : 0 .. MAX_REQUESTS, start : 0 .. 0]
  BY AccountsAssumption DEF NoBucket
<1>7. \A p \in People : bucket[p] = NoBucket /\ admitted[p] = <<>>
  BY DEF AccInit
<1>8. <<>> \in Seq(0 .. 0) /\ Len(<<>>) <= 2 * MAX_REQUESTS
  BY EmptySeq, AccountsAssumption
<1>9. RequestsOK
  BY DEF AccInit, RequestsOK, RequestOK
<1>10. AccTypeOK
  <2>1. now \in 0 .. agenda.ticks
    BY <1>1
  <2>2. bucket \in [People -> [count : 0 .. MAX_REQUESTS, start : 0 .. now]]
    BY <1>1, <1>6 DEF AccInit
  <2>3. \A p \in People : tokens[p] \subseteq [role : Roles, exp : now + 1 .. now + TTL]
    <3>1. now + 1 = 1 /\ now + TTL = TTL
      BY <1>1, AccountsAssumption
    <3> QED
      BY <1>4, <3>1
  <2>4. good \in [People -> [Roles -> 0 .. now + 1]]
    BY <1>1, <1>5
  <2>5. \A p \in People : admitted[p] \in Seq(0 .. now) /\ Len(admitted[p]) <= 2 * MAX_REQUESTS
    BY <1>1, <1>7, <1>8
  <2>6. \A s \in Slots : req[s] # NoRequest => req[s] \in Requests /\ now - req[s].since <= Patience
    BY <1>9 DEF RequestsOK, RequestOK
  <2> QED
    BY <1>1, <1>2, <1>3, <2>1, <2>2, <2>3, <2>4, <2>5, <2>6 DEF AccTypeOK
<1>11. GoodOK
  <2>1. ASSUME NEW p \in People, NEW role \in Roles, IsActive(p, role) PROVE good[p][role] = 1
    <3>a. account[p] = IF FirstRole[p] = NotYet THEN NotYet ELSE [role |-> FirstRole[p], active |-> TRUE]
      BY DEF AccInit
    <3>b. [role |-> role, active |-> TRUE] \in [role : Roles, active : BOOLEAN]
      OBVIOUS
    <3>c. NotYet # [role |-> role, active |-> TRUE]
      BY <3>b, AccountsAssumption
    <3>1. FirstRole[p] # NotYet /\ account[p] = [role |-> FirstRole[p], active |-> TRUE]
      BY <2>1, <3>a, <3>c DEF IsActive
    <3>2. account[p].role = role /\ account[p].role = FirstRole[p]
      BY <2>1, <3>1 DEF IsActive
    <3> QED
      BY <3>2 DEF AccInit
  <2> QED
    BY <1>1, <2>1 DEF GoodOK
<1>12. TokensOK /\ \A p \in People : BucketOK(p)
  BY <1>4, <1>7 DEF TokensOK, BucketOK, Windowed
<1>13. tokens = [p \in People |-> tokens[p]] /\ admitted = [p \in People |-> admitted[p]]
  BY DEF AccInit
<1> QED
  BY <1>9, <1>10, <1>11, <1>12, <1>13 DEF AccInv

LEMMA AccStays == AccInv /\ [AccNext]_accVars => AccInv'
<1> SUFFICES ASSUME AccInv, [AccNext]_accVars PROVE AccInv'
  OBVIOUS
<1>1. ASSUME NEW s \in Slots, LookUpLogin(s) PROVE AccInv'
  BY <1>1, LookUpLoginKeeps
<1>2. ASSUME NEW s \in Slots, IssueToken(s) PROVE AccInv'
  BY <1>2, IssueTokenKeeps
<1>3. ASSUME NEW s \in Slots, Authenticate(s) PROVE AccInv'
  BY <1>3, AuthenticateKeeps
<1>4. ASSUME NEW s \in Slots, GuardTenant(s) PROVE AccInv'
  BY <1>4, GuardTenantKeeps
<1>5. ASSUME NEW s \in Slots, Admit(s) PROVE AccInv'
  BY <1>5, AdmitKeeps
<1>6. ASSUME NEW s \in Slots, Deny(s) \/ RequestFails(s) PROVE AccInv'
  BY <1>6, RefusalKeeps
<1>7. ASSUME NEW s \in Slots, FindUser(s) PROVE AccInv'
  BY <1>7, FindUserKeeps
<1>8. ASSUME NEW s \in Slots, Manage(s) PROVE AccInv'
  BY <1>8, ManageKeeps
<1>9. ASSUME NEW s \in Slots, ReadTheirGroup(s) PROVE AccInv'
  BY <1>9, ReadTheirGroupKeeps
<1>10. ASSUME NEW s \in Slots, ReadOwnGroup(s) PROVE AccInv'
  BY <1>10, ReadOwnGroupKeeps
<1>11. ASSUME NEW s \in Slots, ReadScope(s) PROVE AccInv'
  BY <1>11, ReadScopeKeeps
<1>12. ASSUME NEW s \in Slots, ReadScoped(s) PROVE AccInv'
  BY <1>12, ReadScopedKeeps
<1>13. ASSUME NEW s \in Slots, FindGroup(s) PROVE AccInv'
  BY <1>13, FindGroupKeeps
<1>14. ASSUME NEW s \in Slots, InsertGroup(s) PROVE AccInv'
  BY <1>14, InsertGroupKeeps
<1>15. ASSUME NEW s \in Slots, Write(s) PROVE AccInv'
  BY <1>15, WriteKeeps
<1>16. CASE UNCHANGED accVars
  <2>1. AccTypeOK' /\ GoodOK' /\ TokensOK' /\ RequestsOK'
    <3>1. AccTypeOK' /\ GoodOK' /\ TokensOK'
      BY <1>16 DEF accVars, tables, AccInv, AccTypeOK, GoodOK, IsActive, TokensOK, Requests
    <3>2. ASSUME NEW s \in Slots, NEW r, r = req[s] PROVE RequestOK(r)'
      BY <1>16, <3>2 DEF accVars, tables, AccInv, RequestsOK, RequestOK, Requests, TimelyOK,
         TenantOK, ScopeOK, SameGroup, PlaceOK
    <3> QED
      BY <1>16, <3>1, <3>2 DEF accVars, tables, AccInv, RequestsOK
  <2> QED
    BY <1>16, <2>1 DEF accVars, tables, AccInv, BucketOK
<1> QED
  BY <1>1, <1>2, <1>3, <1>4, <1>5, <1>6, <1>7, <1>8, <1>9, <1>10, <1>11, <1>12, <1>13,
     <1>14, <1>15, <1>16, TickKeeps, RestartKeeps DEF AccNext

LEMMA AccInvariant == AccSpec => []AccInv
<1>1. AccInit => AccInv
  BY AccStarts
<1>2. AccInv /\ [AccNext]_accVars => AccInv'
  BY AccStays
<1> QED
  BY <1>1, <1>2, PTL DEF AccSpec
-----------------------------------------------------------------------------
\* Accounts, tokens, requests and counters keep their types, whatever the
\* administrators and the clock do.
THEOREM AccountsTypeCorrect == AccSpec => []AccTypeOK
<1>1. AccInv => AccTypeOK
  BY DEF AccInv
<1> QED
  BY <1>1, AccInvariant, PTL

\* The rate limit never admits more than twice its number within a window
\* (rateLimit.ts:20-40).
THEOREM LimitHoldsAcrossWindows == AccSpec => []TwiceTheLimit
<1>1. AccInv => TwiceTheLimit
  <2> SUFFICES ASSUME AccInv, NEW p \in People, Len(admitted[p]) = 2 * MAX_REQUESTS
               PROVE  admitted[p][1] - admitted[p][2 * MAX_REQUESTS] >= WINDOW
    BY DEF TwiceTheLimit
  <2> DEFINE a == admitted[p]
             b == bucket[p]
             k == 2 * MAX_REQUESTS
  <2>1. /\ a \in Seq(0 .. now) /\ b \in [count : 0 .. MAX_REQUESTS, start : 0 .. now] /\ Windowed(b, a)
        /\ now \in Nat
    BY GoodStays DEF AccInv, AccTypeOK, BucketOK
  <2>2. /\ MAX_REQUESTS \in Nat /\ MAX_REQUESTS >= 1 /\ WINDOW \in Nat /\ Len(a) = k
        /\ b.count \in 0 .. MAX_REQUESTS /\ b.start \in 0 .. now
    BY <2>1, AccountsAssumption
  <2> HIDE DEF a, b
  <2>3. k \in 1 .. Len(a) /\ 1 \in 1 .. Len(a) /\ k >= b.count + MAX_REQUESTS /\ k # 0
    BY <2>2
  <2> HIDE DEF k
  <2>4. a[k] \in 0 .. now /\ a[1] \in 0 .. now
    BY <2>1, <2>3, ElementOfSeq
  <2>5. b # NoBucket
    <3>1. ASSUME a = <<>> PROVE FALSE
      <4>1. Len(a) = 0
        BY <3>1
      <4> QED
        BY <2>2, <2>3, <4>1
    <3> QED
      BY <2>1, <3>1 DEF Windowed
  <2>6. a[k] + WINDOW <= b.start /\ a[1] >= b.start
    BY <2>1, <2>3, <2>5 DEF Windowed
  <2>7. a[1] - a[k] >= WINDOW
    BY <2>1, <2>2, <2>4, <2>6
  <2> QED
    BY <2>7 DEF a, k
<1> QED
  BY <1>1, AccInvariant, PTL

\* A dealer administrator who writes to an account shared a group with its
\* tenant while the request ran, if no more than one group was assigned
\* meanwhile (adminUsers.ts:38-60).
THEOREM DealersStayInScope == AccSpec => []ScopeHeld
<1>1. AccInv => ScopeHeld
  BY RequestFacts DEF ScopeHeld, ScopeOK, At, Goal, Target
<1> QED
  BY <1>1, AccInvariant, PTL

\* A request is admitted in a role no later than the life of a token, of the
\* login that got it and of the request itself after the account last had the
\* role, and, but for developers, in a tenant that was active meanwhile
\* (tokens.ts:14-29, tenantGuard.ts:26-40).
THEOREM RevokedRolesRunOut == AccSpec => RevocationTakesEffect
<1>1. AccInv /\ [AccNext]_accVars =>
        [\A s \in Slots :
           At(s, "admit") /\ admitted' # admitted /\ req'[s] # req[s] =>
             /\ now < good[By(s)][req[s].role] - 1 + TTL + 2 * Patience
             /\ req[s].role # "DEVELOPER" => req[s].open]_accVars
  <2> SUFFICES ASSUME AccInv, NEW s \in Slots, At(s, "admit")
               PROVE  /\ now < good[By(s)][req[s].role] - 1 + TTL + 2 * Patience
                      /\ req[s].role # "DEVELOPER" => req[s].open
    OBVIOUS
  <2>1. /\ By(s) \in People /\ req[s].role \in Roles /\ now \in Nat /\ req[s].since \in 0 .. now
        /\ now - req[s].since <= Patience
        /\ TimelyOK(req[s]) /\ TenantOK(req[s]) /\ req[s].pc = "admit"
    BY RequestFacts DEF At
  <2>2. good[By(s)][req[s].role] \in Nat
    BY <2>1, GoodStays
  <2>3. req[s].since + 1 < good[By(s)][req[s].role] + TTL + Patience
    BY <2>1 DEF TimelyOK, By
  <2>4. now < good[By(s)][req[s].role] - 1 + TTL + 2 * Patience
    BY <2>1, <2>2, <2>3, AccountsAssumption
  <2> QED
    BY <2>1, <2>4 DEF TenantOK
<1> QED
  BY <1>1, AccInvariant, PTL DEF AccSpec, RevocationTakesEffect
-----------------------------------------------------------------------------
(***************************************************************************)
(* The two together, as they are checked.                                  *)
(***************************************************************************)

\* Each part of a behaviour of administrators is a behaviour of its module.
THEOREM AdministrationIsBoth == Spec => SftpSpec /\ AccSpec
<1>1. Init => SftpInit /\ AccInit
  BY DEF Init
<1>2. [Next]_<<focus, sftpVars, accVars>> => [SftpNext]_sftpVars /\ [AccNext]_accVars
  BY DEF Next
<1> QED
  BY <1>1, <1>2, PTL DEF Spec, SftpSpec, AccSpec

\* Rows, local users, accounts, tokens and requests keep their types when
\* tenants and users are administered.
THEOREM AdministrationTypeCorrect == Spec => []AdministrationTypeOK
<1>1. SftpTypeOK /\ AccTypeOK => AdministrationTypeOK
  BY DEF AdministrationTypeOK
<1> QED
  BY <1>1, AdministrationIsBoth, SftpTypeCorrect, AccountsTypeCorrect, PTL
=============================================================================
