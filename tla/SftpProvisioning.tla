------------------------- MODULE SftpProvisioning -------------------------
(***************************************************************************)
(* Tenants and their SFTP accounts (adminApi.ts, storageSftp.ts): a tenant *)
(* is a row of app.tenants, its account a local user of the Azure storage  *)
(* account.  No transaction spans the two.  A creation calls Azure inside  *)
(* its database transaction; the other operations read the row, call Azure *)
(* and update the row in statements of their own.  Operations of several   *)
(* administrators interleave at every await, fail at any step and end with *)
(* the gateway process.                                                    *)
(***************************************************************************)
EXTENDS Naturals

CONSTANTS
  Operations,   \* admin requests
  OpKind,       \* OpKind[o]: "create", "provision", "rotate" or "remove"
  OpTenant,     \* OpTenant[o]: the tenant it is about; a creation makes a new one
  OpName,       \* OpName[o]: the name of the tenant it creates
  OldTenants,   \* tenants that were there before
  NoUser, NoRow, NoName,
  MaxMishaps    \* failures in one behaviour

Creations == {o \in Operations : OpKind[o] = "create"}
Tenants == OldTenants \cup {OpTenant[o] : o \in Operations}

\* The columns that matter: sftp_enabled, sftp_username, sftp_last_error_code.
Rows == [name : {OpName[o] : o \in Creations} \cup {NoName}, enabled : BOOLEAN,
         named : BOOLEAN, error : BOOLEAN]

ASSUME SftpAssumption ==
  /\ OpKind \in [Operations -> {"create", "provision", "rotate", "remove"}]
  /\ DOMAIN OpTenant = Operations /\ DOMAIN OpName = Operations
  /\ \A o \in Creations : OpTenant[o] \notin OldTenants
  /\ \A o, p \in Creations : OpTenant[o] = OpTenant[p] => o = p
  /\ NoUser \notin Operations /\ NoRow \notin Rows
  /\ MaxMishaps \in Nat

VARIABLES
  step,       \* where each operation is
  row,        \* row[t]: the committed row of tenant t, or NoRow
  localUser,  \* localUser[t]: the operation whose key Azure accepts, or NoUser
  trail,      \* audit entries, as pairs of operation and outcome
  mishaps,    \* failures so far
  hurt,       \* operations that met one
  unsure,     \* creations whose COMMIT took effect unconfirmed
  alone,      \* operations that have met no other one on their tenant
  raced,      \* names that two creations asked for at the same time
  latest      \* latest[t]: the operation on t that ended last, or NoUser

history == <<hurt, unsure, alone, raced, latest>>
sftpVars == <<step, row, localUser, trail, mishaps, history>>

Running == {"checked", "applied", "updated", "committed", "failing", "marked"}
Over == {"succeeded", "failed", "gone"}

NewRow(name) == [name |-> name, enabled |-> FALSE, named |-> FALSE, error |-> FALSE]

SftpInit ==
  /\ step = [o \in Operations |-> "idle"]
  /\ row = [t \in Tenants |-> IF t \in OldTenants THEN NewRow(NoName) ELSE NoRow]
  /\ localUser = [t \in Tenants |-> NoUser]
  /\ trail = {}
  /\ mishaps = 0
  /\ hurt = {} /\ unsure = {} /\ alone = {} /\ raced = {}
  /\ latest = [t \in Tenants |-> NoUser]

-----------------------------------------------------------------------------
Go(o, s) == step' = [step EXCEPT ![o] = s]

\* Operation o meets a failure and goes on at s.
Mishap(o, s) ==
  /\ mishaps < MaxMishaps /\ mishaps' = mishaps + 1
  /\ hurt' = hurt \cup {o}
  /\ Go(o, s)

Others(o) ==
  {p \in Operations \ {o} : OpTenant[p] = OpTenant[o] /\ step[p] \in Running}

\* o begins: it and those it meets on its tenant are not alone any more.
Meet(o) == alone' = IF Others(o) = {} THEN alone \cup {o} ELSE alone \ Others(o)

Exists(t) == row[t] # NoRow

\* Mistake: a tenant whose SFTP is off does not count.
NameTakenByEnabled(name) == \E t \in Tenants : Exists(t) /\ row[t].name = name /\ row[t].enabled

NameTaken(name) == \E t \in Tenants : Exists(t) /\ row[t].name = name

\* POST /admin/api/tenants: the name is looked up among the committed rows;
\* the row is inserted in the open transaction, where nobody sees it.
CheckName(o) ==
  /\ step[o] = "idle" /\ OpKind[o] = "create"
  /\ Go(o, IF NameTaken(OpName[o]) THEN "failing" ELSE "checked")
  /\ Meet(o)
  /\ raced' = raced \cup
       {OpName[p] : p \in {q \in Creations \ {o} : OpName[q] = OpName[o] /\ step[q] \in Running}}
  /\ UNCHANGED <<row, localUser, trail, mishaps, hurt, unsure, latest>>

\* The other operations: is there such a tenant?
CheckTenant(o) ==
  /\ step[o] = "idle" /\ OpKind[o] # "create"
  /\ Go(o, IF Exists(OpTenant[o]) THEN "checked" ELSE "failing")
  /\ Meet(o)
  /\ UNCHANGED <<row, localUser, trail, mishaps, hurt, unsure, raced, latest>>

\* What the request to Azure does: PUT replaces the user and its key, DELETE
\* removes the user or finds none (404).
PutUser(o) == OpKind[o] # "remove" /\ localUser' = [localUser EXCEPT ![OpTenant[o]] = o]
DropUser(o) == OpKind[o] = "remove" /\ localUser' = [localUser EXCEPT ![OpTenant[o]] = NoUser]
ApplyToAzure(o) == PutUser(o) \/ DropUser(o)

CallAzure(o) ==
  /\ step[o] = "checked"
  /\ ApplyToAzure(o)
  /\ Go(o, "applied")
  /\ UNCHANGED <<row, trail, mishaps, history>>

\* Mistake: the status of the response is not looked at.
AzureRefusesUnseen(o) ==
  /\ step[o] = "checked"
  /\ Mishap(o, "applied")
  /\ UNCHANGED <<row, localUser, trail, unsure, alone, raced, latest>>

\* Azure refuses, or no token is to be had.
AzureRefuses(o) ==
  /\ step[o] = "checked"
  /\ Mishap(o, "failing")
  /\ UNCHANGED <<row, localUser, trail, unsure, alone, raced, latest>>

\* Azure does what it was asked for, but the response is lost.
AzureAnswerLost(o) ==
  /\ step[o] = "checked"
  /\ ApplyToAzure(o)
  /\ Mishap(o, "failing")
  /\ UNCHANGED <<row, trail, unsure, alone, raced, latest>>

\* buildSftpSuccessUpdate, and what the deletion writes.
Provisioned(r) == [r EXCEPT !.enabled = TRUE, !.named = TRUE, !.error = FALSE]
Removed(r) == [r EXCEPT !.enabled = FALSE, !.named = FALSE, !.error = FALSE]
Settled(r, kind) == IF kind = "remove" THEN Removed(r) ELSE Provisioned(r)

\* Mistake: the update leaves the error of an earlier attempt in place and
\* does not switch SFTP on again.
SettledOnce(r, kind) ==
  IF r.error THEN r ELSE [r EXCEPT !.enabled = kind # "remove", !.named = kind # "remove"]

\* Mistake as above, for the update itself.
UpdateBlindly(o) ==
  /\ step[o] = "applied"
  /\ Go(o, "updated")
  /\ row' = IF Exists(OpTenant[o])
              THEN [row EXCEPT ![OpTenant[o]] = SettledOnce(@, OpKind[o])]
              ELSE row
  /\ UNCHANGED <<localUser, trail, mishaps, history>>

\* applyTenantSftpUpdate; in a creation it is part of the open transaction.
Update(o) ==
  /\ step[o] = "applied"
  /\ Go(o, "updated")
  /\ row' = IF Exists(OpTenant[o])
              THEN [row EXCEPT ![OpTenant[o]] = Settled(@, OpKind[o])]
              ELSE row
  /\ UNCHANGED <<localUser, trail, mishaps, history>>

CreatedRow(o) == [row EXCEPT ![OpTenant[o]] = Provisioned(NewRow(OpName[o]))]

Commit(o) ==
  /\ step[o] = "updated" /\ OpKind[o] = "create"
  /\ row' = CreatedRow(o)
  /\ Go(o, "committed")
  /\ UNCHANGED <<localUser, trail, mishaps, history>>

\* COMMIT takes effect, but its answer is lost: the request fails.
CommitUnconfirmed(o) ==
  /\ step[o] = "updated" /\ OpKind[o] = "create"
  /\ row' = CreatedRow(o)
  /\ Mishap(o, "failing")
  /\ unsure' = unsure \cup {o}
  /\ UNCHANGED <<localUser, trail, alone, raced, latest>>

\* The UPDATE or the COMMIT fails; ROLLBACK takes the row of a creation back.
StatementFails(o) ==
  /\ \/ step[o] = "applied"
     \/ step[o] = "updated" /\ OpKind[o] = "create"
  /\ Mishap(o, "failing")
  /\ UNCHANGED <<row, localUser, trail, unsure, alone, raced, latest>>

\* What the handlers write after a failure: provisioning switches SFTP off,
\* rotation notes the error, the others write nothing.
ProvisioningFailed(r) == [r EXCEPT !.enabled = FALSE, !.error = TRUE]
RotationFailed(r) == [r EXCEPT !.error = TRUE]
Blamed(r, kind) ==
  CASE kind = "provision" -> ProvisioningFailed(r)
    [] kind = "rotate" -> RotationFailed(r)
    [] OTHER -> r

MarkFailure(o) ==
  /\ step[o] = "failing"
  /\ row' = IF Exists(OpTenant[o])
              THEN [row EXCEPT ![OpTenant[o]] = Blamed(@, OpKind[o])]
              ELSE row
  /\ Go(o, "marked")
  /\ UNCHANGED <<localUser, trail, mishaps, history>>

\* That update fails too, and the handler ignores it.
MarkFails(o) ==
  /\ step[o] = "failing" /\ OpKind[o] \in {"provision", "rotate"}
  /\ Mishap(o, "marked")
  /\ UNCHANGED <<row, localUser, trail, unsure, alone, raced, latest>>

\* Mistake: a creation is reported inside of its transaction.
DoneBeforeCommit(o) == step[o] = "updated"

Done(o) == step[o] = IF OpKind[o] = "create" THEN "committed" ELSE "updated"

\* The audit entry, after which the request is answered.
Report(o) ==
  /\ Done(o) \/ step[o] = "marked"
  /\ LET outcome == IF Done(o) THEN "succeeded" ELSE "failed"
     IN Go(o, outcome) /\ trail' = trail \cup {<<o, outcome>>}
  /\ latest' = [latest EXCEPT ![OpTenant[o]] = o]
  /\ UNCHANGED <<row, localUser, mishaps, hurt, unsure, alone, raced>>

\* auditLog swallows its errors.
ReportUnwritten(o) ==
  /\ Done(o) \/ step[o] = "marked"
  /\ Mishap(o, IF Done(o) THEN "succeeded" ELSE "failed")
  /\ latest' = [latest EXCEPT ![OpTenant[o]] = o]
  /\ UNCHANGED <<row, localUser, trail, unsure, alone, raced>>

\* The gateway dies, and every request with it.
GatewayDies ==
  /\ mishaps < MaxMishaps /\ mishaps' = mishaps + 1
  /\ LET dead == {o \in Operations : step[o] \in Running}
     IN /\ step' = [o \in Operations |-> IF o \in dead THEN "gone" ELSE step[o]]
        /\ hurt' = hurt \cup dead
        /\ latest' = [t \in Tenants |->
             LET d == {o \in dead : OpTenant[o] = t} IN IF d = {} THEN latest[t] ELSE CHOOSE o \in d : TRUE]
  /\ UNCHANGED <<row, localUser, trail, unsure, alone, raced>>

SftpNext ==
  \/ \E o \in Operations :
       \/ CheckName(o) \/ CheckTenant(o)
       \/ CallAzure(o) \/ AzureRefuses(o) \/ AzureAnswerLost(o)
       \/ Update(o) \/ Commit(o) \/ CommitUnconfirmed(o) \/ StatementFails(o)
       \/ MarkFailure(o) \/ MarkFails(o)
       \/ Report(o) \/ ReportUnwritten(o)
  \/ GatewayDies

SftpSpec == SftpInit /\ [][SftpNext]_sftpVars

-----------------------------------------------------------------------------
SftpTypeOK ==
  /\ step \in [Operations -> {"idle"} \cup Running \cup Over]
  /\ row \in [Tenants -> Rows \cup {NoRow}]
  /\ localUser \in [Tenants -> Operations \cup {NoUser}]
  /\ trail \subseteq Operations \X {"succeeded", "failed"}
  /\ mishaps \in 0 .. MaxMishaps
  /\ hurt \subseteq Operations /\ unsure \subseteq hurt /\ alone \subseteq Operations
  /\ raced \subseteq {OpName[o] : o \in Creations}
  /\ latest \in [Tenants -> Operations \cup {NoUser}]

\* An account in Azure belongs to a tenant that exists, or to a creation that
\* is under way or met a failure; and a tenant that was created has one until
\* its account is removed (the PUT inside of the transaction, adminApi.ts:236).
AccountsHaveTenants ==
  \A o \in Creations :
    LET t == OpTenant[o]
    IN /\ localUser[t] # NoUser /\ ~Exists(t) => step[o] \in Running \/ o \in hurt
       /\ Exists(t) /\ localUser[t] = NoUser =>
            \E p \in Operations : OpTenant[p] = t /\ OpKind[p] = "remove" /\ step[p] # "idle"

\* An operation that succeeds settles its tenant, whatever failed before: the
\* row is enabled exactly when Azure has the account, its error is cleared,
\* and the key is the one that was sent last.  It has to be alone: two
\* operations on one tenant may leave the row and Azure in disagreement.
Quiet(t) == \A o \in Operations : OpTenant[o] = t => step[o] \notin Running
SuccessSettles ==
  \A t \in Tenants, o \in alone :
    latest[t] = o /\ step[o] = "succeeded" /\ Quiet(t) =>
      /\ row[t].enabled <=> localUser[t] # NoUser
      /\ row[t].named <=> row[t].enabled
      /\ ~row[t].error
      /\ localUser[t] = IF OpKind[o] = "remove" THEN NoUser ELSE o

\* No two tenants have one name, unless their creations overlapped: there is
\* no unique key behind TENANT_EXISTS.
NamesAreUnique ==
  \A t, u \in Tenants :
    Exists(t) /\ Exists(u) /\ row[t].name = row[u].name /\ row[t].name # NoName
      => t = u \/ row[t].name \in raced

\* TENANT_CREATE_SFTP is written for tenants that exist, TENANT_CREATE_FAILED
\* only for those that do not, or whose COMMIT was not confirmed.
CreationAuditIsTrue ==
  \A o \in Creations :
    /\ <<o, "succeeded">> \in trail => Exists(OpTenant[o])
    /\ <<o, "failed">> \in trail => (Exists(OpTenant[o]) <=> o \in unsure)
=============================================================================
