------------------------------ MODULE Accounts ------------------------------
(***************************************************************************)
(* Users, tenants and dealer groups under concurrent administration, seen  *)
(* through the gateway's middlewares: a login issues a token, a request    *)
(* carries one, and authContext, tenantGuard, rbacGuard, policyMiddleware  *)
(* and rateLimit decide what becomes of it.  Slots stand for connections;  *)
(* each makes one request after the other, and a handler stops at every    *)
(* statement it sends to the database.                                     *)
(***************************************************************************)
EXTENDS Naturals, Sequences, FiniteSets, TLC

CONSTANTS
  Slots,         \* connections
  People,        \* accounts that exist or may be added
  HomeTenant,    \* HomeTenant[p]: tenant of p's account, or NoTenant
  FirstRole,     \* FirstRole[p]: role of p's account, or NotYet
  Dealers,       \* tenants
  Groups,        \* dealer groups that exist or may be added
  FirstGroup,    \* FirstGroup[t]: group of tenant t, or NoGroup
  GroupNames,    \* names of groups
  Agendas,       \* each a set of requests that may be made, and a number of ticks
  TTL,           \* JWT_EXPIRES_IN, in ticks
  WINDOW, MAX_REQUESTS,   \* of the rate limit
  Patience,      \* no request takes more ticks than this
  NoTenant, NoGroup, NoRequest, NotYet, Deleted

Roles == {"USER", "ADMIN", "DEALERADMIN", "DEVELOPER"}
Admins == Roles \ {"USER"}

UserKinds == {"set_active", "set_role", "delete_user"}

\* The requests that the routes read without complaint.
Tasks ==
  [kind : {"login", "use", "add_user"} \cup UserKinds, by : People, on : People,
   value : {"on", "off"} \cup Roles]
  \cup [kind : {"set_tenant"}, by : People, on : Dealers, value : {"on", "off"}]
  \cup [kind : {"add_group"}, by : People, on : People, value : GroupNames]
  \cup [kind : {"assign_group"}, by : People, on : Dealers, value : Groups \cup GroupNames \cup {NoGroup}]

ASSUME AccountsAssumption ==
  /\ IsFiniteSet(Groups)
  /\ HomeTenant \in [People -> Dealers \cup {NoTenant}]
  /\ FirstRole \in [People -> Roles \cup {NotYet}]
  /\ FirstGroup \in [Dealers -> Groups \cup {NoGroup}]
  /\ \A a \in Agendas : a.tasks \subseteq Tasks /\ a.ticks \in Nat
  /\ TTL \in Nat \ {0} /\ WINDOW \in Nat \ {0} /\ MAX_REQUESTS \in Nat \ {0}
  /\ Patience \in Nat
  /\ NoTenant \notin Dealers /\ NoGroup \notin Groups
  /\ NotYet \notin Roles \cup [role : Roles, active : BOOLEAN]

VARIABLES
  agenda,     \* the requests and the last tick of this behaviour
  now,
  account,    \* account[p]: [role, active], NotYet or Deleted
  open,       \* tenants whose is_active is set
  groupOf,    \* groupOf[t]: group_id of tenant t
  groupName,  \* groupName[g]: name of group g, or NotYet
  tokens,     \* tokens[p]: those of p's tokens that are not expired
  bucket,     \* bucket[p]: the rate limit's count and start of window
  req,        \* req[s]: the request of connection s
  good,       \* good[p][r]: one more than the last tick at which p had role r, so far
  admitted    \* admitted[p]: ticks of the last admissions, the latest first

tables == <<account, open, groupOf, groupName>>
accVars == <<agenda, now, tables, tokens, bucket, req, good, admitted>>

NoBucket == [count |-> 0, start |-> 0]

IsActive(p, role) == account[p] = [role |-> role, active |-> TRUE]

\* good after accounts become acc at this tick; 0 says never.
GoodUpTo(tick, acc) ==
  [p \in People |-> [r \in Roles |->
     IF acc[p] = [role |-> r, active |-> TRUE] \/ IsActive(p, r) THEN tick + 1 ELSE good[p][r]]]

AccInit ==
  /\ agenda \in Agendas
  /\ now = 0
  /\ account = [p \in People |-> IF FirstRole[p] = NotYet THEN NotYet
                                   ELSE [role |-> FirstRole[p], active |-> TRUE]]
  /\ open = Dealers
  /\ groupOf = FirstGroup
  /\ groupName = [g \in Groups |-> NotYet]
  /\ tokens = [p \in People |-> IF FirstRole[p] = NotYet THEN {}
                                  ELSE {[role |-> FirstRole[p], exp |-> TTL]}]
  /\ bucket = [p \in People |-> NoBucket]
  /\ req = [s \in Slots |-> NoRequest]
  /\ good = [p \in People |-> [r \in Roles |-> IF FirstRole[p] = r THEN 1 ELSE 0]]
  /\ admitted = [p \in People |-> <<>>]

-----------------------------------------------------------------------------
(***************************************************************************)
(* A request: what is asked, where it stands, since when, the role of the  *)
(* token, what the last statement read, and, for the properties, whether   *)
(* the tenant was active and whether the two tenants shared a group at     *)
(* some moment of it, and how many groups were assigned meanwhile (up to   *)
(* two).                                                                   *)
(***************************************************************************)
At(s, pc) == req[s] # NoRequest /\ req[s].pc = pc
By(s) == req[s].task.by
TenantOf(s) == HomeTenant[By(s)]

\* The tenant that canManageTenant is asked about.
Target(s) == HomeTenant[req[s].task.on]

Advance(s, pc) == req' = [req EXCEPT ![s].pc = pc]
AdvanceWith(s, pc, read) == req' = [req EXCEPT ![s].pc = pc, ![s].read = read]
End(s) == req' = [req EXCEPT ![s] = NoRequest]

SameGroup(t, u, of) == t \in Dealers /\ u \in Dealers /\ of[t] = of[u] /\ of[t] # NoGroup

NewRequest(task, pc, role) ==
  LET home == HomeTenant[task.by]
  IN [task |-> task, pc |-> pc, since |-> now, role |-> role, read |-> NoGroup,
      open |-> home \in open,
      shared |-> task.on \in People /\ SameGroup(home, HomeTenant[task.on], groupOf),
      moves |-> 0]

\* Mistake: the account's own switch is not asked for.
LookUpLoginLoosely(s) ==
  /\ req[s] = NoRequest
  /\ \E task \in agenda.tasks :
       /\ task.kind = "login" /\ account[task.by] \notin {NotYet, Deleted}
       /\ HomeTenant[task.by] \in open
       /\ req' = [req EXCEPT ![s] = NewRequest(task, "issue", account[task.by].role)]
  /\ UNCHANGED <<agenda, now, tables, tokens, bucket, good, admitted>>

\* POST /auth/login, up to the answer of auth_login_lookup, which joins the
\* account with its tenant.
LookUpLogin(s) ==
  /\ req[s] = NoRequest
  /\ \E task \in agenda.tasks, role \in Roles :
       /\ task.kind = "login"
       /\ IsActive(task.by, role)
       /\ HomeTenant[task.by] \in open \/ role = "DEVELOPER"
       /\ req' = [req EXCEPT ![s] = NewRequest(task, "issue", role)]
  /\ UNCHANGED <<agenda, now, tables, tokens, bucket, good, admitted>>

\* issueToken and verifyToken: a token says what the account was, and for how
\* long it may be used.
Issued(role) == [role |-> role, exp |-> now + TTL]
Verified(token) == now < token.exp

\* The password matches.
IssueToken(s) ==
  /\ At(s, "issue")
  /\ tokens' = [tokens EXCEPT ![By(s)] = @ \cup {Issued(req[s].role)}]
  /\ End(s)
  /\ UNCHANGED <<agenda, now, tables, bucket, good, admitted>>

\* authContext: the token is all it knows of the account.
Authenticate(s) ==
  /\ req[s] = NoRequest
  /\ \E task \in agenda.tasks : \E token \in tokens[task.by] :
       /\ task.kind # "login"
       /\ Verified(token)
       /\ req' = [req EXCEPT ![s] =
            NewRequest(task, IF token.role = "DEVELOPER" THEN "admit" ELSE "guard", token.role)]
  /\ UNCHANGED <<agenda, now, tables, tokens, bucket, good, admitted>>

\* tenantGuard, the statement that reads is_active.
GuardTenant(s) ==
  /\ At(s, "guard")
  /\ IF TenantOf(s) \in open THEN Advance(s, "admit") ELSE End(s)
  /\ UNCHANGED <<agenda, now, tables, tokens, bucket, good, admitted>>

\* rbacGuard: what is under /admin is for administrators.
RoleAllowed(s) == req[s].task.kind = "use" \/ req[s].role \in Admins

\* policyMiddleware: nothing is for those without a tenant.
PolicyAllows(s) == TenantOf(s) # NoTenant

Permitted(s) == RoleAllowed(s) /\ PolicyAllows(s)

NewWindow(b) == b = NoBucket \/ now - b.start >= WINDOW

\* Mistake: one request too many.
WithinLimitAndOne(b) == NewWindow(b) \/ b.count <= MAX_REQUESTS

WithinLimit(b) == NewWindow(b) \/ b.count < MAX_REQUESTS

\* Mistake: the request that opens a window is not counted.
CountedFromZero(b) ==
  IF NewWindow(b) THEN [count |-> 0, start |-> now] ELSE [b EXCEPT !.count = @ + 1]

Counted(b) == IF NewWindow(b) THEN [count |-> 1, start |-> now] ELSE [b EXCEPT !.count = @ + 1]

allowedRolesForCreator(role) ==
  CASE role = "DEVELOPER" -> Roles
    [] role = "DEALERADMIN" -> {"USER", "ADMIN"}
    [] role = "ADMIN" -> {"USER"}
    [] OTHER -> {}

\* Where the handler of a request begins, "end" if it refuses at once.
BeginAdding(task, role) ==
  IF \/ HomeTenant[task.on] = NoTenant /\ task.value # "DEVELOPER"
     \/ task.value \notin allowedRolesForCreator(role)
  THEN "end" ELSE "manage"

BeginUpdating(task, role) ==
  IF task.kind = "set_role" /\ task.value \notin allowedRolesForCreator(role) THEN "end" ELSE "find"

\* Switching another tenant is refused here, or for a developer by getTenantScope.
BeginSwitching(task, role, home) ==
  IF task.on # home THEN "end" ELSE IF role = "DEALERADMIN" THEN "scope" ELSE "write"

BeginGrouping(role) == IF role = "DEVELOPER" THEN "write" ELSE "end"

BeginAssigning(task, role) ==
  IF role # "DEVELOPER" THEN "end" ELSE IF task.value \in GroupNames THEN "name" ELSE "write"

FirstStep(s) ==
  LET task == req[s].task
      role == req[s].role
  IN CASE task.kind = "add_user" -> BeginAdding(task, role)
       [] task.kind \in UserKinds -> BeginUpdating(task, role)
       [] task.kind = "set_tenant" -> BeginSwitching(task, role, TenantOf(s))
       [] task.kind = "add_group" -> BeginGrouping(role)
       [] task.kind = "assign_group" -> BeginAssigning(task, role)
       [] OTHER -> "end"

\* rateLimit runs in one go with the guards before it and the handler's start.
Admit(s) ==
  /\ At(s, "admit")
  /\ Permitted(s) /\ WithinLimit(bucket[By(s)])
  /\ bucket' = [bucket EXCEPT ![By(s)] = Counted(@)]
  /\ admitted' = [admitted EXCEPT ![By(s)] =
       SubSeq(<<now>> \o @, 1, IF Len(@) + 1 < 2 * MAX_REQUESTS THEN Len(@) + 1 ELSE 2 * MAX_REQUESTS)]
  /\ IF FirstStep(s) = "end" THEN End(s) ELSE Advance(s, FirstStep(s))
  /\ UNCHANGED <<agenda, now, tables, tokens, good>>

Deny(s) ==
  /\ At(s, "admit")
  /\ ~(Permitted(s) /\ WithinLimit(bucket[By(s)]))
  /\ End(s)
  /\ UNCHANGED <<agenda, now, tables, tokens, bucket, good, admitted>>

-----------------------------------------------------------------------------
(***************************************************************************)
(* The handlers, one statement at a time.                                  *)
(***************************************************************************)
Unchanged == UNCHANGED <<agenda, now, tables, tokens, bucket, good, admitted>>

\* PATCH and DELETE look for the user; one without a tenant is not found.
FindUser(s) ==
  /\ At(s, "find")
  /\ IF account[req[s].task.on] \in {NotYet, Deleted} \/ Target(s) = NoTenant
       THEN End(s) ELSE Advance(s, "manage")
  /\ Unchanged

\* canManageTenant for those who need no statement; a new DEVELOPER without
\* a tenant is in nobody's.
Manage(s) ==
  /\ At(s, "manage")
  /\ CASE req[s].role = "DEVELOPER" \/ Target(s) = NoTenant -> Advance(s, "write")
       [] req[s].role = "ADMIN" -> IF Target(s) = TenantOf(s) THEN Advance(s, "write") ELSE End(s)
       [] OTHER -> Advance(s, "their_group")
  /\ Unchanged

\* canManageTenant of a dealer administrator, in two statements.
ReadTheirGroup(s) ==
  /\ At(s, "their_group")
  /\ AdvanceWith(s, "own_group", groupOf[Target(s)])
  /\ Unchanged

\* Mistake: any group will do.
ReadOwnGroupLoosely(s) ==
  /\ At(s, "own_group")
  /\ IF req[s].read # NoGroup /\ groupOf[TenantOf(s)] # NoGroup THEN Advance(s, "write") ELSE End(s)
  /\ Unchanged

ReadOwnGroup(s) ==
  /\ At(s, "own_group")
  /\ IF req[s].read # NoGroup /\ groupOf[TenantOf(s)] = req[s].read
       THEN Advance(s, "write") ELSE End(s)
  /\ Unchanged

\* getTenantScope of a dealer administrator who switches the own tenant.
ReadScope(s) ==
  /\ At(s, "scope")
  /\ AdvanceWith(s, "scoped", groupOf[TenantOf(s)])
  /\ Unchanged

ReadScoped(s) ==
  /\ At(s, "scoped")
  /\ IF req[s].read \in {NoGroup, groupOf[TenantOf(s)]} THEN Advance(s, "write") ELSE End(s)
  /\ Unchanged

\* The group of that name is looked up, in whatever order the rows come.
FindGroup(s) ==
  /\ At(s, "name")
  /\ LET found == {g \in Groups : groupName[g] = req[s].task.value}
     IN IF found = {} THEN Advance(s, "new_group")
        ELSE \E g \in found : AdvanceWith(s, "write", g)
  /\ Unchanged

FreshGroups == {g \in Groups : groupName[g] = NotYet /\ \A t \in Dealers : groupOf[t] # g}

\* An id that is not used yet gets the name.
InsertGroup(s) ==
  /\ At(s, "new_group")
  /\ \E g \in FreshGroups :
       /\ groupName' = [groupName EXCEPT ![g] = req[s].task.value]
       /\ AdvanceWith(s, "write", g)
  /\ UNCHANGED <<agenda, now, account, open, groupOf, tokens, bucket, good, admitted>>

\* The INSERT, UPDATE or DELETE; it affects nothing if the row is not there.
WriteUser(s, acc) ==
  /\ account' = acc
  /\ good' = GoodUpTo(now, acc)
  /\ End(s)
  /\ UNCHANGED <<open, groupOf, groupName>>

There(p) == account[p] \notin {NotYet, Deleted}

AddUser(s, task) ==
  /\ task.kind = "add_user" /\ account[task.on] = NotYet
  /\ WriteUser(s, [account EXCEPT ![task.on] = [role |-> task.value, active |-> TRUE]])

UpdateUser(s, task) ==
  /\ task.kind \in {"set_active", "set_role"} /\ There(task.on)
  /\ \/ /\ task.kind = "set_active"
        /\ WriteUser(s, [account EXCEPT ![task.on].active = (task.value = "on")])
     \/ /\ task.kind = "set_role"
        /\ WriteUser(s, [account EXCEPT ![task.on].role = task.value])

DeleteUser(s, task) ==
  /\ task.kind = "delete_user" /\ There(task.on)
  /\ WriteUser(s, [account EXCEPT ![task.on] = Deleted])

\* The user was deleted between the statements, or a new one is there already.
MissUser(s, task) ==
  /\ \/ task.kind \in UserKinds /\ ~There(task.on)
     \/ task.kind = "add_user" /\ account[task.on] # NotYet
  /\ WriteUser(s, account)

SwitchTenant(s, task) ==
  /\ task.kind = "set_tenant"
  /\ open' = IF task.value = "on" THEN open \cup {task.on} ELSE open \ {task.on}
  /\ req' = [r \in Slots |->
       IF r = s THEN NoRequest
       ELSE IF req[r] = NoRequest THEN NoRequest
       ELSE [req[r] EXCEPT !.open = @ \/ TenantOf(r) \in open']]
  /\ UNCHANGED <<account, groupOf, groupName, good>>

AddGroup(s, task) ==
  /\ task.kind = "add_group"
  /\ \E g \in FreshGroups : groupName' = [groupName EXCEPT ![g] = task.value]
  /\ End(s)
  /\ UNCHANGED <<account, open, groupOf, good>>

AssignGroup(s, task) ==
  /\ task.kind = "assign_group"
  /\ groupOf' = [groupOf EXCEPT ![task.on] = IF task.value \in GroupNames THEN req[s].read ELSE task.value]
  /\ req' = [r \in Slots |->
       IF r = s THEN NoRequest
       ELSE IF req[r] = NoRequest THEN NoRequest
       ELSE [req[r] EXCEPT
               !.shared = @ \/ (req[r].task.on \in People
                                  /\ SameGroup(TenantOf(r), HomeTenant[req[r].task.on], groupOf')),
               !.moves = IF @ = 2 THEN 2 ELSE @ + 1]]
  /\ UNCHANGED <<account, open, groupName, good>>

Write(s) ==
  /\ At(s, "write")
  /\ LET task == req[s].task
     IN \/ AddUser(s, task) \/ UpdateUser(s, task) \/ DeleteUser(s, task) \/ MissUser(s, task)
        \/ SwitchTenant(s, task) \/ AddGroup(s, task) \/ AssignGroup(s, task)
  /\ UNCHANGED <<agenda, now, tokens, bucket, admitted>>

\* A statement fails, or the password of a login does not match.
RequestFails(s) ==
  /\ req[s] # NoRequest /\ req[s].pc # "admit"
  /\ End(s)
  /\ Unchanged

-----------------------------------------------------------------------------
\* Tokens that expire are of no use any more.
Tick ==
  /\ now < agenda.ticks
  /\ \A s \in Slots : req[s] # NoRequest => now - req[s].since < Patience
  /\ now' = now + 1
  /\ tokens' = [p \in People |-> {t \in tokens[p] : now' < t.exp}]
  /\ good' = GoodUpTo(now', account)
  /\ UNCHANGED <<agenda, tables, bucket, req, admitted>>

\* The process restarts: the buckets are in memory, tokens outlive it.
Restart ==
  /\ \E p \in People : bucket[p] # NoBucket
  /\ bucket' = [p \in People |-> NoBucket]
  /\ req' = [s \in Slots |-> NoRequest]
  /\ admitted' = [p \in People |-> <<>>]
  /\ UNCHANGED <<agenda, now, tables, tokens, good>>

AccNext ==
  \/ \E s \in Slots :
       \/ LookUpLogin(s) \/ IssueToken(s)
       \/ Authenticate(s) \/ GuardTenant(s) \/ Admit(s) \/ Deny(s)
       \/ FindUser(s) \/ Manage(s) \/ ReadTheirGroup(s) \/ ReadOwnGroup(s)
       \/ ReadScope(s) \/ ReadScoped(s) \/ FindGroup(s) \/ InsertGroup(s)
       \/ Write(s) \/ RequestFails(s)
  \/ Tick \/ Restart

AccSpec == AccInit /\ [][AccNext]_accVars

-----------------------------------------------------------------------------
Requests ==
  [task : Tasks, pc : {"issue", "guard", "admit", "find", "manage", "their_group", "own_group",
                       "scope", "scoped", "name", "new_group", "write"},
   since : 0 .. now, role : Roles, read : Groups \cup {NoGroup},
   open : BOOLEAN, shared : BOOLEAN, moves : 0 .. 2]

AccTypeOK ==
  /\ agenda \in Agendas
  /\ now \in 0 .. agenda.ticks
  /\ account \in [People -> [role : Roles, active : BOOLEAN] \cup {NotYet, Deleted}]
  /\ open \subseteq Dealers
  /\ groupOf \in [Dealers -> Groups \cup {NoGroup}]
  /\ groupName \in [Groups -> GroupNames \cup {NotYet}]
  /\ \A p \in People : tokens[p] \subseteq [role : Roles, exp : now + 1 .. now + TTL]
  /\ bucket \in [People -> [count : 0 .. MAX_REQUESTS, start : 0 .. now]]
  /\ \A s \in Slots :
       req[s] # NoRequest => req[s] \in Requests /\ now - req[s].since <= Patience
  /\ good \in [People -> [Roles -> 0 .. now + 1]]
  /\ \A p \in People : admitted[p] \in Seq(0 .. now) /\ Len(admitted[p]) <= 2 * MAX_REQUESTS

\* A role that is taken away, by deactivation, demotion or deletion, works for
\* the life of a token after it and no longer: the token may be issued while
\* a login is under way and used by a request that takes its time.  And the
\* tenant of a request was active at some moment of it (tokens.ts:14-29,
\* tenantGuard.ts:26-40).
RevocationTakesEffect ==
  [][\A s \in Slots :
       At(s, "admit") /\ admitted' # admitted /\ req'[s] # req[s] =>
         /\ now < good[By(s)][req[s].role] - 1 + TTL + 2 * Patience
         /\ req[s].role # "DEVELOPER" => req[s].open]_accVars

\* The fixed window admits no more than twice the limit at its boundary: any
\* 2 * MAX_REQUESTS admissions of a user take a whole window, unless the
\* process restarts (rateLimit.ts:20-40).
TwiceTheLimit ==
  \A p \in People :
    Len(admitted[p]) = 2 * MAX_REQUESTS =>
      admitted[p][1] - admitted[p][2 * MAX_REQUESTS] >= WINDOW

\* A dealer administrator writes to accounts of a tenant that was in the own
\* group at some moment of the request, as long as no more than one group is
\* assigned while it runs: the two groups are read one after the other
\* (adminUsers.ts:38-60).
ScopeHeld ==
  \A s \in Slots :
    At(s, "write") /\ req[s].role = "DEALERADMIN" /\ req[s].moves <= 1
      /\ req[s].task.kind \in UserKinds \cup {"add_user"} /\ Target(s) # NoTenant
        => req[s].shared
=============================================================================
