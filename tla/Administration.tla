--------------------------- MODULE Administration ---------------------------
(***************************************************************************)
(* Tenants, accounts and roles of the Fabric authority, and the requests   *)
(* that change them: bootstrap of a tenant, invitation of an account, and  *)
(* the change of a role, which needs a step-up grant: a one-use token      *)
(* issued against a TOTP code for exactly one change.                      *)
(*                                                                         *)
(* As in Login, work[w] is what a request carries from one statement to    *)
(* the next, and requests interleave between statements: an administrator  *)
(* is authenticated by two queries (session and account, then roles), and  *)
(* acts on what they returned several statements later.  A request can end *)
(* at any point, and a token cookie can be presented again and again.      *)
(*                                                                         *)
(* The clock counts TOTP periods.  audit holds the rows of audit_events    *)
(* that are about roles, with the grant that was spent on each.  A         *)
(* position only tells two rows apart: the table has no sequence, and the  *)
(* id and occurred_at of a row are taken before its transaction begins, so *)
(* nothing stored says in which order two of them committed.               *)
(***************************************************************************)
EXTENDS Naturals, Sequences, FiniteSets

CONSTANTS
    Tenant,         \* identifiers of tenants
    Account,        \* identifiers of accounts
    Family,         \* identifiers of session families
    Grant,          \* step-up tokens
    Worker,         \* requests the service handles at a time
    InitialRole,    \* roles that invitations name
    Asked,          \* bound: the changes that requests ask for
    Lifetime,       \* StepUpPolicy.grant_lifetime
    MaxClock,       \* bound: the wall clock
    Operable,       \* bound: the account states operators set
    None            \* a row that does not exist, Option::None

Time == 1..MaxClock
Step == 0..MaxClock

AccountState == {"active", "mfa_enrollment_required", "suspended", "deactivated"}
Role == {"owner", "admin", "operator", "auditor", "member"}
Permission == {"ManageTenant", "ManageRoles", "ManageAccounts", "PublishConfiguration",
               "ManageFederation", "ReadAudit", "ManageOwnSecurity", "UseApplication"}

AccountRow == [tenant : Tenant, state : AccountState]
FamilyRow == [account : Account, revoked : BOOLEAN]

\* RoleChangeTarget, which the target digest of a grant stands for.
Change == [account : Account, role : Role, grant : BOOLEAN]

\* step is the TOTP step that was spent on the grant.
GrantRow ==
    [account : Account, family : Family, change : Change, step : Step,
     expires_at : 0..(MaxClock + Lifetime), consumed : BOOLEAN]

\* The change of a role an event reports; token: the grant that paid for it.
Event ==
    [account : Account, role : Role, grant : BOOLEAN, actor : Account,
     token : Grant \cup {None}]

Kind == {"invite", "step_up", "change"}

\* What a request carries, by the statement it runs next.  What the browser sent with
\* it (a role, a change, a code, a token) is chosen where it is first looked at.
Job ==
    [op : {"roles"}, kind : Kind, family : Family, account : Account]
      \cup [op : {"invite"}, account : Account]
      \cup [op : {"prove", "consume"}, account : Account, family : Family, now : Time]
      \cup [op : {"create"}, account : Account, family : Family, now : Time, step : Step]
      \cup [op : {"change"}, account : Account, change : Change, token : Grant]

ASSUME RoleAssumption == InitialRole \subseteq Role
ASSUME AskedAssumption == Asked \subseteq Change
ASSUME OperableAssumption == Operable \subseteq AccountState
ASSUME LifetimeAssumption == Lifetime \in Nat \ {0}
ASSUME MaxClockAssumption == MaxClock \in Nat \ {0}
ASSUME NoneAssumption ==
    None \notin Grant \cup AccountRow \cup FamilyRow \cup GrantRow \cup Job \cup Step

VARIABLES
    clock,      \* OffsetDateTime::now_utc, in TOTP periods
    accounts,   \* table accounts
    roles,      \* table account_roles
    families,   \* table session_families
    last_step,  \* last_accepted_time_step of the active factor, None without one
    grants,     \* table step_up_grants
    audit,      \* table audit_events, those about roles
    work        \* the request each worker is handling

vars == <<clock, accounts, roles, families, last_step, grants, audit, work>>

TypeOK ==
    /\ clock \in Time
    /\ accounts \in [Account -> AccountRow \cup {None}]
    /\ roles \in [Account -> SUBSET Role]
    /\ families \in [Family -> FamilyRow \cup {None}]
    /\ last_step \in [Account -> Step \cup {None}]
    /\ grants \in [Grant -> GrantRow \cup {None}]
    /\ audit \in Seq(Event)
    /\ work \in [Worker -> Job \cup {None}]

Init ==
    /\ clock = 1
    /\ accounts = [a \in Account |-> None]
    /\ roles = [a \in Account |-> {}]
    /\ families = [f \in Family |-> None]
    /\ last_step = [a \in Account |-> None]
    /\ grants = [g \in Grant |-> None]
    /\ audit = <<>>
    /\ work = [w \in Worker |-> None]

-----------------------------------------------------------------------------
(* Roles and permissions. *)

\* Role::grants
Grants(role, permission) ==
    \/ role = "owner"
    \/ permission \in {"ManageOwnSecurity", "UseApplication"}
    \/ permission = "ReadAudit" /\ role \in {"admin", "operator", "auditor"}
    \/ permission = "PublishConfiguration" /\ role \in {"admin", "operator"}
    \/ permission = "ManageAccounts" /\ role = "admin"

\* AuthorizationContext::require, for the roles held; the state was found active.
Require(held, permission) == \E r \in held : Grants(r, permission)

\* InviteAccount::validate
Invitable(role) == role \notin {"owner", "admin"}

\* Mutant: owners are changed like everybody else.
ChangeableLoosely(change) == TRUE

\* ChangeRole::validate; the step-up flag is set before the grant is consumed.
Changeable(change) == change.role # "owner"

-----------------------------------------------------------------------------
(* The world around the requests. *)

Tick ==
    /\ clock < MaxClock
    /\ clock' = clock + 1
    /\ UNCHANGED <<accounts, roles, families, last_step, grants, audit, work>>

Active(a) == accounts[a] # None /\ accounts[a].state = "active"

\* The only factor of an account is confirmed with the code of a step (Login).
Enroll(a, step) ==
    /\ accounts[a] # None
    /\ accounts[a].state = "mfa_enrollment_required"
    /\ last_step[a] = None
    /\ step \in {clock, clock - 1}
    /\ accounts' = [accounts EXCEPT ![a].state = "active"]
    /\ last_step' = [last_step EXCEPT ![a] = step]
    /\ UNCHANGED <<clock, roles, families, grants, audit, work>>

\* An operator sets the state of an account in the database.
SetState(a, state) ==
    /\ accounts[a] # None
    /\ accounts' = [accounts EXCEPT ![a].state = state]
    /\ UNCHANGED <<clock, roles, families, last_step, grants, audit, work>>

\* A session family is created (Login) or revoked (RefreshSessions).
SignIn(a, f) ==
    /\ Active(a)
    /\ families[f] = None
    /\ families' = [families EXCEPT ![f] = [account |-> a, revoked |-> FALSE]]
    /\ UNCHANGED <<clock, accounts, roles, last_step, grants, audit, work>>

RevokeFamily(f) ==
    /\ families[f] # None
    /\ families' = [families EXCEPT ![f].revoked = TRUE]
    /\ UNCHANGED <<clock, accounts, roles, last_step, grants, audit, work>>

\* A request ends without further effect, whatever it committed before.
Abandon(w) ==
    /\ work[w] # None
    /\ work' = [work EXCEPT ![w] = None]
    /\ UNCHANGED <<clock, accounts, roles, families, last_step, grants, audit>>

-----------------------------------------------------------------------------
(* Accounts. *)

At(w, op) == work[w] # None /\ work[w].op = op
Continue(w, job) == work' = [work EXCEPT ![w] = job]

\* insert_audit, in the transaction of the change.
InsertAudit(a, role, grant, actor, token) ==
    audit' = Append(audit, [account |-> a, role |-> role, grant |-> grant,
                            actor |-> actor, token |-> token])

NewAccount(a, n) ==
    accounts' = [accounts EXCEPT ![a] = [tenant |-> n, state |-> "mfa_enrollment_required"]]

\* bootstrap_tenant, run by fcp-fabricctl: a tenant and its owner.
BootstrapTenant(n, a) ==
    /\ \A b \in Account : accounts[b] # None => accounts[b].tenant # n
    /\ accounts[a] = None
    /\ NewAccount(a, n)
    /\ roles' = [roles EXCEPT ![a] = {"owner"}]
    /\ InsertAudit(a, "owner", TRUE, a, None)
    /\ UNCHANGED <<clock, families, last_step, grants, work>>

\* authenticate_access, first query: the session's family and account.
AuthenticateAccess(w, f, kind) ==
    /\ work[w] = None
    /\ families[f] # None
    /\ ~ families[f].revoked
    /\ Active(families[f].account)
    /\ Continue(w, [op |-> "roles", kind |-> kind, family |-> f,
                    account |-> families[f].account])
    /\ UNCHANGED <<clock, accounts, roles, families, last_step, grants, audit>>

Needed(kind) == IF kind = "invite" THEN "ManageAccounts" ELSE "ManageRoles"

\* How the three handlers go on once their caller is authorized.
InviteRequest(j) == [op |-> "invite", account |-> j.account]

BeginRoleChangeStepUp(j) ==
    [op |-> "prove", account |-> j.account, family |-> j.family, now |-> clock]

ChangeAccountRole(j) ==
    [op |-> "consume", account |-> j.account, family |-> j.family, now |-> clock]

AfterAuthorization(j) ==
    CASE j.kind = "invite" -> InviteRequest(j)
      [] j.kind = "step_up" -> BeginRoleChangeStepUp(j)
      [] j.kind = "change" -> ChangeAccountRole(j)

\* Second query: the roles, and require.
AuthenticateAdmin(w) ==
    /\ At(w, "roles")
    /\ Require(roles[work[w].account], Needed(work[w].kind))
    /\ Continue(w, AfterAuthorization(work[w]))
    /\ UNCHANGED <<clock, accounts, roles, families, last_step, grants, audit>>

\* invite_account: account, role and audit event in one transaction.
InviteAccount(w, a, role) ==
    /\ At(w, "invite")
    /\ Invitable(role)
    /\ accounts[a] = None
    /\ NewAccount(a, accounts[work[w].account].tenant)
    /\ roles' = [roles EXCEPT ![a] = {role}]
    /\ InsertAudit(a, role, TRUE, work[w].account, None)
    /\ Continue(w, None)
    /\ UNCHANGED <<clock, families, last_step, grants>>

-----------------------------------------------------------------------------
(* The change of a role. *)

\* TotpLoginService.complete: the code of this or the last period, spent for good,
\* while the account is active (see Login for its two statements).
CompleteTotp(w, step) ==
    /\ At(w, "prove")
    /\ LET a == work[w].account IN
         /\ Active(a)
         /\ step \in {work[w].now, work[w].now - 1}
         /\ last_step[a] # None
         /\ last_step[a] < step
         /\ last_step' = [last_step EXCEPT ![a] = step]
         /\ Continue(w, [op |-> "create", account |-> a, family |-> work[w].family,
                         now |-> work[w].now, step |-> step])
    /\ UNCHANGED <<clock, accounts, roles, families, grants, audit>>

\* StepUpPolicy
ExpiresAt(now) == now + Lifetime

\* create_step_up_grant for the change the request asked for, while the family lives
\* and the account is active.
CreateStepUpGrant(w, g, change) ==
    /\ At(w, "create")
    /\ grants[g] = None
    /\ ExpiresAt(work[w].now) > clock
    /\ families[work[w].family].account = work[w].account
    /\ ~ families[work[w].family].revoked
    /\ Active(work[w].account)
    /\ grants' = [grants EXCEPT ![g] =
         [account |-> work[w].account, family |-> work[w].family, change |-> change,
          step |-> work[w].step, expires_at |-> ExpiresAt(work[w].now),
          consumed |-> FALSE]]
    /\ Continue(w, None)
    /\ UNCHANGED <<clock, accounts, roles, families, last_step, audit>>

\* Mutant: a grant for one change serves another.
ConsumableForAny(g, change, j) ==
    /\ grants[g] # None
    /\ grants[g].account = j.account
    /\ grants[g].family = j.family
    /\ ~ grants[g].consumed
    /\ grants[g].expires_at > j.now
    /\ ~ families[j.family].revoked

\* The one UPDATE of consume_step_up_grant finds the row.
Consumable(g, change, j) ==
    /\ grants[g] # None
    /\ grants[g].account = j.account
    /\ grants[g].family = j.family
    /\ grants[g].change = change
    /\ ~ grants[g].consumed
    /\ grants[g].expires_at > j.now
    /\ ~ families[j.family].revoked

\* The command is validated first.
ConsumeStepUpGrant(w, g, change) ==
    /\ At(w, "consume")
    /\ Changeable(change)
    /\ Consumable(g, change, work[w])
    /\ grants' = [grants EXCEPT ![g].consumed = TRUE]
    /\ Continue(w, [op |-> "change", account |-> work[w].account, change |-> change,
                    token |-> g])
    /\ UNCHANGED <<clock, accounts, roles, families, last_step, audit>>

\* Mutant: an INSERT that conflicts and a DELETE that finds nothing count too.
AffectedAnyway(change, n) ==
    accounts[change.account] # None /\ accounts[change.account].tenant = n

\* One row is inserted or deleted: the target is an account of tenant n, and the
\* role is not held, or held, yet.
Affected(change, n) ==
    /\ accounts[change.account] # None
    /\ accounts[change.account].tenant = n
    /\ change.grant <=> change.role \notin roles[change.account]

\* change_role, a transaction of its own after that of the grant.
ChangeRole(w) ==
    /\ At(w, "change")
    /\ LET change == work[w].change
           a == change.account
       IN  /\ Affected(change, accounts[work[w].account].tenant)
           /\ roles' = [roles EXCEPT ![a] =
                IF change.grant THEN @ \cup {change.role} ELSE @ \ {change.role}]
           /\ InsertAudit(a, change.role, change.grant, work[w].account, work[w].token)
    /\ Continue(w, None)
    /\ UNCHANGED <<clock, accounts, families, last_step, grants>>

-----------------------------------------------------------------------------

Next ==
    \/ Tick
    \/ \E a \in Account :
         \/ \E step \in Step : Enroll(a, step)
         \/ \E state \in Operable : SetState(a, state)
         \/ \E f \in Family : SignIn(a, f)
         \/ \E n \in Tenant : BootstrapTenant(n, a)
    \/ \E f \in Family : RevokeFamily(f)
    \/ \E w \in Worker :
         \/ Abandon(w)
         \/ \E f \in Family, kind \in Kind : AuthenticateAccess(w, f, kind)
         \/ AuthenticateAdmin(w)
         \/ \E a \in Account, r \in InitialRole : InviteAccount(w, a, r)
         \/ \E step \in Step : CompleteTotp(w, step)
         \/ \E g \in Grant, c \in Asked : CreateStepUpGrant(w, g, c)
         \/ \E g \in Grant, c \in Asked : ConsumeStepUpGrant(w, g, c)
         \/ ChangeRole(w)

Spec == Init /\ [][Next]_vars

-----------------------------------------------------------------------------
(* Properties. *)

OwnersOf(n) ==
    {b \in Account :
       accounts[b] # None /\ accounts[b].tenant = n /\ "owner" \in roles[b]}

OneOwner ==
    \A a \in Account : accounts[a] # None =>
        \E o \in Account : {o} = OwnersOf(accounts[a].tenant)

ChangedByOwner ==
    \A i \in 1..Len(audit) :
        LET e == audit[i] IN
          /\ accounts[e.actor].tenant = accounts[e.account].tenant
          /\ \/ "owner" \in roles[e.actor]
             \/ e.token = None /\ e.role \notin {"owner", "admin"}

\* The owner of a tenant is the account it was bootstrapped with, for ever and alone,
\* and every role after the bootstrap was given or taken by an account of the same
\* tenant: by the owner, or as the first role of an account an administrator invited.
\* The roles behind a change were read several statements before it commits.
OwnerKept == OneOwner /\ ChangedByOwner

\* One code, one change: a role of an existing account changes only against a grant
\* that its actor obtained for exactly that change with a TOTP code of its own, and
\* no grant and no code pays for two changes, however requests repeat or interleave
\* (issue_role_change, consume_role_change).
OneProofOneChange ==
    \A i \in 1..Len(audit) : audit[i].token # None =>
        LET e == audit[i]
            g == grants[e.token]
        IN  /\ g.consumed
            /\ g.account = e.actor
            /\ g.change = [account |-> e.account, role |-> e.role, grant |-> e.grant]
            /\ \A k \in 1..Len(audit) \ {i} : audit[k].token # None =>
                 /\ audit[k].token # e.token
                 /\ grants[audit[k].token].account = g.account =>
                      grants[audit[k].token].step # g.step

\* The events that report the grant, or the revocation, of role r to account a.
Reports(a, r, grant) ==
    {i \in 1..Len(audit) :
       audit[i].account = a /\ audit[i].role = r /\ audit[i].grant = grant}

\* The audit trail explains the role table, in whatever order its rows are read: of a
\* role that is held there is one grant more than revocations, of one that is not held
\* as many, although several requests change the same role at once and their rows carry
\* times in another order than they commit (change_role's rows_affected, and
\* insert_audit in the same transaction).
AuditExplainsRoles ==
    \A a \in Account, r \in Role :
        Cardinality(Reports(a, r, TRUE)) =
          Cardinality(Reports(a, r, FALSE)) + (IF r \in roles[a] THEN 1 ELSE 0)

-----------------------------------------------------------------------------
(* What the properties rest on. *)

\* Account a exists and has accepted a code of this or a later step.
Proved(a, step) ==
    accounts[a] # None /\ last_step[a] # None /\ step <= last_step[a]

RowsSound ==
    /\ \A a \in Account : accounts[a] = None => roles[a] = {}
    /\ \A f \in Family : families[f] # None => accounts[families[f].account] # None
    /\ \A g \in Grant : grants[g] # None => Proved(grants[g].account, grants[g].step)

\* Grant g was consumed by account a for this change.
SpentOn(g, a, change) ==
    /\ grants[g] # None
    /\ grants[g].consumed
    /\ grants[g].account = a
    /\ grants[g].change = change

\* A request that needs ManageRoles is the owner's, for as long as it runs.
JobSound(j) ==
    /\ accounts[j.account] # None
    /\ j.op \in {"prove", "consume", "create", "change"} => "owner" \in roles[j.account]
    /\ j.op = "create" => Proved(j.account, j.step)
    /\ j.op = "change" =>
         j.change.role # "owner" /\ SpentOn(j.token, j.account, j.change)

JobsSound == \A w \in Worker : work[w] # None => JobSound(work[w])

\* A step of an account is behind one grant, or behind one request that will create it.
StepsOnce ==
    /\ \A g, h \in Grant :
         (/\ grants[g] # None /\ grants[h] # None
          /\ grants[g].account = grants[h].account
          /\ grants[g].step = grants[h].step) => g = h
    /\ \A w, v \in Worker :
         (/\ At(w, "create") /\ At(v, "create")
          /\ work[w].account = work[v].account
          /\ work[w].step = work[v].step) => w = v
    /\ \A g \in Grant, w \in Worker :
         (/\ grants[g] # None /\ At(w, "create")
          /\ grants[g].account = work[w].account) => grants[g].step # work[w].step

\* A consumed grant is in one place: one request, or one event.
OneHolder ==
    /\ \A w, v \in Worker :
         (At(w, "change") /\ At(v, "change") /\ work[w].token = work[v].token) => w = v
    /\ \A w \in Worker, i \in 1..Len(audit) :
         At(w, "change") => audit[i].token # work[w].token
    /\ \A i, k \in 1..Len(audit) :
         (audit[i].token # None /\ audit[i].token = audit[k].token) => i = k

AuditSound ==
    \A i \in 1..Len(audit) :
        LET e == audit[i] IN
          /\ accounts[e.actor] # None /\ accounts[e.account] # None
          /\ e.token # None =>
               SpentOn(e.token, e.actor,
                       [account |-> e.account, role |-> e.role, grant |-> e.grant])
=============================================================================
