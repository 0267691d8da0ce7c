-------------------------------- MODULE Login --------------------------------
(***************************************************************************)
(* Browser login of the Fabric authority: the password stage, the one-use  *)
(* login transaction it hands out, the TOTP challenge, the enrollment of   *)
(* the first TOTP factor, and the session that ends each flow.             *)
(*                                                                         *)
(* A request is a sequence of statements on one PostgreSQL database, and   *)
(* requests interleave between statements.  work[w] holds what request w   *)
(* carries from one statement to the next; each transaction of the store   *)
(* is one step, because it updates its rows under their locks and tests    *)
(* them again there.  A request can end at any point: refused by a check,  *)
(* failed (database, KMS), crashed, its client gone.  Whoever holds a      *)
(* transaction cookie and a binding cookie presents them at any time and   *)
(* as often as it likes, and types any code an authenticator has shown.    *)
(*                                                                         *)
(* The clock counts TOTP periods of 30 seconds.  Digests are collision     *)
(* free, so rows are found by token; tokens, bindings and identifiers are  *)
(* random, so a new one is one not in use.  A fresh binding is named after *)
(* the token issued with it.                                               *)
(***************************************************************************)
EXTENDS Naturals

CONSTANTS
    Account,   \* accounts of the tenant
    Password,  \* passwords anybody types
    Dummy,     \* the password behind FABRIC_PASSWORD_DUMMY_VERIFIER
    Token,     \* opaque login tokens
    Factor,    \* identifiers of TOTP factors
    Family,    \* identifiers of session families
    Worker,    \* requests the service handles at a time
    Lifetime,  \* LoginTransactionPolicy.lifetime
    MaxClock,  \* bound: the wall clock
    Operable,  \* bound: the account states operators set
    None       \* SQL NULL, Option::None, and a row that does not exist

Time == 1..MaxClock
Step == 0..MaxClock
Later == 0..(MaxClock + Lifetime)

AccountState == {"active", "mfa_enrollment_required", "suspended"}
Stage == {"mfa_enrollment", "mfa_challenge", "session_issuance"}
Route == {"begin_enrollment", "confirm_enrollment", "totp", "session"}

\* What an authenticator app shows for a factor during one period.
Code == [factor : Factor, step : Step]

\* shown_to and active_since are history: the binding of the browser that was given the
\* provisioning URI, and the clock when the activation committed.
FactorRow ==
    [account : Account, status : {"pending", "active"},
     last_accepted_step : Step \cup {None}, shown_to : Token \cup {None},
     active_since : Step]

TransactionRow ==
    [account : Account, stage : Stage, binding : Token, factor : Factor \cup {None},
     expires_at : Later, consumed : BOOLEAN]

SessionRow == [account : Account, transaction : Token]

\* An accepted code, with the login transaction it was accepted for and the binding
\* cookie it came with.
Spent == [code : Code, transaction : Token, binding : Token]

\* What a request carries, by the statement it runs next.
Job ==
    [op : {"has_active_totp"}, account : Account, now : Time]
      \cup [op : {"create"}, account : Account, stage : Stage, now : Time,
            binding : Token \cup {None}, factor : Factor \cup {None}]
      \cup [op : {"create_pending"}, account : Account, binding : Token]
      \cup [op : {"read_pending"}, account : Account, factor : Factor, token : Token,
            binding : Token, code : Code, now : Time]
      \cup [op : {"read_active"}, account : Account, token : Token, binding : Token,
            code : Code, now : Time]
      \cup [op : {"activate", "consume_step"}, account : Account, token : Token,
            binding : Token, code : Code]
      \cup [op : {"issue"}, account : Account, token : Token]

ASSUME LifetimeAssumption == Lifetime \in Nat \ {0}
ASSUME MaxClockAssumption == MaxClock \in Nat \ {0}
ASSUME OperableAssumption == Operable \subseteq AccountState
\* Nobody types the password the dummy verifier was made from.
ASSUME DummyAssumption == Dummy \notin Password
ASSUME NoneAssumption ==
    /\ None \notin FactorRow \cup TransactionRow \cup SessionRow \cup Job \cup Code
    /\ None \notin Account \cup Token \cup Factor \cup Password \cup Step

VARIABLES
    clock,         \* OffsetDateTime::now_utc, in TOTP periods
    accounts,      \* accounts.state
    passwords,     \* table password_credentials
    factors,       \* table mfa_totp_factors
    transactions,  \* table login_transactions
    sessions,      \* session_families, with the transaction that led to each
    work,          \* the request each worker is handling
    spent,         \* history: codes accepted so far
    operated       \* history: accounts whose state an operator has set

tables == <<accounts, passwords, factors, transactions, sessions>>
history == <<spent, operated>>
vars == <<clock, tables, work, history>>

TypeOK ==
    /\ clock \in Time
    /\ accounts \in [Account -> AccountState]
    /\ passwords \in [Account -> Password \cup {None}]
    /\ factors \in [Factor -> FactorRow \cup {None}]
    /\ transactions \in [Token -> TransactionRow \cup {None}]
    /\ sessions \in [Family -> SessionRow \cup {None}]
    /\ work \in [Worker -> Job \cup {None}]
    /\ spent \subseteq Spent
    /\ operated \subseteq Account

\* Some accounts have enrolled in an earlier period: owner names their factors.
Init ==
    /\ clock = 1
    /\ \E owner \in [Factor -> Account \cup {None}] :
         /\ \A f, g \in Factor : owner[f] = owner[g] => f = g \/ owner[f] = None
         /\ factors = [f \in Factor |->
              IF owner[f] = None THEN None
              ELSE [account |-> owner[f], status |-> "active",
                    last_accepted_step |-> 0, shown_to |-> None, active_since |-> 0]]
         /\ accounts = [a \in Account |->
              IF \E f \in Factor : owner[f] = a
              THEN "active" ELSE "mfa_enrollment_required"]
    /\ passwords = [a \in Account |-> None]
    /\ transactions = [t \in Token |-> None]
    /\ sessions = [s \in Family |-> None]
    /\ work = [w \in Worker |-> None]
    /\ spent = {}
    /\ operated = {}

-----------------------------------------------------------------------------
(* The world around the requests. *)

Tick ==
    /\ clock < MaxClock
    /\ clock' = clock + 1
    /\ UNCHANGED <<tables, work, history>>

\* store_password_verifier sets or replaces the verifier of an existing account.
StorePasswordVerifier(a, p) ==
    /\ passwords' = [passwords EXCEPT ![a] = p]
    /\ UNCHANGED <<clock, accounts, factors, transactions, sessions, work, history>>

\* An operator sets the state of an account in the database: no service path suspends,
\* deactivates or reinstates one.
SetState(a, state) ==
    /\ accounts' = [accounts EXCEPT ![a] = state]
    /\ operated' = operated \cup {a}
    /\ UNCHANGED <<clock, passwords, factors, transactions, sessions, work, spent>>

\* A request ends without further effect, whatever it committed before.
Abandon(w) ==
    /\ work[w] # None
    /\ work' = [work EXCEPT ![w] = None]
    /\ UNCHANGED <<clock, tables, history>>

\* Worker w carries a request whose next statement is op.
At(w, op) == work[w] # None /\ work[w].op = op

\* Worker w goes on with job; nothing but the tables given changes.
Continue(w, job) == work' = [work EXCEPT ![w] = job]

-----------------------------------------------------------------------------
(* The password stage. *)

\* The one query of login_account.
LoginAccount(a) == [state |-> accounts[a], verifier |-> passwords[a]]

\* verify_password against the stored verifier, or the dummy when there is none.
VerifyPassword(verifier, p) == p = IF verifier = None THEN Dummy ELSE verifier

\* stage_for, of a PasswordLoginOutcome.
StageFor(outcome) ==
    CASE outcome = "MfaEnrollmentRequired" -> "mfa_enrollment"
      [] outcome = "TotpChallenge" -> "mfa_challenge"
      [] outcome = "Authenticated" -> "session_issuance"

CreateJob(a, stage, binding, f, now) ==
    [op |-> "create", account |-> a, stage |-> stage, now |-> now,
     binding |-> binding, factor |-> f]

\* Somebody types password p for account a; q is the handler's earlier reading of the
\* clock.
StartPasswordLogin(w, a, p, q) ==
    /\ work[w] = None
    /\ q <= clock
    /\ VerifyPassword(LoginAccount(a).verifier, p)
    /\ \/ /\ LoginAccount(a).state = "active"
          /\ Continue(w, [op |-> "has_active_totp", account |-> a, now |-> q])
       \/ /\ LoginAccount(a).state = "mfa_enrollment_required"
          /\ Continue(w, CreateJob(a, StageFor("MfaEnrollmentRequired"), None, None, q))
    /\ UNCHANGED <<clock, tables, history>>

HasActiveTotp(a) ==
    \E f \in Factor :
        factors[f] # None /\ factors[f].account = a /\ factors[f].status = "active"

\* Roles and factor are read by two queries after the state; roles change at any time,
\* so whether the account is privileged is anybody's guess.  A privileged account
\* without a factor is denied.
ChooseStage(w) ==
    /\ At(w, "has_active_totp")
    /\ \E privileged \in BOOLEAN :
         /\ privileged => HasActiveTotp(work[w].account)
         /\ Continue(w, CreateJob(work[w].account,
              StageFor(IF HasActiveTotp(work[w].account)
                       THEN "TotpChallenge" ELSE "Authenticated"),
              None, None, work[w].now))
    /\ UNCHANGED <<clock, tables, history>>

\* The password stage issues a binding; an enrollment goes on under its first one.
BindingFor(w, t) == IF work[w].binding = None THEN t ELSE work[w].binding

\* LoginTransactionPolicy
ExpiresAt(now) == now + Lifetime

\* create_login_transaction
CreateLoginTransaction(w, t) ==
    /\ At(w, "create")
    /\ transactions[t] = None
    /\ ExpiresAt(work[w].now) > clock
    /\ transactions' = [transactions EXCEPT ![t] =
         [account |-> work[w].account, stage |-> work[w].stage,
          binding |-> BindingFor(w, t),
          factor |-> work[w].factor, expires_at |-> ExpiresAt(work[w].now),
          consumed |-> FALSE]]
    /\ Continue(w, None)
    /\ UNCHANGED <<clock, accounts, passwords, factors, sessions, history>>

-----------------------------------------------------------------------------
(* The second stage. *)

\* Mutant: the password-only route takes the transaction of a TOTP challenge.
StageSwapped(route) == IF route \in {"totp", "session"} THEN "mfa_challenge" ELSE "mfa_enrollment"

ExpectedStage(route) ==
    CASE route = "totp" -> "mfa_challenge"
      [] route = "session" -> "session_issuance"
      [] OTHER -> "mfa_enrollment"

\* Mutant: the row is found again after it was consumed.
ConsumableAgain(t, b, route, now) ==
    /\ transactions[t] # None
    /\ transactions[t].binding = b
    /\ transactions[t].stage = ExpectedStage(route)
    /\ transactions[t].expires_at > now

\* Mutant: the token alone is enough.
ConsumableUnbound(t, b, route, now) ==
    /\ transactions[t] # None
    /\ transactions[t].stage = ExpectedStage(route)
    /\ ~ transactions[t].consumed
    /\ transactions[t].expires_at > now

\* The one UPDATE of consume_login_transaction finds the row; now was read before it.
Consumable(t, b, route, now) ==
    /\ transactions[t] # None
    /\ transactions[t].binding = b
    /\ transactions[t].stage = ExpectedStage(route)
    /\ ~ transactions[t].consumed
    /\ transactions[t].expires_at > now

\* What the handlers go on with after the row x of token t was consumed for them, with
\* the binding b and the code c they were sent.
BeginTotpEnrollment(x, b) ==
    [op |-> "create_pending", account |-> x.account, binding |-> b]

\* A transaction that names no factor is refused, and spent all the same.
ConfirmTotpEnrollment(x, t, b, c) ==
    IF x.factor = None THEN None
    ELSE [op |-> "read_pending", account |-> x.account, factor |-> x.factor,
          token |-> t, binding |-> b, code |-> c, now |-> clock]

CompleteTotpLogin(x, t, b, c) ==
    [op |-> "read_active", account |-> x.account, token |-> t, binding |-> b, code |-> c,
     now |-> clock]

CompletePasswordOnlyLogin(x, t) == [op |-> "issue", account |-> x.account, token |-> t]

AfterConsume(route, x, t, b, c) ==
    CASE route = "begin_enrollment" -> BeginTotpEnrollment(x, b)
      [] route = "confirm_enrollment" -> ConfirmTotpEnrollment(x, t, b, c)
      [] route = "totp" -> CompleteTotpLogin(x, t, b, c)
      [] route = "session" -> CompletePasswordOnlyLogin(x, t)

\* A browser calls a route with a transaction cookie, a binding cookie and, on two of
\* the routes, a code that some authenticator has shown; q is the store's reading of
\* the clock, before it waits for a connection and for the row.
ConsumeLoginTransaction(w, t, b, route, c, q) ==
    /\ work[w] = None
    /\ q <= clock
    /\ IF route \in {"confirm_enrollment", "totp"}
       THEN c # None /\ factors[c.factor] # None /\ c.step <= q
       ELSE c = None
    /\ Consumable(t, b, route, q)
    /\ transactions' = [transactions EXCEPT ![t].consumed = TRUE]
    /\ Continue(w, AfterConsume(route, transactions[t], t, b, c))
    /\ UNCHANGED <<clock, accounts, passwords, factors, sessions, history>>

\* The row create_pending_totp_factor inserts.
PendingRow(w) ==
    [account |-> work[w].account, status |-> "pending", last_accepted_step |-> None,
     shown_to |-> work[w].binding, active_since |-> 0]

\* begin_totp_enrollment_confirmation: a transaction for factor f, under the binding
\* the browser presented.
ConfirmationJob(w, f) ==
    CreateJob(work[w].account, "mfa_enrollment", work[w].binding, f, clock)

\* TotpEnrollmentService.begin: the pending factor, then its confirmation.
CreatePendingFactor(w, f) ==
    /\ At(w, "create_pending")
    /\ factors[f] = None
    /\ factors' = [factors EXCEPT ![f] = PendingRow(w)]
    /\ Continue(w, ConfirmationJob(w, f))
    /\ UNCHANGED <<clock, accounts, passwords, transactions, sessions, history>>

\* verify_totp: the code of this or the previous period, unless it was the last one.
VerifyTotp(f, c, now) ==
    /\ c.factor = f
    /\ c.step \in {now, now - 1}
    /\ c.step # factors[f].last_accepted_step

SpendJob(w, op) ==
    [op |-> op, account |-> work[w].account, token |-> work[w].token,
     binding |-> work[w].binding, code |-> work[w].code]

\* pending_totp_factor and active_totp_factor find factor f for account a.
PendingTotpFactor(a, f) ==
    factors[f] # None /\ factors[f].account = a /\ factors[f].status = "pending"

ActiveTotpFactor(a, f) ==
    factors[f] # None /\ factors[f].account = a /\ factors[f].status = "active"

\* confirm reads the pending factor of the transaction and verifies the code.
ReadPendingFactor(w) ==
    /\ At(w, "read_pending")
    /\ PendingTotpFactor(work[w].account, work[w].factor)
    /\ VerifyTotp(work[w].factor, work[w].code, work[w].now)
    /\ Continue(w, SpendJob(w, "activate"))
    /\ UNCHANGED <<clock, tables, history>>

\* complete reads the active factor of the account and verifies the code.
ReadActiveFactor(w, f) ==
    /\ At(w, "read_active")
    /\ ActiveTotpFactor(work[w].account, f)
    /\ VerifyTotp(f, work[w].code, work[w].now)
    /\ Continue(w, SpendJob(w, "consume_step"))
    /\ UNCHANGED <<clock, tables, history>>

\* The code is accepted, and the request goes on to its session.
Accept(w) ==
    /\ Continue(w, [op |-> "issue", account |-> work[w].account, token |-> work[w].token])
    /\ spent' = spent \cup
         {[code |-> work[w].code, transaction |-> work[w].token, binding |-> work[w].binding]}

\* The WHERE clauses, and the unique index active_mfa_totp_factor_per_account.
Activatable(f, a) ==
    /\ factors[f].status = "pending"
    /\ accounts[a] = "mfa_enrollment_required"
    /\ ~ HasActiveTotp(a)

ActiveRow(f, step) ==
    [factors[f] EXCEPT !.status = "active", !.last_accepted_step = step,
                       !.active_since = clock]

\* Mutant: the account keeps its state.
ActivateFactorOnly(w) ==
    /\ At(w, "activate")
    /\ LET f == work[w].code.factor IN
         /\ Activatable(f, work[w].account)
         /\ factors' = [factors EXCEPT ![f] = ActiveRow(f, work[w].code.step)]
    /\ Accept(w)
    /\ UNCHANGED <<clock, accounts, passwords, transactions, sessions, operated>>

\* activate_totp_factor: the factor and the account change together or not at all.
ActivateFactor(w) ==
    /\ At(w, "activate")
    /\ LET f == work[w].code.factor IN
         /\ Activatable(f, work[w].account)
         /\ factors' = [factors EXCEPT ![f] = ActiveRow(f, work[w].code.step)]
         /\ accounts' = [accounts EXCEPT ![work[w].account] = "active"]
    /\ Accept(w)
    /\ UNCHANGED <<clock, passwords, transactions, sessions, operated>>

\* Mutant: the same step again.
FreshOrSame(f, step) ==
    factors[f].last_accepted_step = None \/ factors[f].last_accepted_step <= step

\* The guard of consume_totp_step's UPDATE: only a later step than the last one.
Fresh(f, step) ==
    factors[f].last_accepted_step = None \/ factors[f].last_accepted_step < step

ConsumeTotpStep(w) ==
    /\ At(w, "consume_step")
    /\ LET f == work[w].code.factor IN
         /\ factors[f].status = "active"
         /\ Fresh(f, work[w].code.step)
         /\ accounts[work[w].account] = "active"
         /\ factors' = [factors EXCEPT ![f].last_accepted_step = work[w].code.step]
    /\ Accept(w)
    /\ UNCHANGED <<clock, accounts, passwords, transactions, sessions, operated>>

\* session_authorization_context and create_refresh_session: the account is active
\* when the family is inserted (RefreshSessions takes over from here).
IssueBrowserSession(w, s) ==
    /\ At(w, "issue")
    /\ accounts[work[w].account] = "active"
    /\ sessions[s] = None
    /\ sessions' = [sessions EXCEPT ![s] =
         [account |-> work[w].account, transaction |-> work[w].token]]
    /\ Continue(w, None)
    /\ UNCHANGED <<clock, accounts, passwords, factors, transactions, history>>

-----------------------------------------------------------------------------

Next ==
    \/ Tick
    \/ \E a \in Account, p \in Password : StorePasswordVerifier(a, p)
    \/ \E a \in Account, state \in Operable : SetState(a, state)
    \/ \E w \in Worker :
         \/ Abandon(w)
         \/ \E a \in Account, p \in Password, q \in Time : StartPasswordLogin(w, a, p, q)
         \/ ChooseStage(w)
         \/ \E t \in Token : CreateLoginTransaction(w, t)
         \/ \E t, b \in Token, r \in Route, c \in Code \cup {None}, q \in Time :
              ConsumeLoginTransaction(w, t, b, r, c, q)
         \/ \E f \in Factor : CreatePendingFactor(w, f)
         \/ ReadPendingFactor(w)
         \/ \E f \in Factor : ReadActiveFactor(w, f)
         \/ ActivateFactor(w)
         \/ ConsumeTotpStep(w)
         \/ \E s \in Family : IssueBrowserSession(w, s)

Spec == Init /\ [][Next]_vars

-----------------------------------------------------------------------------
(* Properties. *)

\* A login transaction, with the code typed for it, yields at most one session,
\* however often and by how many requests its cookies are presented: two families
\* never come from one transaction (consume_login_transaction).
OneSessionPerTransaction ==
    \A s, r \in Family :
        (sessions[s] # None /\ sessions[r] # None
           /\ sessions[s].transaction = sessions[r].transaction) => s = r

\* Some code of an active factor of account a was accepted for transaction t.
Backed(t, a) ==
    \E p \in spent :
        /\ p.transaction = t
        /\ factors[p.code.factor].account = a
        /\ factors[p.code.factor].status = "active"

\* An operator has set the state of account a, and whatever factor it has now became
\* active no earlier than a login that expires at time e was begun.
Exempt(a, e) ==
    /\ a \in operated
    /\ \A f \in Factor :
         ActiveTotpFactor(a, f) => e <= ExpiresAt(factors[f].active_since)

\* Who has a factor needs it: a session rests on a code of a factor of that very
\* account, accepted for the session's own transaction, unless the account had no
\* active factor when the password was typed, which only an operator's hand on its
\* state makes possible.  State, roles and factor are read by three queries while
\* enrollments commit and operators write in between (authenticate, complete_totp_login,
\* complete_password_only_login).
SecondFactorAlways ==
    \A s \in Family : sessions[s] # None =>
        LET t == sessions[s].transaction
        IN  /\ transactions[t].account = sessions[s].account
            /\ \/ Backed(t, sessions[s].account)
               \/ Exempt(sessions[s].account, transactions[t].expires_at)

\* A code is accepted once in its life, by whatever mixture of enrollment and login
\* requests that verified it at the same time, and never after a later one
\* (verify_totp's stale last_accepted_step against consume_totp_step).
CodeAcceptedOnce ==
    \A p \in spent :
        /\ \A q \in spent : p.code = q.code => p = q
        /\ factors[p.code.factor].last_accepted_step >= p.code.step

\* No account has two active factors, although several tabs enroll at once and an
\* operator can send an enrolled account back to enrollment.  As long as none has, an
\* account is active exactly when it has one: it leaves mfa_enrollment_required with its
\* factor and not before, and the other pending factors stay unusable
\* (activate_totp_factor).
ActiveHasOneFactor ==
    \A a \in Account :
        /\ \A f, g \in Factor :
             ActiveTotpFactor(a, f) /\ ActiveTotpFactor(a, g) => f = g
        /\ a \notin operated => (accounts[a] = "active" <=> HasActiveTotp(a))

\* A factor is confirmed in the browser that was shown its seed: the code that
\* activates it arrives with the binding the provisioning URI was sent to
\* (consume_next_step, begin_totp_enrollment_confirmation).
ConfirmedWhereShown ==
    \A p \in spent : transactions[p.transaction].stage = "mfa_enrollment" =>
        /\ factors[p.code.factor].shown_to = p.binding
        /\ transactions[p.transaction].factor = p.code.factor

-----------------------------------------------------------------------------
(* What the properties rest on. *)

\* Factor f belongs to account a, and its seed was shown under binding b.
Shown(f, a, b) ==
    factors[f] # None /\ factors[f].account = a /\ factors[f].shown_to = b

\* Token t was consumed, in the name of account a.
Consumed(t, a) ==
    transactions[t] # None /\ transactions[t].consumed /\ transactions[t].account = a

\* The requests that carry a consumed transaction.
Holds(j) == j.op \in {"read_pending", "read_active", "activate", "consume_step", "issue"}

\* A factor has accepted a step exactly when it is active.
FactorsSound ==
    \A f \in Factor : factors[f] # None =>
        (factors[f].status = "active" <=> factors[f].last_accepted_step # None)

\* A transaction for the password alone is that of an exempt account, and one that
\* names a factor names one of its own account and browser.
TransactionsSound ==
    \A t \in Token : transactions[t] # None =>
        LET x == transactions[t] IN
          /\ x.expires_at <= ExpiresAt(clock)
          /\ x.stage = "session_issuance" => Exempt(x.account, x.expires_at)
          /\ x.factor # None => x.stage = "mfa_enrollment" /\ Shown(x.factor, x.account, x.binding)

\* What a request has read is still true of the rows it will write.
JobSound(j) ==
    /\ j.op = "has_active_totp" =>
         /\ j.now <= clock
         /\ HasActiveTotp(j.account) \/ j.account \in operated
    /\ j.op = "create" =>
         /\ j.now <= clock
         /\ j.stage = "session_issuance" => Exempt(j.account, ExpiresAt(j.now))
         /\ j.factor # None =>
              /\ j.stage = "mfa_enrollment"
              /\ j.binding # None /\ Shown(j.factor, j.account, j.binding)
    /\ Holds(j) => Consumed(j.token, j.account)
    /\ j.op \in {"read_pending", "activate"} =>
         /\ transactions[j.token].stage = "mfa_enrollment"
         /\ transactions[j.token].binding = j.binding
    /\ j.op = "read_pending" => transactions[j.token].factor = j.factor
    /\ j.op = "activate" => transactions[j.token].factor = j.code.factor
    /\ j.op \in {"read_active", "consume_step"} => transactions[j.token].stage = "mfa_challenge"
    /\ j.op = "consume_step" => ActiveTotpFactor(j.account, j.code.factor)
    /\ j.op = "issue" =>
         \/ Backed(j.token, j.account)
         \/ Exempt(j.account, transactions[j.token].expires_at)

JobsSound == \A w \in Worker : work[w] # None => JobSound(work[w])

\* A consumed transaction is in one place: one request, or one session.
OneHolder ==
    /\ \A w, v \in Worker :
         (/\ work[w] # None /\ Holds(work[w])
          /\ work[v] # None /\ Holds(work[v])
          /\ work[w].token = work[v].token) => w = v
    /\ \A s \in Family, w \in Worker :
         (sessions[s] # None /\ work[w] # None /\ Holds(work[w])) =>
           sessions[s].transaction # work[w].token

SessionsSound ==
    \A s \in Family : sessions[s] # None =>
        Consumed(sessions[s].transaction, sessions[s].account)

SpentSound ==
    \A p \in spent :
        /\ factors[p.code.factor] # None
        /\ factors[p.code.factor].status = "active"
        /\ transactions[p.transaction] # None
=============================================================================
