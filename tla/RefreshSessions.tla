--------------------------- MODULE RefreshSessions ---------------------------
(***************************************************************************)
(* Browser sessions of the Fabric authority: session families, the chain   *)
(* of one-use refresh credentials inside each, and the short-lived access  *)
(* session that goes with the latest of them.                              *)
(*                                                                         *)
(* Requests run concurrently on one PostgreSQL database.  A request reads  *)
(* the wall clock first and works with that reading while it waits for the *)
(* pool and for row locks.  Rotation locks credential, family and account  *)
(* in one statement and revocation locks the family row first, so each is  *)
(* one step here; issuance tests the account in one statement and commits  *)
(* later without a lock on it, so it is two.  A request can end at any     *)
(* point without effect (an error, a crash, a lost connection), and the    *)
(* answer to one that committed can be lost.  Whoever holds a refresh      *)
(* token, a second tab, a retry or a thief, presents it at any time and as *)
(* often as it likes.                                                      *)
(*                                                                         *)
(* A token stands for the pair that one issuance hands out: credentials[t] *)
(* is the row its refresh value finds, sessions[t] the row of its access   *)
(* value.  The stored keyed digests are collision free, so rows are found  *)
(* by token; a token is random, so a new one is one without rows.          *)
(***************************************************************************)
EXTENDS Naturals

CONSTANTS
    Account,          \* accounts, each of one tenant
    Family,           \* identifiers of session families
    Token,            \* opaque token pairs
    Worker,           \* requests the service handles at a time
    RefreshLifetime,  \* SessionPolicy.refresh_lifetime
    AccessLifetime,   \* SessionPolicy.access_lifetime
    MaxClock,         \* bound: the wall clock
    None              \* SQL NULL, and a row that does not exist

Time == 0..MaxClock
Later == 0..(MaxClock + RefreshLifetime + AccessLifetime)

FamilyRow ==
    [account : Account,
     revoke_reason : {"refresh_token_reuse", "explicit_revocation", None}]

\* consumed_at and replaced_by are set together; the schema checks the two times.
CredentialRow ==
    {row \in [family : Family, issued_at : Time, expires_at : Later,
              replaced_by : Token \cup {None}] : row.expires_at > row.issued_at}

SessionRow == [family : Family, expires_at : Later, revoked : BOOLEAN]

\* What a request carries from its first reading of the clock to its commit.
Job ==
    [op : {"issue"}, account : Account, now : Time]
      \cup [op : {"insert"}, account : Account, now : Time, issued_at : Time]
      \cup [op : {"rotate"}, token : Token, now : Time]

ASSUME LifetimeAssumption ==
    /\ RefreshLifetime \in Nat \ {0}
    /\ AccessLifetime \in Nat \ {0}
ASSUME MaxClockAssumption == MaxClock \in Nat
ASSUME NoneAssumption ==
    /\ None \notin FamilyRow \cup CredentialRow \cup SessionRow \cup Job
    /\ None \notin Token
    /\ None \notin {"refresh_token_reuse", "explicit_revocation"}

VARIABLES
    clock,        \* OffsetDateTime::now_utc of every instance of the service
    active,       \* accounts.state = 'active', the one state that permits sessions
    families,     \* table session_families
    credentials,  \* table refresh_credentials
    sessions,     \* table access_sessions
    work,         \* the request each worker is handling
    replayed      \* tokens presented, to the end of a transaction, after their consumption

tables == <<families, credentials, sessions>>
vars == <<clock, active, tables, work, replayed>>

TypeOK ==
    /\ clock \in Time
    /\ active \in [Account -> BOOLEAN]
    /\ families \in [Family -> FamilyRow \cup {None}]
    /\ credentials \in [Token -> CredentialRow \cup {None}]
    /\ sessions \in [Token -> SessionRow \cup {None}]
    /\ work \in [Worker -> Job \cup {None}]
    /\ replayed \subseteq Token

Init ==
    /\ clock = 0
    /\ active = [a \in Account |-> TRUE]
    /\ families = [f \in Family |-> None]
    /\ credentials = [t \in Token |-> None]
    /\ sessions = [t \in Token |-> None]
    /\ work = [w \in Worker |-> None]
    /\ replayed = {}

-----------------------------------------------------------------------------
(* The world around the requests. *)

Tick ==
    /\ clock < MaxClock
    /\ clock' = clock + 1
    /\ UNCHANGED <<active, tables, work, replayed>>

\* An operator suspends, deactivates or reactivates an account.
SetActive(a) ==
    /\ active' = [active EXCEPT ![a] = ~ @]
    /\ UNCHANGED <<clock, tables, work, replayed>>

\* A request ends without effect: refused by a check, rolled back or crashed.
Abandon(w) ==
    /\ work[w] # None
    /\ work' = [work EXCEPT ![w] = None]
    /\ UNCHANGED <<clock, active, tables, replayed>>

-----------------------------------------------------------------------------
(* Issuance. *)

RefreshExpiry(now) == now + RefreshLifetime
AccessExpiry(now) == now + AccessLifetime

\* The store refuses a request that has waited out the lifetimes it asks for.
ValidExpiry(now, q) == RefreshExpiry(now) > q /\ AccessExpiry(now) > q

NewCredential(f, q, now) ==
    [family |-> f, issued_at |-> q, expires_at |-> RefreshExpiry(now),
     replaced_by |-> None]
NewSession(f, now) ==
    [family |-> f, expires_at |-> AccessExpiry(now), revoked |-> FALSE]

Unused(t) == credentials[t] = None /\ sessions[t] = None

\* An authenticated login asks for a session; the account may have changed since.
BeginIssue(w, a) ==
    /\ work[w] = None
    /\ work' = [work EXCEPT ![w] = [op |-> "issue", account |-> a, now |-> clock]]
    /\ UNCHANGED <<clock, active, tables, replayed>>

\* Mutant of InsertFamily: the expiries are taken as they are.
InsertFamily_AnyExpiry(w) ==
    /\ work[w] # None /\ work[w].op = "issue"
    /\ active[work[w].account]
    /\ work' = [work EXCEPT ![w] =
         [op |-> "insert", account |-> @.account, now |-> @.now, issued_at |-> clock]]
    /\ UNCHANGED <<clock, active, tables, replayed>>

\* The first statement of create_refresh_session; its row is not visible yet.
InsertFamily(w) ==
    /\ work[w] # None /\ work[w].op = "issue"
    /\ ValidExpiry(work[w].now, clock)
    /\ active[work[w].account]
    /\ work' = [work EXCEPT ![w] =
         [op |-> "insert", account |-> @.account, now |-> @.now, issued_at |-> clock]]
    /\ UNCHANGED <<clock, active, tables, replayed>>

CommitIssue(w, f, t) ==
    /\ work[w] # None /\ work[w].op = "insert"
    /\ families[f] = None
    /\ Unused(t)
    /\ families' = [families EXCEPT ![f] =
         [account |-> work[w].account, revoke_reason |-> None]]
    /\ credentials' = [credentials EXCEPT ![t] =
         NewCredential(f, work[w].issued_at, work[w].now)]
    /\ sessions' = [sessions EXCEPT ![t] = NewSession(f, work[w].now)]
    /\ work' = [work EXCEPT ![w] = None]
    /\ UNCHANGED <<clock, active, replayed>>

-----------------------------------------------------------------------------
(* Rotation. *)

Revoked(f) == families[f].revoke_reason # None

\* Mutant of RevokedSessions: access sessions are left to expire.
RevokedSessions_Left(f) == sessions

\* access_sessions with every live row of family f revoked.
RevokedSessions(f) ==
    [t \in Token |->
        IF sessions[t] # None /\ sessions[t].family = f
        THEN [sessions[t] EXCEPT !.revoked = TRUE] ELSE sessions[t]]

RevokeSessionFamily(f, reason) ==
    /\ families' = [families EXCEPT ![f].revoke_reason = reason]
    /\ sessions' = RevokedSessions(f)
    /\ UNCHANGED credentials

\* Somebody presents the refresh value of t.
BeginRotate(w, t) ==
    /\ work[w] = None
    /\ credentials[t] # None
    /\ work' = [work EXCEPT ![w] = [op |-> "rotate", token |-> t, now |-> clock]]
    /\ UNCHANGED <<clock, active, tables, replayed>>

\* Worker w holds the locked rows of token t.
Locked(w, t) ==
    /\ work[w] # None /\ work[w].op = "rotate"
    /\ t = work[w].token

Consumed(t) == credentials[t].replaced_by # None

\* Mutant of Reuse: a credential past its expiry is denied before anything else.
Reuse_UnlessExpired(w, t) ==
    /\ Locked(w, t)
    /\ Consumed(t)
    /\ replayed' = replayed \cup {t}
    /\ IF Revoked(credentials[t].family) \/ credentials[t].expires_at <= work[w].now
       THEN UNCHANGED tables
       ELSE RevokeSessionFamily(credentials[t].family, "refresh_token_reuse")
    /\ work' = [work EXCEPT ![w] = None]
    /\ UNCHANGED <<clock, active>>

\* A consumed credential revokes its family: ReuseDetected the first time, Denied after.
Reuse(w, t) ==
    /\ Locked(w, t)
    /\ Consumed(t)
    /\ replayed' = replayed \cup {t}
    /\ IF Revoked(credentials[t].family)
       THEN UNCHANGED tables
       ELSE RevokeSessionFamily(credentials[t].family, "refresh_token_reuse")
    /\ work' = [work EXCEPT ![w] = None]
    /\ UNCHANGED <<clock, active>>

\* Mutants of Rotatable: the expiry is compared with the wrong relation; the family
\* row is not looked at.
Rotatable_Late(t, q) ==
    /\ ~ Consumed(t)
    /\ ~ Revoked(credentials[t].family)
    /\ credentials[t].expires_at >= q
    /\ active[families[credentials[t].family].account]
Rotatable_Revoked(t, q) ==
    /\ ~ Consumed(t)
    /\ credentials[t].expires_at > q
    /\ active[families[credentials[t].family].account]

\* Anything else is Denied, without effect.
Rotatable(t, q) ==
    /\ ~ Consumed(t)
    /\ ~ Revoked(credentials[t].family)
    /\ credentials[t].expires_at > q
    /\ active[families[credentials[t].family].account]

\* Mutant of Successors: the old credential stays usable.
Successors_Kept(t, u, q, now) ==
    [credentials EXCEPT ![u] = NewCredential(credentials[t].family, q, now)]

\* refresh_credentials after t is consumed and u takes its place.
Successors(t, u, q, now) ==
    [credentials EXCEPT ![t].replaced_by = u,
                        ![u] = NewCredential(credentials[t].family, q, now)]

\* q is the store's reading of the clock, taken before it waited for the locks.
Rotate(w, t, u, q) ==
    /\ Locked(w, t)
    /\ work[w].now <= q /\ q <= clock
    /\ ValidExpiry(work[w].now, q)
    /\ Rotatable(t, q)
    /\ Unused(u)
    /\ credentials' = Successors(t, u, q, work[w].now)
    /\ sessions' = [RevokedSessions(credentials[t].family) EXCEPT
         ![u] = NewSession(credentials[t].family, work[w].now)]
    /\ work' = [work EXCEPT ![w] = None]
    /\ UNCHANGED <<clock, active, families, replayed>>

\* revoke_refresh_session_family: only the family of that very account, only once.
RevokeRefreshSessionFamily(a, f) ==
    /\ families[f] # None
    /\ families[f].account = a
    /\ ~ Revoked(f)
    /\ RevokeSessionFamily(f, "explicit_revocation")
    /\ UNCHANGED <<clock, active, work, replayed>>

-----------------------------------------------------------------------------

\* access_session_authorization_context finds t now: the access value of t opens doors.
Authenticates(t) ==
    /\ sessions[t] # None
    /\ ~ sessions[t].revoked
    /\ sessions[t].expires_at > clock
    /\ ~ Revoked(sessions[t].family)
    /\ active[families[sessions[t].family].account]

Next ==
    \/ Tick
    \/ \E a \in Account : SetActive(a)
    \/ \E a \in Account, f \in Family : RevokeRefreshSessionFamily(a, f)
    \/ \E w \in Worker :
         \/ Abandon(w)
         \/ \E a \in Account : BeginIssue(w, a)
         \/ InsertFamily(w)
         \/ \E f \in Family, t \in Token : CommitIssue(w, f, t)
         \/ \E t \in Token : BeginRotate(w, t)
         \/ \E t \in Token : Reuse(w, t)
         \/ \E t, u \in Token, q \in Time : Rotate(w, t, u, q)

Spec == Init /\ [][Next]_vars

-----------------------------------------------------------------------------
(* Properties. *)

\* Token t's refresh value is the one that can still be exchanged in family f.
Current(f, t) ==
    credentials[t] # None /\ credentials[t].family = f /\ ~ Consumed(t)

\* However many requests race with the same token, the credentials of a family are
\* one chain: exactly one is unconsumed, and each consumed one has a successor in the
\* family that no other shares (rotate_refresh_credential's locks).
OneChain ==
    /\ \A f \in Family : families[f] # None =>
         \E t \in Token : \A u \in Token : Current(f, u) <=> u = t
    /\ \A t \in Token : (credentials[t] # None /\ Consumed(t)) =>
         LET s == credentials[t].replaced_by
         IN  /\ credentials[s] # None
             /\ credentials[s].family = credentials[t].family
             /\ \A u \in Token :
                  (credentials[u] # None /\ credentials[u].replaced_by = s) => u = t

\* An access token that authenticates was issued with the family's current refresh
\* token: a rotation or a revocation ends every older one at once, so a family never
\* has two usable access tokens (the access_sessions updates in helpers.rs).
AccessIsCurrent ==
    \A t \in Token : Authenticates(t) => Current(sessions[t].family, t)

\* A family is revoked for reuse exactly when one of its consumed credentials came
\* back, whatever its expiry, the account's state and the races in between: no
\* replay is missed and no alarm is false (the order of checks in
\* rotate_refresh_credential).
ReuseRevokes ==
    /\ \A t \in replayed : Revoked(credentials[t].family)
    /\ \A f \in Family :
         (families[f] # None /\ families[f].revoke_reason = "refresh_token_reuse") =>
            \E t \in replayed : credentials[t].family = f

\* Successors are issued no earlier than their predecessors and strictly before
\* those expired, although requests decide with a clock reading that is stale by the
\* time they hold the locks (rotate_refresh_credential).
RotatedInTime ==
    \A t \in Token : (credentials[t] # None /\ Consumed(t)) =>
        LET s == credentials[t].replaced_by
        IN  /\ credentials[t].issued_at <= credentials[s].issued_at
            /\ credentials[s].issued_at < credentials[t].expires_at

\* The rows of family f.
RowsOf(f) ==
    [t \in Token |-> IF credentials[t] # None /\ credentials[t].family = f
                     THEN credentials[t] ELSE None]

\* A revoked family stays revoked: nothing in it is issued or exchanged any more, not
\* even by a request that was under way, and none of its access tokens authenticates
\* before or after the step, even when its account is reactivated
\* (revoke_session_family against concurrent rotations).
RevokedIsFinal ==
    [][\A f \in Family : (families[f] # None /\ Revoked(f)) =>
         /\ families'[f] = families[f]
         /\ RowsOf(f)' = RowsOf(f)
         /\ \A t \in Token : (sessions[t] # None /\ sessions[t].family = f) =>
              sessions[t].revoked /\ sessions'[t] = sessions[t]]_vars

-----------------------------------------------------------------------------
(* The parts of the inductive invariant of RefreshSessions_proofs. *)

\* Rows come in pairs, of a family that exists and not from the future.
RowsSound ==
    \A t \in Token :
        /\ credentials[t] = None <=> sessions[t] = None
        /\ credentials[t] # None =>
             /\ families[credentials[t].family] # None
             /\ sessions[t].family = credentials[t].family
             /\ credentials[t].issued_at <= clock

\* An access row that is not revoked belongs to the current token of a live family.
LiveIsCurrent ==
    \A t \in Token : (sessions[t] # None /\ ~ sessions[t].revoked) =>
        ~ Revoked(sessions[t].family) /\ ~ Consumed(t)

\* A replayed token has a row.
ReplayedSound == \A t \in replayed : credentials[t] # None

\* What a request carries is not newer than the clock, and a token is presented only
\* after it was issued.
JobSound(job) ==
    /\ job.now <= clock
    /\ job.op = "insert" => job.issued_at <= clock /\ ValidExpiry(job.now, job.issued_at)
    /\ job.op = "rotate" =>
         credentials[job.token] # None /\ credentials[job.token].issued_at <= job.now

JobsSound == \A w \in Worker : work[w] # None => JobSound(work[w])
=============================================================================
