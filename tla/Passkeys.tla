------------------------------ MODULE Passkeys ------------------------------
(***************************************************************************)
(* Passkeys of the Fabric authority: registration by a signed-in account   *)
(* and login with an authenticator instead of a password, each in two      *)
(* requests joined by a one-use ceremony that stays on the server.         *)
(*                                                                         *)
(* As in Login, work[w] is what a request carries from one statement to    *)
(* the next.  A login is verified against the credentials as they were     *)
(* when its ceremony began, then updates the row as it is read later, and  *)
(* overwrites it later still; several logins with one passkey overlap.     *)
(*                                                                         *)
(* The WebAuthn library and the authenticators are external: what they do  *)
(* is read off the calls of the service.  The two cookies of a ceremony    *)
(* (token and binding) are issued together and named by one token here; a  *)
(* pair that was not issued together is refused.                           *)
(***************************************************************************)
EXTENDS Naturals

CONSTANTS
    Account,     \* accounts
    Served,      \* accounts whose domain is the relying party's
    Token,       \* ceremonies, by their opaque token
    Credential,  \* credential identifiers, chosen by authenticators
    Counting,    \* credentials whose authenticator counts its signatures
    Family,      \* identifiers of session families
    Worker,      \* requests the service handles at a time
    Lifetime,    \* CEREMONY_LIFETIME
    MaxClock,    \* bound: the wall clock
    MaxSigned,   \* bound: signatures an authenticator makes
    None         \* a row that does not exist, Option::None

Time == 1..MaxClock
Counter == 0..MaxSigned

AccountState == {"active", "suspended"}
Kind == {"registration", "authentication"}

\* known: what the ceremony state remembers of each credential it may be finished
\* with, its counter.
CeremonyRow ==
    [account : Account, kind : Kind, known : [Credential -> Counter \cup {None}],
     expires_at : 0..(MaxClock + Lifetime), consumed : BOOLEAN]

\* ceremony and by: the ceremony that registered it, and who was signed in then.
CredentialRow == [account : Account, counter : Counter, ceremony : Token, by : Account]

SessionRow == [account : Account, ceremony : Token, credential : Credential]

\* What an authenticator answers to the challenge of a ceremony.
Response == [ceremony : Token, credential : Credential, counter : Counter]

Job ==
    [op : {"create"}, account : Account, kind : Kind, now : Time,
     known : [Credential -> Counter \cup {None}]]
      \cup [op : {"register"}, account : Account, response : Response, by : Account]
      \cup [op : {"read"}, account : Account, response : Response]
      \cup [op : {"update"}, account : Account, response : Response, counter : Counter]
      \cup [op : {"issue"}, account : Account, response : Response]

ASSUME SubsetAssumption == Served \subseteq Account /\ Counting \subseteq Credential
ASSUME LifetimeAssumption == Lifetime \in Nat \ {0}
ASSUME MaxClockAssumption == MaxClock \in Nat \ {0}
ASSUME MaxSignedAssumption == MaxSigned \in Nat
ASSUME NoneAssumption ==
    None \notin Counter \cup CeremonyRow \cup CredentialRow \cup SessionRow \cup Job

VARIABLES
    clock,        \* OffsetDateTime::now_utc
    accounts,     \* accounts.state
    ceremonies,   \* table webauthn_ceremonies
    credentials,  \* table webauthn_credentials
    sessions,     \* session_families that passkeys opened
    device,       \* signatures the authenticator of each credential has made
    responses,    \* what authenticators have answered
    work          \* the request each worker is handling

vars == <<clock, accounts, ceremonies, credentials, sessions, device, responses, work>>

TypeOK ==
    /\ clock \in Time
    /\ accounts \in [Account -> AccountState]
    /\ ceremonies \in [Token -> CeremonyRow \cup {None}]
    /\ credentials \in [Credential -> CredentialRow \cup {None}]
    /\ sessions \in [Family -> SessionRow \cup {None}]
    /\ device \in [Credential -> Counter]
    /\ responses \subseteq Response
    /\ work \in [Worker -> Job \cup {None}]

Init ==
    /\ clock = 1
    /\ accounts = [a \in Account |-> "active"]
    /\ ceremonies = [t \in Token |-> None]
    /\ credentials = [c \in Credential |-> None]
    /\ sessions = [s \in Family |-> None]
    /\ device = [c \in Credential |-> 0]
    /\ responses = {}
    /\ work = [w \in Worker |-> None]

At(w, op) == work[w] # None /\ work[w].op = op
Continue(w, job) == work' = [work EXCEPT ![w] = job]

-----------------------------------------------------------------------------
(* The world around the requests. *)

Tick ==
    /\ clock < MaxClock
    /\ clock' = clock + 1
    /\ UNCHANGED <<accounts, ceremonies, credentials, sessions, device, responses, work>>

\* An operator suspends an account in the database, or lifts the suspension.
SetState(a, state) ==
    /\ accounts' = [accounts EXCEPT ![a] = state]
    /\ UNCHANGED <<clock, ceremonies, credentials, sessions, device, responses, work>>

\* A request ends without further effect, whatever it committed before.
Abandon(w) ==
    /\ work[w] # None
    /\ Continue(w, None)
    /\ UNCHANGED <<clock, accounts, ceremonies, credentials, sessions, device, responses>>

\* An authenticator makes credential c in answer to a registration challenge.
MakeCredential(c, t) ==
    /\ ceremonies[t] # None
    /\ ceremonies[t].kind = "registration"
    /\ ceremonies[t].known[c] = None
    /\ responses' = responses \cup {[ceremony |-> t, credential |-> c, counter |-> 0]}
    /\ UNCHANGED <<clock, accounts, ceremonies, credentials, sessions, device, work>>

\* The authenticator of c signs the challenge of a login, and counts if it does.
SignChallenge(c, t) ==
    /\ ceremonies[t] # None
    /\ ceremonies[t].kind = "authentication"
    /\ ceremonies[t].known[c] # None
    /\ device[c] < MaxSigned
    /\ device' = [device EXCEPT ![c] = IF c \in Counting THEN @ + 1 ELSE @]
    /\ responses' = responses \cup
         {[ceremony |-> t, credential |-> c, counter |-> device'[c]]}
    /\ UNCHANGED <<clock, accounts, ceremonies, credentials, sessions, work>>

-----------------------------------------------------------------------------
(* The first request: a ceremony. *)

\* active_webauthn_passkeys of an account, as a ceremony or a login remembers them.
ActivePasskeys(a) ==
    [c \in Credential |->
       IF credentials[c] # None /\ credentials[c].account = a
       THEN credentials[c].counter ELSE None]

\* begin_registration for account a; what the ceremony knows are the credentials to
\* exclude.
RegistrationChallenge(a) ==
    IF a \in Served
    THEN [op |-> "create", account |-> a, kind |-> "registration", now |-> clock,
          known |-> ActivePasskeys(a)]
    ELSE None

\* begin_passkey_registration, from a session of account a (authenticate_access).
BeginRegistration(w, a) ==
    /\ work[w] = None
    /\ accounts[a] = "active"
    /\ Continue(w, RegistrationChallenge(a))
    /\ UNCHANGED <<clock, accounts, ceremonies, credentials, sessions, device, responses>>

\* begin_authentication: an active account of the relying party with some passkey.
AuthenticationChallenge(a) ==
    IF a \in Served /\ accounts[a] = "active"
         /\ \E c \in Credential : ActivePasskeys(a)[c] # None
    THEN [op |-> "create", account |-> a, kind |-> "authentication", now |-> clock,
          known |-> ActivePasskeys(a)]
    ELSE None

\* begin_passkey_login, by anybody who names the address of account a.
BeginAuthentication(w, a) ==
    /\ work[w] = None
    /\ Continue(w, AuthenticationChallenge(a))
    /\ UNCHANGED <<clock, accounts, ceremonies, credentials, sessions, device, responses>>

ExpiresAt(now) == now + Lifetime

\* persist_ceremony and create_webauthn_ceremony
CreateWebauthnCeremony(w, t) ==
    /\ At(w, "create")
    /\ ceremonies[t] = None
    /\ ExpiresAt(work[w].now) > clock
    /\ accounts[work[w].account] = "active"
    /\ ceremonies' = [ceremonies EXCEPT ![t] =
         [account |-> work[w].account, kind |-> work[w].kind, known |-> work[w].known,
          expires_at |-> ExpiresAt(work[w].now), consumed |-> FALSE]]
    /\ Continue(w, None)
    /\ UNCHANGED <<clock, accounts, credentials, sessions, device, responses>>

-----------------------------------------------------------------------------
(* The second request. *)

\* Mutant: a ceremony serves again.
ConsumableAgain(t, now) == ceremonies[t] # None /\ ceremonies[t].expires_at > now

\* The one UPDATE of consume_webauthn_ceremony finds the row, of either kind.
Consumable(t, now) ==
    /\ ceremonies[t] # None
    /\ ~ ceremonies[t].consumed
    /\ ceremonies[t].expires_at > now

\* consume_ceremony marks the row, whatever the request comes to afterwards.
ConsumeCeremony(t) == ceremonies' = [ceremonies EXCEPT ![t].consumed = TRUE]

\* finish_passkey_authentication of the library, against the state of ceremony x.
VerifyAssertion(x, t, r) ==
    /\ r.ceremony = t
    /\ x.known[r.credential] # None
    /\ \/ r.counter > x.known[r.credential]
       \/ r.counter = 0 /\ x.known[r.credential] = 0

\* finish_passkey_registration of the library.
VerifyAttestation(x, t, r) == r.ceremony = t /\ x.known[r.credential] = None

\* Mutant: whoever is signed in finishes the registration of another account.
RegistrationOfAnyone(x, t, r, a) ==
    IF x.kind = "registration" /\ VerifyAttestation(x, t, r)
    THEN [op |-> "register", account |-> x.account, response |-> r, by |-> a]
    ELSE None

\* finish_registration by a session of account a, with the ceremony x it consumed.
RegistrationJob(x, t, r, a) ==
    IF x.kind = "registration" /\ x.account = a /\ VerifyAttestation(x, t, r)
    THEN [op |-> "register", account |-> x.account, response |-> r, by |-> a]
    ELSE None

\* The session was authenticated before; its account has changed state since, perhaps.
FinishRegistration(w, t, r, a, q) ==
    /\ work[w] = None
    /\ q <= clock
    /\ Consumable(t, q)
    /\ ConsumeCeremony(t)
    /\ Continue(w, RegistrationJob(ceremonies[t], t, r, a))
    /\ UNCHANGED <<clock, accounts, credentials, sessions, device, responses>>

\* finish_authentication with the ceremony x it consumed.
AuthenticationJob(x, t, r) ==
    IF x.kind = "authentication" /\ VerifyAssertion(x, t, r)
    THEN [op |-> "read", account |-> x.account, response |-> r]
    ELSE None

FinishAuthentication(w, t, r, q) ==
    /\ work[w] = None
    /\ q <= clock
    /\ Consumable(t, q)
    /\ ConsumeCeremony(t)
    /\ Continue(w, AuthenticationJob(ceremonies[t], t, r))
    /\ UNCHANGED <<clock, accounts, credentials, sessions, device, responses>>

\* register_webauthn_passkey; the credential identifier is unique.
RegisterPasskey(w) ==
    /\ At(w, "register")
    /\ accounts[work[w].account] = "active"
    /\ credentials[work[w].response.credential] = None
    /\ credentials' = [credentials EXCEPT ![work[w].response.credential] =
         [account |-> work[w].account, counter |-> 0,
          ceremony |-> work[w].response.ceremony, by |-> work[w].by]]
    /\ Continue(w, None)
    /\ UNCHANGED <<clock, accounts, ceremonies, sessions, device, responses>>

\* Mutant: the counter expected next is stored.
UpdatedToNext(counter, verified) == IF verified > counter THEN verified + 1 ELSE counter

\* Passkey::update_credential of the library.
UpdatedCounter(counter, verified) == IF verified > counter THEN verified ELSE counter

\* The passkeys are read again and the verified one is updated in memory.
ReadPasskeys(w) ==
    /\ At(w, "read")
    /\ LET r == work[w].response
           counter == ActivePasskeys(work[w].account)[r.credential]
       IN  /\ counter # None
           /\ Continue(w, [op |-> "update", account |-> work[w].account, response |-> r,
                           counter |-> UpdatedCounter(counter, r.counter)])
    /\ UNCHANGED <<clock, accounts, ceremonies, credentials, sessions, device, responses>>

\* update_webauthn_passkey: what was computed replaces the row.
UpdatePasskey(w) ==
    /\ At(w, "update")
    /\ accounts[work[w].account] = "active"
    /\ credentials[work[w].response.credential] # None
    /\ credentials[work[w].response.credential].account = work[w].account
    /\ credentials' =
         [credentials EXCEPT ![work[w].response.credential].counter = work[w].counter]
    /\ Continue(w, [op |-> "issue", account |-> work[w].account,
                    response |-> work[w].response])
    /\ UNCHANGED <<clock, accounts, ceremonies, sessions, device, responses>>

\* session_authorization_context and create_refresh_session
IssueBrowserSession(w, s) ==
    /\ At(w, "issue")
    /\ accounts[work[w].account] = "active"
    /\ sessions[s] = None
    /\ sessions' = [sessions EXCEPT ![s] =
         [account |-> work[w].account, ceremony |-> work[w].response.ceremony,
          credential |-> work[w].response.credential]]
    /\ Continue(w, None)
    /\ UNCHANGED <<clock, accounts, ceremonies, credentials, device, responses>>

-----------------------------------------------------------------------------

Next ==
    \/ Tick
    \/ \E a \in Account, state \in AccountState : SetState(a, state)
    \/ \E c \in Credential, t \in Token : MakeCredential(c, t) \/ SignChallenge(c, t)
    \/ \E w \in Worker :
         \/ Abandon(w)
         \/ \E a \in Account : BeginRegistration(w, a) \/ BeginAuthentication(w, a)
         \/ \E t \in Token : CreateWebauthnCeremony(w, t)
         \/ \E t \in Token, r \in responses, q \in Time :
              \/ \E a \in Account : FinishRegistration(w, t, r, a, q)
              \/ FinishAuthentication(w, t, r, q)
         \/ RegisterPasskey(w)
         \/ ReadPasskeys(w)
         \/ UpdatePasskey(w)
         \/ \E s \in Family : IssueBrowserSession(w, s)

Spec == Init /\ [][Next]_vars

-----------------------------------------------------------------------------
(* Properties. *)

\* A session that a passkey opened belongs to the account of the passkey, the
\* authenticator signed the challenge of the session's own login ceremony, and no
\* ceremony opens two (finish_authentication, by whatever requests repeat it).
AssertedSession ==
    \A s \in Family : sessions[s] # None =>
        LET x == sessions[s] IN
          /\ credentials[x.credential].account = x.account
          /\ ceremonies[x.ceremony].account = x.account
          /\ ceremonies[x.ceremony].kind = "authentication"
          /\ \E r \in responses : r.ceremony = x.ceremony /\ r.credential = x.credential
          /\ \A z \in Family \ {s} : sessions[z] # None => sessions[z].ceremony # x.ceremony

\* A passkey was registered by its own account, in a registration that the account
\* began and finished, and each registration yields one passkey (finish_registration).
RegisteredBySelf ==
    \A c \in Credential : credentials[c] # None =>
        LET x == credentials[c] IN
          /\ x.by = x.account
          /\ ceremonies[x.ceremony].account = x.account
          /\ ceremonies[x.ceremony].kind = "registration"
          /\ \A d \in Credential \ {c} :
               credentials[d] # None => credentials[d].ceremony # x.ceremony

\* No false clone alarm: overlapping logins write the counter back in any order, so
\* the stored one can fall behind and even return to an earlier value, but it never
\* passes the authenticator's own.  Whatever a genuine authenticator signs for a
\* ceremony is accepted by the counter that ceremony knows.
GenuineIsAccepted ==
    \A r \in responses : ceremonies[r.ceremony].kind = "authentication" =>
        VerifyAssertion(ceremonies[r.ceremony], r.ceremony, r)

-----------------------------------------------------------------------------
(* What the properties rest on. *)

\* None of the counters in known is ahead of the authenticator's own.
Behind(known) == \A c \in Credential : known[c] # None => known[c] <= device[c]

\* Neither ceremonies nor rows nor responses are ahead of the authenticators, and one
\* that does not count stays at zero.
CountersBehind ==
    /\ \A t \in Token : ceremonies[t] # None => Behind(ceremonies[t].known)
    /\ \A c \in Credential : credentials[c] # None => credentials[c].counter <= device[c]
    /\ \A r \in responses : r.counter <= device[r.credential]
    /\ \A c \in Credential \ Counting : device[c] = 0

ResponsesSound == \A r \in responses : ceremonies[r.ceremony] # None

\* Ceremony t of this kind was consumed, in the name of account a.
Consumed(t, a, kind) ==
    /\ ceremonies[t] # None
    /\ ceremonies[t].consumed
    /\ ceremonies[t].account = a
    /\ ceremonies[t].kind = kind

\* Credential c belongs to account a.
Owned(c, a) == credentials[c] # None /\ credentials[c].account = a

\* The requests that carry a consumed ceremony.
Holds(j) == j.op \in {"register", "read", "update", "issue"}

\* What a request has read and verified is still true of the rows it will write.
JobSound(j) ==
    /\ j.op = "create" => Behind(j.known)
    /\ j.op = "register" =>
         Consumed(j.response.ceremony, j.account, "registration") /\ j.by = j.account
    /\ j.op \in {"read", "update", "issue"} =>
         Consumed(j.response.ceremony, j.account, "authentication") /\ j.response \in responses
    /\ j.op = "update" => j.counter <= device[j.response.credential]
    /\ j.op = "issue" => Owned(j.response.credential, j.account)

JobsSound == \A w \in Worker : work[w] # None => JobSound(work[w])

\* A consumed ceremony is in one place: one request, one session or one passkey.
OneHolder ==
    \A w \in Worker : (work[w] # None /\ Holds(work[w])) =>
        LET t == work[w].response.ceremony IN
          /\ \A v \in Worker \ {w} :
               (work[v] # None /\ Holds(work[v])) => work[v].response.ceremony # t
          /\ \A s \in Family : sessions[s] # None => sessions[s].ceremony # t
          /\ \A c \in Credential : credentials[c] # None => credentials[c].ceremony # t

SessionsSound ==
    \A s \in Family : sessions[s] # None =>
        /\ Consumed(sessions[s].ceremony, sessions[s].account, "authentication")
        /\ Owned(sessions[s].credential, sessions[s].account)

CredentialsSound ==
    \A c \in Credential : credentials[c] # None =>
        Consumed(credentials[c].ceremony, credentials[c].account, "registration")
=============================================================================
