--------------------------- MODULE Passkeys_proofs ---------------------------
(***************************************************************************)
(* Passkeys: every safety property, for any number of accounts,            *)
(* authenticators, ceremonies and concurrent requests.                     *)
(*                                                                         *)
(* The argument: rows and authenticators only ever grow (Grows), so what a *)
(* request has verified stays true until it writes (JobsSound).  A         *)
(* consumed ceremony is in one place, a request, a session or a passkey    *)
(* (OneHolder).  No counter that the server keeps or computes, from        *)
(* whatever mixture of old and new readings, is ahead of the               *)
(* authenticator's (CountersBehind), so the next signature is ahead of     *)
(* what any ceremony knows.                                                *)
(***************************************************************************)
EXTENDS Passkeys, TLAPS

IInv ==
    /\ TypeOK
    /\ CountersBehind
    /\ ResponsesSound
    /\ JobsSound
    /\ OneHolder
    /\ SessionsSound
    /\ CredentialsSound
    /\ AssertedSession
    /\ RegisteredBySelf
    /\ GenuineIsAccepted

\* No step takes anything back from a ceremony, a passkey, an authenticator or what
\* authenticators answered.
Grows ==
    /\ \A t \in Token : ceremonies[t] # None =>
         /\ ceremonies'[t] # None
         /\ ceremonies'[t].account = ceremonies[t].account
         /\ ceremonies'[t].kind = ceremonies[t].kind
         /\ ceremonies'[t].known = ceremonies[t].known
         /\ ceremonies[t].consumed => ceremonies'[t].consumed
    /\ \A c \in Credential : credentials[c] # None =>
         /\ credentials'[c] # None
         /\ credentials'[c].account = credentials[c].account
         /\ credentials'[c].ceremony = credentials[c].ceremony
         /\ credentials'[c].by = credentials[c].by
    /\ \A c \in Credential : device[c] <= device'[c]
    /\ responses \subseteq responses'

-----------------------------------------------------------------------------
(* Types. *)

LEMMA Nones ==
    /\ None \notin Counter /\ None \notin CeremonyRow /\ None \notin CredentialRow
    /\ None \notin SessionRow /\ None \notin Job
  BY NoneAssumption

LEMMA Numbers ==
    /\ Time \subseteq Nat /\ Counter \subseteq Nat /\ 0 \in Counter
    /\ \A now \in Time : ExpiresAt(now) \in 0..(MaxClock + Lifetime)
  BY MaxClockAssumption, MaxSignedAssumption, LifetimeAssumption
     DEF Time, Counter, ExpiresAt

LEMMA CeremonyFields ==
    ASSUME NEW x \in CeremonyRow
    PROVE  /\ x.account \in Account /\ x.kind \in Kind
           /\ x.known \in [Credential -> Counter \cup {None}] /\ x.consumed \in BOOLEAN
  BY DEF CeremonyRow

LEMMA CredentialFields ==
    ASSUME NEW x \in CredentialRow
    PROVE  /\ x.account \in Account /\ x.counter \in Counter /\ x.ceremony \in Token
           /\ x.by \in Account
  BY DEF CredentialRow

LEMMA SessionFields ==
    ASSUME NEW x \in SessionRow
    PROVE  x.account \in Account /\ x.ceremony \in Token /\ x.credential \in Credential
  BY DEF SessionRow

LEMMA ResponseFields ==
    ASSUME NEW r \in Response
    PROVE  r.ceremony \in Token /\ r.credential \in Credential /\ r.counter \in Counter
  BY DEF Response

\* What a request carries, by its statement.
LEMMA JobFields ==
    ASSUME NEW j \in Job
    PROVE  /\ j.op \in {"create", "register", "read", "update", "issue"}
           /\ j.account \in Account
           /\ j.op = "create" => /\ j.kind \in Kind /\ j.now \in Time
                                 /\ j.known \in [Credential -> Counter \cup {None}]
           /\ Holds(j) => j.response \in Response
           /\ j.op = "register" => j.by \in Account
           /\ j.op = "update" => j.counter \in Counter
  BY DEF Job, Holds

LEMMA Passkeys ==
    ASSUME TypeOK, NEW a
    PROVE  ActivePasskeys(a) \in [Credential -> Counter \cup {None}]
  BY CredentialFields DEF TypeOK, ActivePasskeys

-----------------------------------------------------------------------------
(* The initial states. *)

LEMMA IInvInit == Init => IInv
<1> SUFFICES ASSUME Init PROVE IInv
  OBVIOUS
<1>1. TypeOK
  BY MaxClockAssumption, Numbers DEF Init, TypeOK, Time, AccountState
<1>2. CountersBehind /\ ResponsesSound /\ JobsSound /\ OneHolder
  BY DEF Init, CountersBehind, ResponsesSound, JobsSound, OneHolder
<1>3. SessionsSound /\ CredentialsSound
  BY DEF Init, SessionsSound, CredentialsSound
<1>4. AssertedSession /\ RegisteredBySelf /\ GenuineIsAccepted
  BY DEF Init, AssertedSession, RegisteredBySelf, GenuineIsAccepted
<1>5. QED
  BY <1>1, <1>2, <1>3, <1>4 DEF IInv

-----------------------------------------------------------------------------
(* Frames. *)

LEMMA ConsumedKept ==
    ASSUME Grows, NEW t \in Token, NEW a, NEW kind, Consumed(t, a, kind)
    PROVE  Consumed(t, a, kind)'
  BY DEF Grows, Consumed

LEMMA OwnedKept ==
    ASSUME Grows, NEW c \in Credential, NEW a, Owned(c, a) PROVE Owned(c, a)'
  BY DEF Grows, Owned

\* Authenticators only count up.
LEMMA BehindKept ==
    ASSUME TypeOK, TypeOK', Grows, NEW known \in [Credential -> Counter \cup {None}],
           Behind(known)
    PROVE  Behind(known)'
<1> SUFFICES ASSUME NEW c \in Credential, known[c] # None PROVE known[c] <= device'[c]
  BY DEF Behind
<1>1. known[c] \in Nat /\ device[c] \in Nat /\ device'[c] \in Nat
  BY Numbers DEF TypeOK
<1>2. known[c] <= device[c] /\ device[c] <= device'[c]
  BY DEF Behind, Grows
<1>3. QED
  BY <1>1, <1>2

\* Requests that do not move do not notice a step.
LEMMA JobKept ==
    ASSUME IInv, TypeOK', Grows, NEW v \in Worker, work[v] # None, work'[v] = work[v]
    PROVE  JobSound(work[v])'
<1>0. PICK j : j = work[v]
  OBVIOUS
<1>1. j \in Job /\ JobSound(j)
  BY <1>0 DEF IInv, TypeOK, JobsSound
<1>2. Holds(j) => /\ j.response.ceremony \in Token /\ j.response.credential \in Credential
  BY <1>1, JobFields, ResponseFields
<1>3. j.op = "create" => Behind(j.known)'
  BY <1>1, JobFields, BehindKept DEF IInv, JobSound
<1>4. j.op = "register" =>
         Consumed(j.response.ceremony, j.account, "registration")' /\ j.by = j.account
  BY <1>1, <1>2, ConsumedKept DEF JobSound, Holds
<1>5. j.op \in {"read", "update", "issue"} =>
         /\ Consumed(j.response.ceremony, j.account, "authentication")'
         /\ j.response \in responses'
  BY <1>1, <1>2, ConsumedKept DEF JobSound, Holds, Grows
<1>6. j.op = "update" => j.counter <= device'[j.response.credential]
  <2> SUFFICES ASSUME j.op = "update" PROVE j.counter <= device'[j.response.credential]
    OBVIOUS
  <2>1. j.response.credential \in Credential
    BY <1>2 DEF Holds
  <2>2. /\ j.counter \in Nat /\ device[j.response.credential] \in Nat
        /\ device'[j.response.credential] \in Nat
    BY <2>1, <1>1, JobFields, Numbers DEF IInv, TypeOK
  <2>3. QED
    BY <2>1, <2>2, <1>1 DEF JobSound, Grows
<1>7. j.op = "issue" => Owned(j.response.credential, j.account)'
  BY <1>1, <1>2, OwnedKept DEF JobSound, Holds
<1>8. JobSound(j)'
  BY <1>3, <1>4, <1>5, <1>6, <1>7 DEF JobSound
<1>9. QED
  BY <1>0, <1>8 DEF JobSound, Behind, Consumed, Owned

LEMMA JobsSoundNext ==
    ASSUME IInv, TypeOK', Grows, NEW w \in Worker,
           \A v \in Worker \ {w} : work'[v] = work[v],
           work'[w] # None => JobSound(work[w])'
    PROVE  JobsSound'
<1> SUFFICES ASSUME NEW v \in Worker, work'[v] # None PROVE JobSound(work[v])'
  BY DEF JobsSound
<1>1. CASE v = w
  BY <1>1
<1>2. CASE v # w
  BY <1>2, JobKept
<1>3. QED
  BY <1>1, <1>2

LEMMA JobsKept == ASSUME IInv, TypeOK', Grows, work' = work PROVE JobsSound'
  BY JobKept DEF JobsSound

\* The passkeys are the same ones, whatever their counters.
NoNewCredential ==
    \A c \in Credential : credentials'[c] # None => credentials[c] # None

LEMMA CredentialsKept ==
    ASSUME IInv, TypeOK', Grows, NoNewCredential
    PROVE  CredentialsSound' /\ RegisteredBySelf'
<1>1. \A c \in Credential : credentials'[c] # None =>
         /\ credentials[c] # None
         /\ credentials'[c].account = credentials[c].account
         /\ credentials'[c].ceremony = credentials[c].ceremony
         /\ credentials'[c].by = credentials[c].by
         /\ credentials[c].ceremony \in Token
  BY CredentialFields DEF IInv, TypeOK, Grows, NoNewCredential
<1>2. CredentialsSound'
  BY <1>1 DEF IInv, CredentialsSound, Consumed, Grows
<1>3. RegisteredBySelf'
  <2> SUFFICES ASSUME NEW c \in Credential, credentials'[c] # None
               PROVE  /\ credentials'[c].by = credentials'[c].account
                      /\ ceremonies'[credentials'[c].ceremony].account
                           = credentials'[c].account
                      /\ ceremonies'[credentials'[c].ceremony].kind = "registration"
                      /\ \A d \in Credential \ {c} : credentials'[d] # None =>
                           credentials'[d].ceremony # credentials'[c].ceremony
    BY DEF RegisteredBySelf
  <2>1. ceremonies[credentials[c].ceremony] # None
    BY <1>1 DEF IInv, CredentialsSound, Consumed
  <2>2. QED
    BY <2>1, <1>1 DEF IInv, RegisteredBySelf, Grows
<1>4. QED
  BY <1>2, <1>3

LEMMA SessionsKept ==
    ASSUME IInv, TypeOK', Grows, sessions' = sessions
    PROVE  SessionsSound' /\ AssertedSession'
<1>1. \A s \in Family : sessions[s] # None =>
         /\ sessions[s].ceremony \in Token /\ sessions[s].credential \in Credential
         /\ ceremonies[sessions[s].ceremony] # None
         /\ credentials[sessions[s].credential] # None
  BY SessionFields DEF IInv, TypeOK, SessionsSound, Consumed, Owned
<1>2. SessionsSound'
  BY <1>1 DEF IInv, SessionsSound, Consumed, Owned, Grows
<1>3. AssertedSession'
  <2> SUFFICES ASSUME NEW s \in Family, sessions[s] # None
               PROVE  LET x == sessions[s] IN
                        /\ credentials'[x.credential].account = x.account
                        /\ ceremonies'[x.ceremony].account = x.account
                        /\ ceremonies'[x.ceremony].kind = "authentication"
                        /\ \E r \in responses' :
                             r.ceremony = x.ceremony /\ r.credential = x.credential
                        /\ \A z \in Family \ {s} :
                             sessions[z] # None => sessions[z].ceremony # x.ceremony
    BY DEF AssertedSession
  <2>1. LET x == sessions[s] IN
          /\ credentials[x.credential].account = x.account
          /\ ceremonies[x.ceremony].account = x.account
          /\ ceremonies[x.ceremony].kind = "authentication"
          /\ \E r \in responses :
               r.ceremony = x.ceremony /\ r.credential = x.credential
          /\ \A z \in Family \ {s} :
               sessions[z] # None => sessions[z].ceremony # x.ceremony
    BY DEF IInv, AssertedSession
  <2>2. QED
    BY <2>1, <1>1 DEF Grows
<1>4. QED
  BY <1>2, <1>3

LEMMA ResponsesKept ==
    ASSUME IInv, Grows, responses' = responses
    PROVE  ResponsesSound' /\ GenuineIsAccepted'
<1>1. \A r \in responses : r.ceremony \in Token /\ ceremonies[r.ceremony] # None
  BY ResponseFields DEF IInv, TypeOK, ResponsesSound
<1>2. QED
  BY <1>1 DEF IInv, ResponsesSound, GenuineIsAccepted, VerifyAssertion, Grows

\* A request keeps its ceremony, or drops it.
LEMMA HolderKept ==
    ASSUME IInv, Grows, sessions' = sessions, NoNewCredential, NEW w \in Worker,
           \A v \in Worker \ {w} : work'[v] = work[v],
           (work'[w] # None /\ Holds(work'[w])) =>
              /\ work[w] # None /\ Holds(work[w])
              /\ work'[w].response.ceremony = work[w].response.ceremony
    PROVE  OneHolder'
<1>1. \A v \in Worker : (work'[v] # None /\ Holds(work'[v])) =>
         /\ work[v] # None /\ Holds(work[v])
         /\ work'[v].response.ceremony = work[v].response.ceremony
  OBVIOUS
<1>2. \A c \in Credential : credentials'[c] # None =>
         credentials[c] # None /\ credentials'[c].ceremony = credentials[c].ceremony
  BY DEF Grows, NoNewCredential
<1> SUFFICES ASSUME NEW u \in Worker, work'[u] # None, Holds(work'[u])
             PROVE  LET t == work'[u].response.ceremony IN
                      /\ \A v \in Worker \ {u} : (work'[v] # None /\ Holds(work'[v])) =>
                           work'[v].response.ceremony # t
                      /\ \A s \in Family : sessions'[s] # None => sessions'[s].ceremony # t
                      /\ \A c \in Credential : credentials'[c] # None =>
                           credentials'[c].ceremony # t
  BY DEF OneHolder, Holds
<1>3. QED
  BY <1>1, <1>2 DEF IInv, OneHolder

\* Nothing that carries a counter changes.
LEMMA CountersKept ==
    ASSUME IInv, TypeOK', UNCHANGED <<device, responses>>, Grows,
           \A t \in Token : ceremonies'[t] # None => ceremonies[t] # None,
           \A c \in Credential : credentials'[c] # None =>
              credentials[c] # None /\ credentials'[c].counter = credentials[c].counter
    PROVE  CountersBehind'
<1>1. \A t \in Token : ceremonies'[t] # None => Behind(ceremonies[t].known)'
  BY DEF IInv, CountersBehind, Behind, Grows
<1>2. \A c \in Credential : credentials'[c] # None => credentials'[c].counter <= device'[c]
  BY DEF IInv, CountersBehind
<1>3. \A r \in responses' : r.counter <= device'[r.credential]
  BY DEF IInv, CountersBehind
<1>4. \A c \in Credential \ Counting : device'[c] = 0
  BY DEF IInv, CountersBehind
<1>5. QED
  BY <1>1, <1>2, <1>3, <1>4 DEF CountersBehind, Behind

LEMMA Unmoved ==
    ASSUME IInv, UNCHANGED <<ceremonies, credentials, device, responses>>
    PROVE  Grows /\ NoNewCredential
<1>1. \A c \in Credential : device[c] <= device[c]
  <2>1. \A c \in Credential : device[c] \in Nat
    BY Numbers DEF IInv, TypeOK
  <2>2. QED
    BY <2>1
<1>2. QED
  BY <1>1 DEF Grows, NoNewCredential

\* A step that leaves rows and authenticators alone.
LEMMA QuietStep ==
    ASSUME IInv, UNCHANGED <<ceremonies, credentials, sessions, device, responses>>,
           TypeOK', JobsSound', OneHolder'
    PROVE  IInv'
<1>1. Grows /\ NoNewCredential
  BY Unmoved
<1>2. CountersBehind'
  BY DEF IInv, CountersBehind, Behind
<1>3. QED
  BY <1>1, <1>2, CredentialsKept, SessionsKept, ResponsesKept DEF IInv

\* A request goes on with a sound job, or ends.
LEMMA QuietWork ==
    ASSUME IInv, UNCHANGED <<clock, accounts, ceremonies, credentials, sessions, device,
                             responses>>,
           NEW w \in Worker, NEW job \in Job \cup {None}, job # None => JobSound(job),
           (job # None /\ Holds(job)) =>
              /\ work[w] # None /\ Holds(work[w])
              /\ job.response.ceremony = work[w].response.ceremony,
           work' = [work EXCEPT ![w] = job]
    PROVE  IInv'
<1>1. TypeOK'
  BY DEF IInv, TypeOK
<1>2. work'[w] = job /\ \A v \in Worker \ {w} : work'[v] = work[v]
  BY DEF IInv, TypeOK
<1>3. Grows /\ NoNewCredential
  BY Unmoved
<1>4. JobsSound'
  <2>1. work'[w] # None => JobSound(work[w])'
    BY <1>2 DEF JobSound, Behind, Consumed, Owned
  <2>2. QED
    BY <2>1, <1>1, <1>2, <1>3, JobsSoundNext
<1>5. OneHolder'
  BY <1>2, <1>3, HolderKept
<1>6. QED
  BY <1>1, <1>4, <1>5, QuietStep

-----------------------------------------------------------------------------
(* The world around the requests. *)

LEMMA TickStep == ASSUME IInv, Tick PROVE IInv'
<1>1. TypeOK'
  BY MaxClockAssumption DEF IInv, TypeOK, Tick, Time
<1>2. Grows
  BY Unmoved DEF Tick
<1>3. JobsSound'
  BY <1>1, <1>2, JobsKept DEF Tick
<1>4. OneHolder'
  BY DEF IInv, Tick, OneHolder, Holds
<1>5. QED
  BY <1>1, <1>3, <1>4, QuietStep DEF Tick

LEMMA SetStateStep ==
    ASSUME IInv, NEW a \in Account, NEW state \in AccountState, SetState(a, state)
    PROVE  IInv'
<1>1. TypeOK'
  BY DEF IInv, TypeOK, SetState
<1>2. Grows
  BY Unmoved DEF SetState
<1>3. JobsSound'
  BY <1>1, <1>2, JobsKept DEF SetState
<1>4. OneHolder'
  BY DEF IInv, SetState, OneHolder, Holds
<1>5. QED
  BY <1>1, <1>3, <1>4, QuietStep DEF SetState

LEMMA AbandonStep == ASSUME IInv, NEW w \in Worker, Abandon(w) PROVE IInv'
  BY QuietWork DEF Abandon, Continue

\* An authenticator answers the challenge of ceremony t, and has counted on.
LEMMA AnswerStep ==
    ASSUME IInv, NEW r \in Response, responses' = responses \cup {r},
           device' \in [Credential -> Counter],
           \A c \in Credential : device[c] <= device'[c],
           \A c \in Credential \ Counting : device'[c] = 0,
           ceremonies[r.ceremony] # None, r.counter <= device'[r.credential],
           ceremonies[r.ceremony].kind = "authentication" =>
              VerifyAssertion(ceremonies[r.ceremony], r.ceremony, r),
           UNCHANGED <<clock, accounts, ceremonies, credentials, sessions, work>>
    PROVE  IInv'
<1>1. TypeOK'
  BY DEF IInv, TypeOK
<1>2. Grows /\ NoNewCredential
  BY DEF Grows, NoNewCredential
<1>3. JobsSound'
  BY <1>1, <1>2, JobsKept
<1>4. OneHolder'
  BY DEF IInv, OneHolder, Holds
<1>5. CountersBehind'
  <2>1. \A c \in Credential : device[c] \in Nat /\ device'[c] \in Nat
    BY Numbers DEF IInv, TypeOK
  <2>2. \A t \in Token : ceremonies'[t] # None => Behind(ceremonies[t].known)'
    <3> SUFFICES ASSUME NEW t \in Token, ceremonies[t] # None
                 PROVE  Behind(ceremonies[t].known)'
      OBVIOUS
    <3>1. PICK known : known = ceremonies[t].known
      OBVIOUS
    <3>2. known \in [Credential -> Counter \cup {None}] /\ Behind(known)
      BY <3>1, CeremonyFields DEF IInv, TypeOK, CountersBehind
    <3>3. Behind(known)'
      BY <3>2, <1>1, <1>2, BehindKept DEF IInv
    <3>4. QED
      BY <3>1, <3>3 DEF Behind
  <2>3. ASSUME NEW c \in Credential, credentials[c] # None
        PROVE  credentials[c].counter <= device'[c]
    <3>1. credentials[c].counter \in Nat /\ credentials[c].counter <= device[c]
      BY <2>3, CredentialFields, Numbers DEF IInv, TypeOK, CountersBehind
    <3>2. QED
      BY <3>1, <2>1
  <2>4. ASSUME NEW x \in responses PROVE x.counter <= device'[x.credential]
    <3>1. /\ x.credential \in Credential /\ x.counter \in Nat
          /\ x.counter <= device[x.credential]
      BY ResponseFields, Numbers DEF IInv, TypeOK, CountersBehind
    <3>2. QED
      BY <3>1, <2>1
  <2>5. QED
    BY <2>2, <2>3, <2>4 DEF CountersBehind, Behind
<1>6. ResponsesSound'
  BY DEF IInv, ResponsesSound
<1>7. GenuineIsAccepted'
  BY DEF IInv, GenuineIsAccepted, VerifyAssertion
<1>8. QED
  BY <1>1, <1>2, <1>3, <1>4, <1>5, <1>6, <1>7, CredentialsKept, SessionsKept DEF IInv

LEMMA MakeCredentialStep ==
    ASSUME IInv, NEW c \in Credential, NEW t \in Token, MakeCredential(c, t) PROVE IInv'
<1> DEFINE r == [ceremony |-> t, credential |-> c, counter |-> 0]
<1>1. r \in Response /\ r.ceremony = t /\ r.credential = c /\ r.counter = 0
  BY Numbers DEF Response
<1>2. responses' = responses \cup {r}
  BY DEF MakeCredential
<1> HIDE DEF r
<1>3. \A d \in Credential : device[d] \in Nat /\ device'[d] = device[d]
  BY Numbers DEF IInv, TypeOK, MakeCredential
<1>4. /\ device' \in [Credential -> Counter]
      /\ \A d \in Credential : device[d] <= device'[d]
      /\ \A d \in Credential \ Counting : device'[d] = 0
      /\ r.counter <= device'[r.credential]
  BY <1>1, <1>3 DEF IInv, TypeOK, CountersBehind, MakeCredential
<1>5. ceremonies[r.ceremony] # None /\ ceremonies[r.ceremony].kind # "authentication"
  BY <1>1 DEF MakeCredential
<1>6. QED
  BY <1>1, <1>2, <1>4, <1>5, AnswerStep DEF MakeCredential

LEMMA SignChallengeStep ==
    ASSUME IInv, NEW c \in Credential, NEW t \in Token, SignChallenge(c, t) PROVE IInv'
<1>0. PICK r : r = [ceremony |-> t, credential |-> c, counter |-> device'[c]]
  OBVIOUS
<1>1. \A d \in Credential : device[d] \in Nat /\ device[d] \in Counter
  BY Numbers DEF IInv, TypeOK
<1>2. /\ device'[c] = IF c \in Counting THEN device[c] + 1 ELSE device[c]
      /\ \A d \in Credential \ {c} : device'[d] = device[d]
  BY DEF IInv, TypeOK, SignChallenge
<1>3. device'[c] \in Counter /\ device'[c] \in Nat /\ device[c] <= device'[c]
  BY <1>1, <1>2, MaxSignedAssumption DEF SignChallenge, Counter
<1>4. /\ device' \in [Credential -> Counter]
      /\ \A d \in Credential : device[d] <= device'[d]
  BY <1>1, <1>2, <1>3 DEF IInv, TypeOK, SignChallenge
<1>5. \A d \in Credential \ Counting : device'[d] = 0
  BY <1>2 DEF IInv, CountersBehind
<1>6. r \in Response /\ r.ceremony = t /\ r.credential = c /\ r.counter = device'[c]
  BY <1>0, <1>3 DEF Response
<1>7. responses' = responses \cup {r}
  BY <1>0 DEF SignChallenge
<1>8. ceremonies[t] # None /\ ceremonies[t].known[c] # None
  BY DEF SignChallenge
\* What the ceremony knows is not ahead of the authenticator before it counts on.
<1>9. VerifyAssertion(ceremonies[t], t, r)
  <2>1. ceremonies[t].known[c] \in Nat
    <3>1. ceremonies[t].known \in [Credential -> Counter \cup {None}]
      BY <1>8, CeremonyFields DEF IInv, TypeOK
    <3>2. QED
      BY <3>1, <1>8, Numbers
  <2>2. ceremonies[t].known[c] <= device[c]
    BY <1>8 DEF IInv, CountersBehind, Behind
  <2>3. c \notin Counting => device[c] = 0
    BY DEF IInv, CountersBehind
  <2>4. r.counter > ceremonies[t].known[c] \/ (r.counter = 0 /\ ceremonies[t].known[c] = 0)
    BY <2>1, <2>2, <2>3, <1>1, <1>2, <1>6
  <2>5. QED
    BY <2>4, <1>6, <1>8 DEF VerifyAssertion
<1>10. r.counter <= device'[r.credential]
  BY <1>3, <1>6
<1>11. QED
  BY <1>4, <1>5, <1>6, <1>7, <1>8, <1>9, <1>10, AnswerStep DEF SignChallenge

-----------------------------------------------------------------------------
(* The first request. *)

\* What a ceremony is created with was read from the rows.
LEMMA ChallengeSound ==
    ASSUME IInv, NEW a \in Account, NEW kind \in Kind, NEW job,
           job = [op |-> "create", account |-> a, kind |-> kind, now |-> clock,
                  known |-> ActivePasskeys(a)]
    PROVE  job \in Job /\ JobSound(job) /\ ~ Holds(job)
<1>1. ActivePasskeys(a) \in [Credential -> Counter \cup {None}] /\ clock \in Time
  BY Passkeys DEF IInv, TypeOK
<1>2. job \in Job /\ ~ Holds(job)
  BY <1>1 DEF Job, Holds
<1>3. Behind(ActivePasskeys(a))
  BY DEF IInv, CountersBehind, Behind, ActivePasskeys
<1>4. QED
  BY <1>2, <1>3 DEF JobSound

LEMMA BeginRegistrationStep ==
    ASSUME IInv, NEW w \in Worker, NEW a \in Account, BeginRegistration(w, a) PROVE IInv'
<1>0. PICK job : job = RegistrationChallenge(a)
  OBVIOUS
<1>1. job \in Job \cup {None} /\ (job # None => JobSound(job) /\ ~ Holds(job))
  BY <1>0, ChallengeSound DEF RegistrationChallenge, Kind
<1>2. work' = [work EXCEPT ![w] = job]
  BY <1>0 DEF BeginRegistration, Continue
<1>3. QED
  BY <1>1, <1>2, QuietWork DEF BeginRegistration

LEMMA BeginAuthenticationStep ==
    ASSUME IInv, NEW w \in Worker, NEW a \in Account, BeginAuthentication(w, a)
    PROVE  IInv'
<1>0. PICK job : job = AuthenticationChallenge(a)
  OBVIOUS
<1>1. job \in Job \cup {None} /\ (job # None => JobSound(job) /\ ~ Holds(job))
  BY <1>0, ChallengeSound DEF AuthenticationChallenge, Kind
<1>2. work' = [work EXCEPT ![w] = job]
  BY <1>0 DEF BeginAuthentication, Continue
<1>3. QED
  BY <1>1, <1>2, QuietWork DEF BeginAuthentication

LEMMA CreateWebauthnCeremonyStep ==
    ASSUME IInv, NEW w \in Worker, NEW t \in Token, CreateWebauthnCeremony(w, t)
    PROVE  IInv'
<1>0. PICK j, row :
         /\ j = work[w]
         /\ row = [account |-> j.account, kind |-> j.kind, known |-> j.known,
                   expires_at |-> ExpiresAt(j.now), consumed |-> FALSE]
  OBVIOUS
<1>1. j \in Job /\ j.op = "create" /\ JobSound(j)
  BY <1>0 DEF IInv, TypeOK, JobsSound, CreateWebauthnCeremony, At
<1>2. /\ j.account \in Account /\ j.kind \in Kind /\ j.now \in Time
      /\ j.known \in [Credential -> Counter \cup {None}] /\ Behind(j.known)
  BY <1>1, JobFields DEF JobSound
<1>3. row \in CeremonyRow /\ row.known = j.known
  BY <1>0, <1>2, Numbers DEF CeremonyRow
<1>4. /\ ceremonies[t] = None /\ ceremonies'[t] = row
      /\ \A u \in Token \ {t} : ceremonies'[u] = ceremonies[u]
      /\ work'[w] = None
      /\ \A v \in Worker \ {w} : work'[v] = work[v]
      /\ UNCHANGED <<clock, accounts, credentials, sessions, device, responses>>
  BY <1>0 DEF IInv, TypeOK, CreateWebauthnCeremony, Continue
<1>5. TypeOK'
  BY <1>3, <1>4 DEF IInv, TypeOK, CreateWebauthnCeremony, Continue
<1>6. Grows /\ NoNewCredential
  <2>1. \A c \in Credential : device[c] <= device'[c]
    <3>1. \A c \in Credential : device[c] \in Nat
      BY Numbers DEF IInv, TypeOK
    <3>2. QED
      BY <3>1, <1>4
  <2>2. QED
    BY <2>1, <1>4 DEF Grows, NoNewCredential
<1>7. JobsSound'
  BY <1>4, <1>5, <1>6, JobsSoundNext
<1>8. OneHolder'
  BY <1>4, <1>6, HolderKept
<1>9. CountersBehind'
  <2>1. \A u \in Token : ceremonies'[u] # None => Behind(ceremonies[u].known)'
    BY <1>2, <1>3, <1>4 DEF IInv, CountersBehind, Behind
  <2>2. QED
    BY <2>1, <1>4 DEF IInv, CountersBehind, Behind
<1>10. QED
  BY <1>4, <1>5, <1>6, <1>7, <1>8, <1>9, CredentialsKept, SessionsKept, ResponsesKept
     DEF IInv

-----------------------------------------------------------------------------
(* The second request. *)

\* A ceremony is consumed, and the request goes on with it, or with nothing.
LEMMA ConsumeStep ==
    ASSUME IInv, NEW w \in Worker, NEW t \in Token, ceremonies[t] # None,
           ~ ceremonies[t].consumed, NEW job \in Job \cup {None},
           job # None =>
             /\ job.op \in {"register", "read"}
             /\ job.response.ceremony = t /\ job.response \in responses
             /\ job.account = ceremonies[t].account
             /\ job.op = "register" =>
                  ceremonies[t].kind = "registration" /\ job.by = job.account
             /\ job.op = "read" => ceremonies[t].kind = "authentication",
           ceremonies' = [ceremonies EXCEPT ![t].consumed = TRUE],
           work' = [work EXCEPT ![w] = job],
           UNCHANGED <<clock, accounts, credentials, sessions, device, responses>>
    PROVE  IInv'
<1>1. ceremonies[t] \in CeremonyRow
  BY DEF IInv, TypeOK
<1>2. /\ ceremonies'[t] \in CeremonyRow
      /\ ceremonies'[t].consumed
      /\ ceremonies'[t].account = ceremonies[t].account
      /\ ceremonies'[t].kind = ceremonies[t].kind
      /\ ceremonies'[t].known = ceremonies[t].known
      /\ \A u \in Token \ {t} : ceremonies'[u] = ceremonies[u]
  <2>1. ceremonies'[t] = [ceremonies[t] EXCEPT !.consumed = TRUE]
    BY DEF IInv, TypeOK
  <2>2. QED
    BY <2>1, <1>1 DEF IInv, TypeOK, CeremonyRow
<1>3. ceremonies'[t] # None
  BY <1>2, Nones
<1>4. work'[w] = job /\ \A v \in Worker \ {w} : work'[v] = work[v]
  BY DEF IInv, TypeOK
<1>5. TypeOK'
  <2>1. ceremonies' \in [Token -> CeremonyRow \cup {None}]
    BY <1>2 DEF IInv, TypeOK
  <2>2. work' \in [Worker -> Job \cup {None}]
    BY DEF IInv, TypeOK
  <2>3. QED
    BY <2>1, <2>2 DEF IInv, TypeOK
<1>6. Grows /\ NoNewCredential
  <2>1. \A c \in Credential : device[c] \in Nat
    BY Numbers DEF IInv, TypeOK
  <2>2. \A c \in Credential : device[c] <= device'[c]
    BY <2>1
  <2>3. QED
    BY <2>2, <1>2, <1>3 DEF Grows, NoNewCredential
<1>7. JobsSound'
  <2>1. job # None => JobSound(job)'
    BY <1>2, <1>3 DEF JobSound, Consumed
  <2>2. work'[w] # None => JobSound(work[w])'
    BY <2>1, <1>4 DEF JobSound, Behind, Consumed, Owned
  <2>3. QED
    BY <2>2, <1>4, <1>5, <1>6, JobsSoundNext
<1>8. OneHolder'
  \* Nobody holds a ceremony that was not consumed before.
  <2>1. \A v \in Worker : (work[v] # None /\ Holds(work[v])) =>
           work[v].response.ceremony # t
    BY DEF IInv, JobsSound, JobSound, Consumed, Holds
  <2>2. \A s \in Family : sessions[s] # None => sessions[s].ceremony # t
    BY DEF IInv, SessionsSound, Consumed
  <2>3. \A c \in Credential : credentials[c] # None => credentials[c].ceremony # t
    BY DEF IInv, CredentialsSound, Consumed
  <2> SUFFICES ASSUME NEW u \in Worker, work'[u] # None, Holds(work'[u])
               PROVE  LET x == work'[u].response.ceremony IN
                        /\ \A v \in Worker \ {u} :
                             (work'[v] # None /\ Holds(work'[v])) =>
                               work'[v].response.ceremony # x
                        /\ \A s \in Family : sessions'[s] # None =>
                             sessions'[s].ceremony # x
                        /\ \A c \in Credential : credentials'[c] # None =>
                             credentials'[c].ceremony # x
    BY DEF OneHolder, Holds
  <2>4. CASE u = w
    BY <2>1, <2>2, <2>3, <2>4, <1>4
  <2>5. CASE u # w
    BY <2>1, <2>5, <1>4 DEF IInv, OneHolder
  <2>6. QED
    BY <2>4, <2>5
<1>9. CountersBehind'
  <2>1. \A u \in Token : ceremonies'[u] # None => ceremonies[u] # None
    BY <1>2
  <2>2. QED
    BY <2>1, <1>5, <1>6, CountersKept
<1>10. QED
  BY <1>5, <1>6, <1>7, <1>8, <1>9, CredentialsKept, SessionsKept, ResponsesKept DEF IInv

LEMMA FinishRegistrationStep ==
    ASSUME IInv, NEW w \in Worker, NEW t \in Token, NEW r \in responses, NEW a \in Account,
           NEW q \in Time, FinishRegistration(w, t, r, a, q)
    PROVE  IInv'
<1>0. PICK job : job = RegistrationJob(ceremonies[t], t, r, a)
  OBVIOUS
<1>1. r \in Response
  BY DEF IInv, TypeOK
<1>2. job # None =>
        /\ job = [op |-> "register", account |-> a, response |-> r, by |-> a]
        /\ ceremonies[t].kind = "registration" /\ ceremonies[t].account = a
        /\ r.ceremony = t
  BY <1>0 DEF RegistrationJob, VerifyAttestation
<1>3. job \in Job \cup {None}
  BY <1>1, <1>2 DEF Job
<1>4. /\ ceremonies[t] # None /\ ~ ceremonies[t].consumed
      /\ ceremonies' = [ceremonies EXCEPT ![t].consumed = TRUE]
      /\ work' = [work EXCEPT ![w] = job]
      /\ UNCHANGED <<clock, accounts, credentials, sessions, device, responses>>
  BY <1>0 DEF FinishRegistration, Consumable, ConsumeCeremony, Continue
<1>5. QED
  BY <1>2, <1>3, <1>4, ConsumeStep

LEMMA FinishAuthenticationStep ==
    ASSUME IInv, NEW w \in Worker, NEW t \in Token, NEW r \in responses, NEW q \in Time,
           FinishAuthentication(w, t, r, q)
    PROVE  IInv'
<1>0. PICK job : job = AuthenticationJob(ceremonies[t], t, r)
  OBVIOUS
<1>1. r \in Response
  BY DEF IInv, TypeOK
<1>2. /\ ceremonies[t] # None /\ ~ ceremonies[t].consumed
      /\ ceremonies' = [ceremonies EXCEPT ![t].consumed = TRUE]
      /\ work' = [work EXCEPT ![w] = job]
      /\ UNCHANGED <<clock, accounts, credentials, sessions, device, responses>>
  BY <1>0 DEF FinishAuthentication, Consumable, ConsumeCeremony, Continue
<1>3. ceremonies[t].account \in Account
  BY <1>2, CeremonyFields DEF IInv, TypeOK
<1>4. job # None =>
        /\ job = [op |-> "read", account |-> ceremonies[t].account, response |-> r]
        /\ ceremonies[t].kind = "authentication"
        /\ r.ceremony = t
  BY <1>0 DEF AuthenticationJob, VerifyAssertion
<1>5. job \in Job \cup {None}
  BY <1>1, <1>3, <1>4 DEF Job
<1>6. QED
  BY <1>2, <1>4, <1>5, ConsumeStep

LEMMA RegisterPasskeyStep == ASSUME IInv, NEW w \in Worker, RegisterPasskey(w) PROVE IInv'
<1>0. PICK j, n : j = work[w] /\ n = work[w].response.credential
  OBVIOUS
<1>1. j # None /\ j \in Job /\ j.op = "register" /\ JobSound(j) /\ Holds(j)
  BY <1>0 DEF IInv, TypeOK, JobsSound, RegisterPasskey, At, Holds
<1>2. /\ j.account \in Account /\ j.response \in Response /\ j.by \in Account
      /\ j.response.ceremony \in Token /\ n \in Credential
  BY <1>0, <1>1, JobFields, ResponseFields
<1>3. Consumed(j.response.ceremony, j.account, "registration") /\ j.by = j.account
  BY <1>1 DEF JobSound
<1>4. PICK row : row = [account |-> j.account, counter |-> 0,
                        ceremony |-> j.response.ceremony, by |-> j.by]
  OBVIOUS
<1>5. /\ row \in CredentialRow /\ row # None
      /\ row.account = j.account /\ row.counter = 0 /\ row.by = j.account
      /\ row.ceremony = j.response.ceremony
  BY <1>2, <1>3, <1>4, Numbers, Nones DEF CredentialRow
<1>6. /\ credentials[n] = None
      /\ credentials' = [credentials EXCEPT ![n] = row]
      /\ work' = [work EXCEPT ![w] = None]
      /\ UNCHANGED <<clock, accounts, ceremonies, sessions, device, responses>>
  BY <1>0, <1>4 DEF RegisterPasskey, Continue
<1>7. /\ credentials'[n] = row
      /\ \A c \in Credential \ {n} : credentials'[c] = credentials[c]
      /\ work'[w] = None
      /\ \A v \in Worker \ {w} : work'[v] = work[v]
  BY <1>2, <1>6 DEF IInv, TypeOK
<1>8. TypeOK'
  BY <1>5, <1>6 DEF IInv, TypeOK
<1>9. \A c \in Credential : device[c] \in Nat
  BY Numbers DEF IInv, TypeOK
<1>10. Grows
  <2>1. \A c \in Credential : device[c] <= device'[c]
    BY <1>6, <1>9
  <2>2. QED
    BY <2>1, <1>6, <1>7 DEF Grows
<1>11. JobsSound'
  BY <1>7, <1>8, <1>10, JobsSoundNext
\* Neither another request nor another passkey holds this ceremony.
<1>12. /\ \A v \in Worker \ {w} : (work[v] # None /\ Holds(work[v])) =>
            work[v].response.ceremony # j.response.ceremony
       /\ \A c \in Credential : credentials[c] # None =>
            credentials[c].ceremony # j.response.ceremony
  BY <1>0, <1>1 DEF IInv, OneHolder
<1>13. OneHolder'
  <2> SUFFICES ASSUME NEW u \in Worker, work'[u] # None, Holds(work'[u])
               PROVE  LET x == work'[u].response.ceremony IN
                        /\ \A v \in Worker \ {u} :
                             (work'[v] # None /\ Holds(work'[v])) =>
                               work'[v].response.ceremony # x
                        /\ \A s \in Family : sessions'[s] # None =>
                             sessions'[s].ceremony # x
                        /\ \A c \in Credential : credentials'[c] # None =>
                             credentials'[c].ceremony # x
    BY DEF OneHolder, Holds
  <2>1. u # w /\ work'[u] = work[u]
    BY <1>7
  <2>2. QED
    BY <2>1, <1>5, <1>6, <1>7, <1>12 DEF IInv, OneHolder
<1>14. CountersBehind'
  <2>1. \A c \in Credential : credentials'[c] # None => credentials'[c].counter <= device[c]
    BY <1>5, <1>7, <1>9 DEF IInv, CountersBehind
  <2>2. QED
    BY <2>1, <1>6 DEF IInv, CountersBehind, Behind
<1>15. CredentialsSound'
  BY <1>3, <1>5, <1>6, <1>7 DEF IInv, CredentialsSound, Consumed
<1>16. RegisteredBySelf'
  <2> SUFFICES ASSUME NEW c \in Credential, credentials'[c] # None
               PROVE  /\ credentials'[c].by = credentials'[c].account
                      /\ ceremonies'[credentials'[c].ceremony].account
                           = credentials'[c].account
                      /\ ceremonies'[credentials'[c].ceremony].kind = "registration"
                      /\ \A d \in Credential \ {c} : credentials'[d] # None =>
                           credentials'[d].ceremony # credentials'[c].ceremony
    BY DEF RegisteredBySelf
  <2>1. CASE c = n
    BY <2>1, <1>3, <1>5, <1>6, <1>7, <1>12 DEF Consumed
  <2>2. CASE c # n
    BY <2>2, <1>5, <1>6, <1>7, <1>12 DEF IInv, RegisteredBySelf
  <2>3. QED
    BY <2>1, <2>2
<1>17. QED
  BY <1>6, <1>8, <1>10, <1>11, <1>13, <1>14, <1>15, <1>16, SessionsKept, ResponsesKept
     DEF IInv

LEMMA ReadPasskeysStep == ASSUME IInv, NEW w \in Worker, ReadPasskeys(w) PROVE IInv'
<1>0. PICK j, n : j = work[w] /\ n = work[w].response.credential
  OBVIOUS
<1>1. j # None /\ j \in Job /\ j.op = "read" /\ JobSound(j) /\ Holds(j)
  BY <1>0 DEF IInv, TypeOK, JobsSound, ReadPasskeys, At, Holds
<1>2. /\ j.account \in Account /\ j.response \in Response /\ n \in Credential
      /\ j.response.counter \in Counter /\ j.response.counter \in Nat
  BY <1>0, <1>1, JobFields, ResponseFields, Numbers
<1>3. credentials[n] # None
  BY <1>0, <1>2 DEF ReadPasskeys, ActivePasskeys
<1>4. credentials[n].counter \in Counter /\ credentials[n].counter \in Nat
  BY <1>2, <1>3, CredentialFields, Numbers DEF IInv, TypeOK
<1>5. PICK counter, job :
         /\ counter = UpdatedCounter(credentials[n].counter, j.response.counter)
         /\ job = [op |-> "update", account |-> j.account, response |-> j.response,
                   counter |-> counter]
  OBVIOUS
<1>6. work' = [work EXCEPT ![w] = job]
  BY <1>0, <1>2, <1>3, <1>5 DEF ReadPasskeys, ActivePasskeys, Continue
<1>7. job \in Job /\ job.response.ceremony = j.response.ceremony
  BY <1>2, <1>4, <1>5 DEF Job, UpdatedCounter
\* The larger of two counters, both of them not ahead of the authenticator.
<1>8. counter <= device[n]
  BY <1>0, <1>1, <1>3, <1>5, <1>2 DEF IInv, CountersBehind, JobSound, UpdatedCounter
<1>9. JobSound(job)
  BY <1>0, <1>1, <1>5, <1>8 DEF JobSound
<1>10. QED
  BY <1>0, <1>1, <1>6, <1>7, <1>9, QuietWork DEF ReadPasskeys

LEMMA UpdatePasskeyStep == ASSUME IInv, NEW w \in Worker, UpdatePasskey(w) PROVE IInv'
<1>0. PICK j, n : j = work[w] /\ n = work[w].response.credential
  OBVIOUS
<1>1. j # None /\ j \in Job /\ j.op = "update" /\ JobSound(j) /\ Holds(j)
  BY <1>0 DEF IInv, TypeOK, JobsSound, UpdatePasskey, At, Holds
<1>2. /\ j.account \in Account /\ j.response \in Response /\ n \in Credential
      /\ j.counter \in Counter
  BY <1>0, <1>1, JobFields, ResponseFields
<1>3. PICK job : job = [op |-> "issue", account |-> j.account, response |-> j.response]
  OBVIOUS
<1>4. job \in Job /\ job # None /\ Holds(job)
  BY <1>2, <1>3, Nones DEF Job, Holds
<1>5. /\ credentials[n] # None /\ credentials[n].account = j.account
      /\ credentials' = [credentials EXCEPT ![n].counter = j.counter]
      /\ work' = [work EXCEPT ![w] = job]
      /\ UNCHANGED <<clock, accounts, ceremonies, sessions, device, responses>>
  BY <1>0, <1>3 DEF UpdatePasskey, Continue
<1>6. /\ credentials'[n] \in CredentialRow
      /\ credentials'[n].counter = j.counter
      /\ credentials'[n].account = credentials[n].account
      /\ credentials'[n].ceremony = credentials[n].ceremony
      /\ credentials'[n].by = credentials[n].by
      /\ \A c \in Credential \ {n} : credentials'[c] = credentials[c]
      /\ work'[w] = job
      /\ \A v \in Worker \ {w} : work'[v] = work[v]
  <2>1. credentials[n] \in CredentialRow
    BY <1>2, <1>5 DEF IInv, TypeOK
  <2>2. credentials'[n] = [credentials[n] EXCEPT !.counter = j.counter]
    BY <1>2, <1>5 DEF IInv, TypeOK
  <2>3. QED
    BY <2>1, <2>2, <1>2, <1>5 DEF IInv, TypeOK, CredentialRow
<1>7. TypeOK'
  <2>1. credentials' \in [Credential -> CredentialRow \cup {None}]
    BY <1>5, <1>6 DEF IInv, TypeOK
  <2>2. work' \in [Worker -> Job \cup {None}]
    BY <1>4, <1>5 DEF IInv, TypeOK
  <2>3. QED
    BY <2>1, <2>2, <1>5 DEF IInv, TypeOK
<1>8. Grows /\ NoNewCredential
  <2>1. \A c \in Credential : device[c] \in Nat
    BY Numbers DEF IInv, TypeOK
  <2>2. \A c \in Credential : device[c] <= device'[c]
    BY <2>1, <1>5
  <2>3. credentials'[n] # None
    BY <1>6, Nones
  <2>4. QED
    BY <2>2, <2>3, <1>5, <1>6 DEF Grows, NoNewCredential
<1>9. JobsSound'
  <2>1. Owned(n, j.account)'
    BY <1>5, <1>6, Nones DEF Owned
  <2>2. JobSound(job)'
    BY <2>1, <1>0, <1>1, <1>3, <1>5 DEF JobSound, Consumed
  <2>3. JobSound(work[w])'
    BY <2>2, <1>6 DEF JobSound, Behind, Consumed, Owned
  <2>4. QED
    BY <2>3, <1>6, <1>7, <1>8, JobsSoundNext
<1>10. OneHolder'
  BY <1>0, <1>1, <1>3, <1>5, <1>6, <1>8, HolderKept
<1>11. CountersBehind'
  <2>1. j.counter <= device[n]
    BY <1>0, <1>1 DEF JobSound
  <2>2. \A c \in Credential : credentials'[c] # None => credentials'[c].counter <= device[c]
    BY <2>1, <1>6 DEF IInv, CountersBehind
  <2>3. QED
    BY <2>2, <1>5 DEF IInv, CountersBehind, Behind
<1>12. QED
  BY <1>5, <1>7, <1>8, <1>9, <1>10, <1>11, CredentialsKept, SessionsKept, ResponsesKept
     DEF IInv

LEMMA IssueBrowserSessionStep ==
    ASSUME IInv, NEW w \in Worker, NEW s \in Family, IssueBrowserSession(w, s) PROVE IInv'
<1>0. PICK j : j = work[w]
  OBVIOUS
<1>1. j # None /\ j \in Job /\ j.op = "issue" /\ JobSound(j) /\ Holds(j)
  BY <1>0 DEF IInv, TypeOK, JobsSound, IssueBrowserSession, At, Holds
<1>2. /\ j.account \in Account /\ j.response \in Response
      /\ j.response.ceremony \in Token /\ j.response.credential \in Credential
  BY <1>1, JobFields, ResponseFields
<1>3. /\ Consumed(j.response.ceremony, j.account, "authentication")
      /\ j.response \in responses /\ Owned(j.response.credential, j.account)
  BY <1>1 DEF JobSound
<1>4. PICK row : row = [account |-> j.account, ceremony |-> j.response.ceremony,
                        credential |-> j.response.credential]
  OBVIOUS
<1>5. /\ row \in SessionRow /\ row.account = j.account
      /\ row.ceremony = j.response.ceremony /\ row.credential = j.response.credential
  BY <1>2, <1>4 DEF SessionRow
<1>6. /\ sessions[s] = None
      /\ sessions' = [sessions EXCEPT ![s] = row]
      /\ work' = [work EXCEPT ![w] = None]
      /\ UNCHANGED <<clock, accounts, ceremonies, credentials, device, responses>>
  BY <1>0, <1>4 DEF IssueBrowserSession, Continue
<1>7. /\ sessions'[s] = row
      /\ \A z \in Family \ {s} : sessions'[z] = sessions[z]
      /\ work'[w] = None
      /\ \A v \in Worker \ {w} : work'[v] = work[v]
  BY <1>6 DEF IInv, TypeOK
<1>8. TypeOK'
  BY <1>5, <1>6 DEF IInv, TypeOK
<1>9. Grows /\ NoNewCredential
  BY <1>6, Unmoved
<1>10. JobsSound'
  BY <1>7, <1>8, <1>9, JobsSoundNext
\* Neither another request nor another session holds this ceremony.
<1>11. /\ \A v \in Worker \ {w} : (work[v] # None /\ Holds(work[v])) =>
            work[v].response.ceremony # j.response.ceremony
       /\ \A z \in Family : sessions[z] # None =>
            sessions[z].ceremony # j.response.ceremony
  BY <1>0, <1>1 DEF IInv, OneHolder
<1>12. OneHolder'
  <2> SUFFICES ASSUME NEW u \in Worker, work'[u] # None, Holds(work'[u])
               PROVE  LET x == work'[u].response.ceremony IN
                        /\ \A v \in Worker \ {u} :
                             (work'[v] # None /\ Holds(work'[v])) =>
                               work'[v].response.ceremony # x
                        /\ \A z \in Family : sessions'[z] # None =>
                             sessions'[z].ceremony # x
                        /\ \A c \in Credential : credentials'[c] # None =>
                             credentials'[c].ceremony # x
    BY DEF OneHolder, Holds
  <2>1. u # w /\ work'[u] = work[u]
    BY <1>7
  <2>2. QED
    BY <2>1, <1>5, <1>6, <1>7, <1>11 DEF IInv, OneHolder
<1>13. CountersBehind'
  BY <1>6 DEF IInv, CountersBehind, Behind
<1>14. SessionsSound'
  BY <1>3, <1>5, <1>6, <1>7 DEF IInv, SessionsSound, Consumed, Owned
<1>15. AssertedSession'
  <2> SUFFICES ASSUME NEW z \in Family, sessions'[z] # None
               PROVE  LET x == sessions'[z] IN
                        /\ credentials'[x.credential].account = x.account
                        /\ ceremonies'[x.ceremony].account = x.account
                        /\ ceremonies'[x.ceremony].kind = "authentication"
                        /\ \E r \in responses' :
                             r.ceremony = x.ceremony /\ r.credential = x.credential
                        /\ \A y \in Family \ {z} :
                             sessions'[y] # None => sessions'[y].ceremony # x.ceremony
    BY DEF AssertedSession
  <2>1. CASE z = s
    BY <2>1, <1>3, <1>5, <1>6, <1>7, <1>11 DEF Consumed, Owned
  <2>2. CASE z # s
    BY <2>2, <1>5, <1>6, <1>7, <1>11 DEF IInv, AssertedSession
  <2>3. QED
    BY <2>1, <2>2
<1>16. QED
  BY <1>6, <1>8, <1>9, <1>10, <1>12, <1>13, <1>14, <1>15, CredentialsKept, ResponsesKept
     DEF IInv

-----------------------------------------------------------------------------
(* The theorems. *)

LEMMA Inductive == IInv /\ [Next]_vars => IInv'
<1> SUFFICES ASSUME IInv, [Next]_vars PROVE IInv'
  OBVIOUS
<1>1. CASE UNCHANGED vars
  <2>1. UNCHANGED <<clock, accounts, ceremonies, credentials, sessions, device, responses,
                    work>>
    BY <1>1 DEF vars
  <2>2. TypeOK'
    BY <2>1 DEF IInv, TypeOK
  <2>3. JobsSound'
    BY <2>1, <2>2, Unmoved, JobsKept
  <2>4. OneHolder'
    BY <2>1 DEF IInv, OneHolder, Holds
  <2>5. QED
    BY <2>1, <2>2, <2>3, <2>4, QuietStep
<1>2. CASE Next
  BY <1>2, TickStep, SetStateStep, MakeCredentialStep, SignChallengeStep, AbandonStep,
     BeginRegistrationStep, BeginAuthenticationStep, CreateWebauthnCeremonyStep,
     FinishRegistrationStep, FinishAuthenticationStep, RegisterPasskeyStep,
     ReadPasskeysStep, UpdatePasskeyStep, IssueBrowserSessionStep DEF Next
<1>3. QED
  BY <1>1, <1>2

LEMMA Invariance == Spec => []IInv
  BY IInvInit, Inductive, PTL DEF Spec

\* The tables and the requests hold only values of their types; in particular no
\* counter passes what an authenticator can have signed.
THEOREM TypeCorrect == Spec => []TypeOK
<1>1. IInv => TypeOK
  BY DEF IInv
<1>2. QED
  BY <1>1, Invariance, PTL

\* finish_authentication opens a session only for the account of the passkey that
\* signed its ceremony's challenge, and one for a ceremony, however requests repeat it.
THEOREM AssertedSafe == Spec => []AssertedSession
<1>1. IInv => AssertedSession
  BY DEF IInv
<1>2. QED
  BY <1>1, Invariance, PTL

\* finish_registration adds a passkey only for the signed-in account that began the
\* registration, and one for each, for any number of authenticators.
THEOREM RegisteredSafe == Spec => []RegisteredBySelf
<1>1. IInv => RegisteredBySelf
  BY DEF IInv
<1>2. QED
  BY <1>1, Invariance, PTL

\* Whatever order overlapping logins write their counters back in, a genuine
\* authenticator is never taken for a clone.
THEOREM GenuineSafe == Spec => []GenuineIsAccepted
<1>1. IInv => GenuineIsAccepted
  BY DEF IInv
<1>2. QED
  BY <1>1, Invariance, PTL
=============================================================================
