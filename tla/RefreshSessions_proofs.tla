------------------------ MODULE RefreshSessions_proofs ------------------------
(***************************************************************************)
(* RefreshSessions: every safety property, for any number of accounts,     *)
(* families, tokens and concurrent requests, and any lifetimes.            *)
(*                                                                         *)
(* The argument: rows come in pairs and point at existing families         *)
(* (RowsSound), so a fresh family has no credentials and a fresh token no  *)
(* predecessor, which keeps the credentials of a family one chain          *)
(* (OneChain).  An access row that is not revoked belongs to the current   *)
(* token of a family that is not revoked (LiveIsCurrent): rotation and     *)
(* revocation both clear the family first.  JobsSound relates what a       *)
(* request carries to the clock, for types and times.                      *)
(***************************************************************************)
EXTENDS RefreshSessions, TLAPS

\* The two kinds of rows as records, without the check on their times.
LEMMA CredentialFields ==
    \A row \in CredentialRow :
        /\ row.family \in Family /\ row.issued_at \in Time /\ row.expires_at \in Later
        /\ row.replaced_by \in Token \cup {None}
        /\ row.expires_at > row.issued_at
  BY DEF CredentialRow

LEMMA NoneIsNoRow ==
    /\ None \notin FamilyRow /\ None \notin CredentialRow
    /\ None \notin SessionRow /\ None \notin Job /\ None \notin Token
  BY NoneAssumption

LEMMA Times ==
    /\ Time \subseteq Nat /\ Later \subseteq Nat
    /\ \A now \in Time : RefreshExpiry(now) \in Later /\ AccessExpiry(now) \in Later
  BY MaxClockAssumption, LifetimeAssumption DEF Time, Later, RefreshExpiry, AccessExpiry

\* What a job of each kind carries.
LEMMA JobFields ==
    ASSUME NEW job \in Job
    PROVE  /\ job.now \in Time
           /\ job.op \in {"issue", "insert", "rotate"}
           /\ job.op \in {"issue", "insert"} => job.account \in Account
           /\ job.op = "insert" => job.issued_at \in Time
           /\ job.op = "rotate" => job.token \in Token
  BY DEF Job

\* A new credential and a new session are rows.
LEMMA NewRows ==
    ASSUME NEW f \in Family, NEW q \in Time, NEW now \in Time, ValidExpiry(now, q)
    PROVE  /\ NewCredential(f, q, now) \in CredentialRow
           /\ NewSession(f, now) \in SessionRow
  BY Times DEF NewCredential, NewSession, CredentialRow, SessionRow, ValidExpiry

\* Revoking the sessions of a family changes nothing but their mark.
LEMMA RevokedSessionsFacts ==
    ASSUME TypeOK, NEW f \in Family
    PROVE  /\ RevokedSessions(f) \in [Token -> SessionRow \cup {None}]
           /\ \A t \in Token :
                /\ RevokedSessions(f)[t] = None <=> sessions[t] = None
                /\ sessions[t] # None =>
                     /\ RevokedSessions(f)[t].family = sessions[t].family
                     /\ sessions[t].family = f => RevokedSessions(f)[t].revoked
                     /\ sessions[t].family # f => RevokedSessions(f)[t] = sessions[t]
                     /\ sessions[t].revoked => RevokedSessions(f)[t] = sessions[t]
<1>1. \A t \in Token : sessions[t] # None =>
         /\ sessions[t] \in SessionRow
         /\ [sessions[t] EXCEPT !.revoked = TRUE] \in SessionRow
         /\ [sessions[t] EXCEPT !.revoked = TRUE].revoked
         /\ [sessions[t] EXCEPT !.revoked = TRUE].family = sessions[t].family
         /\ sessions[t].revoked => [sessions[t] EXCEPT !.revoked = TRUE] = sessions[t]
  BY DEF TypeOK, SessionRow
<1>2. None \notin SessionRow
  BY NoneAssumption
<1>3. \A t \in Token : sessions[t] = None \/ sessions[t] \in SessionRow
  BY DEF TypeOK
<1>4. QED
  BY <1>1, <1>2, <1>3 DEF RevokedSessions

-----------------------------------------------------------------------------
(* The inductive invariant. *)

IInv ==
    /\ TypeOK
    /\ RowsSound
    /\ LiveIsCurrent
    /\ ReplayedSound
    /\ JobsSound
    /\ OneChain
    /\ ReuseRevokes
    /\ RotatedInTime

LEMMA IInvInit == Init => IInv
<1> SUFFICES ASSUME Init PROVE IInv
  OBVIOUS
<1>1. TypeOK
  BY MaxClockAssumption DEF Init, TypeOK, Time
<1>2. RowsSound /\ LiveIsCurrent /\ ReplayedSound /\ JobsSound
  BY DEF Init, RowsSound, LiveIsCurrent, ReplayedSound, JobsSound
<1>3. OneChain /\ ReuseRevokes /\ RotatedInTime
  BY DEF Init, OneChain, ReuseRevokes, RotatedInTime
<1>4. QED
  BY <1>1, <1>2, <1>3 DEF IInv

-----------------------------------------------------------------------------
(* Steps that leave the tables alone. *)

LEMMA QuietStep ==
    ASSUME IInv, UNCHANGED <<tables, replayed>>,
           clock' \in Time, clock <= clock',
           active' \in [Account -> BOOLEAN],
           work' \in [Worker -> Job \cup {None}], JobsSound'
    PROVE  IInv'
<1> USE DEF tables
<1>1. TypeOK'
  BY DEF IInv, TypeOK
<1>2. RowsSound'
  <2>1. \A t \in Token : credentials[t] # None => credentials[t].issued_at \in Nat
    BY CredentialFields, Times DEF IInv, TypeOK
  <2>2. clock \in Nat /\ clock' \in Nat
    BY Times DEF IInv, TypeOK
  <2>3. QED
    BY <2>1, <2>2 DEF IInv, RowsSound
<1>3. LiveIsCurrent' /\ ReplayedSound'
  BY DEF IInv, LiveIsCurrent, ReplayedSound, Revoked, Consumed
<1>4. OneChain' /\ ReuseRevokes' /\ RotatedInTime'
  BY DEF IInv, OneChain, ReuseRevokes, RotatedInTime, Current, Revoked, Consumed
<1>5. QED
  BY <1>1, <1>2, <1>3, <1>4 DEF IInv

\* A worker takes up a sound job, or drops the one it has.
LEMMA QuietWork ==
    ASSUME IInv, UNCHANGED <<clock, active, tables, replayed>>, NEW w \in Worker,
           NEW job \in Job \cup {None}, job # None => JobSound(job),
           work' = [work EXCEPT ![w] = job]
    PROVE  IInv'
<1> USE DEF tables
<1>1. work' \in [Worker -> Job \cup {None}]
  BY DEF IInv, TypeOK
<1>2. JobsSound'
  BY DEF IInv, TypeOK, JobsSound, JobSound
<1>3. clock <= clock'
  BY Times DEF IInv, TypeOK
<1>4. QED
  BY <1>1, <1>2, <1>3, QuietStep DEF IInv, TypeOK

LEMMA TickStep == ASSUME IInv, Tick PROVE IInv'
<1>1. clock \in Nat /\ clock' = clock + 1 /\ clock' \in Time
  BY MaxClockAssumption DEF IInv, TypeOK, Tick, Time
<1>2. JobsSound'
  <2> SUFFICES ASSUME NEW w \in Worker, work[w] # None PROVE JobSound(work[w])'
    BY DEF JobsSound, Tick
  <2>1. JobSound(work[w]) /\ work[w] \in Job
    BY DEF IInv, JobsSound, TypeOK
  <2>2. /\ work[w].now \in Nat
        /\ work[w].op = "insert" => work[w].issued_at \in Nat
    BY <2>1, JobFields, Times
  <2>3. QED
    BY <1>1, <2>1, <2>2 DEF JobSound, Tick, tables
<1>3. QED
  BY <1>1, <1>2, QuietStep DEF IInv, TypeOK, Tick

LEMMA SetActiveStep == ASSUME IInv, NEW a \in Account, SetActive(a) PROVE IInv'
<1>1. active' \in [Account -> BOOLEAN]
  BY DEF IInv, TypeOK, SetActive
<1>2. JobsSound'
  BY DEF IInv, JobsSound, JobSound, SetActive, tables
<1>3. clock <= clock' /\ clock' \in Time /\ work' \in [Worker -> Job \cup {None}]
  BY Times DEF IInv, TypeOK, SetActive
<1>4. QED
  BY <1>1, <1>2, <1>3, QuietStep DEF SetActive

LEMMA AbandonStep == ASSUME IInv, NEW w \in Worker, Abandon(w) PROVE IInv'
  BY QuietWork DEF Abandon

LEMMA BeginIssueStep ==
    ASSUME IInv, NEW w \in Worker, NEW a \in Account, BeginIssue(w, a) PROVE IInv'
<1> DEFINE job == [op |-> "issue", account |-> a, now |-> clock]
<1>1. clock \in Time /\ clock <= clock
  BY Times DEF IInv, TypeOK
<1>2. job \in Job /\ JobSound(job)
  BY <1>1 DEF Job, JobSound
<1> HIDE DEF job
<1>3. work' = [work EXCEPT ![w] = job]
  BY DEF BeginIssue, job
<1>4. QED
  BY <1>2, <1>3, QuietWork DEF BeginIssue

LEMMA InsertFamilyStep ==
    ASSUME IInv, NEW w \in Worker, InsertFamily(w) PROVE IInv'
<1> DEFINE job == [op |-> "insert", account |-> work[w].account,
                   now |-> work[w].now, issued_at |-> clock]
<1>1. clock \in Time /\ clock <= clock
  BY Times DEF IInv, TypeOK
<1>2. work[w] \in Job /\ JobSound(work[w]) /\ work[w].op = "issue"
  BY DEF IInv, TypeOK, JobsSound, InsertFamily
<1>3. work[w].account \in Account /\ work[w].now \in Time
  BY <1>2, JobFields
<1>4. job \in Job /\ JobSound(job)
  BY <1>1, <1>2, <1>3 DEF Job, JobSound, InsertFamily
<1>5. work' = [work EXCEPT ![w] = job]
  BY DEF InsertFamily, IInv, TypeOK
<1> HIDE DEF job
<1>6. QED
  BY <1>4, <1>5, QuietWork DEF InsertFamily

LEMMA BeginRotateStep ==
    ASSUME IInv, NEW w \in Worker, NEW t \in Token, BeginRotate(w, t) PROVE IInv'
<1> DEFINE job == [op |-> "rotate", token |-> t, now |-> clock]
<1>1. clock \in Time /\ clock <= clock
  BY Times DEF IInv, TypeOK
<1>2. job \in Job
  BY <1>1 DEF Job
<1>3. credentials[t] # None /\ credentials[t].issued_at <= clock
  BY DEF BeginRotate, IInv, RowsSound
<1>4. JobSound(job)
  BY <1>1, <1>3 DEF JobSound
<1>5. work' = [work EXCEPT ![w] = job]
  BY DEF BeginRotate
<1> HIDE DEF job
<1>6. QED
  BY <1>2, <1>4, <1>5, QuietWork DEF BeginRotate

-----------------------------------------------------------------------------
(* Steps that write. *)

\* Other requests do not notice: their tokens keep their rows and times.
LEMMA JobsKept ==
    ASSUME IInv, clock' = clock,
           \A v \in Worker : work'[v] \in {work[v], None},
           \A t \in Token : credentials[t] # None =>
             credentials'[t] # None /\ credentials'[t].issued_at = credentials[t].issued_at
    PROVE  JobsSound'
<1> SUFFICES ASSUME NEW v \in Worker, work'[v] # None PROVE JobSound(work[v])' /\ work'[v] = work[v]
  BY DEF JobsSound
<1>1. work'[v] = work[v] /\ work[v] # None
  BY DEF IInv, TypeOK
<1>2. JobSound(work[v]) /\ work[v] \in Job
  BY <1>1 DEF IInv, JobsSound, TypeOK
<1>3. work[v].op = "rotate" => work[v].token \in Token
  BY <1>2, JobFields
<1>4. QED
  BY <1>1, <1>2, <1>3 DEF JobSound, ValidExpiry

LEMMA CommitIssueStep ==
    ASSUME IInv, NEW w \in Worker, NEW f \in Family, NEW t \in Token,
           CommitIssue(w, f, t)
    PROVE  IInv'
<1> DEFINE q == work[w].issued_at
           now == work[w].now
<1>1. work[w] \in Job /\ work[w].op = "insert" /\ JobSound(work[w])
  BY DEF IInv, TypeOK, JobsSound, CommitIssue
<1>2. /\ q \in Time /\ now \in Time /\ work[w].account \in Account
      /\ ValidExpiry(now, q) /\ q <= clock
  BY <1>1, JobFields DEF JobSound
<1>3. NewCredential(f, q, now) \in CredentialRow /\ NewSession(f, now) \in SessionRow
  BY <1>2, NewRows
<1>4. [account |-> work[w].account, revoke_reason |-> None] \in FamilyRow
  BY <1>2 DEF FamilyRow
<1>5. TypeOK'
  BY <1>3, <1>4 DEF IInv, TypeOK, CommitIssue
<1>6. /\ families[f] = None /\ credentials[t] = None /\ sessions[t] = None
      /\ families'[f] # None /\ families'[f].revoke_reason = None
      /\ \A g \in Family \ {f} : families'[g] = families[g]
  BY <1>4, NoneAssumption DEF CommitIssue, Unused, IInv, TypeOK
<1>7. /\ credentials'[t] # None /\ credentials'[t].family = f
      /\ credentials'[t].issued_at = q /\ credentials'[t].replaced_by = None
      /\ \A u \in Token \ {t} : credentials'[u] = credentials[u]
  BY <1>3, NoneAssumption DEF CommitIssue, IInv, TypeOK, NewCredential
<1>8. /\ sessions'[t] # None /\ sessions'[t].family = f
      /\ \A u \in Token \ {t} : sessions'[u] = sessions[u]
  BY <1>3, NoneAssumption DEF CommitIssue, IInv, TypeOK, NewSession
<1>9. /\ clock' = clock /\ replayed' = replayed
      /\ \A v \in Worker : work'[v] \in {work[v], None}
  BY DEF CommitIssue, IInv, TypeOK
<1>10. \A u \in Token : credentials[u] # None =>
          /\ credentials[u].family \in Family \ {f}
          /\ families'[credentials[u].family] = families[credentials[u].family]
          /\ u # t
  BY <1>6, CredentialFields DEF IInv, TypeOK, RowsSound
<1>11. RowsSound'
  BY <1>2, <1>6, <1>7, <1>8, <1>9, <1>10 DEF IInv, RowsSound
<1>12. LiveIsCurrent'
  BY <1>6, <1>7, <1>8, <1>10 DEF IInv, RowsSound, LiveIsCurrent, Revoked, Consumed
<1>13. ReplayedSound'
  BY <1>7, <1>9 DEF IInv, TypeOK, ReplayedSound
<1>14. JobsSound'
  BY <1>7, <1>9, <1>10, JobsKept
<1>15. OneChain'
  <2>1. ASSUME NEW g \in Family, families'[g] # None
        PROVE  \E x \in Token : \A u \in Token : Current(g, u)' <=> u = x
    <3>1. CASE g = f
      <4>1. \A u \in Token : Current(g, u)' <=> u = t
        BY <3>1, <1>7, <1>10 DEF Current, Consumed
      <4>2. QED
        BY <4>1
    <3>2. CASE g # f
      <4>1. PICK x \in Token : \A u \in Token : Current(g, u) <=> u = x
        BY <3>2, <2>1, <1>6 DEF IInv, OneChain
      <4>2. \A u \in Token : Current(g, u)' <=> Current(g, u)
        BY <3>2, <1>6, <1>7 DEF Current, Consumed
      <4>3. QED
        BY <4>1, <4>2
    <3>3. QED
      BY <3>1, <3>2
  <2>2. ASSUME NEW x \in Token, credentials'[x] # None, Consumed(x)'
        PROVE  LET s == credentials'[x].replaced_by
               IN  /\ credentials'[s] # None
                   /\ credentials'[s].family = credentials'[x].family
                   /\ \A u \in Token :
                        (credentials'[u] # None /\ credentials'[u].replaced_by = s) => u = x
    <3>1. x # t /\ credentials'[x] = credentials[x] /\ Consumed(x)
      BY <2>2, <1>7 DEF Consumed
    <3>2. credentials[x].replaced_by \in Token
      BY <3>1, <2>2, CredentialFields DEF IInv, TypeOK, Consumed
    <3>3. credentials[x].replaced_by # t
      BY <3>1, <2>2, <1>6 DEF IInv, OneChain
    <3>4. QED
      BY <3>1, <3>2, <3>3, <2>2, <1>7, NoneAssumption DEF IInv, OneChain
  <2>3. QED
    BY <2>1, <2>2 DEF OneChain
<1>16. ReuseRevokes'
  <2>1. \A x \in replayed :
           /\ credentials'[x] = credentials[x]
           /\ families'[credentials[x].family] = families[credentials[x].family]
    BY <1>7, <1>10 DEF IInv, TypeOK, ReplayedSound
  <2>2. \A x \in replayed' : Revoked(credentials[x].family)'
    BY <2>1, <1>9 DEF IInv, ReuseRevokes, Revoked
  <2>3. \A g \in Family :
           (families'[g] # None /\ families'[g].revoke_reason = "refresh_token_reuse") =>
              \E x \in replayed' : credentials'[x].family = g
    BY <2>1, <1>6, <1>9, NoneAssumption DEF IInv, ReuseRevokes
  <2>4. QED
    BY <2>2, <2>3 DEF ReuseRevokes
<1>17. RotatedInTime'
  <2> SUFFICES ASSUME NEW x \in Token, credentials'[x] # None, Consumed(x)'
               PROVE  /\ credentials'[x].issued_at
                           <= credentials'[credentials'[x].replaced_by].issued_at
                      /\ credentials'[credentials'[x].replaced_by].issued_at
                           < credentials'[x].expires_at
    BY DEF RotatedInTime
  <2>1. credentials'[x] = credentials[x] /\ Consumed(x)
    BY <1>7 DEF Consumed
  <2>2. credentials[x].replaced_by \in Token \ {t}
    BY <2>1, <1>6, CredentialFields DEF IInv, TypeOK, Consumed, OneChain
  <2>3. QED
    BY <2>1, <2>2, <1>7 DEF IInv, RotatedInTime
<1>18. QED
  BY <1>5, <1>11, <1>12, <1>13, <1>14, <1>15, <1>16, <1>17 DEF IInv

LEMMA RotateStep ==
    ASSUME IInv, NEW w \in Worker, NEW t \in Token, NEW u \in Token, NEW q \in Time,
           Rotate(w, t, u, q)
    PROVE  IInv'
<1> DEFINE f == credentials[t].family
           now == work[w].now
<1>1. work[w] \in Job /\ work[w].op = "rotate" /\ work[w].token = t /\ JobSound(work[w])
  BY DEF IInv, TypeOK, JobsSound, Rotate, Locked
<1>2. /\ now \in Time /\ now <= q /\ q <= clock /\ ValidExpiry(now, q)
      /\ credentials[t] # None /\ credentials[t].issued_at <= now
  BY <1>1, JobFields DEF JobSound, Rotate
<1>3. /\ f \in Family /\ families[f] # None /\ ~ Revoked(f) /\ ~ Consumed(t)
      /\ credentials[t].expires_at > q
      /\ credentials[u] = None /\ sessions[u] = None /\ u # t
  BY <1>2, CredentialFields DEF IInv, TypeOK, RowsSound, Rotate, Rotatable, Unused
<1>4. NewCredential(f, q, now) \in CredentialRow /\ NewSession(f, now) \in SessionRow
  BY <1>2, <1>3, NewRows
<1>5. [credentials[t] EXCEPT !.replaced_by = u] \in CredentialRow
  BY <1>2 DEF IInv, TypeOK, CredentialRow
<1>6. /\ clock' = clock /\ replayed' = replayed /\ families' = families
      /\ \A v \in Worker : work'[v] \in {work[v], None}
  BY DEF Rotate, IInv, TypeOK
<1>7. /\ credentials' \in [Token -> CredentialRow \cup {None}]
      /\ credentials'[t] = [credentials[t] EXCEPT !.replaced_by = u]
      /\ credentials'[u] = NewCredential(f, q, now)
      /\ \A x \in Token \ {t, u} : credentials'[x] = credentials[x]
  BY <1>3, <1>4, <1>5 DEF Rotate, Successors, IInv, TypeOK
<1>8. /\ credentials'[t] # None /\ credentials'[t].family = f
      /\ credentials'[t].issued_at = credentials[t].issued_at
      /\ credentials'[t].expires_at = credentials[t].expires_at
      /\ credentials'[t].replaced_by = u
      /\ credentials'[u] # None /\ credentials'[u].family = f
      /\ credentials'[u].issued_at = q /\ credentials'[u].replaced_by = None
  BY <1>2, <1>4, <1>5, <1>7, NoneIsNoRow DEF IInv, TypeOK, CredentialRow, NewCredential
<1>9. /\ sessions' \in [Token -> SessionRow \cup {None}]
      /\ sessions'[u] = NewSession(f, now)
      /\ \A x \in Token \ {u} : sessions'[x] = RevokedSessions(f)[x]
  BY <1>3, <1>4, RevokedSessionsFacts DEF Rotate, IInv
<1>10. sessions'[u] # None /\ sessions'[u].family = f
  <2>1. sessions'[u] # None
    BY <1>4, <1>9, NoneIsNoRow
  <2>2. NewSession(f, now).family = f
    BY DEF NewSession
  <2>3. QED
    BY <2>1, <2>2, <1>9
<1>11. TypeOK'
  BY <1>6, <1>7, <1>9 DEF IInv, TypeOK, Rotate
<1>12. RowsSound'
  <2>1. \A x \in Token \ {u} :
           /\ sessions'[x] = None <=> sessions[x] = None
           /\ sessions[x] # None => sessions'[x].family = sessions[x].family
    BY <1>3, <1>9, RevokedSessionsFacts DEF IInv
  <2>2. \A x \in Token \ {u} :
           /\ credentials'[x] = None <=> credentials[x] = None
           /\ credentials[x] # None =>
                /\ credentials'[x].family = credentials[x].family
                /\ credentials'[x].issued_at = credentials[x].issued_at
    BY <1>2, <1>7, <1>8
  <2>3. QED
    BY <2>1, <2>2, <1>2, <1>3, <1>6, <1>8, <1>10 DEF IInv, RowsSound
<1>13. LiveIsCurrent'
  <2> SUFFICES ASSUME NEW x \in Token, sessions'[x] # None, ~ sessions'[x].revoked
               PROVE  /\ families'[sessions'[x].family].revoke_reason = None
                      /\ credentials'[x].replaced_by = None
    BY DEF LiveIsCurrent, Revoked, Consumed
  <2>1. CASE x = u
    BY <2>1, <1>3, <1>6, <1>8, <1>10 DEF Revoked
  <2>2. CASE x # u
    <3>1. sessions[x] # None /\ sessions[x].family # f /\ sessions'[x] = sessions[x]
      BY <2>2, <1>3, <1>9, RevokedSessionsFacts DEF IInv
    <3>2. x # t
      BY <3>1, <1>2 DEF IInv, RowsSound
    <3>3. QED
      BY <3>1, <3>2, <2>2, <1>6, <1>7 DEF IInv, LiveIsCurrent, Revoked, Consumed
  <2>3. QED
    BY <2>1, <2>2
<1>14. ReplayedSound'
  BY <1>6, <1>7, <1>8 DEF IInv, TypeOK, ReplayedSound
<1>15. JobsSound'
  <2>1. \A x \in Token : credentials[x] # None =>
           credentials'[x] # None /\ credentials'[x].issued_at = credentials[x].issued_at
    BY <1>3, <1>7, <1>8
  <2>2. QED
    BY <2>1, <1>6, JobsKept
<1>16. ASSUME NEW x \in Token, credentials'[x] # None, Consumed(x)'
       PROVE  \/ x = t
              \/ /\ x \notin {t, u} /\ credentials'[x] = credentials[x] /\ Consumed(x)
                 /\ credentials[x].replaced_by \in Token \ {u}
  <2>1. x # u
    BY <1>16, <1>8 DEF Consumed
  <2>2. ASSUME x # t
        PROVE  /\ credentials'[x] = credentials[x] /\ Consumed(x)
               /\ credentials[x].replaced_by \in Token
    BY <2>1, <2>2, <1>7, <1>16, CredentialFields DEF IInv, TypeOK, Consumed
  <2>3. x # t => credentials[x].replaced_by # u
    BY <2>2, <1>3, <1>16 DEF IInv, OneChain
  <2>4. QED
    BY <2>1, <2>2, <2>3
<1>17. OneChain'
  <2>1. ASSUME NEW g \in Family, families'[g] # None
        PROVE  \E y \in Token : \A x \in Token : Current(g, x)' <=> x = y
    <3>1. PICK y \in Token : \A x \in Token : Current(g, x) <=> x = y
      BY <2>1, <1>6 DEF IInv, OneChain
    <3>2. CASE g = f
      <4>1. y = t
        BY <3>1, <3>2, <1>2, <1>3 DEF Current
      <4>2. \A x \in Token : Current(g, x)' <=> x = u
        BY <4>1, <3>1, <3>2, <1>3, <1>7, <1>8, NoneIsNoRow DEF Current, Consumed
      <4>3. QED
        BY <4>2
    <3>3. CASE g # f
      <4>1. \A x \in Token : Current(g, x)' <=> Current(g, x)
        BY <3>3, <1>3, <1>7, <1>8 DEF Current, Consumed
      <4>2. QED
        BY <4>1, <3>1
    <3>4. QED
      BY <3>2, <3>3
  <2>2. ASSUME NEW x \in Token, credentials'[x] # None, Consumed(x)'
        PROVE  LET s == credentials'[x].replaced_by
               IN  /\ credentials'[s] # None
                   /\ credentials'[s].family = credentials'[x].family
                   /\ \A y \in Token :
                        (credentials'[y] # None /\ credentials'[y].replaced_by = s) => y = x
    <3>1. CASE x = t
      <4>1. ASSUME NEW y \in Token, credentials'[y] # None, credentials'[y].replaced_by = u
            PROVE  y = t
        <5>1. Consumed(y)'
          BY <4>1, NoneIsNoRow DEF Consumed
        <5>2. y = t \/ (credentials'[y] = credentials[y] /\ credentials[y].replaced_by # u)
          BY <4>1, <5>1, <1>16
        <5>3. QED
          BY <4>1, <5>2
      <4>2. QED
        BY <4>1, <3>1, <1>8
    <3>2. CASE x # t
      <4> DEFINE s == credentials[x].replaced_by
      <4>1. /\ x # u /\ credentials'[x] = credentials[x] /\ Consumed(x) /\ s \in Token
            /\ s # u
        BY <3>2, <2>2, <1>16
      <4>2. /\ credentials[s] # None /\ credentials[s].family = credentials[x].family
            /\ \A y \in Token :
                 (credentials[y] # None /\ credentials[y].replaced_by = s) => y = x
        BY <4>1, <2>2 DEF IInv, OneChain
      <4>3. credentials'[s] # None /\ credentials'[s].family = credentials[s].family
        BY <4>1, <4>2, <1>7, <1>8
      <4>4. ASSUME NEW y \in Token, credentials'[y] # None, credentials'[y].replaced_by = s
            PROVE  y = x
        BY <4>1, <4>2, <4>4, <1>7, <1>8, NoneIsNoRow
      <4>5. QED
        BY <4>1, <4>2, <4>3, <4>4
    <3>3. QED
      BY <3>1, <3>2
  <2>3. QED
    BY <2>1, <2>2 DEF OneChain
<1>18. ReuseRevokes'
  <2>1. \A x \in replayed : credentials'[x].family = credentials[x].family
    BY <1>3, <1>7, <1>8 DEF IInv, TypeOK, ReplayedSound
  <2>2. QED
    BY <2>1, <1>6 DEF IInv, ReuseRevokes, Revoked
<1>19. RotatedInTime'
  <2> SUFFICES ASSUME NEW x \in Token, credentials'[x] # None, Consumed(x)'
               PROVE  /\ credentials'[x].issued_at
                           <= credentials'[credentials'[x].replaced_by].issued_at
                      /\ credentials'[credentials'[x].replaced_by].issued_at
                           < credentials'[x].expires_at
    BY DEF RotatedInTime
  <2>1. CASE x = t
    <3>1. /\ q \in Nat /\ now \in Nat /\ credentials[t].issued_at \in Nat
          /\ credentials[t].expires_at \in Nat
      BY <1>2, CredentialFields, Times DEF IInv, TypeOK
    <3>2. QED
      BY <2>1, <3>1, <1>2, <1>3, <1>8
  <2>2. CASE x # t
    <3> DEFINE s == credentials[x].replaced_by
    <3>1. credentials'[x] = credentials[x] /\ Consumed(x) /\ s \in Token /\ s # u
      BY <2>2, <1>16
    <3>2. credentials'[s].issued_at = credentials[s].issued_at
      BY <3>1, <1>7, <1>8
    <3>3. QED
      BY <3>1, <3>2 DEF IInv, RotatedInTime
  <2>3. QED
    BY <2>1, <2>2
<1>20. QED
  BY <1>11, <1>12, <1>13, <1>14, <1>15, <1>17, <1>18, <1>19 DEF IInv

\* Both ways a family is revoked: by reuse, and explicitly.
LEMMA RevokeStep ==
    ASSUME IInv, NEW f \in Family, families[f] # None, ~ Revoked(f),
           NEW reason \in {"refresh_token_reuse", "explicit_revocation"},
           RevokeSessionFamily(f, reason),
           UNCHANGED <<clock, active>>,
           work' \in [Worker -> Job \cup {None}],
           \A v \in Worker : work'[v] \in {work[v], None},
           NEW R \in SUBSET Token, replayed' = replayed \cup R,
           \A t \in R : credentials[t] # None /\ credentials[t].family = f,
           reason = "refresh_token_reuse" <=> R # {}
    PROVE  IInv'
<1>1. /\ families' = [families EXCEPT ![f].revoke_reason = reason]
      /\ sessions' = RevokedSessions(f) /\ credentials' = credentials
  BY DEF RevokeSessionFamily
<1>2. families[f] \in FamilyRow /\ [families[f] EXCEPT !.revoke_reason = reason] \in FamilyRow
  BY DEF IInv, TypeOK, FamilyRow
<1>3. /\ families' \in [Family -> FamilyRow \cup {None}]
      /\ families'[f] = [families[f] EXCEPT !.revoke_reason = reason]
      /\ \A g \in Family \ {f} : families'[g] = families[g]
  BY <1>1, <1>2 DEF IInv, TypeOK
<1>4. families'[f] # None
  BY <1>2, <1>3, NoneIsNoRow
<1>5. families'[f].revoke_reason = reason /\ reason # None
  BY <1>2, <1>3, NoneAssumption DEF FamilyRow
<1>6. \A t \in Token : credentials[t] # None => credentials[t].family \in Family
  BY CredentialFields DEF IInv, TypeOK
<1>7. TypeOK'
  <2>1. sessions' \in [Token -> SessionRow \cup {None}]
    BY <1>1, RevokedSessionsFacts DEF IInv
  <2>2. QED
    BY <2>1, <1>1, <1>3 DEF IInv, TypeOK
<1>8. RowsSound'
  <2>1. \A t \in Token :
           /\ sessions'[t] = None <=> sessions[t] = None
           /\ sessions[t] # None => sessions'[t].family = sessions[t].family
    BY <1>1, RevokedSessionsFacts DEF IInv
  <2>2. QED
    BY <2>1, <1>1, <1>3, <1>4, <1>6 DEF IInv, RowsSound
<1>9. LiveIsCurrent'
  <2> SUFFICES ASSUME NEW t \in Token, sessions'[t] # None, ~ sessions'[t].revoked
               PROVE  /\ families'[sessions'[t].family].revoke_reason = None
                      /\ credentials'[t].replaced_by = None
    BY DEF LiveIsCurrent, Revoked, Consumed
  <2>1. sessions[t] # None /\ sessions[t].family # f /\ sessions'[t] = sessions[t]
    BY <1>1, RevokedSessionsFacts DEF IInv
  <2>2. sessions[t].family \in Family
    BY <2>1 DEF IInv, TypeOK, SessionRow
  <2>3. QED
    BY <2>1, <2>2, <1>1, <1>3 DEF IInv, LiveIsCurrent, Revoked, Consumed
<1>10. ReplayedSound'
  BY <1>1 DEF IInv, ReplayedSound
<1>11. JobsSound'
  BY <1>1, JobsKept
<1>12. OneChain'
  <2>1. \A g \in Family : families'[g] # None => families[g] # None
    BY <1>3
  <2>2. QED
    BY <2>1, <1>1 DEF IInv, OneChain, Current, Consumed
<1>13. ReuseRevokes'
  <2>1. \A t \in replayed' : t \in Token /\ credentials[t] # None
    BY DEF IInv, TypeOK, ReplayedSound
  <2>2. \A t \in replayed' : families'[credentials'[t].family].revoke_reason # None
    BY <2>1, <1>1, <1>3, <1>5, <1>6 DEF IInv, ReuseRevokes, Revoked
  <2>3. ASSUME NEW g \in Family, families'[g] # None,
               families'[g].revoke_reason = "refresh_token_reuse"
        PROVE  \E t \in replayed' : credentials'[t].family = g
    <3>1. CASE g = f
      BY <3>1, <2>3, <1>1, <1>5
    <3>2. CASE g # f
      BY <3>2, <2>3, <1>1, <1>3 DEF IInv, ReuseRevokes
    <3>3. QED
      BY <3>1, <3>2
  <2>4. QED
    BY <2>2, <2>3 DEF ReuseRevokes, Revoked
<1>14. RotatedInTime'
  BY <1>1 DEF IInv, RotatedInTime, Consumed
<1>15. QED
  BY <1>7, <1>8, <1>9, <1>10, <1>11, <1>12, <1>13, <1>14 DEF IInv

LEMMA ReuseStep ==
    ASSUME IInv, NEW w \in Worker, NEW t \in Token, Reuse(w, t) PROVE IInv'
<1> DEFINE f == credentials[t].family
<1>1. work[w] \in Job /\ work[w].op = "rotate" /\ work[w].token = t /\ JobSound(work[w])
  BY DEF IInv, TypeOK, JobsSound, Reuse, Locked
<1>2. credentials[t] # None /\ f \in Family /\ families[f] # None
  BY <1>1, CredentialFields DEF JobSound, IInv, TypeOK, RowsSound
<1>3. /\ replayed' = replayed \cup {t} /\ UNCHANGED <<clock, active>>
      /\ work' \in [Worker -> Job \cup {None}]
      /\ \A v \in Worker : work'[v] \in {work[v], None}
  BY DEF Reuse, IInv, TypeOK
<1>4. CASE Revoked(f)
  <2>1. UNCHANGED tables
    BY <1>4 DEF Reuse
  <2>2. TypeOK'
    BY <2>1, <1>3 DEF IInv, TypeOK, tables
  <2>3. JobsSound'
    BY <2>1, <1>3, JobsKept DEF tables
  <2>4. RowsSound' /\ LiveIsCurrent' /\ OneChain' /\ RotatedInTime'
    BY <2>1, <1>3 DEF IInv, RowsSound, LiveIsCurrent, OneChain, RotatedInTime, Revoked,
       Consumed, Current, tables
  <2>5. ReplayedSound' /\ ReuseRevokes'
    BY <2>1, <1>2, <1>3, <1>4 DEF IInv, ReplayedSound, ReuseRevokes, Revoked, tables
  <2>6. QED
    BY <2>2, <2>3, <2>4, <2>5 DEF IInv
<1>5. CASE ~ Revoked(f)
  <2>1. RevokeSessionFamily(f, "refresh_token_reuse")
    BY <1>5 DEF Reuse
  <2>2. {t} \in SUBSET Token /\ {t} # {}
    OBVIOUS
  <2> HIDE DEF f
  <2>3. \A x \in {t} : credentials[x] # None /\ credentials[x].family = f
    BY <1>2 DEF f
  <2>4. QED
    BY <2>1, <2>2, <2>3, <1>2, <1>3, <1>5, RevokeStep
<1>6. QED
  BY <1>4, <1>5

LEMMA ExplicitStep ==
    ASSUME IInv, NEW a \in Account, NEW f \in Family, RevokeRefreshSessionFamily(a, f)
    PROVE  IInv'
<1>1. /\ {} \in SUBSET Token /\ replayed' = replayed \cup {} /\ UNCHANGED <<clock, active>>
      /\ work' \in [Worker -> Job \cup {None}]
      /\ \A v \in Worker : work'[v] \in {work[v], None}
  BY DEF RevokeRefreshSessionFamily, IInv, TypeOK
<1>2. QED
  BY <1>1, RevokeStep DEF RevokeRefreshSessionFamily

LEMMA IInvStep == IInv /\ [Next]_vars => IInv'
<1> SUFFICES ASSUME IInv, [Next]_vars PROVE IInv'
  OBVIOUS
<1>1. CASE UNCHANGED vars
  <2>1. /\ UNCHANGED <<tables, replayed, clock, active, work>>
        /\ clock' \in Time /\ clock <= clock' /\ active' \in [Account -> BOOLEAN]
        /\ work' \in [Worker -> Job \cup {None}]
    BY <1>1, Times DEF vars, IInv, TypeOK
  <2>2. JobsSound'
    BY <2>1 DEF IInv, JobsSound, JobSound, tables
  <2>3. QED
    BY <2>1, <2>2, QuietStep
<1>2. CASE Tick
  BY <1>2, TickStep
<1>3. ASSUME NEW a \in Account, SetActive(a) PROVE IInv'
  BY <1>3, SetActiveStep
<1>4. ASSUME NEW a \in Account, NEW f \in Family, RevokeRefreshSessionFamily(a, f)
      PROVE  IInv'
  BY <1>4, ExplicitStep
<1>5. ASSUME NEW w \in Worker,
             Abandon(w) \/ InsertFamily(w) \/ \E a \in Account : BeginIssue(w, a)
      PROVE  IInv'
  BY <1>5, AbandonStep, InsertFamilyStep, BeginIssueStep
<1>6. ASSUME NEW w \in Worker, NEW f \in Family, NEW t \in Token, CommitIssue(w, f, t)
      PROVE  IInv'
  BY <1>6, CommitIssueStep
<1>7. ASSUME NEW w \in Worker, NEW t \in Token, BeginRotate(w, t) \/ Reuse(w, t)
      PROVE  IInv'
  BY <1>7, BeginRotateStep, ReuseStep
<1>8. ASSUME NEW w \in Worker, NEW t \in Token, NEW u \in Token, NEW q \in Time,
             Rotate(w, t, u, q)
      PROVE  IInv'
  BY <1>8, RotateStep
<1>9. QED
  BY <1>1, <1>2, <1>3, <1>4, <1>5, <1>6, <1>7, <1>8 DEF Next

\* The inductive invariant holds in every reachable state.
THEOREM Invariance == Spec => []IInv
  BY IInvInit, IInvStep, PTL DEF Spec

-----------------------------------------------------------------------------
(* What the invariant shows. *)

\* Every table row, job and time has its type; every credential expires after it was
\* issued, as the schema demands (create_refresh_session, rotate_refresh_credential).
THEOREM TypeCorrect == Spec => []TypeOK
<1>1. IInv => TypeOK
  BY DEF IInv
<1>2. QED
  BY <1>1, Invariance, PTL

\* The credentials of a family are one chain, for any number of racing requests
\* (rotate_refresh_credential).
THEOREM ChainSafe == Spec => []OneChain
<1>1. IInv => OneChain
  BY DEF IInv
<1>2. QED
  BY <1>1, Invariance, PTL

\* Only the access token issued with the current refresh token authenticates
\* (access_session_authorization_context after rotate and revoke).
THEOREM AccessSafe == Spec => []AccessIsCurrent
<1>1. IInv => AccessIsCurrent
  BY DEF IInv, AccessIsCurrent, Authenticates, Current, LiveIsCurrent, RowsSound
<1>2. QED
  BY <1>1, Invariance, PTL

\* A family is revoked for reuse exactly when a consumed credential of it came back
\* (rotate_refresh_credential).
THEOREM ReuseSafe == Spec => []ReuseRevokes
<1>1. IInv => ReuseRevokes
  BY DEF IInv
<1>2. QED
  BY <1>1, Invariance, PTL

\* Stale clock readings never let a credential be exchanged at or after its expiry
\* (rotate_refresh_credential).
THEOREM InTimeSafe == Spec => []RotatedInTime
<1>1. IInv => RotatedInTime
  BY DEF IInv
<1>2. QED
  BY <1>1, Invariance, PTL

\* A step leaves a revoked family as it is.
LEMMA FinalStep ==
    ASSUME IInv, [Next]_vars, NEW f \in Family, families[f] # None, Revoked(f)
    PROVE  /\ families'[f] = families[f]
           /\ RowsOf(f)' = RowsOf(f)
           /\ \A t \in Token : (sessions[t] # None /\ sessions[t].family = f) =>
                sessions[t].revoked /\ sessions'[t] = sessions[t]
<1> DEFINE Kept ==
      /\ families'[f] = families[f]
      /\ \A t \in Token : (credentials[t] # None /\ credentials[t].family = f)
             => credentials'[t] = credentials[t]
      /\ \A t \in Token : (credentials'[t] # None /\ credentials'[t].family = f)
             => credentials'[t] = credentials[t]
      /\ \A t \in Token : (sessions[t] # None /\ sessions[t].family = f)
             => sessions'[t] = sessions[t]
<1>1. \A t \in Token : (sessions[t] # None /\ sessions[t].family = f) => sessions[t].revoked
  BY DEF IInv, LiveIsCurrent
<1>2. ASSUME UNCHANGED tables PROVE Kept
  BY <1>2 DEF tables
<1>3. ASSUME NEW g \in Family, NEW reason, families[g] # None, ~ Revoked(g),
             RevokeSessionFamily(g, reason)
      PROVE  Kept
  <2>1. g # f
    BY <1>3
  <2>2. QED
    BY <2>1, <1>1, <1>3, RevokedSessionsFacts DEF RevokeSessionFamily, IInv, TypeOK
<1>4. ASSUME NEW w \in Worker, NEW g \in Family, NEW t \in Token, CommitIssue(w, g, t)
      PROVE  Kept
  <2>1. g # f /\ credentials[t] = None /\ sessions[t] = None
    BY <1>4 DEF CommitIssue, Unused
  <2>2. /\ credentials'[t] = NewCredential(g, work[w].issued_at, work[w].now)
        /\ \A x \in Token \ {t} : credentials'[x] = credentials[x]
        /\ \A x \in Token \ {t} : sessions'[x] = sessions[x]
        /\ families'[f] = families[f]
    BY <1>4, <2>1 DEF CommitIssue, IInv, TypeOK
  <2>3. credentials'[t].family = g
    BY <2>2 DEF NewCredential
  <2>4. QED
    BY <2>1, <2>2, <2>3
<1>5. ASSUME NEW w \in Worker, NEW t \in Token, NEW u \in Token, NEW q \in Time,
             Rotate(w, t, u, q)
      PROVE  Kept
  <2> DEFINE g == credentials[t].family
  <2>1. credentials[t] \in CredentialRow
    <3>1. work[w] \in Job /\ work[w].op = "rotate" /\ work[w].token = t /\ JobSound(work[w])
      BY <1>5 DEF IInv, TypeOK, JobsSound, Rotate, Locked
    <3>2. QED
      BY <3>1 DEF JobSound, IInv, TypeOK
  <2>2. /\ g \in Family /\ g # f /\ credentials[u] = None /\ sessions[u] = None
        /\ credentials[t] # None /\ u # t
    BY <1>5, <2>1, CredentialFields, NoneIsNoRow DEF Rotate, Rotatable, Unused
  <2>3. /\ credentials'[t] = [credentials[t] EXCEPT !.replaced_by = u]
        /\ credentials'[u] = NewCredential(g, q, work[w].now)
        /\ \A x \in Token \ {t, u} : credentials'[x] = credentials[x]
    BY <1>5, <2>2 DEF Rotate, Successors, IInv, TypeOK
  <2>4. credentials'[t].family = g
    BY <2>1, <2>3 DEF CredentialRow
  <2>5. credentials'[u].family = g
    BY <2>3 DEF NewCredential
  <2>6. \A x \in Token : (sessions[x] # None /\ sessions[x].family = f)
             => sessions'[x] = sessions[x]
    <3>1. \A x \in Token \ {u} : sessions'[x] = RevokedSessions(g)[x]
      BY <1>5, <2>2, RevokedSessionsFacts DEF Rotate, IInv
    <3>2. QED
      BY <3>1, <2>2, RevokedSessionsFacts DEF IInv
  <2>7. families' = families
    BY <1>5 DEF Rotate
  <2>8. QED
    BY <2>2, <2>3, <2>4, <2>5, <2>6, <2>7
<1>6. ASSUME NEW w \in Worker, NEW t \in Token, Reuse(w, t) PROVE Kept
  <2>1. credentials[t] # None
    <3>1. work[w] \in Job /\ work[w].op = "rotate" /\ work[w].token = t /\ JobSound(work[w])
      BY <1>6 DEF IInv, TypeOK, JobsSound, Reuse, Locked
    <3>2. QED
      BY <3>1 DEF JobSound
  <2>2. credentials[t].family \in Family /\ families[credentials[t].family] # None
    BY <2>1, CredentialFields DEF IInv, TypeOK, RowsSound
  <2>3. QED
    BY <2>2, <1>2, <1>3, <1>6 DEF Reuse
<1>7. Kept
  <2>1. CASE UNCHANGED vars
    BY <2>1, <1>2 DEF vars
  <2>2. ASSUME NEW a \in Account, NEW g \in Family, RevokeRefreshSessionFamily(a, g)
        PROVE  Kept
    BY <2>2, <1>3 DEF RevokeRefreshSessionFamily
  <2>3. CASE Tick \/ \E a \in Account : SetActive(a)
    BY <2>3, <1>2 DEF Tick, SetActive
  <2>4. ASSUME NEW w \in Worker,
               \/ Abandon(w) \/ InsertFamily(w)
               \/ \E a \in Account : BeginIssue(w, a)
               \/ \E t \in Token : BeginRotate(w, t)
        PROVE  Kept
    BY <2>4, <1>2 DEF Abandon, InsertFamily, BeginIssue, BeginRotate
  <2> HIDE DEF Kept
  <2>5. QED
    BY <2>1, <2>2, <2>3, <2>4, <1>4, <1>5, <1>6 DEF Next
<1>8. RowsOf(f)' = RowsOf(f)
  BY <1>7 DEF RowsOf
<1>9. QED
  BY <1>1, <1>7, <1>8

\* A revoked family stays as it is, whatever was under way and whatever happens to its
\* account (revoke_session_family against rotations and issuance).
THEOREM RevokedFinal == Spec => RevokedIsFinal
<1>1. IInv /\ [Next]_vars =>
        [\A f \in Family : (families[f] # None /\ Revoked(f)) =>
           /\ families'[f] = families[f]
           /\ RowsOf(f)' = RowsOf(f)
           /\ \A t \in Token : (sessions[t] # None /\ sessions[t].family = f) =>
                sessions[t].revoked /\ sessions'[t] = sessions[t]]_vars
  BY FinalStep
<1>2. QED
  BY <1>1, Invariance, PTL DEF Spec, RevokedIsFinal
=============================================================================
