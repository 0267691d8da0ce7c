----------------------------- MODULE Login_proofs -----------------------------
(***************************************************************************)
(* Login: every safety property, for any number of accounts, transactions, *)
(* factors and concurrent requests.                                        *)
(*                                                                         *)
(* The argument: rows only ever grow (Grows), so what a request has read   *)
(* of them stays true until it writes (JobsSound).  A transaction that was *)
(* consumed is in one place from then on, a request or a session           *)
(* (OneHolder), which gives one session for each.  An account no operator  *)
(* touched is active only together with a factor (ActiveHasOneFactor), so  *)
(* a transaction for the password alone is begun only for an account an    *)
(* operator made active without one, and a factor such an account gets     *)
(* later is younger than that login (Exempt).  Whatever else reaches a     *)
(* session went through an accepted code (Backed).                         *)
(***************************************************************************)
EXTENDS Login, TLAPS

IInv ==
    /\ TypeOK
    /\ FactorsSound
    /\ TransactionsSound
    /\ JobsSound
    /\ OneHolder
    /\ SessionsSound
    /\ SpentSound
    /\ OneSessionPerTransaction
    /\ SecondFactorAlways
    /\ CodeAcceptedOnce
    /\ ActiveHasOneFactor
    /\ ConfirmedWhereShown

\* No step takes anything back from a factor, a transaction, the accepted codes or the
\* accounts operators have touched; a factor that becomes active does so now.
Grows ==
    /\ clock <= clock'
    /\ operated \subseteq operated'
    /\ \A f \in Factor : factors[f] # None =>
         /\ factors'[f] # None
         /\ factors'[f].account = factors[f].account
         /\ factors'[f].shown_to = factors[f].shown_to
         /\ factors[f].status = "active" =>
              /\ factors'[f].status = "active"
              /\ factors'[f].active_since = factors[f].active_since
    /\ \A f \in Factor : (factors'[f] # None /\ factors'[f].status = "active") =>
         \/ factors[f] # None /\ factors[f].status = "active"
         \/ factors'[f].active_since = clock
    /\ \A t \in Token : transactions[t] # None =>
         /\ transactions'[t] # None
         /\ transactions'[t].account = transactions[t].account
         /\ transactions'[t].stage = transactions[t].stage
         /\ transactions'[t].binding = transactions[t].binding
         /\ transactions'[t].factor = transactions[t].factor
         /\ transactions'[t].expires_at = transactions[t].expires_at
         /\ transactions[t].consumed => transactions'[t].consumed
    /\ spent \subseteq spent'

-----------------------------------------------------------------------------
(* Types. *)

LEMMA Nones ==
    /\ None \notin FactorRow /\ None \notin TransactionRow /\ None \notin SessionRow
    /\ None \notin Job /\ None \notin Code /\ None \notin Account
    /\ None \notin Token /\ None \notin Factor /\ None \notin Password /\ None \notin Step
  BY NoneAssumption

LEMMA Times ==
    /\ Time \subseteq Step /\ Step \subseteq Nat /\ 0 \in Step
    /\ Later \subseteq Nat
    /\ \A now \in Time : ExpiresAt(now) \in Later
    /\ \A now, then \in Nat : now <= then => ExpiresAt(now) <= ExpiresAt(then)
    /\ \A now \in Nat : ExpiresAt(now) \in Nat
  BY MaxClockAssumption, LifetimeAssumption DEF Time, Step, Later, ExpiresAt

LEMMA CodeFields ==
    ASSUME NEW c \in Code PROVE c.factor \in Factor /\ c.step \in Step
  BY DEF Code

LEMMA FactorFields ==
    ASSUME NEW x \in FactorRow
    PROVE  /\ x.account \in Account /\ x.status \in {"pending", "active"}
           /\ x.last_accepted_step \in Step \cup {None}
           /\ x.shown_to \in Token \cup {None} /\ x.active_since \in Step
  BY DEF FactorRow

LEMMA TransactionFields ==
    ASSUME NEW x \in TransactionRow
    PROVE  /\ x.account \in Account /\ x.stage \in Stage /\ x.binding \in Token
           /\ x.factor \in Factor \cup {None} /\ x.expires_at \in Later
           /\ x.consumed \in BOOLEAN
  BY DEF TransactionRow

LEMMA SessionFields ==
    ASSUME NEW x \in SessionRow PROVE x.account \in Account /\ x.transaction \in Token
  BY DEF SessionRow

LEMMA SpentFields ==
    ASSUME NEW p \in Spent
    PROVE  p.code \in Code /\ p.transaction \in Token /\ p.binding \in Token
  BY DEF Spent

\* What a request carries, by its statement.
LEMMA JobFields ==
    ASSUME NEW j \in Job
    PROVE  /\ j.op \in {"has_active_totp", "create", "create_pending", "read_pending",
                        "read_active", "activate", "consume_step", "issue"}
           /\ j.account \in Account
           /\ Holds(j) => j.token \in Token
           /\ j.op \in {"has_active_totp", "create", "read_pending", "read_active"} =>
                j.now \in Time
           /\ j.op = "create" =>
                /\ j.stage \in Stage /\ j.binding \in Token \cup {None}
                /\ j.factor \in Factor \cup {None}
           /\ j.op = "create_pending" => j.binding \in Token
           /\ j.op = "read_pending" => j.factor \in Factor
           /\ j.op \in {"read_pending", "read_active", "activate", "consume_step"} =>
                j.code \in Code /\ j.binding \in Token
  BY DEF Job, Holds

-----------------------------------------------------------------------------
(* The initial states. *)

LEMMA IInvInit == Init => IInv
<1> SUFFICES ASSUME Init PROVE IInv
  OBVIOUS
<1>1. PICK owner \in [Factor -> Account \cup {None}] :
         /\ \A f, g \in Factor : owner[f] = owner[g] => f = g \/ owner[f] = None
         /\ factors = [f \in Factor |->
              IF owner[f] = None THEN None
              ELSE [account |-> owner[f], status |-> "active",
                    last_accepted_step |-> 0, shown_to |-> None, active_since |-> 0]]
         /\ accounts = [a \in Account |->
              IF \E f \in Factor : owner[f] = a
              THEN "active" ELSE "mfa_enrollment_required"]
  BY DEF Init
<1>2. \A f \in Factor :
         \/ owner[f] = None /\ factors[f] = None
         \/ /\ owner[f] \in Account
            /\ owner[f] # None
            /\ factors[f] \in FactorRow
            /\ factors[f].account = owner[f]
            /\ factors[f].status = "active"
            /\ factors[f].last_accepted_step = 0
  BY <1>1, Times DEF FactorRow
<1>3. TypeOK
  <2>1. factors \in [Factor -> FactorRow \cup {None}]
    BY <1>1, <1>2
  <2>2. accounts \in [Account -> AccountState]
    BY <1>1 DEF AccountState
  <2>3. clock \in Time
    BY MaxClockAssumption DEF Init, Time
  <2>4. QED
    BY <2>1, <2>2, <2>3 DEF Init, TypeOK
<1>4. FactorsSound
  BY <1>2, Times, Nones DEF FactorsSound
<1>5. TransactionsSound /\ JobsSound /\ OneHolder /\ SessionsSound /\ SpentSound
  BY DEF Init, TransactionsSound, JobsSound, OneHolder, SessionsSound, SpentSound
<1>6. OneSessionPerTransaction /\ SecondFactorAlways /\ CodeAcceptedOnce
        /\ ConfirmedWhereShown
  BY DEF Init, OneSessionPerTransaction, SecondFactorAlways, CodeAcceptedOnce,
         ConfirmedWhereShown
<1>7. ActiveHasOneFactor
  <2> SUFFICES ASSUME NEW a \in Account
               PROVE  /\ \A f, g \in Factor :
                           ActiveTotpFactor(a, f) /\ ActiveTotpFactor(a, g) => f = g
                      /\ accounts[a] = "active" <=> HasActiveTotp(a)
    BY DEF ActiveHasOneFactor
  <2>1. \A f \in Factor : ActiveTotpFactor(a, f) <=> (owner[f] # None /\ owner[f] = a)
    BY <1>2, Nones DEF ActiveTotpFactor
  <2>2. \A f, g \in Factor :
           ActiveTotpFactor(a, f) /\ ActiveTotpFactor(a, g) => f = g
    BY <2>1, <1>1
  <2>3. HasActiveTotp(a) <=> \E f \in Factor : owner[f] = a
    BY <2>1, Nones DEF HasActiveTotp, ActiveTotpFactor
  <2>4. accounts[a] = "active" <=> \E f \in Factor : owner[f] = a
    BY <1>1
  <2>5. QED
    BY <2>2, <2>3, <2>4
<1>8. QED
  BY <1>3, <1>4, <1>5, <1>6, <1>7 DEF IInv

-----------------------------------------------------------------------------
(* Frames. *)

LEMMA BackedKept ==
    ASSUME IInv, Grows, NEW t, NEW a, Backed(t, a)
    PROVE  Backed(t, a)'
<1>1. PICK p \in spent :
         /\ p.transaction = t
         /\ factors[p.code.factor].account = a
         /\ factors[p.code.factor].status = "active"
  BY DEF Backed
<1>2. p.code.factor \in Factor /\ factors[p.code.factor] # None
  BY SpentFields, CodeFields DEF IInv, TypeOK, SpentSound
<1>3. QED
  BY <1>1, <1>2 DEF Grows, Backed

\* A factor that an exempt account gets now is no older than a login begun before.
LEMMA ExemptKept ==
    ASSUME IInv, Grows, NEW a, NEW e, e <= ExpiresAt(clock), Exempt(a, e)
    PROVE  Exempt(a, e)'
<1> SUFFICES ASSUME NEW f \in Factor, ActiveTotpFactor(a, f)'
             PROVE  e <= ExpiresAt(factors'[f].active_since)
  BY DEF Exempt, Grows, ExpiresAt
<1>1. CASE factors[f] # None /\ factors[f].status = "active"
  <2>1. ActiveTotpFactor(a, f)
    BY <1>1 DEF ActiveTotpFactor, Grows
  <2>2. factors'[f].active_since = factors[f].active_since
    BY <1>1 DEF Grows
  <2>3. QED
    BY <2>1, <2>2 DEF Exempt
<1>2. CASE factors'[f].active_since = clock
  BY <1>2
<1>3. QED
  BY <1>1, <1>2 DEF ActiveTotpFactor, Grows

\* Rows keep their soundness.
LEMMA RowsKept ==
    ASSUME IInv, Grows, TypeOK',
           NEW t \in Token, transactions[t] # None
    PROVE  /\ transactions'[t].expires_at <= ExpiresAt(clock)'
           /\ transactions[t].expires_at <= ExpiresAt(clock)
           /\ transactions'[t].stage = "session_issuance" =>
                Exempt(transactions[t].account, transactions[t].expires_at)'
           /\ transactions'[t].factor # None =>
                /\ transactions'[t].stage = "mfa_enrollment"
                /\ Shown(transactions[t].factor, transactions[t].account,
                         transactions[t].binding)'
<1>0. PICK x : x = transactions[t]
  OBVIOUS
<1>1. x.factor \in Factor \cup {None} /\ x.expires_at \in Nat
  BY <1>0, TransactionFields, Times DEF IInv, TypeOK
<1>2. /\ transactions'[t].expires_at = x.expires_at
      /\ transactions'[t].stage = x.stage
      /\ transactions'[t].account = x.account
      /\ transactions'[t].factor = x.factor
      /\ transactions'[t].binding = x.binding
  BY <1>0 DEF Grows
<1>3. clock \in Nat /\ clock' \in Nat /\ clock <= clock'
  BY Times DEF IInv, TypeOK, Grows
<1>4. x.expires_at <= ExpiresAt(clock)
  BY <1>0 DEF IInv, TransactionsSound
<1>5. x.expires_at <= ExpiresAt(clock')
  BY <1>1, <1>3, <1>4, LifetimeAssumption DEF ExpiresAt
<1>6. ASSUME x.stage = "session_issuance" PROVE Exempt(x.account, x.expires_at)'
  <2>1. Exempt(x.account, x.expires_at)
    BY <1>0, <1>6 DEF IInv, TransactionsSound
  <2>2. QED
    BY <2>1, <1>4, ExemptKept
<1>7. ASSUME x.factor # None
      PROVE  /\ x.stage = "mfa_enrollment"
             /\ Shown(x.factor, x.account, x.binding)'
  BY <1>0, <1>1, <1>7 DEF IInv, TransactionsSound, Shown, Grows
<1>8. /\ x.stage = "session_issuance" =>
            Exempt(transactions[t].account, transactions[t].expires_at)'
      /\ x.factor # None =>
            Shown(transactions[t].factor, transactions[t].account,
                  transactions[t].binding)'
  BY <1>2, <1>6, <1>7 DEF Exempt, Shown
<1>9. QED
  BY <1>0, <1>2, <1>4, <1>5, <1>7, <1>8 DEF ExpiresAt

\* Requests that do not move do not notice a step.
LEMMA JobsKept ==
    ASSUME IInv, Grows, TypeOK', NEW v \in Worker, work[v] # None, work'[v] = work[v]
    PROVE  JobSound(work[v])'
<1>0. PICK j : j = work[v]
  OBVIOUS
<1>1. j \in Job /\ JobSound(j)
  BY <1>0 DEF IInv, TypeOK, JobsSound
<1>2. /\ j.account \in Account
      /\ Holds(j) => j.token \in Token
      /\ j.op \in {"has_active_totp", "create"} => j.now \in Nat
      /\ j.op = "create" => j.factor \in Factor \cup {None}
      /\ j.op \in {"activate", "consume_step"} => j.code.factor \in Factor
  BY <1>1, JobFields, CodeFields, Times
<1>3. clock \in Nat /\ clock' \in Nat /\ clock <= clock'
  BY Times DEF IInv, TypeOK, Grows
<1>4. j.op \in {"has_active_totp", "create"} => j.now <= clock /\ j.now <= clock'
  <2>1. j.op \in {"has_active_totp", "create"} => j.now <= clock
    BY <1>1 DEF JobSound
  <2>2. QED
    BY <2>1, <1>2, <1>3
<1>5. j.op = "has_active_totp" => HasActiveTotp(j.account)' \/ j.account \in operated'
  BY <1>1 DEF JobSound, HasActiveTotp, Grows
<1>6. (j.op = "create" /\ j.stage = "session_issuance") =>
         Exempt(j.account, ExpiresAt(j.now))'
  <2> SUFFICES ASSUME j.op = "create", j.stage = "session_issuance"
               PROVE  Exempt(j.account, ExpiresAt(j.now))'
    OBVIOUS
  <2>1. Exempt(j.account, ExpiresAt(j.now))
    BY <1>1 DEF JobSound
  <2>2. PICK e : e = ExpiresAt(j.now)
    OBVIOUS
  <2>3. e <= ExpiresAt(clock)
    BY <2>2, <1>2, <1>3, <1>4, Times
  <2>4. Exempt(j.account, e)'
    BY <2>1, <2>2, <2>3, ExemptKept
  <2>5. QED
    BY <2>2, <2>4 DEF Exempt, ExpiresAt
<1>7. (j.op = "create" /\ j.factor # None) =>
         /\ j.stage = "mfa_enrollment" /\ j.binding # None
         /\ factors'[j.factor] # None /\ factors'[j.factor].account = j.account
         /\ factors'[j.factor].shown_to = j.binding
  BY <1>1, <1>2 DEF JobSound, Shown, Grows
<1>8. Holds(j) =>
         /\ transactions[j.token] # None
         /\ transactions'[j.token] # None /\ transactions'[j.token].consumed
         /\ transactions'[j.token].account = j.account
         /\ transactions'[j.token].stage = transactions[j.token].stage
         /\ transactions'[j.token].binding = transactions[j.token].binding
         /\ transactions'[j.token].factor = transactions[j.token].factor
         /\ transactions'[j.token].expires_at = transactions[j.token].expires_at
  BY <1>1, <1>2 DEF JobSound, Consumed, Grows
<1>9. j.op = "consume_step" =>
         /\ factors'[j.code.factor] # None /\ factors'[j.code.factor].account = j.account
         /\ factors'[j.code.factor].status = "active"
  BY <1>1, <1>2 DEF JobSound, ActiveTotpFactor, Grows
<1>10. j.op = "issue" =>
          \/ Backed(j.token, j.account)'
          \/ Exempt(j.account, transactions[j.token].expires_at)'
  <2> SUFFICES ASSUME j.op = "issue"
               PROVE  \/ Backed(j.token, j.account)'
                      \/ Exempt(j.account, transactions[j.token].expires_at)'
    OBVIOUS
  <2>1. CASE Backed(j.token, j.account)
    BY <2>1, BackedKept
  <2>2. CASE Exempt(j.account, transactions[j.token].expires_at)
    <3>1. PICK e : e = transactions[j.token].expires_at
      OBVIOUS
    <3>2. e <= ExpiresAt(clock) /\ transactions'[j.token].expires_at = e
      BY <3>1, <1>2, <1>8 DEF Holds, IInv, TransactionsSound
    <3>3. Exempt(j.account, e)'
      BY <3>1, <3>2, <2>2, ExemptKept
    <3>4. QED
      BY <3>2, <3>3 DEF Exempt
  <2>3. QED
    BY <2>1, <2>2, <1>1 DEF JobSound
<1>11. JobSound(j)'
  BY <1>1, <1>4, <1>5, <1>6, <1>7, <1>8, <1>9, <1>10
     DEF JobSound, Holds, Consumed, Shown, ActiveTotpFactor
<1>12. QED
  BY <1>0, <1>11 DEF JobSound, Holds, HasActiveTotp, Shown, Consumed, ActiveTotpFactor,
                     Backed, Exempt, ExpiresAt

\* The sessions there are go on resting on what they rested on.
LEMMA SecondFactorOld ==
    ASSUME IInv, Grows, NEW s \in Family, sessions[s] # None,
           NEW t, NEW a, t = sessions[s].transaction, a = sessions[s].account
    PROVE  /\ transactions'[t].account = a
           /\ Backed(t, a)' \/ Exempt(a, transactions[t].expires_at)'
<1>1. t \in Token /\ transactions[t] # None
  BY SessionFields DEF IInv, TypeOK, SessionsSound, Consumed
<1>2. PICK e : e = transactions[t].expires_at
  OBVIOUS
<1>3. /\ transactions'[t].account = transactions[t].account
      /\ transactions'[t].expires_at = e
      /\ e <= ExpiresAt(clock)
  BY <1>1, <1>2 DEF Grows, IInv, TransactionsSound
<1>4. transactions[t].account = a /\ (Backed(t, a) \/ Exempt(a, e))
  BY <1>2 DEF IInv, SecondFactorAlways
<1>5. Backed(t, a)' \/ Exempt(a, e)'
  BY <1>3, <1>4, BackedKept, ExemptKept
<1>6. QED
  BY <1>3, <1>4, <1>5 DEF Exempt

LEMMA SecondFactorKept ==
    ASSUME IInv, Grows, sessions' = sessions
    PROVE  SecondFactorAlways'
  BY SecondFactorOld DEF SecondFactorAlways, Backed, Exempt

\* Sessions and accepted codes that do not change keep what is said of them, as long as
\* active factors do not change.
LEMMA HistoryKept ==
    ASSUME IInv, Grows, sessions' = sessions, spent' = spent,
           \A f \in Factor : (factors[f] # None /\ factors[f].status = "active") =>
             factors'[f].last_accepted_step = factors[f].last_accepted_step
    PROVE  /\ SessionsSound' /\ SpentSound' /\ OneSessionPerTransaction'
           /\ SecondFactorAlways' /\ CodeAcceptedOnce' /\ ConfirmedWhereShown'
<1>1. \A p \in spent :
         /\ p.code.factor \in Factor /\ p.transaction \in Token
         /\ factors[p.code.factor] # None /\ factors[p.code.factor].status = "active"
         /\ transactions[p.transaction] # None
  BY SpentFields, CodeFields DEF IInv, TypeOK, SpentSound
<1>2. \A s \in Family : sessions[s] # None =>
         sessions[s].transaction \in Token /\ transactions[sessions[s].transaction] # None
  BY SessionFields DEF IInv, TypeOK, SessionsSound, Consumed
<1>3. SessionsSound'
  BY <1>2 DEF IInv, SessionsSound, Consumed, Grows
<1>4. SpentSound'
  BY <1>1 DEF IInv, SpentSound, Grows
<1>5. OneSessionPerTransaction'
  BY DEF IInv, OneSessionPerTransaction
<1>6. SecondFactorAlways'
  BY SecondFactorKept
<1>7. CodeAcceptedOnce'
  BY <1>1 DEF IInv, CodeAcceptedOnce
<1>8. ConfirmedWhereShown'
  BY <1>1 DEF IInv, ConfirmedWhereShown, Grows
<1>9. QED
  BY <1>3, <1>4, <1>5, <1>6, <1>7, <1>8

LEMMA Unmoved ==
    ASSUME IInv, UNCHANGED <<factors, transactions, clock>>, spent \subseteq spent',
           operated \subseteq operated'
    PROVE  Grows
<1>1. clock <= clock'
  BY Times DEF IInv, TypeOK
<1>2. QED
  BY <1>1 DEF Grows

LEMMA JobsSoundNext ==
    ASSUME IInv, Grows, TypeOK', NEW w \in Worker,
           \A v \in Worker \ {w} : work'[v] = work[v],
           work'[w] # None => JobSound(work[w])'
    PROVE  JobsSound'
<1> SUFFICES ASSUME NEW v \in Worker, work'[v] # None PROVE JobSound(work[v])'
  BY DEF JobsSound
<1>1. CASE v = w
  BY <1>1
<1>2. CASE v # w
  BY <1>2, JobsKept
<1>3. QED
  BY <1>1, <1>2

\* A request keeps its transaction, or drops it.
LEMMA HolderKept ==
    ASSUME IInv, sessions' = sessions, NEW w \in Worker,
           \A v \in Worker \ {w} : work'[v] = work[v],
           (work'[w] # None /\ Holds(work'[w])) =>
              work[w] # None /\ Holds(work[w]) /\ work'[w].token = work[w].token
    PROVE  OneHolder'
<1>1. \A v \in Worker : (work'[v] # None /\ Holds(work'[v])) =>
         work[v] # None /\ Holds(work[v]) /\ work'[v].token = work[v].token
  OBVIOUS
<1>2. \A u, v \in Worker :
         (/\ work'[u] # None /\ Holds(work'[u])
          /\ work'[v] # None /\ Holds(work'[v])
          /\ work'[u].token = work'[v].token) => u = v
  BY <1>1 DEF IInv, OneHolder
<1>3. \A s \in Family, v \in Worker :
         (sessions'[s] # None /\ work'[v] # None /\ Holds(work'[v])) =>
           sessions'[s].transaction # work'[v].token
  BY <1>1 DEF IInv, OneHolder
<1>4. QED
  BY <1>2, <1>3 DEF OneHolder, Holds

\* The active factors stay as they are, and so do the accounts no operator touched.
LEMMA FactorsKept ==
    ASSUME IInv, operated \subseteq operated',
           \A a \in Account : a \notin operated' => accounts'[a] = accounts[a],
           \A f \in Factor :
             (factors'[f] # None /\ factors'[f].status = "active")
               <=> (factors[f] # None /\ factors[f].status = "active"),
           \A f \in Factor :
             (factors[f] # None /\ factors[f].status = "active") =>
                factors'[f].account = factors[f].account
    PROVE  ActiveHasOneFactor'
<1>1. \A a \in Account, f \in Factor : ActiveTotpFactor(a, f)' <=> ActiveTotpFactor(a, f)
  BY DEF ActiveTotpFactor
<1>2. \A a \in Account : HasActiveTotp(a)' <=> HasActiveTotp(a)
  BY <1>1 DEF HasActiveTotp, ActiveTotpFactor
<1>3. QED
  BY <1>1, <1>2 DEF IInv, ActiveHasOneFactor

\* Rows, sessions and accepted codes do not notice the clock or an operator.
LEMMA QuietStep ==
    ASSUME IInv, UNCHANGED <<factors, transactions, sessions, spent>>, Grows,
           TypeOK', JobsSound', OneHolder', ActiveHasOneFactor'
    PROVE  IInv'
<1>1. FactorsSound'
  BY DEF IInv, FactorsSound
<1>2. TransactionsSound'
  BY RowsKept DEF TransactionsSound, Shown, Exempt
<1>3. QED
  BY <1>1, <1>2, HistoryKept DEF IInv

\* A request goes on with a sound job, or ends.
LEMMA QuietWork ==
    ASSUME IInv, UNCHANGED <<clock, tables, history>>, NEW w \in Worker,
           NEW job \in Job \cup {None}, job # None => JobSound(job),
           (job # None /\ Holds(job)) =>
              work[w] # None /\ Holds(work[w]) /\ job.token = work[w].token,
           work' = [work EXCEPT ![w] = job]
    PROVE  IInv'
<1> USE DEF tables, history
<1>1. TypeOK'
  BY DEF IInv, TypeOK
<1>2. work'[w] = job /\ \A v \in Worker \ {w} : work'[v] = work[v]
  BY DEF IInv, TypeOK
<1>3. Grows
  BY Unmoved
<1>4. JobsSound'
  <2>1. work'[w] # None => JobSound(work[w])'
    BY <1>2 DEF JobSound, Holds, HasActiveTotp, Shown, Consumed, ActiveTotpFactor, Backed,
                Exempt, ExpiresAt
  <2>2. QED
    BY <2>1, <1>1, <1>2, <1>3, JobsSoundNext
<1>5. OneHolder'
  BY <1>2, HolderKept
<1>6. ActiveHasOneFactor'
  BY FactorsKept
<1>7. QED
  BY <1>1, <1>3, <1>4, <1>5, <1>6, QuietStep

-----------------------------------------------------------------------------
(* Steps that leave the rows alone. *)

LEMMA TickStep == ASSUME IInv, Tick PROVE IInv'
<1> USE DEF tables, history
<1>1. TypeOK'
  BY MaxClockAssumption DEF IInv, TypeOK, Tick, Time
<1>2. Grows
  <2>1. clock <= clock'
    BY Times DEF IInv, TypeOK, Tick
  <2>2. QED
    BY <2>1 DEF Tick, Grows
<1>3. JobsSound'
  BY <1>1, <1>2, JobsKept DEF Tick, JobsSound
<1>4. OneHolder'
  BY DEF IInv, Tick, OneHolder, Holds
<1>5. ActiveHasOneFactor'
  BY FactorsKept DEF Tick
<1>6. QED
  BY <1>1, <1>2, <1>3, <1>4, <1>5, QuietStep DEF Tick

LEMMA StorePasswordVerifierStep ==
    ASSUME IInv, NEW a \in Account, NEW p \in Password, StorePasswordVerifier(a, p)
    PROVE  IInv'
<1> USE DEF history
<1>1. TypeOK'
  BY DEF IInv, TypeOK, StorePasswordVerifier
<1>2. Grows
  BY Unmoved DEF StorePasswordVerifier
<1>3. JobsSound'
  BY <1>1, <1>2, JobsKept DEF StorePasswordVerifier, JobsSound
<1>4. OneHolder'
  BY DEF IInv, StorePasswordVerifier, OneHolder, Holds
<1>5. ActiveHasOneFactor'
  BY FactorsKept DEF StorePasswordVerifier
<1>6. QED
  BY <1>1, <1>2, <1>3, <1>4, <1>5, QuietStep DEF StorePasswordVerifier

LEMMA SetStateStep ==
    ASSUME IInv, NEW a \in Account, NEW state \in Operable, SetState(a, state)
    PROVE  IInv'
<1>1. TypeOK'
  BY OperableAssumption DEF IInv, TypeOK, SetState
<1>2. Grows
  BY Unmoved DEF SetState
<1>3. JobsSound'
  BY <1>1, <1>2, JobsKept DEF SetState, JobsSound
<1>4. OneHolder'
  BY DEF IInv, SetState, OneHolder, Holds
<1>5. ActiveHasOneFactor'
  <2>1. \A b \in Account : b \notin operated' => accounts'[b] = accounts[b]
    BY DEF IInv, TypeOK, SetState
  <2>2. QED
    BY <2>1, FactorsKept DEF SetState
<1>6. QED
  BY <1>1, <1>2, <1>3, <1>4, <1>5, QuietStep DEF SetState

LEMMA AbandonStep == ASSUME IInv, NEW w \in Worker, Abandon(w) PROVE IInv'
  BY QuietWork DEF Abandon

LEMMA StartPasswordLoginStep ==
    ASSUME IInv, NEW w \in Worker, NEW a \in Account, NEW p \in Password, NEW q \in Time,
           StartPasswordLogin(w, a, p, q)
    PROVE  IInv'
<1>1. CASE /\ accounts[a] = "active"
           /\ Continue(w, [op |-> "has_active_totp", account |-> a, now |-> q])
  <2> DEFINE job == [op |-> "has_active_totp", account |-> a, now |-> q]
  <2>1. job \in Job /\ ~ Holds(job)
    BY DEF Job, Holds
  <2>2. (HasActiveTotp(a) \/ a \in operated) /\ q <= clock
    BY <1>1 DEF IInv, ActiveHasOneFactor, StartPasswordLogin
  <2>3. JobSound(job)
    BY <2>2 DEF JobSound, Holds
  <2>4. work' = [work EXCEPT ![w] = job]
    BY <1>1 DEF Continue
  <2> HIDE DEF job
  <2>5. QED
    BY <2>1, <2>3, <2>4, QuietWork DEF StartPasswordLogin
<1>2. CASE Continue(w, CreateJob(a, StageFor("MfaEnrollmentRequired"), None, None, q))
  <2> DEFINE job == [op |-> "create", account |-> a, stage |-> "mfa_enrollment",
                     now |-> q, binding |-> None, factor |-> None]
  <2>1. job \in Job /\ ~ Holds(job)
    BY DEF Job, Holds, Stage
  <2>2. JobSound(job)
    BY DEF JobSound, Holds, StartPasswordLogin
  <2>3. work' = [work EXCEPT ![w] = job]
    BY <1>2 DEF Continue, CreateJob, StageFor
  <2> HIDE DEF job
  <2>4. QED
    BY <2>1, <2>2, <2>3, QuietWork DEF StartPasswordLogin
<1>3. QED
  BY <1>1, <1>2 DEF StartPasswordLogin, LoginAccount

LEMMA ChooseStageStep == ASSUME IInv, NEW w \in Worker, ChooseStage(w) PROVE IInv'
<1>1. work[w] \in Job /\ work[w].op = "has_active_totp" /\ JobSound(work[w])
  BY DEF IInv, TypeOK, JobsSound, ChooseStage, At
<1>2. /\ work[w].now <= clock
      /\ HasActiveTotp(work[w].account) \/ work[w].account \in operated
  BY <1>1 DEF JobSound
<1>3. work[w].account \in Account /\ work[w].now \in Time
  BY <1>1, JobFields
<1>4. PICK stage : stage = IF HasActiveTotp(work[w].account)
                           THEN "mfa_challenge" ELSE "session_issuance"
  OBVIOUS
<1> DEFINE job == [op |-> "create", account |-> work[w].account, stage |-> stage,
                   now |-> work[w].now, binding |-> None, factor |-> None]
<1>5. job \in Job /\ ~ Holds(job)
  BY <1>3, <1>4 DEF Job, Holds, Stage
<1>6. stage = "session_issuance" => Exempt(work[w].account, ExpiresAt(work[w].now))
  BY <1>2, <1>4 DEF Exempt, HasActiveTotp, ActiveTotpFactor
<1>7. JobSound(job)
  BY <1>2, <1>6 DEF JobSound, Holds
<1>8. work' = [work EXCEPT ![w] = job]
  BY <1>4 DEF ChooseStage, Continue, CreateJob, StageFor
<1> HIDE DEF job
<1>9. QED
  BY <1>5, <1>7, <1>8, QuietWork DEF ChooseStage

LEMMA ReadPendingFactorStep ==
    ASSUME IInv, NEW w \in Worker, ReadPendingFactor(w) PROVE IInv'
<1> DEFINE j == work[w]
           job == [op |-> "activate", account |-> j.account, token |-> j.token,
                   binding |-> j.binding, code |-> j.code]
<1>1. j # None /\ j \in Job /\ j.op = "read_pending" /\ JobSound(j)
  BY DEF IInv, TypeOK, JobsSound, ReadPendingFactor, At
<1>2. /\ j.account \in Account /\ j.token \in Token /\ j.binding \in Token
      /\ j.code \in Code /\ Holds(j)
  BY <1>1, JobFields DEF Holds
<1>3. job \in Job
  BY <1>2 DEF Job
<1>4. JobSound(job)
  <2>1. j.code.factor = j.factor
    BY DEF ReadPendingFactor, VerifyTotp
  <2>2. /\ Consumed(j.token, j.account)
        /\ transactions[j.token].stage = "mfa_enrollment"
        /\ transactions[j.token].binding = j.binding
        /\ transactions[j.token].factor = j.factor
    BY <1>1, <1>2 DEF JobSound
  <2>3. QED
    BY <2>1, <2>2 DEF JobSound, Holds
<1>5. work' = [work EXCEPT ![w] = job] /\ job.token = j.token
  BY DEF ReadPendingFactor, Continue, SpendJob
<1> HIDE DEF job
<1>6. QED
  BY <1>1, <1>2, <1>3, <1>4, <1>5, QuietWork DEF ReadPendingFactor

LEMMA ReadActiveFactorStep ==
    ASSUME IInv, NEW w \in Worker, NEW f \in Factor, ReadActiveFactor(w, f) PROVE IInv'
<1> DEFINE j == work[w]
           job == [op |-> "consume_step", account |-> j.account, token |-> j.token,
                   binding |-> j.binding, code |-> j.code]
<1>1. j # None /\ j \in Job /\ j.op = "read_active" /\ JobSound(j)
  BY DEF IInv, TypeOK, JobsSound, ReadActiveFactor, At
<1>2. /\ j.account \in Account /\ j.token \in Token /\ j.binding \in Token
      /\ j.code \in Code /\ Holds(j)
  BY <1>1, JobFields DEF Holds
<1>3. job \in Job
  BY <1>2 DEF Job
<1>4. JobSound(job)
  <2>1. ActiveTotpFactor(j.account, j.code.factor)
    BY DEF ReadActiveFactor, VerifyTotp
  <2>2. Consumed(j.token, j.account) /\ transactions[j.token].stage = "mfa_challenge"
    BY <1>1, <1>2 DEF JobSound
  <2>3. QED
    BY <2>1, <2>2 DEF JobSound, Holds
<1>5. work' = [work EXCEPT ![w] = job] /\ job.token = j.token
  BY DEF ReadActiveFactor, Continue, SpendJob
<1> HIDE DEF job
<1>6. QED
  BY <1>1, <1>2, <1>3, <1>4, <1>5, QuietWork DEF ReadActiveFactor

-----------------------------------------------------------------------------
(* Steps that write rows. *)

LEMMA CreateLoginTransactionStep ==
    ASSUME IInv, NEW w \in Worker, NEW t \in Token, CreateLoginTransaction(w, t)
    PROVE  IInv'
<1> DEFINE j == work[w]
           row == [account |-> j.account, stage |-> j.stage, binding |-> BindingFor(w, t),
                   factor |-> j.factor, expires_at |-> ExpiresAt(j.now),
                   consumed |-> FALSE]
<1>1. j # None /\ j \in Job /\ j.op = "create" /\ JobSound(j)
  BY DEF IInv, TypeOK, JobsSound, CreateLoginTransaction, At
<1>2. /\ j.account \in Account /\ j.stage \in Stage /\ j.now \in Time
      /\ j.binding \in Token \cup {None} /\ j.factor \in Factor \cup {None}
  BY <1>1, JobFields
<1>3. BindingFor(w, t) \in Token /\ (j.binding # None => BindingFor(w, t) = j.binding)
  BY <1>2 DEF BindingFor
<1>4. row \in TransactionRow
  BY <1>2, <1>3, Times DEF TransactionRow
<1>5. /\ transactions[t] = None
      /\ transactions'[t] = row
      /\ \A u \in Token \ {t} : transactions'[u] = transactions[u]
      /\ work'[w] = None
      /\ \A v \in Worker \ {w} : work'[v] = work[v]
      /\ UNCHANGED <<clock, accounts, passwords, factors, sessions, spent, operated>>
  BY DEF IInv, TypeOK, CreateLoginTransaction, Continue, history
<1>6. TypeOK'
  BY <1>4, <1>5 DEF IInv, TypeOK, CreateLoginTransaction, Continue
<1>7. Grows
  <2>1. clock \in Nat
    BY Times DEF IInv, TypeOK
  <2>2. clock <= clock'
    BY <2>1, <1>5
  <2>3. QED
    BY <2>2, <1>5 DEF Grows
<1>8. JobsSound'
  BY <1>5, <1>6, <1>7, JobsSoundNext
<1>9. OneHolder'
  BY <1>5, HolderKept
<1>10. ActiveHasOneFactor'
  BY <1>5, FactorsKept
<1>11. FactorsSound'
  BY <1>5 DEF IInv, FactorsSound
<1>12. TransactionsSound'
  <2> SUFFICES ASSUME NEW u \in Token, transactions'[u] # None
               PROVE  /\ transactions'[u].expires_at <= ExpiresAt(clock)'
                      /\ transactions'[u].stage = "session_issuance" =>
                           Exempt(transactions[u].account, transactions[u].expires_at)'
                      /\ transactions'[u].factor # None =>
                           /\ transactions'[u].stage = "mfa_enrollment"
                           /\ Shown(transactions[u].factor, transactions[u].account,
                                    transactions[u].binding)'
    BY DEF TransactionsSound, Shown, Exempt
  <2>1. CASE u = t
    <3>1. /\ j.now <= clock
          /\ j.stage = "session_issuance" => Exempt(j.account, ExpiresAt(j.now))
          /\ j.factor # None => /\ j.stage = "mfa_enrollment" /\ j.binding # None
                                /\ Shown(j.factor, j.account, j.binding)
      BY <1>1 DEF JobSound
    <3>2. transactions'[u].expires_at <= ExpiresAt(clock)'
      <4>1. j.now \in Nat /\ clock \in Nat /\ clock' = clock
        BY <1>2, <1>5, Times DEF IInv, TypeOK
      <4>2. transactions'[u].expires_at = ExpiresAt(j.now)
        BY <2>1, <1>5
      <4>3. QED
        BY <4>1, <4>2, <3>1, Times DEF ExpiresAt
    <3>3. /\ transactions'[u].account = j.account
          /\ transactions'[u].expires_at = ExpiresAt(j.now)
          /\ transactions'[u].stage = j.stage
          /\ transactions'[u].factor = j.factor
          /\ transactions'[u].binding = BindingFor(w, t)
      BY <2>1, <1>5
    <3>4. j.factor # None => BindingFor(w, t) = j.binding
      BY <3>1, <1>3
    <3>5. transactions'[u].stage = "session_issuance" =>
            Exempt(transactions[u].account, transactions[u].expires_at)'
      BY <3>1, <3>3, <1>5 DEF Exempt, ActiveTotpFactor, ExpiresAt
    <3>6. QED
      BY <3>1, <3>2, <3>3, <3>4, <3>5, <1>5 DEF Shown
  <2>2. CASE u # t
    BY <2>2, <1>5, <1>6, <1>7, RowsKept
  <2>3. QED
    BY <2>1, <2>2
<1>13. QED
  BY <1>5, <1>6, <1>7, <1>8, <1>9, <1>10, <1>11, <1>12, HistoryKept DEF IInv

LEMMA ConsumeLoginTransactionStep ==
    ASSUME IInv, NEW w \in Worker, NEW t \in Token, NEW b \in Token, NEW r \in Route,
           NEW c \in Code \cup {None}, NEW q \in Time,
           ConsumeLoginTransaction(w, t, b, r, c, q)
    PROVE  IInv'
<1> DEFINE x == transactions[t]
<1>0. PICK job : job = AfterConsume(r, x, t, b, c)
  OBVIOUS
<1>1. /\ x # None /\ x \in TransactionRow /\ x.binding = b /\ ~ x.consumed
      /\ x.stage = ExpectedStage(r)
      /\ x.stage = "session_issuance" => Exempt(x.account, x.expires_at)
  BY DEF IInv, TypeOK, TransactionsSound, ConsumeLoginTransaction, Consumable
<1>2. x.account \in Account /\ x.factor \in Factor \cup {None}
  BY <1>1, TransactionFields
<1>3. r \in {"begin_enrollment", "confirm_enrollment", "totp", "session"}
  BY DEF Route
<1>4. r \in {"confirm_enrollment", "totp"} => c \in Code
  BY DEF ConsumeLoginTransaction
<1>5. /\ transactions' = [transactions EXCEPT ![t].consumed = TRUE]
      /\ work' = [work EXCEPT ![w] = job]
      /\ work[w] = None
      /\ UNCHANGED <<clock, accounts, passwords, factors, sessions, spent, operated>>
  BY <1>0 DEF ConsumeLoginTransaction, Continue, history
<1>6. /\ transactions'[t] \in TransactionRow
      /\ transactions'[t].consumed
      /\ transactions'[t].account = x.account /\ transactions'[t].stage = x.stage
      /\ transactions'[t].binding = x.binding /\ transactions'[t].factor = x.factor
      /\ transactions'[t].expires_at = x.expires_at
      /\ \A u \in Token \ {t} : transactions'[u] = transactions[u]
  <2>1. transactions'[t] = [x EXCEPT !.consumed = TRUE]
    BY <1>5 DEF IInv, TypeOK
  <2>2. QED
    BY <2>1, <1>1, <1>5 DEF IInv, TypeOK, TransactionRow
<1>7. clock \in Time
  BY DEF IInv, TypeOK
<1>8. /\ job \in Job \cup {None}
      /\ (job # None /\ Holds(job)) => job.token = t
      /\ job # None => JobSound(job)'
  <2>1. CASE r = "begin_enrollment"
    <3>1. job = [op |-> "create_pending", account |-> x.account, binding |-> b]
      BY <2>1, <1>0 DEF AfterConsume, BeginTotpEnrollment
    <3>2. QED
      BY <3>1, <1>2 DEF Job, JobSound, Holds
  <2>2. CASE r = "confirm_enrollment" /\ x.factor = None
    BY <2>2, <1>0 DEF AfterConsume, ConfirmTotpEnrollment
  <2>3. CASE r = "confirm_enrollment" /\ x.factor # None
    <3>1. job = [op |-> "read_pending", account |-> x.account, factor |-> x.factor,
                 token |-> t, binding |-> b, code |-> c, now |-> clock]
      BY <2>3, <1>0 DEF AfterConsume, ConfirmTotpEnrollment
    <3>2. job \in Job
      BY <3>1, <2>3, <1>2, <1>4, <1>7 DEF Job
    <3>3. transactions'[t] # None /\ x.stage = "mfa_enrollment"
      BY <1>1, <1>6, <2>3, Nones DEF ExpectedStage
    <3>4. QED
      BY <3>1, <3>2, <3>3, <1>1, <1>6 DEF JobSound, Holds, Consumed
  <2>4. CASE r = "totp"
    <3>1. job = [op |-> "read_active", account |-> x.account, token |-> t, binding |-> b,
                 code |-> c, now |-> clock]
      BY <2>4, <1>0 DEF AfterConsume, CompleteTotpLogin
    <3>2. job \in Job
      BY <3>1, <2>4, <1>2, <1>4, <1>7 DEF Job
    <3>3. transactions'[t] # None /\ x.stage = "mfa_challenge"
      BY <1>1, <1>6, <2>4, Nones DEF ExpectedStage
    <3>4. QED
      BY <3>1, <3>2, <3>3, <1>1, <1>6 DEF JobSound, Holds, Consumed
  <2>5. CASE r = "session"
    <3>1. job = [op |-> "issue", account |-> x.account, token |-> t]
      BY <2>5, <1>0 DEF AfterConsume, CompletePasswordOnlyLogin
    <3>2. job \in Job
      BY <3>1, <1>2 DEF Job
    <3>3. transactions'[t] # None /\ Exempt(x.account, x.expires_at)
      BY <1>1, <1>6, <2>5, Nones DEF ExpectedStage
    <3>4. Exempt(job.account, transactions[job.token].expires_at)'
      BY <3>1, <3>3, <1>5, <1>6 DEF Exempt, ActiveTotpFactor, ExpiresAt
    <3>5. Consumed(job.token, job.account)'
      BY <3>1, <3>3, <1>6 DEF Consumed
    <3>6. QED
      BY <3>1, <3>2, <3>4, <3>5 DEF JobSound, Holds
  <2>6. QED
    BY <1>3, <2>1, <2>2, <2>3, <2>4, <2>5
<1>9. work'[w] = job /\ \A v \in Worker \ {w} : work'[v] = work[v]
  BY <1>5 DEF IInv, TypeOK
<1>10. TypeOK'
  <2>1. transactions' \in [Token -> TransactionRow \cup {None}]
    BY <1>5, <1>6 DEF IInv, TypeOK
  <2>2. work' \in [Worker -> Job \cup {None}]
    BY <1>5, <1>8 DEF IInv, TypeOK
  <2>3. QED
    BY <2>1, <2>2, <1>5 DEF IInv, TypeOK
<1>11. Grows
  <2>1. clock <= clock'
    BY <1>5, <1>7, Times
  <2>2. QED
    BY <2>1, <1>5, <1>6, Nones DEF Grows
<1>12. JobsSound'
  <2>1. work'[w] # None => JobSound(work[w])'
    BY <1>8, <1>9 DEF JobSound, Holds, HasActiveTotp, Shown, Consumed, ActiveTotpFactor,
                      Backed, Exempt, ExpiresAt
  <2>2. QED
    BY <2>1, <1>9, <1>10, <1>11, JobsSoundNext
<1>13. OneHolder'
  \* Nobody holds a transaction that was not consumed before.
  <2>1. \A v \in Worker : (work[v] # None /\ Holds(work[v])) => work[v].token # t
    BY <1>1 DEF IInv, JobsSound, JobSound, Consumed
  <2>2. \A s \in Family : sessions[s] # None => sessions[s].transaction # t
    BY <1>1 DEF IInv, SessionsSound, Consumed
  <2>3. \A u, v \in Worker :
           (/\ work'[u] # None /\ Holds(work'[u])
            /\ work'[v] # None /\ Holds(work'[v])
            /\ work'[u].token = work'[v].token) => u = v
    BY <2>1, <1>8, <1>9 DEF IInv, OneHolder
  <2>4. \A s \in Family, v \in Worker :
           (sessions'[s] # None /\ work'[v] # None /\ Holds(work'[v])) =>
             sessions'[s].transaction # work'[v].token
    BY <2>2, <1>5, <1>8, <1>9 DEF IInv, OneHolder
  <2>5. QED
    BY <2>3, <2>4 DEF OneHolder, Holds
<1>14. ActiveHasOneFactor'
  BY <1>5, FactorsKept
<1>15. FactorsSound'
  BY <1>5 DEF IInv, FactorsSound
<1>16. TransactionsSound'
  <2>1. \A u \in Token : transactions'[u] # None => transactions[u] # None
    BY <1>1, <1>6
  <2>2. QED
    BY <2>1, <1>10, <1>11, RowsKept DEF TransactionsSound, Shown, Exempt
<1>17. QED
  BY <1>5, <1>10, <1>11, <1>12, <1>13, <1>14, <1>15, <1>16, HistoryKept DEF IInv

LEMMA CreatePendingFactorStep ==
    ASSUME IInv, NEW w \in Worker, NEW f \in Factor, CreatePendingFactor(w, f)
    PROVE  IInv'
<1> DEFINE j == work[w]
           row == [account |-> j.account, status |-> "pending",
                   last_accepted_step |-> None, shown_to |-> j.binding,
                   active_since |-> 0]
<1>0. PICK job : job = [op |-> "create", account |-> j.account,
                        stage |-> "mfa_enrollment", now |-> clock,
                        binding |-> j.binding, factor |-> f]
  OBVIOUS
<1>1. j # None /\ j \in Job /\ j.op = "create_pending"
  BY DEF IInv, TypeOK, CreatePendingFactor, At
<1>2. j.account \in Account /\ j.binding \in Token /\ clock \in Time
  BY <1>1, JobFields DEF IInv, TypeOK
<1>3. row \in FactorRow /\ job \in Job /\ ~ Holds(job)
  BY <1>0, <1>2, Times DEF FactorRow, Job, Holds, Stage
<1>4. /\ factors' = [factors EXCEPT ![f] = row]
      /\ work' = [work EXCEPT ![w] = job]
      /\ factors[f] = None
      /\ UNCHANGED <<clock, accounts, passwords, transactions, sessions, spent, operated>>
  BY <1>0 DEF CreatePendingFactor, PendingRow, Continue, ConfirmationJob, CreateJob,
              history
<1>5. /\ factors'[f] = row
      /\ \A g \in Factor \ {f} : factors'[g] = factors[g]
      /\ work'[w] = job
      /\ \A v \in Worker \ {w} : work'[v] = work[v]
  BY <1>4 DEF IInv, TypeOK
<1>6. /\ factors'[f] # None /\ factors'[f].account = j.account
      /\ factors'[f].status = "pending" /\ factors'[f].last_accepted_step = None
      /\ factors'[f].shown_to = j.binding
  BY <1>3, <1>5, Nones
<1>7. JobSound(job)'
  <2>1. clock <= clock'
    BY <1>2, <1>4, Times
  <2>2. QED
    BY <2>1, <1>0, <1>2, <1>3, <1>4, <1>6, Nones DEF JobSound, Shown, Holds
<1>8. TypeOK'
  BY <1>3, <1>4 DEF IInv, TypeOK
<1>9. Grows
  <2>1. clock <= clock'
    BY <1>2, <1>4, Times
  <2>2. QED
    BY <2>1, <1>4, <1>5, <1>6 DEF Grows
<1>10. JobsSound'
  <2>1. JobSound(work[w])'
    BY <1>5, <1>7 DEF JobSound, Holds, HasActiveTotp, Shown, Consumed, ActiveTotpFactor,
                      Backed, Exempt, ExpiresAt
  <2>2. QED
    BY <2>1, <1>5, <1>8, <1>9, JobsSoundNext
<1>11. OneHolder'
  BY <1>3, <1>4, <1>5, HolderKept
<1>12. ActiveHasOneFactor'
  BY <1>4, <1>5, <1>6, FactorsKept
<1>13. FactorsSound'
  BY <1>5, <1>6 DEF IInv, FactorsSound
<1>14. TransactionsSound'
  BY <1>4, <1>9, <1>8, RowsKept DEF TransactionsSound, Shown, Exempt
<1>15. QED
  BY <1>4, <1>5, <1>6, <1>8, <1>9, <1>10, <1>11, <1>12, <1>13, <1>14, HistoryKept DEF IInv

-----------------------------------------------------------------------------
(* Steps that accept a code or insert a session. *)

\* A code c not accepted before is accepted for the transaction t that worker w holds,
\* with the binding b; its factor becomes or stays active.
LEMMA AcceptStep ==
    ASSUME IInv, NEW w \in Worker, work[w] # None, Holds(work[w]),
           NEW c \in Code, NEW t \in Token, NEW b \in Token, NEW a \in Account,
           work[w].token = t, Consumed(t, a),
           factors[c.factor] # None, factors[c.factor].account = a,
           transactions[t].stage = "mfa_enrollment" =>
              factors[c.factor].shown_to = b /\ transactions[t].factor = c.factor,
           \A p \in spent : p.code.factor = c.factor => p.code.step < c.step,
           NEW since \in Step,
           since = IF factors[c.factor].status = "active"
                   THEN factors[c.factor].active_since ELSE clock,
           factors' = [factors EXCEPT ![c.factor] =
              [factors[c.factor] EXCEPT !.status = "active",
                                        !.last_accepted_step = c.step,
                                        !.active_since = since]],
           work' = [work EXCEPT ![w] = [op |-> "issue", account |-> a, token |-> t]],
           spent' = spent \cup {[code |-> c, transaction |-> t, binding |-> b]},
           UNCHANGED <<clock, passwords, transactions, sessions, operated>>,
           accounts' \in [Account -> AccountState],
           ActiveHasOneFactor'
    PROVE  IInv'
<1> DEFINE f == c.factor
<1>0. PICK new : new = [code |-> c, transaction |-> t, binding |-> b]
  OBVIOUS
<1>1. f \in Factor /\ c.step \in Step /\ c.step \in Nat /\ c.step # None
  BY CodeFields, Times, Nones
<1>2. factors[f] \in FactorRow
  BY <1>1 DEF IInv, TypeOK
<1>3. /\ factors'[f] \in FactorRow
      /\ factors'[f].account = a /\ factors'[f].shown_to = factors[f].shown_to
      /\ factors'[f].status = "active" /\ factors'[f].last_accepted_step = c.step
      /\ factors'[f].active_since = since
      /\ \A g \in Factor \ {f} : factors'[g] = factors[g]
  <2>1. factors'[f] = [factors[f] EXCEPT !.status = "active",
                                         !.last_accepted_step = c.step,
                                         !.active_since = since]
    BY <1>1 DEF IInv, TypeOK
  <2>2. QED
    BY <2>1, <1>1, <1>2 DEF IInv, TypeOK, FactorRow
<1>4. factors'[f] # None
  BY <1>3, Nones
<1>5. /\ new \in Spent /\ new.code = c /\ new.transaction = t /\ new.binding = b
      /\ spent' = spent \cup {new}
  BY <1>0 DEF Spent
<1>6. /\ work'[w] \in Job /\ work'[w].op = "issue" /\ work'[w].token = t
      /\ work'[w].account = a
      /\ \A v \in Worker \ {w} : work'[v] = work[v]
  BY DEF IInv, TypeOK, Job
<1>7. TypeOK'
  <2>1. factors' \in [Factor -> FactorRow \cup {None}]
    BY <1>1, <1>3 DEF IInv, TypeOK
  <2>2. work' \in [Worker -> Job \cup {None}]
    BY <1>6 DEF IInv, TypeOK
  <2>3. QED
    BY <2>1, <2>2, <1>5 DEF IInv, TypeOK
<1>8. Grows
  <2>1. clock <= clock'
    BY Times DEF IInv, TypeOK
  <2>2. factors[f].status = "active" => since = factors[f].active_since
    OBVIOUS
  <2>3. factors[f].status # "active" => since = clock
    OBVIOUS
  <2>4. QED
    BY <2>1, <2>2, <2>3, <1>2, <1>3, <1>4, <1>5 DEF Grows
<1>9. JobsSound'
  <2>1. JobSound(work[w])'
    <3>1. Consumed(t, a)'
      BY DEF Consumed
    <3>2. Backed(t, a)'
      BY <1>3, <1>5 DEF Backed
    <3>3. QED
      BY <3>1, <3>2, <1>6 DEF JobSound, Holds, Consumed, Backed
  <2>2. QED
    BY <2>1, <1>6, <1>7, <1>8, JobsSoundNext
<1>10. OneHolder'
  BY <1>6, HolderKept
<1>11. FactorsSound'
  BY <1>1, <1>3 DEF IInv, FactorsSound
<1>12. TransactionsSound'
  BY <1>7, <1>8, RowsKept DEF TransactionsSound, Shown, Exempt
<1>13. \A p \in spent :
          /\ p.code \in Code /\ p.code.factor \in Factor /\ p.code.step \in Nat
          /\ p.transaction \in Token
          /\ factors[p.code.factor] # None /\ factors[p.code.factor].status = "active"
          /\ transactions[p.transaction] # None
  BY SpentFields, CodeFields, Times DEF IInv, TypeOK, SpentSound
<1>14. SessionsSound' /\ OneSessionPerTransaction'
  BY DEF IInv, SessionsSound, OneSessionPerTransaction, Consumed
<1>15. SpentSound'
  <2>1. \A p \in spent :
           /\ factors'[p.code.factor] # None /\ factors'[p.code.factor].status = "active"
           /\ transactions'[p.transaction] # None
    BY <1>3, <1>4, <1>13
  <2>2. factors'[new.code.factor] # None /\ factors'[new.code.factor].status = "active"
          /\ transactions'[new.transaction] # None
    BY <1>3, <1>4, <1>5 DEF Consumed
  <2>3. QED
    BY <2>1, <2>2, <1>5 DEF SpentSound
<1>16. SecondFactorAlways'
  BY <1>8, SecondFactorKept
<1>17. CodeAcceptedOnce'
  <2>1. \A p \in spent : p.code # c
    BY <1>1, <1>13
  <2>2. ASSUME NEW p \in spent
        PROVE  factors'[p.code.factor].last_accepted_step >= p.code.step
    <3>1. CASE p.code.factor = f
      BY <3>1, <1>1, <1>3, <1>13
    <3>2. CASE p.code.factor # f
      BY <3>2, <1>3, <1>13 DEF IInv, CodeAcceptedOnce
    <3>3. QED
      BY <3>1, <3>2
  <2>3. factors'[new.code.factor].last_accepted_step >= new.code.step
    BY <1>1, <1>3, <1>5
  <2>4. \A p, q \in spent' : p.code = q.code => p = q
    BY <2>1, <1>5 DEF IInv, CodeAcceptedOnce
  <2>5. QED
    BY <2>2, <2>3, <2>4, <1>5 DEF CodeAcceptedOnce
<1>18. ConfirmedWhereShown'
  <2>1. \A p \in spent : transactions'[p.transaction].stage = "mfa_enrollment" =>
           /\ factors'[p.code.factor].shown_to = p.binding
           /\ transactions'[p.transaction].factor = p.code.factor
    BY <1>8, <1>13 DEF IInv, ConfirmedWhereShown, Grows
  <2>2. transactions'[new.transaction].stage = "mfa_enrollment" =>
           /\ factors'[new.code.factor].shown_to = new.binding
           /\ transactions'[new.transaction].factor = new.code.factor
    BY <1>3, <1>5
  <2>3. QED
    BY <2>1, <2>2, <1>5 DEF ConfirmedWhereShown
<1>19. QED
  BY <1>7, <1>9, <1>10, <1>11, <1>12, <1>14, <1>15, <1>16, <1>17, <1>18 DEF IInv

LEMMA ActivateFactorStep == ASSUME IInv, NEW w \in Worker, ActivateFactor(w) PROVE IInv'
<1> DEFINE j == work[w]
           f == j.code.factor
<1>1. j # None /\ j \in Job /\ j.op = "activate" /\ JobSound(j) /\ Holds(j)
  BY DEF IInv, TypeOK, JobsSound, ActivateFactor, At, Holds
<1>2. /\ j.code \in Code /\ j.token \in Token /\ j.binding \in Token
      /\ j.account \in Account /\ f \in Factor
  BY <1>1, JobFields, CodeFields
<1>3. /\ Consumed(j.token, j.account)
      /\ transactions[j.token].stage = "mfa_enrollment"
      /\ transactions[j.token].binding = j.binding
      /\ transactions[j.token].factor = f
  BY <1>1 DEF JobSound
<1>4. Shown(f, j.account, j.binding)
  BY <1>2, <1>3, Nones DEF IInv, TransactionsSound, Consumed
<1>5. /\ factors[f].status = "pending" /\ accounts[j.account] = "mfa_enrollment_required"
      /\ ~ HasActiveTotp(j.account)
      /\ factors' = [factors EXCEPT ![f] =
            [factors[f] EXCEPT !.status = "active", !.last_accepted_step = j.code.step,
                               !.active_since = clock]]
      /\ accounts' = [accounts EXCEPT ![j.account] = "active"]
      /\ work' = [work EXCEPT ![w] =
            [op |-> "issue", account |-> j.account, token |-> j.token]]
      /\ spent' = spent \cup {[code |-> j.code, transaction |-> j.token,
                               binding |-> j.binding]}
      /\ UNCHANGED <<clock, passwords, transactions, sessions, operated>>
  BY DEF ActivateFactor, Activatable, ActiveRow, Accept, Continue
\* A pending factor has accepted nothing yet.
<1>6. \A p \in spent : p.code.factor # f
  BY <1>5 DEF IInv, SpentSound
<1>7. accounts' \in [Account -> AccountState]
  BY <1>5 DEF IInv, TypeOK, AccountState
<1>8. ActiveHasOneFactor'
  <2>1. /\ factors'[f] # None /\ factors'[f].account = j.account
        /\ factors'[f].status = "active"
        /\ \A g \in Factor \ {f} : factors'[g] = factors[g]
    <3>1. factors[f] \in FactorRow
      BY <1>2, <1>4 DEF IInv, TypeOK, Shown
    <3>2. factors'[f] = [factors[f] EXCEPT !.status = "active",
                                           !.last_accepted_step = j.code.step,
                                           !.active_since = clock]
      BY <1>2, <1>5 DEF IInv, TypeOK
    <3>3. clock \in Step
      BY Times DEF IInv, TypeOK
    <3>4. factors'[f] \in FactorRow /\ factors'[f].account = factors[f].account
             /\ factors'[f].status = "active"
      BY <3>1, <3>2, <3>3, <1>2, CodeFields DEF FactorRow
    <3>5. QED
      BY <3>4, <1>4, <1>5, Nones DEF IInv, TypeOK, Shown
  <2> SUFFICES ASSUME NEW a \in Account
               PROVE  /\ \A g, h \in Factor :
                           ActiveTotpFactor(a, g)' /\ ActiveTotpFactor(a, h)' => g = h
                      /\ a \notin operated =>
                           (accounts'[a] = "active" <=> HasActiveTotp(a)')
    BY <1>5 DEF ActiveHasOneFactor
  <2>2. /\ \A g, h \in Factor :
             ActiveTotpFactor(a, g) /\ ActiveTotpFactor(a, h) => g = h
        /\ a \notin operated => (accounts[a] = "active" <=> HasActiveTotp(a))
    BY DEF IInv, ActiveHasOneFactor
  <2>3. CASE a = j.account
    <3>1. \A g \in Factor : ActiveTotpFactor(a, g)' <=> g = f
      BY <2>1, <2>3, <1>2, <1>5 DEF ActiveTotpFactor, HasActiveTotp
    <3>2. HasActiveTotp(a)'
      BY <3>1, <1>2 DEF ActiveTotpFactor, HasActiveTotp
    <3>3. accounts'[a] = "active"
      BY <2>3, <1>5 DEF IInv, TypeOK
    <3>4. QED
      BY <3>1, <3>2, <3>3
  <2>4. CASE a # j.account
    <3>1. \A g \in Factor : ActiveTotpFactor(a, g)' <=> ActiveTotpFactor(a, g)
      BY <2>1, <2>4, <1>4, <1>2 DEF ActiveTotpFactor, Shown
    <3>2. HasActiveTotp(a)' <=> HasActiveTotp(a)
      BY <3>1 DEF ActiveTotpFactor, HasActiveTotp
    <3>3. accounts'[a] = accounts[a]
      BY <2>4, <1>5 DEF IInv, TypeOK
    <3>4. QED
      BY <3>1, <3>2, <3>3, <2>2
  <2>5. QED
    BY <2>3, <2>4
<1>9. QED
  <2>1. clock \in Step /\ factors[f] # None
    BY <1>4, Times DEF IInv, TypeOK, Shown
  <2>2. PICK since \in Step : since = clock
    BY <2>1
  <2>3. since = IF factors[f].status = "active" THEN factors[f].active_since ELSE clock
    BY <2>2, <1>5
  <2>4. factors' = [factors EXCEPT ![f] =
           [factors[f] EXCEPT !.status = "active", !.last_accepted_step = j.code.step,
                              !.active_since = since]]
    BY <2>2, <1>5
  <2>5. QED
    BY <1>1, <1>2, <1>3, <1>4, <1>5, <1>6, <1>7, <1>8, <2>3, <2>4, AcceptStep DEF Shown

LEMMA ConsumeTotpStepStep == ASSUME IInv, NEW w \in Worker, ConsumeTotpStep(w) PROVE IInv'
<1> DEFINE j == work[w]
           f == j.code.factor
<1>1. j # None /\ j \in Job /\ j.op = "consume_step" /\ JobSound(j) /\ Holds(j)
  BY DEF IInv, TypeOK, JobsSound, ConsumeTotpStep, At, Holds
<1>2. /\ j.code \in Code /\ j.token \in Token /\ j.binding \in Token
      /\ j.account \in Account /\ f \in Factor /\ j.code.step \in Nat
  BY <1>1, JobFields, CodeFields, Times
<1>3. /\ Consumed(j.token, j.account)
      /\ transactions[j.token].stage = "mfa_challenge"
      /\ ActiveTotpFactor(j.account, f)
  BY <1>1 DEF JobSound
<1>4. /\ factors[f].status = "active" /\ Fresh(f, j.code.step)
      /\ factors' = [factors EXCEPT ![f].last_accepted_step = j.code.step]
      /\ work' = [work EXCEPT ![w] =
            [op |-> "issue", account |-> j.account, token |-> j.token]]
      /\ spent' = spent \cup {[code |-> j.code, transaction |-> j.token,
                               binding |-> j.binding]}
      /\ UNCHANGED <<clock, accounts, passwords, transactions, sessions, operated>>
  BY DEF ConsumeTotpStep, Accept, Continue
<1>5. factors[f] \in FactorRow
  BY <1>2, <1>3 DEF IInv, TypeOK, ActiveTotpFactor
<1>6. factors[f].last_accepted_step \in Nat /\ factors[f].last_accepted_step < j.code.step
  BY <1>2, <1>3, <1>4, <1>5, FactorFields, Times
     DEF IInv, FactorsSound, ActiveTotpFactor, Fresh
\* Every code of f accepted so far is of an earlier step.
<1>7. \A p \in spent : p.code.factor = f => p.code.step < j.code.step
  <2>1. \A p \in spent : p.code.step \in Nat
    BY SpentFields, CodeFields, Times DEF IInv, TypeOK
  <2>2. QED
    BY <2>1, <1>2, <1>6 DEF IInv, CodeAcceptedOnce
<1>8. /\ factors[f].active_since \in Step
      /\ factors' = [factors EXCEPT ![f] =
            [factors[f] EXCEPT !.status = "active", !.last_accepted_step = j.code.step,
                               !.active_since = factors[f].active_since]]
  BY <1>2, <1>4, <1>5 DEF IInv, TypeOK, FactorRow
<1>9. ActiveHasOneFactor'
  <2>1. /\ factors'[f] # None /\ factors'[f].account = factors[f].account
        /\ factors'[f].status = "active"
        /\ \A g \in Factor \ {f} : factors'[g] = factors[g]
    <3>1. factors'[f] = [factors[f] EXCEPT !.last_accepted_step = j.code.step]
      BY <1>2, <1>4 DEF IInv, TypeOK
    <3>2. factors'[f] \in FactorRow /\ factors'[f].account = factors[f].account
             /\ factors'[f].status = "active"
      BY <3>1, <1>2, <1>4, <1>5, CodeFields DEF FactorRow
    <3>3. QED
      BY <3>2, <1>4, Nones DEF IInv, TypeOK
  <2>2. QED
    BY <2>1, <1>3, <1>4, FactorsKept DEF ActiveTotpFactor
<1>10. accounts' \in [Account -> AccountState]
  BY <1>4 DEF IInv, TypeOK
<1>11. QED
  <2>1. PICK since \in Step : since = factors[f].active_since
    BY <1>8
  <2>2. since = IF factors[f].status = "active" THEN factors[f].active_since ELSE clock
    BY <2>1, <1>4
  <2>3. factors' = [factors EXCEPT ![f] =
           [factors[f] EXCEPT !.status = "active", !.last_accepted_step = j.code.step,
                              !.active_since = since]]
    BY <2>1, <1>8
  <2>4. QED
    BY <1>1, <1>2, <1>3, <1>4, <1>7, <1>9, <1>10, <2>2, <2>3, AcceptStep
       DEF ActiveTotpFactor

LEMMA IssueBrowserSessionStep ==
    ASSUME IInv, NEW w \in Worker, NEW s \in Family, IssueBrowserSession(w, s)
    PROVE  IInv'
<1> DEFINE j == work[w]
<1>1. j # None /\ j \in Job /\ j.op = "issue" /\ JobSound(j) /\ Holds(j)
  BY DEF IInv, TypeOK, JobsSound, IssueBrowserSession, At, Holds
<1>2. j.account \in Account /\ j.token \in Token
  BY <1>1, JobFields
<1>3. /\ Consumed(j.token, j.account)
      /\ \/ Backed(j.token, j.account)
         \/ Exempt(j.account, transactions[j.token].expires_at)
  BY <1>1 DEF JobSound
<1>4. /\ sessions[s] = None
      /\ sessions' = [sessions EXCEPT ![s] =
            [account |-> j.account, transaction |-> j.token]]
      /\ work' = [work EXCEPT ![w] = None]
      /\ UNCHANGED <<clock, accounts, passwords, factors, transactions, spent, operated>>
  BY DEF IssueBrowserSession, Continue, history
<1>5. /\ sessions'[s].account = j.account /\ sessions'[s].transaction = j.token
      /\ sessions'[s] \in SessionRow
      /\ \A r \in Family \ {s} : sessions'[r] = sessions[r]
      /\ work'[w] = None
      /\ \A v \in Worker \ {w} : work'[v] = work[v]
  BY <1>2, <1>4 DEF IInv, TypeOK, SessionRow
<1>6. TypeOK'
  BY <1>4, <1>5 DEF IInv, TypeOK
<1>7. Grows
  BY <1>4, Unmoved
<1>8. JobsSound'
  BY <1>5, <1>6, <1>7, JobsSoundNext
<1>9. OneHolder'
  <2>1. \A u, v \in Worker :
           (/\ work'[u] # None /\ Holds(work'[u])
            /\ work'[v] # None /\ Holds(work'[v])
            /\ work'[u].token = work'[v].token) => u = v
    BY <1>5 DEF IInv, OneHolder
  <2>2. \A r \in Family, v \in Worker :
           (sessions'[r] # None /\ work'[v] # None /\ Holds(work'[v])) =>
             sessions'[r].transaction # work'[v].token
    BY <1>1, <1>5 DEF IInv, OneHolder
  <2>3. QED
    BY <2>1, <2>2 DEF OneHolder, Holds
<1>10. /\ FactorsSound' /\ SpentSound' /\ CodeAcceptedOnce' /\ ConfirmedWhereShown'
       /\ ActiveHasOneFactor' /\ TransactionsSound'
  <2>1. FactorsSound' /\ SpentSound' /\ CodeAcceptedOnce' /\ ConfirmedWhereShown'
    BY <1>4 DEF IInv, FactorsSound, SpentSound, CodeAcceptedOnce, ConfirmedWhereShown
  <2>2. ActiveHasOneFactor'
    BY <1>4, FactorsKept
  <2>3. TransactionsSound'
    BY <1>4, <1>6, <1>7, RowsKept DEF TransactionsSound, Shown, Exempt
  <2>4. QED
    BY <2>1, <2>2, <2>3
<1>11. SessionsSound'
  BY <1>3, <1>4, <1>5 DEF IInv, SessionsSound, Consumed
<1>12. OneSessionPerTransaction'
  <2>1. \A r \in Family : sessions[r] # None => sessions[r].transaction # j.token
    BY <1>1 DEF IInv, OneHolder
  <2>2. QED
    BY <2>1, <1>4, <1>5 DEF IInv, OneSessionPerTransaction
<1>13. SecondFactorAlways'
  <2> SUFFICES ASSUME NEW r \in Family, sessions'[r] # None,
                      NEW t, NEW a, t = sessions'[r].transaction, a = sessions'[r].account
               PROVE  /\ transactions'[t].account = a
                      /\ Backed(t, a)' \/ Exempt(a, transactions[t].expires_at)'
    BY DEF SecondFactorAlways, Backed, Exempt
  <2>1. CASE r = s
    <3>1. transactions[t].account = a
            /\ (Backed(t, a) \/ Exempt(a, transactions[t].expires_at))
      BY <2>1, <1>3, <1>5 DEF Consumed
    <3>2. QED
      BY <3>1, <1>4 DEF Backed, Exempt, ActiveTotpFactor, ExpiresAt
  <2>2. CASE r # s
    BY <2>2, <1>5, <1>7, SecondFactorOld
  <2>3. QED
    BY <2>1, <2>2
<1>14. QED
  BY <1>6, <1>8, <1>9, <1>10, <1>11, <1>12, <1>13 DEF IInv

-----------------------------------------------------------------------------
(* The theorems. *)

LEMMA Inductive == IInv /\ [Next]_vars => IInv'
<1> SUFFICES ASSUME IInv, [Next]_vars PROVE IInv'
  OBVIOUS
<1>1. CASE UNCHANGED vars
  <2>1. UNCHANGED <<clock, accounts, passwords, factors, transactions, sessions, work,
                    spent, operated>>
    BY <1>1 DEF vars, tables, history
  <2>2. TypeOK'
    BY <2>1 DEF IInv, TypeOK
  <2>3. Grows
    BY <2>1, Unmoved
  <2>4. JobsSound'
    BY <2>1, <2>2, <2>3, JobsKept DEF JobsSound
  <2>5. OneHolder'
    BY <2>1 DEF IInv, OneHolder, Holds
  <2>6. ActiveHasOneFactor'
    BY <2>1, FactorsKept
  <2>7. QED
    BY <2>1, <2>2, <2>3, <2>4, <2>5, <2>6, QuietStep
<1>2. CASE Next
  BY <1>2, TickStep, StorePasswordVerifierStep, SetStateStep, AbandonStep,
     StartPasswordLoginStep, ChooseStageStep, CreateLoginTransactionStep,
     ConsumeLoginTransactionStep, CreatePendingFactorStep, ReadPendingFactorStep,
     ReadActiveFactorStep, ActivateFactorStep, ConsumeTotpStepStep,
     IssueBrowserSessionStep DEF Next
<1>3. QED
  BY <1>1, <1>2

LEMMA Invariance == Spec => []IInv
  BY IInvInit, Inductive, PTL DEF Spec

\* The tables and the requests hold only values of their types.
THEOREM TypeCorrect == Spec => []TypeOK
<1>1. IInv => TypeOK
  BY DEF IInv
<1>2. QED
  BY <1>1, Invariance, PTL

\* However many requests present the cookies of one login transaction, at whatever
\* moment each of them fails, no second session comes of it.
THEOREM OneSessionSafe == Spec => []OneSessionPerTransaction
<1>1. IInv => OneSessionPerTransaction
  BY DEF IInv
<1>2. QED
  BY <1>1, Invariance, PTL

\* Every session rests on a code of an active factor of its own account, accepted for
\* its own transaction, unless the account was without a factor when the login began,
\* by an operator's hand.
THEOREM SecondFactorSafe == Spec => []SecondFactorAlways
<1>1. IInv => SecondFactorAlways
  BY DEF IInv
<1>2. QED
  BY <1>1, Invariance, PTL

\* consume_totp_step and activate_totp_factor accept no code twice, whatever the
\* requests verified before.
THEOREM CodeSafe == Spec => []CodeAcceptedOnce
<1>1. IInv => CodeAcceptedOnce
  BY DEF IInv
<1>2. QED
  BY <1>1, Invariance, PTL

\* No account ever has two active factors, and one that no operator touched is active
\* exactly when it has one.
THEOREM OneFactorSafe == Spec => []ActiveHasOneFactor
<1>1. IInv => ActiveHasOneFactor
  BY DEF IInv
<1>2. QED
  BY <1>1, Invariance, PTL

\* A factor is activated by a code that came from the browser its seed was shown to.
THEOREM ConfirmedSafe == Spec => []ConfirmedWhereShown
<1>1. IInv => ConfirmedWhereShown
  BY DEF IInv
<1>2. QED
  BY <1>1, Invariance, PTL
=============================================================================
