------------------------ MODULE Administration_proofs ------------------------
(***************************************************************************)
(* Administration: every safety property, for any number of tenants,       *)
(* accounts, sessions, grants and concurrent requests.                     *)
(*                                                                         *)
(* The argument: only an owner has ManageRoles, and no change names the    *)
(* role of owner, so what a request read about its caller several          *)
(* statements ago still holds when it writes (JobsSound).  A TOTP step     *)
(* pays for one grant because last_step is ahead of all of them and an     *)
(* account never has a second factor (StepsOnce), and a grant for one      *)
(* event (OneHolder).  A row is inserted or deleted exactly when the event *)
(* that reports it is, which keeps the counts of AuditExplainsRoles.       *)
(***************************************************************************)
EXTENDS Administration, FiniteSetTheorems, TLAPS

IInv ==
    /\ TypeOK
    /\ RowsSound
    /\ JobsSound
    /\ StepsOnce
    /\ OneHolder
    /\ AuditSound
    /\ OneOwner
    /\ ChangedByOwner
    /\ AuditExplainsRoles

\* The steps accounts have accepted stay accepted.
LaterSteps ==
    \A a \in Account : last_step[a] # None =>
        last_step'[a] # None /\ last_step[a] <= last_step'[a]

\* No step takes anything back from an account, its step counter or a grant, and an
\* owner stays one.
Grows ==
    /\ \A a \in Account : accounts[a] # None =>
         /\ accounts'[a] # None
         /\ accounts'[a].tenant = accounts[a].tenant
         /\ "owner" \in roles[a] => "owner" \in roles'[a]
    /\ LaterSteps
    /\ \A g \in Grant : grants[g] # None =>
         /\ grants'[g] # None
         /\ grants'[g].account = grants[g].account
         /\ grants'[g].change = grants[g].change
         /\ grants'[g].step = grants[g].step
         /\ grants[g].consumed => grants'[g].consumed

NoNewGrant == \A g \in Grant : grants'[g] # None => grants[g] # None

NoNewFamily ==
    \A f \in Family : families'[f] # None =>
        families[f] # None /\ families'[f].account = families[f].account

\* The accounts of every tenant, and its owners, are the same ones.
SameOwners ==
    \A a \in Account :
        /\ accounts'[a] = None <=> accounts[a] = None
        /\ accounts[a] # None => accounts'[a].tenant = accounts[a].tenant
        /\ "owner" \in roles'[a] <=> "owner" \in roles[a]

-----------------------------------------------------------------------------
(* Types. *)

LEMMA Nones ==
    /\ None \notin Grant /\ None \notin AccountRow /\ None \notin FamilyRow
    /\ None \notin GrantRow /\ None \notin Job /\ None \notin Step
  BY NoneAssumption

LEMMA Numbers ==
    /\ Time \subseteq Step /\ Step \subseteq Nat /\ 0 \in Step
    /\ \A now \in Time : ExpiresAt(now) \in 0..(MaxClock + Lifetime)
  BY MaxClockAssumption, LifetimeAssumption DEF Time, Step, ExpiresAt

LEMMA AccountFields ==
    ASSUME NEW x \in AccountRow PROVE x.tenant \in Tenant /\ x.state \in AccountState
  BY DEF AccountRow

LEMMA FamilyFields ==
    ASSUME NEW x \in FamilyRow PROVE x.account \in Account /\ x.revoked \in BOOLEAN
  BY DEF FamilyRow

LEMMA GrantFields ==
    ASSUME NEW x \in GrantRow
    PROVE  /\ x.account \in Account /\ x.family \in Family /\ x.change \in Change
           /\ x.step \in Step /\ x.consumed \in BOOLEAN
  BY DEF GrantRow

LEMMA ChangeFields ==
    ASSUME NEW x \in Change
    PROVE  /\ x.account \in Account /\ x.role \in Role /\ x.grant \in BOOLEAN
           /\ x = [account |-> x.account, role |-> x.role, grant |-> x.grant]
  BY DEF Change

LEMMA EventFields ==
    ASSUME NEW e \in Event
    PROVE  /\ e.account \in Account /\ e.role \in Role /\ e.grant \in BOOLEAN
           /\ e.actor \in Account /\ e.token \in Grant \cup {None}
  BY DEF Event

\* What a request carries, by its statement.
LEMMA JobFields ==
    ASSUME NEW j \in Job
    PROVE  /\ j.op \in {"roles", "invite", "prove", "consume", "create", "change"}
           /\ j.account \in Account
           /\ j.op = "roles" => j.kind \in Kind /\ j.family \in Family
           /\ j.op \in {"prove", "consume", "create"} => j.family \in Family /\ j.now \in Time
           /\ j.op = "create" => j.step \in Step
           /\ j.op = "change" => j.change \in Change /\ j.token \in Grant
  BY DEF Job

-----------------------------------------------------------------------------
(* The initial states. *)

LEMMA IInvInit == Init => IInv
<1> SUFFICES ASSUME Init PROVE IInv
  OBVIOUS
<1>1. TypeOK
  BY MaxClockAssumption, Numbers DEF Init, TypeOK, Time
<1>2. RowsSound /\ JobsSound /\ StepsOnce
  BY DEF Init, RowsSound, JobsSound, StepsOnce, At
<1>3. OneHolder /\ AuditSound /\ ChangedByOwner
  BY DEF Init, OneHolder, AuditSound, ChangedByOwner, At
<1>4. OneOwner
  BY DEF Init, OneOwner
<1>5. AuditExplainsRoles
  <2>1. 1..Len(audit) = {}
    BY DEF Init
  <2>2. \A a \in Account, r \in Role, grant \in BOOLEAN : Reports(a, r, grant) = {}
    BY <2>1 DEF Reports
  <2>3. \A a \in Account : roles[a] = {}
    BY DEF Init
  <2>4. \A a \in Account, r \in Role, grant \in BOOLEAN :
           Cardinality(Reports(a, r, grant)) = 0
    BY <2>2, FS_EmptySet
  <2>5. ASSUME NEW a \in Account, NEW r \in Role
        PROVE  Cardinality(Reports(a, r, TRUE)) =
                 Cardinality(Reports(a, r, FALSE)) + (IF r \in roles[a] THEN 1 ELSE 0)
    <3>1. (IF r \in roles[a] THEN 1 ELSE 0) = 0
      BY <2>3
    <3>2. Cardinality(Reports(a, r, TRUE)) = 0 /\ Cardinality(Reports(a, r, FALSE)) = 0
      BY <2>4
    <3>3. 0 = 0 + 0
      OBVIOUS
    <3>4. QED
      BY <3>1, <3>2, <3>3, Zenon
  <2>6. QED
    BY <2>5 DEF AuditExplainsRoles
<1>6. QED
  BY <1>1, <1>2, <1>3, <1>4, <1>5 DEF IInv

-----------------------------------------------------------------------------
(* Frames. *)

LEMMA Steps ==
    ASSUME TypeOK
    PROVE  \A a \in Account : last_step[a] # None => last_step[a] \in Nat
  BY Numbers DEF TypeOK

LEMMA SameSteps == ASSUME IInv, last_step' = last_step PROVE LaterSteps
<1>1. \A a \in Account : last_step[a] # None => last_step[a] <= last_step[a]
  BY Steps DEF IInv
<1>2. QED
  BY <1>1 DEF LaterSteps

LEMMA ProvedKept ==
    ASSUME IInv, TypeOK', Grows, NEW a \in Account, NEW step \in Step, Proved(a, step)
    PROVE  Proved(a, step)'
<1>1. step \in Nat
  BY Numbers
<1>2. /\ last_step[a] # None /\ last_step'[a] # None
      /\ step <= last_step[a] /\ last_step[a] <= last_step'[a]
      /\ accounts'[a] # None
  BY DEF Proved, Grows, LaterSteps
<1>3. last_step[a] \in Nat /\ last_step'[a] \in Nat
  BY <1>2, Numbers DEF IInv, TypeOK
<1>4. step <= last_step'[a]
  BY <1>1, <1>2, <1>3
<1>5. QED
  BY <1>2, <1>4 DEF Proved

LEMMA SpentOnKept ==
    ASSUME Grows, NEW g \in Grant, NEW a, NEW change, SpentOn(g, a, change)
    PROVE  SpentOn(g, a, change)'
  BY DEF Grows, SpentOn

\* Requests that do not move do not notice a step.
LEMMA JobKept ==
    ASSUME IInv, TypeOK', Grows, NEW v \in Worker, work[v] # None, work'[v] = work[v]
    PROVE  JobSound(work[v])'
<1>0. PICK j : j = work[v]
  OBVIOUS
<1>1. j \in Job /\ JobSound(j)
  BY <1>0 DEF IInv, TypeOK, JobsSound
<1>2. j.account \in Account /\ accounts[j.account] # None
  BY <1>1, JobFields DEF JobSound
<1>3. accounts'[j.account] # None
  BY <1>2 DEF Grows
<1>4. j.op \in {"prove", "consume", "create", "change"} => "owner" \in roles'[j.account]
  BY <1>1, <1>2 DEF JobSound, Grows
<1>5. j.op = "create" => Proved(j.account, j.step)'
  BY <1>1, <1>2, JobFields, ProvedKept DEF JobSound
<1>6. j.op = "change" =>
         j.change.role # "owner" /\ SpentOn(j.token, j.account, j.change)'
  BY <1>1, JobFields, SpentOnKept DEF JobSound
<1>7. JobSound(j)'
  BY <1>3, <1>4, <1>5, <1>6 DEF JobSound
<1>8. QED
  BY <1>0, <1>7 DEF JobSound, Proved, SpentOn

LEMMA JobsSoundNext ==
    ASSUME IInv, TypeOK', Grows, NEW w \in Worker,
           \A v \in Worker \ {w} : work'[v] = work[v],
           work'[w] # None => JobSound(work[w])'
    PROVE  JobsSound'
<1> SUFFICES ASSUME NEW v \in Worker, work'[v] # None PROVE JobSound(work[v])'
  BY DEF JobsSound
<1>1. CASE v = w
  BY <1>1
<1>2. CASE v # w
  BY <1>2, JobKept
<1>3. QED
  BY <1>1, <1>2

LEMMA JobsKept == ASSUME IInv, TypeOK', Grows, work' = work PROVE JobsSound'
  BY JobKept DEF JobsSound

\* The rows that other rows name do not go away.
LEMMA FamiliesKept ==
    ASSUME IInv, Grows, NoNewFamily
    PROVE  \A f \in Family : families'[f] # None => accounts'[families'[f].account] # None
<1>1. \A f \in Family : families[f] # None => families[f].account \in Account
  BY FamilyFields DEF IInv, TypeOK
<1>2. QED
  BY <1>1 DEF IInv, RowsSound, NoNewFamily, Grows

LEMMA GrantKept ==
    ASSUME IInv, TypeOK', Grows, NEW g \in Grant, grants[g] # None
    PROVE  Proved(grants[g].account, grants[g].step)'
<1>1. PICK x : x = grants[g]
  OBVIOUS
<1>2. x \in GrantRow /\ Proved(x.account, x.step)
  BY <1>1 DEF IInv, TypeOK, RowsSound
<1>3. Proved(x.account, x.step)'
  BY <1>2, GrantFields, ProvedKept
<1>4. grants'[g].account = x.account /\ grants'[g].step = x.step
  BY <1>1 DEF Grows
<1>5. QED
  BY <1>3, <1>4 DEF Proved

LEMMA RowsKept ==
    ASSUME IInv, TypeOK', Grows, NoNewFamily, NoNewGrant,
           \A a \in Account : accounts'[a] = None => roles'[a] = {}
    PROVE  RowsSound'
<1>1. \A g \in Grant : grants'[g] # None =>
         Proved(grants[g].account, grants[g].step)'
  BY GrantKept DEF NoNewGrant
<1>2. QED
  BY <1>1, FamiliesKept DEF RowsSound, Proved

\* Every request at a statement that matters was there before, with the same contents.
LEMMA StepsOnceKept ==
    ASSUME IInv, Grows, NoNewGrant,
           \A w \in Worker : At(w, "create")' =>
              /\ At(w, "create")
              /\ work'[w].account = work[w].account /\ work'[w].step = work[w].step
    PROVE  StepsOnce'
<1>1. \A g \in Grant : grants'[g] # None =>
         /\ grants[g] # None /\ grants'[g].account = grants[g].account
         /\ grants'[g].step = grants[g].step
  BY DEF Grows, NoNewGrant
<1>2. \A g, h \in Grant :
         (/\ grants'[g] # None /\ grants'[h] # None
          /\ grants'[g].account = grants'[h].account
          /\ grants'[g].step = grants'[h].step) => g = h
  BY <1>1 DEF IInv, StepsOnce
<1>3. \A w, v \in Worker :
         (/\ At(w, "create")' /\ At(v, "create")'
          /\ work'[w].account = work'[v].account
          /\ work'[w].step = work'[v].step) => w = v
  BY DEF IInv, StepsOnce
<1>4. \A g \in Grant, w \in Worker :
         (/\ grants'[g] # None /\ At(w, "create")'
          /\ grants'[g].account = work'[w].account) => grants'[g].step # work'[w].step
  BY <1>1 DEF IInv, StepsOnce
<1>5. QED
  BY <1>2, <1>3, <1>4 DEF StepsOnce

LEMMA HolderKept ==
    ASSUME IInv, audit' = audit,
           \A w \in Worker : At(w, "change")' =>
              At(w, "change") /\ work'[w].token = work[w].token
    PROVE  OneHolder'
<1>1. \A w, v \in Worker :
         (At(w, "change")' /\ At(v, "change")' /\ work'[w].token = work'[v].token) => w = v
  BY DEF IInv, OneHolder
<1>2. \A w \in Worker, i \in 1..Len(audit) :
         At(w, "change")' => audit[i].token # work'[w].token
  BY DEF IInv, OneHolder
<1>3. QED
  BY <1>1, <1>2 DEF IInv, OneHolder

LEMMA Events ==
    ASSUME IInv, NEW i \in 1..Len(audit)
    PROVE  /\ audit[i] \in Event /\ audit[i].actor \in Account /\ audit[i].account \in Account
           /\ accounts[audit[i].actor] # None /\ accounts[audit[i].account] # None
<1>1. audit \in Seq(Event)
  BY DEF IInv, TypeOK
<1>2. audit[i] \in Event
  BY <1>1
<1>3. QED
  BY <1>2, EventFields DEF IInv, AuditSound

\* What an event says of the tables stays true.
EventSound(e) ==
    /\ accounts[e.actor] # None /\ accounts[e.account] # None
    /\ accounts[e.actor].tenant = accounts[e.account].tenant
    /\ \/ "owner" \in roles[e.actor]
       \/ e.token = None /\ e.role \notin {"owner", "admin"}
    /\ e.token # None =>
         SpentOn(e.token, e.actor,
                 [account |-> e.account, role |-> e.role, grant |-> e.grant])

LEMMA EventKept ==
    ASSUME IInv, Grows, NEW i \in 1..Len(audit)
    PROVE  /\ EventSound(audit[i])
           /\ \A e : e = audit[i] => EventSound(e)'
<1>1. EventSound(audit[i])
  BY DEF IInv, AuditSound, ChangedByOwner, EventSound
<1> SUFFICES ASSUME NEW e, e = audit[i] PROVE EventSound(e)'
  BY <1>1
<1>2. e \in Event /\ EventSound(e)
  BY <1>1, Events
<1>3. /\ e.actor \in Account /\ e.account \in Account
      /\ e.token # None => e.token \in Grant
  BY <1>2, EventFields
<1>4. e.token # None =>
        SpentOn(e.token, e.actor,
                [account |-> e.account, role |-> e.role, grant |-> e.grant])'
  BY <1>2, <1>3, SpentOnKept DEF EventSound
<1>5. QED
  BY <1>2, <1>3, <1>4 DEF EventSound, Grows

LEMMA AuditKept ==
    ASSUME IInv, Grows, audit' = audit PROVE AuditSound' /\ ChangedByOwner'
<1>1. \A i \in 1..Len(audit') : EventSound(audit[i])'
  <2> SUFFICES ASSUME NEW i \in 1..Len(audit) PROVE EventSound(audit[i])'
    OBVIOUS
  <2>1. PICK e : e = audit[i]
    OBVIOUS
  <2>2. EventSound(e)'
    BY <2>1, EventKept
  <2>3. QED
    BY <2>1, <2>2 DEF EventSound, SpentOn
<1>2. QED
  BY <1>1 DEF AuditSound, ChangedByOwner, EventSound

LEMMA OwnersKept == ASSUME IInv, SameOwners PROVE OneOwner'
<1> SUFFICES ASSUME NEW a \in Account, accounts'[a] # None
             PROVE  \E o \in Account : {o} = OwnersOf(accounts[a].tenant)'
  BY DEF OneOwner
<1>1. PICK n : n = accounts[a].tenant
  OBVIOUS
<1>2. accounts[a] # None /\ accounts'[a].tenant = n
  BY <1>1 DEF SameOwners
<1>3. PICK o \in Account : {o} = OwnersOf(n)
  BY <1>1, <1>2 DEF IInv, OneOwner
<1>4. OwnersOf(n)' = OwnersOf(n)
  BY DEF OwnersOf, SameOwners
<1>5. QED
  BY <1>2, <1>3, <1>4 DEF OwnersOf

\* A step that changes no role.
LEMMA CalmStep ==
    ASSUME IInv, TypeOK', Grows, SameOwners, UNCHANGED <<roles, audit>>,
           RowsSound', JobsSound', StepsOnce', OneHolder'
    PROVE  IInv'
<1>1. AuditExplainsRoles'
  BY DEF IInv, AuditExplainsRoles, Reports
<1>2. QED
  BY <1>1, AuditKept, OwnersKept DEF IInv

LEMMA Unmoved ==
    ASSUME IInv, UNCHANGED <<accounts, roles, last_step, grants>>
    PROVE  Grows /\ NoNewGrant /\ SameOwners
<1>1. LaterSteps
  BY SameSteps
<1>2. QED
  BY <1>1 DEF Grows, NoNewGrant, SameOwners

\* A request goes on with a sound job that holds nothing yet, or ends.
LEMMA WorkStep ==
    ASSUME IInv, UNCHANGED <<clock, accounts, roles, families, last_step, grants, audit>>,
           NEW w \in Worker, NEW job \in Job \cup {None},
           job # None => JobSound(job) /\ job.op \notin {"create", "change"},
           work' = [work EXCEPT ![w] = job]
    PROVE  IInv'
<1>1. TypeOK'
  BY DEF IInv, TypeOK
<1>2. work'[w] = job /\ \A v \in Worker \ {w} : work'[v] = work[v]
  BY DEF IInv, TypeOK
<1>3. Grows /\ NoNewGrant /\ SameOwners
  BY Unmoved
<1>4. JobsSound'
  <2>1. work'[w] # None => JobSound(work[w])'
    BY <1>2 DEF JobSound, Proved, SpentOn
  <2>2. QED
    BY <2>1, <1>1, <1>2, <1>3, JobsSoundNext
<1>5. \A v \in Worker : At(v, "create")' => At(v, "create") /\ work'[v] = work[v]
  BY <1>2 DEF At
<1>6. \A v \in Worker : At(v, "change")' => At(v, "change") /\ work'[v] = work[v]
  BY <1>2 DEF At
<1>7. StepsOnce'
  BY <1>3, <1>5, StepsOnceKept
<1>8. OneHolder'
  BY <1>6, HolderKept
<1>9. RowsSound'
  BY DEF IInv, RowsSound, Proved
<1>10. QED
  BY <1>1, <1>3, <1>4, <1>7, <1>8, <1>9, CalmStep

\* A step that is not one of a request, and leaves grants and roles alone.
LEMMA OutsideStep ==
    ASSUME IInv, TypeOK', Grows, SameOwners, RowsSound',
           UNCHANGED <<roles, grants, audit, work>>
    PROVE  IInv'
<1>1. JobsSound'
  BY JobsKept
<1>2. StepsOnce'
  BY StepsOnceKept DEF At, NoNewGrant
<1>3. OneHolder'
  BY HolderKept DEF At
<1>4. QED
  BY <1>1, <1>2, <1>3, CalmStep

-----------------------------------------------------------------------------
(* The audit trail: an event is logged with the one change of roles it reports. *)

Logged(e) ==
    /\ audit' = Append(audit, e)
    /\ e.grant <=> e.role \notin roles[e.account]
    /\ e.grant <=> e.role \in roles'[e.account]
    /\ \A a \in Account, r \in Role : (a # e.account \/ r # e.role) =>
         (r \in roles'[a] <=> r \in roles[a])

LEMMA Appended ==
    ASSUME IInv, NEW e \in Event, audit' = Append(audit, e)
    PROVE  /\ Len(audit) \in Nat /\ Len(audit') = Len(audit) + 1
           /\ \A i \in 1..Len(audit) : audit'[i] = audit[i]
           /\ audit'[Len(audit) + 1] = e
           /\ audit' \in Seq(Event)
           /\ 1..Len(audit') = 1..Len(audit) \cup {Len(audit) + 1}
<1>1. audit \in Seq(Event)
  BY DEF IInv, TypeOK
<1>2. QED
  BY <1>1

LEMMA AuditExplainsNext ==
    ASSUME IInv, NEW e \in Event, Logged(e) PROVE AuditExplainsRoles'
<1> DEFINE n == Len(audit) + 1
<1>1. /\ Len(audit) \in Nat /\ Len(audit') = n
      /\ \A i \in 1..Len(audit) : audit'[i] = audit[i]
      /\ audit'[n] = e
      /\ 1..Len(audit') = 1..Len(audit) \cup {n}
  BY Appended DEF Logged
<1>2. \A a, r, grant : IsFiniteSet(Reports(a, r, grant))
  <2>1. IsFiniteSet(1..Len(audit))
    BY <1>1, FS_Interval
  <2>2. \A a, r, grant : Reports(a, r, grant) \in SUBSET (1..Len(audit))
    BY DEF Reports
  <2>3. QED
    BY <2>1, <2>2, FS_Subset
<1>3. \A a, r, grant :
         Reports(a, r, grant)' = IF e.account = a /\ e.role = r /\ e.grant = grant
                                 THEN Reports(a, r, grant) \cup {n}
                                 ELSE Reports(a, r, grant)
  BY <1>1 DEF Reports
<1>4. \A a, r, grant : n \notin Reports(a, r, grant)
  BY <1>1 DEF Reports
<1> HIDE DEF n
<1> SUFFICES ASSUME NEW a \in Account, NEW r \in Role
             PROVE  Cardinality(Reports(a, r, TRUE)') =
                      Cardinality(Reports(a, r, FALSE)')
                        + (IF r \in roles'[a] THEN 1 ELSE 0)
  BY DEF AuditExplainsRoles, Reports
<1> DEFINE granted == Reports(a, r, TRUE)
           revoked == Reports(a, r, FALSE)
<1>5. /\ Cardinality(granted) \in Nat /\ Cardinality(revoked) \in Nat
      /\ Cardinality(granted \cup {n}) = Cardinality(granted) + 1
      /\ Cardinality(revoked \cup {n}) = Cardinality(revoked) + 1
  BY <1>2, <1>4, FS_CardinalityType, FS_AddElement
<1>6. PICK x \in Nat : x = Cardinality(granted)
  BY <1>5
<1>7. PICK y \in Nat : y = Cardinality(revoked)
  BY <1>5
<1>8. Cardinality(granted) = Cardinality(revoked) + (IF r \in roles[a] THEN 1 ELSE 0)
  BY DEF IInv, AuditExplainsRoles
<1>9. e.grant \in BOOLEAN
  BY EventFields
<1>10. CASE e.account = a /\ e.role = r /\ e.grant
  <2>1. r \notin roles[a] /\ r \in roles'[a]
    BY <1>10 DEF Logged
  <2>2. Reports(a, r, TRUE)' = granted \cup {n} /\ Reports(a, r, FALSE)' = revoked
    BY <1>3, <1>9, <1>10
  <2>3. x = y
    <3>1. (IF r \in roles[a] THEN 1 ELSE 0) = 0
      BY <2>1
    <3>2. x = y + 0
      BY <3>1, <1>6, <1>7, <1>8, Zenon
    <3>3. QED
      BY <3>2
  <2>4. Cardinality(Reports(a, r, TRUE)') = x + 1 /\ Cardinality(Reports(a, r, FALSE)') = y
    BY <2>2, <1>5, <1>6, <1>7
  <2>5. QED
    BY <2>1, <2>3, <2>4
<1>11. CASE e.account = a /\ e.role = r /\ ~ e.grant
  <2>1. r \in roles[a] /\ r \notin roles'[a]
    BY <1>11 DEF Logged
  <2>2. Reports(a, r, TRUE)' = granted /\ Reports(a, r, FALSE)' = revoked \cup {n}
    BY <1>3, <1>9, <1>11
  <2>3. x = y + 1
    BY <2>1, <1>8, <1>6, <1>7
  <2>4. Cardinality(Reports(a, r, TRUE)') = x /\ Cardinality(Reports(a, r, FALSE)') = y + 1
    BY <2>2, <1>5, <1>6, <1>7
  <2>5. (IF r \in roles'[a] THEN 1 ELSE 0) = 0
    BY <2>1
  <2>6. x = (y + 1) + 0
    BY <2>3
  <2>7. QED
    BY <2>4, <2>5, <2>6, Zenon
<1>12. CASE ~ (e.account = a /\ e.role = r)
  <2>1. r \in roles'[a] <=> r \in roles[a]
    BY <1>12 DEF Logged
  <2>2. Reports(a, r, TRUE)' = granted /\ Reports(a, r, FALSE)' = revoked
    BY <1>3, <1>12
  <2>3. QED
    BY <2>1, <2>2, <1>8
<1>13. QED
  BY <1>9, <1>10, <1>11, <1>12

\* The new event is as sound as the old ones.
LEMMA AuditNext ==
    ASSUME IInv, Grows, NEW e \in Event, audit' = Append(audit, e), EventSound(e)'
    PROVE  AuditSound' /\ ChangedByOwner'
<1>1. /\ \A i \in 1..Len(audit) : audit'[i] = audit[i]
      /\ audit'[Len(audit) + 1] = e
      /\ 1..Len(audit') = 1..Len(audit) \cup {Len(audit) + 1}
  BY Appended
<1>2. \A i \in 1..Len(audit') : EventSound(audit[i])'
  <2> SUFFICES ASSUME NEW i \in 1..Len(audit') PROVE EventSound(audit[i])'
    OBVIOUS
  <2>1. PICK x : x = audit'[i]
    OBVIOUS
  <2>2. EventSound(x)'
    BY <2>1, <1>1, EventKept
  <2>3. QED
    BY <2>1, <2>2 DEF EventSound, SpentOn
<1>3. QED
  BY <1>2 DEF AuditSound, ChangedByOwner, EventSound

\* A new event spends no grant, or the one that request w held.
LEMMA HolderNext ==
    ASSUME IInv, NEW e \in Event, audit' = Append(audit, e),
           \A v \in Worker : At(v, "change")' => At(v, "change") /\ work'[v] = work[v],
           e.token # None =>
              \E w \in Worker :
                 At(w, "change") /\ ~ At(w, "change")' /\ work[w].token = e.token
    PROVE  OneHolder'
<1>1. /\ \A i \in 1..Len(audit) : audit'[i] = audit[i]
      /\ audit'[Len(audit) + 1] = e
      /\ 1..Len(audit') = 1..Len(audit) \cup {Len(audit) + 1}
  BY Appended
<1>2. \A w, v \in Worker :
         (At(w, "change")' /\ At(v, "change")' /\ work'[w].token = work'[v].token) => w = v
  BY DEF IInv, OneHolder
<1>3. \A v \in Worker : At(v, "change") => work[v].token # None
  BY JobFields, Nones DEF IInv, TypeOK, At
<1>4. \A w \in Worker, i \in 1..Len(audit') :
         At(w, "change")' => audit'[i].token # work'[w].token
  BY <1>1, <1>3 DEF IInv, OneHolder
<1>5. \A i \in 1..Len(audit) : e.token # None => audit[i].token # e.token
  BY DEF IInv, OneHolder
<1>6. \A i, k \in 1..Len(audit') :
         (audit'[i].token # None /\ audit'[i].token = audit'[k].token) => i = k
  BY <1>1, <1>5 DEF IInv, OneHolder
<1>7. QED
  BY <1>2, <1>4, <1>6 DEF OneHolder

\* A step that logs a change of roles.
LEMMA LoggedStep ==
    ASSUME IInv, TypeOK', Grows, NEW e \in Event, Logged(e), EventSound(e)',
           UNCHANGED <<families, last_step, grants>>,
           OneOwner', JobsSound',
           \A a \in Account : accounts'[a] = None => roles'[a] = {},
           \A v \in Worker : At(v, "create")' => At(v, "create") /\ work'[v] = work[v],
           \A v \in Worker : At(v, "change")' => At(v, "change") /\ work'[v] = work[v],
           e.token # None =>
              \E w \in Worker :
                 At(w, "change") /\ ~ At(w, "change")' /\ work[w].token = e.token
    PROVE  IInv'
<1>1. audit' = Append(audit, e)
  BY DEF Logged
<1>2. NoNewGrant /\ NoNewFamily
  BY DEF NoNewGrant, NoNewFamily
<1>3. RowsSound'
  BY <1>2, RowsKept
<1>4. StepsOnce'
  BY <1>2, StepsOnceKept
<1>5. OneHolder'
  BY <1>1, HolderNext
<1>6. AuditSound' /\ ChangedByOwner'
  BY <1>1, AuditNext
<1>7. AuditExplainsRoles'
  BY AuditExplainsNext
<1>8. QED
  BY <1>3, <1>4, <1>5, <1>6, <1>7 DEF IInv

-----------------------------------------------------------------------------
(* The world around the requests. *)

LEMMA TickStep == ASSUME IInv, Tick PROVE IInv'
<1>1. TypeOK'
  BY MaxClockAssumption DEF IInv, TypeOK, Tick, Time
<1>2. Grows /\ SameOwners
  BY Unmoved DEF Tick
<1>3. RowsSound'
  BY DEF IInv, RowsSound, Proved, Tick
<1>4. QED
  BY <1>1, <1>2, <1>3, OutsideStep DEF Tick

\* The state of an account moves on; what is spent on the account stays spent.
LEMMA StateStep ==
    ASSUME IInv, NEW a \in Account, accounts[a] # None, NEW state \in AccountState,
           accounts' = [accounts EXCEPT ![a].state = state],
           last_step' \in [Account -> Step \cup {None}], LaterSteps,
           UNCHANGED <<clock, roles, families, grants, audit, work>>
    PROVE  IInv'
<1>1. /\ accounts'[a] = [accounts[a] EXCEPT !.state = state]
      /\ \A b \in Account \ {a} : accounts'[b] = accounts[b]
      /\ accounts[a] \in AccountRow
  BY DEF IInv, TypeOK
<1>2. /\ accounts'[a] \in AccountRow /\ accounts'[a].tenant = accounts[a].tenant
      /\ accounts'[a].state = state
  BY <1>1 DEF AccountRow
<1>3. TypeOK'
  BY <1>1, <1>2 DEF IInv, TypeOK
<1>4. accounts'[a] # None
  BY <1>2, Nones
<1>5. Grows /\ SameOwners /\ NoNewGrant /\ NoNewFamily
  BY <1>1, <1>2, <1>4 DEF Grows, SameOwners, NoNewGrant, NoNewFamily
<1>6. \A b \in Account : accounts'[b] = None => roles'[b] = {}
  BY <1>1, <1>4 DEF IInv, RowsSound
<1>7. RowsSound'
  BY <1>3, <1>5, <1>6, RowsKept
<1>8. QED
  BY <1>3, <1>5, <1>7, OutsideStep

\* An account that enrolls has accepted no step before: its counter is set freely.
LEMMA EnrollStep ==
    ASSUME IInv, NEW a \in Account, NEW step \in Step, Enroll(a, step) PROVE IInv'
<1>1. last_step' \in [Account -> Step \cup {None}]
  BY DEF IInv, TypeOK, Enroll
<1>2. \A b \in Account : last_step[b] # None => last_step'[b] = last_step[b]
  BY DEF IInv, TypeOK, Enroll
<1>3. \A b \in Account : last_step[b] # None => last_step[b] <= last_step[b]
  BY Steps DEF IInv
<1>4. LaterSteps
  BY <1>2, <1>3 DEF LaterSteps
<1>5. accounts[a] # None /\ accounts' = [accounts EXCEPT ![a].state = "active"]
  BY DEF Enroll
<1>6. QED
  BY <1>1, <1>4, <1>5, StateStep DEF Enroll, AccountState

LEMMA SetStateStep ==
    ASSUME IInv, NEW a \in Account, NEW state \in Operable, SetState(a, state)
    PROVE  IInv'
<1>1. last_step' \in [Account -> Step \cup {None}] /\ last_step' = last_step
  BY DEF IInv, TypeOK, SetState
<1>2. state \in AccountState
  BY OperableAssumption
<1>3. LaterSteps
  BY <1>1, SameSteps
<1>4. accounts[a] # None /\ accounts' = [accounts EXCEPT ![a].state = state]
  BY DEF SetState
<1>5. QED
  BY <1>1, <1>2, <1>3, <1>4, StateStep DEF SetState

\* A step that only touches session families.
LEMMA FamilyStep ==
    ASSUME IInv, UNCHANGED <<clock, accounts, roles, last_step, grants, audit, work>>,
           families' \in [Family -> FamilyRow \cup {None}],
           \A f \in Family : families'[f] # None => accounts[families'[f].account] # None
    PROVE  IInv'
<1>1. TypeOK'
  BY DEF IInv, TypeOK
<1>2. Grows /\ SameOwners
  BY Unmoved
<1>3. RowsSound'
  BY DEF IInv, RowsSound, Proved
<1>4. QED
  BY <1>1, <1>2, <1>3, OutsideStep

LEMMA SignInStep ==
    ASSUME IInv, NEW a \in Account, NEW f \in Family, SignIn(a, f) PROVE IInv'
<1>1. [account |-> a, revoked |-> FALSE] \in FamilyRow
  BY DEF FamilyRow
<1>2. families' \in [Family -> FamilyRow \cup {None}]
  BY <1>1 DEF IInv, TypeOK, SignIn
<1>3. accounts[a] # None
  BY DEF SignIn, Active
<1>4. families'[f].account = a /\ \A h \in Family \ {f} : families'[h] = families[h]
  BY DEF IInv, TypeOK, SignIn
<1>5. \A h \in Family : families'[h] # None => accounts[families'[h].account] # None
  BY <1>3, <1>4 DEF IInv, RowsSound
<1>6. QED
  BY <1>2, <1>5, FamilyStep DEF SignIn

LEMMA RevokeFamilyStep == ASSUME IInv, NEW f \in Family, RevokeFamily(f) PROVE IInv'
<1>1. /\ families'[f] = [families[f] EXCEPT !.revoked = TRUE]
      /\ \A h \in Family \ {f} : families'[h] = families[h]
      /\ families[f] \in FamilyRow
  BY DEF IInv, TypeOK, RevokeFamily
<1>2. families'[f] \in FamilyRow /\ families'[f].account = families[f].account
  BY <1>1 DEF FamilyRow
<1>3. families' \in [Family -> FamilyRow \cup {None}]
  BY <1>1, <1>2 DEF IInv, TypeOK, RevokeFamily
<1>4. \A h \in Family : families'[h] # None => accounts[families'[h].account] # None
  BY <1>1, <1>2 DEF IInv, RowsSound, RevokeFamily
<1>5. QED
  BY <1>3, <1>4, FamilyStep DEF RevokeFamily

LEMMA AbandonStep == ASSUME IInv, NEW w \in Worker, Abandon(w) PROVE IInv'
  BY WorkStep DEF Abandon

-----------------------------------------------------------------------------
(* Accounts. *)

LEMMA Jobs ==
    ASSUME IInv, NEW w \in Worker, work[w] # None
    PROVE  /\ work[w] \in Job /\ work[w].account \in Account /\ JobSound(work[w])
           /\ accounts[work[w].account] # None
  BY JobFields DEF IInv, TypeOK, JobsSound, JobSound

\* A new account a of tenant n, with one role, as a request or an operator adds it.
LEMMA NewAccountFrame ==
    ASSUME IInv, NEW a \in Account, NEW n \in Tenant, NEW role \in Role,
           accounts[a] = None, NewAccount(a, n), roles' = [roles EXCEPT ![a] = {role}],
           UNCHANGED <<last_step, grants>>
    PROVE  /\ accounts' \in [Account -> AccountRow \cup {None}]
           /\ roles' \in [Account -> SUBSET Role]
           /\ accounts'[a] # None /\ accounts'[a].tenant = n
           /\ \A b \in Account \ {a} : accounts'[b] = accounts[b] /\ roles'[b] = roles[b]
           /\ roles[a] = {} /\ roles'[a] = {role}
           /\ Grows
           /\ \A b \in Account : accounts'[b] = None => roles'[b] = {}
<1>1. [tenant |-> n, state |-> "mfa_enrollment_required"] \in AccountRow
  BY DEF AccountRow, AccountState
<1>2. accounts' \in [Account -> AccountRow \cup {None}] /\ roles' \in [Account -> SUBSET Role]
  BY <1>1 DEF IInv, TypeOK, NewAccount
<1>3. accounts'[a] # None /\ accounts'[a].tenant = n
  BY <1>1, Nones DEF IInv, TypeOK, NewAccount
<1>4. \A b \in Account \ {a} : accounts'[b] = accounts[b] /\ roles'[b] = roles[b]
  BY DEF IInv, TypeOK, NewAccount
<1>5. roles[a] = {} /\ roles'[a] = {role}
  BY DEF IInv, TypeOK, RowsSound
<1>6. Grows
  <2>1. LaterSteps
    BY SameSteps
  <2>2. QED
    BY <2>1, <1>4 DEF Grows
<1>7. \A b \in Account : accounts'[b] = None => roles'[b] = {}
  BY <1>3, <1>4 DEF IInv, RowsSound
<1>8. QED
  BY <1>2, <1>3, <1>4, <1>5, <1>6, <1>7

LEMMA BootstrapTenantStep ==
    ASSUME IInv, NEW n \in Tenant, NEW a \in Account, BootstrapTenant(n, a) PROVE IInv'
<1> DEFINE e == [account |-> a, role |-> "owner", grant |-> TRUE, actor |-> a,
                 token |-> None]
<1>1. "owner" \in Role /\ e \in Event
  BY DEF Role, Event
<1>2. /\ accounts' \in [Account -> AccountRow \cup {None}]
      /\ roles' \in [Account -> SUBSET Role]
      /\ accounts'[a] # None /\ accounts'[a].tenant = n
      /\ \A b \in Account \ {a} : accounts'[b] = accounts[b] /\ roles'[b] = roles[b]
      /\ roles[a] = {} /\ roles'[a] = {"owner"}
      /\ Grows
      /\ \A b \in Account : accounts'[b] = None => roles'[b] = {}
  BY <1>1, NewAccountFrame DEF BootstrapTenant
<1>3. Logged(e)
  BY <1>2 DEF BootstrapTenant, InsertAudit, Logged
<1>4. TypeOK'
  BY <1>1, <1>2, <1>3, Appended DEF IInv, TypeOK, BootstrapTenant, Logged
<1>5. EventSound(e)'
  BY <1>2 DEF EventSound
<1>6. OneOwner'
  <2> SUFFICES ASSUME NEW b \in Account, accounts'[b] # None
               PROVE  \E o \in Account : {o} = OwnersOf(accounts[b].tenant)'
    BY DEF OneOwner
  <2>1. PICK m : m = accounts'[b].tenant
    OBVIOUS
  <2>2. CASE m = n
    <3>1. OwnersOf(m)' = {a}
      BY <2>2, <1>2 DEF OwnersOf, BootstrapTenant
    <3>2. QED
      BY <3>1, <2>1 DEF OwnersOf
  <2>3. CASE m # n
    <3>1. b # a /\ accounts[b] # None /\ accounts[b].tenant = m
      BY <2>1, <2>3, <1>2
    <3>2. PICK o \in Account : {o} = OwnersOf(m)
      BY <3>1 DEF IInv, OneOwner
    <3>3. OwnersOf(m)' = OwnersOf(m)
      BY <2>3, <1>2 DEF OwnersOf, BootstrapTenant
    <3>4. QED
      BY <3>2, <3>3, <2>1 DEF OwnersOf
  <2>4. QED
    BY <2>2, <2>3
<1>7. JobsSound'
  BY <1>2, <1>4, JobsKept DEF BootstrapTenant
<1>8. UNCHANGED <<families, last_step, grants, work>>
  BY DEF BootstrapTenant
<1>9. \A v \in Worker : /\ At(v, "create")' => At(v, "create") /\ work'[v] = work[v]
                        /\ At(v, "change")' => At(v, "change") /\ work'[v] = work[v]
  BY <1>8 DEF At
<1>10. e.token = None
  OBVIOUS
<1> HIDE DEF e
<1>11. QED
  BY <1>1, <1>2, <1>3, <1>4, <1>5, <1>6, <1>7, <1>8, <1>9, <1>10, LoggedStep

LEMMA AuthenticateAccessStep ==
    ASSUME IInv, NEW w \in Worker, NEW f \in Family, NEW kind \in Kind,
           AuthenticateAccess(w, f, kind)
    PROVE  IInv'
<1> DEFINE j == [op |-> "roles", kind |-> kind, family |-> f,
                 account |-> families[f].account]
<1>1. families[f].account \in Account /\ accounts[families[f].account] # None
  BY FamilyFields DEF IInv, TypeOK, RowsSound, AuthenticateAccess
<1>2. j \in Job
  BY <1>1 DEF Job
<1>3. JobSound(j)
  BY <1>1 DEF JobSound
<1>4. j.op = "roles"
  OBVIOUS
<1>5. work' = [work EXCEPT ![w] = j]
  BY DEF AuthenticateAccess, Continue
<1> HIDE DEF j
<1>6. QED
  BY <1>2, <1>3, <1>4, <1>5, WorkStep DEF AuthenticateAccess

\* Only an owner has ManageRoles.
LEMMA ManagedByOwner ==
    ASSUME NEW held, Require(held, "ManageRoles") PROVE "owner" \in held
  BY DEF Require, Grants

LEMMA AuthenticateAdminStep ==
    ASSUME IInv, NEW w \in Worker, AuthenticateAdmin(w) PROVE IInv'
<1>1. PICK j : j = work[w]
  OBVIOUS
<1>2. j \in Job /\ j.op = "roles" /\ JobSound(j)
  BY <1>1, Jobs DEF AuthenticateAdmin, At
<1>3. /\ j.account \in Account /\ j.family \in Family /\ j.kind \in Kind
      /\ accounts[j.account] # None
  BY <1>2, JobFields DEF JobSound
<1>4. clock \in Time
  BY DEF IInv, TypeOK
<1>5. j.kind # "invite" => "owner" \in roles[j.account]
  BY <1>1, ManagedByOwner DEF AuthenticateAdmin, Needed
<1>6. PICK k : k = AfterAuthorization(j)
  OBVIOUS
<1>7. k \in Job /\ JobSound(k) /\ k.op \notin {"create", "change"}
  <2>1. CASE j.kind = "invite"
    <3>1. k = [op |-> "invite", account |-> j.account]
      BY <1>6, <2>1 DEF AfterAuthorization, InviteRequest
    <3>2. QED
      BY <3>1, <1>3 DEF Job, JobSound
  <2>2. CASE j.kind = "step_up"
    <3>1. k = [op |-> "prove", account |-> j.account, family |-> j.family, now |-> clock]
      BY <1>6, <2>2 DEF AfterAuthorization, BeginRoleChangeStepUp
    <3>2. QED
      BY <3>1, <2>2, <1>3, <1>4, <1>5 DEF Job, JobSound
  <2>3. CASE j.kind = "change"
    <3>1. k = [op |-> "consume", account |-> j.account, family |-> j.family, now |-> clock]
      BY <1>6, <2>3 DEF AfterAuthorization, ChangeAccountRole
    <3>2. QED
      BY <3>1, <2>3, <1>3, <1>4, <1>5 DEF Job, JobSound
  <2>4. QED
    BY <2>1, <2>2, <2>3, <1>3 DEF Kind
<1>8. work' = [work EXCEPT ![w] = k]
  BY <1>1, <1>6 DEF AuthenticateAdmin, Continue
<1>9. QED
  BY <1>7, <1>8, WorkStep DEF AuthenticateAdmin

LEMMA InviteAccountStep ==
    ASSUME IInv, NEW w \in Worker, NEW a \in Account, NEW role \in InitialRole,
           InviteAccount(w, a, role)
    PROVE  IInv'
<1>0. PICK j : j = work[w]
  OBVIOUS
<1>1. j \in Job /\ j.account \in Account /\ accounts[j.account] # None /\ j.op = "invite"
  BY <1>0, Jobs DEF InviteAccount, At
<1> DEFINE n == accounts[j.account].tenant
           e == [account |-> a, role |-> role, grant |-> TRUE, actor |-> j.account,
                 token |-> None]
<1>2. n \in Tenant /\ j.account # a
  BY <1>1, AccountFields DEF IInv, TypeOK, InviteAccount
<1>3. role \in Role /\ role \notin {"owner", "admin"} /\ e \in Event
  BY <1>1, RoleAssumption DEF Event, InviteAccount, Invitable
<1>4. /\ accounts' \in [Account -> AccountRow \cup {None}]
      /\ roles' \in [Account -> SUBSET Role]
      /\ accounts'[a] # None /\ accounts'[a].tenant = n
      /\ \A b \in Account \ {a} : accounts'[b] = accounts[b] /\ roles'[b] = roles[b]
      /\ roles[a] = {} /\ roles'[a] = {role}
      /\ Grows
      /\ \A b \in Account : accounts'[b] = None => roles'[b] = {}
  BY <1>0, <1>2, <1>3, NewAccountFrame DEF InviteAccount
<1>5. Logged(e)
  BY <1>0, <1>4 DEF InviteAccount, InsertAudit, Logged
<1>6. work' = [work EXCEPT ![w] = None]
  BY DEF InviteAccount, Continue
<1>7. TypeOK'
  BY <1>3, <1>4, <1>5, <1>6, Appended DEF IInv, TypeOK, InviteAccount, Logged
<1>8. work'[w] = None /\ \A v \in Worker \ {w} : work'[v] = work[v]
  BY <1>6 DEF IInv, TypeOK
<1>9. EventSound(e)'
  BY <1>1, <1>2, <1>3, <1>4 DEF EventSound
<1>10. OneOwner'
  <2> SUFFICES ASSUME NEW b \in Account, accounts'[b] # None
               PROVE  \E o \in Account : {o} = OwnersOf(accounts[b].tenant)'
    BY DEF OneOwner
  <2>1. PICK m : m = accounts'[b].tenant
    OBVIOUS
  <2>2. \E c \in Account : accounts[c] # None /\ accounts[c].tenant = m
    BY <2>1, <1>1, <1>4
  <2>3. PICK o \in Account : {o} = OwnersOf(m)
    BY <2>2 DEF IInv, OneOwner
  <2>4. OwnersOf(m)' = OwnersOf(m)
    BY <1>3, <1>4 DEF OwnersOf, InviteAccount
  <2>5. QED
    BY <2>1, <2>3, <2>4 DEF OwnersOf
<1>11. JobsSound'
  BY <1>4, <1>7, <1>8, JobsSoundNext
<1>12. \A v \in Worker : /\ At(v, "create")' => At(v, "create") /\ work'[v] = work[v]
                         /\ At(v, "change")' => At(v, "change") /\ work'[v] = work[v]
  BY <1>8 DEF At
<1>13. e.token = None /\ UNCHANGED <<families, last_step, grants>>
  BY DEF InviteAccount
<1> HIDE DEF e
<1>14. QED
  BY <1>3, <1>4, <1>5, <1>7, <1>9, <1>10, <1>11, <1>12, <1>13, LoggedStep

-----------------------------------------------------------------------------
(* The change of a role. *)

\* The step is ahead of every step that was spent before it.
LEMMA CompleteTotpStep ==
    ASSUME IInv, NEW w \in Worker, NEW step \in Step, CompleteTotp(w, step)
    PROVE  IInv'
<1>0. PICK j : j = work[w]
  OBVIOUS
<1>1. /\ j \in Job /\ j.op = "prove" /\ JobSound(j)
      /\ j.account \in Account /\ j.family \in Family /\ j.now \in Time
  BY <1>0, Jobs, JobFields DEF CompleteTotp, At
<1>2. PICK a \in Account : a = j.account
  BY <1>1
<1>3. PICK k : k = [op |-> "create", account |-> a, family |-> j.family, now |-> j.now,
                    step |-> step]
  OBVIOUS
<1>4. /\ k \in Job /\ k.op = "create" /\ k.account = a /\ k.step = step
  BY <1>1, <1>2, <1>3 DEF Job
<1>5. /\ last_step[a] # None /\ last_step[a] < step
      /\ last_step' = [last_step EXCEPT ![a] = step]
      /\ work' = [work EXCEPT ![w] = k]
      /\ UNCHANGED <<clock, accounts, roles, families, grants, audit>>
  BY <1>0, <1>2, <1>3 DEF CompleteTotp, Continue
<1>6. step \in Nat /\ step # None
      /\ \A b \in Account : last_step[b] # None => last_step[b] \in Nat
  BY Numbers, Nones, Steps DEF IInv
<1>7. TypeOK'
  BY <1>4, <1>5 DEF IInv, TypeOK
<1>8. last_step'[a] = step /\ \A b \in Account \ {a} : last_step'[b] = last_step[b]
  BY <1>5 DEF IInv, TypeOK
<1>9. work'[w] = k /\ \A v \in Worker \ {w} : work'[v] = work[v]
  BY <1>5 DEF IInv, TypeOK
<1>10. Grows /\ SameOwners /\ NoNewGrant /\ NoNewFamily
  <2>1. \A b \in Account : last_step[b] # None => last_step[b] <= last_step'[b]
    BY <1>5, <1>6, <1>8
  <2>2. LaterSteps
    BY <2>1, <1>6, <1>8 DEF LaterSteps
  <2>3. QED
    BY <2>2, <1>5 DEF Grows, SameOwners, NoNewGrant, NoNewFamily
<1>11. RowsSound'
  BY <1>5, <1>7, <1>10, RowsKept DEF IInv, RowsSound
<1>12. JobsSound'
  <2>1. accounts'[a] # None /\ "owner" \in roles'[a]
    BY <1>1, <1>2, <1>5 DEF JobSound
  <2>2. last_step'[a] # None /\ step <= last_step'[a]
    BY <1>6, <1>8
  <2>3. JobSound(work[w])'
    BY <2>1, <2>2, <1>4, <1>9 DEF JobSound, Proved
  <2>4. QED
    BY <2>3, <1>7, <1>9, <1>10, JobsSoundNext
<1>13. StepsOnce'
  <2>1. \A g \in Grant : (grants[g] # None /\ grants[g].account = a) => grants[g].step # step
    <3> SUFFICES ASSUME NEW g \in Grant, grants[g] # None, grants[g].account = a
                 PROVE  grants[g].step # step
      OBVIOUS
    <3>1. grants[g].step \in Nat
      BY GrantFields, Numbers DEF IInv, TypeOK
    <3>2. grants[g].step <= last_step[a]
      BY DEF IInv, RowsSound, Proved
    <3>3. QED
      BY <3>1, <3>2, <1>5, <1>6
  <2>2. \A v \in Worker : (At(v, "create") /\ work[v].account = a) => work[v].step # step
    <3> SUFFICES ASSUME NEW v \in Worker, At(v, "create"), work[v].account = a
                 PROVE  work[v].step # step
      OBVIOUS
    <3>1. work[v].step \in Nat
      BY Jobs, JobFields, Numbers DEF At
    <3>2. work[v].step <= last_step[a]
      BY Jobs DEF At, JobSound, Proved
    <3>3. QED
      BY <3>1, <3>2, <1>5, <1>6
  <2>3. \A v \in Worker \ {w} : At(v, "create")' => At(v, "create")
    BY <1>9 DEF At
  <2>4. \A v, u \in Worker :
          (/\ At(v, "create")' /\ At(u, "create")'
           /\ work'[v].account = work'[u].account
           /\ work'[v].step = work'[u].step) => v = u
    BY <2>2, <2>3, <1>4, <1>9 DEF IInv, StepsOnce
  <2>5. \A g \in Grant, v \in Worker :
          (/\ grants'[g] # None /\ At(v, "create")'
           /\ grants'[g].account = work'[v].account) => grants'[g].step # work'[v].step
    BY <2>1, <2>3, <1>4, <1>5, <1>9 DEF IInv, StepsOnce
  <2>6. QED
    BY <2>4, <2>5, <1>5 DEF IInv, StepsOnce
<1>14. OneHolder'
  BY <1>4, <1>5, <1>9, HolderKept DEF At
<1>15. QED
  BY <1>5, <1>7, <1>10, <1>11, <1>12, <1>13, <1>14, CalmStep

\* The step passes from the request to the grant.
LEMMA CreateStepUpGrantStep ==
    ASSUME IInv, NEW w \in Worker, NEW g \in Grant, NEW change \in Change,
           CreateStepUpGrant(w, g, change)
    PROVE  IInv'
<1>0. PICK j : j = work[w]
  OBVIOUS
<1>1. /\ j \in Job /\ j.op = "create" /\ JobSound(j) /\ work[w] # None
      /\ j.account \in Account /\ j.family \in Family /\ j.now \in Time
      /\ j.step \in Step
  BY <1>0, Jobs, JobFields DEF CreateStepUpGrant, At
<1>2. PICK x : x = [account |-> j.account, family |-> j.family, change |-> change,
                    step |-> j.step, expires_at |-> ExpiresAt(j.now), consumed |-> FALSE]
  OBVIOUS
<1>3. /\ x \in GrantRow /\ x.account = j.account /\ x.step = j.step
  BY <1>1, <1>2, Numbers DEF GrantRow
<1>4. /\ grants[g] = None /\ grants' = [grants EXCEPT ![g] = x]
      /\ work' = [work EXCEPT ![w] = None]
      /\ UNCHANGED <<clock, accounts, roles, families, last_step, audit>>
  BY <1>0, <1>2 DEF CreateStepUpGrant, Continue
<1>5. TypeOK'
  BY <1>3, <1>4 DEF IInv, TypeOK
<1>6. grants'[g] = x /\ \A h \in Grant \ {g} : grants'[h] = grants[h]
  BY <1>4 DEF IInv, TypeOK
<1>7. work'[w] = None /\ \A v \in Worker \ {w} : work'[v] = work[v]
  BY <1>4 DEF IInv, TypeOK
<1>8. Grows /\ SameOwners
  <2>1. LaterSteps
    BY <1>4, SameSteps
  <2>2. QED
    BY <2>1, <1>4, <1>6 DEF Grows, SameOwners
<1>9. RowsSound'
  <2>1. Proved(j.account, j.step)
    BY <1>1 DEF JobSound
  <2>2. \A h \in Grant : grants'[h] # None =>
          Proved(grants'[h].account, grants'[h].step)
    BY <2>1, <1>3, <1>6 DEF IInv, RowsSound
  <2>3. QED
    BY <2>2, <1>4 DEF IInv, RowsSound, Proved
<1>10. JobsSound'
  BY <1>5, <1>7, <1>8, JobsSoundNext
<1>11. StepsOnce'
  <2>1. \A h \in Grant : (grants[h] # None /\ grants[h].account = j.account) =>
          grants[h].step # j.step
    BY <1>0, <1>1 DEF IInv, StepsOnce, At
  <2>2. \A v \in Worker : At(v, "create")' => v # w /\ At(v, "create") /\ work'[v] = work[v]
    BY <1>7 DEF At
  <2>3. \A v \in Worker : (At(v, "create")' /\ work'[v].account = j.account) =>
          work'[v].step # j.step
    BY <2>2, <1>0, <1>1 DEF IInv, StepsOnce, At
  <2>4. \A h, i \in Grant :
          (/\ grants'[h] # None /\ grants'[i] # None
           /\ grants'[h].account = grants'[i].account
           /\ grants'[h].step = grants'[i].step) => h = i
    BY <2>1, <1>3, <1>6 DEF IInv, StepsOnce
  <2>5. \A v, u \in Worker :
          (/\ At(v, "create")' /\ At(u, "create")'
           /\ work'[v].account = work'[u].account
           /\ work'[v].step = work'[u].step) => v = u
    BY <2>2 DEF IInv, StepsOnce
  <2>6. \A h \in Grant, v \in Worker :
          (/\ grants'[h] # None /\ At(v, "create")'
           /\ grants'[h].account = work'[v].account) => grants'[h].step # work'[v].step
    BY <2>2, <2>3, <1>3, <1>6 DEF IInv, StepsOnce
  <2>7. QED
    BY <2>4, <2>5, <2>6 DEF StepsOnce
<1>12. OneHolder'
  BY <1>4, <1>7, HolderKept DEF At
<1>13. QED
  BY <1>4, <1>5, <1>8, <1>9, <1>10, <1>11, <1>12, CalmStep

\* A grant that is not consumed yet is held by nobody.
LEMMA ConsumeStepUpGrantStep ==
    ASSUME IInv, NEW w \in Worker, NEW g \in Grant, NEW change \in Change,
           ConsumeStepUpGrant(w, g, change)
    PROVE  IInv'
<1>0. PICK j : j = work[w]
  OBVIOUS
<1>1. /\ j \in Job /\ j.op = "consume" /\ JobSound(j) /\ j.account \in Account
  BY <1>0, Jobs DEF ConsumeStepUpGrant, At
<1>2. /\ grants[g] # None /\ grants[g].account = j.account /\ grants[g].change = change
      /\ ~ grants[g].consumed /\ change.role # "owner"
  BY <1>0 DEF ConsumeStepUpGrant, Consumable, Changeable
<1>3. PICK k : k = [op |-> "change", account |-> j.account, change |-> change, token |-> g]
  OBVIOUS
<1>4. /\ k \in Job /\ k.op = "change" /\ k.account = j.account /\ k.change = change
      /\ k.token = g
  BY <1>1, <1>3 DEF Job
<1>5. /\ grants' = [grants EXCEPT ![g].consumed = TRUE]
      /\ work' = [work EXCEPT ![w] = k]
      /\ UNCHANGED <<clock, accounts, roles, families, last_step, audit>>
  BY <1>0, <1>3 DEF ConsumeStepUpGrant, Continue
<1>6. /\ grants'[g] = [grants[g] EXCEPT !.consumed = TRUE] /\ grants[g] \in GrantRow
      /\ \A h \in Grant \ {g} : grants'[h] = grants[h]
  BY <1>2, <1>5 DEF IInv, TypeOK
<1>7. /\ grants'[g] \in GrantRow /\ grants'[g].consumed
      /\ grants'[g].account = grants[g].account /\ grants'[g].change = grants[g].change
      /\ grants'[g].step = grants[g].step
  BY <1>6 DEF GrantRow
<1>8. TypeOK'
  BY <1>4, <1>5, <1>6, <1>7 DEF IInv, TypeOK
<1>9. grants'[g] # None
  BY <1>7, Nones
<1>10. work'[w] = k /\ \A v \in Worker \ {w} : work'[v] = work[v]
  BY <1>5 DEF IInv, TypeOK
<1>11. Grows /\ SameOwners /\ NoNewGrant /\ NoNewFamily
  <2>1. LaterSteps
    BY <1>5, SameSteps
  <2>2. Grows
    BY <2>1, <1>5, <1>6, <1>7, <1>9 DEF Grows
  <2>3. QED
    BY <2>2, <1>2, <1>5, <1>6 DEF SameOwners, NoNewGrant, NoNewFamily
<1>12. RowsSound'
  BY <1>5, <1>8, <1>11, RowsKept DEF IInv, RowsSound
<1>13. JobsSound'
  <2>1. accounts'[j.account] # None /\ "owner" \in roles'[j.account]
    BY <1>1, <1>5 DEF JobSound
  <2>2. SpentOn(g, j.account, change)'
    BY <1>2, <1>7, <1>9 DEF SpentOn
  <2>3. JobSound(k)'
    BY <2>1, <2>2, <1>2, <1>4 DEF JobSound
  <2>4. JobSound(work[w])'
    BY <2>3, <1>10 DEF JobSound, Proved, SpentOn
  <2>5. QED
    BY <2>4, <1>8, <1>10, <1>11, JobsSoundNext
<1>14. StepsOnce'
  BY <1>4, <1>10, <1>11, StepsOnceKept DEF At
<1>15. OneHolder'
  <2>1. \A v \in Worker : At(v, "change") => work[v].token # g
    BY <1>2, Jobs DEF At, JobSound, SpentOn
  <2>2. \A i \in 1..Len(audit) : audit[i].token # g
    BY <1>2, Nones DEF IInv, AuditSound, SpentOn
  <2>3. \A v \in Worker \ {w} : At(v, "change")' => At(v, "change")
    BY <1>10 DEF At
  <2>4. \A v, u \in Worker :
          (At(v, "change")' /\ At(u, "change")' /\ work'[v].token = work'[u].token) => v = u
    BY <2>1, <2>3, <1>4, <1>10 DEF IInv, OneHolder
  <2>5. \A v \in Worker, i \in 1..Len(audit) :
          At(v, "change")' => audit[i].token # work'[v].token
    BY <2>2, <2>3, <1>4, <1>10 DEF IInv, OneHolder
  <2>6. QED
    BY <2>4, <2>5, <1>5 DEF IInv, OneHolder
<1>16. QED
  BY <1>5, <1>8, <1>11, <1>12, <1>13, <1>14, <1>15, CalmStep

\* The change is logged with the grant that its request held, and no owner changes.
LEMMA ChangeRoleStep == ASSUME IInv, NEW w \in Worker, ChangeRole(w) PROVE IInv'
<1>0. PICK j : j = work[w]
  OBVIOUS
<1>1. /\ j \in Job /\ j.op = "change" /\ JobSound(j) /\ At(w, "change")
      /\ j.account \in Account /\ accounts[j.account] # None
      /\ j.change \in Change /\ j.token \in Grant
  BY <1>0, Jobs, JobFields DEF ChangeRole, At
<1>2. PICK c \in Change : c = j.change
  BY <1>1
<1>3. PICK a \in Account : a = c.account
  BY ChangeFields
<1>4. /\ c.role \in Role /\ c.grant \in BOOLEAN /\ c.role # "owner"
      /\ c = [account |-> a, role |-> c.role, grant |-> c.grant]
  BY <1>1, <1>2, <1>3, ChangeFields DEF JobSound
<1>5. /\ accounts[a] # None /\ accounts[a].tenant = accounts[j.account].tenant
      /\ c.grant <=> c.role \notin roles[a]
      /\ roles' = [roles EXCEPT ![a] =
                     IF c.grant THEN roles[a] \cup {c.role} ELSE roles[a] \ {c.role}]
      /\ work' = [work EXCEPT ![w] = None]
      /\ UNCHANGED <<clock, accounts, families, last_step, grants>>
  BY <1>0, <1>2, <1>3 DEF ChangeRole, Affected, Continue
<1>6. PICK e : e = [account |-> a, role |-> c.role, grant |-> c.grant,
                    actor |-> j.account, token |-> j.token]
  OBVIOUS
<1>7. /\ e \in Event /\ e.account = a /\ e.role = c.role /\ e.grant = c.grant
      /\ e.actor = j.account /\ e.token = j.token
  BY <1>1, <1>4, <1>6 DEF Event
<1>8. audit' = Append(audit, e)
  BY <1>0, <1>2, <1>3, <1>6 DEF ChangeRole, InsertAudit
<1>9. /\ \A b \in Account \ {a} : roles'[b] = roles[b]
      /\ roles'[a] = IF c.grant THEN roles[a] \cup {c.role} ELSE roles[a] \ {c.role}
      /\ roles[a] \in SUBSET Role
  BY <1>5 DEF IInv, TypeOK
<1>10. roles' \in [Account -> SUBSET Role]
  BY <1>4, <1>5, <1>9 DEF IInv, TypeOK
<1>11. Logged(e)
  <2>1. c.grant <=> c.role \in roles'[a]
    BY <1>4, <1>9
  <2>2. \A r \in Role \ {c.role} : r \in roles'[a] <=> r \in roles[a]
    BY <1>9
  <2>3. QED
    BY <2>1, <2>2, <1>5, <1>7, <1>8, <1>9 DEF Logged
<1>12. TypeOK'
  BY <1>5, <1>7, <1>8, <1>10, Appended DEF IInv, TypeOK
<1>13. \A b \in Account : "owner" \in roles'[b] <=> "owner" \in roles[b]
  BY <1>4, <1>9
<1>14. Grows /\ SameOwners
  <2>1. LaterSteps
    BY <1>5, SameSteps
  <2>2. QED
    BY <2>1, <1>5, <1>13 DEF Grows, SameOwners
<1>15. work'[w] = None /\ \A v \in Worker \ {w} : work'[v] = work[v]
  BY <1>5 DEF IInv, TypeOK
<1>16. EventSound(e)'
  <2>1. SpentOn(j.token, j.account, c)'
    BY <1>1, <1>2, <1>14, SpentOnKept DEF JobSound
  <2>2. c = [account |-> e.account, role |-> e.role, grant |-> e.grant]
    BY <1>4, <1>7
  <2>3. "owner" \in roles'[j.account]
    BY <1>1, <1>13 DEF JobSound
  <2>4. QED
    BY <2>1, <2>2, <2>3, <1>1, <1>5, <1>7 DEF EventSound
<1>17. JobsSound'
  BY <1>12, <1>14, <1>15, JobsSoundNext
<1>18. \A b \in Account : accounts'[b] = None => roles'[b] = {}
  BY <1>5, <1>9 DEF IInv, RowsSound
<1>19. \A v \in Worker : /\ At(v, "create")' => At(v, "create") /\ work'[v] = work[v]
                         /\ At(v, "change")' => At(v, "change") /\ work'[v] = work[v]
  BY <1>15 DEF At
<1>20. ~ At(w, "change")' /\ work[w].token = e.token
  BY <1>0, <1>7, <1>15 DEF At
<1>21. OneOwner'
  BY <1>14, OwnersKept
<1>22. QED
  BY <1>1, <1>5, <1>7, <1>11, <1>12, <1>14, <1>16, <1>17, <1>18, <1>19, <1>20, <1>21,
     LoggedStep

-----------------------------------------------------------------------------
(* The theorems. *)

LEMMA Inductive == IInv /\ [Next]_vars => IInv'
<1> SUFFICES ASSUME IInv, [Next]_vars PROVE IInv'
  OBVIOUS
<1>1. CASE UNCHANGED vars
  <2>1. UNCHANGED <<clock, accounts, roles, families, last_step, grants, audit, work>>
    BY <1>1 DEF vars
  <2>2. TypeOK'
    BY <2>1 DEF IInv, TypeOK
  <2>3. RowsSound'
    BY <2>1 DEF IInv, RowsSound, Proved
  <2>4. QED
    BY <2>1, <2>2, <2>3, Unmoved, OutsideStep
<1>2. CASE Next
  BY <1>2, TickStep, EnrollStep, SetStateStep, SignInStep, BootstrapTenantStep,
     RevokeFamilyStep, AbandonStep, AuthenticateAccessStep, AuthenticateAdminStep,
     InviteAccountStep, CompleteTotpStep, CreateStepUpGrantStep, ConsumeStepUpGrantStep,
     ChangeRoleStep, AskedAssumption DEF Next
<1>3. QED
  BY <1>1, <1>2

LEMMA Invariance == Spec => []IInv
  BY IInvInit, Inductive, PTL DEF Spec

\* Two events with grants have two grants, so two steps of whoever proved them.
LEMMA OneProof == IInv => OneProofOneChange
<1> SUFFICES ASSUME IInv, NEW i \in 1..Len(audit), audit[i].token # None
             PROVE  LET e == audit[i]
                        g == grants[e.token]
                    IN  /\ g.consumed
                        /\ g.account = e.actor
                        /\ g.change = [account |-> e.account, role |-> e.role,
                                       grant |-> e.grant]
                        /\ \A k \in 1..Len(audit) \ {i} : audit[k].token # None =>
                             /\ audit[k].token # e.token
                             /\ grants[audit[k].token].account = g.account =>
                                  grants[audit[k].token].step # g.step
  BY DEF OneProofOneChange
<1>1. \A k \in 1..Len(audit) : audit[k].token # None =>
        /\ audit[k].token \in Grant
        /\ SpentOn(audit[k].token, audit[k].actor,
                   [account |-> audit[k].account, role |-> audit[k].role,
                    grant |-> audit[k].grant])
  BY Events, EventFields DEF IInv, AuditSound
<1>2. \A k \in 1..Len(audit) \ {i} : audit[k].token # None =>
        audit[k].token # audit[i].token
  BY DEF IInv, OneHolder
<1>3. \A k \in 1..Len(audit) \ {i} :
        (/\ audit[k].token # None
         /\ grants[audit[k].token].account = grants[audit[i].token].account) =>
        grants[audit[k].token].step # grants[audit[i].token].step
  BY <1>1, <1>2 DEF IInv, StepsOnce, SpentOn
<1>4. QED
  BY <1>1, <1>2, <1>3 DEF SpentOn

\* The tables and the requests hold only values of their types, whatever requests
\* interleave.
THEOREM TypeCorrect == Spec => []TypeOK
<1>1. IInv => TypeOK
  BY DEF IInv
<1>2. QED
  BY <1>1, Invariance, PTL

\* invite_account and change_role never give or take the role of owner, and every
\* change was made by the owner, or is the first role of an invited account, within
\* one tenant: although roles were read several statements before they are relied on.
THEOREM OwnerSafe == Spec => []OwnerKept
<1>1. IInv => OwnerKept
  BY DEF IInv, OwnerKept
<1>2. QED
  BY <1>1, Invariance, PTL

\* issue_role_change and consume_role_change let one TOTP code pay for one grant and
\* one grant for one change, for any number of concurrent requests.
THEOREM OneProofSafe == Spec => []OneProofOneChange
  BY OneProof, Invariance, PTL

\* insert_audit runs in the transaction of the change it reports: in a trail of any
\* length, read in any order, every role held has one grant more than revocations and
\* every other role as many.
THEOREM AuditSafe == Spec => []AuditExplainsRoles
<1>1. IInv => AuditExplainsRoles
  BY DEF IInv
<1>2. QED
  BY <1>1, Invariance, PTL
=============================================================================
