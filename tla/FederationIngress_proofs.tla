----------------------- MODULE FederationIngress_proofs -----------------------
(***************************************************************************)
(* FederationIngress: every safety property, for any number of peers,      *)
(* keys, documents, deliveries and concurrent requests, and any skew and   *)
(* lifetime.                                                               *)
(*                                                                         *)
(* The argument: approvals only grow and a document can only be retired    *)
(* now, not in the past (Grows), so what a request has read about a peer   *)
(* was true at a time since it came and remains so (JobsSound), up to the  *)
(* audit event it writes.                                                  *)
(***************************************************************************)
EXTENDS FederationIngress, TLAPS

IInv ==
    /\ TypeOK
    /\ ApprovalsCurrent
    /\ JobsSound
    /\ AuditSound
    /\ AcceptedOnce
    /\ TrustedWhileHandled

\* No step takes back an approval, or a document as it was at an earlier time.
Grows ==
    /\ clock <= clock'
    /\ approvals \subseteq approvals'
    /\ \A p \in Peer, k \in Key, since \in Time :
         (since <= clock /\ Documented(p, k, since)) => Documented(p, k, since)'

-----------------------------------------------------------------------------
(* Types. *)

LEMMA Nones ==
    /\ None \notin Key /\ None \notin Time /\ None \notin PeerRow
    /\ None \notin ReplayRow /\ None \notin Job
  BY NoneAssumption

LEMMA Times == Time \subseteq Nat /\ Later \subseteq Nat /\ Stamp \subseteq Nat
  BY MaxClockAssumption, MaxStampAssumption DEF Time, Later, Stamp

LEMMA Seconds ==
    ASSUME NEW t \in Nat
    PROVE  Second(t) \in Nat /\ Ticks * Second(t) <= t /\ t < Ticks * Second(t) + Ticks
  BY TicksAssumption DEF Second

\* A later time is in the same second or a later one.
LEMMA LaterSecond ==
    ASSUME NEW s \in Nat, NEW t \in Nat, s <= t PROVE Second(s) <= Second(t)
<1>1. PICK x \in Nat : x = Second(s)
  BY Seconds
<1>2. PICK y \in Nat : y = Second(t)
  BY Seconds
<1>3. Ticks * x <= s /\ t < Ticks * y + Ticks
  BY <1>1, <1>2, Seconds
<1>4. x <= y
  <2> SUFFICES ASSUME y + 1 <= x PROVE FALSE
    BY <1>1, <1>2
  <2>1. Ticks * (y + 1) <= Ticks * x /\ Ticks * (y + 1) = Ticks * y + Ticks
    BY TicksAssumption
  <2>2. Ticks * x \in Nat /\ Ticks * y \in Nat
    BY TicksAssumption
  <2>3. QED
    BY <2>1, <2>2, <1>3, TicksAssumption
<1>5. QED
  BY <1>1, <1>2, <1>4

LEMMA TranscriptFields ==
    ASSUME NEW d \in Delivery
    PROVE  LET t == Transcript(d) IN
             /\ t.source = d.source /\ t.destination = d.destination
             /\ t.sender = d.sender /\ t.recipient = d.recipient
             /\ t.request = d.request
             /\ t.issued_at = Second(d.issued_at) /\ t.expires_at = Second(d.expires_at)
  BY DEF Delivery, Transcript

LEMMA DeliveryFields ==
    ASSUME NEW d \in Delivery
    PROVE  /\ d.source \in Remote /\ d.destination \in Local /\ d.request \in Request
           /\ d.issued_at \in Nat /\ d.expires_at \in Nat
           /\ PeerOf(d) \in Peer /\ Transcript(d) \in TranscriptBytes
<1>1. /\ d.source \in Remote /\ d.destination \in Local /\ d.request \in Request
      /\ d.issued_at \in Nat /\ d.expires_at \in Nat
  BY Times DEF Delivery
<1>2. Transcript(d) \in TranscriptBytes
  <2>1. Second(d.issued_at) \in Nat /\ Second(d.expires_at) \in Nat
    BY <1>1, Seconds
  <2>2. QED
    BY <2>1 DEF Delivery, Transcript, TranscriptBytes
<1>3. QED
  BY <1>1, <1>2 DEF PeerOf, Peer

LEMMA SignedFields ==
    ASSUME NEW m \in Signed
    PROVE  /\ m.delivery \in Delivery /\ m.original \in Delivery
           /\ m.identity \in Key /\ m.signer \in Key
  BY DEF Signed

LEMMA EventFields ==
    ASSUME NEW e \in Event
    PROVE  e.signed \in Signed /\ e.since \in Time /\ e.accepted_at \in Time
  BY DEF Event

LEMMA KeyRowFields ==
    ASSUME NEW x \in KeyRow
    PROVE  /\ x.key \in Key \cup {None} /\ x.valid_until \in Later
           /\ x.retired_at \in Time \cup {None}
  BY DEF KeyRow

LEMMA PeerRowFields ==
    ASSUME NEW x \in PeerRow PROVE x.trust \in TrustState /\ x.fingerprint \in Key
  BY DEF PeerRow

\* What a request carries, by its statement.
LEMMA JobFields ==
    ASSUME NEW j \in Job
    PROVE  /\ j.op \in {"keys", "admit", "record"}
           /\ j.peer \in Peer /\ j.since \in Time
           /\ j.op = "keys" => j.material \in PeerRow
           /\ j.op = "admit" => j.trust \in TrustState /\ j.identity \in Key
           /\ j.op = "record" => j.signed \in Signed /\ j.now \in Time
  BY DEF Job

-----------------------------------------------------------------------------
(* The initial states. *)

LEMMA IInvInit == Init => IInv
<1> SUFFICES ASSUME Init PROVE IInv
  OBVIOUS
<1>1. TypeOK
  BY MaxClockAssumption DEF Init, TypeOK, Time
<1>2. ApprovalsCurrent /\ JobsSound
  BY DEF Init, ApprovalsCurrent, JobsSound
<1>3. AuditSound /\ AcceptedOnce /\ TrustedWhileHandled
  BY DEF Init, AuditSound, AcceptedOnce, TrustedWhileHandled
<1>4. QED
  BY <1>1, <1>2, <1>3 DEF IInv

-----------------------------------------------------------------------------
(* Frames. *)

LEMMA TrustedKept ==
    ASSUME TypeOK, TypeOK', Grows, NEW m \in Signed, NEW since \in Time, NEW now \in Time,
           since <= clock, Trusted(m, since, now)
    PROVE  Trusted(m, since, now)'
<1>1. m.original \in Delivery /\ PeerOf(m.original) \in Peer /\ m.signer \in Key
  BY SignedFields, DeliveryFields
<1>2. Approved(PeerOf(m.original), m.signer, since, now)'
  <2>1. Approved(PeerOf(m.original), m.signer, since, now)
    BY DEF Trusted
  <2>2. QED
    BY <2>1 DEF Approved, Grows
<1>3. Documented(PeerOf(m.original), m.signer, since)'
  BY <1>1 DEF Trusted, Grows
<1>4. QED
  BY <1>2, <1>3 DEF Trusted

\* Requests that do not move do not notice a step.
LEMMA JobKept ==
    ASSUME IInv, TypeOK', Grows, NEW v \in Worker, work[v] # None, work'[v] = work[v]
    PROVE  JobSound(work[v])'
<1>0. PICK j : j = work[v]
  OBVIOUS
<1>1. j \in Job /\ JobSound(j)
  BY <1>0 DEF IInv, TypeOK, JobsSound
<1>2. /\ j.peer \in Peer /\ j.since \in Time /\ j.since \in Nat
      /\ clock \in Nat /\ clock' \in Nat /\ clock <= clock' /\ j.since <= clock
  BY <1>1, JobFields, Times DEF IInv, TypeOK, Grows, JobSound
<1>3. ASSUME j.op = "keys", AcceptsRequests(j.material.trust)
      PROVE  Approved(j.peer, j.material.fingerprint, j.since, clock)'
  <2>1. Approved(j.peer, j.material.fingerprint, j.since, clock)
    BY <1>1, <1>3 DEF JobSound
  <2>2. QED
    BY <2>1, <1>2 DEF Approved, Grows
<1>4. ASSUME j.op = "admit"
      PROVE  /\ AcceptsRequests(j.trust) => Approved(j.peer, j.identity, j.since, clock)'
             /\ Documented(j.peer, j.identity, j.since)'
  <2>1. j.identity \in Key
    BY <1>1, <1>4, JobFields
  <2>2. Documented(j.peer, j.identity, j.since)
    BY <1>1, <1>4 DEF JobSound
  <2>3. AcceptsRequests(j.trust) => Approved(j.peer, j.identity, j.since, clock)
    BY <1>1, <1>4 DEF JobSound
  <2>4. Documented(j.peer, j.identity, j.since)'
    BY <2>1, <2>2, <1>2 DEF Grows
  <2>5. AcceptsRequests(j.trust) => Approved(j.peer, j.identity, j.since, clock)'
    BY <2>3, <1>2 DEF Approved, Grows
  <2>6. QED
    BY <2>4, <2>5
<1>5. ASSUME j.op = "record"
      PROVE  /\ j.peer = PeerOf(j.signed.delivery) /\ j.now <= clock'
             /\ Transcript(j.signed.original) = Transcript(j.signed.delivery)
             /\ Trusted(j.signed, j.since, j.now)'
  <2>1. /\ j.signed \in Signed /\ j.now \in Time /\ j.now \in Nat
        /\ j.peer = PeerOf(j.signed.delivery) /\ j.now <= clock
        /\ Transcript(j.signed.original) = Transcript(j.signed.delivery)
        /\ Trusted(j.signed, j.since, j.now)
    BY <1>1, <1>5, JobFields, Times DEF JobSound
  <2>2. QED
    BY <2>1, <1>2, TrustedKept DEF IInv
<1>6. JobSound(j)'
  BY <1>2, <1>3, <1>4, <1>5 DEF JobSound
<1>7. QED
  BY <1>0, <1>6 DEF JobSound, Approved, Documented, Trusted

LEMMA JobsKept ==
    ASSUME IInv, TypeOK', Grows, work' = work PROVE JobsSound'
  BY JobKept DEF JobsSound

\* Events keep what is said of them.
LEMMA AuditKept ==
    ASSUME IInv, TypeOK', Grows, NEW i \in 1..Len(audit), audit'[i] = audit[i]
    PROVE  /\ audit'[i].since <= clock' /\ audit'[i].accepted_at <= clock'
           /\ Trusted(audit[i].signed, audit[i].since, audit[i].accepted_at)'
<1>0. PICK e : e = audit[i]
  OBVIOUS
<1>1. e \in Event /\ e.signed \in Signed /\ e.since \in Time /\ e.accepted_at \in Time
  BY <1>0, EventFields DEF IInv, TypeOK
<1>2. e.since <= clock /\ e.accepted_at <= clock /\ Trusted(e.signed, e.since, e.accepted_at)
  BY <1>0 DEF IInv, AuditSound, TrustedWhileHandled
<1>3. e.since <= clock' /\ e.accepted_at <= clock'
  <2>1. /\ clock \in Nat /\ clock' \in Nat /\ clock <= clock'
        /\ e.since \in Nat /\ e.accepted_at \in Nat
    BY <1>1, Times DEF IInv, TypeOK, Grows
  <2>2. QED
    BY <2>1, <1>2
<1>4. Trusted(e.signed, e.since, e.accepted_at)'
  BY <1>1, <1>2, TrustedKept DEF IInv
<1>5. QED
  BY <1>0, <1>3, <1>4 DEF Trusted, Approved, Documented

LEMMA HistoryKept ==
    ASSUME IInv, TypeOK', Grows, UNCHANGED <<audit, replays>>
    PROVE  AuditSound' /\ AcceptedOnce' /\ TrustedWhileHandled'
<1>1. AuditSound' /\ TrustedWhileHandled'
  BY AuditKept DEF AuditSound, TrustedWhileHandled
<1>2. AcceptedOnce'
  <2>1. audit' = audit /\ replays' = replays /\ AcceptedOnce
    BY DEF IInv
  <2> SUFFICES ASSUME NEW p \in Peer, NEW r \in Request
               PROVE  LET about == {i \in 1..Len(audit') :
                                      /\ PeerOf(audit'[i].signed.delivery) = p
                                      /\ audit'[i].signed.delivery.request = r}
                      IN  /\ \A i, k \in about : i = k
                          /\ replays'[<<p, r>>] = None <=> about = {}
                          /\ \A i \in about :
                               replays'[<<p, r>>].body_digest =
                                 Transcript(audit'[i].signed.original)
    BY DEF AcceptedOnce, PeerOf, Transcript, Second
  <2> DEFINE about == {i \in 1..Len(audit) : /\ PeerOf(audit[i].signed.delivery) = p
                                             /\ audit[i].signed.delivery.request = r}
  <2>2. /\ \A i, k \in about : i = k
        /\ replays[<<p, r>>] = None <=> about = {}
        /\ \A i \in about : replays[<<p, r>>].body_digest = Transcript(audit[i].signed.original)
    BY <2>1 DEF AcceptedOnce
  <2>3. QED
    BY <2>1, <2>2
<1>3. QED
  BY <1>1, <1>2

LEMMA Unmoved ==
    ASSUME IInv, UNCHANGED <<clock, approvals, keys>> PROVE Grows
<1>1. clock <= clock'
  BY Times DEF IInv, TypeOK
<1>2. QED
  BY <1>1 DEF Grows, Documented

\* A step of one request that leaves the tables alone.
LEMMA QuietWork ==
    ASSUME IInv, UNCHANGED <<clock, peers, keys, replays, audit, approvals>>,
           NEW w \in Worker, NEW job \in Job \cup {None}, job # None => JobSound(job),
           work' = [work EXCEPT ![w] = job]
    PROVE  IInv'
<1>1. TypeOK'
  BY DEF IInv, TypeOK
<1>2. Grows
  BY Unmoved
<1>3. work'[w] = job /\ \A v \in Worker \ {w} : work'[v] = work[v]
  BY DEF IInv, TypeOK
<1>4. JobsSound'
  <2> SUFFICES ASSUME NEW v \in Worker, work'[v] # None PROVE JobSound(work[v])'
    BY DEF JobsSound
  <2>1. CASE v = w
    BY <2>1, <1>3 DEF JobSound, Approved, Documented, Trusted
  <2>2. CASE v # w
    BY <2>2, <1>1, <1>2, <1>3, JobKept
  <2>3. QED
    BY <2>1, <2>2
<1>5. ApprovalsCurrent'
  BY DEF IInv, ApprovalsCurrent
<1>6. QED
  BY <1>1, <1>2, <1>4, <1>5, HistoryKept DEF IInv

-----------------------------------------------------------------------------
(* Time and the owner of the tenant. *)

LEMMA TickStep == ASSUME IInv, Tick PROVE IInv'
<1>1. clock \in Nat /\ clock' \in Time /\ clock <= clock'
  BY MaxClockAssumption DEF IInv, TypeOK, Tick, Time
<1>2. approvals' \subseteq Peer \X Key \X Time
  <2>1. ApprovedIn(peers, clock') \subseteq Peer \X Key \X Time
    BY <1>1, PeerRowFields DEF IInv, TypeOK, ApprovedIn
  <2>2. QED
    BY <2>1 DEF IInv, TypeOK, Tick
<1>3. TypeOK'
  BY <1>1, <1>2 DEF IInv, TypeOK, Tick
<1>4. Grows
  BY <1>1 DEF Tick, Grows, Documented
<1>5. ApprovalsCurrent'
  BY DEF Tick, ApprovalsCurrent, ApprovedIn
<1>6. QED
  BY <1>3, <1>4, <1>5, JobsKept, HistoryKept DEF IInv, Tick

LEMMA SetPeerStep ==
    ASSUME IInv, NEW p \in Peer, NEW trust \in Trust, NEW k \in Key, SetPeer(p, trust, k)
    PROVE  IInv'
<1>1. peers' \in [Peer -> PeerRow \cup {None}]
  BY TrustAssumption DEF IInv, TypeOK, SetPeer, PeerRow
<1>2. approvals' \subseteq Peer \X Key \X Time
  <2>1. ApprovedIn(peers', clock) \subseteq Peer \X Key \X Time
    BY <1>1, PeerRowFields DEF IInv, TypeOK, ApprovedIn
  <2>2. QED
    BY <2>1 DEF IInv, TypeOK, SetPeer
<1>3. TypeOK'
  BY <1>1, <1>2 DEF IInv, TypeOK, SetPeer
<1>4. Grows
  BY Times DEF IInv, TypeOK, SetPeer, Grows, Documented
<1>5. ApprovalsCurrent'
  BY DEF SetPeer, ApprovalsCurrent, ApprovedIn
<1>6. QED
  BY <1>3, <1>4, <1>5, JobsKept, HistoryKept DEF IInv, SetPeer

LEMMA AddKeyStep ==
    ASSUME IInv, NEW p \in Peer, NEW k \in Document, NEW until \in Later,
           AddKey(p, k, until)
    PROVE  IInv'
<1> DEFINE row == [key |-> k, valid_until |-> until, retired_at |-> None]
<1>1. row \in KeyRow
  BY DocumentAssumption DEF KeyRow
<1>2. keys' = [keys EXCEPT ![p] = Append(keys[p], row)] /\ keys[p] \in Seq(KeyRow)
  BY DEF IInv, TypeOK, AddKey
<1> HIDE DEF row
<1>3. /\ keys'[p] \in Seq(KeyRow)
      /\ Len(keys'[p]) = Len(keys[p]) + 1
      /\ \A i \in 1..Len(keys[p]) : keys'[p][i] = keys[p][i]
      /\ \A q \in Peer \ {p} : keys'[q] = keys[q]
  BY <1>1, <1>2 DEF IInv, TypeOK
<1>4. TypeOK'
  BY <1>1, <1>2, <1>3 DEF IInv, TypeOK, AddKey
<1>5. Grows
  <2>1. ASSUME NEW q \in Peer, NEW key \in Key, NEW since \in Time,
               Documented(q, key, since)
        PROVE  Documented(q, key, since)'
    <3>1. PICK i \in 1..Len(keys[q]) :
             /\ keys[q][i].key = key
             /\ keys[q][i].valid_until > since
             /\ keys[q][i].retired_at = None \/ keys[q][i].retired_at >= since
      BY <2>1 DEF Documented
    <3>2. i \in 1..Len(keys'[q]) /\ keys'[q][i] = keys[q][i]
      BY <1>2, <1>3 DEF IInv, TypeOK
    <3>3. QED
      BY <3>1, <3>2 DEF Documented
  <2>2. clock <= clock' /\ approvals \subseteq approvals'
    BY Times DEF IInv, TypeOK, AddKey
  <2>3. QED
    BY <2>1, <2>2 DEF Grows
<1>6. ApprovalsCurrent'
  BY DEF IInv, AddKey, ApprovalsCurrent
<1>7. QED
  BY <1>4, <1>5, <1>6, JobsKept, HistoryKept DEF IInv, AddKey

LEMMA RetireKeyStep ==
    ASSUME IInv, NEW p \in Peer, NEW n, RetireKey(p, n) PROVE IInv'
<1>1. /\ keys[p] \in Seq(KeyRow) /\ n \in 1..Len(keys[p]) /\ keys[p][n] \in KeyRow
      /\ clock \in Time
  BY DEF IInv, TypeOK, RetireKey
<1> DEFINE row == [keys[p][n] EXCEPT !.retired_at = clock]
<1>2. /\ row \in KeyRow /\ row.key = keys[p][n].key
      /\ row.valid_until = keys[p][n].valid_until /\ row.retired_at = clock
  BY <1>1 DEF KeyRow
<1>3. keys' = [keys EXCEPT ![p] = [keys[p] EXCEPT ![n] = row]]
  BY DEF RetireKey
<1> HIDE DEF row
<1>4. /\ keys'[p] \in Seq(KeyRow)
      /\ Len(keys'[p]) = Len(keys[p])
      /\ keys'[p][n] = row
      /\ \A i \in 1..Len(keys[p]) : i # n => keys'[p][i] = keys[p][i]
      /\ \A q \in Peer \ {p} : keys'[q] = keys[q]
  BY <1>1, <1>2, <1>3 DEF IInv, TypeOK
<1>5. TypeOK'
  BY <1>3, <1>4 DEF IInv, TypeOK, RetireKey
<1>6. Grows
  <2>1. ASSUME NEW q \in Peer, NEW key \in Key, NEW since \in Time,
               since <= clock, Documented(q, key, since)
        PROVE  Documented(q, key, since)'
    <3>1. PICK i \in 1..Len(keys[q]) :
             /\ keys[q][i].key = key
             /\ keys[q][i].valid_until > since
             /\ keys[q][i].retired_at = None \/ keys[q][i].retired_at >= since
      BY <2>1 DEF Documented
    <3>2. i \in 1..Len(keys'[q])
      BY <1>4
    <3>3. CASE q = p /\ i = n
      <4>1. keys'[q][i].retired_at >= since
        BY <3>3, <2>1, <1>1, <1>2, <1>4, Times
      <4>2. keys'[q][i].key = key /\ keys'[q][i].valid_until > since
        BY <3>1, <3>3, <1>2, <1>4
      <4>3. QED
        BY <3>2, <4>1, <4>2 DEF Documented
    <3>4. CASE ~ (q = p /\ i = n)
      BY <3>1, <3>2, <3>4, <1>4 DEF Documented
    <3>5. QED
      BY <3>3, <3>4
  <2>2. clock <= clock' /\ approvals \subseteq approvals'
    BY Times DEF IInv, TypeOK, RetireKey
  <2>3. QED
    BY <2>1, <2>2 DEF Grows
<1>7. ApprovalsCurrent'
  BY DEF IInv, RetireKey, ApprovalsCurrent
<1>8. QED
  BY <1>5, <1>6, <1>7, JobsKept, HistoryKept DEF IInv, RetireKey

-----------------------------------------------------------------------------
(* One delivery. *)

LEMMA AbandonStep == ASSUME IInv, NEW w \in Worker, Abandon(w) PROVE IInv'
  BY QuietWork DEF Abandon, Continue

LEMMA DeliverFederationStep ==
    ASSUME IInv, NEW w \in Worker, NEW p \in Peer, NEW since \in Time,
           DeliverFederation(w, p, since)
    PROVE  IInv'
<1> DEFINE job == [op |-> "keys", peer |-> p, since |-> since, material |-> peers[p]]
<1>1. peers[p] \in PeerRow /\ since <= clock /\ since \in Nat /\ clock \in Nat
  BY Times DEF IInv, TypeOK, DeliverFederation
<1>2. job \in Job
  BY <1>1 DEF Job
<1>3. JobSound(job)
  <2>1. AcceptsRequests(peers[p].trust) => Approved(p, peers[p].fingerprint, since, clock)
    BY <1>1 DEF IInv, ApprovalsCurrent, DeliverFederation, Approved
  <2>2. QED
    BY <2>1, <1>1 DEF JobSound
<1>4. work' = [work EXCEPT ![w] = job]
  BY DEF DeliverFederation, Continue
<1> HIDE DEF job
<1>5. QED
  BY <1>2, <1>3, <1>4, QuietWork DEF DeliverFederation

LEMMA ReadKeysStep ==
    ASSUME IInv, NEW w \in Worker, NEW q \in Time, ReadKeys(w, q) PROVE IInv'
<1> DEFINE j == work[w]
<1>1. j \in Job /\ j.op = "keys" /\ JobSound(j)
  BY DEF IInv, TypeOK, JobsSound, ReadKeys, At
<1>2. /\ j.peer \in Peer /\ j.since \in Time /\ j.material \in PeerRow
      /\ j.since \in Nat /\ q \in Nat /\ clock \in Nat /\ j.since <= q
      /\ j.material.trust \in TrustState /\ j.material.fingerprint \in Key
  BY <1>1, JobFields, PeerRowFields, Times DEF IInv, TypeOK, ReadKeys
<1>3. PICK i \in FirstParsed(j.peer, q) :
         LET identity == keys[j.peer][i].key IN
           /\ identity = j.material.fingerprint
           /\ work' = [work EXCEPT ![w] =
                [op |-> "admit", peer |-> j.peer, since |-> j.since,
                 trust |-> j.material.trust, identity |-> identity]]
  BY DEF ReadKeys, Resolved, Continue
<1> DEFINE job == [op |-> "admit", peer |-> j.peer, since |-> j.since,
                   trust |-> j.material.trust, identity |-> j.material.fingerprint]
<1>4. job \in Job
  BY <1>2 DEF Job
\* The document was current at q, which is not before the request came.
<1>5. Documented(j.peer, j.material.fingerprint, j.since)
  <2>1. /\ i \in 1..Len(keys[j.peer])
        /\ keys[j.peer][i].key = j.material.fingerprint
        /\ keys[j.peer][i].retired_at = None
        /\ keys[j.peer][i].valid_until > q
    BY <1>3 DEF FirstParsed, CurrentKeys
  <2>2. keys[j.peer][i].valid_until \in Nat
    <3>1. keys[j.peer] \in Seq(KeyRow)
      BY <1>2 DEF IInv, TypeOK
    <3>2. keys[j.peer][i] \in KeyRow
      BY <3>1, <2>1
    <3>3. QED
      BY <3>2, KeyRowFields, Times
  <2>3. keys[j.peer][i].valid_until > j.since
    BY <2>1, <2>2, <1>2
  <2>4. QED
    BY <2>1, <2>3 DEF Documented
<1>6. JobSound(job)
  BY <1>1, <1>5 DEF JobSound
<1>7. work' = [work EXCEPT ![w] = job]
  BY <1>3
<1> HIDE DEF job
<1>8. QED
  BY <1>4, <1>6, <1>7, QuietWork DEF ReadKeys

LEMMA AdmitStep ==
    ASSUME IInv, NEW w \in Worker, NEW m \in Presented, NEW path \in Request,
           Admit(w, m, path)
    PROVE  IInv'
<1> DEFINE j == work[w]
           job == [op |-> "record", peer |-> j.peer, since |-> j.since, signed |-> m,
                   now |-> clock]
<1>1. j \in Job /\ j.op = "admit" /\ JobSound(j)
  BY DEF IInv, TypeOK, JobsSound, Admit, At
<1>2. /\ j.peer \in Peer /\ j.since \in Time /\ j.identity \in Key /\ m \in Signed
      /\ j.since \in Nat /\ clock \in Time /\ clock \in Nat /\ j.since <= clock
  BY <1>1, JobFields, PresentedAssumption, Times DEF IInv, TypeOK, JobSound
<1>3. job \in Job
  BY <1>2 DEF Job
<1> DEFINE d == m.delivery
           c == m.original
<1>4. /\ AcceptsRequests(j.trust) /\ PeerOf(d) = j.peer
      /\ Second(d.issued_at) <= Second(j.since) + Skew
      /\ Second(d.expires_at) <= Second(d.issued_at) + MaxLifetime
      /\ m.signer = j.identity /\ Transcript(c) = Transcript(d)
      /\ d.sender = d.source /\ d.recipient = d.destination
      /\ d.expires_at > clock
  BY DEF Admit, AdmitPolicy, Verify, Validate, Recordable
<1>5. Trusted(m, j.since, clock)
  \* What came and what was signed differ in the fractions of their times at most.
  <2>1. d \in Delivery /\ c \in Delivery
    BY <1>2, SignedFields
  <2>2. /\ c.source = d.source /\ c.destination = d.destination /\ c.request = d.request
        /\ c.sender = d.sender /\ c.recipient = d.recipient
        /\ Second(c.issued_at) = Second(d.issued_at)
        /\ Second(c.expires_at) = Second(d.expires_at)
    <3>1. PICK t : t = Transcript(d) /\ t = Transcript(c)
      BY <1>4
    <3> HIDE DEF d, c
    <3>2. QED
      BY <3>1, <2>1, TranscriptFields
  <2>3. d.issued_at \in Nat /\ d.expires_at \in Nat
    BY <2>1, DeliveryFields
  <2>4. PICK issued \in Nat, expires \in Nat, came \in Nat, now \in Nat :
           /\ issued = Second(d.issued_at) /\ expires = Second(d.expires_at)
           /\ came = Second(j.since) /\ now = Second(clock)
    BY <2>3, <1>2, Seconds
  <2>5. came <= now /\ now <= expires
    <3>1. clock <= d.expires_at
      BY <2>3, <1>2, <1>4
    <3>2. QED
      BY <3>1, <2>3, <2>4, <1>2, LaterSecond
  <2>6. issued <= now + Skew /\ now <= issued + MaxLifetime
    <3>1. issued <= came + Skew /\ expires <= issued + MaxLifetime
      BY <2>4, <1>4
    <3>2. QED
      BY <3>1, <2>5, SkewAssumption, LifetimeAssumption
  <2>7. Approved(j.peer, j.identity, j.since, clock) /\ Documented(j.peer, j.identity, j.since)
    BY <1>1, <1>4 DEF JobSound
  <2>8. PeerOf(c) = PeerOf(d)
    BY <2>2 DEF PeerOf
  <2>9. /\ Second(c.issued_at) <= Second(clock) + Skew
        /\ Second(clock) <= Second(c.expires_at)
        /\ Second(clock) <= Second(c.issued_at) + MaxLifetime
    BY <2>2, <2>4, <2>5, <2>6
  <2>10. /\ PeerOf(d) = PeerOf(c) /\ d.request = c.request
         /\ c.sender = c.source /\ c.recipient = c.destination
         /\ Approved(PeerOf(c), m.signer, j.since, clock)
         /\ Documented(PeerOf(c), m.signer, j.since)
    BY <2>2, <2>7, <2>8, <1>4
  <2>11. QED
    BY <2>9, <2>10 DEF Trusted
<1>6. JobSound(job)
  BY <1>2, <1>4, <1>5 DEF JobSound
<1>7. work' = [work EXCEPT ![w] = job]
  BY DEF Admit, Continue
<1> HIDE DEF job
<1>8. QED
  BY <1>3, <1>6, <1>7, QuietWork DEF Admit

LEMMA ReplayStep == ASSUME IInv, NEW w \in Worker, Replay(w) PROVE IInv'
  BY QuietWork DEF Replay, Continue

LEMMA RecordFederationReplayStep ==
    ASSUME IInv, NEW w \in Worker, RecordFederationReplay(w) PROVE IInv'
<1> DEFINE n == Len(audit)
<1>0. PICK j : j = work[w]
  OBVIOUS
<1>1. j \in Job /\ j.op = "record" /\ JobSound(j)
  BY <1>0 DEF IInv, TypeOK, JobsSound, RecordFederationReplay, At
<1>2. /\ j.peer \in Peer /\ j.since \in Time /\ j.signed \in Signed /\ j.now \in Time
      /\ j.signed.delivery \in Delivery /\ j.signed.delivery.request \in Request
      /\ j.signed.delivery.expires_at \in Stamp
  BY <1>1, JobFields, SignedFields, DeliveryFields DEF Delivery
<1>3. /\ j.peer = PeerOf(j.signed.delivery) /\ j.since <= clock /\ j.now <= clock
      /\ Transcript(j.signed.original) = Transcript(j.signed.delivery)
      /\ Trusted(j.signed, j.since, j.now)
  BY <1>1 DEF JobSound
<1>4. PICK e, row, r :
         /\ e = [signed |-> j.signed, since |-> j.since, accepted_at |-> j.now]
         /\ row = [body_digest |-> Transcript(j.signed.delivery),
                    expires_at |-> j.signed.delivery.expires_at, accepted_at |-> j.now]
         /\ r = j.signed.delivery.request
  OBVIOUS
<1>5. /\ e \in Event /\ e.signed = j.signed /\ e.since = j.since /\ e.accepted_at = j.now
      /\ row \in ReplayRow /\ row.body_digest = Transcript(j.signed.original)
      /\ row # None /\ <<j.peer, r>> \in Peer \X Request
  <2>1. Transcript(j.signed.delivery) \in TranscriptBytes
    BY <1>2, DeliveryFields
  <2>2. row \in ReplayRow /\ row.body_digest = Transcript(j.signed.delivery)
    BY <2>1, <1>2, <1>4 DEF ReplayRow
  <2>3. e \in Event /\ e.signed = j.signed /\ e.since = j.since /\ e.accepted_at = j.now
    BY <1>2, <1>4 DEF Event
  <2>4. QED
    BY <2>2, <2>3, <1>2, <1>3, <1>4, Nones
<1>6. /\ replays[<<j.peer, r>>] = None
      /\ replays' = [replays EXCEPT ![<<j.peer, r>>] = row]
      /\ audit' = Append(audit, e)
      /\ work' = [work EXCEPT ![w] = None]
      /\ UNCHANGED <<clock, peers, keys, approvals>>
  BY <1>0, <1>4 DEF RecordFederationReplay, Conflict, Continue
<1>7. /\ audit \in Seq(Event) /\ n \in Nat
      /\ audit' \in Seq(Event) /\ Len(audit') = n + 1 /\ audit'[n + 1] = e
      /\ \A i \in 1..n : audit'[i] = audit[i]
  BY <1>5, <1>6 DEF IInv, TypeOK
<1>8. TypeOK'
  BY <1>5, <1>6, <1>7 DEF IInv, TypeOK
<1>9. Grows
  BY <1>6, Unmoved
<1>10. JobsSound'
  <2> SUFFICES ASSUME NEW v \in Worker, work'[v] # None PROVE JobSound(work[v])'
    BY DEF JobsSound
  <2>1. v # w /\ work'[v] = work[v]
    BY <1>6 DEF IInv, TypeOK
  <2>2. QED
    BY <2>1, <1>8, <1>9, JobKept
<1>11. ApprovalsCurrent'
  BY <1>6 DEF IInv, ApprovalsCurrent
<1>12. \A i \in 1..(n + 1) : i \in 1..n \/ i = n + 1
  BY <1>7
<1>13. AuditSound'
  <2> SUFFICES ASSUME NEW i \in 1..(n + 1)
               PROVE  audit'[i].since <= clock' /\ audit'[i].accepted_at <= clock'
    BY <1>7 DEF AuditSound
  <2>1. CASE i \in 1..n
    BY <2>1, <1>7, <1>8, <1>9, AuditKept
  <2>2. CASE i = n + 1
    BY <2>2, <1>3, <1>5, <1>6, <1>7
  <2>3. QED
    BY <2>1, <2>2, <1>12
<1>14. TrustedWhileHandled'
  <2> SUFFICES ASSUME NEW i \in 1..(n + 1)
               PROVE  Trusted(audit[i].signed, audit[i].since, audit[i].accepted_at)'
    BY <1>7 DEF TrustedWhileHandled
  <2>1. CASE i \in 1..n
    <3>1. audit'[i] = audit[i]
      BY <2>1, <1>7
    <3>2. QED
      BY <2>1, <3>1, <1>8, <1>9, AuditKept
  <2>2. CASE i = n + 1
    <3>1. Trusted(e.signed, e.since, e.accepted_at)'
      BY <1>3, <1>5, <1>6 DEF Trusted, Approved, Documented
    <3>2. audit'[i] = e
      BY <2>2, <1>7
    <3>3. QED
      BY <3>1, <3>2 DEF Trusted, Approved, Documented
  <2>3. QED
    BY <2>1, <2>2, <1>12
<1>15. AcceptedOnce'
  <2> SUFFICES ASSUME NEW p \in Peer, NEW q \in Request
               PROVE  LET about == {i \in 1..Len(audit') :
                                      /\ PeerOf(audit'[i].signed.delivery) = p
                                      /\ audit'[i].signed.delivery.request = q}
                      IN  /\ \A i, k \in about : i = k
                          /\ replays'[<<p, q>>] = None <=> about = {}
                          /\ \A i \in about :
                               replays'[<<p, q>>].body_digest =
                                 Transcript(audit'[i].signed.original)
    BY DEF AcceptedOnce, PeerOf, Transcript, Second
  <2> DEFINE before == {i \in 1..n : /\ PeerOf(audit[i].signed.delivery) = p
                                     /\ audit[i].signed.delivery.request = q}
             after == {i \in 1..Len(audit') :
                         /\ PeerOf(audit'[i].signed.delivery) = p
                         /\ audit'[i].signed.delivery.request = q}
  <2>1. /\ \A i, k \in before : i = k
        /\ replays[<<p, q>>] = None <=> before = {}
        /\ \A i \in before : replays[<<p, q>>].body_digest = Transcript(audit[i].signed.original)
    BY DEF IInv, AcceptedOnce
  <2>2. \A i \in 1..n : i \in after <=> i \in before
    BY <1>7
  <2>3. n + 1 \in after <=> (p = j.peer /\ q = r)
    BY <1>3, <1>4, <1>5, <1>7
  <2>4. before \subseteq 1..n /\ after \subseteq 1..(n + 1)
    BY <1>7
  <2>5. CASE p = j.peer /\ q = r
    <3>1. before = {}
      BY <2>1, <2>5, <1>6
    <3>2. after = {n + 1}
      BY <3>1, <2>2, <2>3, <2>4, <2>5, <1>12
    <3>3. replays'[<<p, q>>] = row
      BY <2>5, <1>5, <1>6 DEF IInv, TypeOK
    <3>4. QED
      BY <3>2, <3>3, <1>5, <1>7
  <2>6. CASE ~ (p = j.peer /\ q = r)
    <3>1. after = before
      BY <2>2, <2>3, <2>4, <2>6, <1>12
    <3>2. <<p, q>> # <<j.peer, r>> /\ replays'[<<p, q>>] = replays[<<p, q>>]
      BY <2>6, <1>6 DEF IInv, TypeOK
    <3>3. \A i \in before : audit'[i] = audit[i]
      BY <2>4, <1>7
    <3>4. QED
      BY <3>1, <3>2, <3>3, <2>1
  <2>7. QED
    BY <2>5, <2>6
<1>16. QED
  BY <1>8, <1>10, <1>11, <1>13, <1>14, <1>15 DEF IInv

-----------------------------------------------------------------------------
(* The theorems. *)

LEMMA Inductive == IInv /\ [Next]_vars => IInv'
<1> SUFFICES ASSUME IInv, [Next]_vars PROVE IInv'
  OBVIOUS
<1>1. CASE UNCHANGED vars
  <2>1. UNCHANGED <<clock, peers, keys, replays, audit, approvals, work>>
    BY <1>1 DEF vars
  <2>2. TypeOK'
    BY <2>1 DEF IInv, TypeOK
  <2>3. Grows
    BY <2>1, Unmoved
  <2>4. ApprovalsCurrent'
    BY <2>1 DEF IInv, ApprovalsCurrent
  <2>5. QED
    BY <2>1, <2>2, <2>3, <2>4, JobsKept, HistoryKept DEF IInv
<1>2. CASE Next
  BY <1>2, TickStep, SetPeerStep, AddKeyStep, RetireKeyStep, AbandonStep,
     DeliverFederationStep, ReadKeysStep, AdmitStep, RecordFederationReplayStep,
     ReplayStep DEF Next
<1>3. QED
  BY <1>1, <1>2

LEMMA Invariance == Spec => []IInv
  BY IInvInit, Inductive, PTL DEF Spec

\* The tables and the requests hold only values of their types.
THEOREM TypeCorrect == Spec => []TypeOK
<1>1. IInv => TypeOK
  BY DEF IInv
<1>2. QED
  BY <1>1, Invariance, PTL

\* record_federation_replay accepts a request identifier of a peer once, whatever
\* copies and variants of its delivery are handled at the same time, and the audit
\* trail reports exactly what the replay table holds.
THEOREM AcceptedOnceSafe == Spec => []AcceptedOnce
<1>1. IInv => AcceptedOnce
  BY DEF IInv
<1>2. QED
  BY <1>1, Invariance, PTL

\* Every accepted delivery was signed, up to the fractions of its times, by a key that
\* the owner had pinned, for an active peer, at some time while it was handled, and that
\* stood in a current document when it came; and no later than in the second of expiry
\* that was signed.  Peer, documents and replay record are three statements, so that
\* trust withdrawn between them does not stop it.
THEOREM TrustedSafe == Spec => []TrustedWhileHandled
<1>1. IInv => TrustedWhileHandled
  BY DEF IInv
<1>2. QED
  BY <1>1, Invariance, PTL
=============================================================================
