-------------------------- MODULE FederationIngress --------------------------
(***************************************************************************)
(* Federation ingress of the Fabric authority: a remote authority's signed *)
(* delivery is checked against the peer its domain is pinned to, and its   *)
(* request identifier is recorded so that it is admitted once.             *)
(*                                                                         *)
(* The peer row, its key documents and the replay record are three         *)
(* statements of one request, and the tenant's owner changes trust and     *)
(* keys between them.  Deliveries are repeated, forged and altered at      *)
(* will: a request brings any message, late or early.  work[w] is what a   *)
(* request carries from one statement to the next; the message is chosen   *)
(* where it is first looked at.                                            *)
(*                                                                         *)
(* Times are counted in ticks, Ticks to the second.  Deliveries carry and  *)
(* the tables keep them in full, but the signatures cover whole seconds    *)
(* and most of the tests compare whole seconds.                            *)
(*                                                                         *)
(* A complete identity, its fingerprint and its pair of signing keys are   *)
(* one Key: fingerprints do not collide.  No code writes the tables of     *)
(* peers and keys: their changes are an operator's and external.           *)
(***************************************************************************)
EXTENDS Naturals, Sequences

CONSTANTS
    Local,        \* domains of tenants of this authority
    Remote,       \* domains of other authorities
    Key,          \* complete identities of authorities
    Request,      \* request identifiers
    Document,     \* bound: what the key documents of a peer hold
    Presented,    \* bound: the signed deliveries that requests bring
    Trust,        \* bound: the states of trust an owner chooses
    Worker,       \* requests the service handles at a time
    Ticks,        \* the ticks of a second
    Skew,         \* MAX_CLOCK_SKEW_SECONDS
    MaxLifetime,  \* MAX_DELIVERY_LIFETIME_SECONDS
    MaxClock,     \* bound: the wall clock
    MaxStamp,     \* bound: the times a delivery names
    MaxKeys,      \* bound: key documents of a peer
    None          \* a row that does not exist, a document that does not parse

Time == 1..MaxClock
Later == 1..(MaxClock + 1)
Stamp == 1..MaxStamp
Peer == Local \X Remote
Domain == Local \cup Remote

TrustState == {"pending", "active", "suspended", "revoked"}

PeerRow == [trust : TrustState, fingerprint : Key]

KeyRow == [key : Key \cup {None}, valid_until : Later, retired_at : Time \cup {None}]

Delivery ==
    [source : Remote, destination : Local, sender : Domain, recipient : Domain,
     request : Request, issued_at : Stamp, expires_at : Stamp, oversized : BOOLEAN]

PeerOf(d) == <<d.destination, d.source>>

\* OffsetDateTime::unix_timestamp
Second(t) == t \div Ticks

\* FederationDelivery::transcript: what is signed, and what the body digest is of.
Transcript(d) == [d EXCEPT !.issued_at = Second(@), !.expires_at = Second(@)]

TranscriptBytes ==
    [source : Remote, destination : Local, sender : Domain, recipient : Domain,
     request : Request, issued_at : Nat, expires_at : Nat, oversized : BOOLEAN]

\* original: the delivery whose transcript the two keys of signer have signed.
Signed == [delivery : Delivery, identity : Key, signer : Key, original : Delivery]

ReplayRow == [body_digest : TranscriptBytes, expires_at : Stamp, accepted_at : Time]

\* What insert_audit records of an acceptance, and when the request came.
Event == [signed : Signed, since : Time, accepted_at : Time]

Job ==
    [op : {"keys"}, peer : Peer, since : Time, material : PeerRow]
      \cup [op : {"admit"}, peer : Peer, since : Time, trust : TrustState, identity : Key]
      \cup [op : {"record"}, peer : Peer, since : Time, signed : Signed, now : Time]

ASSUME TrustAssumption == Trust \subseteq TrustState
ASSUME DocumentAssumption == Document \subseteq Key \cup {None}
ASSUME PresentedAssumption == Presented \subseteq Signed
ASSUME TicksAssumption == Ticks \in Nat \ {0}
ASSUME SkewAssumption == Skew \in Nat
ASSUME LifetimeAssumption == MaxLifetime \in Nat \ {0}
ASSUME MaxClockAssumption == MaxClock \in Nat \ {0}
ASSUME MaxStampAssumption == MaxStamp \in Nat
ASSUME MaxKeysAssumption == MaxKeys \in Nat
ASSUME NoneAssumption == None \notin Key \cup Time \cup PeerRow \cup ReplayRow \cup Job

VARIABLES
    clock,      \* OffsetDateTime::now_utc
    peers,      \* table federation_peers
    keys,       \* table federation_keys, by first_seen_at
    replays,    \* table federation_replays
    audit,      \* table audit_events, the acceptances
    approvals,  \* when each key was the pinned one of an active peer
    work        \* the request each worker is handling

vars == <<clock, peers, keys, replays, audit, approvals, work>>

TypeOK ==
    /\ clock \in Time
    /\ peers \in [Peer -> PeerRow \cup {None}]
    /\ keys \in [Peer -> Seq(KeyRow)]
    /\ replays \in [Peer \X Request -> ReplayRow \cup {None}]
    /\ audit \in Seq(Event)
    /\ approvals \subseteq Peer \X Key \X Time
    /\ work \in [Worker -> Job \cup {None}]

Init ==
    /\ clock = 1
    /\ peers = [p \in Peer |-> None]
    /\ keys = [p \in Peer |-> <<>>]
    /\ replays = [x \in Peer \X Request |-> None]
    /\ audit = <<>>
    /\ approvals = {}
    /\ work = [w \in Worker |-> None]

At(w, op) == work[w] # None /\ work[w].op = op
Continue(w, job) == work' = [work EXCEPT ![w] = job]

-----------------------------------------------------------------------------
(* Time and the owner of the tenant. *)

\* FederationTrustState::accepts_requests
AcceptsRequests(trust) == trust = "active"

\* The approvals in force among the rows of table, at time now.
ApprovedIn(table, now) ==
    {<<p, table[p].fingerprint, now>> :
       p \in {q \in Peer : table[q] # None /\ AcceptsRequests(table[q].trust)}}

Tick ==
    /\ clock < MaxClock
    /\ clock' = clock + 1
    /\ approvals' = approvals \cup ApprovedIn(peers, clock')
    /\ UNCHANGED <<peers, keys, replays, audit, work>>

\* The owner pins key k for peer p, or pins another, in some state of trust.
SetPeer(p, trust, k) ==
    /\ peers' = [peers EXCEPT ![p] = [trust |-> trust, fingerprint |-> k]]
    /\ approvals' = approvals \cup ApprovedIn(peers', clock)
    /\ UNCHANGED <<clock, keys, replays, audit, work>>

\* A key document of p is stored, one that does not parse perhaps, or retired.
AddKey(p, k, until) ==
    /\ peers[p] # None
    /\ until > clock
    /\ Len(keys[p]) < MaxKeys
    /\ keys' = [keys EXCEPT ![p] =
         Append(@, [key |-> k, valid_until |-> until, retired_at |-> None])]
    /\ UNCHANGED <<clock, peers, replays, audit, approvals, work>>

RetireKey(p, i) ==
    /\ i \in 1..Len(keys[p])
    /\ keys[p][i].retired_at = None
    /\ keys' = [keys EXCEPT ![p][i].retired_at = clock]
    /\ UNCHANGED <<clock, peers, replays, audit, approvals, work>>

-----------------------------------------------------------------------------
(* One delivery. *)

\* A request ends without further effect, whatever it committed before.
Abandon(w) ==
    /\ work[w] # None
    /\ Continue(w, None)
    /\ UNCHANGED <<clock, peers, keys, replays, audit, approvals>>

\* deliver_federation reads the clock, and federation_peer_material the peer of the
\* two domains the delivery names; without one it is rejected.
DeliverFederation(w, p, since) ==
    /\ work[w] = None
    /\ since <= clock
    /\ peers[p] # None
    /\ Continue(w, [op |-> "keys", peer |-> p, since |-> since, material |-> peers[p]])
    /\ UNCHANGED <<clock, peers, keys, replays, audit, approvals>>

\* Positions of the documents neither retired nor outdated at time now, by first_seen_at.
CurrentKeys(p, now) ==
    {i \in 1..Len(keys[p]) :
       keys[p][i].retired_at = None /\ keys[p][i].valid_until > now}

\* find_map(parse_pinned_identity): of these, the first document that parses, if any.
FirstParsed(p, now) ==
    {i \in CurrentKeys(p, now) :
       /\ keys[p][i].key # None
       /\ \A k \in CurrentKeys(p, now) : keys[p][k].key # None => i <= k}

\* Mutant: the fingerprint is not compared.
ResolvedUnpinned(identity, fingerprint) == TRUE

\* resolve: that identity has to be the pinned one; a later document is not tried.
Resolved(identity, fingerprint) == identity = fingerprint

\* The second query of federation_peer_material, with the clock read before it.
ReadKeys(w, q) ==
    /\ At(w, "keys")
    /\ q \in work[w].since..clock
    /\ \E i \in FirstParsed(work[w].peer, q) :
         LET identity == keys[work[w].peer][i].key IN
           /\ Resolved(identity, work[w].material.fingerprint)
           /\ Continue(w, [op |-> "admit", peer |-> work[w].peer, since |-> work[w].since,
                           trust |-> work[w].material.trust, identity |-> identity])
    /\ UNCHANGED <<clock, peers, keys, replays, audit, approvals>>

\* FederationDelivery::validate, which both signing and verifying call.
Validate(d) ==
    /\ d.sender = d.source
    /\ d.recipient = d.destination
    /\ ~ d.oversized
    /\ Second(d.issued_at) < Second(d.expires_at)
    /\ Second(d.expires_at) <= Second(d.issued_at) + MaxLifetime

\* SignedFederationDelivery::verify: the signatures are checked over the transcript of
\* the delivery that came.
Verify(m, expected) ==
    /\ m.identity = expected
    /\ Validate(m.delivery)
    /\ m.signer = expected
    /\ Transcript(m.original) = Transcript(m.delivery)

\* RemotePeerPolicy::admit, for the peer and identity that request j has resolved.
AdmitPolicy(j, m) ==
    /\ AcceptsRequests(j.trust)
    /\ PeerOf(m.delivery) = j.peer
    /\ Second(m.delivery.issued_at) <= Second(j.since) + Skew
    /\ Second(m.delivery.expires_at) + Skew >= Second(j.since)
    /\ Verify(m, j.identity)

\* record_federation_replay tests the expiry again, in full and without the skew.
Recordable(d, now) == d.expires_at > now

\* The delivery is checked in memory, its path against its body first.
Admit(w, m, path) ==
    /\ At(w, "admit")
    /\ path = m.delivery.request
    /\ AdmitPolicy(work[w], m)
    /\ Recordable(m.delivery, clock)
    /\ Continue(w, [op |-> "record", peer |-> work[w].peer, since |-> work[w].since,
                    signed |-> m, now |-> clock])
    /\ UNCHANGED <<clock, peers, keys, replays, audit, approvals>>

\* Mutant: the row is written whether or not there is one.
ConflictIgnored(p, r) == FALSE

\* ON CONFLICT (tenant_id, peer_id, request_id) DO NOTHING
Conflict(p, r) == replays[<<p, r>>] # None

\* The replay record and its audit event, in one transaction: Accepted.
RecordFederationReplay(w) ==
    /\ At(w, "record")
    /\ LET j == work[w]
           d == j.signed.delivery
       IN  /\ ~ Conflict(j.peer, d.request)
           /\ replays' = [replays EXCEPT ![<<j.peer, d.request>>] =
                [body_digest |-> Transcript(d), expires_at |-> d.expires_at,
                 accepted_at |-> j.now]]
           /\ audit' = Append(audit, [signed |-> j.signed, since |-> j.since,
                                      accepted_at |-> j.now])
    /\ Continue(w, None)
    /\ UNCHANGED <<clock, peers, keys, approvals>>

\* The identifier is known: Replay, whatever else the delivery says.
Replay(w) ==
    /\ At(w, "record")
    /\ Conflict(work[w].peer, work[w].signed.delivery.request)
    /\ Continue(w, None)
    /\ UNCHANGED <<clock, peers, keys, replays, audit, approvals>>

-----------------------------------------------------------------------------

Next ==
    \/ Tick
    \/ \E p \in Peer :
         \/ \E trust \in Trust, k \in Key : SetPeer(p, trust, k)
         \/ \E k \in Document, until \in Later : AddKey(p, k, until)
         \/ \E i \in 1..MaxKeys : RetireKey(p, i)
    \/ \E w \in Worker :
         \/ Abandon(w)
         \/ \E p \in Peer, since \in Time : DeliverFederation(w, p, since)
         \/ \E q \in Time : ReadKeys(w, q)
         \/ \E m \in Presented, path \in Request : Admit(w, m, path)
         \/ RecordFederationReplay(w)
         \/ Replay(w)

Spec == Init /\ [][Next]_vars

-----------------------------------------------------------------------------
(* Properties. *)

\* Each request identifier of a peer is accepted once, however many copies and variants
\* of its delivery arrive, together or after a failure, and the audit trail and the
\* replay table agree on which and on what its signer signed (record_federation_replay).
AcceptedOnce ==
    \A p \in Peer, r \in Request :
        LET about == {i \in 1..Len(audit) : /\ PeerOf(audit[i].signed.delivery) = p
                                           /\ audit[i].signed.delivery.request = r}
        IN  /\ \A i, k \in about : i = k
            /\ replays[<<p, r>>] = None <=> about = {}
            /\ \A i \in about :
                 replays[<<p, r>>].body_digest = Transcript(audit[i].signed.original)

\* Key k was the pinned one of the active peer p at some time from since to now.
Approved(p, k, since, now) == \E q \in since..now : <<p, k, q>> \in approvals

\* A document of p holds key k, one that was neither outdated nor retired at time since.
Documented(p, k, since) ==
    \E i \in 1..Len(keys[p]) :
        /\ keys[p][i].key = k
        /\ keys[p][i].valid_until > since
        /\ keys[p][i].retired_at = None \/ keys[p][i].retired_at >= since

\* What makes a delivery acceptable to a request that came at time since and was
\* checked at time now, by what its signer signed: d.
Trusted(m, since, now) ==
    LET d == m.original IN
      /\ PeerOf(m.delivery) = PeerOf(d) /\ m.delivery.request = d.request
      /\ d.sender = d.source /\ d.recipient = d.destination
      /\ Second(d.issued_at) <= Second(now) + Skew
      /\ Second(now) <= Second(d.expires_at)
      /\ Second(now) <= Second(d.issued_at) + MaxLifetime
      /\ Approved(PeerOf(d), m.signer, since, now)
      /\ Documented(PeerOf(d), m.signer, since)

\* Whatever is accepted was signed by a key that was the pinned one of an active peer
\* at some time since the request came, and whose document was neither outdated nor
\* retired when it came.  What that key signed names these domains and this identifier
\* and speaks for users of the one to users of the other; at the time on the acceptance
\* its second of expiry had not passed, its lifetime had not, and its issue was no more
\* than the skew ahead (resolve, admit, record_federation_replay).
\*
\* Two stronger statements do not hold.  The fraction of the expiry is not signed, so
\* a delivery may be accepted until the end of the second in which the signed time
\* lies.  And trust is not that of the time of recording, which domain-model.md:133
\* asks for in one transaction, "never as a read-then-write sequence": peer, keys and
\* record are three statements, and trust withdrawn between them is not noticed.
TrustedWhileHandled ==
    \A i \in 1..Len(audit) :
        Trusted(audit[i].signed, audit[i].since, audit[i].accepted_at)

-----------------------------------------------------------------------------
(* What the properties rest on. *)

\* Trust in force now is among the approvals.
ApprovalsCurrent ==
    \A p \in Peer : (peers[p] # None /\ AcceptsRequests(peers[p].trust)) =>
        <<p, peers[p].fingerprint, clock>> \in approvals

\* What a request has read was true at some time since it came.
JobSound(j) ==
    /\ j.since <= clock
    /\ j.op = "keys" => (AcceptsRequests(j.material.trust) =>
         Approved(j.peer, j.material.fingerprint, j.since, clock))
    /\ j.op = "admit" =>
         /\ AcceptsRequests(j.trust) => Approved(j.peer, j.identity, j.since, clock)
         /\ Documented(j.peer, j.identity, j.since)
    /\ j.op = "record" =>
         /\ j.peer = PeerOf(j.signed.delivery)
         /\ Transcript(j.signed.original) = Transcript(j.signed.delivery)
         /\ j.now <= clock
         /\ Trusted(j.signed, j.since, j.now)

JobsSound == \A w \in Worker : work[w] # None => JobSound(work[w])

AuditSound ==
    \A i \in 1..Len(audit) : audit[i].since <= clock /\ audit[i].accepted_at <= clock
=============================================================================
