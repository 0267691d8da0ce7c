---------------------------- MODULE FcpConnection ----------------------------
(***************************************************************************)
(* The portable FCP connection core: libfcp-core's `Connection`, the       *)
(* per-peer state machine of one connection attempt, on both sides of an   *)
(* untrusted signaling carrier.                                            *)
(*                                                                         *)
(* A Connection is named by what Connection::new pins for its lifetime:    *)
(* federation, attempt, local and remote endpoint identity.  The carrier   *)
(* is the set of all envelopes ever signed: an envelope in it can reach    *)
(* any connection, in any order, any number of times, or never, which      *)
(* covers loss, delay, duplication, reordering and misrouting.  It cannot  *)
(* alter one: both signatures cover every field, so an envelope that       *)
(* verifies is one its sender signed.  Endpoints in Foreign do not run     *)
(* this library and sign whatever they like with their own keys.           *)
(*                                                                         *)
(* An operation that returns Err changes nothing in the code, so it is a   *)
(* stuttering step here; so is the receipt of an envelope still in the     *)
(* replay window, which returns Ok with no actions.                        *)
(***************************************************************************)
EXTENDS Naturals, Sequences

CONSTANTS
    Federation,   \* FederationId values
    Attempt,      \* AttemptId values
    Endpoint,     \* complete EndpointIdentity values
    Foreign,      \* the endpoints whose software is not this library
    Description,  \* opaque offer and answer descriptions, binding included
    Candidate,    \* opaque ICE candidates, diagnostic sequence included
    Payload,      \* opaque CFR control payloads
    MaxSeen,      \* MAX_SEEN_ENVELOPES, the capacity of the replay window
    MaxApplied,   \* bound: adapter actions a connection emits on receipt
    NoId          \* the absent EnvelopeId of an Option

ASSUME MaxSeenAssumption == MaxSeen \in Nat \ {0}
ASSUME MaxAppliedAssumption == MaxApplied \in Nat
ASSUME ForeignAssumption == Foreign \subseteq Endpoint

VARIABLES
    signed,       \* every envelope this library signed so far: the carrier's to deliver
    phase,        \* Connection.phase
    negotiation,  \* Connection.negotiation
    seen,         \* Connection.seen, oldest first
    applied       \* the envelopes for which receive handed the adapter an action

vars == <<signed, phase, negotiation, seen, applied>>

-----------------------------------------------------------------------------
(* Identities, envelopes and their identifiers. *)

\* Connection::new refuses a connection of an endpoint with itself.
Conn ==
    {c \in [federation : Federation, attempt : Attempt,
            local : Endpoint \ Foreign, remote : Endpoint] :
        c.local # c.remote}

\* The connection at the other end of the same attempt.
Peer(c) == [c EXCEPT !.local = c.remote, !.remote = c.local]

Phase == {"Idle", "OfferSent", "OfferReceived", "AnswerSent",
          "AnswerReceived", "Established", "Closed"}

\* Candidates may be sent and accepted in these phases.
Negotiating == Phase \ {"Idle", "Closed"}

\* What an envelope carries beside its body; the four fields route it.
Routed(Body) ==
    [federation : Federation, attempt : Attempt,
     sender : Endpoint, recipient : Endpoint, body : Body]

Offers == Routed([kind : {"Offer"}, description : Description])
Answers == Routed([kind : {"Answer"}, offer_id : Offers, description : Description])
Candidates ==
    Routed([kind : {"Candidate"}, parent_id : Offers \cup Answers, candidate : Candidate])
Closes == Routed([kind : {"Close"}])
CfrControls == Routed([kind : {"CfrControl"}, payload : Payload])
Envelope == Offers \cup Answers \cup Candidates \cup Closes \cup CfrControls

ASSUME NoIdAssumption == NoId \notin Envelope

\* A foreign endpoint signs any body with its own keys: its envelopes verify, and
\* need not follow the state machine.
ForeignEnvelopes == {e \in Envelope : e.sender \in Foreign}

\* EnvelopeId is a digest of the complete canonical bytes, signatures included.
\* Both signature schemes are used deterministically, so the digest of an
\* envelope is a function of its contents alone, and a collision-free digest is
\* represented by those contents: signing the same body twice gives one id.
Id(envelope) == envelope

\* Envelope::sign by signer s, addressed with what connection c pins.
Sign(c, s, body) ==
    [federation |-> c.federation, attempt |-> c.attempt,
     sender |-> s, recipient |-> c.remote, body |-> body]

TypeOK ==
    /\ signed \subseteq Envelope
    /\ phase \in [Conn -> Phase]
    /\ negotiation \in
         [Conn -> [offer : Offers \cup {NoId}, answer : Answers \cup {NoId}]]
    /\ seen \in [Conn -> Seq(Envelope)]
    /\ \A c \in Conn : Len(seen[c]) <= MaxSeen
    /\ applied \in [Conn -> Seq(Envelope)]

Init ==
    /\ signed = {}
    /\ phase = [c \in Conn |-> "Idle"]
    /\ negotiation = [c \in Conn |-> [offer |-> NoId, answer |-> NoId]]
    /\ seen = [c \in Conn |-> <<>>]
    /\ applied = [c \in Conn |-> <<>>]

-----------------------------------------------------------------------------
(* Local operations.  s is the signer the application passes in. *)

RequireLocalSigner(c, s) == s = c.local

BeginOffer(c, s, description) ==
    LET offer == Sign(c, s, [kind |-> "Offer", description |-> description])
    IN  /\ RequireLocalSigner(c, s)
        /\ phase[c] = "Idle"
        /\ negotiation' =
             [negotiation EXCEPT ![c] = [offer |-> Id(offer), answer |-> NoId]]
        /\ phase' = [phase EXCEPT ![c] = "OfferSent"]
        /\ signed' = signed \cup {offer}
        /\ UNCHANGED <<seen, applied>>

\* Mutant of Answer: a side that has answered may answer again.
Answer_Again(c, s, description) ==
    LET answer == Sign(c, s, [kind |-> "Answer", offer_id |-> negotiation[c].offer,
                              description |-> description])
    IN  /\ RequireLocalSigner(c, s)
        /\ phase[c] \in {"OfferReceived", "AnswerSent"}
        /\ negotiation' = [negotiation EXCEPT ![c].answer = Id(answer)]
        /\ phase' = [phase EXCEPT ![c] = "AnswerSent"]
        /\ signed' = signed \cup {answer}
        /\ UNCHANGED <<seen, applied>>

Answer(c, s, description) ==
    LET offer_id == negotiation[c].offer
        answer == Sign(c, s, [kind |-> "Answer", offer_id |-> offer_id,
                              description |-> description])
    IN  /\ RequireLocalSigner(c, s)
        /\ phase[c] = "OfferReceived"
        /\ offer_id # NoId
        /\ negotiation' =
             [negotiation EXCEPT ![c] = [offer |-> offer_id, answer |-> Id(answer)]]
        /\ phase' = [phase EXCEPT ![c] = "AnswerSent"]
        /\ signed' = signed \cup {answer}
        /\ UNCHANGED <<seen, applied>>

\* The envelope a new local candidate is bound to: the answer once there is one.
Parent(c) ==
    IF negotiation[c].answer # NoId THEN negotiation[c].answer
                                    ELSE negotiation[c].offer

SendCandidate(c, s, candidate) ==
    /\ RequireLocalSigner(c, s)
    /\ phase[c] \in Negotiating
    /\ negotiation[c].offer # NoId
    /\ signed' = signed \cup
         {Sign(c, s, [kind |-> "Candidate", parent_id |-> Parent(c),
                      candidate |-> candidate])}
    /\ UNCHANGED <<phase, negotiation, seen, applied>>

\* Mutant of SendCfrControl: early data, before the transport is connected.
SendCfrControl_Early(c, s, payload) ==
    /\ RequireLocalSigner(c, s)
    /\ phase[c] \in {"AnswerSent", "Established"}
    /\ signed' = signed \cup
         {Sign(c, s, [kind |-> "CfrControl", payload |-> payload])}
    /\ UNCHANGED <<phase, negotiation, seen, applied>>

SendCfrControl(c, s, payload) ==
    /\ RequireLocalSigner(c, s)
    /\ phase[c] = "Established"
    /\ signed' = signed \cup
         {Sign(c, s, [kind |-> "CfrControl", payload |-> payload])}
    /\ UNCHANGED <<phase, negotiation, seen, applied>>

Close(c, s) ==
    /\ RequireLocalSigner(c, s)
    /\ phase[c] \notin {"Idle", "Closed"}
    /\ phase' = [phase EXCEPT ![c] = "Closed"]
    /\ signed' = signed \cup {Sign(c, s, [kind |-> "Close"])}
    /\ UNCHANGED <<negotiation, seen, applied>>

\* Mutant of TransportConnected: a late connected event revives a closed attempt.
TransportConnected_Late(c) ==
    /\ phase[c] \in {"AnswerSent", "AnswerReceived", "Closed"}
    /\ phase' = [phase EXCEPT ![c] = "Established"]
    /\ UNCHANGED <<signed, negotiation, seen, applied>>

\* The adapter reports a connected control channel.
TransportConnected(c) ==
    /\ phase[c] \in {"AnswerSent", "AnswerReceived"}
    /\ phase' = [phase EXCEPT ![c] = "Established"]
    /\ UNCHANGED <<signed, negotiation, seen, applied>>

\* The adapter reports a platform failure; no close is manufactured.
TransportFailed(c) ==
    /\ phase[c] \notin {"Idle", "Closed"}
    /\ phase' = [phase EXCEPT ![c] = "Closed"]
    /\ UNCHANGED <<signed, negotiation, seen, applied>>

-----------------------------------------------------------------------------
(* Receipt of an envelope from the carrier. *)

\* Mutant of ValidInbound: the attempt is not compared.
ValidInbound_AnyAttempt(c, e) ==
    /\ e.federation = c.federation
    /\ e.sender = c.remote
    /\ e.recipient = c.local
    /\ e \in signed \/ e.sender \in Foreign

\* validate_inbound: exact routing, then both signatures.
ValidInbound(c, e) ==
    /\ e.federation = c.federation
    /\ e.attempt = c.attempt
    /\ e.sender = c.remote
    /\ e.recipient = c.local
    /\ e \in signed \/ e.sender \in Foreign

InWindow(c, e) == \E i \in DOMAIN seen[c] : seen[c][i] = Id(e)

\* Mutants of NoteSeen: nothing is ever forgotten; eviction comes one too early.
NoteSeen_Unbounded(window, e) == Append(window, Id(e))
NoteSeen_Early(window, e) ==
    Append(IF Len(window) = MaxSeen - 1 THEN Tail(window) ELSE window, Id(e))

\* note_seen: a full window forgets its oldest envelope.
NoteSeen(window, e) ==
    Append(IF Len(window) = MaxSeen THEN Tail(window) ELSE window, Id(e))

\* What every accepted envelope leaves behind: one adapter action, one seen id.
Accept(c, e) ==
    /\ Len(applied[c]) < MaxApplied
    /\ seen' = [seen EXCEPT ![c] = NoteSeen(@, e)]
    /\ applied' = [applied EXCEPT ![c] = Append(@, e)]
    /\ UNCHANGED signed

\* Mutants of ReceiveOffer: a polite side drops its own offer; any offer restarts.
ReceiveOffer_Polite(c, e) ==
    /\ e.body.kind = "Offer"
    /\ phase[c] \in {"Idle", "OfferSent"}
    /\ negotiation' = [negotiation EXCEPT ![c] = [offer |-> Id(e), answer |-> NoId]]
    /\ phase' = [phase EXCEPT ![c] = "OfferReceived"]
ReceiveOffer_Restart(c, e) ==
    /\ e.body.kind = "Offer"
    /\ phase[c] \notin {"OfferSent", "Closed"}
    /\ negotiation' = [negotiation EXCEPT ![c] = [offer |-> Id(e), answer |-> NoId]]
    /\ phase' = [phase EXCEPT ![c] = "OfferReceived"]

\* An offer that meets a local offer is Glare, in any other live phase InvalidState.
ReceiveOffer(c, e) ==
    /\ e.body.kind = "Offer"
    /\ phase[c] = "Idle"
    /\ negotiation' = [negotiation EXCEPT ![c] = [offer |-> Id(e), answer |-> NoId]]
    /\ phase' = [phase EXCEPT ![c] = "OfferReceived"]

ReceiveAnswer(c, e) ==
    /\ e.body.kind = "Answer"
    /\ phase[c] = "OfferSent"
    /\ negotiation[c].offer # NoId
    /\ negotiation[c].offer = e.body.offer_id
    /\ negotiation' = [negotiation EXCEPT ![c].answer = Id(e)]
    /\ phase' = [phase EXCEPT ![c] = "AnswerReceived"]

ValidCandidateParent(c, parent) ==
    /\ negotiation[c].offer # NoId
    /\ phase[c] \in Negotiating
    /\ parent \in {negotiation[c].offer, negotiation[c].answer}

ReceiveCandidate(c, e) ==
    /\ e.body.kind = "Candidate"
    /\ ValidCandidateParent(c, e.body.parent_id)
    /\ UNCHANGED <<phase, negotiation>>

ReceiveClose(c, e) ==
    /\ e.body.kind = "Close"
    /\ phase[c] \notin {"Idle", "Closed"}
    /\ phase' = [phase EXCEPT ![c] = "Closed"]
    /\ UNCHANGED negotiation

\* Mutant of ReceiveCfrControl: delivery in every live phase.
ReceiveCfrControl_Early(c, e) ==
    /\ e.body.kind = "CfrControl"
    /\ phase[c] \in Negotiating
    /\ UNCHANGED <<phase, negotiation>>

ReceiveCfrControl(c, e) ==
    /\ e.body.kind = "CfrControl"
    /\ phase[c] = "Established"
    /\ UNCHANGED <<phase, negotiation>>

Receive(c, e) ==
    /\ ValidInbound(c, e)
    /\ ~ InWindow(c, e)
    /\ \/ ReceiveOffer(c, e)
       \/ ReceiveAnswer(c, e)
       \/ ReceiveCandidate(c, e)
       \/ ReceiveClose(c, e)
       \/ ReceiveCfrControl(c, e)
    /\ Accept(c, e)

-----------------------------------------------------------------------------

LocalStep(c) ==
    \/ \E s \in Endpoint :
         \/ \E d \in Description : BeginOffer(c, s, d) \/ Answer(c, s, d)
         \/ \E x \in Candidate : SendCandidate(c, s, x)
         \/ \E p \in Payload : SendCfrControl(c, s, p)
         \/ Close(c, s)
    \/ TransportConnected(c)
    \/ TransportFailed(c)

Next ==
    \E c \in Conn :
        \/ LocalStep(c)
        \/ \E e \in signed : Receive(c, e)
        \/ \E e \in ForeignEnvelopes : Receive(c, e)

Spec == Init /\ [][Next]_vars

-----------------------------------------------------------------------------
(* Properties. *)

\* Envelope e was addressed and signed by the side of connection c.
From(c, e) ==
    /\ e.federation = c.federation /\ e.attempt = c.attempt
    /\ e.sender = c.local /\ e.recipient = c.remote

Between(c, e) == From(c, e) \/ From(Peer(c), e)

\* The replay window (connection.rs receive and note_seen): an envelope causes a
\* second adapter action only after at least MaxSeen others were accepted since
\* the first, whatever the carrier replays and whatever the peer signs.
ReplayWindow ==
    \A c \in Conn : \A i, j \in DOMAIN applied[c] :
        (i < j /\ applied[c][i] = applied[c][j]) => j - i > MaxSeen

\* Negotiation envelopes are applied at most once in the life of an attempt, even
\* after the replay window has forgotten them, and no connection applies both an
\* offer and an answer (receive: the phase guards of Offer, Answer and Close).
NegotiatedOnce ==
    \A c \in Conn : \A i, j \in DOMAIN applied[c] :
        LET k == applied[c][i].body.kind
            l == applied[c][j].body.kind
        IN  i # j =>
              /\ k = l => k \in {"Candidate", "CfrControl"}
              /\ ~ (k = "Offer" /\ l = "Answer")

\* Every candidate handed to the engine, at any earlier time, belongs to the
\* negotiation the connection holds now, and nothing is applied before the offer
\* (validate_candidate_parent; protocol.md section 5: "candidates cannot be
\* silently moved between concurrent attempts").
CandidatesBelongHere ==
    \A c \in Conn : \A i \in DOMAIN applied[c] :
        LET e == applied[c][i]
        IN  e.body.kind = "Candidate" =>
              /\ e.body.parent_id \in {negotiation[c].offer, negotiation[c].answer}
              /\ Between(c, e.body.parent_id)

\* Connections at both ends of an attempt, each running this library.
Paired(c) == c \in Conn /\ Peer(c) \in Conn

Initiator(c) == negotiation[c].offer # NoId /\ negotiation[c].offer.sender = c.local

\* Agreement: once either end holds an answer, both ends hold the same offer, and
\* if both hold an answer it is the same one; the initiator's answer is always one
\* the responder gave (begin_offer, answer and receive on two machines).
Agreement ==
    \A c \in Conn : (Paired(c) /\ negotiation[c].answer # NoId) =>
        LET p == Peer(c)
        IN  /\ negotiation[p].offer = negotiation[c].offer
            /\ negotiation[p].answer \in {NoId, negotiation[c].answer}
            /\ Initiator(c) => negotiation[p].answer = negotiation[c].answer

\* A CFR payload reaches the application only when the sender holds the receiver's
\* complete negotiation: the same offer and the same answer (cfr_control and the
\* CfrControl arm of receive).
CfrWithinAgreement ==
    \A c \in Conn : \A i \in DOMAIN applied[c] :
        (Paired(c) /\ applied[c][i].body.kind = "CfrControl") =>
            /\ negotiation[c].answer # NoId
            /\ negotiation[Peer(c)] = negotiation[c]

\* Connection c has signed an offer of its own, whatever it did later.
OfferedIn(c) == \E e \in signed : e.body.kind = "Offer" /\ From(c, e)

\* Simultaneous offers are reported and never resolved: when both ends opened the
\* attempt with their own offer, neither gets past OfferSent except to Closed
\* (receive: Error::Glare; docs/security.md "does not silently choose").
GlareNeverResolves ==
    \A c \in Conn : (Paired(c) /\ OfferedIn(c) /\ OfferedIn(Peer(c))) =>
        phase[c] \in {"OfferSent", "Closed"}

\* No step rewrites the offer or the answer a connection holds, and a closed
\* connection stays closed, applies nothing and signs nothing more (every
\* operation of Connection).
NeverRewritten ==
    [][\A c \in Conn :
         /\ negotiation[c].offer # NoId => negotiation'[c].offer = negotiation[c].offer
         /\ negotiation[c].answer # NoId => negotiation'[c].answer = negotiation[c].answer
         /\ phase[c] = "Closed" =>
              /\ phase'[c] = "Closed"
              /\ applied'[c] = applied[c]
              /\ \A e \in signed' \ signed : ~ From(c, e)]_vars

-----------------------------------------------------------------------------
(* The parts of the inductive invariant of FcpConnection_proofs. *)

\* The window holds the latest accepted envelopes, all of them while it has room.
IsWindowOf(w, s) ==
    /\ Len(w) <= MaxSeen
    /\ Len(w) <= Len(s)
    /\ Len(w) < MaxSeen => Len(w) = Len(s)
    /\ \A i \in 1..Len(w) : w[i] = s[Len(s) - Len(w) + i]

WindowIsSuffix == \A c \in Conn : IsWindowOf(seen[c], applied[c])

\* What the phase says about the ids a connection holds.
HeldFits(c) ==
    LET o == negotiation[c].offer
        a == negotiation[c].answer
    IN  /\ o = NoId <=> phase[c] = "Idle"
        /\ o = NoId => a = NoId
        /\ o # NoId => Between(c, o)
        /\ a # NoId => /\ a.body.offer_id = o
                       /\ IF Initiator(c) THEN From(Peer(c), a) ELSE From(c, a)
        /\ phase[c] \in {"OfferSent", "AnswerReceived"} => Initiator(c)
        /\ phase[c] \in {"OfferReceived", "AnswerSent"} => ~ Initiator(c)
        /\ phase[c] \in {"OfferSent", "OfferReceived"} => a = NoId
        /\ phase[c] \in {"AnswerSent", "AnswerReceived", "Established"} => a # NoId

NegotiationShape == \A c \in Conn : HeldFits(c)

\* What a connection has signed it still holds.
SignedIsHeld ==
    \A c \in Conn : \A e \in signed : From(c, e) =>
        /\ e.body.kind = "Offer" => negotiation[c].offer = e
        /\ e.body.kind = "Answer" => negotiation[c].answer = e
        /\ e.body.kind = "CfrControl" => negotiation[c].answer # NoId

\* What a connection holds somebody signed.
HeldIsSigned ==
    \A c \in Conn : \A id \in {negotiation[c].offer, negotiation[c].answer} :
        id # NoId => id \in signed \/ id.sender \in Foreign

\* What a connection has applied came from its peer and fits what it holds.
AppliedIsHeld ==
    \A c \in Conn : \A i \in DOMAIN applied[c] :
        LET e == applied[c][i]
        IN  /\ From(Peer(c), e)
            /\ e \in signed \/ e.sender \in Foreign
            /\ e.body.kind = "Offer" => negotiation[c].offer = e
            /\ e.body.kind = "Answer" => negotiation[c].answer = e
            /\ e.body.kind = "Candidate" =>
                 e.body.parent_id \in {negotiation[c].offer, negotiation[c].answer}
            /\ e.body.kind = "CfrControl" => negotiation[c].answer # NoId
            /\ e.body.kind = "Close" => phase[c] = "Closed"

-----------------------------------------------------------------------------

\* docs/protocol.md section 5: "A duplicate accepted envelope produces no second
\* adapter action."  Stated without the window, as the document does.
NoSecondAction ==
    \A c \in Conn : \A i, j \in DOMAIN applied[c] :
        applied[c][i] = applied[c][j] => i = j
=============================================================================
