------------------------ MODULE FcpConnection_proofs ------------------------
(***************************************************************************)
(* Proofs about FcpConnection, for every set of federations, attempts,     *)
(* endpoints (foreign ones included), payloads and every window capacity,  *)
(* up to the refinement of AttemptContract.                                *)
(***************************************************************************)
EXTENDS FcpRefinement, TLAPS

-----------------------------------------------------------------------------
(* Envelopes: what their kind says about their shape, and what Sign makes. *)

\* The kind of an envelope determines which grammar its body follows.
LEMMA KindShape ==
    ASSUME NEW e \in Envelope
    PROVE  /\ e.body.kind = "Offer" => e \in Offers
           /\ e.body.kind = "Answer" => e \in Answers
           /\ e.body.kind = "Candidate" => e \in Candidates
           /\ e.body.kind = "CfrControl" => e \in CfrControls
           /\ e.body.kind = "Close" => e \in Closes
BY DEF Envelope, Offers, Answers, Candidates, Closes, CfrControls, Routed

\* The fields of a connection's key, and those of its peer's.
LEMMA ConnFields ==
    ASSUME NEW c \in Conn
    PROVE  /\ c.federation \in Federation /\ c.attempt \in Attempt
           /\ c.local \in Endpoint \ Foreign /\ c.remote \in Endpoint
           /\ c.local # c.remote
           /\ Peer(c).federation = c.federation /\ Peer(c).attempt = c.attempt
           /\ Peer(c).local = c.remote /\ Peer(c).remote = c.local
           /\ Peer(Peer(c)) = c
BY DEF Conn, Peer

\* Signing yields an envelope of the grammar of its body.
LEMMA SignShape ==
    ASSUME NEW c \in Conn, NEW s \in Endpoint
    PROVE  /\ \A d \in Description :
                 Sign(c, s, [kind |-> "Offer", description |-> d]) \in Offers
           /\ \A d \in Description, o \in Offers :
                 Sign(c, s, [kind |-> "Answer", offer_id |-> o, description |-> d])
                    \in Answers
           /\ \A x \in Candidate, o \in Offers \cup Answers :
                 Sign(c, s, [kind |-> "Candidate", parent_id |-> o, candidate |-> x])
                    \in Candidates
           /\ \A p \in Payload :
                 Sign(c, s, [kind |-> "CfrControl", payload |-> p]) \in CfrControls
           /\ Sign(c, s, [kind |-> "Close"]) \in Closes
BY ConnFields DEF Sign, Offers, Answers, Candidates, CfrControls, Closes, Routed

-----------------------------------------------------------------------------
(* Type correctness. *)

LEMMA TypeInit == Init => TypeOK
BY MaxSeenAssumption DEF Init, TypeOK, Phase

\* Noting an envelope keeps the window within its capacity.
LEMMA NoteSeenType ==
    ASSUME NEW w \in Seq(Envelope), Len(w) <= MaxSeen, NEW e \in Envelope
    PROVE  /\ NoteSeen(w, e) \in Seq(Envelope)
           /\ Len(NoteSeen(w, e)) <= MaxSeen
<1>1. CASE Len(w) = MaxSeen
  <2>1. w # <<>>
    BY <1>1, MaxSeenAssumption
  <2>2. Tail(w) \in Seq(Envelope) /\ Len(Tail(w)) = Len(w) - 1
    BY <2>1
  <2>3. QED
    BY <1>1, <2>2, MaxSeenAssumption DEF NoteSeen, Id
<1>2. CASE Len(w) # MaxSeen
  BY <1>2, MaxSeenAssumption DEF NoteSeen, Id
<1>3. QED
  BY <1>1, <1>2

\* Every step of the connection core preserves the type invariant.
LEMMA TypeNext == TypeOK /\ [Next]_vars => TypeOK'
<1> SUFFICES ASSUME TypeOK, [Next]_vars
             PROVE  TypeOK'
  OBVIOUS
<1> USE DEF TypeOK
<1>1. ASSUME NEW c \in Conn, NEW s \in Endpoint, NEW d \in Description,
             BeginOffer(c, s, d)
      PROVE  TypeOK'
  BY <1>1, SignShape DEF BeginOffer, Id, Phase, Envelope
<1>2. ASSUME NEW c \in Conn, NEW s \in Endpoint, NEW d \in Description,
             Answer(c, s, d)
      PROVE  TypeOK'
  <2>1. negotiation[c].offer \in Offers
    BY <1>2 DEF Answer
  <2>2. Sign(c, s, [kind |-> "Answer", offer_id |-> negotiation[c].offer,
                    description |-> d]) \in Answers
    BY <2>1, SignShape
  <2>3. QED
    BY <1>2, <2>1, <2>2 DEF Answer, Id, Phase, Envelope
<1>3. ASSUME NEW c \in Conn, NEW s \in Endpoint, NEW x \in Candidate,
             SendCandidate(c, s, x)
      PROVE  TypeOK'
  <2>1. Parent(c) \in Offers \cup Answers
    BY <1>3 DEF SendCandidate, Parent
  <2>2. Sign(c, s, [kind |-> "Candidate", parent_id |-> Parent(c),
                    candidate |-> x]) \in Candidates
    BY <2>1, SignShape
  <2>3. QED
    BY <1>3, <2>2 DEF SendCandidate, Envelope
<1>4. ASSUME NEW c \in Conn, NEW s \in Endpoint, NEW p \in Payload,
             SendCfrControl(c, s, p)
      PROVE  TypeOK'
  BY <1>4, SignShape DEF SendCfrControl, Envelope
<1>5. ASSUME NEW c \in Conn, NEW s \in Endpoint, Close(c, s)
      PROVE  TypeOK'
  BY <1>5, SignShape DEF Close, Envelope, Phase
<1>6. ASSUME NEW c \in Conn, TransportConnected(c) \/ TransportFailed(c)
      PROVE  TypeOK'
  BY <1>6 DEF TransportConnected, TransportFailed, Phase
<1>7. ASSUME NEW c \in Conn, NEW e \in Envelope, Receive(c, e)
      PROVE  TypeOK'
  <2>1. seen' \in [Conn -> Seq(Envelope)] /\ \A k \in Conn : Len(seen'[k]) <= MaxSeen
    BY <1>7, NoteSeenType DEF Receive, Accept
  <2>2. applied' \in [Conn -> Seq(Envelope)] /\ signed' \subseteq Envelope
    BY <1>7 DEF Receive, Accept
  <2>3. phase' \in [Conn -> Phase]
    BY <1>7 DEF Receive, ReceiveOffer, ReceiveAnswer, ReceiveCandidate, ReceiveClose,
                ReceiveCfrControl, Phase
  <2>4. negotiation' \in
          [Conn -> [offer : Offers \cup {NoId}, answer : Answers \cup {NoId}]]
    <3>1. CASE ReceiveOffer(c, e)
      BY <3>1, KindShape DEF ReceiveOffer, Id
    <3>2. CASE ReceiveAnswer(c, e)
      BY <3>2, KindShape DEF ReceiveAnswer, Id
    <3>3. CASE ReceiveCandidate(c, e) \/ ReceiveClose(c, e) \/ ReceiveCfrControl(c, e)
      BY <3>3 DEF ReceiveCandidate, ReceiveClose, ReceiveCfrControl
    <3>4. QED
      BY <1>7, <3>1, <3>2, <3>3 DEF Receive
  <2>5. QED
    BY <2>1, <2>2, <2>3, <2>4
<1>8. CASE UNCHANGED vars
  BY <1>8 DEF vars
<1>9. QED
  BY <1>1, <1>2, <1>3, <1>4, <1>5, <1>6, <1>7, <1>8 DEF Next, LocalStep, ForeignEnvelopes

\* Type correctness of the connection core, window capacity included: the replay
\* window never exceeds MAX_SEEN_ENVELOPES however many envelopes arrive.
THEOREM TypeCorrect == Spec => []TypeOK
BY TypeInit, TypeNext, PTL DEF Spec

-----------------------------------------------------------------------------
(* The replay window. *)

\* Noting an accepted envelope keeps the window a suffix of what was accepted.
LEMMA SuffixStep ==
    ASSUME NEW s \in Seq(Envelope), NEW w \in Seq(Envelope), NEW e \in Envelope,
           IsWindowOf(w, s)
    PROVE  IsWindowOf(NoteSeen(w, e), Append(s, e))
<1> DEFINE t == Append(s, e)
           v == NoteSeen(w, e)
<1>0. /\ Len(w) <= MaxSeen /\ Len(w) <= Len(s) /\ (Len(w) < MaxSeen => Len(w) = Len(s))
      /\ \A i \in 1..Len(w) : w[i] = s[Len(s) - Len(w) + i]
  BY DEF IsWindowOf
<1>1. /\ t \in Seq(Envelope) /\ Len(t) = Len(s) + 1 /\ t[Len(s) + 1] = e
      /\ \A i \in 1..Len(s) : t[i] = s[i]
  OBVIOUS
<1>2. CASE Len(w) = MaxSeen
  <2> DEFINE u == Tail(w)
  <2>1. /\ u \in Seq(Envelope) /\ Len(u) = Len(w) - 1
        /\ \A i \in 1..Len(u) : u[i] = w[i + 1]
    BY <1>2, MaxSeenAssumption
  <2>2. v = Append(u, e)
    BY <1>2 DEF NoteSeen, Id
  <2> HIDE DEF u, v, t
  <2>3. /\ Len(v) = Len(w) /\ v[Len(w)] = e
        /\ \A i \in 1..(Len(w) - 1) : v[i] = w[i + 1]
    BY <2>1, <2>2, <1>2, MaxSeenAssumption
  <2>4. \A i \in 1..Len(w) : v[i] = t[Len(t) - Len(w) + i]
    <3> SUFFICES ASSUME NEW i \in 1..Len(w)
                 PROVE  v[i] = t[Len(t) - Len(w) + i]
      OBVIOUS
    <3>1. CASE i = Len(w)
      BY <3>1, <2>3, <1>1
    <3>2. CASE i # Len(w)
      <4>1. i \in 1..(Len(w) - 1) /\ i + 1 \in 1..Len(w)
        BY <3>2
      <4>2. v[i] = s[Len(s) - Len(w) + (i + 1)]
        BY <4>1, <2>3, <1>0
      <4>3. Len(s) - Len(w) + (i + 1) \in 1..Len(s)
        BY <4>1, <1>0
      <4>4. QED
        BY <4>2, <4>3, <1>1
    <3>3. QED
      BY <3>1, <3>2
  <2>5. IsWindowOf(v, t)
    BY <2>3, <2>4, <1>0, <1>1, <1>2, MaxSeenAssumption DEF IsWindowOf
  <2>6. QED
    BY <2>5 DEF v, t
<1>3. CASE Len(w) # MaxSeen
  <2>1. v = Append(w, e) /\ Len(w) = Len(s) /\ Len(w) < MaxSeen
    BY <1>0, <1>3, MaxSeenAssumption DEF NoteSeen, Id
  <2> HIDE DEF v, t
  <2>2. Len(v) = Len(t) /\ \A i \in 1..Len(v) : v[i] = t[i]
    BY <2>1, <1>0, <1>1
  <2>3. IsWindowOf(v, t)
    BY <2>1, <2>2, <1>1, MaxSeenAssumption DEF IsWindowOf
  <2>4. QED
    BY <2>3 DEF v, t
<1>4. QED
  BY <1>2, <1>3

\* Every step either accepts one envelope or leaves windows and history alone.
LEMMA HistoryStep ==
    ASSUME TypeOK, [Next]_vars
    PROVE  \/ UNCHANGED <<seen, applied>>
           \/ \E c \in Conn, e \in Envelope : Receive(c, e)
<1>1. ASSUME NEW c \in Conn, LocalStep(c)
      PROVE  UNCHANGED <<seen, applied>>
  BY <1>1 DEF LocalStep, BeginOffer, Answer, SendCandidate, SendCfrControl, Close,
              TransportConnected, TransportFailed
<1>2. CASE UNCHANGED vars
  BY <1>2 DEF vars
<1>3. QED
  BY <1>1, <1>2 DEF Next, ForeignEnvelopes, TypeOK

\* One step of the replay window and of the history it is compared with.
LEMMA WindowNext ==
    TypeOK /\ WindowIsSuffix /\ ReplayWindow /\ [Next]_vars
        => (WindowIsSuffix /\ ReplayWindow)'
<1> SUFFICES ASSUME TypeOK, WindowIsSuffix, ReplayWindow, [Next]_vars
             PROVE  (WindowIsSuffix /\ ReplayWindow)'
  OBVIOUS
<1>1. CASE UNCHANGED <<seen, applied>>
  <2>1. seen' = seen /\ applied' = applied
    BY <1>1
  <2>2. WindowIsSuffix'
    BY <2>1 DEF WindowIsSuffix
  <2>3. ReplayWindow'
    BY <2>1 DEF ReplayWindow
  <2>4. QED
    BY <2>2, <2>3
<1>2. ASSUME NEW c \in Conn, NEW e \in Envelope, Receive(c, e)
      PROVE  (WindowIsSuffix /\ ReplayWindow)'
  <2> DEFINE s == applied[c]
             w == seen[c]
  <2>0. IsWindowOf(w, s) /\ s \in Seq(Envelope) /\ w \in Seq(Envelope)
    BY DEF TypeOK, WindowIsSuffix
  <2>1. /\ s \in Seq(Envelope) /\ w \in Seq(Envelope) /\ Len(w) <= MaxSeen
        /\ Len(w) <= Len(s) /\ (Len(w) < MaxSeen => Len(w) = Len(s))
        /\ \A i \in 1..Len(w) : w[i] = s[Len(s) - Len(w) + i]
    BY <2>0 DEF IsWindowOf
  <2>2. /\ seen' = [seen EXCEPT ![c] = NoteSeen(w, e)]
        /\ applied' = [applied EXCEPT ![c] = Append(s, e)]
        /\ \A i \in 1..Len(w) : w[i] # e
    BY <1>2, <2>1 DEF Receive, Accept, InWindow, Id
  <2>3. /\ seen'[c] = NoteSeen(w, e) /\ applied'[c] = Append(s, e)
        /\ \A k \in Conn \ {c} : seen'[k] = seen[k] /\ applied'[k] = applied[k]
    BY <2>2 DEF TypeOK
  <2> HIDE DEF s, w
  <2>4. WindowIsSuffix'
    BY <2>0, <2>1, <2>3, SuffixStep DEF WindowIsSuffix
  <2>5. ReplayWindow'
    <3> SUFFICES ASSUME NEW k \in Conn,
                        NEW i \in DOMAIN applied'[k], NEW j \in DOMAIN applied'[k],
                        i < j, applied'[k][i] = applied'[k][j]
                 PROVE  j - i > MaxSeen
      BY DEF ReplayWindow
    <3>1. CASE k # c
      BY <3>1, <2>3 DEF ReplayWindow
    <3>2. CASE k = c
      <4> DEFINE t == Append(s, e)
      <4>1. /\ DOMAIN t = 1..(Len(s) + 1) /\ t[Len(s) + 1] = e
            /\ \A n \in 1..Len(s) : t[n] = s[n]
            /\ DOMAIN s = 1..Len(s)
        BY <2>1
      <4>2. /\ i \in 1..(Len(s) + 1) /\ j \in 1..(Len(s) + 1) /\ t[i] = t[j]
        BY <3>2, <2>3, <4>1
      <4> HIDE DEF t
      <4>3. CASE j # Len(s) + 1
        <5>1. i \in 1..Len(s) /\ j \in 1..Len(s) /\ s[i] = s[j]
          BY <4>1, <4>2, <4>3, <2>1
        <5>2. QED
          BY <5>1, <4>1 DEF ReplayWindow, s
      <4>4. CASE j = Len(s) + 1
        <5>1. i \in 1..Len(s) /\ s[i] = e
          BY <4>1, <4>2, <4>4, <2>1
        <5>2. CASE i > Len(s) - Len(w)
          <6>1. i - (Len(s) - Len(w)) \in 1..Len(w)
            BY <5>1, <5>2, <2>1
          <6>2. w[i - (Len(s) - Len(w))] = s[i]
            BY <6>1, <5>1, <2>1
          <6>3. QED
            BY <6>1, <6>2, <5>1, <2>2
        <5>3. CASE ~ (i > Len(s) - Len(w))
          BY <5>1, <5>3, <4>4, <2>1, MaxSeenAssumption
        <5>4. QED
          BY <5>2, <5>3
      <4>5. QED
        BY <4>3, <4>4
    <3>3. QED
      BY <3>1, <3>2
  <2>6. QED
    BY <2>4, <2>5
<1>3. QED
  BY <1>1, <1>2, HistoryStep

\* The replay guarantee the FIFO of capacity MaxSeen really gives: two adapter
\* actions for one envelope are more than MaxSeen accepted envelopes apart.
THEOREM ReplaySafe == Spec => []ReplayWindow
<1>1. Init => WindowIsSuffix /\ ReplayWindow
  BY MaxSeenAssumption DEF Init, WindowIsSuffix, IsWindowOf, ReplayWindow
<1>2. QED
  BY <1>1, TypeInit, TypeNext, WindowNext, PTL DEF Spec

-----------------------------------------------------------------------------
(* Who holds what: the negotiation of one attempt, seen from both ends. *)

\* The invariant that carries agreement from one end to the other.
NegotiationInv == TypeOK /\ NegotiationShape /\ SignedIsHeld /\ HeldIsSigned

\* An envelope a connection signs is from that connection and from no other, and
\* routing in the opposite direction names its peer.
LEMMA FromSign ==
    ASSUME NEW c \in Conn, NEW k \in Conn, NEW b
    PROVE  /\ From(k, Sign(c, c.local, b)) <=> k = c
           /\ Sign(c, c.local, b).body = b
           /\ Sign(c, c.local, b).sender = c.local
BY DEF From, Sign, Conn

LEMMA FromPeer ==
    ASSUME NEW c \in Conn, NEW e
    PROVE  /\ From(Peer(c), e) <=> /\ e.federation = c.federation
                                   /\ e.attempt = c.attempt
                                   /\ e.sender = c.remote /\ e.recipient = c.local
           /\ From(c, e) => ~ From(Peer(c), e)
BY ConnFields DEF From

\* Absent ids are no envelopes.
LEMMA NoIdDistinct == NoId \notin Offers /\ NoId \notin Answers
BY NoIdAssumption DEF Envelope

\* A step that leaves a connection's phase and ids alone keeps their fit.
LEMMA HeldFitsFrame ==
    ASSUME NEW c \in Conn, phase'[c] = phase[c], negotiation'[c] = negotiation[c],
           HeldFits(c)
    PROVE  HeldFits(c)'
BY DEF HeldFits, Initiator

LEMMA NegotiationInit == Init => NegotiationInv
<1> SUFFICES ASSUME Init PROVE NegotiationInv
  OBVIOUS
<1>1. TypeOK
  BY TypeInit
<1>2. NegotiationShape
  BY DEF Init, NegotiationShape, HeldFits, Initiator
<1>3. SignedIsHeld
  BY DEF Init, SignedIsHeld
<1>4. HeldIsSigned
  BY DEF Init, HeldIsSigned
<1>5. QED
  BY <1>1, <1>2, <1>3, <1>4 DEF NegotiationInv

\* Opening with a local offer.
LEMMA NegotiationBeginOffer ==
    ASSUME NegotiationInv, TypeOK', NEW c \in Conn, NEW s \in Endpoint,
           NEW d \in Description, BeginOffer(c, s, d)
    PROVE  NegotiationInv'
<1> DEFINE o == Sign(c, c.local, [kind |-> "Offer", description |-> d])
<1>1. /\ phase[c] = "Idle" /\ phase' = [phase EXCEPT ![c] = "OfferSent"]
      /\ negotiation' = [negotiation EXCEPT ![c] = [offer |-> o, answer |-> NoId]]
      /\ signed' = signed \cup {o}
  BY DEF BeginOffer, RequireLocalSigner, Id
<1>2. o \in Offers /\ o # NoId
  BY SignShape, ConnFields, NoIdDistinct
<1>3. /\ \A k \in Conn : From(k, o) <=> k = c
      /\ o.body.kind = "Offer" /\ o.sender = c.local
  BY FromSign
<1> HIDE DEF o
<1>4. /\ phase'[c] = "OfferSent" /\ negotiation'[c].offer = o
      /\ negotiation'[c].answer = NoId
      /\ \A k \in Conn \ {c} : phase'[k] = phase[k] /\ negotiation'[k] = negotiation[k]
  BY <1>1 DEF NegotiationInv, TypeOK
<1>5. negotiation[c].offer = NoId /\ negotiation[c].answer = NoId
  BY <1>1 DEF NegotiationInv, NegotiationShape, HeldFits
<1>6. NegotiationShape'
  <2>1. HeldFits(c)'
    BY <1>2, <1>3, <1>4 DEF HeldFits, Initiator, Between
  <2>2. QED
    BY <2>1, <1>4, HeldFitsFrame DEF NegotiationInv, NegotiationShape
<1>7. SignedIsHeld'
  BY <1>1, <1>3, <1>4, <1>5, NoIdAssumption DEF NegotiationInv, TypeOK, SignedIsHeld
<1>8. HeldIsSigned'
  BY <1>1, <1>4 DEF NegotiationInv, HeldIsSigned
<1>9. QED
  BY <1>6, <1>7, <1>8 DEF NegotiationInv

\* Answering the offer that was received.
LEMMA NegotiationAnswer ==
    ASSUME NegotiationInv, TypeOK', NEW c \in Conn, NEW s \in Endpoint,
           NEW d \in Description, Answer(c, s, d)
    PROVE  NegotiationInv'
<1> DEFINE o == negotiation[c].offer
           a == Sign(c, c.local, [kind |-> "Answer", offer_id |-> o, description |-> d])
<1>1. /\ phase[c] = "OfferReceived" /\ phase' = [phase EXCEPT ![c] = "AnswerSent"]
      /\ negotiation' = [negotiation EXCEPT ![c] = [offer |-> o, answer |-> a]]
      /\ signed' = signed \cup {a} /\ o # NoId
  BY DEF Answer, RequireLocalSigner, Id
<1>2. a \in Answers /\ a # NoId /\ o \in Offers
  BY <1>1, SignShape, ConnFields, NoIdDistinct DEF NegotiationInv, TypeOK
<1>3. /\ \A k \in Conn : From(k, a) <=> k = c
      /\ a.body.kind = "Answer" /\ a.sender = c.local /\ a.body.offer_id = o
  BY FromSign
<1> HIDE DEF a
<1>4. /\ phase'[c] = "AnswerSent" /\ negotiation'[c].offer = o
      /\ negotiation'[c].answer = a
      /\ \A k \in Conn \ {c} : phase'[k] = phase[k] /\ negotiation'[k] = negotiation[k]
  BY <1>1 DEF NegotiationInv, TypeOK
<1>5. negotiation[c].answer = NoId /\ ~ Initiator(c) /\ Between(c, o)
  BY <1>1 DEF NegotiationInv, NegotiationShape, HeldFits
<1>6. NegotiationShape'
  <2>1. HeldFits(c)'
    BY <1>1, <1>2, <1>3, <1>4, <1>5 DEF HeldFits, Initiator, Between
  <2>2. QED
    BY <2>1, <1>4, HeldFitsFrame DEF NegotiationInv, NegotiationShape
<1>7. SignedIsHeld'
  BY <1>1, <1>2, <1>3, <1>4, <1>5, NoIdAssumption
     DEF NegotiationInv, TypeOK, SignedIsHeld
<1>8. HeldIsSigned'
  BY <1>1, <1>4 DEF NegotiationInv, HeldIsSigned
<1>9. QED
  BY <1>6, <1>7, <1>8 DEF NegotiationInv

\* Candidates, control payloads and closes: ids stay, a phase may only close.
LEMMA NegotiationSend ==
    ASSUME NegotiationInv, TypeOK', NEW c \in Conn,
           UNCHANGED negotiation,
           NEW b, NEW e, e = Sign(c, c.local, b), signed' = signed \cup {e},
           b.kind \notin {"Offer", "Answer"},
           b.kind = "CfrControl" => negotiation[c].answer # NoId,
           phase' = phase \/ (phase[c] # "Idle" /\ phase' = [phase EXCEPT ![c] = "Closed"])
    PROVE  NegotiationInv'
<1>1. \A k \in Conn : negotiation'[k] = negotiation[k]
  OBVIOUS
<1>2. \A k \in Conn : phase'[k] = phase[k] \/ (phase[k] # "Idle" /\ phase'[k] = "Closed")
  BY DEF NegotiationInv, TypeOK
<1>3. NegotiationShape'
  <2> SUFFICES ASSUME NEW k \in Conn PROVE HeldFits(k)'
    BY DEF NegotiationShape
  <2>1. HeldFits(k)
    BY DEF NegotiationInv, NegotiationShape
  <2>2. CASE phase'[k] = phase[k]
    BY <2>1, <2>2, <1>1, HeldFitsFrame
  <2>3. CASE phase[k] # "Idle" /\ phase'[k] = "Closed"
    BY <2>1, <2>3, <1>1 DEF HeldFits, Initiator
  <2>4. QED
    BY <2>2, <2>3, <1>2
<1>4. /\ \A k \in Conn : From(k, e) => k = c
      /\ e.body = b
  BY FromSign
<1>5. SignedIsHeld'
  BY <1>1, <1>4 DEF NegotiationInv, SignedIsHeld
<1>6. HeldIsSigned'
  BY <1>1 DEF NegotiationInv, HeldIsSigned
<1>7. QED
  BY <1>3, <1>5, <1>6 DEF NegotiationInv

\* Adapter events: nothing is signed, ids stay.
LEMMA NegotiationTransport ==
    ASSUME NegotiationInv, TypeOK', NEW c \in Conn,
           TransportConnected(c) \/ TransportFailed(c)
    PROVE  NegotiationInv'
<1>1. /\ negotiation' = negotiation /\ signed' = signed
      /\ \A k \in Conn \ {c} : phase'[k] = phase[k]
      /\ \/ phase[c] \in {"AnswerSent", "AnswerReceived"} /\ phase'[c] = "Established"
         \/ phase[c] # "Idle" /\ phase'[c] = "Closed"
  BY DEF TransportConnected, TransportFailed, NegotiationInv, TypeOK
<1>2. NegotiationShape'
  <2>1. HeldFits(c)
    BY DEF NegotiationInv, NegotiationShape
  <2>2. HeldFits(c)'
    BY <1>1, <2>1 DEF HeldFits, Initiator
  <2>3. QED
    BY <1>1, <2>2, HeldFitsFrame DEF NegotiationInv, NegotiationShape
<1>3. SignedIsHeld' /\ HeldIsSigned'
  BY <1>1 DEF NegotiationInv, SignedIsHeld, HeldIsSigned
<1>4. QED
  BY <1>2, <1>3 DEF NegotiationInv

\* Receipt of an envelope, one case per kind.
LEMMA NegotiationReceive ==
    ASSUME NegotiationInv, TypeOK', NEW c \in Conn, NEW e \in Envelope, Receive(c, e)
    PROVE  NegotiationInv'
<1>1. /\ From(Peer(c), e) /\ (e \in signed \/ e.sender \in Foreign)
      /\ signed' = signed /\ e # NoId
  BY FromPeer, NoIdAssumption DEF Receive, ValidInbound, Accept
<1>2. HeldFits(c)
  BY DEF NegotiationInv, NegotiationShape
<1>3. CASE ReceiveOffer(c, e)
  <2>1. /\ phase[c] = "Idle" /\ phase'[c] = "OfferReceived"
        /\ negotiation'[c].offer = e /\ negotiation'[c].answer = NoId
        /\ \A k \in Conn \ {c} : phase'[k] = phase[k] /\ negotiation'[k] = negotiation[k]
    BY <1>3 DEF ReceiveOffer, Id, NegotiationInv, TypeOK
  <2>2. negotiation[c].offer = NoId /\ negotiation[c].answer = NoId
    BY <2>1, <1>2 DEF HeldFits
  <2>3. e.sender # c.local
    BY <1>1, FromPeer, ConnFields
  <2>4. HeldFits(c)'
    BY <1>1, <2>1, <2>3 DEF HeldFits, Initiator, Between
  <2>5. NegotiationShape'
    BY <2>1, <2>4, HeldFitsFrame DEF NegotiationInv, NegotiationShape
  <2>6. SignedIsHeld'
    <3> SUFFICES ASSUME NEW k \in Conn, NEW f \in signed, From(k, f)
                 PROVE  /\ f.body.kind = "Offer" => negotiation'[k].offer = f
                        /\ f.body.kind = "Answer" => negotiation'[k].answer = f
                        /\ f.body.kind = "CfrControl" => negotiation'[k].answer # NoId
      BY <1>1 DEF SignedIsHeld
    <3>1. /\ f.body.kind = "Offer" => negotiation[k].offer = f
          /\ f.body.kind = "Answer" => negotiation[k].answer = f
          /\ f.body.kind = "CfrControl" => negotiation[k].answer # NoId
          /\ f # NoId
      BY NoIdAssumption DEF NegotiationInv, TypeOK, SignedIsHeld
    <3>2. QED
      BY <1>1, <2>1, <2>2, <3>1
  <2>7. HeldIsSigned'
    BY <1>1, <2>1 DEF NegotiationInv, HeldIsSigned
  <2>8. QED
    BY <2>5, <2>6, <2>7 DEF NegotiationInv
<1>4. CASE ReceiveAnswer(c, e)
  <2>1. /\ phase[c] = "OfferSent" /\ phase'[c] = "AnswerReceived"
        /\ negotiation'[c].offer = negotiation[c].offer /\ negotiation'[c].answer = e
        /\ negotiation[c].offer = e.body.offer_id
        /\ \A k \in Conn \ {c} : phase'[k] = phase[k] /\ negotiation'[k] = negotiation[k]
    BY <1>4 DEF ReceiveAnswer, Id, NegotiationInv, TypeOK
  <2>2. negotiation[c].answer = NoId /\ Initiator(c)
    BY <2>1, <1>2 DEF HeldFits
  <2>3. HeldFits(c)'
    BY <1>1, <1>2, <2>1, <2>2 DEF HeldFits, Initiator, Between
  <2>4. NegotiationShape'
    BY <2>1, <2>3, HeldFitsFrame DEF NegotiationInv, NegotiationShape
  <2>5. SignedIsHeld'
    <3> SUFFICES ASSUME NEW k \in Conn, NEW f \in signed, From(k, f)
                 PROVE  /\ f.body.kind = "Offer" => negotiation'[k].offer = f
                        /\ f.body.kind = "Answer" => negotiation'[k].answer = f
                        /\ f.body.kind = "CfrControl" => negotiation'[k].answer # NoId
      BY <1>1 DEF SignedIsHeld
    <3>1. /\ f.body.kind = "Offer" => negotiation[k].offer = f
          /\ f.body.kind = "Answer" => negotiation[k].answer = f
          /\ f.body.kind = "CfrControl" => negotiation[k].answer # NoId
          /\ f # NoId
      BY NoIdAssumption DEF NegotiationInv, TypeOK, SignedIsHeld
    <3>2. QED
      BY <1>1, <2>1, <2>2, <3>1
  <2>6. HeldIsSigned'
    BY <1>1, <2>1 DEF NegotiationInv, HeldIsSigned
  <2>7. QED
    BY <2>4, <2>5, <2>6 DEF NegotiationInv
<1>5. CASE ReceiveCandidate(c, e) \/ ReceiveClose(c, e) \/ ReceiveCfrControl(c, e)
  <2>1. /\ negotiation' = negotiation
        /\ \A k \in Conn : phase'[k] = phase[k] \/ (phase[k] # "Idle" /\ phase'[k] = "Closed")
    BY <1>5 DEF ReceiveCandidate, ReceiveClose, ReceiveCfrControl, NegotiationInv, TypeOK
  <2>2. NegotiationShape'
    <3> SUFFICES ASSUME NEW k \in Conn PROVE HeldFits(k)'
      BY DEF NegotiationShape
    <3>1. HeldFits(k)
      BY DEF NegotiationInv, NegotiationShape
    <3>2. QED
      BY <2>1, <3>1 DEF HeldFits, Initiator
  <2>3. SignedIsHeld' /\ HeldIsSigned'
    BY <1>1, <2>1 DEF NegotiationInv, SignedIsHeld, HeldIsSigned
  <2>4. QED
    BY <2>2, <2>3 DEF NegotiationInv
<1>6. QED
  BY <1>3, <1>4, <1>5 DEF Receive

\* One step of the negotiation invariant.
LEMMA NegotiationNext == NegotiationInv /\ [Next]_vars => NegotiationInv'
<1> SUFFICES ASSUME NegotiationInv, [Next]_vars
             PROVE  NegotiationInv'
  OBVIOUS
<1>0. TypeOK'
  BY TypeNext DEF NegotiationInv
<1>1. ASSUME NEW c \in Conn, NEW s \in Endpoint, NEW x \in Candidate,
             SendCandidate(c, s, x)
      PROVE  NegotiationInv'
  BY <1>0, <1>1, NegotiationSend DEF SendCandidate, RequireLocalSigner
<1>2. ASSUME NEW c \in Conn, NEW s \in Endpoint, NEW p \in Payload,
             SendCfrControl(c, s, p)
      PROVE  NegotiationInv'
  <2>1. negotiation[c].answer # NoId
    BY <1>2 DEF SendCfrControl, NegotiationInv, NegotiationShape, HeldFits
  <2>2. QED
    BY <1>0, <1>2, <2>1, NegotiationSend DEF SendCfrControl, RequireLocalSigner
<1>3. ASSUME NEW c \in Conn, NEW s \in Endpoint, Close(c, s)
      PROVE  NegotiationInv'
  <2> DEFINE b == [kind |-> "Close"]
             e == Sign(c, c.local, b)
  <2>1. /\ UNCHANGED negotiation /\ signed' = signed \cup {e}
        /\ phase[c] # "Idle" /\ phase' = [phase EXCEPT ![c] = "Closed"]
        /\ b.kind = "Close"
    BY <1>3 DEF Close, RequireLocalSigner
  <2> HIDE DEF b
  <2>2. QED
    BY <1>0, <2>1, NegotiationSend
<1>4. CASE UNCHANGED vars
  <2>1. signed' = signed /\ phase' = phase /\ negotiation' = negotiation
    BY <1>4 DEF vars
  <2>2. QED
    BY <1>0, <2>1 DEF NegotiationInv, NegotiationShape, HeldFits, Initiator, SignedIsHeld,
                      HeldIsSigned
<1>5. QED
  BY <1>0, <1>1, <1>2, <1>3, <1>4, NegotiationBeginOffer, NegotiationAnswer,
     NegotiationTransport, NegotiationReceive
     DEF Next, LocalStep, ForeignEnvelopes, NegotiationInv, TypeOK

-----------------------------------------------------------------------------
(* What the two ends can rely on. *)

\* What one end holds as the other's envelope, the other end holds as its own.
LEMMA AgreementFromInv == NegotiationInv => Agreement
<1> SUFFICES ASSUME NegotiationInv, NEW c \in Conn, Peer(c) \in Conn,
                    negotiation[c].answer # NoId
             PROVE  /\ negotiation[Peer(c)].offer = negotiation[c].offer
                    /\ negotiation[Peer(c)].answer \in {NoId, negotiation[c].answer}
                    /\ Initiator(c) => negotiation[Peer(c)].answer = negotiation[c].answer
  BY DEF Agreement, Paired
<1> DEFINE p == Peer(c)
           o == negotiation[c].offer
           a == negotiation[c].answer
<1>1. /\ HeldFits(c) /\ HeldFits(p)
      /\ a \in Answers /\ o \in Offers \cup {NoId}
      /\ negotiation[p].answer \in Answers \cup {NoId}
  BY DEF NegotiationInv, NegotiationShape, TypeOK
<1>2. /\ p \in Conn /\ Peer(p) = c /\ p.local = c.remote /\ p.remote = c.local
      /\ p.local \notin Foreign /\ c.local \notin Foreign /\ c.local # p.local
  BY ConnFields
<1>3. CASE Initiator(c)
  <2>1. From(p, a) /\ a \in signed
    BY <1>1, <1>2, <1>3 DEF HeldFits, NegotiationInv, HeldIsSigned, From
  <2>2. negotiation[p].answer = a
    BY <1>1, <1>2, <2>1 DEF NegotiationInv, SignedIsHeld, Answers, Routed
  <2>3. QED
    BY <1>1, <2>2 DEF HeldFits
<1>4. CASE ~ Initiator(c)
  <2>1. o # NoId /\ From(p, o) /\ o \in signed /\ o \in Offers
    BY <1>1, <1>2, <1>4 DEF HeldFits, Initiator, Between, From, NegotiationInv, HeldIsSigned
  <2>2. negotiation[p].offer = o
    BY <1>2, <2>1 DEF NegotiationInv, SignedIsHeld, Offers, Routed
  <2>3. CASE negotiation[p].answer # NoId
    <3>1. Initiator(p)
      BY <2>1, <2>2 DEF Initiator, From
    <3>2. From(c, negotiation[p].answer) /\ negotiation[p].answer \in signed
      BY <1>1, <1>2, <2>3, <3>1 DEF HeldFits, NegotiationInv, HeldIsSigned, From
    <3>3. negotiation[c].answer = negotiation[p].answer
      BY <1>1, <2>3, <3>2 DEF NegotiationInv, SignedIsHeld, Answers, Routed
    <3>4. QED
      BY <2>2, <3>3, <1>4
  <2>4. QED
    BY <2>2, <2>3, <1>4
<1>5. QED
  BY <1>3, <1>4

\* Both ends of an attempt that run this library agree on one offer and one answer,
\* whatever the carrier loses, repeats, reorders or misroutes and whatever other
\* endpoints sign.
THEOREM AgreementSafe == Spec => []Agreement
BY NegotiationInit, NegotiationNext, AgreementFromInv, PTL DEF Spec

\* Two simultaneous offers never turn into a connection.
THEOREM GlareSafe == Spec => []GlareNeverResolves
<1>1. NegotiationInv => GlareNeverResolves
  <2> SUFFICES ASSUME NegotiationInv, NEW c \in Conn, Peer(c) \in Conn,
                      OfferedIn(c), OfferedIn(Peer(c))
               PROVE  phase[c] \in {"OfferSent", "Closed"}
    BY DEF GlareNeverResolves, Paired
  <2>1. /\ c.local # Peer(c).local
        /\ HeldFits(c) /\ HeldFits(Peer(c)) /\ phase[c] \in Phase
    BY ConnFields DEF NegotiationInv, NegotiationShape, TypeOK
  <2>2. \A k \in {c, Peer(c)} : /\ negotiation[k].offer # NoId
                                /\ negotiation[k].offer.sender = k.local
    BY NoIdAssumption DEF OfferedIn, NegotiationInv, SignedIsHeld, From, TypeOK
  <2>3. negotiation[c].answer = NoId
    BY <2>1, <2>2, AgreementFromInv DEF Agreement, Paired
  <2>4. Initiator(c)
    BY <2>2 DEF Initiator
  <2>5. QED
    BY <2>1, <2>2, <2>3, <2>4 DEF HeldFits, Phase
<1>2. QED
  BY <1>1, NegotiationInit, NegotiationNext, PTL DEF Spec

-----------------------------------------------------------------------------
(* What a step never undoes, and what follows for the history of a connection. *)

\* What the step leaves alone or only extends, for one connection.
Kept(c) ==
    /\ negotiation[c].offer # NoId => negotiation'[c].offer = negotiation[c].offer
    /\ negotiation[c].answer # NoId => negotiation'[c].answer = negotiation[c].answer
    /\ phase[c] = "Closed" =>
         /\ phase'[c] = "Closed"
         /\ applied'[c] = applied[c]
         /\ \A e \in signed' \ signed : ~ From(c, e)

\* A connection that is not closed signs an envelope of its own.
LEMMA SignKeeps ==
    ASSUME NEW c \in Conn, NEW b, phase[c] # "Closed",
           signed' = signed \cup {Sign(c, c.local, b)}, applied' = applied,
           \A k \in Conn \ {c} : phase'[k] = phase[k] /\ negotiation'[k] = negotiation[k],
           negotiation[c].offer # NoId => negotiation'[c].offer = negotiation[c].offer,
           negotiation[c].answer # NoId => negotiation'[c].answer = negotiation[c].answer
    PROVE  signed \subseteq signed' /\ \A k \in Conn : Kept(k)
<1> DEFINE o == Sign(c, c.local, b)
<1>1. \A k \in Conn : From(k, o) <=> k = c
  BY FromSign
<1>2. signed' = signed \cup {o}
  OBVIOUS
<1> HIDE DEF o
<1>3. Kept(c)
  BY DEF Kept
<1>4. ASSUME NEW k \in Conn \ {c} PROVE Kept(k)
  BY <1>1, <1>2, <1>4 DEF Kept
<1>5. QED
  BY <1>2, <1>3, <1>4

LEMMA StepKeeps ==
    ASSUME NegotiationInv, [Next]_vars
    PROVE  signed \subseteq signed' /\ \A c \in Conn : Kept(c)
<1>0. /\ TypeOK
      /\ \A c \in Conn : HeldFits(c)
  BY DEF NegotiationInv, NegotiationShape
<1>1. ASSUME NEW c \in Conn, NEW s \in Endpoint, NEW d \in Description,
             BeginOffer(c, s, d)
      PROVE  signed \subseteq signed' /\ \A k \in Conn : Kept(k)
  <2>1. negotiation[c].offer = NoId /\ negotiation[c].answer = NoId
    BY <1>0, <1>1 DEF HeldFits, BeginOffer
  <2>2. /\ phase[c] # "Closed" /\ applied' = applied
        /\ signed' = signed \cup
             {Sign(c, c.local, [kind |-> "Offer", description |-> d])}
    BY <1>1 DEF BeginOffer, RequireLocalSigner
  <2>3. \A k \in Conn \ {c} : phase'[k] = phase[k] /\ negotiation'[k] = negotiation[k]
    BY <1>0, <1>1 DEF BeginOffer, TypeOK
  <2>4. QED
    BY <2>1, <2>2, <2>3, SignKeeps
<1>2. ASSUME NEW c \in Conn, NEW s \in Endpoint, NEW d \in Description,
             Answer(c, s, d)
      PROVE  signed \subseteq signed' /\ \A k \in Conn : Kept(k)
  <2> DEFINE o == negotiation[c].offer
  <2>1. negotiation[c].answer = NoId
    BY <1>0, <1>2 DEF HeldFits, Answer
  <2>2. /\ phase[c] # "Closed" /\ applied' = applied
        /\ signed' = signed \cup
             {Sign(c, c.local, [kind |-> "Answer", offer_id |-> o, description |-> d])}
    BY <1>2 DEF Answer, RequireLocalSigner
  <2>3. /\ \A k \in Conn \ {c} : phase'[k] = phase[k] /\ negotiation'[k] = negotiation[k]
        /\ negotiation'[c].offer = negotiation[c].offer
    BY <1>0, <1>2 DEF Answer, TypeOK
  <2>4. QED
    BY <2>1, <2>2, <2>3, SignKeeps
<1>3. ASSUME NEW c \in Conn, NEW s \in Endpoint,
             \/ \E x \in Candidate : SendCandidate(c, s, x)
             \/ \E p \in Payload : SendCfrControl(c, s, p)
             \/ Close(c, s)
      PROVE  signed \subseteq signed' /\ \A k \in Conn : Kept(k)
  <2>1. /\ phase[c] # "Closed" /\ applied' = applied /\ negotiation' = negotiation
        /\ \A k \in Conn \ {c} : phase'[k] = phase[k]
    BY <1>0, <1>3 DEF SendCandidate, SendCfrControl, Close, TypeOK, Negotiating
  <2>2. \E b : signed' = signed \cup {Sign(c, c.local, b)}
    BY <1>3 DEF SendCandidate, SendCfrControl, Close, RequireLocalSigner
  <2>3. QED
    BY <2>1, <2>2, SignKeeps
<1>4. ASSUME NEW c \in Conn, TransportConnected(c) \/ TransportFailed(c)
      PROVE  signed \subseteq signed' /\ \A k \in Conn : Kept(k)
  BY <1>0, <1>4 DEF TransportConnected, TransportFailed, Kept, TypeOK
<1>5. ASSUME NEW c \in Conn, NEW e, Receive(c, e)
      PROVE  signed \subseteq signed' /\ \A k \in Conn : Kept(k)
  <2>1. /\ signed' = signed /\ phase[c] # "Closed"
        /\ \A k \in Conn \ {c} : applied'[k] = applied[k]
    BY <1>0, <1>5 DEF Receive, Accept, ReceiveOffer, ReceiveAnswer, ReceiveCandidate,
       ReceiveClose, ReceiveCfrControl, ValidCandidateParent, Negotiating, TypeOK
  <2>2. \A k \in Conn \ {c} : phase'[k] = phase[k] /\ negotiation'[k] = negotiation[k]
    BY <1>0, <1>5 DEF Receive, ReceiveOffer, ReceiveAnswer, ReceiveCandidate,
       ReceiveClose, ReceiveCfrControl, TypeOK
  <2>3. /\ negotiation[c].offer # NoId => negotiation'[c].offer = negotiation[c].offer
        /\ negotiation[c].answer # NoId => negotiation'[c].answer = negotiation[c].answer
    <3>1. HeldFits(c)
      BY <1>0
    <3>2. CASE ReceiveOffer(c, e)
      BY <3>1, <3>2 DEF HeldFits, ReceiveOffer
    <3>3. CASE ReceiveAnswer(c, e)
      BY <1>0, <3>1, <3>3 DEF HeldFits, ReceiveAnswer, TypeOK
    <3>4. CASE ReceiveCandidate(c, e) \/ ReceiveClose(c, e) \/ ReceiveCfrControl(c, e)
      BY <3>4 DEF ReceiveCandidate, ReceiveClose, ReceiveCfrControl
    <3>5. QED
      BY <1>5, <3>2, <3>3, <3>4 DEF Receive
  <2>4. QED
    BY <2>1, <2>2, <2>3 DEF Kept
<1>6. CASE UNCHANGED vars
  BY <1>6 DEF vars, Kept
<1>7. QED
  BY <1>1, <1>2, <1>3, <1>4, <1>5, <1>6 DEF Next, LocalStep

\* The negotiation is never rewritten and Closed is final and silent.
THEOREM NeverRewrittenSafe == Spec => NeverRewritten
<1>1. NegotiationInv /\ [Next]_vars => [\A c \in Conn : Kept(c)]_vars
  BY StepKeeps
<1>2. Spec => [][\A c \in Conn : Kept(c)]_vars
  BY <1>1, NegotiationInit, NegotiationNext, PTL DEF Spec
<1>3. QED
  BY <1>2 DEF NeverRewritten, Kept

\* The history invariant.
HistoryInv == NegotiationInv /\ AppliedIsHeld /\ NegotiatedOnce

LEMMA HistoryInit == Init => HistoryInv
BY NegotiationInit DEF Init, HistoryInv, AppliedIsHeld, NegotiatedOnce

\* What one accepted envelope e has to satisfy to be appended to c's history.
LEMMA HistoryReceive ==
    ASSUME HistoryInv, NEW c \in Conn, NEW e \in Envelope, Receive(c, e)
    PROVE  /\ From(Peer(c), e)
           /\ e \in signed' \/ e.sender \in Foreign
           /\ e.body.kind = "Offer" => negotiation'[c].offer = e
           /\ e.body.kind = "Answer" => negotiation'[c].answer = e
           /\ e.body.kind = "Candidate" =>
                e.body.parent_id \in {negotiation'[c].offer, negotiation'[c].answer}
           /\ e.body.kind = "CfrControl" => negotiation'[c].answer # NoId
           /\ e.body.kind = "Close" => phase'[c] = "Closed"
<1>1. /\ From(Peer(c), e) /\ (e \in signed' \/ e.sender \in Foreign)
  BY FromPeer DEF Receive, ValidInbound, Accept
<1>2. TypeOK /\ HeldFits(c)
  BY DEF HistoryInv, NegotiationInv, NegotiationShape
<1>3. CASE ReceiveOffer(c, e)
  BY <1>1, <1>2, <1>3 DEF ReceiveOffer, Id, TypeOK
<1>4. CASE ReceiveAnswer(c, e)
  BY <1>1, <1>2, <1>4 DEF ReceiveAnswer, Id, TypeOK
<1>5. CASE ReceiveCandidate(c, e)
  BY <1>1, <1>2, <1>5 DEF ReceiveCandidate, ValidCandidateParent
<1>6. CASE ReceiveClose(c, e)
  BY <1>1, <1>2, <1>6 DEF ReceiveClose, TypeOK
<1>7. CASE ReceiveCfrControl(c, e)
  BY <1>1, <1>2, <1>7 DEF ReceiveCfrControl, HeldFits
<1>8. QED
  BY <1>3, <1>4, <1>5, <1>6, <1>7 DEF Receive

\* Accepted negotiation envelopes meet no earlier one that would repeat them.
LEMMA HistoryFresh ==
    ASSUME HistoryInv, NEW c \in Conn, NEW e \in Envelope, Receive(c, e),
           NEW i \in DOMAIN applied[c]
    PROVE  LET k == applied[c][i].body.kind
               l == e.body.kind
           IN  /\ k = l => k \in {"Candidate", "CfrControl"}
               /\ ~ (k = "Offer" /\ l = "Answer")
               /\ ~ (l = "Offer" /\ k = "Answer")
<1> DEFINE f == applied[c][i]
<1>1. /\ TypeOK /\ HeldFits(c) /\ f \in Envelope /\ f # NoId
      /\ From(Peer(c), f)
      /\ f.body.kind = "Offer" => negotiation[c].offer = f
      /\ f.body.kind = "Answer" => negotiation[c].answer = f
      /\ f.body.kind = "Close" => phase[c] = "Closed"
  BY NoIdAssumption
     DEF HistoryInv, NegotiationInv, NegotiationShape, AppliedIsHeld, TypeOK
<1>2. f.sender # c.local
  BY <1>1, FromPeer, ConnFields
<1> HIDE DEF f
<1>3. CASE ReceiveOffer(c, e)
  BY <1>1, <1>3 DEF ReceiveOffer, HeldFits, f
<1>4. CASE ReceiveAnswer(c, e)
  BY <1>1, <1>2, <1>4 DEF ReceiveAnswer, HeldFits, Initiator, f
<1>5. CASE ReceiveCandidate(c, e) \/ ReceiveCfrControl(c, e)
  BY <1>5 DEF ReceiveCandidate, ReceiveCfrControl
<1>6. CASE ReceiveClose(c, e)
  BY <1>1, <1>6 DEF ReceiveClose, f
<1>7. QED
  BY <1>3, <1>4, <1>5, <1>6 DEF Receive

LEMMA HistoryNext == HistoryInv /\ [Next]_vars => HistoryInv'
<1> SUFFICES ASSUME HistoryInv, [Next]_vars PROVE HistoryInv'
  OBVIOUS
<1>1. NegotiationInv' /\ NegotiationInv /\ TypeOK
  BY NegotiationNext DEF HistoryInv, NegotiationInv
<1>2. signed \subseteq signed' /\ \A c \in Conn : Kept(c)
  BY <1>1, StepKeeps
\* An envelope applied earlier still fits.
<1>3. ASSUME NEW c \in Conn, NEW i \in DOMAIN applied[c], NEW f, f = applied[c][i]
      PROVE  /\ From(Peer(c), f)
             /\ f \in signed' \/ f.sender \in Foreign
             /\ f.body.kind = "Offer" => negotiation'[c].offer = f
             /\ f.body.kind = "Answer" => negotiation'[c].answer = f
             /\ f.body.kind = "Candidate" =>
                  f.body.parent_id \in {negotiation'[c].offer, negotiation'[c].answer}
             /\ f.body.kind = "CfrControl" => negotiation'[c].answer # NoId
             /\ f.body.kind = "Close" => phase'[c] = "Closed"
  <2>1. /\ From(Peer(c), f) /\ f \in Envelope /\ f # NoId
        /\ f \in signed \/ f.sender \in Foreign
        /\ f.body.kind = "Offer" => negotiation[c].offer = f
        /\ f.body.kind = "Answer" => negotiation[c].answer = f
        /\ f.body.kind = "Candidate" =>
             f.body.parent_id \in {negotiation[c].offer, negotiation[c].answer}
        /\ f.body.kind = "CfrControl" => negotiation[c].answer # NoId
        /\ f.body.kind = "Close" => phase[c] = "Closed"
    BY <1>1, <1>3, NoIdAssumption DEF HistoryInv, AppliedIsHeld, TypeOK
  <2>2. f.body.kind = "Candidate" => f.body.parent_id # NoId
    BY <2>1, KindShape, NoIdDistinct DEF Candidates, Routed
  <2>3. QED
    BY <1>2, <2>1, <2>2 DEF Kept
<1>4. CASE UNCHANGED <<seen, applied>>
  <2>1. applied' = applied
    BY <1>4
  <2>2. AppliedIsHeld'
    BY <1>3, <2>1 DEF AppliedIsHeld
  <2>3. NegotiatedOnce'
    BY <2>1 DEF HistoryInv, NegotiatedOnce
  <2>4. QED
    BY <1>1, <2>2, <2>3 DEF HistoryInv
<1>5. ASSUME NEW c \in Conn, NEW e \in Envelope, Receive(c, e)
      PROVE  HistoryInv'
  <2>1. /\ applied'[c] = Append(applied[c], e) /\ applied[c] \in Seq(Envelope)
        /\ \A k \in Conn \ {c} : applied'[k] = applied[k]
    BY <1>1, <1>5 DEF Receive, Accept, TypeOK
  <2>2. /\ DOMAIN applied'[c] = 1..(Len(applied[c]) + 1)
        /\ DOMAIN applied[c] = 1..Len(applied[c])
        /\ applied'[c][Len(applied[c]) + 1] = e
        /\ \A i \in 1..Len(applied[c]) : applied'[c][i] = applied[c][i]
    BY <2>1
  <2>3. AppliedIsHeld'
    <3> SUFFICES ASSUME NEW k \in Conn, NEW i \in DOMAIN applied'[k], NEW f,
                        f = applied'[k][i]
                 PROVE  /\ From(Peer(k), f)
                        /\ f \in signed' \/ f.sender \in Foreign
                        /\ f.body.kind = "Offer" => negotiation'[k].offer = f
                        /\ f.body.kind = "Answer" => negotiation'[k].answer = f
                        /\ f.body.kind = "Candidate" =>
                             f.body.parent_id \in
                               {negotiation'[k].offer, negotiation'[k].answer}
                        /\ f.body.kind = "CfrControl" => negotiation'[k].answer # NoId
                        /\ f.body.kind = "Close" => phase'[k] = "Closed"
      BY DEF AppliedIsHeld
    <3>1. CASE k = c /\ i = Len(applied[c]) + 1
      BY <3>1, <2>2, <1>5, HistoryReceive
    <3>2. CASE ~ (k = c /\ i = Len(applied[c]) + 1)
      <4>1. i \in DOMAIN applied[k] /\ f = applied[k][i]
        <5>1. CASE k # c
          BY <5>1, <2>1
        <5>2. CASE k = c
          <6>1. i \in 1..Len(applied[c])
            BY <3>2, <5>2, <2>1, <2>2
          <6>2. QED
            BY <5>2, <6>1, <2>2
        <5>3. QED
          BY <5>1, <5>2
      <4>2. QED
        BY <4>1, <1>3
    <3>3. QED
      BY <3>1, <3>2
  <2>4. NegotiatedOnce'
    <3> SUFFICES ASSUME NEW k \in Conn, NEW i \in DOMAIN applied'[k],
                        NEW j \in DOMAIN applied'[k], i # j
                 PROVE  LET m == applied'[k][i].body.kind
                            l == applied'[k][j].body.kind
                        IN  /\ m = l => m \in {"Candidate", "CfrControl"}
                            /\ ~ (m = "Offer" /\ l = "Answer")
      BY DEF NegotiatedOnce
    <3>1. CASE k # c
      BY <3>1, <2>1 DEF HistoryInv, NegotiatedOnce
    <3>2. CASE k = c /\ i # Len(applied[c]) + 1 /\ j # Len(applied[c]) + 1
      BY <3>2, <2>1, <2>2 DEF HistoryInv, NegotiatedOnce
    <3>3. CASE k = c /\ j = Len(applied[c]) + 1
      BY <3>3, <2>1, <2>2, <1>5, HistoryFresh
    <3>4. CASE k = c /\ i = Len(applied[c]) + 1
      BY <3>4, <2>1, <2>2, <1>5, HistoryFresh
    <3>5. QED
      BY <3>1, <3>2, <3>3, <3>4
  <2>5. QED
    BY <1>1, <2>3, <2>4 DEF HistoryInv
<1>6. QED
  BY <1>1, <1>4, <1>5, HistoryStep

\* Each negotiation envelope acts at most once in an attempt, beyond the window too.
THEOREM NegotiatedOnceSafe == Spec => []NegotiatedOnce
BY HistoryInit, HistoryNext, PTL DEF Spec, HistoryInv

\* Candidates handed to the engine belong to the negotiation held, for good.
THEOREM CandidatesSafe == Spec => []CandidatesBelongHere
<1>1. HistoryInv => CandidatesBelongHere
  <2> SUFFICES ASSUME HistoryInv, NEW c \in Conn, NEW i \in DOMAIN applied[c],
                      NEW e, e = applied[c][i], e.body.kind = "Candidate"
               PROVE  /\ e.body.parent_id \in {negotiation[c].offer, negotiation[c].answer}
                      /\ Between(c, e.body.parent_id)
    BY DEF CandidatesBelongHere
  <2>1. /\ e.body.parent_id \in {negotiation[c].offer, negotiation[c].answer}
        /\ e \in Envelope /\ HeldFits(c)
    BY DEF HistoryInv, AppliedIsHeld, NegotiationInv, NegotiationShape, TypeOK
  <2>2. e.body.parent_id # NoId
    BY <2>1, KindShape, NoIdDistinct DEF Candidates, Routed
  <2>3. QED
    BY <2>1, <2>2 DEF HeldFits, Between
<1>2. QED
  BY <1>1, HistoryInit, HistoryNext, PTL DEF Spec

\* A delivered control payload comes from a peer with the same complete negotiation.
THEOREM CfrSafe == Spec => []CfrWithinAgreement
<1>1. HistoryInv => CfrWithinAgreement
  <2> SUFFICES ASSUME HistoryInv, NEW c \in Conn, Peer(c) \in Conn,
                      NEW i \in DOMAIN applied[c], NEW e, e = applied[c][i],
                      e.body.kind = "CfrControl"
               PROVE  /\ negotiation[c].answer # NoId
                      /\ negotiation[Peer(c)] = negotiation[c]
    BY DEF CfrWithinAgreement, Paired
  <2>1. /\ negotiation[c].answer # NoId /\ From(Peer(c), e)
        /\ e \in signed \/ e.sender \in Foreign
        /\ NegotiationInv
    BY DEF HistoryInv, AppliedIsHeld
  <2>2. e \in signed
    BY <2>1, FromPeer, ConnFields
  <2>3. negotiation[Peer(c)].answer # NoId
    BY <2>1, <2>2 DEF NegotiationInv, SignedIsHeld
  <2>4. /\ negotiation[Peer(c)].offer = negotiation[c].offer
        /\ negotiation[Peer(c)].answer = negotiation[c].answer
    BY <2>1, <2>3, AgreementFromInv DEF Agreement, Paired
  <2>5. negotiation[Peer(c)] = negotiation[c]
    <3> DEFINE H == [offer : Offers \cup {NoId}, answer : Answers \cup {NoId}]
    <3>1. negotiation[Peer(c)] \in H /\ negotiation[c] \in H
      BY <2>1 DEF NegotiationInv, TypeOK
    <3>2. \A x, y \in H : (x.offer = y.offer /\ x.answer = y.answer) => x = y
      OBVIOUS
    <3> HIDE DEF H
    <3>3. QED
      BY <2>4, <3>1, <3>2
  <2>6. QED
    BY <2>1, <2>5
<1>2. QED
  BY <1>1, HistoryInit, HistoryNext, PTL DEF Spec

-----------------------------------------------------------------------------
(* The refinement of AttemptContract. *)

\* The initial state of the connections is one of the contract.
LEMMA ContractInit == Init => Contract!Init
<1> SUFFICES ASSUME Init PROVE Contract!Init
  OBVIOUS
<1>1. stageBar = [c \in Conn |-> "fresh"]
  BY DEF Init, stageBar, StageOf
<1>2. roleBar = [c \in Conn |-> "none"]
  BY DEF Init, roleBar, RoleOf, Initiator
<1>3. termsBar = [c \in Conn |-> [proposal |-> NoId, reply |-> NoId]]
  BY DEF Init, termsBar, DescriptionOf
<1>4. saidBar = [c \in Conn |-> {}]
  BY DEF Init, saidBar, SaidBy
<1>5. heardBar = [c \in Conn |-> {}]
  BY DEF Init, heardBar, HeardBy
<1>6. QED
  BY <1>1, <1>2, <1>3, <1>4, <1>5 DEF Contract!Init

\* Moving one connection to phase q moves one side to the stage of q.
LEMMA StageChanges ==
    ASSUME TypeOK, NEW c \in Conn, NEW q, phase' = [phase EXCEPT ![c] = q]
    PROVE  stageBar' = [stageBar EXCEPT ![c] = StageOf(q)]
BY DEF TypeOK, stageBar

\* A step that changes no phase leaves every stage alone.
LEMMA StageStays == ASSUME phase' = phase PROVE stageBar' = stageBar
BY DEF stageBar

\* Who proposed, read off the offer a side holds.
LEMMA RoleIs ==
    ASSUME NEW c
    PROVE  /\ negotiation[c].offer = NoId => RoleOf(c) = "none"
           /\ Initiator(c) => RoleOf(c) = "proposer"
           /\ (negotiation[c].offer # NoId /\ ~ Initiator(c)) => RoleOf(c) = "replier"
BY DEF RoleOf, Initiator

\* New ids of one connection change the role and the terms of one side.
LEMMA RoleChanges ==
    ASSUME NEW c \in Conn, NEW r, RoleOf(c)' = r,
           \A k \in Conn \ {c} : negotiation'[k] = negotiation[k]
    PROVE  roleBar' = [roleBar EXCEPT ![c] = r]
<1>1. \A k \in Conn \ {c} : RoleOf(k)' = RoleOf(k)
  BY DEF RoleOf, Initiator
<1>2. QED
  BY <1>1 DEF roleBar

LEMMA TermsChange ==
    ASSUME NEW c \in Conn, NEW d, NEW r,
           DescriptionOf(negotiation'[c].offer) = d,
           DescriptionOf(negotiation'[c].answer) = r,
           \A k \in Conn \ {c} : negotiation'[k] = negotiation[k]
    PROVE  termsBar' = [termsBar EXCEPT ![c] = [proposal |-> d, reply |-> r]]
BY DEF termsBar

\* While no id changes, neither do roles and terms.
LEMMA NegotiationStays ==
    ASSUME negotiation' = negotiation
    PROVE  roleBar' = roleBar /\ termsBar' = termsBar
BY DEF roleBar, termsBar, RoleOf, Initiator

\* Signing anything but a control payload says nothing.
LEMMA SaidStays ==
    ASSUME NEW c \in Conn, NEW b, b.kind # "CfrControl",
           signed' = signed \cup {Sign(c, c.local, b)}
    PROVE  saidBar' = saidBar
<1>1. ASSUME NEW k \in Conn, NEW p \in Payload
      PROVE  Sign(k, k.local, [kind |-> "CfrControl", payload |-> p]) # Sign(c, c.local, b)
  <2>1. Sign(k, k.local, [kind |-> "CfrControl", payload |-> p]).body.kind = "CfrControl"
    BY FromSign
  <2>2. Sign(c, c.local, b).body.kind # "CfrControl"
    BY FromSign
  <2>3. QED
    BY <2>1, <2>2
<1>2. \A k \in Conn : SaidBy(k)' = SaidBy(k)
  BY <1>1 DEF SaidBy
<1>3. QED
  BY <1>2 DEF saidBar

\* Signing a control payload says exactly that payload, on exactly that side.
LEMMA SaidChanges ==
    ASSUME NEW c \in Conn, NEW p \in Payload,
           signed' = signed \cup {Sign(c, c.local, [kind |-> "CfrControl", payload |-> p])}
    PROVE  saidBar' = [saidBar EXCEPT ![c] = @ \cup {p}]
<1> DEFINE env(k, q) == Sign(k, k.local, [kind |-> "CfrControl", payload |-> q])
<1>1. \A k \in Conn, q \in Payload : env(k, q) = env(c, p) => k = c /\ q = p
  <2> SUFFICES ASSUME NEW k \in Conn, NEW q \in Payload, env(k, q) = env(c, p)
               PROVE  k = c /\ q = p
    OBVIOUS
  <2>1. From(k, env(k, q)) /\ env(k, q).body = [kind |-> "CfrControl", payload |-> q]
    BY FromSign
  <2>2. env(c, p).body = [kind |-> "CfrControl", payload |-> p]
    BY FromSign
  <2>3. k = c
    BY <2>1, FromSign
  <2>4. [kind |-> "CfrControl", payload |-> q].payload
          = [kind |-> "CfrControl", payload |-> p].payload
    BY <2>1, <2>2
  <2>5. QED
    BY <2>3, <2>4
<1>2. \A k \in Conn : SaidBy(k) = {q \in Payload : env(k, q) \in signed}
  BY DEF SaidBy
<1>3. \A k \in Conn : SaidBy(k)' = {q \in Payload : env(k, q) \in signed \cup {env(c, p)}}
  BY DEF SaidBy
<1> HIDE DEF env
<1>4. \A k \in Conn \ {c} : SaidBy(k)' = SaidBy(k)
  BY <1>1, <1>2, <1>3
<1>5. SaidBy(c)' = SaidBy(c) \cup {p}
  BY <1>1, <1>2, <1>3
<1>6. QED
  BY <1>4, <1>5 DEF saidBar

\* The payload of a control envelope, none of any other.
PayloadIn(e) == {p \in Payload : e.body = [kind |-> "CfrControl", payload |-> p]}

\* Applying an envelope is hearing what payload it has.
LEMMA HeardChanges ==
    ASSUME TypeOK, NEW c \in Conn, NEW e, applied' = [applied EXCEPT ![c] = Append(@, e)]
    PROVE  heardBar' = [heardBar EXCEPT ![c] = @ \cup PayloadIn(e)]
<1>1. /\ applied'[c] = Append(applied[c], e) /\ applied[c] \in Seq(Envelope)
      /\ \A k \in Conn \ {c} : applied'[k] = applied[k]
  BY DEF TypeOK
<1>2. /\ DOMAIN applied'[c] = 1..(Len(applied[c]) + 1)
      /\ DOMAIN applied[c] = 1..Len(applied[c])
      /\ applied'[c][Len(applied[c]) + 1] = e
      /\ \A i \in 1..Len(applied[c]) : applied'[c][i] = applied[c][i]
      /\ Len(applied[c]) \in Nat
  BY <1>1
<1>3. DOMAIN applied'[c] = DOMAIN applied[c] \cup {Len(applied[c]) + 1}
  BY <1>2
<1>4. HeardBy(c)' = HeardBy(c) \cup PayloadIn(e)
  BY <1>2, <1>3 DEF HeardBy, PayloadIn
<1>5. \A k \in Conn \ {c} : HeardBy(k)' = HeardBy(k)
  BY <1>1 DEF HeardBy
<1>6. QED
  BY <1>4, <1>5 DEF heardBar

\* Nothing applied, nothing heard.
LEMMA HeardStays == ASSUME applied' = applied PROVE heardBar' = heardBar
BY DEF heardBar, HeardBy

\* Opening is proposing.
LEMMA ContractPropose ==
    ASSUME NegotiationInv, NEW c \in Conn, NEW s \in Endpoint, NEW d \in Description,
           BeginOffer(c, s, d)
    PROVE  Contract!Propose(c, d)
<1> DEFINE b == [kind |-> "Offer", description |-> d]
           o == Sign(c, c.local, b)
<1>1. /\ phase[c] = "Idle" /\ phase' = [phase EXCEPT ![c] = "OfferSent"]
      /\ negotiation' = [negotiation EXCEPT ![c] = [offer |-> o, answer |-> NoId]]
      /\ signed' = signed \cup {o} /\ applied' = applied
  BY DEF BeginOffer, RequireLocalSigner, Id
<1>2. /\ o \in Offers /\ o # NoId /\ o.sender = c.local /\ o.body = b
      /\ b.kind # "CfrControl" /\ b.description = d
  <2>1. o \in Offers /\ o # NoId
    BY SignShape, ConnFields, NoIdDistinct
  <2>2. o.sender = c.local /\ o.body = b
    BY FromSign
  <2>3. QED
    BY <2>1, <2>2
<1> HIDE DEF o, b
<1>3. /\ negotiation'[c].offer = o /\ negotiation'[c].answer = NoId
      /\ \A k \in Conn \ {c} : negotiation'[k] = negotiation[k]
  BY <1>1 DEF NegotiationInv, TypeOK
<1>4. stageBar[c] = "fresh" /\ stageBar' = [stageBar EXCEPT ![c] = "waiting"]
  BY <1>1, StageChanges DEF stageBar, StageOf, NegotiationInv
<1>5. RoleOf(c)' = "proposer"
  BY <1>2, <1>3 DEF RoleOf, Initiator
<1>6. roleBar' = [roleBar EXCEPT ![c] = "proposer"]
  BY <1>3, <1>5, RoleChanges
<1>7. termsBar' = [termsBar EXCEPT ![c] = [proposal |-> d, reply |-> NoId]]
  BY <1>2, <1>3, TermsChange DEF DescriptionOf
<1>8. saidBar' = saidBar /\ heardBar' = heardBar
  BY <1>1, <1>2, SaidStays, HeardStays DEF o
<1>9. QED
  BY <1>4, <1>6, <1>7, <1>8 DEF Contract!Propose

\* Answering is replying, with the proposal left as it was.
LEMMA ContractReply ==
    ASSUME NegotiationInv, NEW c \in Conn, NEW s \in Endpoint, NEW d \in Description,
           Answer(c, s, d)
    PROVE  Contract!Reply(c, d)
<1> DEFINE o == negotiation[c].offer
           b == [kind |-> "Answer", offer_id |-> o, description |-> d]
           a == Sign(c, c.local, b)
<1>1. /\ phase[c] = "OfferReceived" /\ phase' = [phase EXCEPT ![c] = "AnswerSent"]
      /\ negotiation' = [negotiation EXCEPT ![c] = [offer |-> o, answer |-> a]]
      /\ signed' = signed \cup {a} /\ applied' = applied /\ o # NoId
  BY DEF Answer, RequireLocalSigner, Id
<1>2. /\ a \in Answers /\ a # NoId /\ a.body = b
      /\ b.kind # "CfrControl" /\ b.description = d
  <2>1. a \in Answers /\ a # NoId
    BY <1>1, SignShape, ConnFields, NoIdDistinct DEF NegotiationInv, TypeOK
  <2>2. a.body = b
    BY FromSign
  <2>3. QED
    BY <2>1, <2>2
<1> HIDE DEF a, b
<1>3. /\ negotiation'[c].offer = negotiation[c].offer /\ negotiation'[c].answer = a
      /\ \A k \in Conn \ {c} : negotiation'[k] = negotiation[k]
  BY <1>1 DEF NegotiationInv, TypeOK
<1>4. stageBar[c] = "considering" /\ stageBar' = [stageBar EXCEPT ![c] = "agreed"]
  BY <1>1, StageChanges DEF stageBar, StageOf, NegotiationInv
<1>5. roleBar' = roleBar
  BY <1>3 DEF roleBar, RoleOf, Initiator
<1>6. termsBar' = [termsBar EXCEPT ![c] =
                     [proposal |-> DescriptionOf(negotiation[c].offer), reply |-> d]]
  BY <1>2, <1>3, TermsChange DEF DescriptionOf
<1>7. termsBar' = [termsBar EXCEPT ![c].reply = d]
  BY <1>6 DEF termsBar
<1>8. saidBar' = saidBar /\ heardBar' = heardBar
  BY <1>1, <1>2, SaidStays, HeardStays DEF a
<1>9. QED
  BY <1>4, <1>5, <1>7, <1>8 DEF Contract!Reply

\* A candidate is invisible in the contract, whoever sends it.
LEMMA ContractSendCandidate ==
    ASSUME NegotiationInv, NEW c \in Conn, NEW s \in Endpoint, NEW x \in Candidate,
           SendCandidate(c, s, x)
    PROVE  UNCHANGED Contract!contractVars
<1> DEFINE b == [kind |-> "Candidate", parent_id |-> Parent(c), candidate |-> x]
<1>1. /\ phase' = phase /\ negotiation' = negotiation /\ applied' = applied
      /\ signed' = signed \cup {Sign(c, c.local, b)} /\ b.kind # "CfrControl"
  BY DEF SendCandidate, RequireLocalSigner
<1> HIDE DEF b
<1>2. saidBar' = saidBar
  BY <1>1, SaidStays
<1>3. QED
  BY <1>1, <1>2, StageStays, NegotiationStays, HeardStays DEF Contract!contractVars

\* A control payload that is signed is said.
LEMMA ContractSay ==
    ASSUME NegotiationInv, NEW c \in Conn, NEW s \in Endpoint, NEW p \in Payload,
           SendCfrControl(c, s, p)
    PROVE  Contract!Say(c, p)
<1>1. /\ phase' = phase /\ negotiation' = negotiation /\ applied' = applied
      /\ signed' = signed \cup {Sign(c, c.local, [kind |-> "CfrControl", payload |-> p])}
      /\ phase[c] = "Established"
  BY DEF SendCfrControl, RequireLocalSigner
<1>2. stageBar[c] = "connected"
  BY <1>1 DEF stageBar, StageOf
<1>3. saidBar' = [saidBar EXCEPT ![c] = @ \cup {p}]
  BY <1>1, SaidChanges
<1>4. QED
  BY <1>1, <1>2, <1>3, StageStays, NegotiationStays, HeardStays DEF Contract!Say

\* Every way to the phase Closed stops the side.
LEMMA ContractStop ==
    ASSUME NegotiationInv, NEW c \in Conn, phase[c] \notin {"Idle", "Closed"},
           phase' = [phase EXCEPT ![c] = "Closed"], negotiation' = negotiation,
           saidBar' = saidBar, heardBar' = heardBar
    PROVE  Contract!Stop(c)
<1>1. phase[c] \in Phase
  BY DEF NegotiationInv, TypeOK
<1>2. stageBar[c] \notin {"fresh", "stopped"}
  BY <1>1 DEF stageBar, StageOf, Phase
<1>3. stageBar' = [stageBar EXCEPT ![c] = "stopped"]
  BY StageChanges DEF StageOf, NegotiationInv
<1>4. QED
  BY <1>2, <1>3, NegotiationStays DEF Contract!Stop

\* A local close signs a Close, which the contract does not see beyond the stop.
LEMMA ContractClose ==
    ASSUME NegotiationInv, NEW c \in Conn, NEW s \in Endpoint, Close(c, s)
    PROVE  Contract!Stop(c)
<1> DEFINE b == [kind |-> "Close"]
<1>1. /\ phase[c] \notin {"Idle", "Closed"} /\ phase' = [phase EXCEPT ![c] = "Closed"]
      /\ negotiation' = negotiation /\ applied' = applied
      /\ signed' = signed \cup {Sign(c, c.local, b)} /\ b.kind # "CfrControl"
  BY DEF Close, RequireLocalSigner
<1> HIDE DEF b
<1>2. saidBar' = saidBar /\ heardBar' = heardBar
  BY <1>1, SaidStays, HeardStays
<1>3. QED
  BY <1>1, <1>2, ContractStop

\* What the adapter reports connects or stops the side.
LEMMA ContractTransport ==
    ASSUME NegotiationInv, NEW c \in Conn
    PROVE  /\ TransportConnected(c) => Contract!Connect(c)
           /\ TransportFailed(c) => Contract!Stop(c)
<1>1. ASSUME signed' = signed, applied' = applied
      PROVE  saidBar' = saidBar /\ heardBar' = heardBar
  BY <1>1, HeardStays DEF saidBar, SaidBy
<1>2. ASSUME TransportConnected(c) PROVE Contract!Connect(c)
  <2>1. /\ phase[c] \in {"AnswerSent", "AnswerReceived"}
        /\ phase' = [phase EXCEPT ![c] = "Established"]
        /\ negotiation' = negotiation /\ signed' = signed /\ applied' = applied
    BY <1>2 DEF TransportConnected
  <2>2. stageBar[c] = "agreed" /\ stageBar' = [stageBar EXCEPT ![c] = "connected"]
    BY <2>1, StageChanges DEF stageBar, StageOf, NegotiationInv
  <2>3. QED
    BY <1>1, <2>1, <2>2, NegotiationStays DEF Contract!Connect
<1>3. ASSUME TransportFailed(c) PROVE Contract!Stop(c)
  BY <1>1, <1>3, ContractStop DEF TransportFailed
<1>4. QED
  BY <1>2, <1>3

\* What the receiver of e can rely on: a peer that runs this library signed it, and
\* holds what it signed.
LEMMA ReceivedFromPeer ==
    ASSUME NegotiationInv, NEW c \in Conn, NEW e \in Envelope, Receive(c, e)
    PROVE  /\ e # NoId /\ e.sender # c.local /\ From(Peer(c), e)
           /\ signed' = signed /\ applied' = [applied EXCEPT ![c] = Append(@, e)]
           /\ Peer(c) \in Conn =>
                /\ e \in signed
                /\ e.body.kind = "Offer" =>
                     negotiation[Peer(c)].offer = e /\ Initiator(Peer(c))
                /\ e.body.kind = "Answer" => negotiation[Peer(c)].answer = e
                /\ e.body.kind = "CfrControl" => negotiation[Peer(c)].answer # NoId
<1>1. /\ From(Peer(c), e) /\ (e \in signed \/ e.sender \in Foreign) /\ e # NoId
      /\ signed' = signed /\ applied' = [applied EXCEPT ![c] = Append(@, e)]
  BY FromPeer, NoIdAssumption DEF Receive, ValidInbound, Accept
<1>2. e.sender = c.remote /\ e.sender # c.local /\ Peer(c).local = c.remote
  BY <1>1, FromPeer, ConnFields
<1>3. ASSUME Peer(c) \in Conn
      PROVE  /\ e \in signed
             /\ e.body.kind = "Offer" =>
                  negotiation[Peer(c)].offer = e /\ Initiator(Peer(c))
             /\ e.body.kind = "Answer" => negotiation[Peer(c)].answer = e
             /\ e.body.kind = "CfrControl" => negotiation[Peer(c)].answer # NoId
  <2>1. e \in signed
    BY <1>1, <1>2, <1>3, ConnFields
  <2>2. /\ e.body.kind = "Offer" => negotiation[Peer(c)].offer = e
        /\ e.body.kind = "Answer" => negotiation[Peer(c)].answer = e
        /\ e.body.kind = "CfrControl" => negotiation[Peer(c)].answer # NoId
    BY <1>1, <1>3, <2>1 DEF NegotiationInv, SignedIsHeld
  <2>3. QED
    BY <1>1, <1>2, <2>1, <2>2 DEF Initiator
<1>4. QED
  BY <1>1, <1>2, <1>3

\* An envelope of another kind than a control payload is not heard.
LEMMA NothingHeard ==
    ASSUME TypeOK, NEW c \in Conn, NEW e, e.body.kind # "CfrControl",
           applied' = [applied EXCEPT ![c] = Append(@, e)]
    PROVE  heardBar' = heardBar
<1>1. PayloadIn(e) = {}
  BY DEF PayloadIn
<1>2. heardBar' = [heardBar EXCEPT ![c] = @ \cup PayloadIn(e)]
  BY HeardChanges
<1>3. QED
  BY <1>1, <1>2 DEF heardBar

\* Receiving signs nothing, so it says nothing.
LEMMA SaidUnchanged == ASSUME signed' = signed PROVE saidBar' = saidBar
BY DEF saidBar, SaidBy

\* The first offer is considered: it is what the other side proposed.
LEMMA ContractConsider ==
    ASSUME NegotiationInv, NEW c \in Conn, NEW e \in Envelope, Receive(c, e),
           ReceiveOffer(c, e)
    PROVE  \E d \in Description : Contract!Consider(c, d)
<1> DEFINE d == e.body.description
<1>1. /\ e.body.kind = "Offer" /\ phase[c] = "Idle"
      /\ phase' = [phase EXCEPT ![c] = "OfferReceived"]
      /\ negotiation' = [negotiation EXCEPT ![c] = [offer |-> e, answer |-> NoId]]
  BY DEF ReceiveOffer, Id
<1>2. e \in Offers /\ d \in Description
  BY <1>1, KindShape DEF Offers, Routed
<1>3. /\ e # NoId /\ e.sender # c.local /\ signed' = signed
      /\ applied' = [applied EXCEPT ![c] = Append(@, e)]
      /\ Peer(c) \in Conn => negotiation[Peer(c)].offer = e /\ Initiator(Peer(c))
  BY <1>1, ReceivedFromPeer
<1>4. /\ negotiation'[c].offer = e /\ negotiation'[c].answer = NoId
      /\ \A k \in Conn \ {c} : negotiation'[k] = negotiation[k]
  BY <1>1 DEF NegotiationInv, TypeOK
<1>5. stageBar[c] = "fresh" /\ stageBar' = [stageBar EXCEPT ![c] = "considering"]
  BY <1>1, StageChanges DEF stageBar, StageOf, NegotiationInv
<1>6. RoleOf(c)' = "replier"
  BY <1>3, <1>4 DEF RoleOf, Initiator
<1>7. roleBar' = [roleBar EXCEPT ![c] = "replier"]
  BY <1>4, <1>6, RoleChanges
<1>8. termsBar' = [termsBar EXCEPT ![c] = [proposal |-> d, reply |-> NoId]]
  BY <1>3, <1>4, TermsChange DEF DescriptionOf
<1>9. saidBar' = saidBar /\ heardBar' = heardBar
  BY <1>1, <1>3, SaidUnchanged, NothingHeard DEF NegotiationInv
<1>10. Contract!Bound(c) =>
         roleBar[Peer(c)] = "proposer" /\ termsBar[Peer(c)].proposal = d
  BY <1>3, RoleIs DEF Contract!Bound, roleBar, termsBar, DescriptionOf
<1>11. Contract!Consider(c, d)
  BY <1>5, <1>7, <1>8, <1>9, <1>10 DEF Contract!Consider
<1>12. QED
  BY <1>2, <1>11

\* The answer to the pending offer concludes: it is what the other side replied, to
\* this very proposal.
LEMMA ContractConclude ==
    ASSUME NegotiationInv, NEW c \in Conn, NEW e \in Envelope, Receive(c, e),
           ReceiveAnswer(c, e)
    PROVE  \E d \in Description : Contract!Conclude(c, d)
<1> DEFINE d == e.body.description
<1>1. /\ e.body.kind = "Answer" /\ phase[c] = "OfferSent"
      /\ negotiation[c].offer # NoId /\ negotiation[c].offer = e.body.offer_id
      /\ phase' = [phase EXCEPT ![c] = "AnswerReceived"]
      /\ negotiation' = [negotiation EXCEPT ![c].answer = e]
  BY DEF ReceiveAnswer, Id
<1>2. e \in Answers /\ d \in Description
  BY <1>1, KindShape DEF Answers, Routed
<1>3. /\ e # NoId /\ signed' = signed
      /\ applied' = [applied EXCEPT ![c] = Append(@, e)]
      /\ Peer(c) \in Conn => negotiation[Peer(c)].answer = e
  BY <1>1, ReceivedFromPeer
<1>4. /\ negotiation'[c].offer = negotiation[c].offer /\ negotiation'[c].answer = e
      /\ \A k \in Conn \ {c} : negotiation'[k] = negotiation[k]
  BY <1>1 DEF NegotiationInv, TypeOK
<1>5. stageBar[c] = "waiting" /\ stageBar' = [stageBar EXCEPT ![c] = "agreed"]
  BY <1>1, StageChanges DEF stageBar, StageOf, NegotiationInv
<1>6. roleBar' = roleBar
  BY <1>4 DEF roleBar, RoleOf, Initiator
<1>7. termsBar' = [termsBar EXCEPT ![c] =
                     [proposal |-> DescriptionOf(negotiation[c].offer), reply |-> d]]
  BY <1>3, <1>4, TermsChange DEF DescriptionOf
<1>8. termsBar' = [termsBar EXCEPT ![c].reply = d]
  BY <1>7 DEF termsBar
<1>9. saidBar' = saidBar /\ heardBar' = heardBar
  BY <1>1, <1>3, SaidUnchanged, NothingHeard DEF NegotiationInv
<1>10. ASSUME Peer(c) \in Conn
       PROVE  /\ roleBar[Peer(c)] = "replier"
              /\ termsBar[Peer(c)] = [termsBar[c] EXCEPT !.reply = d]
  <2> DEFINE q == Peer(c)
  <2>1. /\ HeldFits(c) /\ HeldFits(q) /\ c.local # q.local
    BY <1>10, ConnFields DEF NegotiationInv, NegotiationShape
  <2>2. negotiation[q].answer = e /\ negotiation[q].offer = negotiation[c].offer
    BY <1>1, <1>3, <1>10, <2>1 DEF HeldFits
  <2>3. Initiator(c)
    BY <1>1, <2>1 DEF HeldFits
  <2>4. ~ Initiator(q)
    BY <2>1, <2>2, <2>3 DEF Initiator
  <2>5. RoleOf(q) = "replier"
    BY <1>1, <2>2, <2>4, RoleIs
  <2>6. DescriptionOf(negotiation[q].answer) = d
    BY <1>3, <2>2 DEF DescriptionOf
  <2>7. QED
    BY <1>10, <2>2, <2>5, <2>6 DEF roleBar, termsBar
<1>11. Contract!Conclude(c, d)
  BY <1>5, <1>6, <1>8, <1>9, <1>10 DEF Contract!Conclude, Contract!Bound
<1>12. QED
  BY <1>2, <1>11

\* A control payload is heard from a connected peer that said it and holds the same
\* terms.
LEMMA ContractHear ==
    ASSUME NegotiationInv, NEW c \in Conn, NEW e \in Envelope, Receive(c, e),
           ReceiveCfrControl(c, e)
    PROVE  \E p \in Payload : Contract!Hear(c, p)
<1> DEFINE p == e.body.payload
           b == [kind |-> "CfrControl", payload |-> p]
<1>1. /\ e.body.kind = "CfrControl" /\ phase[c] = "Established"
      /\ phase' = phase /\ negotiation' = negotiation
  BY DEF ReceiveCfrControl
<1>2. p \in Payload /\ e.body = b
  BY <1>1, KindShape DEF CfrControls, Routed
<1>3. /\ From(Peer(c), e) /\ signed' = signed
      /\ applied' = [applied EXCEPT ![c] = Append(@, e)]
      /\ Peer(c) \in Conn => e \in signed /\ negotiation[Peer(c)].answer # NoId
  BY <1>1, ReceivedFromPeer
<1>4. stageBar[c] = "connected"
  BY <1>1 DEF stageBar, StageOf
<1>5. heardBar' = [heardBar EXCEPT ![c] = @ \cup {p}]
  <2>1. PayloadIn(e) = {p}
    BY <1>2 DEF PayloadIn
  <2>2. heardBar' = [heardBar EXCEPT ![c] = @ \cup PayloadIn(e)]
    BY <1>3, HeardChanges DEF NegotiationInv
  <2>3. QED
    BY <2>1, <2>2
<1>6. ASSUME Peer(c) \in Conn
      PROVE  p \in saidBar[Peer(c)] /\ termsBar[Peer(c)] = termsBar[c]
  <2>1. e = Sign(Peer(c), Peer(c).local, b)
    <3>1. e \in CfrControls
      BY <1>1, KindShape
    <3>2. QED
      BY <1>2, <1>3, <3>1 DEF CfrControls, Routed, From, Sign
  <2>2. p \in SaidBy(Peer(c))
    BY <1>2, <1>3, <1>6, <2>1 DEF SaidBy
  <2>3. negotiation[c].answer # NoId
    BY <1>1 DEF NegotiationInv, NegotiationShape, HeldFits
  <2>4. /\ negotiation[Peer(c)].offer = negotiation[c].offer
        /\ negotiation[Peer(c)].answer = negotiation[c].answer
    BY <1>3, <1>6, <2>3, AgreementFromInv DEF Agreement, Paired
  <2>5. QED
    BY <1>6, <2>2, <2>4 DEF saidBar, termsBar
<1>7. Contract!Hear(c, p)
  BY <1>1, <1>3, <1>4, <1>5, <1>6, StageStays, NegotiationStays, SaidUnchanged
     DEF Contract!Hear, Contract!Bound
<1>8. QED
  BY <1>2, <1>7

\* Receipt of any envelope is a step of the contract or invisible in it.
LEMMA ContractReceive ==
    ASSUME NegotiationInv, NEW c \in Conn, NEW e \in Envelope, Receive(c, e)
    PROVE  [Contract!Next]_(Contract!contractVars)
<1>1. CASE ReceiveOffer(c, e)
  BY <1>1, ContractConsider DEF Contract!Next
<1>2. CASE ReceiveAnswer(c, e)
  BY <1>2, ContractConclude DEF Contract!Next
<1>3. CASE ReceiveCfrControl(c, e)
  BY <1>3, ContractHear DEF Contract!Next
<1>4. CASE ReceiveCandidate(c, e) \/ ReceiveClose(c, e)
  <2>1. saidBar' = saidBar /\ heardBar' = heardBar
    BY <1>4, ReceivedFromPeer, SaidUnchanged, NothingHeard
       DEF ReceiveCandidate, ReceiveClose, NegotiationInv
  <2>2. CASE ReceiveCandidate(c, e)
    BY <2>1, <2>2, StageStays, NegotiationStays DEF ReceiveCandidate, Contract!contractVars
  <2>3. CASE ReceiveClose(c, e)
    <3>1. Contract!Stop(c)
      BY <2>1, <2>3, ContractStop DEF ReceiveClose
    <3>2. QED
      BY <3>1 DEF Contract!Next
  <2>4. QED
    BY <1>4, <2>2, <2>3
<1>5. QED
  BY <1>1, <1>2, <1>3, <1>4 DEF Receive

\* Every step of the connections is a step of the contract or leaves it unchanged.
LEMMA ContractStep ==
    NegotiationInv /\ [Next]_vars => [Contract!Next]_(Contract!contractVars)
<1> SUFFICES ASSUME NegotiationInv, [Next]_vars
             PROVE  [Contract!Next]_(Contract!contractVars)
  OBVIOUS
<1>1. ASSUME NEW c \in Conn, LocalStep(c)
      PROVE  [Contract!Next]_(Contract!contractVars)
  <2>1. ASSUME NEW s \in Endpoint, NEW d \in Description,
               BeginOffer(c, s, d) \/ Answer(c, s, d)
        PROVE  Contract!Next
    BY <2>1, ContractPropose, ContractReply DEF Contract!Next
  <2>2. ASSUME NEW s \in Endpoint, NEW x \in Candidate, SendCandidate(c, s, x)
        PROVE  UNCHANGED Contract!contractVars
    BY <2>2, ContractSendCandidate
  <2>3. ASSUME NEW s \in Endpoint, NEW p \in Payload, SendCfrControl(c, s, p)
        PROVE  Contract!Next
    BY <2>3, ContractSay DEF Contract!Next
  <2>4. ASSUME NEW s \in Endpoint, Close(c, s)
        PROVE  Contract!Next
    BY <2>4, ContractClose DEF Contract!Next
  <2>5. ASSUME TransportConnected(c) \/ TransportFailed(c)
        PROVE  Contract!Next
    BY <2>5, ContractTransport DEF Contract!Next
  <2>6. QED
    BY <1>1, <2>1, <2>2, <2>3, <2>4, <2>5 DEF LocalStep
<1>2. ASSUME NEW c \in Conn, NEW e \in signed \cup ForeignEnvelopes, Receive(c, e)
      PROVE  [Contract!Next]_(Contract!contractVars)
  <2>1. e \in Envelope
    BY DEF NegotiationInv, TypeOK, ForeignEnvelopes
  <2>2. QED
    BY <1>2, <2>1, ContractReceive
<1>3. CASE UNCHANGED vars
  <2>1. /\ signed' = signed /\ phase' = phase /\ negotiation' = negotiation
        /\ applied' = applied
    BY <1>3 DEF vars
  <2>2. QED
    BY <2>1, StageStays, NegotiationStays, SaidUnchanged, HeardStays DEF Contract!contractVars
<1>4. QED
  BY <1>1, <1>2, <1>3 DEF Next

\* The connection core implements the attempt contract: whatever the carrier and
\* foreign endpoints do, two applications see one side propose, the other consider
\* that proposal and reply, the proposer conclude on that reply, and payloads pass
\* between connected sides with equal terms only (every operation of Connection).
THEOREM ContractSafe == Spec => ImplementsContract
BY ContractInit, ContractStep, NegotiationInit, NegotiationNext, PTL
   DEF Spec, ImplementsContract, Contract!Spec
=============================================================================
