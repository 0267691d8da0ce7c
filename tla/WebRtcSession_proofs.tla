------------------------ MODULE WebRtcSession_proofs ------------------------
(***************************************************************************)
(* Proofs about WebRtcSession, for every queue capacity, every number of   *)
(* channels and every foreign peer.                                        *)
(***************************************************************************)
EXTENDS WebRtcSession, FcpConnection_proofs, FiniteSetTheorems

-----------------------------------------------------------------------------
(* The records a task keeps between two of its steps. *)

\* What the point a call has reached says about its record.
LEMMA CallShape ==
    ASSUME NEW x \in Call
    PROVE  /\ x.op = "described" => x.description \in Description
           /\ x.op = "sending" => x.envelope \in Offers \cup Answers
           /\ x.op = "flushing" =>
                x.list \in Seq(Candidate) /\ x.next \in {"idle", "take"}
           /\ x.op = "applying" => x.envelope \in Envelope
BY DEF Call

LEMMA CallbackShape ==
    ASSUME NEW x \in Callback, x.op = "staging"
    PROVE  x.candidate \in Candidate
BY DEF Callback

LEMMA PumpShape ==
    ASSUME NEW x \in Pump, x.op = "delivering"
    PROVE  x.envelope \in CfrControls
BY DEF Pump

\* The states Does names are states of their task.
LEMMA DoesShape ==
    /\ \A x \in {"idle", "offering", "flush", "take", "closing", "shutting"} : Does(x) \in Call
    /\ \A x \in {"idle", "failing"} : Does(x) \in Callback
    /\ \A x \in {"unused", "waiting", "connected", "polling", "failing", "done"} :
          Does(x) \in Pump
BY DEF Does, Call, Callback, Pump

-----------------------------------------------------------------------------
(* The session drives the core through its operations only. *)

LEMMA SelfFields == Self \in Conn /\ Self.local \in Endpoint
BY SelfAssumption, ConnFields

\* Whatever step the session takes, the core takes one of its own or none.
LEMMA CoreStep ==
    ASSUME app \in Call, SessionNext
    PROVE  [Next]_vars
<1> USE SelfFields
<1>1. ASSUME NEW x \in Candidate, EmitCandidate(x)
      PROVE  Next
  BY <1>1 DEF EmitCandidate, Next, LocalStep
<1>2. CASE Proceed
  <2>1. CASE SignOffer
    BY <2>1, CallShape DEF SignOffer, Next, LocalStep
  <2>2. CASE SignAnswer
    BY <2>2, CallShape DEF SignAnswer, Next, LocalStep
  <2>3. CASE FlushOne
    <3>1. Head(app.list) \in Candidate
      BY <2>3, CallShape DEF FlushOne
    <3>2. QED
      BY <1>1, <2>3, <3>1 DEF FlushOne, coreVars
  <2>4. QED
    BY <1>2, <2>1, <2>2, <2>3
       DEF Proceed, DescribeOffer, QueueSignal, CallFails, Flush, FlushEnds,
           ApplyDescription, AddCandidate, DeliverAccepted, ApplyClose, ReportClosed,
           ShutEngine, coreVars
<1>3. CASE Application
  <2>1. ASSUME NEW e \in Inbound, AcceptSignal(e)
        PROVE  Next
    BY <2>1, InboundAssumption DEF AcceptSignal, Next
  <2>2. ASSUME NEW p \in Payload, SendCfr(p)
        PROVE  Next
    BY <2>2 DEF SendCfr, Next, LocalStep
  <2>3. CASE CallBeginClose
    BY <2>3 DEF CallBeginClose, Next, LocalStep
  <2>4. QED
    BY <1>3, <2>1, <2>2, <2>3
       DEF Application, CallBeginOffer, CallAnswer, TakeSignal, TryTakeEvent, CallClose,
           coreVars
<1>4. CASE CallbackProceeds
  BY <1>4 DEF CallbackProceeds, StageCandidate, ReportFailed, coreVars
<1>5. CASE EngineEvent
  BY <1>1, <1>5
     DEF EngineEvent, OnIceCandidate, OnConnectionFailed, OnDataChannel, coreVars
<1>6. ASSUME NEW k \in Channel, PumpProceeds(k)
      PROVE  UNCHANGED vars
  BY <1>6 DEF PumpProceeds, ReportConnected, PumpDeliver, PumpReportsFailed, coreVars
<1>7. ASSUME NEW k \in Channel, PumpEvent(k)
      PROVE  [Next]_vars
  <2>1. CASE PumpOpen(k)
    BY <2>1 DEF PumpOpen, Next, LocalStep
  <2>2. ASSUME NEW e \in Inbound, PumpMessage(k, e)
        PROVE  Next
    BY <2>2, InboundAssumption DEF PumpMessage, Next
  <2>3. QED
    BY <1>7, <2>1, <2>2 DEF PumpEvent, PumpEnds, PumpClosed, coreVars
<1>8. QED
  BY <1>2, <1>3, <1>4, <1>5, <1>6, <1>7 DEF SessionNext

-----------------------------------------------------------------------------
(* Type correctness, queue capacities included. *)

LEMMA SessionTypeInit == SessionInit => SessionTypeOK
<1> SUFFICES ASSUME SessionInit PROVE SessionTypeOK
  OBVIOUS
<1>1. \A S : <<>> \in Seq(S) /\ Len(<<>>) = 0
  OBVIOUS
<1>2. /\ TypeOK
      /\ queue \in Seq(Envelope) /\ Len(queue) <= SignalCapacity
      /\ staged \in Seq(Candidate) /\ Len(staged) <= MaxStaged
      /\ taken \subseteq Envelope /\ sequence \in Nat
  BY <1>1, TypeInit, CapacityAssumption DEF SessionInit
<1>3. /\ emitted \in Seq(Event) /\ drained \in Nat /\ drained <= Len(emitted)
      /\ Len(emitted) - drained <= EventCapacity
  <2>1. emitted = <<>> /\ drained = 0
    BY DEF SessionInit
  <2>2. QED
    BY <1>1, <2>1, CapacityAssumption
<1>4. /\ control \in Channel \cup {NoId} /\ app \in Call /\ callback \in Callback
      /\ pump \in [Channel -> Pump] /\ terminal \in BOOLEAN
  BY DoesShape DEF SessionInit
<1>5. engine \in [local : BOOLEAN, remote : Description \cup {NoId}, open : BOOLEAN]
  BY DEF SessionInit
<1>6. QED
  BY <1>2, <1>3, <1>4, <1>5 DEF SessionTypeOK

\* Staging keeps the list within its capacity.
LEMMA StageType ==
    ASSUME NEW s \in Seq(Candidate), Len(s) <= MaxStaged, NEW x \in Candidate
    PROVE  Stage(s, x) \in Seq(Candidate) /\ Len(Stage(s, x)) <= MaxStaged
<1>1. CASE Len(s) = MaxStaged
  <2>1. Tail(s) \in Seq(Candidate) /\ Len(Tail(s)) = Len(s) - 1
    BY <1>1, CapacityAssumption
  <2>2. QED
    BY <1>1, <2>1, CapacityAssumption DEF Stage
<1>2. CASE Len(s) # MaxStaged
  BY <1>2, CapacityAssumption DEF Stage
<1>3. QED
  BY <1>1, <1>2

\* A signed candidate that finds no room leaves the queue as it was.
LEMMA TrySendType ==
    ASSUME NEW q \in Seq(Envelope), Len(q) <= SignalCapacity, NEW e \in Envelope
    PROVE  TrySend(q, e) \in Seq(Envelope) /\ Len(TrySend(q, e)) <= SignalCapacity
BY CapacityAssumption DEF TrySend, HasRoom

LEMMA EmitCandidateType ==
    ASSUME SessionTypeOK, NEW x \in Candidate, EmitCandidate(x)
    PROVE  queue' \in Seq(Envelope) /\ Len(queue') <= SignalCapacity
<1>1. Parent(Self) \in Offers \cup Answers
  BY SelfFields DEF EmitCandidate, SendCandidate, Parent, SessionTypeOK, TypeOK
<1>2. CandidateSignal(x) \in Envelope
  BY <1>1, SelfFields, SignShape DEF CandidateSignal, Envelope
<1>3. QED
  BY <1>2, TrySendType DEF EmitCandidate, SessionTypeOK

\* An event is sent only into room, and stays within what was not drained.
LEMMA EmitType ==
    ASSUME SessionTypeOK, NEW x \in Event, Emit(x)
    PROVE  /\ emitted' \in Seq(Event) /\ drained' \in Nat
           /\ drained' <= Len(emitted') /\ Len(emitted') - drained' <= EventCapacity
BY CapacityAssumption DEF Emit, CanEmit, SessionTypeOK

LEMMA EventShape ==
    /\ \A x \in {"Connected", "Closed", "Failed"} : [kind |-> x] \in Event
    /\ \A e \in CfrControls : [kind |-> "DeliverCfr", envelope |-> e] \in Event
BY DEF Event

\* Every step of a session preserves its type invariant.
LEMMA SessionTypeNext == SessionTypeOK /\ [SessionNext]_allVars => SessionTypeOK'
<1> SUFFICES ASSUME SessionTypeOK, [SessionNext]_allVars
             PROVE  SessionTypeOK'
  OBVIOUS
<1>0. CASE UNCHANGED allVars
  BY <1>0
     DEF allVars, coreVars, sessionVars, queues, reports, vars, SessionTypeOK, TypeOK
<1> SUFFICES ASSUME SessionNext PROVE SessionTypeOK'
  BY <1>0
<1>1. TypeOK'
  BY CoreStep, TypeNext DEF SessionTypeOK
<1> USE <1>1, DoesShape DEF SessionTypeOK, queues, reports
<1>2. CASE Proceed
  <2>1. ASSUME NEW d \in Description, DescribeOffer(d)
        PROVE  SessionTypeOK'
    BY <2>1 DEF DescribeOffer, Call
  <2>2. CASE SignOffer
    <3>1. negotiation'[Self].offer \in Offers
      BY <2>2, SelfFields, SignShape, CallShape DEF SignOffer, BeginOffer, Id, TypeOK
    <3>2. app' \in Call
      BY <2>2, <3>1 DEF SignOffer, Call
    <3>3. QED
      BY <2>2, <3>2 DEF SignOffer
  <2>3. CASE SignAnswer
    <3>1. negotiation'[Self].answer \in Answers
      BY <2>3, SelfFields, SignShape, CallShape DEF SignAnswer, Answer, Id, TypeOK
    <3>2. app' \in Call
      BY <2>3, <3>1 DEF SignAnswer, Call
    <3>3. QED
      BY <2>3, <3>2 DEF SignAnswer
  <2>4. CASE QueueSignal
    BY <2>4, CallShape, CapacityAssumption DEF QueueSignal, HasRoom, Envelope
  <2>5. CASE CallFails
    BY <2>5 DEF CallFails
  <2>6. CASE Flush
    BY <2>6, CapacityAssumption DEF Flush, Flushing, Call
  <2>7. CASE FlushOne
    <3>1. /\ app.list \in Seq(Candidate) /\ Head(app.list) \in Candidate
          /\ Tail(app.list) \in Seq(Candidate) /\ app.next \in {"idle", "take"}
      BY <2>7, CallShape DEF FlushOne
    <3>2. app' \in Call
      BY <2>7, <3>1 DEF FlushOne, Call
    <3>3. /\ queue' \in Seq(Envelope) /\ Len(queue') <= SignalCapacity
          /\ staged' \in Seq(Candidate) /\ Len(staged') <= MaxStaged
      BY <2>7, <3>1, EmitCandidateType, StageType DEF FlushOne
    <3>4. QED
      BY <2>7, <3>2, <3>3 DEF FlushOne
  <2>8. CASE FlushEnds
    BY <2>8, CallShape DEF FlushEnds
  <2>9. CASE ApplyDescription
    <3>1. app.envelope.body.description \in Description
      BY <2>9, CallShape, KindShape DEF ApplyDescription, Offers, Answers, Routed
    <3>2. QED
      BY <2>9, <3>1 DEF ApplyDescription
  <2>10. CASE AddCandidate
    BY <2>10 DEF AddCandidate
  <2>11. CASE DeliverAccepted
    <3>1. [kind |-> "DeliverCfr", envelope |-> app.envelope] \in Event
      BY <2>11, CallShape, KindShape, EventShape DEF DeliverAccepted
    <3>2. QED
      BY <2>11, <3>1, EmitType DEF DeliverAccepted
  <2>12. CASE ApplyClose
    BY <2>12 DEF ApplyClose, FirstTerminal
  <2>13. CASE ReportClosed
    BY <2>13, EventShape, EmitType DEF ReportClosed
  <2>14. CASE ShutEngine
    BY <2>14 DEF ShutEngine
  <2>15. QED
    BY <1>2, <2>1, <2>2, <2>3, <2>4, <2>5, <2>6, <2>7, <2>8, <2>9, <2>10, <2>11, <2>12,
       <2>13, <2>14 DEF Proceed
<1>3. CASE Application
  <2>1. ASSUME NEW k \in Channel, CallBeginOffer(k)
        PROVE  SessionTypeOK'
    BY <2>1 DEF CallBeginOffer, NewChannel
  <2>2. ASSUME NEW d \in Description, CallAnswer(d)
        PROVE  SessionTypeOK'
    BY <2>2 DEF CallAnswer, Call
  <2>3. ASSUME NEW e \in Inbound, AcceptSignal(e)
        PROVE  SessionTypeOK'
    BY <2>3, InboundAssumption DEF AcceptSignal, ForeignEnvelopes, Call
  <2>4. ASSUME NEW p \in Payload, SendCfr(p)
        PROVE  SessionTypeOK'
    BY <2>4 DEF SendCfr, sessionVars
  <2>5. CASE TakeSignal
    <3>1. /\ Head(queue) \in Envelope /\ Tail(queue) \in Seq(Envelope)
          /\ Len(Tail(queue)) <= SignalCapacity
      BY <2>5, CapacityAssumption DEF TakeSignal
    <3>2. app' \in Call
      BY <2>5 DEF TakeSignal, Flushing, Call
    <3>3. QED
      BY <2>5, <3>1, <3>2, CapacityAssumption DEF TakeSignal
  <2>6. CASE TryTakeEvent
    BY <2>6, CapacityAssumption DEF TryTakeEvent
  <2>7. CASE CallBeginClose
    BY <2>7, SelfFields, SignShape DEF CallBeginClose, Envelope
  <2>8. CASE CallClose
    BY <2>8 DEF CallClose
  <2>9. QED
    BY <1>3, <2>1, <2>2, <2>3, <2>4, <2>5, <2>6, <2>7, <2>8 DEF Application
<1>4. CASE CallbackProceeds
  <2>1. CASE StageCandidate
    BY <2>1, CallbackShape, StageType DEF StageCandidate
  <2>2. CASE ReportFailed
    BY <2>2, EventShape, EmitType DEF ReportFailed
  <2>3. QED
    BY <1>4, <2>1, <2>2 DEF CallbackProceeds
<1>5. CASE EngineEvent
  <2>1. CASE OnIceCandidate
    <3>1. queue' \in Seq(Envelope) /\ Len(queue') <= SignalCapacity
      BY <2>1, EmitCandidateType DEF OnIceCandidate
    <3>2. callback' \in Callback
      BY <2>1 DEF OnIceCandidate, Callback
    <3>3. QED
      BY <2>1, <3>1, <3>2 DEF OnIceCandidate
  <2>2. CASE OnConnectionFailed
    BY <2>2 DEF OnConnectionFailed, FirstTerminal
  <2>3. ASSUME NEW k \in Channel, OnDataChannel(k)
        PROVE  SessionTypeOK'
    BY <2>3 DEF OnDataChannel, NewChannel
  <2>4. QED
    BY <1>5, <2>1, <2>2, <2>3 DEF EngineEvent
<1>6. ASSUME NEW k \in Channel, PumpProceeds(k)
      PROVE  SessionTypeOK'
  <2>1. CASE ReportConnected(k)
    BY <2>1, EventShape, EmitType DEF ReportConnected, Becomes
  <2>2. CASE PumpDeliver(k)
    BY <2>2, PumpShape, EventShape, EmitType DEF PumpDeliver, Becomes
  <2>3. CASE PumpReportsFailed(k)
    BY <2>3, EventShape, EmitType DEF PumpReportsFailed, Becomes
  <2>4. QED
    BY <1>6, <2>1, <2>2, <2>3 DEF PumpProceeds
<1>7. ASSUME NEW k \in Channel, PumpEvent(k)
      PROVE  SessionTypeOK'
  <2>1. CASE PumpOpen(k) \/ PumpEnds(k)
    BY <2>1 DEF PumpOpen, PumpEnds, Becomes
  <2>2. CASE PumpClosed(k)
    BY <2>2 DEF PumpClosed, FirstTerminal, Becomes
  <2>3. ASSUME NEW e \in Inbound, PumpMessage(k, e)
        PROVE  SessionTypeOK'
    <3>1. e.body.kind = "CfrControl" => [op |-> "delivering", envelope |-> e] \in Pump
      BY InboundAssumption, KindShape DEF ForeignEnvelopes, Pump
    <3>2. QED
      BY <2>3, <3>1 DEF PumpMessage, Becomes
  <2>4. QED
    BY <1>7, <2>1, <2>2, <2>3 DEF PumpEvent
<1>8. QED
  BY <1>2, <1>3, <1>4, <1>5, <1>6, <1>7 DEF SessionNext

\* Type correctness of a session: the signal queue, the event queue and the staging
\* list never exceed the capacities session.rs gives them.
THEOREM SessionTypeCorrect == SessionSpec => []SessionTypeOK
BY SessionTypeInit, SessionTypeNext, PTL DEF SessionSpec

-----------------------------------------------------------------------------
(* What holds of the core holds of the core in a session. *)

LEMMA CoreStepOrStutter ==
    ASSUME SessionTypeOK, [SessionNext]_allVars
    PROVE  [Next]_vars
<1>1. CASE UNCHANGED allVars
  BY <1>1 DEF allVars, coreVars
<1>2. QED
  BY <1>1, CoreStep DEF SessionTypeOK

\* A session refines the connection core: however its tasks interleave and whichever
\* calls fail, it drives the core by operations the core has, so every theorem of
\* FcpConnection_proofs holds of a session (session.rs, control.rs).
THEOREM SessionDrivesCore == SessionSpec => Spec
<1>1. SessionInit => Init
  BY DEF SessionInit
<1>2. QED
  BY <1>1, SessionTypeCorrect, CoreStepOrStutter, PTL DEF SessionSpec, Spec

\* The replay guarantee and the once-only negotiation hold in a session, where
\* accept_signal and the pumps of all channels feed one core.
COROLLARY SessionReplay == SessionSpec => [](ReplayWindow /\ NegotiatedOnce)
BY SessionDrivesCore, ReplaySafe, NegotiatedOnceSafe, PTL

\* A session keeps the attempt contract towards its application: what the channels,
\* the pumps and failing engine calls add is invisible in it.
COROLLARY SessionKeepsContract == SessionSpec => ImplementsContract
BY SessionDrivesCore, ContractSafe, PTL

-----------------------------------------------------------------------------
(* The engine and the negotiation. *)

\* A description that is about to be applied is the one the core holds: between the
\* unlock of the core and the call of the engine nothing can replace it.
ApplyingFits ==
    app.op = "applying" =>
        /\ app.envelope \in Envelope
        /\ app.envelope.body.kind = "Offer" =>
             negotiation[Self].offer = app.envelope /\ ~ Initiator(Self)
        /\ app.envelope.body.kind = "Answer" =>
             negotiation[Self].answer = app.envelope /\ Initiator(Self)

EngineInv == SessionTypeOK /\ NegotiationInv /\ ApplyingFits /\ EngineMatchesNegotiation

LEMMA EngineInit == SessionInit => EngineInv
BY SessionTypeInit, NegotiationInit
   DEF SessionInit, EngineInv, ApplyingFits, EngineMatchesNegotiation, Does

\* A step that leaves the engine's description alone and begins no new application
\* keeps both parts, because the core rewrites nothing it holds.
LEMMA EngineFrame ==
    ASSUME EngineInv, NegotiationInv', Kept(Self), engine'.remote = engine.remote,
           app'.op = "applying" => app' = app
    PROVE  ApplyingFits' /\ EngineMatchesNegotiation'
<1>1. /\ negotiation[Self].offer # NoId =>
           negotiation'[Self].offer = negotiation[Self].offer
      /\ negotiation[Self].answer # NoId =>
           negotiation'[Self].answer = negotiation[Self].answer
  BY DEF Kept
<1>2. negotiation[Self].offer # NoId => Initiator(Self)' = Initiator(Self)
  BY <1>1 DEF Initiator
<1>3. negotiation[Self].answer # NoId => negotiation[Self].offer # NoId
  BY SelfFields DEF EngineInv, NegotiationInv, NegotiationShape, HeldFits
<1>4. ApplyingFits'
  BY <1>1, <1>2, <1>3, NoIdAssumption DEF EngineInv, ApplyingFits
<1>5. EngineMatchesNegotiation'
  BY <1>1, <1>2, <1>3 DEF EngineInv, EngineMatchesNegotiation
<1>6. QED
  BY <1>4, <1>5

\* The core has accepted e from the signaling path.
LEMMA EngineAccept ==
    ASSUME EngineInv, NegotiationInv', NEW e \in Inbound, AcceptSignal(e), Kept(Self)
    PROVE  ApplyingFits' /\ EngineMatchesNegotiation'
<1>1. /\ e \in Envelope /\ e.sender = Self.remote /\ Self.remote # Self.local
      /\ app' = [op |-> "applying", envelope |-> e] /\ engine' = engine
      /\ Receive(Self, e)
  BY InboundAssumption, SelfFields, ConnFields
     DEF AcceptSignal, Receive, ValidInbound, ForeignEnvelopes
<1>2. e.body.kind = "Offer" => negotiation'[Self].offer = e
  BY <1>1, SelfFields
     DEF Receive, ReceiveOffer, ReceiveAnswer, ReceiveCandidate, ReceiveClose,
         ReceiveCfrControl, Id, EngineInv, NegotiationInv, TypeOK
<1>3. e.body.kind = "Answer" =>
        negotiation'[Self].answer = e /\ phase'[Self] = "AnswerReceived"
  BY <1>1, SelfFields
     DEF Receive, ReceiveOffer, ReceiveAnswer, ReceiveCandidate, ReceiveClose,
         ReceiveCfrControl, Id, EngineInv, NegotiationInv, TypeOK
<1>4. phase'[Self] = "AnswerReceived" => Initiator(Self)'
  BY SelfFields DEF NegotiationInv, NegotiationShape, HeldFits
<1>5. ApplyingFits'
  BY <1>1, <1>2, <1>3, <1>4 DEF ApplyingFits, Initiator
<1>6. EngineMatchesNegotiation'
  <2>1. /\ negotiation[Self].offer # NoId =>
             negotiation'[Self].offer = negotiation[Self].offer
        /\ negotiation[Self].answer # NoId =>
             negotiation'[Self].answer = negotiation[Self].answer
    BY DEF Kept
  <2>2. negotiation[Self].answer # NoId => negotiation[Self].offer # NoId
    BY SelfFields DEF EngineInv, NegotiationInv, NegotiationShape, HeldFits
  <2>3. QED
    BY <1>1, <2>1, <2>2 DEF EngineInv, EngineMatchesNegotiation, Initiator
<1>7. QED
  BY <1>5, <1>6

LEMMA EngineNext == EngineInv /\ [SessionNext]_allVars => EngineInv'
<1> SUFFICES ASSUME EngineInv, [SessionNext]_allVars PROVE EngineInv'
  OBVIOUS
<1>1. SessionTypeOK' /\ [Next]_vars
  BY SessionTypeNext, CoreStepOrStutter DEF EngineInv
<1>2. NegotiationInv' /\ Kept(Self)
  BY <1>1, NegotiationNext, StepKeeps, SelfFields DEF EngineInv
<1> SUFFICES ApplyingFits' /\ EngineMatchesNegotiation'
  BY <1>1, <1>2 DEF EngineInv
<1>3. CASE UNCHANGED allVars
  BY <1>2, <1>3, EngineFrame DEF allVars, sessionVars
<1>4. CASE ApplyDescription
  <2>1. /\ negotiation' = negotiation /\ app'.op = "idle"
        /\ app.envelope \in Envelope
        /\ engine'.remote = app.envelope.body.description
    BY <1>4 DEF ApplyDescription, coreVars, vars, Does, EngineInv, SessionTypeOK,
                ApplyingFits
  <2>2. app.envelope # NoId
    BY <2>1, NoIdAssumption
  <2>3. QED
    BY <1>4, <2>1, <2>2
       DEF ApplyDescription, EngineInv, ApplyingFits, EngineMatchesNegotiation, Initiator
<1>5. ASSUME NEW e \in Inbound, AcceptSignal(e)
      PROVE  ApplyingFits' /\ EngineMatchesNegotiation'
  BY <1>2, <1>5, EngineAccept
<1>6. ASSUME engine'.remote = engine.remote, app'.op = "applying" => app' = app
      PROVE  ApplyingFits' /\ EngineMatchesNegotiation'
  BY <1>2, <1>6, EngineFrame
<1>7. CASE Proceed
  <2>1. CASE \E d \in Description : DescribeOffer(d)
    BY <2>1, <1>6 DEF DescribeOffer, EngineInv, SessionTypeOK
  <2>2. CASE SignOffer \/ SignAnswer \/ QueueSignal \/ CallFails
    BY <2>2, <1>6 DEF SignOffer, SignAnswer, QueueSignal, CallFails, Does
  <2>3. CASE Flush \/ FlushOne
    BY <2>3, <1>6 DEF Flush, Flushing, FlushOne
  <2>4. CASE FlushEnds
    BY <2>4, <1>6, CallShape DEF FlushEnds, Does, EngineInv, SessionTypeOK
  <2>5. CASE AddCandidate \/ DeliverAccepted
    BY <2>5, <1>6 DEF AddCandidate, DeliverAccepted, Does
  <2>6. CASE ApplyClose \/ ReportClosed \/ ShutEngine
    BY <2>6, <1>6 DEF ApplyClose, ReportClosed, ShutEngine, Does, EngineInv, SessionTypeOK
  <2>7. QED
    BY <1>4, <1>7, <2>1, <2>2, <2>3, <2>4, <2>5, <2>6 DEF Proceed
<1>8. CASE Application
  <2>1. CASE \E k \in Channel : CallBeginOffer(k)
    BY <2>1, <1>6 DEF CallBeginOffer, Does
  <2>2. CASE (\E d \in Description : CallAnswer(d)) \/ CallClose
    BY <2>2, <1>6 DEF CallAnswer, CallClose, EngineInv, SessionTypeOK
  <2>3. CASE \E p \in Payload : SendCfr(p)
    BY <2>3, <1>6 DEF SendCfr, sessionVars
  <2>4. CASE TakeSignal \/ TryTakeEvent \/ CallBeginClose
    BY <2>4, <1>6 DEF TakeSignal, Flushing, TryTakeEvent, CallBeginClose
  <2>5. QED
    BY <1>5, <1>8, <2>1, <2>2, <2>3, <2>4 DEF Application
<1>9. CASE CallbackProceeds
  BY <1>9, <1>6 DEF CallbackProceeds, StageCandidate, ReportFailed
<1>10. CASE EngineEvent
  BY <1>10, <1>6 DEF EngineEvent, OnIceCandidate, OnConnectionFailed, OnDataChannel
<1>11. ASSUME NEW k \in Channel, PumpProceeds(k) \/ PumpEvent(k)
       PROVE  ApplyingFits' /\ EngineMatchesNegotiation'
  BY <1>11, <1>6 DEF PumpProceeds, ReportConnected, PumpDeliver, PumpReportsFailed,
     PumpEvent, PumpOpen, PumpEnds, PumpClosed, PumpMessage
<1>12. QED
  BY <1>3, <1>7, <1>8, <1>9, <1>10, <1>11 DEF SessionNext

\* The engine is never configured with a description other than the one the core
\* negotiated, for every peer, interleaving and failed call.
THEOREM EngineSafe == SessionSpec => []EngineMatchesNegotiation
BY EngineInit, EngineNext, PTL DEF SessionSpec, EngineInv

-----------------------------------------------------------------------------
(* Counting. *)

LEMMA WaysType == \A b \in BOOLEAN : Ways(b) \in {0, 1}
BY DEF Ways

LEMMA Positions ==
    ASSUME NEW S, NEW s \in Seq(S), NEW T
    PROVE  IsFiniteSet(Where(s, T)) /\ Count(s, T) \in Nat
<1>1. DOMAIN s = 1..Len(s) /\ Len(s) \in Nat
  OBVIOUS
<1>2. IsFiniteSet(DOMAIN s)
  BY <1>1, FS_Interval
<1>3. Where(s, T) \in SUBSET (DOMAIN s)
  BY DEF Where
<1>4. IsFiniteSet(Where(s, T))
  BY <1>2, <1>3, FS_Subset
<1>5. QED
  BY <1>4, FS_CardinalityType DEF Count

\* Nothing is counted where nothing is.
LEMMA CountZero ==
    ASSUME NEW S, NEW s \in Seq(S), NEW T
    PROVE  Count(s, T) = 0 <=> \A i \in DOMAIN s : s[i] \notin T
<1>1. Count(s, T) = 0 <=> Where(s, T) = {}
  BY Positions, FS_EmptySet DEF Count
<1>2. QED
  BY <1>1 DEF Where

LEMMA CountEmpty == \A T : Count(<<>>, T) = 0
<1> SUFFICES ASSUME NEW T PROVE Count(<<>>, T) = 0
  OBVIOUS
<1>1. Where(<<>>, T) = {}
  BY DEF Where
<1>2. QED
  BY <1>1, FS_EmptySet DEF Count

LEMMA CountAppend ==
    ASSUME NEW S, NEW s \in Seq(S), NEW x \in S, NEW T
    PROVE  Count(Append(s, x), T) = Count(s, T) + Ways(x \in T)
<1> DEFINE t == Append(s, x)
           n == Len(s) + 1
<1>1. /\ DOMAIN s = 1..Len(s) /\ Len(s) \in Nat /\ DOMAIN t = 1..n
      /\ t[n] = x /\ \A i \in 1..Len(s) : t[i] = s[i]
  OBVIOUS
<1>2. IsFiniteSet(Where(s, T)) /\ Cardinality(Where(s, T)) \in Nat
  BY Positions DEF Count
<1>3. n \notin Where(s, T)
  BY <1>1 DEF Where
<1>4. CASE x \in T
  <2>1. Where(t, T) = Where(s, T) \cup {n}
    BY <1>1, <1>4 DEF Where
  <2>2. Cardinality(Where(t, T)) = Cardinality(Where(s, T)) + 1
    BY <2>1, <1>2, <1>3, FS_AddElement
  <2>3. QED
    BY <2>2, <1>4 DEF Count, Ways
<1>5. CASE x \notin T
  <2>1. Where(t, T) = Where(s, T)
    BY <1>1, <1>5 DEF Where
  <2>2. QED
    BY <2>1, <1>2, <1>5 DEF Count, Ways
<1>6. QED
  BY <1>4, <1>5

LEMMA CountTail ==
    ASSUME NEW S, NEW s \in Seq(S), s # <<>>, NEW T
    PROVE  Count(s, T) = Ways(Head(s) \in T) + Count(Tail(s), T)
<1> DEFINE t == Tail(s)
<1>1. /\ DOMAIN s = 1..Len(s) /\ Len(s) \in Nat \ {0} /\ t \in Seq(S)
      /\ DOMAIN t = 1..(Len(s) - 1) /\ Head(s) = s[1]
      /\ \A i \in 1..(Len(s) - 1) : t[i] = s[i + 1]
  OBVIOUS
<1>2. PICK A : A = Where(s, T) \ {1}
  OBVIOUS
<1>3. PICK B : B = Where(t, T)
  OBVIOUS
<1>4. /\ IsFiniteSet(Where(s, T)) /\ Cardinality(Where(s, T)) \in Nat
      /\ IsFiniteSet(B) /\ Cardinality(B) \in Nat
  BY <1>1, <1>3, Positions DEF Count
<1>5. IsFiniteSet(A) /\ Cardinality(A) = IF 1 \in Where(s, T)
                                         THEN Cardinality(Where(s, T)) - 1
                                         ELSE Cardinality(Where(s, T))
  BY <1>2, <1>4, FS_RemoveElement
<1>6. Cardinality(B) = Cardinality(A)
  <2>1. \A i \in A : i \in Nat /\ i - 1 \in B
    BY <1>1, <1>2, <1>3 DEF Where
  <2>2. \A k \in B : k \in Nat /\ k + 1 \in A
    BY <1>1, <1>2, <1>3 DEF Where
  <2>3. PICK f : f = [i \in A |-> i - 1]
    OBVIOUS
  <2>4. f \in [A -> B]
    BY <2>1, <2>3
  <2>5. \A i, k \in A : f[i] = f[k] => i = k
    BY <2>1, <2>3
  <2>6. \A k \in B : \E i \in A : f[i] = k
    BY <2>2, <2>3
  <2>7. f \in Injection(A, B)
    BY <2>4, <2>5 DEF Injection, IsInjective
  <2>8. f \in Surjection(A, B)
    BY <2>4, <2>6 DEF Surjection
  <2>9. f \in Bijection(A, B)
    BY <2>7, <2>8 DEF Bijection
  <2>10. ExistsBijection(A, B)
    BY <2>9 DEF ExistsBijection
  <2>11. QED
    BY <2>10, <1>5, FS_Bijection
<1>7. 1 \in Where(s, T) <=> Head(s) \in T
  BY <1>1 DEF Where
<1>8. QED
  BY <1>3, <1>4, <1>5, <1>6, <1>7 DEF Count, Ways

-----------------------------------------------------------------------------
(* What a step of a session does to the core. *)

\* Steps that sign nothing, or something that no queue has to carry.
Silent ==
    /\ signed \subseteq signed'
    /\ \A e \in signed' \ signed :
         \/ e.body.kind = "CfrControl"
         \/ e.body.kind = "Close" /\ e \in taken'
    /\ phase'[Self] \in {"Idle", "OfferReceived"} => phase[Self] \in {"Idle", "OfferReceived"}

LEMMA SilentCore == ASSUME UNCHANGED coreVars PROVE Silent
BY DEF Silent, coreVars, vars

LEMMA SilentReceive ==
    ASSUME SessionTypeOK, NEW e, Receive(Self, e) PROVE Silent
BY SelfFields
   DEF Silent, Receive, ReceiveOffer, ReceiveAnswer, ReceiveCandidate, ReceiveClose,
       ReceiveCfrControl, Accept, SessionTypeOK, TypeOK

LEMMA SilentConnected ==
    ASSUME SessionTypeOK, TransportConnected(Self) PROVE Silent
BY SelfFields DEF Silent, TransportConnected, SessionTypeOK, TypeOK

LEMMA SilentCfr ==
    ASSUME NEW x, SendCfrControl(Self, Self.local, x) PROVE Silent
BY DEF Silent, SendCfrControl, Sign

LEMMA SilentClose ==
    ASSUME SessionTypeOK, Close(Self, Self.local),
           Sign(Self, Self.local, [kind |-> "Close"]) \in taken'
    PROVE  Silent
BY SelfFields DEF Silent, Close, Sign, SessionTypeOK, TypeOK

\* The call that is about to queue its signal is not disturbed.
SendingKept ==
    /\ app'.op = "sending" <=> app.op = "sending"
    /\ app.op = "sending" => app'.envelope = app.envelope

\* A step that moves no signal and no candidate.
Quiet ==
    /\ Silent
    /\ SendingKept
    /\ UNCHANGED <<queue, staged, sequence>>
    /\ taken \subseteq taken'
    /\ Unflushed' = Unflushed
    /\ callback'.op = "staging" <=> callback.op = "staging"
    /\ callback.op = "staging" => callback'.candidate = callback.candidate

\* The steps that move one.
Moving ==
    \/ SignOffer \/ SignAnswer \/ QueueSignal \/ CallFails
    \/ Flush \/ FlushOne \/ TakeSignal
    \/ OnIceCandidate \/ StageCandidate

LEMMA QuietOrMoving ==
    ASSUME SessionTypeOK, [SessionNext]_allVars
    PROVE  Quiet \/ Moving
<1> USE DEF Quiet, SendingKept, Unflushed, Does, queues, reports
<1>1. CASE UNCHANGED allVars
  BY <1>1, SilentCore DEF allVars, sessionVars, coreVars
<1>2. CASE Proceed
  <2>1. ASSUME NEW d \in Description, DescribeOffer(d)
        PROVE  Quiet
    BY <2>1, SilentCore DEF DescribeOffer
  <2>2. CASE FlushEnds
    <3>1. /\ app.op = "flushing" /\ app.list = <<>> /\ app'.op \in {"idle", "take"}
          /\ UNCHANGED <<coreVars, queues, callback>>
      BY <2>2, CallShape DEF FlushEnds, SessionTypeOK
    <3>2. QED
      BY <3>1, SilentCore
  <2>3. CASE \/ ApplyDescription \/ AddCandidate \/ DeliverAccepted
             \/ ApplyClose \/ ReportClosed \/ ShutEngine
    BY <2>3, SilentCore
       DEF ApplyDescription, AddCandidate, DeliverAccepted, ApplyClose, ReportClosed, ShutEngine
  <2>4. QED
    BY <1>2, <2>1, <2>2, <2>3 DEF Proceed, Moving
<1>3. CASE Application
  <2>1. ASSUME NEW k \in Channel, CallBeginOffer(k)
        PROVE  Quiet
    BY <2>1, SilentCore DEF CallBeginOffer, Idle
  <2>2. ASSUME NEW d \in Description, CallAnswer(d)
        PROVE  Quiet
    BY <2>2, SilentCore DEF CallAnswer, Idle
  <2>3. ASSUME NEW e \in Inbound, AcceptSignal(e)
        PROVE  Quiet
    BY <2>3, SilentReceive DEF AcceptSignal, Idle
  <2>4. ASSUME NEW x \in Payload, SendCfr(x)
        PROVE  Quiet
    BY <2>4, SilentCfr DEF SendCfr, sessionVars
  <2>5. CASE TryTakeEvent \/ CallClose
    BY <2>5, SilentCore DEF TryTakeEvent, CallClose
  <2>6. CASE CallBeginClose
    <3>1. Silent
      BY <2>6, SilentClose DEF CallBeginClose
    <3>2. QED
      BY <2>6, <3>1 DEF CallBeginClose
  <2>7. QED
    BY <1>3, <2>1, <2>2, <2>3, <2>4, <2>5, <2>6 DEF Application, Moving
<1>4. CASE CallbackProceeds
  BY <1>4, SilentCore DEF CallbackProceeds, ReportFailed, Moving
<1>5. CASE EngineEvent
  <2>1. CASE OnConnectionFailed
    BY <2>1, SilentCore DEF OnConnectionFailed
  <2>2. ASSUME NEW k \in Channel, OnDataChannel(k)
        PROVE  Quiet
    BY <2>2, SilentCore DEF OnDataChannel
  <2>3. QED
    BY <1>5, <2>1, <2>2 DEF EngineEvent, Moving
<1>6. ASSUME NEW k \in Channel, PumpProceeds(k)
      PROVE  Quiet
  BY <1>6, SilentCore DEF PumpProceeds, ReportConnected, PumpDeliver, PumpReportsFailed
<1>7. ASSUME NEW k \in Channel, PumpEvent(k)
      PROVE  Quiet
  <2>1. CASE PumpOpen(k)
    BY <2>1, SilentConnected DEF PumpOpen
  <2>2. CASE PumpEnds(k) \/ PumpClosed(k)
    BY <2>2, SilentCore DEF PumpEnds, PumpClosed
  <2>3. ASSUME NEW e \in Inbound, PumpMessage(k, e)
        PROVE  Quiet
    BY <2>3, SilentReceive DEF PumpMessage
  <2>4. QED
    BY <1>7, <2>1, <2>2, <2>3 DEF PumpEvent
<1>8. QED
  BY <1>1, <1>2, <1>3, <1>4, <1>5, <1>6, <1>7 DEF SessionNext

-----------------------------------------------------------------------------
(* No signal is lost. *)

SignalInv == SessionTypeOK /\ Conserved /\ NoSignalLost

LEMMA Sizes ==
    ASSUME SessionTypeOK
    PROVE  /\ Len(queue) \in Nat /\ Len(staged) \in Nat /\ sequence \in Nat
           /\ Unflushed \in Seq(Candidate) /\ Len(Unflushed) \in Nat
           /\ Ways(callback.op = "staging") \in {0, 1}
           /\ Ways(app.op = "sending") \in {0, 1}
           /\ Ways(Described) \in {0, 1}
<1>1. Unflushed \in Seq(Candidate)
  BY CallShape DEF SessionTypeOK, Unflushed
<1>2. QED
  BY <1>1 DEF SessionTypeOK, Ways

LEMMA SignalInit == SessionInit => SignalInv
<1> SUFFICES ASSUME SessionInit PROVE SignalInv
  OBVIOUS
<1>1. SessionTypeOK
  BY SessionTypeInit
<1>2. signed = {} /\ ~ Described
  BY DEF SessionInit, Init, Described
<1>3. Len(queue) = 0 /\ Len(staged) = 0 /\ Len(Unflushed) = 0 /\ sequence = 0
  BY DEF SessionInit, Unflushed, Does
<1>4. app.op = "idle" /\ callback.op = "idle"
  BY DEF SessionInit, Does
<1>5. Conserved
  BY <1>2, <1>3, <1>4 DEF Conserved, Pending, Ways
<1>6. QED
  BY <1>1, <1>2, <1>5 DEF SignalInv, NoSignalLost

LEMMA SignalFrame ==
    ASSUME SignalInv, SessionTypeOK', Quiet
    PROVE  SignalInv'
<1> USE DEF Quiet, SendingKept
<1>1. Described' <=> Described
  BY DEF Described, Silent
<1>2. Conserved'
  <2>1. /\ Ways(callback'.op = "staging") = Ways(callback.op = "staging")
        /\ Ways(app'.op = "sending") = Ways(app.op = "sending")
        /\ Ways(Described') = Ways(Described)
    BY <1>1 DEF Ways
  <2>2. Pending' = Pending
    BY <2>1 DEF Pending
  <2>3. QED
    BY <1>1, <2>1, <2>2 DEF SignalInv, Conserved, Silent
<1>3. NoSignalLost'
  BY DEF SignalInv, NoSignalLost, Silent
<1>4. QED
  BY <1>2, <1>3 DEF SignalInv

\* What an application of Connection::candidate leaves behind.
LEMMA EmitCandidateFacts ==
    ASSUME SessionTypeOK, NEW x \in Candidate, EmitCandidate(x)
    PROVE  /\ signed' = signed \cup {CandidateSignal(x)}
           /\ UNCHANGED <<phase, negotiation, applied>>
           /\ CandidateSignal(x) \in Envelope
           /\ CandidateSignal(x).body.kind = "Candidate"
           /\ CandidateSignal(x).body.candidate = x
           /\ queue' = TrySend(queue, CandidateSignal(x))
<1>1. Parent(Self) \in Offers \cup Answers
  BY SelfFields DEF EmitCandidate, SendCandidate, Parent, SessionTypeOK, TypeOK
<1>2. CandidateSignal(x) \in Envelope
  BY <1>1, SelfFields, SignShape DEF CandidateSignal, Envelope
<1>3. QED
  BY <1>2 DEF EmitCandidate, SendCandidate, CandidateSignal, Sign

LEMMA PendingType == SessionTypeOK => Pending \in Nat
<1> SUFFICES ASSUME SessionTypeOK PROVE Pending \in Nat
  OBVIOUS
<1>1. Len(staged) \in Nat /\ Len(Unflushed) \in Nat
  BY Sizes
<1>2. Ways(callback.op = "staging") \in Nat
  BY DEF Ways
<1>3. QED
  BY <1>1, <1>2 DEF Pending

LEMMA PendingTypeNext == SessionTypeOK' => (Pending \in Nat)'
BY PendingType, PTL

\* Of q signals queued, a being queued and p waiting, x become signals and r still wait.
LEMMA Exchange ==
    ASSUME NEW q \in Nat, NEW p \in Nat, NEW r \in Nat, NEW m \in Nat, NEW n \in Nat,
           NEW d \in {0, 1}, NEW a \in {0, 1}, NEW x \in {0, 1}, p <= m,
           q + a + p <= m + d, r + m + x <= p + n
    PROVE  q + a + r + x <= n + d /\ r <= n
OBVIOUS

\* The elements of a longer and of a shorter sequence.
LEMMA AppendFacts ==
    ASSUME NEW S, NEW s \in Seq(S), NEW x \in S
    PROVE  /\ Len(Append(s, x)) = Len(s) + 1
           /\ \A i \in DOMAIN s : i \in DOMAIN Append(s, x) /\ Append(s, x)[i] = s[i]
           /\ Len(s) + 1 \in DOMAIN Append(s, x) /\ Append(s, x)[Len(s) + 1] = x
           /\ \A i \in DOMAIN Append(s, x) : i \in DOMAIN s \/ i = Len(s) + 1
OBVIOUS

LEMMA TailFacts ==
    ASSUME NEW S, NEW s \in Seq(S), s # <<>>
    PROVE  /\ Len(s) \in Nat \ {0} /\ Len(Tail(s)) = Len(s) - 1
           /\ \A i \in DOMAIN s : s[i] = Head(s) \/ \E k \in DOMAIN Tail(s) : Tail(s)[k] = s[i]
<1>1. /\ DOMAIN s = 1..Len(s) /\ Len(s) \in Nat \ {0} /\ Head(s) = s[1]
      /\ Len(Tail(s)) = Len(s) - 1 /\ DOMAIN Tail(s) = 1..(Len(s) - 1)
      /\ \A k \in 1..(Len(s) - 1) : Tail(s)[k] = s[k + 1]
  OBVIOUS
<1>2. ASSUME NEW i \in DOMAIN s, s[i] # Head(s)
      PROVE  \E k \in DOMAIN Tail(s) : Tail(s)[k] = s[i]
  <2>1. i \in Nat /\ i - 1 \in DOMAIN Tail(s) /\ (i - 1) + 1 = i
    BY <1>1, <1>2
  <2>2. Tail(s)[i - 1] = s[i]
    BY <2>1, <1>1
  <2>3. QED
    BY <2>1, <2>2
<1>3. QED
  BY <1>1, <1>2

\* Candidates that left the waiting ones, and x more signals, have room among those
\* that were gathered.
LEMMA Room ==
    ASSUME SignalInv, SessionTypeOK', NEW x \in {0, 1}, NEW q \in Nat, q = Len(queue) + x,
           SendingKept, Pending' + sequence + x <= Pending + sequence',
           Described' <=> Described
    PROVE  /\ Pending' <= sequence'
           /\ q + Ways(app'.op = "sending") + Pending' <= sequence' + Ways(Described')
           /\ x = 1 /\ sequence' < SignalCapacity => Len(queue) < SignalCapacity
<1>1. /\ Len(queue) \in Nat /\ sequence \in Nat /\ sequence' \in Nat
      /\ SignalCapacity \in Nat
  BY CapacityAssumption DEF SignalInv, SessionTypeOK
<1>2. Pending \in Nat /\ Pending' \in Nat
  BY PendingType, PendingTypeNext DEF SignalInv
<1>3. PICK d \in {0, 1} : d = Ways(Described) /\ d = Ways(Described')
  BY DEF Ways
<1>4. PICK a \in {0, 1} : a = Ways(app.op = "sending") /\ a = Ways(app'.op = "sending")
  BY DEF Ways, SendingKept
<1>5. Len(queue) + a + Pending <= sequence + d /\ Pending <= sequence
  BY <1>3, <1>4 DEF SignalInv, Conserved
<1>6. Len(queue) + a + Pending' + x <= sequence' + d /\ Pending' <= sequence'
  <2>1. PICK p \in Nat, r \in Nat : p = Pending /\ r = Pending'
    BY <1>2
  <2>2. PICK m \in Nat, n \in Nat : m = sequence /\ n = sequence'
    BY <1>1
  <2>3. PICK l \in Nat : l = Len(queue)
    BY <1>1
  <2>4. r + m + x <= p + n
    BY <2>1, <2>2
  <2>5. l + a + p <= m + d /\ p <= m
    BY <2>1, <2>2, <2>3, <1>5
  <2>6. l + a + r + x <= n + d /\ r <= n
    BY <2>4, <2>5, Exchange
  <2>7. QED
    BY <2>1, <2>2, <2>3, <2>6
<1>7. q + a + Pending' <= sequence' + d
  BY <1>1, <1>2, <1>6
<1>8. x = 1 /\ sequence' < SignalCapacity => Len(queue) < SignalCapacity
  BY <1>1, <1>2, <1>6
<1>9. QED
  BY <1>3, <1>4, <1>6, <1>7, <1>8

\* The signal of a candidate that left the waiting ones is queued, or there is no room.
LEMMA SignalEmit ==
    ASSUME SignalInv, SessionTypeOK', NEW x \in Candidate, EmitCandidate(x),
           taken' = taken, SendingKept, sequence <= sequence',
           Pending' + sequence + 1 <= Pending + sequence'
    PROVE  SignalInv'
<1>1. PICK e : e = CandidateSignal(x)
  OBVIOUS
<1>2. /\ signed' = signed \cup {e} /\ phase' = phase /\ e \in Envelope
      /\ e.body.kind = "Candidate" /\ queue' = TrySend(queue, e)
  BY <1>1, EmitCandidateFacts DEF SignalInv
<1>3. Described' <=> Described
  BY <1>2 DEF Described
<1>4. queue \in Seq(Envelope) /\ Len(queue) \in Nat /\ Len(queue) + 1 \in Nat
  BY DEF SignalInv, SessionTypeOK
<1>5. /\ Pending' <= sequence'
      /\ (Len(queue) + 1) + Ways(app'.op = "sending") + Pending' <= sequence' + Ways(Described')
      /\ sequence' < SignalCapacity => Len(queue) < SignalCapacity
  BY <1>3, <1>4, Room
<1>6. Conserved'
  <2>1. PICK d \in {0, 1} : d = Ways(Described')
    BY DEF Ways
  <2>2. PICK a \in {0, 1} : a = Ways(app'.op = "sending")
    BY DEF Ways
  <2>3. Pending' \in Nat /\ sequence' \in Nat
    BY PendingTypeNext DEF SessionTypeOK
  <2>4. Len(queue') \in Nat /\ Len(queue') <= Len(queue) + 1
    BY <1>2, <1>4 DEF TrySend
  <2>5. Len(queue') + a + Pending' <= sequence' + d
    BY <2>1, <2>2, <2>3, <2>4, <1>4, <1>5
  <2>6. QED
    BY <2>1, <2>2, <2>5, <1>2, <1>3, <1>5 DEF SignalInv, Conserved
<1>7. NoSignalLost'
  <2> SUFFICES ASSUME sequence' < SignalCapacity, NEW z \in signed'
               PROVE  \/ z.body.kind = "CfrControl"
                      \/ z \in taken
                      \/ \E i \in DOMAIN queue' : queue'[i] = z
                      \/ app'.op = "sending" /\ app'.envelope = z
    BY DEF NoSignalLost
  <2>1. sequence < SignalCapacity
    BY CapacityAssumption DEF SignalInv, SessionTypeOK
  <2>2. queue' = Append(queue, e)
    BY <1>2, <1>5 DEF TrySend, HasRoom
  <2>3. /\ \A i \in DOMAIN queue : i \in DOMAIN queue' /\ queue'[i] = queue[i]
        /\ Len(queue) + 1 \in DOMAIN queue' /\ queue'[Len(queue) + 1] = e
    <3>1. e \in Envelope /\ queue \in Seq(Envelope)
      BY <1>2, <1>4
    <3>2. QED
      BY <2>2, <3>1
  <2>4. CASE z = e
    BY <2>3, <2>4
  <2>5. CASE z \in signed
    BY <2>1, <2>3, <2>5 DEF SignalInv, NoSignalLost, SendingKept
  <2>6. QED
    BY <2>4, <2>5, <1>2
<1>8. QED
  BY <1>6, <1>7 DEF SignalInv

\* begin_offer or answer signs: the session's first and only description.
LEMMA SignalDescribe ==
    ASSUME SignalInv, SessionTypeOK', NEW e, signed' = signed \cup {e},
           e.body.kind \in {"Offer", "Answer"},
           phase[Self] \in {"Idle", "OfferReceived"},
           phase'[Self] \notin {"Idle", "OfferReceived"},
           app.op = "described", app' = [op |-> "sending", envelope |-> e],
           UNCHANGED <<queues, callback>>
    PROVE  SignalInv'
<1>1. Described' /\ ~ Described
  BY DEF SignalInv, Conserved, Described
<1>2. /\ Ways(Described') = 1 /\ Ways(Described) = 0
      /\ Ways(app.op = "sending") = 0 /\ Ways(app'.op = "sending") = 1
  BY <1>1 DEF Ways
<1>3. Unflushed' = Unflushed /\ UNCHANGED <<queue, taken, staged, sequence>>
  BY DEF Unflushed, queues
<1>4. Pending' = Pending
  BY <1>3 DEF Pending
<1>5. Len(queue) \in Nat /\ sequence \in Nat /\ Pending \in Nat
  BY Sizes, PendingType DEF SignalInv
<1>6. Len(queue) + 0 + Pending <= sequence + 0 /\ Pending <= sequence
  BY <1>2 DEF SignalInv, Conserved
<1>7. Len(queue') + 1 + Pending' <= sequence' + 1 /\ Pending' <= sequence'
  BY <1>3, <1>4, <1>5, <1>6
<1>8. Conserved'
  BY <1>1, <1>2, <1>7 DEF Conserved
<1>9. NoSignalLost'
  BY <1>3 DEF SignalInv, NoSignalLost
<1>10. QED
  BY <1>8, <1>9 DEF SignalInv

LEMMA SignalQueue == ASSUME SignalInv, SessionTypeOK', QueueSignal PROVE SignalInv'
<1>1. /\ app.op = "sending" /\ app'.op = "flush" /\ queue' = Append(queue, app.envelope)
      /\ UNCHANGED <<signed, phase, taken, staged, sequence, callback>>
  BY DEF QueueSignal, Does, coreVars, vars
<1>2. app.envelope \in Envelope /\ queue \in Seq(Envelope)
  BY <1>1, CallShape DEF SignalInv, SessionTypeOK, Envelope
<1>3. /\ Len(queue') = Len(queue) + 1 /\ Len(queue) \in Nat
      /\ \A i \in DOMAIN queue : i \in DOMAIN queue' /\ queue'[i] = queue[i]
      /\ Len(queue) + 1 \in DOMAIN queue' /\ queue'[Len(queue) + 1] = app.envelope
  BY <1>1, <1>2
<1>4. /\ Ways(app.op = "sending") = 1 /\ Ways(app'.op = "sending") = 0
      /\ (Described' <=> Described) /\ Ways(Described') = Ways(Described)
      /\ Pending' = Pending /\ Pending \in Nat /\ Ways(Described) \in {0, 1}
  BY <1>1, Sizes DEF Ways, Described, Pending, Unflushed, SignalInv
<1>5. Conserved'
  BY <1>1, <1>3, <1>4 DEF SignalInv, Conserved
<1>6. NoSignalLost'
  BY <1>1, <1>3 DEF SignalInv, NoSignalLost
<1>7. QED
  BY <1>5, <1>6 DEF SignalInv

\* The queue is full only when more candidates were gathered than it holds.
LEMMA SignalFails == ASSUME SignalInv, SessionTypeOK', CallFails PROVE SignalInv'
<1>1. /\ app.op \in {"offering", "described", "applying", "sending", "shutting"} /\ app'.op = "idle"
      /\ app.op = "sending" => ~ HasRoom(queue)
      /\ UNCHANGED <<signed, phase, queue, taken, staged, sequence, callback>>
  BY DEF CallFails, Does, coreVars, vars, queues
<1>2. Described' <=> Described
  BY <1>1 DEF Described
<1>3. Unflushed' = Unflushed
  BY <1>1 DEF Unflushed
<1>4. Pending' = Pending
  BY <1>1, <1>3 DEF Pending
<1>5. /\ Len(queue) \in Nat /\ sequence \in Nat /\ Pending \in Nat /\ SignalCapacity \in Nat
  BY Sizes, PendingType, CapacityAssumption DEF SignalInv
<1>6. PICK d \in {0, 1} : d = Ways(Described) /\ d = Ways(Described')
  BY <1>2 DEF Ways
<1>7. PICK n \in {0, 1} : n = Ways(app.op = "sending") /\ (app.op = "sending" => n = 1)
  BY DEF Ways
<1>8. Ways(app'.op = "sending") = 0
  BY <1>1 DEF Ways
<1>9. Len(queue) + n + Pending <= sequence + d
  BY <1>6, <1>7 DEF SignalInv, Conserved
<1>10. Conserved'
  <2>1. Len(queue) + 0 + Pending <= sequence + d
    BY <1>5, <1>9
  <2>2. QED
    BY <2>1, <1>1, <1>2, <1>4, <1>6, <1>8 DEF SignalInv, Conserved
<1>11. app.op = "sending" => ~ (sequence < SignalCapacity)
  <2>1. app.op = "sending" => ~ (Len(queue) < SignalCapacity)
    BY <1>1 DEF HasRoom
  <2>2. QED
    BY <2>1, <1>5, <1>7, <1>9
<1>12. NoSignalLost'
  BY <1>1, <1>11 DEF SignalInv, NoSignalLost
<1>13. QED
  BY <1>10, <1>12 DEF SignalInv

\* Candidates move between the places where they wait, and none is added.
LEMMA SignalMove ==
    ASSUME SignalInv, SessionTypeOK', UNCHANGED <<signed, phase, queue, taken>>,
           SendingKept, sequence <= sequence', Pending' + sequence <= Pending + sequence'
    PROVE  SignalInv'
<1>1. Described' <=> Described
  BY DEF Described
<1>2. Len(queue) \in Nat /\ Len(queue) + 0 = Len(queue)
  BY DEF SignalInv, SessionTypeOK
<1>3. Pending' + sequence + 0 <= Pending + sequence'
  <2>1. Pending \in Nat /\ Pending' \in Nat /\ sequence \in Nat /\ sequence' \in Nat
    BY PendingType, PendingTypeNext DEF SignalInv, SessionTypeOK
  <2>2. sequence + 0 = sequence /\ Pending' + sequence + 0 = Pending' + sequence
    BY <2>1
  <2>3. QED
    BY <2>2
<1>4. /\ Pending' <= sequence'
      /\ Len(queue) + Ways(app'.op = "sending") + Pending' <= sequence' + Ways(Described')
  BY <1>1, <1>2, <1>3, Room
<1>5. Conserved'
  BY <1>1, <1>4 DEF SignalInv, Conserved
<1>6. sequence' < SignalCapacity => sequence < SignalCapacity
  BY CapacityAssumption DEF SignalInv, SessionTypeOK
<1>7. NoSignalLost'
  BY <1>6 DEF SignalInv, NoSignalLost, SendingKept
<1>8. QED
  BY <1>5, <1>7 DEF SignalInv

LEMMA StageSize ==
    ASSUME NEW s \in Seq(Candidate), NEW x \in Candidate
    PROVE  /\ Len(Stage(s, x)) \in Nat /\ Len(Stage(s, x)) <= Len(s) + 1
           /\ Len(s) # MaxStaged => Stage(s, x) = Append(s, x)
<1>1. CASE Len(s) = MaxStaged
  <2>1. Tail(s) \in Seq(Candidate) /\ Len(Tail(s)) = Len(s) - 1
    BY <1>1, CapacityAssumption
  <2>2. QED
    BY <1>1, <2>1, CapacityAssumption DEF Stage
<1>2. CASE Len(s) # MaxStaged
  BY <1>2 DEF Stage
<1>3. QED
  BY <1>1, <1>2

\* Where the waiting candidates are before and after one of the steps that move them.
LEMMA PendingFlush ==
    ASSUME SessionTypeOK, app.op # "flushing", NEW next, app' = Flushing(next),
           staged' = <<>>, callback' = callback
    PROVE  Pending' = Pending
<1>1. Unflushed = <<>> /\ Unflushed' = staged
  BY DEF Unflushed, Flushing
<1>2. Len(staged') = 0 /\ Len(Unflushed) = 0 /\ Len(staged) \in Nat
  BY <1>1 DEF SessionTypeOK
<1>3. QED
  BY <1>1, <1>2 DEF Pending, Ways

LEMMA PendingFlushOne ==
    ASSUME SessionTypeOK, FlushOne
    PROVE  /\ Head(app.list) \in Candidate /\ app.list \in Seq(Candidate)
           /\ Len(Unflushed) \in Nat \ {0} /\ Unflushed = app.list
           /\ Unflushed' = Tail(app.list) /\ Len(Unflushed') = Len(Unflushed) - 1
<1>1. app.op = "flushing" /\ app.list # <<>> /\ app.list \in Seq(Candidate)
  BY CallShape DEF FlushOne, SessionTypeOK
<1>2. app'.op = "flushing" /\ app'.list = Tail(app.list)
  BY DEF FlushOne
<1>3. QED
  BY <1>1, <1>2 DEF Unflushed

LEMMA SignalFlush ==
    ASSUME SignalInv, SessionTypeOK', Flush
    PROVE  SignalInv'
<1>1. /\ app.op = "flush" /\ app' = Flushing("take") /\ app'.op = "flushing"
      /\ staged' = <<>> /\ callback' = callback
      /\ UNCHANGED <<signed, phase, queue, taken, sequence>>
  BY DEF Flush, Flushing, coreVars, vars
<1>2. Pending' = Pending /\ Pending \in Nat /\ sequence \in Nat
  BY <1>1, PendingFlush, PendingType DEF SignalInv, SessionTypeOK
<1>3. Pending' + sequence <= Pending + sequence' /\ sequence <= sequence'
  BY <1>1, <1>2
<1>4. QED
  BY <1>1, <1>3, SignalMove DEF SendingKept

LEMMA SignalTake ==
    ASSUME SignalInv, SessionTypeOK', TakeSignal
    PROVE  SignalInv'
<1>1. /\ app.op \in {"idle", "take"} /\ app' = Flushing("idle") /\ app'.op = "flushing"
      /\ staged' = <<>> /\ callback' = callback /\ queue # <<>> /\ queue' = Tail(queue)
      /\ taken' = taken \cup {Head(queue)}
      /\ UNCHANGED <<signed, phase, sequence>>
  BY DEF TakeSignal, Flushing, coreVars, vars
<1>2. Pending' = Pending /\ Pending \in Nat
  BY <1>1, PendingFlush, PendingType DEF SignalInv
<1>3. queue \in Seq(Envelope) /\ sequence \in Nat
  BY DEF SignalInv, SessionTypeOK
<1>4. /\ Len(queue) \in Nat \ {0} /\ Len(queue') = Len(queue) - 1
      /\ \A i \in DOMAIN queue : queue[i] = Head(queue)
                               \/ \E k \in DOMAIN queue' : queue'[k] = queue[i]
  BY <1>1, <1>3, TailFacts
<1>5. PICK d \in {0, 1} : d = Ways(Described) /\ d = Ways(Described')
  BY <1>1 DEF Ways, Described
<1>6. Ways(app.op = "sending") = 0 /\ Ways(app'.op = "sending") = 0
  BY <1>1 DEF Ways
<1>7. Conserved'
  <2>1. Len(queue) + 0 + Pending <= sequence + d
    BY <1>5, <1>6 DEF SignalInv, Conserved
  <2>2. Len(queue') + 0 + Pending' <= sequence' + d
    BY <2>1, <1>1, <1>2, <1>3, <1>4
  <2>3. Described' <=> Described
    BY <1>1 DEF Described
  <2>4. QED
    BY <2>2, <2>3, <1>1, <1>2, <1>5, <1>6 DEF SignalInv, Conserved
<1>8. NoSignalLost'
  <2> SUFFICES ASSUME sequence < SignalCapacity, NEW z \in signed
               PROVE  \/ z.body.kind = "CfrControl"
                      \/ z \in taken'
                      \/ \E i \in DOMAIN queue' : queue'[i] = z
    BY <1>1 DEF NoSignalLost
  <2>1. \/ z.body.kind = "CfrControl" \/ z \in taken \/ \E i \in DOMAIN queue : queue[i] = z
    BY <1>1 DEF SignalInv, NoSignalLost
  <2>2. QED
    BY <2>1, <1>1, <1>4
<1>9. QED
  BY <1>7, <1>8 DEF SignalInv

LEMMA SignalFlushOne ==
    ASSUME SignalInv, SessionTypeOK', FlushOne
    PROVE  SignalInv'
<1>1. /\ app.op = "flushing" /\ app'.op = "flushing" /\ callback' = callback
      /\ taken' = taken /\ sequence' = sequence
  BY DEF FlushOne
<1>2. SessionTypeOK
  BY DEF SignalInv
<1>3. PICK x \in Candidate : x = Head(app.list)
  BY <1>2, PendingFlushOne
<1>4. PICK u \in Nat : Len(Unflushed') = u /\ Len(Unflushed) = u + 1
  BY <1>2, PendingFlushOne
<1>5. PICK c \in {0, 1} : c = Ways(callback.op = "staging") /\ c = Ways(callback'.op = "staging")
  BY <1>1 DEF Ways
<1>6. Len(staged) \in Nat /\ sequence \in Nat /\ staged \in Seq(Candidate)
  BY <1>2 DEF SessionTypeOK
<1>7. Pending = Len(staged) + (u + 1) + c /\ Pending' = Len(staged') + u + c
  BY <1>4, <1>5 DEF Pending
<1>9. CASE EmitCandidate(x) /\ UNCHANGED staged
  <2>1. Pending' + 1 = Pending /\ Pending \in Nat /\ Pending' \in Nat
    BY <1>4, <1>5, <1>6, <1>7, <1>9
  <2>2. PICK p \in Nat, m \in Nat : p = Pending' /\ p + 1 = Pending /\ m = sequence /\ m = sequence'
    BY <2>1, <1>1, <1>6
  <2>3. p + m + 1 <= (p + 1) + m /\ m <= m
    OBVIOUS
  <2>4. Pending' + sequence + 1 <= Pending + sequence' /\ sequence <= sequence'
    BY <2>2, <2>3
  <2>5. QED
    BY <2>4, <1>1, <1>9, SignalEmit DEF SendingKept
<1>10. CASE staged' = Stage(staged, x) /\ UNCHANGED <<coreVars, queue>>
  <2>1. Len(staged') \in Nat /\ Len(staged') <= Len(staged) + 1
    BY <1>6, <1>10, StageSize
  <2>2. Pending' + sequence <= Pending + sequence' /\ sequence <= sequence'
    BY <2>1, <1>1, <1>4, <1>5, <1>6, <1>7
  <2>3. QED
    BY <2>2, <1>1, <1>10, SignalMove DEF coreVars, vars, SendingKept
<1>11. QED
  BY <1>3, <1>9, <1>10 DEF FlushOne

LEMMA SignalGather ==
    ASSUME SignalInv, SessionTypeOK', OnIceCandidate
    PROVE  SignalInv'
<1>1. /\ callback.op = "idle" /\ sequence \in Candidate /\ sequence' = sequence + 1
      /\ UNCHANGED <<taken, staged, app>>
  BY DEF OnIceCandidate
<1>2. SessionTypeOK /\ sequence \in Nat /\ Len(queue) \in Nat
  BY DEF SignalInv, SessionTypeOK
<1>3. PICK a \in Nat : a = Len(staged) + Len(Unflushed) /\ a = Len(staged') + Len(Unflushed')
  BY <1>1, <1>2, Sizes DEF Unflushed
<1>4. Pending = a
  BY <1>1, <1>3 DEF Pending, Ways
<1>5. CASE EmitCandidate(sequence) /\ UNCHANGED callback
  <2>1. Pending' = a
    BY <1>1, <1>3, <1>5 DEF Pending, Ways
  <2>2. Pending' + sequence + 1 <= Pending + sequence' /\ sequence <= sequence'
    BY <2>1, <1>1, <1>2, <1>3, <1>4
  <2>3. QED
    BY <2>2, <1>1, <1>5, SignalEmit DEF SendingKept
<1>6. CASE callback'.op = "staging" /\ UNCHANGED <<coreVars, queue>>
  <2>1. Pending' = a + 1
    BY <1>3, <1>6 DEF Pending, Ways
  <2>2. Pending' + sequence <= Pending + sequence' /\ sequence <= sequence'
    BY <2>1, <1>1, <1>2, <1>3, <1>4
  <2>3. QED
    BY <2>2, <1>1, <1>6, SignalMove DEF SendingKept, coreVars, vars
<1>7. QED
  BY <1>1, <1>5, <1>6 DEF OnIceCandidate

LEMMA SignalStage ==
    ASSUME SignalInv, SessionTypeOK', StageCandidate
    PROVE  SignalInv'
<1>1. /\ callback.op = "staging" /\ callback'.op = "idle"
      /\ staged' = Stage(staged, callback.candidate)
      /\ UNCHANGED <<signed, phase, queue, taken, sequence, app>>
  BY DEF StageCandidate, Does, coreVars, vars
<1>2. SessionTypeOK /\ sequence \in Nat /\ Len(staged) \in Nat
  BY DEF SignalInv, SessionTypeOK
<1>3. Len(staged') \in Nat /\ Len(staged') <= Len(staged) + 1
  BY <1>1, <1>2, StageSize, CallbackShape DEF SessionTypeOK
<1>4. PICK u \in Nat : u = Len(Unflushed) /\ u = Len(Unflushed')
  BY <1>1, <1>2, Sizes DEF Unflushed
<1>5. Pending = Len(staged) + u + 1 /\ Pending' = Len(staged') + u + 0
  BY <1>1, <1>4 DEF Pending, Ways
<1>6. Pending' + sequence <= Pending + sequence' /\ sequence <= sequence'
  BY <1>1, <1>2, <1>3, <1>5
<1>7. QED
  BY <1>1, <1>6, SignalMove DEF SendingKept

LEMMA SignalSign ==
    ASSUME SignalInv, SessionTypeOK', SignOffer \/ SignAnswer
    PROVE  SignalInv'
<1>0. /\ Self \in Conn /\ phase \in [Conn -> Phase]
      /\ negotiation \in [Conn -> [offer : Offers \cup {NoId}, answer : Answers \cup {NoId}]]
  BY SelfFields DEF SignalInv, SessionTypeOK, TypeOK
<1>1. CASE SignOffer
  <2>1. PICK e : e = Sign(Self, Self.local, [kind |-> "Offer", description |-> app.description])
    OBVIOUS
  <2>2. /\ e.body.kind = "Offer" /\ signed' = signed \cup {e}
        /\ phase[Self] = "Idle" /\ phase'[Self] = "OfferSent"
        /\ negotiation'[Self].offer = e
    BY <1>0, <1>1, <2>1 DEF SignOffer, BeginOffer, Sign, Id
  <2>3. QED
    BY <1>1, <2>2, SignalDescribe DEF SignOffer
<1>2. CASE SignAnswer
  <2>1. PICK e : e = Sign(Self, Self.local, [kind |-> "Answer",
                          offer_id |-> negotiation[Self].offer, description |-> app.description])
    OBVIOUS
  <2>2. /\ e.body.kind = "Answer" /\ signed' = signed \cup {e}
        /\ phase[Self] = "OfferReceived" /\ phase'[Self] = "AnswerSent"
        /\ negotiation'[Self].answer = e
    BY <1>0, <1>2, <2>1 DEF SignAnswer, Answer, Sign, Id
  <2>3. QED
    BY <1>2, <2>2, SignalDescribe DEF SignAnswer
<1>3. QED
  BY <1>1, <1>2

LEMMA SignalNext == SignalInv /\ [SessionNext]_allVars => SignalInv'
<1> SUFFICES ASSUME SignalInv, [SessionNext]_allVars PROVE SignalInv'
  OBVIOUS
<1>1. SessionTypeOK /\ SessionTypeOK'
  BY SessionTypeNext DEF SignalInv
<1>2. Quiet \/ Moving
  BY <1>1, QuietOrMoving
<1>3. CASE Quiet
  BY <1>1, <1>3, SignalFrame
<1>4. CASE Moving
  BY <1>1, <1>4, SignalSign, SignalQueue, SignalFails, SignalFlush, SignalFlushOne,
     SignalTake, SignalGather, SignalStage DEF Moving
<1>5. QED
  BY <1>2, <1>3, <1>4

\* No signal is lost while fewer candidates were gathered than the signal queue holds,
\* for every capacity and every interleaving of callback, flush and call: each queued
\* signal is one gathered candidate or the one description of the session
\* (emit_or_stage_candidate, process_actions, try_take_signal).
THEOREM NoSignalLostSafe == SessionSpec => []NoSignalLost
BY SignalInit, SignalNext, PTL DEF SessionSpec, SignalInv

-----------------------------------------------------------------------------
(* Only finitely much has happened. *)

\* Two finite sets that agree but for one element.
LEMMA OneChange ==
    ASSUME NEW A, NEW B, NEW x, IsFiniteSet(A), B \ {x} = A \ {x}
    PROVE  /\ IsFiniteSet(B) /\ Cardinality(A) \in Nat /\ Cardinality(B) \in Nat
           /\ Cardinality(B) + Ways(x \in A) = Cardinality(A) + Ways(x \in B)
<1>1. PICK C : C = A \ {x} /\ C = B \ {x}
  OBVIOUS
<1>2. IsFiniteSet(C)
  BY <1>1, FS_RemoveElement
<1>3. PICK n \in Nat : n = Cardinality(C)
  BY <1>2, FS_CardinalityType
<1>4. ASSUME NEW D, D \ {x} = C
      PROVE  IsFiniteSet(D) /\ Cardinality(D) = n + Ways(x \in D)
  <2>1. CASE x \in D
    <3>1. D = C \cup {x} /\ x \notin C
      BY <2>1, <1>4
    <3>2. IsFiniteSet(D) /\ Cardinality(D) = n + 1
      BY <3>1, <1>2, <1>3, FS_AddElement
    <3>3. QED
      BY <2>1, <3>2 DEF Ways
  <2>2. CASE x \notin D
    <3>1. D = C
      BY <2>2, <1>4
    <3>2. Ways(x \in D) = 0
      BY <2>2 DEF Ways
    <3>3. QED
      BY <3>1, <3>2, <1>2, <1>3
  <2>3. QED
    BY <2>1, <2>2
<1>5. /\ IsFiniteSet(B) /\ Cardinality(B) = n + Ways(x \in B)
      /\ Cardinality(A) = n + Ways(x \in A)
  BY <1>1, <1>4
<1>6. Ways(x \in A) \in {0, 1} /\ Ways(x \in B) \in {0, 1}
  BY DEF Ways
<1>7. QED
  BY <1>5, <1>6

LEMMA OneMoreSigned ==
    ASSUME SessionTypeOK, [SessionNext]_allVars
    PROVE  signed' = signed \/ \E e : signed' = signed \cup {e}
<1>1. [Next]_vars
  BY CoreStepOrStutter
<1>2. CASE UNCHANGED vars
  BY <1>2 DEF vars
<1>3. ASSUME NEW c \in Conn, LocalStep(c)
      PROVE  signed' = signed \/ \E e : signed' = signed \cup {e}
  BY <1>3
     DEF LocalStep, BeginOffer, Answer, SendCandidate, SendCfrControl, Close,
         TransportConnected, TransportFailed
<1>4. ASSUME NEW c \in Conn, NEW e, Receive(c, e)
      PROVE  signed' = signed
  BY <1>4 DEF Receive, Accept
<1>5. QED
  BY <1>1, <1>2, <1>3, <1>4 DEF Next

\* A step of a session is a step of at most one pump.
LEMMA OnePump ==
    ASSUME [SessionNext]_allVars
    PROVE  pump' = pump \/ \E k \in Channel : \E x : pump' = [pump EXCEPT ![k] = x]
<1>1. CASE UNCHANGED allVars
  BY <1>1 DEF allVars, sessionVars
<1>2. CASE Proceed
  BY <1>2
     DEF Proceed, DescribeOffer, SignOffer, SignAnswer, QueueSignal, CallFails, Flush,
         FlushOne, FlushEnds, ApplyDescription, AddCandidate, DeliverAccepted, ApplyClose,
         ReportClosed, ShutEngine
<1>3. CASE Application
  BY <1>3
     DEF Application, CallBeginOffer, CallAnswer, AcceptSignal, SendCfr, TakeSignal,
         TryTakeEvent, CallBeginClose, CallClose, NewChannel, sessionVars
<1>4. CASE CallbackProceeds
  BY <1>4 DEF CallbackProceeds, StageCandidate, ReportFailed
<1>5. CASE EngineEvent
  BY <1>5 DEF EngineEvent, OnIceCandidate, OnConnectionFailed, OnDataChannel, NewChannel
<1>6. ASSUME NEW k \in Channel, PumpProceeds(k)
      PROVE  \E x : pump' = [pump EXCEPT ![k] = x]
  BY <1>6 DEF PumpProceeds, ReportConnected, PumpDeliver, PumpReportsFailed, Becomes
<1>7. ASSUME NEW k \in Channel, PumpEvent(k)
      PROVE  \E x : pump' = [pump EXCEPT ![k] = x]
  BY <1>7 DEF PumpEvent, PumpOpen, PumpEnds, PumpClosed, PumpMessage, Becomes
<1>8. QED
  BY <1>1, <1>2, <1>3, <1>4, <1>5, <1>6, <1>7 DEF SessionNext

FiniteInv == SessionTypeOK /\ Finite

\* Finitely many envelopes are signed and finitely many channels used.
LEMMA FiniteInit == SessionInit => FiniteInv
<1> SUFFICES ASSUME SessionInit PROVE FiniteInv
  OBVIOUS
<1>1. signed = {} /\ PumpsUsed = {}
  BY DEF SessionInit, Init, Does, PumpsUsed
<1>2. QED
  BY <1>1, SessionTypeInit, FS_EmptySet DEF FiniteInv, Finite

LEMMA FiniteNext == FiniteInv /\ [SessionNext]_allVars => FiniteInv'
<1> SUFFICES ASSUME FiniteInv, [SessionNext]_allVars PROVE FiniteInv'
  OBVIOUS
<1>1. SessionTypeOK /\ SessionTypeOK' /\ IsFiniteSet(signed) /\ IsFiniteSet(PumpsUsed)
  BY SessionTypeNext DEF FiniteInv, Finite
<1>2. IsFiniteSet(signed')
  <2>1. CASE signed' = signed
    BY <1>1, <2>1
  <2>2. ASSUME NEW e, signed' = signed \cup {e}
        PROVE  IsFiniteSet(signed')
    BY <1>1, <2>2, FS_AddElement
  <2>3. QED
    BY <1>1, <2>1, <2>2, OneMoreSigned
<1>3. IsFiniteSet(PumpsUsed')
  <2>1. CASE pump' = pump
    BY <1>1, <2>1 DEF PumpsUsed
  <2>2. ASSUME NEW k \in Channel, NEW x, pump' = [pump EXCEPT ![k] = x]
        PROVE  IsFiniteSet(PumpsUsed')
    <3>1. pump \in [Channel -> Pump]
      BY <1>1 DEF SessionTypeOK
    <3>2. PumpsUsed' \ {k} = PumpsUsed \ {k}
      BY <2>2, <3>1 DEF PumpsUsed
    <3>3. QED
      BY <3>2, <1>1, OneChange
  <2>3. QED
    BY <2>1, <2>2, OnePump
<1>4. QED
  BY <1>1, <1>2, <1>3 DEF FiniteInv, Finite

-----------------------------------------------------------------------------
(* A candidate is in one place. *)

PlaceInv == SignalInv /\ Finite /\ NotGatheredYet /\ CandidateInOnePlace

\* The numbers a candidate's places are counted in.
LEMMA PlacesParts ==
    SessionTypeOK /\ Finite =>
        \A k \in Candidate :
            /\ Ways(Staging(k)) \in Nat
            /\ Count(staged, {k}) \in Nat
            /\ Count(Unflushed, {k}) \in Nat
            /\ IsFiniteSet(SignedFor(k)) /\ Cardinality(SignedFor(k)) \in Nat
<1> SUFFICES ASSUME SessionTypeOK, Finite, NEW k \in Candidate
             PROVE  /\ Ways(Staging(k)) \in Nat
                    /\ Count(staged, {k}) \in Nat
                    /\ Count(Unflushed, {k}) \in Nat
                    /\ IsFiniteSet(SignedFor(k)) /\ Cardinality(SignedFor(k)) \in Nat
  OBVIOUS
<1>1. Ways(Staging(k)) \in Nat
  BY DEF Ways
<1>2. staged \in Seq(Candidate) /\ Unflushed \in Seq(Candidate)
  BY Sizes DEF SessionTypeOK
<1>3. Count(staged, {k}) \in Nat /\ Count(Unflushed, {k}) \in Nat
  BY <1>2, Positions
<1>4. SignedFor(k) \in SUBSET signed
  BY DEF SignedFor
<1>5. IsFiniteSet(SignedFor(k))
  BY <1>4, FS_Subset DEF Finite
<1>6. QED
  BY <1>1, <1>3, <1>5, FS_CardinalityType

LEMMA PlacesType == SessionTypeOK /\ Finite => \A k \in Candidate : Places(k) \in Nat
<1> SUFFICES ASSUME SessionTypeOK, Finite, NEW k \in Candidate PROVE Places(k) \in Nat
  OBVIOUS
<1>1. /\ Ways(Staging(k)) \in Nat /\ Count(staged, {k}) \in Nat
      /\ Count(Unflushed, {k}) \in Nat /\ Cardinality(SignedFor(k)) \in Nat
  BY PlacesParts
<1>2. QED
  BY <1>1 DEF Places

LEMMA PlacesTypeNext ==
    SessionTypeOK' /\ Finite' => (\A k \in Candidate : Places(k) \in Nat)'
BY PlacesType, PTL

LEMMA PlaceInit == SessionInit => PlaceInv
<1> SUFFICES ASSUME SessionInit PROVE PlaceInv
  OBVIOUS
<1>1. SignalInv /\ Finite
  BY SignalInit, FiniteInit DEF FiniteInv
<1>2. sequence = 0 /\ staged = <<>> /\ Unflushed = <<>> /\ signed = {} /\ callback.op = "idle"
  BY DEF SessionInit, Init, Unflushed, Does
<1>3. ASSUME NEW k \in Candidate PROVE Places(k) = 0
  <2>1. Count(staged, {k}) = 0 /\ Count(Unflushed, {k}) = 0
    BY <1>2, CountEmpty
  <2>2. SignedFor(k) = {}
    BY <1>2 DEF SignedFor
  <2>3. Ways(Staging(k)) = 0 /\ Cardinality(SignedFor(k)) = 0
    BY <1>2, <2>2, FS_EmptySet DEF Staging, Ways
  <2>4. QED
    BY <2>1, <2>3 DEF Places
<1>4. \A k \in Candidate : ~ (k < sequence)
  BY <1>2, CandidateAssumption
<1>5. QED
  BY <1>1, <1>3, <1>4 DEF PlaceInv, NotGatheredYet, CandidateInOnePlace

\* A step that gathers nothing and multiplies nothing.
LEMMA PlaceStep ==
    ASSUME PlaceInv, SignalInv', Finite', sequence' = sequence,
           \A k \in Candidate : Places(k)' <= Places(k),
           sequence <= MaxStaged => \A k \in Candidate : Places(k)' = Places(k)
    PROVE  PlaceInv'
<1>1. \A k \in Candidate : Places(k) \in Nat
  BY PlacesType DEF PlaceInv, SignalInv
<1>2. \A k \in Candidate : Places(k)' \in Nat
  BY PlacesTypeNext DEF SignalInv
<1>3. ASSUME NEW k \in Candidate, sequence' <= k PROVE Places(k)' = 0
  <2>1. Places(k) = 0 /\ Places(k)' <= Places(k) /\ Places(k)' \in Nat
    BY <1>2, <1>3 DEF PlaceInv, NotGatheredYet
  <2>2. QED
    BY <2>1
<1>4. ASSUME NEW k \in Candidate, k < sequence'
      PROVE  Places(k)' <= 1 /\ (sequence' <= MaxStaged => Places(k)' = 1)
  <2>1. /\ Places(k) <= 1 /\ (sequence <= MaxStaged => Places(k) = 1)
        /\ Places(k)' <= Places(k) /\ Places(k)' \in Nat /\ Places(k) \in Nat
    BY <1>1, <1>2, <1>4 DEF PlaceInv, CandidateInOnePlace
  <2>2. QED
    BY <2>1
<1>5. NotGatheredYet'
  BY <1>3 DEF NotGatheredYet
<1>6. CandidateInOnePlace'
  BY <1>4 DEF CandidateInOnePlace
<1>7. QED
  BY <1>5, <1>6 DEF PlaceInv

LEMMA PlaceKept ==
    ASSUME PlaceInv, SignalInv', Finite', sequence' = sequence,
           \A k \in Candidate : Places(k)' = Places(k)
    PROVE  PlaceInv'
<1>1. \A k \in Candidate : Places(k) \in Nat
  BY PlacesType DEF PlaceInv, SignalInv
<1>2. \A k \in Candidate : Places(k)' <= Places(k)
  BY <1>1
<1>3. QED
  BY <1>2, PlaceStep

LEMMA PlaceFrame ==
    ASSUME PlaceInv, SignalInv', Finite', UNCHANGED <<staged, sequence>>,
           Unflushed' = Unflushed,
           \A k \in Candidate : Staging(k)' <=> Staging(k),
           \A k \in Candidate : SignedFor(k)' = SignedFor(k)
    PROVE  PlaceInv'
<1>1. ASSUME NEW k \in Candidate PROVE Places(k)' = Places(k)
  <2>1. Ways(Staging(k)') = Ways(Staging(k))
    BY DEF Ways
  <2>2. QED
    BY <2>1 DEF Places
<1>2. QED
  BY <1>1, PlaceKept

LEMMA PlaceQuiet ==
    ASSUME PlaceInv, SignalInv', Finite', Quiet
    PROVE  PlaceInv'
<1>1. \A k \in Candidate : Staging(k)' <=> Staging(k)
  BY DEF Quiet, Staging
<1>2. \A k \in Candidate : SignedFor(k)' = SignedFor(k)
  BY DEF Quiet, Silent, SignedFor
<1>3. QED
  BY <1>1, <1>2, PlaceFrame DEF Quiet

LEMMA PlaceCalls ==
    ASSUME PlaceInv, SignalInv', Finite',
           SignOffer \/ SignAnswer \/ QueueSignal \/ CallFails
    PROVE  PlaceInv'
<1>1. /\ UNCHANGED <<staged, sequence, callback>>
      /\ app.op # "flushing" /\ app'.op # "flushing"
  BY DEF SignOffer, SignAnswer, QueueSignal, CallFails, queues, Does
<1>2. signed' = signed \/ \E e : signed' = signed \cup {e} /\ e.body.kind # "Candidate"
  BY DEF SignOffer, SignAnswer, QueueSignal, CallFails, BeginOffer, Answer, Sign, coreVars, vars
<1>3. \A k \in Candidate : SignedFor(k)' = SignedFor(k)
  BY <1>2 DEF SignedFor
<1>4. \A k \in Candidate : Staging(k)' <=> Staging(k)
  BY <1>1 DEF Staging
<1>5. Unflushed' = Unflushed
  BY <1>1 DEF Unflushed
<1>6. QED
  BY <1>1, <1>3, <1>4, <1>5, PlaceFrame

\* Flush and TakeSignal take the staged candidates all at once.
LEMMA PlaceFlush ==
    ASSUME PlaceInv, SignalInv', Finite', Flush \/ TakeSignal
    PROVE  PlaceInv'
<1>1. /\ staged' = <<>> /\ Unflushed = <<>> /\ Unflushed' = staged
      /\ UNCHANGED <<sequence, callback, signed>>
  BY DEF Flush, TakeSignal, Flushing, Unflushed, coreVars, vars
<1>2. ASSUME NEW k \in Candidate PROVE Places(k)' = Places(k)
  <2>1. Ways(Staging(k)') = Ways(Staging(k)) /\ SignedFor(k)' = SignedFor(k)
    BY <1>1 DEF Ways, Staging, SignedFor
  <2>2. Count(<<>>, {k}) = 0
    BY CountEmpty
  <2>3. PICK w \in Nat, c \in Nat, n \in Nat :
          w = Ways(Staging(k)) /\ c = Count(staged, {k}) /\ n = Cardinality(SignedFor(k))
    BY PlacesParts DEF PlaceInv, SignalInv
  <2>4. Places(k) = w + c + 0 + n
    BY <2>2, <2>3, <1>1 DEF Places
  <2>5. Places(k)' = w + 0 + c + n
    BY <2>1, <2>2, <2>3, <1>1 DEF Places
  <2>6. QED
    BY <2>4, <2>5
<1>3. QED
  BY <1>1, <1>2, PlaceKept

\* The first signature over a candidate.
LEMMA CandidateSigned ==
    ASSUME SessionTypeOK, Finite, NEW x \in Candidate, EmitCandidate(x),
           Cardinality(SignedFor(x)) = 0, NEW k \in Candidate
    PROVE  Cardinality(SignedFor(k)') = Cardinality(SignedFor(k)) + Ways(k = x)
<1>1. PICK e : e = CandidateSignal(x)
  OBVIOUS
<1>2. signed' = signed \cup {e} /\ e.body.kind = "Candidate" /\ e.body.candidate = x
  BY <1>1, EmitCandidateFacts
<1>3. \A y \in Candidate : IsFiniteSet(SignedFor(y)) /\ Cardinality(SignedFor(y)) \in Nat
  BY PlacesParts
<1>4. CASE k = x
  <2>1. SignedFor(k) = {}
    BY <1>3, <1>4, FS_EmptySet
  <2>2. SignedFor(k)' = SignedFor(k) \cup {e} /\ e \notin SignedFor(k)
    BY <1>2, <1>4, <2>1 DEF SignedFor
  <2>3. Cardinality(SignedFor(k) \cup {e}) = Cardinality(SignedFor(k)) + 1
    BY <2>2, <1>3, FS_AddElement
  <2>4. QED
    BY <2>2, <2>3, <1>4 DEF Ways
<1>5. CASE k # x
  <2>1. SignedFor(k)' = SignedFor(k)
    BY <1>2, <1>5 DEF SignedFor
  <2>2. Ways(k = x) = 0
    BY <1>5 DEF Ways
  <2>3. QED
    BY <2>1, <2>2, <1>3
<1>6. QED
  BY <1>4, <1>5

\* Staging one candidate adds it and may drop another.
LEMMA StageCount ==
    ASSUME NEW s \in Seq(Candidate), NEW x \in Candidate, NEW k \in Candidate
    PROVE  /\ Count(Stage(s, x), {k}) \in Nat /\ Count(s, {k}) \in Nat
           /\ Count(Stage(s, x), {k}) <= Count(s, {k}) + Ways(k = x)
           /\ Len(s) # MaxStaged => Count(Stage(s, x), {k}) = Count(s, {k}) + Ways(k = x)
<1>1. Ways(x \in {k}) = Ways(k = x) /\ Ways(k = x) \in {0, 1}
  BY DEF Ways
<1>2. Count(s, {k}) \in Nat
  BY Positions
<1>3. CASE Len(s) = MaxStaged
  <2>1. s # <<>> /\ Tail(s) \in Seq(Candidate)
    BY <1>3, CapacityAssumption
  <2>2. PICK t \in Seq(Candidate) : t = Tail(s)
    BY <2>1
  <2>3. Count(t, {k}) \in Nat
    BY Positions
  <2>4. PICK w \in {0, 1} : w = Ways(Head(s) \in {k})
    BY DEF Ways
  <2>5. Count(s, {k}) = w + Count(t, {k})
    BY <2>1, <2>2, <2>4, CountTail
  <2>6. Count(Append(t, x), {k}) = Count(t, {k}) + Ways(k = x)
    BY <1>1, CountAppend
  <2>7. Stage(s, x) = Append(t, x)
    BY <1>3, <2>2 DEF Stage
  <2>8. QED
    BY <1>1, <1>2, <1>3, <2>3, <2>4, <2>5, <2>6, <2>7
<1>4. CASE Len(s) # MaxStaged
  <2>1. Stage(s, x) = Append(s, x)
    BY <1>4 DEF Stage
  <2>2. Count(Append(s, x), {k}) = Count(s, {k}) + Ways(k = x)
    BY <1>1, CountAppend
  <2>3. QED
    BY <1>1, <1>2, <2>1, <2>2
<1>5. QED
  BY <1>3, <1>4

\* A candidate that waits was gathered, and is not signed.
LEMMA WaitingOnce ==
    ASSUME PlaceInv, NEW x \in Candidate, Staging(x) \/ Count(Unflushed, {x}) >= 1
    PROVE  Cardinality(SignedFor(x)) = 0
<1>1. PICK w \in Nat, c \in Nat, u \in Nat, n \in Nat :
        /\ w = Ways(Staging(x)) /\ c = Count(staged, {x})
        /\ u = Count(Unflushed, {x}) /\ n = Cardinality(SignedFor(x))
  BY PlacesParts DEF PlaceInv, SignalInv
<1>2. w >= 1 \/ u >= 1
  BY <1>1 DEF Ways
<1>3. Places(x) = w + c + u + n
  BY <1>1 DEF Places
<1>4. x \in Nat /\ sequence \in Nat
  BY CandidateAssumption DEF PlaceInv, SignalInv, SessionTypeOK
<1>5. Places(x) # 0
  BY <1>2, <1>3
<1>6. x < sequence
  BY <1>4, <1>5 DEF PlaceInv, NotGatheredYet
<1>7. Places(x) <= 1
  BY <1>6 DEF PlaceInv, CandidateInOnePlace
<1>8. QED
  BY <1>1, <1>2, <1>3, <1>7

LEMMA PlaceFlushOne ==
    ASSUME PlaceInv, SignalInv', Finite', FlushOne
    PROVE  PlaceInv'
<1>1. SessionTypeOK /\ Finite /\ Conserved
  BY DEF PlaceInv, SignalInv
<1>2. /\ Unflushed = app.list /\ Unflushed \in Seq(Candidate) /\ Unflushed # <<>>
      /\ Unflushed' = Tail(Unflushed) /\ Head(Unflushed) \in Candidate
      /\ callback' = callback /\ sequence' = sequence
  BY <1>1, PendingFlushOne DEF FlushOne
<1>3. PICK x \in Candidate : x = Head(Unflushed)
  BY <1>2
<1>4. ASSUME NEW k \in Candidate
      PROVE  /\ Count(Unflushed, {k}) = Ways(k = x) + Count(Unflushed', {k})
             /\ Count(Unflushed', {k}) \in Nat
  <2>1. Ways(Head(Unflushed) \in {k}) = Ways(k = x)
    BY <1>3 DEF Ways
  <2>2. Count(Unflushed, {k}) = Ways(Head(Unflushed) \in {k}) + Count(Tail(Unflushed), {k})
    BY <1>2, CountTail
  <2>3. Tail(Unflushed) \in Seq(Candidate)
    BY <1>2
  <2>4. Count(Tail(Unflushed), {k}) \in Nat
    BY <2>3, Positions
  <2>5. QED
    BY <2>1, <2>2, <2>4, <1>2
<1>5. CASE EmitCandidate(x) /\ staged' = staged
  <2>1. Count(Unflushed, {x}) >= 1
    <3>1. Ways(x = x) = 1
      BY DEF Ways
    <3>2. QED
      BY <1>4, <3>1
  <2>2. Cardinality(SignedFor(x)) = 0
    BY <2>1, WaitingOnce
  <2>3. ASSUME NEW k \in Candidate PROVE Places(k)' = Places(k)
    <3>1. Ways(Staging(k)') = Ways(Staging(k))
      BY <1>2 DEF Ways, Staging
    <3>2. PICK w \in Nat, c \in Nat, n \in Nat :
            w = Ways(Staging(k)) /\ c = Count(staged, {k}) /\ n = Cardinality(SignedFor(k))
      BY <1>1, PlacesParts
    <3>3. PICK u \in Nat, b \in {0, 1} : u = Count(Unflushed', {k}) /\ b = Ways(k = x)
      BY <1>4 DEF Ways
    <3>4. Cardinality(SignedFor(k)') = n + b
      BY <1>1, <1>5, <2>2, <3>2, <3>3, CandidateSigned
    <3>5. Places(k) = w + c + (b + u) + n
      BY <1>4, <3>2, <3>3 DEF Places
    <3>6. Places(k)' = w + c + u + (n + b)
      BY <1>5, <3>1, <3>2, <3>3, <3>4 DEF Places
    <3>7. QED
      BY <3>5, <3>6
  <2>4. QED
    BY <1>2, <2>3, PlaceKept
<1>6. CASE staged' = Stage(staged, x) /\ UNCHANGED coreVars
  <2>1. staged \in Seq(Candidate) /\ sequence \in Nat
    BY <1>1 DEF SessionTypeOK
  <2>2. sequence <= MaxStaged => Len(staged) # MaxStaged
    <3>1. Len(staged) \in Nat /\ Len(Unflushed) \in Nat \ {0} /\ MaxStaged \in Nat
      BY <1>2, <2>1, CapacityAssumption
    <3>2. PICK w \in {0, 1} : w = Ways(callback.op = "staging")
      BY DEF Ways
    <3>3. Len(staged) + Len(Unflushed) + w <= sequence
      BY <1>1, <3>2 DEF Conserved, Pending
    <3>4. QED
      BY <2>1, <3>1, <3>3
  <2>3. ASSUME NEW k \in Candidate
        PROVE  /\ Places(k)' <= Places(k)
               /\ sequence <= MaxStaged => Places(k)' = Places(k)
    <3>1. Ways(Staging(k)') = Ways(Staging(k)) /\ SignedFor(k)' = SignedFor(k)
      BY <1>2, <1>6 DEF Ways, Staging, SignedFor, coreVars, vars
    <3>2. PICK w \in Nat, c \in Nat, n \in Nat :
            w = Ways(Staging(k)) /\ c = Count(staged, {k}) /\ n = Cardinality(SignedFor(k))
      BY <1>1, PlacesParts
    <3>3. PICK u \in Nat, b \in {0, 1} : u = Count(Unflushed', {k}) /\ b = Ways(k = x)
      BY <1>4 DEF Ways
    <3>4. PICK m \in Nat : /\ m = Count(staged', {k}) /\ m <= c + b
                           /\ Len(staged) # MaxStaged => m = c + b
      BY <1>6, <2>1, <3>2, <3>3, StageCount
    <3>5. Places(k) = w + c + (b + u) + n
      BY <1>4, <3>2, <3>3 DEF Places
    <3>6. Places(k)' = w + m + u + n
      BY <3>1, <3>2, <3>3, <3>4 DEF Places
    <3>7. QED
      BY <2>2, <3>4, <3>5, <3>6
  <2>4. QED
    BY <1>2, <2>3, PlaceStep
<1>7. QED
  BY <1>2, <1>3, <1>5, <1>6 DEF FlushOne

LEMMA PlaceStage ==
    ASSUME PlaceInv, SignalInv', Finite', StageCandidate
    PROVE  PlaceInv'
<1>1. SessionTypeOK /\ Finite /\ Conserved
  BY DEF PlaceInv, SignalInv
<1>2. PICK x \in Candidate : x = callback.candidate
  BY <1>1, CallbackShape DEF StageCandidate, SessionTypeOK
<1>3. /\ callback.op = "staging" /\ callback'.op = "idle" /\ staged' = Stage(staged, x)
      /\ UNCHANGED <<signed, sequence, app>>
  BY <1>2 DEF StageCandidate, Does, coreVars, vars
<1>4. Unflushed' = Unflushed
  BY <1>3 DEF Unflushed
<1>5. staged \in Seq(Candidate) /\ sequence \in Nat
  BY <1>1 DEF SessionTypeOK
<1>6. sequence <= MaxStaged => Len(staged) # MaxStaged
  <2>1. Len(staged) \in Nat /\ Len(Unflushed) \in Nat /\ MaxStaged \in Nat
    BY <1>1, <1>5, Sizes, CapacityAssumption
  <2>2. Ways(callback.op = "staging") = 1
    BY <1>3 DEF Ways
  <2>3. Len(staged) + Len(Unflushed) + 1 <= sequence
    BY <1>1, <2>2 DEF Conserved, Pending
  <2>4. QED
    BY <1>5, <2>1, <2>3
<1>7. ASSUME NEW k \in Candidate
      PROVE  /\ Places(k)' <= Places(k)
             /\ sequence <= MaxStaged => Places(k)' = Places(k)
  <2>1. Ways(Staging(k)') = 0 /\ SignedFor(k)' = SignedFor(k)
    BY <1>3 DEF Ways, Staging, SignedFor
  <2>2. PICK b \in {0, 1} : b = Ways(Staging(k)) /\ b = Ways(k = x)
    BY <1>2, <1>3 DEF Ways, Staging
  <2>3. PICK c \in Nat, u \in Nat, n \in Nat :
          /\ c = Count(staged, {k}) /\ u = Count(Unflushed, {k})
          /\ n = Cardinality(SignedFor(k))
    BY <1>1, PlacesParts
  <2>4. PICK m \in Nat : /\ m = Count(staged', {k}) /\ m <= c + b
                         /\ Len(staged) # MaxStaged => m = c + b
    BY <1>3, <1>5, <2>2, <2>3, StageCount
  <2>5. Places(k) = b + c + u + n
    BY <2>2, <2>3 DEF Places
  <2>6. Places(k)' = 0 + m + u + n
    BY <1>4, <2>1, <2>3, <2>4 DEF Places
  <2>7. QED
    BY <1>6, <2>4, <2>5, <2>6
<1>8. QED
  BY <1>3, <1>7, PlaceStep

\* A new candidate is in no place before and in one after.
LEMMA PlaceGather ==
    ASSUME PlaceInv, SignalInv', Finite', OnIceCandidate
    PROVE  PlaceInv'
<1>1. SessionTypeOK /\ Finite
  BY DEF PlaceInv, SignalInv
<1>2. PICK x \in Candidate : x = sequence
  BY DEF OnIceCandidate
<1>3. /\ callback.op = "idle" /\ x \in Nat /\ sequence' = x + 1 /\ UNCHANGED <<staged, app>>
  BY <1>1, <1>2 DEF OnIceCandidate, SessionTypeOK
<1>4. Unflushed' = Unflushed
  BY <1>3 DEF Unflushed
<1>5. Places(x) = 0
  <2>1. sequence <= x
    BY <1>2, <1>3
  <2>2. QED
    BY <2>1 DEF PlaceInv, NotGatheredYet
<1>6. ASSUME NEW k \in Candidate
      PROVE  /\ Places(k)' = Places(k) + Ways(k = x) /\ Places(k) \in Nat
             /\ k \in Nat
  <2>1. PICK c \in Nat, u \in Nat, n \in Nat :
          /\ c = Count(staged, {k}) /\ u = Count(Unflushed, {k})
          /\ n = Cardinality(SignedFor(k))
    BY <1>1, PlacesParts
  <2>2. PICK b \in {0, 1} : b = Ways(k = x)
    BY DEF Ways
  <2>3. Places(k) = 0 + c + u + n
    BY <1>3, <2>1 DEF Places, Staging, Ways
  <2>4. CASE EmitCandidate(x) /\ callback' = callback
    <3>1. Cardinality(SignedFor(x)) = 0
      <4>1. PICK w2 \in Nat, c2 \in Nat, u2 \in Nat, n2 \in Nat :
              /\ w2 = Ways(Staging(x)) /\ c2 = Count(staged, {x})
              /\ u2 = Count(Unflushed, {x}) /\ n2 = Cardinality(SignedFor(x))
        BY <1>1, PlacesParts
      <4>2. w2 + c2 + u2 + n2 = 0
        BY <1>5, <4>1 DEF Places
      <4>3. QED
        BY <4>1, <4>2
    <3>2. Cardinality(SignedFor(k)') = n + b
      BY <1>1, <2>1, <2>2, <2>4, <3>1, CandidateSigned
    <3>3. Ways(Staging(k)') = 0
      BY <1>3, <2>4 DEF Staging, Ways
    <3>4. Places(k)' = 0 + c + u + (n + b)
      BY <1>3, <1>4, <2>1, <3>2, <3>3 DEF Places
    <3>5. QED
      BY <2>2, <2>3, <3>4, CandidateAssumption
  <2>5. CASE callback' = [op |-> "staging", candidate |-> x] /\ UNCHANGED coreVars
    <3>1. SignedFor(k)' = SignedFor(k)
      BY <2>5 DEF SignedFor, coreVars, vars
    <3>2. Ways(Staging(k)') = b
      BY <2>2, <2>5 DEF Staging, Ways
    <3>3. Places(k)' = b + c + u + n
      BY <1>3, <1>4, <2>1, <3>1, <3>2 DEF Places
    <3>4. QED
      BY <2>2, <2>3, <3>3, CandidateAssumption
  <2>6. QED
    BY <1>2, <2>4, <2>5 DEF OnIceCandidate
<1>7. ASSUME NEW k \in Candidate, sequence' <= k PROVE Places(k)' = 0
  <2>1. k \in Nat /\ k # x /\ sequence <= k
    BY <1>2, <1>3, <1>6, <1>7
  <2>2. Places(k) = 0 /\ Ways(k = x) = 0
    BY <2>1 DEF PlaceInv, NotGatheredYet, Ways
  <2>3. QED
    BY <1>6, <2>2
<1>8. ASSUME NEW k \in Candidate, k < sequence'
      PROVE  Places(k)' <= 1 /\ (sequence' <= MaxStaged => Places(k)' = 1)
  <2>1. CASE k = x
    <3>1. Ways(k = x) = 1
      BY <2>1 DEF Ways
    <3>2. Places(k)' = 0 + 1
      BY <1>5, <1>6, <2>1, <3>1
    <3>3. QED
      BY <3>2
  <2>2. CASE k # x
    <3>1. Ways(k = x) = 0
      BY <2>2 DEF Ways
    <3>2. k < sequence /\ (sequence' <= MaxStaged => sequence <= MaxStaged)
      BY <1>2, <1>3, <1>6, <1>8, <2>2, CapacityAssumption
    <3>3. Places(k) <= 1 /\ (sequence <= MaxStaged => Places(k) = 1)
      BY <3>2 DEF PlaceInv, CandidateInOnePlace
    <3>4. Places(k)' = Places(k)
      BY <1>6, <3>1
    <3>5. QED
      BY <3>2, <3>3, <3>4
  <2>3. QED
    BY <2>1, <2>2
<1>9. NotGatheredYet' /\ CandidateInOnePlace'
  BY <1>7, <1>8 DEF NotGatheredYet, CandidateInOnePlace
<1>10. QED
  BY <1>9 DEF PlaceInv

LEMMA PlaceNext == PlaceInv /\ [SessionNext]_allVars => PlaceInv'
<1> SUFFICES ASSUME PlaceInv, [SessionNext]_allVars PROVE PlaceInv'
  OBVIOUS
<1>1. SignalInv' /\ Finite' /\ SessionTypeOK
  BY SignalNext, FiniteNext DEF PlaceInv, SignalInv, FiniteInv
<1>2. Quiet \/ Moving
  BY <1>1, QuietOrMoving
<1>3. CASE Quiet
  BY <1>1, <1>3, PlaceQuiet
<1>4. CASE Moving
  BY <1>1, <1>4, PlaceCalls, PlaceFlush, PlaceFlushOne, PlaceGather, PlaceStage DEF Moving
<1>5. QED
  BY <1>2, <1>3, <1>4

\* A gathered candidate is in one place, for every capacity: never signed twice, and
\* never lost while the staging list has not overflowed
\* (emit_or_stage_candidate, flush_staged_candidates).
THEOREM OnePlaceSafe == SessionSpec => []CandidateInOnePlace
BY PlaceInit, PlaceNext, PTL DEF SessionSpec, PlaceInv

-----------------------------------------------------------------------------
(* A payload is delivered as often as it was accepted. *)

CfrInv == SessionTypeOK /\ Finite /\ CfrDeliveredOnce

Delivery(e) == [kind |-> "DeliverCfr", envelope |-> e]
ToDeliver(e) == app.op = "applying" /\ app.envelope = e

\* A step that neither accepts nor delivers a payload.
NoPayload ==
    /\ applied'[Self] = applied[Self]
    /\ \/ emitted' = emitted
       \/ \E v \in Event : v.kind # "DeliverCfr" /\ emitted' = Append(emitted, v)
    /\ \A e \in CfrControls : ToDeliver(e)' <=> ToDeliver(e)
    /\ \A k \in Channel :
         pump'[k] = pump[k] \/ (pump'[k].op # "delivering" /\ pump[k].op # "delivering")

LEMMA CfrKind == \A e \in CfrControls : e.body.kind = "CfrControl" /\ e \in Envelope
BY DEF CfrControls, Routed, Envelope

\* The numbers a payload's deliveries are counted in.
LEMMA CfrParts ==
    SessionTypeOK /\ Finite =>
        /\ applied[Self] \in Seq(Envelope)
        /\ emitted \in Seq(Event)
        /\ \A e : /\ Count(applied[Self], {e}) \in Nat
                  /\ Count(emitted, {Delivery(e)}) \in Nat
                  /\ Ways(ToDeliver(e)) \in Nat
                  /\ IsFiniteSet(Delivering(e)) /\ Cardinality(Delivering(e)) \in Nat
<1> SUFFICES ASSUME SessionTypeOK, Finite
             PROVE  /\ applied[Self] \in Seq(Envelope)
                    /\ emitted \in Seq(Event)
                    /\ \A e : /\ Count(applied[Self], {e}) \in Nat
                              /\ Count(emitted, {Delivery(e)}) \in Nat
                              /\ Ways(ToDeliver(e)) \in Nat
                              /\ IsFiniteSet(Delivering(e))
                              /\ Cardinality(Delivering(e)) \in Nat
  OBVIOUS
<1>1. applied[Self] \in Seq(Envelope) /\ emitted \in Seq(Event)
  BY SelfFields DEF SessionTypeOK, TypeOK
<1>2. ASSUME NEW e
      PROVE  /\ Count(applied[Self], {e}) \in Nat
             /\ Count(emitted, {Delivery(e)}) \in Nat
             /\ Ways(ToDeliver(e)) \in Nat
             /\ IsFiniteSet(Delivering(e)) /\ Cardinality(Delivering(e)) \in Nat
  <2>1. Count(applied[Self], {e}) \in Nat /\ Count(emitted, {Delivery(e)}) \in Nat
    BY <1>1, Positions
  <2>2. Ways(ToDeliver(e)) \in Nat
    BY DEF Ways
  <2>3. Delivering(e) \in SUBSET PumpsUsed
    BY DEF Delivering, PumpsAt, PumpsUsed
  <2>4. IsFiniteSet(Delivering(e))
    BY <2>3, FS_Subset DEF Finite
  <2>5. QED
    BY <2>1, <2>2, <2>4, FS_CardinalityType
<1>3. QED
  BY <1>1, <1>2

LEMMA CfrInit == SessionInit => CfrInv
<1> SUFFICES ASSUME SessionInit PROVE CfrInv
  OBVIOUS
<1>1. SessionTypeOK /\ Finite
  BY FiniteInit DEF FiniteInv
<1>2. applied[Self] = <<>> /\ emitted = <<>> /\ app.op = "idle"
  BY SelfFields DEF SessionInit, Init, Does
<1>3. ASSUME NEW e \in CfrControls
      PROVE  /\ Ways(ToDeliver(e)) = 0 /\ Cardinality(Delivering(e)) = 0
             /\ Count(applied[Self], {e}) = 0 /\ Count(emitted, {Delivery(e)}) = 0
  <2>1. Delivering(e) = {}
    BY DEF SessionInit, Does, Delivering, PumpsAt
  <2>2. QED
    BY <1>2, <2>1, CountEmpty, FS_EmptySet DEF Ways, ToDeliver
<1>4. CfrDeliveredOnce
  BY <1>3 DEF CfrDeliveredOnce, Delivery, ToDeliver
<1>5. QED
  BY <1>1, <1>4 DEF CfrInv

LEMMA CfrQuiet ==
    ASSUME CfrInv, FiniteInv', NoPayload
    PROVE  CfrInv'
<1>1. SessionTypeOK /\ Finite
  BY DEF CfrInv
<1>2. ASSUME NEW e \in CfrControls
      PROVE  Count(applied'[Self], {e}) =
               Count(emitted', {Delivery(e)}) + Ways(ToDeliver(e)') + Cardinality(Delivering(e)')
  <2>1. Count(emitted', {Delivery(e)}) = Count(emitted, {Delivery(e)})
    <3>1. ASSUME NEW v \in Event, v.kind # "DeliverCfr", emitted' = Append(emitted, v)
          PROVE  Count(emitted', {Delivery(e)}) = Count(emitted, {Delivery(e)})
      <4>1. Ways(v \in {Delivery(e)}) = 0
        BY <3>1 DEF Ways, Delivery
      <4>2. Count(emitted', {Delivery(e)}) = Count(emitted, {Delivery(e)}) + Ways(v \in {Delivery(e)})
        BY <1>1, <3>1, CfrParts, CountAppend
      <4>3. PICK m \in Nat : m = Count(emitted, {Delivery(e)})
        BY <1>1, CfrParts
      <4>4. QED
        BY <4>1, <4>2, <4>3
    <3>2. QED
      BY <3>1 DEF NoPayload
  <2>2. Delivering(e)' = Delivering(e)
    BY DEF NoPayload, Delivering, PumpsAt
  <2>3. Ways(ToDeliver(e)') = Ways(ToDeliver(e))
    BY DEF NoPayload, Ways
  <2>4. Count(applied[Self], {e}) =
          Count(emitted, {Delivery(e)}) + Ways(ToDeliver(e)) + Cardinality(Delivering(e))
    BY DEF CfrInv, CfrDeliveredOnce, Delivery, ToDeliver
  <2>5. QED
    BY <2>1, <2>2, <2>3, <2>4 DEF NoPayload
<1>3. CfrDeliveredOnce'
  BY <1>2 DEF CfrDeliveredOnce, Delivery, ToDeliver
<1>4. QED
  BY <1>3 DEF CfrInv, FiniteInv

LEMMA ReceiveAppends ==
    ASSUME SessionTypeOK, NEW e, Receive(Self, e)
    PROVE  applied'[Self] = Append(applied[Self], e)
BY SelfFields DEF Receive, Accept, SessionTypeOK, TypeOK

LEMMA InboundShape == \A e \in Inbound : e \in Envelope
BY InboundAssumption DEF ForeignEnvelopes

\* The four steps that do.
LEMMA CfrAccept ==
    ASSUME CfrInv, FiniteInv', NEW e0 \in Inbound, AcceptSignal(e0)
    PROVE  CfrInv'
<1>1. SessionTypeOK /\ Finite
  BY DEF CfrInv
<1>2. /\ app.op = "idle" /\ app'.op = "applying" /\ app'.envelope = e0
      /\ emitted' = emitted /\ pump' = pump
      /\ applied'[Self] = Append(applied[Self], e0) /\ e0 \in Envelope
  BY <1>1, ReceiveAppends, InboundShape DEF AcceptSignal, Idle, reports
<1>3. ASSUME NEW e \in CfrControls
      PROVE  Count(applied'[Self], {e}) =
               Count(emitted', {Delivery(e)}) + Ways(ToDeliver(e)') + Cardinality(Delivering(e)')
  <2>1. PICK a \in Nat, m \in Nat, n \in Nat :
          /\ a = Count(applied[Self], {e}) /\ m = Count(emitted, {Delivery(e)})
          /\ n = Cardinality(Delivering(e))
    BY <1>1, CfrParts
  <2>2. PICK b \in {0, 1} : b = Ways(e0 \in {e}) /\ b = Ways(ToDeliver(e)')
    BY <1>2 DEF Ways, ToDeliver
  <2>3. Count(applied'[Self], {e}) = a + b
    BY <1>1, <1>2, <2>1, <2>2, CfrParts, CountAppend
  <2>4. Delivering(e)' = Delivering(e) /\ Ways(ToDeliver(e)) = 0
    BY <1>2 DEF Delivering, PumpsAt, ToDeliver, Ways
  <2>5. a = m + 0 + n
    BY <2>1, <2>4 DEF CfrInv, CfrDeliveredOnce, Delivery, ToDeliver
  <2>6. a + b = m + b + n
    BY <2>5
  <2>7. QED
    BY <1>2, <2>1, <2>2, <2>3, <2>4, <2>6
<1>4. CfrDeliveredOnce'
  BY <1>3 DEF CfrDeliveredOnce, Delivery, ToDeliver
<1>5. QED
  BY <1>4 DEF CfrInv, FiniteInv

LEMMA CfrDeliver ==
    ASSUME CfrInv, FiniteInv', DeliverAccepted
    PROVE  CfrInv'
<1>1. SessionTypeOK /\ Finite
  BY DEF CfrInv
<1>2. PICK v : v = Delivery(app.envelope)
  OBVIOUS
<1>3. /\ app.op = "applying" /\ app'.op = "idle" /\ emitted' = Append(emitted, v)
      /\ pump' = pump /\ applied'[Self] = applied[Self]
  BY <1>2 DEF DeliverAccepted, Emit, Does, Delivery, coreVars, vars
<1>4. v \in Event
  BY <1>1, <1>2, CallShape, KindShape, EventShape DEF DeliverAccepted, Delivery, SessionTypeOK
<1>5. ASSUME NEW e \in CfrControls
      PROVE  Count(applied'[Self], {e}) =
               Count(emitted', {Delivery(e)}) + Ways(ToDeliver(e)') + Cardinality(Delivering(e)')
  <2>1. PICK a \in Nat, m \in Nat, n \in Nat :
          /\ a = Count(applied[Self], {e}) /\ m = Count(emitted, {Delivery(e)})
          /\ n = Cardinality(Delivering(e))
    BY <1>1, CfrParts
  <2>2. v = Delivery(e) <=> app.envelope = e
    BY <1>2 DEF Delivery
  <2>3. PICK b \in {0, 1} : b = Ways(v \in {Delivery(e)}) /\ b = Ways(ToDeliver(e))
    BY <1>3, <2>2 DEF Ways, ToDeliver
  <2>4. Count(emitted', {Delivery(e)}) = m + b
    BY <1>1, <1>3, <1>4, <2>1, <2>3, CfrParts, CountAppend
  <2>5. Delivering(e)' = Delivering(e) /\ Ways(ToDeliver(e)') = 0
    BY <1>3 DEF Delivering, PumpsAt, ToDeliver, Ways
  <2>6. a = m + b + n
    BY <2>1, <2>3 DEF CfrInv, CfrDeliveredOnce, Delivery, ToDeliver
  <2>7. a = (m + b) + 0 + n
    BY <2>6
  <2>8. QED
    BY <1>3, <2>1, <2>4, <2>5, <2>7
<1>6. CfrDeliveredOnce'
  BY <1>5 DEF CfrDeliveredOnce, Delivery, ToDeliver
<1>7. QED
  BY <1>6 DEF CfrInv, FiniteInv

LEMMA CfrPumpMessage ==
    ASSUME CfrInv, FiniteInv', NEW k \in Channel, NEW e0 \in Inbound, PumpMessage(k, e0)
    PROVE  CfrInv'
<1>1. SessionTypeOK /\ Finite
  BY DEF CfrInv
<1>2. PICK x : x = IF e0.body.kind = "CfrControl" THEN [op |-> "delivering", envelope |-> e0]
                                                   ELSE Does("polling")
  OBVIOUS
<1>3. /\ pump[k].op = "polling" /\ pump' = [pump EXCEPT ![k] = x]
      /\ emitted' = emitted /\ app' = app
      /\ applied'[Self] = Append(applied[Self], e0) /\ e0 \in Envelope
  BY <1>1, <1>2, ReceiveAppends, InboundShape DEF PumpMessage, Becomes, reports
<1>4. pump \in [Channel -> Pump]
  BY <1>1 DEF SessionTypeOK
<1>5. ASSUME NEW e \in CfrControls
      PROVE  Count(applied'[Self], {e}) =
               Count(emitted', {Delivery(e)}) + Ways(ToDeliver(e)') + Cardinality(Delivering(e)')
  <2>1. PICK a \in Nat, m \in Nat, w \in Nat, n \in Nat :
          /\ a = Count(applied[Self], {e}) /\ m = Count(emitted, {Delivery(e)})
          /\ w = Ways(ToDeliver(e)) /\ n = Cardinality(Delivering(e))
    BY <1>1, CfrParts
  <2>2. (x.op = "delivering" /\ x.envelope = e) <=> e0 = e
    BY <1>2, CfrKind DEF Does
  <2>3. pump'[k] = x /\ \A y \in Channel \ {k} : pump'[y] = pump[y]
    BY <1>3, <1>4
  <2>4. Delivering(e)' \ {k} = Delivering(e) \ {k}
    BY <2>3 DEF Delivering, PumpsAt
  <2>5. (k \in Delivering(e)' <=> e0 = e) /\ k \notin Delivering(e)
    BY <1>3, <2>2, <2>3 DEF Delivering, PumpsAt
  <2>6. PICK b \in {0, 1} : b = Ways(e0 \in {e}) /\ b = Ways(k \in Delivering(e)')
    BY <2>5 DEF Ways
  <2>7. Cardinality(Delivering(e)') = n + b
    <3>1. PICK D : D = Delivering(e)'
      OBVIOUS
    <3>2. D \ {k} = Delivering(e) \ {k} /\ b = Ways(k \in D)
      BY <2>4, <2>6, <3>1
    <3>3. Ways(k \in Delivering(e)) = 0
      BY <2>5 DEF Ways
    <3>4. Cardinality(D) \in Nat /\ Cardinality(D) + 0 = n + b
      BY <1>1, <2>1, <3>2, <3>3, CfrParts, OneChange
    <3>5. QED
      BY <3>1, <3>4
  <2>8. Count(applied'[Self], {e}) = a + b
    BY <1>1, <1>3, <2>1, <2>6, CfrParts, CountAppend
  <2>9. a = m + w + n
    BY <2>1 DEF CfrInv, CfrDeliveredOnce, Delivery, ToDeliver
  <2>10. Ways(ToDeliver(e)') = w
    BY <1>3, <2>1 DEF ToDeliver
  <2>11. a + b = m + w + (n + b)
    BY <2>9
  <2>12. QED
    BY <1>3, <2>1, <2>7, <2>8, <2>10, <2>11
<1>6. CfrDeliveredOnce'
  BY <1>5 DEF CfrDeliveredOnce, Delivery, ToDeliver
<1>7. QED
  BY <1>6 DEF CfrInv, FiniteInv

LEMMA CfrPumpDeliver ==
    ASSUME CfrInv, FiniteInv', NEW k \in Channel, PumpDeliver(k)
    PROVE  CfrInv'
<1>1. SessionTypeOK /\ Finite
  BY DEF CfrInv
<1>2. PICK v : v = Delivery(pump[k].envelope)
  OBVIOUS
<1>3. /\ pump[k].op = "delivering" /\ pump' = [pump EXCEPT ![k] = Does("polling")]
      /\ emitted' = Append(emitted, v) /\ app' = app
      /\ applied'[Self] = applied[Self]
  BY <1>2 DEF PumpDeliver, Emit, Delivery, Becomes, coreVars, vars
<1>4. pump \in [Channel -> Pump] /\ v \in Event
  BY <1>1, <1>2, <1>3, PumpShape, EventShape DEF Delivery, SessionTypeOK
<1>5. ASSUME NEW e \in CfrControls
      PROVE  Count(applied'[Self], {e}) =
               Count(emitted', {Delivery(e)}) + Ways(ToDeliver(e)') + Cardinality(Delivering(e)')
  <2>1. PICK a \in Nat, m \in Nat, w \in Nat, n \in Nat :
          /\ a = Count(applied[Self], {e}) /\ m = Count(emitted, {Delivery(e)})
          /\ w = Ways(ToDeliver(e)) /\ n = Cardinality(Delivering(e))
    BY <1>1, CfrParts
  <2>2. v = Delivery(e) <=> pump[k].envelope = e
    BY <1>2 DEF Delivery
  <2>3. pump'[k].op = "polling" /\ \A y \in Channel \ {k} : pump'[y] = pump[y]
    BY <1>3, <1>4 DEF Does
  <2>4. Delivering(e)' \ {k} = Delivering(e) \ {k} /\ k \notin Delivering(e)'
    BY <2>3 DEF Delivering, PumpsAt
  <2>5. k \in Delivering(e) <=> v = Delivery(e)
    BY <1>3, <2>2 DEF Delivering, PumpsAt
  <2>6. PICK b \in {0, 1} : b = Ways(v \in {Delivery(e)}) /\ b = Ways(k \in Delivering(e))
    BY <2>5 DEF Ways
  <2>7. Cardinality(Delivering(e)') \in Nat /\ Cardinality(Delivering(e)') + b = n
    <3>1. PICK D : D = Delivering(e)'
      OBVIOUS
    <3>2. D \ {k} = Delivering(e) \ {k} /\ k \notin D
      BY <2>4, <3>1
    <3>3. Ways(k \in D) = 0
      BY <3>2 DEF Ways
    <3>4. Cardinality(D) \in Nat /\ Cardinality(D) + b = n + 0
      BY <1>1, <2>1, <2>6, <3>2, <3>3, CfrParts, OneChange
    <3>5. QED
      BY <2>1, <3>1, <3>4
  <2>8. Count(emitted', {Delivery(e)}) = m + b
    BY <1>1, <1>3, <1>4, <2>1, <2>6, CfrParts, CountAppend
  <2>9. a = m + w + n
    BY <2>1 DEF CfrInv, CfrDeliveredOnce, Delivery, ToDeliver
  <2>10. Ways(ToDeliver(e)') = w
    BY <1>3, <2>1 DEF ToDeliver
  <2>11. a = (m + b) + w + Cardinality(Delivering(e)')
    BY <2>1, <2>7, <2>9
  <2>12. QED
    BY <1>3, <2>1, <2>8, <2>10, <2>11
<1>6. CfrDeliveredOnce'
  BY <1>5 DEF CfrDeliveredOnce, Delivery, ToDeliver
<1>7. QED
  BY <1>6 DEF CfrInv, FiniteInv

Payloads ==
    \/ DeliverAccepted
    \/ \E e \in Inbound : AcceptSignal(e)
    \/ \E k \in Channel : PumpDeliver(k) \/ \E e \in Inbound : PumpMessage(k, e)

LEMMA PayloadSteps ==
    ASSUME SessionTypeOK, [SessionNext]_allVars
    PROVE  NoPayload \/ Payloads
<1> USE DEF NoPayload, ToDeliver, Does, queues, reports
<1>0. UNCHANGED coreVars => applied' = applied
  BY DEF coreVars, vars
<1>1. CASE UNCHANGED allVars
  BY <1>0, <1>1 DEF allVars, sessionVars
<1>2. CASE Proceed
  <2>1. ASSUME NEW d \in Description, DescribeOffer(d)
        PROVE  NoPayload
    BY <1>0, <2>1 DEF DescribeOffer
  <2>2. CASE SignOffer \/ SignAnswer
    BY <2>2 DEF SignOffer, SignAnswer, BeginOffer, Answer
  <2>3. CASE QueueSignal \/ Flush
    BY <1>0, <2>3 DEF QueueSignal, Flush, Flushing
  <2>4. CASE FlushOne
    <3>1. applied' = applied
      BY <1>0, <2>4 DEF FlushOne, EmitCandidate, SendCandidate
    <3>2. QED
      BY <2>4, <3>1 DEF FlushOne
  <2>5. CASE FlushEnds
    <3>1. app.op = "flushing" /\ app'.op # "applying"
      BY <2>5, CallShape DEF FlushEnds, SessionTypeOK
    <3>2. QED
      BY <1>0, <2>5, <3>1 DEF FlushEnds
  <2>6. CASE CallFails \/ ApplyDescription \/ AddCandidate \/ ApplyClose \/ ShutEngine
    <3>1. /\ app.op = "applying" => app.envelope.body.kind # "CfrControl"
          /\ app'.op # "applying" /\ emitted' = emitted /\ pump' = pump /\ applied' = applied
      BY <1>0, <2>6 DEF CallFails, ApplyDescription, AddCandidate, ApplyClose, ShutEngine
    <3>2. QED
      BY <3>1, CfrKind
  <2>7. CASE ReportClosed
    <3>1. [kind |-> "Closed"] \in Event
      BY EventShape
    <3>2. QED
      BY <1>0, <2>7, <3>1 DEF ReportClosed, Emit
  <2>8. QED
    BY <1>2, <2>1, <2>2, <2>3, <2>4, <2>5, <2>6, <2>7 DEF Proceed, Payloads
<1>3. CASE Application
  <2>1. ASSUME NEW k \in Channel, CallBeginOffer(k)
        PROVE  NoPayload
    BY <1>0, <2>1 DEF CallBeginOffer, Idle, NewChannel, SessionTypeOK
  <2>2. ASSUME NEW d \in Description, CallAnswer(d)
        PROVE  NoPayload
    BY <1>0, <2>2 DEF CallAnswer, Idle
  <2>3. ASSUME NEW x \in Payload, SendCfr(x)
        PROVE  NoPayload
    BY <2>3 DEF SendCfr, SendCfrControl, sessionVars
  <2>4. CASE TakeSignal
    BY <1>0, <2>4 DEF TakeSignal, Flushing
  <2>5. CASE TryTakeEvent \/ CallClose
    BY <1>0, <2>5 DEF TryTakeEvent, CallClose
  <2>6. CASE CallBeginClose
    BY <2>6 DEF CallBeginClose, Close
  <2>7. QED
    BY <1>3, <2>1, <2>2, <2>3, <2>4, <2>5, <2>6 DEF Application, Payloads
<1>4. CASE CallbackProceeds
  <2>1. [kind |-> "Failed"] \in Event
    BY EventShape
  <2>2. QED
    BY <1>0, <1>4, <2>1 DEF CallbackProceeds, ReportFailed, StageCandidate, Emit
<1>5. CASE EngineEvent
  <2>1. CASE OnIceCandidate
    <3>1. applied' = applied
      BY <1>0, <2>1 DEF OnIceCandidate, EmitCandidate, SendCandidate
    <3>2. QED
      BY <2>1, <3>1 DEF OnIceCandidate
  <2>2. CASE OnConnectionFailed
    BY <1>0, <2>2 DEF OnConnectionFailed
  <2>3. ASSUME NEW k \in Channel, OnDataChannel(k)
        PROVE  NoPayload
    BY <1>0, <2>3 DEF OnDataChannel, NewChannel, SessionTypeOK
  <2>4. QED
    BY <1>5, <2>1, <2>2, <2>3 DEF EngineEvent
<1>6. ASSUME NEW k \in Channel, PumpProceeds(k)
      PROVE  NoPayload \/ Payloads
  <2>1. [kind |-> "Failed"] \in Event /\ [kind |-> "Connected"] \in Event
    BY EventShape
  <2>2. CASE ReportConnected(k)
    BY <1>0, <2>1, <2>2 DEF ReportConnected, Emit, Becomes, SessionTypeOK
  <2>3. CASE PumpReportsFailed(k)
    BY <1>0, <2>1, <2>3 DEF PumpReportsFailed, Emit, Becomes, SessionTypeOK
  <2>4. QED
    BY <1>6, <2>2, <2>3 DEF PumpProceeds, Payloads
<1>7. ASSUME NEW k \in Channel, PumpEvent(k)
      PROVE  NoPayload \/ Payloads
  <2>1. CASE PumpOpen(k)
    BY <2>1 DEF PumpOpen, TransportConnected, Becomes, SessionTypeOK
  <2>2. CASE PumpEnds(k)
    BY <1>0, <2>2 DEF PumpEnds, Becomes, SessionTypeOK
  <2>3. CASE PumpClosed(k)
    BY <1>0, <2>3 DEF PumpClosed, Becomes, SessionTypeOK
  <2>4. QED
    BY <1>7, <2>1, <2>2, <2>3 DEF PumpEvent, Payloads
<1>8. QED
  BY <1>1, <1>2, <1>3, <1>4, <1>5, <1>6, <1>7 DEF SessionNext

LEMMA CfrNext == CfrInv /\ [SessionNext]_allVars => CfrInv'
<1> SUFFICES ASSUME CfrInv, [SessionNext]_allVars PROVE CfrInv'
  OBVIOUS
<1>1. FiniteInv' /\ SessionTypeOK
  BY FiniteNext DEF CfrInv, FiniteInv
<1>2. CASE NoPayload
  BY <1>1, <1>2, CfrQuiet
<1>3. CASE Payloads
  BY <1>1, <1>3, CfrDeliver, CfrAccept, CfrPumpDeliver, CfrPumpMessage DEF Payloads
<1>4. QED
  BY <1>1, <1>2, <1>3, PayloadSteps

\* Every accepted payload is delivered as often as the core accepted it, or a task is
\* waiting for room to deliver it, for any event queue and any number of channels
\* (pump, process_actions DeliverCfr).
THEOREM CfrDeliveredSafe == SessionSpec => []CfrDeliveredOnce
BY CfrInit, CfrNext, PTL DEF SessionSpec, CfrInv

-----------------------------------------------------------------------------
(* What the application is told. *)

EventsInv == FiniteInv /\ NegotiationInv /\ TerminalTold /\ ConnectedSound /\ ClosedSound

\* What the kinds of events count.
LEMMA EventKind ==
    ASSUME NEW K \in SUBSET {"Connected", "Closed", "Failed"}, NEW v \in Event
    PROVE  v \in [kind : K] <=> v.kind \in K
BY DEF Event

LEMMA EventCount ==
    ASSUME SessionTypeOK, NEW K \in SUBSET {"Connected", "Closed", "Failed"}
    PROVE  emitted \in Seq(Event) /\ Told(K) \in Nat
BY Positions DEF SessionTypeOK, Told

LEMMA EventAppend ==
    ASSUME SessionTypeOK, NEW K \in SUBSET {"Connected", "Closed", "Failed"},
           NEW v \in Event, emitted' = Append(emitted, v)
    PROVE  Told(K)' = Told(K) + Ways(v.kind \in K)
<1>1. PICK T : T = [kind : K]
  OBVIOUS
<1>2. emitted \in Seq(Event)
  BY EventCount
<1>3. Count(Append(emitted, v), T) = Count(emitted, T) + Ways(v \in T)
  BY <1>2, CountAppend
<1>4. Ways(v \in T) = Ways(v.kind \in K)
  BY <1>1, EventKind DEF Ways
<1>5. QED
  BY <1>1, <1>3, <1>4 DEF Told

\* No event of these kinds is sent.
Untold(K) ==
    \/ emitted' = emitted
    \/ \E v \in Event : v.kind \notin K /\ emitted' = Append(emitted, v)

LEMMA EventSame ==
    ASSUME SessionTypeOK, NEW K \in SUBSET {"Connected", "Closed", "Failed"}, Untold(K)
    PROVE  Told(K)' = Told(K)
<1>1. CASE emitted' = emitted
  BY <1>1 DEF Told
<1>2. ASSUME NEW v \in Event, v.kind \notin K, emitted' = Append(emitted, v)
      PROVE  Told(K)' = Told(K)
  <2>1. Ways(v.kind \in K) = 0
    BY <1>2 DEF Ways
  <2>2. PICK n \in Nat : n = Told(K)
    BY EventCount
  <2>3. Told(K)' = n + 0
    BY <1>2, <2>1, <2>2, EventAppend
  <2>4. QED
    BY <2>2, <2>3
<1>3. QED
  BY <1>1, <1>2 DEF Untold

PumpsStay(op) == \A k \in Channel : pump'[k].op = op <=> pump[k].op = op

LEMMA PumpsCount ==
    ASSUME Finite, NEW op, op # "unused"
    PROVE  IsFiniteSet(PumpsAt(op)) /\ Cardinality(PumpsAt(op)) \in Nat
<1>1. PumpsAt(op) \in SUBSET PumpsUsed
  BY DEF PumpsAt, PumpsUsed
<1>2. IsFiniteSet(PumpsAt(op))
  BY <1>1, FS_Subset DEF Finite
<1>3. QED
  BY <1>2, FS_CardinalityType

\* One pump moves on.
LEMMA PumpsMove ==
    ASSUME SessionTypeOK, Finite, NEW op, op # "unused", NEW k \in Channel, NEW to,
           Becomes(k, Does(to))
    PROVE  /\ Cardinality(PumpsAt(op)') \in Nat
           /\ Cardinality(PumpsAt(op)') + Ways(pump[k].op = op)
                = Cardinality(PumpsAt(op)) + Ways(to = op)
<1>1. pump'[k].op = to /\ \A y \in Channel \ {k} : pump'[y] = pump[y]
  BY DEF SessionTypeOK, Becomes, Does
<1>2. PICK B : B = PumpsAt(op)'
  OBVIOUS
<1>3. B \ {k} = PumpsAt(op) \ {k}
  BY <1>1, <1>2 DEF PumpsAt
<1>4. (k \in B <=> to = op) /\ (k \in PumpsAt(op) <=> pump[k].op = op)
  BY <1>1, <1>2 DEF PumpsAt
<1>5. /\ Cardinality(B) \in Nat
      /\ Cardinality(B) + Ways(k \in PumpsAt(op)) = Cardinality(PumpsAt(op)) + Ways(k \in B)
  BY <1>3, PumpsCount, OneChange
<1>6. Ways(k \in PumpsAt(op)) = Ways(pump[k].op = op) /\ Ways(k \in B) = Ways(to = op)
  BY <1>4 DEF Ways
<1>7. QED
  BY <1>2, <1>5, <1>6

LEMMA PumpArrives ==
    ASSUME SessionTypeOK, Finite, NEW op, op # "unused", NEW k \in Channel, pump[k].op # op,
           Becomes(k, Does(op))
    PROVE  /\ Cardinality(PumpsAt(op)') \in Nat
           /\ Cardinality(PumpsAt(op)') = Cardinality(PumpsAt(op)) + 1
<1>1. Ways(pump[k].op = op) = 0 /\ Ways(op = op) = 1
  BY DEF Ways
<1>2. /\ Cardinality(PumpsAt(op)') \in Nat
      /\ Cardinality(PumpsAt(op)') + Ways(pump[k].op = op)
           = Cardinality(PumpsAt(op)) + Ways(op = op)
  BY PumpsMove
<1>3. QED
  BY <1>1, <1>2

LEMMA PumpLeaves ==
    ASSUME SessionTypeOK, Finite, NEW op, op # "unused", NEW k \in Channel, pump[k].op = op,
           NEW to, to # op, Becomes(k, Does(to))
    PROVE  /\ Cardinality(PumpsAt(op)') \in Nat
           /\ Cardinality(PumpsAt(op)') + 1 = Cardinality(PumpsAt(op))
<1>1. Ways(pump[k].op = op) = 1 /\ Ways(to = op) = 0
  BY DEF Ways
<1>2. /\ Cardinality(PumpsAt(op)') \in Nat /\ Cardinality(PumpsAt(op)) \in Nat
      /\ Cardinality(PumpsAt(op)') + Ways(pump[k].op = op)
           = Cardinality(PumpsAt(op)) + Ways(to = op)
  BY PumpsMove, PumpsCount
<1>3. QED
  BY <1>1, <1>2

\* What a session's step does to the phase of its core.
LEMMA PhaseKept ==
    ASSUME SessionTypeOK, NegotiationInv, [SessionNext]_allVars
    PROVE  /\ Kept(Self)
           /\ phase[Self] \in {"Established", "Closed"} =>
                phase'[Self] \in {"Established", "Closed"}
<1>1. [Next]_vars /\ Self \in Conn /\ phase \in [Conn -> Phase]
  BY CoreStepOrStutter, SelfFields DEF SessionTypeOK, TypeOK
<1>2. Kept(Self)
  BY <1>1, StepKeeps
<1>3. CASE UNCHANGED vars
  BY <1>2, <1>3 DEF vars
<1>4. ASSUME NEW c \in Conn, LocalStep(c), phase[Self] \in {"Established", "Closed"}
      PROVE  phase'[Self] \in {"Established", "Closed"}
  BY <1>1, <1>4
     DEF LocalStep, BeginOffer, Answer, SendCandidate, SendCfrControl, Close,
         TransportConnected, TransportFailed
<1>5. ASSUME NEW c \in Conn, NEW e, Receive(c, e), phase[Self] \in {"Established", "Closed"}
      PROVE  phase'[Self] \in {"Established", "Closed"}
  BY <1>1, <1>5
     DEF Receive, ReceiveOffer, ReceiveAnswer, ReceiveCandidate, ReceiveClose,
         ReceiveCfrControl
<1>6. QED
  BY <1>1, <1>2, <1>3, <1>4, <1>5 DEF Next

LEMMA EventsInit == SessionInit => EventsInv
<1> SUFFICES ASSUME SessionInit PROVE EventsInv
  OBVIOUS
<1>1. FiniteInv /\ NegotiationInv
  BY FiniteInit, NegotiationInit DEF SessionInit
<1>2. /\ emitted = <<>> /\ applied[Self] = <<>> /\ app.op = "idle" /\ callback.op = "idle"
      /\ terminal = FALSE
  BY SelfFields DEF SessionInit, Init, Does
<1>3. \A K : Told(K) = 0
  BY <1>2, CountEmpty DEF Told
<1>4. Count(applied[Self], Closes) = 0
  BY <1>2, CountEmpty
<1>5. PumpsAt("failing") = {} /\ PumpsAt("connected") = {}
  BY DEF SessionInit, PumpsAt, Does
<1>6. Cardinality(PumpsAt("failing")) = 0 /\ Cardinality(PumpsAt("connected")) = 0
  BY <1>5, FS_EmptySet
<1>7. TerminalTold
  BY <1>2, <1>3, <1>6 DEF TerminalTold, Ways
<1>8. ConnectedSound
  BY <1>3, <1>6 DEF ConnectedSound
<1>9. ~ ToldClosed
  BY <1>2 DEF ToldClosed
<1>10. ClosedSound
  BY <1>2, <1>4, <1>9 DEF ClosedSound
<1>11. QED
  BY <1>1, <1>7, <1>8, <1>10 DEF EventsInv

\* Steps that have nothing to do with the end of the session.
EndStays ==
    /\ terminal' = terminal
    /\ Untold({"Closed", "Failed"})
    /\ app'.op = "closing" <=> app.op = "closing"
    /\ callback'.op = "failing" <=> callback.op = "failing"
    /\ PumpsStay("failing")

LEMMA EndFrame ==
    ASSUME EventsInv, EndStays
    PROVE  TerminalTold'
<1>1. Told({"Closed", "Failed"})' = Told({"Closed", "Failed"})
  BY EventSame DEF EventsInv, FiniteInv, EndStays
<1>2. PumpsAt("failing")' = PumpsAt("failing")
  BY DEF EndStays, PumpsStay, PumpsAt
<1>3. /\ Ways(app'.op = "closing") = Ways(app.op = "closing")
      /\ Ways(callback'.op = "failing") = Ways(callback.op = "failing")
  BY DEF EndStays, Ways
<1>4. QED
  BY <1>1, <1>2, <1>3 DEF EventsInv, TerminalTold, EndStays

\* The numbers the end is counted in.
LEMMA EndParts ==
    ASSUME EventsInv
    PROVE  /\ Told({"Closed", "Failed"}) \in Nat
           /\ Ways(app.op = "closing") \in {0, 1} /\ Ways(callback.op = "failing") \in {0, 1}
           /\ Cardinality(PumpsAt("failing")) \in Nat
           /\ Ways(terminal) = Told({"Closed", "Failed"}) + Ways(app.op = "closing")
                + Ways(callback.op = "failing") + Cardinality(PumpsAt("failing"))
<1>1. Told({"Closed", "Failed"}) \in Nat
  BY EventCount DEF EventsInv, FiniteInv
<1>2. Cardinality(PumpsAt("failing")) \in Nat
  BY PumpsCount DEF EventsInv, FiniteInv
<1>3. Ways(app.op = "closing") \in {0, 1} /\ Ways(callback.op = "failing") \in {0, 1}
  BY DEF Ways
<1>4. QED
  BY <1>1, <1>2, <1>3 DEF EventsInv, TerminalTold

\* Told Connected, and the step to it.
ConnectedStays ==
    /\ Untold({"Connected"})
    /\ PumpsStay("connected")
    /\ engine.remote # NoId => engine'.remote # NoId

LEMMA ConnectedFrame ==
    ASSUME EventsInv, [SessionNext]_allVars, ConnectedStays
    PROVE  ConnectedSound'
<1>1. Told({"Connected"})' = Told({"Connected"})
  BY EventSame DEF EventsInv, FiniteInv, ConnectedStays
<1>2. PumpsAt("connected")' = PumpsAt("connected")
  BY DEF ConnectedStays, PumpsStay, PumpsAt
<1>3. /\ Kept(Self)
      /\ phase[Self] \in {"Established", "Closed"} => phase'[Self] \in {"Established", "Closed"}
  BY PhaseKept DEF EventsInv, FiniteInv
<1>4. negotiation[Self].answer # NoId => negotiation'[Self].answer # NoId
  BY <1>3 DEF Kept
<1>5. QED
  BY <1>1, <1>2, <1>3, <1>4 DEF EventsInv, ConnectedSound, ConnectedStays

\* Told Closed, and the close it reports.
ClosedStays ==
    /\ applied'[Self] = applied[Self]
    /\ Untold({"Closed"})
    /\ app'.op = "closing" => app.op = "closing"
    /\ app'.op = "applying" => app' = app

LEMMA ToldClosedSame ==
    ASSUME SessionTypeOK, Untold({"Closed"})
    PROVE  ToldClosed' <=> ToldClosed
<1>1. CASE emitted' = emitted
  BY <1>1 DEF ToldClosed
<1>2. ASSUME NEW v \in Event, v.kind # "Closed", emitted' = Append(emitted, v)
      PROVE  ToldClosed' <=> ToldClosed
  <2>1. emitted \in Seq(Event)
    BY DEF SessionTypeOK
  <2>2. /\ \A i \in DOMAIN emitted : i \in DOMAIN emitted' /\ emitted'[i] = emitted[i]
        /\ \A i \in DOMAIN emitted' : i \in DOMAIN emitted \/ emitted'[i] = v
    BY <1>2, <2>1
  <2>3. QED
    BY <1>2, <2>2 DEF ToldClosed
<1>3. QED
  BY <1>1, <1>2 DEF Untold

LEMMA ClosedFrame ==
    ASSUME EventsInv, [SessionNext]_allVars, ClosedStays
    PROVE  ClosedSound'
<1>1. ToldClosed' <=> ToldClosed
  BY ToldClosedSame DEF EventsInv, FiniteInv, ClosedStays
<1>2. phase'[Self] # "Closed" => phase[Self] # "Closed"
  BY PhaseKept DEF EventsInv, FiniteInv, Kept
<1>3. QED
  BY <1>1, <1>2 DEF EventsInv, ClosedSound, ClosedStays

\* The core accepts e: the one close, or something else.
LEMMA ClosedReceive ==
    ASSUME EventsInv, [SessionNext]_allVars, NEW e \in Inbound, Receive(Self, e),
           emitted' = emitted,
           app' = app \/ app' = [op |-> "applying", envelope |-> e]
    PROVE  ClosedSound'
<1>1. SessionTypeOK /\ e \in Envelope
  BY InboundShape DEF EventsInv, FiniteInv
<1>2. applied'[Self] = Append(applied[Self], e) /\ applied[Self] \in Seq(Envelope)
  BY <1>1, ReceiveAppends, SelfFields DEF SessionTypeOK, TypeOK
<1>3. e \in Closes <=> e.body.kind = "Close"
  BY <1>1, KindShape DEF Closes, Routed
<1>4. phase \in [Conn -> Phase] /\ Self \in Conn
  BY <1>1, SelfFields DEF SessionTypeOK, TypeOK
<1>5. phase[Self] # "Closed"
  BY <1>4 DEF Receive, ReceiveOffer, ReceiveAnswer, ReceiveCandidate, ReceiveClose,
              ReceiveCfrControl, ValidCandidateParent, Negotiating
<1>6. Count(applied[Self], Closes) = 0
  BY <1>5 DEF EventsInv, ClosedSound
<1>7. Count(applied'[Self], Closes) = 0 + Ways(e \in Closes)
  BY <1>1, <1>2, <1>6, CountAppend
<1>8. ~ ToldClosed /\ ~ ToldClosed' /\ app.op # "closing"
      /\ ~ (app.op = "applying" /\ app.envelope \in Closes)
  BY <1>6 DEF EventsInv, ClosedSound, ToldClosed
<1>9. CASE e \in Closes
  <2>1. Count(applied'[Self], Closes) = 1
    BY <1>7, <1>9 DEF Ways
  <2>2. phase'[Self] = "Closed"
    BY <1>3, <1>4, <1>9
       DEF Receive, ReceiveOffer, ReceiveAnswer, ReceiveCandidate, ReceiveClose,
           ReceiveCfrControl
  <2>3. QED
    BY <1>8, <2>1, <2>2 DEF ClosedSound
<1>10. CASE e \notin Closes
  <2>1. Count(applied'[Self], Closes) = 0
    BY <1>7, <1>10 DEF Ways
  <2>2. app'.op # "closing" /\ ~ (app'.op = "applying" /\ app'.envelope \in Closes)
    BY <1>8, <1>10
  <2>3. QED
    BY <1>8, <2>1, <2>2 DEF ClosedSound
<1>11. QED
  BY <1>9, <1>10

\* The end is claimed by accept_signal, by the callback or by a pump, and then told.
LEMMA EndApplyClose ==
    ASSUME EventsInv, ApplyClose PROVE TerminalTold'
<1>1. /\ app.op = "applying" /\ emitted' = emitted /\ callback' = callback /\ pump' = pump
      /\ \/ terminal = FALSE /\ terminal' = TRUE /\ app'.op = "closing"
         \/ terminal' = terminal /\ app'.op = "shutting"
  BY DEF ApplyClose, FirstTerminal, Does, EventsInv, FiniteInv, SessionTypeOK
<1>2. CASE terminal' = terminal /\ app'.op = "shutting"
  BY <1>1, <1>2, EndFrame DEF EndStays, Untold, PumpsStay
<1>3. CASE terminal = FALSE /\ terminal' = TRUE /\ app'.op = "closing"
  <2>1. PICK t \in Nat, c \in {0, 1}, n \in Nat :
          /\ t = Told({"Closed", "Failed"}) /\ c = Ways(callback.op = "failing")
          /\ n = Cardinality(PumpsAt("failing"))
    BY EndParts
  <2>2. /\ Told({"Closed", "Failed"})' = t /\ PumpsAt("failing")' = PumpsAt("failing")
        /\ Ways(callback'.op = "failing") = c
    BY <1>1, <2>1 DEF Told, PumpsAt
  <2>3. Ways(app.op = "closing") = 0 /\ Ways(app'.op = "closing") = 1
    BY <1>1, <1>3 DEF Ways
  <2>4. Ways(terminal) = 0 /\ Ways(terminal') = 1
    BY <1>3 DEF Ways
  <2>5. 0 = t + 0 + c + n
    BY <2>1, <2>3, <2>4, EndParts
  <2>6. 1 = t + 1 + c + n
    BY <2>5
  <2>7. QED
    BY <2>1, <2>2, <2>3, <2>4, <2>6 DEF TerminalTold
<1>4. QED
  BY <1>1, <1>2, <1>3

LEMMA EndReportClosed ==
    ASSUME EventsInv, ReportClosed PROVE TerminalTold'
<1>1. PICK v \in Event : v = [kind |-> "Closed"]
  BY EventShape
<1>2. /\ app.op = "closing" /\ app'.op = "shutting" /\ callback' = callback /\ pump' = pump
      /\ terminal' = terminal /\ emitted' = Append(emitted, v)
  BY <1>1 DEF ReportClosed, Emit, Does
<1>3. PICK t \in Nat, c \in {0, 1}, n \in Nat :
        /\ t = Told({"Closed", "Failed"}) /\ c = Ways(callback.op = "failing")
        /\ n = Cardinality(PumpsAt("failing"))
  BY EndParts
<1>4. PumpsAt("failing")' = PumpsAt("failing") /\ Ways(callback'.op = "failing") = c
  BY <1>2, <1>3 DEF PumpsAt
<1>5. Ways(app.op = "closing") = 1 /\ Ways(app'.op = "closing") = 0
  BY <1>2 DEF Ways
<1>6. Ways(v.kind \in {"Closed", "Failed"}) = 1
  BY <1>1 DEF Ways
<1>7. Told({"Closed", "Failed"})' = t + 1
  BY <1>2, <1>3, <1>6, EventAppend DEF EventsInv, FiniteInv
<1>8. Ways(terminal) = t + 1 + c + n
  BY <1>3, <1>5, EndParts
<1>9. Ways(terminal') = (t + 1) + 0 + c + n
  BY <1>2, <1>8
<1>10. QED
  BY <1>3, <1>4, <1>5, <1>7, <1>9 DEF TerminalTold

LEMMA EndCallback ==
    ASSUME EventsInv, OnConnectionFailed \/ ReportFailed PROVE TerminalTold'
<1>1. PICK t \in Nat, a \in {0, 1}, n \in Nat :
        /\ t = Told({"Closed", "Failed"}) /\ a = Ways(app.op = "closing")
        /\ n = Cardinality(PumpsAt("failing"))
  BY EndParts
<1>2. app' = app /\ pump' = pump
  BY DEF OnConnectionFailed, ReportFailed
<1>3. PumpsAt("failing")' = PumpsAt("failing") /\ Ways(app'.op = "closing") = a
  BY <1>1, <1>2 DEF PumpsAt
<1>4. CASE OnConnectionFailed
  <2>1. /\ callback.op = "idle" /\ callback'.op = "failing" /\ emitted' = emitted
        /\ terminal = FALSE /\ terminal' = TRUE
    BY <1>4 DEF OnConnectionFailed, FirstTerminal, Does, EventsInv, FiniteInv, SessionTypeOK
  <2>2. /\ Ways(callback.op = "failing") = 0 /\ Ways(callback'.op = "failing") = 1
        /\ Ways(terminal) = 0 /\ Ways(terminal') = 1
    BY <2>1 DEF Ways
  <2>3. Told({"Closed", "Failed"})' = t
    BY <1>1, <2>1 DEF Told
  <2>4. 0 = t + a + 0 + n
    BY <1>1, <2>2, EndParts
  <2>5. 1 = t + a + 1 + n
    BY <2>4
  <2>6. QED
    BY <1>1, <1>3, <2>2, <2>3, <2>5 DEF TerminalTold
<1>5. CASE ReportFailed
  <2>1. PICK v \in Event : v = [kind |-> "Failed"]
    BY EventShape
  <2>2. /\ callback.op = "failing" /\ callback'.op = "idle" /\ terminal' = terminal
        /\ emitted' = Append(emitted, v)
    BY <1>5, <2>1 DEF ReportFailed, Emit, Does
  <2>3. Ways(callback.op = "failing") = 1 /\ Ways(callback'.op = "failing") = 0
    BY <2>2 DEF Ways
  <2>4. Ways(v.kind \in {"Closed", "Failed"}) = 1
    BY <2>1 DEF Ways
  <2>5. Told({"Closed", "Failed"})' = t + 1
    BY <1>1, <2>2, <2>4, EventAppend DEF EventsInv, FiniteInv
  <2>6. Ways(terminal) = t + a + 1 + n
    BY <1>1, <2>3, EndParts
  <2>7. Ways(terminal') = (t + 1) + a + 0 + n
    BY <2>2, <2>6
  <2>8. QED
    BY <1>1, <1>3, <2>3, <2>5, <2>7 DEF TerminalTold
<1>6. QED
  BY <1>4, <1>5

LEMMA EndPump ==
    ASSUME EventsInv, NEW k \in Channel, PumpClosed(k) \/ PumpReportsFailed(k)
    PROVE  TerminalTold'
<1>1. SessionTypeOK /\ Finite
  BY DEF EventsInv, FiniteInv
<1>2. PICK t \in Nat, a \in {0, 1}, c \in {0, 1}, n \in Nat :
        /\ t = Told({"Closed", "Failed"}) /\ a = Ways(app.op = "closing")
        /\ c = Ways(callback.op = "failing") /\ n = Cardinality(PumpsAt("failing"))
  BY EndParts
<1>3. app' = app /\ callback' = callback
  BY DEF PumpClosed, PumpReportsFailed
<1>4. Ways(app'.op = "closing") = a /\ Ways(callback'.op = "failing") = c
  BY <1>2, <1>3
<1>5. Ways(terminal) = t + a + c + n
  BY <1>2, EndParts
<1>6. CASE PumpClosed(k) /\ FirstTerminal /\ Becomes(k, Does("failing"))
  <2>1. /\ pump[k].op \in {"polling", "waiting"} /\ emitted' = emitted
        /\ terminal = FALSE /\ terminal' = TRUE
    BY <1>1, <1>6 DEF PumpClosed, FirstTerminal, SessionTypeOK
  <2>2. Becomes(k, Does("failing"))
    BY <1>6
  <2>3. PICK m \in Nat : m = Cardinality(PumpsAt("failing")') /\ m = n + 1
    BY <1>1, <1>2, <2>1, <2>2, PumpArrives
  <2>4. Ways(terminal) = 0 /\ Ways(terminal') = 1
    BY <2>1 DEF Ways
  <2>5. Told({"Closed", "Failed"})' = t
    BY <1>2, <2>1 DEF Told
  <2>6. 1 = t + a + c + m
    BY <1>5, <2>3, <2>4
  <2>7. QED
    BY <1>4, <2>3, <2>4, <2>5, <2>6 DEF TerminalTold
<1>7. CASE PumpClosed(k) /\ UNCHANGED terminal /\ Becomes(k, Does("done"))
  <2>1. pump[k].op \in {"polling", "waiting"} /\ emitted' = emitted /\ terminal' = terminal
    BY <1>7 DEF PumpClosed
  <2>2. PumpsStay("failing")
    BY <1>1, <1>7, <2>1 DEF Becomes, Does, PumpsStay, SessionTypeOK
  <2>3. QED
    BY <1>3, <2>1, <2>2, EndFrame DEF EndStays, Untold
<1>8. CASE PumpReportsFailed(k)
  <2>1. PICK v \in Event : v = [kind |-> "Failed"]
    BY EventShape
  <2>2. pump[k].op = "failing" /\ terminal' = terminal /\ emitted' = Append(emitted, v)
    BY <1>8, <2>1 DEF PumpReportsFailed, Emit
  <2>3. Becomes(k, Does("done"))
    BY <1>8 DEF PumpReportsFailed
  <2>4. PICK m \in Nat : m = Cardinality(PumpsAt("failing")') /\ m + 1 = n
    BY <1>1, <1>2, <2>2, <2>3, PumpLeaves
  <2>5. Ways(v.kind \in {"Closed", "Failed"}) = 1
    BY <2>1 DEF Ways
  <2>6. Told({"Closed", "Failed"})' = t + 1
    BY <1>1, <1>2, <2>2, <2>5, EventAppend
  <2>7. t + a + c + n = (t + 1) + a + c + m
    BY <2>4
  <2>8. Ways(terminal') = (t + 1) + a + c + m
    BY <1>5, <2>2, <2>7
  <2>9. QED
    BY <1>4, <2>4, <2>6, <2>8 DEF TerminalTold
<1>9. QED
  BY <1>6, <1>7, <1>8 DEF PumpClosed

\* The core is established once, and its pump tells of it once.
LEMMA ConnectedPump ==
    ASSUME EventsInv, NEW k \in Channel, PumpOpen(k) \/ ReportConnected(k)
    PROVE  ConnectedSound'
<1>1. SessionTypeOK /\ Finite /\ Self \in Conn
  BY SelfFields DEF EventsInv, FiniteInv
<1>2. PICK t \in Nat, n \in Nat :
        t = Told({"Connected"}) /\ n = Cardinality(PumpsAt("connected"))
  BY <1>1, EventCount, PumpsCount
<1>3. CASE PumpOpen(k)
  <2>1. /\ pump[k].op = "waiting" /\ emitted' = emitted /\ engine' = engine
        /\ engine.remote # NoId /\ negotiation' = negotiation
        /\ phase[Self] \in {"AnswerSent", "AnswerReceived"} /\ phase'[Self] = "Established"
    BY <1>1, <1>3 DEF PumpOpen, TransportConnected, reports, SessionTypeOK, TypeOK
  <2>2. Becomes(k, Does("connected"))
    BY <1>3 DEF PumpOpen
  <2>3. PICK m \in Nat : m = Cardinality(PumpsAt("connected")') /\ m = n + 1
    BY <1>1, <1>2, <2>1, <2>2, PumpArrives
  <2>4. t + n <= 1 /\ t + n # 1
    BY <1>2, <2>1 DEF EventsInv, ConnectedSound
  <2>5. t + m = 1
    BY <2>3, <2>4
  <2>6. Told({"Connected"})' = t
    BY <1>2, <2>1 DEF Told
  <2>7. negotiation[Self].answer # NoId
    BY <1>1, <2>1 DEF EventsInv, NegotiationInv, NegotiationShape, HeldFits
  <2>8. QED
    BY <2>1, <2>3, <2>5, <2>6, <2>7 DEF ConnectedSound
<1>4. CASE ReportConnected(k)
  <2>1. PICK v \in Event : v = [kind |-> "Connected"]
    BY EventShape
  <2>2. /\ pump[k].op = "connected" /\ emitted' = Append(emitted, v) /\ engine' = engine
        /\ UNCHANGED <<phase, negotiation>>
    BY <1>4, <2>1 DEF ReportConnected, Emit, coreVars, vars
  <2>3. Becomes(k, Does("polling"))
    BY <1>4 DEF ReportConnected
  <2>4. PICK m \in Nat : m = Cardinality(PumpsAt("connected")') /\ m + 1 = n
    BY <1>1, <1>2, <2>2, <2>3, PumpLeaves
  <2>5. Ways(v.kind \in {"Connected"}) = 1
    BY <2>1 DEF Ways
  <2>6. Told({"Connected"})' = t + 1
    BY <1>1, <1>2, <2>2, <2>5, EventAppend
  <2>7. (t + 1) + m = t + n
    BY <2>4
  <2>8. QED
    BY <1>2, <2>2, <2>4, <2>6, <2>7 DEF EventsInv, ConnectedSound
<1>5. QED
  BY <1>3, <1>4

\* Closed is told of the close that was accepted.
LEMMA ClosedApply ==
    ASSUME EventsInv, ApplyClose \/ ReportClosed
    PROVE  ClosedSound'
<1>1. SessionTypeOK
  BY DEF EventsInv, FiniteInv
<1>2. UNCHANGED <<phase, applied>> /\ app'.op # "applying"
  BY <1>1 DEF ApplyClose, ReportClosed, Does, coreVars, vars, SessionTypeOK
<1>3. Count(applied[Self], Closes) = 1
  <2>1. CASE ApplyClose
    <3>1. app.op = "applying" /\ app.envelope \in Closes
      BY <1>1, <2>1, CallShape, KindShape DEF ApplyClose, SessionTypeOK
    <3>2. QED
      BY <3>1 DEF EventsInv, ClosedSound
  <2>2. CASE ReportClosed
    BY <2>2 DEF ReportClosed, EventsInv, ClosedSound
  <2>3. QED
    BY <2>1, <2>2
<1>4. ApplyClose => (ToldClosed' <=> ToldClosed)
  BY DEF ApplyClose, ToldClosed
<1>5. QED
  BY <1>2, <1>3, <1>4 DEF EventsInv, ClosedSound

\* A step that concerns none of the three.
Uneventful == EndStays /\ ConnectedStays /\ ClosedStays

Eventful ==
    \/ ApplyClose \/ ReportClosed \/ OnConnectionFailed \/ ReportFailed
    \/ \E e \in Inbound : AcceptSignal(e)
    \/ \E k \in Channel :
         \/ PumpOpen(k) \/ ReportConnected(k) \/ PumpClosed(k) \/ PumpReportsFailed(k)
         \/ \E e \in Inbound : PumpMessage(k, e)

LEMMA EventSteps ==
    ASSUME SessionTypeOK, [SessionNext]_allVars
    PROVE  Uneventful \/ Eventful
<1> USE DEF Uneventful, EndStays, ConnectedStays, ClosedStays, Untold, PumpsStay, Does,
            queues, reports
<1>0. UNCHANGED coreVars => applied' = applied
  BY DEF coreVars, vars
<1>1. CASE UNCHANGED allVars
  BY <1>0, <1>1 DEF allVars, sessionVars
<1>2. CASE Proceed
  <2>1. ASSUME NEW d \in Description, DescribeOffer(d)
        PROVE  Uneventful
    BY <1>0, <2>1 DEF DescribeOffer, SessionTypeOK
  <2>2. CASE SignOffer \/ SignAnswer
    BY <2>2 DEF SignOffer, SignAnswer, BeginOffer, Answer
  <2>3. CASE QueueSignal \/ Flush
    BY <1>0, <2>3 DEF QueueSignal, Flush, Flushing
  <2>4. CASE FlushOne
    <3>1. applied' = applied
      BY <1>0, <2>4 DEF FlushOne, EmitCandidate, SendCandidate
    <3>2. QED
      BY <2>4, <3>1 DEF FlushOne
  <2>5. CASE FlushEnds
    <3>1. app.op = "flushing" /\ app'.op \notin {"applying", "closing"}
      BY <2>5, CallShape DEF FlushEnds, SessionTypeOK
    <3>2. QED
      BY <1>0, <2>5, <3>1 DEF FlushEnds
  <2>6. CASE CallFails \/ AddCandidate
    BY <1>0, <2>6 DEF CallFails, AddCandidate
  <2>7. CASE ApplyDescription
    <3>1. app.envelope.body.description \in Description
      BY <2>7, CallShape, KindShape DEF ApplyDescription, Offers, Answers, Routed, SessionTypeOK
    <3>2. engine'.remote # NoId
      BY <2>7, <3>1, NoChannelAssumption DEF ApplyDescription, SessionTypeOK
    <3>3. QED
      BY <1>0, <2>7, <3>2 DEF ApplyDescription
  <2>8. CASE DeliverAccepted
    <3>1. [kind |-> "DeliverCfr", envelope |-> app.envelope] \in Event
      BY <2>8, CallShape, KindShape, EventShape DEF DeliverAccepted, SessionTypeOK
    <3>2. QED
      BY <1>0, <2>8, <3>1 DEF DeliverAccepted, Emit
  <2>9. CASE ShutEngine
    BY <1>0, <2>9 DEF ShutEngine, SessionTypeOK
  <2>10. QED
    BY <1>2, <2>1, <2>2, <2>3, <2>4, <2>5, <2>6, <2>7, <2>8, <2>9 DEF Proceed, Eventful
<1>3. CASE Application
  <2>1. ASSUME NEW k \in Channel, CallBeginOffer(k)
        PROVE  Uneventful
    BY <1>0, <2>1 DEF CallBeginOffer, Idle, NewChannel, SessionTypeOK
  <2>2. ASSUME NEW d \in Description, CallAnswer(d)
        PROVE  Uneventful
    BY <1>0, <2>2 DEF CallAnswer, Idle, SessionTypeOK
  <2>3. ASSUME NEW x \in Payload, SendCfr(x)
        PROVE  Uneventful
    BY <2>3 DEF SendCfr, SendCfrControl, sessionVars
  <2>4. CASE TakeSignal
    BY <1>0, <2>4 DEF TakeSignal, Flushing
  <2>5. CASE TryTakeEvent
    BY <1>0, <2>5 DEF TryTakeEvent
  <2>6. CASE CallClose
    BY <1>0, <2>6 DEF CallClose, SessionTypeOK
  <2>7. CASE CallBeginClose
    BY <2>7 DEF CallBeginClose, Close
  <2>8. QED
    BY <1>3, <2>1, <2>2, <2>3, <2>4, <2>5, <2>6, <2>7 DEF Application, Eventful
<1>4. CASE CallbackProceeds
  BY <1>0, <1>4 DEF CallbackProceeds, StageCandidate, Eventful
<1>5. CASE EngineEvent
  <2>1. CASE OnIceCandidate
    <3>1. applied' = applied
      BY <1>0, <2>1 DEF OnIceCandidate, EmitCandidate, SendCandidate
    <3>2. callback'.op # "failing" /\ callback.op # "failing"
      BY <2>1 DEF OnIceCandidate
    <3>3. QED
      BY <2>1, <3>1, <3>2 DEF OnIceCandidate
  <2>2. ASSUME NEW k \in Channel, OnDataChannel(k)
        PROVE  Uneventful
    BY <1>0, <2>2 DEF OnDataChannel, NewChannel, SessionTypeOK
  <2>3. QED
    BY <1>5, <2>1, <2>2 DEF EngineEvent, Eventful
<1>6. ASSUME NEW k \in Channel, PumpProceeds(k)
      PROVE  Uneventful \/ Eventful
  <2>1. CASE PumpDeliver(k)
    <3>1. [kind |-> "DeliverCfr", envelope |-> pump[k].envelope] \in Event
      BY <2>1, PumpShape, EventShape DEF PumpDeliver, SessionTypeOK
    <3>2. QED
      BY <1>0, <2>1, <3>1 DEF PumpDeliver, Emit, Becomes, SessionTypeOK
  <2>2. QED
    BY <1>6, <2>1 DEF PumpProceeds, Eventful
<1>7. ASSUME NEW k \in Channel, PumpEvent(k)
      PROVE  Uneventful \/ Eventful
  <2>1. CASE PumpEnds(k)
    BY <1>0, <2>1 DEF PumpEnds, Becomes, SessionTypeOK
  <2>2. QED
    BY <1>7, <2>1 DEF PumpEvent, Eventful
<1>8. QED
  BY <1>1, <1>2, <1>3, <1>4, <1>5, <1>6, <1>7 DEF SessionNext

LEMMA EventsNext == EventsInv /\ [SessionNext]_allVars => EventsInv'
<1> SUFFICES ASSUME EventsInv, [SessionNext]_allVars PROVE EventsInv'
  OBVIOUS
<1>1. SessionTypeOK /\ FiniteInv' /\ [Next]_vars
  BY FiniteNext, CoreStepOrStutter DEF EventsInv, FiniteInv
<1>2. NegotiationInv'
  BY <1>1, NegotiationNext DEF EventsInv
<1> SUFFICES TerminalTold' /\ ConnectedSound' /\ ClosedSound'
  BY <1>1, <1>2 DEF EventsInv
<1> DEFINE Goal == TerminalTold' /\ ConnectedSound' /\ ClosedSound'
<1>0. UNCHANGED coreVars => applied' = applied
  BY DEF coreVars, vars
<1>3. CASE Uneventful
  BY <1>3, EndFrame, ConnectedFrame, ClosedFrame DEF Uneventful
<1>4. CASE ApplyClose \/ ReportClosed
  <2>1. TerminalTold' /\ ClosedSound'
    BY <1>4, EndApplyClose, EndReportClosed, ClosedApply
  <2>2. ConnectedStays
    <3>1. [kind |-> "Closed"] \in Event
      BY EventShape
    <3>2. QED
      BY <1>1, <1>4, <3>1
         DEF ApplyClose, ReportClosed, Emit, ConnectedStays, Untold, PumpsStay, SessionTypeOK
  <2>3. QED
    BY <2>1, <2>2, ConnectedFrame
<1>5. CASE OnConnectionFailed \/ ReportFailed
  <2>1. TerminalTold'
    BY <1>5, EndCallback
  <2>2. [kind |-> "Failed"] \in Event
    BY EventShape
  <2>3. ConnectedStays /\ ClosedStays
    BY <1>0, <1>5, <2>2
       DEF OnConnectionFailed, ReportFailed, Emit, ConnectedStays, ClosedStays, Untold, PumpsStay
  <2>4. QED
    BY <2>1, <2>3, ConnectedFrame, ClosedFrame
<1>6. ASSUME NEW e \in Inbound, AcceptSignal(e)
      PROVE  Goal
  <2>1. EndStays /\ ConnectedStays
    BY <1>6 DEF AcceptSignal, Idle, EndStays, ConnectedStays, Untold, PumpsStay, reports
  <2>2. ClosedSound'
    BY <1>6, ClosedReceive DEF AcceptSignal, reports
  <2>3. QED
    BY <2>1, <2>2, EndFrame, ConnectedFrame
<1>7. ASSUME NEW k \in Channel, NEW e \in Inbound, PumpMessage(k, e)
      PROVE  Goal
  <2>1. EndStays /\ ConnectedStays
    BY <1>1, <1>7
       DEF PumpMessage, Becomes, Does, EndStays, ConnectedStays, Untold, PumpsStay, reports,
           SessionTypeOK
  <2>2. ClosedSound'
    BY <1>7, ClosedReceive DEF PumpMessage, reports
  <2>3. QED
    BY <2>1, <2>2, EndFrame, ConnectedFrame
<1>8. ASSUME NEW k \in Channel, PumpOpen(k) \/ ReportConnected(k)
      PROVE  Goal
  <2>1. ConnectedSound'
    BY <1>8, ConnectedPump
  <2>2. [kind |-> "Connected"] \in Event
    BY EventShape
  <2>3. CASE PumpOpen(k)
    <3>1. EndStays /\ ClosedStays
      BY <1>1, <2>3
         DEF PumpOpen, TransportConnected, Becomes, Does, EndStays, ClosedStays, Untold,
             PumpsStay, reports, SessionTypeOK
    <3>2. QED
      BY <2>1, <3>1, EndFrame, ClosedFrame
  <2>4. CASE ReportConnected(k)
    <3>1. EndStays /\ ClosedStays
      BY <1>0, <1>1, <2>2, <2>4
         DEF ReportConnected, Emit, Becomes, Does, EndStays, ClosedStays, Untold, PumpsStay,
             SessionTypeOK
    <3>2. QED
      BY <2>1, <3>1, EndFrame, ClosedFrame
  <2>5. QED
    BY <1>8, <2>3, <2>4
<1>9. ASSUME NEW k \in Channel, PumpClosed(k) \/ PumpReportsFailed(k)
      PROVE  Goal
  <2>1. TerminalTold'
    BY <1>9, EndPump
  <2>2. [kind |-> "Failed"] \in Event
    BY EventShape
  <2>3. CASE PumpClosed(k)
    BY <1>0, <1>1, <2>1, <2>3, ConnectedFrame, ClosedFrame
       DEF PumpClosed, Becomes, Does, ConnectedStays, ClosedStays, Untold, PumpsStay,
           SessionTypeOK
  <2>4. CASE PumpReportsFailed(k)
    BY <1>0, <1>1, <2>1, <2>2, <2>4, ConnectedFrame, ClosedFrame
       DEF PumpReportsFailed, Emit, Becomes, Does, ConnectedStays, ClosedStays, Untold,
           PumpsStay, SessionTypeOK
  <2>5. QED
    BY <1>9, <2>3, <2>4
<1>10. QED
  BY <1>1, <1>3, <1>4, <1>5, <1>6, <1>7, <1>8, <1>9, EventSteps DEF Eventful

LEMMA EventsFollow == EventsInv => EventsSound
<1> SUFFICES ASSUME EventsInv PROVE EventsSound
  OBVIOUS
<1>1. PICK t \in Nat, n \in Nat :
        t = Told({"Connected"}) /\ n = Cardinality(PumpsAt("connected"))
  BY EventCount, PumpsCount DEF EventsInv, FiniteInv
<1>2. t + n <= 1
  BY <1>1 DEF EventsInv, ConnectedSound
<1>3. t <= 1 /\ (t = 1 => t + n = 1)
  BY <1>2
<1>4. t = 1 => negotiation[Self].answer # NoId /\ engine.remote # NoId
  BY <1>1, <1>3 DEF EventsInv, ConnectedSound
<1>5. QED
  BY <1>1, <1>3, <1>4 DEF EventsInv, ClosedSound, EventsSound

\* What the application is told is sound, however callback, pumps and accept_signal
\* race for the end of the session: Connected once and of a complete negotiation, one
\* end, and Closed only of a verified close (emit_terminal, pump, process_actions).
THEOREM EventsSafe == SessionSpec => []EventsSound
BY EventsInit, EventsNext, EventsFollow, PTL DEF SessionSpec
=============================================================================
