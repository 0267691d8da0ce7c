---------------------------- MODULE WebRtcSession ----------------------------
(***************************************************************************)
(* One WebRtcRsSession of libfcp-webrtc: the connection core of one        *)
(* attempt (FcpConnection), the WebRTC engine it drives, and the bounded   *)
(* queues between them and the application.                                *)
(*                                                                         *)
(* Three kinds of tasks share the session.  The application makes one call *)
(* at a time: most take &mut self.  The engine's driver runs the handler's *)
(* callbacks, one at a time.  Each control data channel has a pump.  They  *)
(* meet at the core's mutex and at the queues, and every await between     *)
(* them is a point where the others run.                                   *)
(*                                                                         *)
(* The peer is in Foreign: its signals and channel messages are any        *)
(* envelopes it can sign, in any order, so what holds here holds for every *)
(* peer.  The engine is external.  It may refuse any call, gathers         *)
(* candidates once it has a local description, and opens channels only     *)
(* when both descriptions are set.                                         *)
(***************************************************************************)
EXTENDS FcpConnection, FiniteSets

CONSTANTS
    Self,            \* the Connection of this session
    Inbound,         \* bound: the envelopes the peer sends, as signals or on a channel
    Channel,         \* data channels either side may create
    SignalCapacity,  \* SIGNAL_EVENT_CAPACITY
    EventCapacity,   \* ENGINE_EVENT_CAPACITY
    MaxStaged        \* MAX_STAGED_LOCAL_CANDIDATES

ASSUME SelfAssumption == Self \in Conn /\ Self.remote \in Foreign
ASSUME InboundAssumption == Inbound \subseteq ForeignEnvelopes
\* Candidates are named by the sequence number the handler gives them.
ASSUME CandidateAssumption == \A k \in Candidate : k \in Nat /\ 0..k \subseteq Candidate
ASSUME CapacityAssumption ==
    /\ SignalCapacity \in Nat \ {0}
    /\ EventCapacity \in Nat \ {0}
    /\ MaxStaged \in Nat \ {0}
ASSUME NoChannelAssumption == NoId \notin Channel /\ NoId \notin Description

VARIABLES
    queue,     \* signals: signed envelopes the application has not taken
    taken,     \* signals the application was given
    staged,    \* Shared.staged_candidates
    sequence,  \* Shared.candidate_sequence
    emitted,   \* all SessionEvents ever sent to the application, oldest first
    drained,   \* how many of them the application has taken
    terminal,  \* Shared.terminal
    control,   \* Shared.control
    app,       \* the application's call in progress
    callback,  \* the engine's callback in progress
    pump,      \* the pump of each channel
    engine     \* what the engine was given, and whether it is open

queues == <<queue, taken, staged, sequence>>
reports == <<emitted, drained, terminal>>
coreVars == vars
sessionVars == <<queues, reports, control, app, callback, pump, engine>>
allVars == <<coreVars, sessionVars>>

-----------------------------------------------------------------------------

Event ==
    [kind : {"Connected", "Closed", "Failed"}]
      \cup [kind : {"DeliverCfr"}, envelope : CfrControls]

Does(op) == [op |-> op]

\* A call of the application, between two of its awaits or lock regions.
Call ==
    [op : {"idle", "offering", "flush", "take", "closing", "shutting"}]
      \cup [op : {"described"}, kind : {"Offer", "Answer"}, description : Description]
      \cup [op : {"sending"}, envelope : Offers \cup Answers]
      \cup [op : {"flushing"}, list : Seq(Candidate), next : {"idle", "take"}]
      \cup [op : {"applying"}, envelope : Envelope]

Callback == [op : {"idle", "failing"}] \cup [op : {"staging"}, candidate : Candidate]

Pump ==
    [op : {"unused", "waiting", "connected", "polling", "failing", "done"}]
      \cup [op : {"delivering"}, envelope : CfrControls]

SessionTypeOK ==
    /\ TypeOK
    /\ queue \in Seq(Envelope) /\ Len(queue) <= SignalCapacity
    /\ taken \subseteq Envelope
    /\ staged \in Seq(Candidate) /\ Len(staged) <= MaxStaged
    /\ sequence \in Nat
    /\ emitted \in Seq(Event)
    /\ drained \in Nat
    /\ drained <= Len(emitted) /\ Len(emitted) - drained <= EventCapacity
    /\ terminal \in BOOLEAN
    /\ control \in Channel \cup {NoId}
    /\ app \in Call
    /\ callback \in Callback
    /\ pump \in [Channel -> Pump]
    /\ engine \in [local : BOOLEAN, remote : Description \cup {NoId}, open : BOOLEAN]

\* WebRtcRsSession::new.
SessionInit ==
    /\ Init
    /\ queue = <<>> /\ taken = {} /\ staged = <<>> /\ sequence = 0
    /\ emitted = <<>> /\ drained = 0 /\ terminal = FALSE
    /\ control = NoId
    /\ app = Does("idle")
    /\ callback = Does("idle")
    /\ pump = [k \in Channel |-> Does("unused")]
    /\ engine = [local |-> FALSE, remote |-> NoId, open |-> TRUE]

-----------------------------------------------------------------------------
(* The queues. *)

\* Mutant of HasRoom: one slot is never used.
HasRoom_Short(q) == Len(q) + 1 < SignalCapacity

HasRoom(q) == Len(q) < SignalCapacity

\* try_send with its result ignored: a full queue loses the signal.
TrySend(q, e) == IF HasRoom(q) THEN Append(q, e) ELSE q

\* Mutant of Stage: the list grows without a limit.
Stage_Unbounded(s, k) == Append(s, k)

\* A full list drops its oldest candidate.
Stage(s, k) == Append(IF Len(s) = MaxStaged THEN Tail(s) ELSE s, k)

\* Connection::candidate would sign now.
Signable == phase[Self] \in Negotiating /\ negotiation[Self].offer # NoId

CandidateSignal(k) ==
    Sign(Self, Self.local, [kind |-> "Candidate", parent_id |-> Parent(Self), candidate |-> k])

\* The signing arm of emit_or_stage_candidate.
EmitCandidate(k) ==
    /\ SendCandidate(Self, Self.local, k)
    /\ queue' = TrySend(queue, CandidateSignal(k))

\* A bounded tokio channel: send waits while the application has not drained it.
CanEmit == Len(emitted) - drained < EventCapacity

Emit(event) ==
    /\ CanEmit
    /\ emitted' = Append(emitted, event)
    /\ UNCHANGED drained

\* Mutant of FirstTerminal: the flag is read and never set.
FirstTerminal_Unset == ~ terminal /\ UNCHANGED terminal

\* emit_terminal's compare_exchange, when it is the first.
FirstTerminal == ~ terminal /\ terminal' = TRUE

-----------------------------------------------------------------------------
(* Calls of the application. *)

Idle == app.op = "idle"

NewChannel(k) ==
    /\ pump[k].op = "unused"
    /\ control' = k
    /\ pump' = [pump EXCEPT ![k] = Does("waiting")]

\* begin_offer, to its first await after install_local_control_channel.
CallBeginOffer(k) ==
    /\ Idle
    /\ engine.open
    /\ NewChannel(k)
    /\ app' = Does("offering")
    /\ UNCHANGED <<coreVars, queues, reports, callback, engine>>

\* create_offer and set_local_description: the engine may start to gather.
DescribeOffer(d) ==
    /\ app.op = "offering"
    /\ engine.open
    /\ engine' = [engine EXCEPT !.local = TRUE]
    /\ app' = [op |-> "described", kind |-> "Offer", description |-> d]
    /\ UNCHANGED <<coreVars, queues, reports, control, callback, pump>>

\* answer: create_answer needs a remote description.
CallAnswer(d) ==
    /\ Idle
    /\ engine.open /\ engine.remote # NoId
    /\ engine' = [engine EXCEPT !.local = TRUE]
    /\ app' = [op |-> "described", kind |-> "Answer", description |-> d]
    /\ UNCHANGED <<coreVars, queues, reports, control, callback, pump>>

\* The core signs under its mutex; the signal is queued after the unlock.
SignOffer ==
    /\ app.op = "described" /\ app.kind = "Offer"
    /\ BeginOffer(Self, Self.local, app.description)
    /\ app' = [op |-> "sending", envelope |-> negotiation'[Self].offer]
    /\ UNCHANGED <<queues, reports, control, callback, pump, engine>>

SignAnswer ==
    /\ app.op = "described" /\ app.kind = "Answer"
    /\ Answer(Self, Self.local, app.description)
    /\ app' = [op |-> "sending", envelope |-> negotiation'[Self].answer]
    /\ UNCHANGED <<queues, reports, control, callback, pump, engine>>

\* process_actions, Action::Send.
QueueSignal ==
    /\ app.op = "sending"
    /\ HasRoom(queue)
    /\ queue' = Append(queue, app.envelope)
    /\ app' = Does("flush")
    /\ UNCHANGED <<coreVars, taken, staged, sequence, reports, control, callback, pump, engine>>

\* A call returns Err: the engine refuses, the core refuses, or the signal queue is
\* full.  What the call did before stays done: an engine that refuses to shut stays
\* open after Closed was told.
CallFails ==
    /\ \/ app.op \in {"offering", "described", "shutting"}
       \/ app.op = "applying" /\ app.envelope.body.kind \in {"Offer", "Answer", "Candidate"}
       \/ app.op = "sending" /\ ~ HasRoom(queue)
    /\ app' = Does("idle")
    /\ UNCHANGED <<coreVars, queues, reports, control, callback, pump, engine>>

Flushing(next) == [op |-> "flushing", list |-> staged, next |-> next]

\* Mutant of Flush: the staged candidates are copied, not taken.
Flush_Copy ==
    /\ app.op = "flush"
    /\ app' = Flushing("take")
    /\ UNCHANGED <<coreVars, queues, reports, control, callback, pump, engine>>

\* flush_staged_candidates: take the whole list first.
Flush ==
    /\ app.op = "flush"
    /\ app' = Flushing("take")
    /\ staged' = <<>>
    /\ UNCHANGED <<coreVars, queue, taken, sequence, reports, control, callback, pump, engine>>

\* Then emit or stage again one after the other.
FlushOne ==
    /\ app.op = "flushing" /\ app.list # <<>>
    /\ \/ EmitCandidate(Head(app.list)) /\ UNCHANGED staged
       \/ /\ ~ Signable
          /\ staged' = Stage(staged, Head(app.list))
          /\ UNCHANGED <<coreVars, queue>>
    /\ app' = [op |-> "flushing", list |-> Tail(app.list), next |-> app.next]
    /\ UNCHANGED <<taken, sequence, reports, control, callback, pump, engine>>

FlushEnds ==
    /\ app.op = "flushing" /\ app.list = <<>>
    /\ app' = Does(app.next)
    /\ UNCHANGED <<coreVars, queues, reports, control, callback, pump, engine>>

\* try_take_signal, called by the application, or by begin_offer and answer, which have
\* queued a signal of their own and so find one; a taken signal is followed by a flush.
TakeSignal ==
    /\ app.op \in {"idle", "take"}
    /\ queue # <<>>
    /\ taken' = taken \cup {Head(queue)}
    /\ queue' = Tail(queue)
    /\ staged' = <<>>
    /\ app' = Flushing("idle")
    /\ UNCHANGED <<coreVars, sequence, reports, control, callback, pump, engine>>

TryTakeEvent ==
    /\ Idle
    /\ drained < Len(emitted)
    /\ drained' = drained + 1
    /\ UNCHANGED <<coreVars, queues, emitted, terminal, control, app, callback, pump, engine>>

\* send_cfr: signed under the mutex, sent over the control channel.
SendCfr(p) ==
    /\ Idle
    /\ control # NoId
    /\ SendCfrControl(Self, Self.local, p)
    /\ UNCHANGED sessionVars

\* begin_close returns its signal directly.
CallBeginClose ==
    /\ Idle
    /\ Close(Self, Self.local)
    /\ taken' = taken \cup {Sign(Self, Self.local, [kind |-> "Close"])}
    /\ UNCHANGED <<queue, staged, sequence, reports, control, app, callback, pump, engine>>

CallClose ==
    /\ Idle
    /\ engine.open
    /\ engine' = [engine EXCEPT !.open = FALSE]
    /\ UNCHANGED <<coreVars, queues, reports, control, app, callback, pump>>

-----------------------------------------------------------------------------
(* accept_signal. *)

\* Mutant of AcceptSignal: the engine is driven before the core has accepted.
AcceptSignal_Unchecked(e) ==
    /\ Idle
    /\ ValidInbound(Self, e)
    /\ \/ Receive(Self, e)
       \/ e.body.kind \in {"Offer", "Answer"} /\ UNCHANGED coreVars
    /\ app' = [op |-> "applying", envelope |-> e]
    /\ UNCHANGED <<queues, reports, control, callback, pump, engine>>

\* The core accepts under its mutex; the action is carried out after the unlock.
AcceptSignal(e) ==
    /\ Idle
    /\ Receive(Self, e)
    /\ app' = [op |-> "applying", envelope |-> e]
    /\ UNCHANGED <<queues, reports, control, callback, pump, engine>>

\* process_actions: ApplyOffer, ApplyAnswer.
ApplyDescription ==
    /\ app.op = "applying" /\ app.envelope.body.kind \in {"Offer", "Answer"}
    /\ engine.open
    /\ engine' = [engine EXCEPT !.remote = app.envelope.body.description]
    /\ app' = Does("idle")
    /\ UNCHANGED <<coreVars, queues, reports, control, callback, pump>>

AddCandidate ==
    /\ app.op = "applying" /\ app.envelope.body.kind = "Candidate"
    /\ engine.open /\ engine.remote # NoId
    /\ app' = Does("idle")
    /\ UNCHANGED <<coreVars, queues, reports, control, callback, pump, engine>>

\* DeliverCfr waits for room in a queue that only the waiting application drains.
DeliverAccepted ==
    /\ app.op = "applying" /\ app.envelope.body.kind = "CfrControl"
    /\ Emit([kind |-> "DeliverCfr", envelope |-> app.envelope])
    /\ app' = Does("idle")
    /\ UNCHANGED <<coreVars, queues, terminal, control, callback, pump, engine>>

\* CloseTransport: claim the end, unless another task has.
ApplyClose ==
    /\ app.op = "applying" /\ app.envelope.body.kind = "Close"
    /\ \/ FirstTerminal /\ app' = Does("closing")
       \/ terminal /\ UNCHANGED terminal /\ app' = Does("shutting")
    /\ UNCHANGED <<coreVars, queues, emitted, drained, control, callback, pump, engine>>

\* The application is told first, while the engine still runs.
ReportClosed ==
    /\ app.op = "closing"
    /\ Emit([kind |-> "Closed"])
    /\ app' = Does("shutting")
    /\ UNCHANGED <<coreVars, queues, terminal, control, callback, pump, engine>>

\* Only then is the engine closed, if it does not refuse (CallFails).
ShutEngine ==
    /\ app.op = "shutting"
    /\ engine' = [engine EXCEPT !.open = FALSE]
    /\ app' = Does("idle")
    /\ UNCHANGED <<coreVars, queues, reports, control, callback, pump>>

-----------------------------------------------------------------------------
(* The engine's callbacks. *)

\* on_ice_candidate: signed and queued, or found unsignable and about to be staged.
OnIceCandidate ==
    /\ callback.op = "idle"
    /\ engine.local /\ engine.open
    /\ sequence \in Candidate
    /\ sequence' = sequence + 1
    /\ \/ EmitCandidate(sequence) /\ UNCHANGED callback
       \/ /\ ~ Signable
          /\ callback' = [op |-> "staging", candidate |-> sequence]
          /\ UNCHANGED <<coreVars, queue>>
    /\ UNCHANGED <<taken, staged, reports, control, app, pump, engine>>

\* The core's mutex was released before the list is locked.
StageCandidate ==
    /\ callback.op = "staging"
    /\ staged' = Stage(staged, callback.candidate)
    /\ callback' = Does("idle")
    /\ UNCHANGED <<coreVars, queue, taken, sequence, reports, control, app, pump, engine>>

\* on_connection_state_change(Failed); the core is not told.
OnConnectionFailed ==
    /\ callback.op = "idle"
    /\ engine.local /\ engine.open
    /\ FirstTerminal
    /\ callback' = Does("failing")
    /\ UNCHANGED <<coreVars, queues, emitted, drained, control, app, pump, engine>>

ReportFailed ==
    /\ callback.op = "failing"
    /\ Emit([kind |-> "Failed"])
    /\ callback' = Does("idle")
    /\ UNCHANGED <<coreVars, queues, terminal, control, app, pump, engine>>

\* on_data_channel for a channel with the control channel's properties.
OnDataChannel(k) ==
    /\ callback.op = "idle"
    /\ engine.local /\ engine.remote # NoId /\ engine.open
    /\ NewChannel(k)
    /\ UNCHANGED <<coreVars, queues, reports, app, callback, engine>>

-----------------------------------------------------------------------------
(* The pump of channel k. *)

Becomes(k, state) == pump' = [pump EXCEPT ![k] = state]

\* OnOpen: the core first, the application after the unlock.
PumpOpen(k) ==
    /\ pump[k].op = "waiting"
    /\ engine.local /\ engine.remote # NoId /\ engine.open
    /\ TransportConnected(Self)
    /\ Becomes(k, Does("connected"))
    /\ UNCHANGED <<queues, reports, control, app, callback, engine>>

ReportConnected(k) ==
    /\ pump[k].op = "connected"
    /\ Emit([kind |-> "Connected"])
    /\ Becomes(k, Does("polling"))
    /\ UNCHANGED <<coreVars, queues, terminal, control, app, callback, engine>>

\* OnMessage: payloads are passed on, all other actions of the core are ignored.
PumpMessage(k, e) ==
    /\ pump[k].op = "polling"
    /\ engine.open
    /\ Receive(Self, e)
    /\ Becomes(k, IF e.body.kind = "CfrControl"
                  THEN [op |-> "delivering", envelope |-> e] ELSE Does("polling"))
    /\ UNCHANGED <<queues, reports, control, app, callback, engine>>

\* Mutant of PumpDeliver: a full queue loses the payload.
PumpDeliver_Try(k) ==
    /\ pump[k].op = "delivering"
    /\ emitted' = IF CanEmit
                  THEN Append(emitted, [kind |-> "DeliverCfr", envelope |-> pump[k].envelope])
                  ELSE emitted
    /\ Becomes(k, Does("polling"))
    /\ UNCHANGED <<coreVars, queues, drained, terminal, control, app, callback, engine>>

PumpDeliver(k) ==
    /\ pump[k].op = "delivering"
    /\ Emit([kind |-> "DeliverCfr", envelope |-> pump[k].envelope])
    /\ Becomes(k, Does("polling"))
    /\ UNCHANGED <<coreVars, queues, terminal, control, app, callback, engine>>

\* The core refuses the opening or a message, or bytes do not decode: the pump ends
\* without a word.
PumpEnds(k) ==
    /\ \/ /\ pump[k].op = "waiting"
          /\ engine.local /\ engine.remote # NoId
          /\ phase[Self] \notin {"AnswerSent", "AnswerReceived"}
       \/ pump[k].op = "polling"
    /\ engine.open
    /\ Becomes(k, Does("done"))
    /\ UNCHANGED <<coreVars, queues, reports, control, app, callback, engine>>

\* OnClose of an open channel, or no more events once the engine is closed.
PumpClosed(k) ==
    /\ pump[k].op = "polling" \/ (pump[k].op = "waiting" /\ ~ engine.open)
    /\ \/ FirstTerminal /\ Becomes(k, Does("failing"))
       \/ terminal /\ UNCHANGED terminal /\ Becomes(k, Does("done"))
    /\ UNCHANGED <<coreVars, queues, emitted, drained, control, app, callback, engine>>

PumpReportsFailed(k) ==
    /\ pump[k].op = "failing"
    /\ Emit([kind |-> "Failed"])
    /\ Becomes(k, Does("done"))
    /\ UNCHANGED <<coreVars, queues, terminal, control, app, callback, engine>>

-----------------------------------------------------------------------------

\* The part of a call that runs by itself once it was made.
Proceed ==
    \/ \E d \in Description : DescribeOffer(d)
    \/ SignOffer \/ SignAnswer \/ QueueSignal \/ CallFails
    \/ Flush \/ FlushOne \/ FlushEnds
    \/ ApplyDescription \/ AddCandidate \/ DeliverAccepted
    \/ ApplyClose \/ ReportClosed \/ ShutEngine

Application ==
    \/ \E k \in Channel : CallBeginOffer(k)
    \/ \E d \in Description : CallAnswer(d)
    \/ \E e \in Inbound : AcceptSignal(e)
    \/ \E p \in Payload : SendCfr(p)
    \/ TakeSignal \/ TryTakeEvent \/ CallBeginClose \/ CallClose

CallbackProceeds == StageCandidate \/ ReportFailed

EngineEvent ==
    \/ OnIceCandidate \/ OnConnectionFailed
    \/ \E k \in Channel : OnDataChannel(k)

PumpProceeds(k) == ReportConnected(k) \/ PumpDeliver(k) \/ PumpReportsFailed(k)

PumpEvent(k) ==
    \/ PumpOpen(k) \/ PumpEnds(k) \/ PumpClosed(k)
    \/ \E e \in Inbound : PumpMessage(k, e)

SessionNext ==
    \/ Proceed \/ Application
    \/ CallbackProceeds \/ EngineEvent
    \/ \E k \in Channel : PumpProceeds(k) \/ PumpEvent(k)

SessionSpec == SessionInit /\ [][SessionNext]_allVars

\* The runtime runs a task that can go on; the application keeps draining both queues
\* (docs/integration.md: "Each side regularly drains `try_take_signal()`", "Drain
\* `try_take_event()` regularly"), whatever other calls it makes in between.
FairSessionSpec ==
    /\ SessionSpec
    /\ WF_allVars(Proceed)
    /\ WF_allVars(CallbackProceeds)
    /\ \A k \in Channel : WF_allVars(PumpProceeds(k))
    /\ SF_allVars(TakeSignal)
    /\ SF_allVars(TryTakeEvent)

-----------------------------------------------------------------------------
(* Properties. *)

\* The positions of s that hold a member of T; counted, so that a duplicate shows.
Where(s, T) == {i \in DOMAIN s : s[i] \in T}
Count(s, T) == Cardinality(Where(s, T))
Ways(condition) == IF condition THEN 1 ELSE 0

\* The description the engine connects with is the one the core negotiated, although
\* it is applied after the core's mutex is released and calls fail half-way: the
\* answer on the initiator's side, the offer on the responder's (process_actions,
\* ApplyOffer and ApplyAnswer).
EngineMatchesNegotiation ==
    engine.remote # NoId =>
        LET id == IF Initiator(Self) THEN negotiation[Self].answer
                                     ELSE negotiation[Self].offer
        IN  id # NoId /\ id.body.description = engine.remote

\* While fewer candidates were gathered than the signal queue holds, no signal is lost:
\* what the core has signed for signaling is queued, about to be queued or in the
\* application's hands, so begin_offer and answer, which return whatever is first,
\* leave their own envelope to be drained (emit_or_stage_candidate, process_actions,
\* try_take_signal).
NoSignalLost ==
    sequence < SignalCapacity =>
        \A e \in signed :
            \/ e.body.kind = "CfrControl"
            \/ e \in taken
            \/ \E i \in DOMAIN queue : queue[i] = e
            \/ app.op = "sending" /\ app.envelope = e

\* The candidates a flush has taken off the list and not looked at yet.
Unflushed == IF app.op = "flushing" THEN app.list ELSE <<>>

Staging(k) == callback.op = "staging" /\ callback.candidate = k

SignedFor(k) == {e \in signed : e.body.kind = "Candidate" /\ e.body.candidate = k}

Places(k) ==
    Ways(Staging(k)) + Count(staged, {k}) + Count(Unflushed, {k}) + Cardinality(SignedFor(k))

\* A gathered candidate is in one place: in the callback, staged, being flushed or
\* signed.  It is never signed twice, with one parent or with two, and while the staging
\* list has not overflowed it is never lost, however callback, flush and the core's
\* phase interleave (emit_or_stage_candidate, flush_staged_candidates).
CandidateInOnePlace ==
    \A k \in Candidate : k < sequence =>
        /\ Places(k) <= 1
        /\ sequence <= MaxStaged => Places(k) = 1

PumpsAt(op) == {k \in Channel : pump[k].op = op}

\* The pumps that wait for room to deliver e.
Delivering(e) == {k \in PumpsAt("delivering") : pump[k].envelope = e}

\* Every accepted payload is delivered exactly as often as the core accepted it, or a
\* task is waiting for room to deliver it: a full event queue, a closing session or
\* a second channel loses and doubles none (pump, process_actions DeliverCfr).
CfrDeliveredOnce ==
    \A e \in CfrControls :
        Count(applied[Self], {e}) =
            Count(emitted, {[kind |-> "DeliverCfr", envelope |-> e]})
              + Ways(app.op = "applying" /\ app.envelope = e)
              + Cardinality(Delivering(e))

\* How often the application was told one of these.
Told(kinds) == Count(emitted, [kind : kinds])

\* The end that was claimed is told once, or about to be.
TerminalTold ==
    Ways(terminal) =
        Told({"Closed", "Failed"}) + Ways(app.op = "closing")
          + Ways(callback.op = "failing") + Cardinality(PumpsAt("failing"))

ToldClosed == \E i \in DOMAIN emitted : emitted[i].kind = "Closed"

\* The application is told Connected at most once, of a complete negotiation the engine
\* has applied; it is told of the end at most once, Closed only when exactly one close of
\* the peer was verified, and the end that was claimed is told or about to be,
\* whichever of callback, pumps and accept_signal came first.  Closed says nothing of
\* the engine, which is shut afterwards and may refuse (emit_terminal, pump,
\* process_actions CloseTransport).
EventsSound ==
    /\ Told({"Connected"}) <= 1
    /\ Told({"Connected"}) = 1 => negotiation[Self].answer # NoId /\ engine.remote # NoId
    /\ TerminalTold
    /\ ToldClosed => Count(applied[Self], Closes) = 1

-----------------------------------------------------------------------------

\* session.rs, begin_offer: "Further local candidates can be retrieved with
\* [`Self::try_take_signal`]": a candidate that was staged around begin_offer is signed
\* and queued afterwards, unless the attempt ends.
StagedIsOffered ==
    \A k \in Candidate :
        ((\E i \in DOMAIN staged : staged[i] = k) /\ phase[Self] = "OfferSent") ~>
            ((\E e \in signed : e.body.kind = "Candidate" /\ e.body.candidate = k)
               \/ phase[Self] = "Closed")

\* docs/security.md: "A verified remote close is surfaced as `SessionEvent::Closed`":
\* once the core has closed on one and accept_signal is not at work, the application
\* has at least been told, or is about to be, that the session ended.
RemoteCloseSurfaces ==
    (Idle /\ \E i \in DOMAIN applied[Self] : applied[Self][i].body.kind = "Close") =>
        terminal

-----------------------------------------------------------------------------
(* What the properties rest on. *)

\* begin_offer or answer has signed.
Described == \E e \in signed : e.body.kind \in {"Offer", "Answer"}

\* The candidates that wait to be signed.
Pending == Len(staged) + Len(Unflushed) + Ways(callback.op = "staging")

\* No task makes a candidate or a signal out of nothing.  A session describes itself
\* once, so one signal beyond its candidates is ever queued.
Conserved ==
    /\ phase[Self] \in {"Idle", "OfferReceived"} => ~ Described
    /\ Pending <= sequence
    /\ Len(queue) + Ways(app.op = "sending") + Pending <= sequence + Ways(Described)

NotGatheredYet == \A k \in Candidate : sequence <= k => Places(k) = 0

PumpsUsed == {k \in Channel : pump[k].op # "unused"}

\* Only finitely much has happened.
Finite == IsFiniteSet(signed) /\ IsFiniteSet(PumpsUsed)

\* Connected is reported of the one transition of the core to Established.
ConnectedSound ==
    /\ Told({"Connected"}) + Cardinality(PumpsAt("connected")) <= 1
    /\ Told({"Connected"}) + Cardinality(PumpsAt("connected")) = 1 =>
         /\ phase[Self] \in {"Established", "Closed"}
         /\ negotiation[Self].answer # NoId /\ engine.remote # NoId

\* Closed is reported of the one close the core has accepted.
ClosedSound ==
    /\ Count(applied[Self], Closes) <= 1
    /\ phase[Self] # "Closed" => Count(applied[Self], Closes) = 0
    /\ (\/ app.op = "applying" /\ app.envelope \in Closes
        \/ app.op = "closing"
        \/ ToldClosed) => Count(applied[Self], Closes) = 1
=============================================================================
