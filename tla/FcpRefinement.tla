---------------------------- MODULE FcpRefinement ----------------------------
(***************************************************************************)
(* FcpConnection implements AttemptContract.  The mapping forgets ids,     *)
(* the replay window and the carrier, and keeps what the application sees: *)
(* how far a side is, the descriptions it holds, the payloads exchanged.   *)
(***************************************************************************)
EXTENDS FcpConnection

StageOf(p) ==
    CASE p = "Idle" -> "fresh"
      [] p = "OfferSent" -> "waiting"
      [] p = "OfferReceived" -> "considering"
      [] p \in {"AnswerSent", "AnswerReceived"} -> "agreed"
      [] p = "Established" -> "connected"
      [] p = "Closed" -> "stopped"

RoleOf(c) ==
    CASE negotiation[c].offer = NoId -> "none"
      [] Initiator(c) -> "proposer"
      [] OTHER -> "replier"

DescriptionOf(id) == IF id = NoId THEN NoId ELSE id.body.description

SaidBy(c) ==
    {p \in Payload : Sign(c, c.local, [kind |-> "CfrControl", payload |-> p]) \in signed}

HeardBy(c) ==
    {p \in Payload : \E i \in DOMAIN applied[c] :
        applied[c][i].body = [kind |-> "CfrControl", payload |-> p]}

\* The contract's variables, as functions of the state of the connections.
stageBar == [c \in Conn |-> StageOf(phase[c])]
roleBar == [c \in Conn |-> RoleOf(c)]
termsBar ==
    [c \in Conn |-> [proposal |-> DescriptionOf(negotiation[c].offer),
                     reply |-> DescriptionOf(negotiation[c].answer)]]
saidBar == [c \in Conn |-> SaidBy(c)]
heardBar == [c \in Conn |-> HeardBy(c)]

Contract == INSTANCE AttemptContract WITH
    Side <- Conn,
    PeerOf <- [c \in Conn |-> Peer(c)],
    None <- NoId,
    stage <- stageBar,
    role <- roleBar,
    terms <- termsBar,
    said <- saidBar,
    heard <- heardBar

\* Each step of the two state machines and their carrier is a step of the contract
\* or invisible in it (every operation of Connection, connection.rs).
ImplementsContract == Contract!Spec
=============================================================================
