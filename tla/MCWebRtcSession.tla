--------------------------- MODULE MCWebRtcSession ---------------------------
(***************************************************************************)
(* Instances of WebRtcSession for TLC: one session of the only attempt.    *)
(***************************************************************************)
EXTENDS WebRtcSession

CONSTANTS fed, att, me, you

TheSession == [federation |-> fed, attempt |-> att, local |-> me, remote |-> you]

\* Offers, closes and payloads, answers to an offer of this side, and candidates of
\* either offer.
Signals ==
    {e \in ForeignEnvelopes :
        /\ e.recipient = me
        /\ e.body.kind = "Answer" => e.body.offer_id.sender = me
        /\ e.body.kind = "Candidate" =>
             e.body.candidate = 0 /\ e.body.parent_id.body.kind = "Offer"}
=============================================================================
