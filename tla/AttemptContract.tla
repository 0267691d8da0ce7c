--------------------------- MODULE AttemptContract ---------------------------
(***************************************************************************)
(* What a connection attempt promises its two applications, without        *)
(* envelopes, identifiers, a carrier or a replay window: one side          *)
(* proposes, the other considers exactly that proposal and replies, the    *)
(* proposer concludes on exactly that reply, and control payloads pass     *)
(* only between connected sides.  FcpRefinement shows that FcpConnection   *)
(* implements it.                                                          *)
(***************************************************************************)
CONSTANTS
    Side,         \* the sides of all attempts
    PeerOf,       \* the opposite side of each side, which need not be in Side
    Description,  \* terms a side can propose or reply with
    Payload,      \* control payloads
    None

VARIABLES
    stage,   \* how far each side is
    role,    \* who proposed
    terms,   \* the proposal and the reply each side holds
    said,    \* payloads each side has sent
    heard    \* payloads each side was given

contractVars == <<stage, role, terms, said, heard>>

\* A peer outside Side is not bound by this contract.
Bound(c) == PeerOf[c] \in Side

Init ==
    /\ stage = [c \in Side |-> "fresh"]
    /\ role = [c \in Side |-> "none"]
    /\ terms = [c \in Side |-> [proposal |-> None, reply |-> None]]
    /\ said = [c \in Side |-> {}]
    /\ heard = [c \in Side |-> {}]

Propose(c, d) ==
    /\ stage[c] = "fresh"
    /\ stage' = [stage EXCEPT ![c] = "waiting"]
    /\ role' = [role EXCEPT ![c] = "proposer"]
    /\ terms' = [terms EXCEPT ![c] = [proposal |-> d, reply |-> None]]
    /\ UNCHANGED <<said, heard>>

\* Only what the other side proposed can be considered.
Consider(c, d) ==
    /\ stage[c] = "fresh"
    /\ Bound(c) => role[PeerOf[c]] = "proposer" /\ terms[PeerOf[c]].proposal = d
    /\ stage' = [stage EXCEPT ![c] = "considering"]
    /\ role' = [role EXCEPT ![c] = "replier"]
    /\ terms' = [terms EXCEPT ![c] = [proposal |-> d, reply |-> None]]
    /\ UNCHANGED <<said, heard>>

Reply(c, d) ==
    /\ stage[c] = "considering"
    /\ stage' = [stage EXCEPT ![c] = "agreed"]
    /\ terms' = [terms EXCEPT ![c].reply = d]
    /\ UNCHANGED <<role, said, heard>>

\* Only a reply of the other side to this very proposal concludes an attempt.
Conclude(c, d) ==
    /\ stage[c] = "waiting"
    /\ Bound(c) => /\ role[PeerOf[c]] = "replier"
                   /\ terms[PeerOf[c]] = [terms[c] EXCEPT !.reply = d]
    /\ stage' = [stage EXCEPT ![c] = "agreed"]
    /\ terms' = [terms EXCEPT ![c].reply = d]
    /\ UNCHANGED <<role, said, heard>>

Connect(c) ==
    /\ stage[c] = "agreed"
    /\ stage' = [stage EXCEPT ![c] = "connected"]
    /\ UNCHANGED <<role, terms, said, heard>>

Say(c, p) ==
    /\ stage[c] = "connected"
    /\ said' = [said EXCEPT ![c] = @ \cup {p}]
    /\ UNCHANGED <<stage, role, terms, heard>>

\* A payload is heard only while connected, and only if the other side, which then
\* holds the same terms, said it.
Hear(c, p) ==
    /\ stage[c] = "connected"
    /\ Bound(c) => p \in said[PeerOf[c]] /\ terms[PeerOf[c]] = terms[c]
    /\ heard' = [heard EXCEPT ![c] = @ \cup {p}]
    /\ UNCHANGED <<stage, role, terms, said>>

\* Either side may stop at any time after the start, without the other.
Stop(c) ==
    /\ stage[c] \notin {"fresh", "stopped"}
    /\ stage' = [stage EXCEPT ![c] = "stopped"]
    /\ UNCHANGED <<role, terms, said, heard>>

Next ==
    \E c \in Side :
        \/ \E d \in Description :
             Propose(c, d) \/ Consider(c, d) \/ Reply(c, d) \/ Conclude(c, d)
        \/ \E p \in Payload : Say(c, p) \/ Hear(c, p)
        \/ Connect(c)
        \/ Stop(c)

Spec == Init /\ [][Next]_contractVars
=============================================================================
