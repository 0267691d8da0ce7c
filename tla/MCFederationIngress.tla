------------------------- MODULE MCFederationIngress -------------------------
(***************************************************************************)
(* An instance of FederationIngress for TLC.  Keys, request identifiers    *)
(* and requests are interchangeable.  Requests bring deliveries that are   *)
(* sound or have one defect: a wrong sender or recipient, too large a      *)
(* payload, somebody else's signature, or a fault in their times.          *)
(***************************************************************************)
EXTENDS FederationIngress, FiniteSets, TLC

Interchangeable ==
    Permutations(Key) \cup Permutations(Request) \cup Permutations(Worker)

\* Times of issue and expiry and the expiry that was signed, with two ticks to the
\* second: acceptable at once, with an expiry later in the second that was signed, and
\* acceptable in the second second, within the skew.
Acceptable == {<<1, 3, 2>>, <<5, 6, 6>>}

\* An expiry in a later second than was signed, no lifetime, too long a lifetime.
Faulty == {<<1, 3, 1>>, <<3, 2, 2>>, <<1, 5, 5>>}

Times(m) == <<m.delivery.issued_at, m.delivery.expires_at, m.original.expires_at>>

Defects(m) ==
    {defect \in {"sender", "recipient", "payload", "signature", "time"} :
       LET d == m.delivery IN
         \/ defect = "sender" /\ d.sender # d.source
         \/ defect = "recipient" /\ d.recipient # d.destination
         \/ defect = "payload" /\ d.oversized
         \/ defect = "signature" /\ m.identity # m.signer
         \/ defect = "time" /\ Times(m) \in Faulty}

\* The same delivery, perhaps with another time of expiry.
Expiring(d) == {[d EXCEPT !.expires_at = t] : t \in Stamp}

OneDefectAtMost ==
    {m \in UNION {[delivery : {d}, identity : Key, signer : Key, original : Expiring(d)] :
                    d \in Delivery} :
       Times(m) \in Acceptable \cup Faulty /\ Cardinality(Defects(m)) <= 1}
=============================================================================
