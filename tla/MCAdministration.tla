-------------------------- MODULE MCAdministration --------------------------
(***************************************************************************)
(* An instance of Administration for TLC.  Identifiers, tokens and         *)
(* requests are interchangeable: no definition or property names one.      *)
(***************************************************************************)
EXTENDS Administration, TLC

\* One role granted and revoked, and the grant of ownership, which is refused.
Changes == {c \in Change : c.role = "admin" \/ (c.role = "owner" /\ c.grant)}

Interchangeable ==
    Permutations(Tenant) \cup Permutations(Account) \cup Permutations(Family)
      \cup Permutations(Grant) \cup Permutations(Worker)
=============================================================================
