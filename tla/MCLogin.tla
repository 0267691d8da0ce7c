------------------------------- MODULE MCLogin -------------------------------
(***************************************************************************)
(* An instance of Login for TLC.  Tokens, factors, families and requests   *)
(* are interchangeable: no definition or property names one of them.       *)
(***************************************************************************)
EXTENDS Login, TLC

Interchangeable ==
    Permutations(Token) \cup Permutations(Factor)
      \cup Permutations(Family) \cup Permutations(Worker)
=============================================================================
