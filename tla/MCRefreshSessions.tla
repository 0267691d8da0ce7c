------------------------- MODULE MCRefreshSessions --------------------------
(***************************************************************************)
(* An instance of RefreshSessions for TLC.  Families, tokens and workers   *)
(* are interchangeable: no definition or property names one of them.       *)
(***************************************************************************)
EXTENDS RefreshSessions, TLC

Interchangeable ==
    Permutations(Family) \cup Permutations(Token) \cup Permutations(Worker)
=============================================================================
