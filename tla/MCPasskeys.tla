----------------------------- MODULE MCPasskeys -----------------------------
(***************************************************************************)
(* An instance of Passkeys for TLC.  Tokens, families and requests are     *)
(* interchangeable: no definition or property names one of them.           *)
(***************************************************************************)
EXTENDS Passkeys, TLC

Interchangeable == Permutations(Token) \cup Permutations(Family) \cup Permutations(Worker)
=============================================================================
