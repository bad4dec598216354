-------------------------- MODULE MCServiceTokens --------------------------
(* Instances of ServiceTokens for TLC.                                       *)
EXTENDS ServiceTokens, TLC

Alike == Permutations(Rotators) \union Permutations(Tokens) \union Permutations(Calls)
=============================================================================
