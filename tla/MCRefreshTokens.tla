--------------------------- MODULE MCRefreshTokens ---------------------------
(* TLC instances of RefreshTokens. *)
EXTENDS RefreshTokens, TLC

MCSymmetry == Permutations(Tokens) \cup Permutations(Reqs)
=============================================================================
