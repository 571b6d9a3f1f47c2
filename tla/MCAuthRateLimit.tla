--------------------------- MODULE MCAuthRateLimit ---------------------------
(* TLC instance of AuthRateLimit: the limiter has the keys of the tiers. *)
EXTENDS AuthRateLimit, TLC

MCKeys == TierKeys

MCSymmetry == Permutations(Ips) \cup Permutations(Paths) \cup Permutations(Reqs)
=============================================================================
