---------------------------- MODULE MCJwksCache ----------------------------
(* Instances of JwksCache for TLC.                                         *)
EXTENDS JwksCache, TLC

CONSTANTS t1, t2, kid1, kid2, k1, k2, k3

BothAlgs == {"RS256", "HS256"}

(* Tokens that reach the cache ...                                         *)
RS256Tokens == [alg : {"RS256"}, kid : Kids, key : Keys]

(* ... one of them ...                                                     *)
OneToken == { [alg |-> "RS256", kid |-> kid1, key |-> k1] }

(* ... and one of every kind, HS256 ones and one without a kid among them. *)
MixedTokens ==
  { [alg |-> "RS256", kid |-> kid1,  key |-> k2],
    [alg |-> "RS256", kid |-> NoKid, key |-> k1],
    [alg |-> "HS256", kid |-> NoKid, key |-> k1],
    [alg |-> "HS256", kid |-> NoKid, key |-> k2] }

ThreadSymmetry == Permutations(Threads)

=============================================================================
