------------------------- MODULE MCIdempotencyEngine -------------------------
(* Instances of IdempotencyEngine for TLC. *)
EXTENDS IdempotencyEngine, TLC

CONSTANTS r1, r2, r3, k1, k2, k3

\* Two keys on one shard and one on another.
MCShardOfThree == (k1 :> 0) @@ (k2 :> 0) @@ (k3 :> 1)
MCShardOfSame  == (k1 :> 0) @@ (k2 :> 0)

MCSymmetry == Permutations(Requests)
=============================================================================
