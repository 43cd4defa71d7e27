-------------------------- MODULE MCRedisIdempotency --------------------------
(* Instances of RedisIdempotency for TLC. *)
EXTENDS RedisIdempotency, TLC

CONSTANTS r1, r2, r3, g1, g2

\* Two requests share a gateway, the third has its own.
MCGatewayOf == (r1 :> g1) @@ (r2 :> g1) @@ (r3 :> g2)
=============================================================================
