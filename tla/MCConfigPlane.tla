---------------------------- MODULE MCConfigPlane ----------------------------
(* Instances of ConfigPlane for TLC. *)
EXTENDS ConfigPlane, TLC

CONSTANTS c0, c1, h0, h1

\* Two configurations with upstreams on different hosts.
MCHostOf == (c0 :> h0) @@ (c1 :> h1)

MCSymmetry == Permutations(Admins)
=============================================================================
