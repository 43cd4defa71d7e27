----------------------------- MODULE MCAuthCache -----------------------------
(* Instances of AuthCache for TLC. *)
EXTENDS AuthCache, TLC

CONSTANTS t1, t2, k1

\* Two tokens of one key; only the first has a role the mapped operation needs.
MCKeyOf == [t \in Tokens |-> k1]
MCPolicy == [o \in Ops |-> IF o = "mapped" THEN "DenyUnlisted" ELSE "AllowAuthenticated"]
MCRolesFit == t1 :> {"mapped"} @@ t2 :> {}
=============================================================================
