------------------------------ MODULE MCGateway ------------------------------
(* Instances of Gateway for TLC. *)
EXTENDS Gateway, TLC

Route(enabled, async, policy) == [enabled |-> enabled, async |-> async, policy |-> policy]

\* A disabled route, a Mode B route, one that inherits the default policy and
\* one that audits.  The default is None: wherever the code tests a policy, None
\* and RawAudit take different branches, and the other two policies take one of
\* these.
MCRoutes ==
  {Route(FALSE, FALSE, "inherit"), Route(TRUE, TRUE, "inherit"), Route(TRUE, FALSE, "inherit"),
   Route(TRUE, FALSE, "RawAudit")}

MCSymmetry == Permutations(Requests)
=============================================================================
