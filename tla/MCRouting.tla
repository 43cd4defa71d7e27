------------------------------- MODULE MCRouting -------------------------------
(* Instances of Routing for TLC. *)
EXTENDS Routing, TLC

CONSTANTS c1, c2, c3

App(id, domains, paths, upstream, prefix) ==
  [id |-> id, domains |-> domains, paths |-> paths, upstream |-> upstream,
   subject_prefix |-> prefix]

RouteTo(op, enabled, mode, upstream, audit) ==
  [operation |-> op, enabled |-> enabled, mode |-> mode, upstream |-> upstream,
   audit |-> audit]

\* The names that differ in case only.
MCFold(name) ==
  CASE name = "A" -> "a" [] name = "H1" -> "h1" [] name = "x" -> "X" [] name = "y" -> "Y"
    [] name = "z" -> "Z"
    [] OTHER -> name

\* Two tenants; X goes to b's service, Y is taken over at the edge.
Config1 ==
  [apps |-> <<App("a", {"h1"}, {}, "ua", None), App("b", {"h2"}, {"p2"}, "ub", "px")>>,
   default_app |-> "b",
   upstreams |-> ("default" :> "d1") @@ ("ua" :> "x1") @@ ("ub" :> "x2"),
   routes |-> {RouteTo("X", TRUE, "sync", "ub", TRUE),
              RouteTo("Y", TRUE, "async", "ub", None)},
   audit |-> FALSE, rejects |-> {}, screens |-> {"X"}]

\* Application a moved and lost its upstream, X is disabled, Y is forwarded,
\* Z is refused by an interceptor, all responses are intercepted.
Config2 ==
  [apps |-> <<App("a", {"h1"}, {"p2"}, "gone", "px")>>,
   default_app |-> None,
   upstreams |-> ("default" :> "d2") @@ ("ub" :> "x3"),
   routes |-> {RouteTo("X", FALSE, "sync", "ub", None),
              RouteTo("Y", TRUE, "sync", "gone", FALSE)},
   audit |-> TRUE, rejects |-> {"Z"}, screens |-> {"*"}]

\* No applications; two routes for X, one of them disabled; Y is disabled and Z
\* taken over at the edge, both written in lower case.
Config3 ==
  [apps |-> <<>>,
   default_app |-> None,
   upstreams |-> "default" :> "d3",
   routes |-> {RouteTo("X", FALSE, "async", None, None),
              RouteTo("X", TRUE, "sync", "default", None),
              RouteTo("y", FALSE, "async", None, None), RouteTo("z", TRUE, "async", None, None)},
   audit |-> FALSE, rejects |-> {}, screens |-> {}]

MCCfg == (c1 :> Config1) @@ (c2 :> Config2) @@ (c3 :> Config3)

\* Named and anonymous operations, some named unlike their field or matching two
\* routes, some written in another case than the configuration.
MCInputs ==
  [header: {None, "A"}, host: {"H1", "h3"}, path: {"p1", "p2", "p3"}, decodes: {TRUE},
   name: {"X", "Z"}, fields: {{"X"}, {"X", "Y"}, {"Z"}}] \union
  [header: {None}, host: {"h2"}, path: {"p1"}, decodes: {TRUE},
   name: {"Y", None}, fields: {{"Y"}, {"x"}}] \union
  [header: {None}, host: {"h1"}, path: {"p1", "p2"}, decodes: {FALSE},
   name: {None}, fields: {{}}]
=============================================================================
