-------------------------------- MODULE Routing --------------------------------
(***************************************************************************)
(* Where a request goes, and through which filters, while configurations   *)
(* are hot-reloaded: the phases of CompositeServiceProxy                   *)
(* (src/gateway/composite_service.rs) that read dynamic_state, the route   *)
(* matching of StrategyRouter (src/gateway/filters/strategy.rs) and the    *)
(* coverage report of src/admin/schema_inspector.rs, which classifies the  *)
(* same routes.                                                            *)
(*                                                                         *)
(* Each phase loads the state anew, so one request may meet several        *)
(* configurations; request_filter keeps the one it loaded first across its *)
(* awaits.  Locks, dispatches and interceptor verdicts are modelled in     *)
(* Gateway and Interceptors, loading and storing a configuration in        *)
(* ConfigPlane.                                                            *)
(***************************************************************************)
EXTENDS Naturals, Sequences

CONSTANTS
  Requests,  \* connections, each handling one request after the other
  Inputs,    \* what a request may look like
  Configs,   \* names of configurations
  Cfg,       \* Cfg[c]: the DynamicGatewayState built from c
  Served,    \* the paths for which a service is registered
  Service,   \* the address of that service
  Fold(_),   \* a name in lower case, as eq_ignore_ascii_case compares it
  None       \* no application, route, upstream or configuration

ASSUME RoutingAssumption ==
  /\ \A c \in Configs : "default" \in DOMAIN Cfg[c].upstreams
  /\ None \notin Configs

VARIABLES
  live,  \* the configuration in dynamic_state
  req    \* req[r]: the context of the request r is handling, or handled last

vars == <<live, req>>

\* A context; audit says whether its dispatch_policy is RawAudit.  The fields
\* from seen on are history: the configurations met so far, how the request was
\* answered, the topic of its own event (not of its terminal event), where it
\* was sent, whether a part of the response went to the client as it was, and
\* whose interceptors had it.
Rest ==
  [at |-> "idle", input |-> None, app |-> None, target |-> None, snap |-> None,
   topic |-> None, operation |-> None, audit |-> FALSE,
   has_response_interception |-> FALSE, content_length |-> TRUE,
   seen |-> {}, outcome |-> None, published |-> None, dialed |-> None, raw |-> FALSE,
   by |-> None]

\* new_ctx, under configuration c
NewContext(i, c) ==
  [Rest EXCEPT !.at = "early", !.input = i, !.seen = {c}, !.audit = Cfg[c].audit,
               !.app = IF Cfg[c].default_app = None THEN "default" ELSE Cfg[c].default_app]

Init ==
  /\ live \in Configs
  /\ req = [r \in Requests |-> Rest]

-----------------------------------------------------------------------------
(* The lookups *)

\* eq_ignore_ascii_case, where the left side may be absent.
SameName(a, b) == a # None /\ Fold(a) = Fold(b)

\* The first of the applications at the given places, as a set.
FirstApp(apps, places) ==
  {apps[n] : n \in {m \in places : \A other \in places : m <= other}}

\* resolve_app_with_apps: by header, by host, by path, the default, the first.
ResolveApp(c, i) ==
  LET apps == Cfg[c].apps
      all == DOMAIN apps
      ranked == <<{n \in all : SameName(i.header, apps[n].id)},
                  {n \in all : \E d \in apps[n].domains : SameName(i.host, d)},
                  {n \in all : i.path \in apps[n].paths},
                  {n \in all : SameName(Cfg[c].default_app, apps[n].id)},
                  all>>
      found == SelectSeq(ranked, LAMBDA S : S # {})
  IN IF found = <<>> THEN {} ELSE FirstApp(apps, found[1])

\* named_upstreams.get
Lookup(c, name) ==
  IF name \in DOMAIN Cfg[c].upstreams THEN {Cfg[c].upstreams[name]} ELSE {}

\* The address early_request_filter finds, as a set: without any application,
\* that of "default" unless a default application is named.
AppTarget(c, i) ==
  LET app == ResolveApp(c, i) IN
    IF app # {} THEN UNION {Lookup(c, a.upstream) : a \in app}
    ELSE IF Cfg[c].default_app # None THEN {} ELSE Lookup(c, "default")

AppId(c, i, otherwise) ==
  LET app == ResolveApp(c, i) IN
    IF app # {} THEN (CHOOSE a \in app : TRUE).id
    ELSE IF Cfg[c].default_app # None THEN Cfg[c].default_app ELSE otherwise

\* matches_operation: by the operation's name or by any of its root fields,
\* in whatever case they are written.
MatchesOperation(i, op) == SameName(i.name, op) \/ \E f \in i.fields : Fold(f) = Fold(op)

\* match_route: routes is a HashMap, so any route that matches may be found.
MatchRoute(c, i) == {rt \in Cfg[c].routes : MatchesOperation(i, rt.operation)}

\* resolve_mode_a_upstream
RouteTarget(c, rt) == IF rt.upstream = None THEN {} ELSE Lookup(c, rt.upstream)

\* The prefix of the request's topic: that of the application of this name,
\* and "mutation.<id>" when it sets none or is not there (where a query or a
\* subscription has its own kind instead of "mutation").
TopicPrefix(c, app) ==
  LET apps == Cfg[c].apps
      byId == {n \in DOMAIN apps : apps[n].id = app}
      set == {a.subject_prefix : a \in FirstApp(apps, byId)} \ {None}
  IN IF set = {} THEN <<"mutation", app>> ELSE <<CHOOSE p \in set : TRUE>>

\* get_dispatch_topic: kind and operation, and nothing of the application.  The
\* request's own event, a Mode B command or a RawAudit copy, goes out under it.
BaseTopic == <<"mutation">>

\* get_request_pipeline and has_response_interceptors: the global interceptors
\* ("*") and those of the operation's name, compared exactly.
Guarded(S, name) == "*" \in S \/ name \in S

-----------------------------------------------------------------------------
(* analyze_mutation_coverage *)

\* A faulty variant of RouteClass: the upstream is looked at before the mode.
RouteClass_UpstreamFirst(rt) ==
  CASE rt.upstream \notin {None, "default"} -> "TargetedService"
    [] rt.upstream \in {None, "default"} /\ rt.mode = "async" -> "AsyncReceipt"
    [] OTHER -> "ConfiguredRoute"

\* The class of one route.  It is found by its operation, enabled or not.
RouteClass(rt) ==
  CASE rt.mode = "async" -> "AsyncReceipt"
    [] rt.mode = "sync" /\ rt.upstream \notin {None, "default"} -> "TargetedService"
    [] OTHER -> "ConfiguredRoute"

\* The classes field f may be reported in under the routes of c.  The report
\* compares names exactly, where MatchesOperation ignores case.
Classify(c, f) ==
  LET hits == {rt \in Cfg[c].routes : rt.operation = f} IN
    IF hits = {} THEN {"DefaultUpstream"} ELSE {RouteClass(rt) : rt \in hits}

-----------------------------------------------------------------------------
At(r, s) == req[r].at = s

Set(r, x) == req' = [req EXCEPT ![r] = x]

\* handle_mode_b_edge: the command is published and the client gets a receipt.
Receipt(q) == [q EXCEPT !.at = "done", !.outcome = "receipt", !.published = BaseTopic]

\* handle_mode_a_dispatch_policy: under RawAudit the request is published first.
Forward(q) == [q EXCEPT !.at = "peer", !.published = IF q.audit THEN BaseTopic ELSE @]

-----------------------------------------------------------------------------
(* Faulty variants of the actions below, each a mistake this code invites. *)

\* The target of the last request on the connection is kept.
NewCtx_KeepsTarget(r, i) ==
  /\ At(r, "idle")
  /\ Set(r, [NewContext(i, live) EXCEPT !.target = req[r].target])
  /\ UNCHANGED live

\* Each chunk asks again whether there are interceptors.
Chunk_AsksAgain(r) ==
  /\ At(r, "body")
  /\ LET flag == Guarded(Cfg[live].screens, req[r].operation) IN
       Set(r, [req[r] EXCEPT !.has_response_interception = flag,
                             !.raw = @ \/ ~flag])
  /\ UNCHANGED live

\* A disabled route is skipped and the next one that matches is taken.
Route_SkipsDisabled(r) ==
  /\ At(r, "route")
  /\ LET q == req[r]
         hits == {rt \in MatchRoute(q.snap, q.input) : rt.enabled}
     IN \/ /\ hits = {}
           /\ Set(r, Forward(q))
        \/ \E rt \in hits :
             CASE rt.mode = "async" -> Set(r, Receipt(q))
               [] OTHER ->
                    \E a \in IF RouteTarget(q.snap, rt) = {} THEN {q.target}
                             ELSE RouteTarget(q.snap, rt) :
                      Set(r, Forward([q EXCEPT !.target = a]))
  /\ UNCHANGED live

-----------------------------------------------------------------------------
(* A configuration is replaced, by reload_config or by the admin API *)

Met(q, c) == IF q.at \in {"idle", "done"} THEN q ELSE [q EXCEPT !.seen = @ \union {c}]

Reload(c) ==
  /\ c # live
  /\ live' = c
  /\ req' = [r \in Requests |-> Met(req[r], c)]

-----------------------------------------------------------------------------
(* The phases of a request *)

NewCtx(r, i) ==
  /\ At(r, "idle")
  /\ Set(r, NewContext(i, live))
  /\ UNCHANGED live

\* early_request_filter
Early(r) ==
  /\ At(r, "early")
  /\ LET q == req[r]
         addr == AppTarget(live, q.input)
     IN Set(r, [q EXCEPT
          !.app = AppId(live, q.input, q.app),
          !.target = IF addr = {} THEN q.target ELSE CHOOSE a \in addr : TRUE,
          !.at = IF q.input.path \in Served THEN "start" ELSE "done",
          !.outcome = IF q.input.path \in Served THEN q.outcome ELSE "no_route"])
  /\ UNCHANGED live

\* request_filter loads the state and keeps it; awaits follow.
Start(r) ==
  /\ At(r, "start")
  /\ Set(r, [req[r] EXCEPT !.at = "filter", !.snap = live])
  /\ UNCHANGED live

\* A body that is empty, not UTF-8 or not decodable is forwarded as it is.
Undecoded(r) ==
  /\ At(r, "filter") /\ ~req[r].input.decodes
  /\ Set(r, [req[r] EXCEPT !.at = "peer"])
  /\ UNCHANGED live

Decode(r) ==
  /\ At(r, "filter") /\ req[r].input.decodes
  /\ LET q == req[r] IN
       Set(r, [q EXCEPT !.at = "screen", !.operation = q.input.name,
                        !.topic = TopicPrefix(q.snap, q.app)])
  /\ UNCHANGED live

\* The request interceptors: a request they do not let pass ends here.
Screen(r) ==
  /\ At(r, "screen")
  /\ LET q == req[r] IN
       IF Guarded(Cfg[q.snap].rejects, q.operation)
       THEN Set(r, [q EXCEPT !.at = "done", !.outcome = "rejected"])
       ELSE Set(r, [q EXCEPT !.at = "route"])
  /\ UNCHANGED live

\* Route overrides: a disabled route and Mode B answer the client, Mode A may
\* replace the target and the dispatch policy.
Route(r) ==
  /\ At(r, "route")
  /\ LET q == req[r]
         hits == MatchRoute(q.snap, q.input)
     IN \/ /\ hits = {}
           /\ Set(r, Forward(q))
        \/ \E rt \in hits :
             CASE ~rt.enabled -> Set(r, [q EXCEPT !.at = "done", !.outcome = "disabled"])
               [] rt.enabled /\ rt.mode = "async" -> Set(r, Receipt(q))
               [] OTHER ->
                    \E a \in IF RouteTarget(q.snap, rt) = {} THEN {q.target}
                             ELSE RouteTarget(q.snap, rt) :
                      Set(r, Forward([q EXCEPT !.target = a,
                                               !.audit = IF rt.audit = None THEN @ ELSE rt.audit]))
  /\ UNCHANGED live

\* upstream_peer: the default is that of the configuration live by now.
UpstreamPeer(r) ==
  /\ At(r, "peer")
  /\ LET q == req[r]
         default == Lookup(live, "default")
     IN \E a \in IF q.target # None THEN {q.target}
                 ELSE IF default # {} THEN default ELSE {Service} :
          Set(r, [q EXCEPT !.at = "upstream", !.dialed = a, !.outcome = "forwarded"])
  /\ UNCHANGED live

\* The upstream cannot be reached, or the connection breaks.
UpstreamFails(r) ==
  /\ req[r].at \in {"upstream", "body"}
  /\ Set(r, [req[r] EXCEPT !.at = "done"])
  /\ UNCHANGED live

\* response_filter: the response is intercepted or not, from now on.
ResponseFilter(r) ==
  /\ At(r, "upstream")
  /\ LET flag == Guarded(Cfg[live].screens, req[r].operation) IN
       Set(r, [req[r] EXCEPT !.at = "body", !.has_response_interception = flag,
                             !.content_length = ~flag])
  /\ UNCHANGED live

\* response_body_filter: a chunk goes to the client or into the buffer.
Chunk(r) ==
  /\ At(r, "body")
  /\ Set(r, [req[r] EXCEPT !.raw = req[r].raw \/ ~req[r].has_response_interception])
  /\ UNCHANGED live

\* The last chunk: the pipeline is that of the configuration live by now.
LastChunk(r) ==
  /\ At(r, "body")
  /\ Set(r, IF req[r].has_response_interception
            THEN [req[r] EXCEPT !.at = "done", !.by = live]
            ELSE [req[r] EXCEPT !.at = "done", !.raw = TRUE])
  /\ UNCHANGED live

\* logging; the connection takes the next request.
Finish(r) ==
  /\ At(r, "done")
  /\ Set(r, [req[r] EXCEPT !.at = "idle"])
  /\ UNCHANGED live

-----------------------------------------------------------------------------
Next ==
  \/ \E c \in Configs : Reload(c)
  \/ \E r \in Requests :
       \/ \E i \in Inputs : NewCtx(r, i)
       \/ Early(r) \/ Start(r) \/ Undecoded(r) \/ Decode(r) \/ Screen(r) \/ Route(r)
       \/ UpstreamPeer(r) \/ UpstreamFails(r) \/ ResponseFilter(r)
       \/ Chunk(r) \/ LastChunk(r) \/ Finish(r)

Spec == Init /\ [][Next]_vars

-----------------------------------------------------------------------------
(* Properties *)

Ended(r) == At(r, "done")

\* Every route of c that may be found for i ends the request at the gateway.
Terminates(c, i) ==
  /\ MatchRoute(c, i) # {}
  /\ \A rt \in MatchRoute(c, i) : ~rt.enabled \/ rt.mode = "async"

\* A request for an operation that every configuration met by it disables or
\* takes over at the edge never reaches an upstream, however reloads fall
\* between its phases, if it could be decoded.
TerminatedNeverForwarded ==
  \A r \in Requests :
    Ended(r) /\ req[r].outcome = "forwarded" /\ req[r].input.decodes =>
      \E c \in req[r].seen : ~Terminates(c, req[r].input)

\* The addresses configuration c may send i to.
Targets(c, i) ==
  UNION {AppTarget(c, i), Lookup(c, "default"),
         UNION {RouteTarget(c, rt) : rt \in MatchRoute(c, i)}}

\* The upstream a request is sent to is one that a configuration live since
\* the request began has for it: no address outlives its request.
\* request_topic, under which its terminal events are published, has the prefix
\* of the application the request is labelled with (x-spectra-app), never that
\* of another one.  The request's own event is published only for a request
\* that the interceptors admitted and no disabled route ended, and always under
\* the base topic (strategy.rs:70, 189): an application's subject_prefix is not
\* in the topic of its Mode B commands, although spectra.toml:89 calls it the
\* "subject/topic prefix for Mode B mutation dispatch".
RoutedAsConfigured ==
  \A r \in Requests :
    Ended(r) =>
      /\ req[r].dialed # None =>
           req[r].dialed \in UNION {Targets(c, req[r].input) : c \in req[r].seen}
      /\ req[r].topic # None =>
           req[r].topic \in {TopicPrefix(c, req[r].app) : c \in req[r].seen}
      /\ req[r].published # None =>
           req[r].published = BaseTopic /\ req[r].outcome \in {"receipt", "forwarded"}

\* A response that was intercepted went through the interceptors as a whole
\* and is framed without a content length, also when a reload adds or removes
\* interceptors between two chunks; and it was intercepted if every
\* configuration the request met has interceptors for the operation.
ResponseWhole ==
  \A r \in Requests :
    Ended(r) =>
      /\ req[r].by # None => ~req[r].raw /\ ~req[r].content_length
      /\ req[r].raw => \E c \in req[r].seen : ~Guarded(Cfg[c].screens, req[r].operation)

\* The names by which the router finds a route for i.
Asked(i) == i.fields \union ({i.name} \ {None})

\* No route of c writes one of these names in another case.
SpelledAlike(c, names) ==
  \A rt \in Cfg[c].routes, g \in names : Fold(g) = Fold(rt.operation) => g = rt.operation

\* The coverage report agrees with the router under the same configuration, as
\* long as the routes write the names as the request does: a request that is
\* answered with a receipt has a root field, or an operation name, that may be
\* reported as AsyncReceipt, and one that is forwarded has one that is not
\* always so reported.  Where a route differs in case the two disagree: the
\* router takes it (gql_request.rs:83, 87), the report does not
\* (schema_inspector.rs:54).
CoverageAgrees ==
  \A r \in Requests :
    LET snap == req[r].snap
        asked == Asked(req[r].input)
    IN Ended(r) /\ req[r].topic # None /\ asked # {} /\ SpelledAlike(snap, asked) =>
         /\ req[r].outcome = "receipt" =>
              \E g \in asked : "AsyncReceipt" \in Classify(snap, g)
         /\ req[r].outcome = "forwarded" =>
              \E g \in asked : Classify(snap, g) # {"AsyncReceipt"}
=============================================================================
