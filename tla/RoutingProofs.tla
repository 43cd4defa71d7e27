----------------------------- MODULE RoutingProofs -----------------------------
(* Proofs about the routing of requests while configurations are reloaded, for  *)
(* any connections, inputs and configurations.                                  *)
EXTENDS Routing, TLAPS

\* q has the fields of a context.
Fields == {"at", "input", "app", "target", "snap", "topic", "operation",
           "has_response_interception", "content_length", "seen", "outcome", "dialed", "raw", "by",
           "audit", "published"}
IsContext(q) == q = [f \in Fields |-> q[f]]

\* x has all fields of q but those in changed.
Kept(q, x, changed) == \A f \in Fields \ changed : x[f] = q[f]

\* The phases before the response, from those after request_filter has loaded
\* the configuration, and those that lead to an upstream.
Before   == {"early", "start", "filter", "screen", "route", "peer", "upstream"}
Loaded   == {"filter", "screen", "route", "peer", "upstream", "body"}
Outbound == {"peer", "upstream", "body"}

\* A configuration of those met has the addresses to send q to.
Configured(q, a) == \E c \in q.seen : a \in Targets(c, q.input)

\* The configuration l at hand is one of those met, and so is the one kept.
Phase(q, l) ==
  /\ IsContext(q)
  /\ q.at \in Before \union {"body"} => l \in q.seen
  /\ q.at \in Loaded => q.snap \in q.seen
  /\ q.at \in {"upstream", "body"} => q.outcome = "forwarded"

\* The addresses and the topic are those of configurations met.
Addressed(q) ==
  /\ q.target # None => Configured(q, q.target)
  /\ q.dialed # None => Configured(q, q.dialed)
  /\ q.topic # None => \E c \in q.seen : q.topic = TopicPrefix(c, q.app)
  /\ q.at \in {"early", "start", "filter"} => q.topic = None

\* The premise of CoverageAgrees, and what the report says of the names asked for.
Comparable(q) == q.topic # None /\ Asked(q.input) # {} /\ SpelledAlike(q.snap, Asked(q.input))
Reported(q)   == \E g \in Asked(q.input) : "AsyncReceipt" \in Classify(q.snap, g)
Unreported(q) == \E g \in Asked(q.input) : Classify(q.snap, g) # {"AsyncReceipt"}

\* What is sent upstream, or may yet be, is not taken over by every
\* configuration met, nor reported so; what is published was admitted.
Allowed(q) ==
  /\ q.at \in Outbound \/ (q.at = "done" /\ q.outcome = "forwarded") =>
       /\ q.input.decodes => \E c \in q.seen : ~Terminates(c, q.input)
       /\ Comparable(q) => Unreported(q)
  /\ q.at = "done" /\ q.outcome = "receipt" => (Comparable(q) => Reported(q))
  /\ q.at \notin Outbound \union {"done"} => q.published = None
  /\ q.published # None => q.published = BaseTopic
  /\ q.at = "done" /\ q.published # None => q.outcome \in {"receipt", "forwarded"}

\* A response is buffered as a whole or not at all.
Unscreened(q) == \E c \in q.seen : ~Guarded(Cfg[c].screens, q.operation)

Whole(q) ==
  /\ q.at \in Before => q.by = None /\ q.raw = FALSE
  /\ q.at = "body" =>
       /\ q.by = None
       /\ \/ q.has_response_interception = TRUE /\ q.raw = FALSE /\ q.content_length = FALSE
          \/ q.has_response_interception = FALSE /\ q.raw \in BOOLEAN /\ Unscreened(q)
  /\ q.at = "done" =>
       /\ q.by # None => q.raw = FALSE /\ q.content_length = FALSE
       /\ q.raw \in BOOLEAN /\ (q.raw = TRUE => Unscreened(q))

Good(q, l) == Phase(q, l) /\ (q.at # "idle" => Addressed(q) /\ Allowed(q) /\ Whole(q))

\* The inductive invariant: of a request that is under way.
RoutingInv ==
  /\ live \in Configs
  /\ req = [r \in Requests |-> req[r]]
  /\ \A r \in Requests : Good(req[r], live)

-----------------------------------------------------------------------------
\* A step of one request that keeps its context good keeps the invariant.
LEMMA StepOfRequest ==
  ASSUME RoutingInv, NEW r \in Requests, NEW x, Set(r, x), live' = live, Good(x, live)
  PROVE  RoutingInv'
<1>1. req' = [req EXCEPT ![r] = x] /\ req = [p \in Requests |-> req[p]] BY DEF Set, RoutingInv
<1>2. req' = [p \in Requests |-> req'[p]] BY <1>1
<1>3. \A p \in Requests : req'[p] = IF p = r THEN x ELSE req[p] BY <1>1
<1>4. \A p \in Requests : Good(req'[p], live') BY <1>3 DEF RoutingInv
<1> QED BY <1>2, <1>4 DEF RoutingInv

\* The configuration is replaced: a request under way meets the new one too.
LEMMA StepReload ==
  ASSUME RoutingInv, NEW c \in Configs, Reload(c)
  PROVE  RoutingInv'
<1>1. live' = c /\ req' = [r \in Requests |-> Met(req[r], c)] BY DEF Reload
<1>2. ASSUME NEW r \in Requests PROVE Good(Met(req[r], c), c)
  <2> DEFINE q == req[r]
             x == Met(q, c)
  <2>1. Good(q, live) BY DEF RoutingInv
  <2> HIDE DEF q
  <2>2. ASSUME q.at \in {"idle", "done"} PROVE Good(x, c)
    BY <2>1, <2>2 DEF Met, Good, Phase, Before, Loaded
  <2>3. ASSUME q.at \notin {"idle", "done"} PROVE Good(x, c)
    <3>1. /\ IsContext(x)
          /\ x.seen = q.seen \union {c}
          /\ Kept(q, x, {"seen"})
      BY <2>1, <2>3 DEF Met, Good, Phase, IsContext, Fields, Kept
    <3> HIDE DEF x
    <3> QED BY <2>1, <2>3, <3>1 DEF Good, Phase, Addressed, Allowed, Whole, Configured,
       Unscreened, Before, Comparable, Reported, Unreported, Loaded, Outbound, Fields, Kept
  <2> QED BY <2>2, <2>3 DEF q
<1>3. \A r \in Requests : req'[r] = Met(req[r], c) BY <1>1
<1>4. req' = [r \in Requests |-> req'[r]] BY <1>1
<1> QED BY <1>1, <1>2, <1>3, <1>4 DEF RoutingInv

\* Every phase of a request keeps its context good.
LEMMA StepPhases ==
  ASSUME RoutingInv, NEW r \in Requests,
         \/ \E i \in Inputs : NewCtx(r, i)
         \/ Early(r) \/ Start(r) \/ Undecoded(r) \/ Decode(r) \/ Screen(r) \/ Route(r)
         \/ UpstreamPeer(r) \/ UpstreamFails(r) \/ ResponseFilter(r)
         \/ Chunk(r) \/ LastChunk(r) \/ Finish(r)
  PROVE  RoutingInv'
<1> DEFINE q == req[r]
<1>a. Good(q, live) /\ live \in Configs BY DEF RoutingInv
<1>1. ASSUME NEW i \in Inputs, NewCtx(r, i) PROVE RoutingInv'
  <2> DEFINE x == NewContext(i, live)
  <2>1. Set(r, x) /\ live' = live BY <1>1 DEF NewCtx
  <2>2. /\ IsContext(x) /\ x.at = "early" /\ x.input = i /\ x.seen = {live} /\ x.target = None
        /\ x.topic = None /\ x.operation = None /\ x.dialed = None /\ x.raw = FALSE /\ x.by = None
        /\ x.published = None
    BY DEF NewContext, Rest, IsContext, Fields
  <2> HIDE DEF x
  <2>3. Good(x, live) BY <2>2 DEF Good, Phase, Addressed, Allowed, Whole, Configured,
       Unscreened, Before, Comparable, Reported, Unreported, Loaded, Outbound, Fields, Kept
  <2> QED BY <2>1, <2>3, StepOfRequest
<1>2. ASSUME Early(r) PROVE RoutingInv'
  <2> DEFINE addr == AppTarget(live, q.input)
             t == IF addr = {} THEN q.target ELSE CHOOSE a \in addr : TRUE
             d == AppId(live, q.input, q.app)
             s == IF q.input.path \in Served THEN "start" ELSE "done"
             o == IF q.input.path \in Served THEN q.outcome ELSE "no_route"
             x == [q EXCEPT !.app = d, !.target = t, !.at = s, !.outcome = o]
  <2>1. q.at = "early" /\ Set(r, x) /\ live' = live BY <1>2 DEF Early, At
  <2>2. t = q.target \/ t \in Targets(live, q.input)
    BY DEF Targets
  <2>3. s = "start" \/ (s = "done" /\ o = "no_route") OBVIOUS
  <2> HIDE DEF t, d, s, o
  <2>4. /\ IsContext(x)
        /\ x.app = d /\ x.target = t /\ x.at = s /\ x.outcome = o
        /\ Kept(q, x, {"app", "target", "at", "outcome"})
    BY <1>a DEF Good, Phase, IsContext, Fields, Kept
  <2> HIDE DEF x
  <2>5. Good(x, live)
    BY <1>a, <2>1, <2>2, <2>3, <2>4 DEF Good, Phase, Addressed, Allowed, Whole, Configured,
       Unscreened, Before, Comparable, Reported, Unreported, Loaded, Outbound, Fields, Kept
  <2> QED BY <2>1, <2>5, StepOfRequest
<1>3. ASSUME Start(r) PROVE RoutingInv'
  <2> DEFINE x == [q EXCEPT !.at = "filter", !.snap = live]
  <2>1. q.at = "start" /\ Set(r, x) /\ live' = live BY <1>3 DEF Start, At
  <2>2. /\ IsContext(x)
        /\ x.at = "filter" /\ x.snap = live
        /\ Kept(q, x, {"at", "snap"})
    BY <1>a DEF Good, Phase, IsContext, Fields, Kept
  <2> HIDE DEF x
  <2>9. Good(x, live)
    BY <1>a, <2>1, <2>2 DEF Good, Phase, Addressed, Allowed, Whole, Configured,
       Unscreened, Before, Comparable, Reported, Unreported, Loaded, Outbound, Fields, Kept
  <2> QED BY <2>1, <2>9, StepOfRequest
<1>4. ASSUME Undecoded(r) PROVE RoutingInv'
  <2> DEFINE x == [q EXCEPT !.at = "peer"]
  <2>1. q.at = "filter" /\ Set(r, x) /\ live' = live BY <1>4 DEF Undecoded, At
  <2>2. /\ IsContext(x)
        /\ x.at = "peer"
        /\ Kept(q, x, {"at"})
    BY <1>a DEF Good, Phase, IsContext, Fields, Kept
  <2> HIDE DEF x
  <2>3. ~q.input.decodes BY <1>4 DEF Undecoded
  <2>9. Good(x, live)
    BY <1>a, <2>1, <2>2, <2>3 DEF Good, Phase, Addressed, Allowed, Whole, Configured,
       Unscreened, Before, Comparable, Reported, Unreported, Loaded, Outbound, Fields, Kept
  <2> QED BY <2>1, <2>9, StepOfRequest
<1>5. ASSUME Decode(r) PROVE RoutingInv'
  <2> DEFINE x == [q EXCEPT !.at = "screen", !.operation = q.input.name, !.topic = TopicPrefix(q.snap, q.app)]
  <2>1. q.at = "filter" /\ Set(r, x) /\ live' = live BY <1>5 DEF Decode, At
  <2>2. /\ IsContext(x)
        /\ x.at = "screen" /\ x.operation = q.input.name /\ x.topic = TopicPrefix(q.snap, q.app)
        /\ Kept(q, x, {"at", "operation", "topic"})
    BY <1>a DEF Good, Phase, IsContext, Fields, Kept
  <2> HIDE DEF x
  <2>9. Good(x, live)
    BY <1>a, <2>1, <2>2 DEF Good, Phase, Addressed, Allowed, Whole, Configured,
       Unscreened, Before, Comparable, Reported, Unreported, Loaded, Outbound, Fields, Kept
  <2> QED BY <2>1, <2>9, StepOfRequest
<1>6. ASSUME Screen(r) PROVE RoutingInv'
  <2>1. CASE Set(r, [q EXCEPT !.at = "done", !.outcome = "rejected"])
    <3> DEFINE x == [q EXCEPT !.at = "done", !.outcome = "rejected"]
    <3>1. q.at = "screen" /\ Set(r, x) /\ live' = live BY <1>6, <2>1 DEF Screen, At
    <3>2. /\ IsContext(x)
          /\ x.at = "done" /\ x.outcome = "rejected"
          /\ Kept(q, x, {"at", "outcome"})
      BY <1>a DEF Good, Phase, IsContext, Fields, Kept
    <3> HIDE DEF x
    <3>9. Good(x, live)
      BY <1>a, <3>1, <3>2 DEF Good, Phase, Addressed, Allowed, Whole, Configured,
         Unscreened, Before, Comparable, Reported, Unreported, Loaded, Outbound, Fields, Kept
    <3> QED BY <3>1, <3>9, StepOfRequest
  <2>2. CASE Set(r, [q EXCEPT !.at = "route"])
    <3> DEFINE x == [q EXCEPT !.at = "route"]
    <3>1. q.at = "screen" /\ Set(r, x) /\ live' = live BY <1>6, <2>2 DEF Screen, At
    <3>2. /\ IsContext(x)
          /\ x.at = "route"
          /\ Kept(q, x, {"at"})
      BY <1>a DEF Good, Phase, IsContext, Fields, Kept
    <3> HIDE DEF x
    <3>9. Good(x, live)
      BY <1>a, <3>1, <3>2 DEF Good, Phase, Addressed, Allowed, Whole, Configured,
         Unscreened, Before, Comparable, Reported, Unreported, Loaded, Outbound, Fields, Kept
    <3> QED BY <3>1, <3>9, StepOfRequest
  <2> QED BY <1>6, <2>1, <2>2 DEF Screen
<1>7. ASSUME Route(r) PROVE RoutingInv'
  <2> DEFINE hits == MatchRoute(q.snap, q.input)
  <2>a. ASSUME Comparable(q), NEW rt \in hits
        PROVE  \E g \in Asked(q.input) : RouteClass(rt) \in Classify(q.snap, g)
    <3>1. PICK g \in Asked(q.input) : Fold(g) = Fold(rt.operation)
      BY DEF MatchRoute, MatchesOperation, SameName, Asked
    <3>2. rt \in Cfg[q.snap].routes /\ g = rt.operation
      BY <2>a, <3>1 DEF MatchRoute, Comparable, SpelledAlike
    <3>3. RouteClass(rt) \in Classify(q.snap, g) BY <3>2 DEF Classify
    <3> QED BY <3>1, <3>3
  <2>1. CASE hits = {} /\ Set(r, Forward(q))
    <3> DEFINE p == IF q.audit THEN BaseTopic ELSE q.published
               x == [q EXCEPT !.at = "peer", !.published = p]
    <3>1. q.at = "route" /\ Set(r, x) /\ live' = live BY <1>7, <2>1 DEF Route, At, Forward
    <3>2. p \in {BaseTopic, q.published} OBVIOUS
    <3> HIDE DEF p
    <3>3. /\ IsContext(x)
          /\ x.at = "peer" /\ x.published = p
          /\ Kept(q, x, {"at", "published"})
      BY <1>a DEF Good, Phase, IsContext, Fields, Kept
    <3> HIDE DEF x
    <3>4. ~Terminates(q.snap, q.input) BY <2>1 DEF Terminates
    <3>5. ASSUME Comparable(q) PROVE Unreported(q)
      <4>1. PICK g \in Asked(q.input) : TRUE BY <3>5 DEF Comparable
      <4>2. \A rt \in Cfg[q.snap].routes : rt.operation # g
        BY <2>1, <4>1 DEF MatchRoute, MatchesOperation, SameName, Asked
      <4>3. Classify(q.snap, g) = {"DefaultUpstream"} BY <4>2 DEF Classify
      <4> QED BY <4>1, <4>3 DEF Unreported
    <3>9. Good(x, live)
      BY <1>a, <3>1, <3>2, <3>3, <3>4, <3>5 DEF Good, Phase, Addressed, Allowed, Whole, Configured,
         Unscreened, Before, Comparable, Reported, Unreported, Loaded, Outbound, Fields, Kept
    <3> QED BY <3>1, <3>9, StepOfRequest
  <2>2. ASSUME NEW rt \in hits, Set(r, [q EXCEPT !.at = "done", !.outcome = "disabled"])
        PROVE  RoutingInv'
    <3> DEFINE x == [q EXCEPT !.at = "done", !.outcome = "disabled"]
    <3>1. q.at = "route" /\ Set(r, x) /\ live' = live BY <1>7, <2>2 DEF Route, At
    <3>2. /\ IsContext(x)
          /\ x.at = "done" /\ x.outcome = "disabled"
          /\ Kept(q, x, {"at", "outcome"})
      BY <1>a DEF Good, Phase, IsContext, Fields, Kept
    <3> HIDE DEF x
    <3>9. Good(x, live)
      BY <1>a, <3>1, <3>2 DEF Good, Phase, Addressed, Allowed, Whole, Configured,
         Unscreened, Before, Comparable, Reported, Unreported, Loaded, Outbound, Fields, Kept
    <3> QED BY <3>1, <3>9, StepOfRequest
  <2>3. ASSUME NEW rt \in hits, rt.mode = "async", Set(r, Receipt(q))
        PROVE  RoutingInv'
    <3> DEFINE x == Receipt(q)
    <3>1. q.at = "route" /\ Set(r, x) /\ live' = live BY <1>7, <2>3 DEF Route, At
    <3>2. /\ IsContext(x)
          /\ x.at = "done" /\ x.outcome = "receipt" /\ x.published = BaseTopic
          /\ Kept(q, x, {"at", "outcome", "published"})
      BY <1>a DEF Good, Phase, IsContext, Fields, Kept, Receipt
    <3> HIDE DEF x
    <3>3. RouteClass(rt) = "AsyncReceipt" BY <2>3 DEF RouteClass
    <3>4. Comparable(q) => Reported(q) BY <2>a, <3>3 DEF Reported
    <3>9. Good(x, live)
      BY <1>a, <3>1, <3>2, <3>4 DEF Good, Phase, Addressed, Allowed, Whole, Configured,
         Unscreened, Before, Comparable, Reported, Unreported, Loaded, Outbound, Fields, Kept
    <3> QED BY <3>1, <3>9, StepOfRequest
  <2>4. ASSUME NEW rt \in hits, rt.enabled, rt.mode # "async",
               NEW a \in IF RouteTarget(q.snap, rt) = {} THEN {q.target} ELSE RouteTarget(q.snap, rt),
               NEW t, Set(r, Forward([q EXCEPT !.target = a, !.audit = t]))
        PROVE  RoutingInv'
    <3> DEFINE y == [q EXCEPT !.target = a, !.audit = t]
               x == Forward(y)
    <3>1. q.at = "route" /\ Set(r, x) /\ live' = live BY <1>7, <2>4 DEF Route, At
    <3>a. /\ IsContext(y) /\ y.target = a /\ y.audit = t
          /\ Kept(q, y, {"target", "audit"})
      BY <1>a DEF Good, Phase, IsContext, Fields, Kept
    <3> HIDE DEF y
    <3>2. /\ IsContext(x)
          /\ x.at = "peer" /\ x.target = a /\ x.published \in {BaseTopic, q.published}
          /\ Kept(q, x, {"at", "target", "audit", "published"})
      BY <3>a DEF IsContext, Fields, Kept, Forward
    <3> HIDE DEF x
    <3>3. ~Terminates(q.snap, q.input) BY <2>4 DEF Terminates
    <3>4. RouteClass(rt) # "AsyncReceipt" BY <2>4 DEF RouteClass
    <3>5. Comparable(q) => Unreported(q) BY <2>a, <3>4 DEF Unreported
    <3>6. a = q.target \/ a \in Targets(q.snap, q.input) BY DEF Targets
    <3>9. Good(x, live)
      BY <1>a, <3>1, <3>2, <3>3, <3>5, <3>6 DEF Good, Phase, Addressed, Allowed, Whole, Configured,
         Unscreened, Before, Comparable, Reported, Unreported, Loaded, Outbound, Fields, Kept
    <3> QED BY <3>1, <3>9, StepOfRequest
  <2> QED BY <1>7, <2>1, <2>2, <2>3, <2>4 DEF Route
<1>8. ASSUME UpstreamPeer(r) PROVE RoutingInv'
  <2>1. Lookup(live, "default") # {} BY <1>a, RoutingAssumption DEF Lookup
  <2>2. PICK a \in IF q.target # None THEN {q.target} ELSE Lookup(live, "default") :
          Set(r, [q EXCEPT !.at = "upstream", !.dialed = a, !.outcome = "forwarded"])
    BY <1>8, <2>1 DEF UpstreamPeer
  <2> DEFINE x == [q EXCEPT !.at = "upstream", !.dialed = a, !.outcome = "forwarded"]
  <2>4. q.at = "peer" /\ Set(r, x) /\ live' = live BY <1>8, <2>2 DEF UpstreamPeer, At
  <2>5. /\ IsContext(x)
          /\ x.at = "upstream" /\ x.dialed = a /\ x.outcome = "forwarded"
          /\ Kept(q, x, {"at", "dialed", "outcome"})
      BY <1>a DEF Good, Phase, IsContext, Fields, Kept
  <2> HIDE DEF x
  <2>6. (a = q.target /\ q.target # None) \/ a \in Targets(live, q.input) BY DEF Targets
  <2>9. Good(x, live)
      BY <1>a, <2>4, <2>5, <2>6 DEF Good, Phase, Addressed, Allowed, Whole, Configured,
         Unscreened, Before, Comparable, Reported, Unreported, Loaded, Outbound, Fields, Kept
  <2> QED BY <2>4, <2>9, StepOfRequest
<1>9. ASSUME UpstreamFails(r) PROVE RoutingInv'
  <2> DEFINE x == [q EXCEPT !.at = "done"]
  <2>1. q.at \in {"upstream", "body"} /\ Set(r, x) /\ live' = live
    BY <1>9 DEF UpstreamFails, At
  <2>2. /\ IsContext(x)
        /\ x.at = "done"
        /\ Kept(q, x, {"at"})
    BY <1>a DEF Good, Phase, IsContext, Fields, Kept
  <2> HIDE DEF x
  <2>9. Good(x, live)
    BY <1>a, <2>1, <2>2 DEF Good, Phase, Addressed, Allowed, Whole, Configured,
       Unscreened, Before, Comparable, Reported, Unreported, Loaded, Outbound, Fields, Kept
  <2> QED BY <2>1, <2>9, StepOfRequest
<1>10. ASSUME ResponseFilter(r) PROVE RoutingInv'
  <2> DEFINE flag == Guarded(Cfg[live].screens, q.operation)
  <2> DEFINE x == [q EXCEPT !.at = "body", !.has_response_interception = flag, !.content_length = ~flag]
  <2>1. q.at = "upstream" /\ Set(r, x) /\ live' = live BY <1>10 DEF ResponseFilter, At
  <2>2. /\ IsContext(x)
        /\ x.at = "body" /\ x.has_response_interception = flag /\ x.content_length = ~flag
        /\ Kept(q, x, {"at", "has_response_interception", "content_length"})
    BY <1>a DEF Good, Phase, IsContext, Fields, Kept
  <2> HIDE DEF x
  <2>3. flag \in BOOLEAN BY DEF Guarded
  <2>4. flag = FALSE => Unscreened(q) BY <1>a, <2>1 DEF Good, Phase, Before, Unscreened
  <2> HIDE DEF flag
  <2>9. Good(x, live)
    BY <1>a, <2>1, <2>2, <2>3, <2>4 DEF Good, Phase, Addressed, Allowed, Whole, Configured,
       Unscreened, Before, Comparable, Reported, Unreported, Loaded, Outbound, Fields, Kept
  <2> QED BY <2>1, <2>9, StepOfRequest
<1>11. ASSUME Chunk(r) PROVE RoutingInv'
  <2> DEFINE x == [q EXCEPT !.raw = q.raw \/ ~q.has_response_interception]
  <2>1. q.at = "body" /\ Set(r, x) /\ live' = live BY <1>11 DEF Chunk, At
  <2>2. /\ IsContext(x)
        /\ x.raw = (q.raw \/ ~q.has_response_interception)
        /\ Kept(q, x, {"raw"})
    BY <1>a DEF Good, Phase, IsContext, Fields, Kept
  <2> HIDE DEF x
  <2>9. Good(x, live)
    BY <1>a, <2>1, <2>2 DEF Good, Phase, Addressed, Allowed, Whole, Configured,
       Unscreened, Before, Comparable, Reported, Unreported, Loaded, Outbound, Fields, Kept
  <2> QED BY <2>1, <2>9, StepOfRequest
<1>12. ASSUME LastChunk(r) PROVE RoutingInv'
  <2>1. CASE q.has_response_interception
    <3> DEFINE x == [q EXCEPT !.at = "done", !.by = live]
    <3>1. q.at = "body" /\ Set(r, x) /\ live' = live BY <1>12, <2>1 DEF LastChunk, At
    <3>2. /\ IsContext(x)
          /\ x.at = "done" /\ x.by = live
          /\ Kept(q, x, {"at", "by"})
      BY <1>a DEF Good, Phase, IsContext, Fields, Kept
    <3> HIDE DEF x
    <3>9. Good(x, live)
      BY <1>a, <2>1, <3>1, <3>2 DEF Good, Phase, Addressed, Allowed, Whole, Configured,
         Unscreened, Before, Comparable, Reported, Unreported, Loaded, Outbound, Fields, Kept
    <3> QED BY <3>1, <3>9, StepOfRequest
  <2>2. CASE ~q.has_response_interception
    <3> DEFINE x == [q EXCEPT !.at = "done", !.raw = TRUE]
    <3>1. q.at = "body" /\ Set(r, x) /\ live' = live BY <1>12, <2>2 DEF LastChunk, At
    <3>2. /\ IsContext(x)
          /\ x.at = "done" /\ x.raw = TRUE
          /\ Kept(q, x, {"at", "raw"})
      BY <1>a DEF Good, Phase, IsContext, Fields, Kept
    <3> HIDE DEF x
    <3>9. Good(x, live)
      BY <1>a, <2>2, <3>1, <3>2 DEF Good, Phase, Addressed, Allowed, Whole, Configured,
         Unscreened, Before, Comparable, Reported, Unreported, Loaded, Outbound, Fields, Kept
    <3> QED BY <3>1, <3>9, StepOfRequest
  <2> QED BY <2>1, <2>2
<1>13. ASSUME Finish(r) PROVE RoutingInv'
  <2> DEFINE x == [q EXCEPT !.at = "idle"]
  <2>1. q.at = "done" /\ Set(r, x) /\ live' = live BY <1>13 DEF Finish, At
  <2>2. /\ IsContext(x)
        /\ x.at = "idle"
        /\ Kept(q, x, {"at"})
    BY <1>a DEF Good, Phase, IsContext, Fields, Kept
  <2> HIDE DEF x
  <2>9. Good(x, live)
    BY <1>a, <2>1, <2>2 DEF Good, Phase, Addressed, Allowed, Whole, Configured,
       Unscreened, Before, Comparable, Reported, Unreported, Loaded, Outbound, Fields, Kept
  <2> QED BY <2>1, <2>9, StepOfRequest
<1> QED BY <1>1, <1>2, <1>3, <1>4, <1>5, <1>6, <1>7, <1>8, <1>9, <1>10, <1>11, <1>12, <1>13

-----------------------------------------------------------------------------
\* The inductive invariant holds: at every phase, what a request carries comes
\* from a configuration that was live since the request began.
THEOREM RoutingInvHolds == Spec => []RoutingInv
<1>1. Init => RoutingInv
  <2> SUFFICES ASSUME Init PROVE RoutingInv OBVIOUS
  <2>1. live \in Configs /\ req = [r \in Requests |-> Rest] BY DEF Init
  <2>2. \A r \in Requests : req[r] = Rest BY <2>1
  <2>3. IsContext(Rest) /\ Rest.at = "idle" BY DEF Rest, IsContext, Fields
  <2>4. Good(Rest, live) BY <2>3 DEF Good, Phase, Before, Loaded
  <2> QED BY <2>1, <2>2, <2>4 DEF RoutingInv
<1>2. RoutingInv /\ [Next]_vars => RoutingInv'
  <2> SUFFICES ASSUME RoutingInv, [Next]_vars PROVE RoutingInv' OBVIOUS
  <2>1. CASE UNCHANGED vars BY <2>1 DEF vars, RoutingInv
  <2>2. CASE Next BY <2>2, StepReload, StepPhases DEF Next
  <2> QED BY <2>1, <2>2
<1> QED BY <1>1, <1>2, PTL DEF Spec

\* A decoded request that was forwarded met a configuration that did not take
\* its operation over, for any configurations and any reloads between its phases.
THEOREM NeverForwardedIfTerminated == Spec => []TerminatedNeverForwarded
<1>1. RoutingInv => TerminatedNeverForwarded
  BY DEF RoutingInv, Good, Allowed, TerminatedNeverForwarded, Ended, At
<1> QED BY <1>1, RoutingInvHolds, PTL

\* A request is sent only to an address, and its terminal events only under a
\* topic, that a configuration live since it began has for it; the request's own
\* event goes out under the base topic, and only if the request was admitted.
THEOREM AlwaysRoutedAsConfigured == Spec => []RoutedAsConfigured
<1>1. RoutingInv => RoutedAsConfigured
  <2> SUFFICES ASSUME RoutingInv, NEW r \in Requests, Ended(r)
               PROVE  /\ req[r].dialed # None =>
                           req[r].dialed \in UNION {Targets(c, req[r].input) : c \in req[r].seen}
                      /\ req[r].topic # None =>
                           req[r].topic \in {TopicPrefix(c, req[r].app) : c \in req[r].seen}
                      /\ req[r].published # None =>
                           req[r].published = BaseTopic /\ req[r].outcome \in {"receipt", "forwarded"}
    BY DEF RoutedAsConfigured
  <2>1. Addressed(req[r]) /\ Allowed(req[r]) /\ req[r].at = "done"
    BY DEF RoutingInv, Good, Ended, At
  <2> QED BY <2>1 DEF Addressed, Allowed, Configured
<1> QED BY <1>1, RoutingInvHolds, PTL

\* No response is intercepted in part, and one is passed on as it is only if a
\* configuration the request met has no interceptors for the operation.
THEOREM ResponsesWhole == Spec => []ResponseWhole
<1>1. RoutingInv => ResponseWhole
  <2> SUFFICES ASSUME RoutingInv, NEW r \in Requests, Ended(r)
               PROVE  /\ req[r].by # None => ~req[r].raw /\ ~req[r].content_length
                      /\ req[r].raw => \E c \in req[r].seen : ~Guarded(Cfg[c].screens, req[r].operation)
    BY DEF ResponseWhole
  <2>1. Whole(req[r]) /\ req[r].at = "done" BY DEF RoutingInv, Good, Ended, At
  <2> QED BY <2>1 DEF Whole, Unscreened
<1> QED BY <1>1, RoutingInvHolds, PTL

\* Under the configuration a request kept, and unless one of its routes writes a
\* name asked for in another case, a request that was answered with a receipt asks
\* for a name the coverage report may call AsyncReceipt, and one that was forwarded
\* for a name it does not call so whatever the order of the routes: the router's
\* comparison ignores case and the report's does not.
THEOREM ReportAgrees == Spec => []CoverageAgrees
<1>1. RoutingInv => CoverageAgrees
  BY DEF RoutingInv, Good, Allowed, Comparable, Reported, Unreported, CoverageAgrees, Ended, At
<1> QED BY <1>1, RoutingInvHolds, PTL
=============================================================================
