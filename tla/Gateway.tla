------------------------------- MODULE Gateway -------------------------------
(***************************************************************************)
(* The life of a request in CompositeServiceProxy: request_filter, the     *)
(* upstream exchange, the response filters and logging                     *)
(* (src/gateway/composite_service.rs), with IdempotencyFilter,             *)
(* StrategyRouter and TelemetryDispatcher (src/gateway/filters), on top of *)
(* what IdempotencyStore says of the idempotency engine.                   *)
(*                                                                         *)
(* Requests run concurrently and every .await is a point where another one *)
(* can move, so a step is what a request does from one await to the next.  *)
(* The client, the upstream service and the event broker are external:     *)
(* the client can be gone at any read or write, the upstream applies or    *)
(* refuses what it was sent at a time of its own, and a publish that fails *)
(* may or may not have stored the event.                                   *)
(***************************************************************************)
EXTENDS IdempotencyStore, Sequences

CONSTANTS
  DefaultPolicy,   \* mode_a.dispatch_policy
  Routes,          \* the configured route overrides
  NoRoute          \* match_route found none

VARIABLES
  stage,     \* stage[r]: where the handling of r is
  ctx,       \* ctx[r]: the fields of SpectraProxyCtx that steer it
  upstream,  \* upstream[r]: what the upstream service did with r
  events,    \* events[r]: the events of r stored by the broker, in order
  spawned    \* requests whose rejection event a spawned task still has to send

gatewayVars == <<stage, ctx, upstream, events, spawned>>
vars == <<storeVars, gatewayVars>>

Policies == {"ResponseWithFailure", "ResponseOnly", "RawAudit", "None"}

\* A route inherits the default policy when it sets none.
RouteType == [enabled: BOOLEAN, async: BOOLEAN, policy: Policies \union {"inherit"}]

ASSUME GatewayAssumption ==
  /\ DefaultPolicy \in Policies
  /\ Routes \subseteq RouteType
  /\ NoRoute \notin Routes

Stages == {"new", "explicit", "body", "intercept", "admitted", "print", "route", "commit",
           "accepted", "refused", "audit", "proxy", "upstream", "streaming", "logging",
           "failure", "success", "end"}

Ctx ==
  [held:   BOOLEAN,                                \* idempotency_key.is_some()
   topic:  BOOLEAN,                                \* request_topic # "spectra"
   policy: Policies,                               \* dispatch_policy
   served: {"proxy", "replay", "modeB"},           \* is_replay, is_mode_b_terminated
   error:  BOOLEAN,                                \* the error logging is given
   resp:   {"none", "2xx", "3xx", "error"},        \* response_parts
   body:   {"none", "full", "cut", "empty", "rejection"}]   \* response_body

\* new_ctx
NewCtx == [held |-> FALSE, topic |-> FALSE, policy |-> DefaultPolicy, served |-> "proxy",
           error |-> FALSE, resp |-> "none", body |-> "none"]

Events == {"initiated", "command", "success", "failed", "rejected"}

GatewayTypeOK ==
  /\ StoreTypeOK
  /\ stage \in [Requests -> Stages]
  /\ ctx \in [Requests -> Ctx]
  /\ upstream \in [Requests -> {"none", "sent", "applied", "refused"}]
  /\ events \in [Requests -> Seq(Events)]
  /\ spawned \subseteq Requests

Init ==
  /\ StoreInit
  /\ stage = [r \in Requests |-> "new"]
  /\ ctx = [r \in Requests |-> NewCtx]
  /\ upstream = [r \in Requests |-> "none"]
  /\ events = [r \in Requests |-> <<>>]
  /\ spawned = {}

-----------------------------------------------------------------------------
Step(r, from, to) == stage[r] = from /\ stage' = [stage EXCEPT ![r] = to]

\* dispatch_request_info, dispatch_terminal_event: the broker stores event e,
\* or the publish fails before or after it did.
PublishOk(r, e)   == events' = [events EXCEPT ![r] = Append(@, e)]
PublishFails(r, e) == PublishOk(r, e) \/ UNCHANGED events

\* engine.remove and engine.complete, for a request that holds a key.
ReleaseKey(r)  == IF ctx[r].held THEN Remove(r) ELSE UNCHANGED storeVars
CompleteKey(r) == IF ctx[r].held THEN Complete(r) ELSE UNCHANGED storeVars

\* is_http_err is false and there is a response: a redirect is no error either.
UpstreamSucceeded(r) == ~ctx[r].error /\ ctx[r].resp \in {"2xx", "3xx"}

-----------------------------------------------------------------------------
(* Faulty variants of the actions below, each a mistake this code invites. *)

\* A publish that fails still completes the key.
CommitFails_Accepted(r) ==
  /\ Step(r, "commit", "accepted")
  /\ PublishFails(r, "command")
  /\ UNCHANGED <<storeVars, ctx, upstream, spawned>>

\* The key of a refused command stays locked.
Refuse_KeepsLock(r) ==
  /\ Step(r, "refused", "logging")
  /\ IF ctx[r].held THEN Abandon(r) ELSE UNCHANGED storeVars
  /\ UNCHANGED <<ctx, upstream, events, spawned>>

\* "... and clears the stash": a success forgets the key.
LoggingSuccess_Clears(r) ==
  /\ Step(r, "logging", "success")
  /\ ctx[r].served = "proxy" /\ ctx[r].topic
  /\ UpstreamSucceeded(r)
  /\ ReleaseKey(r)
  /\ UNCHANGED <<ctx, upstream, events, spawned>>

\* Only server errors count as errors, and a lost upstream as none.
LoggingSuccess_Any(r) ==
  /\ Step(r, "logging", "success")
  /\ ctx[r].served = "proxy" /\ ctx[r].topic
  /\ CompleteKey(r)
  /\ UNCHANGED <<ctx, upstream, events, spawned>>

\* Logging releases the key of the request's header, held or not.
LoggingFailure_AnyKey(r) ==
  /\ Step(r, "logging", "failure")
  /\ ctx[r].served = "proxy" /\ ctx[r].topic
  /\ ~UpstreamSucceeded(r)
  /\ rec' = [k \in Keys |-> IF k = key[r] THEN NoRecord ELSE rec[k]]
  /\ phase' = [phase EXCEPT ![r] = "done"]
  /\ UNCHANGED <<now, key, called, source, ctx, upstream, events, spawned>>

-----------------------------------------------------------------------------
(* request_filter *)

\* No route, health, favicon, admin and websocket requests: answered without a
\* key, and logging has nothing to do.
Local(r) ==
  /\ Step(r, "new", "end")
  /\ UNCHANGED <<storeVars, ctx, upstream, events, spawned>>

\* handle_explicit_key: the header names key k, or there is none.
ExplicitKey(r, k) ==
  /\ Step(r, "new", "explicit")
  /\ Call(r, k)
  /\ UNCHANGED <<ctx, upstream, events, spawned>>

NoExplicitKey(r) ==
  /\ Step(r, "new", "body")
  /\ UNCHANGED <<storeVars, ctx, upstream, events, spawned>>

\* The answers of check_or_insert, to handle_explicit_key or handle_fingerprint.
NewKey(r) ==
  /\ stage[r] \in {"explicit", "print"}
  /\ stage' = [stage EXCEPT ![r] = IF @ = "explicit" THEN "body" ELSE "route"]
  /\ Acquire(r)
  /\ ctx' = [ctx EXCEPT ![r].held = TRUE]
  /\ UNCHANGED <<upstream, events, spawned>>

ConflictResponse(r) ==
  /\ stage[r] \in {"explicit", "print"}
  /\ stage' = [stage EXCEPT ![r] = "logging"]
  /\ Conflict(r)
  /\ UNCHANGED <<ctx, upstream, events, spawned>>

ReplayResponse(r) ==
  /\ stage[r] \in {"explicit", "print"}
  /\ stage' = [stage EXCEPT ![r] = "logging"]
  /\ Replay(r)
  /\ ctx' = [ctx EXCEPT ![r].served = "replay"]
  /\ UNCHANGED <<upstream, events, spawned>>

\* A method other than POST, an empty body, one that is not UTF-8, or one the
\* decoder refuses: forwarded as it is, and request_topic keeps its placeholder.
Undecoded(r) ==
  /\ Step(r, "body", "proxy")
  /\ UNCHANGED <<storeVars, ctx, upstream, events, spawned>>

Decoded(r) ==
  /\ Step(r, "body", "intercept")
  /\ ctx' = [ctx EXCEPT ![r].topic = TRUE]
  /\ UNCHANGED <<storeVars, upstream, events, spawned>>

\* read_request_body fails: the client is gone.
BodyError(r) ==
  /\ Step(r, "body", "logging")
  /\ ctx' = [ctx EXCEPT ![r].error = TRUE]
  /\ UNCHANGED <<storeVars, upstream, events, spawned>>

\* 413.  The key is released after the response is written, if it can be.
TooLarge(r) ==
  /\ Step(r, "body", "logging")
  /\ \/ /\ ReleaseKey(r)
        /\ ctx' = [ctx EXCEPT ![r].held = FALSE]
     \/ UNCHANGED <<storeVars, ctx>>
  /\ UNCHANGED <<upstream, events, spawned>>

\* The request interceptors' verdict: Pass, Audit or Transform ...
Admit(r) ==
  /\ Step(r, "intercept", "admitted")
  /\ UNCHANGED <<storeVars, ctx, upstream, events, spawned>>

\* ... or Reject: the key is taken and released, and if the client is still
\* there to be told, a task is spawned that publishes the rejection.
Reject(r) ==
  /\ Step(r, "intercept", "logging")
  /\ ReleaseKey(r)
  /\ ctx' = [ctx EXCEPT ![r].held = FALSE]
  /\ spawned' \in {spawned, spawned \union {r}}
  /\ UNCHANGED <<upstream, events>>

SpawnedDispatch(r) ==
  /\ r \in spawned
  /\ spawned' = spawned \ {r}
  /\ PublishFails(r, "rejected")
  /\ UNCHANGED <<storeVars, stage, ctx, upstream>>

\* handle_fingerprint: a mutation without an explicit key.
Fingerprint(r, k) ==
  /\ Step(r, "admitted", "print")
  /\ ~ctx[r].held
  /\ Call(r, k)
  /\ UNCHANGED <<ctx, upstream, events, spawned>>

NoFingerprint(r) ==
  /\ Step(r, "admitted", "route")
  /\ UNCHANGED <<storeVars, ctx, upstream, events, spawned>>

\* 403.  The key is left to logging.
Disabled(r) ==
  /\ Step(r, "route", "logging")
  /\ \E route \in Routes : ~route.enabled
  /\ UNCHANGED <<storeVars, ctx, upstream, events, spawned>>

\* Mode A: the route's policy, or the default, and the ingress event of RawAudit.
ModeA(r) ==
  /\ stage[r] = "route"
  /\ \E route \in Routes \union {NoRoute} :
       LET policy == IF route = NoRoute \/ route.policy = "inherit"
                     THEN DefaultPolicy ELSE route.policy
       IN  /\ route # NoRoute => route.enabled /\ ~route.async
           /\ ctx' = [ctx EXCEPT ![r].policy = policy]
           /\ stage' = [stage EXCEPT ![r] = IF policy = "RawAudit" THEN "audit" ELSE "proxy"]
  /\ UNCHANGED <<storeVars, upstream, events, spawned>>

Audit(r) ==
  /\ Step(r, "audit", "proxy")
  /\ PublishFails(r, "initiated")
  /\ UNCHANGED <<storeVars, ctx, upstream, spawned>>

(* Mode B: handle_mode_b_edge *)

ModeB(r) ==
  /\ Step(r, "route", "commit")
  /\ \E route \in Routes : route.enabled /\ route.async
  /\ ctx' = [ctx EXCEPT ![r].served = "modeB"]
  /\ UNCHANGED <<storeVars, upstream, events, spawned>>

CommitOk(r) ==
  /\ Step(r, "commit", "accepted")
  /\ PublishOk(r, "command")
  /\ UNCHANGED <<storeVars, ctx, upstream, spawned>>

CommitFails(r) ==
  /\ Step(r, "commit", "refused")
  /\ PublishFails(r, "command")
  /\ UNCHANGED <<storeVars, ctx, upstream, spawned>>

\* The receipt is cached and written, whether or not the client still reads it.
Accept(r) ==
  /\ Step(r, "accepted", "logging")
  /\ CompleteKey(r)
  /\ ctx' = [ctx EXCEPT ![r].body = "full"]
  /\ UNCHANGED <<upstream, events, spawned>>

\* DISPATCH_FAILED: the key is released so that the client can retry.
Refuse(r) ==
  /\ Step(r, "refused", "logging")
  /\ ReleaseKey(r)
  /\ UNCHANGED <<ctx, upstream, events, spawned>>
-----------------------------------------------------------------------------
(* The upstream exchange and the response filters *)

Forward(r) ==
  /\ Step(r, "proxy", "upstream")
  /\ upstream' = [upstream EXCEPT ![r] = "sent"]
  /\ UNCHANGED <<storeVars, ctx, events, spawned>>

\* The upstream acts on what it was sent, also when nobody waits any more.
UpstreamActs(r) ==
  /\ upstream[r] = "sent"
  /\ \E u \in {"applied", "refused"} : upstream' = [upstream EXCEPT ![r] = u]
  /\ UNCHANGED <<storeVars, stage, ctx, events, spawned>>

\* response_filter.  A 2xx answer means the operation was applied; a redirect
\* or an error may follow either way.
ResponseHeaders(r) ==
  /\ Step(r, "upstream", "streaming")
  /\ \E s \in {"2xx", "3xx", "error"} :
       /\ s = "2xx" => upstream[r] = "applied"
       /\ s # "2xx" => upstream[r] # "sent"
       /\ ctx' = [ctx EXCEPT ![r].resp = s]
  /\ UNCHANGED <<storeVars, upstream, events, spawned>>

\* response_body_filter at end_of_stream.  Without response interceptors the
\* body of a success is not buffered at all under ResponseOnly and None, and
\* up to MAX_TELEMETRY_RESPONSE_BYTES otherwise; with them it is what they
\* leave of the full body, under the status already sent.  Bytes that are not
\* UTF-8, or not any more where they were cut, become the empty body.
ResponseEnd(r) ==
  /\ Step(r, "streaming", "logging")
  /\ \E b \in {"full", "cut", "empty", "rejection"} :
       /\ b = "cut" => ctx[r].resp = "error" \/ ctx[r].policy \notin {"ResponseOnly", "None"}
       /\ ctx' = [ctx EXCEPT ![r].body = b]
  /\ UNCHANGED <<storeVars, upstream, events, spawned>>

\* No peer, a failed connection, an upstream that breaks off, a client that
\* leaves: pingora gives up and hands the error to logging.
ProxyError(r) ==
  /\ stage[r] \in {"proxy", "upstream", "streaming"}
  /\ stage' = [stage EXCEPT ![r] = "logging"]
  /\ ctx' = [ctx EXCEPT ![r].error = TRUE]
  /\ UNCHANGED <<storeVars, upstream, events, spawned>>
-----------------------------------------------------------------------------
(* logging: dispatch_logging *)

\* Replays, Mode B, OPTIONS and HEAD, and requests whose topic is still the
\* placeholder return early.  OPTIONS and HEAD have no decoded body, so their
\* topic is the placeholder.  A key still held stays locked.
LoggingSkips(r) ==
  /\ Step(r, "logging", "end")
  /\ ctx[r].served # "proxy" \/ ~ctx[r].topic
  /\ IF phase[r] = "running" THEN Abandon(r) ELSE UNCHANGED storeVars
  /\ UNCHANGED <<ctx, upstream, events, spawned>>

LoggingFailure(r) ==
  /\ Step(r, "logging", "failure")
  /\ ctx[r].served = "proxy" /\ ctx[r].topic
  /\ ~UpstreamSucceeded(r)
  /\ ReleaseKey(r)
  /\ UNCHANGED <<ctx, upstream, events, spawned>>

LoggingSuccess(r) ==
  /\ Step(r, "logging", "success")
  /\ ctx[r].served = "proxy" /\ ctx[r].topic
  /\ UpstreamSucceeded(r)
  /\ CompleteKey(r)
  /\ UNCHANGED <<ctx, upstream, events, spawned>>

\* The terminal event, unless the policy suppresses it.  A failed publish is
\* only logged.
EmitFailure(r) ==
  /\ Step(r, "failure", "end")
  /\ IF ctx[r].policy \in {"ResponseOnly", "None"}
     THEN UNCHANGED events ELSE PublishFails(r, "failed")
  /\ UNCHANGED <<storeVars, ctx, upstream, spawned>>

EmitSuccess(r) ==
  /\ Step(r, "success", "end")
  /\ IF ctx[r].policy = "None"
     THEN UNCHANGED events ELSE PublishFails(r, "success")
  /\ UNCHANGED <<storeVars, ctx, upstream, spawned>>
-----------------------------------------------------------------------------
(* The wall clock and the engine's own steps *)

ClockTick == Tick /\ UNCHANGED gatewayVars

EngineEvicts(k) == Evict(k) /\ UNCHANGED gatewayVars

request_filter(r) ==
  \/ Local(r) \/ NoExplicitKey(r) \/ NewKey(r) \/ ConflictResponse(r) \/ ReplayResponse(r)
  \/ Undecoded(r) \/ Decoded(r) \/ BodyError(r) \/ TooLarge(r)
  \/ Admit(r) \/ Reject(r) \/ SpawnedDispatch(r) \/ NoFingerprint(r)
  \/ Disabled(r) \/ ModeA(r) \/ Audit(r)
  \/ ModeB(r) \/ CommitOk(r) \/ CommitFails(r) \/ Accept(r) \/ Refuse(r)
  \/ \E k \in Keys : ExplicitKey(r, k) \/ Fingerprint(r, k)

proxy(r) ==
  \/ Forward(r) \/ UpstreamActs(r) \/ ResponseHeaders(r) \/ ResponseEnd(r) \/ ProxyError(r)

logging(r) ==
  \/ LoggingSkips(r) \/ LoggingFailure(r) \/ LoggingSuccess(r)
  \/ EmitFailure(r) \/ EmitSuccess(r)

Next ==
  \/ ClockTick
  \/ \E k \in Keys : EngineEvicts(k)
  \/ \E r \in Requests : request_filter(r) \/ proxy(r) \/ logging(r)

Spec == Init /\ [][Next]_vars
-----------------------------------------------------------------------------
(* Properties *)

\* Everything a request on key k does happens within the ttl of its call, and
\* the engine keeps the record of k.
Undisturbed(k) ==
  k \notin Evictable /\ \A r \in Requests : key[r] = k => now - called[r] < TtlSecs

\* The stages between which a request waits for something other than the engine.
Active == {"new", "body", "intercept", "admitted", "route", "commit", "accepted", "refused",
           "audit", "proxy", "upstream", "streaming"}

Terminal == {"success", "failed"}

Published(r, e) == \E i \in DOMAIN events[r] : events[r][i] = e

\* The client of r was answered with the fresh result of its operation.
Succeeded(r) ==
  \/ ctx[r].served = "proxy" /\ UpstreamSucceeded(r) /\ stage[r] \in {"success", "end"}
  \/ ctx[r].served = "modeB" /\ ctx[r].body = "full"

\* While a request holds its key in ctx.idempotency_key and has not settled it,
\* the record of the key is its own lock: no filter of another request, whether
\* it was rejected, refused, in conflict or failed, has released or replaced it.
HeldKeyIsLocked ==
  \A r \in Requests :
    ctx[r].held /\ phase[r] = "running" /\ Undisturbed(key[r]) =>
      rec[key[r]] = InProgress(r, called[r])

\* What the context of a request says about its key.  A request that is not
\* waiting for the engine has a lock exactly if ctx.idempotency_key is set, a
\* lock is given up at the latest by logging, and a key that is held still when
\* logging begins is held by a lock.
KeyOfRequest(r) ==
  /\ phase[r] = "idle" <=> key[r] = NoKey
  /\ called[r] <= now
  /\ stage[r] = "new" => ~ctx[r].held
  /\ stage[r] \in Active => phase[r] = (IF ctx[r].held THEN "running" ELSE "idle")
  /\ phase[r] = "checking" <=> stage[r] \in {"explicit", "print"}
  /\ phase[r] = "running" =>
       /\ ctx[r].held
       /\ stage[r] \in Active \/ (stage[r] = "logging" /\ ctx[r].served = "proxy")
  /\ ctx[r].held => phase[r] \in {"running", "done"}
  /\ stage[r] = "logging" /\ ctx[r].served = "proxy" /\ ctx[r].held => phase[r] = "running"

\* How far a request has come: what was served, by whom, and under which key.
AnswerOfRequest(r) ==
  /\ ctx[r].served = "modeB" =>
       /\ stage[r] \in {"commit", "accepted", "refused", "logging", "end"}
       /\ phase[r] = "idle" \/ ctx[r].held
  /\ ctx[r].served = "replay" => stage[r] \in {"logging", "end"} /\ phase[r] = "replay"
  /\ stage[r] \in {"commit", "accepted", "refused"} => ctx[r].served = "modeB"
  /\ stage[r] = "success" => ctx[r].served = "proxy" /\ ctx[r].topic /\ UpstreamSucceeded(r)
  /\ stage[r] = "failure" => ctx[r].served = "proxy" /\ ctx[r].topic /\ ~UpstreamSucceeded(r)
  /\ ctx[r].resp # "none" =>
       /\ stage[r] \in {"streaming", "logging", "failure", "success", "end"}
       /\ ctx[r].served = "proxy"
       /\ phase[r] = "idle" \/ ctx[r].held
  /\ ctx[r].body # "none" => stage[r] \in {"logging", "failure", "success", "end"}
  /\ UpstreamSucceeded(r) /\ stage[r] \in {"logging", "success", "end"} =>
       /\ ctx[r].body # "none"
       /\ ctx[r].body = "cut" => ctx[r].policy \in {"ResponseWithFailure", "RawAudit"}
  /\ source[r] # NoRequest => phase[r] = "replay"

\* r was answered with a result that may be replayed, and its context is final.
Answered(r) ==
  \/ /\ ctx[r].served = "modeB" /\ stage[r] \in {"logging", "end"}
     /\ Published(r, "command") /\ ctx[r].body = "full"
  \/ /\ ctx[r].served = "proxy" /\ stage[r] \in {"success", "end"}
     /\ UpstreamSucceeded(r)

\* The record of a key is of a request that called with this key; a response is
\* cached only of one that was answered, and a lock is of one that still runs,
\* or ended undecoded.
RecordsAreOfTheirOwners ==
  \A k \in Keys :
    LET q == rec[k].owner IN
    rec[k] # NoRecord =>
      /\ key[q] = k
      /\ rec[k].state = "Completed" => phase[q] = "done" /\ Answered(q)
      /\ rec[k].state = "InProgress" =>
           phase[q] = "running" \/ (phase[q] = "done" /\ stage[q] = "end" /\ ~ctx[q].topic)

ReplaysAreOfAnswers ==
  \A r \in Requests :
    source[r] # NoRequest => key[source[r]] = key[r] /\ Answered(source[r])

\* The key of a fresh success stays with it: nobody takes it over within the ttl.
SuccessKeepsKey ==
  \A r \in Requests :
    Succeeded(r) /\ key[r] # NoKey /\ Undisturbed(key[r]) =>
      /\ rec[key[r]] # NoRecord
      /\ rec[key[r]].owner = r
      /\ rec[key[r]].at >= called[r]

\* The events of a request agree with where it is.
EventsOfRequest(r) ==
  /\ stage[r] = "accepted" => Published(r, "command")
  /\ \A i, j \in DOMAIN events[r] :
       events[r][i] \in Terminal /\ events[r][j] \in Terminal => i = j
  /\ Published(r, "success") =>
       /\ stage[r] = "end" /\ ctx[r].served = "proxy" /\ ctx[r].topic
       /\ UpstreamSucceeded(r) /\ ctx[r].policy # "None"
  /\ Published(r, "failed") =>
       /\ stage[r] = "end" /\ ctx[r].served = "proxy" /\ ctx[r].topic
       /\ ~UpstreamSucceeded(r) /\ ctx[r].policy \in {"ResponseWithFailure", "RawAudit"}

\* The lock of a held key, the records and the contexts agree at every await,
\* whatever the other requests do meanwhile.  Inductive: the other invariants
\* of this module follow from it.
GatewayInv ==
  /\ GatewayTypeOK
  /\ \A r \in Requests : KeyOfRequest(r) /\ AnswerOfRequest(r) /\ EventsOfRequest(r)
  /\ RecordsAreOfTheirOwners
  /\ ReplaysAreOfAnswers
  /\ HeldKeyIsLocked
  /\ SuccessKeepsKey

\* Of the requests with one key at most one is answered with a fresh success
\* (an upstream 2xx or 3xx, or an accepted command); the others are conflicts,
\* replays or failures.
AtMostOneSuccess ==
  \A q, r \in Requests :
    /\ q # r /\ key[q] = key[r] /\ key[r] # NoKey
    /\ Undisturbed(key[r])
    => ~(Succeeded(q) /\ Succeeded(r))

\* A replay is of a request with the same key that succeeded: its command is in
\* the broker and was acknowledged, or its upstream answered with a 2xx or 3xx.
\* The answer to a request that failed, was refused by a request interceptor or
\* could not be dispatched is never replayed, whatever the ttl and the evictions.
\* The body that is replayed is the one logging had (ctx.body): the receipt of a
\* command, and of a proxied request what its client got, the rejection by a
\* response interceptor included, or only the first 64 KB of it (where the policy
\* publishes bodies) or nothing.  In the last two cases a replay is not the answer
\* its client got, although README.md:208 says it "returns the cached result".
ReplayIsOfSuccess ==
  \A r \in Requests :
    LET q == source[r] IN
    q # NoRequest =>
      /\ key[q] = key[r]
      /\ Succeeded(q)
      /\ ctx[q].served = "modeB" => Published(q, "command") /\ ctx[q].body = "full"
      /\ ctx[q].served = "proxy" =>
           /\ ctx[q].body \in {"full", "rejection", "cut", "empty"}
           /\ ctx[q].body = "cut" => ctx[q].policy \in {"ResponseWithFailure", "RawAudit"}

\* A request whose operation was decoded never ends with its lock in place,
\* whichever of the exits of request_filter, handle_mode_b_edge and
\* dispatch_logging it took.
DecodedRequestsUnlock ==
  \A r \in Requests :
    stage[r] = "end" /\ ctx[r].topic /\ key[r] # NoKey =>
      ~(rec[key[r]].state = "InProgress" /\ rec[key[r]].owner = r)

\* The terminal events of a request agree with what became of it and of its key.
\* There is at most one of them, and none where the policy suppresses it; Mode B
\* and replays have none.  `success` is only published for an upstream success,
\* when the response is in the engine already: whoever acts on the event finds a
\* retry answered by a replay.  `failed` is only published when no record of the
\* request is left, so that a retry is neither refused nor answered for it.
\* A redirect counts as a success here (telemetry.rs:117-119), although
\* docs/modes-of-operation.md:58 and 69 publish a success on a 2xx only.
TerminalEvents ==
  \A r \in Requests :
    /\ Cardinality({i \in DOMAIN events[r] : events[r][i] \in Terminal}) <= 1
    /\ Published(r, "success") =>
         /\ ctx[r].served = "proxy" /\ UpstreamSucceeded(r) /\ ctx[r].policy # "None"
         /\ key[r] # NoKey /\ Undisturbed(key[r]) =>
              rec[key[r]].state = "Completed" /\ rec[key[r]].owner = r
    /\ Published(r, "failed") =>
         /\ ctx[r].served = "proxy" /\ ~UpstreamSucceeded(r)
         /\ ctx[r].policy \in {"ResponseWithFailure", "RawAudit"}
         /\ key[r] # NoKey => rec[key[r]].owner # r

=============================================================================
