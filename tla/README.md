# SpectraGQL: specifications, model checking and proofs

TLA+ models of the core of the SpectraGQL gateway (`src/`), TLC configurations
that check them on small instances, and TLAPS proofs that hold for every value
of the constants. `PROJECT.json` maps every definition to the lines it models
and lists the runs, the mutants that show each property can fail, the hazards
and the theorems.

## 1. Inventory

SpectraGQL is a GraphQL gateway on Cloudflare's Pingora. Requests run as
concurrent tokio tasks on several threads and share an idempotency engine, a
hybrid logical clock, a subscription hub and an atomically swapped
configuration. It talks to upstream services, an event broker, and optionally
Redis.

| Component | State it keeps | Operations | Interacts with | Hard behaviour |
|---|---|---|---|---|
| Idempotency engine (`idempotency/mod.rs`) | sharded LRU caches behind mutexes, one shared `usize` counter; or Redis keys | `check_or_insert`, `complete`, `remove` | called by the gateway filters | clock read outside the lock, counter and shards updated at different times, eviction of locks in flight, stale owners |
| Request lifecycle (`gateway/composite_service.rs`) | a `SpectraProxyCtx` per request | `request_filter`, `upstream_peer`, response filters, `logging` | all filters, the engine, upstreams, brokers | an await at every I/O, many early returns, errors in any phase |
| IdempotencyFilter, StrategyRouter, TelemetryDispatcher (`gateway/filters`) | fields of the context | explicit key and fingerprint lookups; Mode A and Mode B; terminal events | engine, broker | who releases the key, and when; publishes that fail after they were stored |
| Hybrid logical clock (`core/clock.rs`) | one packed `AtomicU64` | `now`, `update` | stamps requests and records | lock-free loop, wall clock going back, 16-bit overflow, wrong remote clocks |
| Subscription hub and WebSocket actors (`subscriptions/`) | two maps behind two `RwLock`s, a bounded queue per client | `register`, `deregister`, `deregister_connection`, `broadcast` | the WebSocket handler, broadcasters | two locks one after the other, abort of a task at any await, slow clients |
| Dynamic configuration (`composite_service.rs`, `admin/mod.rs`, `lib.rs`) | `DynamicGatewayState` in an `ArcSwap` | update, reload, DNS rescan, restart | admin API, refresher thread, `ConfigStore`, DNS | load, work, store without a lock; crash between steps |
| Configuration store (`core/config_store.rs`) | a file, a Redis key or a table row | `load_config`, `save_config` | admin API, start-up | temporary file and rename, shared by concurrent saves |
| Interceptor pipelines (`interceptors/manager.rs`, `request.rs`, `response.rs`) | compiled pipelines, rebuilt on every reload | run the interceptors of a stage in order | request lifecycle | rejection, audit, transform and fail mode in the middle of a list |
| WASM evaluator and circuit breaker (`interceptors/evaluators/wasm.rs`) | an atomic counter and two values behind two `RwLock`s; the epoch ticker thread | `can_execute`, `record_success`, `record_failure`, guest call | interceptor pipelines | three reads one after another, counter and state updated at different times, guests that loop |
| RBAC interceptor (`interceptors/auth.rs`) | an LRU of verified tokens behind a mutex, a key map behind a `RwLock` | resolve a token, decide, refresh the keys | pipelines, JWKS provider | stale claims and keys, clock read before the lock, fetches that fail or are late |
| CEL rules, native rules, sanitizer | compiled rules | verdict on a request or response | pipelines | pure functions |
| Broker dispatchers (`telemetry/`) | one lazily made connection per handler: an `ArcSwapOption` filled under a mutex (NATS), a `OnceCell` (the others), none (webhook) | `dispatch_request_info`, `dispatch_response_info`, `dispatch_terminal_event`, `dispatch_payload` | TelemetryDispatcher, StrategyRouter, the broker | outages, lost acknowledgements, eviction of a connection others use, single flight, a stream that must be provisioned |
| Event-sink inspector (`admin/eventsink.rs`) | a cached response, a NATS client and a JetStream context in `ArcSwap`s, a mutex | `inspect`, `query_worker_logs`, `evict_nats` | admin API, the broker | timeout at any await, overlapping inspections, evictions under each other |
| Schema coverage (`admin/schema_inspector.rs`) | the last report | classify the mutations of the upstream's schema | admin API, route table | must agree with the router |
| Admin API, registries (`admin/`) | a worker registry and a traffic ring | heartbeats, listing | everything | expiry, bounded ring |
| Protocol parsing (`protocol/`) | none | decode a body | request lifecycle | pure |

What makes each correct, in one line: the engine lets at most one request on a
key execute; the lifecycle settles every key it took and reports what really
happened; the clock issues unique, causal, bounded timestamps; the hub's maps
agree and a slow or dead client harms nobody else; a configuration is replaced
as a whole, durably, and an acknowledged one is the live one; a pipeline admits
only what its interceptors admitted, a failing plugin is shut off and let back
in, and no identity outlives its key or its expiry by more than the cache's ttl;
a request is handled as some configuration live since it began says; a dispatch
that returned Ok is on the broker, and dispatches and the dashboard recover when
the broker does.

## 2. Plan

Order of work, most important behaviour first:

1. `IdempotencyStore`, `IdempotencyEngine`: abstract engine, memory backend,
   refinement. *Done.*
2. `Gateway`: the request lifecycle on top of `IdempotencyStore`. *Done.*
3. `HlcClock`. *Done.*
4. `SubscriptionHub`. *Done.*
5. `ConfigPlane`. *Done (file store).*
6. `Interceptors`: pipelines and circuit breaker. *Done.*
7. `AuthCache`: token cache, key refresh, policy. *Done.*
8. `RedisIdempotency`: the Redis backend, with a connection that fails at any
   command. *Done.* It fails open and shares its records between gateways, so
   it does not implement `IdempotencyStore`; what it promises instead is a bound
   on the executions of a key, `OverlapIsPaid`.
9. `Dispatchers` and `SinkInspector`. *Done.*
10. `Routing`: requests that load the dynamic state anew in each phase. *Done.*

Every safety invariant and every action property of the runs is proved (section
5). What is left: an abstract specification of the hub and of the configuration
store with the refinements to them, and the part of a configuration change that
falls between `Gateway` and `Routing` (section 6).

## 3. Modules

| Module | Models | Checked by | Proved in |
|---|---|---|---|
| `IdempotencyStore` | what the engine promises: a table from keys to records | refinement target; `Gateway` is built on it | `IdempotencyEngineProofs`, `GatewayProofs` (both refine it) |
| `IdempotencyEngine` | the in-memory backend | `engine_evict`, `engine_exclusive` | `IdempotencyEngineProofs` |
| `RedisIdempotency` | the Redis backend and its connection | `redis_faults` | `RedisIdempotencyProofs` |
| `Gateway` | the life of a request through filters, proxy and logging | `gateway_lifecycle` | `GatewayProofs` |
| `Routing` | applications, routes, upstreams and response interception of requests under hot reloads; the coverage report | `routing_reload` | `RoutingProofs` |
| `Dispatchers` | the seven dispatch handlers and an unreliable broker | `dispatch_outage` | `GatewayProofs`, last part |
| `SinkInspector` | the admin API's view of the broker | `sink_status` | `ConfigPlaneProofs`, last part |
| `HlcClock` | the clock's compare-exchange loop | `clock_order` | `HlcClockProofs` |
| `SubscriptionHub` | the hub, the connection actors, broadcasts | `hub_maps` | `SubscriptionHubProofs` |
| `ConfigPlane` | dynamic state, admin API, refresher, file store, restart | `config_swap` | `ConfigPlaneProofs` |
| `Interceptors` | request and response pipelines, WASM plugin and breaker | `plugin_breaker` | `InterceptorsProofs` |
| `AuthCache` | RBAC interceptor, token cache, key refresh | `auth_cache` | `InterceptorsProofs`, last part |
| `MC...` | instances of the above for TLC | | |

The modules also define *faulty variants*: what an action would be with a
mistake this code invites. They are not part of
the specification. `PROJECT.json` pairs each property with a variant that
breaks it.

### IdempotencyStore and IdempotencyEngine

A record is `InProgress` or `Completed`, has an owner (the request whose hybrid
timestamp it carries; timestamps are unique, see `HlcClock`) and the second it
was made. `IdempotencyStore` has one action per answer of `check_or_insert`
(`Acquire`, `Conflict`, `Replay`), `Complete`, `Remove`, `Abandon` (a request
that ends without either) and `Evict`. `Evictable` says which records may be
dropped for lack of room.

`IdempotencyEngine` cuts the calls where threads can interleave: at mutex
acquisitions, `try_lock`s and accesses to the shared counter `len`. `pc[r]`
names the point in the code, `lock[s]` the thread that holds shard `s`, `lru`
the order of each shard; the counter wraps at `UsizeMax`. `ImplementsStore`
states the refinement: the record table is the same, `PhaseOf(pc)` is the
phase, and `Evictable` is empty as long as the keys in use fit `max_capacity`.

### Gateway

A step is what one request does from one await to the next. `stage[r]` is the
position in the handlers, `ctx[r]` the context fields that steer it, `events[r]`
what the broker has stored. The client can be gone at any read or write, the
upstream applies what it was sent at a time of its own, and a publish that
fails may have stored the event. The engine is `IdempotencyStore`, extended, so
a request's step and the engine's answer are one step; `engine_evict` shows the
real engine does nothing else. A pipeline of interceptors is its verdict, a
decoder its result; routes are members of `Routes`. `ctx[r].body` is what
`logging` has of the response: all of it, a part, nothing, or a response
interceptor's rejection.

### RedisIdempotency

A step is one command, or one step of the `OnceCell` behind
`RespClient::get_connection`, which one caller at a time fills (`manager[g]`).
The environment makes connections fail, loses a command before or its reply
after it was executed, runs out an `EX` (ticks) and restarts the server without
its keys. `losses[k]` is history: the answers New given without a confirmed
lock, and the records of running or finished executions that disappeared.

### Routing

`live` is the configuration in `dynamic_state`; a request's context is a record
of the fields the phases write. `new_ctx`, `early_request_filter`,
`upstream_peer`, `response_filter` and each `response_body_filter` load the
state anew, `request_filter` keeps what it loaded first. `seen` is history: the
configurations that were live since the request began. What the lookups do is
translated in full; header, host and path are abstracted to the values that
match, and interceptors to the operations they guard. Routes are a set, since a
`HashMap` may yield any of those that match. `Fold` is the case-insensitive
comparison of the router (`eq_ignore_ascii_case`: header, host, operation name,
root field); the coverage report and the interceptor tables compare exactly.
`topic` is `request_topic`, with the application's prefix, under which the
terminal events go out; `published` is the topic of the request's own event (the
command of Mode B, the raw audit of Mode A), which is always the base topic.

### Dispatchers

One module for the seven handlers, because their control is the same sequence
(load the connection or wait for the lock, connect, provision, prepare, send,
await the answer); the records `Nats`, `Kafka`, ... name the features in which
the code of each differs. Connections are values of `Conns`; a connection that
nobody holds any more is free to be used again. `link[n]` is its state, which
the broker's outages break and the client library may repair. An event is
ordinary, too large, or unmatched: the broker has no place for its topic. NATS
refuses an unmatched event; Kafka's client waits for the topic.

### SinkInspector

Each inspection is the list of its calls with the status it answers if one
fails and if the broker lacks the stream or topic; `sinkTask[t]` is what a
request is doing, with the time it has left.
`evidence` is history: how long ago the broker answered. The NATS connection
has its own steps.

### HlcClock

Timestamps are pairs of a physical and a logical part. `now` and `update` load
the word, compute a proposal, and exchange it or, weakly, fail and retry. The
wall clock moves both ways between calls. `MaxLogical` is the 16-bit limit.

### SubscriptionHub

`topics` and `tracked`/`entries` are the two maps. Each step is what happens
under one lock; `connsLock` is kept only by `deregister_connection` while it
waits for the other. `Disconnect` is the handler's `abort`: it ends the actor
wherever it awaits, drops its guard and skips its clean-up. A broadcast clones
the subscribers, tries each queue, and deregisters the closed ones. The read of
`has_subscription` and the first half of `register` are one step, as are a
message and the first lock its handler takes: in between nobody else changes
what they read. Ping and pong change nothing and are left out.

### ConfigPlane

`live` is the `ArcSwap`. Tasks load it, work, and store; `file`, `tmp` and
`data` model the store's path, its temporary path and the inodes behind them,
so that a writer keeps writing to its inode after somebody else has renamed it.
`Restart` is a crash with the following `build_composite_service`. `saved`,
`acked` and `raced` are history variables.

### Interceptors

A call runs one pipeline: `pos[c]` is the interceptor it is at, and a rule
answers one of the verdicts its kind can give. At the plugin the call goes
through `can_execute`, the guest and `record_success` or `record_failure` one
access at a time: `state`, `failures` and `tripped` are what the `RwLock`s and
the atomic hold. A tick ages the trip and takes an epoch off the guests'
deadlines. `shut` and `entry` are history: was the circuit open at every
instant since the call entered `can_execute`, and how old was the trip then.
`vouched` is history too: the interceptors that themselves let the call go on.
Breaker and evaluator are rebuilt by a reload and share nothing with the old
ones, so one evaluator is one behaviour.

### AuthCache

A call looks its token up under the mutex, verifies it, and stores the claims,
with the clock it read at the start; `lag[c]` is how old that reading is.
Entries hold the ticks they have left, so time does not grow. The refresh task
fetches, stores and sleeps; it is there only if the provider was built inside a
tokio runtime. The provider rotates its keys and tokens expire at any moment.
`gone` and `dead` are history: since when a token would not have been verified.

## 4. Runs

Bounds are chosen so that each module's interesting cases occur; every action
of every module fires in some passing run.

| Run | What it shows | Bounds, and why they are enough |
|---|---|---|
| `engine_evict` | counter never wraps, LRU order and bounds of the shards, refinement, every call returns | 3 threads, 3 keys, 2 shards, capacity 0, one tick. Every insertion evicts, from the own shard (two keys share one) or another; three threads hold both mutexes and wait for one |
| `engine_exclusive` | at most one executes on a key within the ttl | 3 threads, 2 keys, ttl 2 of 3 seconds: expiry, takeover and a third request |
| `redis_faults` | each fault admits at most one more execution; every call returns | 3 requests on 1 key, 2 gateways: two requests share one cell, the third has its own; ttl 2 ticks, so that a record can age and expire at any point of a request |
| `gateway_lifecycle` | replays are of successes, decoded requests settle their locks, terminal events agree with the outcome, the holder's lock stays, at most one fresh success per key | 2 requests, 2 keys of which one may be evicted, ttl 1 of 1 second, routes of every kind, the policies `None` and `RawAudit`: every test of a policy separates these two, and the other policies go with one of them (the proofs have all four) |
| `routing_reload` | no forwarding of terminated operations; addresses and terminal topics of a configuration met; own events of admitted requests, under the base topic; responses whole; coverage report where names are spelled alike | 1 connection with any number of requests: requests share nothing but `live`, and reloads are free to fall anywhere; configurations that differ in each of applications, upstreams, routes and interceptors, an operation matched by two routes, one that differs from its route in case, inputs with and without header, host, name and body |
| `dispatch_outage` | Ok means stored (not for RabbitMQ and swallowed errors); single flight; recovery after an outage; every dispatch returns, except a Kafka one to a missing topic, and that one holds up nobody | 2 dispatches, 2 connections (one held by each at most), all handlers, operations and kinds of events, all states of the stream |
| `sink_status` | online only on recent evidence; convergence | 2 inspections, 1 log query, timeout and ttl of 1 tick each, all broker kinds |
| `clock_order` | order, drift, causality, termination | 2 threads, 3 calls, logical counter 0..1, so it overflows; remote clocks behind, ahead, used up and beyond the drift |
| `hub_maps` | agreement of the maps, broadcasts spare live clients and always return | 2 clients, 2 topics, 2 broadcasters with 2 broadcasts each, queue length 1: full, closed and live clients, two clean-ups of one subscriber |
| `config_swap` | coherence, durability across a crash, convergence to DNS | 2 admin requests of any kind, refresher, 2 hosts with one change each, 1 crash |
| `plugin_breaker` | justified permits, checked admissions, recovery, shut-off, every call returns | 2 workers, threshold 2, cool-off 2 ticks (with 1, a second trip between two reads cannot be told from the first), deadline 1; a plugin before a rule, in both stages and both fail modes |
| `auth_cache` | cache invariant, no stale identity, revoked keys disappear, new ones arrive | 2 workers, 2 tokens of one key, cache of 1 entry, ttl and delay of 1 tick; a public and a mapped operation under deny_unlisted |

`CHECK_DEADLOCK FALSE` is set where every request, connection or call of the
instance can have ended.

`GatewayInv` and `ClockInv` are inductive as the runs check them. The other
inductive invariants (`IndInv`, `OrderInv`, `RoomyInv`, `StaleInv`, `HubInv`,
`ConfigInv`, `BreakerInv`, `RedisInv`, `RoutingInv`, `DispatchInd`, `SinkInd`,
`RbacInv`) are not listed in a configuration: they are proved, for every
instance.

What the models show about the code beyond the properties, none of which has a
run of its own:

- `remove` and `complete` pop or replace the record of a key without comparing
  its hlc (`idempotency/mod.rs:342`): a request that outlived its ttl removes
  the lock of the one that took its key over, and a third is answered New while
  that one is in flight, where `README.md:97` promises in-flight duplicates a
  409. `Exclusive` is therefore stated within the ttl;
- `dispatch_logging` returns before it releases the key when the request was
  not decoded (`telemetry.rs:64`: client gone while the body is read, GET,
  unparsable body), and the 413 path releases it only after both writes
  succeeded (`composite_service.rs:914`): the explicit key then stays locked
  until the ttl. `DecodedRequestsUnlock` is therefore stated for decoded
  requests;
- `rescan_dns` stores a copy of the state it loaded before name resolution
  (`composite_service.rs:190`) and so may undo an update that was stored and
  acknowledged meanwhile;
- the phases of one request may meet different configurations: an application
  of the old one with the routes of the new, a response intercepted by a
  pipeline that did not exist when the request was screened;
- routes are matched by operation name or root field, route interceptors are
  looked up by operation name only; if several routes match, the order of a
  `HashMap` decides;
- Mode B publishes a command, and `RawAudit` a request, under the base topic,
  without the application's prefix (`strategy.rs:70`, `:189`); `spectra.toml:89`
  calls `subject_prefix` the "subject/topic prefix for Mode B mutation
  dispatch". `RoutedAsConfigured` states what the code does;
- the router ignores case (`gql_request.rs:83`, `:87`) and the coverage report
  does not (`schema_inspector.rs:54`): a route that spells an operation in
  another case is taken and reported as not covered. `CoverageAgrees` is
  therefore stated for names spelled alike;
- the traffic record of Mode B shows the route's receipt status also when the
  publish failed; rejected and disabled requests are recorded twice, the second
  time as proxied with status 200;
- the coverage report is made from the routes of the start-up configuration,
  not from the live ones, and counts disabled routes as covered;
- a NATS acknowledgement error never evicts, and a stream that could not be
  provisioned, was lost with a memory store, or lacks the subjects is not looked
  at again until an oversize event happens to evict the connection; topics under
  a custom `subject_prefix` are outside the provisioned subjects and every
  publish of them fails;
- an oversize event evicts the NATS connection that all requests share;
- Kafka asks for a partition with `UnknownTopicHandling::Retry`
  (`kafka.rs:109`), which has no deadline: with a topic or partition that does
  not exist and is not created by the broker, the dispatch never returns, and in
  Mode B the client waits with it. `CallsReturn` excepts this call only. The
  event-sink inspector does the same (`eventsink.rs:715`), under its timeout;
- a publish of Mode B that was stored and reported as failed releases the key
  (`strategy.rs:125`), and the retry commits the command again;
- RabbitMQ answers Ok without a confirm, and a broken connection stays in its
  `OnceCell` until the process is restarted;
- the webhook's terminal events are always Ok, delivered or not;
- at capacity, an insertion can evict the lock of an operation in flight
  (`Evict` in `IdempotencyStore`; `Exclusive` holds only below capacity), and
  `complete` of an evicted key makes `len` overcount for good;
- a mutation that the upstream applied but whose answer was lost is applied
  again by the retry, because the key is released on every proxy error;
- the event of a 2xx is published once and a failed publish is only logged;
- a 3xx counts as a success (`telemetry.rs:117`): it is published and cached,
  where `docs/modes-of-operation.md:58` and `:69` speak of an HTTP 2xx.
  `TerminalEvents` states what the code does;
- a response interceptor's rejection replaces the body under the status that
  was already sent, so a rejected 2xx is published, cached and replayed as a
  success (`telemetry.rs:166`);
- an actor aborted between the two locks of `register` or
  `deregister_connection` leaves a registration no broadcast can remove;
- overlapping saves share one temporary file and can leave a torn one;
- `response_body_filter` does not buffer the body of a success under
  `ResponseOnly` and `None` (`composite_service.rs:1365`, `ResponseEnd` in
  `Gateway`), and only 64 KB of it otherwise, so a replay answers with an empty
  or cut body; `README.md:208` says it "returns the cached result".
  `ReplayIsOfSuccess` says which request a replay is of and which bodies are
  possible, not that it repeats the answer;
- when a client vanishes, `handler.rs:129` aborts its actor before
  `deregister_connection`; its entry in `connections` stays for good, also
  after a broadcast has removed its subscriptions, and is counted by
  `active_connection_count` (`hub.rs:188`);
- the request pipeline also ends at a `Transform` (`request.rs:272`), so a
  plugin placed before RBAC that rewrites a header keeps RBAC from being asked;
  the comment at `request.rs:224` names only rejections;
- `HalfOpen` admits any number of probes at once, and a call that began before
  a trip and succeeds after it closes the circuit without a probe;
- the JWKS task is spawned only if a tokio runtime is current
  (`auth.rs:115`). `main` builds the gateway outside one, so a gateway that
  boots with `jwks_url` never fetches a key and refuses every token until the
  first reload; `docs/auth-and-rbac.md:71` promises "automated background key
  rotation". The task of a replaced configuration never ends;
- `allow_authenticated` passes a mapped operation without the role it requires;
- identity headers are inserted into a copy of the request's parts
  (`composite_service.rs:1014`) and do not reach the upstream, unlike
  `README.md:128`.

### Fairness

- Engine: a call that has begun is run by a thread that holds no lock it waits
  for elsewhere; its next step is taken if it stays possible. Which call ends a
  request, and whether its upstream ever answers, is not assumed.
- Clock: as above; and since calls are finite in an instance, an exchange
  cannot fail for ever for lack of a competitor. Endless spurious failures of
  `compare_exchange_weak` are excluded by the hardware, not by the code.
- Hub: a broadcast under way and a clean-up that holds the lock are runnable.
  Nothing is assumed of clients.
- Configuration: tasks are runnable, the refresher's loop does not end, and a
  name that exists resolves infinitely often.
- Interceptors: worker threads run, and time passes, for the breaker's clock as
  for the ticker thread, which is started with the evaluator and does nothing
  else. Traffic and the plugin's health are premises of the properties.
- AuthCache: threads and the refresh loop run, time passes, and the provider
  answers infinitely many of infinitely many fetches.
- RedisIdempotency: a connection attempt or a command that has begun ends, if
  only in an error.
- Dispatchers: while the broker is up, a step of a dispatch that stays possible
  is taken; the tokio mutex and the `OnceCell` grant their waiters in order
  (strong fairness on the grant); a library keeps trying to reconnect. Nothing
  is assumed while the broker is down, nor that a topic Kafka lacks is ever
  created.
- SinkInspector: requests under way are runnable and time passes. A call that
  the broker answers, well or badly, is answered before the next tick, and a
  request whose timer has fired is run before it. That somebody keeps asking is a premise.
- Routing: no liveness.
- Gateway: no liveness. `HttpPeer` is built without timeouts, so a silent
  upstream may hold a request for ever.

## 5. Proofs

All proofs are checked by tlapm with its SMT, Zenon and LS4 backends. The actions write
`[task[t] EXCEPT ...]` instead of a nested `@`, which tlapm 1.4.5 expands to the
wrong expression.

**IdempotencyEngineProofs**, from `EngineAssumption` (finite sets, `ShardOf` a
function into the shards, naturals; any number of threads, keys, shards, any
capacity): `TypeCorrect`, `IndInvHolds`, `CounterSafe`. `CounterNeverWraps`
says a subtraction never meets 0. It is not inductive: the inductive invariant
adds that critical sections exclude each other, that a record put and not yet
counted stays where it is while its thread holds the mutex, and that `len` plus
the additions under way covers the records plus the subtractions under way.

- `ShardsOrdered` rests on `OrderInv`: each list is duplicate-free and orders
  exactly the keys of its shard that have a record, and a thread that has passed
  the capacity check finds room in its shard until it puts (`RoomInv`), because
  it holds the shard's mutex and only removals are possible without it. The
  steps on a list are summed up as touched, popped, pushed or replaced, and
  lemmas on lists are stated once for these four.
- `EngineImplementsStore` is the refinement of `IdempotencyStore`, one lemma per
  `pc`. It needs `StaleInv` (from the lookup to the put, the answer of the lookup
  stays true, since the mutex is held) and `RoomyInv`: with fewer keys than
  `max_capacity` the counter is exact and stays below the limit, so no thread is
  ever evicting. That bound counts: keys popped and not yet subtracted are
  absent and locked, each by one thread, so they and the records together are at
  most the keys.
- `LockIsExclusive` is proved of the abstract store and carried over: below
  capacity, and while no request on the key is older than the ttl, a request
  that was told New finds its own lock under the key (`HeldInv`), and two
  requests cannot both do so.

**HlcClockProofs**, for any threads, wall clock behaviour and remote
timestamps: `ClockInvHolds`, `ClockOrder` (issued timestamps strictly
increase), `ClockDrift`, `ClockCausality`. The invariant relates the shared
word, the last issued timestamp and what each call has read; an exchange that
succeeds has read the current word and proposes a later one.

**SubscriptionHubProofs**, from `HubAssumption` (a capacity of at least 1; any
connections, subscription ids, topics and broadcasters): `HubInvHolds`,
`HubMapsAgree`, `HubOneRegistration`, `HubOnlyClientEnds`. `HubInv` has two
halves that need each other. A connection that is not gone owns its part of the
maps (`OwnInv`): they agree up to what its actor is moving. A broadcast
(`PumpInv`) has clean-up work only for connections that are gone: it meets a
closed queue only of a subscriber from the topic map, and by `OwnInv` such a
subscriber has connected, so its actor has ended. One lemma frames what a step
does to the other connections.

**ConfigPlaneProofs**, from `ConfigAssumption` (any configurations, hosts and
admin requests): `ConfigInvHolds`, `ConfigCoherent`, `ConfigDurable`.
`ConfigInv` adds what each task carries (`TaskInv`: a state between its
resolution and its store is already of one configuration) and who owns which
inode (`StoreInv`: without overlapping saves, the temporary path is the saver's
alone, is not the file's inode, and holds a whole content once written).

**InterceptorsProofs**, from `InterceptorsAssumption` (non-empty pipelines of
any kinds and lengths, any threshold and cool-off, any number of calls):
`BreakerInvHolds`, `PipelineChecked`, `PermitsJustified`. A permit given under
the write lock rests on a time read before it, under another lock, so the
invariant follows a call through `can_execute`: as long as the circuit was open
throughout, no trip it reads is older than the trip before it began, ages grow
together, and a re-trip only makes them younger. For the pipelines it says that
the interceptors before `pos[c]` have vouched for the call, so a pipeline that
ran to its end was vouched for by all of them, and a request that the plugin
transformed by the plugin and those in front of it; the rest, RBAC included, was
not asked. `Effect` sums up
what a step of one call does; one lemma frames the other calls.

**RedisIdempotencyProofs**, from `RedisAssumption` (finitely many requests; any
keys, gateways and ttl): `RedisInvHolds`, `OverlapPaid`. The bound on the
executions of a key is not inductive: a stale owner's `complete` or `remove`
replaces or deletes a record that stands for another execution. What is
inductive is a bound on the executions the record does *not* stand for. Each
step leaves that set as it is, exchanges one of its members for another, or adds
one and counts a fault (`Paid`); two lemmas on cardinalities turn this into the
bound.

**GatewayProofs**, from `StoreAssumption` and the assumptions of `Gateway` (any
requests, keys, routes and policies, any evictable keys): `GatewayInvHolds`,
`OneSuccessPerKey`, `ReplaysRepeatSuccesses`, `DecodedUnlock`,
`TerminalEventsAgree`, `GatewayUsesStore`. None of the four properties is
inductive. That a success is the only one with its key needs that it has left
its response under the key (`SuccessKeepsKey`), hence that the lock it completed
was its own (`HeldKeyIsLocked`), hence where in the handlers a key may be held
(`KeyOfRequest`); a replay is of a success because every record is of its owner
(`RecordsAreOfTheirOwners`) and a completed one of an owner that was answered.
`RecEffect` sums up the ways a step may settle a key, so the conjuncts about
records are proved once for each of them and not for each of the handlers.
`AnswerOfRequest` adds which bodies a success may have when it is completed, and
`EventsOfRequest` when a terminal event may be there.
`GatewayUsesStore` is the other half of the refinement of the engine: the
filters' calls are those that `IdempotencyStore` allows.

**RoutingProofs**, for any connections, inputs and configurations:
`RoutingInvHolds`, `NeverForwardedIfTerminated`, `AlwaysRoutedAsConfigured`,
`ResponsesWhole`, `ReportAgrees`. `seen` only grows during a request, so what a
phase found under the configuration it loaded stays witnessed by a member of
`seen`; `RoutingInv` says at each phase which configuration that is (`Phase`),
what the addresses and the topics rest on (`Addressed`), that a request on its
way out was let through by one of them (`Allowed`), and that a response is
buffered from its first chunk or was raw from the start (`Whole`).

Three components share a proofs module with one they work with, which EXTENDS
both; that is why their specifications are named `DispatchSpec`, `AuthSpec` and
`SinkSpec`. The proofs have no facts in common.

**Dispatchers**, at the end of `GatewayProofs`, from `DispatchAssumption`
(finitely many calls, at least as many connection names, since a name is reused
when nobody holds it): `DispatchersHold`. That Ok means stored is not claimed of
RabbitMQ and of the calls that swallow their errors. `DispatchInd` adds that the call that
connects is the one with the lock and meets an empty cell, that an event in
front of an acknowledgement or of its copy is stored, and that copies are
published only by handlers that wait for a confirm. A free connection name is
found by counting: the others hold at most one each.

**AuthCache**, at the end of `InterceptorsProofs`, from `AuthAssumption` (any
calls, tokens, keys and operations, any capacity, lifetime and delay):
`CacheBounded`, `RbacZeroTrust`. The difficulty is a call that has read the
clock, is delayed, and caches a token afterwards with a lifetime counted from its
old reading. `DeadStaysDead` covers it: if the token of a call `c` was dead for
`CacheTtl` before `c` began, every call about to cache that token read the clock
at least `CacheTtl` before `c` did, and every entry of it is expired by `c`'s
clock.

**SinkInspector**, at the end of `ConfigPlaneProofs`, from `SinkAssumption` (any
inspections, log queries and timeouts, a lifetime of at least a tick):
`OnlineIsEvidenced`. `SinkInd` follows a request through the calls of its
broker's script: after the first answer the evidence is no older than the part
of the timeout already spent, so it is at most `Timeout` old when stored and
the cache adds less than its lifetime.

Only model-checked are the liveness properties: `CallsReturn`, `Recovers`,
`Converges`, `DnsConverges`, `BroadcastReturns`, `SickPluginTrips`,
`RevokedTokensDie` and `NewKeysArrive`. They need fairness, and fairness needs
`ENABLED`, which is out of the prover's reach.

## 6. Not modelled

- Worker registry and traffic ring (`admin/registry.rs`, `admin/traffic.rs`):
  each operation is one critical section over one collection. (`clear` and
  `record` of the traffic recorder update their counters outside it; the
  average shown may be off, which nothing depends on.)
- Admin router, IP allowlist, dashboards, the coverage report's percentages and
  drift lists: rendering and pure functions.
- Token validity that begins later (`nbf`, `auth.rs:226`), and the two instants
  at which a verification reads the keys and the clock: one step in `AuthCache`.
  Identity headers (`auth.rs:512`) decide nothing.
- A Redis command that the server executes after its caller has seen the error:
  `RedisIdempotency` executes a lost command before the error or not at all.
- The refresher's load of the state and the one of `rescan_dns` that follows it
  (`composite_service.rs:255`, `:111`): one step in `ConfigPlane`.
- Tokens without a key id, which are verified with an arbitrary key of the map;
  `RuleEvaluator::evaluate` of the WASM evaluator, which by-passes the breaker
  and which no pipeline uses.
- Locks and events of a request whose configuration changes half-way: `Gateway`
  has them under one configuration, `Routing` has the change without them.
- Pingora's own retries on reused connections; traffic recording.
- The clock's 48-bit physical part saturating; uuid generation.
- Parsing, CEL and WASM evaluation, token cryptography, JSON and HTML of the
  admin API, broker protocols: pure functions or external code, represented by
  their results where the control flow depends on them.
- Several upstreams per configuration, of which a rescan may refresh a part;
  the Redis and PostgreSQL configuration stores, whose saves are one step.
