----------------------------- MODULE SinkInspector -----------------------------
(***************************************************************************)
(* EventSinkInspector (src/admin/eventsink.rs): what the admin API's       *)
(* /eventsink and /workers/<id>/logs ask of the event broker.  An          *)
(* inspection is a sequence of calls to the broker under one timeout; its  *)
(* response is cached for a short time and shared by all requests.  For    *)
(* NATS the connection is shared too: an ArcSwap for the client, one for   *)
(* the JetStream context over it, and a mutex taken to connect.            *)
(*                                                                         *)
(* A step is what a request does from one await to the next, or up to the  *)
(* next access to what is shared.  Time is counted in ticks.  A call that  *)
(* can end ends before the next tick, and a request whose timer fires is   *)
(* run before it.                                                          *)
(***************************************************************************)
EXTENDS Integers, Sequences

CONSTANTS
  Kinds,       \* broker kinds the gateway may be configured with
  Inspectors,  \* requests for /eventsink
  Queriers,    \* requests for a worker's logs
  Timeout,     \* 2500 ms, in ticks
  CacheTtl,    \* 1500 ms, in ticks
  Absent       \* nobody, and no cached response

ASSUME SinkAssumption ==
  /\ Kinds \subseteq {"nats", "redis", "iggy", "rabbitmq", "kafka", "sierradb",
                      "webhook", "generic"}
  /\ Inspectors \intersect Queriers = {} /\ Absent \notin Inspectors \union Queriers
  /\ Timeout \in Nat /\ CacheTtl \in Nat \ {0}

VARIABLES
  kind,    \* broker_method
  broker,  \* what the broker does with a call
  client,  \* nats_client holds a connection
  js,      \* nats_jetstream holds a context
  lock,    \* connect_lock: the request that holds it
  cache,   \* cached_response
  sinkTask \* sinkTask[t]: what request t is doing, and what it answered last

sinkVars == <<kind, broker, client, js, lock, cache, sinkTask>>

SinkTasks == Inspectors \union Queriers

\* "down" refuses, "silent" does not answer, "bare" has no stream or topic.
Brokers == {"down", "silent", "bare", "up"}

Statuses == {"none", "offline", "degraded", "connected", "online", "active", "timeout"}

\* How long ago the broker answered, counted no further than it matters.
MaxAge == Timeout + CacheTtl
Ages == 0..MaxAge
Older(n) == IF n < MaxAge THEN n + 1 ELSE n

SinkTaskStates ==
  [at: {"idle", "js", "lock", "connect", "attach", "call", "request", "store"},
   step: 0..3, budget: 0..Timeout, evidence: Ages, status: Statuses, polled: BOOLEAN]

IdleSinkTask == [at |-> "idle", step |-> 0, budget |-> 0, evidence |-> MaxAge,
             status |-> "none", polled |-> FALSE]

SinkTypeOK ==
  /\ kind \in Kinds /\ broker \in Brokers
  /\ client \in BOOLEAN /\ js \in BOOLEAN
  /\ lock \in SinkTasks \union {Absent}
  /\ cache \in {Absent} \union [age: Ages, evidence: Ages, status: Statuses]
  /\ sinkTask \in [SinkTasks -> SinkTaskStates]

SinkInit ==
  /\ kind \in Kinds /\ broker \in Brokers
  /\ client = FALSE /\ js = FALSE
  /\ lock = Absent /\ cache = Absent
  /\ sinkTask = [t \in SinkTasks |-> IdleSinkTask]

-----------------------------------------------------------------------------
(* The calls of each inspection: the status it ends with when the call       *)
(* fails, and when the broker lacks the stream; "go" where it goes on, and   *)
(* "hangs" where it waits for the stream.                                    *)

Call(fails, missing) == [fails |-> fails, missing |-> missing]

\* get_stream of either name, get_info, the consumers.
inspect_nats == <<Call("connected", "connected"), Call("connected", "go"), Call("go", "go")>>

\* Connection, PING, XLEN.
inspect_redis == <<Call("offline", "go"), Call("degraded", "go"), Call("go", "go")>>

\* Connection, stream.
inspect_iggy == <<Call("offline", "go"), Call("connected", "connected")>>

\* Connection, channel, passive declaration of the queue.
inspect_rabbitmq ==
  <<Call("offline", "go"), Call("connected", "go"), Call("connected", "connected")>>

\* Client, partition (UnknownTopicHandling::Retry: without a deadline), offset.
inspect_kafka == <<Call("offline", "go"), Call("connected", "hangs"), Call("go", "go")>>

\* Connection, PING.
inspect_sierradb == <<Call("offline", "go"), Call("degraded", "go")>>

\* HEAD: an answer that is no success, redirection or 405 is "degraded".
inspect_webhook == <<Call("offline", "degraded")>>

\* No call at all.
inspect_generic == <<>>

Script ==
  CASE kind = "nats"     -> inspect_nats
    [] kind = "redis"    -> inspect_redis
    [] kind = "iggy"     -> inspect_iggy
    [] kind = "rabbitmq" -> inspect_rabbitmq
    [] kind = "kafka"    -> inspect_kafka
    [] kind = "sierradb" -> inspect_sierradb
    [] kind = "webhook"  -> inspect_webhook
    [] kind = "generic"  -> inspect_generic

Fails   == broker \in {"down", "silent"}     \* libraries have timeouts of their own
Answers == broker \in {"bare", "up"}

\* The call that t is making waits for a topic that the broker does not have.
AwaitsTopic(t) ==
  sinkTask[t].at = "call" /\ broker = "bare" /\ Script[sinkTask[t].step].missing = "hangs"

-----------------------------------------------------------------------------
Set(t, r) == sinkTask' = [sinkTask EXCEPT ![t] = r]
At(t, p)  == Set(t, [sinkTask[t] EXCEPT !.at = p])

\* The inspection has a response, which inspect stores next.
Respond(t, status) ==
  Set(t, [sinkTask[t] EXCEPT !.at = "store", !.status = status,
                         !.evidence = IF status = "online" THEN sinkTask[t].evidence ELSE MaxAge])

\* The request is answered.
Answered(t) ==
  Set(t, [sinkTask[t] EXCEPT !.at = "idle", !.step = 0, !.budget = 0])

\* evict_nats: the swaps of three cells, none of which is read with another.
evict_nats == client' = FALSE /\ js' = FALSE /\ cache' = Absent

NoEviction == UNCHANGED <<client, js, cache>>

\* What a request does with the client it got.
WithClient(t) == IF t \in Inspectors THEN "attach" ELSE "request"

-----------------------------------------------------------------------------
(* Faulty variants of the definitions below, each a mistake this code invites. *)

\* The cached response is used whatever its age.
Fresh_Always(c) == c # Absent

\* The timeout leaves the mutex locked.
TimesOut_KeepsLock(t) ==
  /\ t \in Inspectors
  /\ sinkTask[t].at \in {"lock", "connect", "call"} /\ sinkTask[t].budget = 0
  /\ Respond(t, "timeout")
  /\ NoEviction /\ UNCHANGED <<kind, broker, lock>>

-----------------------------------------------------------------------------
(* inspect *)

\* cached.0.elapsed() < 1500 ms
Fresh(c) == c # Absent /\ c.age < CacheTtl

\* One request of each client per tick: requests take time.
Polls(t) == sinkTask[t].at = "idle" /\ ~sinkTask[t].polled

AnswerCached(t) ==
  /\ t \in Inspectors /\ Polls(t)
  /\ Fresh(cache)
  /\ Set(t, [sinkTask[t] EXCEPT !.polled = TRUE, !.status = cache.status,
                            !.evidence = cache.evidence])
  /\ UNCHANGED <<kind, broker, client, js, lock, cache>>

Inspect(t) ==
  /\ t \in Inspectors /\ Polls(t)
  /\ ~Fresh(cache)
  /\ Set(t, [at |-> IF kind = "nats" THEN "js" ELSE IF Script = <<>> THEN "store" ELSE "call",
             step |-> 1, budget |-> Timeout, evidence |-> MaxAge,
             status |-> IF Script = <<>> THEN "active" ELSE "none", polled |-> TRUE])
  /\ UNCHANGED <<kind, broker, client, js, lock, cache>>

\* A call is answered.  After the last one the broker is "online".
CallOk(t) ==
  /\ sinkTask[t].at = "call"
  /\ \/ broker = "up"
     \/ broker = "bare" /\ Script[sinkTask[t].step].missing = "go"
  /\ LET last == sinkTask[t].step = Len(Script) IN
     Set(t, [sinkTask[t] EXCEPT !.evidence = 0,
                            !.at = IF last THEN "store" ELSE "call",
                            !.step = IF last THEN sinkTask[t].step ELSE sinkTask[t].step + 1,
                            !.status = IF last THEN "online" ELSE "none"])
  /\ UNCHANGED <<kind, broker, client, js, lock, cache>>

CallMissing(t) ==
  /\ sinkTask[t].at = "call" /\ broker = "bare"
  /\ Script[sinkTask[t].step].missing \notin {"go", "hangs"}
  /\ Respond(t, Script[sinkTask[t].step].missing)
  /\ UNCHANGED <<kind, broker, client, js, lock, cache>>

\* inspect_nats evicts if the text of the error names the connection.
CallFails(t) ==
  /\ sinkTask[t].at = "call" /\ Fails
  /\ Script[sinkTask[t].step].fails # "go"
  /\ Respond(t, Script[sinkTask[t].step].fails)
  /\ NoEviction \/ (kind = "nats" /\ evict_nats)
  /\ UNCHANGED <<kind, broker, lock>>

\* unwrap_or(0): the last call of some inspections does not count.
CallIgnored(t) ==
  /\ sinkTask[t].at = "call" /\ Fails
  /\ Script[sinkTask[t].step].fails = "go"
  /\ Respond(t, "online")
  /\ UNCHANGED <<kind, broker, client, js, lock, cache>>

\* The future is dropped, and with it the guard of the mutex.
TimesOut(t) ==
  /\ t \in Inspectors
  /\ sinkTask[t].at \in {"lock", "connect", "call"} /\ sinkTask[t].budget = 0
  /\ Respond(t, "timeout")
  /\ lock' = IF lock = t THEN Absent ELSE lock
  /\ NoEviction /\ UNCHANGED <<kind, broker>>

\* Whatever another inspection stored meanwhile is replaced.
StoreResponse(t) ==
  /\ sinkTask[t].at = "store"
  /\ cache' = [age |-> 0, evidence |-> sinkTask[t].evidence, status |-> sinkTask[t].status]
  /\ Answered(t)
  /\ UNCHANGED <<kind, broker, client, js, lock>>

-----------------------------------------------------------------------------
(* get_nats_jetstream and get_nats_client *)

GetJetstream(t) ==
  /\ sinkTask[t].at = "js"
  /\ At(t, IF js THEN "call" ELSE IF client THEN "attach" ELSE "lock")
  /\ UNCHANGED <<kind, broker, client, js, lock, cache>>

\* A context over the client, which may have been evicted by now.
Attach(t) ==
  /\ sinkTask[t].at = "attach"
  /\ js' = TRUE
  /\ At(t, "call")
  /\ UNCHANGED <<kind, broker, client, lock, cache>>

\* Under the mutex the client is looked for again.
LockFound(t) ==
  /\ sinkTask[t].at = "lock" /\ lock = Absent /\ client
  /\ At(t, WithClient(t))
  /\ UNCHANGED <<kind, broker, client, js, lock, cache>>

LockConnect(t) ==
  /\ sinkTask[t].at = "lock" /\ lock = Absent /\ ~client
  /\ lock' = t
  /\ At(t, "connect")
  /\ UNCHANGED <<kind, broker, client, js, cache>>

ConnectOk(t) ==
  /\ sinkTask[t].at = "connect" /\ Answers
  /\ client' = TRUE /\ lock' = Absent
  /\ At(t, WithClient(t))
  /\ UNCHANGED <<kind, broker, js, cache>>

\* inspect_nats evicts and answers "offline"; query_worker_logs just fails.
ConnectFails(t) ==
  /\ sinkTask[t].at = "connect" /\ Fails
  /\ lock' = Absent
  /\ \/ t \in Inspectors /\ evict_nats /\ Respond(t, "offline")
     \/ t \in Queriers /\ NoEviction /\ Answered(t)
  /\ UNCHANGED <<kind, broker>>

-----------------------------------------------------------------------------
(* query_worker_logs *)

Query(t) ==
  /\ t \in Queriers /\ Polls(t)
  /\ kind = "nats"
  /\ Set(t, [IdleSinkTask EXCEPT !.at = IF client THEN "request" ELSE "lock", !.polled = TRUE])
  /\ UNCHANGED <<kind, broker, client, js, lock, cache>>

\* The worker replies, or does not within 2000 ms.
RequestEnds(t) ==
  /\ sinkTask[t].at = "request"
  /\ Answered(t)
  /\ UNCHANGED <<kind, broker, client, js, lock, cache>>

RequestFails(t) ==
  /\ sinkTask[t].at = "request" /\ Fails
  /\ evict_nats
  /\ Answered(t)
  /\ UNCHANGED <<kind, broker, lock>>

-----------------------------------------------------------------------------
(* The environment *)

BrokerChanges(b) ==
  /\ broker' = b /\ b # broker
  /\ UNCHANGED <<kind, client, js, lock, cache, sinkTask>>

\* t can do nothing but wait: for its client, the mutex, a silent broker, a topic
\* or a worker.
Waits(t) ==
  \/ sinkTask[t].at \in {"idle", "request"}
  \/ sinkTask[t].at = "lock" /\ lock # Absent
  \/ sinkTask[t].at \in {"connect", "call"} /\ broker = "silent"
  \/ AwaitsTopic(t)

Tick ==
  /\ \A t \in SinkTasks : Waits(t)
  /\ \A t \in Inspectors : sinkTask[t].at # "idle" => sinkTask[t].budget > 0
  /\ cache' = IF cache = Absent THEN Absent
              ELSE [cache EXCEPT !.age = Older(@), !.evidence = Older(@)]
  /\ sinkTask' = [t \in SinkTasks |->
       IF t \in Inspectors /\ sinkTask[t].at # "idle"
       THEN [sinkTask[t] EXCEPT !.budget = @ - 1, !.evidence = Older(@), !.polled = FALSE]
       ELSE [sinkTask[t] EXCEPT !.polled = FALSE]]
  /\ UNCHANGED <<kind, broker, client, js, lock>>

\* The next step of a request under way.
SinkContinue(t) ==
  \/ CallOk(t) \/ CallMissing(t) \/ CallFails(t) \/ CallIgnored(t) \/ TimesOut(t)
  \/ StoreResponse(t) \/ GetJetstream(t) \/ Attach(t)
  \/ LockFound(t) \/ LockConnect(t) \/ ConnectOk(t) \/ ConnectFails(t)
  \/ RequestEnds(t) \/ RequestFails(t)

inspect(t) == AnswerCached(t) \/ Inspect(t)

SinkNext ==
  \/ \E t \in SinkTasks : inspect(t) \/ Query(t) \/ SinkContinue(t)
  \/ \E b \in Brokers : BrokerChanges(b)
  \/ Tick

SinkSpec == SinkInit /\ [][SinkNext]_sinkVars

\* Requests under way are runnable, and time passes.
SinkFairness == (\A t \in SinkTasks : WF_sinkVars(SinkContinue(t))) /\ WF_sinkVars(Tick)

SinkFairSpec == SinkSpec /\ SinkFairness
-----------------------------------------------------------------------------
(* Properties *)

\* Who is told "online": the broker has answered a call within the last
\* Timeout + CacheTtl.
OnlineIsRecent ==
  \A t \in Inspectors :
    sinkTask[t].at = "idle" /\ sinkTask[t].status = "online"
      => sinkTask[t].evidence < Timeout + CacheTtl

\* The mutex is held by the request that connects.  An inspection has heard of
\* the broker, if at all, since it began, and a cached "online" rests on an
\* answer no older than the timeout and its own age together.  So nobody is told
\* "online" on older evidence, although the freshness of a response counts from
\* its end, and although inspections overlap, overwrite each other's response
\* and have it evicted.
SinkInv ==
  /\ SinkTypeOK
  /\ lock # Absent => sinkTask[lock].at = "connect"
  /\ \A t \in SinkTasks : sinkTask[t].at = "connect" => lock = t
  /\ \A t \in Inspectors :
       LET r == sinkTask[t] IN
       \/ r.at = "call" /\ r.step > 1
       \/ r.at = "store" /\ r.status = "online"
       => r.evidence <= Timeout - r.budget
  /\ cache # Absent /\ cache.status = "online" => cache.evidence <= Timeout + cache.age
  /\ OnlineIsRecent

\* Somebody keeps asking.
Polling == \A t \in Inspectors : []<><<inspect(t)>>_sinkVars

\* What the dashboard shows converges to what the broker does: once it is up
\* for good every answer is "online", and once it is gone none is.  No timeout,
\* eviction or hanging log query leaves the mutex locked or an old response
\* behind for ever.
Converges ==
  Polling =>
    /\ <>[](broker = "up" /\ kind # "generic") =>
         <>[](\A t \in Inspectors : sinkTask[t].at = "idle" => sinkTask[t].status = "online")
    /\ <>[](broker \in {"down", "silent"}) =>
         <>[](\A t \in Inspectors : sinkTask[t].at = "idle" => sinkTask[t].status # "online")
=============================================================================
