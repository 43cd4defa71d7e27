------------------------------ MODULE Dispatchers ------------------------------
(***************************************************************************)
(* The dispatch handlers of src/telemetry: one object per service, shared  *)
(* by all its requests, that hands events to a broker.  Each keeps one     *)
(* lazily made connection: NatsDispatch in an ArcSwapOption filled under   *)
(* connect_lock and emptied when a publish fails, the others in a OnceCell *)
(* that is filled once.  WebhookDispatch keeps none.                       *)
(*                                                                         *)
(* A step runs from one await to the next.  The broker goes down and comes *)
(* back at any time; a request it has not answered by then may be lost     *)
(* before it is stored, or after.                                          *)
(***************************************************************************)
EXTENDS Integers, FiniteSets

CONSTANTS
  Kinds,  \* the dispatch methods of this instance
  Calls,  \* tasks that dispatch events
  Conns,  \* names for connections; one that is neither cached nor held is free
  None    \* no call, no connection

ASSUME DispatchAssumption ==
  /\ Kinds \subseteq {"nats", "kafka", "rabbitmq", "iggy", "redis", "sierradb", "webhook"}
  /\ IsFiniteSet(Calls) /\ IsFiniteSet(Conns)
  /\ Cardinality(Conns) >= Cardinality(Calls)
  /\ None \notin Calls /\ None \notin Conns

VARIABLES
  kind,    \* the handler of this service
  broker,  \* "up" or "down"
  stream,  \* the JetStream stream "mutations": "none", "narrow" (without the
           \* gateway's subjects), "file" or "memory"
  link,    \* link[n]: whether connection n is usable, "ok" or "broken"
  cached,  \* the connection the handler keeps
  lock,    \* the call that holds connect_lock, or the OnceCell's permit
  call     \* call[c]: the dispatch c is making, or made last

dispatchVars == <<kind, broker, stream, link, cached, lock, call>>

-----------------------------------------------------------------------------
(* What sets the handlers apart:                                           *)
(*   connects    it keeps a connection                                     *)
(*   relinks     its client library reconnects by itself                   *)
(*   provisions  it sees to the stream when it connects                    *)
(*   prepares    it needs the broker (or, for "buffer", only its own       *)
(*               client) before the event is sent                          *)
(*   confirms    it waits for the broker's answer and heeds it             *)
(*   swallows    the calls that return Ok whatever happens                 *)
(*   copies      the calls that publish the event a second time            *)

Nats == [connects |-> TRUE, relinks |-> TRUE, provisions |-> TRUE, prepares |-> "buffer",
         confirms |-> TRUE, swallows |-> {"response"}, copies |-> {"failed"}]

Kafka == [connects |-> TRUE, relinks |-> TRUE, provisions |-> FALSE, prepares |-> "broker",
          confirms |-> TRUE, swallows |-> {}, copies |-> {}]

\* lapin does not recover a connection by default, a channel without
\* confirm_select has no confirms, and the result of confirm.await is dropped.
RabbitMq == [connects |-> TRUE, relinks |-> FALSE, provisions |-> FALSE, prepares |-> "broker",
             confirms |-> FALSE, swallows |-> {}, copies |-> {}]

Iggy == [connects |-> TRUE, relinks |-> TRUE, provisions |-> FALSE, prepares |-> "nothing",
         confirms |-> TRUE, swallows |-> {"response"}, copies |-> {}]

RedisStreams == [connects |-> TRUE, relinks |-> TRUE, provisions |-> FALSE,
                 prepares |-> "nothing", confirms |-> TRUE, swallows |-> {}, copies |-> {}]

SierraDb == [connects |-> TRUE, relinks |-> TRUE, provisions |-> FALSE,
             prepares |-> "nothing", confirms |-> TRUE, swallows |-> {}, copies |-> {}]

Webhook == [connects |-> FALSE, relinks |-> TRUE, provisions |-> FALSE,
            prepares |-> "nothing", confirms |-> TRUE,
            swallows |-> {"response", "terminal", "failed"}, copies |-> {}]

Handlers == [nats |-> Nats, kafka |-> Kafka, rabbitmq |-> RabbitMq, iggy |-> Iggy,
             redis |-> RedisStreams, sierradb |-> SierraDb, webhook |-> Webhook]

H == Handlers[kind]

\* dispatch_request_info, dispatch_response_info, dispatch_payload, and
\* dispatch_terminal_event of a Failed or of another event
Ops == {"request", "response", "payload", "terminal", "failed"}

\* An oversize event is refused: by the client itself for NATS.  An unmatched
\* one has a topic that the broker keeps nowhere: for NATS outside the stream's
\* subjects (under a custom subject prefix, or that of a plain HTTP request),
\* for Kafka a topic or a partition that does not exist and is not created.
EventKinds ==
  {"ordinary", "oversize"} \union (IF kind \in {"nats", "kafka"} THEN {"unmatched"} ELSE {})

Rest == [at |-> "idle", copying |-> FALSE, on |-> None, event |-> "ordinary",
         swallow |-> FALSE, copy |-> FALSE, stored |-> FALSE, copied |-> FALSE,
         result |-> "none"]

CallStages == {"idle", "load", "wait", "connect", "provision", "prepare", "send", "ack"}

DispatchTypeOK ==
  /\ kind \in Kinds
  /\ broker \in {"up", "down"}
  /\ stream \in {"none", "narrow", "file", "memory"}
  /\ link \in [Conns -> {"ok", "broken"}]
  /\ cached \in Conns \union {None}
  /\ lock \in Calls \union {None}
  /\ call \in [Calls ->
       [at: CallStages, copying: BOOLEAN, on: Conns \union {None},
        event: {"ordinary", "oversize", "unmatched"}, swallow: BOOLEAN, copy: BOOLEAN,
        stored: BOOLEAN, copied: BOOLEAN, result: {"none", "ok", "err"}]]

\* find_dispatch_handler_by_method: the handler is made without a connection.
DispatchInit ==
  /\ kind \in Kinds
  /\ broker \in {"up", "down"}
  /\ stream \in IF Handlers[kind].provisions THEN {"none", "narrow", "file"} ELSE {"file"}
  /\ link = [n \in Conns |-> "ok"]
  /\ cached = None
  /\ lock = None
  /\ call = [c \in Calls |-> Rest]

-----------------------------------------------------------------------------
At(c, s) == call[c].at = s

Goto(c, s) == call' = [call EXCEPT ![c].at = s]

\* The call goes on with connection n.
Use(c, n) == call' = [call EXCEPT ![c].at = "prepare", ![c].on = n]

\* publish has returned: a failure event that NATS has taken is published
\* again under the failed topic, and what becomes of the copy is ignored.
PublishEnds(c, ok) ==
  LET d == call[c] IN
  call' = [call EXCEPT ![c] =
    IF ok /\ d.copy /\ ~d.copying
    THEN [d EXCEPT !.at = "load", !.on = None, !.copying = TRUE]
    ELSE [d EXCEPT !.at = "idle", !.on = None,
                   !.result = IF ok \/ d.swallow \/ d.copying THEN "ok" ELSE "err"]]

InUse == {cached} \union {call[c].on : c \in Calls}

\* The broker can be reached by this call, and takes its event.
Reaches(c) == IF H.connects THEN link[call[c].on] = "ok" ELSE broker = "up"

Accepts(c) ==
  /\ call[c].event = "ordinary"
  /\ stream \in {"file", "memory"}

-----------------------------------------------------------------------------
(* Faulty variants of the actions below, each a mistake this code invites. *)

\* The acknowledgement is awaited and ignored.
DeliverFails_IsOk(c) ==
  /\ At(c, "send")
  /\ H.confirms
  /\ ~(Reaches(c) /\ Accepts(c))
  /\ PublishEnds(c, TRUE)
  /\ UNCHANGED <<kind, broker, stream, link, cached, lock>>

\* The lock is not released on the error path.
ConnectFails_KeepsLock(c) ==
  /\ At(c, "connect")
  /\ broker = "down"
  /\ PublishEnds(c, FALSE)
  /\ UNCHANGED <<kind, broker, stream, link, cached, lock>>

\* The client is closed, not only dropped: other calls still hold it.
PrepareFails_Closes(c) ==
  /\ At(c, "prepare")
  /\ \/ H.prepares = "buffer" /\ call[c].event = "oversize" /\ cached' = None
     \/ H.prepares = "broker" /\ ~Reaches(c) /\ UNCHANGED cached
  /\ link' = [link EXCEPT ![call[c].on] = "broken"]
  /\ PublishEnds(c, FALSE)
  /\ UNCHANGED <<kind, broker, stream, lock>>

-----------------------------------------------------------------------------
(* The connection: get_jetstream, get_client, get_connection *)

Dispatch(c, op, ev) ==
  /\ At(c, "idle")
  /\ call' = [call EXCEPT ![c] =
       [Rest EXCEPT !.at = "load", !.event = ev,
                    !.swallow = op \in H.swallows, !.copy = op \in H.copies]]
  /\ UNCHANGED <<kind, broker, stream, link, cached, lock>>

Load(c) ==
  /\ At(c, "load")
  /\ IF ~H.connects THEN Goto(c, "send")
     ELSE IF cached # None THEN Use(c, cached) ELSE Goto(c, "wait")
  /\ UNCHANGED <<kind, broker, stream, link, cached, lock>>

\* The lock is granted; someone else may have connected meanwhile.
Lock(c) ==
  /\ At(c, "wait")
  /\ lock = None
  /\ IF cached # None THEN Use(c, cached) /\ UNCHANGED lock
     ELSE lock' = c /\ Goto(c, "connect")
  /\ UNCHANGED <<kind, broker, stream, link, cached>>

ConnectOk(c) ==
  /\ At(c, "connect")
  /\ broker = "up"
  /\ LET n == CHOOSE m \in Conns : m \notin InUse IN
       /\ link' = [link EXCEPT ![n] = "ok"]
       /\ IF H.provisions
          THEN /\ call' = [call EXCEPT ![c].at = "provision", ![c].on = n]
               /\ UNCHANGED <<cached, lock>>
          ELSE /\ Use(c, n)
               /\ cached' = n
               /\ lock' = None
  /\ UNCHANGED <<kind, broker, stream>>

\* Nothing is kept; the next call in line tries again.
ConnectFails(c) ==
  /\ At(c, "connect")
  /\ broker = "down"
  /\ lock' = None
  /\ PublishEnds(c, FALSE)
  /\ UNCHANGED <<kind, broker, stream, link, cached>>

\* ensure_default_streams: whatever comes of it, the context is kept.
Provision(c) ==
  /\ At(c, "provision")
  /\ stream' \in IF ~Reaches(c) THEN {stream}
                 ELSE CASE stream = "none" -> {"file", "memory", "none"}
                        [] stream = "narrow" -> {"file", "narrow"}
                        [] OTHER -> {stream}
  /\ cached' = call[c].on
  /\ lock' = None
  /\ Goto(c, "prepare")
  /\ UNCHANGED <<kind, broker, link>>

-----------------------------------------------------------------------------
(* Publishing: write_to_nats, produce_record, publish_raw, send_message,   *)
(* write_to_stream, append_event, send_webhook                             *)

\* The NATS client takes the event into its buffer, connected or not; RabbitMQ
\* opens a channel.  Kafka asks for the topic's partition with
\* UnknownTopicHandling::Retry: about one the broker does not have it asks on
\* without a deadline, and the call stays here while the broker is up.
Prepare(c) ==
  /\ At(c, "prepare")
  /\ CASE H.prepares = "buffer" -> call[c].event # "oversize"
       [] H.prepares = "broker" -> Reaches(c) /\ call[c].event # "unmatched"
       [] OTHER -> TRUE
  /\ Goto(c, "send")
  /\ UNCHANGED <<kind, broker, stream, link, cached, lock>>

\* On an error NatsDispatch empties the cell: also when the connection it
\* holds by now is another one.
PrepareFails(c) ==
  /\ At(c, "prepare")
  /\ \/ H.prepares = "buffer" /\ call[c].event = "oversize" /\ cached' = None
     \/ H.prepares = "broker" /\ ~Reaches(c) /\ UNCHANGED cached
  /\ PublishEnds(c, FALSE)
  /\ UNCHANGED <<kind, broker, stream, link, lock>>

\* The broker stores the event.
Store(c) ==
  /\ At(c, "send")
  /\ H.confirms
  /\ Reaches(c) /\ Accepts(c)
  /\ call' = [call EXCEPT ![c].at = "ack",
                          ![c].stored = @ \/ ~call[c].copying,
                          ![c].copied = call[c].copying]
  /\ UNCHANGED <<kind, broker, stream, link, cached, lock>>

\* The broker refuses the event, cannot be reached, or dies before it stores it.
DeliverFails(c) ==
  /\ At(c, "send")
  /\ H.confirms
  /\ ~(Reaches(c) /\ Accepts(c))
  /\ PublishEnds(c, FALSE)
  /\ UNCHANGED <<kind, broker, stream, link, cached, lock>>

Reply(c) ==
  /\ At(c, "ack")
  /\ Reaches(c)
  /\ PublishEnds(c, TRUE)
  /\ UNCHANGED <<kind, broker, stream, link, cached, lock>>

\* The event is stored, and the caller is told that it is not.
ReplyLost(c) ==
  /\ At(c, "ack")
  /\ ~Reaches(c)
  /\ PublishEnds(c, FALSE)
  /\ UNCHANGED <<kind, broker, stream, link, cached, lock>>

\* RabbitMQ: basic_publish has written the event to the socket.
Unconfirmed(c) ==
  /\ At(c, "send")
  /\ ~H.confirms
  /\ PublishEnds(c, Reaches(c))
  /\ UNCHANGED <<kind, broker, stream, link, cached, lock>>

-----------------------------------------------------------------------------
(* The broker and the client libraries *)

\* A stream in memory may not survive.
BrokerDown ==
  /\ broker = "up"
  /\ broker' = "down"
  /\ link' = [n \in Conns |-> "broken"]
  /\ stream' \in IF stream = "memory" THEN {"memory", "none"} ELSE {stream}
  /\ UNCHANGED <<kind, cached, lock, call>>

BrokerUp ==
  /\ broker = "down"
  /\ broker' = "up"
  /\ UNCHANGED <<kind, stream, link, cached, lock, call>>

\* The library has connected again, behind the handler's back.
Relink(n) ==
  /\ H.relinks
  /\ broker = "up"
  /\ link[n] = "broken"
  /\ link' = [link EXCEPT ![n] = "ok"]
  /\ UNCHANGED <<kind, broker, stream, cached, lock, call>>

-----------------------------------------------------------------------------
DispatchStep(c) ==
  \/ Load(c) \/ Lock(c) \/ ConnectOk(c) \/ ConnectFails(c) \/ Provision(c)
  \/ Prepare(c) \/ PrepareFails(c) \/ Store(c) \/ DeliverFails(c)
  \/ Reply(c) \/ ReplyLost(c) \/ Unconfirmed(c)

DispatchNext ==
  \/ \E c \in Calls :
       \/ DispatchStep(c)
       \/ \E op \in Ops, ev \in EventKinds : Dispatch(c, op, ev)
  \/ BrokerDown \/ BrokerUp
  \/ \E n \in Conns : Relink(n)

DispatchSpec == DispatchInit /\ [][DispatchNext]_dispatchVars

\* A client of a broker that is up is answered, connect_lock and the OnceCell
\* serve their waiters in order, and a library keeps trying to reconnect.
\* Nothing is assumed while the broker is down: some libraries retry for ever.
DispatchFairness ==
  /\ \A c \in Calls : WF_dispatchVars(broker = "up" /\ DispatchStep(c)) /\ SF_dispatchVars(Lock(c))
  /\ \A n \in Conns : WF_dispatchVars(Relink(n))

DispatchFairSpec == DispatchSpec /\ DispatchFairness

-----------------------------------------------------------------------------
(* Properties *)

Connecting(c) == call[c].at \in {"connect", "provision"}

\* At most one call at a time is connecting, it holds the lock, and it does so
\* only while the handler has no connection: get_jetstream and the OnceCells
\* never make two connections of which one is lost.
SingleFlight ==
  \A c \in Calls :
    /\ Connecting(c) <=> lock = c
    /\ Connecting(c) => cached = None

\* A dispatch that returned Ok has its event on the broker, whatever happened
\* to the broker and to other dispatches, except where the code gives that up:
\* RabbitMQ, and the calls that swallow their errors (the responses and terminal
\* events of the webhook, the responses of NATS and of Iggy).  The copy of a
\* failure event exists only next to the event itself.
OkMeansStored ==
  \A c \in Calls :
    /\ At(c, "idle") /\ call[c].result = "ok" /\ H.confirms /\ ~call[c].swallow
         => call[c].stored
    /\ call[c].copied => call[c].stored

\* What holds of the handlers at all times: one connection attempt at a time,
\* and, with the exceptions of OkMeansStored, no Ok without the event on the
\* broker.
DispatchInv == DispatchTypeOK /\ SingleFlight /\ OkMeansStored

\* What the handler cannot repair does not stand in its way: the broker is up,
\* the stream covers the gateway's subjects, and RabbitMQ's one connection is
\* not broken.
Healthy ==
  /\ broker = "up"
  /\ stream \in {"file", "memory"}
  /\ H.relinks \/ \A n \in InUse \ {None} : link[n] = "ok"

\* An ordinary event's dispatch is not reported as failed by this step.
NoFailure ==
  \A c \in Calls :
    call'[c].result = "err" /\ call[c].event = "ordinary" => call[c].result = "err"

\* Once the broker is back for good, dispatches of ordinary events stop
\* failing: no dead connection stays in the cell, and evictions caused by
\* oversize events of other requests harm nobody.
Recovers == (<>[]Healthy) => <>[][NoFailure]_dispatchVars

\* The call asks Kafka for a topic or a partition that the broker does not have.
AwaitsTopic(c) == kind = "kafka" /\ At(c, "prepare") /\ call[c].event = "unmatched"

\* Once the broker is back for good every dispatch returns, except a Kafka one
\* to a topic or partition that does not exist: produce_record then waits for
\* ever in partition_client (kafka.rs:109), and with it the request that
\* dispatches.  It keeps nobody else waiting: no other call waits for ever, be
\* it for connect_lock, for the OnceCell or for the broker.
CallsReturn ==
  (<>[](broker = "up")) => \A c \in Calls : []<>(At(c, "idle") \/ AwaitsTopic(c))
=============================================================================
