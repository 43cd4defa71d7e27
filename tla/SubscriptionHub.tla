--------------------------- MODULE SubscriptionHub ---------------------------
(***************************************************************************)
(* SubscriptionHub (src/subscriptions/hub.rs) with the ConnectionActor of  *)
(* each WebSocket (engine.rs), the handler that aborts it (handler.rs),    *)
(* and the tasks that broadcast events.                                    *)
(*                                                                         *)
(* The hub keeps two maps behind two RwLocks.  An operation that updates   *)
(* both takes the locks one after the other, so a step is what happens     *)
(* under one lock; only deregister_connection keeps the first lock while   *)
(* it waits for the second.  A task can be aborted wherever it awaits.     *)
(*                                                                         *)
(* Data left out: the wording of messages, and the order in which one      *)
(* broadcast goes through the subscriptions of its topic.  Of a client's   *)
(* queue only the length is kept.  A connection id is a fresh UUID, so a   *)
(* member of Conns connects once.                                          *)
(***************************************************************************)
EXTENDS Integers, FiniteSets

CONSTANTS
  Conns,         \* connection ids
  Subs,          \* subscription ids a client chooses
  Topics,        \* topics derive_subscription_topic yields
  Pumps,         \* tasks that broadcast
  Capacity,      \* client_buffer_capacity
  MaxBroadcasts, \* bound: the number of broadcasts of each pump
  NoConn         \* not a connection

ASSUME HubAssumption ==
  /\ Capacity \in Nat \ {0} /\ MaxBroadcasts \in Nat
  /\ NoConn \notin Conns

VARIABLES
  topics,     \* topics[t]: the <<conn, sub>> registered for t
  tracked,    \* tracked[c]: the <<sub, topic>> listed in `connections` for c
  entries,    \* the keys of `connections`
  connsLock,  \* the connection whose clean-up keeps `connections` locked
  actor,      \* actor[c]: where c's actor is
  moving,     \* moving[c]: <<sub, topic>> in one map and not, or no longer, in the other
  queue,      \* queue[c]: the length of c's mpsc queue
  pump        \* pump[p]: the broadcast p is executing

vars == <<topics, tracked, entries, connsLock, actor, moving, queue, pump>>

ActorStates == {"none", "open", "loop", "registering", "deregistering", "closing", "gone"}

\* The receiver of c's queue exists until its actor's task ends.
Alive(c) == actor[c] \notin {"none", "gone"}

Idle(n) == [at |-> "idle", todo |-> {}, dead |-> {}, moving |-> {}, left |-> n]

PumpStates ==
  [at:     {"idle", "sending", "reaping"},
   todo:   SUBSET (Conns \X Subs),            \* rest of the cloned subscribers
   dead:   SUBSET (Conns \X Subs),            \* dead_subscribers
   moving: SUBSET (Conns \X Subs \X Topics),  \* out of `connections`, still in `topics`
   left:   0..MaxBroadcasts]

TypeOK ==
  /\ topics \in [Topics -> SUBSET (Conns \X Subs)]
  /\ tracked \in [Conns -> SUBSET (Subs \X Topics)]
  /\ entries \subseteq Conns
  /\ connsLock \in Conns \union {NoConn}
  /\ actor \in [Conns -> ActorStates]
  /\ moving \in [Conns -> SUBSET (Subs \X Topics)]
  /\ queue \in [Conns -> 0..Capacity]
  /\ pump \in [Pumps -> PumpStates]

Init ==
  /\ topics = [t \in Topics |-> {}]
  /\ tracked = [c \in Conns |-> {}]
  /\ entries = {}
  /\ connsLock = NoConn
  /\ actor = [c \in Conns |-> "none"]
  /\ moving = [c \in Conns |-> {}]
  /\ queue = [c \in Conns |-> 0]
  /\ pump = [p \in Pumps |-> Idle(MaxBroadcasts)]

-----------------------------------------------------------------------------
Goto(c, from, to) == actor[c] = from /\ actor' = [actor EXCEPT ![c] = to]

ConnsFree == connsLock = NoConn

\* The topics under which c's list names subscription s: at most one.
TopicsOf(c, s) == {t \in Topics : <<s, t>> \in tracked[c]}

\* topics after c's subscriptions S, pairs <<sub, topic>>, are retained out.
WithoutSubs(c, S) == [t \in Topics |-> topics[t] \ {<<c, m[1]>> : m \in {n \in S : n[2] = t}}]

-----------------------------------------------------------------------------
(* Faulty variants of the actions below, each a mistake this code invites. *)

\* deregister forgets the topic map.
Complete_Half(c, s) ==
  /\ actor[c] = "loop" /\ ConnsFree
  /\ tracked' = [tracked EXCEPT ![c] = {m \in @ : m[1] # s}]
  /\ UNCHANGED <<topics, entries, connsLock, actor, moving, queue, pump>>

\* send().await instead of try_send: a slow client holds the broadcast up.
Send_Waits(p, c, s) ==
  /\ pump[p].at = "sending" /\ <<c, s>> \in pump[p].todo
  /\ Alive(c) => queue[c] < Capacity
  /\ queue' = [queue EXCEPT ![c] = IF Alive(c) THEN @ + 1 ELSE @]
  /\ pump' = [pump EXCEPT ![p] = [pump[p] EXCEPT !.todo = @ \ {<<c, s>>},
                                                 !.dead = IF Alive(c) THEN @ ELSE @ \union {<<c, s>>}]]
  /\ UNCHANGED <<topics, tracked, entries, connsLock, actor, moving>>

\* A slow client counts as a dead one.
Send_FullIsDead(p, c, s) ==
  LET ok == Alive(c) /\ queue[c] < Capacity IN
  /\ pump[p].at = "sending" /\ <<c, s>> \in pump[p].todo
  /\ queue' = [queue EXCEPT ![c] = IF ok THEN @ + 1 ELSE @]
  /\ pump' = [pump EXCEPT ![p] = [pump[p] EXCEPT !.todo = @ \ {<<c, s>>},
                                                 !.dead = IF ok THEN @ ELSE @ \union {<<c, s>>}]]
  /\ UNCHANGED <<topics, tracked, entries, connsLock, actor, moving>>

-----------------------------------------------------------------------------
(* The connection: ConnectionActor::run and WebSocketHandler::handle *)

\* The upgrade is answered and the actor spawned.
Connect(c) ==
  /\ Goto(c, "none", "open")
  /\ UNCHANGED <<topics, tracked, entries, connsLock, moving, queue, pump>>

ConnectionInit(c) ==
  /\ Goto(c, "open", "loop")
  /\ UNCHANGED <<topics, tracked, entries, connsLock, moving, queue, pump>>

\* client_rx.recv() and the write to the socket.  A stalled socket is an actor
\* that does not take this step.
Outgoing(c) ==
  /\ actor[c] = "loop"
  /\ queue[c] > 0
  /\ queue' = [queue EXCEPT ![c] = @ - 1]
  /\ UNCHANGED <<topics, tracked, entries, connsLock, actor, moving, pump>>

\* Subscribe with a new id: register adds to the topic map ...
Subscribe(c, s, t) ==
  /\ Goto(c, "loop", "registering")
  /\ ConnsFree /\ TopicsOf(c, s) = {}                 \* has_subscription
  /\ topics' = [topics EXCEPT ![t] = @ \union {<<c, s>>}]
  /\ moving' = [moving EXCEPT ![c] = {<<s, t>>}]
  /\ UNCHANGED <<tracked, entries, connsLock, queue, pump>>

\* ... and, under the other lock, to the connection's list.
RegisterConn(c) ==
  /\ Goto(c, "registering", "loop")
  /\ ConnsFree
  /\ entries' = entries \union {c}
  /\ tracked' = [tracked EXCEPT
       ![c] = {m \in @ : \A n \in moving[c] : m[1] # n[1]} \union moving[c]]
  /\ moving' = [moving EXCEPT ![c] = {}]
  /\ UNCHANGED <<topics, connsLock, queue, pump>>

\* Complete: deregister takes the subscription off the connection's list, and
\* is done if it was not there ...
Complete(c, s) ==
  LET S == {s} \X TopicsOf(c, s) IN
  /\ Goto(c, "loop", IF S = {} THEN "loop" ELSE "deregistering")
  /\ ConnsFree
  /\ tracked' = [tracked EXCEPT ![c] = @ \ S]
  /\ moving' = [moving EXCEPT ![c] = S]
  /\ UNCHANGED <<topics, entries, connsLock, queue, pump>>

\* ... and then out of the topic map.
DeregisterTopic(c) ==
  /\ Goto(c, "deregistering", "loop")
  /\ topics' = WithoutSubs(c, moving[c])
  /\ moving' = [moving EXCEPT ![c] = {}]
  /\ UNCHANGED <<tracked, entries, connsLock, queue, pump>>

\* The loop is left: a close frame, a read or write error, JSON that does not
\* parse, Subscribe before connection_init or with an id in use.
\* deregister_connection drops the list and keeps the lock ...
Close(c) ==
  /\ actor[c] \in {"open", "loop"}
  /\ ConnsFree
  /\ IF c \in entries
     THEN actor' = [actor EXCEPT ![c] = "closing"] /\ connsLock' = c
     ELSE actor' = [actor EXCEPT ![c] = "gone"] /\ UNCHANGED connsLock
  /\ entries' = entries \ {c}
  /\ tracked' = [tracked EXCEPT ![c] = {}]
  /\ moving' = [moving EXCEPT ![c] = tracked[c]]
  /\ UNCHANGED <<topics, queue, pump>>

\* ... until the topic map is cleaned as well.
CloseTopics(c) ==
  /\ Goto(c, "closing", "gone")
  /\ topics' = WithoutSubs(c, moving[c])
  /\ moving' = [moving EXCEPT ![c] = {}]
  /\ connsLock' = NoConn
  /\ UNCHANGED <<tracked, entries, queue, pump>>

\* The client's TCP connection ends: the handler leaves its loop and aborts the
\* actor, wherever it awaits.  Its guard is dropped, its clean-up is not run.
Disconnect(c) ==
  /\ Alive(c)
  /\ actor' = [actor EXCEPT ![c] = "gone"]
  /\ moving' = [moving EXCEPT ![c] = {}]
  /\ connsLock' = IF connsLock = c THEN NoConn ELSE connsLock
  /\ UNCHANGED <<topics, tracked, entries, queue, pump>>
-----------------------------------------------------------------------------
(* broadcast *)

\* The subscribers of t are cloned under the read lock; with none it is over.
Broadcast(p, t) ==
  /\ pump[p].at = "idle" /\ pump[p].left > 0
  /\ topics[t] # {}
  /\ pump' = [pump EXCEPT ![p] = [pump[p] EXCEPT !.at = "sending", !.todo = topics[t], !.left = @ - 1]]
  /\ UNCHANGED <<topics, tracked, entries, connsLock, actor, moving, queue>>

\* try_send: Ok, Full (the event is dropped) or Closed.
Send(p, c, s) ==
  /\ pump[p].at = "sending" /\ <<c, s>> \in pump[p].todo
  /\ queue' = [queue EXCEPT ![c] = IF Alive(c) /\ @ < Capacity THEN @ + 1 ELSE @]
  /\ pump' = [pump EXCEPT ![p] = [pump[p] EXCEPT !.todo = @ \ {<<c, s>>},
                                                 !.dead = IF Alive(c) THEN @ ELSE @ \union {<<c, s>>}]]
  /\ UNCHANGED <<topics, tracked, entries, connsLock, actor, moving>>

\* deregister of a dead subscriber, under the first lock ...
ReapConn(p, c, s) ==
  LET S == {s} \X TopicsOf(c, s) IN
  /\ pump[p].at = "sending" /\ pump[p].todo = {} /\ <<c, s>> \in pump[p].dead
  /\ ConnsFree
  /\ tracked' = [tracked EXCEPT ![c] = @ \ S]
  /\ pump' = [pump EXCEPT ![p] = [pump[p] EXCEPT !.at = IF S = {} THEN @ ELSE "reaping",
                                                 !.dead = @ \ {<<c, s>>},
                                                 !.moving = {<<c, m[1], m[2]>> : m \in S}]]
  /\ UNCHANGED <<topics, entries, connsLock, actor, moving, queue>>

\* ... and the second.
ReapTopic(p) ==
  /\ pump[p].at = "reaping"
  /\ topics' = [t \in Topics |-> topics[t] \ {<<m[1], m[2]>> : m \in {n \in pump[p].moving : n[3] = t}}]
  /\ pump' = [pump EXCEPT ![p] = [pump[p] EXCEPT !.at = "sending", !.moving = {}]]
  /\ UNCHANGED <<tracked, entries, connsLock, actor, moving, queue>>

Return(p) ==
  /\ pump[p].at = "sending" /\ pump[p].todo = {} /\ pump[p].dead = {}
  /\ pump' = [pump EXCEPT ![p] = Idle(@.left)]
  /\ UNCHANGED <<topics, tracked, entries, connsLock, actor, moving, queue>>

run(c) ==
  \/ Connect(c) \/ ConnectionInit(c) \/ Outgoing(c)
  \/ \E s \in Subs, t \in Topics : Subscribe(c, s, t)
  \/ RegisterConn(c)
  \/ \E s \in Subs : Complete(c, s)
  \/ DeregisterTopic(c) \/ Close(c) \/ CloseTopics(c) \/ Disconnect(c)

broadcast(p) ==
  \/ \E c \in Conns, s \in Subs : Send(p, c, s) \/ ReapConn(p, c, s)
  \/ ReapTopic(p) \/ Return(p)

Next ==
  \/ \E c \in Conns : run(c)
  \/ \E p \in Pumps : broadcast(p) \/ \E t \in Topics : Broadcast(p, t)

Spec == Init /\ [][Next]_vars

\* A broadcast under way and a clean-up that holds the lock are runnable tasks.
\* Nothing is assumed of clients: they may stall, stay or leave.
Fairness ==
  /\ \A p \in Pumps : WF_vars(broadcast(p))
  /\ \A c \in Conns : WF_vars(CloseTopics(c))

FairSpec == Spec /\ Fairness
-----------------------------------------------------------------------------
(* Properties *)

Registered(c) == {m \in Subs \X Topics : <<c, m[1]>> \in topics[m[2]]}

\* The two maps agree on every live connection, but for what its own actor is
\* moving from one to the other: no clean-up of a dead subscriber by a
\* concurrent broadcast, and no other connection, takes part of a live one.
MapsAgree ==
  \A c \in Conns : Alive(c) => Registered(c) = tracked[c] \union moving[c]

\* A subscription id of a live connection is registered for one topic only, so
\* Complete ends everything the client gets under that id.
OneRegistration ==
  \A c \in Conns : Alive(c) =>
    \A m, n \in Registered(c) : m[1] = n[1] => m = n

\* What a connection that is not gone owns: the maps agree and name each id
\* once, and what is moving is in one map only, in the states that move.
OwnInv(c) ==
  actor[c] # "gone" =>
    /\ Registered(c) = tracked[c] \union moving[c]
    /\ \A m, n \in Registered(c) : m[1] = n[1] => m = n
    /\ actor[c] \in {"none", "open"} => tracked[c] = {}
    /\ actor[c] \in {"none", "open", "loop"} => moving[c] = {}
    /\ actor[c] \in {"deregistering", "closing"} => tracked[c] \intersect moving[c] = {}

\* Broadcasts clean up after connections that are gone, and only those.
PumpInv(p) ==
  /\ \A x \in pump[p].todo : actor[x[1]] # "none"
  /\ \A x \in pump[p].dead : actor[x[1]] = "gone"
  /\ \A x \in pump[p].moving : actor[x[1]] = "gone"

\* The inductive invariant behind MapsAgree, OneRegistration and OnlyClientEnds:
\* hub, actors and broadcasts respect which connections are whose.
HubInv == TypeOK /\ (\A c \in Conns : OwnInv(c)) /\ (\A p \in Pumps : PumpInv(p))

\* Only the client ends its subscriptions: while its actor lives, a broadcast,
\* also one that finds its queue full, leaves its list alone.
OnlyClientEnds ==
  [][\A c \in Conns :
       Alive(c) /\ Alive(c)' /\ ~(tracked[c] \subseteq tracked'[c]) =>
         actor[c] = "loop" /\ actor'[c] \in {"deregistering", "closing"}]_vars

\* A broadcast ends whatever the clients do: stalled ones do not hold it up, and
\* neither do connections that are cleaned up at the same time.
BroadcastReturns ==
  \A p \in Pumps : pump[p].at # "idle" ~> pump[p].at = "idle"
=============================================================================
