------------------------ MODULE SubscriptionHubProofs ------------------------
(***************************************************************************)
(* Proofs about SubscriptionHub, for every set of connections,             *)
(* subscriptions, topics and broadcasting tasks and every queue capacity:  *)
(* HubInv is inductive, and MapsAgree, OneRegistration and OnlyClientEnds  *)
(* follow from it.                                                         *)
(***************************************************************************)
EXTENDS SubscriptionHub, TLAPS

-----------------------------------------------------------------------------
(* Types *)

LEMMA InitTypeOK == Init => TypeOK
BY HubAssumption DEF Init, TypeOK, ActorStates, PumpStates, Idle

\* Steps of a connection's actor keep the types.
LEMMA RunTypeOK == ASSUME TypeOK, NEW c \in Conns, run(c) PROVE TypeOK'
<1> USE HubAssumption DEF TypeOK, ActorStates
<1>1. CASE Connect(c)
  BY <1>1 DEF Connect, Goto
<1>2. CASE ConnectionInit(c)
  BY <1>2 DEF ConnectionInit, Goto
<1>3. CASE Outgoing(c)
  BY <1>3 DEF Outgoing
<1>4. ASSUME NEW s \in Subs, NEW t \in Topics, Subscribe(c, s, t) PROVE TypeOK'
  BY <1>4 DEF Subscribe, Goto
<1>5. CASE RegisterConn(c)
  BY <1>5 DEF RegisterConn, Goto
<1>6. ASSUME NEW s \in Subs, Complete(c, s) PROVE TypeOK'
  BY <1>6 DEF Complete, Goto, TopicsOf
<1>7. CASE DeregisterTopic(c)
  BY <1>7 DEF DeregisterTopic, Goto, WithoutSubs
<1>8. CASE Close(c)
  BY <1>8 DEF Close
<1>9. CASE CloseTopics(c)
  BY <1>9 DEF CloseTopics, Goto, WithoutSubs
<1>10. CASE Disconnect(c)
  BY <1>10 DEF Disconnect
<1> QED BY <1>1, <1>2, <1>3, <1>4, <1>5, <1>6, <1>7, <1>8, <1>9, <1>10 DEF run

\* The ways in which a step of a broadcast edits its record.
LEMMA PumpEdits ==
  ASSUME NEW r \in PumpStates, NEW a \in {"idle", "sending", "reaping"},
         NEW A \in SUBSET (Conns \X Subs), NEW B \in SUBSET (Conns \X Subs),
         NEW M \in SUBSET (Conns \X Subs \X Topics), NEW n \in 0..MaxBroadcasts
  PROVE  /\ [r EXCEPT !.at = a, !.todo = A, !.left = n] \in PumpStates
         /\ [r EXCEPT !.todo = A, !.dead = B] \in PumpStates
         /\ [r EXCEPT !.at = a, !.dead = B, !.moving = M] \in PumpStates
BY DEF PumpStates

\* Steps of a broadcast keep the types.
LEMMA BroadcastTypeOK ==
  ASSUME TypeOK, NEW p \in Pumps, broadcast(p) \/ \E t \in Topics : Broadcast(p, t)
  PROVE  TypeOK'
<1> USE HubAssumption DEF TypeOK
<1>a. /\ pump[p].at \in {"idle", "sending", "reaping"}
      /\ pump[p].todo \in SUBSET (Conns \X Subs)
      /\ pump[p].dead \in SUBSET (Conns \X Subs)
      /\ pump[p].left \in 0..MaxBroadcasts
      /\ pump[p] \in PumpStates
  BY DEF PumpStates
<1>b. ASSUME NEW q \in PumpStates, pump' = [pump EXCEPT ![p] = q]
      PROVE  pump' \in [Pumps -> PumpStates]
  BY <1>b
<1>1. ASSUME NEW t \in Topics, Broadcast(p, t) PROVE TypeOK'
  <2> DEFINE n == pump[p].left - 1
             q == [pump[p] EXCEPT !.at = "sending", !.todo = topics[t], !.left = n]
  <2>1. n \in 0..MaxBroadcasts /\ topics[t] \in SUBSET (Conns \X Subs)
    <3>1. pump[p].left > 0
      BY <1>1 DEF Broadcast
    <3>2. n \in 0..MaxBroadcasts
      BY <3>1, <1>a
    <3> QED BY <3>2
  <2>2. q \in PumpStates
    <3> HIDE DEF n
    <3> QED BY <1>a, <2>1, PumpEdits
  <2>3. pump' = [pump EXCEPT ![p] = q]
    BY <1>1 DEF Broadcast
  <2>4. pump' \in [Pumps -> PumpStates]
    <3> HIDE DEF q
    <3> QED BY <2>2, <2>3, <1>b
  <2> QED BY <1>1, <2>4 DEF Broadcast
<1>2. ASSUME NEW c \in Conns, NEW s \in Subs, Send(p, c, s) PROVE TypeOK'
  <2> DEFINE A == pump[p].todo \ {<<c, s>>}
             B == IF Alive(c) THEN pump[p].dead ELSE pump[p].dead \union {<<c, s>>}
             q == [pump[p] EXCEPT !.todo = A, !.dead = B]
  <2>1. A \in SUBSET (Conns \X Subs) /\ B \in SUBSET (Conns \X Subs)
    BY <1>a
  <2>2. q \in PumpStates
    <3> HIDE DEF A, B
    <3> QED BY <1>a, <2>1, PumpEdits
  <2>3. pump' = [pump EXCEPT ![p] = q]
    BY <1>2 DEF Send
  <2>4. pump' \in [Pumps -> PumpStates]
    <3> HIDE DEF q
    <3> QED BY <2>2, <2>3, <1>b
  <2> QED BY <1>2, <2>4 DEF Send
<1>3. ASSUME NEW c \in Conns, NEW s \in Subs, ReapConn(p, c, s) PROVE TypeOK'
  <2> DEFINE S == {s} \X TopicsOf(c, s)
             M == {<<c, m[1], m[2]>> : m \in S}
             a == IF S = {} THEN pump[p].at ELSE "reaping"
             B == pump[p].dead \ {<<c, s>>}
             q == [pump[p] EXCEPT !.at = a, !.dead = B, !.moving = M]
  <2>1. M \in SUBSET (Conns \X Subs \X Topics)
    <3>1. ASSUME NEW m \in S PROVE <<c, m[1], m[2]>> \in Conns \X Subs \X Topics
      BY <3>1 DEF TopicsOf
    <3> HIDE DEF S
    <3> QED BY <3>1
  <2>2. a \in {"idle", "sending", "reaping"} /\ B \in SUBSET (Conns \X Subs)
    BY <1>a
  <2>3. q \in PumpStates
    <3> HIDE DEF M, S, a, B
    <3> QED BY <1>a, <2>1, <2>2, PumpEdits
  <2>4. pump' = [pump EXCEPT ![p] = q]
    BY <1>3 DEF ReapConn
  <2>5. pump' \in [Pumps -> PumpStates]
    <3> HIDE DEF q
    <3> QED BY <2>3, <2>4, <1>b
  <2>6. tracked' \in [Conns -> SUBSET (Subs \X Topics)]
    BY <1>3 DEF ReapConn
  <2> QED BY <1>3, <2>5, <2>6 DEF ReapConn
<1>4. CASE ReapTopic(p)
  BY <1>4 DEF ReapTopic, PumpStates
<1>5. CASE Return(p)
  BY <1>5 DEF Return, Idle, PumpStates
<1> QED BY <1>1, <1>2, <1>3, <1>4, <1>5 DEF broadcast
-----------------------------------------------------------------------------
(* Connections *)

\* A step that leaves alone what the maps hold of c leaves OwnInv(c) alone.
LEMMA OwnFrame ==
  ASSUME NEW c \in Conns, OwnInv(c), actor'[c] = actor[c],
         tracked'[c] = tracked[c], moving'[c] = moving[c],
         \A t \in Topics, s \in Subs : <<c, s>> \in topics'[t] <=> <<c, s>> \in topics[t]
  PROVE  OwnInv(c)'
<1>1. Registered(c)' = Registered(c)
  BY DEF Registered
<1> QED BY <1>1 DEF OwnInv

\* Nothing is asked of a connection that is gone.
LEMMA OwnGone == ASSUME NEW c \in Conns, actor'[c] = "gone" PROVE OwnInv(c)'
BY DEF OwnInv

\* Retaining one connection's subscriptions out leaves the others' in place.
LEMMA RetainOthers ==
  ASSUME NEW c \in Conns, NEW d \in Conns, d # c, NEW S, topics' = WithoutSubs(c, S),
         NEW t \in Topics, NEW s \in Subs
  PROVE  <<d, s>> \in topics'[t] <=> <<d, s>> \in topics[t]
BY DEF WithoutSubs

\* Retaining the pairs S of c out removes exactly them from what c registered.
LEMMA RetainOwn ==
  ASSUME NEW c \in Conns, NEW S \in SUBSET (Subs \X Topics), topics' = WithoutSubs(c, S)
  PROVE  Registered(c)' = Registered(c) \ S
<1> SUFFICES ASSUME NEW s \in Subs, NEW t \in Topics
             PROVE  <<c, s>> \in topics'[t] <=> (<<c, s>> \in topics[t] /\ <<s, t>> \notin S)
  BY DEF Registered
<1>1. <<c, s>> \in {<<c, m[1]>> : m \in {n \in S : n[2] = t}} <=> <<s, t>> \in S
  OBVIOUS
<1> QED BY <1>1 DEF WithoutSubs

\* The actor of a connection keeps OwnInv for its own connection.
LEMMA RunOwn == ASSUME TypeOK, NEW c \in Conns, OwnInv(c), run(c) PROVE OwnInv(c)'
<1> USE DEF TypeOK
<1>1. CASE Connect(c)
  BY <1>1 DEF Connect, Goto, OwnInv, Registered
<1>2. CASE ConnectionInit(c)
  BY <1>2 DEF ConnectionInit, Goto, OwnInv, Registered
<1>3. CASE Outgoing(c)
  BY <1>3, OwnFrame DEF Outgoing
<1>4. ASSUME NEW s \in Subs, NEW t \in Topics, Subscribe(c, s, t) PROVE OwnInv(c)'
  <2>1. Registered(c)' = Registered(c) \union {<<s, t>>}
    BY <1>4 DEF Subscribe, Registered
  <2>2. moving[c] = {} /\ moving'[c] = {<<s, t>>} /\ tracked' = tracked /\ actor'[c] = "registering"
    BY <1>4 DEF Subscribe, Goto, OwnInv
  <2>3. \A n \in tracked[c] : n[1] # s
    BY <1>4 DEF Subscribe, TopicsOf
  <2>4. Registered(c) = tracked[c] /\ \A m, n \in Registered(c) : m[1] = n[1] => m = n
    BY <1>4, <2>2 DEF Subscribe, Goto, OwnInv
  <2> QED BY <2>1, <2>2, <2>3, <2>4 DEF OwnInv
<1>5. CASE RegisterConn(c)
  <2>1. Registered(c)' = Registered(c)
    BY <1>5 DEF RegisterConn, Registered
  <2>2. /\ Registered(c) = tracked[c] \union moving[c]
        /\ \A m, n \in Registered(c) : m[1] = n[1] => m = n
    BY <1>5 DEF RegisterConn, Goto, OwnInv
  <2>3. /\ tracked'[c] = {m \in tracked[c] : \A n \in moving[c] : m[1] # n[1]} \union moving[c]
        /\ moving'[c] = {} /\ actor'[c] = "loop"
    BY <1>5 DEF RegisterConn, Goto
  <2>4. tracked'[c] = tracked[c] \union moving[c]
    BY <2>2, <2>3
  <2> QED BY <2>1, <2>2, <2>3, <2>4 DEF OwnInv
<1>6. ASSUME NEW s \in Subs, Complete(c, s) PROVE OwnInv(c)'
  <2> DEFINE S == {s} \X TopicsOf(c, s)
  <2>1. Registered(c)' = Registered(c)
    BY <1>6 DEF Complete, Registered
  <2>2. /\ moving[c] = {} /\ Registered(c) = tracked[c]
        /\ \A m, n \in Registered(c) : m[1] = n[1] => m = n
    BY <1>6 DEF Complete, Goto, OwnInv
  <2>3. S \subseteq tracked[c]
    BY DEF TopicsOf
  <2>4. /\ tracked'[c] = tracked[c] \ S /\ moving'[c] = S
        /\ actor'[c] = IF S = {} THEN "loop" ELSE "deregistering"
    BY <1>6 DEF Complete, Goto
  <2> HIDE DEF S
  <2> QED BY <2>1, <2>2, <2>3, <2>4 DEF OwnInv
<1>7. CASE DeregisterTopic(c)
  <2>1. Registered(c)' = Registered(c) \ moving[c]
    BY <1>7, RetainOwn DEF DeregisterTopic
  <2>2. tracked' = tracked /\ moving'[c] = {} /\ actor[c] = "deregistering" /\ actor'[c] = "loop"
    BY <1>7 DEF DeregisterTopic, Goto
  <2> QED BY <2>1, <2>2 DEF OwnInv
<1>8. CASE Close(c)
  <2>1. Registered(c)' = Registered(c)
    BY <1>8 DEF Close, Registered
  <2>2. /\ actor[c] \in {"open", "loop"} /\ actor'[c] \in {"closing", "gone"}
        /\ tracked'[c] = {} /\ moving'[c] = tracked[c]
    BY <1>8 DEF Close
  <2>3. Registered(c) = tracked[c] /\ \A m, n \in Registered(c) : m[1] = n[1] => m = n
    BY <2>2 DEF OwnInv
  <2> QED BY <2>1, <2>2, <2>3 DEF OwnInv
<1>9. CASE CloseTopics(c)
  BY <1>9, OwnGone DEF CloseTopics, Goto
<1>10. CASE Disconnect(c)
  BY <1>10, OwnGone DEF Disconnect
<1> QED BY <1>1, <1>2, <1>3, <1>4, <1>5, <1>6, <1>7, <1>8, <1>9, <1>10 DEF run

\* It touches nothing that another connection owns.
LEMMA RunOthers ==
  ASSUME TypeOK, NEW c \in Conns, run(c), NEW d \in Conns, d # c, OwnInv(d)
  PROVE  OwnInv(d)'
<1>1. actor'[d] = actor[d] /\ tracked'[d] = tracked[d] /\ moving'[d] = moving[d]
  BY DEF TypeOK, run, Goto, Connect, ConnectionInit, Outgoing, Subscribe, RegisterConn,
     Complete,
         DeregisterTopic, Close, CloseTopics, Disconnect
<1>2. \/ topics' = topics
      \/ \E s \in Subs, t \in Topics : topics' = [topics EXCEPT ![t] = @ \union {<<c, s>>}]
      \/ topics' = WithoutSubs(c, moving[c])
  BY DEF run, Connect, ConnectionInit, Outgoing, Subscribe, RegisterConn, Complete,
         DeregisterTopic, Close, CloseTopics, Disconnect
<1>3. \A u \in Topics, s \in Subs : <<d, s>> \in topics'[u] <=> <<d, s>> \in topics[u]
  <2>1. CASE topics' = topics
    BY <2>1
  <2>2. CASE \E s \in Subs, t \in Topics : topics' = [topics EXCEPT ![t] = @ \union {<<c, s>>}]
    BY <2>2 DEF TypeOK
  <2>3. CASE topics' = WithoutSubs(c, moving[c])
    BY <2>3, RetainOthers
  <2> QED BY <1>2, <2>1, <2>2, <2>3
<1> QED BY <1>1, <1>3, OwnFrame

\* A broadcast touches only what connections that are gone left behind.
LEMMA BroadcastOwn ==
  ASSUME TypeOK, NEW p \in Pumps, PumpInv(p), NEW d \in Conns, OwnInv(d),
         broadcast(p) \/ \E t \in Topics : Broadcast(p, t)
  PROVE  OwnInv(d)'
<1>0. actor' = actor /\ moving' = moving
  BY DEF broadcast, Broadcast, Send, ReapConn, ReapTopic, Return
<1>1. CASE actor[d] = "gone"
  BY <1>0, <1>1, OwnGone
<1>2. CASE actor[d] # "gone"
  <2>1. tracked'[d] = tracked[d]
    <3>1. ASSUME NEW c \in Conns, NEW s \in Subs, ReapConn(p, c, s) PROVE tracked'[d] = tracked[d]
      <4>1. actor[c] = "gone"
        BY <3>1 DEF ReapConn, PumpInv
      <4> QED BY <3>1, <4>1, <1>2 DEF ReapConn, TypeOK
    <3> QED BY <3>1 DEF broadcast, Broadcast, Send, ReapTopic, Return
  <2>2. \A u \in Topics, s \in Subs : <<d, s>> \in topics'[u] <=> <<d, s>> \in topics[u]
    <3>1. CASE ReapTopic(p)
      <4>1. \A m \in pump[p].moving : m[1] # d
        BY <1>2 DEF PumpInv
      <4> QED BY <3>1, <4>1 DEF ReapTopic
    <3>2. CASE topics' = topics
      BY <3>2
    <3> QED BY <3>1, <3>2 DEF broadcast, Broadcast, Send, ReapConn, Return
  <2> QED BY <1>0, <2>1, <2>2, OwnFrame
<1> QED BY <1>1, <1>2
-----------------------------------------------------------------------------
(* Broadcasts *)

\* Actors only ever move on: what a broadcast noted about a connection stays true.
LEMMA RunPump ==
  ASSUME TypeOK, NEW c \in Conns, run(c), NEW p \in Pumps, PumpInv(p)
  PROVE  PumpInv(p)'
<1>1. pump' = pump
  BY DEF run, Connect, ConnectionInit, Outgoing, Subscribe, RegisterConn, Complete,
         DeregisterTopic, Close, CloseTopics, Disconnect
<1>2. /\ \A d \in Conns : actor[d] # "none" => actor'[d] # "none"
      /\ \A d \in Conns : actor[d] = "gone" => actor'[d] = "gone"
  BY DEF TypeOK, run, Goto, Alive, Connect, ConnectionInit, Outgoing, Subscribe,
     RegisterConn, Complete,
         DeregisterTopic, Close, CloseTopics, Disconnect
<1>3. \A x \in pump[p].todo \union pump[p].dead \union pump[p].moving : x[1] \in Conns
  BY DEF TypeOK, PumpStates
<1> QED BY <1>1, <1>2, <1>3 DEF PumpInv

\* A broadcast reaps the subscribers whose queue it found closed: a subscriber
\* in the topic map has connected, so its queue is closed only if it is gone.
LEMMA BroadcastPump ==
  ASSUME TypeOK, \A c \in Conns : OwnInv(c), NEW p \in Pumps, NEW q \in Pumps, PumpInv(q),
         broadcast(p) \/ \E t \in Topics : Broadcast(p, t)
  PROVE  PumpInv(q)'
<1>0. actor' = actor
  BY DEF broadcast, Broadcast, Send, ReapConn, ReapTopic, Return
<1>1. CASE q # p
  <2>1. pump'[q] = pump[q]
    BY <1>1 DEF TypeOK, broadcast, Broadcast, Send, ReapConn, ReapTopic, Return
  <2> QED BY <1>0, <2>1 DEF PumpInv
<1>2. CASE q = p
  <2>0. pump[p] \in PumpStates /\ p \in DOMAIN pump
    BY DEF TypeOK
  <2>1. ASSUME NEW t \in Topics, Broadcast(p, t) PROVE PumpInv(q)'
    <3>1. \A x \in topics[t] : actor[x[1]] # "none"
      <4> SUFFICES ASSUME NEW c \in Conns, NEW s \in Subs, <<c, s>> \in topics[t], actor[c] = "none"
                   PROVE  FALSE
        BY DEF TypeOK
      <4>1. <<s, t>> \in Registered(c)
        BY DEF Registered
      <4> QED BY <4>1 DEF OwnInv
    <3>2. /\ pump'[p].todo = topics[t] /\ pump'[p].dead = pump[p].dead
          /\ pump'[p].moving = pump[p].moving
      BY <2>0, <2>1 DEF Broadcast, PumpStates
    <3> QED BY <1>0, <1>2, <3>1, <3>2 DEF PumpInv
  <2>2. ASSUME NEW c \in Conns, NEW s \in Subs, Send(p, c, s) PROVE PumpInv(q)'
    <3>1. /\ pump'[p].todo = pump[p].todo \ {<<c, s>>}
          /\ pump'[p].dead = IF Alive(c) THEN pump[p].dead ELSE pump[p].dead \union {<<c, s>>}
          /\ pump'[p].moving = pump[p].moving
      BY <2>0, <2>2 DEF Send, PumpStates
    <3>2. ~Alive(c) => actor[c] = "gone"
      BY <1>2, <2>2 DEF Send, PumpInv, Alive
    <3> QED BY <1>0, <1>2, <3>1, <3>2 DEF PumpInv
  <2>3. ASSUME NEW c \in Conns, NEW s \in Subs, ReapConn(p, c, s) PROVE PumpInv(q)'
    <3>1. /\ pump'[p].todo = pump[p].todo /\ pump'[p].dead \subseteq pump[p].dead
          /\ \A x \in pump'[p].moving : x[1] = c
      <4> DEFINE S == {s} \X TopicsOf(c, s)
                 M == {<<c, m[1], m[2]>> : m \in S}
                 a == IF S = {} THEN pump[p].at ELSE "reaping"
                 B == pump[p].dead \ {<<c, s>>}
      <4>1. pump'[p] = [pump[p] EXCEPT !.at = a, !.dead = B, !.moving = M]
        BY <2>0, <2>3 DEF ReapConn
      <4>2. \A x \in M : x[1] = c
        OBVIOUS
      <4>3. B \subseteq pump[p].dead
        OBVIOUS
      <4> HIDE DEF S, M, a, B
      <4>4. pump'[p].todo = pump[p].todo /\ pump'[p].dead = B /\ pump'[p].moving = M
        BY <2>0, <4>1 DEF PumpStates
      <4> QED BY <4>2, <4>3, <4>4
    <3>2. actor[c] = "gone"
      BY <1>2, <2>3 DEF ReapConn, PumpInv
    <3> QED BY <1>0, <1>2, <3>1, <3>2 DEF PumpInv
  <2>4. CASE ReapTopic(p)
    <3>1. pump'[p].todo = pump[p].todo /\ pump'[p].dead = pump[p].dead /\ pump'[p].moving = {}
      BY <2>0, <2>4 DEF ReapTopic, PumpStates
    <3> QED BY <1>0, <1>2, <3>1 DEF PumpInv
  <2>5. CASE Return(p)
    BY <1>2, <2>0, <2>5 DEF Return, Idle, PumpInv
  <2> QED BY <2>1, <2>2, <2>3, <2>4, <2>5 DEF broadcast
<1> QED BY <1>1, <1>2
-----------------------------------------------------------------------------
(* The invariant and what follows from it *)

LEMMA InitHubInv == Init => HubInv
<1> SUFFICES ASSUME Init PROVE HubInv OBVIOUS
<1>1. \A c \in Conns : OwnInv(c)
  BY DEF Init, OwnInv, Registered
<1>2. \A p \in Pumps : PumpInv(p)
  BY DEF Init, PumpInv, Idle
<1> QED BY <1>1, <1>2, InitTypeOK DEF HubInv

LEMMA StepHubInv == HubInv /\ [Next]_vars => HubInv'
<1> SUFFICES ASSUME HubInv, [Next]_vars PROVE HubInv' OBVIOUS
<1> USE DEF HubInv
<1>1. ASSUME NEW c \in Conns, run(c) PROVE HubInv'
  <2>1. TypeOK'
    BY <1>1, RunTypeOK
  <2>2. \A d \in Conns : OwnInv(d)'
    BY <1>1, RunOwn, RunOthers
  <2>3. \A p \in Pumps : PumpInv(p)'
    BY <1>1, RunPump
  <2> QED BY <2>1, <2>2, <2>3
<1>2. ASSUME NEW p \in Pumps, broadcast(p) \/ \E t \in Topics : Broadcast(p, t) PROVE HubInv'
  <2>1. TypeOK'
    BY <1>2, BroadcastTypeOK
  <2>2. \A d \in Conns : OwnInv(d)'
    BY <1>2, BroadcastOwn
  <2>3. \A q \in Pumps : PumpInv(q)'
    BY <1>2, BroadcastPump
  <2> QED BY <2>1, <2>2, <2>3
<1>3. CASE UNCHANGED vars
  <2>1. TypeOK'
    BY <1>3 DEF vars, TypeOK
  <2>2. \A d \in Conns : OwnInv(d)'
    BY <1>3, OwnFrame DEF vars
  <2>3. \A p \in Pumps : PumpInv(p)'
    BY <1>3 DEF vars, PumpInv
  <2> QED BY <2>1, <2>2, <2>3
<1> QED BY <1>1, <1>2, <1>3 DEF Next

\* The hub's inductive invariant holds of every run: each live connection's part
\* of the two maps is moved by its own actor alone, broadcasts hold clean-up
\* work only for connections that are gone, and a queue never outgrows its
\* capacity.
THEOREM HubInvHolds == Spec => []HubInv
BY InitHubInv, StepHubInv, PTL DEF Spec

\* register, deregister, deregister_connection and the reaping in broadcast, each
\* under two locks taken one after the other and interleaved in any way, never
\* leave a live connection's subscription in one map and not in the other.
THEOREM HubMapsAgree == Spec => []MapsAgree
<1>1. HubInv => MapsAgree
  BY DEF HubInv, OwnInv, MapsAgree, Alive
<1> QED BY <1>1, HubInvHolds, PTL

\* A live connection's subscription id is registered for one topic only: the
\* check of has_subscription, made under another lock than the registration, is
\* never overtaken.
THEOREM HubOneRegistration == Spec => []OneRegistration
<1>1. HubInv => OneRegistration
  BY DEF HubInv, OwnInv, OneRegistration, Alive
<1> QED BY <1>1, HubInvHolds, PTL

\* No broadcast, however slow the client or full its queue, ends a live client's
\* subscription.
THEOREM HubOnlyClientEnds == Spec => OnlyClientEnds
<1> DEFINE Kept == \A c \in Conns :
             Alive(c) /\ Alive(c)' /\ ~(tracked[c] \subseteq tracked'[c]) =>
               actor[c] = "loop" /\ actor'[c] \in {"deregistering", "closing"}
<1>1. HubInv /\ [Next]_vars => [Kept]_vars
  <2> SUFFICES ASSUME HubInv, Next PROVE Kept
    OBVIOUS
  <2>0. TypeOK
    BY DEF HubInv
  <2> SUFFICES ASSUME NEW c \in Conns, Alive(c), Alive(c)', ~(tracked[c] \subseteq tracked'[c])
               PROVE  actor[c] = "loop" /\ actor'[c] \in {"deregistering", "closing"}
    OBVIOUS
  <2>1. OwnInv(c)
    BY DEF HubInv
  <2>2. ASSUME NEW p \in Pumps, broadcast(p) \/ \E t \in Topics : Broadcast(p, t) PROVE FALSE
    <3>1. PICK d \in Conns, s \in Subs : ReapConn(p, d, s)
      BY <2>2 DEF broadcast, Broadcast, Send, ReapTopic, Return
    <3>2. actor[d] = "gone"
      BY <3>1 DEF HubInv, PumpInv, ReapConn
    <3> QED BY <2>0, <3>1, <3>2 DEF ReapConn, TypeOK, Alive
  <2>3. PICK d \in Conns : run(d)
    BY <2>2 DEF Next
  <2>4. d = c
    BY <2>0, <2>3 DEF TypeOK, run, Connect, ConnectionInit, Outgoing, Subscribe, RegisterConn,
                      Complete, DeregisterTopic, Close, CloseTopics, Disconnect
  <2>5. CASE RegisterConn(c)
    <3>1. Registered(c) = tracked[c] \union moving[c] /\ \A m, n \in Registered(c) : m[1] = n[1] => m = n
      BY <2>1 DEF OwnInv, Alive
    <3>2. tracked'[c] = {m \in tracked[c] : \A n \in moving[c] : m[1] # n[1]} \union moving[c]
      BY <2>0, <2>5 DEF RegisterConn, TypeOK
    <3> QED BY <3>1, <3>2
  <2>6. ASSUME NEW s \in Subs, Complete(c, s)
        PROVE  actor[c] = "loop" /\ actor'[c] \in {"deregistering", "closing"}
    BY <2>0, <2>6 DEF Complete, Goto, TypeOK
  <2>7. CASE Close(c)
    <3>1. actor[c] # "open"
      BY <2>1 DEF OwnInv
    <3> QED BY <2>0, <2>7, <3>1 DEF Close, TypeOK, Alive
  <2> QED
    BY <2>3, <2>4, <2>5, <2>6, <2>7 DEF run, Connect, ConnectionInit, Outgoing, Subscribe,
             DeregisterTopic, CloseTopics, Disconnect
<1> QED BY <1>1, HubInvHolds, PTL DEF Spec, OnlyClientEnds
=============================================================================
