------------------------ MODULE RedisIdempotencyProofs ------------------------
(***************************************************************************)
(* Proofs about RedisIdempotency, for any number of requests, keys and     *)
(* gateways, any ttl and any sequence of faults.                           *)
(***************************************************************************)
EXTENDS RedisIdempotency, FiniteSetTheorems, TLAPS

\* A set that took one element in is larger by at most one.
LEMMA TakesOne ==
  ASSUME NEW S, IsFiniteSet(S), NEW x, NEW T, T \subseteq S \union {x}
  PROVE  IsFiniteSet(T) /\ Cardinality(T) \in Nat /\ Cardinality(T) <= Cardinality(S) + 1
<1>0. Cardinality(S) \in Nat
  BY FS_CardinalityType
<1>1. /\ IsFiniteSet(S \union {x})
      /\ Cardinality(S \union {x}) \in Nat
      /\ Cardinality(S \union {x}) <= Cardinality(S) + 1
  <2>1. /\ IsFiniteSet(S \union {x})
        /\ Cardinality(S \union {x}) =
             IF x \in S THEN Cardinality(S) ELSE Cardinality(S) + 1
    BY FS_AddElement
  <2> QED BY <1>0, <2>1
<1>2. IsFiniteSet(T) /\ Cardinality(T) <= Cardinality(S \union {x})
  BY <1>1, FS_Subset
<1> QED BY <1>0, <1>1, <1>2, FS_CardinalityType

\* A set that gave one of its elements up and took one in is no larger.
LEMMA SwapsOne ==
  ASSUME NEW S, IsFiniteSet(S), NEW a \in S, NEW b, NEW T, T \subseteq (S \ {a}) \union {b}
  PROVE  Cardinality(T) \in Nat /\ Cardinality(T) <= Cardinality(S)
<1>1. IsFiniteSet(S \ {a}) /\ Cardinality(S \ {a}) = Cardinality(S) - 1
  BY FS_RemoveElement
<1>2. Cardinality(T) \in Nat /\ Cardinality(T) <= Cardinality(S \ {a}) + 1
  BY <1>1, TakesOne
<1> QED BY <1>1, <1>2, FS_CardinalityType

\* What is executed on a key is a finite set of requests.
LEMMA UnrecordedFinite ==
  ASSUME NEW k
  PROVE  IsFiniteSet(Unrecorded(k)) /\ Cardinality(Unrecorded(k)) \in Nat
<1>1. Unrecorded(k) \in SUBSET Requests
  BY DEF Unrecorded, Executions
<1> QED BY <1>1, RedisAssumption, FS_Subset, FS_CardinalityType

LEMMA RecordsAreRecords ==
  /\ NoRecord \in Records
  /\ \A r \in Requests : /\ Record("InProgress", r) \in Records
                         /\ Record("Completed", r) \in Records
  /\ \A x \in Records : /\ x.owner \in Requests \union {NoRequest}
                        /\ x.left \in Nat
                        /\ x.left > 1 => [x EXCEPT !.left = @ - 1] \in Records
                        /\ [x EXCEPT !.left = @ - 1].owner = x.owner
BY RedisAssumption DEF Records, Record, NoRecord, TtlSecs

-----------------------------------------------------------------------------
LEMMA TypeInit == Init => TypeOK
BY RecordsAreRecords DEF Init, TypeOK, PCs

LEMMA TypeStep ==
  ASSUME TypeOK, CallsInv, [Next]_vars
  PROVE  TypeOK'
<1> USE DEF TypeOK
<1>1. ASSUME NEW r \in Requests, NEW k \in Keys, Check(r, k)
      PROVE  TypeOK'
  BY <1>1 DEF Check, Goto, PCs
<1>2. ASSUME NEW r \in Requests, get_connection(r)
      PROVE  TypeOK'
  <2>1. key[r] \in Keys
    BY <1>2 DEF get_connection, Connected, BeginInit, InitOk, InitFails, Goto, CallsInv, PCs
  <2>2. CASE Connected(r)
    BY <2>2 DEF Connected, Goto, PCs
  <2>3. CASE BeginInit(r)
    BY <2>3, RedisAssumption DEF BeginInit, Goto, PCs
  <2>4. CASE InitOk(r)
    BY <2>4, RedisAssumption DEF InitOk, Goto, PCs
  <2>5. CASE InitFails(r)
    BY <2>1, <2>5, RedisAssumption DEF InitFails, Goto, FailOpen, PCs
  <2> QED BY <1>2, <2>2, <2>3, <2>4, <2>5 DEF get_connection
<1>3. ASSUME NEW r \in Requests, SetNx(r) \/ SetNxFails(r)
      PROVE  TypeOK'
  <2>1. key[r] \in Keys
    BY <1>3 DEF SetNx, SetNxFails, Goto, CallsInv
  <2>2. CASE SetNx(r)
    BY <2>1, <2>2, RecordsAreRecords DEF SetNx, Goto, PCs
  <2>3. CASE SetNxFails(r)
    BY <2>1, <2>3, RecordsAreRecords DEF SetNxFails, Goto, FailOpen, PCs
  <2> QED BY <1>3, <2>2, <2>3
<1>4. ASSUME NEW r \in Requests, Get(r) \/ GetNothing(r) \/ GetFails(r)
      PROVE  TypeOK'
  <2>1. key[r] \in Keys
    BY <1>4 DEF Get, GetNothing, GetFails, Goto, CallsInv
  <2> QED BY <1>4, <2>1 DEF Get, GetNothing, GetFails, Goto, FailOpen, PCs
<1>5. ASSUME NEW r \in Requests, SetCompleted(r) \/ Del(r) \/ CommandLost(r)
      PROVE  TypeOK'
  <2>1. key[r] \in Keys
    BY <1>5 DEF SetCompleted, Del, CommandLost, Goto, CallsInv
  <2> QED BY <1>5, <2>1, RecordsAreRecords DEF SetCompleted, Del, CommandLost, Goto, PCs
<1>6. ASSUME NEW r \in Requests, Complete(r) \/ Remove(r) \/ Abandon(r)
      PROVE  TypeOK'
  BY <1>6 DEF Complete, Remove, Abandon, Goto, PCs
<1>7. CASE Tick
  <2>1. rec' \in [Keys -> Records]
    BY <1>7, RecordsAreRecords DEF Tick, Drop
  <2> QED BY <1>7, <2>1 DEF Tick, Drop
<1>8. CASE ServerRestarts
  BY <1>8, RecordsAreRecords DEF ServerRestarts, Drop
<1>9. CASE UNCHANGED vars
  BY <1>9 DEF vars
<1> QED BY <1>1, <1>2, <1>3, <1>4, <1>5, <1>6, <1>7, <1>8, <1>9 DEF Next, Continue

-----------------------------------------------------------------------------
\* Each step of r leaves the cells of the others alone: only its own gateway's
\* cell changes, and only if no other request is filling it.
LEMMA CallsStep ==
  ASSUME TypeOK, CallsInv, [Next]_vars
  PROVE  CallsInv'
<1> USE DEF TypeOK, CallsInv, Goto
<1>1. ASSUME NEW r \in Requests, NEW k \in Keys, Check(r, k)
      PROVE  CallsInv'
  BY <1>1 DEF Check
<1>2. ASSUME NEW r \in Requests, get_connection(r)
      PROVE  CallsInv'
  <2>1. CASE Connected(r)
    BY <2>1 DEF Connected
  <2>2. CASE BeginInit(r)
    <3>1. \A s \in Requests : pc[s] = "init" => GatewayOf[s] # GatewayOf[r]
      BY <2>2, RedisAssumption DEF BeginInit
    <3>2. \A s \in Requests : pc'[s] = "init" <=> manager'[GatewayOf[s]] = s
      BY <2>2, <3>1, RedisAssumption DEF BeginInit
    <3> QED BY <2>2, <3>2 DEF BeginInit
  <2>3. CASE InitOk(r)
    <3>1. \A s \in Requests : pc'[s] = "init" <=> manager'[GatewayOf[s]] = s
      <4> SUFFICES ASSUME NEW s \in Requests
                   PROVE  pc'[s] = "init" <=> manager'[GatewayOf[s]] = s
        OBVIOUS
      <4>1. CASE GatewayOf[s] = GatewayOf[r]
        <5>1. manager[GatewayOf[r]] = r /\ pc'[s] # "init"
          BY <2>3, <4>1 DEF InitOk
        <5>2. manager'[GatewayOf[s]] = "ready" /\ s # "ready"
          BY <2>3, <4>1, RedisAssumption DEF InitOk
        <5> QED BY <5>1, <5>2
      <4>2. CASE GatewayOf[s] # GatewayOf[r]
        BY <2>3, <4>2, RedisAssumption DEF InitOk
      <4> QED BY <4>1, <4>2
    <3> QED BY <2>3, <3>1 DEF InitOk
  <2>4. CASE InitFails(r)
    BY <2>4, RedisAssumption DEF InitFails
  <2> QED BY <1>2, <2>1, <2>2, <2>3, <2>4 DEF get_connection
<1>3. ASSUME NEW r \in Requests, SetNx(r) \/ SetNxFails(r)
      PROVE  CallsInv'
  BY <1>3 DEF SetNx, SetNxFails
<1>4. ASSUME NEW r \in Requests, Get(r) \/ GetNothing(r) \/ GetFails(r)
      PROVE  CallsInv'
  BY <1>4 DEF Get, GetNothing, GetFails
<1>5. ASSUME NEW r \in Requests, SetCompleted(r) \/ Del(r) \/ CommandLost(r)
      PROVE  CallsInv'
  BY <1>5 DEF SetCompleted, Del, CommandLost
<1>6. ASSUME NEW r \in Requests, Complete(r) \/ Remove(r) \/ Abandon(r)
      PROVE  CallsInv'
  BY <1>6 DEF Complete, Remove, Abandon
<1>7. CASE Tick \/ ServerRestarts \/ UNCHANGED vars
  BY <1>7 DEF Tick, ServerRestarts, vars
<1> QED BY <1>1, <1>2, <1>3, <1>4, <1>5, <1>6, <1>7 DEF Next, Continue

-----------------------------------------------------------------------------
(* The executions without a record *)

\* A step pays for the executions on k: they give up one for one, or take one in
\* and count a fault.
Paid(k) ==
  \/ Unrecorded(k)' \subseteq Unrecorded(k) /\ losses'[k] >= losses[k]
  \/ \E x : Unrecorded(k)' \subseteq Unrecorded(k) \union {x} /\ losses'[k] = losses[k] + 1
  \/ \E a \in Unrecorded(k) : \E b :
       Unrecorded(k)' \subseteq (Unrecorded(k) \ {a}) \union {b} /\ losses'[k] = losses[k]

LEMMA PaidSuffices ==
  ASSUME TypeOK, UnrecordedArePaid, NEW k \in Keys, Paid(k), losses'[k] \in Nat
  PROVE  Cardinality(Unrecorded(k)') <= losses'[k]
<1> DEFINE S == Unrecorded(k)
           T == Unrecorded(k)'
<1>1. /\ IsFiniteSet(S) /\ Cardinality(S) \in Nat
      /\ losses[k] \in Nat /\ Cardinality(S) <= losses[k]
  BY UnrecordedFinite DEF TypeOK, UnrecordedArePaid
<1>2. CASE T \subseteq S /\ losses'[k] >= losses[k]
  <2>1. Cardinality(T) <= Cardinality(S) /\ Cardinality(T) \in Nat
    BY <1>1, <1>2, FS_Subset, FS_CardinalityType
  <2> QED BY <1>1, <1>2, <2>1
<1>3. ASSUME NEW x, T \subseteq S \union {x}, losses'[k] = losses[k] + 1
      PROVE  Cardinality(T) <= losses'[k]
  <2>1. Cardinality(T) <= Cardinality(S) + 1 /\ Cardinality(T) \in Nat
    BY <1>1, <1>3, TakesOne
  <2> QED BY <1>1, <1>3, <2>1
<1>4. ASSUME NEW a \in S, NEW b, T \subseteq (S \ {a}) \union {b}, losses'[k] = losses[k]
      PROVE  Cardinality(T) <= losses'[k]
  <2>1. Cardinality(T) <= Cardinality(S) /\ Cardinality(T) \in Nat
    BY <1>1, <1>4, SwapsOne
  <2> QED BY <1>1, <1>4, <2>1
<1> QED BY <1>2, <1>3, <1>4 DEF Paid

\* Every step pays, on every key.
LEMMA StepsPay ==
  ASSUME TypeOK, CallsInv, [Next]_vars, NEW k \in Keys
  PROVE  Paid(k)
<1> USE DEF TypeOK, Unrecorded, Executions, Executing, Calling, Goto
<1>0. ASSUME Unrecorded(k)' \subseteq Unrecorded(k), losses'[k] = losses[k]
      PROVE  Paid(k)
  BY <1>0 DEF Paid
<1>1. ASSUME NEW r \in Requests, NEW q \in Keys, Check(r, q)
      PROVE  Paid(k)
  BY <1>0, <1>1 DEF Check
<1>2. ASSUME NEW r \in Requests, get_connection(r)
      PROVE  Paid(k)
  <2>1. CASE Connected(r) \/ BeginInit(r) \/ InitOk(r)
    BY <1>0, <2>1 DEF Connected, BeginInit, InitOk
  <2>2. CASE InitFails(r)
    <3>1. CASE op[r] = "check" /\ key[r] = k
      <4>1. Unrecorded(k)' \subseteq Unrecorded(k) \union {r} /\ losses'[k] = losses[k] + 1
        BY <2>2, <3>1 DEF InitFails, FailOpen
      <4> QED BY <4>1 DEF Paid
    <3>2. CASE ~(op[r] = "check" /\ key[r] = k)
      BY <1>0, <2>2, <3>2 DEF InitFails, FailOpen
    <3> QED BY <3>1, <3>2
  <2> QED BY <1>2, <2>1, <2>2 DEF get_connection
<1>3. ASSUME NEW r \in Requests, SetNx(r)
      PROVE  Paid(k)
  BY <1>0, <1>3, RedisAssumption DEF SetNx, Record, NoRecord, CallsInv
<1>4. ASSUME NEW r \in Requests, SetNxFails(r) \/ GetNothing(r) \/ GetFails(r)
      PROVE  Paid(k)
  <2>1. CASE key[r] = k
    <3>1. Unrecorded(k)' \subseteq Unrecorded(k) \union {r} /\ losses'[k] = losses[k] + 1
      BY <1>4, <2>1, RedisAssumption
      DEF SetNxFails, GetNothing, GetFails, FailOpen, Record, NoRecord
    <3> QED BY <3>1 DEF Paid
  <2>2. CASE key[r] # k
    BY <1>0, <1>4, <2>2 DEF SetNxFails, GetNothing, GetFails, FailOpen
  <2> QED BY <2>1, <2>2
<1>5. ASSUME NEW r \in Requests, Get(r)
      PROVE  Paid(k)
  BY <1>0, <1>5 DEF Get
<1>6. ASSUME NEW r \in Requests, SetCompleted(r) \/ Del(r)
      PROVE  Paid(k)
  <2>1. r \in Executions(key[r]) /\ losses'[k] = losses[k]
    BY <1>6 DEF SetCompleted, Del
  <2>2. CASE key[r] # k
    BY <1>0, <1>6, <2>2 DEF SetCompleted, Del
  <2>3. CASE key[r] = k /\ rec[k].owner = r
    BY <1>0, <1>6, <2>3 DEF SetCompleted, Del, Record, NoRecord
  <2>4. CASE key[r] = k /\ rec[k].owner # r
    <3>1. r \in Unrecorded(k)
      BY <2>1, <2>4
    <3>2. Unrecorded(k)' \subseteq (Unrecorded(k) \ {r}) \union {rec[k].owner}
      BY <1>6, <2>4 DEF SetCompleted, Del, Record, NoRecord
    <3> QED BY <2>1, <3>1, <3>2 DEF Paid
  <2> QED BY <2>2, <2>3, <2>4
<1>7. ASSUME NEW r \in Requests, CommandLost(r) \/ Complete(r) \/ Remove(r) \/ Abandon(r)
      PROVE  Paid(k)
  BY <1>0, <1>7, RedisAssumption DEF CommandLost, Complete, Remove, Abandon, CallsInv
<1>8. CASE Tick \/ ServerRestarts
  <2>1. Executions(k)' = Executions(k)
    BY <1>8 DEF Tick, ServerRestarts
  <2>2. \/ rec'[k].owner = rec[k].owner /\ losses'[k] = losses[k]
        \/ /\ rec'[k] = NoRecord
           /\ losses'[k] = IF rec[k].owner \in Executions(k) THEN losses[k] + 1 ELSE losses[k]
    BY <1>8, RecordsAreRecords DEF Tick, ServerRestarts, Drop
  <2> QED BY <2>1, <2>2 DEF Paid
<1>9. CASE UNCHANGED vars
  BY <1>0, <1>9 DEF vars
<1> QED BY <1>1, <1>2, <1>3, <1>4, <1>5, <1>6, <1>7, <1>8, <1>9 DEF Next, Continue

-----------------------------------------------------------------------------
\* Type correctness, the OnceCell's single filler, and the count of executions
\* without a record hold in every reachable state.
THEOREM RedisInvHolds == Spec => []RedisInv
<1>1. Init => RedisInv
  <2> SUFFICES ASSUME Init PROVE RedisInv
    OBVIOUS
  <2>1. CallsInv
    BY RedisAssumption DEF Init, CallsInv
  <2>2. ASSUME NEW k \in Keys
        PROVE  Cardinality(Unrecorded(k)) <= losses[k]
    <3>1. Unrecorded(k) = {}
      BY DEF Init, Unrecorded, Executions, Executing, Calling
    <3> QED BY <3>1, FS_EmptySet DEF Init
  <2> QED BY TypeInit, <2>1, <2>2 DEF RedisInv, UnrecordedArePaid
<1>2. RedisInv /\ [Next]_vars => RedisInv'
  <2> SUFFICES ASSUME RedisInv, [Next]_vars PROVE RedisInv'
    OBVIOUS
  <2>1. TypeOK' /\ CallsInv'
    BY TypeStep, CallsStep DEF RedisInv
  <2>2. ASSUME NEW k \in Keys
        PROVE  Cardinality(Unrecorded(k)') <= losses'[k]
    <3>1. losses'[k] \in Nat
      BY <2>1 DEF TypeOK
    <3> QED BY <3>1, StepsPay, PaidSuffices DEF RedisInv
  <2>3. UnrecordedArePaid'
    BY <2>2 DEF UnrecordedArePaid
  <2> QED BY <2>1, <2>3 DEF RedisInv
<1> QED BY <1>1, <1>2, PTL DEF Spec

\* Of the requests on one key, over all gateways, at most one plus the number of
\* faults that met the key executes or has succeeded.
THEOREM OverlapPaid == Spec => []OverlapIsPaid
<1>1. RedisInv => OverlapIsPaid
  <2> SUFFICES ASSUME RedisInv, NEW k \in Keys
               PROVE  Cardinality(Executions(k)) <= 1 + losses[k]
    BY DEF OverlapIsPaid
  <2>1. Executions(k) \subseteq Unrecorded(k) \union {rec[k].owner}
    BY DEF Unrecorded
  <2>2. /\ IsFiniteSet(Unrecorded(k)) /\ Cardinality(Unrecorded(k)) \in Nat
        /\ Cardinality(Unrecorded(k)) <= losses[k] /\ losses[k] \in Nat
    BY UnrecordedFinite DEF RedisInv, UnrecordedArePaid, TypeOK
  <2>3. /\ Cardinality(Executions(k)) \in Nat
        /\ Cardinality(Executions(k)) <= Cardinality(Unrecorded(k)) + 1
    BY <2>1, <2>2, TakesOne
  <2> QED BY <2>2, <2>3
<1> QED BY <1>1, RedisInvHolds, PTL
=============================================================================
