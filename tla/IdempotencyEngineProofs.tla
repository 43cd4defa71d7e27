------------------------ MODULE IdempotencyEngineProofs ------------------------
(* Proofs about the in-memory idempotency backend, for any number of requests, *)
(* keys and shards and any capacity.                                           *)
EXTENDS IdempotencyEngine, FiniteSetTheorems, SequenceTheorems, TLAPS

\* Removing a key from a shard's list, or moving it to the front, leaves a
\* list of keys.
LEMMA WithoutType ==
  ASSUME NEW q \in Seq(Keys), NEW k \in Keys
  PROVE  Without(q, k) \in Seq(Keys) /\ Promote(q, k) \in Seq(Keys)
<1>1. Without(q, k) \in Seq(Keys)
  <2>1. CASE ~ \E i \in 1..Len(q) : q[i] = k
    BY <2>1 DEF Without
  <2>2. CASE \E i \in 1..Len(q) : q[i] = k
    <3> DEFINE j == CHOOSE i \in 1..Len(q) : q[i] = k
    <3>1. j \in 1..Len(q) BY <2>2
    <3>2. Len(q) \in Nat /\ \A i \in 1..Len(q) : q[i] \in Keys BY LenProperties, ElementOfSeq
    <3> HIDE DEF j
    <3>3. SubSeq(q, 1, j - 1) \in Seq(Keys)
      <4>1. \A i \in 1..(j-1) : q[i] \in Keys BY <3>1, <3>2
      <4> QED BY <3>1, <3>2, <4>1, SubSeqProperties
    <3>4. SubSeq(q, j + 1, Len(q)) \in Seq(Keys)
      <4>1. \A i \in (j+1)..Len(q) : q[i] \in Keys BY <3>1, <3>2
      <4> QED BY <3>1, <3>2, <4>1, SubSeqProperties
    <3>5. Without(q, k) = SubSeq(q, 1, j - 1) \o SubSeq(q, j + 1, Len(q))
      BY <2>2 DEF Without, j
    <3> QED BY <3>3, <3>4, <3>5, ConcatProperties
  <2> QED BY <2>1, <2>2
<1>2. <<k>> \in Seq(Keys) OBVIOUS
<1> QED BY <1>1, <1>2, ConcatProperties DEF Promote

\* The records that check_or_insert and complete put are records, and never the
\* absent one.
LEMMA RecordType ==
  ASSUME NEW r \in Requests, NEW t \in 0..MaxTime
  PROVE  /\ Store!InProgress(r, t) \in Store!Records
         /\ Store!Completed(r, t) \in Store!Records
         /\ NoRecord \in Store!Records
         /\ Store!InProgress(r, t) # NoRecord
         /\ Store!Completed(r, t) # NoRecord
BY EngineAssumption DEF Store!InProgress, Store!Completed, Store!Records, NoRecord,
   Store!NoRecord

\* The empty engine is well typed.
LEMMA InitTypeOK == Init => TypeOK
<1> SUFFICES ASSUME Init PROVE TypeOK OBVIOUS
<1>1. <<>> \in Seq(Keys) BY EmptySeq
<1>2. NoRecord \in Store!Records BY DEF NoRecord, Store!Records
<1> QED BY <1>1, <1>2, EngineAssumption DEF Init, TypeOK, PCs, Shards

\* Every step of a thread keeps the types: the LRU lists stay lists of keys, the
\* counter a natural number, the scan index within the shard array.
LEMMA StepTypeOK == TypeOK /\ [Next]_vars => TypeOK'
<1> SUFFICES ASSUME TypeOK, [Next]_vars PROVE TypeOK' OBVIOUS
<1> USE EngineAssumption DEF TypeOK
<1>a. \A s \in Shards, k \in Keys :
        Without(lru[s], k) \in Seq(Keys) /\ Promote(lru[s], k) \in Seq(Keys)
  BY WithoutType
<1>b. ASSUME NEW s \in Shards, NEW v \in Keys, NEW k \in Keys
      PROVE  Promote(Without(lru[s], v), k) \in Seq(Keys)
  BY <1>a, WithoutType
<1>c. ASSUME NEW r \in Requests
      PROVE  /\ Store!InProgress(r, called[r]) \in Store!Records
             /\ Store!Completed(r, now) \in Store!Records
             /\ NoRecord \in Store!Records
  BY RecordType
<1>d. ASSUME NEW r \in Requests, pc[r] # "idle" PROVE key[r] \in Keys /\ Home(r) \in Shards
  BY <1>d DEF Home
<1>1. CASE Tick
  BY <1>1 DEF Tick
<1>2. ASSUME NEW r \in Requests, NEW k \in Keys, Call(r, k) PROVE TypeOK'
  BY <1>2 DEF Call, Goto, PCs
<1>3. ASSUME NEW r \in Requests, LookupLive(r) PROVE TypeOK'
  <2>1. lru' \in [Shards -> Seq(Keys)]
    BY <1>3, <1>a, <1>d DEF LookupLive
  <2>2. source' \in [Requests -> Requests \union {NoRequest}]
    <3>1. rec[key[r]] # NoRecord /\ rec[key[r]] \in Store!Records
      BY <1>3, <1>d DEF LookupLive, Store!Live, NoRecord
    <3>2. rec[key[r]].owner \in Requests
      BY <3>1 DEF Store!Records, NoRecord
    <3> QED BY <1>3, <3>2 DEF LookupLive
  <2> QED BY <1>3, <2>1, <2>2 DEF LookupLive, Goto, PCs, Pass
<1>4. ASSUME NEW r \in Requests, LookupStale(r) PROVE TypeOK'
  BY <1>4, <1>a, <1>d DEF LookupStale, Goto, PCs, Enter
<1>5. ASSUME NEW r \in Requests, HasRoom(r) PROVE TypeOK'
  BY <1>5 DEF HasRoom, Goto, PCs
<1>6. ASSUME NEW r \in Requests, EvictHome(r) PROVE TypeOK'
  <2>1. PICK v \in Keys : PopLru(Home(r), v)
    BY <1>6 DEF EvictHome
  <2>2. rec' \in [Keys -> Store!Records]
    BY <2>1, <1>c DEF PopLru
  <2>3. Home(r) \in Shards
    BY <1>6, <1>d DEF EvictHome, Goto, Shards
  <2>4. lru' \in [Shards -> Seq(Keys)]
    BY <2>1, <2>3, <1>a DEF PopLru
  <2>5. lock' \in [Shards -> Requests \union {NoRequest}]
    BY <1>6 DEF EvictHome, Enter
  <2> QED BY <1>6, <2>2, <2>4, <2>5 DEF EvictHome, Goto, PCs
<1>7. ASSUME NEW r \in Requests, EvictHomeSub(r) PROVE TypeOK'
  BY <1>7 DEF EvictHomeSub, Goto, PCs, FetchSub
<1>8. ASSUME NEW r \in Requests, BeginScan(r) PROVE TypeOK'
  BY <1>8 DEF BeginScan, Goto, PCs
<1>9. ASSUME NEW r \in Requests, ScanSkip(r) PROVE TypeOK'
  BY <1>9 DEF ScanSkip, Goto, PCs, Shards
<1>10. ASSUME NEW r \in Requests, ScanEvict(r) PROVE TypeOK'
  <2>1. PICK v \in Keys : PopLru(cursor[r], v)
    BY <1>10 DEF ScanEvict
  <2>2. rec' \in [Keys -> Store!Records]
    BY <2>1, <1>c DEF PopLru
  <2>3. cursor[r] \in Shards
    BY <1>10, <1>d DEF ScanEvict, Goto, Shards
  <2>4. lru' \in [Shards -> Seq(Keys)]
    BY <2>1, <2>3, <1>a DEF PopLru
  <2>5. lock' \in [Shards -> Requests \union {NoRequest}]
    BY <1>10 DEF ScanEvict, Enter
  <2> QED BY <1>10, <2>2, <2>4, <2>5 DEF ScanEvict, Goto, PCs
<1>11. ASSUME NEW r \in Requests, ScanSub(r) PROVE TypeOK'
  <2>1. lock' \in [Shards -> Requests \union {NoRequest}]
    BY <1>11 DEF ScanSub, Leave
  <2> QED BY <1>11, <2>1 DEF ScanSub, Goto, PCs, FetchSub
<1>12. ASSUME NEW r \in Requests, ScanEnd(r) PROVE TypeOK'
  BY <1>12 DEF ScanEnd, Goto, PCs
<1>13. ASSUME NEW r \in Requests, InsertOver(r) PROVE TypeOK'
  <2> DEFINE R == Store!InProgress(r, called[r])
  <2>1. PutOver(key[r], R)
    BY <1>13 DEF InsertOver
  <2>2. key[r] \in Keys /\ ShardOf[key[r]] \in Shards /\ R \in Store!Records
    BY <1>13, <1>c, <1>d DEF InsertOver, Goto
  <2> HIDE DEF R
  <2>3. rec' \in [Keys -> Store!Records]
    BY <2>1, <2>2 DEF PutOver
  <2>4. lru' \in [Shards -> Seq(Keys)]
    BY <2>1, <2>2, <1>a DEF PutOver
  <2>5. lock' \in [Shards -> Requests \union {NoRequest}]
    BY <1>13 DEF InsertOver, Leave, Pass
  <2> QED BY <1>13, <2>3, <2>4, <2>5 DEF InsertOver, Goto, PCs
<1>14. ASSUME NEW r \in Requests, InsertNew(r) PROVE TypeOK'
  <2> DEFINE R == Store!InProgress(r, called[r])
  <2>1. PutNew(key[r], R)
    BY <1>14 DEF InsertNew
  <2>2. key[r] \in Keys /\ ShardOf[key[r]] \in Shards /\ R \in Store!Records
    BY <1>14, <1>c, <1>d DEF InsertNew, Goto
  <2> HIDE DEF R
  <2>3. rec' \in [Keys -> Store!Records]
    BY <2>1, <2>2, <1>c DEF PutNew
  <2>4. lru' \in [Shards -> Seq(Keys)]
    <3> DEFINE s == ShardOf[key[r]]
    <3>1. lru' = [lru EXCEPT ![s] = Promote(@, key[r])]
          \/ \E v \in Keys : lru' = [lru EXCEPT ![s] = Promote(Without(@, v), key[r])]
      BY <2>1 DEF PutNew
    <3>2. s \in Shards BY <2>2
    <3> HIDE DEF s
    <3>3. CASE lru' = [lru EXCEPT ![s] = Promote(@, key[r])]
      BY <3>2, <3>3, <2>2, <1>a
    <3>4. ASSUME NEW v \in Keys, lru' = [lru EXCEPT ![s] = Promote(Without(@, v), key[r])]
          PROVE  lru' \in [Shards -> Seq(Keys)]
      BY <3>2, <3>4, <2>2, <1>b
    <3> QED BY <3>1, <3>3, <3>4
  <2>5. lock' \in [Shards -> Requests \union {NoRequest}]
    BY <1>14 DEF InsertNew, Enter
  <2> QED BY <1>14, <2>3, <2>4, <2>5 DEF InsertNew, Goto, PCs
<1>15. ASSUME NEW r \in Requests, InsertAdd(r) PROVE TypeOK'
  <2>1. lock' \in [Shards -> Requests \union {NoRequest}]
    BY <1>15 DEF InsertAdd, Leave
  <2> QED BY <1>15, <2>1 DEF InsertAdd, Goto, PCs, FetchAdd, FetchSub
<1>16. ASSUME NEW r \in Requests, CompleteOver(r) PROVE TypeOK'
  <2> DEFINE R == Store!Completed(r, now)
  <2>1. PutOver(key[r], R)
    BY <1>16 DEF CompleteOver
  <2>2. key[r] \in Keys /\ ShardOf[key[r]] \in Shards /\ R \in Store!Records
    BY <1>16, <1>c, <1>d DEF CompleteOver, Goto
  <2> HIDE DEF R
  <2>3. rec' \in [Keys -> Store!Records]
    BY <2>1, <2>2 DEF PutOver
  <2>4. lru' \in [Shards -> Seq(Keys)]
    BY <2>1, <2>2, <1>a DEF PutOver
  <2>5. lock' \in [Shards -> Requests \union {NoRequest}]
    BY <1>16 DEF CompleteOver, Leave, Pass
  <2> QED BY <1>16, <2>3, <2>4, <2>5 DEF CompleteOver, Goto, PCs
<1>17. ASSUME NEW r \in Requests, CompleteNew(r) PROVE TypeOK'
  <2> DEFINE R == Store!Completed(r, now)
  <2>1. PutNew(key[r], R)
    BY <1>17 DEF CompleteNew
  <2>2. key[r] \in Keys /\ ShardOf[key[r]] \in Shards /\ R \in Store!Records
    BY <1>17, <1>c, <1>d DEF CompleteNew, Goto
  <2> HIDE DEF R
  <2>3. rec' \in [Keys -> Store!Records]
    BY <2>1, <2>2, <1>c DEF PutNew
  <2>4. lru' \in [Shards -> Seq(Keys)]
    <3> DEFINE s == ShardOf[key[r]]
    <3>1. lru' = [lru EXCEPT ![s] = Promote(@, key[r])]
          \/ \E v \in Keys : lru' = [lru EXCEPT ![s] = Promote(Without(@, v), key[r])]
      BY <2>1 DEF PutNew
    <3>2. s \in Shards BY <2>2
    <3> HIDE DEF s
    <3>3. CASE lru' = [lru EXCEPT ![s] = Promote(@, key[r])]
      BY <3>2, <3>3, <2>2, <1>a
    <3>4. ASSUME NEW v \in Keys, lru' = [lru EXCEPT ![s] = Promote(Without(@, v), key[r])]
          PROVE  lru' \in [Shards -> Seq(Keys)]
      BY <3>2, <3>4, <2>2, <1>b
    <3> QED BY <3>1, <3>3, <3>4
  <2>5. lock' \in [Shards -> Requests \union {NoRequest}]
    BY <1>17 DEF CompleteNew, Enter
  <2> QED BY <1>17, <2>3, <2>4, <2>5 DEF CompleteNew, Goto, PCs
<1>18. ASSUME NEW r \in Requests, CompleteAdd(r) PROVE TypeOK'
  <2>1. lock' \in [Shards -> Requests \union {NoRequest}]
    BY <1>18 DEF CompleteAdd, Leave
  <2> QED BY <1>18, <2>1 DEF CompleteAdd, Goto, PCs, FetchAdd, FetchSub
<1>19. ASSUME NEW r \in Requests, RemoveFound(r) PROVE TypeOK'
  <2>1. rec' \in [Keys -> Store!Records]
    BY <1>19, <1>c DEF RemoveFound
  <2>2. lru' \in [Shards -> Seq(Keys)]
    BY <1>19, <1>a, <1>d DEF RemoveFound, Goto
  <2>3. lock' \in [Shards -> Requests \union {NoRequest}]
    BY <1>19 DEF RemoveFound, Enter
  <2> QED BY <1>19, <2>1, <2>2, <2>3 DEF RemoveFound, Goto, PCs
<1>20. ASSUME NEW r \in Requests, RemoveSub(r) PROVE TypeOK'
  <2>1. lock' \in [Shards -> Requests \union {NoRequest}]
    BY <1>20 DEF RemoveSub, Leave
  <2> QED BY <1>20, <2>1 DEF RemoveSub, Goto, PCs, FetchAdd, FetchSub
<1>21. ASSUME NEW r \in Requests, RemoveAbsent(r) PROVE TypeOK'
  BY <1>21 DEF RemoveAbsent, Goto, PCs, Pass
<1>22. ASSUME NEW r \in Requests, Abandon(r) PROVE TypeOK'
  BY <1>22 DEF Abandon, Goto, PCs
<1>23. CASE UNCHANGED vars
  BY <1>23 DEF vars
<1> QED
  BY <1>1, <1>2, <1>3, <1>4, <1>5, <1>6, <1>7, <1>8, <1>9, <1>10, <1>11, <1>12, <1>13,
     <1>14, <1>15, <1>16, <1>17, <1>18, <1>19, <1>20, <1>21, <1>22, <1>23 DEF Next,
     check_or_insert, complete, remove

\* Every variable of the backend keeps its type; in particular a request past
\* its first step has a key, and scan indices stay within the shard array.
THEOREM TypeCorrect == Spec => []TypeOK
BY InitTypeOK, StepTypeOK, PTL DEF Spec
-----------------------------------------------------------------------------
(* The mutexes *)

\* Leaving the home shard keeps the mutex discipline: whoever is in another
\* critical section holds another mutex, and that one is untouched.
LEMMA LeavingHome ==
  ASSUME TypeOK, LocksHeld, NEW r \in Requests, NEW to \in {"running", "done"},
         pc[r] \in HoldsHome, pc' = [pc EXCEPT ![r] = to], Leave(Home(r)),
         UNCHANGED <<key, cursor>>
  PROVE  LocksHeld'
<1> USE EngineAssumption
<1> SUFFICES ASSUME NEW q \in Requests
             PROVE  /\ pc'[q] \in HoldsHome => lock'[Home(q)] = q
                    /\ pc'[q] = "scanSub" => /\ cursor[q] < NumShards /\ cursor[q] # Home(q)
                                            /\ lock'[cursor[q]] = q
  BY DEF LocksHeld, Home
<1>1. lock[Home(r)] = r
  BY DEF LocksHeld
<1>2. CASE q = r
  BY <1>2 DEF TypeOK, HoldsHome, Adding
<1>3. CASE q # r
  <2>1. pc'[q] = pc[q]
    BY <1>3 DEF TypeOK
  <2>2. ASSUME NEW s, lock[s] = q, s \in DOMAIN lock PROVE lock'[s] = q
    BY <2>2, <1>1, <1>3 DEF Leave, TypeOK
  <2>3. pc[q] \in HoldsHome => Home(q) \in DOMAIN lock
    BY DEF TypeOK, Home, Shards, HoldsHome, Adding
  <2>4. pc[q] = "scanSub" /\ cursor[q] < NumShards => cursor[q] \in DOMAIN lock
    BY DEF TypeOK, Shards
  <2> QED BY <2>1, <2>2, <2>3, <2>4 DEF LocksHeld
<1> QED BY <1>2, <1>3

\* Every step keeps the mutex discipline: a thread in a critical section holds
\* its mutex, because nobody enters a shard that is locked and only the holder
\* releases it.
LEMMA StepLocksHeld == TypeOK /\ LocksHeld /\ [Next]_vars => LocksHeld'
<1> SUFFICES ASSUME TypeOK, LocksHeld, [Next]_vars PROVE LocksHeld' OBVIOUS
<1> USE EngineAssumption DEF TypeOK, LocksHeld, HoldsHome, Adding, Home, Shards
<1>1. CASE Tick
  BY <1>1 DEF Tick
<1>2. ASSUME NEW r \in Requests, NEW k \in Keys, Call(r, k) PROVE LocksHeld'
  BY <1>2 DEF Call, Goto
<1>3. ASSUME NEW r \in Requests, LookupLive(r) PROVE LocksHeld'
  BY <1>3 DEF LookupLive, Goto, Pass
<1>4. ASSUME NEW r \in Requests, LookupStale(r) PROVE LocksHeld'
  BY <1>4 DEF LookupStale, Goto, Enter
<1>5. ASSUME NEW r \in Requests, HasRoom(r) PROVE LocksHeld'
  BY <1>5 DEF HasRoom, Goto
<1>6. ASSUME NEW r \in Requests, EvictHome(r) PROVE LocksHeld'
  BY <1>6 DEF EvictHome, Goto
<1>7. ASSUME NEW r \in Requests, EvictHomeSub(r) PROVE LocksHeld'
  BY <1>7 DEF EvictHomeSub, Goto
<1>8. ASSUME NEW r \in Requests, BeginScan(r) PROVE LocksHeld'
  BY <1>8 DEF BeginScan, Goto
<1>9. ASSUME NEW r \in Requests, ScanSkip(r) PROVE LocksHeld'
  BY <1>9 DEF ScanSkip, Goto
<1>10. ASSUME NEW r \in Requests, ScanEvict(r) PROVE LocksHeld'
  BY <1>10 DEF ScanEvict, Goto, Enter
<1>11. ASSUME NEW r \in Requests, ScanSub(r) PROVE LocksHeld'
  BY <1>11 DEF ScanSub, Goto, Leave
<1>12. ASSUME NEW r \in Requests, ScanEnd(r) PROVE LocksHeld'
  BY <1>12 DEF ScanEnd, Goto
<1>13. ASSUME NEW r \in Requests, InsertOver(r) PROVE LocksHeld'
  BY <1>13, LeavingHome DEF InsertOver, Goto
<1>14. ASSUME NEW r \in Requests, InsertNew(r) PROVE LocksHeld'
  BY <1>14 DEF InsertNew, Goto
<1>15. ASSUME NEW r \in Requests, InsertAdd(r) PROVE LocksHeld'
  BY <1>15, LeavingHome DEF InsertAdd, Goto
<1>16. ASSUME NEW r \in Requests, CompleteOver(r) PROVE LocksHeld'
  BY <1>16 DEF CompleteOver, Goto, Pass
<1>17. ASSUME NEW r \in Requests, CompleteNew(r) PROVE LocksHeld'
  BY <1>17 DEF CompleteNew, Goto, Enter
<1>18. ASSUME NEW r \in Requests, CompleteAdd(r) PROVE LocksHeld'
  BY <1>18, LeavingHome DEF CompleteAdd, Goto
<1>19. ASSUME NEW r \in Requests, RemoveFound(r) PROVE LocksHeld'
  BY <1>19 DEF RemoveFound, Goto, Enter
<1>20. ASSUME NEW r \in Requests, RemoveSub(r) PROVE LocksHeld'
  BY <1>20, LeavingHome DEF RemoveSub, Goto
<1>21. ASSUME NEW r \in Requests, RemoveAbsent(r) PROVE LocksHeld'
  BY <1>21 DEF RemoveAbsent, Goto, Pass
<1>22. ASSUME NEW r \in Requests, Abandon(r) PROVE LocksHeld'
  BY <1>22 DEF Abandon, Goto
<1>23. CASE UNCHANGED vars
  BY <1>23 DEF vars
<1> QED
  BY <1>1, <1>2, <1>3, <1>4, <1>5, <1>6, <1>7, <1>8, <1>9, <1>10, <1>11, <1>12, <1>13,
     <1>14, <1>15, <1>16, <1>17, <1>18, <1>19, <1>20, <1>21, <1>22, <1>23 DEF Next,
     check_or_insert, complete, remove
-----------------------------------------------------------------------------
(* The counter *)

\* The sets that the counter is compared with are finite.
LEMMA Finiteness ==
  /\ IsFiniteSet(Present) /\ Cardinality(Present) \in Nat
  /\ IsFiniteSet(Adders) /\ Cardinality(Adders) \in Nat
  /\ IsFiniteSet(Subtractors) /\ Cardinality(Subtractors) \in Nat
<1>1. Present \in SUBSET Keys /\ Adders \in SUBSET Requests /\ Subtractors \in SUBSET Requests
  BY DEF Present, Adders, Subtractors
<1> QED BY <1>1, EngineAssumption, FS_Subset, FS_CardinalityType

\* Two requests that are both adding have different keys, for each holds the
\* mutex of its key's shard; and each key has its record.
LEMMA AddersWithinPresent ==
  ASSUME TypeOK, LocksHeld, UncountedIsPresent
  PROVE  Cardinality(Adders) <= Cardinality(Present)
<1> DEFINE f == [r \in Adders |-> key[r]]
<1>1. f \in [Adders -> Present]
  BY DEF Adders, UncountedIsPresent
<1>2. ASSUME NEW q \in Adders, NEW r \in Adders, f[q] = f[r] PROVE q = r
  <2>1. key[q] = key[r] BY <1>2
  <2>2. lock[Home(q)] = q /\ lock[Home(r)] = r
    BY DEF Adders, LocksHeld, HoldsHome
  <2> QED BY <2>1, <2>2 DEF Home
<1>3. f \in Injection(Adders, Present)
  BY <1>1, <1>2 DEF Injection, IsInjective
<1> QED BY <1>3, Finiteness, FS_Injection

\* The inductive invariant implies that a pending subtraction finds a positive
\* counter: each pending addition is matched by a record of its own.
LEMMA NeverWraps ==
  ASSUME IndInv
  PROVE  CounterNeverWraps
<1> SUFFICES ASSUME NEW r \in Requests, pc[r] \in Subtracting PROVE len > 0
  BY DEF CounterNeverWraps
<1>1. Cardinality(Subtractors) > 0
  <2>1. r \in Subtractors BY DEF Subtractors
  <2>2. Cardinality(Subtractors \ {r}) = Cardinality(Subtractors) - 1 /\ IsFiniteSet(Subtractors \ {r})
    BY <2>1, Finiteness, FS_RemoveElement
  <2>3. Cardinality(Subtractors \ {r}) \in Nat BY <2>2, FS_CardinalityType
  <2> QED BY <2>2, <2>3, Finiteness
<1> QED
  BY <1>1, AddersWithinPresent, Finiteness DEF IndInv, LenCoversRecords, TypeOK

\* What a step may do to the set of records, to the requests that owe `len` an
\* addition or a subtraction, and to `len`.
Quiet == Present' = Present /\ Adders' = Adders /\ Subtractors' = Subtractors /\ len' = len
Dropped(r, v) ==
  /\ v \in Present /\ Present' = Present \ {v}
  /\ r \notin Subtractors /\ Subtractors' = Subtractors \union {r}
  /\ Adders' = Adders /\ len' = len
Subtracted(r) ==
  /\ r \in Subtractors /\ Subtractors' = Subtractors \ {r} /\ FetchSub
  /\ Present' = Present /\ Adders' = Adders
Inserted(r, k) ==
  /\ k \notin Present
  /\ \/ Present' = Present \union {k}
     \/ \E v \in Present : Present' = (Present \ {v}) \union {k}
  /\ r \notin Adders /\ Adders' = Adders \union {r}
  /\ Subtractors' = Subtractors /\ len' = len
Added(r) ==
  /\ r \in Adders /\ Adders' = Adders \ {r} /\ FetchAdd
  /\ Present' = Present /\ Subtractors' = Subtractors

\* What a step can do to the records, to the pending additions and subtractions
\* and to the counter, which is all that the bound on the counter depends on.
LEMMA StepShape ==
  ASSUME TypeOK, [Next]_vars
  PROVE  \/ Quiet
         \/ \E r \in Requests : Subtracted(r) \/ Added(r)
         \/ \E r \in Requests, k \in Keys : Dropped(r, k) \/ Inserted(r, k)
<1> DEFINE Goal == \/ Quiet
                   \/ \E r \in Requests : Subtracted(r) \/ Added(r)
                   \/ \E r \in Requests, k \in Keys : Dropped(r, k) \/ Inserted(r, k)
<1> USE EngineAssumption DEF TypeOK, Present, Adders, Subtractors, Adding, Subtracting
<1>a. ASSUME NEW r \in Requests
      PROVE  Store!InProgress(r, called[r]) # NoRecord /\ Store!Completed(r, now) # NoRecord
  BY RecordType
<1>1. CASE Tick
  BY <1>1 DEF Tick, Quiet
<1>2. ASSUME NEW r \in Requests, NEW k \in Keys, Call(r, k) PROVE Goal
  BY <1>2 DEF Call, Goto, Quiet
<1>3. ASSUME NEW r \in Requests, LookupLive(r) PROVE Goal
  BY <1>3 DEF LookupLive, Goto, Quiet
<1>4. ASSUME NEW r \in Requests, LookupStale(r) PROVE Goal
  BY <1>4 DEF LookupStale, Goto, Quiet
<1>5. ASSUME NEW r \in Requests, HasRoom(r) PROVE Goal
  BY <1>5 DEF HasRoom, Goto, Quiet
<1>6. ASSUME NEW r \in Requests, EvictHome(r) PROVE Goal
  <2>1. PICK v \in Keys : PopLru(Home(r), v) BY <1>6 DEF EvictHome
  <2>2. v \in Present /\ Present' = Present \ {v}
    BY <2>1 DEF PopLru, IsLru, Resident
  <2>3. Dropped(r, v) BY <1>6, <2>2 DEF EvictHome, Goto, Dropped
  <2> QED BY <2>3
<1>7. ASSUME NEW r \in Requests, EvictHomeSub(r) PROVE Goal
  <2>1. Subtracted(r) BY <1>7 DEF EvictHomeSub, Goto, Subtracted
  <2> QED BY <2>1
<1>8. ASSUME NEW r \in Requests, BeginScan(r) PROVE Goal
  BY <1>8 DEF BeginScan, Goto, Quiet
<1>9. ASSUME NEW r \in Requests, ScanSkip(r) PROVE Goal
  BY <1>9 DEF ScanSkip, Goto, Quiet
<1>10. ASSUME NEW r \in Requests, ScanEvict(r) PROVE Goal
  <2>1. PICK v \in Keys : PopLru(cursor[r], v) BY <1>10 DEF ScanEvict
  <2>2. v \in Present /\ Present' = Present \ {v}
    BY <2>1 DEF PopLru, IsLru, Resident
  <2>3. Dropped(r, v) BY <1>10, <2>2 DEF ScanEvict, Goto, Dropped
  <2> QED BY <2>3
<1>11. ASSUME NEW r \in Requests, ScanSub(r) PROVE Goal
  <2>1. Subtracted(r) BY <1>11 DEF ScanSub, Goto, Subtracted
  <2> QED BY <2>1
<1>12. ASSUME NEW r \in Requests, ScanEnd(r) PROVE Goal
  BY <1>12 DEF ScanEnd, Goto, Quiet
<1>13. ASSUME NEW r \in Requests, InsertOver(r) PROVE Goal
  BY <1>13, <1>a DEF InsertOver, Goto, PutOver, Quiet
<1>14. ASSUME NEW r \in Requests, InsertNew(r) PROVE Goal
  <2> DEFINE R == Store!InProgress(r, called[r])
  <2>0. PICK k \in Keys : k = key[r] BY <1>14 DEF InsertNew, Goto
  <2>1. PutNew(k, R) /\ R # NoRecord BY <1>14, <1>a, <2>0 DEF InsertNew
  <2> HIDE DEF R
  <2>2. k \notin Present BY <2>1 DEF PutNew
  <2>3. rec' = [rec EXCEPT ![k] = R]
        \/ \E v \in Present : rec' = [rec EXCEPT ![v] = NoRecord, ![k] = R]
    BY <2>1 DEF PutNew, IsLru, Resident
  <2>4. Present' = Present \union {k} \/ \E v \in Present : Present' = (Present \ {v}) \union {k}
    <3>1. CASE rec' = [rec EXCEPT ![k] = R]
      BY <3>1, <2>1
    <3>2. ASSUME NEW v \in Present, rec' = [rec EXCEPT ![v] = NoRecord, ![k] = R]
          PROVE  Present' = (Present \ {v}) \union {k}
      <4>1. v # k BY <2>2
      <4> QED BY <3>2, <4>1, <2>1
    <3> QED BY <2>3, <3>1, <3>2
  <2>5. /\ r \notin Adders /\ Adders' = Adders \union {r}
        /\ Subtractors' = Subtractors /\ len' = len
    BY <1>14 DEF InsertNew, Goto
  <2> HIDE DEF Present, Adders, Subtractors
  <2>6. Inserted(r, k) BY <2>2, <2>4, <2>5 DEF Inserted
  <2> QED BY <2>6
<1>15. ASSUME NEW r \in Requests, InsertAdd(r) PROVE Goal
  <2>1. Added(r) BY <1>15 DEF InsertAdd, Goto, Added
  <2> QED BY <2>1
<1>16. ASSUME NEW r \in Requests, CompleteOver(r) PROVE Goal
  BY <1>16, <1>a DEF CompleteOver, Goto, PutOver, Quiet
<1>17. ASSUME NEW r \in Requests, CompleteNew(r) PROVE Goal
  <2> DEFINE R == Store!Completed(r, now)
  <2>0. PICK k \in Keys : k = key[r] BY <1>17 DEF CompleteNew, Goto
  <2>1. PutNew(k, R) /\ R # NoRecord BY <1>17, <1>a, <2>0 DEF CompleteNew
  <2> HIDE DEF R
  <2>2. k \notin Present BY <2>1 DEF PutNew
  <2>3. rec' = [rec EXCEPT ![k] = R]
        \/ \E v \in Present : rec' = [rec EXCEPT ![v] = NoRecord, ![k] = R]
    BY <2>1 DEF PutNew, IsLru, Resident
  <2>4. Present' = Present \union {k} \/ \E v \in Present : Present' = (Present \ {v}) \union {k}
    <3>1. CASE rec' = [rec EXCEPT ![k] = R]
      BY <3>1, <2>1
    <3>2. ASSUME NEW v \in Present, rec' = [rec EXCEPT ![v] = NoRecord, ![k] = R]
          PROVE  Present' = (Present \ {v}) \union {k}
      <4>1. v # k BY <2>2
      <4> QED BY <3>2, <4>1, <2>1
    <3> QED BY <2>3, <3>1, <3>2
  <2>5. /\ r \notin Adders /\ Adders' = Adders \union {r}
        /\ Subtractors' = Subtractors /\ len' = len
    BY <1>17 DEF CompleteNew, Goto
  <2> HIDE DEF Present, Adders, Subtractors
  <2>6. Inserted(r, k) BY <2>2, <2>4, <2>5 DEF Inserted
  <2> QED BY <2>6
<1>18. ASSUME NEW r \in Requests, CompleteAdd(r) PROVE Goal
  <2>1. Added(r) BY <1>18 DEF CompleteAdd, Goto, Added
  <2> QED BY <2>1
<1>19. ASSUME NEW r \in Requests, RemoveFound(r) PROVE Goal
  <2>1. PICK k \in Keys : k = key[r] BY <1>19 DEF RemoveFound, Goto
  <2>2. k \in Present /\ Present' = Present \ {k}
    BY <1>19, <2>1 DEF RemoveFound, Goto
  <2>3. Dropped(r, k) BY <1>19, <2>2 DEF RemoveFound, Goto, Dropped
  <2> QED BY <2>3
<1>20. ASSUME NEW r \in Requests, RemoveSub(r) PROVE Goal
  <2>1. Subtracted(r) BY <1>20 DEF RemoveSub, Goto, Subtracted
  <2> QED BY <2>1
<1>21. ASSUME NEW r \in Requests, RemoveAbsent(r) PROVE Goal
  BY <1>21 DEF RemoveAbsent, Goto, Quiet
<1>22. ASSUME NEW r \in Requests, Abandon(r) PROVE Goal
  BY <1>22 DEF Abandon, Goto, Quiet
<1>23. CASE UNCHANGED vars
  BY <1>23 DEF vars, Quiet
<1> QED
  BY <1>1, <1>2, <1>3, <1>4, <1>5, <1>6, <1>7, <1>8, <1>9, <1>10, <1>11, <1>12, <1>13,
     <1>14, <1>15, <1>16, <1>17, <1>18, <1>19, <1>20, <1>21, <1>22, <1>23 DEF Next,
     check_or_insert, complete, remove

\* No step makes the counter fall behind the records and the pending
\* subtractions.
LEMMA StepLen == IndInv /\ [Next]_vars => LenCoversRecords'
<1> SUFFICES ASSUME IndInv, [Next]_vars PROVE LenCoversRecords' OBVIOUS
<1> DEFINE P == Cardinality(Present)
           A == Cardinality(Adders)
           S == Cardinality(Subtractors)
<1>1. len \in Nat /\ len + A >= P + S /\ P \in Nat /\ A \in Nat /\ S \in Nat
  BY Finiteness DEF IndInv, TypeOK, LenCoversRecords
<1>2. (LenCoversRecords <=> len + A >= P + S)' BY DEF LenCoversRecords
<1>3. CASE Quiet
  BY <1>1, <1>2, <1>3 DEF Quiet
<1>4. ASSUME NEW r \in Requests, Subtracted(r) PROVE LenCoversRecords'
  <2>1. len > 0 BY <1>4, NeverWraps DEF Subtracted, CounterNeverWraps, Subtractors
  <2>2. S' = S - 1 BY <1>4, Finiteness, FS_RemoveElement DEF Subtracted
  <2>3. P' = P /\ A' = A /\ len' = len - 1 BY <1>1, <1>4, <2>1 DEF Subtracted, FetchSub
  <2> QED BY <1>1, <1>2, <2>2, <2>3
<1>5. ASSUME NEW r \in Requests, Added(r) PROVE LenCoversRecords'
  <2>1. A' = A - 1 BY <1>5, Finiteness, FS_RemoveElement DEF Added
  <2>2. P' = P /\ S' = S /\ len' = len + 1 BY <1>5 DEF Added, FetchAdd
  <2> QED BY <1>1, <1>2, <2>1, <2>2
<1>6. ASSUME NEW r \in Requests, NEW v \in Keys, Dropped(r, v) PROVE LenCoversRecords'
  <2>1. P' = P - 1 BY <1>6, Finiteness, FS_RemoveElement DEF Dropped
  <2>2. S' = S + 1 BY <1>6, Finiteness, FS_AddElement DEF Dropped
  <2>3. A' = A /\ len' = len BY <1>6 DEF Dropped
  <2> QED BY <1>1, <1>2, <2>1, <2>2, <2>3
<1>7. ASSUME NEW r \in Requests, NEW k \in Keys, Inserted(r, k) PROVE LenCoversRecords'
  <2>1. A' = A + 1 BY <1>7, Finiteness, FS_AddElement DEF Inserted
  <2>2. P' <= P + 1 /\ P' \in Nat
    <3>1. CASE Present' = Present \union {k}
      <4>1. k \notin Present BY <1>7 DEF Inserted
      <4>2. P' = P + 1 BY <3>1, <4>1, Finiteness, FS_AddElement
      <4> QED BY <1>1, <4>2
    <3>2. ASSUME NEW v \in Present, Present' = (Present \ {v}) \union {k}
          PROVE  P' = P
      <4>1. IsFiniteSet(Present \ {v}) /\ Cardinality(Present \ {v}) = P - 1
        BY Finiteness, FS_RemoveElement
      <4>2. k \notin Present \ {v} BY <1>7 DEF Inserted
      <4> QED BY <1>1, <3>2, <4>1, <4>2, FS_AddElement
    <3> QED BY <1>1, <1>7, <3>1, <3>2 DEF Inserted
  <2>3. S' = S /\ len' = len BY <1>7 DEF Inserted
  <2> QED BY <1>1, <1>2, <2>1, <2>2, <2>3
<1> QED
  BY <1>3, <1>4, <1>5, <1>6, <1>7, StepShape DEF IndInv

\* No step removes a record that is put but not counted: pop_lru and pop act on
\* a shard whose mutex they hold, and the adder still holds it.
LEMMA StepUncounted ==
  TypeOK /\ LocksHeld /\ UncountedIsPresent /\ [Next]_vars => UncountedIsPresent'
<1> SUFFICES ASSUME TypeOK, LocksHeld, UncountedIsPresent, [Next]_vars PROVE UncountedIsPresent'
  OBVIOUS
<1>0. \A q \in Requests : (pc[q] \in Adding)' => (key[q] \in Keys)'
  BY StepTypeOK DEF TypeOK, Adding
<1> SUFFICES ASSUME NEW q \in Requests, (pc[q] \in Adding)'
             PROVE  (rec[key[q]] # NoRecord)'
  BY <1>0 DEF UncountedIsPresent, Present
<1> USE EngineAssumption DEF TypeOK, UncountedIsPresent, Present, Adding
<1>a. ASSUME NEW r \in Requests
      PROVE  Store!InProgress(r, called[r]) # NoRecord /\ Store!Completed(r, now) # NoRecord
  BY RecordType
<1>b. ASSUME pc[q] \in Adding
      PROVE  lock[ShardOf[key[q]]] = q /\ key[q] \in Keys /\ rec[key[q]] # NoRecord
  BY <1>b DEF LocksHeld, HoldsHome, Home
<1>1. CASE Tick
  BY <1>1 DEF Tick
<1>2. ASSUME NEW r \in Requests, NEW k \in Keys, Call(r, k) PROVE (rec[key[q]] # NoRecord)'
  BY <1>2 DEF Call, Goto
<1>3. ASSUME NEW r \in Requests, LookupLive(r) PROVE (rec[key[q]] # NoRecord)'
  BY <1>3 DEF LookupLive, Goto
<1>4. ASSUME NEW r \in Requests, LookupStale(r) PROVE (rec[key[q]] # NoRecord)'
  BY <1>4 DEF LookupStale, Goto
<1>5. ASSUME NEW r \in Requests, HasRoom(r) PROVE (rec[key[q]] # NoRecord)'
  BY <1>5 DEF HasRoom, Goto
<1>6. ASSUME NEW r \in Requests, EvictHome(r) PROVE (rec[key[q]] # NoRecord)'
  <2>1. PICK v \in Keys : PopLru(Home(r), v) BY <1>6 DEF EvictHome
  <2>2. q # r /\ pc[q] \in Adding BY <1>6 DEF EvictHome, Goto
  <2>3. lock[Home(r)] # q BY <1>6, <2>2 DEF EvictHome, Enter, Goto, LocksHeld, HoldsHome
  <2>4. v # key[q] BY <2>1, <2>2, <2>3, <1>b DEF PopLru, IsLru, Resident
  <2>5. rec'[key[q]] = rec[key[q]] BY <2>1, <2>2, <2>4, <1>b DEF PopLru
  <2> QED BY <1>6, <2>2, <2>5, <1>b DEF EvictHome
<1>7. ASSUME NEW r \in Requests, EvictHomeSub(r) PROVE (rec[key[q]] # NoRecord)'
  BY <1>7 DEF EvictHomeSub, Goto
<1>8. ASSUME NEW r \in Requests, BeginScan(r) PROVE (rec[key[q]] # NoRecord)'
  BY <1>8 DEF BeginScan, Goto
<1>9. ASSUME NEW r \in Requests, ScanSkip(r) PROVE (rec[key[q]] # NoRecord)'
  BY <1>9 DEF ScanSkip, Goto
<1>10. ASSUME NEW r \in Requests, ScanEvict(r) PROVE (rec[key[q]] # NoRecord)'
  <2>1. PICK v \in Keys : PopLru(cursor[r], v) BY <1>10 DEF ScanEvict
  <2>2. q # r /\ pc[q] \in Adding BY <1>10 DEF ScanEvict, Goto
  <2>3. lock[cursor[r]] # q BY <1>10, <2>2 DEF ScanEvict, Enter, Goto, LocksHeld, HoldsHome
  <2>4. v # key[q] BY <2>1, <2>2, <2>3, <1>b DEF PopLru, IsLru, Resident
  <2>5. rec'[key[q]] = rec[key[q]] BY <2>1, <2>2, <2>4, <1>b DEF PopLru
  <2> QED BY <1>10, <2>2, <2>5, <1>b DEF ScanEvict
<1>11. ASSUME NEW r \in Requests, ScanSub(r) PROVE (rec[key[q]] # NoRecord)'
  BY <1>11 DEF ScanSub, Goto
<1>12. ASSUME NEW r \in Requests, ScanEnd(r) PROVE (rec[key[q]] # NoRecord)'
  BY <1>12 DEF ScanEnd, Goto
<1>13. ASSUME NEW r \in Requests, InsertOver(r) PROVE (rec[key[q]] # NoRecord)'
  BY <1>13, <1>a, <1>b DEF InsertOver, Goto, PutOver
<1>14. ASSUME NEW r \in Requests, InsertNew(r) PROVE (rec[key[q]] # NoRecord)'
  <2> DEFINE R == Store!InProgress(r, called[r])
  <2>1. PutNew(key[r], R) /\ key[r] \in Keys /\ R # NoRecord /\ key' = key
    BY <1>14, <1>a DEF InsertNew, Goto
  <2> HIDE DEF R
  <2>2. rec' = [rec EXCEPT ![key[r]] = R]
        \/ \E v \in Keys : ShardOf[v] = ShardOf[key[r]] /\ rec' = [rec EXCEPT ![v] = NoRecord, ![key[r]] = R]
    BY <2>1 DEF PutNew, IsLru, Resident
  <2>3. CASE q = r
    BY <2>1, <2>2, <2>3
  <2>4. CASE q # r
    <3>1. pc[q] \in Adding BY <1>14, <2>4 DEF InsertNew, Goto
    <3>2. lock[ShardOf[key[r]]] # q
      BY <1>14, <2>4 DEF InsertNew, Enter, Goto, LocksHeld, HoldsHome, Home
    <3> QED BY <2>1, <2>2, <3>1, <3>2, <1>b
  <2> QED BY <2>3, <2>4
<1>15. ASSUME NEW r \in Requests, InsertAdd(r) PROVE (rec[key[q]] # NoRecord)'
  BY <1>15 DEF InsertAdd, Goto
<1>16. ASSUME NEW r \in Requests, CompleteOver(r) PROVE (rec[key[q]] # NoRecord)'
  BY <1>16, <1>a, <1>b DEF CompleteOver, Goto, PutOver
<1>17. ASSUME NEW r \in Requests, CompleteNew(r) PROVE (rec[key[q]] # NoRecord)'
  <2> DEFINE R == Store!Completed(r, now)
  <2>1. PutNew(key[r], R) /\ key[r] \in Keys /\ R # NoRecord /\ key' = key
    BY <1>17, <1>a DEF CompleteNew, Goto
  <2> HIDE DEF R
  <2>2. rec' = [rec EXCEPT ![key[r]] = R]
        \/ \E v \in Keys : ShardOf[v] = ShardOf[key[r]] /\ rec' = [rec EXCEPT ![v] = NoRecord, ![key[r]] = R]
    BY <2>1 DEF PutNew, IsLru, Resident
  <2>3. CASE q = r
    BY <2>1, <2>2, <2>3
  <2>4. CASE q # r
    <3>1. pc[q] \in Adding BY <1>17, <2>4 DEF CompleteNew, Goto
    <3>2. lock[ShardOf[key[r]]] # q
      BY <1>17, <2>4 DEF CompleteNew, Enter, Goto, LocksHeld, HoldsHome, Home
    <3> QED BY <2>1, <2>2, <3>1, <3>2, <1>b
  <2> QED BY <2>3, <2>4
<1>18. ASSUME NEW r \in Requests, CompleteAdd(r) PROVE (rec[key[q]] # NoRecord)'
  BY <1>18 DEF CompleteAdd, Goto
<1>19. ASSUME NEW r \in Requests, RemoveFound(r) PROVE (rec[key[q]] # NoRecord)'
  <2>1. q # r /\ pc[q] \in Adding BY <1>19 DEF RemoveFound, Goto
  <2>2. key[q] # key[r] BY <1>19, <2>1, <1>b DEF RemoveFound, Enter, Home
  <2> QED BY <1>19, <2>1, <2>2, <1>b DEF RemoveFound, Goto
<1>20. ASSUME NEW r \in Requests, RemoveSub(r) PROVE (rec[key[q]] # NoRecord)'
  BY <1>20 DEF RemoveSub, Goto
<1>21. ASSUME NEW r \in Requests, RemoveAbsent(r) PROVE (rec[key[q]] # NoRecord)'
  BY <1>21 DEF RemoveAbsent, Goto
<1>22. ASSUME NEW r \in Requests, Abandon(r) PROVE (rec[key[q]] # NoRecord)'
  BY <1>22 DEF Abandon, Goto
<1>23. CASE UNCHANGED vars
  BY <1>23 DEF vars
<1> QED
  BY <1>1, <1>2, <1>3, <1>4, <1>5, <1>6, <1>7, <1>8, <1>9, <1>10, <1>11, <1>12, <1>13,
     <1>14, <1>15, <1>16, <1>17, <1>18, <1>19, <1>20, <1>21, <1>22, <1>23 DEF Next,
     check_or_insert, complete, remove

\* The empty engine satisfies the inductive invariant.
LEMMA InitIndInv == Init => IndInv
<1> SUFFICES ASSUME Init PROVE IndInv OBVIOUS
<1>1. Present = {} /\ Adders = {} /\ Subtractors = {} /\ len = 0
  BY DEF Init, Present, Adders, Subtractors, Adding, Subtracting
<1>2. LenCoversRecords BY <1>1, FS_EmptySet DEF LenCoversRecords
<1>3. LocksHeld /\ UncountedIsPresent
  BY DEF Init, LocksHeld, HoldsHome, Adding, UncountedIsPresent
<1> QED BY <1>2, <1>3, InitTypeOK DEF IndInv

\* The inductive invariant holds: critical sections are exclusive, uncounted
\* records stay put, and `len` covers the records.
THEOREM IndInvHolds == Spec => []IndInv
<1>1. IndInv /\ [Next]_vars => IndInv'
  BY StepTypeOK, StepLocksHeld, StepUncounted, StepLen DEF IndInv
<1> QED BY InitIndInv, <1>1, PTL DEF Spec

\* The usize counter shared by the shards is never decremented at 0, for any
\* number of threads, keys and shards and any capacity.
THEOREM CounterSafe == Spec => []CounterNeverWraps
BY IndInvHolds, NeverWraps, PTL

-----------------------------------------------------------------------------
(* The LRU lists *)

\* q lists the members of S, each once.
IsList(q, S) ==
  /\ q \in Seq(Keys)
  /\ {q[i] : i \in DOMAIN q} = S
  /\ \A i, j \in DOMAIN q : q[i] = q[j] => i = j

\* A stretch of a list of keys is a list of keys.
LEMMA SubList ==
  ASSUME NEW q \in Seq(Keys), NEW m \in 1..(Len(q) + 1), NEW n \in 0..Len(q), m <= n + 1
  PROVE  /\ SubSeq(q, m, n) \in Seq(Keys)
         /\ Len(SubSeq(q, m, n)) = n - m + 1
         /\ \A i \in 1..(n - m + 1) : SubSeq(q, m, n)[i] = q[m + i - 1]
<1>1. Len(q) \in Nat /\ \A i \in 1..Len(q) : q[i] \in Keys BY LenProperties, ElementOfSeq
<1>2. \A i \in m..n : q[i] \in Keys BY <1>1
<1>3. m \in Int /\ n \in Int BY <1>1
<1>4. SubSeq(q, m, n) \in Seq(Keys)
  BY <1>2, <1>3, SubSeqProperties
<1>5. Len(SubSeq(q, m, n)) = IF m <= n THEN n - m + 1 ELSE 0
  BY <1>2, <1>3, SubSeqProperties
<1>6. \A i \in 1..(n - m + 1) : SubSeq(q, m, n)[i] = q[m + i - 1]
  BY <1>2, <1>3, SubSeqProperties
<1>7. Len(SubSeq(q, m, n)) = n - m + 1
  BY <1>1, <1>3, <1>5
<1> QED BY <1>4, <1>6, <1>7

\* pop of a key takes it, and nothing else, off the list.
LEMMA ListWithout ==
  ASSUME NEW q, NEW S, IsList(q, S), NEW k \in Keys
  PROVE  IsList(Without(q, k), S \ {k})
<1>1. /\ q \in Seq(Keys) /\ Len(q) \in Nat /\ DOMAIN q = 1..Len(q)
      /\ \A i \in 1..Len(q) : q[i] \in Keys
  BY LenProperties, ElementOfSeq DEF IsList
<1>2. CASE ~ \E i \in 1..Len(q) : q[i] = k
  <2>1. Without(q, k) = q /\ k \notin S BY <1>1, <1>2 DEF Without, IsList
  <2> QED BY <2>1 DEF IsList
<1>3. CASE \E i \in 1..Len(q) : q[i] = k
  <2> DEFINE n == CHOOSE i \in 1..Len(q) : q[i] = k
             a == SubSeq(q, 1, n - 1)
             b == SubSeq(q, n + 1, Len(q))
             w == a \o b
  <2>1. n \in 1..Len(q) /\ q[n] = k BY <1>3
  <2>2. Without(q, k) = w BY <1>3 DEF Without
  <2> HIDE DEF n
  <2>3. a \in Seq(Keys) /\ Len(a) = n - 1 /\ \A i \in 1..(n-1) : a[i] = q[i]
    <3>1. 1 \in 1..(Len(q) + 1) /\ n - 1 \in 0..Len(q) /\ 1 <= (n - 1) + 1 BY <1>1, <2>1
    <3>2. /\ a \in Seq(Keys) /\ Len(a) = (n - 1) - 1 + 1
          /\ \A i \in 1..((n - 1) - 1 + 1) : a[i] = q[1 + i - 1]
      BY <1>1, <3>1, SubList
    <3>3. (n - 1) - 1 + 1 = n - 1 /\ \A i \in 1..(n - 1) : 1 + i - 1 = i BY <1>1, <2>1
    <3> QED BY <3>2, <3>3
  <2>4. b \in Seq(Keys) /\ Len(b) = Len(q) - n /\ \A i \in 1..(Len(q)-n) : b[i] = q[n + i]
    <3>1. n + 1 \in 1..(Len(q) + 1) /\ Len(q) \in 0..Len(q) /\ n + 1 <= Len(q) + 1
      BY <1>1, <2>1
    <3>2. /\ b \in Seq(Keys) /\ Len(b) = Len(q) - (n + 1) + 1
          /\ \A i \in 1..(Len(q) - (n + 1) + 1) : b[i] = q[(n + 1) + i - 1]
      BY <1>1, <3>1, SubList
    <3>3. Len(q) - (n + 1) + 1 = Len(q) - n /\ \A i \in 1..(Len(q) - n) : (n + 1) + i - 1 = n + i
      BY <1>1, <2>1
    <3> QED BY <3>2, <3>3
  <2> HIDE DEF a, b
  <2>5. /\ w \in Seq(Keys) /\ Len(w) = Len(q) - 1
        /\ \A i \in 1..(Len(q) - 1) : w[i] = IF i <= n - 1 THEN q[i] ELSE q[i + 1]
    <3>1. /\ w \in Seq(Keys) /\ Len(w) = Len(a) + Len(b)
          /\ \A i \in 1..(Len(a) + Len(b)) : w[i] = IF i <= Len(a) THEN a[i] ELSE b[i - Len(a)]
      BY <2>3, <2>4, ConcatProperties
    <3>2. Len(a) + Len(b) = Len(q) - 1 BY <1>1, <2>1, <2>3, <2>4
    <3> HIDE DEF w
    <3>3. ASSUME NEW i \in 1..(Len(q) - 1) PROVE w[i] = IF i <= n - 1 THEN q[i] ELSE q[i + 1]
      <4>0. w[i] = IF i <= Len(a) THEN a[i] ELSE b[i - Len(a)] BY <3>1, <3>2
      <4>1. CASE i <= n - 1
        <5>1. i \in 1..(n - 1) BY <1>1, <2>1, <4>1
        <5> QED BY <2>3, <4>0, <4>1, <5>1
      <4>2. CASE ~(i <= n - 1)
        <5>1. w[i] = b[i - (n - 1)] BY <2>3, <4>0, <4>2
        <5>2. i - (n - 1) \in 1..(Len(q) - n) /\ n + (i - (n - 1)) = i + 1 BY <1>1, <2>1, <4>2
        <5> QED BY <2>4, <4>2, <5>1, <5>2
      <4> QED BY <4>1, <4>2
    <3> QED BY <3>1, <3>2, <3>3
  <2>6. DOMAIN w = 1..(Len(q) - 1) BY <2>5, LenProperties
  <2> HIDE DEF w
  <2>7. \A i, j \in DOMAIN w : w[i] = w[j] => i = j
    BY <1>1, <2>1, <2>5, <2>6 DEF IsList
  <2>8. \A i \in DOMAIN w : w[i] \in S \ {k}
    BY <1>1, <2>1, <2>5, <2>6 DEF IsList
  <2>9. ASSUME NEW x \in S \ {k} PROVE \E i \in DOMAIN w : w[i] = x
    <3>1. PICK i \in 1..Len(q) : q[i] = x BY <1>1 DEF IsList
    <3>2. i # n BY <2>1, <3>1
    <3>3. CASE i < n BY <1>1, <2>1, <2>5, <2>6, <3>1, <3>3
    <3>4. CASE i > n
      <4>1. i - 1 \in DOMAIN w /\ w[i - 1] = q[(i - 1) + 1] BY <1>1, <2>1, <2>5, <2>6, <3>4
      <4> QED BY <3>1, <4>1, <1>1
    <3> QED BY <1>1, <2>1, <3>2, <3>3, <3>4
  <2> QED BY <2>2, <2>5, <2>7, <2>8, <2>9 DEF IsList
<1> QED BY <1>2, <1>3

\* put and get move a key to the front of the list.
LEMMA ListPromote ==
  ASSUME NEW q, NEW S, IsList(q, S), NEW k \in Keys
  PROVE  IsList(Promote(q, k), S \union {k})
<1> DEFINE w == Without(q, k)
           p == <<k>> \o w
<1>1. IsList(w, S \ {k}) BY ListWithout
<1> HIDE DEF w
<1>2. w \in Seq(Keys) /\ Len(w) \in Nat /\ DOMAIN w = 1..Len(w)
  BY <1>1, LenProperties DEF IsList
<1>3. <<k>> \in Seq(Keys) /\ Len(<<k>>) = 1 /\ <<k>>[1] = k OBVIOUS
<1>4. /\ p \in Seq(Keys) /\ Len(p) = Len(w) + 1
      /\ \A i \in 1..(Len(w) + 1) : p[i] = IF i <= 1 THEN k ELSE w[i - 1]
  BY <1>2, <1>3, ConcatProperties
<1>5. DOMAIN p = 1..(Len(w) + 1) BY <1>2, <1>4, LenProperties
<1> HIDE DEF p
<1>6. \A i \in DOMAIN w : w[i] \in S \ {k} BY <1>1 DEF IsList
<1>7. \A i, j \in DOMAIN p : p[i] = p[j] => i = j
  <2> SUFFICES ASSUME NEW i \in DOMAIN p, NEW j \in DOMAIN p, p[i] = p[j] PROVE i = j
    OBVIOUS
  <2>1. i \in 1..(Len(w) + 1) /\ j \in 1..(Len(w) + 1) BY <1>5
  <2>2. i > 1 => i - 1 \in DOMAIN w /\ p[i] = w[i - 1] BY <1>2, <1>4, <2>1
  <2>3. j > 1 => j - 1 \in DOMAIN w /\ p[j] = w[j - 1] BY <1>2, <1>4, <2>1
  <2>4. (i <= 1 => p[i] = k) /\ (j <= 1 => p[j] = k) BY <1>2, <1>4, <2>1
  <2>5. CASE i > 1 /\ j > 1
    <3>1. i - 1 = j - 1 BY <1>1, <2>2, <2>3, <2>5 DEF IsList
    <3> QED BY <1>2, <2>1, <3>1
  <2>6. CASE i <= 1 \/ j <= 1
    BY <1>2, <1>6, <2>1, <2>2, <2>3, <2>4, <2>6
  <2> QED BY <1>2, <2>1, <2>5, <2>6
<1>8. \A i \in DOMAIN p : p[i] \in S \union {k}
  BY <1>2, <1>4, <1>5, <1>6
<1>9. ASSUME NEW x \in S \union {k} PROVE \E i \in DOMAIN p : p[i] = x
  <2>1. CASE x = k BY <1>2, <1>4, <1>5, <2>1
  <2>2. CASE x # k
    <3>1. PICK i \in 1..Len(w) : w[i] = x BY <1>1, <1>2, <2>2 DEF IsList
    <3>2. i + 1 \in DOMAIN p /\ p[i + 1] = w[(i + 1) - 1] BY <1>2, <1>4, <1>5, <3>1
    <3> QED BY <1>2, <3>1, <3>2
  <2> QED BY <2>1, <2>2
<1>10. Promote(q, k) = p BY DEF Promote, p, w
<1> QED BY <1>4, <1>7, <1>8, <1>9, <1>10 DEF IsList

\* A list is as long as the set it lists is large.
LEMMA ListLen ==
  ASSUME NEW q, NEW S, IsList(q, S)
  PROVE  IsFiniteSet(S) /\ Len(q) \in Nat /\ Cardinality(S) = Len(q)
<1>1. q \in Seq(Keys) /\ Len(q) \in Nat /\ DOMAIN q = 1..Len(q) /\ q \in [1..Len(q) -> S]
  BY LenProperties DEF IsList
<1>2. q \in Injection(1..Len(q), S)
  BY <1>1 DEF IsList, Injection, IsInjective
<1>3. q \in Surjection(1..Len(q), S)
  BY <1>1 DEF IsList, Surjection
<1>4. ExistsBijection(1..Len(q), S)
  BY <1>2, <1>3 DEF Bijection, ExistsBijection
<1>5. IsFiniteSet(1..Len(q)) BY <1>1, FS_Interval
<1> QED BY <1>1, <1>4, <1>5, FS_CountingElements, FS_Bijection

-----------------------------------------------------------------------------
(* What one step of a thread does to the records and to the lists *)

\* A step of the thread that serves request r.
ThreadStep(r) ==
  (\E k \in Keys : Call(r, k)) \/ check_or_insert(r) \/ complete(r) \/ remove(r) \/ Abandon(r)

\* Nothing; a `get` or `put` of a key that is there; a pop; a put of a new key
\* into a shard with room, and into a full one.
Still == Present' = Present /\ lru' = lru
Touched(k) ==
  /\ k \in Present /\ Present' = Present
  /\ lru' = [lru EXCEPT ![ShardOf[k]] = Promote(@, k)]
Popped(k) ==
  /\ k \in Present /\ Present' = Present \ {k}
  /\ lru' = [lru EXCEPT ![ShardOf[k]] = Without(@, k)]
Pushed(k) ==
  /\ k \notin Present /\ Present' = Present \union {k}
  /\ Len(lru[ShardOf[k]]) < ShardCap
  /\ lru' = [lru EXCEPT ![ShardOf[k]] = Promote(@, k)]
Replaced(v, k) ==
  /\ k \notin Present /\ v \in Present /\ ShardOf[v] = ShardOf[k]
  /\ Len(lru[ShardOf[k]]) >= ShardCap
  /\ Present' = (Present \ {v}) \union {k}
  /\ lru' = [lru EXCEPT ![ShardOf[k]] = Promote(Without(@, v), k)]

Reshaped(k) == Touched(k) \/ Popped(k) \/ Pushed(k) \/ \E v \in Keys : Replaced(v, k)

\* put of a new key fills the shard's list or replaces its last entry.
LEMMA PutNewShape ==
  ASSUME TypeOK, NEW k \in Keys, NEW R, R # NoRecord, PutNew(k, R)
  PROVE  Reshaped(k)
<1> USE EngineAssumption DEF TypeOK, Present
<1>1. k \notin Present BY DEF PutNew
<1>2. CASE /\ Len(lru[ShardOf[k]]) < ShardCap
           /\ rec' = [rec EXCEPT ![k] = R]
           /\ lru' = [lru EXCEPT ![ShardOf[k]] = Promote(@, k)]
  <2>1. Present' = Present \union {k} BY <1>2
  <2> QED BY <1>1, <1>2, <2>1 DEF Reshaped, Pushed
<1>3. ASSUME NEW v \in Keys, IsLru(ShardOf[k], v), Len(lru[ShardOf[k]]) >= ShardCap,
             rec' = [rec EXCEPT ![v] = NoRecord, ![k] = R],
             lru' = [lru EXCEPT ![ShardOf[k]] = Promote(Without(@, v), k)]
      PROVE  Reshaped(k)
  <2>1. v \in Present /\ ShardOf[v] = ShardOf[k] BY <1>3 DEF IsLru, Resident
  <2>2. v # k BY <1>1, <2>1
  <2>3. Present' = (Present \ {v}) \union {k} BY <1>3, <2>2
  <2>4. Replaced(v, k) BY <1>1, <1>3, <2>1, <2>3 DEF Replaced
  <2> QED BY <2>4 DEF Reshaped
<1> QED BY <1>2, <1>3 DEF PutNew

\* A thread changes the list of one shard at a time, and of none that another
\* thread has locked.
LEMMA LruShape ==
  ASSUME TypeOK, LocksHeld, NEW r \in Requests, ThreadStep(r)
  PROVE  \/ Still
         \/ \E k \in Keys : lock[ShardOf[k]] \in {r, NoRequest} /\ Reshaped(k)
<1> DEFINE Goal == \/ Still
                   \/ \E k \in Keys : lock[ShardOf[k]] \in {r, NoRequest} /\ Reshaped(k)
<1> USE EngineAssumption DEF TypeOK
<1>a. Store!InProgress(r, called[r]) # NoRecord /\ Store!Completed(r, now) # NoRecord
  BY RecordType
<1>b. pc[r] # "idle" => key[r] \in Keys OBVIOUS
<1>c. pc[r] \in HoldsHome => lock[ShardOf[key[r]]] = r BY DEF LocksHeld, Home
<1>1. ASSUME NEW k \in Keys, Call(r, k) PROVE Goal
  BY <1>1 DEF Call, Still, Present
<1>2. ASSUME LookupLive(r) PROVE Goal
  <2>1. key[r] \in Present /\ key[r] \in Keys
    BY <1>2, <1>b DEF LookupLive, Store!Live, NoRecord, Present
  <2>2. Touched(key[r]) BY <1>2, <2>1 DEF LookupLive, Touched, Home, Present
  <2>3. lock[ShardOf[key[r]]] = NoRequest BY <1>2 DEF LookupLive, Pass, Home
  <2> QED BY <2>1, <2>2, <2>3 DEF Reshaped
<1>3. ASSUME LookupStale(r) PROVE Goal
  <2>1. key[r] \in Keys /\ Present' = Present BY <1>3, <1>b DEF LookupStale, Goto, Present
  <2>2. lock[ShardOf[key[r]]] = NoRequest BY <1>3 DEF LookupStale, Enter, Home
  <2>3. CASE rec[key[r]] = NoRecord BY <1>3, <2>1, <2>3 DEF LookupStale, Still
  <2>4. CASE rec[key[r]] # NoRecord
    <3>1. key[r] \in Present BY <2>1, <2>4 DEF Present
    <3>2. Touched(key[r]) BY <1>3, <2>1, <2>4, <3>1 DEF LookupStale, Touched, Home
    <3> QED BY <2>1, <2>2, <3>2 DEF Reshaped
  <2> QED BY <2>3, <2>4
<1>4. ASSUME HasRoom(r) PROVE Goal
  BY <1>4 DEF HasRoom, Goto, Still, Present
<1>5. ASSUME EvictHome(r) PROVE Goal
  <2>1. PICK v \in Keys : PopLru(Home(r), v) BY <1>5 DEF EvictHome
  <2>2. v \in Present /\ Present' = Present \ {v} /\ ShardOf[v] = Home(r)
    BY <2>1 DEF PopLru, IsLru, Resident, Present
  <2>3. Popped(v) BY <2>1, <2>2 DEF PopLru, Popped
  <2>4. lock[Home(r)] \in {r, NoRequest} BY <1>5, <1>c DEF EvictHome, Goto, HoldsHome, Home
  <2> QED BY <2>2, <2>3, <2>4 DEF Reshaped
<1>6. ASSUME EvictHomeSub(r) PROVE Goal
  BY <1>6 DEF EvictHomeSub, Goto, Still, Present
<1>7. ASSUME BeginScan(r) PROVE Goal
  BY <1>7 DEF BeginScan, Goto, Still, Present
<1>8. ASSUME ScanSkip(r) PROVE Goal
  BY <1>8 DEF ScanSkip, Goto, Still, Present
<1>9. ASSUME ScanEvict(r) PROVE Goal
  <2>1. PICK v \in Keys : PopLru(cursor[r], v) BY <1>9 DEF ScanEvict
  <2>2. v \in Present /\ Present' = Present \ {v} /\ ShardOf[v] = cursor[r]
    BY <2>1 DEF PopLru, IsLru, Resident, Present
  <2>3. Popped(v) BY <2>1, <2>2 DEF PopLru, Popped
  <2>4. lock[cursor[r]] \in {r, NoRequest} BY <1>9 DEF ScanEvict, Enter
  <2> QED BY <2>2, <2>3, <2>4 DEF Reshaped
<1>10. ASSUME ScanSub(r) PROVE Goal
  BY <1>10 DEF ScanSub, Goto, Still, Present
<1>11. ASSUME ScanEnd(r) PROVE Goal
  BY <1>11 DEF ScanEnd, Goto, Still, Present
<1>12. ASSUME InsertOver(r) PROVE Goal
  <2> DEFINE R == Store!InProgress(r, called[r])
  <2>1. PutOver(key[r], R) /\ R # NoRecord /\ key[r] \in Keys
    BY <1>12, <1>a, <1>b DEF InsertOver, Goto
  <2> HIDE DEF R
  <2>2. key[r] \in Present /\ Present' = Present BY <2>1 DEF PutOver, Present
  <2>3. Touched(key[r]) BY <2>1, <2>2 DEF PutOver, Touched
  <2>4. lock[ShardOf[key[r]]] \in {r, NoRequest} BY <1>12, <1>c DEF InsertOver, Goto, HoldsHome
  <2> QED BY <2>1, <2>3, <2>4 DEF Reshaped
<1>13. ASSUME InsertNew(r) PROVE Goal
  <2> DEFINE R == Store!InProgress(r, called[r])
  <2>1. PutNew(key[r], R) /\ R # NoRecord /\ key[r] \in Keys
    BY <1>13, <1>a, <1>b DEF InsertNew, Goto
  <2> HIDE DEF R
  <2>2. Reshaped(key[r]) BY <2>1, PutNewShape
  <2>3. lock[ShardOf[key[r]]] \in {r, NoRequest} BY <1>13, <1>c DEF InsertNew, Goto, HoldsHome
  <2> QED BY <2>1, <2>2, <2>3
<1>14. ASSUME InsertAdd(r) PROVE Goal
  BY <1>14 DEF InsertAdd, Goto, Still, Present
<1>15. ASSUME CompleteOver(r) PROVE Goal
  <2> DEFINE R == Store!Completed(r, now)
  <2>1. PutOver(key[r], R) /\ R # NoRecord /\ key[r] \in Keys
    BY <1>15, <1>a, <1>b DEF CompleteOver, Goto
  <2> HIDE DEF R
  <2>2. key[r] \in Present /\ Present' = Present BY <2>1 DEF PutOver, Present
  <2>3. Touched(key[r]) BY <2>1, <2>2 DEF PutOver, Touched
  <2>4. lock[ShardOf[key[r]]] \in {r, NoRequest} BY <1>15 DEF CompleteOver, Pass, Home
  <2> QED BY <2>1, <2>3, <2>4 DEF Reshaped
<1>16. ASSUME CompleteNew(r) PROVE Goal
  <2> DEFINE R == Store!Completed(r, now)
  <2>1. PutNew(key[r], R) /\ R # NoRecord /\ key[r] \in Keys
    BY <1>16, <1>a, <1>b DEF CompleteNew, Goto
  <2> HIDE DEF R
  <2>2. Reshaped(key[r]) BY <2>1, PutNewShape
  <2>3. lock[ShardOf[key[r]]] \in {r, NoRequest} BY <1>16 DEF CompleteNew, Enter, Home
  <2> QED BY <2>1, <2>2, <2>3
<1>17. ASSUME CompleteAdd(r) PROVE Goal
  BY <1>17 DEF CompleteAdd, Goto, Still, Present
<1>18. ASSUME RemoveFound(r) PROVE Goal
  <2>1. key[r] \in Present /\ key[r] \in Keys /\ Present' = Present \ {key[r]}
    BY <1>18, <1>b DEF RemoveFound, Goto, Present
  <2>2. Popped(key[r]) BY <1>18, <2>1 DEF RemoveFound, Popped, Home
  <2>3. lock[ShardOf[key[r]]] = NoRequest BY <1>18 DEF RemoveFound, Enter, Home
  <2> QED BY <2>1, <2>2, <2>3 DEF Reshaped
<1>19. ASSUME RemoveSub(r) PROVE Goal
  BY <1>19 DEF RemoveSub, Goto, Still, Present
<1>20. ASSUME RemoveAbsent(r) PROVE Goal
  BY <1>20 DEF RemoveAbsent, Goto, Still, Present
<1>21. ASSUME Abandon(r) PROVE Goal
  BY <1>21 DEF Abandon, Goto, Still, Present
<1> QED
  BY <1>1, <1>2, <1>3, <1>4, <1>5, <1>6, <1>7, <1>8, <1>9, <1>10, <1>11, <1>12, <1>13,
     <1>14, <1>15, <1>16, <1>17, <1>18, <1>19, <1>20, <1>21
  DEF ThreadStep, check_or_insert, complete, remove

\* A thread leaves the program counters and local values of the others alone,
\* and its own key and clock reading once it has called.
LEMMA ThreadFrame ==
  ASSUME TypeOK, NEW r \in Requests, ThreadStep(r)
  PROVE  /\ now' = now
         /\ \A q \in Requests : q # r =>
              /\ pc'[q] = pc[q] /\ key'[q] = key[q] /\ called'[q] = called[q]
              /\ source'[q] = source[q] /\ cursor'[q] = cursor[q]
         /\ pc[r] # "idle" => key'[r] = key[r] /\ called'[r] = called[r] /\ key[r] \in Keys
<1> DEFINE Goal == /\ now' = now
                   /\ \A q \in Requests : q # r =>
                        /\ pc'[q] = pc[q] /\ key'[q] = key[q] /\ called'[q] = called[q]
                        /\ source'[q] = source[q] /\ cursor'[q] = cursor[q]
                   /\ pc[r] # "idle" => key'[r] = key[r] /\ called'[r] = called[r] /\ key[r] \in Keys
<1> USE DEF TypeOK, Goto
<1>1. ASSUME NEW k \in Keys, Call(r, k) PROVE Goal
  BY <1>1 DEF Call
<1>2. ASSUME LookupLive(r) PROVE Goal
  BY <1>2 DEF LookupLive
<1>3. ASSUME LookupStale(r) PROVE Goal
  BY <1>3 DEF LookupStale
<1>4. ASSUME HasRoom(r) PROVE Goal
  BY <1>4 DEF HasRoom
<1>5. ASSUME EvictHome(r) PROVE Goal
  BY <1>5 DEF EvictHome
<1>6. ASSUME EvictHomeSub(r) PROVE Goal
  BY <1>6 DEF EvictHomeSub
<1>7. ASSUME BeginScan(r) PROVE Goal
  BY <1>7 DEF BeginScan
<1>8. ASSUME ScanSkip(r) PROVE Goal
  BY <1>8 DEF ScanSkip
<1>9. ASSUME ScanEvict(r) PROVE Goal
  BY <1>9 DEF ScanEvict
<1>10. ASSUME ScanSub(r) PROVE Goal
  BY <1>10 DEF ScanSub
<1>11. ASSUME ScanEnd(r) PROVE Goal
  BY <1>11 DEF ScanEnd
<1>12. ASSUME InsertOver(r) PROVE Goal
  BY <1>12 DEF InsertOver
<1>13. ASSUME InsertNew(r) PROVE Goal
  BY <1>13 DEF InsertNew
<1>14. ASSUME InsertAdd(r) PROVE Goal
  BY <1>14 DEF InsertAdd
<1>15. ASSUME CompleteOver(r) PROVE Goal
  BY <1>15 DEF CompleteOver
<1>16. ASSUME CompleteNew(r) PROVE Goal
  BY <1>16 DEF CompleteNew
<1>17. ASSUME CompleteAdd(r) PROVE Goal
  BY <1>17 DEF CompleteAdd
<1>18. ASSUME RemoveFound(r) PROVE Goal
  BY <1>18 DEF RemoveFound
<1>19. ASSUME RemoveSub(r) PROVE Goal
  BY <1>19 DEF RemoveSub
<1>20. ASSUME RemoveAbsent(r) PROVE Goal
  BY <1>20 DEF RemoveAbsent
<1>21. ASSUME Abandon(r) PROVE Goal
  BY <1>21 DEF Abandon
<1> QED
  BY <1>1, <1>2, <1>3, <1>4, <1>5, <1>6, <1>7, <1>8, <1>9, <1>10, <1>11, <1>12, <1>13,
     <1>14, <1>15, <1>16, <1>17, <1>18, <1>19, <1>20, <1>21
  DEF ThreadStep, check_or_insert, complete, remove

\* Every step is a tick, a step of a thread, or nothing.
LEMMA StepKinds ==
  ASSUME [Next]_vars
  PROVE  \/ \E r \in Requests : ThreadStep(r)
         \/ /\ UNCHANGED <<rec, lru, lock, len, pc, key, called, source, cursor>>
            /\ now' = now \/ (Tick /\ now' = now + 1)
BY DEF Next, Tick, vars, ThreadStep

-----------------------------------------------------------------------------
(* The order and the size of the shards *)

\* Each list is a list of its shard's keys, and no longer than the shard may be.
ListInv == \A s \in Shards : IsList(lru[s], Resident(s))
CapInv  == \A s \in Shards : Len(lru[s]) <= ShardCap

\* Once the capacity check of check_or_insert is past, its shard has room.
RoomPcs == {"evictSub", "scan", "scanSub", "put"}
RoomInv == \A r \in Requests : pc[r] \in RoomPcs => Len(lru[Home(r)]) < ShardCap

OrderInv == ListInv /\ CapInv /\ RoomInv

\* get, put and pop keep the lists in step with the records.
LEMMA StepListInv ==
  ASSUME TypeOK, ListInv, NEW k \in Keys, Reshaped(k)
  PROVE  /\ ListInv'
         /\ \A s \in Shards : s # ShardOf[k] => lru'[s] = lru[s]
<1> USE EngineAssumption DEF TypeOK
<1> DEFINE s == ShardOf[k]
<1>1. s \in Shards /\ lru[s] \in Seq(Keys) /\ IsList(lru[s], Resident(s)) BY DEF ListInv
<1>2. \A t \in Shards : t # s => lru'[t] = lru[t]
  BY DEF Reshaped, Touched, Popped, Pushed, Replaced
<1>3. ASSUME NEW t \in Shards, t # s PROVE Resident(t)' = Resident(t)
  BY <1>3 DEF Resident, Reshaped, Touched, Popped, Pushed, Replaced
<1>4. IsList(lru[s], Resident(s))'
  <2>1. CASE Touched(k)
    <3>1. Resident(s)' = Resident(s) \union {k} BY <2>1 DEF Touched, Resident
    <3>2. lru'[s] = Promote(lru[s], k) BY <1>1, <2>1 DEF Touched
    <3>3. IsList(Promote(lru[s], k), Resident(s) \union {k}) BY <1>1, ListPromote
    <3> QED BY <3>1, <3>2, <3>3
  <2>2. CASE Popped(k)
    <3>1. Resident(s)' = Resident(s) \ {k} BY <2>2 DEF Popped, Resident
    <3>2. lru'[s] = Without(lru[s], k) BY <1>1, <2>2 DEF Popped
    <3>3. IsList(Without(lru[s], k), Resident(s) \ {k}) BY <1>1, ListWithout
    <3> QED BY <3>1, <3>2, <3>3
  <2>3. CASE Pushed(k)
    <3>1. Resident(s)' = Resident(s) \union {k} BY <2>3 DEF Pushed, Resident
    <3>2. lru'[s] = Promote(lru[s], k) BY <1>1, <2>3 DEF Pushed
    <3>3. IsList(Promote(lru[s], k), Resident(s) \union {k}) BY <1>1, ListPromote
    <3> QED BY <3>1, <3>2, <3>3
  <2>4. ASSUME NEW v \in Keys, Replaced(v, k) PROVE IsList(lru[s], Resident(s))'
    <3>1. Resident(s)' = (Resident(s) \ {v}) \union {k} BY <2>4 DEF Replaced, Resident
    <3>2. lru'[s] = Promote(Without(lru[s], v), k) BY <1>1, <2>4 DEF Replaced
    <3>3. IsList(Without(lru[s], v), Resident(s) \ {v}) BY <1>1, ListWithout
    <3>4. IsList(Promote(Without(lru[s], v), k), (Resident(s) \ {v}) \union {k})
      BY <3>3, ListPromote
    <3> QED BY <3>1, <3>2, <3>4
  <2> QED BY <2>1, <2>2, <2>3, <2>4 DEF Reshaped
<1>5. ListInv'
  <2> SUFFICES ASSUME NEW t \in Shards PROVE IsList(lru[t], Resident(t))' BY DEF ListInv
  <2>1. CASE t = s BY <1>4, <2>1
  <2>2. CASE t # s BY <1>2, <1>3, <2>2 DEF ListInv
  <2> QED BY <2>1, <2>2
<1> QED BY <1>2, <1>5

\* The lengths: only a put of a new key makes a list longer, and only one that
\* has room; a pop makes it shorter.
LEMMA StepLength ==
  ASSUME TypeOK, ListInv, CapInv, NEW k \in Keys, Reshaped(k)
  PROVE  /\ Len(lru'[ShardOf[k]]) <= ShardCap
         /\ Popped(k) => Len(lru'[ShardOf[k]]) < ShardCap
<1> DEFINE s == ShardOf[k]
           n == Len(lru[s])
           m == Len(lru'[s])
<1>1. s \in Shards /\ IsList(lru[s], Resident(s)) /\ n <= ShardCap /\ ShardCap \in Nat \ {0}
  BY EngineAssumption DEF ListInv, CapInv, ShardCap, TypeOK
<1>2. (IsList(lru[s], Resident(s)))' BY <1>1, StepListInv DEF ListInv
<1>3. n \in Nat /\ Cardinality(Resident(s)) = n /\ IsFiniteSet(Resident(s)) BY <1>1, ListLen
<1>4. m \in Nat /\ Cardinality(Resident(s)') = m BY <1>2, ListLen
<1>5. CASE Touched(k)
  <2>1. Resident(s)' = Resident(s) BY <1>5 DEF Touched, Resident
  <2>2. ~Popped(k) BY <1>5 DEF Touched, Popped
  <2> QED BY <1>1, <1>3, <1>4, <2>1, <2>2
<1>6. CASE Popped(k)
  <2>1. Resident(s)' = Resident(s) \ {k} /\ k \in Resident(s) BY <1>6 DEF Popped, Resident
  <2>2. Cardinality(Resident(s) \ {k}) = n - 1 BY <1>3, <2>1, FS_RemoveElement
  <2> QED BY <1>1, <1>3, <1>4, <2>1, <2>2
<1>7. CASE Pushed(k)
  <2>1. Resident(s)' = Resident(s) \union {k} /\ k \notin Resident(s)
    BY <1>7 DEF Pushed, Resident
  <2>2. Cardinality(Resident(s) \union {k}) = n + 1 BY <1>3, <2>1, FS_AddElement
  <2>3. n < ShardCap /\ ~Popped(k) BY <1>7 DEF Pushed, Popped
  <2> QED BY <1>1, <1>3, <1>4, <2>1, <2>2, <2>3
<1>8. ASSUME NEW v \in Keys, Replaced(v, k) PROVE m <= ShardCap /\ ~Popped(k)
  <2>1. /\ Resident(s)' = (Resident(s) \ {v}) \union {k}
        /\ v \in Resident(s) /\ k \notin Resident(s) \ {v}
    BY <1>8 DEF Replaced, Resident
  <2>2. IsFiniteSet(Resident(s) \ {v}) /\ Cardinality(Resident(s) \ {v}) = n - 1
    BY <1>3, <2>1, FS_RemoveElement
  <2>3. Cardinality((Resident(s) \ {v}) \union {k}) = (n - 1) + 1
    BY <2>1, <2>2, FS_AddElement
  <2>4. ~Popped(k) BY <1>8 DEF Replaced, Popped
  <2> QED BY <1>1, <1>3, <1>4, <2>1, <2>3, <2>4
<1> QED BY <1>5, <1>6, <1>7, <1>8 DEF Reshaped

\* A finite set is as large as a part of it and the rest of it together.
LEMMA CardSplit ==
  ASSUME NEW S, NEW T, IsFiniteSet(S), T \subseteq S
  PROVE  Cardinality(S) = Cardinality(S \ T) + Cardinality(T)
<1> DEFINE U == S \ T
<1>1. IsFiniteSet(T) /\ IsFiniteSet(U) BY FS_Subset
<1>2. U \cap T = {} /\ U \union T = S OBVIOUS
<1> HIDE DEF U
<1>3. Cardinality(U \union T) = Cardinality(U) + Cardinality(T) - Cardinality(U \cap T)
  BY <1>1, FS_Union
<1>4. Cardinality(U) \in Nat /\ Cardinality(T) \in Nat BY <1>1, FS_CardinalityType
<1>5. Cardinality(S) = Cardinality(U) + Cardinality(T) - 0 BY <1>2, <1>3, FS_EmptySet
<1>6. Cardinality(S) = Cardinality(U) + Cardinality(T) BY <1>4, <1>5
<1> QED BY <1>6 DEF U

\* Below max_capacity, a thread that holds its shard's mutex finds room in it:
\* the records being added by others are in other shards and are present, so
\* `len` is at least the number of records in this one.
LEMMA RoomBelowCapacity ==
  ASSUME IndInv, ListInv, NEW r \in Requests, pc[r] = "capacity", len < MaxCapacity
  PROVE  Len(lru[Home(r)]) < ShardCap
<1> USE EngineAssumption DEF IndInv, TypeOK
<1> DEFINE s == Home(r)
           Rest == Present \ Resident(s)
           f == [q \in Adders |-> key[q]]
<1>1. s \in Shards /\ key[r] \in Keys BY DEF Home
<1>2. lock[s] = r BY DEF LocksHeld, HoldsHome
<1>3. ASSUME NEW q \in Adders
      PROVE  key[q] \in Rest /\ lock[ShardOf[key[q]]] = q
  <2>1. q \in Requests /\ pc[q] \in Adding /\ q # r BY DEF Adders, Adding
  <2>2. lock[Home(q)] = q /\ key[q] \in Present
    BY <2>1 DEF LocksHeld, HoldsHome, UncountedIsPresent
  <2>3. Home(q) # s BY <1>2, <2>1, <2>2
  <2> QED BY <2>2, <2>3 DEF Resident, Home
<1>4. IsFiniteSet(Present) /\ IsFiniteSet(Adders) /\ IsFiniteSet(Subtractors)
  BY Finiteness
<1>5. IsFiniteSet(Rest) /\ IsFiniteSet(Resident(s))
  BY <1>4, FS_Subset DEF Resident
<1>6. f \in Injection(Adders, Rest)
  <2>1. f \in [Adders -> Rest] BY <1>3
  <2>2. \A p, q \in Adders : f[p] = f[q] => p = q
    BY <1>3
  <2> QED BY <2>1, <2>2 DEF Injection, IsInjective
<1>7. Cardinality(Adders) <= Cardinality(Rest)
  BY <1>5, <1>6, FS_Injection DEF ExistsInjection
<1>8. Cardinality(Present) = Cardinality(Rest) + Cardinality(Resident(s))
  <2>1. Resident(s) \subseteq Present BY DEF Resident
  <2> QED BY <1>4, <2>1, CardSplit
<1>9. Cardinality(Resident(s)) = Len(lru[s]) /\ Len(lru[s]) \in Nat
  BY <1>1, ListLen DEF ListInv
<1>10. /\ Cardinality(Adders) \in Nat /\ Cardinality(Rest) \in Nat
       /\ Cardinality(Subtractors) \in Nat /\ Cardinality(Present) \in Nat
  BY <1>4, <1>5, FS_CardinalityType
<1>11. len + Cardinality(Adders) >= Cardinality(Present) + Cardinality(Subtractors)
  BY DEF LenCoversRecords
<1>12. len \in Nat OBVIOUS
<1> HIDE DEF s, Rest, f, IndInv, TypeOK
<1>13. Len(lru[s]) <= len BY <1>7, <1>8, <1>9, <1>10, <1>11, <1>12
<1>14. MaxCapacity \in Nat /\ Len(lru[s]) < MaxCapacity BY <1>9, <1>12, <1>13
<1> QED BY <1>9, <1>14 DEF ShardCap, s

\* The empty engine has empty lists.
LEMMA InitOrderInv == Init => OrderInv
<1> SUFFICES ASSUME Init PROVE OrderInv OBVIOUS
<1> USE EngineAssumption
<1>1. ASSUME NEW s \in Shards PROVE lru[s] = <<>> /\ Resident(s) = {}
  BY DEF Init, Resident, Present
<1>2. <<>> \in Seq(Keys) /\ DOMAIN <<>> = {} /\ Len(<<>>) = 0 BY EmptySeq
<1>3. IsList(<<>>, {}) BY <1>2 DEF IsList
<1>4. ListInv BY <1>1, <1>3 DEF ListInv
<1>5. CapInv BY <1>1, <1>2 DEF CapInv, ShardCap
<1>6. RoomInv BY DEF Init, RoomInv, RoomPcs
<1> QED BY <1>4, <1>5, <1>6 DEF OrderInv

\* Steps of a thread keep the lists, their bound, and the room that the
\* capacity check of each check_or_insert has made.
LEMMA ThreadOrderInv ==
  ASSUME IndInv, OrderInv, NEW r \in Requests, ThreadStep(r)
  PROVE  OrderInv'
<1>1. TypeOK /\ LocksHeld /\ ListInv /\ CapInv /\ RoomInv BY DEF IndInv, OrderInv
<1>2. ListInv' /\ CapInv'
  <2>1. CASE Still
    BY <1>1, <2>1 DEF Still, ListInv, CapInv, Resident
  <2>2. ASSUME NEW k \in Keys, Reshaped(k) PROVE ListInv' /\ CapInv'
    BY <1>1, <2>2, StepListInv, StepLength DEF CapInv
  <2> QED BY <1>1, <2>1, <2>2, LruShape
<1>3. RoomInv'
  <2> SUFFICES ASSUME NEW q \in Requests, pc'[q] \in RoomPcs
               PROVE  Len(lru'[Home(q)']) < ShardCap
    BY DEF RoomInv
  <2>a. q # r => pc'[q] = pc[q] /\ key'[q] = key[q] BY <1>1, ThreadFrame
  <2>1. CASE q # r
    <3>1. /\ pc[q] \in RoomPcs /\ Home(q)' = Home(q) /\ key[q] \in Keys
          /\ Len(lru[Home(q)]) < ShardCap /\ lock[Home(q)] = q
      BY <1>1, <2>1, <2>a DEF RoomInv, RoomPcs, Home, LocksHeld, HoldsHome, TypeOK
    <3>2. Home(q) \in Shards BY <3>1, EngineAssumption DEF Home
    <3>3. lru'[Home(q)] = lru[Home(q)]
      <4>1. ASSUME NEW k \in Keys, lock[ShardOf[k]] \in {r, NoRequest}, Reshaped(k)
            PROVE  lru'[Home(q)] = lru[Home(q)]
        <5>1. ShardOf[k] # Home(q) BY <2>1, <3>1, <4>1, EngineAssumption
        <5> QED BY <1>1, <3>2, <4>1, <5>1, StepListInv
      <4> QED BY <1>1, <4>1, LruShape DEF Still
    <3> QED BY <3>1, <3>3
  <2>2. CASE q = r
    <3>a. pc[r] # "idle" => key[r] \in Keys /\ Home(r) \in Shards
      BY <1>1, EngineAssumption DEF TypeOK, Home
    <3>b. pc[r] \in RoomPcs => Len(lru[Home(r)]) < ShardCap BY <1>1 DEF RoomInv
    <3>1. CASE HasRoom(r)
      <4>1. /\ pc[r] = "capacity" /\ len < MaxCapacity
            /\ lru' = lru /\ Home(r)' = Home(r)
        BY <3>1 DEF HasRoom, Goto, Home
      <4> QED BY <1>1, <2>2, <4>1, RoomBelowCapacity
    <3>2. CASE EvictHome(r)
      <4>1. PICK v \in Keys : PopLru(Home(r), v) BY <3>2 DEF EvictHome
      <4>2. v \in Present /\ Present' = Present \ {v} /\ ShardOf[v] = Home(r)
        BY <1>1, <4>1 DEF PopLru, IsLru, Resident, Present, TypeOK
      <4>3. Popped(v) BY <4>1, <4>2 DEF PopLru, Popped
      <4>4. Len(lru'[Home(r)]) < ShardCap BY <1>1, <4>2, <4>3, StepLength DEF Reshaped
      <4>5. Home(r)' = Home(r) BY <3>2 DEF EvictHome, Home
      <4> QED BY <2>2, <4>4, <4>5
    <3>3. CASE BeginScan(r)
      <4>1. Resident(Home(r)) = {} /\ Home(r) \in Shards /\ lru' = lru /\ Home(r)' = Home(r)
        BY <3>3, <3>a DEF BeginScan, Goto, Home
      <4>2. Len(lru[Home(r)]) = 0 BY <1>1, <4>1, ListLen, FS_EmptySet DEF ListInv
      <4> QED BY <2>2, <4>1, <4>2, EngineAssumption DEF ShardCap
    <3>4. CASE EvictHomeSub(r) \/ ScanSkip(r) \/ ScanSub(r) \/ ScanEnd(r)
      BY <2>2, <3>4, <3>b
      DEF EvictHomeSub, ScanSkip, ScanSub, ScanEnd, Goto, RoomPcs, Home
    <3>5. CASE ScanEvict(r)
      <4>1. PICK v \in Keys : PopLru(cursor[r], v) BY <3>5 DEF ScanEvict
      <4>2. lru'[Home(r)] = lru[Home(r)] /\ Home(r)' = Home(r) /\ pc[r] = "scan"
        BY <1>1, <3>5, <3>a, <4>1 DEF ScanEvict, PopLru, Goto, Home, TypeOK
      <4> QED BY <2>2, <3>b, <4>2 DEF RoomPcs
    <3>6. CASE ~ \/ HasRoom(r) \/ EvictHome(r) \/ BeginScan(r) \/ EvictHomeSub(r)
                 \/ ScanSkip(r) \/ ScanSub(r) \/ ScanEnd(r) \/ ScanEvict(r)
      <4>1. pc'[r] \notin RoomPcs
        BY <1>1, <3>6 DEF ThreadStep, check_or_insert, complete, remove, RoomPcs, TypeOK, Goto,
           Call, LookupLive, LookupStale, InsertOver, InsertNew, InsertAdd, CompleteOver,
           CompleteNew, CompleteAdd, RemoveFound, RemoveSub, RemoveAbsent, Abandon
      <4> QED BY <2>2, <4>1
    <3> QED BY <3>1, <3>2, <3>3, <3>4, <3>5, <3>6
  <2> QED BY <2>1, <2>2
<1> QED BY <1>2, <1>3 DEF OrderInv

\* OrderInv holds of every reachable state.
LEMMA OrderInvHolds == Spec => []OrderInv
<1>1. IndInv /\ OrderInv /\ [Next]_vars => OrderInv'
  <2> SUFFICES ASSUME IndInv, OrderInv, [Next]_vars PROVE OrderInv' OBVIOUS
  <2>1. CASE UNCHANGED <<rec, lru, lock, len, pc, key, called, source, cursor>>
    BY <2>1 DEF OrderInv, ListInv, CapInv, RoomInv, Resident, Present, Home
  <2> QED BY <2>1, ThreadOrderInv, StepKinds
<1> QED BY InitOrderInv, <1>1, IndInvHolds, PTL DEF Spec

\* Each shard's list orders exactly the keys it holds a record for and stays
\* within the shard's capacity, and the put of check_or_insert never drops a
\* record unaccounted, for any number of threads, keys and shards and any
\* capacity.
THEOREM ShardsOrdered == Spec => []ShardOrder
<1>1. TypeOK /\ OrderInv => ShardOrder
  <2> SUFFICES ASSUME TypeOK, OrderInv PROVE ShardOrder OBVIOUS
  <2>1. ASSUME NEW s \in Shards
        PROVE  /\ {lru[s][i] : i \in DOMAIN lru[s]} = Resident(s)
               /\ Len(lru[s]) = Cardinality(Resident(s))
               /\ Len(lru[s]) <= ShardCap
    BY ListLen DEF OrderInv, ListInv, CapInv, IsList
  <2> QED BY <2>1 DEF OrderInv, RoomInv, RoomPcs, ShardOrder
<1> QED BY <1>1, OrderInvHolds, IndInvHolds, PTL DEF IndInv

-----------------------------------------------------------------------------
(* Fewer keys than max_capacity: nothing is evicted, nothing is dropped *)

Roomy == Cardinality(Keys) < MaxCapacity

\* `len` counts exactly, nobody is evicting, and what remove has popped is gone
\* until it has been subtracted.
ExactLen  == len + Cardinality(Adders) = Cardinality(Present) + Cardinality(Subtractors)
NoEvict   == \A r \in Requests : pc[r] \notin {"evictSub", "scan", "scanSub"}
RemovedGone == \A r \in Requests : pc[r] = "removeSub" => key[r] \notin Present

RoomyInv == Roomy => ExactLen /\ NoEvict /\ RemovedGone

\* The counter stays below max_capacity: the keys whose removal is not yet
\* subtracted are absent and locked, each by one request.
LEMMA RoomyBelowCapacity ==
  ASSUME IndInv, RoomyInv, Roomy
  PROVE  len < MaxCapacity
<1> USE EngineAssumption DEF IndInv, TypeOK
<1> DEFINE Rest == Keys \ Present
           f == [q \in Subtractors |-> key[q]]
<1>1. ASSUME NEW q \in Subtractors
      PROVE  key[q] \in Rest /\ lock[ShardOf[key[q]]] = q
  <2>1. q \in Requests /\ pc[q] = "removeSub"
    BY DEF Subtractors, Subtracting, RoomyInv, NoEvict
  <2> QED BY <2>1 DEF RoomyInv, RemovedGone, LocksHeld, HoldsHome, Home
<1>2. IsFiniteSet(Keys) /\ IsFiniteSet(Present) /\ IsFiniteSet(Adders) /\ IsFiniteSet(Subtractors)
  BY Finiteness
<1>3. IsFiniteSet(Rest) BY <1>2, FS_Subset
<1>4. f \in Injection(Subtractors, Rest)
  <2>1. f \in [Subtractors -> Rest] BY <1>1
  <2>2. \A p, q \in Subtractors : f[p] = f[q] => p = q BY <1>1
  <2> QED BY <2>1, <2>2 DEF Injection, IsInjective
<1>5. Cardinality(Subtractors) <= Cardinality(Rest)
  BY <1>3, <1>4, FS_Injection
<1>6. Cardinality(Keys) = Cardinality(Rest) + Cardinality(Present)
  <2>1. Present \subseteq Keys BY DEF Present
  <2> QED BY <1>2, <2>1, CardSplit
<1>7. /\ Cardinality(Adders) \in Nat /\ Cardinality(Rest) \in Nat
      /\ Cardinality(Subtractors) \in Nat /\ Cardinality(Present) \in Nat
  BY <1>2, <1>3, FS_CardinalityType
<1>8. len + Cardinality(Adders) = Cardinality(Present) + Cardinality(Subtractors)
  BY DEF RoomyInv, ExactLen
<1>9. len \in Nat /\ MaxCapacity \in Nat OBVIOUS
<1> HIDE DEF Rest, f, IndInv, TypeOK
<1> QED BY <1>5, <1>6, <1>7, <1>8, <1>9 DEF Roomy

\* No shard is full.
LEMMA RoomyShards ==
  ASSUME OrderInv, Roomy, NEW s \in Shards
  PROVE  Len(lru[s]) < ShardCap
<1>1. IsList(lru[s], Resident(s)) BY DEF OrderInv, ListInv
<1>2. Len(lru[s]) \in Nat /\ Cardinality(Resident(s)) = Len(lru[s]) BY <1>1, ListLen
<1>3. Resident(s) \subseteq Keys BY DEF Resident, Present
<1>4. Cardinality(Resident(s)) <= Cardinality(Keys) /\ Cardinality(Keys) \in Nat
  BY <1>3, EngineAssumption, FS_Subset, FS_CardinalityType
<1> QED BY <1>2, <1>4, EngineAssumption DEF Roomy, ShardCap

\* No put replaces another key's record.
LEMMA RoomyNoReplace ==
  ASSUME OrderInv, Roomy, NEW v \in Keys, NEW k \in Keys
  PROVE  ~Replaced(v, k)
<1>1. ShardOf[k] \in Shards BY EngineAssumption
<1>2. Len(lru[ShardOf[k]]) < ShardCap BY <1>1, RoomyShards
<1>3. Len(lru[ShardOf[k]]) \in Nat /\ ShardCap \in Nat
  BY <1>1, ListLen, EngineAssumption DEF OrderInv, ListInv, ShardCap
<1> QED BY <1>2, <1>3 DEF Replaced

\* Steps of a thread keep the count exact and evict nothing.
LEMMA ThreadRoomyInv ==
  ASSUME IndInv, OrderInv, RoomyInv, Roomy, NEW r \in Requests, ThreadStep(r), [Next]_vars
  PROVE  ExactLen' /\ NoEvict' /\ RemovedGone'
<1>1. TypeOK /\ LocksHeld /\ ExactLen /\ NoEvict /\ RemovedGone BY DEF IndInv, RoomyInv
<1>2. len < MaxCapacity /\ len \in Nat /\ MaxCapacity \in Nat
  BY RoomyBelowCapacity, EngineAssumption DEF IndInv, TypeOK
<1>3. NoEvict'
  <2> SUFFICES ASSUME NEW q \in Requests PROVE pc'[q] \notin {"evictSub", "scan", "scanSub"}
    BY DEF NoEvict
  <2>1. CASE q # r BY <1>1, <2>1, ThreadFrame DEF NoEvict
  <2>2. CASE q = r
    <3>1. ~EvictHome(r) /\ ~BeginScan(r) BY <1>2 DEF EvictHome, BeginScan
    <3>2. pc[r] \notin {"evictSub", "scan", "scanSub"} BY <1>1 DEF NoEvict
    <3> QED
      BY <1>1, <2>2, <3>1, <3>2
      DEF ThreadStep, check_or_insert, complete, remove, TypeOK, Goto,
          Call, LookupLive, LookupStale, HasRoom, EvictHomeSub, ScanSkip, ScanEvict, ScanSub,
          ScanEnd, InsertOver, InsertNew, InsertAdd, CompleteOver, CompleteNew, CompleteAdd,
          RemoveFound, RemoveSub, RemoveAbsent, Abandon
  <2> QED BY <2>1, <2>2
<1>4. RemovedGone'
  <2> SUFFICES ASSUME NEW q \in Requests, pc'[q] = "removeSub" PROVE key'[q] \notin Present'
    BY DEF RemovedGone
  <2>1. CASE q # r
    <3>1. /\ pc[q] = "removeSub" /\ key'[q] = key[q] /\ key[q] \in Keys
          /\ key[q] \notin Present /\ lock[ShardOf[key[q]]] = q
      BY <1>1, <2>1, ThreadFrame DEF RemovedGone, LocksHeld, HoldsHome, Home, TypeOK
    <3>2. ASSUME NEW k \in Keys, lock[ShardOf[k]] \in {r, NoRequest}, Reshaped(k)
          PROVE  key[q] \notin Present'
      <4>1. k # key[q] BY <2>1, <3>1, <3>2, EngineAssumption
      <4> QED BY <3>1, <3>2, <4>1 DEF Reshaped, Touched, Popped, Pushed, Replaced
    <3> QED BY <1>1, <3>1, <3>2, LruShape DEF Still
  <2>2. CASE q = r
    <3>1. RemoveFound(r)
      BY <1>1, <2>2
      DEF ThreadStep, check_or_insert, complete, remove, TypeOK, Goto,
          Call, LookupLive, LookupStale, HasRoom, EvictHome, EvictHomeSub, BeginScan, ScanSkip,
          ScanEvict, ScanSub, ScanEnd, InsertOver, InsertNew, InsertAdd, CompleteOver,
          CompleteNew, CompleteAdd, RemoveFound, RemoveSub, RemoveAbsent, Abandon
    <3> QED BY <1>1, <2>2, <3>1 DEF RemoveFound, Present, Goto, TypeOK
  <2> QED BY <2>1, <2>2
<1>5. ExactLen'
  <2> DEFINE P == Cardinality(Present)
             A == Cardinality(Adders)
             S == Cardinality(Subtractors)
  <2>1. len \in Nat /\ len + A = P + S /\ P \in Nat /\ A \in Nat /\ S \in Nat
    BY <1>1, <1>2, Finiteness DEF ExactLen
  <2>2. (ExactLen <=> len + A = P + S)' BY DEF ExactLen
  <2>3. CASE Quiet BY <2>1, <2>2, <2>3 DEF Quiet
  <2>4. ASSUME NEW q \in Requests, Subtracted(q) PROVE ExactLen'
    <3>1. len > 0 BY <2>4, NeverWraps DEF Subtracted, CounterNeverWraps, Subtractors, IndInv
    <3>2. S' = S - 1 BY <2>4, Finiteness, <1>1, FS_RemoveElement DEF Subtracted
    <3>3. len' = len - 1 /\ P' = P /\ A' = A BY <1>2, <2>4, <3>1 DEF Subtracted, FetchSub
    <3> QED BY <2>1, <2>2, <3>1, <3>2, <3>3
  <2>5. ASSUME NEW q \in Requests, Added(q) PROVE ExactLen'
    <3>1. A' = A - 1 BY <2>5, Finiteness, <1>1, FS_RemoveElement DEF Added
    <3>2. len' = len + 1 /\ P' = P /\ S' = S BY <2>5 DEF Added, FetchAdd
    <3> QED BY <2>1, <2>2, <3>1, <3>2
  <2>6. ASSUME NEW q \in Requests, NEW k \in Keys, Dropped(q, k) PROVE ExactLen'
    <3>1. P' = P - 1 BY <2>6, Finiteness, <1>1, FS_RemoveElement DEF Dropped
    <3>2. S' = S + 1 BY <2>6, Finiteness, <1>1, FS_AddElement DEF Dropped
    <3>3. len' = len /\ A' = A BY <2>6 DEF Dropped
    <3> QED BY <2>1, <2>2, <3>1, <3>2, <3>3
  <2>7. ASSUME NEW q \in Requests, NEW k \in Keys, Inserted(q, k) PROVE ExactLen'
    <3>1. A' = A + 1 BY <2>7, Finiteness, <1>1, FS_AddElement DEF Inserted
    <3>2. S' = S /\ len' = len /\ k \notin Present BY <2>7 DEF Inserted
    <3>3. Present' = Present \union {k}
      <4>1. SUFFICES ASSUME NEW v \in Present, Present' = (Present \ {v}) \union {k}
                     PROVE  FALSE
        BY <2>7 DEF Inserted
      <4>2. v # k /\ v \notin Present' /\ k \in Present' /\ v \in Keys
        BY <3>2, <4>1 DEF Present
      <4>3. ASSUME NEW m \in Keys, Reshaped(m) PROVE FALSE
        <5>1. \A w \in Keys : ~Replaced(w, m) BY RoomyNoReplace
        <5> QED BY <3>2, <4>2, <4>3, <5>1 DEF Reshaped, Touched, Popped, Pushed
      <4>4. ~Still BY <4>2, <3>2 DEF Still
      <4> QED BY <1>1, <4>3, <4>4, LruShape
    <3>4. P' = P + 1 BY <3>2, <3>3, Finiteness, <1>1, FS_AddElement
    <3> QED BY <2>1, <2>2, <3>1, <3>2, <3>4
  <2> QED BY <1>1, <2>3, <2>4, <2>5, <2>6, <2>7, StepShape
<1> QED BY <1>3, <1>4, <1>5

\* The exact count holds of every reachable state.
LEMMA RoomyInvHolds == Spec => []RoomyInv
<1>1. Init => RoomyInv
  <2> SUFFICES ASSUME Init PROVE ExactLen /\ NoEvict /\ RemovedGone BY DEF RoomyInv
  <2>1. Present = {} /\ Adders = {} /\ Subtractors = {} /\ len = 0
    BY DEF Init, Present, Adders, Subtractors, Adding, Subtracting
  <2>2. ExactLen BY <2>1, FS_EmptySet DEF ExactLen
  <2> QED BY <2>2 DEF Init, NoEvict, RemovedGone
<1>2. IndInv /\ OrderInv /\ RoomyInv /\ [Next]_vars => RoomyInv'
  <2> SUFFICES ASSUME IndInv, OrderInv, RoomyInv, [Next]_vars PROVE RoomyInv' OBVIOUS
  <2>0. Roomy' = Roomy BY DEF Roomy
  <2>1. CASE UNCHANGED <<rec, lru, lock, len, pc, key, called, source, cursor>>
    BY <2>1 DEF RoomyInv, Roomy, ExactLen, NoEvict, RemovedGone, Present, Adders, Subtractors
  <2>2. ASSUME NEW r \in Requests, ThreadStep(r) PROVE RoomyInv'
    BY <2>0, <2>2, ThreadRoomyInv DEF RoomyInv
  <2> QED BY <2>1, <2>2, StepKinds
<1> QED BY <1>1, <1>2, IndInvHolds, OrderInvHolds, PTL DEF Spec

-----------------------------------------------------------------------------
(* The sharded cache implements the abstract engine *)

\* A thread changes no record of a shard that another thread has locked.
LEMMA RecordsOfLocked ==
  ASSUME TypeOK, LocksHeld, NEW r \in Requests, ThreadStep(r),
         NEW k \in Keys, lock[ShardOf[k]] \notin {r, NoRequest}
  PROVE  rec'[k] = rec[k]
<1> DEFINE Goal == rec'[k] = rec[k]
<1> USE EngineAssumption DEF TypeOK, Goto, Home
<1>a. pc[r] # "idle" => key[r] \in Keys OBVIOUS
<1>b. pc[r] \in HoldsHome => lock[ShardOf[key[r]]] = r BY DEF LocksHeld
<1>1. ASSUME NEW j \in Keys, Call(r, j) PROVE Goal
  BY <1>1 DEF Call
<1>2. ASSUME LookupLive(r) PROVE Goal
  BY <1>2 DEF LookupLive
<1>3. ASSUME LookupStale(r) PROVE Goal
  BY <1>3 DEF LookupStale
<1>4. ASSUME HasRoom(r) PROVE Goal
  BY <1>4 DEF HasRoom
<1>5. ASSUME EvictHome(r) PROVE Goal
  <2>1. PICK v \in Keys : PopLru(Home(r), v) BY <1>5 DEF EvictHome
  <2>2. v # k BY <1>5, <1>b, <2>1 DEF EvictHome, PopLru, IsLru, Resident, Enter, HoldsHome
  <2> QED BY <2>1, <2>2 DEF PopLru
<1>6. ASSUME EvictHomeSub(r) PROVE Goal
  BY <1>6 DEF EvictHomeSub
<1>7. ASSUME BeginScan(r) PROVE Goal
  BY <1>7 DEF BeginScan
<1>8. ASSUME ScanSkip(r) PROVE Goal
  BY <1>8 DEF ScanSkip
<1>9. ASSUME ScanEvict(r) PROVE Goal
  <2>1. PICK v \in Keys : PopLru(cursor[r], v) BY <1>9 DEF ScanEvict
  <2>2. v # k BY <1>9, <1>b, <2>1 DEF ScanEvict, PopLru, IsLru, Resident, Enter, HoldsHome
  <2> QED BY <2>1, <2>2 DEF PopLru
<1>10. ASSUME ScanSub(r) PROVE Goal
  BY <1>10 DEF ScanSub
<1>11. ASSUME ScanEnd(r) PROVE Goal
  BY <1>11 DEF ScanEnd
<1>12. ASSUME InsertOver(r) PROVE Goal
  <2>1. key[r] # k BY <1>12, <1>b DEF InsertOver, Pass, HoldsHome
  <2> QED BY <1>12, <2>1 DEF InsertOver, PutOver
<1>13. ASSUME InsertNew(r) PROVE Goal
  <2> DEFINE R == Store!InProgress(r, called[r])
  <2>1. key[r] # k /\ lock[ShardOf[key[r]]] \in {r, NoRequest}
    BY <1>13, <1>b DEF InsertNew, Enter, HoldsHome
  <2>2. PutNew(key[r], R) BY <1>13 DEF InsertNew
  <2> HIDE DEF R
  <2>3. rec' = [rec EXCEPT ![key[r]] = R]
        \/ \E v \in Keys : ShardOf[v] = ShardOf[key[r]] /\ rec' = [rec EXCEPT ![v] = NoRecord, ![key[r]] = R]
    BY <2>2 DEF PutNew, IsLru, Resident
  <2> QED BY <2>1, <2>3
<1>14. ASSUME InsertAdd(r) PROVE Goal
  BY <1>14 DEF InsertAdd
<1>15. ASSUME CompleteOver(r) PROVE Goal
  <2>1. key[r] # k BY <1>15, <1>b DEF CompleteOver, Pass, HoldsHome
  <2> QED BY <1>15, <2>1 DEF CompleteOver, PutOver
<1>16. ASSUME CompleteNew(r) PROVE Goal
  <2> DEFINE R == Store!Completed(r, now)
  <2>1. key[r] # k /\ lock[ShardOf[key[r]]] \in {r, NoRequest}
    BY <1>16, <1>b DEF CompleteNew, Enter, HoldsHome
  <2>2. PutNew(key[r], R) BY <1>16 DEF CompleteNew
  <2> HIDE DEF R
  <2>3. rec' = [rec EXCEPT ![key[r]] = R]
        \/ \E v \in Keys : ShardOf[v] = ShardOf[key[r]] /\ rec' = [rec EXCEPT ![v] = NoRecord, ![key[r]] = R]
    BY <2>2 DEF PutNew, IsLru, Resident
  <2> QED BY <2>1, <2>3
<1>17. ASSUME CompleteAdd(r) PROVE Goal
  BY <1>17 DEF CompleteAdd
<1>18. ASSUME RemoveFound(r) PROVE Goal
  <2>1. key[r] # k BY <1>18 DEF RemoveFound, Enter
  <2> QED BY <1>18, <2>1 DEF RemoveFound
<1>19. ASSUME RemoveSub(r) PROVE Goal
  BY <1>19 DEF RemoveSub
<1>20. ASSUME RemoveAbsent(r) PROVE Goal
  BY <1>20 DEF RemoveAbsent
<1>21. ASSUME Abandon(r) PROVE Goal
  BY <1>21 DEF Abandon
<1> QED
  BY <1>1, <1>2, <1>3, <1>4, <1>5, <1>6, <1>7, <1>8, <1>9, <1>10, <1>11, <1>12, <1>13,
     <1>14, <1>15, <1>16, <1>17, <1>18, <1>19, <1>20, <1>21
  DEF ThreadStep, check_or_insert, complete, remove

\* After the lookup has found no live record, there is none until the put.
StalePcs == {"capacity", "evictSub", "scan", "scanSub", "put"}
StaleInv == \A r \in Requests : pc[r] \in StalePcs => ~Store!Live(key[r], called[r])

\* The mutex held from the lookup to the put keeps the lookup's answer valid.
LEMMA ThreadStaleInv ==
  ASSUME TypeOK, LocksHeld, StaleInv, NEW r \in Requests, ThreadStep(r)
  PROVE  StaleInv'
<1> SUFFICES ASSUME NEW q \in Requests, pc'[q] \in StalePcs
             PROVE  ~Store!Live(key[q], called[q])'
  BY DEF StaleInv
<1>1. CASE q # r
  <2>1. /\ pc[q] \in StalePcs /\ key'[q] = key[q] /\ called'[q] = called[q]
        /\ key[q] \in Keys /\ lock[ShardOf[key[q]]] = q
    BY <1>1, ThreadFrame DEF StalePcs, LocksHeld, HoldsHome, Home, TypeOK
  <2>2. rec'[key[q]] = rec[key[q]] BY <1>1, <2>1, RecordsOfLocked, EngineAssumption
  <2>3. ~Store!Live(key[q], called[q]) BY <2>1 DEF StaleInv
  <2> QED BY <2>1, <2>2, <2>3 DEF Store!Live, Store!Fresh
<1>2. CASE q = r
  <2>a. pc[r] # "idle" => key'[r] = key[r] /\ called'[r] = called[r] /\ key[r] \in Keys
    BY ThreadFrame
  <2>b. pc[r] \in StalePcs => ~Store!Live(key[r], called[r]) BY DEF StaleInv
  <2>1. CASE LookupStale(r)
    BY <1>2, <2>1, <2>a DEF LookupStale, Goto, Store!Live, Store!Fresh
  <2>2. CASE \/ HasRoom(r) \/ EvictHomeSub(r) \/ BeginScan(r) \/ ScanSkip(r)
             \/ ScanSub(r) \/ ScanEnd(r)
    <3>1. rec' = rec /\ pc[r] \in StalePcs
      BY <2>2 DEF HasRoom, EvictHomeSub, BeginScan, ScanSkip, ScanSub, ScanEnd, Goto, StalePcs
    <3>2. pc[r] # "idle" BY <3>1 DEF StalePcs
    <3> QED BY <1>2, <2>a, <2>b, <3>1, <3>2 DEF Store!Live, Store!Fresh
  <2>3. CASE EvictHome(r) \/ ScanEvict(r)
    <3>1. /\ pc[r] \in StalePcs /\ pc[r] # "idle"
          /\ \E v \in Keys : rec' = [rec EXCEPT ![v] = NoRecord]
      BY <2>3 DEF EvictHome, ScanEvict, PopLru, Goto, StalePcs
    <3>2. rec'[key[r]] = rec[key[r]] \/ rec'[key[r]] = NoRecord
      BY <2>a, <3>1 DEF TypeOK
    <3> QED BY <1>2, <2>a, <2>b, <3>1, <3>2 DEF Store!Live, Store!Fresh, NoRecord
  <2>4. CASE ~ \/ LookupStale(r) \/ HasRoom(r) \/ EvictHomeSub(r) \/ BeginScan(r)
               \/ ScanSkip(r) \/ ScanSub(r) \/ ScanEnd(r) \/ EvictHome(r) \/ ScanEvict(r)
    <3>1. pc'[r] \notin StalePcs
      BY <2>4 DEF ThreadStep, check_or_insert, complete, remove, StalePcs, TypeOK, Goto,
         Call, LookupLive, InsertOver, InsertNew, InsertAdd, CompleteOver,
         CompleteNew, CompleteAdd, RemoveFound, RemoveSub, RemoveAbsent, Abandon
    <3> QED BY <1>2, <3>1
  <2> QED BY <2>1, <2>2, <2>3, <2>4
<1> QED BY <1>1, <1>2

\* StaleInv holds of every reachable state.
LEMMA StaleInvHolds == Spec => []StaleInv
<1>1. Init => StaleInv BY DEF Init, StaleInv, StalePcs
<1>2. IndInv /\ StaleInv /\ [Next]_vars => StaleInv'
  <2> SUFFICES ASSUME IndInv, StaleInv, [Next]_vars PROVE StaleInv' OBVIOUS
  <2>1. CASE UNCHANGED <<rec, lru, lock, len, pc, key, called, source, cursor>>
    BY <2>1 DEF StaleInv, Store!Live, Store!Fresh
  <2>2. ASSUME NEW r \in Requests, ThreadStep(r) PROVE StaleInv'
    BY <2>2, ThreadStaleInv DEF IndInv
  <2> QED BY <2>1, <2>2, StepKinds
<1> QED BY <1>1, <1>2, IndInvHolds, PTL DEF Spec

\* The phases of the abstract engine.
PhaseFun == [q \in Requests |-> PhaseOf(pc[q])]

\* Where each program counter stands in the abstract engine.
LEMMA PhaseValues ==
  /\ PhaseOf("idle") = "idle"
  /\ \A p \in {"lookup", "capacity", "evictSub", "scan", "scanSub", "put"} : PhaseOf(p) = "checking"
  /\ \A p \in {"insertAdd", "running"} : PhaseOf(p) = "running"
  /\ \A p \in {"completeAdd", "removeSub", "done"} : PhaseOf(p) = "done"
  /\ PhaseOf("conflict") = "conflict" /\ PhaseOf("replay") = "replay"
BY DEF PhaseOf

\* A step of r from pc a to pc b, seen in the phases.
LEMMA PhaseStep ==
  ASSUME TypeOK, NEW r \in Requests, NEW a, NEW b, Goto(r, a, b)
  PROVE  /\ PhaseFun[r] = PhaseOf(a)
         /\ PhaseFun' = [PhaseFun EXCEPT ![r] = PhaseOf(b)]
         /\ PhaseOf(a) = PhaseOf(b) => PhaseFun' = PhaseFun
<1>1. pc' = [pc EXCEPT ![r] = b] /\ pc[r] = a /\ pc \in [Requests -> PCs] BY DEF Goto, TypeOK
<1>2. \A q \in Requests : pc'[q] = IF q = r THEN b ELSE pc[q] BY <1>1
<1> QED BY <1>1, <1>2 DEF PhaseFun

\* Each step of a thread is a step of the abstract engine, or invisible to it.
LEMMA ThreadRefines ==
  ASSUME IndInv, OrderInv, RoomyInv, StaleInv, NEW r \in Requests, ThreadStep(r)
  PROVE  [Store!StoreNext]_(Store!storeVars)
<1> DEFINE Goal == [Store!StoreNext]_(Store!storeVars)
<1>a. TypeOK /\ rec \in [Keys -> Store!Records] BY DEF IndInv, TypeOK
<1>b. pc[r] # "idle" => key[r] \in Keys /\ Home(r) \in Shards
  BY EngineAssumption DEF IndInv, TypeOK, Home
<1>c. pc[r] = "put" => ~Store!Live(key[r], called[r]) /\ Len(lru[Home(r)]) < ShardCap
  BY DEF StaleInv, StalePcs, OrderInv, RoomInv, RoomPcs
<1>d. ASSUME NEW s \in Shards PROVE Len(lru[s]) \in Nat /\ ShardCap \in Nat
  BY ListLen, EngineAssumption DEF OrderInv, ListInv, ShardCap
<1>e. ASSUME UNCHANGED <<now, rec, key, called, source>>, PhaseFun' = PhaseFun PROVE Goal
  BY <1>e DEF Store!storeVars, PhaseFun
<1>1. ASSUME NEW k \in Keys, Call(r, k) PROVE Goal
  <2>1. Goto(r, "idle", "lookup") BY <1>1 DEF Call
  <2>2. PhaseFun[r] = "idle" /\ PhaseFun' = [PhaseFun EXCEPT ![r] = "checking"]
    BY <1>a, <2>1, PhaseStep, PhaseValues
  <2>3. Store!Call(r, k) BY <1>1, <2>2 DEF Call, Store!Call, Store!To, PhaseFun
  <2> QED BY <2>3 DEF Store!StoreNext
<1>2. ASSUME LookupLive(r) PROVE Goal
  <2>1. CASE Goto(r, "lookup", "conflict") /\ rec[key[r]].state = "InProgress" /\ UNCHANGED source
    <3>1. PhaseFun[r] = "checking" /\ PhaseFun' = [PhaseFun EXCEPT ![r] = "conflict"]
      BY <1>a, <2>1, PhaseStep, PhaseValues
    <3>2. Store!Conflict(r)
      BY <1>2, <2>1, <3>1 DEF LookupLive, Store!Conflict, Store!To, PhaseFun
    <3> QED BY <3>2 DEF Store!StoreNext
  <2>2. CASE /\ Goto(r, "lookup", "replay") /\ rec[key[r]].state = "Completed"
             /\ source' = [source EXCEPT ![r] = rec[key[r]].owner]
    <3>1. PhaseFun[r] = "checking" /\ PhaseFun' = [PhaseFun EXCEPT ![r] = "replay"]
      BY <1>a, <2>2, PhaseStep, PhaseValues
    <3>2. Store!Replay(r) BY <1>2, <2>2, <3>1 DEF LookupLive, Store!Replay, Store!To, PhaseFun
    <3> QED BY <3>2 DEF Store!StoreNext
  <2> QED BY <1>2, <2>1, <2>2 DEF LookupLive
<1>3. ASSUME LookupStale(r) PROVE Goal
  <2>1. Goto(r, "lookup", "capacity") /\ UNCHANGED <<now, rec, key, called, source>>
    BY <1>3 DEF LookupStale
  <2>2. PhaseFun' = PhaseFun BY <1>a, <2>1, PhaseStep, PhaseValues
  <2> QED BY <1>e, <2>1, <2>2
<1>4. ASSUME HasRoom(r) PROVE Goal
  <2>1. Goto(r, "capacity", "put") /\ UNCHANGED <<now, rec, key, called, source>>
    BY <1>4 DEF HasRoom
  <2>2. PhaseFun' = PhaseFun BY <1>a, <2>1, PhaseStep, PhaseValues
  <2> QED BY <1>e, <2>1, <2>2
<1>5. ASSUME EvictHome(r) PROVE Goal
  <2>1. PICK v \in Keys : PopLru(Home(r), v) BY <1>5 DEF EvictHome
  <2>2. Goto(r, "capacity", "evictSub") /\ UNCHANGED <<now, key, called, source>>
    BY <1>5 DEF EvictHome
  <2>3. PhaseFun' = PhaseFun BY <1>a, <2>2, PhaseStep, PhaseValues
  <2>4. ~Roomy BY <1>5, RoomyBelowCapacity, EngineAssumption DEF EvictHome, IndInv, TypeOK
  <2>5. rec[v] # NoRecord /\ rec' = [rec EXCEPT ![v] = NoRecord]
    BY <2>1 DEF PopLru, IsLru, Resident, Present
  <2>6. Store!Evict(v) BY <2>2, <2>3, <2>4, <2>5 DEF Store!Evict, PhaseFun, Roomy, NoRecord
  <2> QED BY <2>6 DEF Store!StoreNext
<1>6. ASSUME EvictHomeSub(r) PROVE Goal
  <2>1. Goto(r, "evictSub", "put") /\ UNCHANGED <<now, rec, key, called, source>>
    BY <1>6 DEF EvictHomeSub
  <2>2. PhaseFun' = PhaseFun BY <1>a, <2>1, PhaseStep, PhaseValues
  <2> QED BY <1>e, <2>1, <2>2
<1>7. ASSUME BeginScan(r) PROVE Goal
  <2>1. Goto(r, "capacity", "scan") /\ UNCHANGED <<now, rec, key, called, source>>
    BY <1>7 DEF BeginScan
  <2>2. PhaseFun' = PhaseFun BY <1>a, <2>1, PhaseStep, PhaseValues
  <2> QED BY <1>e, <2>1, <2>2
<1>8. ASSUME ScanSkip(r) PROVE Goal
  BY <1>8, <1>e DEF ScanSkip, PhaseFun
<1>9. ASSUME ScanEvict(r) PROVE Goal
  <2>1. PICK v \in Keys : PopLru(cursor[r], v) BY <1>9 DEF ScanEvict
  <2>2. Goto(r, "scan", "scanSub") /\ UNCHANGED <<now, key, called, source>>
    BY <1>9 DEF ScanEvict
  <2>3. PhaseFun' = PhaseFun BY <1>a, <2>2, PhaseStep, PhaseValues
  <2>4. ~Roomy BY <1>9 DEF ScanEvict, Goto, RoomyInv, NoEvict
  <2>5. rec[v] # NoRecord /\ rec' = [rec EXCEPT ![v] = NoRecord]
    BY <2>1 DEF PopLru, IsLru, Resident, Present
  <2>6. Store!Evict(v) BY <2>2, <2>3, <2>4, <2>5 DEF Store!Evict, PhaseFun, Roomy, NoRecord
  <2> QED BY <2>6 DEF Store!StoreNext
<1>10. ASSUME ScanSub(r) PROVE Goal
  <2>1. Goto(r, "scanSub", "put") /\ UNCHANGED <<now, rec, key, called, source>>
    BY <1>10 DEF ScanSub
  <2>2. PhaseFun' = PhaseFun BY <1>a, <2>1, PhaseStep, PhaseValues
  <2> QED BY <1>e, <2>1, <2>2
<1>11. ASSUME ScanEnd(r) PROVE Goal
  <2>1. Goto(r, "scan", "put") /\ UNCHANGED <<now, rec, key, called, source>>
    BY <1>11 DEF ScanEnd
  <2>2. PhaseFun' = PhaseFun BY <1>a, <2>1, PhaseStep, PhaseValues
  <2> QED BY <1>e, <2>1, <2>2
<1>12. ASSUME InsertOver(r) PROVE Goal
  <2>1. Goto(r, "put", "running") /\ UNCHANGED <<now, key, called, source>>
    BY <1>12 DEF InsertOver
  <2>2. PhaseFun[r] = "checking" /\ PhaseFun' = [PhaseFun EXCEPT ![r] = "running"]
    BY <1>a, <2>1, PhaseStep, PhaseValues
  <2>3. rec' = [rec EXCEPT ![key[r]] = Store!InProgress(r, called[r])]
    BY <1>12 DEF InsertOver, PutOver
  <2>4. ~Store!Live(key[r], called[r]) BY <1>c, <2>1 DEF Goto
  <2>5. Store!Acquire(r) BY <2>1, <2>2, <2>3, <2>4 DEF Store!Acquire, Store!To, PhaseFun
  <2> QED BY <2>5 DEF Store!StoreNext
<1>13. ASSUME InsertNew(r) PROVE Goal
  <2>1. Goto(r, "put", "insertAdd") /\ UNCHANGED <<now, key, called, source>>
    BY <1>13 DEF InsertNew
  <2>2. PhaseFun[r] = "checking" /\ PhaseFun' = [PhaseFun EXCEPT ![r] = "running"]
    BY <1>a, <2>1, PhaseStep, PhaseValues
  <2>3. rec' = [rec EXCEPT ![key[r]] = Store!InProgress(r, called[r])] 
    <3>1. PutNew(key[r], Store!InProgress(r, called[r])) BY <1>13 DEF InsertNew
    <3>2. Len(lru[ShardOf[key[r]]]) < ShardCap /\ Home(r) \in Shards
      BY <1>b, <1>c, <2>1 DEF Goto, Home
    <3>3. Len(lru[ShardOf[key[r]]]) \in Nat /\ ShardCap \in Nat BY <1>d, <3>2 DEF Home
    <3> QED BY <3>1, <3>2, <3>3 DEF PutNew
  <2>4. ~Store!Live(key[r], called[r]) BY <1>c, <2>1 DEF Goto
  <2>5. Store!Acquire(r) BY <2>1, <2>2, <2>3, <2>4 DEF Store!Acquire, Store!To, PhaseFun
  <2> QED BY <2>5 DEF Store!StoreNext
<1>14. ASSUME InsertAdd(r) PROVE Goal
  <2>1. Goto(r, "insertAdd", "running") /\ UNCHANGED <<now, rec, key, called, source>>
    BY <1>14 DEF InsertAdd
  <2>2. PhaseFun' = PhaseFun BY <1>a, <2>1, PhaseStep, PhaseValues
  <2> QED BY <1>e, <2>1, <2>2
<1>15. ASSUME CompleteOver(r) PROVE Goal
  <2> DEFINE R == Store!Completed(r, now)
             E == IF Cardinality(Keys) < MaxCapacity THEN {} ELSE Keys
             Drops == {{}} \union {{k} : k \in E \ {key[r]}}
             After(drop) ==
               rec' = [k \in Keys |-> IF k = key[r] THEN R
                                      ELSE IF k \in drop THEN Store!NoRecord ELSE rec[k]]
  <2>1. Goto(r, "running", "done") /\ UNCHANGED <<now, key, called, source>>
    BY <1>15 DEF CompleteOver
  <2>2. PhaseFun[r] = "running" /\ PhaseFun' = [PhaseFun EXCEPT ![r] = "done"]
    BY <1>a, <2>1, PhaseStep, PhaseValues
  <2>3. PutOver(key[r], R) /\ key[r] \in Keys BY <1>15, <1>b, <2>1 DEF CompleteOver, Goto
  <2> HIDE DEF R
  <2>4. After({}) BY <1>a, <2>3 DEF PutOver
  <2>5. \E drop \in Drops : After(drop)
    <3>1. {} \in Drops OBVIOUS
    <3> HIDE DEF Drops, After
    <3> QED BY <2>4, <3>1
  <2>8. Store!Complete(r) BY <2>1, <2>2, <2>5 DEF Store!Complete, Store!To, PhaseFun, R
  <2> QED BY <2>8 DEF Store!StoreNext
<1>16. ASSUME CompleteNew(r) PROVE Goal
  <2> DEFINE R == Store!Completed(r, now)
             E == IF Cardinality(Keys) < MaxCapacity THEN {} ELSE Keys
             Drops == {{}} \union {{k} : k \in E \ {key[r]}}
             After(drop) ==
               rec' = [k \in Keys |-> IF k = key[r] THEN R
                                      ELSE IF k \in drop THEN Store!NoRecord ELSE rec[k]]
  <2>1. Goto(r, "running", "completeAdd") /\ UNCHANGED <<now, key, called, source>>
    BY <1>16 DEF CompleteNew
  <2>2. PhaseFun[r] = "running" /\ PhaseFun' = [PhaseFun EXCEPT ![r] = "done"]
    BY <1>a, <2>1, PhaseStep, PhaseValues
  <2>3. PutNew(key[r], R) /\ key[r] \in Keys BY <1>16, <1>b, <2>1 DEF CompleteNew, Goto
  <2> HIDE DEF R
  <2>4. ASSUME rec' = [rec EXCEPT ![key[r]] = R] PROVE \E drop \in Drops : After(drop)
    <3>1. After({}) BY <1>a, <2>3, <2>4
    <3>2. {} \in Drops OBVIOUS
    <3> HIDE DEF Drops, After
    <3> QED BY <3>1, <3>2
  <2>5. ASSUME NEW v \in Keys, IsLru(ShardOf[key[r]], v), Len(lru[ShardOf[key[r]]]) >= ShardCap,
               rec' = [rec EXCEPT ![v] = NoRecord, ![key[r]] = R]
        PROVE  \E drop \in Drops : After(drop)
    <3>1. v # key[r] BY <2>3, <2>5 DEF PutNew, IsLru, Resident, Present
    <3>2. After({v}) BY <1>a, <2>3, <2>5, <3>1 DEF NoRecord
    <3>3. ~Roomy
      <4>1. ShardOf[key[r]] \in Shards BY <2>3, EngineAssumption
      <4>2. Len(lru[ShardOf[key[r]]]) \in Nat /\ ShardCap \in Nat BY <1>d, <4>1
      <4> QED BY <2>5, <4>1, <4>2, RoomyShards
    <3>4. {v} \in Drops BY <3>1, <3>3 DEF Roomy
    <3> HIDE DEF Drops, After
    <3> QED BY <3>2, <3>4
  <2>7. \E drop \in Drops : After(drop)
    <3> HIDE DEF Drops, After
    <3> QED BY <2>3, <2>4, <2>5 DEF PutNew
  <2>8. Store!Complete(r) BY <2>1, <2>2, <2>7 DEF Store!Complete, Store!To, PhaseFun, R
  <2> QED BY <2>8 DEF Store!StoreNext
<1>17. ASSUME CompleteAdd(r) PROVE Goal
  <2>1. Goto(r, "completeAdd", "done") /\ UNCHANGED <<now, rec, key, called, source>>
    BY <1>17 DEF CompleteAdd
  <2>2. PhaseFun' = PhaseFun BY <1>a, <2>1, PhaseStep, PhaseValues
  <2> QED BY <1>e, <2>1, <2>2
<1>18. ASSUME RemoveFound(r) PROVE Goal
  <2>1. Goto(r, "running", "removeSub") /\ UNCHANGED <<now, key, called, source>>
    BY <1>18 DEF RemoveFound
  <2>2. PhaseFun[r] = "running" /\ PhaseFun' = [PhaseFun EXCEPT ![r] = "done"]
    BY <1>a, <2>1, PhaseStep, PhaseValues
  <2>3. rec' = [rec EXCEPT ![key[r]] = NoRecord] BY <1>18 DEF RemoveFound
  <2>4. Store!Remove(r) BY <2>1, <2>2, <2>3 DEF Store!Remove, Store!To, PhaseFun, NoRecord
  <2> QED BY <2>4 DEF Store!StoreNext
<1>19. ASSUME RemoveSub(r) PROVE Goal
  <2>1. Goto(r, "removeSub", "done") /\ UNCHANGED <<now, rec, key, called, source>>
    BY <1>19 DEF RemoveSub
  <2>2. PhaseFun' = PhaseFun BY <1>a, <2>1, PhaseStep, PhaseValues
  <2> QED BY <1>e, <2>1, <2>2
<1>20. ASSUME RemoveAbsent(r) PROVE Goal
  <2>1. Goto(r, "running", "done") /\ UNCHANGED <<now, key, called, source>>
    BY <1>20 DEF RemoveAbsent
  <2>2. PhaseFun[r] = "running" /\ PhaseFun' = [PhaseFun EXCEPT ![r] = "done"]
    BY <1>a, <2>1, PhaseStep, PhaseValues
  <2>3. rec' = [rec EXCEPT ![key[r]] = NoRecord] BY <1>20, <1>a, <1>b DEF RemoveAbsent, Goto
  <2>4. Store!Remove(r) BY <2>1, <2>2, <2>3 DEF Store!Remove, Store!To, PhaseFun, NoRecord
  <2> QED BY <2>4 DEF Store!StoreNext
<1>21. ASSUME Abandon(r) PROVE Goal
  <2>1. Goto(r, "running", "done") /\ UNCHANGED <<now, rec, key, called, source>>
    BY <1>21 DEF Abandon
  <2>2. PhaseFun[r] = "running" /\ PhaseFun' = [PhaseFun EXCEPT ![r] = "done"]
    BY <1>a, <2>1, PhaseStep, PhaseValues
  <2>3. Store!Abandon(r) BY <2>1, <2>2 DEF Store!Abandon, Store!To, PhaseFun
  <2> QED BY <2>3 DEF Store!StoreNext
<1> QED
  BY <1>1, <1>2, <1>3, <1>4, <1>5, <1>6, <1>7, <1>8, <1>9, <1>10, <1>11, <1>12, <1>13,
     <1>14, <1>15, <1>16, <1>17, <1>18, <1>19, <1>20, <1>21
  DEF ThreadStep, check_or_insert, complete, remove

\* So is every step.
LEMMA StepRefines ==
  ASSUME IndInv, OrderInv, RoomyInv, StaleInv, [Next]_vars
  PROVE  [Store!StoreNext]_(Store!storeVars)
<1>1. CASE /\ UNCHANGED <<rec, lru, lock, len, pc, key, called, source, cursor>>
           /\ now' = now \/ (Tick /\ now' = now + 1)
  <2>1. PhaseFun' = PhaseFun BY <1>1 DEF PhaseFun
  <2>2. CASE now' = now BY <1>1, <2>1, <2>2 DEF Store!storeVars, PhaseFun
  <2>3. CASE Tick
    <3>1. Store!Tick BY <1>1, <2>1, <2>3 DEF Tick, Store!Tick, PhaseFun
    <3> QED BY <3>1 DEF Store!StoreNext
  <2> QED BY <1>1, <2>2, <2>3
<1> QED BY <1>1, StepKinds, ThreadRefines

\* The sharded cache does only what the abstract engine may do, for any number
\* of threads, keys and shards and any capacity: a New answer is given only when
\* no live record is there at the put, and records are forgotten only when there
\* are at least max_capacity keys.
THEOREM EngineImplementsStore == Spec => ImplementsStore
<1>1. Init => Store!StoreInit
  BY PhaseValues DEF Init, Store!StoreInit, NoRecord
<1>2. IndInv /\ OrderInv /\ RoomyInv /\ StaleInv /\ [Next]_vars => [Store!StoreNext]_(Store!storeVars)
  BY StepRefines
<1> QED
  BY <1>1, <1>2, IndInvHolds, OrderInvHolds, RoomyInvHolds, StaleInvHolds, PTL
  DEF Spec, ImplementsStore, Store!StoreSpec

-----------------------------------------------------------------------------
(* The lock that check_or_insert is *)

\* A call reads the clock before it is served, and an idle request has no key.
CalledInv ==
  /\ \A r \in Requests : called[r] <= now
  /\ \A r \in Requests : PhaseFun[r] = "idle" => key[r] = NoKey

\* All requests on key k are younger than the ttl.
AllYoung(k) == \A q \in Requests : key[q] = k => now - called[q] < Store!TtlSecs

\* While nothing is evicted and no call has outlived the ttl, the request that
\* was told New finds its own lock under its key.
HeldInv ==
  Roomy => \A r \in Requests :
    PhaseFun[r] = "running" /\ AllYoung(key[r]) => rec[key[r]] = Store!InProgress(r, called[r])

\* Steps of the abstract engine keep the clock readings in order.
LEMMA StoreStepCalled ==
  ASSUME TypeOK, CalledInv, Store!StoreNext
  PROVE  /\ CalledInv'
         /\ now' >= now
         /\ \A q \in Requests : key[q] # NoKey => key'[q] = key[q] /\ called'[q] = called[q]
<1> DEFINE Goal == /\ CalledInv'
                   /\ now' >= now
                   /\ \A q \in Requests : key[q] # NoKey => key'[q] = key[q] /\ called'[q] = called[q]
<1>1. /\ now \in Nat /\ called \in [Requests -> 0..MaxTime] /\ MaxTime \in Nat
      /\ key \in [Requests -> Keys \union {NoKey}] /\ NoKey \notin Keys
  BY EngineAssumption DEF TypeOK
<1>2. \A q \in Requests : called[q] \in Int /\ called[q] <= now BY <1>1 DEF CalledInv
<1>3. \A q \in Requests : PhaseFun[q] = "idle" => key[q] = NoKey BY DEF CalledInv
<1>4. CASE Store!Tick
  <2>1. now' = now + 1 /\ PhaseFun' = PhaseFun /\ key' = key /\ called' = called
    BY <1>4 DEF Store!Tick, PhaseFun
  <2> QED BY <1>1, <1>2, <1>3, <2>1 DEF CalledInv
<1>5. ASSUME NEW r \in Requests, NEW k \in Keys, Store!Call(r, k) PROVE Goal
  <2>1. /\ PhaseFun[r] = "idle" /\ PhaseFun' = [PhaseFun EXCEPT ![r] = "checking"]
        /\ key' = [key EXCEPT ![r] = k] /\ called' = [called EXCEPT ![r] = now] /\ now' = now
    BY <1>5 DEF Store!Call, Store!To, PhaseFun
  <2>2. \A q \in Requests : PhaseFun'[q] = IF q = r THEN "checking" ELSE PhaseFun[q]
    BY <2>1 DEF PhaseFun
  <2>3. \A q \in Requests : q # r => key'[q] = key[q] /\ called'[q] = called[q] BY <1>1, <2>1
  <2>4. called'[r] = now BY <1>1, <2>1
  <2>5. key[r] = NoKey BY <1>3, <2>1
  <2>6. \A q \in Requests : called'[q] <= now' BY <1>1, <1>2, <2>1, <2>3, <2>4
  <2>7. \A q \in Requests : PhaseFun'[q] = "idle" => key'[q] = NoKey BY <1>3, <2>2, <2>3
  <2>8. CalledInv' BY <2>6, <2>7 DEF CalledInv
  <2> QED BY <1>1, <2>1, <2>3, <2>5, <2>8
<1>6. ASSUME NEW r \in Requests,
             \/ Store!Acquire(r) \/ Store!Conflict(r) \/ Store!Replay(r) \/ Store!Complete(r)
             \/ Store!Remove(r) \/ Store!Abandon(r)
      PROVE  Goal
  <2>1. /\ key' = key /\ called' = called /\ now' = now
        /\ \E p \in {"running", "conflict", "replay", "done"} : PhaseFun' = [PhaseFun EXCEPT ![r] = p]
    BY <1>6 DEF Store!Acquire, Store!Conflict, Store!Replay, Store!Complete, Store!Remove,
       Store!Abandon, Store!To, PhaseFun
  <2>2. \A q \in Requests : PhaseFun'[q] = "idle" => PhaseFun[q] = "idle"
    BY <2>1 DEF PhaseFun
  <2>3. CalledInv' BY <1>2, <1>3, <2>1, <2>2 DEF CalledInv
  <2> QED BY <1>1, <2>1, <2>3
<1>7. ASSUME NEW k \in Keys, Store!Evict(k) PROVE Goal
  <2>1. PhaseFun' = PhaseFun /\ key' = key /\ called' = called /\ now' = now
    BY <1>7 DEF Store!Evict, PhaseFun
  <2> QED BY <1>1, <1>2, <1>3, <2>1 DEF CalledInv
<1> QED BY <1>4, <1>5, <1>6, <1>7 DEF Store!StoreNext

\* Steps of the abstract engine leave a held lock to its holder.
LEMMA StoreStepHeld ==
  ASSUME TypeOK, CalledInv, HeldInv, Roomy, Store!StoreNext,
         NEW r \in Requests, PhaseFun'[r] = "running", AllYoung(key[r])'
  PROVE  rec'[key'[r]] = Store!InProgress(r, called'[r])
<1> DEFINE Goal == rec'[key'[r]] = Store!InProgress(r, called'[r])
<1>1. /\ now \in Nat /\ called \in [Requests -> 0..MaxTime] /\ MaxTime \in Nat
      /\ key \in [Requests -> Keys \union {NoKey}] /\ NoKey \notin Keys
      /\ rec \in [Keys -> Store!Records] /\ Store!TtlSecs \in Nat
      /\ pc \in [Requests -> PCs]
      /\ \A q \in Requests : called[q] \in Int /\ called[q] <= now
  BY EngineAssumption DEF TypeOK, CalledInv, Store!TtlSecs
<1>2. /\ now' >= now /\ now' \in Int
      /\ \A q \in Requests : key[q] # NoKey => key'[q] = key[q] /\ called'[q] = called[q]
  <2>1. now' = now \/ now' = now + 1
    BY DEF Store!StoreNext, Store!Tick, Store!Call, Store!Acquire, Store!Conflict,
       Store!Replay,
       Store!Complete, Store!Remove, Store!Abandon, Store!Evict
  <2> QED BY <1>1, <2>1, StoreStepCalled
<1>k. \A q \in Requests : PhaseFun[q] # "idle" => key[q] \in Keys
  BY PhaseValues DEF PhaseFun, TypeOK
<1>y. ASSUME key[r] \in Keys PROVE AllYoung(key[r])
  <2>1. key'[r] = key[r] BY <1>1, <1>2, <1>y
  <2> SUFFICES ASSUME NEW q \in Requests, key[q] = key[r] PROVE now - called[q] < Store!TtlSecs
    BY DEF AllYoung
  <2>2. key'[q] = key'[r] /\ called'[q] = called[q] BY <1>1, <1>2, <1>y, <2>1
  <2>3. now' - called'[q] < Store!TtlSecs' BY <2>2 DEF AllYoung
  <2>4. Store!TtlSecs' = Store!TtlSecs BY DEF Store!TtlSecs
  <2> QED BY <1>1, <1>2, <2>2, <2>3, <2>4
\* Before the step, a running request with young company holds its key.
<1>h. ASSUME PhaseFun[r] = "running"
      PROVE  /\ key[r] \in Keys /\ AllYoung(key[r])
             /\ rec[key[r]] = Store!InProgress(r, called[r])
             /\ rec[key[r]] # Store!NoRecord
             /\ key'[r] = key[r] /\ called'[r] = called[r]
  <2>1. key[r] \in Keys BY <1>h, <1>k
  <2>2. AllYoung(key[r]) BY <1>y, <2>1
  <2>3. rec[key[r]] = Store!InProgress(r, called[r]) BY <1>h, <2>2 DEF HeldInv
  <2> QED BY <1>1, <1>2, <2>1, <2>2, <2>3 DEF Store!InProgress, Store!NoRecord
<1>3. CASE Store!Tick
  <2>1. PhaseFun' = PhaseFun /\ rec' = rec BY <1>3 DEF Store!Tick, PhaseFun
  <2> QED BY <1>h, <2>1
<1>4. ASSUME NEW q \in Requests, NEW k \in Keys, Store!Call(q, k) PROVE Goal
  <2>1. PhaseFun' = [PhaseFun EXCEPT ![q] = "checking"] /\ rec' = rec
    BY <1>4 DEF Store!Call, Store!To, PhaseFun
  <2>2. PhaseFun[r] = "running" BY <2>1 DEF PhaseFun
  <2> QED BY <1>h, <2>1, <2>2
<1>5. ASSUME NEW q \in Requests, Store!Acquire(q) PROVE Goal
  <2>1. /\ PhaseFun[q] = "checking" /\ PhaseFun' = [PhaseFun EXCEPT ![q] = "running"]
        /\ ~Store!Live(key[q], called[q]) /\ key' = key /\ called' = called
        /\ rec' = [rec EXCEPT ![key[q]] = Store!InProgress(q, called[q])]
    BY <1>5 DEF Store!Acquire, Store!To, PhaseFun
  <2>2. key[q] \in Keys BY <1>k, <2>1
  <2>3. CASE q = r BY <1>1, <2>1, <2>2, <2>3
  <2>4. CASE q # r
    <3>1. PhaseFun[r] = "running" BY <2>1, <2>4 DEF PhaseFun
    <3>2. key[q] # key[r]
      <4> SUFFICES ASSUME key[q] = key[r] PROVE FALSE OBVIOUS
      <4>1. rec[key[q]].at = called[r] BY <1>h, <3>1 DEF Store!InProgress
      <4>2. now - called[r] < Store!TtlSecs BY <1>h, <3>1 DEF AllYoung
      <4>3. called[q] - called[r] < Store!TtlSecs BY <1>1, <4>2
      <4> QED BY <1>h, <2>1, <3>1, <4>1, <4>3 DEF Store!Live, Store!Fresh
    <3> QED BY <1>1, <1>h, <2>1, <2>2, <3>1, <3>2
  <2> QED BY <2>3, <2>4
<1>6. ASSUME NEW q \in Requests, Store!Conflict(q) \/ Store!Replay(q) \/ Store!Abandon(q) PROVE Goal
  <2>1. rec' = rec /\ \E p \in {"conflict", "replay", "done"} : PhaseFun' = [PhaseFun EXCEPT ![q] = p]
    BY <1>6 DEF Store!Conflict, Store!Replay, Store!Abandon, Store!To, PhaseFun
  <2>2. PhaseFun[r] = "running" BY <2>1 DEF PhaseFun
  <2> QED BY <1>h, <2>1, <2>2
<1>7. ASSUME NEW q \in Requests, Store!Complete(q) \/ Store!Remove(q) PROVE Goal
  <2>1. PhaseFun[q] = "running" /\ PhaseFun' = [PhaseFun EXCEPT ![q] = "done"]
    BY <1>7 DEF Store!Complete, Store!Remove, Store!To, PhaseFun
  <2>2. q # r /\ PhaseFun[r] = "running" BY <2>1 DEF PhaseFun
  <2>3. key[q] # key[r]
    <3> SUFFICES ASSUME key[q] = key[r] PROVE FALSE OBVIOUS
    <3>1. rec[key[q]] = Store!InProgress(q, called[q]) BY <1>h, <2>1, <2>2 DEF HeldInv
    <3> QED BY <1>h, <2>2, <3>1 DEF Store!InProgress
  <2>4. key[q] \in Keys BY <1>k, <2>1
  <2>5. rec'[key[r]] = rec[key[r]]
    <3>1. CASE Store!Remove(q) BY <1>1, <1>h, <2>2, <2>3, <3>1 DEF Store!Remove
    <3>2. CASE Store!Complete(q)
      <4>1. PICK drop \in {{}} \union {{k} : k \in {} \ {key[q]}} :
              rec' = [k \in Keys |-> IF k = key[q] THEN Store!Completed(q, now)
                                     ELSE IF k \in drop THEN Store!NoRecord ELSE rec[k]]
        BY <3>2 DEF Store!Complete, Roomy
      <4>2. drop = {} OBVIOUS
      <4> QED BY <1>h, <2>2, <2>3, <4>1, <4>2
    <3> QED BY <1>7, <3>1, <3>2
  <2> QED BY <1>h, <2>2, <2>5
<1>8. ASSUME NEW k \in Keys, Store!Evict(k) PROVE Goal
  BY <1>8 DEF Store!Evict, Roomy
<1> QED BY <1>3, <1>4, <1>5, <1>6, <1>7, <1>8 DEF Store!StoreNext

\* check_or_insert is a lock, for any number of threads, keys and shards: while
\* the keys fit max_capacity and no request on a key has outlived the ttl, at
\* most one of them is executing.
THEOREM LockIsExclusive == Spec => []Exclusive
<1>1. Init => CalledInv /\ HeldInv
  <2> SUFFICES ASSUME Init PROVE CalledInv /\ HeldInv OBVIOUS
  <2>1. \A r \in Requests : PhaseFun[r] = "idle" /\ key[r] = NoKey /\ called[r] = 0 /\ now = 0
    BY PhaseValues DEF Init, PhaseFun
  <2> QED BY <2>1 DEF CalledInv, HeldInv
<1>2. IndInv /\ CalledInv /\ HeldInv /\ [Store!StoreNext]_(Store!storeVars) => (CalledInv /\ HeldInv)'
  <2> SUFFICES ASSUME IndInv, CalledInv, HeldInv, [Store!StoreNext]_(Store!storeVars)
               PROVE  (CalledInv /\ HeldInv)'
    OBVIOUS
  <2>1. CASE UNCHANGED Store!storeVars
    BY <2>1 DEF Store!storeVars, CalledInv, HeldInv, AllYoung, PhaseFun, Roomy,
       Store!InProgress, Store!TtlSecs
  <2>2. CASE Store!StoreNext
    <3>1. CalledInv' BY <2>2, StoreStepCalled DEF IndInv
    <3>2. Roomy' = Roomy BY DEF Roomy
    <3>3. ASSUME Roomy, NEW r \in Requests, PhaseFun'[r] = "running", AllYoung(key[r])'
          PROVE  rec'[key'[r]] = Store!InProgress(r, called'[r])
      BY <2>2, <3>3, StoreStepHeld DEF IndInv
    <3>4. HeldInv' BY <3>2, <3>3 DEF HeldInv, Store!InProgress
    <3> QED BY <3>1, <3>4
  <2> QED BY <2>1, <2>2
<1>3. HeldInv => Exclusive
  <2> SUFFICES ASSUME HeldInv, Roomy, NEW k \in Keys,
                      \A r \in {q \in Requests : key[q] = k} : now - called[r] < Store!TtlSecs
               PROVE  Cardinality({r \in {q \in Requests : key[q] = k} : PhaseOf(pc[r]) = "running"}) <= 1
    BY DEF Exclusive, Roomy
  <2> DEFINE X == {r \in {q \in Requests : key[q] = k} : PhaseOf(pc[r]) = "running"}
  <2>1. AllYoung(k) BY DEF AllYoung
  <2>2. ASSUME NEW p \in X, NEW q \in X PROVE p = q
    <3>1. rec[k] = Store!InProgress(p, called[p]) /\ rec[k] = Store!InProgress(q, called[q])
      BY <2>1 DEF HeldInv, PhaseFun
    <3> QED BY <3>1 DEF Store!InProgress
  <2> HIDE DEF X
  <2>3. CASE X = {} BY <2>3, FS_EmptySet DEF X
  <2>4. ASSUME NEW p \in X PROVE Cardinality(X) <= 1
    <3>1. X = {p} BY <2>2
    <3>2. Cardinality({p}) = 1 BY FS_Singleton
    <3> QED BY <3>1, <3>2
  <2> QED BY <2>3, <2>4 DEF X
<1>4. IndInv /\ OrderInv /\ RoomyInv /\ StaleInv /\ [Next]_vars => [Store!StoreNext]_(Store!storeVars)
  BY StepRefines
<1> QED
  BY <1>1, <1>2, <1>3, <1>4, IndInvHolds, OrderInvHolds, RoomyInvHolds, StaleInvHolds, PTL
     DEF Spec
=============================================================================
