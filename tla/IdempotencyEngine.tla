--------------------------- MODULE IdempotencyEngine ---------------------------
(***************************************************************************)
(* The in-memory backend of IdempotencyEngine (src/idempotency/mod.rs):    *)
(* an array of LRU caches, each behind its own mutex, and one atomic       *)
(* counter `len` shared by all of them.                                    *)
(*                                                                         *)
(* A step is what a thread does between two points where another thread    *)
(* can get in: taking a shard's mutex, and each access to `len`.  What a   *)
(* call does while it holds a mutex and does not touch `len` is one step.  *)
(***************************************************************************)
EXTENDS Integers, FiniteSets, Sequences

CONSTANTS
  Requests, Keys, Ttl, MaxTime, NoRequest, NoKey,
  NumShards,     \* NUM_MEMORY_SHARDS
  ShardOf,       \* get_shard_index: the shard of each key
  MaxCapacity,   \* max_capacity
  UsizeMax       \* usize::MAX, what `len` becomes if 1 is subtracted from 0

VARIABLES
  now,      \* wall clock, in seconds
  rec,      \* rec[k]: the record stored under key k, or NoRecord
  lru,      \* lru[s]: the keys of shard s, most recently used first
  lock,     \* lock[s]: the request holding the mutex of shard s, or NoRequest
  len,      \* the atomic counter
  pc,       \* pc[r]: where request r is
  key,      \* key[r]: the key of r's calls
  called,   \* called[r]: now_secs of r's check_or_insert
  source,   \* source[r]: owner of the response r was given as a replay
  cursor    \* cursor[r]: loop index of r's scan over the other shards

vars == <<now, rec, lru, lock, len, pc, key, called, source, cursor>>

Shards == 0 .. NumShards - 1

\* The abstract engine: the steps between the answer of a call and its
\* return, and those before the answer, are invisible.  It forgets nothing
\* when there are fewer keys than max_capacity.
PhaseOf(p) ==
  CASE p \in {"lookup", "capacity", "evictSub", "scan", "scanSub", "put"} -> "checking"
    [] p \in {"insertAdd", "running"} -> "running"
    [] p \in {"completeAdd", "removeSub", "done"} -> "done"
    [] OTHER -> p

Store == INSTANCE IdempotencyStore WITH
  phase <- [r \in Requests |-> PhaseOf(pc[r])],
  Evictable <- IF Cardinality(Keys) < MaxCapacity THEN {} ELSE Keys

NoRecord == Store!NoRecord

ASSUME EngineAssumption ==
  /\ IsFiniteSet(Requests) /\ IsFiniteSet(Keys)
  /\ Ttl \in Nat /\ MaxTime \in Nat
  /\ NoRequest \notin Requests /\ NoKey \notin Keys
  /\ NumShards \in Nat \ {0}
  /\ ShardOf \in [Keys -> Shards]
  /\ MaxCapacity \in Nat
  /\ UsizeMax \in Nat

\* MemoryShard::new: an LRU cache holds at least one entry.
ShardCap == IF MaxCapacity = 0 THEN 1 ELSE MaxCapacity

\* The shard r's own calls lock.
Home(r) == ShardOf[key[r]]

\* The keys with a record, in all shards and in one.
Present     == {k \in Keys : rec[k] # NoRecord}
Resident(s) == {k \in Present : ShardOf[k] = s}

PCs == {"idle", "lookup", "capacity", "evictSub", "scan", "scanSub", "put", "insertAdd",
        "running", "completeAdd", "removeSub", "conflict", "replay", "done"}

\* Between a change of a shard and the matching change of `len`.
Adding      == {"insertAdd", "completeAdd"}
Subtracting == {"evictSub", "scanSub", "removeSub"}

\* Inside the critical section of the home shard.
HoldsHome == {"capacity", "evictSub", "scan", "scanSub", "put"} \union Adding \union {"removeSub"}

TypeOK ==
  /\ now \in 0..MaxTime
  /\ rec \in [Keys -> Store!Records]
  /\ lru \in [Shards -> Seq(Keys)]
  /\ lock \in [Shards -> Requests \union {NoRequest}]
  /\ len \in Nat
  /\ pc \in [Requests -> PCs]
  /\ key \in [Requests -> Keys \union {NoKey}]
  /\ \A r \in Requests : pc[r] # "idle" => key[r] \in Keys
  /\ called \in [Requests -> 0..MaxTime]
  /\ source \in [Requests -> Requests \union {NoRequest}]
  /\ cursor \in [Requests -> 0..NumShards]

Init ==
  /\ now = 0
  /\ rec = [k \in Keys |-> NoRecord]
  /\ lru = [s \in Shards |-> <<>>]
  /\ lock = [s \in Shards |-> NoRequest]
  /\ len = 0
  /\ pc = [r \in Requests |-> "idle"]
  /\ key = [r \in Requests |-> NoKey]
  /\ called = [r \in Requests |-> 0]
  /\ source = [r \in Requests |-> NoRequest]
  /\ cursor = [r \in Requests |-> 0]

-----------------------------------------------------------------------------
(* LruCache *)

\* A key occurs at most once in a shard's list.
Without(q, k) ==
  IF \E i \in 1..Len(q) : q[i] = k
  THEN LET i == CHOOSE i \in 1..Len(q) : q[i] = k
       IN  SubSeq(q, 1, i - 1) \o SubSeq(q, i + 1, Len(q))
  ELSE q

Promote(q, k) == <<k>> \o Without(q, k)

\* pop_lru on shard s yields v.
IsLru(s, v) == v \in Resident(s) /\ v = lru[s][Len(lru[s])]

PopLru(s, v) ==
  /\ IsLru(s, v)
  /\ rec' = [rec EXCEPT ![v] = NoRecord]
  /\ lru' = [lru EXCEPT ![s] = Without(@, v)]

\* put of a key that is there replaces the record and promotes the key.
PutOver(k, R) ==
  /\ rec[k] # NoRecord
  /\ rec' = [rec EXCEPT ![k] = R]
  /\ lru' = [lru EXCEPT ![ShardOf[k]] = Promote(@, k)]

\* Variant: the cache grows past its capacity.
PutNew_Unbounded(k, R) ==
  /\ rec[k] = NoRecord
  /\ rec' = [rec EXCEPT ![k] = R]
  /\ lru' = [lru EXCEPT ![ShardOf[k]] = Promote(@, k)]

\* put of a new key: a full cache drops its least recently used entry
\* without reporting it.
PutNew(k, R) ==
  /\ rec[k] = NoRecord
  /\ LET s == ShardOf[k] IN
     \/ /\ Len(lru[s]) < ShardCap
        /\ rec' = [rec EXCEPT ![k] = R]
        /\ lru' = [lru EXCEPT ![s] = Promote(@, k)]
     \/ /\ Len(lru[s]) >= ShardCap
        /\ \E v \in Keys :
             /\ IsLru(s, v)
             /\ rec' = [rec EXCEPT ![v] = NoRecord, ![k] = R]
             /\ lru' = [lru EXCEPT ![s] = Promote(Without(@, v), k)]

(* AtomicUsize *)

FetchAdd == len' = len + 1
FetchSub == len' = IF len = 0 THEN UsizeMax ELSE len - 1

Goto(r, from, to) == pc[r] = from /\ pc' = [pc EXCEPT ![r] = to]

\* A critical section of r on shard s begins, ends, or begins and ends.
Enter(r, s) == lock[s] = NoRequest /\ lock' = [lock EXCEPT ![s] = r]
Leave(s)    == lock' = [lock EXCEPT ![s] = NoRequest]
Pass(s)     == lock[s] = NoRequest /\ UNCHANGED lock

-----------------------------------------------------------------------------
(* Faulty variants of the actions below, each a mistake this code invites. *)

\* Every live record is replayed, finished or not.
LookupLive_ReplayAll(r) ==
  /\ Goto(r, "lookup", "replay")
  /\ Pass(Home(r))
  /\ Store!Live(key[r], called[r])
  /\ lru' = [lru EXCEPT ![Home(r)] = Promote(@, key[r])]
  /\ source' = [source EXCEPT ![r] = rec[key[r]].owner]
  /\ UNCHANGED <<now, rec, len, key, called, cursor>>

\* The mutex is released between the lookup and the put.
LookupStale_Unlocked(r) ==
  /\ Goto(r, "lookup", "capacity")
  /\ Pass(Home(r))
  /\ ~Store!Live(key[r], called[r])
  /\ UNCHANGED <<now, rec, lru, len, key, called, source, cursor>>

\* lock() instead of try_lock() on the other shards.
ScanSkip_Blocking(r) ==
  LET i == cursor[r] IN
  /\ pc[r] = "scan"
  /\ i < NumShards
  /\ i = Home(r) \/ (lock[i] = NoRequest /\ Resident(i) = {})
  /\ cursor' = [cursor EXCEPT ![r] = i + 1]
  /\ UNCHANGED <<now, rec, lru, lock, len, pc, key, called, source>>

\* The guard is dropped before fetch_add.
InsertNew_EarlyUnlock(r) ==
  /\ Goto(r, "put", "insertAdd")
  /\ PutNew(key[r], Store!InProgress(r, called[r]))
  /\ Leave(Home(r))
  /\ UNCHANGED <<now, len, key, called, source, cursor>>

-----------------------------------------------------------------------------
Tick ==
  /\ now < MaxTime
  /\ now' = now + 1
  /\ UNCHANGED <<rec, lru, lock, len, pc, key, called, source, cursor>>

\* check_or_insert reads the clock before it locks the shard.
Call(r, k) ==
  /\ Goto(r, "idle", "lookup")
  /\ key' = [key EXCEPT ![r] = k]
  /\ called' = [called EXCEPT ![r] = now]
  /\ UNCHANGED <<now, rec, lru, lock, len, source, cursor>>

\* The lookup finds a live record: Conflict or Replay.  `get` promotes it.
LookupLive(r) ==
  LET k == key[r] IN
  /\ pc[r] = "lookup"
  /\ Pass(Home(r))
  /\ Store!Live(k, called[r])
  /\ lru' = [lru EXCEPT ![Home(r)] = Promote(@, k)]
  /\ \/ /\ rec[k].state = "InProgress"
        /\ Goto(r, "lookup", "conflict")
        /\ UNCHANGED source
     \/ /\ rec[k].state = "Completed"
        /\ Goto(r, "lookup", "replay")
        /\ source' = [source EXCEPT ![r] = rec[k].owner]
  /\ UNCHANGED <<now, rec, len, key, called, cursor>>

\* No record, or an expired one, which `get` promotes all the same.
LookupStale(r) ==
  LET k == key[r] IN
  /\ Goto(r, "lookup", "capacity")
  /\ ~Store!Live(k, called[r])
  /\ Enter(r, Home(r))
  /\ lru' = IF rec[k] = NoRecord THEN lru ELSE [lru EXCEPT ![Home(r)] = Promote(@, k)]
  /\ UNCHANGED <<now, rec, len, key, called, source, cursor>>

\* len.load(): below max_capacity there is room ...
HasRoom(r) ==
  /\ Goto(r, "capacity", "put")
  /\ len < MaxCapacity
  /\ UNCHANGED <<now, rec, lru, lock, len, key, called, source, cursor>>

\* ... otherwise the own shard gives up its oldest entry ...
EvictHome(r) ==
  /\ Goto(r, "capacity", "evictSub")
  /\ len >= MaxCapacity
  /\ \E v \in Keys : PopLru(Home(r), v)
  /\ UNCHANGED <<now, lock, len, key, called, source, cursor>>

EvictHomeSub(r) ==
  /\ Goto(r, "evictSub", "put")
  /\ FetchSub
  /\ UNCHANGED <<now, rec, lru, lock, key, called, source, cursor>>

\* ... or, if it has none, the first other shard that has one and is not locked.
BeginScan(r) ==
  /\ Goto(r, "capacity", "scan")
  /\ len >= MaxCapacity
  /\ Resident(Home(r)) = {}
  /\ cursor' = [cursor EXCEPT ![r] = 0]
  /\ UNCHANGED <<now, rec, lru, lock, len, key, called, source>>

\* i == shard_idx, try_lock fails, or pop_lru finds nothing.
ScanSkip(r) ==
  LET i == cursor[r] IN
  /\ pc[r] = "scan"
  /\ i < NumShards
  /\ i = Home(r) \/ lock[i] # NoRequest \/ Resident(i) = {}
  /\ cursor' = [cursor EXCEPT ![r] = i + 1]
  /\ UNCHANGED <<now, rec, lru, lock, len, pc, key, called, source>>

ScanEvict(r) ==
  LET i == cursor[r] IN
  /\ Goto(r, "scan", "scanSub")
  /\ i < NumShards /\ i # Home(r)
  /\ Enter(r, i)
  /\ \E v \in Keys : PopLru(i, v)
  /\ UNCHANGED <<now, len, key, called, source, cursor>>

ScanSub(r) ==
  /\ Goto(r, "scanSub", "put")
  /\ FetchSub
  /\ Leave(cursor[r])
  /\ UNCHANGED <<now, rec, lru, key, called, source, cursor>>

ScanEnd(r) ==
  /\ Goto(r, "scan", "put")
  /\ cursor[r] = NumShards
  /\ UNCHANGED <<now, rec, lru, lock, len, key, called, source, cursor>>

\* put replaces the expired record: `len` keeps its value.  Answer: New.
InsertOver(r) ==
  /\ Goto(r, "put", "running")
  /\ PutOver(key[r], Store!InProgress(r, called[r]))
  /\ Leave(Home(r))
  /\ UNCHANGED <<now, len, key, called, source, cursor>>

\* put adds a record, which `len` then counts.  Answer: New.
InsertNew(r) ==
  /\ Goto(r, "put", "insertAdd")
  /\ PutNew(key[r], Store!InProgress(r, called[r]))
  /\ UNCHANGED <<now, lock, len, key, called, source, cursor>>

InsertAdd(r) ==
  /\ Goto(r, "insertAdd", "running")
  /\ FetchAdd
  /\ Leave(Home(r))
  /\ UNCHANGED <<now, rec, lru, key, called, source, cursor>>

\* complete: put, whoever's record is there, and with no capacity check.
CompleteOver(r) ==
  /\ Goto(r, "running", "done")
  /\ Pass(Home(r))
  /\ PutOver(key[r], Store!Completed(r, now))
  /\ UNCHANGED <<now, len, key, called, source, cursor>>

CompleteNew(r) ==
  /\ Goto(r, "running", "completeAdd")
  /\ Enter(r, Home(r))
  /\ PutNew(key[r], Store!Completed(r, now))
  /\ UNCHANGED <<now, len, key, called, source, cursor>>

CompleteAdd(r) ==
  /\ Goto(r, "completeAdd", "done")
  /\ FetchAdd
  /\ Leave(Home(r))
  /\ UNCHANGED <<now, rec, lru, key, called, source, cursor>>

\* remove: pop, whoever's record is there.
RemoveFound(r) ==
  /\ Goto(r, "running", "removeSub")
  /\ Enter(r, Home(r))
  /\ rec[key[r]] # NoRecord
  /\ rec' = [rec EXCEPT ![key[r]] = NoRecord]
  /\ lru' = [lru EXCEPT ![Home(r)] = Without(@, key[r])]
  /\ UNCHANGED <<now, len, key, called, source, cursor>>

RemoveSub(r) ==
  /\ Goto(r, "removeSub", "done")
  /\ FetchSub
  /\ Leave(Home(r))
  /\ UNCHANGED <<now, rec, lru, key, called, source, cursor>>

RemoveAbsent(r) ==
  /\ Goto(r, "running", "done")
  /\ Pass(Home(r))
  /\ rec[key[r]] = NoRecord
  /\ UNCHANGED <<now, rec, lru, len, key, called, source, cursor>>

\* The request ends without complete or remove.
Abandon(r) ==
  /\ Goto(r, "running", "done")
  /\ UNCHANGED <<now, rec, lru, lock, len, key, called, source, cursor>>

-----------------------------------------------------------------------------
check_or_insert(r) ==
  \/ LookupLive(r) \/ LookupStale(r)
  \/ HasRoom(r) \/ EvictHome(r) \/ EvictHomeSub(r)
  \/ BeginScan(r) \/ ScanSkip(r) \/ ScanEvict(r) \/ ScanSub(r) \/ ScanEnd(r)
  \/ InsertOver(r) \/ InsertNew(r) \/ InsertAdd(r)

complete(r) == CompleteOver(r) \/ CompleteNew(r) \/ CompleteAdd(r)

remove(r) == RemoveFound(r) \/ RemoveSub(r) \/ RemoveAbsent(r)

Next ==
  \/ Tick
  \/ \E r \in Requests, k \in Keys : Call(r, k)
  \/ \E r \in Requests : check_or_insert(r) \/ complete(r) \/ remove(r) \/ Abandon(r)

\* A call that has begun is executed by a runnable thread: its next step is
\* taken if it stays possible.  Which call ends a request is the caller's
\* choice, and that the request ends at all is its upstream's.
Fairness ==
  \A r \in Requests :
    WF_vars(check_or_insert(r) \/ CompleteAdd(r) \/ RemoveSub(r))

Spec == Init /\ [][Next]_vars
FairSpec == Spec /\ Fairness
-----------------------------------------------------------------------------
(* Properties *)

Adders      == {r \in Requests : pc[r] \in Adding}
Subtractors == {r \in Requests : pc[r] \in Subtracting}

\* Every record in a shard is counted: `len`, once the additions under way are
\* made, is at least the number of records plus the subtractions under way.
\* It may be more: complete of an evicted key drops the oldest entry of a full
\* shard and counts the new one, so active_record_count can overstate.
LenCoversRecords ==
  len + Cardinality(Adders) >= Cardinality(Present) + Cardinality(Subtractors)

\* A request inside a critical section holds the mutex of its own shard, and
\* while it subtracts for another shard, that one's too.
LocksHeld ==
  \A r \in Requests :
    /\ pc[r] \in HoldsHome => lock[Home(r)] = r
    /\ pc[r] = "scanSub" => cursor[r] < NumShards /\ cursor[r] # Home(r) /\ lock[cursor[r]] = r

\* A record that is put but not yet counted is still there: nobody can take the
\* mutex of its shard to remove it.
UncountedIsPresent == \A r \in Requests : pc[r] \in Adding => key[r] \in Present

\* The inductive invariant behind CounterNeverWraps.
IndInv == TypeOK /\ LocksHeld /\ UncountedIsPresent /\ LenCoversRecords

\* No fetch_sub ever finds the usize counter at 0, where it would wrap to
\* usize::MAX and make every later check_or_insert evict.  This rests on each
\* fetch_add being made before the mutex of its shard is released.
CounterNeverWraps == \A r \in Requests : pc[r] \in Subtracting => len > 0

\* Each shard's LRU list orders exactly the keys it holds a record for, and no
\* shard exceeds the capacity it was built with.  When check_or_insert reaches
\* its put, the capacity check has left room in the shard: inserting a lock
\* never drops another record unaccounted.
ShardOrder ==
  /\ \A s \in Shards :
       /\ {lru[s][i] : i \in DOMAIN lru[s]} = Resident(s)
       /\ Len(lru[s]) = Cardinality(Resident(s))
       /\ Len(lru[s]) <= ShardCap
  /\ \A r \in Requests :
       pc[r] = "put" /\ rec[key[r]] = NoRecord => Len(lru[Home(r)]) < ShardCap

\* check_or_insert is a lock: while every request made on a key is younger than
\* the ttl, and the cache is larger than the number of keys in use, at most
\* one of the requests on that key is executing.
Exclusive ==
  Cardinality(Keys) < MaxCapacity =>
    \A k \in Keys :
      LET users == {r \in Requests : key[r] = k} IN
      (\A r \in users : now - called[r] < Store!TtlSecs) =>
        Cardinality({r \in users : PhaseOf(pc[r]) = "running"}) <= 1

\* The sharded cache does only what the abstract engine may do: answers are
\* decided against the record that is there when the new one is put, and
\* records disappear only by eviction, remove or one silent drop in complete,
\* and by neither eviction nor drop while the keys in use fit max_capacity.
ImplementsStore == Store!StoreSpec

\* Every call returns: a thread that holds its own shard's mutex only ever
\* try_locks the others, so two scanning threads cannot wait for each other.
CallsReturn ==
  \A r \in Requests :
    pc[r] \in HoldsHome \union {"lookup"} ~> pc[r] \in {"running", "conflict", "replay", "done"}

=============================================================================
