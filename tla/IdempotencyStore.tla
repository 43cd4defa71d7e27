--------------------------- MODULE IdempotencyStore ---------------------------
(***************************************************************************)
(* What the idempotency engine (src/idempotency/mod.rs) promises its       *)
(* caller, without shards, LRU order, counters or locks: a table from keys *)
(* to records.  A request calls check_or_insert once; if the answer is New *)
(* it executes the operation and afterwards calls complete or remove, or   *)
(* is dropped without either.  The engine may forget a record (eviction).  *)
(*                                                                         *)
(* The hybrid timestamp stored with a record is unique per request, so the *)
(* request itself stands for it: a record's "owner" is the request whose   *)
(* hlc (and, once Completed, whose response) it carries.                   *)
(***************************************************************************)
EXTENDS Integers, FiniteSets

CONSTANTS
  Requests,   \* requests the gateway handles
  Keys,       \* idempotency keys and fingerprints
  Ttl,        \* configured ttl, in seconds
  MaxTime,    \* bound: the wall clock stops here
  NoRequest,  \* not a request
  NoKey,      \* not a key: key[r] before r calls the engine
  Evictable   \* the keys whose records the engine may drop for lack of room

ASSUME StoreAssumption ==
  /\ IsFiniteSet(Requests) /\ IsFiniteSet(Keys)
  /\ Ttl \in Nat /\ MaxTime \in Nat
  /\ NoRequest \notin Requests /\ NoKey \notin Keys
  /\ Evictable \subseteq Keys

VARIABLES
  now,        \* wall clock, in seconds
  rec,        \* rec[k]: the record of key k, or NoRecord
  phase,      \* phase[r]: where request r is in its dealings with the engine
  key,        \* key[r]: the key r called check_or_insert with
  called,     \* called[r]: the clock when r made that call
  source      \* source[r]: the request whose response r was given as a replay

storeVars == <<now, rec, phase, key, called, source>>

\* self.ttl.as_secs().max(1)
TtlSecs == IF Ttl = 0 THEN 1 ELSE Ttl

Phases == {"idle", "checking", "running", "conflict", "replay", "done"}

NoRecord == [state |-> "None", owner |-> NoRequest, at |-> 0]

Records ==
  {NoRecord} \union [state: {"InProgress", "Completed"}, owner: Requests, at: 0..MaxTime]

InProgress(r, t) == [state |-> "InProgress", owner |-> r, at |-> t]
Completed(r, t)  == [state |-> "Completed", owner |-> r, at |-> t]

\* now_secs.saturating_sub(at) < ttl_secs
Fresh(R, t) == t - R.at < TtlSecs

\* The record a check_or_insert that read clock t must honour.
Live(k, t) == rec[k] # NoRecord /\ Fresh(rec[k], t)

StoreTypeOK ==
  /\ now \in 0..MaxTime
  /\ rec \in [Keys -> Records]
  /\ phase \in [Requests -> Phases]
  /\ key \in [Requests -> Keys \union {NoKey}]
  /\ called \in [Requests -> 0..MaxTime]
  /\ source \in [Requests -> Requests \union {NoRequest}]

StoreInit ==
  /\ now = 0
  /\ rec = [k \in Keys |-> NoRecord]
  /\ phase = [r \in Requests |-> "idle"]
  /\ key = [r \in Requests |-> NoKey]
  /\ called = [r \in Requests |-> 0]
  /\ source = [r \in Requests |-> NoRequest]

-----------------------------------------------------------------------------
To(r, from, to) == phase[r] = from /\ phase' = [phase EXCEPT ![r] = to]

Tick ==
  /\ now < MaxTime
  /\ now' = now + 1
  /\ UNCHANGED <<rec, phase, key, called, source>>

\* check_or_insert is entered and reads the clock.
Call(r, k) ==
  /\ To(r, "idle", "checking")
  /\ key' = [key EXCEPT ![r] = k]
  /\ called' = [called EXCEPT ![r] = now]
  /\ UNCHANGED <<now, rec, source>>

\* ... and answers New: nobody's record was live.
Acquire(r) ==
  /\ To(r, "checking", "running")
  /\ ~Live(key[r], called[r])
  /\ rec' = [rec EXCEPT ![key[r]] = InProgress(r, called[r])]
  /\ UNCHANGED <<now, key, called, source>>

\* ... or Conflict: the operation is in flight.
Conflict(r) ==
  /\ To(r, "checking", "conflict")
  /\ Live(key[r], called[r])
  /\ rec[key[r]].state = "InProgress"
  /\ UNCHANGED <<now, rec, key, called, source>>

\* ... or Replay: the operation completed, and its response is returned.
Replay(r) ==
  /\ To(r, "checking", "replay")
  /\ Live(key[r], called[r])
  /\ rec[key[r]].state = "Completed"
  /\ source' = [source EXCEPT ![r] = rec[key[r]].owner]
  /\ UNCHANGED <<now, rec, key, called>>

\* complete caches the response; at most one other record makes room for it.
Complete(r) ==
  /\ To(r, "running", "done")
  /\ \E drop \in {{}} \union {{k} : k \in Evictable \ {key[r]}} :
       rec' = [k \in Keys |-> IF k = key[r] THEN Completed(r, now)
                              ELSE IF k \in drop THEN NoRecord ELSE rec[k]]
  /\ UNCHANGED <<now, key, called, source>>

Remove(r) ==
  /\ To(r, "running", "done")
  /\ rec' = [rec EXCEPT ![key[r]] = NoRecord]
  /\ UNCHANGED <<now, key, called, source>>

\* The request ends without telling the engine.
Abandon(r) ==
  /\ To(r, "running", "done")
  /\ UNCHANGED <<now, rec, key, called, source>>

Evict(k) ==
  /\ k \in Evictable
  /\ rec[k] # NoRecord
  /\ rec' = [rec EXCEPT ![k] = NoRecord]
  /\ UNCHANGED <<now, phase, key, called, source>>

StoreNext ==
  \/ Tick
  \/ \E r \in Requests, k \in Keys : Call(r, k)
  \/ \E r \in Requests :
       Acquire(r) \/ Conflict(r) \/ Replay(r) \/ Complete(r) \/ Remove(r) \/ Abandon(r)
  \/ \E k \in Keys : Evict(k)

StoreSpec == StoreInit /\ [][StoreNext]_storeVars
=============================================================================
