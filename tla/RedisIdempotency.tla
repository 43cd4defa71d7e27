---------------------------- MODULE RedisIdempotency ----------------------------
(***************************************************************************)
(* The Redis backend of IdempotencyEngine (src/idempotency/mod.rs) and the *)
(* connection it uses (RespClient, src/telemetry/resp.rs).  Several        *)
(* gateways share one server.  Each command is executed or not, and its    *)
(* reply arrives or the caller sees an error: a command whose reply is     *)
(* lost may have been executed.  check_or_insert fails open: whatever goes *)
(* wrong, its answer is New.                                               *)
(*                                                                         *)
(* A step is one command, or one step of the connection's OnceCell.  The   *)
(* server drops a record when its EX has run out, counted in ticks, and    *)
(* may lose everything in a restart.                                       *)
(***************************************************************************)
EXTENDS Integers, FiniteSets

CONSTANTS
  Requests,   \* requests, over all gateways
  Keys,       \* idempotency keys and fingerprints
  Gateways,   \* processes, each with its own RespClient
  GatewayOf,  \* GatewayOf[r]: the gateway that handles r
  Ttl,        \* configured ttl, in ticks
  NoRequest,  \* not a request
  NoKey       \* not a key

ASSUME RedisAssumption ==
  /\ IsFiniteSet(Requests)
  /\ GatewayOf \in [Requests -> Gateways]
  /\ Ttl \in Nat
  /\ NoRequest \notin Requests /\ NoKey \notin Keys
  /\ "empty" \notin Requests /\ "ready" \notin Requests

VARIABLES
  rec,      \* rec[k]: what the server holds under key k
  manager,  \* manager[g]: the OnceCell of g: "empty", "ready", or the request that fills it
  pc,       \* pc[r]: where request r is
  op,       \* op[r]: the call r is making, or made last
  key,      \* key[r]: the key of r's calls
  losses    \* losses[k]: history, the faults that have met key k

vars == <<rec, manager, pc, op, key, losses>>

\* self.ttl.as_secs().max(1)
TtlSecs == IF Ttl = 0 THEN 1 ELSE Ttl

NoRecord == [state |-> "None", owner |-> NoRequest, left |-> 0]

\* A record is known by the request whose hlc it carries.
Record(s, r) == [state |-> s, owner |-> r, left |-> TtlSecs]

Records == {NoRecord} \union
  [state: {"InProgress", "Completed"}, owner: Requests, left: 1..TtlSecs]

PCs == {"idle", "connect", "init", "send", "get", "running", "conflict", "replay", "done"}

Calling == {"connect", "init", "send", "get"}

TypeOK ==
  /\ rec \in [Keys -> Records]
  /\ manager \in [Gateways -> {"empty", "ready"} \union Requests]
  /\ pc \in [Requests -> PCs]
  /\ op \in [Requests -> {"none", "check", "complete", "remove", "drop"}]
  /\ key \in [Requests -> Keys \union {NoKey}]
  /\ losses \in [Keys -> Nat]

Init ==
  /\ rec = [k \in Keys |-> NoRecord]
  /\ manager = [g \in Gateways |-> "empty"]
  /\ pc = [r \in Requests |-> "idle"]
  /\ op = [r \in Requests |-> "none"]
  /\ key = [r \in Requests |-> NoKey]
  /\ losses = [k \in Keys |-> 0]

-----------------------------------------------------------------------------
\* r was answered New, and its operation has not been reported as failed: it
\* is being executed or has succeeded.
Executing(r) ==
  \/ pc[r] = "running"
  \/ op[r] \in {"complete", "remove"} /\ pc[r] \in Calling
  \/ op[r] = "complete" /\ pc[r] = "done"

Executions(k) == {r \in Requests : key[r] = k /\ Executing(r)}

Goto(r, from, to) == pc[r] = from /\ pc' = [pc EXCEPT ![r] = to]

\* The answer of r's check_or_insert is New although no lock was confirmed.
FailOpen(r) == losses' = [losses EXCEPT ![key[r]] = @ + 1]

\* The server drops the records of the keys K.
Drop(K, aged) ==
  /\ rec' = [k \in Keys |-> IF k \in K THEN NoRecord ELSE aged[k]]
  /\ losses' = [k \in Keys |-> IF k \in K /\ rec[k].owner \in Executions(k)
                               THEN losses[k] + 1 ELSE losses[k]]

-----------------------------------------------------------------------------
(* Faulty variants of the actions below, each a mistake this code invites. *)

\* SET without NX.
SetNx_Overwrites(r) ==
  /\ op[r] = "check"
  /\ Goto(r, "send", "running")
  /\ rec' = [rec EXCEPT ![key[r]] = Record("InProgress", r)]
  /\ UNCHANGED <<manager, op, key, losses>>

\* A failed initialisation does not give the cell's permit back.
InitFails_KeepsPermit(r) ==
  /\ pc[r] = "init"
  /\ \/ op[r] = "check" /\ Goto(r, "init", "running") /\ FailOpen(r)
     \/ op[r] # "check" /\ Goto(r, "init", "done") /\ UNCHANGED losses
  /\ UNCHANGED <<rec, manager, op, key>>

-----------------------------------------------------------------------------
(* RespClient::get_connection: a OnceCell, filled by one caller at a time *)

\* The cell is filled: the manager is cloned.
Connected(r) ==
  /\ manager[GatewayOf[r]] = "ready"
  /\ Goto(r, "connect", "send")
  /\ UNCHANGED <<rec, manager, op, key, losses>>

BeginInit(r) ==
  /\ manager[GatewayOf[r]] = "empty"
  /\ Goto(r, "connect", "init")
  /\ manager' = [manager EXCEPT ![GatewayOf[r]] = r]
  /\ UNCHANGED <<rec, op, key, losses>>

InitOk(r) ==
  /\ Goto(r, "init", "send")
  /\ manager' = [manager EXCEPT ![GatewayOf[r]] = "ready"]
  /\ UNCHANGED <<rec, op, key, losses>>

\* The error goes to this caller; the next one tries again.
InitFails(r) ==
  /\ pc[r] = "init"
  /\ manager' = [manager EXCEPT ![GatewayOf[r]] = "empty"]
  /\ \/ op[r] = "check" /\ Goto(r, "init", "running") /\ FailOpen(r)
     \/ op[r] # "check" /\ Goto(r, "init", "done") /\ UNCHANGED losses
  /\ UNCHANGED <<rec, op, key>>

-----------------------------------------------------------------------------
(* check_or_insert *)

Check(r, k) ==
  /\ Goto(r, "idle", "connect")
  /\ op' = [op EXCEPT ![r] = "check"]
  /\ key' = [key EXCEPT ![r] = k]
  /\ UNCHANGED <<rec, manager, losses>>

\* SET NX EX: the lock is set and confirmed, or the key exists.
SetNx(r) ==
  /\ pc[r] = "send" /\ op[r] = "check"
  /\ \/ /\ rec[key[r]] = NoRecord
        /\ Goto(r, "send", "running")
        /\ rec' = [rec EXCEPT ![key[r]] = Record("InProgress", r)]
     \/ /\ rec[key[r]] # NoRecord
        /\ Goto(r, "send", "get")
        /\ UNCHANGED rec
  /\ UNCHANGED <<manager, op, key, losses>>

\* SET NX ends in an error, executed or not: New.
SetNxFails(r) ==
  /\ op[r] = "check"
  /\ Goto(r, "send", "running")
  /\ \/ UNCHANGED rec
     \/ /\ rec[key[r]] = NoRecord
        /\ rec' = [rec EXCEPT ![key[r]] = Record("InProgress", r)]
  /\ FailOpen(r)
  /\ UNCHANGED <<manager, op, key>>

\* GET finds a lock or a response, by now perhaps another one.
Get(r) ==
  /\ \/ Goto(r, "get", "conflict") /\ rec[key[r]].state = "InProgress"
     \/ Goto(r, "get", "replay") /\ rec[key[r]].state = "Completed"
  /\ UNCHANGED <<rec, manager, op, key, losses>>

\* GET finds nothing any more: New, and no lock is set.
GetNothing(r) ==
  /\ Goto(r, "get", "running")
  /\ rec[key[r]] = NoRecord
  /\ FailOpen(r)
  /\ UNCHANGED <<rec, manager, op, key>>

GetFails(r) ==
  /\ Goto(r, "get", "running")
  /\ FailOpen(r)
  /\ UNCHANGED <<rec, manager, op, key>>

-----------------------------------------------------------------------------
(* complete and remove: errors are dropped *)

Complete(r) ==
  /\ Goto(r, "running", "connect")
  /\ op' = [op EXCEPT ![r] = "complete"]
  /\ UNCHANGED <<rec, manager, key, losses>>

SetCompleted(r) ==
  /\ op[r] = "complete"
  /\ Goto(r, "send", "done")
  /\ rec' = [rec EXCEPT ![key[r]] = Record("Completed", r)]
  /\ UNCHANGED <<manager, op, key, losses>>

Remove(r) ==
  /\ Goto(r, "running", "connect")
  /\ op' = [op EXCEPT ![r] = "remove"]
  /\ UNCHANGED <<rec, manager, key, losses>>

Del(r) ==
  /\ op[r] = "remove"
  /\ Goto(r, "send", "done")
  /\ rec' = [rec EXCEPT ![key[r]] = NoRecord]
  /\ UNCHANGED <<manager, op, key, losses>>

\* The command is not executed, and nobody is told.
CommandLost(r) ==
  /\ op[r] \in {"complete", "remove"}
  /\ Goto(r, "send", "done")
  /\ UNCHANGED <<rec, manager, op, key, losses>>

\* The request ends without either call.
Abandon(r) ==
  /\ Goto(r, "running", "done")
  /\ op' = [op EXCEPT ![r] = "drop"]
  /\ UNCHANGED <<rec, manager, key, losses>>

-----------------------------------------------------------------------------
(* The server *)

Tick ==
  /\ \E k \in Keys : rec[k] # NoRecord
  /\ Drop({k \in Keys : rec[k].left <= 1},
          [k \in Keys |-> [rec[k] EXCEPT !.left = @ - 1]])
  /\ UNCHANGED <<manager, pc, op, key>>

\* A restart without persistence.
ServerRestarts ==
  /\ Drop(Keys, rec)
  /\ UNCHANGED <<manager, pc, op, key>>

get_connection(r) == Connected(r) \/ BeginInit(r) \/ InitOk(r) \/ InitFails(r)

\* The next step of a call under way.
Continue(r) ==
  \/ get_connection(r)
  \/ SetNx(r) \/ SetNxFails(r) \/ Get(r) \/ GetNothing(r) \/ GetFails(r)
  \/ SetCompleted(r) \/ Del(r) \/ CommandLost(r)

Next ==
  \/ \E r \in Requests, k \in Keys : Check(r, k)
  \/ \E r \in Requests : Continue(r) \/ Complete(r) \/ Remove(r) \/ Abandon(r)
  \/ Tick \/ ServerRestarts

Spec == Init /\ [][Next]_vars

\* Tasks are runnable, and a connection attempt or a command ends, if only in
\* an error.
Fairness == \A r \in Requests : WF_vars(Continue(r))

FairSpec == Spec /\ Fairness
-----------------------------------------------------------------------------
(* Properties *)

\* The executions on k that the record under k does not stand for.
Unrecorded(k) == Executions(k) \ {rec[k].owner}

\* A cell is being filled by the one caller that is filling it, and a request
\* that has called has a key.
CallsInv ==
  \A r \in Requests :
    /\ pc[r] = "init" <=> manager[GatewayOf[r]] = r
    /\ pc[r] = "idle" <=> op[r] = "none"
    /\ pc[r] # "idle" => key[r] \in Keys
    /\ pc[r] \in {"running", "get", "conflict", "replay"} => op[r] = "check"

\* A completion or removal by a request that has lost its lock puts another
\* execution into its place: the number without a record does not grow.
UnrecordedArePaid == \A k \in Keys : Cardinality(Unrecorded(k)) <= losses[k]

\* The inductive invariant behind OverlapIsPaid.
RedisInv == TypeOK /\ CallsInv /\ UnrecordedArePaid

\* Failing open is bounded: of the requests with one key, over all gateways, at
\* most one executes or has succeeded, plus one for each fault that met the key
\* (an answer given without a confirmed lock, a record in use that expired or
\* was lost).  remove and complete by stale owners, commands executed without a
\* reply and dropped errors shift locks around and never multiply executions.
OverlapIsPaid == \A k \in Keys : Cardinality(Executions(k)) <= 1 + losses[k]

\* Every call returns, also when no connection is ever made: the failure of the
\* caller that fills the OnceCell lets the next one try.
CallsReturn ==
  \A r \in Requests : pc[r] \in Calling ~> pc[r] \in {"running", "conflict", "replay", "done"}
=============================================================================
