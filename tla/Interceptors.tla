---------------------------- MODULE Interceptors ----------------------------
(***************************************************************************)
(* The request and the response interceptor pipelines                      *)
(* (src/interceptors/request.rs, response.rs) and the WASM plugin behind   *)
(* one of their interceptors, with its circuit breaker (evaluators/wasm.rs)*)
(*                                                                         *)
(* A call is one run of a pipeline on a worker thread.  Its interceptors   *)
(* are the plugin and rules (native, CEL and RBAC), whose verdicts on the  *)
(* request or response are choices here.  The breaker keeps an atomic      *)
(* counter and two values behind two RwLocks, so a step of a call is one   *)
(* access to one of them.                                                  *)
(*                                                                         *)
(* One Tick stands for the passing of time for everything that waits: the  *)
(* cool-off of the breaker and the epochs of the ticker thread.            *)
(* Exact abstractions: the counter stops at Threshold, the only number it  *)
(* is compared with, and an age stops at Cooloff.  A configuration reload  *)
(* builds a new evaluator with new breakers; calls in flight keep the old  *)
(* one and share nothing with the new, so each evaluator is one behaviour  *)
(* of this module.                                                         *)
(***************************************************************************)
EXTENDS Integers, Sequences

CONSTANTS
  Calls,      \* worker threads that run pipelines
  Pipes,      \* the kinds of the interceptors of each stage, in order
  Threshold,  \* consecutive_failure_threshold
  Cooloff,    \* cooloff_duration, in ticks
  Deadline    \* deadline_ticks of a guest call

Stages == {"request", "response"}
Kinds == {"native", "sensitive", "cel", "celAudit", "rbac", "wasm", "unregistered"}

ASSUME InterceptorsAssumption ==
  /\ Pipes \in [Stages -> Seq(Kinds)]
  /\ \A s \in Stages : Len(Pipes[s]) > 0
  /\ Threshold \in Nat /\ Cooloff \in Nat /\ Deadline \in Nat \ {0}

VARIABLES
  state,     \* CircuitState
  failures,  \* consecutive failures, at most Threshold
  tripped,   \* ticks since last_tripped_at, or None
  failMode,  \* fail_mode of the plugin
  health,    \* what the plugin does to calls that start now
  pc,        \* pc[c]: where c is
  stage,     \* stage[c]: the pipeline c runs
  pos,       \* pos[c]: the interceptor c is at
  audit,     \* audit[c]: some rule answered Audit
  changed,   \* changed[c]: the plugin replaced the headers or the body
  seen,      \* seen[c]: ticks since the trip c read
  left,      \* left[c]: epochs to the deadline of c's guest call
  guest,     \* guest[c]: what the plugin does to c
  over,      \* over[c]: c's failure reached the threshold
  verdict,   \* verdict[c]: the outcome of c's last pipeline
  vouched,   \* history: the interceptors that themselves let c go on
  shut,      \* history: the circuit was open at every instant of can_execute
  entry      \* history: ticks since the trip before c called can_execute

breaker == <<state, failures, tripped>>
local == <<stage, pos, audit, changed, seen, left, guest, over, verdict, vouched>>
history == <<shut, entry>>
vars == <<breaker, failMode, health, pc, local, history>>

None == -1

\* The steps of can_execute.
Asking == {"state", "tripped", "elapsed", "take"}
Steps == {"idle", "next", "guest", "zero", "close", "add", "trip"} \union Asking

Pipe(c) == Pipes[stage[c]]

TypeOK ==
  /\ state \in {"Closed", "Open", "HalfOpen"}
  /\ failures \in 0..Threshold
  /\ tripped \in 0..Cooloff \union {None}
  /\ failMode \in {"FailClosed", "FailOpen"}
  /\ health \in {"ok", "traps", "loops"}
  /\ pc \in [Calls -> Steps]
  /\ stage \in [Calls -> Stages]
  /\ pos \in [Calls -> Nat]
  /\ \A c \in Calls : pos[c] \in 1..Len(Pipe(c))
  /\ audit \in [Calls -> BOOLEAN]
  /\ changed \in [Calls -> BOOLEAN]
  /\ seen \in [Calls -> 0..Cooloff]
  /\ left \in [Calls -> 0..Deadline]
  /\ guest \in [Calls -> {"ok", "traps", "loops"}]
  /\ over \in [Calls -> BOOLEAN]
  /\ verdict \in [Calls -> {"none", "Pass", "Reject", "Audit", "Transform"}]
  /\ vouched \in [Calls -> SUBSET Nat]
  /\ shut \in [Calls -> BOOLEAN]
  /\ entry \in [Calls -> 0..Cooloff]

Init ==
  /\ state = "Closed" /\ failures = 0 /\ tripped = None
  /\ failMode \in {"FailClosed", "FailOpen"}
  /\ health = "ok"
  /\ pc = [c \in Calls |-> "idle"]
  /\ stage = [c \in Calls |-> "request"]
  /\ pos = [c \in Calls |-> 1]
  /\ audit = [c \in Calls |-> FALSE]
  /\ changed = [c \in Calls |-> FALSE]
  /\ seen = [c \in Calls |-> 0]
  /\ left = [c \in Calls |-> 0]
  /\ guest = [c \in Calls |-> "ok"]
  /\ over = [c \in Calls |-> FALSE]
  /\ verdict = [c \in Calls |-> "none"]
  /\ vouched = [c \in Calls |-> {}]
  /\ shut = [c \in Calls |-> FALSE]
  /\ entry = [c \in Calls |-> 0]

-----------------------------------------------------------------------------
(* The pipelines. *)

Goto(c, from, to) == pc[c] = from /\ pc' = [pc EXCEPT ![c] = to]

\* Does a verdict end the pipeline?
Stops(c, v) == v = "Reject" \/ (stage[c] = "request" /\ v = "Transform")

\* What a pipeline answers whose interceptors have all been asked.
Outcome(c, audited, new) ==
  IF stage[c] = "response" /\ new THEN "Transform"
  ELSE IF audited THEN "Audit" ELSE "Pass"

\* c's interceptor answers v, with something new in a Transform or without; own
\* says whether it was asked at all or the fail mode answered in its place.
Answer(c, v, new, own) ==
  LET audited  == audit[c] \/ v = "Audit"
      replaced == changed[c] \/ new
      ends     == Stops(c, v) \/ pos[c] = Len(Pipe(c))
  IN /\ pc' = [pc EXCEPT ![c] = IF ends THEN "idle" ELSE "next"]
     /\ pos' = [pos EXCEPT ![c] = IF ends THEN 1 ELSE @ + 1]
     /\ audit' = [audit EXCEPT ![c] = audited /\ ~ends]
     /\ changed' = [changed EXCEPT ![c] = replaced /\ ~ends]
     /\ vouched' = [vouched EXCEPT ![c] = IF own /\ v # "Reject" THEN @ \union {pos[c]} ELSE @]
     /\ verdict' = [verdict EXCEPT ![c] =
                      IF Stops(c, v) THEN v ELSE IF ends THEN Outcome(c, audited, replaced) ELSE @]
     \* the locals of the interceptor's own call end with it
     /\ seen' = [seen EXCEPT ![c] = 0]
     /\ left' = [left EXCEPT ![c] = 0]
     /\ guest' = [guest EXCEPT ![c] = "ok"]
     /\ over' = [over EXCEPT ![c] = FALSE]
     /\ UNCHANGED <<stage, failMode, health>>

\* The gateway runs the pipeline of stage s.
Start(c, s) ==
  /\ Goto(c, "idle", "next")
  /\ stage' = [stage EXCEPT ![c] = s]
  /\ verdict' = [verdict EXCEPT ![c] = "none"]
  /\ vouched' = [vouched EXCEPT ![c] = {}]
  /\ UNCHANGED <<breaker, failMode, health, pos, audit, changed, seen, left, guest, over>>

\* The verdicts of the rules: syntax, header and deploy-token checks; the scan
\* for sensitive data; a CEL rule, which rejects or audits according to its
\* action, and on an evaluation error rejects or passes; RBAC (see AuthCache);
\* and a plugin that is not registered, whatever its fail mode.
NativeVerdicts == {"Pass", "Reject"}
SensitiveVerdicts == {"Pass", "Reject"}
CelVerdicts(action) == IF action = "Audit" THEN {"Pass", "Audit"} ELSE {"Pass", "Reject"}

RuleVerdicts(kind) ==
  CASE kind = "native"    -> NativeVerdicts
    [] kind = "sensitive" -> SensitiveVerdicts
    [] kind = "cel"       -> CelVerdicts("Reject")
    [] kind = "celAudit"  -> CelVerdicts("Audit")
    [] kind = "rbac"      -> {"Pass", "Reject", "Audit"}
    [] kind = "unregistered" -> {"Reject"}
    [] OTHER              -> {}

Rule(c) ==
  /\ pc[c] = "next"
  /\ \E v \in RuleVerdicts(Pipe(c)[pos[c]]) : Answer(c, v, FALSE, TRUE)
  /\ UNCHANGED breaker

-----------------------------------------------------------------------------
(* The plugin. *)

\* Faulty variant: the fail modes are swapped.
FailModeAnswers_Swapped(c) ==
  Answer(c, IF failMode = "FailOpen" THEN "Reject" ELSE "Pass", FALSE, FALSE)

\* The answer of a plugin that is blocked or has failed.
FailModeAnswers(c) ==
  Answer(c, IF failMode = "FailOpen" THEN "Pass" ELSE "Reject", FALSE, FALSE)

\* A step of can_execute that decides nothing.
MoveOn(c, from, to) == Goto(c, from, to) /\ UNCHANGED <<failMode, health, local>>

\* intercept_request and intercept_response fetch the plugin, which is registered.
LookupPlugin(c) ==
  /\ Pipe(c)[pos[c]] = "wasm"
  /\ MoveOn(c, "next", "state")
  /\ UNCHANGED breaker

\* The permission is given: invoke_guest calls the guest.  "loops" is any guest
\* that does not return before its epoch deadline, which matters to no other.
Invoke(c) ==
  /\ pc' = [pc EXCEPT ![c] = "guest"]
  /\ guest' = [guest EXCEPT ![c] = health]
  /\ left' = [left EXCEPT ![c] = IF health = "loops" THEN Deadline ELSE 0]
  /\ seen' = [seen EXCEPT ![c] = 0]
  /\ UNCHANGED <<failMode, health, stage, pos, audit, changed, over, verdict, vouched>>

\* can_execute reads the state.
ReadState(c) ==
  /\ pc[c] = "state"
  /\ IF state = "Open" THEN MoveOn(c, "state", "tripped") ELSE Invoke(c)
  /\ UNCHANGED breaker

\* It reads last_tripped_at, outside the lock of the state.
ReadTripped(c) ==
  /\ pc[c] = "tripped"
  /\ IF tripped = None
       THEN FailModeAnswers(c)
       ELSE /\ Goto(c, "tripped", "elapsed")
            /\ seen' = [seen EXCEPT ![c] = tripped]
            /\ UNCHANGED <<failMode, health, stage, pos, audit, changed, left, guest, over, verdict, vouched>>
  /\ UNCHANGED breaker

\* Faulty variant: the cool-off is not compared.
CheckElapsed_Always(c) ==
  /\ pc[c] = "elapsed"
  /\ MoveOn(c, "elapsed", "take")
  /\ UNCHANGED breaker

\* It compares what it read with the clock.
CheckElapsed(c) ==
  /\ pc[c] = "elapsed"
  /\ IF seen[c] >= Cooloff THEN MoveOn(c, "elapsed", "take") ELSE FailModeAnswers(c)
  /\ UNCHANGED breaker

\* It takes the write lock and looks at the state again.
TakeProbe(c) ==
  /\ pc[c] = "take"
  /\ \/ state = "Open" /\ state' = "HalfOpen" /\ Invoke(c)
     \/ state # "Open" /\ UNCHANGED state /\ FailModeAnswers(c)
  /\ UNCHANGED <<failures, tripped>>

\* The guest returns a verdict, traps or breaks the contract, or is stopped by
\* the epoch deadline.
GuestReturns(c) ==
  /\ \/ guest[c] = "ok" /\ MoveOn(c, "guest", "zero")
     \/ guest[c] = "traps" /\ MoveOn(c, "guest", "add")
     \/ guest[c] = "loops" /\ left[c] = 0 /\ MoveOn(c, "guest", "add")
  /\ UNCHANGED breaker

\* record_success resets the counter,
StoreZero(c) ==
  /\ MoveOn(c, "zero", "close")
  /\ failures' = 0
  /\ UNCHANGED <<state, tripped>>

\* Faulty variant: a success resets the counter only.
CloseCircuit_Counter(c, v, new) ==
  /\ pc[c] = "close"
  /\ Answer(c, v, new, TRUE)
  /\ UNCHANGED breaker

\* then closes the circuit under the lock; parse_verdict yields the verdict v.
CloseCircuit(c, v, new) ==
  /\ pc[c] = "close"
  /\ state' = "Closed"
  /\ Answer(c, v, new, TRUE)
  /\ UNCHANGED <<failures, tripped>>

\* Faulty variant: the counter is set, not incremented.
FetchAdd_Store(c) ==
  /\ Goto(c, "add", "trip")
  /\ over' = [over EXCEPT ![c] = 1 >= Threshold]
  /\ failures' = 1
  /\ UNCHANGED <<state, tripped, failMode, health, stage, pos, audit, changed, seen, left, guest, verdict,
                 vouched>>

\* record_failure counts,
FetchAdd(c) ==
  /\ Goto(c, "add", "trip")
  /\ over' = [over EXCEPT ![c] = failures + 1 >= Threshold]
  /\ failures' = IF failures < Threshold THEN failures + 1 ELSE failures
  /\ UNCHANGED <<state, tripped, failMode, health, stage, pos, audit, changed, seen, left, guest, verdict,
                 vouched>>

\* then trips the circuit under the lock; handle_execution_error answers.
Trip(c) ==
  /\ pc[c] = "trip"
  /\ \/ /\ state = "HalfOpen" \/ over[c]
        /\ state' = "Open" /\ tripped' = 0
     \/ /\ state # "HalfOpen" /\ ~over[c]
        /\ UNCHANGED <<state, tripped>>
  /\ FailModeAnswers(c)
  /\ UNCHANGED failures

-----------------------------------------------------------------------------
(* Time, the plugin's behaviour, and the history. *)

Older(t) == IF t < Cooloff THEN t + 1 ELSE t

\* Faulty variant: the ticker thread does not increment the epoch.
Tick_NoEpoch ==
  /\ tripped' = IF tripped = None THEN None ELSE Older(tripped)
  /\ seen' = [c \in Calls |-> IF pc[c] = "elapsed" THEN Older(seen[c]) ELSE seen[c]]
  /\ UNCHANGED <<state, failures, failMode, health, pc, stage, pos, audit, changed, left, guest, over,
                 verdict, vouched>>

\* Time passes and the ticker thread increments the epoch.
Tick ==
  /\ tripped' = IF tripped = None THEN None ELSE Older(tripped)
  /\ seen' = [c \in Calls |-> IF pc[c] = "elapsed" THEN Older(seen[c]) ELSE seen[c]]
  /\ left' = [c \in Calls |-> IF left[c] > 0 THEN left[c] - 1 ELSE 0]
  /\ UNCHANGED <<state, failures, failMode, health, pc, stage, pos, audit, changed, guest, over, verdict,
                 vouched>>

\* The plugin begins to fail, or recovers: its input or its dependencies change.
HealthChanges ==
  /\ health' \in {"ok", "traps", "loops"} \ {health}
  /\ UNCHANGED <<breaker, failMode, pc, local>>

\* The history of the calls inside can_execute.
Watch(ticks) ==
  /\ shut' = [c \in Calls |->
       CASE pc[c] = "next" /\ pc'[c] = "state" -> state = "Open"
         [] pc'[c] \in Asking /\ pc[c] # "next" -> shut[c] /\ state' = "Open"
         [] OTHER -> FALSE]
  /\ entry' = [c \in Calls |->
       CASE pc[c] = "next" /\ pc'[c] = "state" -> IF tripped = None THEN 0 ELSE tripped
         [] pc'[c] \in Asking /\ pc[c] # "next" -> IF ticks THEN Older(entry[c]) ELSE entry[c]
         [] OTHER -> 0]

CallStep(c) ==
  \/ Rule(c)
  \/ LookupPlugin(c) \/ ReadState(c) \/ ReadTripped(c) \/ CheckElapsed(c) \/ TakeProbe(c)
  \/ GuestReturns(c)
  \/ StoreZero(c)
  \/ \E v \in {"Pass", "Reject"} : CloseCircuit(c, v, FALSE)
  \/ \E new \in BOOLEAN : CloseCircuit(c, "Transform", new)
  \/ FetchAdd(c) \/ Trip(c)

Next ==
  \/ /\ \/ \E c \in Calls, s \in Stages : Start(c, s)
        \/ \E c \in Calls : CallStep(c)
        \/ HealthChanges
     /\ Watch(FALSE)
  \/ Tick /\ Watch(TRUE)

Spec == Init /\ [][Next]_vars

\* Threads run, and time passes.  Nothing is assumed of the traffic or of the
\* plugin: the deadline ends a call whose guest does not return.
FairSpec ==
  /\ Spec
  /\ \A c \in Calls : WF_vars(CallStep(c) /\ Watch(FALSE))
  /\ WF_vars(Tick /\ Watch(TRUE))

-----------------------------------------------------------------------------
(* Properties. *)

Needed(c, i) == Pipe(c)[i] # "wasm" \/ failMode = "FailClosed"

\* What holds of a call wherever it is.
CallInv(c) ==
  /\ pc[c] = "idle" => pos[c] = 1
  /\ pc[c] \notin {"idle", "next"} => Pipe(c)[pos[c]] = "wasm"
  /\ pc[c] # "idle" => \A i \in 1..pos[c] - 1 : Needed(c, i) => i \in vouched[c]
  /\ pc[c] \in Asking \ {"state"} => tripped # None
  /\ pc[c] \in Asking /\ shut[c] => state = "Open" /\ tripped <= entry[c]
  /\ pc[c] = "elapsed" /\ shut[c] => seen[c] <= entry[c]
  /\ pc[c] = "take" /\ shut[c] => entry[c] = Cooloff

\* The breaker is never open without the time of its trip, which would block
\* the plugin for ever; a call inside can_execute that has found the circuit
\* open so far has seen no trip older than the one before it began; and a
\* pipeline has passed its first interceptors only by their own verdict.
BreakerInv ==
  /\ TypeOK
  /\ state = "Open" => tripped # None
  /\ \A c \in Calls : CallInv(c)

\* can_execute reads three shared values one after the other; yet it lets a
\* call through only if, at some instant of the call, the circuit was not open,
\* or the trip that was current when the call began is a cool-off ago.
PermitJustified ==
  [][\A c \in Calls : pc[c] \in Asking /\ pc'[c] = "guest" => ~shut[c] \/ entry[c] >= Cooloff]_vars

\* The first j interceptors, as far as they matter, have let c go on themselves.
CheckedTo(c, j) == \A i \in 1..j : Needed(c, i) => i \in vouched[c]

WasChecked(c) ==
  pc[c] = "idle" =>
    /\ verdict[c] \in {"Pass", "Audit"} \/ (stage[c] = "response" /\ verdict[c] = "Transform")
         => CheckedTo(c, Len(Pipe(c)))
    /\ stage[c] = "request" /\ verdict[c] = "Transform"
         => \E j \in 1..Len(Pipe(c)) : j \in vouched[c] /\ CheckedTo(c, j)

\* A response that a pipeline admits, and a request that it admits unchanged,
\* was admitted by every rule and, under FailClosed, by the plugin itself,
\* whatever the breaker did meanwhile.  A request that the plugin transforms was
\* admitted by the plugin itself and by those in front of it only: the pipeline
\* ends there (request.rs:272), and the rules behind the plugin, RBAC among
\* them, are not asked.
AdmittedWereChecked == \A c \in Calls : WasChecked(c)

\* Once the plugin has recovered for good and calls keep reaching it, the
\* circuit closes and stays closed: no interleaving leaves it open or half open.
Recovers ==
  <>[](health = "ok") /\ []<>(\E c \in Calls : pc[c] = "state") => <>[](state = "Closed")

\* A plugin that fails for ever, with calls that keep reaching it, is shut off
\* again and again: no interleaving of record_success and record_failure keeps
\* its failures from being counted.
SickPluginTrips ==
  <>[](health # "ok") /\ []<>(\E c \in Calls : pc[c] = "state") => []<>(state = "Open")

\* Every pipeline answers, although a guest may loop (set_epoch_deadline).
CallsReturn == \A c \in Calls : pc[c] # "idle" ~> pc[c] = "idle"
=============================================================================
