------------------------------- MODULE HlcClock -------------------------------
(***************************************************************************)
(* The lock-free hybrid logical clock of src/core/clock.rs: one AtomicU64  *)
(* that threads advance with compare_exchange_weak loops.                  *)
(*                                                                         *)
(* The packed word is kept as the pair it encodes, (physical, logical);    *)
(* the 48 bits of its physical part and the saturation at u64::MAX are     *)
(* thousands of years away and left out, the 16 bits of its logical part   *)
(* are not.  The wall clock may be set back as well as forward.  A weak    *)
(* exchange that fails spuriously reloads the value it had: no step.       *)
(***************************************************************************)
EXTENDS Integers, Sequences

CONSTANTS
  Threads,
  MaxLogical,     \* MAX_LOGICAL
  MaxDrift,       \* MAX_ALLOWED_CLOCK_DRIFT_MS
  Remotes,        \* timestamps that update may be given
  MaxWall,        \* bound: the latest wall clock time
  MaxCalls        \* bound: the number of timestamps issued

Stamp == [physical: Nat, logical: Nat]

ASSUME ClockAssumption ==
  /\ MaxLogical \in Nat /\ MaxDrift \in Nat /\ MaxWall \in Nat /\ MaxCalls \in Nat
  /\ Remotes \subseteq Stamp

VARIABLES
  wall,      \* get_physical_time()
  peak,      \* the latest time the wall clock has shown (history)
  state,     \* the packed state
  pc,        \* pc[t]: "idle", or in a call, before the load or in the loop
  op,        \* op[t]: the call of t
  seen,      \* seen[t]: physical_now of that call
  remote,    \* remote[t]: the argument of t's update, its physical part capped
  current,   \* current[t]: the value t last loaded
  issued     \* the timestamps returned, in the order of their exchanges (history)

vars == <<wall, peak, state, pc, op, seen, remote, current, issued>>

Time(p, l) == [physical |-> p, logical |-> l]

\* HlcTimestamp's order.
Less(a, b) ==
  a.physical < b.physical \/ (a.physical = b.physical /\ a.logical < b.logical)
LessEq(a, b) == a = b \/ Less(a, b)

\* The states of the packed word.
Packed == [physical: Nat, logical: 0..MaxLogical]

TypeOK ==
  /\ wall \in Nat /\ peak \in Nat
  /\ state \in Packed
  /\ pc \in [Threads -> {"idle", "load", "cas"}]
  /\ op \in [Threads -> {"now", "update"}]
  /\ seen \in [Threads -> Nat]
  /\ remote \in [Threads -> Stamp]
  /\ current \in [Threads -> Packed]
  /\ issued \in Seq(Packed)

\* HlcClock::new
Init ==
  /\ wall \in 0..MaxWall
  /\ peak = wall
  /\ state = Time(wall, 0)
  /\ pc = [t \in Threads |-> "idle"]
  /\ op = [t \in Threads |-> "now"]
  /\ seen = [t \in Threads |-> 0]
  /\ remote = [t \in Threads |-> Time(0, 0)]
  /\ current = [t \in Threads |-> Time(0, 0)]
  /\ issued = <<>>

-----------------------------------------------------------------------------
Max2(a, b) == IF a >= b THEN a ELSE b

\* logical + 1, or the next millisecond when the 16 bits are used up.
After(p, l) == IF l + 1 <= MaxLogical THEN Time(p, l + 1) ELSE Time(p + 1, 0)

\* The body of now()'s loop.
NextLocal(cur, phys) ==
  IF phys > cur.physical THEN Time(phys, 0) ELSE After(cur.physical, cur.logical)

\* The body of update()'s loop, without its last branches: a remote clock that
\* is ahead is adopted as it is.
NextMerged_Adopt(cur, phys, rem) ==
  LET p == Max2(Max2(phys, cur.physical), rem.physical) IN
  IF p = cur.physical THEN After(p, cur.logical)
  ELSE IF p = rem.physical /\ rem.logical <= MaxLogical THEN rem
  ELSE Time(p, 0)

\* The body of update()'s loop.
NextMerged(cur, phys, rem) ==
  LET p == Max2(Max2(phys, cur.physical), rem.physical) IN
  IF p = cur.physical /\ p = rem.physical THEN After(p, Max2(cur.logical, rem.logical))
  ELSE IF p = cur.physical THEN After(p, cur.logical)
  ELSE IF p = rem.physical THEN After(p, rem.logical)
  ELSE Time(p, 0)

\* The remote clock is trusted.
Capped_Not(rem, phys) == rem

\* safe_remote_physical
Capped(rem, phys) ==
  Time(IF rem.physical > phys + MaxDrift THEN phys + MaxDrift ELSE rem.physical, rem.logical)

-----------------------------------------------------------------------------
SetWall ==
  /\ wall' \in 0..MaxWall
  /\ peak' = Max2(peak, wall')
  /\ UNCHANGED <<state, pc, op, seen, remote, current, issued>>

\* now(), update(rem): physical_now is read once, before the loop.
CallNow(t) ==
  /\ pc[t] = "idle" /\ Len(issued) < MaxCalls
  /\ pc' = [pc EXCEPT ![t] = "load"]
  /\ op' = [op EXCEPT ![t] = "now"]
  /\ seen' = [seen EXCEPT ![t] = wall]
  /\ UNCHANGED <<wall, peak, state, remote, current, issued>>

CallUpdate(t, rem) ==
  /\ pc[t] = "idle" /\ Len(issued) < MaxCalls
  /\ pc' = [pc EXCEPT ![t] = "load"]
  /\ op' = [op EXCEPT ![t] = "update"]
  /\ seen' = [seen EXCEPT ![t] = wall]
  /\ remote' = [remote EXCEPT ![t] = Capped(rem, wall)]
  /\ UNCHANGED <<wall, peak, state, current, issued>>

Load(t) ==
  /\ pc[t] = "load"
  /\ pc' = [pc EXCEPT ![t] = "cas"]
  /\ current' = [current EXCEPT ![t] = state]
  /\ UNCHANGED <<wall, peak, state, op, seen, remote, issued>>

\* The value t tries to install.
Proposal(t) ==
  IF op[t] = "now" THEN NextLocal(current[t], seen[t])
  ELSE NextMerged(current[t], seen[t], remote[t])

\* A plain store instead of an exchange.
CasOk_Store(t) ==
  /\ pc[t] = "cas"
  /\ state' = Proposal(t)
  /\ issued' = Append(issued, Proposal(t))
  /\ pc' = [pc EXCEPT ![t] = "idle"]
  /\ UNCHANGED <<wall, peak, op, seen, remote, current>>

CasOk(t) ==
  /\ pc[t] = "cas"
  /\ state = current[t]
  /\ state' = Proposal(t)
  /\ issued' = Append(issued, Proposal(t))
  /\ pc' = [pc EXCEPT ![t] = "idle"]
  /\ UNCHANGED <<wall, peak, op, seen, remote, current>>

\* The loop goes on without the value the exchange returned.
CasFails_NoReload(t) ==
  /\ pc[t] = "cas"
  /\ state # current[t]
  /\ UNCHANGED vars

\* Err(actual) => current = actual.  A spurious failure of the weak exchange
\* reads the same value again and changes nothing.
CasFails(t) ==
  /\ pc[t] = "cas"
  /\ state # current[t]
  /\ current' = [current EXCEPT ![t] = state]
  /\ UNCHANGED <<wall, peak, state, pc, op, seen, remote, issued>>

Next ==
  \/ SetWall
  \/ \E t \in Threads :
       \/ CallNow(t)
       \/ \E rem \in Remotes : CallUpdate(t, rem)
       \/ Load(t) \/ CasOk(t) \/ CasFails(t)

\* A thread inside a call keeps running.
Fairness == \A t \in Threads : WF_vars(Load(t) \/ CasOk(t) \/ CasFails(t))

Spec == Init /\ [][Next]_vars
FairSpec == Spec /\ Fairness
-----------------------------------------------------------------------------
(* Properties *)

\* The timestamps the clock issues, to whichever thread, are strictly increasing
\* in the order of their exchanges: no two requests share one, and a call that
\* begins after another returned gets the later one, also when the wall clock
\* is set back and when the 16-bit counter runs over.
StrictlyIncreasing ==
  \A i, j \in 1..Len(issued) : i < j => Less(issued[i], issued[j])

\* Everything issued is at most the clock's state, and what a thread in the loop
\* has loaded is either the state or already passed by: the exchange cannot
\* succeed on a value that has come back (no ABA).
IssuedBelowState ==
  /\ \A i \in 1..Len(issued) : LessEq(issued[i], state)
  /\ \A t \in Threads : pc[t] = "cas" => LessEq(current[t], state)

\* What a call read is no later than the latest time seen, and the remote time
\* it was given no further ahead than the tolerated drift.
ReadsBelowPeak ==
  /\ wall <= peak
  /\ \A t \in Threads : seen[t] <= peak /\ remote[t].physical <= peak + MaxDrift

\* The inductive invariant behind StrictlyIncreasing and DriftBound.
ClockInv == TypeOK /\ StrictlyIncreasing /\ IssuedBelowState /\ ReadsBelowPeak

\* update() returns a timestamp after the remote event it was told of, if the
\* remote clock was not capped, and in any case after the capped one.
UpdateIsAfterRemote ==
  [][\A t \in Threads :
       pc[t] = "cas" /\ op[t] = "update" /\ pc'[t] = "idle" => Less(remote[t], state')]_vars

\* The stamp as the 64-bit word it is packed in.
Word(s) == s.physical * (MaxLogical + 1) + s.logical

\* No remote timestamp, however wrong, drags the clock further than
\* MAX_ALLOWED_CLOCK_DRIFT_MS and one tick past the latest time this machine has
\* seen; beyond that only the clock's own calls count, one unit each.
DriftBound ==
  Word(state) <= (peak + MaxDrift + 1) * (MaxLogical + 1) + Len(issued)

\* A call that keeps failing its exchange does so because other calls succeed:
\* with finitely many calls every one of them returns.
CallsReturn == \A t \in Threads : pc[t] # "idle" ~> pc[t] = "idle"
=============================================================================
