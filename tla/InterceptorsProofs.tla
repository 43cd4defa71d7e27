------------------------- MODULE InterceptorsProofs -------------------------
(***************************************************************************)
(* Proofs about Interceptors: the invariant of the breaker and of the      *)
(* pipelines, that admitted calls were checked, and that a call is let     *)
(* through to the plugin only with a reason; and, at the end, about the    *)
(* RBAC interceptor: its cache, and that it trusts nothing for too long.   *)
(***************************************************************************)
EXTENDS Interceptors, AuthCache, SequenceTheorems, TLAPS

Verdicts == {"Pass", "Reject", "Audit", "Transform"}

BreakerType ==
  /\ state \in {"Closed", "Open", "HalfOpen"}
  /\ failures \in 0..Threshold
  /\ tripped \in 0..Cooloff \union {None}
  /\ failMode \in {"FailClosed", "FailOpen"}
  /\ health \in {"ok", "traps", "loops"}

PipeType ==
  /\ pc \in [Calls -> Steps]
  /\ stage \in [Calls -> Stages]
  /\ pos \in [Calls -> Nat]
  /\ \A c \in Calls : pos[c] \in 1..Len(Pipe(c))
  /\ audit \in [Calls -> BOOLEAN]
  /\ changed \in [Calls -> BOOLEAN]
  /\ verdict \in [Calls -> {"none", "Pass", "Reject", "Audit", "Transform"}]
  /\ vouched \in [Calls -> SUBSET Nat]

GuestType ==
  /\ seen \in [Calls -> 0..Cooloff]
  /\ left \in [Calls -> 0..Deadline]
  /\ guest \in [Calls -> {"ok", "traps", "loops"}]
  /\ over \in [Calls -> BOOLEAN]

HistoryType ==
  /\ shut \in [Calls -> BOOLEAN]
  /\ entry \in [Calls -> 0..Cooloff]

\* The type invariant in four parts.
LEMMA TypeParts == TypeOK <=> BreakerType /\ PipeType /\ GuestType /\ HistoryType
BY DEF TypeOK, BreakerType, PipeType, GuestType, HistoryType

\* Every pipeline has a length, and its interceptors are there.
LEMMA PipeFacts ==
  ASSUME PipeType, NEW c \in Calls
  PROVE  Pipe(c) \in Seq(Kinds) /\ Len(Pipe(c)) \in Nat \ {0}
BY InterceptorsAssumption DEF PipeType, Pipe

\* An answer keeps the types of what a pipeline keeps.
LEMMA AnswerTypes ==
  ASSUME PipeType, GuestType, NEW c \in Calls, NEW v \in Verdicts, NEW new \in BOOLEAN,
         NEW own \in BOOLEAN, Answer(c, v, new, own)
  PROVE  PipeType' /\ GuestType' /\ failMode' = failMode /\ health' = health
<1>0. Len(Pipe(c)) \in Nat \ {0} /\ pos[c] \in 1..Len(Pipe(c)) BY PipeFacts DEF PipeType
<1>1. pc' \in [Calls -> Steps] BY DEF Answer, PipeType, Steps
<1>2. stage' \in [Calls -> Stages] BY DEF Answer, PipeType
<1>3. pos' \in [Calls -> Nat] BY DEF Answer, PipeType
<1>4. \A d \in Calls : pos'[d] \in 1..Len(Pipe(d)')
  BY <1>0 DEF Answer, PipeType, Pipe
<1>5. audit' \in [Calls -> BOOLEAN] BY DEF Answer, PipeType
<1>6. changed' \in [Calls -> BOOLEAN] BY DEF Answer, PipeType
<1>7. verdict' \in [Calls -> {"none", "Pass", "Reject", "Audit", "Transform"}]
  BY DEF Answer, PipeType, Outcome, Verdicts
<1>8. vouched' \in [Calls -> SUBSET Nat] BY DEF Answer, PipeType
<1>9. GuestType' BY InterceptorsAssumption DEF Answer, GuestType
<1>10. failMode' = failMode /\ health' = health BY DEF Answer
<1> QED BY <1>1, <1>2, <1>3, <1>4, <1>5, <1>6, <1>7, <1>8, <1>9, <1>10 DEF PipeType

\* The fail mode answers Pass or Reject, and Pass only under FailOpen.
LEMMA FailModeIsAnswer ==
  ASSUME BreakerType, NEW c \in Calls, FailModeAnswers(c)
  PROVE  \E v \in {"Pass", "Reject"} :
           Answer(c, v, FALSE, FALSE) /\ (v = "Pass" => failMode = "FailOpen")
<1>1. CASE failMode = "FailOpen"
  <2>1. Answer(c, "Pass", FALSE, FALSE) BY <1>1 DEF FailModeAnswers, Answer
  <2> QED BY <1>1, <2>1
<1>2. CASE failMode # "FailOpen"
  <2>1. Answer(c, "Reject", FALSE, FALSE) BY <1>2 DEF FailModeAnswers, Answer
  <2> QED BY <2>1
<1> QED BY <1>1, <1>2

-----------------------------------------------------------------------------
(* What a step of a call c does, as far as the invariant is concerned. *)

\* To the others: nothing.
OthersStay(c) ==
  \A d \in Calls \ {c} :
    /\ pc'[d] = pc[d] /\ stage'[d] = stage[d] /\ pos'[d] = pos[d]
    /\ seen'[d] = seen[d] /\ verdict'[d] = verdict[d] /\ vouched'[d] = vouched[d]

\* To the breaker: a trip is recorded with its time.
TripsInTime ==
  /\ failMode' = failMode
  /\ tripped' \in {tripped, 0}
  /\ state' = "Open" => state = "Open" \/ tripped' = 0

\* To its pipeline.
PipeStep(c) ==
  /\ pc'[c] = "idle" => pos'[c] = 1
  /\ pc'[c] \notin {"idle", "next"} => Pipe(c)'[pos'[c]] = "wasm"
  /\ pc'[c] # "idle" => \A i \in 1..pos'[c] - 1 : Needed(c, i)' => i \in vouched'[c]
  /\ WasChecked(c)'

\* Inside can_execute.
AskStep(c) ==
  /\ pc'[c] \in Asking => state' = state /\ tripped' = tripped
  /\ pc'[c] = "state" => pc[c] = "next"
  /\ pc'[c] = "tripped" => pc[c] = "state" /\ state = "Open"
  /\ pc'[c] = "elapsed" => pc[c] = "tripped" /\ seen'[c] = tripped
  /\ pc'[c] = "take" => pc[c] = "elapsed" /\ seen[c] >= Cooloff

\* A step of c keeps the types and has the effects above.
Effect(c) ==
  BreakerType' /\ PipeType' /\ GuestType' /\ OthersStay(c) /\ TripsInTime /\ PipeStep(c) /\ AskStep(c)

\* An answer advances the pipeline or ends it, and what it passes was checked.
LEMMA AnswerStep ==
  ASSUME PipeType, GuestType, NEW c \in Calls, CallInv(c), pc[c] # "idle",
         NEW v \in Verdicts, NEW new \in BOOLEAN, NEW own \in BOOLEAN, Answer(c, v, new, own),
         own \/ v = "Reject" \/ ~Needed(c, pos[c]), v = "Transform" => own
  PROVE  OthersStay(c) /\ PipeStep(c) /\ AskStep(c)
<1>0. Len(Pipe(c)) \in Nat \ {0} /\ pos[c] \in 1..Len(Pipe(c)) BY PipeFacts DEF PipeType
<1>1. OthersStay(c) BY DEF OthersStay, Answer, PipeType, GuestType
<1>2. pc'[c] \in {"idle", "next"} /\ stage' = stage /\ failMode' = failMode /\ Pipe(c)' = Pipe(c)
  BY DEF Answer, PipeType, Pipe
<1>3. AskStep(c) BY <1>2 DEF AskStep, Asking
<1>4. \A i : Needed(c, i)' <=> Needed(c, i) BY <1>2 DEF Needed
<1>5. vouched[c] \subseteq vouched'[c] /\ (own /\ v # "Reject" => pos[c] \in vouched'[c])
  BY DEF Answer, PipeType
<1>6. v # "Reject" => \A i \in 1..pos[c] : Needed(c, i) => i \in vouched'[c]
  <2> SUFFICES ASSUME v # "Reject", NEW i \in 1..pos[c], Needed(c, i) PROVE i \in vouched'[c] OBVIOUS
  <2>1. CASE i = pos[c] BY <2>1, <1>5
  <2>2. CASE i # pos[c]
    <3>1. i \in 1..pos[c] - 1 BY <2>2, <1>0
    <3> QED BY <3>1, <1>5 DEF CallInv
  <2> QED BY <2>1, <2>2
<1>7. CASE Stops(c, v) \/ pos[c] = Len(Pipe(c))
  <2>1. pc'[c] = "idle" /\ pos'[c] = 1 BY <1>7 DEF Answer, PipeType
  <2>2. WasChecked(c)'
    <3>1. CASE Stops(c, v)
      <4>1. verdict'[c] = v BY <3>1 DEF Answer, PipeType
      <4>2. CASE v = "Reject" BY <4>1, <4>2 DEF WasChecked
      <4>3. CASE v = "Transform" /\ stage[c] = "request"
        <5>1. pos[c] \in vouched'[c] BY <4>3, <1>5
        <5>2. \A i \in 1..pos[c] : Needed(c, i)' => i \in vouched'[c] BY <4>3, <1>4, <1>6
        <5>3. \E j \in 1..Len(Pipe(c)') :
                j \in vouched'[c] /\ \A i \in 1..j : Needed(c, i)' => i \in vouched'[c]
          BY <5>1, <5>2, <1>0, <1>2
        <5> QED BY <5>3, <4>1, <4>3, <1>2 DEF WasChecked, CheckedTo
      <4> QED BY <3>1, <4>2, <4>3 DEF Stops
    <3>2. CASE ~Stops(c, v)
      <4>1. v # "Reject" /\ pos[c] = Len(Pipe(c)) BY <3>2, <1>7 DEF Stops
      <4>2. \A i \in 1..Len(Pipe(c)') : Needed(c, i)' => i \in vouched'[c]
        BY <4>1, <1>2, <1>4, <1>6
      <4>3. verdict'[c] # "Transform" \/ stage'[c] # "request"
        BY <4>1, <3>2 DEF Answer, PipeType, Outcome
      <4> QED BY <4>2, <4>3 DEF WasChecked, CheckedTo
    <3> QED BY <3>1, <3>2
  <2> QED BY <1>1, <1>3, <2>1, <2>2 DEF PipeStep
<1>8. CASE ~(Stops(c, v) \/ pos[c] = Len(Pipe(c)))
  <2>1. pc'[c] = "next" /\ pos'[c] = pos[c] + 1 BY <1>8 DEF Answer, PipeType
  <2>2. WasChecked(c)' BY <2>1 DEF WasChecked
  <2>3. v # "Reject" /\ pos'[c] - 1 = pos[c] BY <1>8, <1>0, <2>1 DEF Stops
  <2> QED BY <1>1, <1>3, <1>4, <1>6, <2>1, <2>2, <2>3 DEF PipeStep
<1> QED BY <1>7, <1>8

\* A step of a call that is not an answer leaves the pipeline where it is.
LEMMA StayStep ==
  ASSUME PipeType, NEW c \in Calls, CallInv(c), pc[c] # "idle",
         NEW to \in Steps \ {"idle", "next"}, pc' = [pc EXCEPT ![c] = to],
         Pipe(c)[pos[c]] = "wasm",
         UNCHANGED <<failMode, stage, pos, audit, changed, verdict, vouched>>
  PROVE  PipeType' /\ PipeStep(c)
<1>1. pc' \in [Calls -> Steps] /\ pc'[c] = to BY DEF PipeType
<1>2. \A d : Pipe(d)' = Pipe(d) BY DEF Pipe
<1>3. PipeType' BY <1>1, <1>2 DEF PipeType
<1>4. \A i : Needed(c, i)' <=> Needed(c, i) BY <1>2 DEF Needed
<1>5. \A i \in 1..pos'[c] - 1 : Needed(c, i)' => i \in vouched'[c] BY <1>4 DEF CallInv
<1>6. WasChecked(c)' BY <1>1 DEF WasChecked
<1> QED BY <1>1, <1>2, <1>3, <1>5, <1>6 DEF PipeStep

\* Answers of the fail mode, with whatever the step does to the breaker.
LEMMA FailModeStep ==
  ASSUME BreakerType, PipeType, GuestType, NEW c \in Calls, CallInv(c),
         pc[c] \notin {"idle", "next"}, FailModeAnswers(c)
  PROVE  /\ PipeType' /\ GuestType' /\ failMode' = failMode /\ health' = health
         /\ OthersStay(c) /\ PipeStep(c) /\ AskStep(c)
<1>1. PICK v \in {"Pass", "Reject"} :
        Answer(c, v, FALSE, FALSE) /\ (v = "Pass" => failMode = "FailOpen")
  BY FailModeIsAnswer
<1>2. v \in Verdicts /\ FALSE \in BOOLEAN BY DEF Verdicts
<1>3. v = "Reject" \/ ~Needed(c, pos[c]) BY <1>1 DEF Needed, CallInv
<1>4. PipeType' /\ GuestType' /\ failMode' = failMode /\ health' = health
  BY <1>1, <1>2, AnswerTypes
<1>5. OthersStay(c) /\ PipeStep(c) /\ AskStep(c) BY <1>1, <1>2, <1>3, AnswerStep
<1> QED BY <1>4, <1>5

\* The start of the guest call.
LEMMA InvokeStep ==
  ASSUME BreakerType, PipeType, GuestType, NEW c \in Calls, CallInv(c),
         pc[c] \notin {"idle", "next"}, Invoke(c)
  PROVE  /\ PipeType' /\ GuestType' /\ failMode' = failMode /\ health' = health
         /\ OthersStay(c) /\ PipeStep(c) /\ AskStep(c)
<1>1. "guest" \in Steps \ {"idle", "next"} BY DEF Steps
<1>2. PipeType' /\ PipeStep(c) BY <1>1, StayStep DEF Invoke, CallInv
<1>3. GuestType' BY InterceptorsAssumption DEF Invoke, GuestType, BreakerType
<1>4. OthersStay(c) BY DEF OthersStay, Invoke, PipeType, GuestType
<1>5. AskStep(c) BY DEF AskStep, Invoke, PipeType, Asking
<1> QED BY <1>2, <1>3, <1>4, <1>5 DEF Invoke

\* Every step of a call has the effects.
LEMMA CallEffect ==
  ASSUME BreakerInv, NEW c \in Calls, CallStep(c)
  PROVE  Effect(c)
<1>0. BreakerType /\ PipeType /\ GuestType /\ CallInv(c) BY TypeParts DEF BreakerInv
<1>1. CASE Rule(c)
  <2>1. PICK v \in RuleVerdicts(Pipe(c)[pos[c]]) : Answer(c, v, FALSE, TRUE) BY <1>1 DEF Rule
  <2>2. v \in Verdicts /\ FALSE \in BOOLEAN /\ TRUE \in BOOLEAN
    BY DEF RuleVerdicts, NativeVerdicts, SensitiveVerdicts, CelVerdicts, Verdicts
  <2>3. pc[c] # "idle" BY <1>1 DEF Rule
  <2>4. PipeType' /\ GuestType' /\ failMode' = failMode /\ health' = health
    BY <1>0, <2>1, <2>2, AnswerTypes
  <2>5. OthersStay(c) /\ PipeStep(c) /\ AskStep(c) BY <1>0, <2>1, <2>2, <2>3, AnswerStep
  <2> QED BY <1>0, <1>1, <2>4, <2>5 DEF Rule, Effect, BreakerType, TripsInTime, breaker
<1>2. CASE LookupPlugin(c)
  <2>1. pc[c] = "next" /\ "state" \in Steps \ {"idle", "next"}
    BY <1>2 DEF LookupPlugin, MoveOn, Goto, Steps, Asking
  <2>2. PipeType' /\ PipeStep(c)
    BY <1>0, <1>2, <2>1, StayStep DEF LookupPlugin, MoveOn, Goto, local
  <2>3. OthersStay(c) BY <1>0, <1>2 DEF OthersStay, LookupPlugin, MoveOn, Goto, local, PipeType
  <2>4. AskStep(c)
    BY <1>0, <1>2, <2>1 DEF AskStep, LookupPlugin, MoveOn, Goto, PipeType, breaker
  <2> QED BY <1>0, <1>2, <2>2, <2>3, <2>4
          DEF LookupPlugin, MoveOn, Effect, BreakerType, GuestType, TripsInTime, breaker, local
<1>3. CASE ReadState(c)
  <2>1. pc[c] = "state" /\ pc[c] \notin {"idle", "next"} BY <1>3 DEF ReadState
  <2>2. CASE state = "Open"
    <3>1. MoveOn(c, "state", "tripped") BY <1>3, <2>2 DEF ReadState
    <3>2. "tripped" \in Steps \ {"idle", "next"} BY DEF Steps, Asking
    <3>3. PipeType' /\ PipeStep(c)
      BY <1>0, <2>1, <3>1, <3>2, StayStep DEF MoveOn, Goto, local, CallInv
    <3>4. OthersStay(c) BY <1>0, <3>1 DEF OthersStay, MoveOn, Goto, local, PipeType
    <3>5. AskStep(c)
      BY <1>0, <1>3, <2>1, <2>2, <3>1 DEF ReadState, AskStep, MoveOn, Goto, PipeType,
         breaker
    <3> QED BY <1>0, <1>3, <3>1, <3>3, <3>4, <3>5
            DEF ReadState, MoveOn, Effect, BreakerType, GuestType, TripsInTime, breaker, local
  <2>3. CASE state # "Open"
    <3>1. Invoke(c) BY <1>3, <2>3 DEF ReadState
    <3> QED
      BY <1>0, <1>3, <2>1, <3>1, InvokeStep DEF ReadState, Effect, BreakerType, TripsInTime,
         breaker
  <2> QED BY <2>2, <2>3
<1>4. CASE ReadTripped(c)
  <2>1. pc[c] = "tripped" /\ pc[c] \notin {"idle", "next"} BY <1>4 DEF ReadTripped
  <2>2. CASE tripped = None
    <3>1. FailModeAnswers(c) BY <1>4, <2>2 DEF ReadTripped
    <3> QED
      BY <1>0, <1>4, <2>1, <3>1, FailModeStep DEF ReadTripped, Effect, BreakerType,
         TripsInTime, breaker
  <2>3. CASE tripped # None
    <3>1. "elapsed" \in Steps \ {"idle", "next"} BY DEF Steps, Asking
    <3>2. PipeType' /\ PipeStep(c)
      BY <1>0, <1>4, <2>1, <2>3, <3>1, StayStep DEF ReadTripped, Goto, CallInv
    <3>3. OthersStay(c)
      BY <1>0, <1>4, <2>3 DEF OthersStay, ReadTripped, Goto, PipeType, GuestType
    <3>4. AskStep(c)
      BY <1>0, <1>4, <2>3 DEF ReadTripped, AskStep, Goto, PipeType, GuestType, breaker
    <3>5. GuestType' BY <1>0, <1>4, <2>3 DEF ReadTripped, GuestType, BreakerType
    <3> QED BY <1>0, <1>4, <2>3, <3>2, <3>3, <3>4, <3>5
            DEF ReadTripped, Effect, BreakerType, TripsInTime, breaker
  <2> QED BY <2>2, <2>3
<1>5. CASE CheckElapsed(c)
  <2>1. pc[c] = "elapsed" /\ pc[c] \notin {"idle", "next"} BY <1>5 DEF CheckElapsed
  <2>2. CASE seen[c] >= Cooloff
    <3>1. MoveOn(c, "elapsed", "take") BY <1>5, <2>2 DEF CheckElapsed
    <3>2. "take" \in Steps \ {"idle", "next"} BY DEF Steps, Asking
    <3>3. PipeType' /\ PipeStep(c)
      BY <1>0, <2>1, <3>1, <3>2, StayStep DEF MoveOn, Goto, local, CallInv
    <3>4. OthersStay(c) BY <1>0, <3>1 DEF OthersStay, MoveOn, Goto, local, PipeType
    <3>5. AskStep(c)
      BY <1>0, <1>5, <2>1, <2>2, <3>1 DEF CheckElapsed, AskStep, MoveOn, Goto, PipeType,
         breaker
    <3> QED BY <1>0, <1>5, <3>1, <3>3, <3>4, <3>5
            DEF CheckElapsed, MoveOn, Effect, BreakerType, GuestType, TripsInTime, breaker, local
  <2>3. CASE ~(seen[c] >= Cooloff)
    <3>1. FailModeAnswers(c) BY <1>5, <2>3 DEF CheckElapsed
    <3> QED
      BY <1>0, <1>5, <2>1, <3>1, FailModeStep DEF CheckElapsed, Effect, BreakerType,
         TripsInTime, breaker
  <2> QED BY <2>2, <2>3
<1>6. CASE TakeProbe(c)
  <2>1. pc[c] \notin {"idle", "next"} BY <1>6 DEF TakeProbe
  <2>2. CASE state = "Open" /\ state' = "HalfOpen" /\ Invoke(c)
    BY <1>0, <1>6, <2>1, <2>2, InvokeStep DEF TakeProbe, Effect, BreakerType, TripsInTime
  <2>3. CASE state # "Open" /\ UNCHANGED state /\ FailModeAnswers(c)
    BY <1>0, <1>6, <2>1, <2>3, FailModeStep DEF TakeProbe, Effect, BreakerType, TripsInTime
  <2> QED BY <1>6, <2>2, <2>3 DEF TakeProbe
<1>7. CASE GuestReturns(c)
  <2>1. PICK to \in {"zero", "add"} : MoveOn(c, "guest", to) BY <1>7 DEF GuestReturns
  <2>2. to \in Steps \ {"idle", "next"} BY DEF Steps
  <2>3. pc[c] = "guest" BY <2>1 DEF MoveOn, Goto
  <2>4. PipeType' /\ PipeStep(c)
    BY <1>0, <2>1, <2>2, <2>3, StayStep DEF MoveOn, Goto, local, CallInv
  <2>5. OthersStay(c) BY <1>0, <2>1 DEF OthersStay, MoveOn, Goto, local, PipeType
  <2>6. AskStep(c) BY <1>0, <2>1 DEF AskStep, MoveOn, Goto, PipeType, Asking
  <2> QED BY <1>0, <1>7, <2>1, <2>4, <2>5, <2>6
          DEF GuestReturns, MoveOn, Effect, BreakerType, GuestType, TripsInTime, breaker, local
<1>8. CASE StoreZero(c)
  <2>1. pc[c] = "zero" /\ MoveOn(c, "zero", "close") BY <1>8 DEF StoreZero, MoveOn, Goto
  <2>2. "close" \in Steps \ {"idle", "next"} BY DEF Steps
  <2>3. PipeType' /\ PipeStep(c) BY <1>0, <2>1, <2>2, StayStep DEF MoveOn, Goto, local, CallInv
  <2>4. OthersStay(c) BY <1>0, <2>1 DEF OthersStay, MoveOn, Goto, local, PipeType
  <2>5. AskStep(c) BY <1>0, <2>1 DEF AskStep, MoveOn, Goto, PipeType, Asking
  <2>6. BreakerType'
    BY <1>0, <1>8, <2>1, InterceptorsAssumption DEF StoreZero, MoveOn, BreakerType
  <2> QED BY <1>0, <1>8, <2>1, <2>3, <2>4, <2>5, <2>6
          DEF StoreZero, MoveOn, Effect, GuestType, TripsInTime, local
<1>9. CASE \E v \in Verdicts, new \in BOOLEAN : CloseCircuit(c, v, new)
  <2>1. PICK v \in Verdicts, new \in BOOLEAN : CloseCircuit(c, v, new) BY <1>9
  <2>2. pc[c] # "idle" /\ Answer(c, v, new, TRUE) /\ TRUE \in BOOLEAN BY <2>1 DEF CloseCircuit
  <2>3. PipeType' /\ GuestType' /\ failMode' = failMode /\ health' = health
    BY <1>0, <2>2, AnswerTypes
  <2>4. OthersStay(c) /\ PipeStep(c) BY <1>0, <2>2, AnswerStep
  <2>5. AskStep(c) BY <1>0, <2>2, AnswerStep
  <2> QED BY <1>0, <2>1, <2>3, <2>4, <2>5 DEF CloseCircuit, Effect, BreakerType, TripsInTime
<1>10. CASE FetchAdd(c)
  <2>1. pc[c] = "add" BY <1>10 DEF FetchAdd, Goto
  <2>2. "trip" \in Steps \ {"idle", "next"} BY DEF Steps
  <2>3. PipeType' /\ PipeStep(c)
    BY <1>0, <1>10, <2>1, <2>2, StayStep DEF FetchAdd, Goto, CallInv
  <2>4. OthersStay(c) BY <1>0, <1>10 DEF OthersStay, FetchAdd, Goto, PipeType
  <2>5. AskStep(c) BY <1>0, <1>10 DEF AskStep, FetchAdd, Goto, PipeType, Asking
  <2>6. BreakerType' BY <1>0, <1>10, InterceptorsAssumption DEF FetchAdd, BreakerType
  <2>7. GuestType' BY <1>0, <1>10 DEF FetchAdd, GuestType
  <2> QED BY <1>10, <2>3, <2>4, <2>5, <2>6, <2>7 DEF FetchAdd, Effect, TripsInTime
<1>11. CASE Trip(c)
  <2>1. pc[c] \notin {"idle", "next"} /\ FailModeAnswers(c) BY <1>11 DEF Trip
  <2>2. BreakerType' /\ TripsInTime
    BY <1>0, <1>11, <2>1, FailModeStep, InterceptorsAssumption DEF Trip, BreakerType,
       TripsInTime
  <2> QED BY <1>0, <2>1, <2>2, FailModeStep DEF Effect
<1>12. (\E v \in {"Pass", "Reject"} : CloseCircuit(c, v, FALSE)) \/ (\E new \in BOOLEAN : CloseCircuit(c, "Transform", new))
         => \E v \in Verdicts, new \in BOOLEAN : CloseCircuit(c, v, new)
  BY DEF Verdicts
<1> QED
  BY <1>1, <1>2, <1>3, <1>4, <1>5, <1>6, <1>7, <1>8, <1>9, <1>10, <1>11, <1>12 DEF CallStep

-----------------------------------------------------------------------------
(* The history, and the invariant. *)

\* The history variables keep their types.
LEMMA HistoryTypes ==
  ASSUME BreakerType, HistoryType, NEW ticks \in BOOLEAN, Watch(ticks)
  PROVE  HistoryType'
<1>1. shut' \in [Calls -> BOOLEAN]
  <2>1. \A c \in Calls : shut[c] \in BOOLEAN BY DEF HistoryType
  <2> QED BY <2>1, Zenon DEF Watch
<1>2. entry' \in [Calls -> 0..Cooloff]
  <2>1. \A c \in Calls : entry[c] \in 0..Cooloff /\ Older(entry[c]) \in 0..Cooloff
    BY InterceptorsAssumption DEF HistoryType, Older
  <2>2. 0 \in 0..Cooloff /\ (tripped # None => tripped \in 0..Cooloff)
    BY InterceptorsAssumption DEF BreakerType
  <2> QED BY <2>1, <2>2 DEF Watch
<1> QED BY <1>1, <1>2 DEF HistoryType

\* A call whose data no step of another changes keeps its invariant.
LEMMA OtherKeeps ==
  ASSUME BreakerType, PipeType, HistoryType, NEW d \in Calls, CallInv(d), WasChecked(d), TripsInTime,
         NEW c, c # d, OthersStay(c), Watch(FALSE)
  PROVE  CallInv(d)' /\ WasChecked(d)'
<1>1. /\ pc'[d] = pc[d] /\ stage'[d] = stage[d] /\ pos'[d] = pos[d]
      /\ seen'[d] = seen[d] /\ verdict'[d] = verdict[d] /\ vouched'[d] = vouched[d]
  BY DEF OthersStay
<1>2. Pipe(d)' = Pipe(d) /\ \A i : Needed(d, i)' <=> Needed(d, i)
  BY <1>1 DEF Pipe, Needed, TripsInTime
<1>3. pc[d] \in Asking => /\ shut'[d] <=> shut[d] /\ state' = "Open"
                          /\ entry'[d] = entry[d]
  BY <1>1 DEF Watch, Asking
<1>4. tripped # None => tripped' # None BY DEF TripsInTime, None
<1>5. tripped \in 0..Cooloff /\ entry[d] \in 0..Cooloff /\ tripped <= entry[d] => tripped' <= entry[d]
  BY InterceptorsAssumption DEF TripsInTime
<1>6. pc[d] \in Asking /\ shut'[d] => state' = "Open" /\ tripped' <= entry'[d]
  <2> SUFFICES ASSUME pc[d] \in Asking, shut'[d] PROVE state' = "Open" /\ tripped' <= entry'[d] OBVIOUS
  <2>1. state' = "Open" /\ tripped <= entry[d] BY <1>3 DEF CallInv
  <2>2. tripped' \in {tripped, 0} /\ entry[d] \in 0..Cooloff BY DEF TripsInTime, HistoryType
  <2> QED BY <1>3, <2>1, <2>2, InterceptorsAssumption
<1>7. WasChecked(d)' BY <1>1, <1>2 DEF WasChecked, CheckedTo
<1> QED BY <1>1, <1>2, <1>3, <1>4, <1>6, <1>7 DEF CallInv, Asking

\* A call keeps its invariant in its own steps.
LEMMA OwnKeeps ==
  ASSUME BreakerInv, NEW c \in Calls, Effect(c), pc[c] # "idle", Watch(FALSE)
  PROVE  CallInv(c)' /\ WasChecked(c)'
<1>0. BreakerType /\ PipeType /\ GuestType /\ HistoryType /\ CallInv(c) /\ (state = "Open" => tripped # None)
  BY TypeParts DEF BreakerInv
<1>1. PipeStep(c) /\ AskStep(c) /\ TripsInTime /\ PipeType' BY DEF Effect
<1>2. pc'[c] \in Asking \ {"state"} => tripped' # None
  BY <1>0, <1>1 DEF AskStep, CallInv, Asking
<1>3. pc'[c] = "state" => (shut'[c] <=> state = "Open") /\ entry'[c] = IF tripped = None THEN 0 ELSE tripped
  BY <1>1 DEF AskStep, Watch
<1>4. pc'[c] \in Asking \ {"state"} => (shut'[c] <=> shut[c] /\ state' = "Open") /\ entry'[c] = entry[c]
  BY <1>1 DEF AskStep, Watch, Asking
<1>5. pc'[c] \in Asking /\ shut'[c] => state' = "Open" /\ tripped' <= entry'[c]
  <2>1. CASE pc'[c] = "state"
    BY <2>1, <1>0, <1>1, <1>3, InterceptorsAssumption DEF AskStep, BreakerType, Asking
  <2>2. CASE pc'[c] \in Asking \ {"state"}
    <3>1. pc[c] \in Asking BY <2>2, <1>1 DEF AskStep, Asking
    <3> QED BY <2>2, <3>1, <1>0, <1>1, <1>4 DEF AskStep, CallInv
  <2> QED BY <2>1, <2>2
<1>6. pc'[c] = "elapsed" /\ shut'[c] => seen'[c] <= entry'[c]
  BY <1>0, <1>1, <1>4 DEF AskStep, CallInv, Asking
<1>7. pc'[c] = "take" /\ shut'[c] => entry'[c] = Cooloff
  <2> SUFFICES ASSUME pc'[c] = "take", shut'[c] PROVE entry'[c] = Cooloff OBVIOUS
  <2>1. pc[c] = "elapsed" /\ seen[c] >= Cooloff /\ shut[c] /\ entry'[c] = entry[c]
    BY <1>1, <1>4 DEF AskStep, Asking
  <2>2. seen[c] <= entry[c] /\ entry[c] \in 0..Cooloff /\ seen[c] \in 0..Cooloff
    BY <2>1, <1>0 DEF CallInv, HistoryType, GuestType
  <2> QED BY <2>1, <2>2, InterceptorsAssumption
<1> QED BY <1>1, <1>2, <1>5, <1>6, <1>7 DEF CallInv, PipeStep

\* The breaker is never open without the time of its trip.
LEMMA OpenHasTime ==
  ASSUME BreakerType, state = "Open" => tripped # None, TripsInTime
  PROVE  (state = "Open" => tripped # None)'
BY DEF BreakerType, TripsInTime, None

Inv == BreakerInv /\ AdmittedWereChecked

\* Steps of a call.
LEMMA CallKeeps ==
  ASSUME Inv, NEW c \in Calls, CallStep(c), Watch(FALSE)
  PROVE  Inv'
<1>0. BreakerType /\ PipeType /\ GuestType /\ HistoryType /\ (state = "Open" => tripped # None)
  BY TypeParts DEF Inv, BreakerInv
<1>1. Effect(c) BY CallEffect DEF Inv
<1>2. pc[c] # "idle"
  BY DEF CallStep, Rule, LookupPlugin, ReadState, ReadTripped, CheckElapsed, TakeProbe,
     GuestReturns, StoreZero,
         CloseCircuit, FetchAdd, Trip, MoveOn, Goto
<1>3. TypeOK'
  BY <1>0, <1>1, HistoryTypes DEF Effect, TypeOK, BreakerType, PipeType, GuestType,
     HistoryType
<1>4. (state = "Open" => tripped # None)' BY <1>0, <1>1, OpenHasTime DEF Effect
<1>5. ASSUME NEW d \in Calls PROVE CallInv(d)' /\ WasChecked(d)'
  <2>1. CASE d = c BY <2>1, <1>1, <1>2, OwnKeeps DEF Inv
  <2>2. CASE d # c
    BY <2>2, <1>0, <1>1, OtherKeeps DEF Inv, BreakerInv, AdmittedWereChecked, Effect
  <2> QED BY <2>1, <2>2
<1> QED BY <1>3, <1>4, <1>5 DEF Inv, BreakerInv, AdmittedWereChecked

\* The start of a pipeline.
LEMMA StartKeeps ==
  ASSUME Inv, NEW c \in Calls, NEW s \in Stages, Start(c, s), Watch(FALSE)
  PROVE  Inv'
<1>0. BreakerType /\ PipeType /\ GuestType /\ HistoryType /\ (state = "Open" => tripped # None) /\ CallInv(c)
  BY TypeParts DEF Inv, BreakerInv
<1>1. pc[c] = "idle" /\ pos[c] = 1 /\ pc' = [pc EXCEPT ![c] = "next"]
  BY <1>0 DEF Start, Goto, CallInv
<1>2. PipeType'
  <2>1. pc' \in [Calls -> Steps] /\ stage' \in [Calls -> Stages]
    BY <1>0, <1>1 DEF Start, PipeType, Steps
  <2>2. ASSUME NEW d \in Calls PROVE pos'[d] \in 1..Len(Pipe(d)')
    <3>1. CASE d = c
      <4>1. Pipe(d)' = Pipes[s] /\ Len(Pipes[s]) \in Nat \ {0}
        BY <3>1, <1>0, InterceptorsAssumption DEF Start, PipeType, Pipe
      <4> QED BY <3>1, <4>1, <1>1 DEF Start
    <3>2. CASE d # c
      <4>1. Pipe(d)' = Pipe(d) BY <3>2, <1>0 DEF Start, PipeType, Pipe
      <4> QED BY <4>1, <1>0 DEF Start, PipeType
    <3> QED BY <3>1, <3>2
  <2> QED BY <2>1, <2>2, <1>0 DEF Start, PipeType
<1>3. TypeOK'
  BY <1>0, <1>2, HistoryTypes DEF Start, breaker, TypeOK, BreakerType, PipeType, GuestType,
     HistoryType
<1>4. OthersStay(c) /\ TripsInTime
  BY <1>0, <1>1 DEF OthersStay, TripsInTime, Start, breaker, PipeType
<1>5. (state = "Open" => tripped # None)' BY <1>0, <1>4, OpenHasTime
<1>6. pc'[c] = "next" /\ pos'[c] = 1 BY <1>0, <1>1 DEF Start, PipeType
<1>7. CallInv(c)' /\ WasChecked(c)'
  <2>1. \A i \in 1..pos'[c] - 1 : i \in vouched'[c] BY <1>6
  <2> QED BY <1>6, <2>1 DEF CallInv, WasChecked, Asking
<1>8. ASSUME NEW d \in Calls PROVE CallInv(d)' /\ WasChecked(d)'
  <2>1. CASE d = c BY <2>1, <1>7
  <2>2. CASE d # c BY <2>2, <1>0, <1>4, OtherKeeps DEF Inv, BreakerInv, AdmittedWereChecked
  <2> QED BY <2>1, <2>2
<1> QED BY <1>3, <1>5, <1>8 DEF Inv, BreakerInv, AdmittedWereChecked

\* Steps that change nothing but the plugin's health, and the history with it.
LEMMA HealthKeeps ==
  ASSUME Inv, HealthChanges, Watch(FALSE)
  PROVE  Inv'
<1>0. BreakerType /\ PipeType /\ GuestType /\ HistoryType /\ (state = "Open" => tripped # None)
  BY TypeParts DEF Inv, BreakerInv
<1>1. \A d : Pipe(d)' = Pipe(d) BY DEF HealthChanges, local, Pipe
<1>2. TypeOK'
  BY <1>0, <1>1, HistoryTypes
  DEF HealthChanges, breaker, local, TypeOK, BreakerType, PipeType, GuestType, HistoryType
<1>3. TripsInTime BY DEF HealthChanges, breaker, TripsInTime
<1>4. (state = "Open" => tripped # None)' BY <1>0, <1>3, OpenHasTime
<1>5. ASSUME NEW d \in Calls PROVE CallInv(d)' /\ WasChecked(d)'
  <2>1. PICK c : c \notin Calls BY NoSetContainsEverything
  <2>2. OthersStay(c) BY DEF OthersStay, HealthChanges, local
  <2> QED BY <1>0, <1>3, <2>1, <2>2, OtherKeeps DEF Inv, BreakerInv, AdmittedWereChecked
<1> QED BY <1>2, <1>4, <1>5 DEF Inv, BreakerInv, AdmittedWereChecked

\* Ages grow together.
LEMMA OlderMonotone ==
  ASSUME NEW a \in 0..Cooloff, NEW b \in 0..Cooloff
  PROVE  Older(a) \in 0..Cooloff /\ (a <= b => Older(a) <= Older(b)) /\ (b = Cooloff => Older(b) = Cooloff)
BY InterceptorsAssumption DEF Older

\* The passing of time.
LEMMA TickKeeps ==
  ASSUME Inv, Tick, Watch(TRUE)
  PROVE  Inv'
<1>0. BreakerType /\ PipeType /\ GuestType /\ HistoryType /\ (state = "Open" => tripped # None)
  BY TypeParts DEF Inv, BreakerInv
<1>1. \A d : Pipe(d)' = Pipe(d) /\ \A i : Needed(d, i)' <=> Needed(d, i)
  BY DEF Tick, Pipe, Needed
<1>2. BreakerType'
  <2>1. tripped # None => Older(tripped) \in 0..Cooloff BY <1>0, OlderMonotone DEF BreakerType
  <2> QED BY <1>0, <2>1 DEF Tick, BreakerType
<1>3. PipeType' BY <1>0, <1>1 DEF Tick, PipeType
<1>4. GuestType'
  <2>1. \A d \in Calls : Older(seen[d]) \in 0..Cooloff BY <1>0, OlderMonotone DEF GuestType
  <2>2. seen' \in [Calls -> 0..Cooloff] BY <1>0, <2>1 DEF Tick, GuestType
  <2>3. left' \in [Calls -> 0..Deadline] BY <1>0, InterceptorsAssumption DEF Tick, GuestType
  <2> QED BY <1>0, <2>2, <2>3 DEF Tick, GuestType
<1>5. TypeOK'
  BY <1>0, <1>2, <1>3, <1>4, HistoryTypes DEF TypeOK, BreakerType, PipeType, GuestType,
     HistoryType
<1>6. tripped # None => tripped' = Older(tripped) /\ tripped' # None
  BY <1>0, OlderMonotone DEF Tick, BreakerType, None
<1>7. ASSUME NEW d \in Calls PROVE CallInv(d)' /\ WasChecked(d)'
  <2>0. CallInv(d) /\ WasChecked(d) BY DEF Inv, BreakerInv, AdmittedWereChecked
  <2>1. /\ pc' = pc /\ pos' = pos /\ stage' = stage /\ vouched' = vouched /\ verdict' = verdict
        /\ state' = state
    BY DEF Tick
  <2>2. pc[d] \in Asking => (shut'[d] <=> shut[d] /\ state = "Open") /\ entry'[d] = Older(entry[d])
    BY <2>1 DEF Watch, Asking
  <2>3. entry[d] \in 0..Cooloff /\ seen[d] \in 0..Cooloff BY <1>0 DEF HistoryType, GuestType
  <2>4. pc[d] \in Asking /\ shut'[d] => state' = "Open" /\ tripped' <= entry'[d]
    <3> SUFFICES ASSUME pc[d] \in Asking, shut'[d] PROVE state' = "Open" /\ tripped' <= entry'[d] OBVIOUS
    <3>1. state = "Open" /\ tripped <= entry[d] BY <2>0, <2>2 DEF CallInv
    <3>2. tripped \in 0..Cooloff /\ tripped' = Older(tripped)
      BY <1>0, <1>6, <3>1 DEF BreakerType
    <3> QED BY <2>1, <2>2, <2>3, <3>1, <3>2, OlderMonotone
  <2>5. pc[d] = "elapsed" /\ shut'[d] => seen'[d] <= entry'[d]
    <3> SUFFICES ASSUME pc[d] = "elapsed", shut'[d] PROVE seen'[d] <= entry'[d] OBVIOUS
    <3>1. seen[d] <= entry[d] /\ entry'[d] = Older(entry[d]) BY <2>0, <2>2 DEF CallInv, Asking
    <3>2. seen'[d] = Older(seen[d]) BY DEF Tick
    <3> QED BY <2>3, <3>1, <3>2, OlderMonotone
  <2>6. pc[d] = "take" /\ shut'[d] => entry'[d] = Cooloff
    <3> SUFFICES ASSUME pc[d] = "take", shut'[d] PROVE entry'[d] = Cooloff OBVIOUS
    <3>1. entry[d] = Cooloff /\ entry'[d] = Older(entry[d]) BY <2>0, <2>2 DEF CallInv, Asking
    <3> QED BY <2>3, <3>1, OlderMonotone
  <2>7. WasChecked(d)' BY <1>1, <2>0, <2>1 DEF WasChecked, CheckedTo
  <2> QED BY <1>1, <1>6, <2>0, <2>1, <2>4, <2>5, <2>6, <2>7 DEF CallInv
<1> QED BY <1>0, <1>5, <1>6, <1>7 DEF Inv, BreakerInv, AdmittedWereChecked, Tick

\* The initial states.
LEMMA InitInv == Init => Inv
<1> SUFFICES ASSUME Init PROVE Inv OBVIOUS
<1>1. TypeOK
  <2>1. \A c \in Calls : Pipe(c) = Pipes["request"] /\ pos[c] = 1 BY DEF Init, Pipe
  <2>2. Len(Pipes["request"]) \in Nat \ {0} BY InterceptorsAssumption DEF Stages
  <2> QED BY <2>1, <2>2, InterceptorsAssumption DEF Init, TypeOK, Steps, Stages
<1>2. ASSUME NEW c \in Calls PROVE CallInv(c) /\ WasChecked(c)
  BY DEF Init, CallInv, WasChecked, Asking
<1> QED BY <1>1, <1>2 DEF Inv, BreakerInv, AdmittedWereChecked, Init

\* Stuttering.
LEMMA StutterKeeps ==
  ASSUME Inv, UNCHANGED vars
  PROVE  Inv'
BY DEF vars, breaker, local, history, Inv, BreakerInv, AdmittedWereChecked, TypeOK, CallInv,
   WasChecked, CheckedTo,
       Needed, Pipe

\* The invariant is inductive.
LEMMA InvStep == Inv /\ [Next]_vars => Inv'
<1> SUFFICES ASSUME Inv, [Next]_vars PROVE Inv' OBVIOUS
<1>1. CASE \E c \in Calls, s \in Stages : Start(c, s) /\ Watch(FALSE)
  <2>1. PICK c \in Calls, s \in Stages : Start(c, s) /\ Watch(FALSE) BY <1>1
  <2> QED BY <2>1, StartKeeps
<1>2. CASE \E c \in Calls : CallStep(c) /\ Watch(FALSE)
  <2>1. PICK c \in Calls : CallStep(c) /\ Watch(FALSE) BY <1>2
  <2> QED BY <2>1, CallKeeps
<1>3. CASE HealthChanges /\ Watch(FALSE) BY <1>3, HealthKeeps
<1>4. CASE Tick /\ Watch(TRUE) BY <1>4, TickKeeps
<1>5. CASE UNCHANGED vars BY <1>5, StutterKeeps
<1> QED BY <1>1, <1>2, <1>3, <1>4, <1>5 DEF Next

\* The circuit is never open without the time of its trip, and what a call
\* inside can_execute has read is no older than the trip before it began.
THEOREM BreakerInvHolds == Spec => []BreakerInv
<1>1. Inv => BreakerInv BY DEF Inv
<1> QED BY <1>1, InitInv, InvStep, PTL DEF Spec

\* A response that a pipeline admits, and a request that it admits unchanged,
\* every rule and, under FailClosed, the plugin admitted; a request that the
\* plugin transformed, the plugin and those in front of it admitted, and the
\* rules behind it (RBAC among them) were not asked.
THEOREM PipelineChecked == Spec => []AdmittedWereChecked
<1>1. Inv => AdmittedWereChecked BY DEF Inv
<1> QED BY <1>1, InitInv, InvStep, PTL DEF Spec

\* The guest is called only from the read of the state, or with the write lock.
LEMMA GuestCalledFrom ==
  ASSUME Inv, NEW c \in Calls, CallStep(c), pc[c] \in Asking, pc'[c] = "guest"
  PROVE  (pc[c] = "state" /\ state # "Open") \/ pc[c] = "take"
<1>0. BreakerType /\ PipeType /\ GuestType /\ CallInv(c) BY TypeParts DEF Inv, BreakerInv
<1>1. FailModeAnswers(c) => pc'[c] \in {"idle", "next"}
  BY <1>0 DEF FailModeAnswers, Answer, PipeType
<1>2. \A from, to : MoveOn(c, from, to) => pc'[c] = to BY <1>0 DEF MoveOn, Goto, PipeType
<1>3. CASE pc[c] = "tripped"
  <2>1. ReadTripped(c)
    BY <1>3 DEF CallStep, Rule, LookupPlugin, ReadState, CheckElapsed, TakeProbe,
       GuestReturns, StoreZero,
                CloseCircuit, FetchAdd, Trip, MoveOn, Goto
  <2> QED BY <2>1, <1>0, <1>1 DEF ReadTripped, Goto, PipeType
<1>4. CASE pc[c] = "elapsed"
  <2>1. CheckElapsed(c)
    BY <1>4 DEF CallStep, Rule, LookupPlugin, ReadState, ReadTripped, TakeProbe,
       GuestReturns, StoreZero,
                CloseCircuit, FetchAdd, Trip, MoveOn, Goto
  <2> QED BY <2>1, <1>1, <1>2 DEF CheckElapsed
<1>5. CASE pc[c] = "state"
  <2>1. ReadState(c)
    BY <1>5 DEF CallStep, Rule, LookupPlugin, ReadTripped, CheckElapsed, TakeProbe,
       GuestReturns, StoreZero,
                CloseCircuit, FetchAdd, Trip, MoveOn, Goto
  <2> QED BY <2>1, <1>2, <1>5 DEF ReadState
<1> QED BY <1>3, <1>4, <1>5 DEF Asking

\* can_execute lets a call through only if the circuit was not open at some
\* instant of it, or the trip before it began is a cool-off ago.
THEOREM PermitsJustified == Spec => PermitJustified
<1> DEFINE Permit == \A c \in Calls : pc[c] \in Asking /\ pc'[c] = "guest" => ~shut[c] \/ entry[c] >= Cooloff
<1>1. Inv /\ [Next]_vars => [Permit]_vars
  <2> SUFFICES ASSUME Inv, Next, NEW c \in Calls, pc[c] \in Asking, pc'[c] = "guest"
               PROVE  ~shut[c] \/ entry[c] >= Cooloff
    OBVIOUS
  <2>0. PipeType /\ CallInv(c) BY TypeParts DEF Inv, BreakerInv
  <2>1. CallStep(c)
    <3>1. CASE \E d \in Calls, s \in Stages : Start(d, s)
      <4>1. PICK d \in Calls, s \in Stages : Start(d, s) BY <3>1
      <4>2. pc'[c] = "next" \/ pc'[c] = pc[c] BY <4>1, <2>0 DEF Start, Goto, PipeType
      <4> QED BY <4>2 DEF Asking
    <3>2. CASE \E d \in Calls : CallStep(d)
      <4>1. PICK d \in Calls : CallStep(d) BY <3>2
      <4>2. OthersStay(d) BY <4>1, CallEffect DEF Inv, Effect
      <4> QED BY <4>1, <4>2 DEF OthersStay, Asking
    <3>3. CASE HealthChanges BY <3>3 DEF HealthChanges, Asking
    <3>4. CASE Tick BY <3>4 DEF Tick, Asking
    <3> QED BY <3>1, <3>2, <3>3, <3>4 DEF Next
  <2>2. (pc[c] = "state" /\ state # "Open") \/ pc[c] = "take" BY <2>1, GuestCalledFrom
  <2> QED BY <2>0, <2>2, InterceptorsAssumption DEF CallInv, Asking
<1> QED BY <1>1, InitInv, InvStep, PTL DEF Spec, PermitJustified
-----------------------------------------------------------------------------
(* The RBAC interceptor of a request pipeline *)

\* Entries of different places are of different tokens.
Distinct(q) == \A i, j \in 1..Len(q) : q[i].token = q[j].token => i = j

KeysType ==
  /\ published \subseteq Keys /\ keys \subseteq Keys /\ fetched \subseteq Keys
  /\ refresh \in {"absent", "fetch", "store", "sleep"}
  /\ timely \subseteq Tokens

CallsType ==
  /\ authPc \in [AuthCalls -> {"idle", "lookup", "verify", "put"}]
  /\ op \in [AuthCalls -> Ops \union {NoOp}]
  /\ token \in [AuthCalls -> Tokens \union {NoToken}]
  /\ lag \in [AuthCalls -> 0..MaxDelay]
  /\ authVerdict \in [AuthCalls -> {"none", "Pass", "Audit", "Reject"}]

CacheType == cache \in Seq(Entries) /\ Len(cache) <= Capacity /\ Distinct(cache)

HistoryOfTokens ==
  /\ gone \in [Tokens -> 0..CacheTtl]
  /\ dead \in [AuthCalls -> BOOLEAN]
  /\ \A t \in Tokens : Verifiable(t) => gone[t] = 0

\* A call that is under way has a token and an operation; the clock of one that
\* is not has not been read.
Underway(c) ==
  IF authPc[c] = "idle" THEN lag[c] = 0 /\ ~dead[c]
  ELSE token[c] \in Tokens /\ op[c] \in Ops

\* An entry that is still of use was verified within CacheTtl of its expiry.
EntriesRecent ==
  \A i \in 1..Len(cache) :
    cache[i].left > 0 => gone[cache[i].token] <= CacheTtl - cache[i].left

\* What a call is about to cache was verified since it read the clock.
PutsRecent == \A c \in AuthCalls : authPc[c] = "put" => gone[token[c]] <= lag[c]

\* If c's token has been dead for CacheTtl and all of c, then no entry of the
\* token, stored or about to be stored by any call, is good by c's clock.
DeadStaysDead(c) ==
  dead[c] =>
    /\ gone[token[c]] = CacheTtl
    /\ \A i \in 1..Len(cache) : cache[i].token = token[c] => cache[i].left + lag[c] <= 0
    /\ \A d \in AuthCalls : authPc[d] = "put" /\ token[d] = token[c] => lag[d] >= CacheTtl + lag[c]

\* The inductive invariant of the interceptor.
RbacInv ==
  /\ KeysType /\ CallsType /\ CacheType /\ HistoryOfTokens
  /\ \A c \in AuthCalls : Underway(c)
  /\ EntriesRecent /\ PutsRecent
  /\ \A c \in AuthCalls : DeadStaysDead(c)

\* A stretch of a sequence of entries.
LEMMA EntriesStretch ==
  ASSUME NEW q \in Seq(Entries), NEW m \in 1..(Len(q) + 1), NEW n \in 0..Len(q), m <= n + 1
  PROVE  /\ SubSeq(q, m, n) \in Seq(Entries)
         /\ Len(SubSeq(q, m, n)) = n - m + 1
         /\ \A i \in 1..(n - m + 1) : SubSeq(q, m, n)[i] = q[m + i - 1]
<1> DEFINE E == Entries
<1> HIDE DEF E
<1>0. q \in Seq(E) BY DEF E
<1>1. Len(q) \in Nat /\ \A i \in 1..Len(q) : q[i] \in E BY <1>0, LenProperties, ElementOfSeq
<1>2. \A i \in m..n : q[i] \in E BY <1>1
<1>3. m \in Int /\ n \in Int BY <1>1
<1>4. /\ SubSeq(q, m, n) \in Seq(E)
      /\ Len(SubSeq(q, m, n)) = IF m <= n THEN n - m + 1 ELSE 0
      /\ \A i \in 1..(n - m + 1) : SubSeq(q, m, n)[i] = q[m + i - 1]
  BY <1>2, <1>3, SubSeqProperties
<1>5. Len(SubSeq(q, m, n)) = n - m + 1 BY <1>1, <1>3, <1>4
<1> QED BY <1>4, <1>5 DEF E

\* The first n entries are distinct entries if all are.
LEMMA EntriesPrefix ==
  ASSUME NEW q \in Seq(Entries), Distinct(q), NEW n \in 0..Len(q)
  PROVE  /\ SubSeq(q, 1, n) \in Seq(Entries) /\ Len(SubSeq(q, 1, n)) = n
         /\ Distinct(SubSeq(q, 1, n))
         /\ \A i \in 1..n : SubSeq(q, 1, n)[i] = q[i]
<1> DEFINE p == SubSeq(q, 1, n)
<1>0. Len(q) \in Nat BY LenProperties
<1>1. 1 \in 1..(Len(q) + 1) /\ 1 <= n + 1 /\ n - 1 + 1 = n BY <1>0
<1>2. /\ p \in Seq(Entries) /\ Len(p) = n - 1 + 1
      /\ \A i \in 1..(n - 1 + 1) : p[i] = q[1 + i - 1]
  BY <1>1, EntriesStretch
<1>3. \A i \in 1..n : 1 + i - 1 = i BY <1>0
<1>4. Len(p) = n /\ \A i \in 1..n : p[i] = q[i] BY <1>1, <1>2, <1>3
<1> HIDE DEF p
<1>5. Distinct(p) BY <1>0, <1>4 DEF Distinct
<1> QED BY <1>2, <1>4, <1>5 DEF p

\* A new entry in front of distinct entries of other tokens.
LEMMA EntriesFront ==
  ASSUME NEW q \in Seq(Entries), Distinct(q), NEW e \in Entries,
         \A i \in 1..Len(q) : q[i].token # e.token
  PROVE  /\ <<e>> \o q \in Seq(Entries) /\ Len(<<e>> \o q) = Len(q) + 1
         /\ Distinct(<<e>> \o q)
         /\ \A i \in 1..(Len(q) + 1) :
              (<<e>> \o q)[i] = e \/ \E j \in 1..Len(q) : (<<e>> \o q)[i] = q[j]
<1> DEFINE w == <<e>> \o q
           E == Entries
<1> HIDE DEF E
<1>0. q \in Seq(E) /\ e \in E /\ Len(q) \in Nat BY LenProperties DEF E
<1>1. <<e>> \in Seq(E) /\ Len(<<e>>) = 1 /\ <<e>>[1] = e BY <1>0
<1>2. /\ w \in Seq(E) /\ Len(w) = Len(<<e>>) + Len(q)
      /\ \A i \in 1..(Len(<<e>>) + Len(q)) :
           w[i] = IF i <= Len(<<e>>) THEN <<e>>[i] ELSE q[i - Len(<<e>>)]
  BY <1>0, <1>1, ConcatProperties
<1> HIDE DEF w
<1>3. Len(w) = Len(q) + 1 BY <1>0, <1>1, <1>2
<1>4. \A i \in 1..(Len(q) + 1) : w[i] = IF i = 1 THEN e ELSE q[i - 1]
  BY <1>0, <1>1, <1>2
<1>5. \A i \in 2..(Len(q) + 1) : i - 1 \in 1..Len(q) /\ w[i] = q[i - 1] BY <1>0, <1>4
<1>6. w[1] = e BY <1>0, <1>4
<1>7. \A i \in 1..(Len(q) + 1) : i = 1 \/ i \in 2..(Len(q) + 1) BY <1>0
<1>8. Distinct(w)
  <2> SUFFICES ASSUME NEW i \in 1..(Len(q) + 1), NEW j \in 1..(Len(q) + 1),
                      w[i].token = w[j].token
               PROVE  i = j
    BY <1>3 DEF Distinct
  <2>1. CASE i = 1 /\ j = 1 BY <2>1
  <2>2. CASE i = 1 /\ j # 1 BY <2>2, <1>5, <1>6, <1>7
  <2>3. CASE i # 1 /\ j = 1 BY <2>3, <1>5, <1>6, <1>7
  <2>4. CASE i # 1 /\ j # 1
    <3>1. i - 1 \in 1..Len(q) /\ j - 1 \in 1..Len(q) /\ w[i] = q[i - 1] /\ w[j] = q[j - 1]
      BY <2>4, <1>5, <1>7
    <3>2. i - 1 = j - 1 BY <3>1 DEF Distinct
    <3> QED BY <3>2, <1>0
  <2> QED BY <2>1, <2>2, <2>3, <2>4
<1>9. \A i \in 1..(Len(q) + 1) : w[i] = e \/ \E j \in 1..Len(q) : w[i] = q[j]
  BY <1>5, <1>6, <1>7
<1> QED BY <1>2, <1>3, <1>8, <1>9 DEF w, E

\* Without takes the token's entry, and nothing else, out of the cache.
LEMMA EntriesWithout ==
  ASSUME CacheType, NEW t \in Tokens
  PROVE  LET w == Without(t) IN
         /\ w \in Seq(Entries) /\ Len(w) \in Nat /\ Len(w) <= Len(cache) /\ Distinct(w)
         /\ Cached(t) => Len(w) = Len(cache) - 1
         /\ \A i \in 1..Len(w) : w[i].token # t /\ \E j \in 1..Len(cache) : w[i] = cache[j]
<1>0. cache \in Seq(Entries) /\ Len(cache) \in Nat /\ Distinct(cache)
  BY LenProperties DEF CacheType
<1>1. CASE ~Cached(t)
  <2>1. Without(t) = cache BY <1>1 DEF Without
  <2>2. \A i \in 1..Len(cache) : cache[i].token # t BY <1>1 DEF Cached
  <2> QED BY <1>0, <1>1, <2>1, <2>2
<1>2. CASE Cached(t)
  <2> DEFINE n == Place(t)
             a == SubSeq(cache, 1, n - 1)
             b == SubSeq(cache, n + 1, Len(cache))
             w == a \o b
  <2>1. n \in 1..Len(cache) /\ cache[n].token = t BY <1>2 DEF Cached, Place
  <2>2. Without(t) = w BY <1>2 DEF Without
  <2> HIDE DEF n
  <2>3. a \in Seq(Entries) /\ Len(a) = n - 1 /\ \A i \in 1..(n-1) : a[i] = cache[i]
    <3>1. n - 1 \in 0..Len(cache) BY <1>0, <2>1
    <3> QED BY <1>0, <3>1, EntriesPrefix
  <2>4. /\ b \in Seq(Entries) /\ Len(b) = Len(cache) - n
        /\ \A i \in 1..(Len(cache) - n) : b[i] = cache[n + i]
    <3>1. /\ n + 1 \in 1..(Len(cache) + 1) /\ Len(cache) \in 0..Len(cache)
          /\ n + 1 <= Len(cache) + 1
      BY <1>0, <2>1
    <3>2. /\ b \in Seq(Entries) /\ Len(b) = Len(cache) - (n + 1) + 1
          /\ \A i \in 1..(Len(cache) - (n + 1) + 1) : b[i] = cache[(n + 1) + i - 1]
      BY <1>0, <3>1, EntriesStretch
    <3>3. /\ Len(cache) - (n + 1) + 1 = Len(cache) - n
          /\ \A i \in 1..(Len(cache) - n) : (n + 1) + i - 1 = n + i
      BY <1>0, <2>1
    <3> QED BY <3>2, <3>3
  <2> HIDE DEF a, b
  <2>5. /\ w \in Seq(Entries) /\ Len(w) = Len(a) + Len(b)
        /\ \A i \in 1..(Len(a) + Len(b)) : w[i] = IF i <= Len(a) THEN a[i] ELSE b[i - Len(a)]
    BY <2>3, <2>4, ConcatProperties
  <2> HIDE DEF w
  <2>6. Len(w) = Len(cache) - 1 BY <1>0, <2>1, <2>3, <2>4, <2>5
  <2>7. ASSUME NEW i \in 1..Len(w)
        PROVE  \/ i < n /\ i \in 1..Len(cache) /\ w[i] = cache[i]
               \/ i >= n /\ i + 1 \in 1..Len(cache) /\ w[i] = cache[i + 1]
    <3>0. w[i] = IF i <= Len(a) THEN a[i] ELSE b[i - Len(a)] BY <2>5
    <3>1. CASE i < n
      <4>1. i \in 1..(n - 1) /\ i <= Len(a) /\ i \in 1..Len(cache)
        BY <1>0, <2>1, <2>3, <2>6, <3>1
      <4> QED BY <2>3, <3>0, <3>1, <4>1
    <3>2. CASE i >= n
      <4>1. ~(i <= Len(a)) /\ Len(a) = n - 1 BY <1>0, <2>1, <2>3, <3>2
      <4>2. /\ i - (n - 1) \in 1..(Len(cache) - n) /\ n + (i - (n - 1)) = i + 1
            /\ i + 1 \in 1..Len(cache)
        BY <1>0, <2>1, <2>6, <3>2
      <4>3. w[i] = b[i - (n - 1)] BY <3>0, <4>1
      <4> QED BY <2>4, <3>2, <4>2, <4>3
    <3> QED BY <1>0, <2>1, <2>6, <3>1, <3>2
  <2>8. Distinct(w)
    <3> SUFFICES ASSUME NEW i \in 1..Len(w), NEW j \in 1..Len(w), w[i].token = w[j].token
                 PROVE  i = j
      BY DEF Distinct
    <3>1. i \in Nat /\ j \in Nat /\ n \in Nat BY <2>6, <1>0, <2>1
    <3>2. \/ i < n /\ i \in 1..Len(cache) /\ w[i] = cache[i]
          \/ i >= n /\ i + 1 \in 1..Len(cache) /\ w[i] = cache[i + 1]
      BY <2>7
    <3>3. \/ j < n /\ j \in 1..Len(cache) /\ w[j] = cache[j]
          \/ j >= n /\ j + 1 \in 1..Len(cache) /\ w[j] = cache[j + 1]
      BY <2>7
    <3>4. \A x, y \in 1..Len(cache) : cache[x].token = cache[y].token => x = y
      BY <1>0 DEF Distinct
    <3>5. CASE i < n /\ j < n BY <3>1, <3>2, <3>3, <3>4, <3>5
    <3>6. CASE i < n /\ j >= n
      <4>1. i = j + 1 BY <3>1, <3>2, <3>3, <3>4, <3>6
      <4> QED BY <3>1, <3>6, <4>1
    <3>7. CASE i >= n /\ j < n
      <4>1. i + 1 = j BY <3>1, <3>2, <3>3, <3>4, <3>7
      <4> QED BY <3>1, <3>7, <4>1
    <3>8. CASE i >= n /\ j >= n
      <4>1. i + 1 = j + 1 BY <3>1, <3>2, <3>3, <3>4, <3>8
      <4> QED BY <3>1, <4>1
    <3> QED BY <3>1, <3>5, <3>6, <3>7, <3>8
  <2>9. \A i \in 1..Len(w) : w[i].token # t
    <3> SUFFICES ASSUME NEW i \in 1..Len(w), w[i].token = t PROVE FALSE OBVIOUS
    <3>1. i \in Nat BY <2>6, <1>0
    <3> QED BY <1>0, <2>1, <2>7, <3>1 DEF Distinct
  <2>10. \A i \in 1..Len(w) : \E j \in 1..Len(cache) : w[i] = cache[j] BY <2>7
  <2> QED BY <1>0, <1>2, <2>1, <2>2, <2>5, <2>6, <2>8, <2>9, <2>10
<1> QED BY <1>1, <1>2

\* The constants in the form the proofs use.
LEMMA RbacConstants ==
  /\ Capacity \in Nat \ {0} /\ CacheTtl \in Nat \ {0} /\ MaxDelay \in Nat
  /\ NoToken \notin Tokens /\ NoOp \notin Ops
BY AuthAssumption

\* After the step a token with the key of t would be verified.
Now(t) == KeyOf[t] \in keys' /\ t \in timely'

\* What a call may do in a step that is no tick: answer, start, or go on with its
\* token and its clock, to "put" only if the token is verifiable.
CallGoesOn(c) ==
  \/ authPc'[c] = "idle" /\ lag'[c] = 0
  \/ /\ authPc[c] = "idle" /\ authPc'[c] = "lookup" /\ lag'[c] = lag[c]
     /\ token'[c] \in Tokens /\ op'[c] \in Ops
     /\ UNCHANGED <<keys, timely>>
  \/ /\ authPc[c] # "idle" /\ authPc'[c] # "idle"
     /\ token'[c] = token[c] /\ lag'[c] = lag[c] /\ op'[c] = op[c]
     /\ authPc'[c] = "put" => authPc[c] = "put" \/ Now(token[c])

\* Every entry was there, or is put by a call that is about to.
EntriesComeFromPuts ==
  \A i \in 1..Len(cache') :
    \/ \E j \in 1..Len(cache) : cache'[i] = cache[j]
    \/ \E d \in AuthCalls :
         authPc[d] = "put" /\ cache'[i] = [token |-> token[d], left |-> CacheTtl - lag[d]]

\* Such a step keeps the invariant.
LEMMA RbacStep ==
  ASSUME RbacInv, WatchTokens(FALSE), KeysType', CallsType', CacheType',
         EntriesComeFromPuts, \A c \in AuthCalls : CallGoesOn(c)
  PROVE  RbacInv'
<1> USE RbacConstants
<1>1. \A t \in Tokens : gone'[t] = IF Now(t) THEN 0 ELSE gone[t]
  BY DEF WatchTokens, Verifiable, Now
<1>2. gone \in [Tokens -> 0..CacheTtl] /\ \A t \in Tokens : gone[t] \in 0..CacheTtl
  BY DEF RbacInv, HistoryOfTokens
<1>3. gone' \in [Tokens -> 0..CacheTtl]
  <2>1. gone' = [t \in Tokens |-> IF Now(t) THEN 0 ELSE gone[t]]
    BY DEF WatchTokens, Verifiable, Now
  <2> QED BY <1>2, <2>1
<1>4. \A t \in Tokens : gone'[t] \in 0..CacheTtl /\ gone'[t] <= gone[t] BY <1>1, <1>2
<1>5. dead' \in [AuthCalls -> BOOLEAN]
  <2> DEFINE f(c) == /\ authPc'[c] # "idle"
                     /\ IF authPc[c] = "idle" THEN gone[token'[c]] >= CacheTtl
                        ELSE dead[c] /\ ~Now(token'[c])
  <2>1. dead' = [c \in AuthCalls |-> f(c)] BY DEF WatchTokens, Verifiable, Now
  <2>2. \A c \in AuthCalls : f(c) \in BOOLEAN OBVIOUS
  <2> HIDE DEF f
  <2> QED BY <2>1, <2>2
<1>6. HistoryOfTokens' BY <1>1, <1>3, <1>5 DEF HistoryOfTokens, Verifiable, Now
<1>7. ASSUME NEW c \in AuthCalls, dead'[c]
      PROVE  /\ authPc'[c] # "idle"
             /\ authPc[c] = "idle" => gone[token'[c]] >= CacheTtl
             /\ authPc[c] # "idle" => dead[c] /\ ~Now(token'[c])
  BY <1>7 DEF WatchTokens, Verifiable, Now
<1>8. \A c \in AuthCalls : /\ lag[c] \in 0..MaxDelay /\ lag'[c] \in 0..MaxDelay
                           /\ authPc[c] = "idle" => lag[c] = 0
                           /\ authPc[c] # "idle" => token[c] \in Tokens /\ op[c] \in Ops
  BY DEF RbacInv, CallsType, Underway
<1>9. ASSUME NEW c \in AuthCalls PROVE Underway(c)'
  <2>1. authPc'[c] = "idle" => ~dead'[c] BY <1>7
  <2> QED BY <2>1, <1>8 DEF CallGoesOn, Underway
<1>10. \A i \in 1..Len(cache) : cache[i].left \in -MaxDelay..CacheTtl /\ cache[i].token \in Tokens
  <2>1. \A i \in 1..Len(cache) : cache[i] \in Entries
    BY ElementOfSeq DEF RbacInv, CacheType
  <2> QED BY <2>1 DEF Entries
<1>11. EntriesRecent'
  <2> SUFFICES ASSUME NEW i \in 1..Len(cache'), cache'[i].left > 0
               PROVE  gone'[cache'[i].token] <= CacheTtl - cache'[i].left
    BY DEF EntriesRecent
  <2>1. CASE \E j \in 1..Len(cache) : cache'[i] = cache[j]
    <3>1. PICK j \in 1..Len(cache) : cache'[i] = cache[j] BY <2>1
    <3>2. gone[cache[j].token] <= CacheTtl - cache[j].left BY <3>1 DEF RbacInv, EntriesRecent
    <3> QED BY <1>2, <1>4, <1>10, <3>1, <3>2
  <2>2. CASE \E d \in AuthCalls :
               authPc[d] = "put" /\ cache'[i] = [token |-> token[d], left |-> CacheTtl - lag[d]]
    <3>1. PICK d \in AuthCalls :
            authPc[d] = "put" /\ cache'[i] = [token |-> token[d], left |-> CacheTtl - lag[d]]
      BY <2>2
    <3>2. /\ gone[token[d]] <= lag[d] /\ token[d] \in Tokens /\ cache'[i].token = token[d]
          /\ cache'[i].left = CacheTtl - lag[d]
      BY <1>8, <3>1 DEF RbacInv, PutsRecent
    <3> QED BY <1>2, <1>4, <1>8, <3>2
  <2> QED BY <2>1, <2>2 DEF EntriesComeFromPuts
<1>12. PutsRecent'
  <2> SUFFICES ASSUME NEW c \in AuthCalls, authPc'[c] = "put" PROVE gone'[token'[c]] <= lag'[c]
    BY DEF PutsRecent
  <2>1. /\ authPc[c] # "idle" /\ token'[c] = token[c] /\ lag'[c] = lag[c]
        /\ authPc[c] = "put" \/ Now(token[c])
    BY DEF CallGoesOn
  <2>2. CASE authPc[c] = "put"
    <3>1. gone[token[c]] <= lag[c] BY <2>2 DEF RbacInv, PutsRecent
    <3> QED BY <1>2, <1>4, <1>8, <2>1, <3>1
  <2>3. CASE Now(token[c]) BY <1>1, <1>8, <2>1, <2>3
  <2> QED BY <2>1, <2>2, <2>3
<1>13. ASSUME NEW c \in AuthCalls PROVE DeadStaysDead(c)'
  <2> SUFFICES ASSUME dead'[c]
               PROVE  /\ gone'[token'[c]] = CacheTtl
                      /\ \A i \in 1..Len(cache') :
                           cache'[i].token = token'[c] => cache'[i].left + lag'[c] <= 0
                      /\ \A d \in AuthCalls : authPc'[d] = "put" /\ token'[d] = token'[c]
                           => lag'[d] >= CacheTtl + lag'[c]
    BY DEF DeadStaysDead
  <2> DEFINE t == token'[c]
  \* Before the step, nothing of the token was good by c's clock either.
  <2>1. /\ t \in Tokens /\ gone[t] = CacheTtl /\ ~Now(t) /\ lag'[c] = lag[c]
        /\ \A i \in 1..Len(cache) : cache[i].token = t => cache[i].left + lag[c] <= 0
        /\ \A d \in AuthCalls : authPc[d] = "put" /\ token[d] = t => lag[d] >= CacheTtl + lag[c]
    <3>1. CASE authPc[c] = "idle"
      <4>1. t \in Tokens /\ lag'[c] = lag[c] /\ lag[c] = 0 /\ UNCHANGED <<keys, timely>>
        BY <1>7, <1>8, <3>1 DEF CallGoesOn
      <4>2. gone[t] = CacheTtl BY <1>2, <1>7, <3>1, <4>1
      <4>3. ~Verifiable(t) BY <4>1, <4>2 DEF RbacInv, HistoryOfTokens
      <4>4. ~Now(t) BY <4>1, <4>3 DEF Verifiable, Now
      <4>5. ASSUME NEW i \in 1..Len(cache), cache[i].token = t PROVE cache[i].left + lag[c] <= 0
        <5>1. cache[i].left > 0 => CacheTtl <= CacheTtl - cache[i].left
          BY <4>2, <4>5 DEF RbacInv, EntriesRecent
        <5> QED BY <1>10, <4>1, <5>1
      <4>6. ASSUME NEW d \in AuthCalls, authPc[d] = "put", token[d] = t
            PROVE  lag[d] >= CacheTtl + lag[c]
        <5>1. gone[t] <= lag[d] BY <4>6 DEF RbacInv, PutsRecent
        <5> QED BY <1>8, <4>1, <4>2, <5>1
      <4> QED BY <4>1, <4>2, <4>4, <4>5, <4>6
    <3>2. CASE authPc[c] # "idle"
      <4>1. dead[c] /\ ~Now(t) BY <1>7, <3>2
      <4>2. t = token[c] /\ lag'[c] = lag[c] BY <1>7, <3>2 DEF CallGoesOn
      <4>3. DeadStaysDead(c) BY DEF RbacInv
      <4>4. token[c] \in Tokens BY <1>8, <3>2
      <4> HIDE DEF t
      <4> QED BY <4>1, <4>2, <4>3, <4>4 DEF DeadStaysDead
    <3> QED BY <3>1, <3>2
  <2>2. gone'[t] = CacheTtl BY <1>1, <2>1
  <2>3. ASSUME NEW i \in 1..Len(cache'), cache'[i].token = t PROVE cache'[i].left + lag'[c] <= 0
    <3>1. CASE \E j \in 1..Len(cache) : cache'[i] = cache[j] BY <2>1, <2>3, <3>1
    <3>2. CASE \E d \in AuthCalls :
                 authPc[d] = "put" /\ cache'[i] = [token |-> token[d], left |-> CacheTtl - lag[d]]
      <4>1. PICK d \in AuthCalls :
              authPc[d] = "put" /\ cache'[i] = [token |-> token[d], left |-> CacheTtl - lag[d]]
        BY <3>2
      <4>2. cache'[i].token = token[d] /\ cache'[i].left = CacheTtl - lag[d] BY <4>1
      <4>3. lag[d] >= CacheTtl + lag[c] BY <2>1, <2>3, <4>1, <4>2
      <4> QED BY <1>8, <2>1, <4>2, <4>3
    <3> QED BY <3>1, <3>2 DEF EntriesComeFromPuts
  <2>4. ASSUME NEW d \in AuthCalls, authPc'[d] = "put", token'[d] = t
        PROVE  lag'[d] >= CacheTtl + lag'[c]
    <3>1. /\ token'[d] = token[d] /\ lag'[d] = lag[d]
          /\ authPc[d] = "put" \/ Now(token[d])
      BY <2>4 DEF CallGoesOn
    <3>2. token[d] = t BY <2>4, <3>1
    <3> HIDE DEF t
    <3>3. ~Now(token[d]) BY <2>1, <3>2
    <3>4. authPc[d] = "put" BY <3>1, <3>3
    <3> QED BY <2>1, <3>1, <3>2, <3>4
  <2> QED BY <2>2, <2>3, <2>4
<1> QED BY <1>6, <1>9, <1>11, <1>12, <1>13 DEF RbacInv

\* A tick keeps the invariant: what an entry loses, every clock gains.
LEMMA RbacTick ==
  ASSUME RbacInv, AuthTick, WatchTokens(TRUE)
  PROVE  RbacInv'
<1> USE RbacConstants
<1>1. /\ \A c \in AuthCalls : authPc[c] # "idle" => lag[c] < MaxDelay
      /\ lag' = [c \in AuthCalls |-> IF authPc[c] = "idle" THEN 0 ELSE lag[c] + 1]
      /\ cache' = [i \in DOMAIN cache |->
                     [cache[i] EXCEPT !.left = IF @ > -MaxDelay THEN @ - 1 ELSE @]]
      /\ UNCHANGED <<published, keys, refresh, fetched, timely, authPc, op, token, authVerdict>>
  BY DEF AuthTick, provider
<1>2. /\ lag \in [AuthCalls -> 0..MaxDelay] /\ \A c \in AuthCalls : lag[c] \in 0..MaxDelay
      /\ \A c \in AuthCalls : authPc[c] = "idle" => lag[c] = 0 /\ ~dead[c]
      /\ \A c \in AuthCalls : authPc[c] # "idle" => token[c] \in Tokens /\ op[c] \in Ops
  BY DEF RbacInv, CallsType, Underway
<1>3. \A c \in AuthCalls : IF authPc[c] = "idle" THEN lag'[c] = 0 ELSE lag'[c] = lag[c] + 1
  BY <1>1
<1>4. CallsType'
  <2>1. lag' \in [AuthCalls -> 0..MaxDelay] BY <1>1, <1>2
  <2> QED BY <1>1, <2>1 DEF RbacInv, CallsType
<1>5. KeysType' BY <1>1 DEF RbacInv, KeysType
<1>6. cache \in Seq(Entries) /\ Len(cache) \in Nat /\ DOMAIN cache = 1..Len(cache)
  BY LenProperties DEF RbacInv, CacheType
<1>7. \A i \in 1..Len(cache) : /\ cache[i] \in Entries
                               /\ cache[i].left \in -MaxDelay..CacheTtl
                               /\ cache[i].token \in Tokens
  <2>1. \A i \in 1..Len(cache) : cache[i] \in Entries BY <1>6, ElementOfSeq
  <2> QED BY <2>1 DEF Entries
<1>8. \A i \in 1..Len(cache) :
        /\ cache'[i] \in Entries /\ cache'[i].token = cache[i].token
        /\ cache'[i].left = IF cache[i].left > -MaxDelay THEN cache[i].left - 1 ELSE cache[i].left
  <2> SUFFICES ASSUME NEW i \in 1..Len(cache)
               PROVE  /\ cache'[i] \in Entries /\ cache'[i].token = cache[i].token
                      /\ cache'[i].left = IF cache[i].left > -MaxDelay THEN cache[i].left - 1
                                          ELSE cache[i].left
    OBVIOUS
  <2> DEFINE n == IF cache[i].left > -MaxDelay THEN cache[i].left - 1 ELSE cache[i].left
  <2>1. cache'[i] = [cache[i] EXCEPT !.left = n] BY <1>1, <1>6
  <2>2. n \in -MaxDelay..CacheTtl BY <1>7
  <2> HIDE DEF n
  <2>3. cache[i] \in [token : Tokens, left : -MaxDelay..CacheTtl] BY <1>7 DEF Entries
  <2>4. cache'[i] \in Entries /\ cache'[i].token = cache[i].token /\ cache'[i].left = n
    BY <2>1, <2>2, <2>3 DEF Entries
  <2> QED BY <2>4 DEF n
<1>9. CacheType'
  <2>1. cache' = [i \in 1..Len(cache) |-> cache'[i]] BY <1>1, <1>6
  <2>2. cache' \in Seq(Entries) /\ Len(cache') = Len(cache)
    <3>1. cache' \in [1..Len(cache) -> Entries] BY <1>8, <2>1
    <3> QED BY <1>6, <3>1, SeqDef, LenProperties
  <2>3. Distinct(cache') BY <1>8, <2>2 DEF RbacInv, CacheType, Distinct
  <2> QED BY <2>2, <2>3 DEF RbacInv, CacheType
<1>10. Len(cache') = Len(cache)
  BY <1>1, <1>6, <1>9, LenProperties DEF CacheType
<1>11. \A t \in Tokens : gone[t] \in 0..CacheTtl BY DEF RbacInv, HistoryOfTokens
<1>12. /\ \A t \in Tokens : gone'[t] = IF Verifiable(t) THEN 0
                                      ELSE IF gone[t] < CacheTtl THEN gone[t] + 1 ELSE gone[t]
       /\ gone' = [t \in Tokens |-> gone'[t]]
  BY <1>1 DEF WatchTokens, Verifiable
<1>13. \A t \in Tokens : gone'[t] \in 0..CacheTtl /\ gone'[t] <= gone[t] + 1
  BY <1>11, <1>12
<1>14. dead' = [c \in AuthCalls |-> dead[c] /\ ~Verifiable(token[c])]
  <2>1. dead' = [c \in AuthCalls |-> /\ authPc'[c] # "idle"
                                     /\ IF authPc[c] = "idle" THEN gone[token'[c]] >= CacheTtl
                                        ELSE dead[c] /\ ~Verifiable(token[c])']
    BY DEF WatchTokens
  <2>2. ASSUME NEW c \in AuthCalls
        PROVE  (/\ authPc'[c] # "idle"
                /\ IF authPc[c] = "idle" THEN gone[token'[c]] >= CacheTtl
                   ELSE dead[c] /\ ~Verifiable(token[c])')
               = (dead[c] /\ ~Verifiable(token[c]))
    BY <1>1, <1>2 DEF Verifiable
  <2> QED BY <2>1, <2>2, Zenon
<1>15. HistoryOfTokens'
  <2>1. gone' \in [Tokens -> 0..CacheTtl] BY <1>12, <1>13
  <2>2. dead' \in [AuthCalls -> BOOLEAN] BY <1>14
  <2> QED BY <1>1, <1>12, <2>1, <2>2 DEF HistoryOfTokens, Verifiable
<1>16. \A c \in AuthCalls : Underway(c)' BY <1>1, <1>2, <1>3, <1>14 DEF Underway
<1>17. EntriesRecent'
  <2> SUFFICES ASSUME NEW i \in 1..Len(cache), cache'[i].left > 0
               PROVE  gone'[cache'[i].token] <= CacheTtl - cache'[i].left
    BY <1>10 DEF EntriesRecent
  <2>1. cache[i].left > 0 /\ cache'[i].left = cache[i].left - 1 BY <1>7, <1>8
  <2>2. gone[cache[i].token] <= CacheTtl - cache[i].left BY <2>1 DEF RbacInv, EntriesRecent
  <2> QED BY <1>7, <1>8, <1>11, <1>13, <2>1, <2>2
<1>18. PutsRecent'
  <2> SUFFICES ASSUME NEW c \in AuthCalls, authPc[c] = "put" PROVE gone'[token[c]] <= lag'[c]
    BY <1>1 DEF PutsRecent
  <2>1. gone[token[c]] <= lag[c] BY DEF RbacInv, PutsRecent
  <2> QED BY <1>2, <1>3, <1>11, <1>13, <2>1
<1>19. ASSUME NEW c \in AuthCalls PROVE DeadStaysDead(c)'
  <2> SUFFICES ASSUME dead'[c]
               PROVE  /\ gone'[token[c]] = CacheTtl
                      /\ \A i \in 1..Len(cache) :
                           cache'[i].token = token[c] => cache'[i].left + lag'[c] <= 0
                      /\ \A d \in AuthCalls : authPc[d] = "put" /\ token[d] = token[c]
                           => lag'[d] >= CacheTtl + lag'[c]
    BY <1>1, <1>10 DEF DeadStaysDead
  <2>1. dead[c] /\ ~Verifiable(token[c]) BY <1>14
  <2>2. /\ authPc[c] # "idle" /\ token[c] \in Tokens /\ lag'[c] = lag[c] + 1
        /\ lag[c] < MaxDelay /\ lag[c] \in 0..MaxDelay
    BY <1>1, <1>2, <1>3, <2>1
  <2>3. /\ gone[token[c]] = CacheTtl
        /\ \A i \in 1..Len(cache) : cache[i].token = token[c] => cache[i].left + lag[c] <= 0
        /\ \A d \in AuthCalls : authPc[d] = "put" /\ token[d] = token[c] => lag[d] >= CacheTtl + lag[c]
    BY <2>1 DEF RbacInv, DeadStaysDead
  <2>4. gone'[token[c]] = CacheTtl BY <1>12, <2>1, <2>2, <2>3
  <2>5. ASSUME NEW i \in 1..Len(cache), cache'[i].token = token[c]
        PROVE  cache'[i].left + lag'[c] <= 0
    <3> DEFINE n == cache[i].left
               m == lag[c]
    <3>1. n + m <= 0 BY <1>8, <2>3, <2>5
    <3>2. cache'[i].left = IF n > -MaxDelay THEN n - 1 ELSE n BY <1>8
    <3>3. n \in -MaxDelay..CacheTtl /\ m \in 0..MaxDelay /\ m < MaxDelay /\ lag'[c] = m + 1
      BY <1>7, <2>2
    <3> HIDE DEF n, m
    <3>4. CASE n > -MaxDelay BY <3>1, <3>2, <3>3, <3>4
    <3>5. CASE ~(n > -MaxDelay) BY <3>1, <3>2, <3>3, <3>5
    <3> QED BY <3>4, <3>5
  <2>6. ASSUME NEW d \in AuthCalls, authPc[d] = "put", token[d] = token[c]
        PROVE  lag'[d] >= CacheTtl + lag'[c]
    BY <1>2, <1>3, <2>2, <2>3, <2>6
  <2> QED BY <2>4, <2>5, <2>6
<1> QED BY <1>4, <1>5, <1>9, <1>15, <1>16, <1>17, <1>18, <1>19 DEF RbacInv

\* At the start nothing is cached and nobody is under way.
LEMMA RbacInit ==
  ASSUME AuthInit
  PROVE  RbacInv
<1> USE RbacConstants
<1>1. KeysType BY DEF AuthInit, KeysType
<1>2. CallsType BY DEF AuthInit, CallsType
<1>3. cache = <<>> /\ Len(cache) = 0 BY DEF AuthInit
<1>4. CacheType BY <1>3 DEF CacheType, Distinct
<1>5. HistoryOfTokens BY DEF AuthInit, HistoryOfTokens, Verifiable
<1>6. \A c \in AuthCalls : Underway(c) /\ DeadStaysDead(c)
  BY DEF AuthInit, Underway, DeadStaysDead
<1>7. EntriesRecent /\ PutsRecent BY <1>3 DEF AuthInit, EntriesRecent, PutsRecent
<1> QED BY <1>1, <1>2, <1>4, <1>5, <1>6, <1>7 DEF RbacInv

\* A call that a step leaves alone goes on, or stays idle.
LEMMA CallStays ==
  ASSUME RbacInv, NEW c \in AuthCalls, authPc'[c] = authPc[c], token'[c] = token[c],
         lag'[c] = lag[c], op'[c] = op[c]
  PROVE  CallGoesOn(c)
BY DEF RbacInv, Underway, CallGoesOn

\* An unchanged cache has no new entries.
LEMMA CacheStays ==
  ASSUME RbacInv, cache' = cache
  PROVE  CacheType' /\ EntriesComeFromPuts
BY DEF RbacInv, CacheType, Distinct, EntriesComeFromPuts

\* The policy answers with a verdict.
LEMMA DecideType ==
  ASSUME NEW o \in Ops, NEW t, NEW known \in BOOLEAN
  PROVE  Decide(o, t, known) \in {"none", "Pass", "Audit", "Reject"}
BY AuthAssumption DEF Decide

\* An answer ends the call, and touches no other.
LEMMA AnswerMoves ==
  ASSUME RbacInv, NEW c \in AuthCalls,
         NEW v \in {"none", "Pass", "Audit", "Reject"}, AuthAnswer(c, v)
  PROVE  CallsType' /\ \A d \in AuthCalls : CallGoesOn(d)
<1> USE RbacConstants
<1>1. CallsType BY DEF RbacInv
<1>2. authPc' = [authPc EXCEPT ![c] = "idle"] /\ authVerdict' = [authVerdict EXCEPT ![c] = v]
  BY DEF AuthAnswer
<1>3. /\ lag' = [lag EXCEPT ![c] = 0] /\ op' = [op EXCEPT ![c] = NoOp]
      /\ token' = [token EXCEPT ![c] = NoToken]
  BY DEF AuthAnswer
<1>4. CallsType' BY <1>1, <1>2, <1>3 DEF CallsType
<1>5. CallGoesOn(c) BY <1>1, <1>2, <1>3 DEF CallsType, CallGoesOn
<1>6. ASSUME NEW d \in AuthCalls \ {c} PROVE CallGoesOn(d)
  <2>1. authPc'[d] = authPc[d] /\ lag'[d] = lag[d] /\ op'[d] = op[d] /\ token'[d] = token[d]
    BY <1>1, <1>2, <1>3 DEF CallsType
  <2> QED BY <2>1, CallStays
<1> QED BY <1>4, <1>5, <1>6

\* A step of one call from one place to the next, with everything else of it kept.
LEMMA PcMoves ==
  ASSUME RbacInv, NEW c \in AuthCalls, NEW p \in {"verify", "put"}, authPc[c] # "idle",
         authPc' = [authPc EXCEPT ![c] = p], UNCHANGED <<op, token, lag, authVerdict>>,
         p = "put" => Now(token[c])
  PROVE  CallsType' /\ \A d \in AuthCalls : CallGoesOn(d)
<1>1. CallsType BY DEF RbacInv
<1>2. CallsType' BY <1>1 DEF CallsType
<1>3. CallGoesOn(c) BY <1>1 DEF CallsType, CallGoesOn
<1>4. ASSUME NEW d \in AuthCalls \ {c} PROVE CallGoesOn(d)
  <2>1. authPc'[d] = authPc[d] BY <1>1 DEF CallsType
  <2> QED BY <2>1, CallStays
<1> QED BY <1>2, <1>3, <1>4

\* A lookup moves an entry to the front, and loses none.
LEMMA LookupCache ==
  ASSUME RbacInv, NEW t \in Tokens,
         cache' = IF Cached(t) THEN <<EntryOf(t)>> \o Without(t) ELSE cache
  PROVE  CacheType' /\ EntriesComeFromPuts
<1> USE RbacConstants
<1>1. CASE ~Cached(t) BY <1>1, CacheStays
<1>2. CASE Cached(t)
  <2> DEFINE e == EntryOf(t)
             w == Without(t)
  <2>0. CacheType /\ Len(cache) \in Nat BY LenProperties DEF RbacInv, CacheType
  <2>1. /\ w \in Seq(Entries) /\ Distinct(w) /\ Len(w) = Len(cache) - 1
        /\ \A i \in 1..Len(w) : w[i].token # t /\ \E j \in 1..Len(cache) : w[i] = cache[j]
    BY <1>2, <2>0, EntriesWithout
  <2>2. PICK n \in 1..Len(cache) : e = cache[n] /\ cache[n].token = t
    BY <1>2 DEF Cached, EntryOf, Place
  <2>3. e \in Entries BY <2>0, <2>2, ElementOfSeq DEF CacheType
  <2>4. cache' = <<e>> \o w BY <1>2
  <2> HIDE DEF e, w
  <2>5. /\ cache' \in Seq(Entries) /\ Len(cache') = Len(w) + 1 /\ Distinct(cache')
        /\ \A i \in 1..(Len(w) + 1) : cache'[i] = e \/ \E j \in 1..Len(w) : cache'[i] = w[j]
    <3>1. \A i \in 1..Len(w) : w[i].token # e.token BY <2>1, <2>2
    <3>2. w \in Seq(Entries) /\ Distinct(w) BY <2>1
    <3>3. /\ <<e>> \o w \in Seq(Entries) /\ Len(<<e>> \o w) = Len(w) + 1
          /\ Distinct(<<e>> \o w)
          /\ \A i \in 1..(Len(w) + 1) :
               (<<e>> \o w)[i] = e \/ \E j \in 1..Len(w) : (<<e>> \o w)[i] = w[j]
      BY <2>3, <3>1, <3>2, EntriesFront
    <3> QED BY <2>4, <3>3
  <2>6. Len(cache') = Len(cache) BY <2>0, <2>1, <2>5
  <2>7. CacheType' BY <2>0, <2>5, <2>6 DEF CacheType
  <2>8. ASSUME NEW i \in 1..Len(cache') PROVE \E j \in 1..Len(cache) : cache'[i] = cache[j]
    <3>1. CASE cache'[i] = e BY <2>2, <3>1
    <3>2. ASSUME NEW k \in 1..Len(w), cache'[i] = w[k]
          PROVE  \E j \in 1..Len(cache) : cache'[i] = cache[j]
      BY <2>1, <3>2
    <3> QED BY <2>5, <3>1, <3>2
  <2> QED BY <2>7, <2>8 DEF EntriesComeFromPuts
<1> QED BY <1>1, <1>2

\* put keeps the cache within its capacity and one entry for each token.
LEMMA PutCache ==
  ASSUME RbacInv, NEW c \in AuthCalls, authPc[c] = "put",
         Put([token |-> token[c], left |-> CacheTtl - lag[c]])
  PROVE  CacheType' /\ EntriesComeFromPuts
<1> USE RbacConstants
<1> DEFINE e == [token |-> token[c], left |-> CacheTtl - lag[c]]
           t == token[c]
           w == Without(t)
           n == IF Len(w) < Capacity THEN Len(w) ELSE Capacity - 1
<1>0. CacheType /\ t \in Tokens /\ lag[c] \in 0..MaxDelay
  BY DEF RbacInv, Underway, CallsType
<1>1. e \in Entries /\ e.token = t
  <2>1. CacheTtl - lag[c] \in -MaxDelay..CacheTtl BY <1>0
  <2> QED BY <1>0, <2>1 DEF Entries
<1>2. cache' = <<e>> \o SubSeq(w, 1, n) BY DEF Put
<1> HIDE DEF e
<1>3. /\ w \in Seq(Entries) /\ Distinct(w) /\ Len(w) \in Nat
      /\ \A i \in 1..Len(w) : w[i].token # t /\ \E j \in 1..Len(cache) : w[i] = cache[j]
  BY <1>0, EntriesWithout
<1> HIDE DEF w
<1>4. n \in 0..Len(w) /\ n + 1 <= Capacity BY <1>3
<1> DEFINE p == SubSeq(w, 1, n)
<1> HIDE DEF n
<1>5. /\ p \in Seq(Entries) /\ Len(p) = n /\ Distinct(p)
      /\ \A i \in 1..n : p[i] = w[i] /\ i \in 1..Len(w)
  BY <1>3, <1>4, EntriesPrefix
<1>6. cache' = <<e>> \o p BY <1>2
<1> HIDE DEF p, t
<1>7. \A i \in 1..Len(p) : p[i].token # e.token BY <1>1, <1>3, <1>5
<1>8. /\ cache' \in Seq(Entries) /\ Len(cache') = Len(p) + 1 /\ Distinct(cache')
      /\ \A i \in 1..(Len(p) + 1) : cache'[i] = e \/ \E j \in 1..Len(p) : cache'[i] = p[j]
  BY <1>1, <1>5, <1>6, <1>7, EntriesFront
<1>9. CacheType' BY <1>4, <1>5, <1>8 DEF CacheType
<1>10. ASSUME NEW i \in 1..Len(cache')
       PROVE  cache'[i] = e \/ \E j \in 1..Len(cache) : cache'[i] = cache[j]
  <2>1. ASSUME NEW k \in 1..Len(p), cache'[i] = p[k]
        PROVE  \E j \in 1..Len(cache) : cache'[i] = cache[j]
    <3>1. k \in 1..Len(w) /\ p[k] = w[k] BY <1>5
    <3> QED BY <1>3, <2>1, <3>1
  <2> QED BY <1>8, <2>1
<1> QED BY <1>9, <1>10 DEF EntriesComeFromPuts, e

\* Every step keeps the invariant.
LEMMA RbacNext ==
  ASSUME RbacInv, [AuthNext]_authVars
  PROVE  RbacInv'
<1> USE RbacConstants
<1>0. KeysType /\ CallsType BY DEF RbacInv
<1>1. ASSUME WatchTokens(FALSE), NEW c \in AuthCalls, NEW o \in Ops, Anonymous(c, o)
      PROVE  RbacInv'
  <2> DEFINE v == IF o \in PublicOps THEN "Pass" ELSE Decide(o, NoToken, FALSE)
  <2>1. v \in {"none", "Pass", "Audit", "Reject"} BY DecideType
  <2>2. AuthAnswer(c, v) /\ UNCHANGED <<published, keys, refresh, fetched, timely, cache>>
    BY <1>1 DEF Anonymous, provider
  <2> HIDE DEF v
  <2>3. KeysType' BY <1>0, <2>2 DEF KeysType
  <2> QED BY <1>1, <2>1, <2>2, <2>3, AnswerMoves, CacheStays, RbacStep
<1>2. ASSUME WatchTokens(FALSE), NEW c \in AuthCalls, NEW o \in Ops, NEW t \in Tokens,
             AuthStart(c, o, t)
      PROVE  RbacInv'
  <2>1. /\ authPc[c] = "idle" /\ authPc' = [authPc EXCEPT ![c] = "lookup"]
        /\ op' = [op EXCEPT ![c] = o] /\ token' = [token EXCEPT ![c] = t]
        /\ authVerdict' = [authVerdict EXCEPT ![c] = "none"]
        /\ UNCHANGED <<published, keys, refresh, fetched, timely, cache, lag>>
    BY <1>2 DEF AuthStart, provider
  <2>2. KeysType' BY <1>0, <2>1 DEF KeysType
  <2>3. CallsType' BY <1>0, <2>1 DEF CallsType
  <2>4. CallGoesOn(c) BY <1>0, <2>1 DEF CallsType, CallGoesOn
  <2>5. ASSUME NEW d \in AuthCalls \ {c} PROVE CallGoesOn(d)
    <3>1. authPc'[d] = authPc[d] /\ lag'[d] = lag[d] /\ op'[d] = op[d] /\ token'[d] = token[d]
      BY <1>0, <2>1 DEF CallsType
    <3> QED BY <3>1, CallStays
  <2> QED BY <1>2, <2>1, <2>2, <2>3, <2>4, <2>5, CacheStays, RbacStep
<1>3. ASSUME WatchTokens(FALSE), NEW c \in AuthCalls, Lookup(c) PROVE RbacInv'
  <2>1. /\ authPc[c] = "lookup" /\ UNCHANGED <<published, keys, refresh, fetched, timely>>
        /\ cache' = IF Cached(token[c]) THEN <<EntryOf(token[c])>> \o Without(token[c])
                    ELSE cache
        /\ \/ AuthAnswer(c, Decide(op[c], token[c], TRUE))
           \/ authPc' = [authPc EXCEPT ![c] = "verify"] /\ UNCHANGED <<op, token, lag, authVerdict>>
    BY <1>3 DEF Lookup, provider
  <2>2. token[c] \in Tokens /\ op[c] \in Ops BY <2>1 DEF RbacInv, Underway
  <2>3. KeysType' BY <1>0, <2>1 DEF KeysType
  <2>4. CacheType' /\ EntriesComeFromPuts BY <2>1, <2>2, LookupCache
  <2>5. CallsType' /\ \A d \in AuthCalls : CallGoesOn(d)
    BY <2>1, <2>2, DecideType, AnswerMoves, PcMoves
  <2> QED BY <1>3, <2>3, <2>4, <2>5, RbacStep
<1>4. ASSUME WatchTokens(FALSE), NEW c \in AuthCalls, Verify(c) PROVE RbacInv'
  <2>1. /\ authPc[c] = "verify" /\ UNCHANGED <<published, keys, refresh, fetched, timely, cache>>
        /\ \/ AuthAnswer(c, Decide(op[c], token[c], FALSE))
           \/ /\ Verifiable(token[c])
              /\ authPc' = [authPc EXCEPT ![c] = "put"] /\ UNCHANGED <<op, token, lag, authVerdict>>
    BY <1>4 DEF Verify, provider
  <2>2. op[c] \in Ops BY <2>1 DEF RbacInv, Underway
  <2>3. KeysType' BY <1>0, <2>1 DEF KeysType
  <2>4. Verifiable(token[c]) => Now(token[c]) BY <2>1 DEF Verifiable, Now
  <2>5. CallsType' /\ \A d \in AuthCalls : CallGoesOn(d)
    BY <2>1, <2>2, <2>4, DecideType, AnswerMoves, PcMoves
  <2> QED BY <1>4, <2>1, <2>3, <2>5, CacheStays, RbacStep
<1>5. ASSUME WatchTokens(FALSE), NEW c \in AuthCalls, PutClaims(c) PROVE RbacInv'
  <2>1. /\ authPc[c] = "put" /\ UNCHANGED <<published, keys, refresh, fetched, timely>>
        /\ Put([token |-> token[c], left |-> CacheTtl - lag[c]])
        /\ AuthAnswer(c, Decide(op[c], token[c], TRUE))
    BY <1>5 DEF PutClaims, provider
  <2>2. op[c] \in Ops BY <2>1 DEF RbacInv, Underway
  <2>3. KeysType' BY <1>0, <2>1 DEF KeysType
  <2>4. CallsType' /\ \A d \in AuthCalls : CallGoesOn(d) BY <2>1, <2>2, DecideType, AnswerMoves
  <2>5. CacheType' /\ EntriesComeFromPuts BY <2>1, PutCache
  <2> QED BY <1>5, <2>3, <2>4, <2>5, RbacStep
<1>6. ASSUME WatchTokens(FALSE),
             \/ FetchOk \/ FetchFails \/ StoreKeys \/ Wake \/ Rotate
             \/ \E t \in Tokens : Expire(t)
      PROVE  RbacInv'
  <2>1. KeysType' /\ UNCHANGED <<cache, authPc, op, token, lag, authVerdict>>
    BY <1>0, <1>6 DEF FetchOk, FetchFails, StoreKeys, Wake, Rotate,
                      Expire, provider, call, KeysType
  <2>2. CallsType' BY <1>0, <2>1 DEF CallsType
  <2>3. \A d \in AuthCalls : CallGoesOn(d) BY <2>1, CallStays
  <2> QED BY <1>6, <2>1, <2>2, <2>3, CacheStays, RbacStep
<1>7. CASE AuthTick /\ WatchTokens(TRUE) BY <1>7, RbacTick
<1>8. CASE UNCHANGED authVars
  BY <1>8 DEF authVars, provider, call, RbacInv, KeysType, CallsType, CacheType,
              HistoryOfTokens, Underway, EntriesRecent, PutsRecent, DeadStaysDead, Distinct,
              Verifiable
<1> QED BY <1>1, <1>2, <1>3, <1>4, <1>5, <1>6, <1>7, <1>8 DEF AuthNext, AuthStep

\* The invariant holds in every reachable state.
LEMMA RbacInvHolds == AuthSpec => []RbacInv
<1>1. AuthInit => RbacInv BY RbacInit
<1>2. RbacInv /\ [AuthNext]_authVars => RbacInv' BY RbacNext
<1> QED BY <1>1, <1>2, PTL DEF AuthSpec

\* The L1 cache never exceeds its capacity, has one entry for a token, and an
\* entry of use was verified within CacheTtl of its expiry: whatever calls
\* interleave, keys rotate and tokens expire.
THEOREM CacheBounded == AuthSpec => []CacheInv
<1>1. RbacInv => CacheInv
  <2> SUFFICES ASSUME RbacInv PROVE CacheInv OBVIOUS
  <2>1. cache \in Seq(Entries) /\ DOMAIN cache = 1..Len(cache)
    BY LenProperties DEF RbacInv, CacheType
  <2>2. AuthTypeOK
    BY <2>1 DEF RbacInv, KeysType, CallsType, HistoryOfTokens, AuthTypeOK
  <2> QED BY <2>1, <2>2 DEF RbacInv, CacheType, Distinct, EntriesRecent, PutsRecent, CacheInv
<1> QED BY <1>1, RbacInvHolds, PTL

\* What the policy lets pass, where it asks for an identity.
LEMMA DecidePass ==
  ASSUME NEW o \in Ops, NEW t \in Tokens, NEW known \in BOOLEAN,
         Decide(o, t, known) = "Pass"
  PROVE  /\ Policy[o] \in {"DenyUnlisted", "AllowAuthenticated"} => known
         /\ Policy[o] = "DenyUnlisted" => o \in RolesFit[t]
BY AuthAssumption DEF Decide, HasPermission

\* A revoked key or an expired token lets no request through for longer than
\* CacheTtl before the request began: the clock is read before the lookup and
\* before the verification, by any number of calls at once.
THEOREM RbacZeroTrust == AuthSpec => ZeroTrust
<1> DEFINE A == \A c \in AuthCalls :
             authPc[c] # "idle" /\ authPc'[c] = "idle" /\ authVerdict'[c] = "Pass" =>
               /\ Policy[op[c]] \in {"DenyUnlisted", "AllowAuthenticated"}
                    => ~dead[c] \/ Verifiable(token[c])
               /\ Policy[op[c]] = "DenyUnlisted" => op[c] \in RolesFit[token[c]]
<1>1. ASSUME RbacInv, [AuthNext]_authVars PROVE [A]_authVars
  <2> USE RbacConstants
  <2> SUFFICES ASSUME NEW c \in AuthCalls, authPc[c] # "idle", authPc'[c] = "idle",
                      authVerdict'[c] = "Pass", AuthNext
               PROVE  /\ Policy[op[c]] \in {"DenyUnlisted", "AllowAuthenticated"}
                           => ~dead[c] \/ Verifiable(token[c])
                      /\ Policy[op[c]] = "DenyUnlisted" => op[c] \in RolesFit[token[c]]
    BY <1>1
  <2>0. token[c] \in Tokens /\ op[c] \in Ops /\ CallsType /\ DeadStaysDead(c) /\ lag[c] \in 0..MaxDelay
    BY <1>1 DEF RbacInv, Underway, CallsType
  <2>1. AuthStep(c)
    <3>1. \A d \in AuthCalls, o \in Ops : Anonymous(d, o) => d # c /\ authPc'[c] = authPc[c]
      BY <2>0 DEF Anonymous, AuthAnswer, CallsType
    <3>2. \A d \in AuthCalls, o \in Ops, t \in Tokens : AuthStart(d, o, t) => authPc'[c] # "idle"
      BY <2>0 DEF AuthStart, CallsType
    <3>3. \A d \in AuthCalls \ {c} : AuthStep(d) => authPc'[c] = authPc[c]
      BY <2>0 DEF AuthStep, Lookup, Verify, PutClaims, AuthAnswer, CallsType
    <3>4. FetchOk \/ FetchFails \/ StoreKeys \/ Wake \/ Rotate
            \/ (\E t \in Tokens : Expire(t)) \/ AuthTick => authPc' = authPc
      BY DEF FetchOk, FetchFails, StoreKeys, Wake, Rotate,
             Expire, AuthTick, call
    <3> QED BY <3>1, <3>2, <3>3, <3>4 DEF AuthNext
  <2>2. CASE Lookup(c)
    <3>1. /\ Cached(token[c]) /\ EntryOf(token[c]).left + lag[c] > 0
          /\ AuthAnswer(c, Decide(op[c], token[c], TRUE))
      BY <2>0, <2>2 DEF Lookup, CallsType
    <3>2. Decide(op[c], token[c], TRUE) = "Pass" BY <2>0, <3>1 DEF AuthAnswer, CallsType
    <3>3. PICK n \in 1..Len(cache) : EntryOf(token[c]) = cache[n] /\ cache[n].token = token[c]
      BY <3>1 DEF Cached, EntryOf, Place
    <3>4. cache[n].left \in Int
      <4>1. cache[n] \in Entries BY <1>1, ElementOfSeq DEF RbacInv, CacheType
      <4> QED BY <4>1 DEF Entries
    <3>5. ~dead[c] BY <2>0, <3>1, <3>3, <3>4 DEF DeadStaysDead
    <3> QED BY <2>0, <3>2, <3>5, DecidePass
  <2>3. CASE Verify(c)
    <3>1. AuthAnswer(c, Decide(op[c], token[c], FALSE))
      BY <2>0, <2>3 DEF Verify, CallsType
    <3>2. Decide(op[c], token[c], FALSE) = "Pass" BY <2>0, <3>1 DEF AuthAnswer, CallsType
    <3> QED BY <2>0, <3>2, DecidePass
  <2>4. CASE PutClaims(c)
    <3>1. authPc[c] = "put" /\ AuthAnswer(c, Decide(op[c], token[c], TRUE))
      BY <2>4 DEF PutClaims
    <3>2. Decide(op[c], token[c], TRUE) = "Pass" BY <2>0, <3>1 DEF AuthAnswer, CallsType
    <3>3. ~dead[c]
      <4>1. dead[c] => lag[c] >= CacheTtl + lag[c] BY <2>0, <3>1 DEF DeadStaysDead
      <4> QED BY <2>0, <4>1
    <3> QED BY <2>0, <3>2, <3>3, DecidePass
  <2> QED BY <2>1, <2>2, <2>3, <2>4 DEF AuthStep
<1>2. RbacInv /\ [AuthNext]_authVars => [A]_authVars BY <1>1
<1>3. AuthSpec => []RbacInv BY RbacInvHolds
<1> QED BY <1>2, <1>3, PTL DEF AuthSpec, ZeroTrust
=============================================================================
