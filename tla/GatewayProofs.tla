---------------------------- MODULE GatewayProofs ----------------------------
(***************************************************************************)
(* Proofs about the request lifecycle, for any number of requests and      *)
(* keys, any routes and policies and any choice of evictable keys; and, at *)
(* the end, about the dispatch handlers that carry its events.             *)
(***************************************************************************)
EXTENDS Gateway, Dispatchers, SequenceTheorems, FiniteSetTheorems, TLAPS

-----------------------------------------------------------------------------
(* The engine's interface *)

\* Locks and cached responses are records, and never the absent one.
LEMMA RecordTypes ==
  ASSUME NEW r \in Requests, NEW t \in 0..MaxTime
  PROVE  /\ InProgress(r, t) \in Records /\ InProgress(r, t) # NoRecord
         /\ InProgress(r, t).state = "InProgress" /\ InProgress(r, t).owner = r
         /\ InProgress(r, t).at = t
         /\ Completed(r, t) \in Records /\ Completed(r, t) # NoRecord
         /\ Completed(r, t).state = "Completed" /\ Completed(r, t).owner = r
         /\ Completed(r, t).at = t
         /\ NoRecord \in Records
BY DEF InProgress, Completed, Records, NoRecord

\* A record that is there is a lock or a response of some request.
LEMMA RecordFields ==
  ASSUME NEW R \in Records, R # NoRecord
  PROVE  /\ R.state \in {"InProgress", "Completed"} /\ R.owner \in Requests
         /\ R.at \in 0..MaxTime
BY DEF Records

\* The empty engine is well typed.
LEMMA StoreInitType == StoreInit => StoreTypeOK
BY StoreAssumption DEF StoreInit, StoreTypeOK, Records, Phases

\* Every operation of the engine keeps its types, if those who wait for an
\* answer have named a key.
LEMMA StoreStepType ==
  ASSUME StoreTypeOK, [StoreNext]_storeVars,
         \A r \in Requests : phase[r] = "checking" => key[r] \in Keys
  PROVE  StoreTypeOK'
<1> USE StoreAssumption DEF StoreTypeOK
<1>0. CASE UNCHANGED storeVars
  BY <1>0 DEF storeVars
<1>1. CASE Tick
  BY <1>1 DEF Tick
<1>2. ASSUME NEW r \in Requests, NEW k \in Keys, Call(r, k) PROVE StoreTypeOK'
  BY <1>2 DEF Call, To, Phases
<1>3. ASSUME NEW r \in Requests, Acquire(r) PROVE StoreTypeOK'
  <2>1. InProgress(r, called[r]) \in Records BY RecordTypes
  <2> QED BY <1>3, <2>1 DEF Acquire, To, Phases
<1>4. ASSUME NEW r \in Requests, Conflict(r) PROVE StoreTypeOK'
  BY <1>4 DEF Conflict, To, Phases
<1>5. ASSUME NEW r \in Requests, Replay(r) PROVE StoreTypeOK'
  <2>1. rec[key[r]] \in Records /\ rec[key[r]] # NoRecord
    BY <1>5 DEF Replay, To, Live
  <2>2. source' \in [Requests -> Requests \union {NoRequest}]
    BY <1>5, <2>1, RecordFields DEF Replay
  <2> QED BY <1>5, <2>2 DEF Replay, To, Phases
<1>6. ASSUME NEW r \in Requests, Complete(r) PROVE StoreTypeOK'
  <2>1. Completed(r, now) \in Records /\ NoRecord \in Records BY RecordTypes
  <2>2. PICK drop \in {{}} \union {{k} : k \in Evictable \ {key[r]}} :
          rec' = [k \in Keys |-> IF k = key[r] THEN Completed(r, now)
                                 ELSE IF k \in drop THEN NoRecord ELSE rec[k]]
    BY <1>6 DEF Complete
  <2>3. rec' \in [Keys -> Records] BY <2>1, <2>2
  <2> QED BY <1>6, <2>3 DEF Complete, To, Phases
<1>7. ASSUME NEW r \in Requests, Remove(r) PROVE StoreTypeOK'
  BY <1>7 DEF Remove, To, Phases, Records
<1>8. ASSUME NEW r \in Requests, Abandon(r) PROVE StoreTypeOK'
  BY <1>8 DEF Abandon, To, Phases
<1>9. ASSUME NEW k \in Keys, Evict(k) PROVE StoreTypeOK'
  BY <1>9 DEF Evict, Records
<1> QED BY <1>0, <1>1, <1>2, <1>3, <1>4, <1>5, <1>6, <1>7, <1>8, <1>9 DEF StoreNext

-----------------------------------------------------------------------------
(* Sequences of events *)

\* What an event appended to a list of events adds to it.
LEMMA AppendEvent ==
  ASSUME NEW s \in Seq(Events), NEW e \in Events
  PROVE  /\ Append(s, e) \in Seq(Events)
         /\ DOMAIN s \subseteq DOMAIN Append(s, e)
         /\ \A i \in DOMAIN s : Append(s, e)[i] = s[i]
         /\ \A i \in DOMAIN Append(s, e) : i \in DOMAIN s \/ Append(s, e)[i] = e
         /\ \A i, j \in DOMAIN Append(s, e) : i \notin DOMAIN s /\ j \notin DOMAIN s => i = j
         /\ \E i \in DOMAIN Append(s, e) : Append(s, e)[i] = e
<1>1. /\ Append(s, e) \in Seq(Events)
      /\ Len(Append(s, e)) = Len(s) + 1
      /\ \A i \in 1 .. Len(s) : Append(s, e)[i] = s[i]
      /\ Append(s, e)[Len(s) + 1] = e
  BY AppendProperties
<1>2. Len(s) \in Nat /\ DOMAIN s = 1 .. Len(s) /\ DOMAIN Append(s, e) = 1 .. Len(s) + 1
  BY <1>1, LenProperties
<1> QED BY <1>1, <1>2

-----------------------------------------------------------------------------
(* One step of one request *)

\* The invariant of one request.
OwnInv(r) == KeyOfRequest(r) /\ AnswerOfRequest(r) /\ EventsOfRequest(r)

Same(q) ==
  /\ stage'[q] = stage[q] /\ ctx'[q] = ctx[q] /\ events'[q] = events[q]
  /\ phase'[q] = phase[q] /\ key'[q] = key[q] /\ called'[q] = called[q]
  /\ source'[q] = source[q]

\* A request's key is settled in one of these ways, or stays as it is.
Keeps(r)     == rec' = rec /\ phase'[r] = "running"
Abandons(r)  == rec' = rec /\ phase'[r] = "done" /\ stage'[r] = "end" /\ ~ctx'[r].topic
Removes(r)   == /\ rec' = [rec EXCEPT ![key[r]] = NoRecord] /\ phase'[r] = "done"
                /\ ~Succeeded(r)'
Completes(r) == /\ phase'[r] = "done" /\ Answered(r)'
                /\ rec'[key[r]] = Completed(r, now)
                /\ \A k \in Keys \ {key[r]} :
                     rec'[k] = rec[k] \/ (rec'[k] = NoRecord /\ k \in Evictable)

\* What a step of r does to the records.
RecEffect(r) ==
  /\ phase[r] = "running" => Keeps(r) \/ Abandons(r) \/ Removes(r) \/ Completes(r)
  /\ phase[r] = "checking" =>
       \/ rec' = rec /\ phase'[r] # "running"
       \/ /\ ~Live(key[r], called[r]) /\ phase'[r] = "running" /\ ctx'[r].held
          /\ rec' = [rec EXCEPT ![key[r]] = InProgress(r, called[r])]
  /\ phase[r] \notin {"running", "checking"} => rec' = rec /\ phase'[r] # "running"

\* What a step of r does to r: what is settled stays so.
SelfEffect(r) ==
  /\ key[r] # NoKey => key'[r] = key[r] /\ called'[r] = called[r]
  /\ phase[r] = "done" => phase'[r] = "done"
  /\ stage[r] = "end" => stage'[r] = "end" /\ ctx'[r] = ctx[r]
  /\ Answered(r) => Answered(r)'
  /\ Succeeded(r)' => Succeeded(r) \/ phase[r] \in {"running", "idle"}
  /\ source'[r] = source[r] \/
       /\ key[r] \in Keys /\ rec[key[r]] # NoRecord /\ rec[key[r]].state = "Completed"
       /\ source'[r] = rec[key[r]].owner

RequestStep(r) == request_filter(r) \/ proxy(r) \/ logging(r)

\* A step uses the engine through one of its operations, or not at all.
LEMMA StepUsesStore ==
  ASSUME NEW r \in Requests, RequestStep(r)
  PROVE  [StoreNext]_storeVars
<1>1. ASSUME Local(r) PROVE [StoreNext]_storeVars
  BY <1>1 DEF Local
<1>2. ASSUME NoExplicitKey(r) PROVE [StoreNext]_storeVars
  BY <1>2 DEF NoExplicitKey
<1>3. ASSUME NewKey(r) PROVE [StoreNext]_storeVars
  BY <1>3 DEF NewKey, StoreNext
<1>4. ASSUME ConflictResponse(r) PROVE [StoreNext]_storeVars
  BY <1>4 DEF ConflictResponse, StoreNext
<1>5. ASSUME ReplayResponse(r) PROVE [StoreNext]_storeVars
  BY <1>5 DEF ReplayResponse, StoreNext
<1>6. ASSUME Undecoded(r) PROVE [StoreNext]_storeVars
  BY <1>6 DEF Undecoded
<1>7. ASSUME Decoded(r) PROVE [StoreNext]_storeVars
  BY <1>7 DEF Decoded
<1>8. ASSUME BodyError(r) PROVE [StoreNext]_storeVars
  BY <1>8 DEF BodyError
<1>9. ASSUME TooLarge(r) PROVE [StoreNext]_storeVars
  BY <1>9 DEF TooLarge, ReleaseKey, StoreNext
<1>10. ASSUME Admit(r) PROVE [StoreNext]_storeVars
  BY <1>10 DEF Admit
<1>11. ASSUME Reject(r) PROVE [StoreNext]_storeVars
  BY <1>11 DEF Reject, ReleaseKey, StoreNext
<1>12. ASSUME SpawnedDispatch(r) PROVE [StoreNext]_storeVars
  BY <1>12 DEF SpawnedDispatch
<1>13. ASSUME NoFingerprint(r) PROVE [StoreNext]_storeVars
  BY <1>13 DEF NoFingerprint
<1>14. ASSUME Disabled(r) PROVE [StoreNext]_storeVars
  BY <1>14 DEF Disabled
<1>15. ASSUME ModeA(r) PROVE [StoreNext]_storeVars
  BY <1>15 DEF ModeA
<1>16. ASSUME Audit(r) PROVE [StoreNext]_storeVars
  BY <1>16 DEF Audit
<1>17. ASSUME ModeB(r) PROVE [StoreNext]_storeVars
  BY <1>17 DEF ModeB
<1>18. ASSUME CommitOk(r) PROVE [StoreNext]_storeVars
  BY <1>18 DEF CommitOk
<1>19. ASSUME CommitFails(r) PROVE [StoreNext]_storeVars
  BY <1>19 DEF CommitFails
<1>20. ASSUME Accept(r) PROVE [StoreNext]_storeVars
  BY <1>20 DEF Accept, CompleteKey, StoreNext
<1>21. ASSUME Refuse(r) PROVE [StoreNext]_storeVars
  BY <1>21 DEF Refuse, ReleaseKey, StoreNext
<1>22. ASSUME Forward(r) PROVE [StoreNext]_storeVars
  BY <1>22 DEF Forward
<1>23. ASSUME UpstreamActs(r) PROVE [StoreNext]_storeVars
  BY <1>23 DEF UpstreamActs
<1>24. ASSUME ResponseHeaders(r) PROVE [StoreNext]_storeVars
  BY <1>24 DEF ResponseHeaders
<1>25. ASSUME ResponseEnd(r) PROVE [StoreNext]_storeVars
  BY <1>25 DEF ResponseEnd
<1>26. ASSUME ProxyError(r) PROVE [StoreNext]_storeVars
  BY <1>26 DEF ProxyError
<1>27. ASSUME LoggingSkips(r) PROVE [StoreNext]_storeVars
  BY <1>27 DEF LoggingSkips, StoreNext
<1>28. ASSUME LoggingFailure(r) PROVE [StoreNext]_storeVars
  BY <1>28 DEF LoggingFailure, ReleaseKey, StoreNext
<1>29. ASSUME LoggingSuccess(r) PROVE [StoreNext]_storeVars
  BY <1>29 DEF LoggingSuccess, CompleteKey, StoreNext
<1>30. ASSUME EmitFailure(r) PROVE [StoreNext]_storeVars
  BY <1>30 DEF EmitFailure
<1>31. ASSUME EmitSuccess(r) PROVE [StoreNext]_storeVars
  BY <1>31 DEF EmitSuccess
<1>32. ASSUME NEW k \in Keys, ExplicitKey(r, k) PROVE [StoreNext]_storeVars
  BY <1>32 DEF ExplicitKey, StoreNext
<1>33. ASSUME NEW k \in Keys, Fingerprint(r, k) PROVE [StoreNext]_storeVars
  BY <1>33 DEF Fingerprint, StoreNext
<1> QED
  BY <1>1, <1>2, <1>3, <1>4, <1>5, <1>6, <1>7, <1>8, <1>9, <1>10, <1>11, <1>12, <1>13,
     <1>14, <1>15, <1>16, <1>17, <1>18, <1>19, <1>20, <1>21, <1>22, <1>23, <1>24, <1>25,
     <1>26, <1>27, <1>28, <1>29, <1>30, <1>31, <1>32, <1>33 DEF RequestStep, request_filter,
     proxy, logging

\* A step of a request leaves the contexts, keys and events of the others alone.
LEMMA StepOthers ==
  ASSUME GatewayTypeOK, NEW r \in Requests, RequestStep(r), NEW q \in Requests, q # r
  PROVE  Same(q) /\ now' = now
<1> USE DEF GatewayTypeOK, StoreTypeOK, Same
<1>1. ASSUME Local(r) PROVE Same(q) /\ now' = now
  BY <1>1 DEF Local, Step, storeVars
<1>2. ASSUME NoExplicitKey(r) PROVE Same(q) /\ now' = now
  BY <1>2 DEF NoExplicitKey, Step, storeVars
<1>3. ASSUME NewKey(r) PROVE Same(q) /\ now' = now
  BY <1>3 DEF NewKey, Step, storeVars, Acquire, To
<1>4. ASSUME ConflictResponse(r) PROVE Same(q) /\ now' = now
  BY <1>4 DEF ConflictResponse, Step, storeVars, Conflict, To
<1>5. ASSUME ReplayResponse(r) PROVE Same(q) /\ now' = now
  BY <1>5 DEF ReplayResponse, Step, storeVars, Replay, To
<1>6. ASSUME Undecoded(r) PROVE Same(q) /\ now' = now
  BY <1>6 DEF Undecoded, Step, storeVars
<1>7. ASSUME Decoded(r) PROVE Same(q) /\ now' = now
  BY <1>7 DEF Decoded, Step, storeVars
<1>8. ASSUME BodyError(r) PROVE Same(q) /\ now' = now
  BY <1>8 DEF BodyError, Step, storeVars
<1>9. ASSUME TooLarge(r) PROVE Same(q) /\ now' = now
  BY <1>9 DEF TooLarge, Step, storeVars, ReleaseKey, Remove, To
<1>10. ASSUME Admit(r) PROVE Same(q) /\ now' = now
  BY <1>10 DEF Admit, Step, storeVars
<1>11. ASSUME Reject(r) PROVE Same(q) /\ now' = now
  BY <1>11 DEF Reject, Step, storeVars, ReleaseKey, Remove, To
<1>12. ASSUME SpawnedDispatch(r) PROVE Same(q) /\ now' = now
  BY <1>12 DEF SpawnedDispatch, Step, storeVars, PublishOk, PublishFails
<1>13. ASSUME NoFingerprint(r) PROVE Same(q) /\ now' = now
  BY <1>13 DEF NoFingerprint, Step, storeVars
<1>14. ASSUME Disabled(r) PROVE Same(q) /\ now' = now
  BY <1>14 DEF Disabled, Step, storeVars
<1>15. ASSUME ModeA(r) PROVE Same(q) /\ now' = now
  BY <1>15 DEF ModeA, Step, storeVars
<1>16. ASSUME Audit(r) PROVE Same(q) /\ now' = now
  BY <1>16 DEF Audit, Step, storeVars, PublishOk, PublishFails
<1>17. ASSUME ModeB(r) PROVE Same(q) /\ now' = now
  BY <1>17 DEF ModeB, Step, storeVars
<1>18. ASSUME CommitOk(r) PROVE Same(q) /\ now' = now
  BY <1>18 DEF CommitOk, Step, storeVars, PublishOk, PublishFails
<1>19. ASSUME CommitFails(r) PROVE Same(q) /\ now' = now
  BY <1>19 DEF CommitFails, Step, storeVars, PublishOk, PublishFails
<1>20. ASSUME Accept(r) PROVE Same(q) /\ now' = now
  BY <1>20 DEF Accept, Step, storeVars, CompleteKey, Complete, To
<1>21. ASSUME Refuse(r) PROVE Same(q) /\ now' = now
  BY <1>21 DEF Refuse, Step, storeVars, ReleaseKey, Remove, To
<1>22. ASSUME Forward(r) PROVE Same(q) /\ now' = now
  BY <1>22 DEF Forward, Step, storeVars
<1>23. ASSUME UpstreamActs(r) PROVE Same(q) /\ now' = now
  BY <1>23 DEF UpstreamActs, Step, storeVars
<1>24. ASSUME ResponseHeaders(r) PROVE Same(q) /\ now' = now
  BY <1>24 DEF ResponseHeaders, Step, storeVars
<1>25. ASSUME ResponseEnd(r) PROVE Same(q) /\ now' = now
  BY <1>25 DEF ResponseEnd, Step, storeVars
<1>26. ASSUME ProxyError(r) PROVE Same(q) /\ now' = now
  BY <1>26 DEF ProxyError, Step, storeVars
<1>27. ASSUME LoggingSkips(r) PROVE Same(q) /\ now' = now
  BY <1>27 DEF LoggingSkips, Step, storeVars, Abandon, To
<1>28. ASSUME LoggingFailure(r) PROVE Same(q) /\ now' = now
  BY <1>28 DEF LoggingFailure, Step, storeVars, ReleaseKey, Remove, To
<1>29. ASSUME LoggingSuccess(r) PROVE Same(q) /\ now' = now
  BY <1>29 DEF LoggingSuccess, Step, storeVars, CompleteKey, Complete, To
<1>30. ASSUME EmitFailure(r) PROVE Same(q) /\ now' = now
  BY <1>30 DEF EmitFailure, Step, storeVars, PublishOk, PublishFails
<1>31. ASSUME EmitSuccess(r) PROVE Same(q) /\ now' = now
  BY <1>31 DEF EmitSuccess, Step, storeVars, PublishOk, PublishFails
<1>32. ASSUME NEW k \in Keys, ExplicitKey(r, k) PROVE Same(q) /\ now' = now
  BY <1>32 DEF ExplicitKey, Step, Call, To
<1>33. ASSUME NEW k \in Keys, Fingerprint(r, k) PROVE Same(q) /\ now' = now
  BY <1>33 DEF Fingerprint, Step, Call, To
<1> QED
  BY <1>1, <1>2, <1>3, <1>4, <1>5, <1>6, <1>7, <1>8, <1>9, <1>10, <1>11, <1>12, <1>13,
     <1>14, <1>15, <1>16, <1>17, <1>18, <1>19, <1>20, <1>21, <1>22, <1>23, <1>24, <1>25,
     <1>26, <1>27, <1>28, <1>29, <1>30, <1>31, <1>32, <1>33 DEF RequestStep, request_filter,
     proxy, logging

\* A step of a request keeps the contexts well formed.
LEMMA StepType ==
  ASSUME GatewayTypeOK, NEW r \in Requests, KeyOfRequest(r), RequestStep(r),
         \A q \in Requests : KeyOfRequest(q)
  PROVE  GatewayTypeOK'
<1> DEFINE GatewayPart == /\ stage' \in [Requests -> Stages] /\ ctx' \in [Requests -> Ctx]
                          /\ upstream' \in [Requests -> {"none", "sent", "applied", "refused"}]
                          /\ events' \in [Requests -> Seq(Events)] /\ spawned' \subseteq Requests
<1>a. StoreTypeOK'
  BY StepUsesStore, StoreStepType DEF GatewayTypeOK, StoreTypeOK, KeyOfRequest
<1>b. \A e \in Events : Append(events[r], e) \in Seq(Events)
  BY AppendEvent DEF GatewayTypeOK
<1>c. \A e \in Events : PublishFails(r, e) => events' \in [Requests -> Seq(Events)]
  BY <1>b DEF GatewayTypeOK, PublishFails, PublishOk
<1> USE GatewayAssumption DEF GatewayTypeOK, Stages
<1>1. ASSUME Local(r) PROVE GatewayPart
  BY <1>1 DEF Local, Step
<1>2. ASSUME NoExplicitKey(r) PROVE GatewayPart
  BY <1>2 DEF NoExplicitKey, Step
<1>3. ASSUME NewKey(r) PROVE GatewayPart
  BY <1>3 DEF NewKey, Step, Ctx
<1>4. ASSUME ConflictResponse(r) PROVE GatewayPart
  BY <1>4 DEF ConflictResponse, Step
<1>5. ASSUME ReplayResponse(r) PROVE GatewayPart
  BY <1>5 DEF ReplayResponse, Step, Ctx
<1>6. ASSUME Undecoded(r) PROVE GatewayPart
  BY <1>6 DEF Undecoded, Step
<1>7. ASSUME Decoded(r) PROVE GatewayPart
  BY <1>7 DEF Decoded, Step, Ctx
<1>8. ASSUME BodyError(r) PROVE GatewayPart
  BY <1>8 DEF BodyError, Step, Ctx
<1>9. ASSUME TooLarge(r) PROVE GatewayPart
  <2>1. [ctx EXCEPT ![r].held = FALSE] \in [Requests -> Ctx] BY DEF Ctx
  <2>2. ctx' \in [Requests -> Ctx] BY <1>9, <2>1 DEF TooLarge
  <2> QED BY <1>9, <2>2 DEF TooLarge, Step
<1>10. ASSUME Admit(r) PROVE GatewayPart
  BY <1>10 DEF Admit, Step
<1>11. ASSUME Reject(r) PROVE GatewayPart
  BY <1>11 DEF Reject, Step, Ctx
<1>12. ASSUME SpawnedDispatch(r) PROVE GatewayPart
  BY <1>12, <1>b, <1>c DEF SpawnedDispatch, Step, PublishOk, Events
<1>13. ASSUME NoFingerprint(r) PROVE GatewayPart
  BY <1>13 DEF NoFingerprint, Step
<1>14. ASSUME Disabled(r) PROVE GatewayPart
  BY <1>14 DEF Disabled, Step
<1>15. ASSUME ModeA(r) PROVE GatewayPart
  <2>1. PICK policy \in Policies : ctx' = [ctx EXCEPT ![r].policy = policy]
    BY <1>15 DEF ModeA, RouteType
  <2>2. ctx' \in [Requests -> Ctx] BY <2>1 DEF Ctx
  <2> QED BY <1>15, <2>2 DEF ModeA
<1>16. ASSUME Audit(r) PROVE GatewayPart
  BY <1>16, <1>b, <1>c DEF Audit, Step, PublishOk, Events
<1>17. ASSUME ModeB(r) PROVE GatewayPart
  BY <1>17 DEF ModeB, Step, Ctx
<1>18. ASSUME CommitOk(r) PROVE GatewayPart
  BY <1>18, <1>b, <1>c DEF CommitOk, Step, PublishOk, Events
<1>19. ASSUME CommitFails(r) PROVE GatewayPart
  BY <1>19, <1>b, <1>c DEF CommitFails, Step, PublishOk, Events
<1>20. ASSUME Accept(r) PROVE GatewayPart
  BY <1>20 DEF Accept, Step, Ctx
<1>21. ASSUME Refuse(r) PROVE GatewayPart
  BY <1>21 DEF Refuse, Step
<1>22. ASSUME Forward(r) PROVE GatewayPart
  BY <1>22 DEF Forward, Step
<1>23. ASSUME UpstreamActs(r) PROVE GatewayPart
  BY <1>23 DEF UpstreamActs, Step
<1>24. ASSUME ResponseHeaders(r) PROVE GatewayPart
  <2>1. PICK x \in {"2xx", "3xx", "error"} : ctx' = [ctx EXCEPT ![r].resp = x]
    BY <1>24 DEF ResponseHeaders
  <2>2. ctx' \in [Requests -> Ctx] BY <2>1 DEF Ctx
  <2> QED BY <1>24, <2>2 DEF ResponseHeaders, Step
<1>25. ASSUME ResponseEnd(r) PROVE GatewayPart
  <2>1. PICK x \in {"full", "cut", "empty", "rejection"} : ctx' = [ctx EXCEPT ![r].body = x]
    BY <1>25 DEF ResponseEnd
  <2>2. ctx' \in [Requests -> Ctx] BY <2>1 DEF Ctx
  <2> QED BY <1>25, <2>2 DEF ResponseEnd, Step
<1>26. ASSUME ProxyError(r) PROVE GatewayPart
  BY <1>26 DEF ProxyError, Step, Ctx
<1>27. ASSUME LoggingSkips(r) PROVE GatewayPart
  BY <1>27 DEF LoggingSkips, Step
<1>28. ASSUME LoggingFailure(r) PROVE GatewayPart
  BY <1>28 DEF LoggingFailure, Step
<1>29. ASSUME LoggingSuccess(r) PROVE GatewayPart
  BY <1>29 DEF LoggingSuccess, Step
<1>30. ASSUME EmitFailure(r) PROVE GatewayPart
  BY <1>30, <1>b, <1>c DEF EmitFailure, Step, PublishOk, Events
<1>31. ASSUME EmitSuccess(r) PROVE GatewayPart
  BY <1>31, <1>b, <1>c DEF EmitSuccess, Step, PublishOk, Events
<1>32. ASSUME NEW k \in Keys, ExplicitKey(r, k) PROVE GatewayPart
  BY <1>32 DEF ExplicitKey, Step
<1>33. ASSUME NEW k \in Keys, Fingerprint(r, k) PROVE GatewayPart
  BY <1>33 DEF Fingerprint, Step
<1>40. GatewayPart
  BY <1>1, <1>2, <1>3, <1>4, <1>5, <1>6, <1>7, <1>8, <1>9, <1>10, <1>11, <1>12, <1>13,
     <1>14, <1>15, <1>16, <1>17, <1>18, <1>19, <1>20, <1>21, <1>22, <1>23, <1>24, <1>25,
     <1>26, <1>27, <1>28, <1>29, <1>30, <1>31, <1>32, <1>33 DEF RequestStep, request_filter,
     proxy, logging
<1> QED BY <1>a, <1>40

\* What was published stays published, and only what was appended is new.
LEMMA StepEvents ==
  ASSUME GatewayTypeOK, NEW r \in Requests, NEW e \in Events, PublishFails(r, e)
  PROVE  /\ \A x : Published(r, x) => Published(r, x)'
         /\ \A x : Published(r, x)' => Published(r, x) \/ x = e
<1>1. events[r] \in Seq(Events) BY DEF GatewayTypeOK
<1>2. CASE UNCHANGED events
  BY <1>2 DEF Published
<1>3. CASE PublishOk(r, e)
  <2>1. events'[r] = Append(events[r], e) BY <1>3 DEF PublishOk, GatewayTypeOK
  <2> QED BY <1>1, <2>1, AppendEvent DEF Published
<1> QED BY <1>2, <1>3 DEF PublishFails

\* What a step does to the records, and to its own request.
LEMMA StepEffect ==
  ASSUME GatewayTypeOK, NEW r \in Requests, OwnInv(r), RequestStep(r)
  PROVE  RecEffect(r) /\ SelfEffect(r)
<1>a. /\ phase[r] \in Phases /\ stage[r] \in Stages /\ ctx[r] \in Ctx
      /\ (phase[r] # "idle" => key[r] \in Keys)
  BY DEF OwnInv, KeyOfRequest, GatewayTypeOK, StoreTypeOK
<1>b. \A e \in Events : PublishFails(r, e) => (Published(r, "command") => Published(r, "command")')
  BY StepEvents
<1> USE <1>a DEF GatewayTypeOK, StoreTypeOK, RecEffect, SelfEffect, OwnInv
<1>1. ASSUME Local(r) PROVE RecEffect(r) /\ SelfEffect(r)
  BY <1>1 DEF Local, Step, storeVars, KeyOfRequest, AnswerOfRequest, Answered, Succeeded,
     UpstreamSucceeded, Active, Ctx, Published, Keeps, Abandons, Removes, Completes
<1>2. ASSUME NoExplicitKey(r) PROVE RecEffect(r) /\ SelfEffect(r)
  BY <1>2 DEF NoExplicitKey, Step, storeVars, KeyOfRequest, AnswerOfRequest, Answered,
     Succeeded, UpstreamSucceeded, Active, Ctx, Published, Keeps, Abandons, Removes,
     Completes
<1>3. ASSUME NewKey(r) PROVE RecEffect(r) /\ SelfEffect(r)
  BY <1>3 DEF NewKey, Step, storeVars, KeyOfRequest, AnswerOfRequest, Answered, Succeeded,
     UpstreamSucceeded, Active, Ctx, Published, Keeps, Abandons, Removes, Completes,
     Acquire, To
<1>4. ASSUME ConflictResponse(r) PROVE RecEffect(r) /\ SelfEffect(r)
  BY <1>4 DEF ConflictResponse, Step, storeVars, KeyOfRequest, AnswerOfRequest, Answered,
     Succeeded, UpstreamSucceeded, Active, Ctx, Published, Keeps, Abandons, Removes,
     Completes, Conflict, To
<1>5. ASSUME ReplayResponse(r) PROVE RecEffect(r) /\ SelfEffect(r)
  BY <1>5 DEF ReplayResponse, Step, storeVars, KeyOfRequest, AnswerOfRequest, Answered,
     Succeeded, UpstreamSucceeded, Active, Ctx, Published, Keeps, Abandons, Removes,
     Completes, Live, Replay, To
<1>6. ASSUME Undecoded(r) PROVE RecEffect(r) /\ SelfEffect(r)
  BY <1>6 DEF Undecoded, Step, storeVars, KeyOfRequest, AnswerOfRequest, Answered,
     Succeeded, UpstreamSucceeded, Active, Ctx, Published, Keeps, Abandons, Removes,
     Completes
<1>7. ASSUME Decoded(r) PROVE RecEffect(r) /\ SelfEffect(r)
  BY <1>7 DEF Decoded, Step, storeVars, KeyOfRequest, AnswerOfRequest, Answered, Succeeded,
     UpstreamSucceeded, Active, Ctx, Published, Keeps, Abandons, Removes, Completes
<1>8. ASSUME BodyError(r) PROVE RecEffect(r) /\ SelfEffect(r)
  BY <1>8 DEF BodyError, Step, storeVars, KeyOfRequest, AnswerOfRequest, Answered,
     Succeeded, UpstreamSucceeded, Active, Ctx, Published, Keeps, Abandons, Removes,
     Completes
<1>9. ASSUME TooLarge(r) PROVE RecEffect(r) /\ SelfEffect(r)
  BY <1>9 DEF TooLarge, Step, storeVars, KeyOfRequest, AnswerOfRequest, Answered, Succeeded,
     UpstreamSucceeded, Active, Ctx, Published, Keeps, Abandons, Removes, Completes,
     ReleaseKey, Remove, To
<1>10. ASSUME Admit(r) PROVE RecEffect(r) /\ SelfEffect(r)
  BY <1>10 DEF Admit, Step, storeVars, KeyOfRequest, AnswerOfRequest, Answered, Succeeded,
     UpstreamSucceeded, Active, Ctx, Published, Keeps, Abandons, Removes, Completes
<1>11. ASSUME Reject(r) PROVE RecEffect(r) /\ SelfEffect(r)
  BY <1>11 DEF Reject, Step, storeVars, KeyOfRequest, AnswerOfRequest, Answered, Succeeded,
     UpstreamSucceeded, Active, Ctx, Published, Keeps, Abandons, Removes, Completes,
     ReleaseKey, Remove, To
<1>12. ASSUME SpawnedDispatch(r) PROVE RecEffect(r) /\ SelfEffect(r)
  BY <1>12, <1>b DEF SpawnedDispatch, Step, PublishOk, PublishFails, storeVars,
     KeyOfRequest, AnswerOfRequest, Answered, Succeeded, UpstreamSucceeded, Active, Events,
     Keeps
<1>13. ASSUME NoFingerprint(r) PROVE RecEffect(r) /\ SelfEffect(r)
  BY <1>13 DEF NoFingerprint, Step, storeVars, KeyOfRequest, AnswerOfRequest, Answered,
     Succeeded, UpstreamSucceeded, Active, Ctx, Published, Keeps, Abandons, Removes,
     Completes
<1>14. ASSUME Disabled(r) PROVE RecEffect(r) /\ SelfEffect(r)
  BY <1>14 DEF Disabled, Step, storeVars, KeyOfRequest, AnswerOfRequest, Answered,
     Succeeded, UpstreamSucceeded, Active, Ctx, Published, Keeps, Abandons, Removes,
     Completes
<1>15. ASSUME ModeA(r) PROVE RecEffect(r) /\ SelfEffect(r)
  BY <1>15 DEF ModeA, Step, storeVars, KeyOfRequest, AnswerOfRequest, Answered, Succeeded,
     UpstreamSucceeded, Active, Ctx, Published, Keeps, Abandons, Removes, Completes
<1>16. ASSUME Audit(r) PROVE RecEffect(r) /\ SelfEffect(r)
  BY <1>16, <1>b DEF Audit, Step, PublishOk, PublishFails, storeVars, KeyOfRequest,
     AnswerOfRequest, Answered, Succeeded, UpstreamSucceeded, Active, Events, Keeps
<1>17. ASSUME ModeB(r) PROVE RecEffect(r) /\ SelfEffect(r)
  BY <1>17 DEF ModeB, Step, storeVars, KeyOfRequest, AnswerOfRequest, Answered, Succeeded,
     UpstreamSucceeded, Active, Ctx, Published, Keeps, Abandons, Removes, Completes
<1>18. ASSUME CommitOk(r) PROVE RecEffect(r) /\ SelfEffect(r)
  BY <1>18, <1>b DEF CommitOk, Step, PublishOk, PublishFails, storeVars, KeyOfRequest,
     AnswerOfRequest, Answered, Succeeded, UpstreamSucceeded, Active, Events, Keeps
<1>19. ASSUME CommitFails(r) PROVE RecEffect(r) /\ SelfEffect(r)
  BY <1>19, <1>b DEF CommitFails, Step, PublishOk, PublishFails, storeVars, KeyOfRequest,
     AnswerOfRequest, Answered, Succeeded, UpstreamSucceeded, Active, Events, Keeps
<1>20. ASSUME Accept(r) PROVE RecEffect(r) /\ SelfEffect(r)
  BY <1>20 DEF Accept, Step, storeVars, KeyOfRequest, AnswerOfRequest, Answered, Succeeded,
     UpstreamSucceeded, Active, Ctx, Published, Keeps, Abandons, Removes, Completes,
     EventsOfRequest, CompleteKey, Complete, To
<1>21. ASSUME Refuse(r) PROVE RecEffect(r) /\ SelfEffect(r)
  BY <1>21 DEF Refuse, Step, storeVars, KeyOfRequest, AnswerOfRequest, Answered, Succeeded,
     UpstreamSucceeded, Active, Ctx, Published, Keeps, Abandons, Removes, Completes,
     ReleaseKey, Remove, To
<1>22. ASSUME Forward(r) PROVE RecEffect(r) /\ SelfEffect(r)
  BY <1>22 DEF Forward, Step, storeVars, KeyOfRequest, AnswerOfRequest, Answered, Succeeded,
     UpstreamSucceeded, Active, Ctx, Published, Keeps, Abandons, Removes, Completes
<1>23. ASSUME UpstreamActs(r) PROVE RecEffect(r) /\ SelfEffect(r)
  BY <1>23 DEF UpstreamActs, Step, storeVars, KeyOfRequest, AnswerOfRequest, Answered,
     Succeeded, UpstreamSucceeded, Active, Ctx, Published, Keeps, Abandons, Removes,
     Completes
<1>24. ASSUME ResponseHeaders(r) PROVE RecEffect(r) /\ SelfEffect(r)
  BY <1>24 DEF ResponseHeaders, Step, storeVars, KeyOfRequest, AnswerOfRequest, Answered,
     Succeeded, UpstreamSucceeded, Active, Ctx, Published, Keeps, Abandons, Removes,
     Completes
<1>25. ASSUME ResponseEnd(r) PROVE RecEffect(r) /\ SelfEffect(r)
  BY <1>25 DEF ResponseEnd, Step, storeVars, KeyOfRequest, AnswerOfRequest, Answered,
     Succeeded, UpstreamSucceeded, Active, Ctx, Published, Keeps, Abandons, Removes,
     Completes
<1>26. ASSUME ProxyError(r) PROVE RecEffect(r) /\ SelfEffect(r)
  BY <1>26 DEF ProxyError, Step, storeVars, KeyOfRequest, AnswerOfRequest, Answered,
     Succeeded, UpstreamSucceeded, Active, Ctx, Published, Keeps, Abandons, Removes,
     Completes
<1>27. ASSUME LoggingSkips(r) PROVE RecEffect(r) /\ SelfEffect(r)
  BY <1>27 DEF LoggingSkips, Step, storeVars, KeyOfRequest, AnswerOfRequest, Answered,
     Succeeded, UpstreamSucceeded, Active, Ctx, Published, Keeps, Abandons, Removes,
     Completes, Abandon, To
<1>28. ASSUME LoggingFailure(r) PROVE RecEffect(r) /\ SelfEffect(r)
  BY <1>28 DEF LoggingFailure, Step, storeVars, KeyOfRequest, AnswerOfRequest, Answered,
     Succeeded, UpstreamSucceeded, Active, Ctx, Published, Keeps, Abandons, Removes,
     Completes, ReleaseKey, Remove, To
<1>29. ASSUME LoggingSuccess(r) PROVE RecEffect(r) /\ SelfEffect(r)
  BY <1>29 DEF LoggingSuccess, Step, storeVars, KeyOfRequest, AnswerOfRequest, Answered,
     Succeeded, UpstreamSucceeded, Active, Ctx, Published, Keeps, Abandons, Removes,
     Completes, CompleteKey, Complete, To
<1>30. ASSUME EmitFailure(r) PROVE RecEffect(r) /\ SelfEffect(r)
  BY <1>30, <1>b DEF EmitFailure, Step, PublishOk, PublishFails, storeVars, KeyOfRequest,
     AnswerOfRequest, Answered, Succeeded, UpstreamSucceeded, Active, Events, Keeps
<1>31. ASSUME EmitSuccess(r) PROVE RecEffect(r) /\ SelfEffect(r)
  BY <1>31, <1>b DEF EmitSuccess, Step, PublishOk, PublishFails, storeVars, KeyOfRequest,
     AnswerOfRequest, Answered, Succeeded, UpstreamSucceeded, Active, Events, Keeps
<1>32. ASSUME NEW k \in Keys, ExplicitKey(r, k) PROVE RecEffect(r) /\ SelfEffect(r)
  BY <1>32 DEF ExplicitKey, Step, Call, To, KeyOfRequest, AnswerOfRequest, Answered,
     Succeeded, UpstreamSucceeded, Active, Published, Keeps
<1>33. ASSUME NEW k \in Keys, Fingerprint(r, k) PROVE RecEffect(r) /\ SelfEffect(r)
  BY <1>33 DEF Fingerprint, Step, Call, To, KeyOfRequest, AnswerOfRequest, Answered,
     Succeeded, UpstreamSucceeded, Active, Published, Keeps
<1> QED
  BY <1>1, <1>2, <1>3, <1>4, <1>5, <1>6, <1>7, <1>8, <1>9, <1>10, <1>11, <1>12, <1>13,
     <1>14, <1>15, <1>16, <1>17, <1>18, <1>19, <1>20, <1>21, <1>22, <1>23, <1>24, <1>25,
     <1>26, <1>27, <1>28, <1>29, <1>30, <1>31, <1>32, <1>33 DEF RequestStep, request_filter,
     proxy, logging

\* The invariant of a request is not disturbed by the steps of others.
LEMMA OthersKeepInv ==
  ASSUME NEW q \in Requests, OwnInv(q), Same(q), GatewayTypeOK, now' \in Nat, now' >= now
  PROVE  OwnInv(q)'
<1>1. called[q] \in Nat /\ now \in Nat BY StoreAssumption DEF GatewayTypeOK, StoreTypeOK
<1>2. KeyOfRequest(q)' BY <1>1 DEF OwnInv, Same, KeyOfRequest
<1>3. AnswerOfRequest(q)' BY DEF OwnInv, Same, AnswerOfRequest, UpstreamSucceeded
<1>4. EventsOfRequest(q)' BY DEF OwnInv, Same, EventsOfRequest, UpstreamSucceeded, Published
<1> QED BY <1>2, <1>3, <1>4 DEF OwnInv

\* A step of a request keeps its context, its key and its answer in agreement.
LEMMA StepOwnKey ==
  ASSUME GatewayTypeOK, NEW r \in Requests, OwnInv(r), RequestStep(r)
  PROVE  KeyOfRequest(r)' /\ AnswerOfRequest(r)'
<1>a. /\ phase[r] \in Phases /\ stage[r] \in Stages /\ ctx[r] \in Ctx
      /\ (phase[r] # "idle" => key[r] \in Keys)
  BY DEF OwnInv, KeyOfRequest, GatewayTypeOK, StoreTypeOK
<1>b. now \in Nat /\ called[r] \in Nat /\ called[r] <= now /\ NoKey \notin Keys
  BY StoreAssumption DEF GatewayTypeOK, StoreTypeOK, OwnInv, KeyOfRequest
<1> USE <1>a, <1>b DEF GatewayTypeOK, StoreTypeOK, OwnInv
<1>1. ASSUME Local(r) PROVE KeyOfRequest(r)' /\ AnswerOfRequest(r)'
  BY <1>1 DEF Local, Step, storeVars, KeyOfRequest, AnswerOfRequest, UpstreamSucceeded,
     Active, Ctx
<1>2. ASSUME NoExplicitKey(r) PROVE KeyOfRequest(r)' /\ AnswerOfRequest(r)'
  BY <1>2 DEF NoExplicitKey, Step, storeVars, KeyOfRequest, AnswerOfRequest,
     UpstreamSucceeded, Active, Ctx
<1>3. ASSUME NewKey(r) PROVE KeyOfRequest(r)' /\ AnswerOfRequest(r)'
  BY <1>3 DEF NewKey, Step, storeVars, KeyOfRequest, AnswerOfRequest, UpstreamSucceeded,
     Active, Ctx, Acquire, To
<1>4. ASSUME ConflictResponse(r) PROVE KeyOfRequest(r)' /\ AnswerOfRequest(r)'
  BY <1>4 DEF ConflictResponse, Step, storeVars, KeyOfRequest, AnswerOfRequest,
     UpstreamSucceeded, Active, Ctx, Conflict, To
<1>5. ASSUME ReplayResponse(r) PROVE KeyOfRequest(r)' /\ AnswerOfRequest(r)'
  BY <1>5 DEF ReplayResponse, Step, storeVars, KeyOfRequest, AnswerOfRequest,
     UpstreamSucceeded, Active, Ctx, Replay, To
<1>6. ASSUME Undecoded(r) PROVE KeyOfRequest(r)' /\ AnswerOfRequest(r)'
  BY <1>6 DEF Undecoded, Step, storeVars, KeyOfRequest, AnswerOfRequest, UpstreamSucceeded,
     Active, Ctx
<1>7. ASSUME Decoded(r) PROVE KeyOfRequest(r)' /\ AnswerOfRequest(r)'
  BY <1>7 DEF Decoded, Step, storeVars, KeyOfRequest, AnswerOfRequest, UpstreamSucceeded,
     Active, Ctx
<1>8. ASSUME BodyError(r) PROVE KeyOfRequest(r)' /\ AnswerOfRequest(r)'
  BY <1>8 DEF BodyError, Step, storeVars, KeyOfRequest, AnswerOfRequest, UpstreamSucceeded,
     Active, Ctx
<1>9. ASSUME TooLarge(r) PROVE KeyOfRequest(r)' /\ AnswerOfRequest(r)'
  BY <1>9 DEF TooLarge, Step, storeVars, KeyOfRequest, AnswerOfRequest, UpstreamSucceeded,
     Active, Ctx, ReleaseKey, Remove, To
<1>10. ASSUME Admit(r) PROVE KeyOfRequest(r)' /\ AnswerOfRequest(r)'
  BY <1>10 DEF Admit, Step, storeVars, KeyOfRequest, AnswerOfRequest, UpstreamSucceeded,
     Active, Ctx
<1>11. ASSUME Reject(r) PROVE KeyOfRequest(r)' /\ AnswerOfRequest(r)'
  BY <1>11 DEF Reject, Step, storeVars, KeyOfRequest, AnswerOfRequest, UpstreamSucceeded,
     Active, Ctx, ReleaseKey, Remove, To
<1>12. ASSUME SpawnedDispatch(r) PROVE KeyOfRequest(r)' /\ AnswerOfRequest(r)'
  BY <1>12 DEF SpawnedDispatch, Step, storeVars, KeyOfRequest, AnswerOfRequest,
     UpstreamSucceeded, Active, Ctx, PublishOk, PublishFails
<1>13. ASSUME NoFingerprint(r) PROVE KeyOfRequest(r)' /\ AnswerOfRequest(r)'
  BY <1>13 DEF NoFingerprint, Step, storeVars, KeyOfRequest, AnswerOfRequest,
     UpstreamSucceeded, Active, Ctx
<1>14. ASSUME Disabled(r) PROVE KeyOfRequest(r)' /\ AnswerOfRequest(r)'
  BY <1>14 DEF Disabled, Step, storeVars, KeyOfRequest, AnswerOfRequest, UpstreamSucceeded,
     Active, Ctx
<1>15. ASSUME ModeA(r) PROVE KeyOfRequest(r)' /\ AnswerOfRequest(r)'
  BY <1>15 DEF ModeA, Step, storeVars, KeyOfRequest, AnswerOfRequest, UpstreamSucceeded,
     Active, Ctx
<1>16. ASSUME Audit(r) PROVE KeyOfRequest(r)' /\ AnswerOfRequest(r)'
  BY <1>16 DEF Audit, Step, storeVars, KeyOfRequest, AnswerOfRequest, UpstreamSucceeded,
     Active, Ctx, PublishOk, PublishFails
<1>17. ASSUME ModeB(r) PROVE KeyOfRequest(r)' /\ AnswerOfRequest(r)'
  BY <1>17 DEF ModeB, Step, storeVars, KeyOfRequest, AnswerOfRequest, UpstreamSucceeded,
     Active, Ctx
<1>18. ASSUME CommitOk(r) PROVE KeyOfRequest(r)' /\ AnswerOfRequest(r)'
  BY <1>18 DEF CommitOk, Step, storeVars, KeyOfRequest, AnswerOfRequest, UpstreamSucceeded,
     Active, Ctx, PublishOk, PublishFails
<1>19. ASSUME CommitFails(r) PROVE KeyOfRequest(r)' /\ AnswerOfRequest(r)'
  BY <1>19 DEF CommitFails, Step, storeVars, KeyOfRequest, AnswerOfRequest,
     UpstreamSucceeded, Active, Ctx, PublishOk, PublishFails
<1>20. ASSUME Accept(r) PROVE KeyOfRequest(r)' /\ AnswerOfRequest(r)'
  BY <1>20 DEF Accept, Step, storeVars, KeyOfRequest, AnswerOfRequest, UpstreamSucceeded,
     Active, Ctx, CompleteKey, Complete, To
<1>21. ASSUME Refuse(r) PROVE KeyOfRequest(r)' /\ AnswerOfRequest(r)'
  BY <1>21 DEF Refuse, Step, storeVars, KeyOfRequest, AnswerOfRequest, UpstreamSucceeded,
     Active, Ctx, ReleaseKey, Remove, To
<1>22. ASSUME Forward(r) PROVE KeyOfRequest(r)' /\ AnswerOfRequest(r)'
  BY <1>22 DEF Forward, Step, storeVars, KeyOfRequest, AnswerOfRequest, UpstreamSucceeded,
     Active, Ctx
<1>23. ASSUME UpstreamActs(r) PROVE KeyOfRequest(r)' /\ AnswerOfRequest(r)'
  BY <1>23 DEF UpstreamActs, Step, storeVars, KeyOfRequest, AnswerOfRequest,
     UpstreamSucceeded, Active, Ctx
<1>24. ASSUME ResponseHeaders(r) PROVE KeyOfRequest(r)' /\ AnswerOfRequest(r)'
  BY <1>24 DEF ResponseHeaders, Step, storeVars, KeyOfRequest, AnswerOfRequest,
     UpstreamSucceeded, Active, Ctx
<1>25. ASSUME ResponseEnd(r) PROVE KeyOfRequest(r)' /\ AnswerOfRequest(r)'
  <2>1. PICK b \in {"full", "cut", "empty", "rejection"} :
          /\ b = "cut" => ctx[r].resp = "error" \/ ctx[r].policy \notin {"ResponseOnly", "None"}
          /\ ctx' = [ctx EXCEPT ![r].body = b]
    BY <1>25 DEF ResponseEnd
  <2>2. /\ ctx'[r] = [ctx[r] EXCEPT !.body = b] /\ stage[r] = "streaming"
        /\ stage'[r] = "logging" /\ UNCHANGED storeVars
    BY <1>25, <2>1 DEF ResponseEnd, Step
  <2>3. /\ ctx'[r].body = b /\ ctx'[r].policy = ctx[r].policy /\ ctx'[r].resp = ctx[r].resp
        /\ ctx'[r].held = ctx[r].held /\ ctx'[r].served = ctx[r].served
        /\ ctx'[r].topic = ctx[r].topic /\ ctx'[r].error = ctx[r].error /\ b # "none"
        /\ ctx[r].policy \in Policies
    BY <2>1, <2>2 DEF Ctx
  <2>4. KeyOfRequest(r)'
    <3>1. ctx[r].served = "proxy" BY <2>2 DEF AnswerOfRequest, Ctx
    <3> QED BY <2>2, <2>3, <3>1 DEF KeyOfRequest, storeVars, Active
  <2>5. UpstreamSucceeded(r)' =>
          (b = "cut" => ctx[r].policy \in {"ResponseWithFailure", "RawAudit"})
    BY <2>1, <2>3 DEF UpstreamSucceeded, Policies
  <2>6. AnswerOfRequest(r)'
    BY <2>2, <2>3, <2>5 DEF AnswerOfRequest, UpstreamSucceeded, storeVars, Active
  <2> QED BY <2>4, <2>6
<1>26. ASSUME ProxyError(r) PROVE KeyOfRequest(r)' /\ AnswerOfRequest(r)'
  BY <1>26 DEF ProxyError, Step, storeVars, KeyOfRequest, AnswerOfRequest,
     UpstreamSucceeded, Active, Ctx
<1>27. ASSUME LoggingSkips(r) PROVE KeyOfRequest(r)' /\ AnswerOfRequest(r)'
  BY <1>27 DEF LoggingSkips, Step, storeVars, KeyOfRequest, AnswerOfRequest,
     UpstreamSucceeded, Active, Ctx, Abandon, To
<1>28. ASSUME LoggingFailure(r) PROVE KeyOfRequest(r)' /\ AnswerOfRequest(r)'
  BY <1>28 DEF LoggingFailure, Step, storeVars, KeyOfRequest, AnswerOfRequest,
     UpstreamSucceeded, Active, Ctx, ReleaseKey, Remove, To
<1>29. ASSUME LoggingSuccess(r) PROVE KeyOfRequest(r)' /\ AnswerOfRequest(r)'
  BY <1>29 DEF LoggingSuccess, Step, storeVars, KeyOfRequest, AnswerOfRequest,
     UpstreamSucceeded, Active, Ctx, CompleteKey, Complete, To
<1>30. ASSUME EmitFailure(r) PROVE KeyOfRequest(r)' /\ AnswerOfRequest(r)'
  BY <1>30 DEF EmitFailure, Step, storeVars, KeyOfRequest, AnswerOfRequest,
     UpstreamSucceeded, Active, Ctx, PublishOk, PublishFails
<1>31. ASSUME EmitSuccess(r) PROVE KeyOfRequest(r)' /\ AnswerOfRequest(r)'
  BY <1>31 DEF EmitSuccess, Step, storeVars, KeyOfRequest, AnswerOfRequest,
     UpstreamSucceeded, Active, Ctx, PublishOk, PublishFails
<1>32. ASSUME NEW k \in Keys, ExplicitKey(r, k) PROVE KeyOfRequest(r)' /\ AnswerOfRequest(r)'
  BY <1>32 DEF ExplicitKey, Step, Call, To, KeyOfRequest, AnswerOfRequest,
     UpstreamSucceeded, Active
<1>33. ASSUME NEW k \in Keys, Fingerprint(r, k) PROVE KeyOfRequest(r)' /\ AnswerOfRequest(r)'
  BY <1>33 DEF Fingerprint, Step, Call, To, KeyOfRequest, AnswerOfRequest,
     UpstreamSucceeded, Active
<1> QED
  BY <1>1, <1>2, <1>3, <1>4, <1>5, <1>6, <1>7, <1>8, <1>9, <1>10, <1>11, <1>12, <1>13,
     <1>14, <1>15, <1>16, <1>17, <1>18, <1>19, <1>20, <1>21, <1>22, <1>23, <1>24, <1>25,
     <1>26, <1>27, <1>28, <1>29, <1>30, <1>31, <1>32, <1>33 DEF RequestStep, request_filter,
     proxy, logging

\* A step of a request keeps its events in agreement with it: a terminal event is
\* appended once, when the request ends.
LEMMA StepOwnEvents ==
  ASSUME GatewayTypeOK, NEW r \in Requests, OwnInv(r), RequestStep(r)
  PROVE  EventsOfRequest(r)'
<1>a. stage[r] \in Stages /\ ctx[r] \in Ctx /\ events[r] \in Seq(Events)
  BY DEF GatewayTypeOK
<1>b. ASSUME NEW e \in Events, PublishFails(r, e),
             e \notin Terminal \/ stage[r] # "end"
      PROVE  /\ Published(r, "command") => Published(r, "command")'
             /\ \A x \in Terminal : Published(r, x)' => Published(r, x) \/ x = e
             /\ \A i, j \in DOMAIN events'[r] :
                  events'[r][i] \in Terminal /\ events'[r][j] \in Terminal => i = j
  <2>1. CASE UNCHANGED events
    BY <2>1 DEF Published, OwnInv, EventsOfRequest
  <2>2. CASE PublishOk(r, e)
    <3> DEFINE t == Append(events[r], e)
    <3>1. events'[r] = t BY <2>2 DEF PublishOk, GatewayTypeOK
    <3>2. \A i \in DOMAIN events[r] : t[i] = events[r][i] BY <1>a, AppendEvent
    <3>3. \A i \in DOMAIN t : i \in DOMAIN events[r] \/ t[i] = e BY <1>a, AppendEvent
    <3>4. \A i, j \in DOMAIN t : i \notin DOMAIN events[r] /\ j \notin DOMAIN events[r] => i = j
      BY <1>a, AppendEvent
    <3> HIDE DEF t
    <3>5. e \in Terminal => \A i \in DOMAIN events[r] : events[r][i] \notin Terminal
      BY <1>b DEF OwnInv, EventsOfRequest, Published, Terminal
    <3>6. ASSUME NEW i \in DOMAIN t, NEW j \in DOMAIN t, t[i] \in Terminal, t[j] \in Terminal
          PROVE  i = j
      BY <3>2, <3>3, <3>4, <3>5, <3>6 DEF OwnInv, EventsOfRequest
    <3> QED BY <3>1, <3>6, StepEvents, <1>b
  <2> QED BY <2>1, <2>2, <1>b DEF PublishFails
<1> USE <1>a DEF GatewayTypeOK, OwnInv
<1>1. ASSUME Local(r) PROVE EventsOfRequest(r)'
  BY <1>1 DEF Local, Step, EventsOfRequest, AnswerOfRequest, UpstreamSucceeded, Terminal,
     Published, Ctx
<1>2. ASSUME NoExplicitKey(r) PROVE EventsOfRequest(r)'
  BY <1>2 DEF NoExplicitKey, Step, EventsOfRequest, AnswerOfRequest, UpstreamSucceeded,
     Terminal, Published, Ctx
<1>3. ASSUME NewKey(r) PROVE EventsOfRequest(r)'
  BY <1>3 DEF NewKey, Step, EventsOfRequest, AnswerOfRequest, UpstreamSucceeded, Terminal,
     Published, Ctx
<1>4. ASSUME ConflictResponse(r) PROVE EventsOfRequest(r)'
  BY <1>4 DEF ConflictResponse, Step, EventsOfRequest, AnswerOfRequest, UpstreamSucceeded,
     Terminal, Published, Ctx
<1>5. ASSUME ReplayResponse(r) PROVE EventsOfRequest(r)'
  BY <1>5 DEF ReplayResponse, Step, EventsOfRequest, AnswerOfRequest, UpstreamSucceeded,
     Terminal, Published, Ctx
<1>6. ASSUME Undecoded(r) PROVE EventsOfRequest(r)'
  BY <1>6 DEF Undecoded, Step, EventsOfRequest, AnswerOfRequest, UpstreamSucceeded,
     Terminal, Published, Ctx
<1>7. ASSUME Decoded(r) PROVE EventsOfRequest(r)'
  BY <1>7 DEF Decoded, Step, EventsOfRequest, AnswerOfRequest, UpstreamSucceeded, Terminal,
     Published, Ctx
<1>8. ASSUME BodyError(r) PROVE EventsOfRequest(r)'
  BY <1>8 DEF BodyError, Step, EventsOfRequest, AnswerOfRequest, UpstreamSucceeded,
     Terminal, Published, Ctx
<1>9. ASSUME TooLarge(r) PROVE EventsOfRequest(r)'
  BY <1>9 DEF TooLarge, Step, EventsOfRequest, AnswerOfRequest, UpstreamSucceeded, Terminal,
     Published, Ctx
<1>10. ASSUME Admit(r) PROVE EventsOfRequest(r)'
  BY <1>10 DEF Admit, Step, EventsOfRequest, AnswerOfRequest, UpstreamSucceeded, Terminal,
     Published, Ctx
<1>11. ASSUME Reject(r) PROVE EventsOfRequest(r)'
  BY <1>11 DEF Reject, Step, EventsOfRequest, AnswerOfRequest, UpstreamSucceeded, Terminal,
     Published, Ctx
<1>12. ASSUME SpawnedDispatch(r) PROVE EventsOfRequest(r)'
  BY <1>12, <1>b DEF SpawnedDispatch, Step, EventsOfRequest, AnswerOfRequest,
     UpstreamSucceeded, Terminal, Events
<1>13. ASSUME NoFingerprint(r) PROVE EventsOfRequest(r)'
  BY <1>13 DEF NoFingerprint, Step, EventsOfRequest, AnswerOfRequest, UpstreamSucceeded,
     Terminal, Published, Ctx
<1>14. ASSUME Disabled(r) PROVE EventsOfRequest(r)'
  BY <1>14 DEF Disabled, Step, EventsOfRequest, AnswerOfRequest, UpstreamSucceeded,
     Terminal, Published, Ctx
<1>15. ASSUME ModeA(r) PROVE EventsOfRequest(r)'
  BY <1>15 DEF ModeA, Step, EventsOfRequest, AnswerOfRequest, UpstreamSucceeded, Terminal,
     Published, Ctx
<1>16. ASSUME Audit(r) PROVE EventsOfRequest(r)'
  BY <1>16, <1>b DEF Audit, Step, EventsOfRequest, AnswerOfRequest, UpstreamSucceeded,
     Terminal, Events
<1>17. ASSUME ModeB(r) PROVE EventsOfRequest(r)'
  BY <1>17 DEF ModeB, Step, EventsOfRequest, AnswerOfRequest, UpstreamSucceeded, Terminal,
     Published, Ctx
<1>18. ASSUME CommitOk(r) PROVE EventsOfRequest(r)'
  <2>1. PublishFails(r, "command") /\ events' = [events EXCEPT ![r] = Append(@, "command")]
    BY <1>18 DEF CommitOk, PublishFails, PublishOk
  <2>2. Published(r, "command")'
    BY <2>1, AppendEvent DEF Published, Events
  <2> QED
    BY <1>18, <1>b, <2>1, <2>2 DEF CommitOk, Step, EventsOfRequest, AnswerOfRequest,
       UpstreamSucceeded, Terminal, Events
<1>19. ASSUME CommitFails(r) PROVE EventsOfRequest(r)'
  BY <1>19, <1>b DEF CommitFails, Step, EventsOfRequest, AnswerOfRequest, UpstreamSucceeded,
     Terminal, Events
<1>20. ASSUME Accept(r) PROVE EventsOfRequest(r)'
  BY <1>20 DEF Accept, Step, EventsOfRequest, AnswerOfRequest, UpstreamSucceeded, Terminal,
     Published, Ctx
<1>21. ASSUME Refuse(r) PROVE EventsOfRequest(r)'
  BY <1>21 DEF Refuse, Step, EventsOfRequest, AnswerOfRequest, UpstreamSucceeded, Terminal,
     Published, Ctx
<1>22. ASSUME Forward(r) PROVE EventsOfRequest(r)'
  BY <1>22 DEF Forward, Step, EventsOfRequest, AnswerOfRequest, UpstreamSucceeded, Terminal,
     Published, Ctx
<1>23. ASSUME UpstreamActs(r) PROVE EventsOfRequest(r)'
  BY <1>23 DEF UpstreamActs, Step, EventsOfRequest, AnswerOfRequest, UpstreamSucceeded,
     Terminal, Published, Ctx
<1>24. ASSUME ResponseHeaders(r) PROVE EventsOfRequest(r)'
  BY <1>24 DEF ResponseHeaders, Step, EventsOfRequest, AnswerOfRequest, UpstreamSucceeded,
     Terminal, Published, Ctx
<1>25. ASSUME ResponseEnd(r) PROVE EventsOfRequest(r)'
  BY <1>25 DEF ResponseEnd, Step, EventsOfRequest, AnswerOfRequest, UpstreamSucceeded,
     Terminal, Published, Ctx
<1>26. ASSUME ProxyError(r) PROVE EventsOfRequest(r)'
  BY <1>26 DEF ProxyError, Step, EventsOfRequest, AnswerOfRequest, UpstreamSucceeded,
     Terminal, Published, Ctx
<1>27. ASSUME LoggingSkips(r) PROVE EventsOfRequest(r)'
  BY <1>27 DEF LoggingSkips, Step, EventsOfRequest, AnswerOfRequest, UpstreamSucceeded,
     Terminal, Published, Ctx
<1>28. ASSUME LoggingFailure(r) PROVE EventsOfRequest(r)'
  BY <1>28 DEF LoggingFailure, Step, EventsOfRequest, AnswerOfRequest, UpstreamSucceeded,
     Terminal, Published, Ctx
<1>29. ASSUME LoggingSuccess(r) PROVE EventsOfRequest(r)'
  BY <1>29 DEF LoggingSuccess, Step, EventsOfRequest, AnswerOfRequest, UpstreamSucceeded,
     Terminal, Published, Ctx
<1>30. ASSUME EmitFailure(r) PROVE EventsOfRequest(r)'
  <2>1. CASE UNCHANGED events
    BY <1>30, <2>1 DEF EmitFailure, Step, EventsOfRequest, AnswerOfRequest,
       UpstreamSucceeded, Terminal, Published
  <2>2. CASE PublishFails(r, "failed") /\ ctx[r].policy \notin {"ResponseOnly", "None"}
    BY <1>30, <1>b, <2>2 DEF EmitFailure, Step, EventsOfRequest, AnswerOfRequest,
       UpstreamSucceeded, Terminal, Events, Ctx, Policies
  <2> QED BY <1>30, <2>1, <2>2 DEF EmitFailure
<1>31. ASSUME EmitSuccess(r) PROVE EventsOfRequest(r)'
  <2>1. CASE UNCHANGED events
    BY <1>31, <2>1 DEF EmitSuccess, Step, EventsOfRequest, AnswerOfRequest,
       UpstreamSucceeded, Terminal, Published
  <2>2. CASE PublishFails(r, "success") /\ ctx[r].policy \notin {"None"}
    BY <1>31, <1>b, <2>2 DEF EmitSuccess, Step, EventsOfRequest, AnswerOfRequest,
       UpstreamSucceeded, Terminal, Events, Ctx, Policies
  <2> QED BY <1>31, <2>1, <2>2 DEF EmitSuccess
<1>32. ASSUME NEW k \in Keys, ExplicitKey(r, k) PROVE EventsOfRequest(r)'
  BY <1>32 DEF ExplicitKey, Step, EventsOfRequest, AnswerOfRequest, UpstreamSucceeded,
     Terminal, Published
<1>33. ASSUME NEW k \in Keys, Fingerprint(r, k) PROVE EventsOfRequest(r)'
  BY <1>33 DEF Fingerprint, Step, EventsOfRequest, AnswerOfRequest, UpstreamSucceeded,
     Terminal, Published
<1> QED
  BY <1>1, <1>2, <1>3, <1>4, <1>5, <1>6, <1>7, <1>8, <1>9, <1>10, <1>11, <1>12, <1>13,
     <1>14, <1>15, <1>16, <1>17, <1>18, <1>19, <1>20, <1>21, <1>22, <1>23, <1>24, <1>25,
     <1>26, <1>27, <1>28, <1>29, <1>30, <1>31, <1>32, <1>33 DEF RequestStep, request_filter,
     proxy, logging

\* A request leaves the idle phase by calling the engine, and no step of a
\* request moves the clock.
LEMMA IdleCalls ==
  ASSUME GatewayTypeOK, NEW r \in Requests, RequestStep(r)
  PROVE  /\ phase[r] = "idle" => phase'[r] \in {"idle", "checking"}
         /\ now' = now
<1> DEFINE Goal == (phase[r] = "idle" => phase'[r] \in {"idle", "checking"}) /\ now' = now
<1> USE DEF GatewayTypeOK, StoreTypeOK
<1>1. ASSUME Local(r) PROVE Goal
  BY <1>1 DEF Local, storeVars
<1>2. ASSUME NoExplicitKey(r) PROVE Goal
  BY <1>2 DEF NoExplicitKey, storeVars
<1>3. ASSUME NewKey(r) PROVE Goal
  BY <1>3 DEF NewKey, storeVars, Acquire, To
<1>4. ASSUME ConflictResponse(r) PROVE Goal
  BY <1>4 DEF ConflictResponse, storeVars, Conflict, To
<1>5. ASSUME ReplayResponse(r) PROVE Goal
  BY <1>5 DEF ReplayResponse, storeVars, Replay, To
<1>6. ASSUME Undecoded(r) PROVE Goal
  BY <1>6 DEF Undecoded, storeVars
<1>7. ASSUME Decoded(r) PROVE Goal
  BY <1>7 DEF Decoded, storeVars
<1>8. ASSUME BodyError(r) PROVE Goal
  BY <1>8 DEF BodyError, storeVars
<1>9. ASSUME TooLarge(r) PROVE Goal
  BY <1>9 DEF TooLarge, storeVars, ReleaseKey, Remove, To
<1>10. ASSUME Admit(r) PROVE Goal
  BY <1>10 DEF Admit, storeVars
<1>11. ASSUME Reject(r) PROVE Goal
  BY <1>11 DEF Reject, storeVars, ReleaseKey, Remove, To
<1>12. ASSUME SpawnedDispatch(r) PROVE Goal
  BY <1>12 DEF SpawnedDispatch, storeVars, PublishOk, PublishFails
<1>13. ASSUME NoFingerprint(r) PROVE Goal
  BY <1>13 DEF NoFingerprint, storeVars
<1>14. ASSUME Disabled(r) PROVE Goal
  BY <1>14 DEF Disabled, storeVars
<1>15. ASSUME ModeA(r) PROVE Goal
  BY <1>15 DEF ModeA, storeVars
<1>16. ASSUME Audit(r) PROVE Goal
  BY <1>16 DEF Audit, storeVars, PublishOk, PublishFails
<1>17. ASSUME ModeB(r) PROVE Goal
  BY <1>17 DEF ModeB, storeVars
<1>18. ASSUME CommitOk(r) PROVE Goal
  BY <1>18 DEF CommitOk, storeVars, PublishOk, PublishFails
<1>19. ASSUME CommitFails(r) PROVE Goal
  BY <1>19 DEF CommitFails, storeVars, PublishOk, PublishFails
<1>20. ASSUME Accept(r) PROVE Goal
  BY <1>20 DEF Accept, storeVars, CompleteKey, Complete, To
<1>21. ASSUME Refuse(r) PROVE Goal
  BY <1>21 DEF Refuse, storeVars, ReleaseKey, Remove, To
<1>22. ASSUME Forward(r) PROVE Goal
  BY <1>22 DEF Forward, storeVars
<1>23. ASSUME UpstreamActs(r) PROVE Goal
  BY <1>23 DEF UpstreamActs, storeVars
<1>24. ASSUME ResponseHeaders(r) PROVE Goal
  BY <1>24 DEF ResponseHeaders, storeVars
<1>25. ASSUME ResponseEnd(r) PROVE Goal
  BY <1>25 DEF ResponseEnd, storeVars
<1>26. ASSUME ProxyError(r) PROVE Goal
  BY <1>26 DEF ProxyError, storeVars
<1>27. ASSUME LoggingSkips(r) PROVE Goal
  BY <1>27 DEF LoggingSkips, storeVars, Abandon, To
<1>28. ASSUME LoggingFailure(r) PROVE Goal
  BY <1>28 DEF LoggingFailure, storeVars, ReleaseKey, Remove, To
<1>29. ASSUME LoggingSuccess(r) PROVE Goal
  BY <1>29 DEF LoggingSuccess, storeVars, CompleteKey, Complete, To
<1>30. ASSUME EmitFailure(r) PROVE Goal
  BY <1>30 DEF EmitFailure, storeVars, PublishOk, PublishFails
<1>31. ASSUME EmitSuccess(r) PROVE Goal
  BY <1>31 DEF EmitSuccess, storeVars, PublishOk, PublishFails
<1>32. ASSUME NEW k \in Keys, ExplicitKey(r, k) PROVE Goal
  BY <1>32 DEF ExplicitKey, Call, To
<1>33. ASSUME NEW k \in Keys, Fingerprint(r, k) PROVE Goal
  BY <1>33 DEF Fingerprint, Call, To
<1> QED
  BY <1>1, <1>2, <1>3, <1>4, <1>5, <1>6, <1>7, <1>8, <1>9, <1>10, <1>11, <1>12, <1>13,
     <1>14, <1>15, <1>16, <1>17, <1>18, <1>19, <1>20, <1>21, <1>22, <1>23, <1>24, <1>25,
     <1>26, <1>27, <1>28, <1>29, <1>30, <1>31, <1>32, <1>33 DEF RequestStep, request_filter,
     proxy, logging

-----------------------------------------------------------------------------
(* The records, across requests *)

\* Facts about a step that all the lemmas below use.
LEMMA StepFacts ==
  ASSUME GatewayInv, NEW r \in Requests, RequestStep(r)
  PROVE  /\ GatewayTypeOK' /\ now' = now /\ now \in Nat
         /\ \A q \in Requests : q # r => Same(q)
         /\ RecEffect(r) /\ SelfEffect(r)
         /\ \A q \in Requests : OwnInv(q) /\ OwnInv(q)'
         /\ \A q \in Requests : key[q] # NoKey => key'[q] = key[q] /\ called'[q] = called[q]
<1>1. \A q \in Requests : OwnInv(q) BY DEF GatewayInv, OwnInv
<1>2. GatewayTypeOK' BY <1>1, StepType DEF GatewayInv, OwnInv
<1>3. \A q \in Requests : q # r => Same(q) /\ now' = now BY StepOthers DEF GatewayInv
<1>4. RecEffect(r) /\ SelfEffect(r) BY <1>1, StepEffect DEF GatewayInv
<1>5. now' = now BY IdleCalls DEF GatewayInv
<1>6. now \in Nat BY StoreAssumption DEF GatewayInv, GatewayTypeOK, StoreTypeOK
<1>7. ASSUME NEW q \in Requests PROVE OwnInv(q)'
  <2>1. CASE q = r BY <1>1, <2>1, StepOwnKey, StepOwnEvents DEF GatewayInv, OwnInv
  <2>2. CASE q # r BY <1>1, <1>3, <1>5, <1>6, <2>2, OthersKeepInv DEF GatewayInv
  <2> QED BY <2>1, <2>2
<1>8. ASSUME NEW q \in Requests, key[q] # NoKey PROVE key'[q] = key[q] /\ called'[q] = called[q]
  BY <1>3, <1>4, <1>8 DEF Same, SelfEffect
<1> QED BY <1>1, <1>2, <1>3, <1>4, <1>5, <1>6, <1>7, <1>8

\* A key that is undisturbed after a step was so before it.
LEMMA UndisturbedBefore ==
  ASSUME GatewayInv, NEW k \in Keys, Undisturbed(k)', now' \in Nat, now' >= now,
         \A q \in Requests : key[q] # NoKey => key'[q] = key[q] /\ called'[q] = called[q]
  PROVE  Undisturbed(k)
<1>1. now \in Nat /\ TtlSecs \in Nat /\ NoKey \notin Keys
  BY StoreAssumption DEF GatewayInv, GatewayTypeOK, StoreTypeOK, TtlSecs
<1>2. \A q \in Requests : called[q] \in Nat
  BY StoreAssumption DEF GatewayInv, GatewayTypeOK, StoreTypeOK
<1>3. k \notin Evictable BY DEF Undisturbed
<1>4. ASSUME NEW q \in Requests, key[q] = k PROVE now - called[q] < TtlSecs
  <2>1. key'[q] = k /\ called'[q] = called[q] BY <1>1, <1>4
  <2>2. now' - called'[q] < TtlSecs BY <2>1 DEF Undisturbed, TtlSecs
  <2> QED BY <1>1, <1>2, <2>1, <2>2
<1> QED BY <1>3, <1>4 DEF Undisturbed

\* While a key is undisturbed, a record as young as the call of one of its
\* requests is live for every other: check_or_insert does not answer New.
LEMMA YoungRecordIsLive ==
  ASSUME GatewayInv, NEW q \in Requests, NEW r \in Requests, NEW k \in Keys,
         key[q] = k, key[r] = k, Undisturbed(k),
         rec[k] # NoRecord, rec[k].at >= called[q]
  PROVE  Live(k, called[r])
<1>1. /\ now \in Nat /\ TtlSecs \in Nat /\ called[q] \in Nat /\ called[r] \in Nat
      /\ called[r] <= now
  BY StoreAssumption DEF GatewayInv, GatewayTypeOK, StoreTypeOK, TtlSecs, KeyOfRequest
<1>2. rec[k].at \in Nat
  BY StoreAssumption, RecordFields DEF GatewayInv, GatewayTypeOK, StoreTypeOK
<1>3. now - called[q] < TtlSecs BY DEF Undisturbed
<1> QED BY <1>1, <1>2, <1>3 DEF Live, Fresh

\* Of the requests that hold locks on an undisturbed key, there is only one.
LEMMA OneLockHolder ==
  ASSUME GatewayInv, NEW q \in Requests, NEW k \in Keys,
         key[q] = k, Undisturbed(k), phase[q] = "running"
  PROVE  /\ rec[k] = InProgress(q, called[q]) /\ rec[k] # NoRecord
         /\ rec[k].owner = q /\ rec[k].at = called[q]
<1>1. rec[k] = InProgress(q, called[q])
  BY DEF GatewayInv, HeldKeyIsLocked, KeyOfRequest
<1>2. called[q] \in 0..MaxTime BY DEF GatewayInv, GatewayTypeOK, StoreTypeOK
<1> QED BY <1>1, <1>2, RecordTypes

\* A young record of q under an undisturbed key survives the steps of others.
LEMMA OthersSpareRecord ==
  ASSUME GatewayInv, NEW q \in Requests, NEW r \in Requests, q # r, NEW k \in Keys,
         RequestStep(r), key[q] = k, Undisturbed(k),
         rec[k] # NoRecord, rec[k].owner = q, rec[k].at >= called[q]
  PROVE  rec'[k] = rec[k]
<1>1. RecEffect(r) BY StepFacts
<1>2. rec \in [Keys -> Records] BY DEF GatewayInv, GatewayTypeOK, StoreTypeOK
<1>3. phase[r] # "idle" => key[r] \in Keys
  BY DEF GatewayInv, GatewayTypeOK, StoreTypeOK, KeyOfRequest
<1>4. CASE phase[r] = "running"
  <2>1. key[r] # k BY <1>4, OneLockHolder
  <2>2. k \notin Evictable BY DEF Undisturbed
  <2> QED BY <1>1, <1>2, <1>3, <1>4, <2>1, <2>2
          DEF RecEffect, Keeps, Abandons, Removes, Completes
<1>5. CASE phase[r] = "checking"
  <2>1. key[r] = k => Live(k, called[r]) BY YoungRecordIsLive
  <2> QED BY <1>1, <1>2, <1>3, <1>5, <2>1 DEF RecEffect
<1>6. CASE phase[r] \notin {"running", "checking"}
  BY <1>1, <1>6 DEF RecEffect
<1> QED BY <1>4, <1>5, <1>6

\* A step keeps the lock of every held key in place.
LEMMA StepHeldKey ==
  ASSUME GatewayInv, NEW r \in Requests, RequestStep(r)
  PROVE  HeldKeyIsLocked'
<1> SUFFICES ASSUME NEW q \in Requests, ctx'[q].held, phase'[q] = "running",
                    Undisturbed(key[q])'
             PROVE  rec'[key'[q]] = InProgress(q, called'[q])
  BY DEF HeldKeyIsLocked, InProgress
<1>1. PICK k \in Keys : k = key'[q]
  BY StepFacts DEF OwnInv, KeyOfRequest, GatewayTypeOK, StoreTypeOK
<1>2. Undisturbed(k)
  <2>1. Undisturbed(k)' BY <1>1 DEF Undisturbed
  <2> QED BY <2>1, StepFacts, UndisturbedBefore
<1>3. rec \in [Keys -> Records] /\ NoKey \notin Keys
  BY StoreAssumption DEF GatewayInv, GatewayTypeOK, StoreTypeOK
<1>4. CASE phase[q] = "running"
  <2>1. key[q] = k /\ called'[q] = called[q]
    BY <1>1, <1>4, StepFacts DEF OwnInv, KeyOfRequest
  <2>2. /\ rec[k] = InProgress(q, called[q]) /\ rec[k] # NoRecord
        /\ rec[k].owner = q /\ rec[k].at = called[q]
    BY <1>1, <1>2, <1>4, <2>1, OneLockHolder
  <2>3. called[q] \in Nat BY StoreAssumption DEF GatewayInv, GatewayTypeOK, StoreTypeOK
  <2>4. rec'[k] = rec[k]
    <3>1. CASE q = r
      BY <1>4, <3>1, StepFacts DEF RecEffect, Keeps, Abandons, Removes, Completes
    <3>2. CASE q # r
      BY <1>1, <1>2, <2>1, <2>2, <2>3, <3>2, OthersSpareRecord
    <3> QED BY <3>1, <3>2
  <2> QED BY <1>1, <2>1, <2>2, <2>4
<1>5. CASE phase[q] # "running"
  <2>1. q = r BY <1>5, StepFacts DEF Same
  <2>2. phase[r] = "checking" BY <1>5, <2>1, StepFacts DEF RecEffect
  <2>3. key[r] # NoKey BY <2>2, StepFacts DEF OwnInv, KeyOfRequest
  <2>4. key'[r] = key[r] /\ called'[r] = called[r] BY <2>3, StepFacts
  <2>5. rec' = [rec EXCEPT ![key[r]] = InProgress(r, called[r])]
    BY <2>1, <2>2, StepFacts DEF RecEffect
  <2> QED BY <1>1, <1>3, <2>1, <2>4, <2>5
<1> QED BY <1>4, <1>5

\* A request that succeeded is past its critical section.
LEMMA SucceededIsSettled ==
  ASSUME NEW q \in Requests, OwnInv(q), Succeeded(q)
  PROVE  phase[q] \notin {"running", "checking"}
BY DEF OwnInv, KeyOfRequest, AnswerOfRequest, Succeeded, Active

\* A step leaves the key of every fresh success with it.
LEMMA StepSuccessKeepsKey ==
  ASSUME GatewayInv, NEW r \in Requests, RequestStep(r)
  PROVE  SuccessKeepsKey'
<1> SUFFICES ASSUME NEW q \in Requests, Succeeded(q)', key'[q] # NoKey, Undisturbed(key[q])'
             PROVE  /\ rec'[key'[q]] # NoRecord
                    /\ rec'[key'[q]].owner = q
                    /\ rec'[key'[q]].at >= called'[q]
  BY DEF SuccessKeepsKey, NoRecord
<1>1. PICK k \in Keys : k = key'[q] BY StepFacts DEF GatewayTypeOK, StoreTypeOK
<1>2. Undisturbed(k)
  <2>1. Undisturbed(k)' BY <1>1 DEF Undisturbed
  <2> QED BY <2>1, StepFacts, UndisturbedBefore
<1>3. phase'[q] \notin {"running", "checking"}
  <2>1. OwnInv(q)' /\ Succeeded(q)' BY StepFacts
  <2> QED BY <2>1 DEF OwnInv, KeyOfRequest, AnswerOfRequest, Succeeded, Active
<1>4. key[q] = k /\ called'[q] = called[q]
  <2>1. CASE key[q] = NoKey
    <3>1. phase[q] = "idle" /\ phase'[q] # "idle" /\ q = r
      BY <2>1, StepFacts DEF OwnInv, KeyOfRequest, Same
    <3>2. phase'[r] = "checking" BY <3>1, IdleCalls DEF GatewayInv
    <3> QED BY <3>1, <3>2, <1>3
  <2> QED BY <1>1, <2>1, StepFacts
<1>5. called[q] \in Nat /\ now \in Nat /\ called[q] <= now /\ called[q] \in 0..MaxTime /\ now \in 0..MaxTime
  BY StoreAssumption, StepFacts DEF GatewayInv, GatewayTypeOK, StoreTypeOK, OwnInv,
     KeyOfRequest
<1>6. CASE Succeeded(q)
  <2>1. rec[k] # NoRecord /\ rec[k].owner = q /\ rec[k].at >= called[q]
    BY <1>1, <1>2, <1>4, <1>6, StoreAssumption DEF GatewayInv, SuccessKeepsKey
  <2>2. rec'[k] = rec[k]
    <3>1. CASE q = r
      BY <1>6, <3>1, StepFacts, SucceededIsSettled DEF RecEffect
    <3>2. CASE q # r
      BY <1>1, <1>2, <1>4, <2>1, <3>2, OthersSpareRecord
    <3> QED BY <3>1, <3>2
  <2> QED BY <1>1, <1>4, <2>1, <2>2
<1>7. CASE ~Succeeded(q)
  <2>1. q = r
    BY <1>7, StepFacts DEF Same, Succeeded, UpstreamSucceeded
  <2>2. phase[q] = "running"
    BY <1>1, <1>4, <1>7, <2>1, StepFacts, StoreAssumption DEF SelfEffect, OwnInv, KeyOfRequest
  <2>3. rec[k] # NoRecord /\ rec[k].owner = q /\ rec[k].at = called[q]
    BY <1>1, <1>2, <1>4, <2>2, OneLockHolder
  <2>4. Abandons(r) \/ Completes(r)
    BY <1>3, <2>1, <2>2, StepFacts DEF RecEffect, Keeps, Removes
  <2>5. rec'[k] = rec[k] \/ rec'[k] = Completed(q, now)
    BY <1>4, <2>1, <2>4 DEF Abandons, Completes
  <2> QED BY <1>1, <1>4, <1>5, <2>3, <2>5, RecordTypes
<1> QED BY <1>6, <1>7

\* What a request was answered with stays an answer.
LEMMA StepAnswered ==
  ASSUME GatewayInv, NEW r \in Requests, RequestStep(r), NEW q \in Requests, Answered(q)
  PROVE  Answered(q)'
<1>1. CASE q = r BY <1>1, StepFacts DEF SelfEffect
<1>2. CASE q # r BY <1>2, StepFacts DEF Same, Answered, UpstreamSucceeded, Published
<1> QED BY <1>1, <1>2

\* A step leaves every record with its owner.
LEMMA StepRecords ==
  ASSUME GatewayInv, NEW r \in Requests, RequestStep(r)
  PROVE  RecordsAreOfTheirOwners'
<1> DEFINE Good(k) ==
      /\ key'[rec'[k].owner] = k
      /\ rec'[k].state = "Completed" =>
           phase'[rec'[k].owner] = "done" /\ Answered(rec[k].owner)'
      /\ rec'[k].state = "InProgress" =>
           \/ phase'[rec'[k].owner] = "running"
           \/ /\ phase'[rec'[k].owner] = "done" /\ stage'[rec'[k].owner] = "end"
              /\ ~ctx'[rec'[k].owner].topic
<1> SUFFICES ASSUME NEW k \in Keys, rec'[k] # NoRecord PROVE Good(k)
  BY DEF RecordsAreOfTheirOwners, NoRecord
<1>1. /\ rec \in [Keys -> Records] /\ NoKey \notin Keys /\ now \in 0..MaxTime
      /\ phase[r] # "idle" => key[r] \in Keys
      /\ called[r] \in 0..MaxTime
  BY StoreAssumption DEF GatewayInv, GatewayTypeOK, StoreTypeOK, KeyOfRequest
<1>2. CASE rec'[k] = rec[k]
  <2>1. PICK q \in Requests : q = rec[k].owner
    BY <1>1, <1>2, RecordFields
  <2>2. /\ key[q] = k
        /\ rec[k].state = "Completed" => phase[q] = "done" /\ Answered(q)
        /\ rec[k].state = "InProgress" =>
             phase[q] = "running" \/ (phase[q] = "done" /\ stage[q] = "end" /\ ~ctx[q].topic)
    BY <1>2, <2>1 DEF GatewayInv, RecordsAreOfTheirOwners
  <2>3. key'[q] = k BY <1>1, <2>2, StepFacts
  <2>4. rec[k].state = "Completed" => phase'[q] = "done" /\ Answered(q)'
    BY <2>2, StepFacts, StepAnswered DEF Same, SelfEffect
  <2>5. rec[k].state = "InProgress" =>
          phase'[q] = "running" \/ (phase'[q] = "done" /\ stage'[q] = "end" /\ ~ctx'[q].topic)
    <3>1. CASE q # r BY <2>2, <3>1, StepFacts DEF Same
    <3>2. CASE q = r /\ phase[q] = "running"
      <4>1. Keeps(r) \/ Abandons(r) \/ Removes(r) \/ Completes(r)
        BY <3>2, StepFacts DEF RecEffect
      <4>2. ~Removes(r) BY <1>1, <1>2, <2>2, <3>2 DEF Removes
      <4>3. Completes(r) => rec[k].state = "Completed"
        BY <1>1, <1>2, <2>2, <3>2, RecordTypes DEF Completes
      <4> QED BY <3>2, <4>1, <4>2, <4>3 DEF Keeps, Abandons
    <3>3. CASE q = r /\ phase[q] # "running" BY <2>2, <3>3, StepFacts DEF SelfEffect
    <3> QED BY <3>1, <3>2, <3>3
  <2>6. Answered(q)' <=> Answered(rec[k].owner)'
    BY <1>2, <2>1 DEF Answered, UpstreamSucceeded, Published
  <2> QED BY <1>2, <2>1, <2>3, <2>4, <2>5, <2>6
<1>3. CASE rec'[k] # rec[k]
  <2>1. k = key[r] /\ (Completes(r) \/ (phase'[r] = "running" /\ rec'[k] = InProgress(r, called[r])))
    BY <1>1, <1>3, StepFacts DEF RecEffect, Keeps, Abandons, Removes, Completes
  <2>2. key'[r] = k BY <1>1, <2>1, StepFacts
  <2>3. CASE Completes(r)
    <3>1. rec'[k].owner = r /\ rec'[k].state = "Completed"
      BY <1>1, <2>1, <2>3, RecordTypes DEF Completes
    <3>2. phase'[r] = "done" /\ Answered(r)' BY <2>3 DEF Completes
    <3>3. Answered(rec[k].owner)' BY <3>1, <3>2 DEF Answered, UpstreamSucceeded, Published
    <3> QED BY <2>2, <3>1, <3>2, <3>3
  <2>4. CASE phase'[r] = "running" /\ rec'[k] = InProgress(r, called[r])
    <3>1. rec'[k].owner = r /\ rec'[k].state = "InProgress"
      BY <1>1, <2>4, RecordTypes
    <3> QED BY <2>2, <2>4, <3>1
  <2> QED BY <2>1, <2>3, <2>4
<1> QED BY <1>2, <1>3

\* A step replays only what was answered, under the same key.
LEMMA StepReplays ==
  ASSUME GatewayInv, NEW r \in Requests, RequestStep(r)
  PROVE  ReplaysAreOfAnswers'
<1> SUFFICES ASSUME NEW q \in Requests, source'[q] # NoRequest
             PROVE  key'[source'[q]] = key'[q] /\ Answered(source[q])'
  BY DEF ReplaysAreOfAnswers
<1>1. PICK p \in Requests : p = source'[q]
  BY StepFacts DEF GatewayTypeOK, StoreTypeOK
<1>2. NoKey \notin Keys BY StoreAssumption
<1>3. key[q] # NoKey /\ key[p] = key[q] /\ Answered(p)
  <2>1. CASE source'[q] = source[q]
    BY <1>1, <2>1 DEF GatewayInv, ReplaysAreOfAnswers, AnswerOfRequest, KeyOfRequest
  <2>2. CASE source'[q] # source[q]
    <3>1. q = r BY <2>2, StepFacts DEF Same
    <3>2. /\ key[r] \in Keys /\ rec[key[r]] # NoRecord /\ rec[key[r]].state = "Completed"
          /\ p = rec[key[r]].owner
      BY <1>1, <2>2, <3>1, StepFacts DEF SelfEffect
    <3> QED BY <1>2, <3>1, <3>2 DEF GatewayInv, RecordsAreOfTheirOwners
  <2> QED BY <2>1, <2>2
<1>4. key'[p] = key'[q] BY <1>3, StepFacts
<1>5. Answered(p)' BY <1>3, StepAnswered
<1>6. Answered(source[q])' BY <1>1, <1>5 DEF Answered, UpstreamSucceeded, Published
<1> QED BY <1>1, <1>4, <1>6

-----------------------------------------------------------------------------
(* The theorems *)

\* The empty gateway satisfies the invariant.
LEMMA InitInv == Init => GatewayInv
<1> SUFFICES ASSUME Init PROVE GatewayInv OBVIOUS
<1>1. GatewayTypeOK
  <2>1. StoreTypeOK BY StoreInitType DEF Init
  <2>2. <<>> \in Seq(Events) BY EmptySeq
  <2>3. NewCtx \in Ctx BY GatewayAssumption DEF NewCtx, Ctx
  <2> QED BY <2>1, <2>2, <2>3 DEF Init, GatewayTypeOK, Stages
<1>2. ASSUME NEW r \in Requests PROVE KeyOfRequest(r) /\ AnswerOfRequest(r) /\ EventsOfRequest(r)
  <2>1. /\ stage[r] = "new" /\ ctx[r] = NewCtx /\ events[r] = <<>> /\ phase[r] = "idle"
        /\ key[r] = NoKey /\ called[r] = 0 /\ now = 0 /\ source[r] = NoRequest
    BY DEF Init, StoreInit
  <2>2. KeyOfRequest(r) BY <2>1 DEF KeyOfRequest, NewCtx
  <2>3. AnswerOfRequest(r) BY <2>1 DEF AnswerOfRequest, NewCtx
  <2>4. DOMAIN events[r] = {} BY <2>1
  <2>5. EventsOfRequest(r) BY <2>1, <2>4 DEF EventsOfRequest, Published
  <2> QED BY <2>2, <2>3, <2>5
<1>3. RecordsAreOfTheirOwners /\ ReplaysAreOfAnswers
  BY DEF Init, StoreInit, RecordsAreOfTheirOwners, ReplaysAreOfAnswers
<1>4. HeldKeyIsLocked /\ SuccessKeepsKey
  BY DEF Init, StoreInit, HeldKeyIsLocked, SuccessKeepsKey
<1> QED BY <1>1, <1>2, <1>3, <1>4 DEF GatewayInv

\* The passing of time and evictions preserve the invariant, as does a step of
\* a request.
LEMMA StepInv == GatewayInv /\ [Next]_vars => GatewayInv'
<1> SUFFICES ASSUME GatewayInv, [Next]_vars PROVE GatewayInv' OBVIOUS
<1>1. ASSUME NEW r \in Requests, RequestStep(r) PROVE GatewayInv'
  <2>1. \A q \in Requests : KeyOfRequest(q)' /\ AnswerOfRequest(q)' /\ EventsOfRequest(q)'
    BY <1>1, StepFacts DEF OwnInv
  <2> QED BY <1>1, <2>1, StepFacts, StepHeldKey, StepSuccessKeepsKey, StepRecords, StepReplays
          DEF GatewayInv
<1>2. CASE Tick /\ UNCHANGED gatewayVars
  <2> USE <1>2 DEF Tick, gatewayVars
  <2>1. GatewayTypeOK'
    BY StoreStepType DEF GatewayInv, GatewayTypeOK, StoreNext, StoreTypeOK, KeyOfRequest
  <2>2. now \in Nat /\ now' \in Nat /\ now' >= now
    BY StoreAssumption DEF GatewayInv, GatewayTypeOK, StoreTypeOK
  <2>3. ASSUME NEW q \in Requests PROVE OwnInv(q)'
    BY <2>2, OthersKeepInv DEF GatewayInv, OwnInv, Same
  <2>4. RecordsAreOfTheirOwners' /\ ReplaysAreOfAnswers'
    BY DEF GatewayInv, RecordsAreOfTheirOwners, ReplaysAreOfAnswers, Answered,
       UpstreamSucceeded, Published
  <2>5. \A k \in Keys : Undisturbed(k)' => Undisturbed(k)
    BY <2>2, UndisturbedBefore
  <2>6. HeldKeyIsLocked'
    <3> SUFFICES ASSUME NEW q \in Requests, ctx[q].held, phase[q] = "running", Undisturbed(key[q])'
                 PROVE  rec[key[q]] = InProgress(q, called[q])
      BY DEF HeldKeyIsLocked, InProgress
    <3>1. PICK k \in Keys : k = key[q]
      BY DEF GatewayInv, KeyOfRequest, GatewayTypeOK, StoreTypeOK
    <3>2. Undisturbed(k)' BY <3>1 DEF Undisturbed
    <3> QED BY <3>1, <3>2, <2>5 DEF GatewayInv, HeldKeyIsLocked
  <2>7. SuccessKeepsKey'
    <3> SUFFICES ASSUME NEW q \in Requests, Succeeded(q), key[q] # NoKey, Undisturbed(key[q])'
                 PROVE  /\ rec[key[q]] # NoRecord /\ rec[key[q]].owner = q
                        /\ rec[key[q]].at >= called[q]
      BY DEF SuccessKeepsKey, Succeeded, UpstreamSucceeded
    <3>1. PICK k \in Keys : k = key[q] BY DEF GatewayInv, GatewayTypeOK, StoreTypeOK
    <3>2. Undisturbed(k)' BY <3>1 DEF Undisturbed
    <3> QED BY <3>1, <3>2, <2>5 DEF GatewayInv, SuccessKeepsKey
  <2> QED BY <2>1, <2>3, <2>4, <2>6, <2>7 DEF GatewayInv, OwnInv
<1>3. ASSUME NEW k \in Keys, EngineEvicts(k) PROVE GatewayInv'
  <2> USE <1>3 DEF EngineEvicts, Evict, gatewayVars
  <2>1. GatewayTypeOK'
    BY StoreStepType DEF GatewayInv, GatewayTypeOK, StoreNext, StoreTypeOK, KeyOfRequest
  <2>2. now \in Nat /\ rec \in [Keys -> Records]
    BY StoreAssumption DEF GatewayInv, GatewayTypeOK, StoreTypeOK
  <2>3. ASSUME NEW q \in Requests PROVE OwnInv(q)'
    BY <2>2, OthersKeepInv DEF GatewayInv, OwnInv, Same
  <2>4. ReplaysAreOfAnswers'
    BY DEF GatewayInv, ReplaysAreOfAnswers, Answered, UpstreamSucceeded, Published
  <2>5. RecordsAreOfTheirOwners'
    BY <2>2 DEF GatewayInv, RecordsAreOfTheirOwners, Answered, UpstreamSucceeded, Published
  <2>6. HeldKeyIsLocked' /\ SuccessKeepsKey'
    BY <2>2 DEF GatewayInv, HeldKeyIsLocked, SuccessKeepsKey, Undisturbed, Succeeded,
       UpstreamSucceeded
  <2> QED BY <2>1, <2>3, <2>4, <2>5, <2>6 DEF GatewayInv, OwnInv
<1>4. CASE UNCHANGED vars
  <2> USE <1>4 DEF vars, storeVars, gatewayVars
  <2>1. GatewayTypeOK' BY DEF GatewayInv, GatewayTypeOK, StoreTypeOK
  <2>2. now \in Nat BY StoreAssumption DEF GatewayInv, GatewayTypeOK, StoreTypeOK
  <2>3. ASSUME NEW q \in Requests PROVE OwnInv(q)'
    BY <2>2, OthersKeepInv DEF GatewayInv, OwnInv, Same
  <2>4. RecordsAreOfTheirOwners' /\ ReplaysAreOfAnswers'
    BY DEF GatewayInv, RecordsAreOfTheirOwners, ReplaysAreOfAnswers, Answered,
       UpstreamSucceeded, Published
  <2>5. HeldKeyIsLocked' /\ SuccessKeepsKey'
    BY DEF GatewayInv, HeldKeyIsLocked, SuccessKeepsKey, Undisturbed, Succeeded,
       UpstreamSucceeded
  <2> QED BY <2>1, <2>3, <2>4, <2>5 DEF GatewayInv, OwnInv
<1> QED BY <1>1, <1>2, <1>3, <1>4 DEF Next, ClockTick, RequestStep

\* Locks, records, contexts and events agree at every await of every request.
THEOREM GatewayInvHolds == Spec => []GatewayInv
BY InitInv, StepInv, PTL DEF Spec

\* Each request of one key but one is answered with a conflict, a replay or a
\* failure, whatever filter ends it and however the requests interleave.
THEOREM OneSuccessPerKey == Spec => []AtMostOneSuccess
<1>1. GatewayInv => AtMostOneSuccess
  BY DEF GatewayInv, AtMostOneSuccess, SuccessKeepsKey
<1> QED BY <1>1, GatewayInvHolds, PTL

\* What is replayed was cached of a request with the same key whose command is in
\* the broker and acknowledged, or whose upstream answered with a 2xx or 3xx; its
\* body is cut only under a policy that publishes bodies.
THEOREM ReplaysRepeatSuccesses == Spec => []ReplayIsOfSuccess
<1>1. ASSUME GatewayInv PROVE ReplayIsOfSuccess
  <2> SUFFICES ASSUME NEW r \in Requests, NEW q \in Requests, q = source[r], q # NoRequest
               PROVE  /\ key[q] = key[r]
                      /\ Succeeded(q)
                      /\ ctx[q].served = "modeB" => Published(q, "command") /\ ctx[q].body = "full"
                      /\ ctx[q].served = "proxy" =>
                           /\ ctx[q].body \in {"full", "rejection", "cut", "empty"}
                           /\ ctx[q].body = "cut" =>
                                ctx[q].policy \in {"ResponseWithFailure", "RawAudit"}
    BY <1>1 DEF ReplayIsOfSuccess, GatewayInv, GatewayTypeOK, StoreTypeOK
  <2>1. key[q] = key[r] /\ Answered(q) BY <1>1 DEF GatewayInv, ReplaysAreOfAnswers
  <2>2. AnswerOfRequest(q) /\ ctx[q] \in Ctx BY <1>1 DEF GatewayInv, GatewayTypeOK
  <2> QED BY <2>1, <2>2 DEF Answered, Succeeded, AnswerOfRequest, Ctx
<1> QED BY <1>1, GatewayInvHolds, PTL

\* Every exit of request_filter, handle_mode_b_edge and dispatch_logging gives up
\* the lock of a request that was decoded.
THEOREM DecodedUnlock == Spec => []DecodedRequestsUnlock
<1>1. ASSUME GatewayInv PROVE DecodedRequestsUnlock
  <2> SUFFICES ASSUME NEW r \in Requests, stage[r] = "end", ctx[r].topic, key[r] # NoKey,
                      rec[key[r]].state = "InProgress", rec[key[r]].owner = r
               PROVE  FALSE
    BY DEF DecodedRequestsUnlock
  <2>1. key[r] \in Keys BY <1>1 DEF GatewayInv, GatewayTypeOK, StoreTypeOK
  <2>2. rec[key[r]] # NoRecord BY DEF NoRecord
  <2>3. phase[r] = "running"
    BY <1>1, <2>1, <2>2 DEF GatewayInv, RecordsAreOfTheirOwners
  <2> QED BY <1>1, <2>3 DEF GatewayInv, KeyOfRequest, Active
<1> QED BY <1>1, GatewayInvHolds, PTL

\* A request has at most one terminal event; it agrees with its outcome, and with
\* its key: a success is cached when it is published, a failure has left nothing.
THEOREM TerminalEventsAgree == Spec => []TerminalEvents
<1>1. ASSUME GatewayInv PROVE TerminalEvents
  <2> SUFFICES ASSUME NEW r \in Requests
               PROVE  /\ Cardinality({i \in DOMAIN events[r] : events[r][i] \in Terminal}) <= 1
                      /\ Published(r, "success") /\ key[r] # NoKey /\ Undisturbed(key[r]) =>
                           rec[key[r]].state = "Completed" /\ rec[key[r]].owner = r
                      /\ Published(r, "failed") /\ key[r] # NoKey => rec[key[r]].owner # r
    BY <1>1 DEF TerminalEvents, GatewayInv, EventsOfRequest
  <2> DEFINE T == {i \in DOMAIN events[r] : events[r][i] \in Terminal}
  <2>1. \A i, j \in T : i = j BY <1>1 DEF GatewayInv, EventsOfRequest
  <2>2. ASSUME T = {} PROVE Cardinality(T) <= 1
    <3>1. Cardinality(T) = 0 BY <2>2, FS_EmptySet
    <3> QED BY <3>1
  <2>3. ASSUME NEW i \in T PROVE Cardinality(T) <= 1
    <3>1. T = {i} BY <2>1
    <3>2. Cardinality(T) = 1 BY <3>1, FS_Singleton
    <3> QED BY <3>2
  <2>4. Cardinality(T) <= 1 BY <2>2, <2>3
  <2>5. EventsOfRequest(r) /\ KeyOfRequest(r) BY <1>1 DEF GatewayInv
  <2>6. ASSUME key[r] # NoKey, rec[key[r]] # NoRecord, rec[key[r]].owner = r,
               stage[r] = "end", ctx[r].topic
        PROVE  rec[key[r]].state = "Completed" /\ Answered(r)
    <3>1. key[r] \in Keys BY <1>1, <2>6 DEF GatewayInv, GatewayTypeOK, StoreTypeOK
    <3>2. rec[key[r]].state \in {"InProgress", "Completed"}
      BY <1>1, <2>6, <3>1, RecordFields DEF GatewayInv, GatewayTypeOK, StoreTypeOK
    <3>3. phase[r] # "running" BY <2>5, <2>6 DEF KeyOfRequest, Active
    <3> QED BY <1>1, <2>6, <3>1, <3>2, <3>3 DEF GatewayInv, RecordsAreOfTheirOwners
  <2>7. ASSUME Published(r, "success"), key[r] # NoKey, Undisturbed(key[r])
        PROVE  rec[key[r]].state = "Completed" /\ rec[key[r]].owner = r
    <3>1. Succeeded(r) /\ stage[r] = "end" /\ ctx[r].topic
      BY <2>5, <2>7 DEF EventsOfRequest, Succeeded
    <3>2. rec[key[r]] # NoRecord /\ rec[key[r]].owner = r
      BY <1>1, <2>7, <3>1 DEF GatewayInv, SuccessKeepsKey
    <3> QED BY <2>6, <2>7, <3>1, <3>2
  <2>8. ASSUME Published(r, "failed"), key[r] # NoKey PROVE rec[key[r]].owner # r
    <3>1. /\ stage[r] = "end" /\ ctx[r].topic /\ ctx[r].served = "proxy"
          /\ ~UpstreamSucceeded(r)
      BY <2>5, <2>8 DEF EventsOfRequest
    <3>2. ~Answered(r) BY <3>1 DEF Answered
    <3>3. NoRecord.owner # r BY StoreAssumption DEF NoRecord
    <3> QED BY <2>6, <2>8, <3>1, <3>2, <3>3
  <2> QED BY <2>4, <2>7, <2>8
<1> QED BY <1>1, GatewayInvHolds, PTL

\* The filters use the engine as its contract says: every behaviour of the
\* gateway is one of IdempotencyStore, whose callers settle a key at most once.
THEOREM GatewayUsesStore == Spec => StoreSpec
<1>1. Init => StoreInit BY DEF Init
<1>2. ASSUME [Next]_vars PROVE [StoreNext]_storeVars
  <2>1. ASSUME NEW r \in Requests, RequestStep(r) PROVE [StoreNext]_storeVars
    BY <2>1, StepUsesStore
  <2>2. CASE ClockTick BY <2>2 DEF ClockTick, StoreNext
  <2>3. ASSUME NEW k \in Keys, EngineEvicts(k) PROVE [StoreNext]_storeVars
    BY <2>3 DEF EngineEvicts, StoreNext
  <2>4. CASE UNCHANGED vars BY <2>4 DEF vars
  <2> QED BY <1>2, <2>1, <2>2, <2>3, <2>4 DEF Next, RequestStep
<1> QED BY <1>1, <1>2, PTL DEF Spec, StoreSpec
-----------------------------------------------------------------------------
(* The dispatch handlers, which carry the events of the lifecycle to the broker *)

CallStates ==
  [at: CallStages, copying: BOOLEAN, on: Conns \union {None},
   event: {"ordinary", "oversize", "unmatched"}, swallow: BOOLEAN, copy: BOOLEAN,
   stored: BOOLEAN, copied: BOOLEAN, result: {"none", "ok", "err"}]

\* What is true of a call whose state is d: it holds a connection only once it
\* has got one, and an event that is acknowledged, or that a copy is made of, is
\* on the broker.
CallGood(d) ==
  /\ d.at \in {"idle", "load", "wait", "connect"} => d.on = None
  /\ d.at = "ack" \/ d.copying => d.stored
  /\ d.copy => H.confirms
  /\ d.copied => d.stored
  /\ d.at = "idle" /\ d.result = "ok" /\ H.confirms /\ ~d.swallow => d.stored

CellType ==
  /\ broker \in {"up", "down"}
  /\ stream \in {"none", "narrow", "file", "memory"}
  /\ link \in [Conns -> {"ok", "broken"}]
  /\ cached \in Conns \union {None}

\* The inductive invariant of the handlers.
DispatchInd ==
  /\ kind \in Kinds
  /\ CellType
  /\ lock \in Calls \union {None}
  /\ call \in [Calls -> CallStates]
  /\ \A c \in Calls : Connecting(c) <=> lock = c
  /\ lock # None => cached = None
  /\ \A c \in Calls : CallGood(call[c])

\* Only the handlers that heed the broker's answer publish copies.
LEMMA HandlerKinds ==
  ASSUME kind \in Kinds
  PROVE  /\ H.confirms \in BOOLEAN
         /\ H.copies # {} => H.confirms
<1>1. kind \in {"nats", "kafka", "rabbitmq", "iggy", "redis", "sierradb", "webhook"}
  BY DispatchAssumption, Zenon
<1>2. CASE kind = "nats" BY <1>2 DEF H, Handlers, Nats
<1>3. CASE kind = "kafka" BY <1>3 DEF H, Handlers, Kafka
<1>4. CASE kind = "rabbitmq" BY <1>4 DEF H, Handlers, RabbitMq
<1>5. CASE kind = "iggy" BY <1>5 DEF H, Handlers, Iggy
<1>6. CASE kind = "redis" BY <1>6 DEF H, Handlers, RedisStreams
<1>7. CASE kind = "sierradb" BY <1>7 DEF H, Handlers, SierraDb
<1>8. CASE kind = "webhook" BY <1>8 DEF H, Handlers, Webhook
<1> QED BY <1>1, <1>2, <1>3, <1>4, <1>5, <1>6, <1>7, <1>8

\* The call that connects finds a free connection: it holds none itself, none
\* is cached, and there are as many names as calls.
LEMMA FreeConnection ==
  ASSUME DispatchInd, NEW c \in Calls, lock = c,
         call[c].at = "connect"
  PROVE  \E n \in Conns : n \notin InUse
<1> DEFINE others == Calls \ {c}
           held == {call[d].on : d \in others}
<1>1. IsFiniteSet(Calls) /\ IsFiniteSet(Conns)
  BY DispatchAssumption
<1>2. Cardinality(Conns) >= Cardinality(Calls)
  BY DispatchAssumption
<1>3. IsFiniteSet(others) /\ Cardinality(others) = Cardinality(Calls) - 1
  BY <1>1, FS_RemoveElement
<1>4. [d \in others |-> call[d].on] \in Surjection(others, held) BY DEF Surjection
<1>5. IsFiniteSet(held) /\ Cardinality(held) <= Cardinality(others)
  BY <1>3, <1>4, FS_Surjection
<1>6. Cardinality(Conns) \in Nat /\ Cardinality(Calls) \in Nat /\ Cardinality(held) \in Nat
  BY <1>1, <1>5, FS_CardinalityType
<1>7. None \notin Conns /\ lock # None BY DispatchAssumption, Zenon
<1>8. cached = None /\ call[c].on = None BY <1>7 DEF DispatchInd, CallGood
<1> SUFFICES ASSUME Conns \subseteq InUse PROVE FALSE OBVIOUS
<1>9. Conns \subseteq held BY <1>7, <1>8 DEF InUse
<1>10. Cardinality(Conns) <= Cardinality(held) BY <1>5, <1>9, FS_Subset
<1> HIDE DEF held, others
<1> QED BY <1>2, <1>3, <1>5, <1>6, <1>10

\* A step of one call that keeps the state good and the lock with the call
\* that connects.
LEMMA CallMoves ==
  ASSUME DispatchInd, NEW c \in Calls, NEW v \in CallStates,
         call' = [call EXCEPT ![c] = v], kind' = kind, CellType',
         lock' \in Calls \union {None}, CallGood(v),
         v.at \in {"connect", "provision"} <=> lock' = c,
         \A d \in Calls \ {c} : lock' = d <=> lock = d,
         lock' # None => cached' = None
  PROVE  DispatchInd'
<1>1. call' \in [Calls -> CallStates] BY DEF DispatchInd
<1>2. call'[c] = v /\ \A d \in Calls \ {c} : call'[d] = call[d] BY DEF DispatchInd
<1>3. H' = H BY DEF H, Handlers
<1>4. ASSUME NEW d \in Calls PROVE CallGood(call[d])'
  BY <1>2, <1>3 DEF DispatchInd, CallGood
<1>5. ASSUME NEW d \in Calls PROVE (Connecting(d) <=> lock = d)'
  BY <1>2 DEF DispatchInd, Connecting
<1> QED BY <1>1, <1>4, <1>5 DEF DispatchInd

\* publish returns: Ok only with the event on the broker, or where the broker's
\* answer is not heeded.
LEMMA PublishedMoves ==
  ASSUME DispatchInd, NEW c \in Calls, NEW ok \in BOOLEAN,
         ok /\ H.confirms => call[c].stored,
         PublishEnds(c, ok), kind' = kind, CellType', cached' \in {cached, None},
         \/ call[c].at \notin {"connect", "provision"} /\ lock' = lock
         \/ call[c].at \in {"connect", "provision"} /\ lock' = None
  PROVE  DispatchInd'
<1> DEFINE d == call[c]
           v == IF ok /\ d.copy /\ ~d.copying
                THEN [d EXCEPT !.at = "load", !.on = None, !.copying = TRUE]
                ELSE [d EXCEPT !.at = "idle", !.on = None,
                       !.result = IF ok \/ d.swallow \/ d.copying THEN "ok" ELSE "err"]
<1>1. d \in CallStates /\ CallGood(d) BY DEF DispatchInd
<1>2. v \in CallStates BY <1>1 DEF CallStates, CallStages
<1>3. CallGood(v) BY <1>1, <1>2 DEF CallGood, CallStates, CallStages
<1>4. call' = [call EXCEPT ![c] = v] BY DEF PublishEnds
<1>5. v.at \notin {"connect", "provision"} BY <1>1 DEF CallStates
<1>6. None \notin Calls BY DispatchAssumption, Zenon
<1>7. d.at \in {"connect", "provision"} <=> lock = c BY DEF DispatchInd, Connecting
<1>8. lock' \in Calls \union {None} /\ lock' # c BY <1>6, <1>7 DEF DispatchInd
<1>9. \A e \in Calls \ {c} : lock' = e <=> lock = e BY <1>6, <1>7
<1>10. lock' # None => cached' = None BY DEF DispatchInd
<1> HIDE DEF v
<1> QED BY <1>2, <1>3, <1>4, <1>5, <1>8, <1>9, <1>10, CallMoves

\* Every step of a call keeps the invariant.
LEMMA CallStepInd ==
  ASSUME DispatchInd, NEW c \in Calls, DispatchStep(c)
  PROVE  DispatchInd'
<1> DEFINE d == call[c]
<1>1. d \in CallStates /\ CallGood(d) /\ call[c] = d BY DEF DispatchInd
<1>2. None \notin Calls /\ None \notin Conns /\ c # None BY DispatchAssumption, Zenon
<1>3. d.at \in {"connect", "provision"} <=> lock = c BY DEF DispatchInd, Connecting
<1>4. lock # None => cached = None BY DEF DispatchInd
<1>5. CellType /\ lock \in Calls \union {None} /\ cached \in Conns \union {None}
  BY DEF DispatchInd, CellType
<1>a. ASSUME NEW s \in {"prepare", "send", "wait", "connect"}, NEW n \in Conns \union {None},
             s \in {"wait", "connect"} => n = None
      PROVE  /\ [d EXCEPT !.at = s, !.on = n] \in CallStates
             /\ CallGood([d EXCEPT !.at = s, !.on = n])
  <2>1. [d EXCEPT !.at = s, !.on = n] \in CallStates BY <1>1 DEF CallStates, CallStages
  <2> QED BY <1>a, <1>1, <2>1 DEF CallStates, CallGood
<1>b. ASSUME NEW s \in {"prepare", "send", "wait", "connect"}, Goto(c, s)
      PROVE  call' = [call EXCEPT ![c] = [d EXCEPT !.at = s, !.on = d.on]]
  BY <1>b, <1>1 DEF Goto, CallStates
<1>c. ASSUME NEW n \in Conns, Use(c, n)
      PROVE  call' = [call EXCEPT ![c] = [d EXCEPT !.at = "prepare", !.on = n]]
  BY <1>c, <1>1 DEF Use, CallStates
<1>6. CASE Load(c)
  <2>1. d.at = "load" /\ UNCHANGED <<kind, broker, stream, link, cached, lock>> /\ CellType'
    BY <1>6, <1>5 DEF Load, At, CellType
  <2>2. lock # c BY <1>3, <2>1
  <2>3. CASE Goto(c, "send") \/ Goto(c, "wait")
    <3> PICK s \in {"send", "wait"} : Goto(c, s) BY <2>3
    <3> DEFINE v == [d EXCEPT !.at = s, !.on = d.on]
    <3>1. d.on = None BY <1>1, <2>1 DEF CallGood
    <3>2. v \in CallStates /\ CallGood(v) BY <1>a, <3>1
    <3>3. call' = [call EXCEPT ![c] = v] BY <1>b
    <3>4. v.at = s BY <1>1 DEF CallStates
    <3> HIDE DEF v
    <3> QED BY <1>4, <1>5, <2>1, <2>2, <3>2, <3>3, <3>4, CallMoves
  <2>4. CASE cached # None /\ Use(c, cached)
    <3> DEFINE v == [d EXCEPT !.at = "prepare", !.on = cached]
    <3>1. cached \in Conns BY <2>4, <1>5
    <3>2. v \in CallStates /\ CallGood(v) BY <1>a, <3>1
    <3>3. call' = [call EXCEPT ![c] = v] BY <1>c, <2>4, <3>1
    <3>4. v.at = "prepare" BY <1>1 DEF CallStates
    <3> HIDE DEF v
    <3> QED BY <1>4, <1>5, <2>1, <2>2, <3>2, <3>3, <3>4, CallMoves
  <2> QED BY <1>6, <2>3, <2>4 DEF Load
<1>7. CASE Lock(c)
  <2>1. d.at = "wait" /\ lock = None /\ UNCHANGED <<kind, broker, stream, link, cached>> /\ CellType'
    BY <1>7, <1>5 DEF Lock, At, CellType
  <2>2. CASE cached = None /\ lock' = c /\ Goto(c, "connect")
    <3> DEFINE v == [d EXCEPT !.at = "connect", !.on = d.on]
    <3>1. d.on = None BY <1>1, <2>1 DEF CallGood
    <3>2. v \in CallStates /\ CallGood(v) BY <1>a, <3>1
    <3>3. call' = [call EXCEPT ![c] = v] BY <1>b, <2>2
    <3>4. v.at = "connect" BY <1>1 DEF CallStates
    <3> HIDE DEF v
    <3> QED BY <1>2, <1>5, <2>1, <2>2, <3>2, <3>3, <3>4, CallMoves
  <2>3. CASE cached # None /\ Use(c, cached) /\ UNCHANGED lock
    <3> DEFINE v == [d EXCEPT !.at = "prepare", !.on = cached]
    <3>1. cached \in Conns BY <2>3, <1>5
    <3>2. v \in CallStates /\ CallGood(v) BY <1>a, <3>1
    <3>3. call' = [call EXCEPT ![c] = v] BY <1>c, <2>3, <3>1
    <3>4. v.at = "prepare" BY <1>1 DEF CallStates
    <3> HIDE DEF v
    <3> QED BY <1>2, <1>4, <1>5, <2>1, <2>3, <3>2, <3>3, <3>4, CallMoves
  <2> QED BY <1>7, <2>2, <2>3 DEF Lock
<1>8. CASE ConnectOk(c)
  <2> DEFINE n == CHOOSE m \in Conns : m \notin InUse
  <2>1. d.at = "connect" /\ lock = c /\ UNCHANGED <<kind, broker, stream>>
    BY <1>8, <1>3 DEF ConnectOk, At
  <2>2. n \in Conns BY <2>1, FreeConnection
  <2>3. link' = [link EXCEPT ![n] = "ok"] BY <1>8 DEF ConnectOk
  <2>4. CASE call' = [call EXCEPT ![c].at = "provision", ![c].on = n] /\ UNCHANGED <<cached, lock>>
    <3> HIDE DEF n
    <3> DEFINE v == [d EXCEPT !.at = "provision", !.on = n]
    <3>1. v \in CallStates BY <1>1, <2>2 DEF CallStates, CallStages
    <3>2. CallGood(v) BY <1>1, <3>1, <2>1 DEF CallStates, CallGood
    <3>3. call' = [call EXCEPT ![c] = v] BY <1>1, <2>4 DEF CallStates
    <3>4. v.at = "provision" BY <1>1 DEF CallStates
    <3>5. CellType' BY <1>5, <2>1, <2>2, <2>3, <2>4 DEF CellType
    <3> HIDE DEF v
    <3> QED BY <1>2, <1>4, <1>5, <2>1, <2>4, <3>1, <3>2, <3>3, <3>4, <3>5, CallMoves
  <2>5. CASE Use(c, n) /\ cached' = n /\ lock' = None
    <3> HIDE DEF n
    <3> DEFINE v == [d EXCEPT !.at = "prepare", !.on = n]
    <3>1. v \in CallStates /\ CallGood(v) BY <1>a, <2>2
    <3>2. call' = [call EXCEPT ![c] = v] BY <1>c, <2>2, <2>5
    <3>3. v.at = "prepare" BY <1>1 DEF CallStates
    <3>4. CellType' BY <1>5, <2>1, <2>2, <2>3, <2>5 DEF CellType
    <3> HIDE DEF v
    <3> QED BY <1>2, <2>1, <2>5, <3>1, <3>2, <3>3, <3>4, CallMoves
  <2> HIDE DEF n
  <2> QED BY <1>8, <2>4, <2>5 DEF ConnectOk, n
<1>9. CASE ConnectFails(c)
  <2>1. /\ d.at = "connect" /\ lock' = None /\ PublishEnds(c, FALSE)
        /\ UNCHANGED <<kind, broker, stream, link, cached>> /\ CellType'
    BY <1>9, <1>5 DEF ConnectFails, At, CellType
  <2> QED BY <2>1, PublishedMoves
<1>10. CASE Provision(c)
  <2>1. /\ d.at = "provision" /\ lock = c /\ cached' = d.on /\ lock' = None
        /\ Goto(c, "prepare") /\ UNCHANGED <<kind, broker, link>>
    BY <1>10, <1>3 DEF Provision, At
  <2>2. stream' \in {"none", "narrow", "file", "memory"}
    BY <1>10, <1>5 DEF Provision, CellType
  <2>3. CellType' BY <1>1, <1>5, <2>1, <2>2 DEF CellType, CallStates
  <2> DEFINE v == [d EXCEPT !.at = "prepare", !.on = d.on]
  <2>4. v \in CallStates /\ CallGood(v) BY <1>a, <1>1 DEF CallStates
  <2>5. call' = [call EXCEPT ![c] = v] BY <1>b, <2>1
  <2>6. v.at = "prepare" BY <1>1 DEF CallStates
  <2> HIDE DEF v
  <2> QED BY <1>2, <2>1, <2>3, <2>4, <2>5, <2>6, CallMoves
<1>11. CASE Prepare(c)
  <2>1. /\ d.at = "prepare" /\ Goto(c, "send")
        /\ UNCHANGED <<kind, broker, stream, link, cached, lock>> /\ CellType'
    BY <1>11, <1>5 DEF Prepare, At, CellType
  <2> DEFINE v == [d EXCEPT !.at = "send", !.on = d.on]
  <2>4. v \in CallStates /\ CallGood(v) BY <1>a, <1>1 DEF CallStates
  <2>5. call' = [call EXCEPT ![c] = v] BY <1>b, <2>1
  <2>6. v.at = "send" BY <1>1 DEF CallStates
  <2> HIDE DEF v
  <2> QED BY <1>3, <1>4, <1>5, <2>1, <2>4, <2>5, <2>6, CallMoves
<1>12. CASE PrepareFails(c)
  <2>1. /\ d.at = "prepare" /\ PublishEnds(c, FALSE) /\ cached' \in {cached, None}
        /\ UNCHANGED <<kind, broker, stream, link, lock>>
    BY <1>12 DEF PrepareFails, At
  <2>2. CellType' BY <2>1, <1>5 DEF CellType
  <2> QED BY <2>1, <2>2, PublishedMoves
<1>13. CASE Store(c)
  <2> DEFINE v == [d EXCEPT !.at = "ack", !.stored = d.stored \/ ~d.copying, !.copied = d.copying]
  <2>1. /\ d.at = "send"
        /\ UNCHANGED <<kind, broker, stream, link, cached, lock>> /\ CellType'
    BY <1>13, <1>5 DEF Store, At, CellType
  <2>2. v \in CallStates BY <1>1 DEF CallStates, CallStages
  <2>3. CallGood(v) BY <1>1, <2>2 DEF CallStates, CallGood
  <2>4. call' = [call EXCEPT ![c] = v] BY <1>13, <1>1 DEF Store, CallStates
  <2>5. v.at = "ack" BY <1>1 DEF CallStates
  <2> HIDE DEF v
  <2> QED BY <1>3, <1>4, <1>5, <2>1, <2>2, <2>3, <2>4, <2>5, CallMoves
<1>14. CASE DeliverFails(c) \/ ReplyLost(c)
  <2>1. /\ d.at \in {"send", "ack"} /\ PublishEnds(c, FALSE)
        /\ UNCHANGED <<kind, broker, stream, link, cached, lock>> /\ CellType'
    BY <1>14, <1>5 DEF DeliverFails, ReplyLost, At, CellType
  <2> QED BY <2>1, PublishedMoves
<1>15. CASE Reply(c)
  <2>1. /\ d.at = "ack" /\ PublishEnds(c, TRUE)
        /\ UNCHANGED <<kind, broker, stream, link, cached, lock>> /\ CellType'
    BY <1>15, <1>5 DEF Reply, At, CellType
  <2>2. d.stored BY <1>1, <2>1 DEF CallGood
  <2> QED BY <2>1, <2>2, PublishedMoves
<1>16. CASE Unconfirmed(c)
  <2>1. /\ d.at = "send" /\ ~H.confirms /\ PublishEnds(c, Reaches(c))
        /\ UNCHANGED <<kind, broker, stream, link, cached, lock>> /\ CellType'
    BY <1>16, <1>5 DEF Unconfirmed, At, CellType
  <2>2. Reaches(c) \in BOOLEAN BY DEF Reaches
  <2> QED BY <2>1, <2>2, PublishedMoves
<1> QED BY <1>6, <1>7, <1>8, <1>9, <1>10, <1>11, <1>12, <1>13, <1>14, <1>15, <1>16
       DEF DispatchStep

\* The initial state satisfies the invariant.
LEMMA DispatchIndInit ==
  ASSUME DispatchInit
  PROVE  DispatchInd
<1>1. None \notin Calls BY DispatchAssumption, Zenon
<1>2. Rest \in CallStates BY DEF Rest, CallStates, CallStages
<1>3. CallGood(Rest) BY DEF Rest, CallGood
<1>4. CellType BY DEF DispatchInit, CellType
<1>5. \A c \in Calls : call[c] = Rest BY DEF DispatchInit
<1>6. call \in [Calls -> CallStates] BY <1>2 DEF DispatchInit
<1>7. \A c \in Calls : ~Connecting(c) /\ lock # c /\ CallGood(call[c])
  BY <1>1, <1>3, <1>5 DEF DispatchInit, Connecting, Rest
<1> QED BY <1>4, <1>6, <1>7 DEF DispatchInd, DispatchInit

\* Every step keeps the invariant.
LEMMA DispatchIndNext ==
  ASSUME DispatchInd, [DispatchNext]_dispatchVars
  PROVE  DispatchInd'
<1>1. ASSUME NEW c \in Calls, DispatchStep(c) PROVE DispatchInd' BY <1>1, CallStepInd
<1>2. ASSUME NEW c \in Calls, NEW op \in Ops, NEW ev \in EventKinds,
             Dispatch(c, op, ev)
      PROVE  DispatchInd'
  <2> DEFINE v == [Rest EXCEPT !.at = "load", !.event = ev,
                     !.swallow = op \in H.swallows, !.copy = op \in H.copies]
  <2>1. ev \in {"ordinary", "oversize", "unmatched"} BY DEF EventKinds
  <2>2. v \in CallStates
    <3> DEFINE a == op \in H.swallows
               b == op \in H.copies
    <3>1. a \in BOOLEAN /\ b \in BOOLEAN OBVIOUS
    <3> HIDE DEF a, b
    <3>2. [Rest EXCEPT !.at = "load", !.event = ev, !.swallow = a, !.copy = b]
            \in CallStates
      BY <2>1, <3>1 DEF Rest, CallStates, CallStages
    <3> QED BY <3>2 DEF a, b
  <2>3. v.at = "load" /\ v.on = None /\ ~v.copying /\ ~v.copied /\ (v.copy => H.copies # {})
    BY DEF Rest
  <2>4. v.copy => H.confirms BY <2>3, HandlerKinds DEF DispatchInd
  <2>5. CallGood(v) BY <2>3, <2>4 DEF CallGood
  <2>6. /\ call[c].at = "idle" /\ call' = [call EXCEPT ![c] = v]
        /\ UNCHANGED <<kind, broker, stream, link, cached, lock>>
    BY <1>2 DEF Dispatch, At
  <2>7. CellType' BY <2>6 DEF DispatchInd, CellType
  <2>8. lock # c BY <2>6 DEF DispatchInd, Connecting
  <2>9. lock \in Calls \union {None} /\ (lock # None => cached = None) BY DEF DispatchInd
  <2> HIDE DEF v
  <2> QED BY <2>2, <2>3, <2>5, <2>6, <2>7, <2>8, <2>9, CallMoves
<1>3. CASE BrokerDown \/ BrokerUp \/ \E n \in Conns : Relink(n)
  <2>1. CellType' /\ UNCHANGED <<kind, lock, cached, call>>
    BY <1>3 DEF BrokerDown, BrokerUp, Relink, DispatchInd, CellType
  <2> QED BY <2>1 DEF DispatchInd, CallGood, Connecting, H, Handlers
<1>4. CASE UNCHANGED dispatchVars
  BY <1>4 DEF dispatchVars, DispatchInd, CellType, CallGood, Connecting, H,
              Handlers
<1> QED BY <1>1, <1>2, <1>3, <1>4 DEF DispatchNext

\* At most one call connects at a time, under the lock and only while nothing is
\* cached, and no call returns Ok without its event on the broker, for any number
\* of calls, however the broker fails and comes back; except over RabbitMQ, which
\* has no confirms, and in the calls that swallow their errors: the responses and
\* terminal events of the webhook, the responses of NATS and of Iggy.
THEOREM DispatchersHold == DispatchSpec => []DispatchInv
<1>1. DispatchInit => DispatchInd BY DispatchIndInit
<1>2. DispatchInd /\ [DispatchNext]_dispatchVars => DispatchInd' BY DispatchIndNext
<1>3. DispatchInd => DispatchInv
  <2> SUFFICES ASSUME DispatchInd PROVE DispatchInv OBVIOUS
  <2>1. DispatchTypeOK BY DEF DispatchInd, DispatchTypeOK, CellType, CallStates
  <2>2. None \notin Calls BY DispatchAssumption, Zenon
  <2>3. SingleFlight BY <2>2 DEF DispatchInd, SingleFlight
  <2>4. OkMeansStored BY DEF DispatchInd, OkMeansStored, CallGood, At
  <2> QED BY <2>1, <2>3, <2>4 DEF DispatchInv
<1> QED BY <1>1, <1>2, <1>3, PTL DEF DispatchSpec
=============================================================================
