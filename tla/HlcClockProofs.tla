---------------------------- MODULE HlcClockProofs ----------------------------
(***************************************************************************)
(* Proofs about HlcClock, for any number of threads and calls, any wall    *)
(* clock, any remote timestamps and any width of the logical counter.      *)
(***************************************************************************)
EXTENDS HlcClock, TLAPS

\* Less is transitive, also through LessEq on its left, on all stamps.
LEMMA LessTransitive ==
  ASSUME NEW a \in Stamp, NEW b \in Stamp, NEW c \in Stamp, LessEq(a, b), Less(b, c)
  PROVE  Less(a, c)
BY DEF Stamp, LessEq, Less

\* A packed word is a stamp.
LEMMA PackedIsStamp == Packed \subseteq Stamp
BY ClockAssumption DEF Packed, Stamp

\* After yields a packed word that is later than what it is given, whatever the
\* width of the counter.
LEMMA AfterIsLater ==
  ASSUME NEW p \in Nat, NEW l \in Nat
  PROVE  /\ After(p, l) \in Packed
         /\ Less(Time(p, l), After(p, l))
BY ClockAssumption DEF After, Time, Packed, Less

\* Each of the two loop bodies proposes a packed word later than the one it
\* loaded, and update's also later than the remote stamp.
LEMMA NextLocalIsLater ==
  ASSUME NEW cur \in Packed, NEW phys \in Nat
  PROVE  NextLocal(cur, phys) \in Packed /\ Less(cur, NextLocal(cur, phys))
<1>1. CASE phys > cur.physical
  BY <1>1, ClockAssumption DEF NextLocal, Packed, Time, Less
<1>2. CASE ~(phys > cur.physical)
  BY <1>2, ClockAssumption DEF NextLocal, After, Packed, Time, Less
<1> QED BY <1>1, <1>2

\* As above, for update.
LEMMA NextMergedIsLater ==
  ASSUME NEW cur \in Packed, NEW phys \in Nat, NEW rem \in Stamp
  PROVE  /\ NextMerged(cur, phys, rem) \in Packed
         /\ Less(cur, NextMerged(cur, phys, rem))
         /\ Less(rem, NextMerged(cur, phys, rem))
<1> DEFINE p == Max2(Max2(phys, cur.physical), rem.physical)
<1>1. /\ cur.physical \in Nat /\ cur.logical \in 0..MaxLogical
      /\ rem.physical \in Nat /\ rem.logical \in Nat
  BY DEF Packed, Stamp
<1>2. /\ p \in Nat /\ p >= phys /\ p >= cur.physical /\ p >= rem.physical
  BY <1>1 DEF Max2
<1>3. CASE p = cur.physical /\ p = rem.physical
  BY <1>1, <1>3, ClockAssumption DEF NextMerged, After, Max2, Packed, Time, Less
<1>4. CASE p = cur.physical /\ p # rem.physical
  BY <1>1, <1>2, <1>4, ClockAssumption DEF NextMerged, After, Packed, Time, Less
<1>5. CASE p # cur.physical /\ p = rem.physical
  BY <1>1, <1>2, <1>5, ClockAssumption DEF NextMerged, After, Packed, Time, Less
<1>6. CASE p # cur.physical /\ p # rem.physical
  BY <1>1, <1>2, <1>6, ClockAssumption DEF NextMerged, Packed, Time, Less
<1> QED BY <1>3, <1>4, <1>5, <1>6

\* What a thread in the loop proposes is a packed word later than the one it
\* loaded.
LEMMA ProposalIsLater ==
  ASSUME TypeOK, NEW t \in Threads
  PROVE  Proposal(t) \in Packed /\ Less(current[t], Proposal(t))
<1>1. current[t] \in Packed /\ seen[t] \in Nat /\ remote[t] \in Stamp
  BY DEF TypeOK
<1> QED BY <1>1, NextLocalIsLater, NextMergedIsLater DEF Proposal

\* Initially nothing is issued and every thread is idle.
LEMMA InitClockInv == Init => ClockInv
<1> SUFFICES ASSUME Init PROVE ClockInv
  OBVIOUS
<1>1. wall \in Nat /\ peak = wall /\ issued = <<>>
  BY ClockAssumption DEF Init
<1>2. Time(wall, 0) \in Packed /\ Time(0, 0) \in Packed /\ Time(0, 0) \in Stamp
  BY <1>1, ClockAssumption DEF Time, Packed, Stamp
<1>3. TypeOK
  BY <1>1, <1>2 DEF Init, TypeOK
<1>4. Len(issued) = 0
  BY <1>1
<1>5. StrictlyIncreasing /\ IssuedBelowState
  BY <1>4 DEF StrictlyIncreasing, IssuedBelowState, Init
<1>6. ReadsBelowPeak
  BY <1>1, ClockAssumption DEF ReadsBelowPeak, Init, Time
<1> QED BY <1>3, <1>5, <1>6 DEF ClockInv

\* Every step preserves the invariant.  A successful exchange issues a stamp
\* later than the state it replaces, hence than everything issued before.
LEMMA StepClockInv == ClockInv /\ [Next]_vars => ClockInv'
<1> SUFFICES ASSUME ClockInv, [Next]_vars PROVE ClockInv'
  OBVIOUS
<1> USE DEF ClockInv
<1>1. CASE SetWall
  <2>1. /\ wall' \in Nat /\ peak' \in Nat /\ peak <= peak' /\ wall' <= peak'
    BY <1>1, ClockAssumption DEF SetWall, TypeOK, Max2
  <2>2. TypeOK'
    BY <1>1, <2>1 DEF SetWall, TypeOK
  <2>3. StrictlyIncreasing' /\ IssuedBelowState'
    BY <1>1 DEF SetWall, StrictlyIncreasing, IssuedBelowState
  <2>4. ReadsBelowPeak'
    <3> SUFFICES ASSUME NEW t \in Threads
                 PROVE  seen[t] <= peak' /\ remote[t].physical <= peak' + MaxDrift
      BY <1>1, <2>1 DEF SetWall, ReadsBelowPeak
    <3>1. seen[t] \in Nat /\ remote[t].physical \in Nat /\ peak \in Nat
      BY DEF TypeOK, Stamp
    <3> QED BY <2>1, <3>1, ClockAssumption DEF ReadsBelowPeak
  <2> QED BY <2>2, <2>3, <2>4
<1>2. ASSUME NEW t \in Threads, CallNow(t) PROVE ClockInv'
  <2>1. TypeOK'
    BY <1>2 DEF CallNow, TypeOK
  <2>2. StrictlyIncreasing' /\ IssuedBelowState'
    BY <1>2 DEF CallNow, StrictlyIncreasing, IssuedBelowState, TypeOK
  <2>3. ReadsBelowPeak'
    BY <1>2 DEF CallNow, ReadsBelowPeak, TypeOK
  <2> QED BY <2>1, <2>2, <2>3
<1>3. ASSUME NEW t \in Threads, NEW rem \in Remotes, CallUpdate(t, rem) PROVE ClockInv'
  <2> DEFINE c == Capped(rem, wall)
  <2>1. c \in Stamp /\ c.physical <= wall + MaxDrift
    BY ClockAssumption DEF Capped, Stamp, Time, TypeOK
  <2>2. c.physical <= peak + MaxDrift
    BY <2>1, ClockAssumption DEF ReadsBelowPeak, TypeOK, Stamp
  <2>3. remote' = [remote EXCEPT ![t] = c]
    BY <1>3 DEF CallUpdate
  <2> HIDE DEF c
  <2>4. TypeOK'
    BY <1>3, <2>1, <2>3 DEF CallUpdate, TypeOK
  <2>5. StrictlyIncreasing' /\ IssuedBelowState'
    BY <1>3 DEF CallUpdate, StrictlyIncreasing, IssuedBelowState, TypeOK
  <2>6. ReadsBelowPeak'
    BY <1>3, <2>2, <2>3 DEF CallUpdate, ReadsBelowPeak, TypeOK
  <2> QED BY <2>4, <2>5, <2>6
<1>4. ASSUME NEW t \in Threads, Load(t) PROVE ClockInv'
  <2>1. TypeOK'
    BY <1>4 DEF Load, TypeOK
  <2>2. StrictlyIncreasing' /\ IssuedBelowState'
    BY <1>4 DEF Load, StrictlyIncreasing, IssuedBelowState, TypeOK, LessEq
  <2>3. ReadsBelowPeak'
    BY <1>4 DEF Load, ReadsBelowPeak
  <2> QED BY <2>1, <2>2, <2>3
<1>5. ASSUME NEW t \in Threads, CasOk(t) PROVE ClockInv'
  <2> DEFINE new == Proposal(t)
  <2>1. new \in Packed /\ Less(state, new)
    BY <1>5, ProposalIsLater DEF CasOk
  <2>2. state' = new /\ issued' = Append(issued, new)
    BY <1>5 DEF CasOk
  <2>3. state \in Stamp /\ new \in Stamp
    BY <2>1, PackedIsStamp DEF TypeOK
  <2> HIDE DEF new
  <2>4. TypeOK'
    BY <1>5, <2>1, <2>2 DEF CasOk, TypeOK
  <2>5. issued \in Seq(Packed) /\ Len(issued) \in Nat /\ Len(issued') = Len(issued) + 1
        /\ issued'[Len(issued) + 1] = new
        /\ \A i \in 1..Len(issued) : issued'[i] = issued[i] /\ issued[i] \in Stamp
    BY <2>1, <2>2, PackedIsStamp DEF TypeOK
  <2>6. \A i \in 1..Len(issued) : Less(issued[i], new)
    BY <2>1, <2>3, <2>5, LessTransitive DEF IssuedBelowState
  <2>7. StrictlyIncreasing'
    <3> SUFFICES ASSUME NEW i \in 1..Len(issued'), NEW j \in 1..Len(issued'), i < j
                 PROVE  Less(issued'[i], issued'[j])
      BY DEF StrictlyIncreasing
    <3>1. CASE j = Len(issued) + 1
      BY <3>1, <2>5, <2>6
    <3>2. CASE j # Len(issued) + 1
      BY <3>2, <2>5 DEF StrictlyIncreasing
    <3> QED BY <3>1, <3>2
  <2>8. IssuedBelowState'
    <3>1. \A i \in 1..Len(issued') : LessEq(issued'[i], state')
      BY <2>2, <2>5, <2>6 DEF LessEq
    <3>2. ASSUME NEW s \in Threads, pc'[s] = "cas" PROVE LessEq(current'[s], state')
      <4>1. pc[s] = "cas" /\ current'[s] = current[s] /\ current[s] \in Stamp
        BY <1>5, <3>2, PackedIsStamp DEF CasOk, TypeOK
      <4>2. LessEq(current[s], state)
        BY <4>1 DEF IssuedBelowState
      <4>3. Less(current[s], new)
        BY <4>1, <4>2, <2>1, <2>3, LessTransitive
      <4> QED BY <4>1, <4>3, <2>2 DEF LessEq
    <3> QED BY <3>1, <3>2 DEF IssuedBelowState
  <2>9. ReadsBelowPeak'
    BY <1>5 DEF CasOk, ReadsBelowPeak
  <2> QED BY <2>4, <2>7, <2>8, <2>9
<1>6. ASSUME NEW t \in Threads, CasFails(t) PROVE ClockInv'
  <2>1. TypeOK'
    BY <1>6 DEF CasFails, TypeOK
  <2>2. StrictlyIncreasing' /\ IssuedBelowState'
    BY <1>6 DEF CasFails, StrictlyIncreasing, IssuedBelowState, TypeOK, LessEq
  <2>3. ReadsBelowPeak'
    BY <1>6 DEF CasFails, ReadsBelowPeak
  <2> QED BY <2>1, <2>2, <2>3
<1>7. CASE UNCHANGED vars
  BY <1>7 DEF vars, TypeOK, StrictlyIncreasing, IssuedBelowState, ReadsBelowPeak
<1> QED BY <1>1, <1>2, <1>3, <1>4, <1>5, <1>6, <1>7 DEF Next

\* The clock's inductive invariant holds of every behaviour of now() and
\* update(), whatever the threads, the wall clock and the remote stamps.
THEOREM ClockInvHolds == Spec => []ClockInv
BY InitClockInv, StepClockInv, PTL DEF Spec

\* No two calls of now() or update() return the same timestamp, and they are
\* issued in strictly increasing order.
THEOREM ClockOrder == Spec => []StrictlyIncreasing
<1>1. ClockInv => StrictlyIncreasing
  BY DEF ClockInv
<1> QED BY <1>1, ClockInvHolds, PTL
-----------------------------------------------------------------------------
(* The drift bound *)

\* Multiplication by a natural number is monotonic, and distributes over + 1.
LEMMA MultiplicationMonotonic ==
  ASSUME NEW a \in Nat, NEW b \in Nat, NEW m \in Nat, a <= b
  PROVE  a * m \in Nat /\ a * m <= b * m /\ (a + 1) * m = a * m + m
BY Z3

\* The word of a packed stamp is a natural number.
LEMMA WordType ==
  ASSUME NEW s \in Packed
  PROVE  Word(s) \in Nat
<1>1. s.physical \in Nat /\ s.logical \in Nat /\ MaxLogical + 1 \in Nat
  BY ClockAssumption DEF Packed
<1>2. s.physical * (MaxLogical + 1) \in Nat
  BY <1>1, MultiplicationMonotonic
<1> QED BY <1>1, <1>2 DEF Word

\* After is one unit of the packed word when the counter is within its 16 bits,
\* and never more than the start of the next millisecond.
LEMMA AfterWord ==
  ASSUME NEW p \in Nat, NEW l \in Nat
  PROVE  /\ l <= MaxLogical => Word(After(p, l)) = p * (MaxLogical + 1) + l + 1
         /\ Word(After(p, l)) <= (p + 1) * (MaxLogical + 1)
<1> DEFINE m == MaxLogical + 1
<1>1. m \in Nat /\ MaxLogical \in Nat
  BY ClockAssumption
<1>2. p * m \in Nat /\ (p + 1) * m = p * m + m
  BY <1>1, MultiplicationMonotonic
<1>3. CASE l + 1 <= MaxLogical
  <2>1. Word(After(p, l)) = p * m + (l + 1)
    BY <1>3 DEF After, Word, Time
  <2> QED BY <1>1, <1>2, <1>3, <2>1
<1>4. CASE ~(l + 1 <= MaxLogical)
  <2>1. Word(After(p, l)) = (p + 1) * m + 0
    BY <1>4 DEF After, Word, Time
  <2> HIDE DEF m
  <2>2. m = MaxLogical + 1
    BY DEF m
  <2> QED BY <1>1, <1>2, <1>4, <2>1, <2>2
<1> QED BY <1>3, <1>4

\* What a call proposes is within one unit of what it loaded, or no later than
\* the end of the latest millisecond it can have read.
LEMMA ProposalWord ==
  ASSUME ClockInv, NEW t \in Threads
  PROVE  \/ Word(Proposal(t)) = Word(current[t]) + 1
         \/ Word(Proposal(t)) <= (peak + MaxDrift + 1) * (MaxLogical + 1)
<1> DEFINE cur == current[t]
           phys == seen[t]
           rem == remote[t]
           top == peak + MaxDrift
           m == MaxLogical + 1
<1>1. /\ cur.physical \in Nat /\ cur.logical \in Nat /\ cur.logical <= MaxLogical
      /\ phys \in Nat /\ rem.physical \in Nat /\ rem.logical \in Nat
      /\ peak \in Nat /\ MaxDrift \in Nat /\ MaxLogical \in Nat
  BY ClockAssumption DEF ClockInv, TypeOK, Packed, Stamp
<1>2. phys <= top /\ rem.physical <= top
  BY <1>1 DEF ClockInv, ReadsBelowPeak
<1>3. top \in Nat /\ m \in Nat
  BY <1>1
<1>4. ASSUME NEW p \in Nat, p <= top
      PROVE  /\ Word(Time(p, 0)) <= (top + 1) * m
             /\ \A l \in Nat : Word(After(p, l)) <= (top + 1) * m
  <2>1. (p + 1) * m <= (top + 1) * m /\ (p + 1) * m = p * m + m /\ p * m \in Nat
    BY <1>3, <1>4, MultiplicationMonotonic
  <2>2. Word(Time(p, 0)) = p * m + 0
    BY DEF Word, Time
  <2>3. ASSUME NEW l \in Nat PROVE Word(After(p, l)) <= (p + 1) * m
    BY AfterWord
  <2>4. ASSUME NEW l \in Nat PROVE Word(After(p, l)) \in Nat
    BY AfterIsLater, WordType
  <2> HIDE DEF m, top
  <2>5. (p + 1) * m \in Nat /\ (top + 1) * m \in Nat
    BY <1>3
  <2> QED BY <1>3, <2>1, <2>2, <2>3, <2>4, <2>5
<1>5. Word(After(cur.physical, cur.logical)) = Word(cur) + 1
  <2>1. Word(After(cur.physical, cur.logical)) = cur.physical * m + cur.logical + 1
    BY <1>1, AfterWord
  <2> QED BY <2>1 DEF Word
<1>6. CASE op[t] = "now"
  <2>1. CASE phys > cur.physical
    BY <1>1, <1>2, <1>4, <1>6, <2>1 DEF Proposal, NextLocal
  <2>2. CASE ~(phys > cur.physical)
    BY <1>5, <1>6, <2>2 DEF Proposal, NextLocal
  <2> QED BY <2>1, <2>2
<1>7. CASE op[t] # "now"
  <2> DEFINE p == Max2(Max2(phys, cur.physical), rem.physical)
  <2>1. Proposal(t) = NextMerged(cur, phys, rem)
    BY <1>7 DEF Proposal
  <2>2. p \in Nat /\ p \in {phys, cur.physical, rem.physical}
    BY <1>1 DEF Max2
  <2>3. CASE p = rem.physical
    <3>1. PICK l \in Nat : p # cur.physical => NextMerged(cur, phys, rem) = After(p, l)
      BY <1>1, <2>3 DEF NextMerged
    <3>2. PICK k \in Nat : p = cur.physical => NextMerged(cur, phys, rem) = After(p, k)
      BY <1>1, <2>3 DEF NextMerged, Max2
    <3> QED BY <1>2, <1>4, <2>1, <2>2, <2>3, <3>1, <3>2
  <2>4. CASE p # rem.physical /\ p = cur.physical
    BY <1>5, <2>1, <2>4 DEF NextMerged
  <2>5. CASE p # rem.physical /\ p # cur.physical
    <3>1. p = phys /\ NextMerged(cur, phys, rem) = Time(p, 0)
      BY <2>2, <2>5 DEF NextMerged
    <3> QED BY <1>2, <1>4, <2>1, <2>2, <3>1
  <2> QED BY <2>3, <2>4, <2>5
<1> QED BY <1>6, <1>7

\* Every step keeps the bound: only an exchange changes the state, and it also
\* issues a timestamp.
LEMMA StepDriftBound == ClockInv /\ DriftBound /\ [Next]_vars => DriftBound'
<1> SUFFICES ASSUME ClockInv, DriftBound, [Next]_vars PROVE DriftBound'
  OBVIOUS
<1> DEFINE m == MaxLogical + 1
           B(q) == (q + MaxDrift + 1) * m
<1>1. peak \in Nat /\ MaxDrift \in Nat /\ m \in Nat /\ Len(issued) \in Nat
  BY ClockAssumption DEF ClockInv, TypeOK
<1>2. Word(state) \in Nat
  BY WordType DEF ClockInv, TypeOK
<1>3. Word(state) <= B(peak) + Len(issued)
  BY DEF DriftBound
<1>4. CASE SetWall
  <2>1. peak' \in Nat /\ peak <= peak' /\ state' = state /\ issued' = issued
    BY <1>4, ClockAssumption DEF SetWall, Max2, ClockInv, TypeOK
  <2>2. B(peak) <= B(peak') /\ B(peak) \in Nat /\ B(peak') \in Nat
    BY <1>1, <2>1, MultiplicationMonotonic
  <2>3. Word(state) <= B(peak') + Len(issued)
    <3> HIDE DEF B
    <3> QED BY <1>1, <1>2, <1>3, <2>2
  <2> QED BY <2>1, <2>3 DEF DriftBound
<1>5. ASSUME NEW t \in Threads, CasOk(t) PROVE DriftBound'
  <2> DEFINE new == Proposal(t)
  <2>1. state' = new /\ issued' = Append(issued, new) /\ peak' = peak /\ current[t] = state
    BY <1>5 DEF CasOk
  <2>2. new \in Packed
    BY ProposalIsLater DEF ClockInv
  <2>3. Len(issued') = Len(issued) + 1
    BY <2>1, <2>2 DEF ClockInv, TypeOK
  <2>4. Word(new) = Word(state) + 1 \/ Word(new) <= B(peak)
    BY <2>1, ProposalWord
  <2>5. Word(new) \in Nat /\ B(peak) \in Nat
    BY <1>1, <2>2, WordType, MultiplicationMonotonic
  <2>6. Word(new) <= B(peak) + (Len(issued) + 1)
    <3> HIDE DEF B, new
    <3> QED BY <1>1, <1>2, <1>3, <2>4, <2>5
  <2> QED BY <2>1, <2>3, <2>6 DEF DriftBound
<1>6. CASE UNCHANGED <<peak, state, issued>>
  BY <1>6 DEF DriftBound
<1>7. ASSUME NEW t \in Threads,
             CallNow(t) \/ (\E rem \in Remotes : CallUpdate(t, rem)) \/ Load(t) \/ CasFails(t)
      PROVE  UNCHANGED <<peak, state, issued>>
  BY <1>7 DEF CallNow, CallUpdate, Load, CasFails
<1>8. CASE UNCHANGED vars
  BY <1>6, <1>8 DEF vars
<1> QED BY <1>4, <1>5, <1>6, <1>7, <1>8 DEF Next

\* However wrong the remote timestamps given to update() are, the clock stays
\* within MAX_ALLOWED_CLOCK_DRIFT_MS and a tick of the latest time this machine
\* has shown, plus one unit per timestamp issued.
THEOREM ClockDrift == Spec => []DriftBound
<1>1. Init => DriftBound
  <2> SUFFICES ASSUME Init PROVE DriftBound
    OBVIOUS
  <2> DEFINE m == MaxLogical + 1
  <2>1. wall \in Nat /\ MaxDrift \in Nat /\ m \in Nat
    BY ClockAssumption DEF Init
  <2>2. wall * m <= (wall + MaxDrift + 1) * m /\ wall * m \in Nat
    BY <2>1, MultiplicationMonotonic
  <2>3. state = Time(wall, 0) /\ peak = wall /\ Len(issued) = 0
    BY DEF Init
  <2>4. Word(state) = wall * m + 0
    BY <2>3 DEF Word, Time
  <2>5. (wall + MaxDrift + 1) * m \in Nat
    BY <2>1
  <2> HIDE DEF m
  <2>6. wall * m + 0 <= (wall + MaxDrift + 1) * m + 0
    BY <2>2, <2>5
  <2> QED BY <2>3, <2>4, <2>6 DEF DriftBound, m
<1> QED BY <1>1, StepDriftBound, ClockInvHolds, PTL DEF Spec

\* update() returns a stamp later than the (capped) remote stamp it was given:
\* the effect is ordered after the remote cause.
THEOREM ClockCausality == Spec => UpdateIsAfterRemote
<1> DEFINE A == \A t \in Threads :
         pc[t] = "cas" /\ op[t] = "update" /\ pc'[t] = "idle" => Less(remote[t], state')
<1>1. ClockInv /\ [Next]_vars => [A]_vars
  <2> SUFFICES ASSUME ClockInv, Next, NEW t \in Threads,
                      pc[t] = "cas", op[t] = "update", pc'[t] = "idle"
               PROVE  Less(remote[t], state')
    OBVIOUS
  <2>1. CasOk(t)
    BY DEF Next, SetWall, CallNow, CallUpdate, Load, CasOk, CasFails, ClockInv, TypeOK
  <2>2. state' = NextMerged(current[t], seen[t], remote[t])
    BY <2>1 DEF CasOk, Proposal
  <2>3. current[t] \in Packed /\ seen[t] \in Nat /\ remote[t] \in Stamp
    BY DEF ClockInv, TypeOK
  <2> QED BY <2>2, <2>3, NextMergedIsLater
<1> QED BY <1>1, ClockInvHolds, PTL DEF Spec, UpdateIsAfterRemote
=============================================================================
