------------------------ MODULE LeaderElectionProofs ------------------------
(* Proofs about LeaderElection, for every set of pods and all durations    *)
(* that satisfy DurationsAssumption.                                       *)
EXTENDS LeaderElection, TLAPS

USE DEF leaseVars, loopVars, electorVars, flagVars, Identity

(* The variables keep their types.                                         *)
LEMMA TypeInvariant == Spec => []TypeOK
<1> USE DurationsAssumption DEF TypeOK, Phase
<1>1. Init => TypeOK
  BY DEF Init
<1>2. TypeOK /\ [Next]_vars => TypeOK'
  <2> SUFFICES ASSUME TypeOK, [Next]_vars
               PROVE  TypeOK'
    OBVIOUS
  <2>1. CASE Tick
    <3>1. leaseAge' \in 0 .. LeaseDuration
      BY <2>1 DEF Tick
    <3>2. timer' \in [Pod -> 0 .. LeaseDuration]
      BY <2>1 DEF Tick, Due, TimedPhase
    <3> QED  BY <2>1, <3>1, <3>2 DEF Tick
  <2>2. ASSUME NEW i \in Pod, PodStep(i)
        PROVE  TypeOK'
    <3>1. CASE StartProvider(i)  BY <3>1 DEF StartProvider, Enter
    <3>2. CASE Acquire(i)  BY <3>2 DEF Acquire, Enter, WriteLease
    <3>3. CASE LoseAnswer(i)  BY <3>3 DEF LoseAnswer, Enter
    <3>4. CASE StartLeading(i)
      <4>1. TooLate(i) \in BOOLEAN
        BY DEF TooLate
      <4>2. late' \in [Pod -> BOOLEAN]
        BY <3>4, <4>1, Zenon DEF StartLeading
      <4> QED  BY <3>4, <4>2 DEF StartLeading, Enter
    <3>5. CASE BeginRenew(i)  BY <3>5 DEF BeginRenew, Enter
    <3>6. CASE Renew(i)  BY <3>6 DEF Renew, WriteLease
    <3>7. CASE RenewSucceeded(i)  BY <3>7 DEF RenewSucceeded, Enter, EndLoop
    <3>8. CASE GiveUp(i)  BY <3>8 DEF GiveUp, Enter, EndLoop
    <3>9. CASE StopOnCancel(i)  BY <3>9 DEF StopOnCancel, Enter, EndLoop
    <3>10. CASE Release(i)  BY <3>10 DEF Release
    <3>11. CASE ReleaseReturned(i)  BY <3>11 DEF ReleaseReturned, Enter
    <3>12. CASE OnStartedLeading(i)  BY <3>12 DEF OnStartedLeading
    <3>13. CASE OnStoppedLeading(i)  BY <3>13 DEF OnStoppedLeading, Enter
    <3>14. CASE Exit(i)  BY <3>14 DEF Exit, EndProcess, Enter, EndLoop
    <3>15. CASE Cancel(i)  BY <3>15 DEF Cancel
    <3>16. CASE MainReturn(i)  BY <3>16 DEF MainReturn, EndProcess, Enter, EndLoop
    <3>17. CASE Crash(i)  BY <3>17 DEF Crash, EndProcess, Enter, EndLoop
    <3> QED
      BY <2>2, <3>1, <3>2, <3>3, <3>4, <3>5, <3>6, <3>7, <3>8, <3>9, <3>10,
         <3>11, <3>12, <3>13, <3>14, <3>15, <3>16, <3>17
         DEF PodStep, ElectorStep, ProcessEnds
  <2>3. CASE UNCHANGED vars
    BY <2>3 DEF vars
  <2> QED  BY <2>1, <2>2, <2>3 DEF Next
<1> QED  BY <1>1, <1>2, PTL DEF Spec

-----------------------------------------------------------------------------
(* A pod in office that is no latecomer holds a lease younger than         *)
(* LeaseDuration.                                                          *)
LEMMA RenewersHoldLease ==
  ASSUME TypeOK, LeaseInv, NEW k \in Renewers
  PROVE  holder = k /\ leaseAge < LeaseDuration
BY DurationsAssumption
   DEF LeaseInv, SleepInv, RenewInv, LoopInv, Renewers, Renewing, TypeOK

(* Such a lease cannot be taken over by another pod.                       *)
LEMMA HeldIsNotTakeable ==
  ASSUME TypeOK, LeaseInv, NEW i \in Pod, NEW k \in Renewers, i # k
  PROVE  ~Takeable(i)
<1>1. k \in Pod
  BY DEF Renewers
<1> QED
  BY <1>1, RenewersHoldLease, DurationsAssumption, PodAssumption
     DEF Takeable, TypeOK

(* The step of LeaseInv.  The lease changes hands only when nobody counts  *)
(* on it, and time passes only while no deadline is due.                   *)
LEMMA LeaseInvStep ==
  ASSUME TypeOK, LeaseInv, [Next]_vars
  PROVE  LeaseInv'
<1> USE DurationsAssumption
    DEF LeaseInv, SleepInv, RenewInv, LoopInv, TypeOK
<1>1. CASE Tick
  BY <1>1 DEF Tick, Due, TimedPhase
<1>2. ASSUME NEW i \in Pod, PodStep(i)
      PROVE  LeaseInv'
  <2>1. CASE Acquire(i)
    <3>1. \A k \in Pod \ {i} : k \notin Renewers
      BY <2>1, HeldIsNotTakeable DEF Acquire
    <3>2. \A k \in Pod \ {i} : ~Renewing(k) \/ late[k]
      BY <3>1 DEF Renewers
    <3>3. \A k \in Pod \ {i} : SleepInv(k)' /\ RenewInv(k)' /\ LoopInv(k)'
      BY <2>1, <3>2 DEF Acquire, Enter, WriteLease, Renewing
    <3>4. SleepInv(i)' /\ RenewInv(i)' /\ LoopInv(i)'
      BY <2>1 DEF Acquire, Enter, WriteLease
    <3> QED  BY <3>3, <3>4
  <2>2. CASE Renew(i)
    <3>1. \A k \in Pod \ {i} : k \notin Renewers
      BY <2>2, HeldIsNotTakeable DEF Renew
    <3>2. \A k \in Pod \ {i} : ~Renewing(k) \/ late[k]
      BY <3>1 DEF Renewers
    <3>3. \A k \in Pod \ {i} : SleepInv(k)' /\ RenewInv(k)' /\ LoopInv(k)'
      BY <2>2, <3>2 DEF Renew, WriteLease, Renewing
    <3>4. SleepInv(i)' /\ RenewInv(i)' /\ LoopInv(i)'
      BY <2>2 DEF Renew, WriteLease
    <3> QED  BY <3>3, <3>4
  <2>3. CASE Release(i)  BY <2>3, PodAssumption DEF Release
  <2>4. CASE StartProvider(i)  BY <2>4 DEF StartProvider, Enter
  <2>5. CASE LoseAnswer(i)  BY <2>5 DEF LoseAnswer, Enter
  <2>6. CASE StartLeading(i)
    <3>1. late'[i] <=> TooLate(i)
      BY <2>6, Zenon DEF StartLeading
    <3>2. \A k \in Pod \ {i} : late'[k] = late[k]
      BY <2>6 DEF StartLeading
    <3>3. \A k \in Pod \ {i} : SleepInv(k)' /\ RenewInv(k)' /\ LoopInv(k)'
      BY <2>6, <3>2 DEF StartLeading, Enter
    <3>4. SleepInv(i)' /\ RenewInv(i)' /\ LoopInv(i)'
      BY <2>6, <3>1 DEF StartLeading, Enter, TooLate
    <3> QED  BY <3>3, <3>4
  <2>7. CASE BeginRenew(i)  BY <2>7 DEF BeginRenew, Enter
  <2>8. CASE RenewSucceeded(i)  BY <2>8 DEF RenewSucceeded, Enter, EndLoop
  <2>9. CASE GiveUp(i)  BY <2>9 DEF GiveUp, Enter, EndLoop
  <2>10. CASE StopOnCancel(i)  BY <2>10 DEF StopOnCancel, Enter, EndLoop
  <2>11. CASE ReleaseReturned(i)  BY <2>11 DEF ReleaseReturned, Enter
  <2>12. CASE OnStartedLeading(i)  BY <2>12 DEF OnStartedLeading
  <2>13. CASE OnStoppedLeading(i)  BY <2>13 DEF OnStoppedLeading, Enter
  <2>14. CASE Exit(i)  BY <2>14 DEF Exit, EndProcess, Enter, EndLoop
  <2>15. CASE Cancel(i)  BY <2>15 DEF Cancel
  <2>16. CASE MainReturn(i)  BY <2>16 DEF MainReturn, EndProcess, Enter, EndLoop
  <2>17. CASE Crash(i)  BY <2>17 DEF Crash, EndProcess, Enter, EndLoop
  <2> QED
    BY <1>2, <2>1, <2>2, <2>3, <2>4, <2>5, <2>6, <2>7, <2>8, <2>9, <2>10,
       <2>11, <2>12, <2>13, <2>14, <2>15, <2>16, <2>17
       DEF PodStep, ElectorStep, ProcessEnds
<1>3. CASE UNCHANGED vars
  BY <1>3 DEF vars
<1> QED  BY <1>1, <1>2, <1>3 DEF Next

LEMMA LeaseInvariant == Spec => []LeaseInv
<1>1. Init => LeaseInv
  BY DEF Init, LeaseInv, SleepInv, RenewInv, LoopInv
<1>2. TypeOK /\ LeaseInv /\ [Next]_vars => LeaseInv'
  BY LeaseInvStep
<1> QED  BY <1>1, <1>2, TypeInvariant, PTL DEF Spec

(* Of the pods in office all but one are latecomers, whatever is lost,     *)
(* late or killed.                                                         *)
LEMMA OneRenewer ==
  ASSUME TypeOK, LeaseInv, NEW i \in Renewers, NEW j \in Renewers
  PROVE  i = j
BY RenewersHoldLease

(* Two pods are in office only while one of them, which learnt of its      *)
(* victory too late, is in its first renew loop, whatever is lost, late,   *)
(* or killed.                                                              *)
THEOREM MutualExclusion == Spec => []AtMostOneInOffice
<1>1. TypeOK /\ LeaseInv => AtMostOneInOffice
  <2> SUFFICES ASSUME TypeOK, LeaseInv, NEW i \in Pod, NEW j \in Pod,
                      Renewing(i), Renewing(j), i # j
               PROVE  \E k \in {i, j} : late[k] /\ timer[k] <= RenewDeadline
    BY DEF AtMostOneInOffice
  <2>1. PICK k \in {i, j} : late[k]
    BY OneRenewer DEF Renewers
  <2>2. timer[k] <= RenewDeadline
    BY <2>1 DEF LeaseInv, RenewInv, LoopInv
  <2> QED  BY <2>1, <2>2
<1> QED  BY <1>1, TypeInvariant, LeaseInvariant, PTL

-----------------------------------------------------------------------------
(* iAmTheLeader, and the goroutine that will set it, belong to a pod that  *)
(* won the lease in this process.                                          *)
LEMMA FlagInvStep ==
  ASSUME TypeOK, FlagInv, [Next]_vars
  PROVE  FlagInv'
<1> USE DEF FlagInv, TypeOK, Renewing, Leaving
<1>1. CASE Tick
  BY <1>1 DEF Tick
<1>2. ASSUME NEW i \in Pod, PodStep(i)
      PROVE  FlagInv'
  <2>1. CASE StartProvider(i)  BY <2>1 DEF StartProvider, Enter
  <2>2. CASE Acquire(i)  BY <2>2 DEF Acquire, Enter
  <2>3. CASE LoseAnswer(i)  BY <2>3 DEF LoseAnswer, Enter
  <2>4. CASE StartLeading(i)  BY <2>4 DEF StartLeading, Enter
  <2>5. CASE BeginRenew(i)  BY <2>5 DEF BeginRenew, Enter
  <2>6. CASE Renew(i)  BY <2>6 DEF Renew
  <2>7. CASE RenewSucceeded(i)  BY <2>7 DEF RenewSucceeded, Enter, EndLoop
  <2>8. CASE GiveUp(i)  BY <2>8 DEF GiveUp, Enter, EndLoop
  <2>9. CASE StopOnCancel(i)  BY <2>9 DEF StopOnCancel, Enter, EndLoop
  <2>10. CASE Release(i)  BY <2>10 DEF Release
  <2>11. CASE ReleaseReturned(i)  BY <2>11 DEF ReleaseReturned, Enter
  <2>12. CASE OnStartedLeading(i)  BY <2>12 DEF OnStartedLeading
  <2>13. CASE OnStoppedLeading(i)  BY <2>13 DEF OnStoppedLeading, Enter
  <2>14. CASE Exit(i)  BY <2>14 DEF Exit, EndProcess, Enter, EndLoop
  <2>15. CASE Cancel(i)  BY <2>15 DEF Cancel
  <2>16. CASE MainReturn(i)  BY <2>16 DEF MainReturn, EndProcess, Enter, EndLoop
  <2>17. CASE Crash(i)  BY <2>17 DEF Crash, EndProcess, Enter, EndLoop
  <2> QED
    BY <1>2, <2>1, <2>2, <2>3, <2>4, <2>5, <2>6, <2>7, <2>8, <2>9, <2>10,
       <2>11, <2>12, <2>13, <2>14, <2>15, <2>16, <2>17
       DEF PodStep, ElectorStep, ProcessEnds
<1>3. CASE UNCHANGED vars
  BY <1>3 DEF vars
<1> QED  BY <1>1, <1>2, <1>3 DEF Next

(* The three parts of the inductive invariant hold together.               *)
THEOREM InductiveInvariant == Spec => []IInv
<1>1. Init => FlagInv
  BY DEF Init, FlagInv
<1>2. TypeOK /\ FlagInv /\ [Next]_vars => FlagInv'
  BY FlagInvStep
<1>3. Spec => []FlagInv
  BY <1>1, <1>2, TypeInvariant, PTL DEF Spec
<1> QED  BY <1>3, TypeInvariant, LeaseInvariant, PTL DEF IInv

(* Two pods have iAmTheLeader set at the same time only while one of them  *)
(* is leaving or a latecomer, and no pod has that was not told it won.     *)
THEOREM OverlapBounded == Spec => []OverlapOnlyWhileLeaving
<1>1. IInv => OverlapOnlyWhileLeaving
  <2> SUFFICES ASSUME TypeOK, LeaseInv, FlagInv
               PROVE  OverlapOnlyWhileLeaving
    BY DEF IInv
  <2>1. \A i, j \in Pod :
          iAmTheLeader[i] /\ iAmTheLeader[j] /\ i # j =>
            \E k \in {i, j} : Leaving(k) \/ late[k]
    <3> SUFFICES ASSUME NEW i \in Pod, NEW j \in Pod,
                        iAmTheLeader[i], iAmTheLeader[j], i # j,
                        ~Leaving(i), ~Leaving(j)
                 PROVE  \E k \in {i, j} : late[k]
      OBVIOUS
    <3>1. Renewing(i) /\ Renewing(j)
      BY DEF FlagInv
    <3> QED  BY <3>1, OneRenewer DEF Renewers
  <2> QED  BY <2>1 DEF FlagInv, OverlapOnlyWhileLeaving
<1> QED  BY <1>1, InductiveInvariant, PTL

-----------------------------------------------------------------------------
(* Refinement: every step of the election is a step of SingleLeader.       *)

LEMMA OfficeOfOne ==
  ASSUME NEW i \in Pod
  PROVE  OfficeOf({i}) = i
BY DEF OfficeOf

LEMMA OfficeOfNone == OfficeOf({}) = NoPod
BY DEF OfficeOf

(* What a pod does concerns its own process only.                          *)
LEMMA OthersStutter ==
  ASSUME TypeOK, NEW i \in Pod, PodStep(i), NEW k \in Pod, k # i
  PROVE  UNCHANGED <<phase[k], renewed[k], late[k], starting[k],
                     iAmTheLeader[k], cancelled[k]>>
<1> USE DEF TypeOK
<1>1. CASE ProcessEnds(i)
  BY <1>1 DEF ProcessEnds, Exit, MainReturn, Crash, EndProcess, Enter, EndLoop
<1>2. CASE StartProvider(i) \/ Acquire(i) \/ LoseAnswer(i) \/ StartLeading(i)
  BY <1>2 DEF StartProvider, Acquire, LoseAnswer, StartLeading, Enter
<1>3. CASE BeginRenew(i) \/ Renew(i) \/ RenewSucceeded(i) \/ GiveUp(i)
  BY <1>3 DEF BeginRenew, Renew, RenewSucceeded, GiveUp, Enter, EndLoop
<1>4. CASE StopOnCancel(i) \/ Release(i) \/ ReleaseReturned(i)
  BY <1>4 DEF StopOnCancel, Release, ReleaseReturned, Enter, EndLoop
<1>5. CASE OnStartedLeading(i) \/ OnStoppedLeading(i) \/ Cancel(i)
  BY <1>5 DEF OnStartedLeading, OnStoppedLeading, Cancel, Enter
<1> QED
  BY <1>1, <1>2, <1>3, <1>4, <1>5 DEF PodStep, ElectorStep

(* A leader does not turn into a latecomer.                                *)
LEMMA NoLateLeader ==
  ASSUME TypeOK, LeaseInv, NEW i \in Renewers, PodStep(i)
  PROVE  i \notin Latecomers'
<1> i \in Pod /\ Renewing(i) /\ ~late[i]
  BY DEF Renewers
<1> SUFFICES ~late'[i]
  BY DEF Latecomers
<1> USE DEF TypeOK, Renewing
<1>1. CASE ProcessEnds(i)
  BY <1>1 DEF ProcessEnds, Exit, MainReturn, Crash, EndProcess, EndLoop
<1>2. CASE StartProvider(i) \/ Acquire(i) \/ LoseAnswer(i) \/ StartLeading(i)
  BY <1>2 DEF StartProvider, Acquire, LoseAnswer, StartLeading
<1>3. CASE BeginRenew(i) \/ Renew(i) \/ RenewSucceeded(i) \/ GiveUp(i)
  BY <1>3 DEF BeginRenew, Renew, RenewSucceeded, GiveUp, EndLoop
<1>4. CASE StopOnCancel(i) \/ Release(i) \/ ReleaseReturned(i)
  BY <1>4 DEF StopOnCancel, Release, ReleaseReturned, EndLoop
<1>5. CASE OnStartedLeading(i) \/ OnStoppedLeading(i) \/ Cancel(i)
  BY <1>5 DEF OnStartedLeading, OnStoppedLeading, Cancel
<1> QED
  BY <1>1, <1>2, <1>3, <1>4, <1>5 DEF PodStep, ElectorStep

(* The leader and the latecomers before and after a step, in sets.         *)
LEMMA OfficeStep ==
  ASSUME TypeOK, LeaseInv, TypeOK', LeaseInv', NEW i \in Pod, PodStep(i)
  PROVE  \/ Renewers' = Renewers /\ Latecomers' = Latecomers
         \/ Renewers = {} /\ Renewers' = {i} /\ Latecomers' = Latecomers \ {i}
         \/ Renewers = {i} /\ Renewers' = {} /\ Latecomers' = Latecomers
         \/ /\ Renewers' = Renewers /\ i \notin Renewers
            /\ Latecomers' = Latecomers \cup {i}
         \/ Renewers' = Renewers /\ Latecomers' = Latecomers \ {i}
<1>1. \A k \in Pod \ {i} : /\ k \in Renewers' <=> k \in Renewers
                           /\ k \in Latecomers' <=> k \in Latecomers
  BY OthersStutter DEF Renewers, Latecomers, Renewing
<1>2. /\ Renewers \subseteq Pod /\ Renewers' \subseteq Pod
      /\ Latecomers \subseteq Pod /\ Latecomers' \subseteq Pod
  BY DEF Renewers, Latecomers
<1>3. ~(i \in Renewers /\ i \in Latecomers) /\ ~(i \in Renewers' /\ i \in Latecomers')
  BY DEF Renewers, Latecomers
<1>4. CASE i \in Renewers <=> i \in Renewers'
  <2>1. Renewers' = Renewers
    BY <1>1, <1>2, <1>4
  <2>2. CASE i \in Renewers
    <3>1. Latecomers' = Latecomers
      BY <1>1, <1>2, <1>3, <1>4, <2>2
    <3> QED  BY <2>1, <3>1
  <2>3. CASE i \notin Renewers
    <3>1. \/ Latecomers' = Latecomers \cup {i}
          \/ Latecomers' = Latecomers \ {i}
      BY <1>1, <1>2
    <3> QED  BY <2>1, <2>3, <3>1
  <2> QED  BY <2>2, <2>3
<1>5. CASE i \in Renewers /\ i \notin Renewers'
  <2>1. Renewers = {i}
    BY <1>2, <1>5, OneRenewer
  <2>2. Renewers' = {}
    BY <1>1, <1>2, <1>5, <2>1
  <2>3. Latecomers' = Latecomers
    BY <1>1, <1>2, <1>3, <1>5, NoLateLeader
  <2> QED  BY <2>1, <2>2, <2>3
<1>6. CASE i \notin Renewers /\ i \in Renewers'
  <2>1. \A k \in Renewers' : k = i
    <3>1. \A k \in Renewers' : holder' = k
      BY DEF LeaseInv, SleepInv, RenewInv, LoopInv, Renewers, Renewing
    <3> QED  BY <1>6, <3>1
  <2>2. Renewers' = {i}
    BY <1>6, <2>1
  <2>3. Renewers = {}
    BY <1>1, <1>2, <1>6, <2>1
  <2>4. Latecomers' = Latecomers \ {i}
    BY <1>1, <1>2, <1>3, <1>6
  <2> QED  BY <2>2, <2>3, <2>4
<1> QED  BY <1>4, <1>5, <1>6

(* The pods in office, over time, are a run of SingleLeader: the office of *)
(* the leader is taken only when vacant, by a latecomer too.               *)
THEOREM RefinesSingleLeader == Spec => ImplementsSingleLeader
<1> USE OfficeOfNone DEF Office!vars
<1>1. Init => Office!Init
  <2> SUFFICES ASSUME Init PROVE OfficeOf(Renewers) = NoPod /\ Latecomers = {}
    BY DEF Office!Init
  <2>1. Renewers = {} /\ Latecomers = {}
    BY DEF Init, Renewers, Renewing, Latecomers
  <2> QED  BY <2>1
<1>2. TypeOK /\ LeaseInv /\ [Next]_vars /\ TypeOK' /\ LeaseInv'
        => [Office!Next]_(Office!vars)
  <2> SUFFICES ASSUME TypeOK, LeaseInv, [Next]_vars, TypeOK', LeaseInv'
               PROVE  [Office!Next]_(Office!vars)
    OBVIOUS
  <2>1. CASE Tick \/ UNCHANGED vars
    <3>1. Renewers' = Renewers /\ Latecomers' = Latecomers
      BY <2>1 DEF Tick, vars, Renewers, Renewing, Latecomers
    <3> QED  BY <3>1
  <2>2. ASSUME NEW i \in Pod, PodStep(i)
        PROVE  [Office!Next]_(Office!vars)
    <3>1. CASE Renewers = {} /\ Renewers' = {i} /\ Latecomers' = Latecomers \ {i}
      <4>1. Office!TakeOffice(i)
        BY <3>1, OfficeOfOne DEF Office!TakeOffice
      <4> QED  BY <4>1 DEF Office!Next
    <3>2. CASE Renewers = {i} /\ Renewers' = {} /\ Latecomers' = Latecomers
      <4>1. Office!LeaveOffice
        BY <3>2, OfficeOfOne, PodAssumption DEF Office!LeaveOffice
      <4> QED  BY <4>1 DEF Office!Next
    <3>3. CASE /\ Renewers' = Renewers /\ i \notin Renewers
               /\ Latecomers' = Latecomers \cup {i}
      <4>1. OfficeOf(Renewers) # i
        BY <3>3, PodAssumption DEF OfficeOf
      <4>2. Office!ComeLate(i)
        BY <3>3, <4>1 DEF Office!ComeLate
      <4> QED  BY <4>2 DEF Office!Next
    <3>4. CASE Renewers' = Renewers /\ Latecomers' = Latecomers \ {i}
      <4>1. Office!Withdraw(i)
        BY <3>4 DEF Office!Withdraw
      <4> QED  BY <4>1 DEF Office!Next
    <3>5. CASE Renewers' = Renewers /\ Latecomers' = Latecomers
      BY <3>5
    <3> QED  BY <2>2, <3>1, <3>2, <3>3, <3>4, <3>5, OfficeStep
  <2> QED  BY <2>1, <2>2 DEF Next
<1> QED
  BY <1>1, <1>2, TypeInvariant, LeaseInvariant, PTL
     DEF Spec, ImplementsSingleLeader, Office!Spec

-----------------------------------------------------------------------------
(* The term of one pod.                                                    *)

(* A step of the pod is a step of its term, or means nothing to it.        *)
LEMMA OwnStepInTerm ==
  ASSUME TypeOK, FlagInv, NEW i \in Pod, PodStep(i)
  PROVE  [Term(i)!Next]_(Term(i)!vars)
<1> USE DEF TypeOK, Stage, Renewing, Term!vars
<1>1. CASE StartProvider(i)
  BY <1>1 DEF StartProvider, Enter, FlagInv, Leaving, Term!Next, Term!Enter
<1>2. CASE StartLeading(i)
  BY <1>2 DEF StartLeading, Enter, FlagInv, Leaving, Term!Next, Term!Win
<1>3. CASE OnStartedLeading(i)
  BY <1>3 DEF OnStartedLeading, Term!Next, Term!OpenGate
<1>4. CASE GiveUp(i) \/ StopOnCancel(i)
  BY <1>4 DEF GiveUp, StopOnCancel, Enter, Term!Next, Term!Leave
<1>5. CASE OnStoppedLeading(i)
  BY <1>5 DEF OnStoppedLeading, Enter, Term!Next, Term!ShutGate
<1>6. CASE Cancel(i)
  BY <1>6 DEF Cancel, Term!Next, Term!Cancel
<1>7. CASE ProcessEnds(i)
  BY <1>7 DEF ProcessEnds, Exit, MainReturn, Crash, EndProcess, Enter, Term!Next, Term!End
<1>8. CASE Acquire(i) \/ LoseAnswer(i) \/ BeginRenew(i) \/ RenewSucceeded(i)
  BY <1>8 DEF Acquire, LoseAnswer, BeginRenew, RenewSucceeded, Enter
<1>9. CASE Renew(i) \/ Release(i) \/ ReleaseReturned(i)
  BY <1>9 DEF Renew, Release, ReleaseReturned, Enter
<1> QED
  BY <1>1, <1>2, <1>3, <1>4, <1>5, <1>6, <1>7, <1>8, <1>9 DEF PodStep, ElectorStep

(* Each pod leads at most once in the life of a process, and opens its     *)
(* gate only for the term it has won: losing answers, being started again  *)
(* and late goroutines included.                                           *)
THEOREM TermPerLife == Spec => OneTermEach
<1> USE DEF Stage, Renewing
<1>1. Init => \A i \in Pod : Term(i)!Init
  BY DEF Init, Term!Init
<1>2. TypeOK /\ FlagInv /\ [Next]_vars
        => [\A i \in Pod : [Term(i)!Next]_(Term(i)!vars)]_vars
  <2> SUFFICES ASSUME TypeOK, FlagInv, Next, NEW k \in Pod
               PROVE  [Term(k)!Next]_(Term(k)!vars)
    OBVIOUS
  <2>1. CASE Tick
    BY <2>1 DEF Tick, Term!vars
  <2>2. CASE PodStep(k)
    BY <2>2, OwnStepInTerm
  <2>3. ASSUME NEW i \in Pod, PodStep(i), i # k
        PROVE  [Term(k)!Next]_(Term(k)!vars)
    BY <2>3, OthersStutter DEF Term!vars
  <2> QED  BY <2>1, <2>2, <2>3 DEF Next
<1> QED
  BY <1>1, <1>2, InductiveInvariant, PTL DEF Spec, IInv, OneTermEach
=============================================================================
