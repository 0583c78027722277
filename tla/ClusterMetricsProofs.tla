------------------------ MODULE ClusterMetricsProofs ------------------------
(* Proofs about ClusterMetrics, for every set of pods, every set of        *)
(* certificates, any callers, and all durations that satisfy               *)
(* DurationsAssumption.                                                    *)
EXTENDS ClusterMetrics, LeaderElectionProofs

USE DEF clusterVars, memory

(* A step of the whole is a step of the election, or leaves it alone.      *)
LEMMA ElectionStep == [ClusterNext]_clusterVars => [Next]_vars
<1> SUFFICES ASSUME [ClusterNext]_clusterVars
             PROVE  [Next]_vars
  OBVIOUS
<1>1. CASE ClusterTick
  BY <1>1 DEF ClusterTick, Next
<1>2. CASE ChangeLink
  BY <1>2 DEF ChangeLink
<1>3. ASSUME NEW i \in Pod, Elect(i) \/ End(i)
      PROVE  [Next]_vars
  BY <1>3 DEF Elect, End, Next, PodStep
<1>4. ASSUME NEW i \in Pod, NEW c \in Caller, Provide(i, c)
      PROVE  [Next]_vars
  <2>1. CASE Gate(i, c) \/ LookInVain(i, c) \/ LookUp(i, c) \/ StoreLink(i, c)
    BY <2>1 DEF Gate, LookInVain, LookUp, StoreLink
  <2>2. CASE LookPanics(i, c)
    BY <2>2 DEF LookPanics, Next, PodStep, ProcessEnds
  <2> QED  BY <1>4, <2>1, <2>2 DEF Provide
<1>5. CASE UNCHANGED clusterVars
  BY <1>5
<1> QED  BY <1>1, <1>2, <1>3, <1>4, <1>5 DEF ClusterNext

(* Collecting the metric of the cluster, and panicking over it, does to    *)
(* the election nothing that crashes do not do: whatever is proved of      *)
(* LeaderElection holds of the whole.                                      *)
THEOREM ImplementsElection == ClusterSpec => Spec
<1>1. ClusterInit => Init
  BY DEF ClusterInit
<1> QED  BY <1>1, ElectionStep, PTL DEF ClusterSpec, Spec

(* So one pod at most is in office beside latecomers, at most one term is  *)
(* held in the life of a process, and offices change hands as SingleLeader *)
(* says, also while collectors read the status of the leader and panic.    *)
THEOREM CollectorsKeepElection ==
  ClusterSpec => []AtMostOneInOffice /\ ImplementsSingleLeader /\ OneTermEach
<1> QED  BY ImplementsElection, MutualExclusion, RefinesSingleLeader, TermPerLife

(* Whatever becomes of the link and of the pods, what a pod publishes, and *)
(* what its calls have found, is a certificate.                            *)
THEOREM ClusterTypeInvariant == ClusterSpec => []ClusterTypeOK
<1> USE LinkAssumption DEF ClusterTypeOK, Found, Call
<1>1. ClusterInit => ClusterTypeOK
  BY DEF ClusterInit, NoCall
<1>2. ClusterTypeOK /\ [ClusterNext]_clusterVars => ClusterTypeOK'
  <2> SUFFICES ASSUME ClusterTypeOK, [ClusterNext]_clusterVars
               PROVE  ClusterTypeOK'
    OBVIOUS
  <2>1. CASE ClusterTick
    BY <2>1 DEF ClusterTick
  <2>2. CASE ChangeLink
    BY <2>2 DEF ChangeLink
  <2>3. ASSUME NEW i \in Pod, Elect(i) \/ End(i)
        PROVE  ClusterTypeOK'
    BY <2>3 DEF Elect, End, Forget, NoCall
  <2>4. ASSUME NEW i \in Pod, NEW c \in Caller, Provide(i, c)
        PROVE  ClusterTypeOK'
    <3>1. CASE Gate(i, c)  BY <3>1 DEF Gate, Advance
    <3>2. CASE LookInVain(i, c)  BY <3>2 DEF LookInVain, Advance
    <3>3. CASE LookUp(i, c)  BY <3>3 DEF LookUp, Advance
    <3>4. CASE StoreLink(i, c)
      <4>1. vnet' \in [Pod -> Link \cup {NoLink}]
        BY <3>4 DEF StoreLink
      <4>2. calling' \in [Pod -> [Caller -> Call]]
        BY <3>4 DEF StoreLink, Advance
      <4> QED  BY <3>4, <4>1, <4>2 DEF StoreLink
    <3>5. CASE LookPanics(i, c)  BY <3>5 DEF LookPanics, Forget, NoCall
    <3> QED  BY <2>4, <3>1, <3>2, <3>3, <3>4, <3>5 DEF Provide
  <2>5. CASE UNCHANGED clusterVars
    BY <2>5
  <2> QED  BY <2>1, <2>2, <2>3, <2>4, <2>5 DEF ClusterNext
<1> QED  BY <1>1, <1>2, PTL DEF ClusterSpec

-----------------------------------------------------------------------------
(* A pod that holds office, or is on its way out, is so until its process  *)
(* ends: it does not become a candidate again.                             *)
LEMMA LeavesByEnding ==
  ASSUME TypeOK, NEW i \in Pod, ElectorStep(i) \/ OnStartedLeading(i),
         NEW k \in Pod, Renewing(k) \/ Leaving(k)
  PROVE  (Renewing(k) \/ Leaving(k))'
<1> USE DEF TypeOK, Renewing, Leaving
<1>1. CASE StartProvider(i)  BY <1>1 DEF StartProvider, Enter
<1>2. CASE Acquire(i)  BY <1>2 DEF Acquire, Enter
<1>3. CASE LoseAnswer(i)  BY <1>3 DEF LoseAnswer, Enter
<1>4. CASE StartLeading(i)  BY <1>4 DEF StartLeading, Enter
<1>5. CASE BeginRenew(i)  BY <1>5 DEF BeginRenew, Enter
<1>6. CASE Renew(i) \/ Release(i) \/ Cancel(i) \/ OnStartedLeading(i)
  BY <1>6 DEF Renew, Release, Cancel, OnStartedLeading, electorVars
<1>7. CASE RenewSucceeded(i)  BY <1>7 DEF RenewSucceeded, Enter
<1>8. CASE GiveUp(i)  BY <1>8 DEF GiveUp, Enter
<1>9. CASE StopOnCancel(i)  BY <1>9 DEF StopOnCancel, Enter
<1>10. CASE ReleaseReturned(i)  BY <1>10 DEF ReleaseReturned, Enter
<1>11. CASE OnStoppedLeading(i)  BY <1>11 DEF OnStoppedLeading, Enter
<1> QED
  BY <1>1, <1>2, <1>3, <1>4, <1>5, <1>6, <1>7, <1>8, <1>9, <1>10, <1>11
     DEF ElectorStep

(* The end of a process disturbs no other.                                 *)
LEMMA EndsAlone ==
  ASSUME TypeOK, NEW i \in Pod, ProcessEnds(i), NEW k \in Pod, k # i
  PROVE  phase'[k] = phase[k]
BY DEF TypeOK, ProcessEnds, Exit, MainReturn, Crash, EndProcess, Enter

LEMMA CallInvStep ==
  ASSUME TypeOK, FlagInv, ClusterTypeOK, CallInv, [ClusterNext]_clusterVars
  PROVE  CallInv'
<1> USE DEF CallInv, Publishes, ClusterTypeOK
<1>1. CASE ClusterTick
  BY <1>1 DEF ClusterTick, Tick, Renewing, Leaving
<1>2. CASE ChangeLink
  BY <1>2 DEF ChangeLink, vars, Renewing, Leaving
<1>3. ASSUME NEW i \in Pod, Elect(i)
      PROVE  CallInv'
  BY <1>3, LeavesByEnding DEF Elect
<1>4. ASSUME NEW i \in Pod, ProcessEnds(i), Forget(i)
      PROVE  CallInv'
  BY <1>4, EndsAlone DEF Forget, Renewing, Leaving
<1>5. ASSUME NEW i \in Pod, NEW c \in Caller, Provide(i, c)
      PROVE  CallInv'
  <2>1. CASE Gate(i, c)
    BY <2>1 DEF Gate, Advance, FlagInv, vars, Renewing, Leaving
  <2>2. CASE LookInVain(i, c) \/ LookUp(i, c) \/ StoreLink(i, c)
    <3>1. calling[i][c] # "returned"
      BY <2>2, LinkAssumption DEF LookInVain, LookUp, StoreLink
    <3>2. Renewing(i) \/ Leaving(i)
      BY <3>1 DEF NoCall
    <3>3. /\ \A k \in Pod \ {i} : vnet'[k] = vnet[k] /\ calling'[k] = calling[k]
          /\ UNCHANGED phase
      BY <2>2 DEF LookInVain, LookUp, StoreLink, Advance, vars
    <3> QED  BY <3>2, <3>3 DEF Renewing, Leaving
  <2>3. CASE LookPanics(i, c)
    BY <2>3, <1>4 DEF LookPanics, ProcessEnds
  <2> QED  BY <1>5, <2>1, <2>2, <2>3 DEF Provide
<1>6. CASE UNCHANGED clusterVars
  BY <1>6 DEF vars, Renewing, Leaving
<1> QED  BY <1>1, <1>2, <1>3, <1>4, <1>5, <1>6 DEF ClusterNext, End

(* Data of the cluster are published by a pod in office or on its way out, *)
(* and by two pods only while one of them leaves or is a latecomer.        *)
THEOREM OneExporterProved == ClusterSpec => []OneExporterButForHandover
<1>1. ClusterInit => CallInv
  BY DEF ClusterInit, CallInv, Publishes
<1>2. TypeOK /\ FlagInv /\ ClusterTypeOK /\ CallInv /\ [ClusterNext]_clusterVars
        => CallInv'
  BY CallInvStep
<1>3. ClusterSpec => [](TypeOK /\ FlagInv)
  BY ImplementsElection, InductiveInvariant, PTL DEF IInv
<1>4. ClusterSpec => []CallInv
  BY <1>1, <1>2, <1>3, ClusterTypeInvariant, PTL DEF ClusterSpec
<1>5. ClusterSpec => []AtMostOneInOffice
  BY ImplementsElection, MutualExclusion, PTL
<1>6. CallInv /\ AtMostOneInOffice => OneExporterButForHandover
  BY DEF CallInv, AtMostOneInOffice, OneExporterButForHandover
<1> QED  BY <1>4, <1>5, <1>6, PTL
=============================================================================
