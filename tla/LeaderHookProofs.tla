-------------------------- MODULE LeaderHookProofs --------------------------
(* Proofs about LeaderHook.                                                *)
EXTENDS LeaderHook, TLAPS

(* Of main, the election, its hook and the runners none leaves the         *)
(* statements it is written of: the listener ends at its last provider.    *)
THEOREM TypeInvariant == Spec => []TypeOK
<1> USE DEF TypeOK, Collector, MainPc, ElectorPc, HookPc, RunnerPc,
            mainVars, hookVars, dataVars, shellVars
<1>1. Init => TypeOK
  BY DEF Init
<1>2. TypeOK /\ [Next]_vars => TypeOK'
  <2> SUFFICES ASSUME TypeOK, [Next]_vars
               PROVE  TypeOK'
    OBVIOUS
  <2>1. CASE Main
    <3>1. CASE InitKubernetes \/ InitDocker \/ StartServer
      BY <3>1 DEF InitKubernetes, InitDocker, StartServer
    <3>2. ASSUME NEW c \in Collector, StartCollector(c)
          PROVE  TypeOK'
      BY <3>2 DEF StartCollector
    <3>3. CASE StartProvider \/ AppendListener \/ StoreListener
      BY <3>3 DEF StartProvider, AppendListener, StoreListener
    <3>4. CASE Cancel \/ MainReturn
      BY <3>4 DEF Cancel, MainReturn
    <3> QED  BY <2>1, <3>1, <3>2, <3>3, <3>4 DEF Main, MainGoesOn
  <2>2. CASE Elector
    BY <2>2 DEF Elector, Win, Lose, OnStoppedLeading, Exit
  <2>3. CASE Hook
    <3>1. CASE SetFlag  BY <3>1 DEF SetFlag
    <3>2. CASE RangeListeners  BY <3>2 DEF RangeListeners
    <3>3. CASE HookGate  BY <3>3 DEF HookGate, HookNext
    <3>4. CASE HookCollect  BY <3>4 DEF HookCollect, HookNext
    <3> QED  BY <2>3, <3>1, <3>2, <3>3, <3>4 DEF Hook
  <2>4. ASSUME NEW c \in Collector, Runner(c)
        PROVE  TypeOK'
    <3>1. CASE RunnerGate(c)  BY <3>1 DEF RunnerGate
    <3>2. CASE RunnerCollect(c)  BY <3>2 DEF RunnerCollect
    <3>3. CASE RunnerWake(c)  BY <3>3 DEF RunnerWake
    <3> QED  BY <2>4, <3>1, <3>2, <3>3 DEF Runner
  <2>5. CASE Listen \/ Signal
    BY <2>5 DEF Listen, Signal
  <2>6. CASE UNCHANGED vars
    BY <2>6 DEF vars
  <2> QED  BY <2>1, <2>2, <2>3, <2>4, <2>5, <2>6 DEF Next
<1> QED  BY <1>1, <1>2, PTL DEF Spec

(* Every goroutine's step preserves the inductive invariant.               *)
LEMMA IInvStep ==
  ASSUME TypeOK, StartOrderInv, ElectedInv, HookInv, NoMissedElection,
         [Next]_vars
  PROVE  StartOrderInv' /\ ElectedInv' /\ HookInv' /\ NoMissedElection'
<1> DEFINE Inv == StartOrderInv /\ ElectedInv /\ HookInv /\ NoMissedElection
<1> USE DEF TypeOK, StartOrderInv, ElectedInv, HookInv, NoMissedElection,
            Collector, MainPc, ElectorPc, HookPc, RunnerPc,
            mainVars, hookVars, dataVars, shellVars
<1>1. CASE Main
  <2>1. CASE InitKubernetes \/ InitDocker \/ StartServer
    BY <2>1 DEF InitKubernetes, InitDocker, StartServer
  <2>2. ASSUME NEW c \in Collector, StartCollector(c)
        PROVE  Inv'
    BY <2>2 DEF StartCollector
  <2>3. CASE StartProvider \/ AppendListener \/ StoreListener
    <3>1. CASE StartProvider  BY <3>1 DEF StartProvider
    <3>2. CASE AppendListener  BY <3>2 DEF AppendListener
    <3>3. CASE StoreListener  BY <3>3 DEF StoreListener
    <3> QED  BY <2>3, <3>1, <3>2, <3>3
  <2>4. CASE Cancel \/ MainReturn
    BY <2>4 DEF Cancel, MainReturn
  <2> QED  BY <1>1, <2>1, <2>2, <2>3, <2>4 DEF Main, MainGoesOn
<1>2. CASE Elector
  BY <1>2 DEF Elector, Win, Lose, OnStoppedLeading, Exit
<1>3. CASE Hook
  <2>1. CASE SetFlag  BY <2>1 DEF SetFlag
  <2>2. CASE RangeListeners  BY <2>2 DEF RangeListeners
  <2>3. CASE HookGate  BY <2>3 DEF HookGate, HookNext
  <2>4. CASE HookCollect  BY <2>4 DEF HookCollect, HookNext
  <2> QED  BY <1>3, <2>1, <2>2, <2>3, <2>4 DEF Hook
<1>4. ASSUME NEW c \in Collector, Runner(c)
      PROVE  Inv'
  <2>1. CASE RunnerGate(c)  BY <2>1 DEF RunnerGate
  <2>2. CASE RunnerCollect(c)  BY <2>2 DEF RunnerCollect
  <2>3. CASE RunnerWake(c)  BY <2>3 DEF RunnerWake
  <2> QED  BY <1>4, <2>1, <2>2, <2>3 DEF Runner
<1>5. CASE Listen \/ Signal
  BY <1>5 DEF Listen, Signal
<1>6. CASE UNCHANGED vars
  BY <1>6 DEF vars
<1> QED  BY <1>1, <1>2, <1>3, <1>4, <1>5, <1>6 DEF Next

LEMMA InductiveInvariant == Spec => []IInv
<1>1. Init => StartOrderInv /\ ElectedInv /\ HookInv /\ NoMissedElection
  BY DEF Init, StartOrderInv, ElectedInv, HookInv, NoMissedElection, Collector
<1>2. TypeOK /\ StartOrderInv /\ ElectedInv /\ HookInv /\ NoMissedElection
        /\ [Next]_vars
      => StartOrderInv' /\ ElectedInv' /\ HookInv' /\ NoMissedElection'
  BY IInvStep
<1> QED  BY <1>1, <1>2, TypeInvariant, PTL DEF Spec, IInv

(* Although the election is started before its listener is registered, and *)
(* the two race, no election is missed by a collector.                     *)
THEOREM ElectionNotMissed == Spec => []NoMissedElection
BY InductiveInvariant, PTL DEF IInv

(* Cluster-level data is collected only in a process that was elected.     *)
THEOREM OnlyElectedCollects == Spec => []CollectsOnlyIfElected
<1>1. IInv => CollectsOnlyIfElected
  BY DEF IInv, ElectedInv, CollectsOnlyIfElected
<1> QED  BY <1>1, InductiveInvariant, PTL

(* A SIGTERM that a process gets while it starts is kept until main is     *)
(* ready for it.                                                           *)
THEOREM SignalIsKept == Spec => []SignalKept
<1>1. Init => SignalKept
  BY DEF Init, SignalKept
<1>2. TypeOK /\ SignalKept /\ [Next]_vars => SignalKept'
  <2> SUFFICES ASSUME TypeOK, SignalKept, [Next]_vars
               PROVE  SignalKept'
    OBVIOUS
  <2> USE DEF SignalKept, Up, mainVars, hookVars, dataVars, shellVars
  <2>1. CASE Signal  BY <2>1 DEF Signal
  <2>2. CASE Main
    <3>1. CASE InitKubernetes \/ InitDocker \/ StartProvider
      BY <2>2, <3>1 DEF InitKubernetes, InitDocker, StartProvider
    <3>2. CASE AppendListener \/ StoreListener \/ StartServer
      BY <3>2 DEF AppendListener, StoreListener, StartServer
    <3>3. ASSUME NEW c \in Collector, StartCollector(c)
          PROVE  SignalKept'
      BY <3>3 DEF StartCollector, Collector
    <3>4. CASE Cancel \/ MainReturn
      BY <3>4 DEF Cancel, MainReturn
    <3> QED  BY <2>2, <3>1, <3>2, <3>3, <3>4 DEF Main, MainGoesOn
  <2>3. CASE Listen \/ Elector
    BY <2>3 DEF Listen, Elector, Win, Lose, OnStoppedLeading, Exit
  <2>4. CASE Hook
    BY <2>4 DEF Hook, SetFlag, RangeListeners, HookGate, HookCollect
  <2>5. ASSUME NEW c \in Collector, Runner(c)
        PROVE  SignalKept'
    BY <2>5 DEF Runner, RunnerGate, RunnerCollect, RunnerWake
  <2>6. CASE UNCHANGED vars  BY <2>6 DEF vars
  <2> QED  BY <2>1, <2>2, <2>3, <2>4, <2>5, <2>6 DEF Next
<1> QED  BY <1>1, <1>2, TypeInvariant, PTL DEF Spec

-----------------------------------------------------------------------------
(* The process, and the term it may win.                                   *)

(* What the term sees of a step that is neither main's, nor the elector's, *)
(* nor the store of the flag: nothing, unless the process ends with it.    *)
LEMMA OthersStutter ==
  ASSUME UNCHANGED electorPc, UNCHANGED iAmTheLeader,
         (mainPc = "cancelled") = (mainPc' = "cancelled"),
         (hookPc = "flag") = (hookPc' = "flag"),
         process' \in {process, "exited", "crashed"}
  PROVE  [Term!Next]_(Term!vars)
<1>1. CASE process' = process
  BY <1>1 DEF Term!vars, Stage, Up
<1>2. CASE process' # "up"
  BY <1>2 DEF Term!Next, Term!End, Stage, Up
<1>3. CASE process' # process /\ process' = "up"
  BY <1>3
<1> QED  BY <1>1, <1>2, <1>3

(* Main enters the election and cancels it.                                *)
LEMMA MainInTerm ==
  ASSUME TypeOK, StartOrderInv, ElectedInv, process = "up", Main
  PROVE  [Term!Next]_(Term!vars)
<1> USE DEF TypeOK, mainVars, hookVars, dataVars, shellVars
<1>1. CASE StartProvider
  <2>1. electorPc = "off" /\ hookPc # "flag" /\ ~iAmTheLeader
    BY <1>1 DEF StartProvider, StartOrderInv, ElectedInv, ElectorPc
  <2>2. Term!Enter
    BY <1>1, <2>1 DEF StartProvider, Term!Enter, Stage, Up
  <2> QED  BY <2>2 DEF Term!Next
<1>2. CASE Cancel
  <2>1. Term!Cancel
    BY <1>2 DEF Cancel, Term!Cancel, Stage, Up
  <2> QED  BY <2>1 DEF Term!Next
<1>3. CASE InitKubernetes \/ InitDocker \/ AppendListener \/ StoreListener
  BY <1>3, OthersStutter
  DEF InitKubernetes, InitDocker, AppendListener, StoreListener
<1>4. CASE StartServer \/ MainReturn
  BY <1>4, OthersStutter DEF StartServer, MainReturn
<1>5. ASSUME NEW c \in Collector, StartCollector(c)
      PROVE  [Term!Next]_(Term!vars)
  BY <1>5, OthersStutter DEF StartCollector, Collector
<1> QED  BY <1>1, <1>2, <1>3, <1>4, <1>5 DEF Main, MainGoesOn

(* The elector wins, gives up, shuts the gate and ends the process.        *)
LEMMA ElectorInTerm ==
  ASSUME TypeOK, ElectedInv, process = "up", Elector
  PROVE  [Term!Next]_(Term!vars)
<1> USE DEF TypeOK, mainVars, hookVars, dataVars, shellVars
<1>1. CASE Win
  <2>1. hookPc # "flag" /\ ~iAmTheLeader
    BY <1>1 DEF Win, ElectedInv
  <2>2. Term!Win
    BY <1>1, <2>1 DEF Win, Term!Win, Stage, Up
  <2> QED  BY <2>2 DEF Term!Next
<1>2. CASE Lose
  <2>1. Term!Leave
    BY <1>2 DEF Lose, Term!Leave, Stage, Up
  <2> QED  BY <2>1 DEF Term!Next
<1>3. CASE OnStoppedLeading
  <2>1. Term!ShutGate
    BY <1>3 DEF OnStoppedLeading, Term!ShutGate, Stage, Up
  <2> QED  BY <2>1 DEF Term!Next
<1>4. CASE Exit
  BY <1>4, OthersStutter DEF Exit
<1> QED  BY <1>1, <1>2, <1>3, <1>4 DEF Elector

(* The hook opens the gate, once.                                          *)
LEMMA HookInTerm ==
  ASSUME TypeOK, process = "up", Hook
  PROVE  [Term!Next]_(Term!vars)
<1> USE DEF TypeOK, mainVars, hookVars, dataVars, shellVars
<1>1. CASE SetFlag
  <2>1. Term!OpenGate
    BY <1>1 DEF SetFlag, Term!OpenGate, Stage, Up
  <2> QED  BY <2>1 DEF Term!Next
<1>2. CASE RangeListeners
  BY <1>2, OthersStutter DEF RangeListeners
<1>3. CASE HookGate
  BY <1>3, OthersStutter DEF HookGate, HookNext
<1>4. CASE HookCollect
  BY <1>4, OthersStutter DEF HookCollect, HookNext
<1> QED  BY <1>1, <1>2, <1>3, <1>4 DEF Hook

(* The process, its elector reduced to winning and losing, is one of those *)
(* that LeaderElection says its pods are: one term at most, and the gate   *)
(* opened for no other.                                                    *)
THEOREM ProcessIsOneTerm == Spec => OneTerm
<1>1. Init => Term!Init
  BY DEF Init, Term!Init, Stage, Up
<1>2. IInv /\ [Next]_vars => [Term!Next]_(Term!vars)
  <2> SUFFICES ASSUME IInv, [Next]_vars
               PROVE  [Term!Next]_(Term!vars)
    OBVIOUS
  <2>0. TypeOK /\ StartOrderInv /\ ElectedInv
    BY DEF IInv
  <2> USE DEF mainVars, hookVars, dataVars, shellVars
  <2>1. CASE process = "up" /\ Main
    BY <2>0, <2>1, MainInTerm
  <2>2. CASE process = "up" /\ Elector
    BY <2>0, <2>2, ElectorInTerm
  <2>3. CASE process = "up" /\ Hook
    BY <2>0, <2>3, HookInTerm
  <2>4. CASE Listen \/ Signal
    BY <2>4, OthersStutter DEF Listen, Signal
  <2>5. ASSUME NEW c \in Collector, Runner(c)
        PROVE  [Term!Next]_(Term!vars)
    BY <2>5, OthersStutter DEF Runner, RunnerGate, RunnerCollect, RunnerWake
  <2>6. CASE UNCHANGED vars
    BY <2>6, OthersStutter DEF vars
  <2> QED  BY <2>1, <2>2, <2>3, <2>4, <2>5, <2>6 DEF Next
<1> QED  BY <1>1, <1>2, InductiveInvariant, PTL DEF Spec, OneTerm, Term!Spec
=============================================================================
