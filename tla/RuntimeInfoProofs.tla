------------------------- MODULE RuntimeInfoProofs -------------------------
(***************************************************************************)
(* Proofs of HealthyCycle and DockerStaysComplete, for any providers in    *)
(* any order.                                                              *)
(***************************************************************************)
EXTENDS RuntimeInfo, TLAPS

InKubernetes == {"kubeVersion", "kubeCluster"}

InDocker == {"dockerVersion", "dockerInfo"}

(* A place inside a provider is reached only while it is that provider's   *)
(* turn.                                                                   *)
RunnerInv ==
  /\ providers \in Nodes
  /\ pc \in {"off", "call", "rest"} \cup InKubernetes \cup InDocker
  /\ pc \notin {"off", "rest"} => at \in 1 .. Len(providers)
  /\ pc \in InKubernetes => providers[at] = "Kubernetes"
  /\ pc \in InDocker => providers[at] = "Docker"

(* As long as no call of the cycle has failed: what a provider has stored  *)
(* so far, and between providers, what the one before has stored.          *)
StoredInv ==
  ~failed =>
    /\ pc = "call" /\ at > 1 => Describes(info, providers[at - 1])
    /\ pc = "kubeVersion" => info["Type"] = "Kubernetes"
    /\ pc = "kubeCluster" =>
         \A f \in Field \ {"ClusterId"} : info[f] = "Kubernetes"
    /\ pc \in InDocker => info["Type"] = "Docker"

IInv == RunnerInv /\ StoredInv /\ HealthyCycle

LEMMA NodesAreSequences ==
  ASSUME providers \in Nodes
  PROVE  /\ Len(providers) \in Nat
         /\ DOMAIN providers = 1 .. Len(providers)
         /\ providers # << >> => 1 \in DOMAIN providers
  BY RuntimeAssumption DEF RuntimeAssumption

LEMMA InitInv == Init => IInv
  BY DEF Init, Runner!Init, IInv, RunnerInv, StoredInv, HealthyCycle, InKubernetes, InDocker

(* A provider that returns hands over to the next, or ends the cycle: it   *)
(* is enough that it has described the node, or that a call has failed.    *)
LEMMA ReturnKeepsInv ==
  ASSUME providers \in Nodes, at \in 1 .. Len(providers), Runner!Return,
         failed' \/ Describes(info', providers[at])
  PROVE  IInv'
  <1>1. Len(providers) \in Nat
    BY NodesAreSequences
  <1>2. providers' = providers
    BY DEF Runner!Return
  <1>3. CASE at < Len(providers)
    <2>1. pc' = "call" /\ at' = at + 1 /\ at' \in 1 .. Len(providers) /\ at' - 1 = at
      BY <1>1, <1>3 DEF Runner!Return
    <2> QED BY <1>2, <2>1 DEF IInv, RunnerInv, StoredInv, HealthyCycle, InKubernetes, InDocker, Describes
  <1>4. CASE ~(at < Len(providers))
    <2>1. pc' = "rest" /\ at = Len(providers)
      BY <1>1, <1>4 DEF Runner!Return
    <2> QED BY <1>2, <2>1 DEF IInv, RunnerInv, StoredInv, HealthyCycle, InKubernetes, InDocker, Describes
  <1> QED BY <1>3, <1>4

LEMMA NextInv == IInv /\ [Next]_vars => IInv'
  <1> SUFFICES ASSUME IInv, [Next]_vars PROVE IInv'
    OBVIOUS
  <1>0. Len(providers) \in Nat
    BY NodesAreSequences DEF IInv, RunnerInv
  <1> USE DEF InKubernetes, InDocker
  <1>1. CASE BeginCycle
    <2>1. providers # << >> => 1 \in 1 .. Len(providers)
      BY NodesAreSequences DEF IInv, RunnerInv
    <2> QED BY <1>1, <2>1 DEF BeginCycle, Runner!BeginCycle, IInv, RunnerInv, StoredInv, HealthyCycle
  <1>2. CASE AskKubernetes
    BY <1>2 DEF AskKubernetes, Runner!Calls, Runner!At, Assign, Goto, Field, IInv, RunnerInv,
       StoredInv, HealthyCycle
  <1>3. CASE KubeVersion
    BY <1>3 DEF KubeVersion, Assign, Goto, Field, IInv, RunnerInv, StoredInv, HealthyCycle
  <1>4. CASE KubeVersionFails
    BY <1>4 DEF KubeVersionFails, IInv, RunnerInv, StoredInv, HealthyCycle
  <1>5. CASE KubeCluster
    <2>1. failed' \/ Describes(info', providers[at])
      BY <1>5 DEF KubeCluster, Assign, Field, Describes, IInv, RunnerInv, StoredInv
    <2> QED BY <1>5, <2>1, ReturnKeepsInv DEF KubeCluster, IInv, RunnerInv
  <1>6. CASE KubeClusterFails
    BY <1>6, ReturnKeepsInv DEF KubeClusterFails, IInv, RunnerInv
  <1>7. CASE AskDocker
    BY <1>7 DEF AskDocker, Runner!Calls, Runner!At, Assign, Goto, Field, IInv, RunnerInv,
       StoredInv, HealthyCycle
  <1>8. CASE DockerVersion
    BY <1>8 DEF DockerVersion, Goto, IInv, RunnerInv, StoredInv, HealthyCycle
  <1>9. CASE DockerFails
    BY <1>9, ReturnKeepsInv DEF DockerFails, IInv, RunnerInv
  <1>10. CASE DockerInfo
    <2>1. failed' \/ Describes(info', providers[at])
      BY <1>10 DEF DockerInfo, Assign, Field, Describes, IInv, RunnerInv, StoredInv
    <2> QED BY <1>10, <2>1, ReturnKeepsInv DEF DockerInfo, IInv, RunnerInv
  <1>11. CASE DockerInfoNoCluster
    BY <1>11 DEF DockerInfoNoCluster, Assign, Field, IInv, RunnerInv, StoredInv, HealthyCycle
  <1>12. CASE Scrape \/ UNCHANGED vars
    <2>1. UNCHANGED <<info, providers, pc, at, failed>>
      BY <1>12 DEF Scrape, BeginScrape, ReadField, vars
    <2> QED BY <2>1 DEF IInv, RunnerInv, StoredInv, HealthyCycle, Describes
  <1> QED BY <1>1, <1>2, <1>3, <1>4, <1>5, <1>6, <1>7, <1>8, <1>9, <1>10, <1>11, <1>12
          DEF Next, Collect

(* A cycle all of whose calls succeed leaves every field with the runtime  *)
(* of the last provider: Kubernetes and Docker each store every field they *)
(* describe, so nothing of the other is left, whatever earlier cycles did. *)
THEOREM CycleDescribes == Spec => []HealthyCycle
  <1>1. IInv => HealthyCycle
    BY DEF IInv
  <1> QED BY InitInv, NextInv, <1>1, PTL DEF Spec

-----------------------------------------------------------------------------
(* The provider the runner is inside of is one of the node's sources.      *)
LEMMA CalledIsSource ==
  ASSUME providers \in Nodes, at \in 1 .. Len(providers)
  PROVE  providers[at] \in Source
  BY NodesAreSequences DEF Source

LEMMA ReturnType ==
  ASSUME providers \in Nodes, at \in 1 .. Len(providers), Runner!Return
  PROVE  /\ pc' \in {"call", "rest"}
         /\ at' \in DOMAIN providers
         /\ providers' = providers
  BY NodesAreSequences DEF Runner!Return

LEMMA TypeStep == IInv /\ TypeOK /\ [Next]_vars => TypeOK'
  <1> SUFFICES ASSUME IInv, TypeOK, [Next]_vars PROVE TypeOK'
    OBVIOUS
  <1>0. /\ pc \notin {"off", "rest"} => at \in 1 .. Len(providers)
        /\ pc \notin {"off", "rest"} => providers[at] \in Source
        /\ pc \in InKubernetes => providers[at] = "Kubernetes"
        /\ pc \in InDocker => providers[at] = "Docker"
    BY CalledIsSource DEF IInv, RunnerInv
  <1>s. providers' = providers => Source' = Source
    BY DEF Source
  <1> USE DEF TypeOK, InKubernetes, InDocker, scrapeVars, Assign
  <1>1. CASE BeginCycle
    <2>1. providers # << >> => 1 \in DOMAIN providers
      BY NodesAreSequences
    <2> QED BY <1>1, <1>s, <2>1 DEF BeginCycle, Runner!BeginCycle
  <1>2. CASE AskKubernetes \/ AskDocker
    BY <1>2, <1>0, <1>s DEF AskKubernetes, AskDocker, Goto, Runner!Calls, Runner!At
  <1>3. CASE KubeVersion \/ DockerVersion
    BY <1>3, <1>0, <1>s DEF KubeVersion, DockerVersion, Goto
  <1>4. CASE KubeVersionFails \/ DockerInfoNoCluster
    BY <1>4, <1>0, <1>s DEF KubeVersionFails, DockerInfoNoCluster
  <1>5. CASE KubeCluster \/ KubeClusterFails \/ DockerFails \/ DockerInfo
    <2>1. Runner!Return /\ at \in 1 .. Len(providers)
      BY <1>5, <1>0 DEF KubeCluster, KubeClusterFails, DockerFails, DockerInfo
    <2>2. pc' \in {"call", "rest"} /\ at' \in DOMAIN providers /\ providers' = providers
      BY <2>1, ReturnType
    <2> QED BY <1>5, <1>0, <1>s, <2>2 DEF KubeCluster, KubeClusterFails, DockerFails, DockerInfo
  <1>6. CASE Scrape
    BY <1>6, <1>s DEF Scrape, BeginScrape, ReadField
  <1>7. CASE UNCHANGED vars
    BY <1>7, <1>s DEF vars
  <1> QED BY <1>1, <1>2, <1>3, <1>4, <1>5, <1>6, <1>7 DEF Next, Collect

(* A field never describes a runtime whose provider the node has not.      *)
THEOREM TypeInvariant == Spec => []TypeOK
  <1>1. Init => TypeOK
    BY DEF Init, Runner!Init, TypeOK
  <1> QED BY InitInv, NextInv, TypeStep, <1>1, PTL DEF Spec

DockerOnly == Source = {"Docker"}

(* On a node with Docker alone a store gives a field Docker's value, or    *)
(* leaves it; a scrape reads a field into the sample as it is.             *)
LEMMA CompleteKept ==
  ASSUME IInv, TypeOK, DockerOnly, Complete, [Next]_vars
  PROVE  Complete'
  <1> USE DEF Complete, Describes, TypeOK, scrapeVars
  <1>1. pc \notin InKubernetes /\ ~Runner!Calls("Kubernetes")
    BY CalledIsSource DEF IInv, RunnerInv, DockerOnly, Runner!Calls, Runner!At, InKubernetes
  <1>2. CASE BeginCycle \/ DockerVersion \/ DockerFails
    BY <1>2 DEF BeginCycle, DockerVersion, DockerFails
  <1>3. CASE AskDocker \/ DockerInfo \/ DockerInfoNoCluster
    BY <1>3 DEF AskDocker, DockerInfo, DockerInfoNoCluster, Assign
  <1>4. ~AskKubernetes /\ ~KubeVersion /\ ~KubeVersionFails /\ ~KubeCluster /\ ~KubeClusterFails
    BY <1>1 DEF InKubernetes, AskKubernetes, KubeVersion, KubeVersionFails, KubeCluster,
       KubeClusterFails
  <1>5. CASE BeginScrape
    BY <1>5 DEF BeginScrape
  <1>6. ASSUME NEW f \in Field, ReadField(f) PROVE Complete'
    BY <1>6 DEF ReadField
  <1>7. CASE UNCHANGED vars
    BY <1>7 DEF vars
  <1> QED BY <1>2, <1>3, <1>4, <1>5, <1>6, <1>7 DEF Next, Collect, Scrape

LEMMA DockerOnlyKept == DockerOnly /\ [Next]_vars => DockerOnly'
  <1> SUFFICES ASSUME [Next]_vars PROVE providers' = providers
    BY DEF DockerOnly, Source
  <1> QED BY DEF Next, Collect, Scrape, BeginCycle, AskKubernetes, KubeVersion, KubeVersionFails,
       KubeCluster, KubeClusterFails, AskDocker, DockerVersion, DockerFails, DockerInfo,
       DockerInfoNoCluster, BeginScrape, ReadField, Runner!BeginCycle, Runner!Return, Goto, vars

(* No failure erases what Docker has once described, from the fields or    *)
(* from the samples taken of them.                                         *)
THEOREM NothingIsErased == Spec => DockerStaysComplete
  <1>1. /\ IInv /\ TypeOK /\ DockerOnly /\ Complete /\ [Next]_vars
        => DockerOnly' /\ Complete'
    BY CompleteKept, DockerOnlyKept
  <1>2. Spec => []IInv
    BY InitInv, NextInv, PTL DEF Spec
  <1>3. (Source = {"Docker"}) <=> DockerOnly
    BY DEF DockerOnly
  <1> QED BY <1>1, <1>2, <1>3, TypeInvariant, PTL DEF Spec, DockerStaysComplete
=============================================================================
