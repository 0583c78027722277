----------------------------- MODULE RuntimeInfo -----------------------------
(***************************************************************************)
(* The runtime_info metric of one exporter (metric_runtime_info.go): the   *)
(* fields of its RuntimeInfoCollector and the runner, which calls the      *)
(* providers of Kubernetes and Docker, each of which asks its API several  *)
(* times between its stores.                                               *)
(*                                                                         *)
(* The value of a field is the runtime it describes, or empty.  The scrape *)
(* reads the fields one by one; that a field is itself two words is left   *)
(* to module OrchScrape.                                                   *)
(***************************************************************************)
EXTENDS Integers, Sequences

CONSTANT Nodes  \* ricr.Providers, for each choice of flags

ASSUME RuntimeAssumption == Nodes \subseteq Seq({"Kubernetes", "Docker"})

VARIABLES
  info,     \* the fields of the RuntimeInfoCollector
  providers, pc, at,  \* the runner
  toRead,   \* the fields the scrape under way has still to read
  got,      \* what it has read; its sample once toRead is empty again
  process,
  failed    \* history: an API call of the current cycle has failed

vars == <<info, providers, pc, at, toRead, got, process, failed>>

scrapeVars == <<toRead, got>>

Runner == INSTANCE CollectorRunner

Field == {"Type", "Version", "NodeName", "ClusterId"}

Source == {providers[k] : k \in DOMAIN providers}

TypeOK ==
  /\ providers \in Nodes
  /\ info \in [Field -> Source \cup {""}]
  /\ pc \in {"off", "call", "kubeVersion", "kubeCluster", "dockerVersion",
             "dockerInfo", "rest"}
  /\ at \in {1} \cup DOMAIN providers
  /\ toRead \in SUBSET Field
  /\ got \in [Field -> Source \cup {""}]
  /\ process \in {"up", "crashed"}
  /\ failed \in BOOLEAN

Init ==
  /\ info = [f \in Field |-> ""]
  /\ providers \in Nodes
  /\ Runner!Init
  /\ toRead = {}
  /\ got = [f \in Field |-> ""]
  /\ process = "up"
  /\ failed = FALSE

Assign(fields, v) ==
  info' = [f \in Field |-> IF f \in fields THEN v ELSE info[f]]

Goto(l) == pc' = l /\ UNCHANGED <<providers, at>>

BeginCycle ==
  /\ Runner!BeginCycle
  /\ failed' = FALSE
  /\ UNCHANGED <<info, scrapeVars, process>>

-----------------------------------------------------------------------------
(* Kubernetes.                                                             *)

AskKubernetes ==
  /\ Runner!Calls("Kubernetes")
  /\ Assign({"Type"}, "Kubernetes")
  /\ Goto("kubeVersion")
  /\ UNCHANGED <<scrapeVars, process, failed>>

(* Faulty: the node is not assigned.                                       *)
KubeVersionForgetsNode ==
  /\ pc = "kubeVersion"
  /\ Assign({"Version"}, "Kubernetes")
  /\ Goto("kubeCluster")
  /\ UNCHANGED <<scrapeVars, process, failed>>

KubeVersion ==
  /\ pc = "kubeVersion"
  /\ Assign({"Version", "NodeName"}, "Kubernetes")
  /\ Goto("kubeCluster")
  /\ UNCHANGED <<scrapeVars, process, failed>>

(* The error is logged, then the version, which is nil, is dereferenced.   *)
KubeVersionFails ==
  /\ pc = "kubeVersion"
  /\ process' = "crashed"
  /\ failed' = TRUE
  /\ UNCHANGED <<info, providers, pc, at, scrapeVars>>

KubeCluster ==
  /\ pc = "kubeCluster"
  /\ Assign({"ClusterId"}, "Kubernetes")
  /\ Runner!Return
  /\ UNCHANGED <<scrapeVars, process, failed>>

(* The error is dropped: the namespace is empty, and so is its UID.        *)
KubeClusterFails ==
  /\ pc = "kubeCluster"
  /\ Assign({"ClusterId"}, "")
  /\ Runner!Return
  /\ failed' = TRUE
  /\ UNCHANGED <<scrapeVars, process>>

-----------------------------------------------------------------------------
(* Docker.                                                                 *)

AskDocker ==
  /\ Runner!Calls("Docker")
  /\ Assign({"Type"}, "Docker")
  /\ Goto("dockerVersion")
  /\ UNCHANGED <<scrapeVars, process, failed>>

DockerVersion ==
  /\ pc = "dockerVersion"
  /\ Goto("dockerInfo")
  /\ UNCHANGED <<info, scrapeVars, process, failed>>

(* Faulty: what a failed call does not give is stored as empty.            *)
DockerFailsErases ==
  /\ pc \in {"dockerVersion", "dockerInfo"}
  /\ Assign({"Version", "NodeName", "ClusterId"}, "")
  /\ Runner!Return
  /\ failed' = TRUE
  /\ UNCHANGED <<scrapeVars, process>>

(* Either call fails: the provider returns, the type already stored.       *)
DockerFails ==
  /\ pc \in {"dockerVersion", "dockerInfo"}
  /\ Runner!Return
  /\ failed' = TRUE
  /\ UNCHANGED <<info, scrapeVars, process>>

(* Faulty: the version is not assigned.                                    *)
DockerInfoForgetsVersion ==
  /\ pc = "dockerInfo"
  /\ Assign({"NodeName", "ClusterId"}, "Docker")
  /\ Runner!Return
  /\ UNCHANGED <<scrapeVars, process, failed>>

DockerInfo ==
  /\ pc = "dockerInfo"
  /\ Assign({"Version", "NodeName", "ClusterId"}, "Docker")
  /\ Runner!Return
  /\ UNCHANGED <<scrapeVars, process, failed>>

(* A daemon that is no swarm manager, or not any more, reports no cluster. *)
(* That nil pointer is dereferenced, after version and node are stored.    *)
DockerInfoNoCluster ==
  /\ pc = "dockerInfo"
  /\ Assign({"Version", "NodeName"}, "Docker")
  /\ process' = "crashed"
  /\ UNCHANGED <<providers, pc, at, scrapeVars, failed>>

-----------------------------------------------------------------------------
(* The scrape: nothing is observed while Type is empty.                    *)

BeginScrape ==
  /\ toRead = {}
  /\ info["Type"] # ""
  /\ toRead' = Field
  /\ UNCHANGED <<info, providers, pc, at, got, process, failed>>

ReadField(f) ==
  /\ f \in toRead
  /\ toRead' = toRead \ {f}
  /\ got' = [got EXCEPT ![f] = info[f]]
  /\ UNCHANGED <<info, providers, pc, at, process, failed>>

-----------------------------------------------------------------------------
Collect ==
  \/ BeginCycle
  \/ AskKubernetes \/ KubeVersion \/ KubeVersionFails \/ KubeCluster
  \/ KubeClusterFails
  \/ AskDocker \/ DockerVersion \/ DockerFails \/ DockerInfo
  \/ DockerInfoNoCluster

Scrape == BeginScrape \/ \E f \in Field : ReadField(f)

Next == process = "up" /\ (Collect \/ Scrape)

Spec == Init /\ [][Next]_vars

(* The runtime schedules the runner, its sleep ends, Prometheus keeps      *)
(* scraping, and a call that is made again and again succeeds in the end.  *)
Fairness ==
  /\ WF_vars(process = "up" /\ Collect)
  /\ WF_vars(process = "up" /\ Scrape)
  /\ SF_vars(process = "up" /\ DockerVersion)
  /\ SF_vars(process = "up" /\ DockerInfo)
  /\ SF_vars(process = "up" /\ KubeCluster)

FairSpec == Spec /\ Fairness

-----------------------------------------------------------------------------
(* Properties.                                                             *)

Describes(fields, r) == \A f \in Field : fields[f] = r

(* A cycle all of whose calls succeed leaves every field with the runtime  *)
(* of the last provider, whatever earlier cycles left.                     *)
HealthyCycle ==
  pc = "rest" /\ ~failed =>
    providers = << >> \/ Describes(info, providers[Len(providers)])

(* On a node with Docker alone the published sample is complete in the end *)
(* and stays so, however often a call fails: a failure erases nothing.     *)
DockerCompletes ==
  <>[](Source = {"Docker"} =>
         process # "up" \/ toRead # {} \/ Describes(got, "Docker"))

(* The part of it that no fairness is needed for: once the fields and what *)
(* the scrape has read of them are complete, no failed call, and no scrape *)
(* between two stores, makes any later sample incomplete.                  *)
Complete ==
  Describes(info, "Docker") /\ \A f \in Field \ toRead : got[f] = "Docker"

DockerStaysComplete ==
  [](Source = {"Docker"} /\ Complete => []Complete)

(* On a node with Kubernetes alone a failed look-up of the cluster erases   *)
(* the cluster's id, and a failed ServerVersion ends the process; unless    *)
(* it does, the fields are all there again, after whatever failures.        *)
KubernetesRecovers ==
  []<>(Source = {"Kubernetes"} => process # "up" \/ Describes(info, "Kubernetes"))

(* "publish information about the runtime (Docker/Kubernetes) running on   *)
(* the node" (README.md:14): a Docker daemon that answers every call is    *)
(* one that the exporter can describe, and the exporter survives it.       *)
SurvivesDocker ==
  ~failed => process = "up"
=============================================================================
