---------------------------- MODULE MCOrchScrape ----------------------------
(* Instances of OrchScrape for TLC: the providers of a Kubernetes node,    *)
(* and of a Docker node.                                                   *)
EXTENDS OrchScrape, Registration

K8sOnly    == <<"ocm", "nuvlaK8s">>
DockerOnly == <<"nuvlaDocker">>

ASSUME Registered ==
  /\ K8sOnly = ProvidersOf("orch_info", {"kubernetes"})
  /\ DockerOnly = ProvidersOf("orch_info", {"docker"})

NoPods == {<< >>}
Pods   == {<< >>, <<"o1">>}

AllNuvlaStates == NuvlaAgent \cup NuvlaFaults
WellFormed     == NuvlaAgent \cup {"absent"}
=============================================================================
