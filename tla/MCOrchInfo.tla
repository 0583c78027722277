----------------------------- MODULE MCOrchInfo -----------------------------
(* Instance of OrchInfo for TLC: the Kubernetes provider, in main's order. *)
EXTENDS OrchInfo, Registration

K8sOnly == <<"ocm", "nuvlaK8s">>

ASSUME Registered == K8sOnly = ProvidersOf("orch_info", {"kubernetes"})

Pods == {<< >>, <<"o1", "o2">>, <<"o2", "bare">>, <<"partial", "o1">>}

AllNuvlaStates == NuvlaAgent \cup NuvlaFaults
=============================================================================
