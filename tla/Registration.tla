---------------------------- MODULE Registration ----------------------------
(***************************************************************************)
(* Which provider main registers with which collector, and in which order  *)
(* (serveCommand): the order in which a runner calls its providers, and    *)
(* with it who has the last word, follows from that of these calls.        *)
(***************************************************************************)
EXTENDS SequencesExt

(* The flags of the providers (cli.go), all of them on by default.         *)
Flag == {"kubernetes", "system", "ipinfo", "file", "docker"}

(* The calls of AppendAsyncDataProvider: flag, metric, and the name by     *)
(* which the module of the metric calls the function that is appended.     *)
Appended ==
  << <<"kubernetes", "orch_info",     "ocm">>,
     <<"kubernetes", "workload_info", "k8s">>,
     <<"kubernetes", "orch_info",     "nuvlaK8s">>,
     <<"kubernetes", "runtime_info",  "Kubernetes">>,
     <<"kubernetes", "host_labels",   "k8s">>,
     <<"kubernetes", "vnet_info",     "clusterLink">>,
     <<"system",     "host_info",     "system">>,
     <<"ipinfo",     "host_info",     "ipinfo">>,
     <<"file",       "host_info",     "file">>,
     <<"file",       "host_labels",   "file">>,
     <<"docker",     "workload_info", "docker">>,
     <<"docker",     "orch_info",     "nuvlaDocker">>,
     <<"docker",     "node_mounted",  "nuvla">>,
     <<"docker",     "runtime_info",  "Docker">>,
     <<"docker",     "host_labels",   "docker">> >>

(* c.Providers of the runner of a metric.  A provider is in use when its   *)
(* flag is set and, for Kubernetes and Docker, its client could be         *)
(* initialised; once left out it is left out for good.                     *)
ProvidersOf(metric, used) ==
  FoldLeft(LAMBDA s, a :
             IF a[1] \in used /\ a[2] = metric THEN Append(s, a[3]) ELSE s,
           << >>, Appended)

(* For every choice of flags, and every outcome of the initialisations.    *)
AnyOf(metric) == {ProvidersOf(metric, used) : used \in SUBSET Flag}
=============================================================================
