--------------------------- MODULE MCListMetrics ---------------------------
(* Instance of ListMetrics for TLC: the workloads of nodes with Docker,    *)
(* with Kubernetes, with both; the peripherals of a node with Docker.      *)
EXTENDS ListMetrics, Registration

AllNodes == {<< >>, <<"docker">>, <<"k8s">>, <<"k8s", "docker">>, <<"nuvla">>}

ASSUME Registered ==
  AllNodes = AnyOf("workload_info") \cup AnyOf("node_mounted")

In(i, s) == [id |-> i, state |-> s]

Items ==
  [k8s    |-> {In("pod1", "Running"), In("pod2", "Running")},
   docker |-> {In("ctr1", "paused"), In("ctr1", "running"), In("ctr2", "exited")},
   nuvla  |-> {In("usb1", "available"), In("usb1", "unavailable"),
               In("usb2", "available"), In("disk", "notUsb")}]
=============================================================================
