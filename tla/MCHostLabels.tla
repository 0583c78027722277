---------------------------- MODULE MCHostLabels ----------------------------
(* Instance of HostLabels for TLC: a Kubernetes node (with Docker's        *)
(* provider off, or not initialised), one static label, given twice, and   *)
(* two arguments that are not of the form name=value.                      *)
EXTENDS HostLabels, Registration

CONSTANTS k1, k2, v1, v2

K8sNode == <<"k8s", "file">>

ASSUME Registered == K8sNode = ProvidersOf("host_labels", Flag \ {"docker"})

StaticK2 == [k \in Key |-> IF k = k2 THEN v1 ELSE Absent]

K2Twice == << <<k2, v2>>, <<k1>>, <<k2, v1>>, <<k1, v1, v2>> >>

(* The parser, against what it comes to, for up to three entries.          *)
Entry == UNION {[1 .. n -> {k1, k2, v1}] : n \in 1 .. 3}

ASSUME ParserTakesLast ==
  \A n \in 0 .. 2 : \A entries \in [1 .. n -> {e \in Entry : e[1] \in Key}] :
    Parser!LastOfEachName(entries, Parser!Parse(entries))
=============================================================================
