--------------------------- MODULE ClusterMetrics ---------------------------
(***************************************************************************)
(* The election of LeaderElection composed with what it is for: the metric *)
(* of the cluster, vnet_info, which only the leader collects.  For every   *)
(* pod: the fields of its VNetInfoCollector and the two goroutines that    *)
(* call ProvideVNetInfo, its runner and the one of OnStartedLeading.  For  *)
(* the cluster: the ClusterLink they look for (its control plane and the   *)
(* certificate in the secret cl-peer).                                     *)
(*                                                                         *)
(* A call of ProvideVNetInfo takes time: the link may change, or the call  *)
(* fail, between the gate, the look-up and the store.  A certificate       *)
(* stands for its issuer and its subject, which are stored one after the   *)
(* other; what a scrape gets of fields that are being stored is the        *)
(* subject of OrchScrape.                                                  *)
(***************************************************************************)
EXTENDS LeaderElection

CONSTANTS
  Caller,     \* the goroutines of a process that call ProvideVNetInfo: its
              \* runner, and the listener that OnStartedLeading calls
  Link,       \* the certificates a ClusterLink may have
  NoLink      \* the fields as they are before the first collection

(* What there is to find, other than a certificate:                        *)
(*   "none"   no namespace, no running control plane, no secret, or a      *)
(*            certificate that cannot be parsed                            *)
(*   "noPem"  a secret without a PEM block                                 *)
Found == Link \cup {"none", "noPem"}

(* A caller is not in ProvideVNetInfo (or not past its gate), is looking,  *)
(* or has found a certificate that it has yet to store.                    *)
Call == Link \cup {"returned", "looking"}

ASSUME LinkAssumption ==
  /\ Link \cap {"none", "noPem", "returned", "looking"} = {}
  /\ NoLink \notin Link

VARIABLES
  vnet,    \* the fields of each pod's VNetInfoCollector
  calling, \* where each pod's callers of ProvideVNetInfo are
  link     \* the ClusterLink

memory      == <<vnet, calling>>
clusterVars == <<vars, memory, link>>

NoCall == [c \in Caller |-> "returned"]

ClusterTypeOK ==
  /\ vnet \in [Pod -> Link \cup {NoLink}]
  /\ calling \in [Pod -> [Caller -> Call]]
  /\ link \in Found

ClusterInit ==
  /\ Init
  /\ vnet = [i \in Pod |-> NoLink]
  /\ calling = [i \in Pod |-> NoCall]
  /\ link \in Found

-----------------------------------------------------------------------------
(* The election, and what it does to the memory of the process.            *)

Elect(i) ==
  /\ ElectorStep(i) \/ OnStartedLeading(i)
  /\ UNCHANGED <<memory, link>>

(* What a process had collected ends with it.                              *)
Forget(i) ==
  /\ vnet' = [vnet EXCEPT ![i] = NoLink]
  /\ calling' = [calling EXCEPT ![i] = NoCall]

End(i) == ProcessEnds(i) /\ Forget(i) /\ UNCHANGED link

-----------------------------------------------------------------------------
(* ProvideVNetInfo.                                                        *)

Advance(i, c, call) == calling' = [calling EXCEPT ![i][c] = call]

(* Faulty: the gate is not read.                                           *)
Ungated(i, c) ==
  /\ calling[i][c] = "returned"
  /\ phase[i] # "off"
  /\ Advance(i, c, "looking")
  /\ UNCHANGED <<vars, vnet, link>>

(* The gate is read once, and found open.  The runner calls whenever its   *)
(* interval is over, the listener some time after OnStartedLeading (here:  *)
(* at any time, any number of times).                                      *)
Gate(i, c) ==
  /\ calling[i][c] = "returned"
  /\ iAmTheLeader[i]
  /\ Advance(i, c, "looking")
  /\ UNCHANGED <<vars, vnet, link>>

(* Faulty: an early return is missing, and nothing is stored as if it were *)
(* a certificate.                                                          *)
StoreNothing(i, c) ==
  /\ calling[i][c] = "looking"
  /\ vnet' = [vnet EXCEPT ![i] = "none"]
  /\ Advance(i, c, "returned")
  /\ UNCHANGED <<vars, link>>

(* An early return, which leaves the fields alone: there is nothing to be  *)
(* found, or a call to the API server fails, whatever there is.            *)
LookInVain(i, c) ==
  /\ calling[i][c] = "looking"
  /\ Advance(i, c, "returned")
  /\ UNCHANGED <<vars, vnet, link>>

(* The last look-up, of the secret, is answered.                           *)
LookUp(i, c) ==
  /\ calling[i][c] = "looking"
  /\ link \in Link
  /\ Advance(i, c, link)
  /\ UNCHANGED <<vars, vnet, link>>

(* What it found is stored, whatever has become of the link since, of the  *)
(* leadership, and of the fields, which the other caller stores, too.      *)
StoreLink(i, c) ==
  /\ calling[i][c] \in Link
  /\ vnet' = [vnet EXCEPT ![i] = calling[i][c]]
  /\ Advance(i, c, "returned")
  /\ UNCHANGED <<vars, link>>

(* pem.Decode gives nil, which is dereferenced: the process dies.          *)
LookPanics(i, c) ==
  /\ calling[i][c] = "looking"
  /\ link = "noPem"
  /\ Crash(i)
  /\ Forget(i)
  /\ UNCHANGED link

-----------------------------------------------------------------------------
(* The ClusterLink is set up, renewed, damaged, removed.                   *)
ChangeLink ==
  /\ link' \in Found \ {link}
  /\ UNCHANGED <<vars, memory>>

ClusterTick == Tick /\ UNCHANGED <<memory, link>>

Provide(i, c) ==
  \/ Gate(i, c) \/ LookInVain(i, c) \/ LookUp(i, c)
  \/ StoreLink(i, c) \/ LookPanics(i, c)

ClusterNext ==
  \/ ClusterTick
  \/ ChangeLink
  \/ \E i \in Pod : Elect(i) \/ End(i) \/ \E c \in Caller : Provide(i, c)

ClusterSpec == ClusterInit /\ [][ClusterNext]_clusterVars

(* As in LeaderElection; and when pods are elected again and again, one or *)
(* the other gets to read the gate (its OnStartedLeading goroutine is      *)
(* ready to), to the end of its look-ups (calls may fail, but not for      *)
(* ever), and to its stores, however short the terms are.                  *)
ClusterFairness ==
  /\ Fairness
  /\ SF_clusterVars(\E i \in Pod, c \in Caller : Gate(i, c))
  /\ SF_clusterVars(\E i \in Pod, c \in Caller : LookUp(i, c))
  /\ SF_clusterVars(\E i \in Pod, c \in Caller : StoreLink(i, c))

ClusterFairSpec == ClusterSpec /\ ClusterFairness

-----------------------------------------------------------------------------
(* Properties.                                                             *)

Publishes(i) == vnet[i] # NoLink

(* Only a pod in office or on its way out has data of the cluster to       *)
(* publish, collected in this term of office: what an earlier term left    *)
(* behind went with the process, and no look-up, however slow, outlives    *)
(* it.  Two pods publish only while one of them leaves or is a latecomer.  *)
OneExporterButForHandover ==
  /\ \A i \in Pod : Publishes(i) => Renewing(i) \/ Leaving(i)
  /\ \A i, j \in Pod :
       Publishes(i) /\ Publishes(j) /\ i # j =>
         \E k \in {i, j} : Leaving(k) \/ late[k]

(* Its inductive strengthening: a call that got past the gate, too,        *)
(* belongs to a pod that won the lease.                                    *)
CallInv ==
  \A i \in Pod :
    Publishes(i) \/ calling[i] # NoCall => Renewing(i) \/ Leaving(i)

(* A ClusterLink that stays is published in the end, again after whatever  *)
(* ends a leader.                                                          *)
LinkPublished ==
  \A l \in Link : <>[](link = l) => []<>(\E i \in Pod : vnet[i] = l)
=============================================================================
