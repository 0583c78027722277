---------------------------- MODULE ListMetrics ----------------------------
(***************************************************************************)
(* The two metrics of an exporter that are lists: workload_info            *)
(* (metric_workload_info.go), whose slice RunningWorkloads the providers   *)
(* of Kubernetes and Docker replace in turn, and node_mounted              *)
(* (metric_node_mounted.go), whose slice AttachedPeripherals the provider  *)
(* of Docker replaces with what it reads in a file of NuvlaEdge.  A        *)
(* behaviour is that of one of the two: its runner and the scrape that     *)
(* ranges over its slice.  Names, paths and annotations go with the id.    *)
(*                                                                         *)
(* A Go slice is a pointer and a length (the capacity is not read), two    *)
(* words that are stored one at a time and in any order.  What the pointer *)
(* leads to is not written any more once it is stored.                     *)
(***************************************************************************)
EXTENDS Integers, SequencesExt

CONSTANTS
  Item,       \* what each source may list: an id and a state it may be in
  Nodes,      \* wicr.Providers or pecr.Providers, for each choice of flags
  MaxChanges  \* bound on the changes of the world (exploration bound)

ASSUME ListAssumption ==
  /\ Nodes \subseteq Seq({"k8s", "docker"}) \cup {<< >>, <<"nuvla">>}
  /\ DOMAIN Item = {"k8s", "docker", "nuvla"}
  /\ \A p \in DOMAIN Item : \A w \in Item[p] : DOMAIN w = {"id", "state"}
  /\ \A w \in Item["nuvla"] : w.state \in {"available", "unavailable", "notUsb"}
  /\ MaxChanges \in Nat

VARIABLES
  array, length,  \* the collector's slice: what it points to, its length
  providers, pc, at,  \* the runner
  result,         \* res, the list its provider has made
  toStore,        \* the words of the slice its provider has still to store
  scrape,         \* the scrape: "idle", "range", "done"
  slice,          \* the slice it ranges over
  got,            \* the items it has observed; its sample when "done"
  process,
  world,          \* what there is to list, in the order of each source
  readable,       \* the peripherals file is there and is JSON
  changes,
  undisturbed     \* history: the runner's cycle has seen one world

runnerVars == <<providers, pc, at, result, toStore>>
scrapeVars == <<scrape, slice, got>>
worldVars  == <<world, readable, changes>>

vars == <<array, length, runnerVars, scrapeVars, process, worldVars, undisturbed>>

Runner == INSTANCE CollectorRunner

Source == {providers[k] : k \in DOMAIN providers}

(* k8sStatus2WIStatus.                                                     *)
PodStatus(state) ==
  CASE state = "Pending"   -> "pending"
    [] state = "Running"   -> "running"
    [] state = "Succeeded" -> "exited"
    [] state = "Failed"    -> "failed"
    [] OTHER               -> "unknown"

(* dockerStatus2WIStatus.                                                  *)
ContainerStatus(state) ==
  CASE state \in {"created", "restarting", "paused"} -> "pending"
    [] state = "running" -> "running"
    [] state = "exited"  -> "exited"
    [] state = "dead"    -> "failed"
    [] OTHER             -> "unknown"

(* The value that is observed for a peripheral, 1 or 0, is its status.     *)
Status ==
  {"pending", "running", "exited", "failed", "unknown", "available", "unavailable"}

Converted(p, w) ==
  [id |-> w.id,
   status |-> CASE p = "k8s"    -> PodStatus(w.state)
                [] p = "docker" -> ContainerStatus(w.state)
                [] OTHER        -> w.state]

(* The USB peripherals of a file, which is an object: its entries come in  *)
(* any order.                                                              *)
Peripherals(list) ==
  {Converted("nuvla", w) : w \in {v \in Range(list) : v.state # "notUsb"}}

(* The lists a provider may make of what it has listed.                    *)
Listed(p, list) ==
  IF p = "nuvla"
  THEN SetToSeqs(Peripherals(list))
  ELSE {[n \in DOMAIN list |-> Converted(p, list[n])]}

(* Faulty: what was listed last time is kept.                              *)
MadeOfKept(p, list) == {array \o l : l \in Listed(p, list)}

(* What a provider stores.                                                 *)
MadeOf(p, list) == Listed(p, list)

(* A source has each of its items once; exploration stops at two.          *)
Listing(p) ==
  UNION {{l \in [1 .. n -> Item[p]] :
            \A a, b \in 1 .. n : l[a].id = l[b].id => a = b} : n \in 0 .. 2}

Info == [id : {w.id : w \in UNION {Item[p] : p \in Source}}, status : Status]

(* What lies behind the end of an array.                                   *)
Garbage == [id |-> "garbage", status |-> "unknown"]

TypeOK ==
  /\ providers \in Nodes
  /\ array \in Seq(Info)
  /\ length \in Nat
  /\ pc \in {"off", "call", "store", "rest"}
  /\ at \in {1} \cup DOMAIN providers
  /\ result \in Seq(Info)
  /\ toStore \in SUBSET {"array", "length"}
  /\ scrape \in {"idle", "range", "done"}
  /\ slice.array \in Seq(Info) /\ slice.length \in Nat
  /\ got \in Seq(Info \cup {Garbage}) /\ Len(got) <= slice.length
  /\ process \in {"up", "crashed"}
  /\ DOMAIN world = Source /\ \A p \in Source : world[p] \in Listing(p)
  /\ readable \in BOOLEAN
  /\ changes \in 0 .. MaxChanges
  /\ undisturbed \in BOOLEAN

Init ==
  /\ array = << >>
  /\ length = 0
  /\ providers \in Nodes
  /\ Runner!Init
  /\ result = << >>
  /\ toStore = {}
  /\ scrape = "idle"
  /\ slice = [array |-> << >>, length |-> 0]
  /\ got = << >>
  /\ process = "up"
  /\ world \in {l \in [Source -> UNION {Listing(p) : p \in Source}] :
                 \A p \in Source : l[p] \in Listing(p)}
  /\ readable \in (IF "nuvla" \in Source THEN BOOLEAN ELSE {TRUE})
  /\ changes = 0
  /\ undisturbed = FALSE

-----------------------------------------------------------------------------
(* The runner.                                                             *)

BeginCycle ==
  /\ Runner!BeginCycle
  /\ undisturbed' = TRUE
  /\ UNCHANGED <<array, length, result, toStore, scrapeVars, process, worldVars>>

(* A provider has made its list and is about to store it.                  *)
Make(p, list) ==
  /\ result' \in MadeOf(p, list)
  /\ pc' = "store"
  /\ toStore' = {"array", "length"}
  /\ UNCHANGED <<array, length, providers, at, scrapeVars, process, worldVars>>

(* KubernetesProvider.ProvideWorkloadInfo.  An error is dropped and reads  *)
(* as no pods.                                                             *)
ListPods ==
  /\ Runner!Calls("k8s")
  /\ \E seen \in {world["k8s"], << >>} :
       /\ Make("k8s", seen)
       /\ undisturbed' = (undisturbed /\ seen = world["k8s"])

(* DockerProvider.ProvideWorkloadInfo.                                     *)
ListContainers ==
  /\ Runner!Calls("docker")
  /\ Make("docker", world["docker"])
  /\ UNCHANGED undisturbed

(* An error panics.                                                        *)
ListContainersFails ==
  /\ Runner!Calls("docker")
  /\ process' = "crashed"
  /\ UNCHANGED <<array, length, runnerVars, scrapeVars, worldVars, undisturbed>>

(* ProvideNuvlaAttachedPeripherals.                                        *)
ReadPeripherals ==
  /\ Runner!Calls("nuvla")
  /\ readable
  /\ Make("nuvla", world["nuvla"])
  /\ UNCHANGED undisturbed

(* A file that is not there or not JSON: an early return.                  *)
ReadPeripheralsFails ==
  /\ Runner!Calls("nuvla")
  /\ ~readable
  /\ Runner!Return
  /\ UNCHANGED <<array, length, result, toStore, scrapeVars, process, worldVars,
                 undisturbed>>

StoreWord ==
  /\ pc = "store"
  /\ \E w \in toStore :
       /\ toStore' = toStore \ {w}
       /\ array' = IF w = "array" THEN result ELSE array
       /\ length' = IF w = "length" THEN Len(result) ELSE length
  /\ UNCHANGED <<providers, pc, at, result, scrapeVars, process, worldVars,
                 undisturbed>>

Stored ==
  /\ pc = "store"
  /\ toStore = {}
  /\ Runner!Return
  /\ UNCHANGED <<array, length, result, toStore, scrapeVars, process, worldVars,
                 undisturbed>>

-----------------------------------------------------------------------------
(* The scrape.                                                             *)

(* range evaluates the slice once.                                         *)
BeginScrape ==
  /\ scrape \in {"idle", "done"}
  /\ scrape' = "range"
  /\ slice' = [array |-> array, length |-> length]
  /\ got' = << >>
  /\ UNCHANGED <<array, length, runnerVars, process, worldVars, undisturbed>>

(* A length that is not the array's leads behind its end: to a nil pointer *)
(* or to memory that is something else.                                    *)
ObserveNext ==
  /\ scrape = "range"
  /\ Len(got) < slice.length
  /\ LET n == Len(got) + 1 IN
     IF n <= Len(slice.array)
     THEN got' = Append(got, slice.array[n]) /\ UNCHANGED process
     ELSE \/ got' = Append(got, Garbage) /\ UNCHANGED process
          \/ process' = "crashed" /\ UNCHANGED got
  /\ UNCHANGED <<array, length, runnerVars, scrape, slice, worldVars, undisturbed>>

EndScrape ==
  /\ scrape = "range"
  /\ Len(got) = slice.length
  /\ scrape' = "done"
  /\ UNCHANGED <<array, length, runnerVars, slice, got, process, worldVars,
                 undisturbed>>

-----------------------------------------------------------------------------
(* Workloads start, change their state and end, peripherals are plugged    *)
(* and unplugged.                                                          *)
Change(p) ==
  /\ changes < MaxChanges
  /\ changes' = changes + 1
  /\ \E l \in Listing(p) \ {world[p]} : world' = [world EXCEPT ![p] = l]
  /\ undisturbed' = FALSE
  /\ UNCHANGED <<array, length, runnerVars, scrapeVars, process, readable>>

(* The peripherals file is damaged or removed, or written again.           *)
Damage ==
  /\ "nuvla" \in Source
  /\ changes < MaxChanges
  /\ changes' = changes + 1
  /\ readable' = ~readable
  /\ undisturbed' = FALSE
  /\ UNCHANGED <<array, length, runnerVars, scrapeVars, process, world>>

Collect ==
  \/ BeginCycle
  \/ ListPods \/ ListContainers \/ ListContainersFails
  \/ ReadPeripherals \/ ReadPeripheralsFails
  \/ StoreWord \/ Stored

Scrape == BeginScrape \/ ObserveNext \/ EndScrape

Next ==
  /\ process = "up"
  /\ Collect \/ Scrape \/ Damage \/ \E p \in Source : Change(p)

Spec == Init /\ [][Next]_vars

(* The runtime schedules the runner, its sleep ends, Prometheus keeps      *)
(* scraping.                                                               *)
Fairness ==
  /\ WF_vars(process = "up" /\ Collect)
  /\ WF_vars(process = "up" /\ Scrape)

FairSpec == Spec /\ Fairness

-----------------------------------------------------------------------------
(* Properties.                                                             *)

(* A cycle that saw one world, in which every list was answered and a      *)
(* peripherals file could be read, leaves the items of the last source, no *)
(* more and no fewer, with their states, whatever was there before.        *)
(* Between the stores, the two words of the slice belong together.         *)
LastSourcePrevails ==
  /\ pc # "store" => length = Len(array)
  /\ undisturbed /\ pc = "rest" /\ providers # << >> /\ readable =>
       array \in Listed(Last(providers), world[Last(providers)])

(* On a node with one source that never fails for good (Docker, whose      *)
(* failure ends the process, or a peripherals file that stays readable),   *)
(* once its items change no more, the sample comes to be and stays exactly *)
(* them: replacing the list by an equal one, word by word, or by another   *)
(* order of it, does not disturb a range over it.                          *)
ListSettles ==
  <>[](Source \in {{"docker"}, {"nuvla"}} /\ readable =>
         \/ process # "up" \/ scrape # "done"
         \/ \E p \in Source : got \in Listed(p, world[p]))
=============================================================================
