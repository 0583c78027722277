# Verification of the Telemetruum Leaf Exporter

TLA+ models, TLC runs and TLAPS proofs of the ICOS Telemetruum Leaf Exporter, a
Go program that runs on every node (a DaemonSet pod on Kubernetes, a container
on Docker). *Providers* ask the node, its runtime and its cluster for facts,
*collectors* keep them in fields that nothing locks, and a Prometheus scrape
reads the fields at any moment. On Kubernetes the pods elect one leader, which
alone collects the facts about the cluster.

Sections: [inventory](#1-inventory), [modules](#2-modules),
[runs](#3-runs), [proofs](#4-proofs), [assumptions](#5-assumptions),
[disagreements](#6-where-the-program-and-its-documentation-disagree),
[what is not modelled](#7-not-modelled), [plan](#8-plan).
Paths are relative to `src/`; files without a directory are in `src/modules/`.

## 1. Inventory

| Component | Source | State it keeps | Operations | Interacts with |
| --- | --- | --- | --- | --- |
| Leader election | `provider_k8s.go:337-388` | the Lease, `iAmTheLeader`, the elector's timers | acquire, renew, give up, release; `OnStartedLeading`, `OnStoppedLeading` | all pods, through the Lease; the gate of two providers |
| Process lifecycle, leader hook | `main.go:93-277`, `provider_k8s.go:65-124,333-372`, `provider_docker.go:44-53` | `leaderElectionListeners`, the goroutines, the signal channel | initialise the clients, start providers, register the listener, start collectors and server, wait for a signal, cancel, return | election, collectors, server |
| Collector runner | `common.go:35-76` | `Providers`, `Interval` | `Start`: call the providers in order, sleep, repeat; `Init`: register the observation | every provider and collector |
| orch_info | `metric_orch_info.go`, `provider_k8s.go:209-279`, `common.go:92-119`, `provider_docker.go:101-104` | type, agent id, agent name | three providers, called by the runner and by the election's listener; the scrape | runner, listener, scrape |
| host_labels | `metric_host_labels.go`, `provider_k8s.go:130-148`, `provider_files.go:55-90`, `provider_docker.go:106-124` | the map `Labels`, the static labels | three providers that add to the map; the scrape that ranges over it | runner, scrape |
| runtime_info | `metric_runtime_info.go`, `provider_k8s.go:150-163`, `provider_docker.go:126-144` | type, version, node, cluster | two providers, several API calls each; the scrape | runner, scrape |
| workload_info | `metric_workload_info.go`, `provider_k8s.go:165-207`, `provider_docker.go:58-99` | the slice `RunningWorkloads` | two providers that replace it; the scrape that ranges over it | runner, scrape |
| host_info | `metric_host_info.go`, `provider_system.go`, `provider_ipinfo.go`, `provider_files.go:43-53,92-120` | location, address, id and the facts of the host | three providers; the scrape | runner, ip-api.com, three files, scrape |
| vnet_info | `metric_vnet_info.go`, `provider_k8s.go:281-331` | provider, node, name | one provider, behind the gate; the scrape | runner, listener, scrape |
| node_mounted | `metric_node_mounted.go`, `provider_docker.go:146-190` | the slice of peripherals | one provider that replaces it; the scrape | runner, scrape |
| info | `metric_info.go` | none | the scrape splits a flag | - |
| Command line | `cli/cli.go`, `main.go:161-251` | the flags | parsed once | decides which providers are registered with which collector, in which order |
| HTTP server, OpenTelemetry | `main.go:41-58` | - | serves scrapes | calls every `CreateObservations` |

What is hard in it, and what correctness means for each part:

* **Leader election.** A lease is only as good as its clocks: a leader must
  stop believing in its lease before another pod may take it over, even when the
  answer to a renewal came late. The answer to an acquisition may come at any
  time, since the code configures no deadline for it: a *latecomer* takes itself
  for the leader of a lease that is another pod's by now, until its first renew
  loop fails. The two callbacks run in different goroutines, `os.Exit` ends one of
  them, `main` can return before the lease is released, and the server can grant
  a lease to a pod that never learns of it. Correct: one pod in office at a time
  but for latecomers, the gate open in two pods only because of one, or during a
  handover, and always some leader again.
* **Process and leader hook.** `main` starts the election *before* it registers
  the listener, and before it asks Docker anything; it answers a signal only
  when it has started everything. Correct: no election goes unnoticed, what the
  leader alone collects is collected and served at once, not one interval later,
  and a SIGTERM ends the process however early it came.
* **The leader's metrics.** The gate is read once, then several calls are made;
  the election may be lost in between, the ClusterLink may go, and a damaged
  secret ends the process, one leader after the other. Correct: only a pod in
  office or on its way out publishes data of the cluster, and a ClusterLink that
  stays is published, whoever leads and however leaders end.
* **Collectors.** Two or three providers write one collector in turn; an early
  return leaves the fields half written; the leader's listener calls a provider
  while the runner calls it too; a scrape reads in between. Correct: the order
  in which `main` appends the providers is their precedence; a cycle without a
  failure repairs whatever was there before; what does not change any more is
  published in the end, undisturbed by being stored again and again.

`PROJECT.json` lists each hazard at its line, with the property that would
catch it, or the reason why none does.

## 2. Modules

```
SingleLeader  <-- refined by --  LeaderElection        (all pods, the Lease)
                                   ^-- ClusterMetrics  (and what the leader publishes)
PodTerm       <-- refined by --  LeaderElection        (each pod of it)
              <-- refined by --  LeaderHook            (one process, start to end)
StringFields  --> OrchInfo --> OrchScrape              (orch_info)
CollectorRunner --> HostLabels, RuntimeInfo, ListMetrics, HostInfo
NameValue     --> HostLabels                           (and the metric info)
Registration  --> every MC module that fixes a sequence of providers
```

Every `MC...` module EXTENDS a module and defines the values its `.cfg` gives to
constants. Definitions called *faulty* in their comment are mistakes one could
make in the code; no behaviour uses them. They are there to show that the
property they are paired with (`mutants` in `PROJECT.json`) notices them.

**SingleLeader.** What an election promises: one office; it is taken when
vacant and left before it is taken again. Beside its holder there may be
latecomers, who withdraw, or take the office when it is vacant; nobody else's
office is taken, and no leader turns into a latecomer.

**PodTerm.** What the election promises to the process it runs in: a process is
a candidate, wins once at most, leaves and ends; the goroutine that the victory
spawns opens the gate once. `LeaderElection` knows the lease and the clocks but
not what `main` does with the election, `LeaderHook` knows `main` but reduces the
election to winning and losing. Both implement `PodTerm`: it is the contract
between them, and what keeps the small elector of the one honest to the large
elector of the other.

**LeaderElection.** All pods at once, each with one process.

| Model | Code |
| --- | --- |
| `holder`, `leaseAge` | `HolderIdentity` of the Lease, and the time since its last write |
| `phase`, `timer`, `renewed` | the elector of client-go; not in the repository, modelled from the configuration `provider_k8s.go:359-381` hands to it |
| `Identity` | the pod's name, `provider_k8s.go:354-356` |
| `late`, `TooLate` | history: the pod leads by an answer that came when the lease was another's, or about to expire, and has not renewed it since |
| `StartProvider` | the control loop enters `RunOrDie` |
| `Acquire`, `LoseAnswer`, `StartLeading` | the server commits an acquisition; its answer is lost, or arrives, after any delay |
| `BeginRenew`, `Renew`, `RenewSucceeded`, `GiveUp` | one renew loop: `RenewDeadline` to succeed, `RetryPeriod` to the next |
| `StopOnCancel`, `Release`, `ReleaseReturned` | the context is cancelled; `ReleaseOnCancel` |
| `OnStartedLeading`, `starting` | the callback, in the goroutine spawned for it |
| `OnStoppedLeading`, `Exit` | the deferred callback: reset the flag, then `os.Exit(0)` |
| `Cancel`, `MainReturn`, `Crash` | SIGTERM; `main` returns without waiting; the process dies |

**ClusterMetrics.** EXTENDS LeaderElection. Every step of a pod's election is a
step of this module (`Elect`, `End`), and so is every step of the goroutines
that call `ProvideVNetInfo` in a pod (`Caller`; `provider_k8s.go:281-331`):
`Gate` reads the leader flag, then the look-ups end in an early return
(`LookInVain`: nothing is there, or a call failed although it is), in the secret
(`LookUp`), which is stored some time later (`StoreLink`), or in a panic
(`LookPanics`, a `Crash` of the election). `ChangeLink` sets up, renews, damages
or removes the ClusterLink, at any moment and any number of times. What a
process has collected ends with it.

**LeaderHook.** One process: `main` from the start of `serveCommand` to its
return, the election reduced to winning and losing, the `OnStartedLeading`
goroutine and its listener, the runners of orch_info and vnet_info, the server.

| Model | Code |
| --- | --- |
| `InitKubernetes`, `InitDocker` | the two calls of `main` that can hang (`provider_k8s.go:115`, `provider_docker.go:46`); the first may also be fatal |
| `StartProvider`, `AppendListener`, `StoreListener` | `main.go:166-186`; `listeners` is `"nil"` between the two stores of an unsynchronised `append` |
| `StartCollector`, `StartServer`, `Cancel`, `MainReturn` | `main.go:253-276` |
| `Listen` | `serveMetrics`, which gives up when the address is taken |
| `Signal` | a SIGTERM; `ch` has room for one (`main.go:99`) |
| `SetFlag`, `RangeListeners`, `HookGate`, `HookCollect` | `OnStartedLeading` and the listener |
| `RunnerGate`, `RunnerCollect`, `RunnerWake` | the runner of a collector |

**StringFields.** String fields as goroutines see them that do not synchronise:
two words each, stored in any order.

**OrchInfo, OrchScrape.** The collector with its three providers; `runner` and
`listener` are its two writers. One action per place where the code asks
something or returns early, one `StoreWord` per word that is stored.
`ListAgents` takes the list of the agent pods (the API server may return any of
`PodLists`, or fail, which reads as no pods), `ScanPod` is the body of the loop
over it: each pod with an agent stores over the one before, one that lacks an
argument is skipped, a bare argument is a panic. What the providers find
(`pods`, `files`) changes at any time and may be damaged in each way
the code distinguishes; a session file that decodes but names no agent
(`"blank"`, an empty object) is not damaged for the code, and is stored as it is.
`OrchScrape` adds the scrape, field by field.

**CollectorRunner.** The loop of `AsyncCollectorRunner.Start`. A module that
INSTANCEs it adds the places inside its providers.

**HostLabels.** The map, written one label at a time (`WriteLabel`) while a
scrape visits its keys in any order (`Visit`). A write during a range may end
the process: Go checks for it.

**RuntimeInfo.** Both providers, call by call, each call able to fail; the
fields are named by the runtime they describe.

**ListMetrics.** workload_info and node_mounted: the slice as its two words,
array and length; a scrape copies both, then ranges. A behaviour is that of one
of the two metrics, as its `providers` say. The peripherals come from a JSON
object, in any order (`Listed` is a set), and a file that cannot be read leaves
the list alone.

**HostInfo.** The three providers, store by store, and the scrape, read by read.
ip-api.com never answers, fails, or answers with a body whose two numbers decode
each for itself: both, one and a zero, or two zeros, all of which are stored
(`provider_ipinfo.go:79-85`). The location file has each shape that
`strings.Split` and its caller distinguish.

**NameValue.** The parser of `name=value` lists that the code has four times, as
the fold over the entries that it is. `MCHostLabels` compares it with what it
comes to (the last well-formed entry of each name) for all lists of up to two
entries of up to three tokens. What it returns for `--info-props` is the metric
info.

**Registration.** The calls of `AppendAsyncDataProvider` in the order of `main`.
The MC modules `ASSUME` that the sequence of providers they give to a model is
what `main` registers for the flags they have in mind.

## 3. Runs

| Run | Expect | What it shows |
| --- | --- | --- |
| `election` | pass | three pods: two are in office, or have their flags set, only while one is a latecomer in its first renew loop (or, for the flags, leaving); `SingleLeader` is implemented, and `PodTerm` by each pod; there is always a leader again |
| `cluster_metrics` | pass | two pods with their election and vnet_info: who has data of the cluster to publish; a lasting ClusterLink is published again after failed calls and whatever ends leaders, panics over a damaged secret included |
| `hook` | pass | no election is missed although the listener comes late; a leader collects and serves without waiting for an interval, unless Docker hangs or the address is taken; a SIGTERM is kept until `main` waits for it, and ends the process; only an elected process collects; `PodTerm` is implemented |
| `orch_info` | pass | runner and listener racing, up to two agent pods in the list: one undisturbed cycle puts all three fields right; OCM data needs an election; only a session file without an id empties a field |
| `orch_scrape` | pass | a Docker node whose session file changes twice: the sample settles on what is there in the end |
| `orch_scrape_mixed` | violation | a sample can have the type of one orchestrator and the id of another |
| `host_labels` | pass | the order of the providers is the precedence; an agreed label, or the static one over it, is published in the end |
| `host_labels_stale` | violation | a label that was removed stays published |
| `runtime_info` | pass | a cycle without failure leaves the fields of one runtime; Docker alone completes, and then stays complete; Kubernetes alone recovers |
| `runtime_info_no_swarm` | violation | a Docker daemon outside a swarm ends the exporter |
| `host_info` | pass | both coordinates come from one answer or one file, whole or half; when a damaged file is fatal; the sample settles unless ip-api.com neither answers nor fails |
| `list_metrics` | pass | a cycle leaves exactly the items of the last source; with Docker, or a readable file, the sample settles on the list |

Bounds, and why they are enough:

* *Durations.* The code's 60 s, 15 s and 5 s are 12, 3 and 1 ticks of 5 s. The
  run takes 6, 2 and 1: a renew loop of more than one tick, and a lease that
  lasts not one tick longer than `DurationsAssumption`
  (`2 * RenewDeadline + RetryPeriod < LeaseDuration`) asks for, which is harder on
  the properties than the code's own lease. The proofs are for all durations that
  satisfy the assumption. The age of a lease is counted up to `LeaseDuration`;
  beyond it nothing differs.
* *Pods.* Three: a leader, the pod that takes over, and one more to compete with
  it, or to be told late. The proofs are for any number.
* Crashes, SIGTERMs, lost answers, failed renewals and late answers are not
  bounded in number.
* *`cluster_metrics`* has two pods with one caller each, the runner (the proofs
  have any callers), one certificate, and changes of the ClusterLink without
  bound. A second certificate, or caller, does not finish in minutes; it would be
  stored by the same `StoreLink`. The durations, 4, 1 and 1 ticks, are the
  smallest that satisfy `DurationsAssumption`: by `ImplementsElection` nothing of
  the election is lost in the composition.
* *`MaxChanges`* 1 or 2: the world is one thing before and another after; two
  changes let a source go away and come back. Initial worlds are arbitrary, a
  damaged or missing source among them, so that one change can also repair it.
* *Agents, labels, workloads, places.* Two of each wherever one could be taken
  for another. In `orch_info` the lists of agent pods are empty, two agents, an
  agent before a pod that is fatal, an agent after one that is skipped.
* *Words.* In `orch_info` a string is one word (`Half`), in the runs of
  `OrchScrape` two: who stores last is the subject of the one, torn strings that
  of the others. `OrchInfoProofs` is for both.
* *Nodes.* `runtime_info` and `list_metrics` choose the enabled providers
  initially, for every choice of flags; the other runs fix them.

`CHECK_DEADLOCK FALSE` is in every configuration of a model of one process: it
ends by `os.Exit`, `log.Fatal` or a panic. A pod of the election is started
again, and `election` and `cluster_metrics` check for deadlock.

## 4. Proofs

| Theorem | Module | States |
| --- | --- | --- |
| `MutualExclusion`, `OverlapBounded`, `RefinesSingleLeader`, `TermPerLife` | `LeaderElectionProofs` | for any pods, any durations that satisfy `DurationsAssumption`, and any delay of any answer |
| `ImplementsElection`, `CollectorsKeepElection`, `ClusterTypeInvariant`, `OneExporterProved` | `ClusterMetricsProofs` | for any pods, durations as above, any callers, any certificates |
| `TypeInvariant`, `ElectionNotMissed`, `OnlyElectedCollects`, `SignalIsKept`, `ProcessIsOneTerm` | `LeaderHookProofs` | for the process as it is |
| `TypeInvariant`, `CycleRestores`, `OnlyElectedHasOcm`, `LabelsAreKept` | `OrchInfoProofs` | for any non-empty sequence of providers, any agents and lists of agent pods, strings of one word or two, any number of changes |
| `ScrapedCycleRestores`, `ScrapeTypeInvariant`, `OnlyElectedPublishesOcm` | `OrchInfoProofs` | the same, of `OrchScrape`, with scrapes at any moment |
| `TypeInvariant`, `LastPrevails` | `HostLabelsProofs` | for any keys, values, static labels and providers, any number of changes |
| `TypeInvariant`, `CycleDescribes`, `NothingIsErased` | `RuntimeInfoProofs` | for any providers in any order |
| `TypeInvariant`, `CycleLists` | `ListMetricsProofs` | for any choice of providers, any items, any number of changes |
| `TypeInvariant`, `LocationIsOne`, `BadFileNeedsNoLocation` | `HostInfoProofs` | for any places and providers, any number of changes |

*Mutual exclusion, but for latecomers.* That two pods are in office only if one
is a latecomer is not inductive: nothing in it says why the lease of the first
has not expired when the second asks. The strengthening is `LeaseInv`: a pod in
office that is no latecomer is the holder of the lease, and the lease is younger
than what it has been in its phase for, plus what may have passed before. The
worst case is a renewal committed at once and answered after `RenewDeadline`, a
pause of `RetryPeriod`, and a loop that fails for another `RenewDeadline`. Hence
the assumption `2 * RenewDeadline + RetryPeriod < LeaseDuration`, which
the code meets with 35 s < 60 s; so a lease somebody leads by is not
takeable (`HeldIsNotTakeable`). Of the answer to an acquisition nothing is
assumed: whoever gets it when less than `RenewDeadline` of the lease is left, or
nothing, is a latecomer (`TooLate`). A latecomer that manages to renew takes the
lease and stops being one; all others leave when their first renew loop is over,
which is why `AtMostOneInOffice` bounds the `timer` of one of the two.
`FlagInv` adds where a flag, or the goroutine that is about to set it, can be.
The refinement needs in addition that a leader never turns into a latecomer
(`NoLateLeader`); then a step changes at most one of the two sets, by one pod,
as one of the actions of `SingleLeader` does (`OfficeStep`).

*One term.* `TermPerLife` and `ProcessIsOneTerm` take the steps of a pod, or of
`main`, the elector and the hook, one by one to the step of `PodTerm` they are
(`OwnStepInTerm`; `MainInTerm`, `ElectorInTerm`, `HookInTerm`), and everybody
else's to a stutter (`OthersStutter`). What they need of the invariants is that
no goroutine of an earlier victory, and no open gate, is left where one can be
won again: `FlagInv` there, `ElectedInv` here.

*The composition.* `ImplementsElection`: each step of `ClusterMetrics` is a step
of `LeaderElection`, or leaves its variables alone (a panic over the secret is
one of its crashes); so all theorems about the election hold of it. `CallInv` is
what makes the claim about exporters inductive: a call that got past the gate
belongs to a pod that won the lease and has neither left nor been started
again, as long as it runs; what it has found belongs to the call. That two such
pods are in office only if one is a latecomer is `AtMostOneInOffice`.
`CollectorsKeepElection` restates the theorems of the election for the
composition.

*The hook.* `StartOrderInv` says how far `main` is when a goroutine runs,
`HookInv` that the listener's second provider is reached only after the first
has collected. The heart: a runner exists only once the listener is registered,
and it reads the gate after that; so when the hook found no listener, no runner
has read the gate yet. `SignalIsKept` is inductive as it stands, given the types:
the channel is emptied by one statement, the one after which `main` returns.

*The cycle.* `CycleInv` follows the runner through one cycle: of the providers
called so far, the last one that stores prevails (`BetweenInv`); while it
stores, each word is right already or still to be stored (`Storing`; `StoreInv`),
whatever order the words take. In the loop over the agent pods the record that is
being stored is that of the last agent among the pods looked at so far
(`LastAgent`), and as long as there is none, the providers called before still
prevail (`ScanInv`). `QuietInv` is what makes a cycle undisturbed.
`NotElectedInv` closes the gap between gate and store for `OcmOnlyIfElected`.
`FilledInv` says where an empty string can be on its way to memory: nowhere but in
the runner, while it stores a blank file; `LabelsAreKept` follows.

*The scrapes.* A scrape only loads. So `IInv` holds of `OrchScrape` too
(`ScrapeKeepsInv`), and `ScrapedCycleRestores` with it; what a load yields is a
value that was stored, or a torn one (`LoadType`), and neither is of an OCM agent
unless a stored word was (`OnlyElectedPublishesOcm`).

*The other runners.* Each invariant says how far the providers before the
present one, and the present one, have got. `HostLabelsProofs`: the labels are
those of the providers called so far (`PrevailsUpTo`), and inside a provider, a
key it has is either written or still to be (`WriteInv`). `RuntimeInfoProofs`:
the fields each API call has left (`StoredInv`), as long as none has failed.
`ListMetricsProofs` and `HostInfoProofs`: each word, or coordinate, is right
already or still to be stored (`StoreInv`). In `HostInfo` one thing more is
needed: `FileProvider` checks once and stores twice, and what it has still to
store is a field that is still empty, so that a coordinate of its file is never
put beside one of ip-api.com. Hence, too, a located process stays so
(`LocatedKept`), and a bad file cannot end it.

*Types.* What a variable may hold is seldom clear from one step: what is stored
was found earlier, by a provider that has gone on since. `FoundInv` (`HostInfo`)
and `TypeInv` (`HostLabels`) say that it was found by a provider of the node; in
`ListMetrics` and `OrchInfo` the lists and stores under way are typed with the
fields. Those lemmas (`ConvertedType`, `ListedType`, `AssignType`, `FoundType`) are
what each conversion may return, for every input.

*Complete stays complete.* `DockerStaysComplete` is the part of `DockerCompletes`
that needs no fairness. With Docker alone every store writes a value of Docker,
and no failed call writes at all; what the scrape is about to read, has read and
will read again is then complete (`CompleteKept`).

Only model-checked: everything under fairness (`EventuallyLed`,
`LinkPublished`, `LeaderPublishes`, `TermEndsProcess`, `OneAgentSettles`,
`LabelSettles`, `DockerCompletes`, `KubernetesRecovers`, `ListSettles`,
`HostSettles`), which is beyond the prover, and what `NameValue`'s fold
computes (induction over data). Only proved: the three theorems about `OrchScrape` on a
Kubernetes node, where runner, listener and scrapes together have more states
than TLC visits in minutes (`orch_scrape` is a Docker node).

## 5. Assumptions

*The elector.* client-go is not in the repository. Its steps are those that its
configuration here implies: an acquiring or renewing call is split at the
moment the server commits it; the answer may be lost; a call on behalf of a
dead process is not committed later. An update of the lease is refused if
somebody else wrote it since it was read. Nothing is assumed of when the answer
to an acquisition comes: no deadline is configured for it
(`provider_k8s.go:359-365`), and the clientset has no timeout. A renewal is given
up after `RenewDeadline`.

*Time.* Clocks run at one rate. A deadline of the elector that is due is served,
and the goroutine of `OnStartedLeading` runs, before the next tick of 5 s; every
other delay is unbounded. This is what a lease based on local timers needs from its host.

*Fairness.* Weak fairness for a goroutine's own steps: the Go runtime schedules
it, its `time.Sleep` ends. Prometheus keeps scraping. Strong fairness only for
what is tried again and again, a call to a server or the read of a file: it
succeeds in the end. Among pods even that is asked only of *some* pod
(`\E i \in Pod : Acquire(i)`, and likewise for `StartLeading`, `Gate`, `LookUp`
and `StoreLink`): a single pod may fail for ever. Crashes and SIGTERMs may be as
many as they like, but end (`StopsEnd`): a cluster that never stops killing its
pods need not have a leader. Panics over a damaged secret are the program's own
crashes; they end when the secret is repaired, as `LinkPublished` supposes. None
for crashes, signals, renewals,
the end of a runner's sleep in `LeaderHook`, the two initialisations without a
timeout, the answer of ip-api.com, or for a pod that ended to be started
while another runs (`StartSome` starts one when there is none: that is the
DaemonSet).

*Memory.* The exporter has data races throughout; the models give each the
outcomes that the supported builds (amd64, arm64, arm/v7) can produce. A `bool`
is read and written at once. The words of strings and slices are stored one at
a time in any order; a length without a pointer, or beyond its array, is a
fault or reads garbage. An unsynchronised map access ends the process or does
no harm. `RuntimeInfo`, `HostInfo` and `ClusterMetrics` treat a field as one
word: torn strings are the subject of `OrchScrape`, and their own subjects are
calls that fail, one after another.

## 6. Where the program and its documentation disagree

* `orch_scrape_mixed`: `README.md:12` has orch_info describe "the" orchestrator
  (Nuvla or OCM). On a node with both, a sample can combine them. What does
  hold: `OneAgentSettles`.
* `host_labels_stale`: the metric is described as "labels defined by the host
  and runtime" (`metric_host_labels.go:60`). Labels are only ever added: one that was
  removed from the node is published until the process ends.
* `runtime_info_no_swarm`: `README.md:14` promises information about Docker. The
  Docker API leaves `Swarm.Cluster` out unless the daemon manages a swarm;
  `provider_docker.go:143` dereferences it: the exporter panics in its first
  cycle.

Seen on the way, without a run of their own:

* `README.md:76` speaks of *one* leader instance. With `ReleaseOnCancel` the lease
  is given away before `OnStoppedLeading` resets `iAmTheLeader`, so the next
  leader may set its own flag, and publish, while the last one still does. And
  since an acquisition has no deadline, a pod whose answer comes after the lease
  has passed to another leads beside it, for up to `RenewDeadline`.
  `OverlapOnlyWhileLeaving` and `OneExporterButForHandover` say exactly when.
* With both runtimes enabled the containers of Docker replace the pods that the
  same cycle has just listed (`LastSourcePrevails` states it).
* An answer of ip-api.com that cannot be decoded is reported, then stored as the
  location 0, 0, one with a single coordinate as that and 0; either hides the
  file's, although the comment at `provider_files.go:47` has the file considered
  when the location of ip-api.com "was invalid". A half-filled location file
  counts as a location too, and is not read again when it is completed.
* A leader whose Docker daemon hangs during start-up, or whose address is taken,
  keeps the lease and publishes nothing (the exceptions of `LeaderPublishes`).
* With `--ipinfo`, `main.go:211` calls `Start` of the file provider, which is nil at
  that point; the method does nothing, so nothing comes of it.
* `README.md:66` gives 5m as the default of `host-info-interval`, `cli.go:36` has 10m.

## 7. Not modelled

* The command `print-host-id`: it prints what `HostInfo`'s `MachineId` is.
* The rewriting of label and annotation keys by regular expressions: a key is
  the rewritten key, and that two may become one is in `HostLabels`.
* Parsing of the command line, the HTTP server, OpenTelemetry, logging:
  libraries. A scrape is an action of the models.
* Durations of intervals: a sleep ends. A negative interval, which would not
  sleep, is a hazard without a property.
* A Docker daemon that comes up after the exporter: by design it is not used; the
  models fix the providers when the process starts.

## 8. Plan

Done, in this order: `SingleLeader` and `LeaderElection`, with their proofs;
`LeaderHook`; `OrchInfo` with `StringFields` and `OrchScrape`; `CollectorRunner`
with `HostLabels`, `RuntimeInfo`, `HostInfo`, `ListMetrics`; `ClusterMetrics` over
`LeaderElection`, with its proofs; `NameValue` and `Registration`; the proofs of
`HostLabels`, `RuntimeInfo`, `ListMetrics` and `HostInfo`; `PodTerm` with its two
refinements; the type invariants; the scrapes of `OrchScrape`.

Every safety property a run checks is proved, in each component. What could be
added: the parts of `ListSettles`, `LabelSettles` and `HostSettles` that need no
fairness, as `DockerStaysComplete` is of `DockerCompletes` (a sample that is right
stays right while nothing changes).
