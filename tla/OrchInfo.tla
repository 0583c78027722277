------------------------------ MODULE OrchInfo ------------------------------
(***************************************************************************)
(* The orch_info metric of one exporter (metric_orch_info.go): the fields  *)
(* of its OrchInfoCollector, the goroutine of its runner, which calls the  *)
(* providers main appended in their order, the goroutine of the leader     *)
(* election's listener, which calls ProvideOCMOrchInfo at any moment.      *)
(* They share the fields and the leader flag without a lock.  The scrape   *)
(* that reads the fields is in module OrchScrape.                          *)
(*                                                                         *)
(* What the providers look at (pods, files) is the world: it changes at    *)
(* any time.  An agent stands for its id and its name.  The stores of one  *)
(* pod's agent are complete before the next pod is looked at.              *)
(***************************************************************************)
EXTENDS Integers, Sequences

CONSTANTS
  OcmAgent,     \* OCM work agents
  NuvlaAgent,   \* NuvlaEdge agents
  Providers,    \* oicr.Providers, in main's order of AppendAsyncDataProvider
  PodLists,     \* the lists of agent pods that the API server may return
  NuvlaStates,  \* what may be found in the place of a Nuvla context file
  Half,         \* the words of a string, "len" and "ptr", or "len" for both
  MaxChanges    \* bound on the changes of the world (exploration bound)

NuvlaProvider == {"nuvlaK8s", "nuvlaDocker"}

(* In the place of a Nuvla file, other than an agent:                      *)
(*   "absent"     no pod, several pods, a pod on another node, no file     *)
(*   "malformed"  a file json.Unmarshal rejects                            *)
(*   "null"       the JSON text null, which sets the pointer it is decoded *)
(*                into to nil                                              *)
(*   "blank"      a JSON object without the agent's id                     *)
(* An agent pod that has no agent:                                         *)
(*   "partial"    it lacks one of the two arguments                        *)
(*   "bare"       an argument with its name but without "=value"           *)
NuvlaFaults == {"absent", "malformed", "null", "blank"}
OcmFaults   == {"partial", "bare"}

Source == {Providers[k] : k \in DOMAIN Providers}

NuvlaSource == Source \cap NuvlaProvider

OcmPod == OcmAgent \cup OcmFaults

Agent == OcmAgent \cup NuvlaAgent

ASSUME OrchAssumption ==
  /\ Providers # << >>
  /\ Providers \in Seq({"ocm"} \cup NuvlaProvider)
  /\ PodLists \subseteq Seq(OcmPod)
  /\ "len" \in Half
  /\ NuvlaStates \subseteq NuvlaAgent \cup NuvlaFaults
  /\ OcmAgent \cap NuvlaAgent = {}
  /\ Agent \cap ({"", "torn", "ocm", "nuvla"} \cup OcmFaults \cup NuvlaFaults) = {}

ASSUME BoundAssumption == MaxChanges \in Nat

Thread == {"runner", "listener"}

VARIABLES
  orch,          \* the fields of the OrchInfoCollector, word by word
  pc, todo,      \* each goroutine: where it is, the stores it has begun
  at,            \* the runner's position in Providers
  left,          \* each goroutine: the pods listed that it has still to look at
  json,          \* the content of the Nuvla file its cycle has read
  iAmTheLeader,  \* KubernetesProvider.iAmTheLeader
  process,
  pods, files, changes,
  undisturbed    \* history: the runner's cycle saw one world, and no listener

worldVars == <<pods, files, changes>>

vars == <<orch, pc, todo, at, left, json, iAmTheLeader, process, worldVars,
          undisturbed>>

Field == {"Type", "AgentId", "AgentName"}

Fields == INSTANCE StringFields WITH mem <- orch, Empty <- "", Torn <- "torn"

(* What a provider makes a record of, and the record it stores: for an     *)
(* agent it found, or for a file that names none.                          *)
Described == Agent \cup {"blank"}

TypeOf(a) == IF a \in OcmAgent THEN "ocm" ELSE "nuvla"

NameOf(a) == IF a \in Agent THEN a ELSE ""

InfoOf(a) == [Type |-> TypeOf(a), AgentId |-> NameOf(a), AgentName |-> NameOf(a)]

Value == Agent \cup {"", "ocm", "nuvla"}

Store == Fields!Word \X Value

TypeOK ==
  /\ orch \in [Fields!Word -> Value]
  /\ pc \in [Thread -> {"off", "call", "look", "scan", "parse", "store", "rest"}]
  /\ todo \in [Thread -> SUBSET Store]
  /\ at \in DOMAIN Providers
  /\ left \in [Thread -> Seq(OcmPod)]
  /\ json \in NuvlaStates \cup {"absent"}
  /\ iAmTheLeader \in BOOLEAN
  /\ process \in {"up", "crashed"}
  /\ pods \in PodLists
  /\ files \in [NuvlaSource -> NuvlaStates]
  /\ changes \in 0 .. MaxChanges
  /\ undisturbed \in BOOLEAN

Init ==
  /\ Fields!Init
  /\ pc = [t \in Thread |-> "off"]
  /\ todo = [t \in Thread |-> {}]
  /\ at = 1
  /\ left = [t \in Thread |-> << >>]
  /\ json = "absent"
  /\ iAmTheLeader = FALSE
  /\ process = "up"
  /\ pods \in PodLists
  /\ files \in [NuvlaSource -> NuvlaStates]
  /\ changes = 0
  /\ undisturbed = FALSE

-----------------------------------------------------------------------------
Provider(t) == IF t = "listener" THEN "ocm" ELSE Providers[at]

Goto(t, l) == pc' = [pc EXCEPT ![t] = l]

(* Faulty: the runner sleeps after the first provider.                     *)
ReturnToRest(t) == Goto(t, "rest") /\ UNCHANGED at

(* Faulty: the runner calls one provider too many.                         *)
ReturnPastEnd(t) ==
  IF t = "runner" /\ at <= Len(Providers)
  THEN Goto(t, "call") /\ at' = at + 1
  ELSE Goto(t, "rest") /\ UNCHANGED at

(* A provider returns: the runner calls the next one, or goes to sleep.    *)
Return(t) ==
  IF t = "runner" /\ at < Len(Providers)
  THEN Goto(t, "call") /\ at' = at + 1
  ELSE Goto(t, "rest") /\ UNCHANGED at

(* Faulty: the loop is missing.                                            *)
BeginOnce ==
  /\ pc["runner"] = "off"
  /\ Goto("runner", "call")
  /\ at' = 1
  /\ json' = "absent"
  /\ undisturbed' = (pc["listener"] \in {"off", "rest"})
  /\ UNCHANGED <<orch, todo, left, iAmTheLeader, process, worldVars>>

(* The body of the runner's loop begins, the first time when main calls    *)
(* oicr.Start; undisturbed starts anew.                                    *)
BeginCycle ==
  /\ pc["runner"] \in {"off", "rest"}
  /\ Goto("runner", "call")
  /\ at' = 1
  /\ json' = "absent"
  /\ undisturbed' = (pc["listener"] \in {"off", "rest"})
  /\ UNCHANGED <<orch, todo, left, iAmTheLeader, process, worldVars>>

(* OnStartedLeading: the flag is set, then the listeners are called, if    *)
(* main has registered them yet (it does so before it starts the runner).  *)
OnStartedLeading ==
  /\ "ocm" \in Source
  /\ pc["listener"] = "off"
  /\ iAmTheLeader' = TRUE
  /\ \/ Goto("listener", "call")
     \/ pc["runner"] = "off" /\ Goto("listener", "rest")
  /\ undisturbed' = FALSE
  /\ UNCHANGED <<orch, todo, at, left, json, process, worldVars>>

(* OnStoppedLeading: the process is about to exit, but has not yet.        *)
OnStoppedLeading ==
  /\ iAmTheLeader
  /\ iAmTheLeader' = FALSE
  /\ undisturbed' = FALSE
  /\ UNCHANGED <<orch, pc, todo, at, left, json, process, worldVars>>

(* Faulty: the provider does not read the flag.                            *)
CallUngated(t) ==
  /\ pc[t] = "call"
  /\ Goto(t, "look") /\ UNCHANGED at
  /\ UNCHANGED <<orch, todo, left, json, iAmTheLeader, process, worldVars,
                 undisturbed>>

(* The call of a provider: ProvideOCMOrchInfo returns unless it finds the  *)
(* flag set.  The flag is not read again.                                  *)
Call(t) ==
  /\ pc[t] = "call"
  /\ IF Provider(t) = "ocm" /\ ~iAmTheLeader
     THEN Return(t)
     ELSE Goto(t, "look") /\ UNCHANGED at
  /\ UNCHANGED <<orch, todo, left, json, iAmTheLeader, process, worldVars,
                 undisturbed>>

(* ProvideOCMOrchInfo lists the pods; an error of the list call is dropped *)
(* and reads as no pod.                                                    *)
ListAgents(t) ==
  /\ pc[t] = "look"
  /\ Provider(t) = "ocm"
  /\ \E seen \in {pods, << >>} :
       /\ left' = [left EXCEPT ![t] = seen]
       /\ undisturbed' = (undisturbed /\ seen = pods)
  /\ Goto(t, "scan")
  /\ UNCHANGED <<orch, todo, at, json, iAmTheLeader, process, worldVars>>

(* Faulty: an agent is taken that lacks its id and its name.               *)
ScanPodUnchecked(t) ==
  /\ pc[t] = "scan"
  /\ left[t] # << >>
  /\ todo[t] = {}
  /\ left' = [left EXCEPT ![t] = Tail(@)]
  /\ IF Head(left[t]) = "bare"
     THEN process' = "crashed" /\ UNCHANGED todo
     ELSE /\ todo' = [todo EXCEPT ![t] = Fields!Assign(InfoOf(Head(left[t])))]
          /\ UNCHANGED process
  /\ UNCHANGED <<orch, pc, at, json, iAmTheLeader, worldVars, undisturbed>>

(* The body of its loop over the pods: every pod that has an agent stores  *)
(* it over the one before.  A bare argument is sliced out of its range.    *)
ScanPod(t) ==
  /\ pc[t] = "scan"
  /\ left[t] # << >>
  /\ todo[t] = {}
  /\ left' = [left EXCEPT ![t] = Tail(@)]
  /\ LET pod == Head(left[t]) IN
       \/ /\ pod \in OcmAgent
          /\ todo' = [todo EXCEPT ![t] = Fields!Assign(InfoOf(pod))]
          /\ UNCHANGED process
       \/ pod = "partial" /\ UNCHANGED <<todo, process>>
       \/ pod = "bare" /\ process' = "crashed" /\ UNCHANGED todo
  /\ UNCHANGED <<orch, pc, at, json, iAmTheLeader, worldVars, undisturbed>>

(* CommonProvideNuvlaOrchestratorInfo reads the file, if the provider got  *)
(* that far and the file is there, and assigns the type before it decodes. *)
ReadNuvlaFile(t) ==
  /\ pc[t] = "look"
  /\ Provider(t) \in NuvlaProvider
  /\ \E seen \in {files[Provider(t)], "absent"} :
       /\ IF seen = "absent"
          THEN Return(t) /\ UNCHANGED <<todo, json>>
          ELSE /\ json' = seen
               /\ todo' = [todo EXCEPT ![t] = Fields!Assign([Type |-> "nuvla"])]
               /\ Goto(t, "parse")
               /\ UNCHANGED at
       /\ undisturbed' = (undisturbed /\ seen = files[Provider(t)])
  /\ UNCHANGED <<orch, left, iAmTheLeader, process, worldVars>>

(* Faulty: the name is not assigned.                                       *)
ParseForgetsName(t) ==
  /\ pc[t] = "parse"
  /\ todo[t] = {}
  /\ \/ json \in Described
        /\ todo' = [todo EXCEPT ![t] =
                      Fields!Assign([Type |-> "nuvla", AgentId |-> NameOf(json)])]
        /\ Goto(t, "store")
        /\ UNCHANGED <<at, process>>
     \/ json = "malformed" /\ Return(t) /\ UNCHANGED <<todo, process>>
     \/ json = "null" /\ process' = "crashed" /\ UNCHANGED <<pc, at, todo>>
  /\ UNCHANGED <<orch, left, json, iAmTheLeader, worldVars, undisturbed>>

(* It decodes the file: on an error it returns, the type already assigned; *)
(* a nil context is dereferenced.                                          *)
Parse(t) ==
  /\ pc[t] = "parse"
  /\ todo[t] = {}
  /\ \/ json \in Described
        /\ todo' = [todo EXCEPT ![t] = Fields!Assign(InfoOf(json))]
        /\ Goto(t, "store")
        /\ UNCHANGED <<at, process>>
     \/ json = "malformed" /\ Return(t) /\ UNCHANGED <<todo, process>>
     \/ json = "null" /\ process' = "crashed" /\ UNCHANGED <<pc, at, todo>>
  /\ UNCHANGED <<orch, left, json, iAmTheLeader, worldVars, undisturbed>>

(* One word of an assignment under way reaches memory.                     *)
StoreWord(t) ==
  /\ \E s \in todo[t] :
       /\ Fields!Store(s)
       /\ todo' = [todo EXCEPT ![t] = @ \ {s}]
  /\ UNCHANGED <<pc, at, left, json, iAmTheLeader, process, worldVars,
                 undisturbed>>

(* The file's record, or that of the last pod, is stored.                  *)
Stored(t) ==
  /\ pc[t] = "store" \/ (pc[t] = "scan" /\ left[t] = << >>)
  /\ todo[t] = {}
  /\ Return(t)
  /\ UNCHANGED <<orch, todo, left, json, iAmTheLeader, process, worldVars,
                 undisturbed>>

-----------------------------------------------------------------------------
(* The cluster or the node changes under the exporter.                     *)
Change ==
  /\ changes < MaxChanges
  /\ changes' = changes + 1
  /\ \/ pods' \in PodLists \ {pods} /\ UNCHANGED files
     \/ /\ \E p \in NuvlaSource : \E v \in NuvlaStates \ {files[p]} :
             files' = [files EXCEPT ![p] = v]
        /\ UNCHANGED pods
  /\ undisturbed' = FALSE
  /\ UNCHANGED <<orch, pc, todo, at, left, json, iAmTheLeader, process>>

-----------------------------------------------------------------------------
ThreadStep(t) ==
  \/ Call(t) \/ ListAgents(t) \/ ScanPod(t) \/ ReadNuvlaFile(t) \/ Parse(t)
  \/ StoreWord(t) \/ Stored(t)

Next ==
  /\ process = "up"
  /\ \/ BeginCycle \/ OnStartedLeading \/ OnStoppedLeading
     \/ \E t \in Thread : ThreadStep(t)
     \/ Change

Spec == Init /\ [][Next]_vars

-----------------------------------------------------------------------------
(* Properties.                                                             *)

(* What a provider would find now.                                         *)
Candidates(p) ==
  IF p = "ocm" THEN {pods[j] : j \in DOMAIN pods} \cap OcmAgent ELSE {files[p]}

(* Whether it would store it: not, if it finds no agent or no file, or is  *)
(* not the leader's.                                                       *)
Stores(p) ==
  IF p = "ocm" THEN iAmTheLeader /\ Candidates(p) # {}
               ELSE Candidates(p) # {"absent"}

(* Of the first n providers, the k-th is the last that would store.        *)
Prevails(k, n) ==
  k <= n /\ Stores(Providers[k]) /\ \A l \in k + 1 .. n : ~Stores(Providers[l])

(* The agent of the last one of the first n pods that has one.             *)
LastAgent(n) ==
  {pods[j] : j \in {j \in 1 .. n :
     pods[j] \in OcmAgent /\ \A l \in j + 1 .. n : pods[l] \notin OcmAgent}}

(* The record, if it is one, with which a provider would leave the fields. *)
Leaves(p) ==
  IF p = "ocm" THEN LastAgent(Len(pods)) ELSE {files[p]} \cap Described

(* The order of Providers is the precedence: a cycle of the runner during  *)
(* which the world stands still and the listener is idle leaves all three  *)
(* fields with the agent of the last provider that found one, and the last *)
(* it found, whatever mixture an earlier cycle, or a race with the         *)
(* listener, has left.  A file without an id empties the fields of the     *)
(* agent; one that cannot be decoded says nothing of them.                 *)
UndisturbedCycle ==
  undisturbed /\ pc["runner"] = "rest" =>
    \A k \in DOMAIN Providers : Prevails(k, Len(Providers)) =>
      \A a \in Leaves(Providers[k]) : Fields!Holds(InfoOf(a))

(* Data of an OCM agent is in the collector, or on its way there, only in  *)
(* a process whose OnStartedLeading has run.                               *)
OcmData == OcmAgent \cup {"ocm"}

OcmOnlyIfElected ==
  pc["listener"] = "off" =>
    /\ \A w \in Fields!Word : orch[w] \notin OcmData
    /\ \A s \in todo["runner"] : s[2] \notin OcmData

(* Its inductive strengthening.                                            *)
NotElectedInv ==
  pc["listener"] = "off" =>
    ~iAmTheLeader /\ ~(pc["runner"] \in {"look", "scan"} /\ Providers[at] = "ocm")

(* A label that has once been filled is not emptied again, not by pods     *)
(* that are gone, calls that fail, arguments that are missing or files     *)
(* that cannot be decoded: only by storing a file without an id, which,    *)
(* half done, is one more chance for a scrape to read a length without     *)
(* memory behind it.                                                       *)
StoresBlank == pc["runner"] = "store" /\ json = "blank"

OnlyBlankEmpties ==
  [][StoresBlank \/ \A w \in DOMAIN orch : orch'[w] = "" => orch[w] = ""]_orch

(* Its inductive strengthening.                                            *)
FilledInv ==
  /\ \A s \in todo["listener"] : s[2] # ""
  /\ \A s \in todo["runner"] : s[2] = "" => StoresBlank

(* The inductive strengthening of UndisturbedCycle: what has become of the *)
(* providers that the runner's cycle has called so far, and of the one it  *)
(* is in.                                                                  *)
Called == IF pc["runner"] = "rest" THEN Len(Providers) ELSE at - 1

PcInv ==
  /\ \A t \in Thread : todo[t] # {} => pc[t] \in {"scan", "parse", "store"}
  /\ pc["listener"] \notin {"parse", "store"}
  /\ pc["listener"] # "off" => "ocm" \in Source
  /\ pc["runner"] = "rest" => at = Len(Providers)
  /\ pc["runner"] = "scan" => Providers[at] = "ocm"
  /\ pc["runner"] \in {"parse", "store"} => Providers[at] # "ocm" /\ json # "absent"

QuietInv ==
  undisturbed => pc["runner"] # "off" /\ pc["listener"] \in {"off", "rest"}

CalledPrevail ==
  \A k \in DOMAIN Providers : Prevails(k, Called) =>
    \A a \in Leaves(Providers[k]) : Fields!Holds(InfoOf(a))

BetweenInv ==
  undisturbed /\ pc["runner"] \in {"call", "look", "rest"} => CalledPrevail

LookInv ==
  undisturbed /\ pc["runner"] \in {"look", "scan"} /\ Providers[at] = "ocm" => iAmTheLeader

ParseInv ==
  undisturbed /\ pc["runner"] = "parse" => json = files[Providers[at]]

(* The record a goes to the fields: each word is there, or is to be stored. *)
Storing(a) ==
  /\ todo["runner"] \subseteq Fields!Assign(InfoOf(a))
  /\ \A f \in Field, h \in Half :
       \/ orch[<<f, h>>] = InfoOf(a)[f]
       \/ <<<<f, h>>, InfoOf(a)[f]>> \in todo["runner"]

StoreInv ==
  undisturbed /\ pc["runner"] = "store" =>
    files[Providers[at]] \in Described /\ Storing(files[Providers[at]])

(* The pods left are the last of the pods there are.                       *)
Scanned == Len(pods) - Len(left["runner"])

ScanInv ==
  undisturbed /\ pc["runner"] = "scan" =>
    /\ Scanned >= 0
    /\ \A j \in DOMAIN left["runner"] : left["runner"][j] = pods[Scanned + j]
    /\ \A a \in LastAgent(Scanned) : Storing(a)
    /\ LastAgent(Scanned) = {} => todo["runner"] = {} /\ CalledPrevail

CycleInv == BetweenInv /\ LookInv /\ ParseInv /\ StoreInv /\ ScanInv

IInv == TypeOK /\ PcInv /\ QuietInv /\ CycleInv
=============================================================================
