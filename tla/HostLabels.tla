----------------------------- MODULE HostLabels -----------------------------
(***************************************************************************)
(* The host_labels metric of one exporter (metric_host_labels.go): the     *)
(* Labels map of its HostLabelsCollector, the runner that writes it one    *)
(* label at a time, the scrape that ranges over it, without a lock.        *)
(*                                                                         *)
(* A key is a label's key as it is published: the providers of Kubernetes  *)
(* and Docker drop keys that do not match icos.eu/ and rewrite the others, *)
(* so that two labels of a node may come to bear one key.                  *)
(***************************************************************************)
EXTENDS Integers, Sequences, FiniteSets

CONSTANTS
  Key,         \* label keys
  Value,       \* label values
  Absent,      \* no value
  StaticFlags, \* the arguments of --static-host-label, each a list of tokens
  Static,      \* staticLabels, which Init parses them to
  Providers,   \* hlcr.Providers, in main's order
  MaxChanges   \* bound on the changes of the world (exploration bound)

Parser == INSTANCE NameValue WITH Name <- Key

ASSUME LabelsAssumption ==
  /\ Providers \in Seq({"k8s", "file", "docker"})
  /\ Absent \notin Value
  /\ Static \in [Key -> Value \cup {Absent}]
  /\ Static = Parser!Parse(StaticFlags)
  /\ StaticFlags \in Seq(Seq(Key \cup Value))
  /\ \A n \in DOMAIN StaticFlags :
       Len(StaticFlags[n]) = 2 => StaticFlags[n] \in Key \X Value
  /\ MaxChanges \in Nat

VARIABLES
  labels,      \* HostLabelsCollector.Labels
  pc, at,      \* the runner
  todo,        \* the labels its provider has still to write
  scrape,      \* the scrape: "idle", "range" over Labels, "done"
  toVisit,     \* the keys its range has not visited
  got,         \* the attributes it has collected; its sample when "done"
  process,
  world,       \* the labels each provider would find
  changes,
  undisturbed  \* history: the runner's cycle has seen one world

vars == <<labels, pc, at, todo, scrape, toVisit, got, process, world,
          changes, undisturbed>>

runnerVars == <<pc, at, todo>>
scrapeVars == <<scrape, toVisit, got>>
worldVars  == <<world, changes>>

Runner == INSTANCE CollectorRunner WITH providers <- Providers

Source == {Providers[k] : k \in DOMAIN Providers}

Label == Key \X Value

KeysOf(S) == {l[1] : l \in S}

OneValueEach(S) == Cardinality(KeysOf(S)) = Cardinality(S)

(* What a provider may find.  The labels of a Kubernetes node are a map    *)
(* whose keys may collide when they are rewritten.                         *)
NodeLabels == SUBSET Label

(* /etc/machine-labels is a list of lines read into a map: of two lines    *)
(* with one key the last one counts.                                       *)
MachineLabels == {S \in SUBSET Label : OneValueEach(S)}

(* Docker's labels are a list, written in its order, to the same effect.   *)
DaemonLabels == {S \in SUBSET Label : OneValueEach(S)}

Found(p) ==
  CASE p = "k8s"    -> NodeLabels
    [] p = "file"   -> MachineLabels
    [] p = "docker" -> DaemonLabels

IsStatic(k) == Static[k] # Absent

LabelMap == [Key -> Value \cup {Absent}]

TypeOK ==
  /\ labels \in LabelMap
  /\ pc \in {"off", "call", "write", "rest"}
  /\ at \in {1} \cup DOMAIN Providers
  /\ todo \in SUBSET Label
  /\ scrape \in {"idle", "range", "done"}
  /\ toVisit \in SUBSET Key
  /\ got \in LabelMap
  /\ process \in {"up", "crashed"}
  /\ DOMAIN world = Source /\ \A p \in Source : world[p] \in Found(p)
  /\ changes \in 0 .. MaxChanges
  /\ undisturbed \in BOOLEAN

Init ==
  /\ labels = [k \in Key |-> Absent]
  /\ Runner!Init
  /\ todo = {}
  /\ scrape = "idle"
  /\ toVisit = {}
  /\ got = [k \in Key |-> Absent]
  /\ process = "up"
  /\ world \in [Source -> SUBSET Label]
  /\ \A p \in Source : world[p] \in Found(p)
  /\ changes = 0
  /\ undisturbed = FALSE

-----------------------------------------------------------------------------
(* The runner.                                                             *)

BeginCycle ==
  /\ Runner!BeginCycle
  /\ undisturbed' = TRUE
  /\ UNCHANGED <<labels, todo, scrapeVars, process, worldVars>>

(* ProvideLabels of any of the three: it reads its labels, or fails to and *)
(* has none.                                                               *)
ReadLabels ==
  /\ pc = "call"
  /\ \E seen \in {world[Providers[at]], {}} :
       /\ todo' = seen
       /\ undisturbed' = (undisturbed /\ seen = world[Providers[at]])
  /\ pc' = "write"
  /\ UNCHANGED <<labels, at, scrapeVars, process, worldVars>>

(* Faulty: a label that is there is not replaced.                          *)
WriteNewLabel ==
  /\ pc = "write"
  /\ \E l \in todo :
       /\ labels' = [labels EXCEPT ![l[1]] = IF @ = Absent THEN l[2] ELSE @]
       /\ todo' = todo \ {l}
  /\ process' \in IF scrape = "range" THEN {"up", "crashed"} ELSE {"up"}
  /\ UNCHANGED <<pc, at, scrapeVars, worldVars, undisturbed>>

(* Go iterates over a map in any order.  It ends the process when it       *)
(* notices that a map is written while it is ranged over.                  *)
WriteLabel ==
  /\ pc = "write"
  /\ \E l \in todo :
       /\ labels' = [labels EXCEPT ![l[1]] = l[2]]
       /\ todo' = todo \ {l}
  /\ process' \in IF scrape = "range" THEN {"up", "crashed"} ELSE {"up"}
  /\ UNCHANGED <<pc, at, scrapeVars, worldVars, undisturbed>>

LabelsWritten ==
  /\ pc = "write"
  /\ todo = {}
  /\ Runner!Return
  /\ UNCHANGED <<labels, todo, scrapeVars, process, worldVars, undisturbed>>

-----------------------------------------------------------------------------
(* The scrape.                                                             *)

(* Nothing is observed when there is no label at all.                      *)
BeginScrape ==
  /\ scrape \in {"idle", "done"}
  /\ \E k \in Key : labels[k] # Absent \/ IsStatic(k)
  /\ scrape' = "range"
  /\ toVisit' = Key
  /\ got' = [k \in Key |-> Absent]
  /\ UNCHANGED <<labels, runnerVars, process, worldVars, undisturbed>>

(* The range visits each key once, with the value the map has for it then. *)
Visit(k) ==
  /\ scrape = "range"
  /\ k \in toVisit
  /\ toVisit' = toVisit \ {k}
  /\ got' = [got EXCEPT ![k] = labels[k]]
  /\ UNCHANGED <<labels, scrape, runnerVars, process, worldVars, undisturbed>>

(* The static labels are appended; in a set of attributes the last value   *)
(* given for a key counts.                                                 *)
Observe ==
  /\ scrape = "range"
  /\ toVisit = {}
  /\ scrape' = "done"
  /\ got' = [k \in Key |-> IF IsStatic(k) THEN Static[k] ELSE got[k]]
  /\ UNCHANGED <<labels, toVisit, runnerVars, process, worldVars, undisturbed>>

-----------------------------------------------------------------------------
(* A label is set, changed or removed on the node, in its file, in Docker. *)
Change(p) ==
  /\ changes < MaxChanges
  /\ changes' = changes + 1
  /\ \E S \in Found(p) \ {world[p]} : world' = [world EXCEPT ![p] = S]
  /\ undisturbed' = FALSE
  /\ UNCHANGED <<labels, runnerVars, scrapeVars, process>>

Collect == BeginCycle \/ ReadLabels \/ WriteLabel \/ LabelsWritten

Scrape == BeginScrape \/ (\E k \in Key : Visit(k)) \/ Observe

Next == process = "up" /\ (Collect \/ Scrape \/ \E p \in Source : Change(p))

Spec == Init /\ [][Next]_vars

(* The runtime schedules the runner, its sleep ends, Prometheus keeps      *)
(* scraping, and a read that is made again and again succeeds in the end.  *)
ReadSucceeds(p) ==
  /\ process = "up"
  /\ Runner!Calls(p)
  /\ ReadLabels
  /\ todo' = world[p]

Fairness ==
  /\ WF_vars(process = "up" /\ Collect)
  /\ WF_vars(process = "up" /\ Scrape)
  /\ \A p \in Source : SF_vars(ReadSucceeds(p))

FairSpec == Spec /\ Fairness

-----------------------------------------------------------------------------
(* Properties.                                                             *)

Has(p, k) == k \in KeysOf(world[p])

(* The order of Providers is the precedence: after a cycle that saw one    *)
(* world, a label that any provider has bears the value of the last one    *)
(* that has it (one of its values, where Kubernetes keys collide).         *)
LastProviderPrevails ==
  undisturbed /\ pc = "rest" =>
    \A k \in Key, n \in DOMAIN Providers :
      Has(Providers[n], k) /\ (\A m \in n + 1 .. Len(Providers) : ~Has(Providers[m], k))
        => <<k, labels[k]>> \in world[Providers[n]]

(* A label on whose value all providers that have it agree is published    *)
(* with that value in the end, or with the static label's that has its key *)
(* ("Static Host Label always added", cli.go:44), unless the process dies: *)
(* writing it again in every cycle does not disturb it.                    *)
LabelSettles ==
  \A k \in Key, v \in Value :
    <>[]({l[2] : l \in {m \in UNION {world[p] : p \in Source} : m[1] = k}} = {v}
         => \/ process # "up" \/ scrape # "done"
            \/ got[k] = IF IsStatic(k) THEN Static[k] ELSE v)

(* "labels defined by the host and runtime" (metric_host_labels.go:60):    *)
(* after a cycle that saw one world, no label is left that nobody defines. *)
OnlyDefinedLabels ==
  undisturbed /\ pc = "rest" =>
    \A k \in Key : labels[k] # Absent => \E p \in Source : Has(p, k)
=============================================================================
