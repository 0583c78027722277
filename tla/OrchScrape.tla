----------------------------- MODULE OrchScrape -----------------------------
(***************************************************************************)
(* The orch_info metric as it is published: the collector of OrchInfo and  *)
(* the scrape, CreateObservations of metric_orch_info.go, which reads the  *)
(* fields while the runner and the listener store them.                    *)
(***************************************************************************)
EXTENDS OrchInfo

(* A scrape may read a string while it is half stored.                     *)
ASSUME WordsAssumption == Half = {"len", "ptr"}

VARIABLES
  toRead,  \* the fields the scrape under way has still to read
  got      \* what it has read; all fields once toRead is empty again

scrapeVars == <<toRead, got>>

ScrapeTypeOK ==
  /\ TypeOK
  /\ toRead \in SUBSET Field
  /\ got \in [Field -> Value \cup {"torn"}]

ScrapeInit ==
  /\ Init
  /\ toRead = {}
  /\ got = [f \in Field |-> ""]

(* OpenTelemetry makes one collection at a time, main serves them once it  *)
(* has started the runner.  Nothing is observed while Type is empty.       *)
BeginScrape ==
  /\ pc["runner"] # "off"
  /\ toRead = {}
  /\ orch[<<"Type", "len">>] # ""
  /\ toRead' = Field
  /\ got' = [f \in Field |-> ""]
  /\ UNCHANGED vars

(* Nothing orders the loads of a scrape either.                            *)
ReadField(f) ==
  /\ f \in toRead
  /\ IF Fields!Dangling(f)
     THEN process' = "crashed" /\ UNCHANGED scrapeVars
     ELSE /\ toRead' = toRead \ {f}
          /\ got' = [got EXCEPT ![f] = Fields!Load(f)]
          /\ UNCHANGED process
  /\ UNCHANGED <<orch, pc, todo, at, left, json, iAmTheLeader, worldVars, undisturbed>>

Scrape == process = "up" /\ (BeginScrape \/ \E f \in Field : ReadField(f))

ScrapeNext == (Next /\ UNCHANGED scrapeVars) \/ Scrape

scrapeSpecVars == <<vars, scrapeVars>>

ScrapeSpec == ScrapeInit /\ [][ScrapeNext]_scrapeSpecVars

(* A provider's call of the API server or read of a file that does not     *)
(* fail for a reason of its own.                                           *)
Look(t, p) ==
  /\ Provider(t) = p
  /\ \/ ListAgents(t) /\ left'[t] = pods
     \/ ReadNuvlaFile(t) /\ (Stores(p) => todo'[t] # {})
  /\ process = "up" /\ UNCHANGED scrapeVars

(* The runtime schedules every goroutine, every sleep ends, a call made    *)
(* again and again succeeds in the end, and Prometheus keeps scraping.     *)
ScrapeFairness ==
  /\ WF_scrapeSpecVars(process = "up" /\ BeginCycle /\ UNCHANGED scrapeVars)
  /\ \A t \in Thread :
       /\ WF_scrapeSpecVars(process = "up" /\ ThreadStep(t) /\ UNCHANGED scrapeVars)
       /\ \A p \in Source : SF_scrapeSpecVars(Look(t, p))
  /\ WF_scrapeSpecVars(Scrape)

FairScrapeSpec == ScrapeSpec /\ ScrapeFairness

-----------------------------------------------------------------------------
(* Properties.                                                             *)

(* Where all providers that find an agent find the same one, its orch_info *)
(* sample is complete in the end and stays so, whatever was found before:  *)
(* storing it again, while it is read, does not tear it.                   *)
OneAgentSettles ==
  \A a \in Agent :
    <>[](UNION {Candidates(p) : p \in {q \in Source : Stores(q)}} = {a}
         => process # "up" \/ toRead # {} \/ got = InfoOf(a))

(* A sample has data of an OCM agent only in a process that was elected,   *)
(* however the loads of the scrape fall between the stores.                *)
SampleOnlyIfElected ==
  pc["listener"] = "off" => \A f \in Field : got[f] \notin OcmData

(* "publish information about the multi-cluster orchestrator (i.e. Nuvla   *)
(* or OCM)" (README.md:12): the labels of one orch_info sample, those that *)
(* are filled in, describe one orchestrator.                               *)
PublishesOneOrchestrator ==
  toRead = {} =>
    \E a \in Agent : \A f \in Field : got[f] \in {"", "torn", InfoOf(a)[f]}
=============================================================================
