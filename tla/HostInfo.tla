------------------------------ MODULE HostInfo ------------------------------
(***************************************************************************)
(* The host_info metric of one exporter (metric_host_info.go): the fields  *)
(* of its HostInfoCollector, the runner, which calls the providers System  *)
(* (hostname and address), IPInfo (the location, from ip-api.com) and File *)
(* (the location, unless there is one, and the machine's id), and the      *)
(* scrape, which reads the fields one after the other while they are       *)
(* stored.                                                                 *)
(*                                                                         *)
(* Latitude and longitude are named by the place they belong to.  Os,      *)
(* architecture and hostname do not change and go with the address.  A     *)
(* field is stored and read as a whole here; that it is two words is       *)
(* the subject of OrchScrape.                                              *)
(***************************************************************************)
EXTENDS Integers, Sequences

CONSTANTS
  Place,      \* the places the host may be at, or be said to be at
  Providers,  \* hicr.Providers, in main's order
  MaxChanges  \* bound on the changes of the world (exploration bound)

(* What a coordinate that is missing in an answer decodes to.              *)
Zero == "0"

(* What /etc/machine-location may hold, other than a place:                *)
(*   "absent"   nothing, the file cannot be read                           *)
(*   "noColon"  no colon                                                   *)
(*   "latOnly"  nothing after the colon                                    *)
(*   "lonOnly"  nothing before it                                          *)
FileContent == Place \cup {"absent", "noColon", "latOnly", "lonOnly"}

(* What a body from ip-api.com decodes to.  Each of its two numbers is     *)
(* decoded for itself: if one is missing, or is no number, only the other  *)
(* one is set.                                                             *)
Body == {b \in (Place \cup {Zero}) \X (Place \cup {Zero}) :
           b[1] = b[2] \/ Zero \in {b[1], b[2]}}

(* http.Get returns an error, or the status 429.                           *)
NoBody == << >>

Answer == Body \cup {NoBody}

(* Where the machine's id may be read: the DMI table, /etc/machine-id.     *)
Id == {"dmi", "file"}

ASSUME HostAssumption ==
  /\ Providers \in Seq({"system", "ipinfo", "file"})
  /\ Place \cap {"", Zero, "latOnly", "lonOnly", "noColon", "absent"} = {}
  /\ MaxChanges \in Nat

VARIABLES
  lat, lon,  \* HostInfoCollector.Latitutde, .Longitude
  ip,        \* .Ip: "hint" or "fallback", the route it was found by
  id,        \* .Id
  pc, at,    \* the runner
  found,     \* the location its provider has found
  toStore,   \* the fields its provider has still to store
  process,   \* "up", or why it ended: "noRoute", "badFile"
  scrape,    \* the scrape: "idle", "read", "done"
  got,       \* the fields it has read; its sample when "done"
  file,      \* /etc/machine-location
  ids,       \* where the machine's id can be read
  service,   \* ip-api.com
  changes

place      == <<lat, lon>>
fields     == <<lat, lon, ip, id>>
runnerVars == <<pc, at, found, toStore>>
scrapeVars == <<scrape, got>>
worldVars  == <<file, ids, service, changes>>

vars == <<fields, runnerVars, process, scrapeVars, worldVars>>

Runner == INSTANCE CollectorRunner WITH providers <- Providers

Half == {"latOnly", "lonOnly", "noColon"}

Coordinate == Place \cup {"", Zero} \cup Half

TypeOK ==
  /\ lat \in Coordinate
  /\ lon \in Coordinate
  /\ ip \in {"", "hint", "fallback"}
  /\ id \in Id \cup {""}
  /\ pc \in {"off", "call", "wait", "store", "rest"}
  /\ at \in {1} \cup DOMAIN Providers
  /\ found \in Seq(Coordinate)
  /\ toStore \in SUBSET {"lat", "lon"}
  /\ process \in {"up", "noRoute", "badFile"}
  /\ scrape \in {"idle", "read", "done"}
  /\ DOMAIN got \subseteq {"lat", "lon", "id"}
  /\ file \in FileContent
  /\ ids \in SUBSET Id
  /\ service \in Answer
  /\ changes \in 0 .. MaxChanges

Init ==
  /\ lat = ""
  /\ lon = ""
  /\ ip = ""
  /\ id = ""
  /\ Runner!Init
  /\ found = << >>
  /\ toStore = {}
  /\ process = "up"
  /\ scrape = "idle"
  /\ got = << >>
  /\ file \in FileContent
  /\ ids \in SUBSET Id
  /\ service \in Answer
  /\ changes = 0

BeginCycle ==
  /\ Runner!BeginCycle
  /\ UNCHANGED <<fields, found, toStore, process, scrapeVars, worldVars>>

(* A provider has found a location and is about to store it.               *)
Found(location) ==
  /\ found' = location
  /\ pc' = "store"
  /\ toStore' = {"lat", "lon"}
  /\ UNCHANGED <<at, fields>>

Return ==
  /\ Runner!Return
  /\ UNCHANGED <<found, toStore>>

-----------------------------------------------------------------------------
(* SystemProvider.ProvideHostInfo: the address of the interface that leads *)
(* to the hint, or to 1.1.1.1.  Without a route to either (or without a    *)
(* hostname) the process ends, log.Fatal.                                  *)
ProvideSystem ==
  /\ Runner!Calls("system")
  /\ \/ ip' \in {"hint", "fallback"} /\ Return /\ UNCHANGED process
     \/ process' = "noRoute" /\ UNCHANGED <<ip, runnerVars>>
  /\ UNCHANGED <<place, id, scrapeVars, worldVars>>

-----------------------------------------------------------------------------
(* IPInfoProvider.ProvideHostInfo.  The call has no timeout: nothing says  *)
(* that an answer comes.                                                   *)
CallIpApi ==
  /\ Runner!Calls("ipinfo")
  /\ pc' = "wait"
  /\ UNCHANGED <<fields, at, found, toStore, process, scrapeVars, worldVars>>

(* An error changes nothing.  A body that cannot be decoded, or has half a *)
(* location or none, is reported at most, and stored all the same.         *)
IpApiAnswers ==
  /\ pc = "wait"
  /\ \/ service = NoBody /\ Return /\ UNCHANGED fields
     \/ service \in Body /\ Found(service)
  /\ UNCHANGED <<process, scrapeVars, worldVars>>

-----------------------------------------------------------------------------
(* FileProvider.ProvideHostInfo.                                           *)

(* getMachineLocation: the two halves around the colon.                    *)
Halves ==
  CASE file = "absent"  -> <<"", "">>
    [] file = "noColon" -> <<"noColon">>
    [] file = "latOnly" -> <<file, "">>
    [] file = "lonOnly" -> <<"", file>>
    [] OTHER            -> <<file, file>>

(* getMachineId.                                                           *)
MachineId ==
  IF "dmi" \in ids THEN "dmi" ELSE IF "file" \in ids THEN "file" ELSE ""

(* Faulty: the location is taken whenever there is one.                    *)
ReadFileUnasked ==
  /\ Runner!Calls("file")
  /\ Found(Halves)
  /\ UNCHANGED <<process, scrapeVars, worldVars>>

(* Faulty: each coordinate is taken if it is missing.                      *)
ReadFileByHalves ==
  /\ Runner!Calls("file")
  /\ found' = Halves
  /\ pc' = "store"
  /\ toStore' = {c \in {"lat", "lon"} : (IF c = "lat" THEN lat ELSE lon) = ""}
  /\ UNCHANGED <<at, fields, process, scrapeVars, worldVars>>

(* The location is taken only if there is none; the id, always.            *)
ReadFile ==
  /\ Runner!Calls("file")
  /\ \/ lat = "" /\ lon = "" /\ Found(Halves)
     \/ ~(lat = "" /\ lon = "") /\ id' = MachineId /\ Return /\ UNCHANGED <<place, ip>>
  /\ UNCHANGED <<process, scrapeVars, worldVars>>

-----------------------------------------------------------------------------
(* The stores.                                                             *)

(* Nothing orders the two stores for another goroutine.                    *)
Store ==
  /\ pc = "store"
  /\ \/ /\ "lat" \in toStore
        /\ lat' = found[1]
        /\ toStore' = toStore \ {"lat"}
        /\ UNCHANGED lon
     \/ /\ "lon" \in toStore /\ Len(found) = 2
        /\ lon' = found[2]
        /\ toStore' = toStore \ {"lon"}
        /\ UNCHANGED lat
  /\ UNCHANGED <<ip, id, pc, at, found, process, scrapeVars, worldVars>>

(* A line without a colon has no second half: out of range.                *)
StorePanics ==
  /\ pc = "store"
  /\ "lon" \in toStore /\ Len(found) = 1
  /\ process' = "badFile"
  /\ UNCHANGED <<fields, runnerVars, scrapeVars, worldVars>>

(* The id follows the location of the file.                                *)
Stored ==
  /\ pc = "store"
  /\ toStore = {}
  /\ id' = IF Runner!At("file") THEN MachineId ELSE id
  /\ Return
  /\ UNCHANGED <<place, ip, process, scrapeVars, worldVars>>

-----------------------------------------------------------------------------
(* The scrape: CreateObservations reads every field, set or not.           *)

BeginScrape ==
  /\ scrape \in {"idle", "done"}
  /\ scrape' = "read"
  /\ got' = << >>
  /\ UNCHANGED <<fields, runnerVars, process, worldVars>>

Read ==
  /\ scrape = "read"
  /\ \/ got = << >> /\ got' = [lat |-> lat] /\ UNCHANGED scrape
     \/ DOMAIN got = {"lat"}
        /\ got' = [lat |-> got.lat, lon |-> lon] /\ UNCHANGED scrape
     \/ DOMAIN got = {"lat", "lon"}
        /\ got' = [lat |-> got.lat, lon |-> got.lon, id |-> id]
        /\ scrape' = "done"
  /\ UNCHANGED <<fields, runnerVars, process, worldVars>>

-----------------------------------------------------------------------------
(* The files of the host, the right to read the DMI table, the answers of  *)
(* ip-api.com.                                                             *)
Change ==
  /\ changes < MaxChanges
  /\ changes' = changes + 1
  /\ \/ file' \in FileContent \ {file} /\ UNCHANGED <<ids, service>>
     \/ ids' \in SUBSET Id \ {ids} /\ UNCHANGED <<file, service>>
     \/ service' \in Answer \ {service} /\ UNCHANGED <<file, ids>>
  /\ UNCHANGED <<fields, runnerVars, process, scrapeVars>>

Collect ==
  BeginCycle \/ ProvideSystem \/ CallIpApi \/ ReadFile \/ Store \/ StorePanics \/ Stored

Scrape == BeginScrape \/ Read

Next == process = "up" /\ (Collect \/ IpApiAnswers \/ Scrape \/ Change)

Spec == Init /\ [][Next]_vars

(* The runtime schedules the runner, its sleep ends, Prometheus keeps      *)
(* scraping.  Nothing fair is assumed of ip-api.com.                       *)
Fairness ==
  /\ WF_vars(process = "up" /\ Collect)
  /\ WF_vars(process = "up" /\ Scrape)

FairSpec == Spec /\ Fairness

-----------------------------------------------------------------------------
(* Properties.                                                             *)

(* Two coordinates of one answer, or of one file, half-filled perhaps.     *)
OneSource ==
  Body \cup {<<"", "">>, <<"latOnly", "">>, <<"", "lonOnly">>}

(* Whatever is answered, or left in the file, over whatever time: between  *)
(* the stores the latitude and the longitude are those of one answer, or   *)
(* of one file, never one of each, although each source may supply one     *)
(* only.  (That half an answer, or none, is stored as zeros is what the    *)
(* code does: see NoBody and Body.)                                        *)
OneLocation == pc # "store" => place \in OneSource

(* A file that cannot be split ends the process only as long as it has had *)
(* no location from anywhere: the damage may lie dormant until the process *)
(* is started while ip-api.com cannot be reached.                          *)
BadFileOnlyUnlocated ==
  [](lat # "" /\ lon # "" => [](process # "badFile"))

HeldUp == process # "up" \/ pc = "wait"

(* When the world changes no more, the sample comes to be and stays that   *)
(* of the place ip-api.com names and of the machine's id, if it names one. *)
(* Only ip-api.com can hold that up, by neither answering nor failing;     *)
(* then nothing is collected any more, the id included.                    *)
HostSettles ==
  \/ <>[]HeldUp
  \/ <>[](scrape = "done" =>
            /\ \A p \in Place : service = <<p, p>> => got.lat = p /\ got.lon = p
            /\ got.id = MachineId)
=============================================================================
