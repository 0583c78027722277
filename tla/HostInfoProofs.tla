--------------------------- MODULE HostInfoProofs ---------------------------
(***************************************************************************)
(* Proofs of TypeOK, OneLocation and BadFileOnlyUnlocated, for any places, *)
(* any providers in any order and any number of changes.                   *)
(***************************************************************************)
EXTENDS HostInfo, TLAPS

(* What a provider is about to store is there: a coordinate, or two.       *)
FoundInv == pc = "store" => Len(found) \in {1, 2}

LEMMA ProvidersAreSequence ==
  /\ Len(Providers) \in Nat
  /\ DOMAIN Providers = 1 .. Len(Providers)
  /\ Providers # << >> => 1 \in DOMAIN Providers
  <1> DEFINE S == {"system", "ipinfo", "file"}
  <1>1. Providers \in Seq(S)
    BY HostAssumption DEF HostAssumption
  <1> QED BY <1>1

LEMMA FoundType ==
  /\ \A a, b \in Coordinate : <<a, b>> \in Seq(Coordinate) /\ Len(<<a, b>>) = 2
  /\ file \in FileContent => Halves \in Seq(Coordinate) /\ Len(Halves) \in {1, 2}
  <1>1. ASSUME NEW a \in Coordinate, NEW b \in Coordinate
        PROVE  <<a, b>> \in Seq(Coordinate) /\ Len(<<a, b>>) = 2
    OBVIOUS
  <1>2. ASSUME NEW a \in Coordinate
        PROVE  <<a>> \in Seq(Coordinate) /\ Len(<<a>>) = 1
    OBVIOUS
  <1>3. /\ {"", "latOnly", "lonOnly", "noColon"} \subseteq Coordinate
        /\ Place \subseteq Coordinate
    BY DEF Coordinate, Half
  <1>4. ASSUME file \in FileContent
        PROVE  \/ Halves = <<"noColon">>
               \/ \E a, b \in Coordinate : Halves = <<a, b>>
    BY <1>3, <1>4 DEF Halves, FileContent
  <1> QED BY <1>1, <1>2, <1>3, <1>4

(* A body decodes to two coordinates, neither of them empty.               *)
LEMMA BodyFull ==
  ASSUME NEW b \in Body
  PROVE  /\ b \in Seq(Coordinate) /\ Len(b) = 2
         /\ b[1] # "" /\ b[2] # ""
         /\ <<b[1], b[2]>> \in OneSource
  <1>1. Zero # "" /\ "" \notin Place
    BY HostAssumption DEF HostAssumption, Zero
  <1>2. PICK a \in Place \cup {Zero}, c \in Place \cup {Zero} : b = <<a, c>>
    BY DEF Body
  <1>3. a \in Coordinate /\ c \in Coordinate
    BY DEF Coordinate
  <1>4. b[1] = a /\ b[2] = c /\ Len(b) = 2
    BY <1>2
  <1>5. b \in Seq(Coordinate)
    BY <1>2, <1>3, FoundType
  <1>6. <<b[1], b[2]>> \in OneSource
    BY <1>2, <1>4 DEF OneSource
  <1> QED BY <1>1, <1>4, <1>5, <1>6

LEMMA ReturnType ==
  ASSUME TypeOK, Runner!Return
  PROVE  pc' \in {"call", "rest"} /\ at' \in {1} \cup DOMAIN Providers
  <1>1. at \in {1} \cup 1 .. Len(Providers)
    BY ProvidersAreSequence DEF TypeOK
  <1> QED BY <1>1, ProvidersAreSequence DEF Runner!Return

LEMMA TypeStep == TypeOK /\ FoundInv /\ [Next]_vars => TypeOK' /\ FoundInv'
  <1> SUFFICES ASSUME TypeOK, FoundInv, [Next]_vars PROVE TypeOK' /\ FoundInv'
    OBVIOUS
  <1> USE DEF FoundInv, fields, place, runnerVars, scrapeVars, worldVars
  <1>1. CASE BeginCycle
    BY <1>1 DEF BeginCycle, Runner!BeginCycle, TypeOK
  <1>2. CASE ProvideSystem
    BY <1>2, ReturnType DEF ProvideSystem, Return, Runner!Calls, TypeOK
  <1>3. CASE CallIpApi
    BY <1>3 DEF CallIpApi, TypeOK
  <1>4. CASE IpApiAnswers
    <2>1. CASE Return /\ UNCHANGED fields
      BY <1>4, <2>1, ReturnType DEF IpApiAnswers, Return, TypeOK
    <2>2. CASE service \in Body /\ Found(service)
      <3>1. service \in Seq(Coordinate) /\ Len(service) = 2
        BY <2>2, BodyFull
      <3> QED BY <1>4, <2>2, <3>1 DEF IpApiAnswers, Found, TypeOK
    <2> QED BY <1>4, <2>1, <2>2 DEF IpApiAnswers
  <1>5. CASE ReadFile
    <2>1. CASE Found(Halves)
      <3>1. Halves \in Seq(Coordinate) /\ Len(Halves) \in {1, 2}
        BY FoundType DEF TypeOK
      <3> QED BY <1>5, <2>1, <3>1 DEF ReadFile, Found, TypeOK
    <2>2. CASE id' = MachineId /\ Return /\ UNCHANGED <<place, ip>>
      <3>1. MachineId \in Id \cup {""}
        BY DEF MachineId, Id
      <3> QED BY <1>5, <2>2, <3>1, ReturnType DEF ReadFile, Return, TypeOK
    <2> QED BY <1>5, <2>1, <2>2 DEF ReadFile
  <1>6. CASE Store
    <2>1. found \in Seq(Coordinate) /\ Len(found) \in {1, 2}
      BY <1>6 DEF Store, TypeOK
    <2>2. found[1] \in Coordinate /\ (Len(found) = 2 => found[2] \in Coordinate)
      BY <2>1
    <2> QED BY <1>6, <2>1, <2>2 DEF Store, TypeOK
  <1>7. CASE Stored
    <2>1. MachineId \in Id \cup {""}
      BY DEF MachineId, Id
    <2> QED BY <1>7, <2>1, ReturnType DEF Stored, Return, TypeOK
  <1>8. CASE StorePanics
    BY <1>8 DEF StorePanics, TypeOK
  <1>9. CASE Scrape
    <2>1. DOMAIN got' \subseteq {"lat", "lon", "id"}
      BY <1>9 DEF Scrape, BeginScrape, Read
    <2>2. scrape' \in {"idle", "read", "done"} /\ UNCHANGED <<fields, runnerVars, process, worldVars>>
      BY <1>9 DEF Scrape, BeginScrape, Read, TypeOK
    <2> QED BY <2>1, <2>2 DEF TypeOK
  <1>10. CASE Change
    <2>1. changes' \in 0 .. MaxChanges
      <3>1. MaxChanges \in Nat
        BY HostAssumption DEF HostAssumption
      <3>2. changes \in 0 .. MaxChanges /\ changes < MaxChanges /\ changes' = changes + 1
        BY <1>10 DEF Change, TypeOK
      <3> QED BY <3>1, <3>2
    <2>2. /\ file' \in FileContent /\ ids' \in SUBSET Id /\ service' \in Answer
          /\ UNCHANGED <<fields, runnerVars, process, scrapeVars>>
      BY <1>10 DEF Change, TypeOK
    <2> QED BY <2>1, <2>2 DEF TypeOK
  <1>11. CASE UNCHANGED vars
    BY <1>11 DEF vars, TypeOK
  <1> QED BY <1>1, <1>2, <1>3, <1>4, <1>5, <1>6, <1>7, <1>8, <1>9, <1>10, <1>11 DEF Next, Collect

(* Whatever is answered and whatever the files hold, only coordinates are  *)
(* stored, and no more of them than were found.                            *)
THEOREM TypeInvariant == Spec => []TypeOK
  <1>1. Init => TypeOK /\ FoundInv
    <2>1. 0 \in 0 .. MaxChanges
      <3>1. MaxChanges \in Nat
        BY HostAssumption DEF HostAssumption
      <3> QED BY <3>1
    <2>2. << >> \in Seq(Coordinate) /\ "" \in Coordinate /\ DOMAIN << >> = {}
      BY DEF Coordinate
    <2> QED BY <2>1, <2>2 DEF Init, Runner!Init, TypeOK, FoundInv
  <1> QED BY <1>1, TypeStep, PTL DEF Spec

-----------------------------------------------------------------------------
(* While a provider stores it is one that finds locations; the coordinates *)
(* it has found belong together; each is in its field already, or still to *)
(* be stored.  The fields FileProvider has still to store are empty; what  *)
(* ip-api.com has answered is not.                                         *)
StoreInv ==
  pc = "store" =>
    /\ Runner!At("ipinfo") \/ Runner!At("file")
    /\ toStore \subseteq {"lat", "lon"}
    /\ Len(found) = 2 => <<found[1], found[2]>> \in OneSource
    /\ "lat" \notin toStore => lat = found[1]
    /\ "lon" \notin toStore => lon = found[2] /\ Len(found) = 2
    /\ Runner!At("file") =>
         /\ "lat" \in toStore => lat = ""
         /\ "lon" \in toStore => lon = ""
    /\ Runner!At("ipinfo") => Len(found) = 2 /\ found[1] # "" /\ found[2] # ""

(* A call of ip-api.com is IPInfoProvider's.                               *)
WaitInv == pc = "wait" => Runner!At("ipinfo")

Located == lat # "" /\ lon # ""

(* A file without a colon ends only a process that has no location.        *)
BadFileInv == process = "badFile" => ~Located

IInv == StoreInv /\ WaitInv /\ OneLocation

LEMMA InitInv == Init => IInv
  BY DEF Init, Runner!Init, IInv, StoreInv, WaitInv, OneLocation, OneSource, place

(* The halves of a line, if they are two, are of one source.               *)
LEMMA HalvesTogether ==
  file \in FileContent /\ Len(Halves) = 2 => <<Halves[1], Halves[2]>> \in OneSource
  <1> SUFFICES ASSUME file \in FileContent, Len(Halves) = 2
               PROVE  <<Halves[1], Halves[2]>> \in OneSource
    OBVIOUS
  <1>1. CASE file \in Place
    <2>1. Halves = <<file, file>>
      BY <1>1, HostAssumption DEF Halves
    <2>2. <<file, file>> \in Body
      BY <1>1 DEF Body
    <2> QED BY <2>1, <2>2 DEF OneSource
  <1>2. CASE file \in {"absent", "latOnly", "lonOnly"}
    BY <1>2 DEF Halves, OneSource
  <1>3. CASE file = "noColon"
    BY <1>3 DEF Halves
  <1> QED BY <1>1, <1>2, <1>3 DEF FileContent

(* Returning, the runner is in no provider's store or call.                *)
LEMMA ReturnLeaves == Runner!Return => pc' \in {"call", "rest"}
  BY DEF Runner!Return

LEMMA NextInv == TypeOK /\ IInv /\ [Next]_vars => IInv'
  <1> SUFFICES ASSUME TypeOK, IInv, [Next]_vars PROVE IInv'
    OBVIOUS
  <1> USE DEF IInv, fields, place, runnerVars
  <1>1. CASE BeginCycle
    BY <1>1 DEF BeginCycle, Runner!BeginCycle, StoreInv, WaitInv, OneLocation
  <1>2. CASE ProvideSystem
    <2>1. UNCHANGED place /\ pc \notin {"store", "wait"} /\ pc' \notin {"store", "wait"}
      BY <1>2, ReturnLeaves DEF ProvideSystem, Return, Runner!Calls
    <2> QED BY <2>1 DEF StoreInv, WaitInv, OneLocation
  <1>3. CASE CallIpApi
    BY <1>3 DEF CallIpApi, Runner!Calls, Runner!At, StoreInv, WaitInv, OneLocation
  <1>4. CASE IpApiAnswers
    <2>1. CASE Return /\ UNCHANGED fields
      BY <1>4, <2>1, ReturnLeaves DEF IpApiAnswers, Return, StoreInv, WaitInv, OneLocation
    <2>2. CASE service \in Body /\ Found(service)
      BY <1>4, <2>2, BodyFull DEF IpApiAnswers, Found, Runner!At, StoreInv, WaitInv, OneLocation
    <2> QED BY <1>4, <2>1, <2>2 DEF IpApiAnswers
  <1>5. CASE ReadFile
    <2>1. CASE lat = "" /\ lon = "" /\ Found(Halves)
      <3>1. Len(Halves) = 2 => <<Halves[1], Halves[2]>> \in OneSource
        BY HalvesTogether DEF TypeOK
      <3> QED BY <1>5, <2>1, <3>1 DEF ReadFile, Found, Runner!Calls, Runner!At, StoreInv, WaitInv,
         OneLocation
    <2>2. CASE Return /\ UNCHANGED place
      BY <1>5, <2>2, ReturnLeaves DEF ReadFile, Return, Runner!Calls, StoreInv, WaitInv, OneLocation
    <2> QED BY <1>5, <2>1, <2>2 DEF ReadFile
  <1>6. CASE Store
    BY <1>6 DEF Store, Runner!At, StoreInv, WaitInv, OneLocation
  <1>7. CASE Stored
    <2>1. UNCHANGED place /\ pc' \notin {"store", "wait"}
      BY <1>7, ReturnLeaves DEF Stored, Return
    <2>2. place \in OneSource
      BY <1>7 DEF Stored, StoreInv
    <2> QED BY <2>1, <2>2 DEF StoreInv, WaitInv, OneLocation
  <1>8. CASE StorePanics \/ Scrape \/ Change \/ UNCHANGED vars
    <2>1. UNCHANGED <<lat, lon, pc, at, found, toStore>>
      BY <1>8 DEF StorePanics, Scrape, BeginScrape, Read, Change, vars
    <2> QED BY <2>1 DEF StoreInv, WaitInv, OneLocation, Runner!At
  <1> QED BY <1>1, <1>2, <1>3, <1>4, <1>5, <1>6, <1>7, <1>8 DEF Next, Collect

(* Between the stores the two coordinates are of one answer or of one      *)
(* file, complete or not, in whatever order they were stored.              *)
THEOREM LocationIsOne == Spec => []OneLocation
  <1>1. IInv => OneLocation
    BY DEF IInv
  <1> QED BY InitInv, NextInv, TypeInvariant, <1>1, PTL DEF Spec

(* A location is never lost again: what ip-api.com answers is not empty,   *)
(* and the file is not looked at.                                          *)
LEMMA LocatedKept == IInv /\ [Next]_vars /\ Located => Located'
  <1> SUFFICES ASSUME IInv, [Next]_vars, Located PROVE Located'
    OBVIOUS
  <1>1. CASE Store
    BY <1>1 DEF Store, IInv, StoreInv, Located
  <1>2. CASE ~Store
    BY <1>2 DEF Located, Next, Collect, Scrape, BeginCycle, ProvideSystem, CallIpApi, IpApiAnswers,
       ReadFile, StorePanics, Stored, BeginScrape, Read, Change, Found, fields, place, vars
  <1> QED BY <1>1, <1>2

LEMMA BadFileKept == IInv /\ BadFileInv /\ [Next]_vars => BadFileInv'
  <1> SUFFICES ASSUME IInv, BadFileInv, [Next]_vars PROVE BadFileInv'
    OBVIOUS
  <1> USE DEF BadFileInv
  <1>1. CASE StorePanics
    <2>1. UNCHANGED <<lat, lon>>
      BY <1>1 DEF StorePanics, fields
    <2>2. pc = "store" /\ "lon" \in toStore /\ Len(found) # 2
      BY <1>1 DEF StorePanics
    <2>3. ~Located
      BY <2>2 DEF IInv, StoreInv, Located
    <2> QED BY <2>1, <2>3 DEF Located
  <1>2. CASE Next /\ ~StorePanics
    <2>1. process' # "badFile"
      BY <1>2 DEF Next, Collect, Scrape, BeginCycle, ProvideSystem, CallIpApi, IpApiAnswers,
         ReadFile, Store, Stored, BeginScrape, Read, Change
    <2> QED BY <2>1
  <1>3. CASE UNCHANGED vars
    BY <1>3 DEF vars, fields, place, Located
  <1> QED BY <1>1, <1>2, <1>3

(* A process that has a location is not ended by a file without a colon,   *)
(* now or later: with a location from either source the file is not split. *)
THEOREM BadFileNeedsNoLocation == Spec => BadFileOnlyUnlocated
  <1>1. Init => BadFileInv
    BY DEF Init, BadFileInv
  <1>2. IInv /\ BadFileInv /\ Located => process # "badFile"
    BY DEF BadFileInv
  <1>3. (lat # "" /\ lon # "") <=> Located
    BY DEF Located
  <1> QED BY InitInv, NextInv, TypeInvariant, LocatedKept, BadFileKept, <1>1, <1>2, <1>3, PTL
          DEF Spec, BadFileOnlyUnlocated
=============================================================================
