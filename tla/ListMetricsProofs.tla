------------------------- MODULE ListMetricsProofs -------------------------
(***************************************************************************)
(* Proofs of TypeOK and LastSourcePrevails, for any providers in any       *)
(* order, any items and any number of changes.                             *)
(***************************************************************************)
EXTENDS ListMetrics, FiniteSetTheorems, TLAPS

(* A runner that is inside a provider is at one of its providers.          *)
RunnerInv ==
  /\ providers \in Nodes
  /\ pc \in {"off", "call", "store", "rest"}
  /\ pc \in {"call", "store"} => at \in 1 .. Len(providers)

(* While a provider stores, each word of the slice is its list's already,  *)
(* or still to be stored; and the list is of the world the cycle has seen. *)
StoreInv ==
  /\ toStore \subseteq {"array", "length"}
  /\ pc = "store" =>
       /\ "array" \notin toStore => array = result
       /\ "length" \notin toStore => length = Len(result)
       /\ undisturbed => result \in Listed(providers[at], world[providers[at]])

IInv == RunnerInv /\ StoreInv /\ LastSourcePrevails

LEMMA ProvidersAreSequences ==
  ASSUME providers \in Nodes
  PROVE  providers \in Seq({"k8s", "docker", "nuvla"})
  <1>1. Seq({"k8s", "docker"}) \subseteq Seq({"k8s", "docker", "nuvla"})
    OBVIOUS
  <1>2. << >> \in Seq({"k8s", "docker", "nuvla"})
    OBVIOUS
  <1>3. <<"nuvla">> \in Seq({"k8s", "docker", "nuvla"})
    OBVIOUS
  <1> QED BY <1>1, <1>2, <1>3, ListAssumption DEF ListAssumption

LEMMA InitInv == Init => IInv
  BY DEF Init, Runner!Init, IInv, RunnerInv, StoreInv, LastSourcePrevails

(* Returning, the runner goes on to its next provider, or rests after its  *)
(* last.                                                                   *)
LEMMA ReturnGoesOn ==
  ASSUME providers \in Nodes, at \in 1 .. Len(providers), Runner!Return
  PROVE  /\ providers' = providers
         /\ \/ pc' = "call" /\ at' \in 1 .. Len(providers)
            \/ pc' = "rest" /\ at' = at /\ at = Len(providers)
  <1>1. Len(providers) \in Nat
    BY ProvidersAreSequences
  <1> QED BY <1>1 DEF Runner!Return

(* What a provider makes of what it has listed is what it then stores.     *)
LEMMA MakeKeepsInv ==
  ASSUME IInv, NEW p, Runner!Calls(p), NEW list, Make(p, list),
         undisturbed' => undisturbed /\ list = world[p]
  PROVE  IInv'
  <1> USE DEF IInv, Make, Runner!Calls, Runner!At
  <1>1. RunnerInv'
    BY DEF RunnerInv
  <1>2. StoreInv'
    <2>1. undisturbed' => result' \in Listed(p, world[p])
      BY DEF MadeOf
    <2>2. providers'[at'] = p /\ world' = world
      BY DEF worldVars
    <2>3. toStore' = {"array", "length"}
      OBVIOUS
    <2> QED BY <2>1, <2>2, <2>3 DEF StoreInv, Listed, Peripherals, Converted
  <1>3. LastSourcePrevails'
    BY DEF LastSourcePrevails
  <1> QED BY <1>1, <1>2, <1>3

LEMMA NextInv == IInv /\ [Next]_vars => IInv'
  <1> SUFFICES ASSUME IInv, [Next]_vars PROVE IInv'
    OBVIOUS
  <1> USE DEF IInv
  <1>1. CASE BeginCycle
    <2>1. providers # << >> => 1 \in 1 .. Len(providers)
      BY ProvidersAreSequences DEF RunnerInv
    <2> QED BY <1>1, <2>1 DEF BeginCycle, Runner!BeginCycle, RunnerInv, StoreInv, LastSourcePrevails
  <1>2. CASE ListPods
    BY <1>2, MakeKeepsInv DEF ListPods
  <1>3. CASE ListContainers
    BY <1>3, MakeKeepsInv DEF ListContainers
  <1>4. CASE ListContainersFails
    BY <1>4 DEF ListContainersFails, runnerVars, worldVars, RunnerInv, StoreInv, LastSourcePrevails,
       Listed, Peripherals, Converted
  <1>5. CASE ReadPeripherals
    BY <1>5, MakeKeepsInv DEF ReadPeripherals
  <1>6. CASE ReadPeripheralsFails
    <2>1. at \in 1 .. Len(providers)
      BY <1>6 DEF ReadPeripheralsFails, Runner!Calls, RunnerInv
    <2>2. /\ providers' = providers
          /\ \/ pc' = "call" /\ at' \in 1 .. Len(providers)
             \/ pc' = "rest" /\ at' = at /\ at = Len(providers)
      BY <1>6, <2>1, ReturnGoesOn DEF ReadPeripheralsFails, RunnerInv
    <2> QED BY <1>6, <2>2 DEF ReadPeripheralsFails, worldVars, Runner!Calls, RunnerInv, StoreInv,
               LastSourcePrevails
  <1>7. CASE StoreWord
    BY <1>7 DEF StoreWord, worldVars, RunnerInv, StoreInv, LastSourcePrevails, Listed,
       Peripherals, Converted
  <1>8. CASE Stored
    <2>1. at \in 1 .. Len(providers)
      BY <1>8 DEF Stored, RunnerInv
    <2>2. /\ providers' = providers
          /\ \/ pc' = "call" /\ at' \in 1 .. Len(providers)
             \/ pc' = "rest" /\ at' = at /\ at = Len(providers)
      BY <1>8, <2>1, ReturnGoesOn DEF Stored, RunnerInv
    <2>3. array = result /\ length = Len(result)
      BY <1>8 DEF Stored, StoreInv
    <2>4. at = Len(providers) /\ undisturbed =>
            array \in Listed(Last(providers), world[Last(providers)])
      BY <1>8, <2>3 DEF Stored, StoreInv, Last
    <2>5. UNCHANGED <<array, length, toStore, world, readable, undisturbed>>
      BY <1>8 DEF Stored, worldVars
    <2> QED BY <2>2, <2>3, <2>4, <2>5 DEF RunnerInv, StoreInv, LastSourcePrevails, Listed,
               Peripherals, Converted
  <1>9. CASE Scrape
    <2>1. UNCHANGED <<array, length, runnerVars, worldVars, undisturbed>>
      <3>1. CASE BeginScrape
        BY <3>1 DEF BeginScrape
      <3>2. CASE ObserveNext
        BY <3>2 DEF ObserveNext
      <3>3. CASE EndScrape
        BY <3>3 DEF EndScrape
      <3> QED BY <1>9, <3>1, <3>2, <3>3 DEF Scrape
    <2> QED BY <2>1 DEF runnerVars, worldVars, RunnerInv, StoreInv, LastSourcePrevails, Listed,
               Peripherals, Converted
  <1>10. CASE Damage \/ \E p \in Source : Change(p)
    BY <1>10 DEF Damage, Change, runnerVars, RunnerInv, StoreInv, LastSourcePrevails
  <1>11. CASE UNCHANGED vars
    BY <1>11 DEF vars, runnerVars, worldVars, RunnerInv, StoreInv, LastSourcePrevails, Listed,
       Peripherals, Converted
  <1> QED BY <1>1, <1>2, <1>3, <1>4, <1>5, <1>6, <1>7, <1>8, <1>9, <1>10, <1>11 DEF Next, Collect

-----------------------------------------------------------------------------
(* What the lists are made of.                                             *)

LEMMA NodesAreSequences ==
  ASSUME providers \in Nodes
  PROVE  /\ DOMAIN providers = 1 .. Len(providers)
         /\ Len(providers) \in Nat
         /\ providers # << >> => 1 \in DOMAIN providers
         /\ Source \subseteq {"k8s", "docker", "nuvla"}
  <1> DEFINE S == {"k8s", "docker", "nuvla"}
  <1>1. providers \in Seq(S)
    BY ProvidersAreSequences
  <1> HIDE DEF S
  <1>2. /\ DOMAIN providers = 1 .. Len(providers)
        /\ Len(providers) \in Nat
        /\ providers # << >> => 1 \in DOMAIN providers
        /\ \A k \in DOMAIN providers : providers[k] \in S
    BY <1>1
  <1> QED BY <1>2 DEF Source, S

LEMMA ConvertedType ==
  ASSUME providers \in Nodes, NEW p \in Source, NEW w \in Item[p],
         p = "nuvla" => w.state # "notUsb"
  PROVE  Converted(p, w) \in Info
  <1> DEFINE Ids == {v.id : v \in UNION {Item[q] : q \in Source}}
  <1>1. Converted(p, w).status \in Status
    <2>1. CASE p = "k8s"
      BY <2>1 DEF Converted, PodStatus, Status
    <2>2. CASE p = "docker"
      BY <2>2 DEF Converted, ContainerStatus, Status
    <2>3. CASE p = "nuvla"
      <3>1. w.state \in {"available", "unavailable"}
        BY <2>3, ListAssumption DEF ListAssumption
      <3> QED BY <2>3, <3>1 DEF Converted, Status
    <2> QED BY <2>1, <2>2, <2>3, NodesAreSequences
  <1>2. Converted(p, w).id \in Ids
    BY DEF Converted
  <1>3. Converted(p, w) = [id |-> Converted(p, w).id, status |-> Converted(p, w).status]
    BY DEF Converted
  <1> QED BY <1>1, <1>2, <1>3 DEF Info

(* The peripherals of a file are finitely many: so they can be listed.     *)
LEMMA PeripheralsFinite ==
  ASSUME NEW n \in Nat, NEW list, DOMAIN list = 1 .. n
  PROVE  IsFiniteSet(Peripherals(list))
  <1> DEFINE D == {k \in 1 .. n : list[k].state # "notUsb"}
             f == [k \in D |-> Converted("nuvla", list[k])]
  <1>1. IsFiniteSet(D)
    BY FS_Interval, FS_Subset
  <1>2. Peripherals(list) = {f[k] : k \in D}
    BY DEF Peripherals, Range
  <1>3. f \in Surjection(D, Peripherals(list))
    BY <1>2 DEF Surjection
  <1> HIDE DEF D, f
  <1> QED BY <1>1, <1>3, FS_Surjection

LEMMA ListedType ==
  ASSUME providers \in Nodes, NEW p \in Source, NEW list \in Listing(p) \cup {<< >>},
         NEW made \in Listed(p, list)
  PROVE  made \in Seq(Info)
  <1>1. PICK n \in Nat : list \in [1 .. n -> Item[p]]
    <2>1. << >> \in [1 .. 0 -> Item[p]]
      OBVIOUS
    <2>2. CASE list \in Listing(p)
      <3>1. PICK n \in 0 .. 2 : list \in [1 .. n -> Item[p]]
        BY <2>2 DEF Listing
      <3> QED BY <3>1
    <2> QED BY <2>1, <2>2
  <1>2. CASE p = "nuvla"
    <2>1. Peripherals(list) \subseteq Info
      BY <1>1, <1>2, ConvertedType DEF Peripherals, Range
    <2>2. IsFiniteSet(Peripherals(list))
      BY <1>1, PeripheralsFinite
    <2>3. Cardinality(Peripherals(list)) \in Nat
      BY <2>2, FS_CardinalityType
    <2>4. made \in [1 .. Cardinality(Peripherals(list)) -> Peripherals(list)]
      BY <1>2 DEF Listed, SetToSeqs
    <2> QED BY <2>1, <2>3, <2>4
  <1>3. CASE p # "nuvla"
    <2>1. made = [k \in 1 .. n |-> Converted(p, list[k])]
      BY <1>1, <1>3 DEF Listed
    <2>2. \A k \in 1 .. n : Converted(p, list[k]) \in Info
      BY <1>1, <1>3, ConvertedType
    <2> QED BY <2>1, <2>2
  <1> QED BY <1>2, <1>3

LEMMA ReturnType ==
  ASSUME providers \in Nodes, at \in 1 .. Len(providers), Runner!Return
  PROVE  pc' \in {"call", "rest"} /\ at' \in DOMAIN providers /\ providers' = providers
  BY NodesAreSequences DEF Runner!Return

(* A provider stores what it has made of items of its own.                 *)
LEMMA MakeType ==
  ASSUME TypeOK, NEW p, Runner!Calls(p), at \in DOMAIN providers,
         NEW list \in Listing(p) \cup {<< >>}, Make(p, list), undisturbed' \in BOOLEAN
  PROVE  TypeOK'
  <1>1. p \in Source
    BY DEF Runner!Calls, Runner!At, Source
  <1>2. result' \in Seq(Info)
    BY <1>1, ListedType DEF Make, MadeOf, TypeOK
  <1>3. UNCHANGED <<array, length, providers, at, scrapeVars, process, worldVars>>
    BY DEF Make
  <1>4. pc' = "store" /\ toStore' = {"array", "length"}
    BY DEF Make
  <1> QED BY <1>2, <1>3, <1>4 DEF TypeOK, Info, Source, scrapeVars, worldVars

(* What a step appends or leaves alone.                                    *)
LEMMA AppendType ==
  ASSUME NEW T, NEW s \in Seq(T), NEW t, t = s \/ \E x \in T : t = Append(s, x)
  PROVE  t \in Seq(T) /\ Len(t) \in {Len(s), Len(s) + 1}
  OBVIOUS

LEMMA ScrapeType == TypeOK /\ Scrape => TypeOK'
  <1> SUFFICES ASSUME TypeOK, Scrape PROVE TypeOK'
    OBVIOUS
  <1>0. UNCHANGED <<array, length, runnerVars, worldVars, undisturbed>>
    BY DEF Scrape, BeginScrape, ObserveNext, EndScrape
  <1> USE DEF runnerVars, worldVars
  <1>1. Info' = Info /\ Source' = Source
    BY <1>0 DEF Info, Source
  <1>2. /\ scrape' \in {"idle", "range", "done"}
        /\ slice'.array \in Seq(Info) /\ slice'.length \in Nat
        /\ got' \in Seq(Info \cup {Garbage}) /\ Len(got') <= slice'.length
        /\ process' \in {"up", "crashed"}
    <2> USE DEF TypeOK
    <2>1. CASE BeginScrape
      <3>1. /\ slice' = [array |-> array, length |-> length] /\ got' = << >>
            /\ scrape' = "range" /\ UNCHANGED process
        BY <2>1 DEF BeginScrape
      <3>2. << >> \in Seq(Info \cup {Garbage}) /\ Len(<< >>) = 0
        OBVIOUS
      <3> QED BY <3>1, <3>2
    <2>2. CASE ObserveNext
      <3>1. /\ got \in Seq(Info \cup {Garbage}) /\ slice.array \in Seq(Info)
            /\ Len(got) < slice.length /\ slice.length \in Nat
        BY <2>2 DEF ObserveNext
      <3>2. \/ UNCHANGED got
            \/ \E x \in Info \cup {Garbage} : got' = Append(got, x)
        <4>1. Len(got) + 1 <= Len(slice.array) => slice.array[Len(got) + 1] \in Info
          BY <3>1
        <4> QED BY <2>2, <4>1 DEF ObserveNext
      <3>3. got' \in Seq(Info \cup {Garbage}) /\ Len(got') \in {Len(got), Len(got) + 1}
        BY <3>1, <3>2, AppendType
      <3>4. UNCHANGED <<slice, scrape>> /\ process' \in {"up", "crashed"} /\ Len(got) \in Nat
        BY <2>2, <3>1 DEF ObserveNext
      <3>5. Len(got') <= slice.length
        BY <3>1, <3>3, <3>4
      <3> QED BY <3>3, <3>4, <3>5
    <2>3. CASE EndScrape
      BY <2>3 DEF EndScrape
    <2> QED BY <2>1, <2>2, <2>3 DEF Scrape
  <1> QED BY <1>0, <1>1, <1>2 DEF TypeOK

LEMMA ChangeType ==
  ASSUME TypeOK, Damage \/ \E p \in Source : Change(p)
  PROVE  TypeOK'
  <1>1. UNCHANGED <<array, length, runnerVars, scrapeVars, process>> /\ undisturbed' = FALSE
    BY DEF Damage, Change
  <1> USE DEF runnerVars, scrapeVars
  <1>2. Info' = Info /\ Source' = Source
    BY <1>1 DEF Info, Source
  <1>3. DOMAIN world' = Source /\ \A q \in Source : world'[q] \in Listing(q)
    <2>1. CASE Damage
      BY <2>1 DEF Damage, TypeOK
    <2>2. ASSUME NEW p \in Source, Change(p)
          PROVE  DOMAIN world' = Source /\ \A q \in Source : world'[q] \in Listing(q)
      <3>1. PICK l \in Listing(p) : world' = [world EXCEPT ![p] = l]
        BY <2>2 DEF Change
      <3> QED BY <3>1 DEF TypeOK
    <2> QED BY <2>1, <2>2
  <1>4. readable' \in BOOLEAN
    BY DEF Damage, Change, TypeOK
  <1>5. changes' \in 0 .. MaxChanges
    <2>1. MaxChanges \in Nat
      BY ListAssumption DEF ListAssumption
    <2>2. changes \in 0 .. MaxChanges /\ changes < MaxChanges /\ changes' = changes + 1
      BY DEF Damage, Change, TypeOK
    <2> QED BY <2>1, <2>2
  <1> QED BY <1>1, <1>2, <1>3, <1>4, <1>5 DEF TypeOK

LEMMA TypeStep == IInv /\ TypeOK /\ [Next]_vars => TypeOK'
  <1> SUFFICES ASSUME IInv, TypeOK, [Next]_vars PROVE TypeOK'
    OBVIOUS
  <1>0. /\ providers \in Nodes
        /\ pc \in {"call", "store"} => at \in 1 .. Len(providers) /\ at \in DOMAIN providers
    BY NodesAreSequences DEF IInv, RunnerInv
  <1>s. providers' = providers => Info' = Info /\ Source' = Source
    BY DEF Info, Source
  <1> USE DEF runnerVars, scrapeVars, worldVars
  <1>1. CASE BeginCycle
    BY <1>0, <1>1, <1>s, NodesAreSequences DEF BeginCycle, Runner!BeginCycle, TypeOK
  <1>2. CASE ListPods
    <2>1. PICK seen \in {world["k8s"], << >>} : Make("k8s", seen)
      BY <1>2 DEF ListPods
    <2>2. undisturbed' \in BOOLEAN /\ Runner!Calls("k8s") /\ at \in DOMAIN providers
      BY <1>0, <1>2 DEF ListPods, Runner!Calls
    <2>3. seen \in Listing("k8s") \cup {<< >>}
      BY <2>2 DEF TypeOK, Source, Runner!Calls, Runner!At
    <2> QED BY <2>1, <2>2, <2>3, MakeType
  <1>3. ASSUME NEW p, Runner!Calls(p), Make(p, world[p]), UNCHANGED undisturbed
        PROVE  TypeOK'
    <2>1. undisturbed' \in BOOLEAN /\ at \in DOMAIN providers
      BY <1>0, <1>3 DEF Runner!Calls, TypeOK
    <2>2. world[p] \in Listing(p) \cup {<< >>}
      BY <1>3, <2>1 DEF TypeOK, Source, Runner!Calls, Runner!At
    <2> QED BY <1>3, <2>1, <2>2, MakeType
  <1>4. CASE ListContainersFails
    BY <1>4, <1>s DEF ListContainersFails, TypeOK
  <1>5. CASE ReadPeripheralsFails \/ Stored
    <2>1. Runner!Return /\ at \in 1 .. Len(providers)
      BY <1>0, <1>5 DEF ReadPeripheralsFails, Stored, Runner!Calls
    <2>2. pc' \in {"call", "rest"} /\ at' \in DOMAIN providers /\ providers' = providers
      BY <1>0, <2>1, ReturnType
    <2>3. UNCHANGED <<array, length, result, toStore, scrapeVars, process, worldVars, undisturbed>>
      BY <1>5 DEF ReadPeripheralsFails, Stored
    <2> QED BY <1>s, <2>2, <2>3 DEF TypeOK
  <1>6. CASE StoreWord
    <2>1. array' \in Seq(Info) /\ length' \in Nat /\ toStore' \in SUBSET {"array", "length"}
      BY <1>6 DEF StoreWord, TypeOK
    <2> QED BY <1>6, <1>s, <2>1 DEF StoreWord, TypeOK
  <1>7. CASE Scrape
    BY <1>7, ScrapeType
  <1>8. CASE Damage \/ \E p \in Source : Change(p)
    BY <1>8, ChangeType
  <1>9. CASE UNCHANGED vars
    BY <1>9, <1>s DEF vars, TypeOK
  <1> QED BY <1>1, <1>2, <1>3, <1>4, <1>5, <1>6, <1>7, <1>8, <1>9
          DEF Next, Collect, ListContainers, ReadPeripherals

(* Whatever is listed is stored and observed as items of the node's own    *)
(* sources, in one of the states that are published, or is memory that is  *)
(* something else.                                                         *)
THEOREM TypeInvariant == Spec => []TypeOK
  <1>1. Init => TypeOK
    <2>1. 0 \in 0 .. MaxChanges
      <3>1. MaxChanges \in Nat
        BY ListAssumption DEF ListAssumption
      <3> QED BY <3>1
    <2>2. << >> \in Seq(Info) /\ << >> \in Seq(Info \cup {Garbage}) /\ Len(<< >>) = 0
      OBVIOUS
    <2> SUFFICES ASSUME Init PROVE TypeOK
      OBVIOUS
    <2>3. DOMAIN world = Source /\ \A p \in Source : world[p] \in Listing(p)
      BY DEF Init
    <2>4. readable \in BOOLEAN /\ undisturbed \in BOOLEAN /\ changes \in 0 .. MaxChanges
      BY <2>1 DEF Init
    <2>5. /\ array \in Seq(Info) /\ result \in Seq(Info) /\ slice.array \in Seq(Info)
          /\ length \in Nat /\ slice.length \in Nat
      BY <2>2 DEF Init
    <2>6. got \in Seq(Info \cup {Garbage}) /\ Len(got) <= slice.length
      BY <2>2 DEF Init
    <2>7. /\ providers \in Nodes /\ toStore \in SUBSET {"array", "length"}
          /\ pc \in {"off", "call", "store", "rest"} /\ at \in {1} \cup DOMAIN providers
          /\ scrape \in {"idle", "range", "done"} /\ process \in {"up", "crashed"}
      BY DEF Init, Runner!Init
    <2> QED BY <2>3, <2>4, <2>5, <2>6, <2>7 DEF TypeOK
  <1> QED BY InitInv, NextInv, TypeStep, <1>1, PTL DEF Spec

(* A cycle that saw one world leaves exactly the items of its last source; *)
(* between the stores the two words of the slice belong together.          *)
THEOREM CycleLists == Spec => []LastSourcePrevails
  <1>1. IInv => LastSourcePrevails
    BY DEF IInv
  <1> QED BY InitInv, NextInv, <1>1, PTL DEF Spec
=============================================================================
