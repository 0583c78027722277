-------------------------- MODULE HostLabelsProofs --------------------------
(***************************************************************************)
(* Proofs of TypeOK and LastProviderPrevails, for any keys and values, any *)
(* static labels, any providers in any order and any number of changes.    *)
(***************************************************************************)
EXTENDS HostLabels, TLAPS

Inside == {"call", "write"}

TypeInv ==
  /\ labels \in LabelMap
  /\ todo \subseteq Label
  /\ world \in [Source -> SUBSET Label]
  /\ pc \in Inside \cup {"off", "rest"}
  /\ pc \in Inside => at \in DOMAIN Providers

(* The labels are those of the n first providers: a label that one of them *)
(* has, and none after it, bears its value.                                *)
PrevailsUpTo(n) ==
  \A k \in Key, i \in 1 .. n :
    Has(Providers[i], k) /\ (\A j \in i + 1 .. n : ~Has(Providers[j], k))
      => <<k, labels[k]>> \in world[Providers[i]]

(* While a provider writes: each key that it has written bears one of its  *)
(* values, and the others are those of the providers before it.            *)
WriteInv ==
  LET own == world[Providers[at]] IN
  /\ todo \subseteq own
  /\ \A k \in KeysOf(own \ todo) : <<k, labels[k]>> \in own
  /\ \A k \in Key, i \in 1 .. at - 1 :
       /\ k \notin KeysOf(own)
       /\ Has(Providers[i], k) /\ (\A j \in i + 1 .. at - 1 : ~Has(Providers[j], k))
       => <<k, labels[k]>> \in world[Providers[i]]

CycleInv ==
  undisturbed =>
    /\ pc = "call" => PrevailsUpTo(at - 1)
    /\ pc = "write" => WriteInv
    /\ pc = "rest" => PrevailsUpTo(Len(Providers))

IInv == TypeInv /\ CycleInv

LEMMA ProvidersAreSequence ==
  Len(Providers) \in Nat /\ DOMAIN Providers = 1 .. Len(Providers)
  BY LabelsAssumption DEF LabelsAssumption

LEMMA InitInv == Init => IInv
  BY DEF Init, Runner!Init, IInv, TypeInv, CycleInv, LabelMap, Inside

(* What any of the three may find is a set of labels.                      *)
LEMMA FoundType == \A p \in Source : Found(p) \subseteq SUBSET Label
  BY LabelsAssumption DEF LabelsAssumption, Found, Source, NodeLabels, MachineLabels, DaemonLabels

LEMMA TypeKept == TypeInv /\ [Next]_vars => TypeInv'
  <1> SUFFICES ASSUME TypeInv, [Next]_vars PROVE TypeInv'
    OBVIOUS
  <1> USE DEF TypeInv, Inside
  <1>1. CASE BeginCycle
    <2>1. Providers # << >> => 1 \in DOMAIN Providers
      BY ProvidersAreSequence, LabelsAssumption DEF LabelsAssumption
    <2> QED BY <1>1, <2>1 DEF BeginCycle, Runner!BeginCycle, worldVars
  <1>2. CASE ReadLabels
    <2>1. world[Providers[at]] \subseteq Label
      BY <1>2 DEF ReadLabels, Source
    <2> QED BY <1>2, <2>1 DEF ReadLabels, worldVars
  <1>3. CASE WriteLabel
    BY <1>3 DEF WriteLabel, worldVars, LabelMap, Label
  <1>4. CASE LabelsWritten
    BY <1>4, ProvidersAreSequence DEF LabelsWritten, Runner!Return, worldVars
  <1>5. CASE Scrape \/ UNCHANGED vars
    BY <1>5 DEF Scrape, BeginScrape, Visit, Observe, runnerVars, worldVars, vars
  <1>6. ASSUME NEW p \in Source, Change(p) PROVE TypeInv'
    BY <1>6, FoundType DEF Change, runnerVars
  <1> QED BY <1>1, <1>2, <1>3, <1>4, <1>5, <1>6 DEF Next, Collect

LEMMA TypeStep == TypeOK /\ TypeInv /\ [Next]_vars => TypeOK'
  <1> SUFFICES ASSUME TypeOK, TypeInv, [Next]_vars PROVE TypeOK'
    OBVIOUS
  <1> USE DEF TypeOK, runnerVars, scrapeVars, worldVars
  <1>1. CASE BeginCycle
    BY <1>1 DEF BeginCycle, Runner!BeginCycle
  <1>2. CASE ReadLabels
    <2>1. at \in DOMAIN Providers /\ world[Providers[at]] \in SUBSET Label
      BY <1>2 DEF ReadLabels, TypeInv, Inside, Source
    <2>2. todo' \in SUBSET Label /\ undisturbed' \in BOOLEAN /\ pc' = "write"
      BY <1>2, <2>1 DEF ReadLabels
    <2> QED BY <1>2, <2>2 DEF ReadLabels
  <1>3. CASE WriteLabel
    BY <1>3 DEF WriteLabel, LabelMap, Label
  <1>4. CASE LabelsWritten
    <2>1. at \in DOMAIN Providers
      BY <1>4 DEF LabelsWritten, TypeInv, Inside
    <2>2. pc' \in {"call", "rest"} /\ at' \in DOMAIN Providers
      BY <1>4, <2>1, ProvidersAreSequence DEF LabelsWritten, Runner!Return
    <2> QED BY <1>4, <2>2 DEF LabelsWritten
  <1>5. CASE BeginScrape
    BY <1>5 DEF BeginScrape, LabelMap
  <1>6. ASSUME NEW k \in Key, Visit(k) PROVE TypeOK'
    BY <1>6 DEF Visit, LabelMap
  <1>7. CASE Observe
    <2>1. Static \in LabelMap
      BY LabelsAssumption DEF LabelsAssumption, LabelMap
    <2> QED BY <1>7, <2>1 DEF Observe, LabelMap
  <1>8. ASSUME NEW p \in Source, Change(p) PROVE TypeOK'
    <2>1. PICK S \in Found(p) : world' = [world EXCEPT ![p] = S]
      BY <1>8 DEF Change
    <2>2. DOMAIN world' = Source /\ \A q \in Source : world'[q] \in Found(q)
      BY <2>1
    <2>3. changes' \in 0 .. MaxChanges
      <3>1. MaxChanges \in Nat
        BY LabelsAssumption DEF LabelsAssumption
      <3> QED BY <1>8, <3>1 DEF Change
    <2> QED BY <1>8, <2>2, <2>3 DEF Change
  <1>9. CASE UNCHANGED vars
    BY <1>9 DEF vars
  <1> QED BY <1>1, <1>2, <1>3, <1>4, <1>5, <1>6, <1>7, <1>8, <1>9 DEF Next, Collect, Scrape

(* The runner and the scrape, which share the map, put nothing else in it  *)
(* and in the sample than labels, and the runner ends at its last          *)
(* provider.                                                               *)
THEOREM TypeInvariant == Spec => []TypeOK
  <1>1. Init => TypeOK
    <2>1. 0 \in 0 .. MaxChanges
      <3>1. MaxChanges \in Nat
        BY LabelsAssumption DEF LabelsAssumption
      <3> QED BY <3>1
    <2> QED BY <2>1 DEF Init, Runner!Init, TypeOK, LabelMap
  <1>2. Init => TypeInv
    BY InitInv DEF IInv
  <1> QED BY <1>1, <1>2, TypeKept, TypeStep, PTL DEF Spec

(* Of a label whose key is another's nothing is written.                   *)
LEMMA WriteKeepsWriteInv ==
  ASSUME TypeInv, pc = "write", WriteInv, WriteLabel
  PROVE  WriteInv'
  <1> DEFINE own == world[Providers[at]]
  <1>1. UNCHANGED <<at, world>>
    BY DEF WriteLabel, worldVars
  <1>2. PICK l \in todo : labels' = [labels EXCEPT ![l[1]] = l[2]] /\ todo' = todo \ {l}
    BY DEF WriteLabel
  <1>3. l \in own /\ l = <<l[1], l[2]>> /\ l[1] \in Key
    BY DEF WriteInv, TypeInv, Label
  <1>4. labels'[l[1]] = l[2] /\ \A k \in Key \ {l[1]} : labels'[k] = labels[k]
    BY <1>2, <1>3 DEF TypeInv, LabelMap
  <1>5. own \subseteq Label
    BY DEF TypeInv, Inside, Source
  <1>6. \A k \in KeysOf(own \ todo') : <<k, labels'[k]>> \in own
    <2> SUFFICES ASSUME NEW k \in KeysOf(own \ todo') PROVE <<k, labels'[k]>> \in own
      OBVIOUS
    <2>1. CASE k = l[1]
      BY <2>1, <1>3, <1>4
    <2>2. CASE k # l[1]
      <3>1. k \in KeysOf(own \ todo) /\ k \in Key
        BY <2>2, <1>2, <1>5 DEF KeysOf, Label
      <3> QED BY <2>2, <3>1, <1>4 DEF WriteInv
    <2> QED BY <2>1, <2>2
  <1>7. l[1] \in KeysOf(own)
    BY <1>3 DEF KeysOf
  <1> QED BY <1>1, <1>2, <1>4, <1>6, <1>7 DEF WriteInv, Has

(* A provider that has written all its labels has its say on each key that *)
(* it has.                                                                 *)
LEMMA WrittenPrevails ==
  ASSUME TypeInv, pc = "write", WriteInv, todo = {}
  PROVE  PrevailsUpTo(at)
  <1> SUFFICES ASSUME NEW k \in Key, NEW i \in 1 .. at, Has(Providers[i], k),
                      \A j \in i + 1 .. at : ~Has(Providers[j], k)
               PROVE  <<k, labels[k]>> \in world[Providers[i]]
    BY DEF PrevailsUpTo
  <1>0. at \in Nat \ {0}
    BY ProvidersAreSequence DEF TypeInv, Inside
  <1>1. CASE i = at
    BY <1>1 DEF WriteInv, Has
  <1>2. CASE i # at
    <2>1. i \in 1 .. at - 1 /\ at \in i + 1 .. at
      BY <1>0, <1>2
    <2>2. k \notin KeysOf(world[Providers[at]])
      BY <2>1 DEF Has
    <2>3. \A j \in i + 1 .. at - 1 : ~Has(Providers[j], k)
      BY <1>0
    <2> QED BY <2>1, <2>2, <2>3 DEF WriteInv
  <1> QED BY <1>1, <1>2

LEMMA CycleKept == IInv /\ [Next]_vars => CycleInv'
  <1> SUFFICES ASSUME IInv, [Next]_vars PROVE CycleInv'
    OBVIOUS
  <1> USE DEF IInv
  <1>1. CASE BeginCycle
    <2>1. PrevailsUpTo(0)'
      BY DEF PrevailsUpTo
    <2> QED BY <1>1, <2>1 DEF BeginCycle, Runner!BeginCycle, CycleInv, PrevailsUpTo
  <1>2. CASE ReadLabels
    <2>1. UNCHANGED <<labels, world, at>> /\ pc' = "write"
      BY <1>2 DEF ReadLabels, worldVars
    <2>2. undisturbed' => undisturbed /\ todo' = world[Providers[at]]
      BY <1>2 DEF ReadLabels
    <2>3. undisturbed => PrevailsUpTo(at - 1)
      BY <1>2 DEF ReadLabels, CycleInv
    <2>4. undisturbed' => WriteInv'
      BY <2>1, <2>2, <2>3 DEF WriteInv, PrevailsUpTo, KeysOf, Has
    <2> QED BY <2>1, <2>4 DEF CycleInv
  <1>3. CASE WriteLabel
    <2>1. pc = "write" /\ UNCHANGED <<pc, undisturbed>>
      BY <1>3 DEF WriteLabel
    <2> QED BY <1>3, <2>1, WriteKeepsWriteInv DEF CycleInv
  <1>4. CASE LabelsWritten
    <2>1. UNCHANGED <<labels, world, undisturbed>> /\ pc = "write" /\ todo = {}
      BY <1>4 DEF LabelsWritten, worldVars
    <2>2. undisturbed => PrevailsUpTo(at)
      BY <2>1, WrittenPrevails DEF CycleInv
    <2>3. \/ pc' = "call" /\ at' - 1 = at
          \/ pc' = "rest" /\ at = Len(Providers)
      BY <1>4, ProvidersAreSequence DEF LabelsWritten, Runner!Return, TypeInv, Inside
    <2> QED BY <2>1, <2>2, <2>3 DEF CycleInv, PrevailsUpTo, Has
  <1>5. CASE Scrape \/ UNCHANGED vars
    <2>1. UNCHANGED <<labels, pc, at, todo, world, undisturbed>>
      BY <1>5 DEF Scrape, BeginScrape, Visit, Observe, runnerVars, worldVars, vars
    <2> QED BY <2>1 DEF CycleInv, PrevailsUpTo, WriteInv, Has
  <1>6. ASSUME NEW p \in Source, Change(p) PROVE CycleInv'
    BY <1>6 DEF Change, CycleInv
  <1> QED BY <1>1, <1>2, <1>3, <1>4, <1>5, <1>6 DEF Next, Collect

(* The order of Providers is the precedence: after a cycle that saw one    *)
(* world, each label bears a value of the last provider that has it,       *)
(* whatever order a provider writes its labels in.                         *)
THEOREM LastPrevails == Spec => []LastProviderPrevails
  <1>1. IInv /\ [Next]_vars => IInv'
    BY TypeKept, CycleKept DEF IInv
  <1>2. IInv => LastProviderPrevails
    BY ProvidersAreSequence DEF IInv, CycleInv, LastProviderPrevails, PrevailsUpTo
  <1> QED BY InitInv, <1>1, <1>2, PTL DEF Spec
=============================================================================
