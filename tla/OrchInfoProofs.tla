--------------------------- MODULE OrchInfoProofs ---------------------------
(* Proofs about OrchInfo, and about OrchScrape, in which it is scraped:    *)
(* for every list of providers, all agents and whatever the providers      *)
(* find.                                                                   *)
EXTENDS OrchScrape, TLAPS

USE DEF worldVars

LEMMA ProvidersType ==
  /\ Len(Providers) \in Nat \ {0}
  /\ DOMAIN Providers = 1 .. Len(Providers)
  /\ \A k \in DOMAIN Providers : Providers[k] \in {"ocm"} \cup NuvlaProvider
<1> DEFINE S == {"ocm"} \cup NuvlaProvider
<1>1. Providers \in Seq(S) /\ Providers # << >>
  BY OrchAssumption
<1> HIDE DEF S
<1>2. /\ Len(Providers) \in Nat \ {0}
      /\ DOMAIN Providers = 1 .. Len(Providers)
      /\ \A k \in DOMAIN Providers : Providers[k] \in S
  BY <1>1
<1> QED  BY <1>2 DEF S

(* The stores of an assignment are stores of values of the fields.         *)
LEMMA AssignType ==
  /\ \A a \in Described : Fields!Assign(InfoOf(a)) \subseteq Store
  /\ Fields!Assign([Type |-> "nuvla"]) \subseteq Store
<1>1. ASSUME NEW a \in Described, NEW s \in Fields!Assign(InfoOf(a))
      PROVE  s \in Store
  <2>1. PICK f \in Field, h \in Half : s = <<<<f, h>>, InfoOf(a)[f]>>
    BY <1>1 DEF Fields!Assign, InfoOf, Field
  <2>2. InfoOf(a)[f] \in {NameOf(a), "ocm", "nuvla"}
    <3>1. CASE f = "Type"  BY <3>1 DEF InfoOf, TypeOf
    <3>2. CASE f \in {"AgentId", "AgentName"}  BY <3>2 DEF InfoOf
    <3> QED  BY <3>1, <3>2 DEF Field
  <2>3. InfoOf(a)[f] \in Value
    BY <2>2 DEF Value, NameOf
  <2> QED  BY <2>1, <2>3 DEF Store, Fields!Word
<1>2. ASSUME NEW s \in Fields!Assign([Type |-> "nuvla"])
      PROVE  s \in Store
  <2>1. PICK h \in Half : s = <<<<"Type", h>>, "nuvla">>
    BY <1>2 DEF Fields!Assign
  <2> QED  BY <2>1 DEF Store, Fields!Word, Field, Value
<1> QED  BY <1>1, <1>2

(* A provider that returns leaves the runner with a provider, or resting.  *)
LEMMA ReturnType ==
  ASSUME TypeOK, NEW t \in Thread, Return(t)
  PROVE  /\ at' \in DOMAIN Providers
         /\ pc' = [pc EXCEPT ![t] = "call"] \/ pc' = [pc EXCEPT ![t] = "rest"]
BY ProvidersType DEF Return, Goto, TypeOK

LEMMA InitType == Init => TypeOK
<1>1. 1 \in DOMAIN Providers
  BY ProvidersType
<1>2. ASSUME Init
      PROVE  orch \in [Fields!Word -> Value]
  BY <1>2 DEF Init, Fields!Init, Value
<1>3. ASSUME Init
      PROVE  todo \in [Thread -> SUBSET Store]
  BY <1>3 DEF Init
<1>4. ASSUME Init
      PROVE  changes \in 0 .. MaxChanges
  BY <1>4, BoundAssumption DEF Init
<1>5. ASSUME Init
      PROVE  left \in [Thread -> Seq(OcmPod)]
  <2>1. << >> \in Seq(OcmPod)
    OBVIOUS
  <2> QED  BY <1>5, <2>1 DEF Init
<1> QED  BY <1>1, <1>2, <1>3, <1>4, <1>5 DEF Init, TypeOK

(* What is left of a list of pods is one.                                  *)
LEMMA TailType ==
  ASSUME NEW s \in Seq(OcmPod), s # << >>
  PROVE  /\ Tail(s) \in Seq(OcmPod)
         /\ Len(s) \in Nat \ {0} /\ Len(Tail(s)) = Len(s) - 1
         /\ Head(s) = s[1] /\ 1 \in DOMAIN s
         /\ \A j \in DOMAIN Tail(s) : j + 1 \in DOMAIN s /\ Tail(s)[j] = s[j + 1]
<1> DEFINE S == OcmPod
<1>0. s \in Seq(S)
  OBVIOUS
<1> HIDE DEF S
<1>1. /\ Tail(s) \in Seq(S)
      /\ Len(s) \in Nat \ {0} /\ Len(Tail(s)) = Len(s) - 1
      /\ Head(s) = s[1] /\ 1 \in DOMAIN s
      /\ \A j \in DOMAIN Tail(s) : j + 1 \in DOMAIN s /\ Tail(s)[j] = s[j + 1]
  BY <1>0
<1> QED  BY <1>1 DEF S

LEMMA PodsType ==
  ASSUME TypeOK
  PROVE  /\ pods \in Seq(OcmPod) /\ Len(pods) \in Nat
         /\ DOMAIN pods = 1 .. Len(pods)
<1>1. pods \in Seq(OcmPod)
  BY OrchAssumption DEF TypeOK
<1> DEFINE S == OcmPod
<1>2. pods \in Seq(S)
  BY <1>1
<1> HIDE DEF S
<1>3. Len(pods) \in Nat /\ DOMAIN pods = 1 .. Len(pods)
  BY <1>2
<1> QED  BY <1>1, <1>3

(* No store, and no return, leads out of the types.                        *)
LEMMA TypeStep == TypeOK /\ [Next]_vars => TypeOK'
<1> SUFFICES ASSUME TypeOK, [Next]_vars
             PROVE  TypeOK'
  OBVIOUS
<1> USE DEF TypeOK, Thread
<1>1. CASE BeginCycle
  <2>1. 1 \in DOMAIN Providers
    BY ProvidersType
  <2> QED  BY <1>1, <2>1 DEF BeginCycle, Goto
<1>2. CASE OnStartedLeading  BY <1>2 DEF OnStartedLeading, Goto
<1>3. CASE OnStoppedLeading  BY <1>3 DEF OnStoppedLeading
<1>4. ASSUME NEW t \in Thread, ThreadStep(t)
      PROVE  TypeOK'
  <2> HIDE DEF Store, Provider, Return
  <2>1. CASE Call(t)  BY <2>1, ReturnType DEF Call, Goto
  <2>2. CASE ListAgents(t)
    <3>1. << >> \in Seq(OcmPod) /\ pods \in Seq(OcmPod)
      BY PodsType
    <3>2. PICK seen \in Seq(OcmPod) : left' = [left EXCEPT ![t] = seen]
      BY <2>2, <3>1 DEF ListAgents
    <3>3. /\ pc' = [pc EXCEPT ![t] = "scan"]
          /\ UNCHANGED <<orch, todo, at, json, iAmTheLeader, process, worldVars>>
          /\ undisturbed' \in BOOLEAN
      BY <2>2 DEF ListAgents, Goto
    <3> QED  BY <3>2, <3>3
  <2>7. CASE ScanPod(t)
    <3>1. left' \in [Thread -> Seq(OcmPod)]
      BY <2>7, TailType DEF ScanPod
    <3>2. todo' \in [Thread -> SUBSET Store] /\ process' \in {"up", "crashed"}
      BY <2>7, AssignType DEF ScanPod, Described, Agent
    <3>3. UNCHANGED <<orch, pc, at, json, iAmTheLeader, worldVars, undisturbed>>
      BY <2>7 DEF ScanPod
    <3> QED  BY <3>1, <3>2, <3>3
  <2>3. CASE ReadNuvlaFile(t)
    <3>1. PICK seen \in {files[Provider(t)], "absent"} :
            \/ Return(t) /\ UNCHANGED <<todo, json>>
            \/ /\ json' = seen
               /\ todo' = [todo EXCEPT ![t] = Fields!Assign([Type |-> "nuvla"])]
               /\ Goto(t, "parse")
               /\ UNCHANGED at
      BY <2>3 DEF ReadNuvlaFile
    <3>2. seen \in NuvlaStates \cup {"absent"}
      <4>1. Provider(t) \in NuvlaSource
        BY <2>3, ProvidersType
           DEF ReadNuvlaFile, Provider, Source, NuvlaSource, NuvlaProvider
      <4> QED  BY <4>1
    <3>3. UNCHANGED <<orch, left, iAmTheLeader, process, worldVars>>
            /\ undisturbed' \in BOOLEAN
      BY <2>3 DEF ReadNuvlaFile
    <3>5. CASE Return(t) /\ UNCHANGED <<todo, json>>
      BY <3>3, <3>5, ReturnType
    <3>6. CASE /\ json' = seen
               /\ todo' = [todo EXCEPT ![t] = Fields!Assign([Type |-> "nuvla"])]
               /\ Goto(t, "parse")
               /\ UNCHANGED at
      BY <3>2, <3>3, <3>6, AssignType DEF Goto
    <3> QED  BY <3>1, <3>5, <3>6
  <2>4. CASE Parse(t)
    BY <2>4, ReturnType, AssignType DEF Parse, Goto
  <2>5. CASE StoreWord(t)
    BY <2>5 DEF StoreWord, Fields!Store, Store
  <2>6. CASE Stored(t)  BY <2>6, ReturnType DEF Stored
  <2> QED
    BY <1>4, <2>1, <2>2, <2>3, <2>4, <2>5, <2>6, <2>7 DEF ThreadStep
<1>5. CASE Change
  <2>1. pods' \in PodLists /\ files' \in [NuvlaSource -> NuvlaStates]
    BY <1>5 DEF Change
  <2>2. changes' \in 0 .. MaxChanges
    BY <1>5, BoundAssumption DEF Change
  <2> QED  BY <1>5, <2>1, <2>2 DEF Change
<1>6. CASE UNCHANGED vars
  BY <1>6 DEF vars
<1> QED  BY <1>1, <1>2, <1>3, <1>4, <1>5, <1>6 DEF Next

(* Whatever is found and however the goroutines interleave, only values of *)
(* the fields are stored, and the runner ends at its last provider.        *)
THEOREM TypeInvariant == Spec => []TypeOK
BY InitType, TypeStep, PTL DEF Spec

-----------------------------------------------------------------------------
(* Where the goroutines are.                                               *)

LEMMA ReturnPc ==
  ASSUME TypeOK, PcInv, NEW t \in Thread, Return(t)
  PROVE  /\ pc' = [pc EXCEPT ![t] = "call"] \/ pc' = [pc EXCEPT ![t] = "rest"]
         /\ pc'["runner"] = "rest" => at' = Len(Providers)
         /\ t = "listener" => at' = at
BY ProvidersType DEF Return, Goto, TypeOK, PcInv, Thread

LEMMA PcInvStep ==
  ASSUME TypeOK, PcInv, [Next]_vars
  PROVE  PcInv'
<1> USE DEF TypeOK, PcInv, Thread
<1>1. CASE BeginCycle  BY <1>1 DEF BeginCycle, Goto
<1>2. CASE OnStartedLeading  BY <1>2 DEF OnStartedLeading, Goto
<1>3. CASE OnStoppedLeading  BY <1>3 DEF OnStoppedLeading
<1>4. ASSUME NEW t \in Thread, ThreadStep(t)
      PROVE  PcInv'
  <2>1. CASE Call(t)
    <3>1. CASE Return(t)
      BY <2>1, <3>1, ReturnPc DEF Call
    <3>2. CASE Goto(t, "look") /\ UNCHANGED at
      BY <2>1, <3>2 DEF Call, Goto
    <3> QED  BY <2>1, <3>1, <3>2 DEF Call
  <2>2. CASE ListAgents(t)
    BY <2>2 DEF ListAgents, Goto, Provider
  <2>7. CASE ScanPod(t)
    <3>1. pc[t] = "scan" /\ UNCHANGED <<pc, at, json>>
      BY <2>7 DEF ScanPod
    <3>2. UNCHANGED todo \/ \E S : todo' = [todo EXCEPT ![t] = S]
      BY <2>7 DEF ScanPod
    <3> QED  BY <3>1, <3>2
  <2>3. CASE ReadNuvlaFile(t)
    <3>1. CASE Return(t) /\ UNCHANGED <<todo, json>>
      BY <2>3, <3>1, ReturnPc DEF ReadNuvlaFile
    <3>2. CASE \E S : todo' = [todo EXCEPT ![t] = S] /\ Goto(t, "parse")
                      /\ json' # "absent" /\ UNCHANGED at
      BY <2>3, <3>2 DEF ReadNuvlaFile, Goto, Provider, NuvlaProvider
    <3> QED  BY <2>3, <3>1, <3>2 DEF ReadNuvlaFile
  <2>4. CASE Parse(t)
    <3>1. CASE Return(t) /\ UNCHANGED todo
      BY <2>4, <3>1, ReturnPc DEF Parse
    <3>2. CASE \E S : todo' = [todo EXCEPT ![t] = S] /\ Goto(t, "store")
                      /\ UNCHANGED at
      BY <2>4, <3>2 DEF Parse, Goto
    <3>3. CASE UNCHANGED <<pc, at, todo>>
      BY <2>4, <3>3 DEF Parse
    <3> QED  BY <2>4, <3>1, <3>2, <3>3 DEF Parse
  <2>5. CASE StoreWord(t)  BY <2>5 DEF StoreWord
  <2>6. CASE Stored(t)  BY <2>6, ReturnPc DEF Stored
  <2> QED
    BY <1>4, <2>1, <2>2, <2>3, <2>4, <2>5, <2>6, <2>7 DEF ThreadStep
<1>5. CASE Change  BY <1>5 DEF Change
<1>6. CASE UNCHANGED vars
  BY <1>6 DEF vars
<1> QED  BY <1>1, <1>2, <1>3, <1>4, <1>5, <1>6 DEF Next

(* While a cycle is undisturbed, the listener is not running.              *)
LEMMA ListenerStill ==
  ASSUME TypeOK, PcInv, QuietInv, undisturbed
  PROVE  ~ThreadStep("listener")
BY DEF PcInv, QuietInv, Thread, ThreadStep, Call, ListAgents, ScanPod, ReadNuvlaFile,
       Parse, StoreWord, Stored

(* A step that leaves a cycle undisturbed is the begin of the cycle or a   *)
(* step of the runner, whose calls see the world as it is.                 *)
LEMMA UndisturbedStep ==
  ASSUME TypeOK, PcInv, QuietInv, [Next]_vars, undisturbed'
  PROVE  \/ BeginCycle
         \/ undisturbed /\ ThreadStep("runner")
         \/ UNCHANGED vars
<1>1. ASSUME NEW t \in Thread, ThreadStep(t)
      PROVE  undisturbed
  BY <1>1 DEF ThreadStep, Call, ListAgents, ScanPod, ReadNuvlaFile, Parse, StoreWord,
              Stored
<1>2. ASSUME NEW t \in Thread, ThreadStep(t)
      PROVE  undisturbed /\ ThreadStep("runner")
  BY <1>1, <1>2, ListenerStill DEF Thread
<1>3. ~OnStartedLeading /\ ~OnStoppedLeading /\ ~Change
  BY DEF OnStartedLeading, OnStoppedLeading, Change
<1> QED  BY <1>2, <1>3 DEF Next

LEMMA QuietInvStep ==
  ASSUME TypeOK, PcInv, QuietInv, [Next]_vars
  PROVE  QuietInv'
<1> SUFFICES ASSUME undisturbed'
             PROVE  pc'["runner"] # "off" /\ pc'["listener"] \in {"off", "rest"}
  BY DEF QuietInv
<1> USE DEF TypeOK, Thread
<1>1. CASE BeginCycle  BY <1>1 DEF BeginCycle, Goto
<1>2. CASE undisturbed /\ ThreadStep("runner")
  <2>1. pc["runner"] # "off" /\ pc["listener"] \in {"off", "rest"}
    BY <1>2 DEF QuietInv
  <2>2. \/ UNCHANGED pc
        \/ \E l \in {"call", "look", "scan", "parse", "store", "rest"} :
             pc' = [pc EXCEPT !["runner"] = l]
    BY <1>2 DEF ThreadStep, Call, ListAgents, ScanPod, ReadNuvlaFile, Parse, StoreWord,
                Stored, Return, Goto
  <2> QED  BY <2>1, <2>2
<1>3. CASE UNCHANGED vars  BY <1>3 DEF vars, QuietInv
<1> QED  BY <1>1, <1>2, <1>3, UndisturbedStep

-----------------------------------------------------------------------------
(* The runner's cycle.                                                     *)

LEMMA SkippedDoesNotPrevail ==
  ASSUME NEW n \in Nat, n >= 1, ~Stores(Providers[n]), NEW k \in Nat, Prevails(k, n)
  PROVE  Prevails(k, n - 1)
<1>1. k # n
  BY DEF Prevails
<1> QED  BY <1>1 DEF Prevails

LEMMA LastPrevails ==
  ASSUME NEW n \in Nat, Stores(Providers[n]), NEW k \in Nat, Prevails(k, n)
  PROVE  k = n
BY DEF Prevails

(* When a provider returns, the cycle goes on from what the fields hold.   *)
LEMMA ReturnCycle ==
  ASSUME TypeOK, pc["runner"] # "rest", Return("runner"),
         UNCHANGED <<orch, iAmTheLeader, worldVars>>,
         \A k \in DOMAIN Providers : Prevails(k, at) =>
           \A a \in Leaves(Providers[k]) : Fields!Holds(InfoOf(a))
  PROVE  CycleInv'
<1>1. pc'["runner"] \in {"call", "rest"} /\ Called' = at
  <2>1. at \in Nat /\ Len(Providers) \in Nat /\ at <= Len(Providers)
    BY ProvidersType DEF TypeOK
  <2>2. pc = [t \in Thread |-> pc[t]] /\ "runner" \in Thread
    BY DEF TypeOK, Thread
  <2>3. CASE at < Len(Providers)
    <3>1. pc' = [pc EXCEPT !["runner"] = "call"] /\ at' = at + 1
      BY <2>3 DEF Return, Goto
    <3>2. pc'["runner"] = "call"
      BY <2>2, <3>1
    <3> QED  BY <2>1, <3>1, <3>2 DEF Called
  <2>4. CASE ~(at < Len(Providers))
    <3>1. pc' = [pc EXCEPT !["runner"] = "rest"]
      BY <2>4 DEF Return, Goto
    <3>2. pc'["runner"] = "rest"
      BY <2>2, <3>1
    <3> QED  BY <2>1, <2>4, <3>2 DEF Called
  <2> QED  BY <2>3, <2>4
<1>2. ASSUME NEW k \in DOMAIN Providers
      PROVE  /\ Prevails(k, Called)' <=> Prevails(k, at)
             /\ Leaves(Providers[k])' = Leaves(Providers[k])
  BY <1>1 DEF Prevails, Stores, Candidates, Leaves, LastAgent
<1>3. ASSUME NEW a, Fields!Holds(InfoOf(a))
      PROVE  Fields!Holds(InfoOf(a))'
  BY <1>3 DEF Fields!Holds
<1>4. CalledPrevail'
  BY <1>2, <1>3 DEF CalledPrevail
<1> QED
  BY <1>1, <1>4 DEF CycleInv, BetweenInv, LookInv, ParseInv, StoreInv, ScanInv

(* What the providers called so far have left is still there when the next *)
(* one has stored nothing.                                                 *)
LEMMA CalledToo ==
  ASSUME TypeOK, pc["runner"] # "rest", CalledPrevail,
         NEW k \in DOMAIN Providers, Prevails(k, at), k # at,
         NEW a \in Leaves(Providers[k])
  PROVE  Fields!Holds(InfoOf(a))
<1>1. at \in Nat /\ at >= 1 /\ Called = at - 1 /\ k \in Nat
  BY ProvidersType DEF TypeOK, Called
<1>2. ~Stores(Providers[at])
  BY <1>1 DEF Prevails
<1>3. Prevails(k, Called)
  BY <1>1, <1>2, SkippedDoesNotPrevail
<1> QED  BY <1>3 DEF CalledPrevail

LEMMA ReturnWithoutStoring ==
  ASSUME TypeOK, CycleInv, undisturbed, pc["runner"] \in {"call", "look"},
         ~Stores(Providers[at]), Return("runner"),
         UNCHANGED <<orch, iAmTheLeader, worldVars>>
  PROVE  CycleInv'
<1>1. CalledPrevail
  BY DEF CycleInv, BetweenInv
<1>2. ASSUME NEW k \in DOMAIN Providers, Prevails(k, at),
             NEW a \in Leaves(Providers[k])
      PROVE  Fields!Holds(InfoOf(a))
  <2>1. k # at
    BY <1>2 DEF Prevails
  <2> QED  BY <1>1, <1>2, <2>1, CalledToo
<1> QED  BY <1>2, ReturnCycle

(* What is described is told apart from everything else that is found, and *)
(* a file never names an agent of OCM.                                     *)
LEMMA AgentIsNoFault ==
  /\ \A x \in OcmFaults \cup {"absent", "malformed", "null"} : x \notin Described
  /\ \A x \in NuvlaStates : x \in Described => x \in NuvlaAgent \cup {"blank"}
  /\ "blank" \notin Agent
BY OrchAssumption DEF OcmFaults, NuvlaFaults, Agent, Described

LEMMA AssignedWords ==
  ASSUME NEW a \in Described
  PROVE  /\ \A f \in Field, h \in Half :
              <<<<f, h>>, InfoOf(a)[f]>> \in Fields!Assign(InfoOf(a))
         /\ \A s \in Fields!Assign(InfoOf(a)) :
              \E f \in Field, h \in Half : s = <<<<f, h>>, InfoOf(a)[f]>>
BY DEF Fields!Assign, InfoOf, Field

(* An assignment of the three fields begins; a word of it is stored; it is *)
(* complete.                                                               *)
LEMMA BeginStoring ==
  ASSUME NEW a \in Described, todo'["runner"] = Fields!Assign(InfoOf(a))
  PROVE  Storing(a)'
BY AssignedWords DEF Storing

LEMMA KeepStoring ==
  ASSUME TypeOK, NEW a \in Described, Storing(a), NEW s \in todo["runner"],
         orch' = [orch EXCEPT ![s[1]] = s[2]],
         todo' = [todo EXCEPT !["runner"] = @ \ {s}]
  PROVE  Storing(a)'
<1> DEFINE r == InfoOf(a)
<1>1. PICK g \in Field, w \in Half : s = <<<<g, w>>, r[g]>>
  BY AssignedWords DEF Storing
<1>2. todo'["runner"] = todo["runner"] \ {s}
  BY DEF TypeOK, Thread
<1>3. ASSUME NEW f \in Field, NEW h \in Half
      PROVE  orch'[<<f, h>>] = r[f] \/ <<<<f, h>>, r[f]>> \in todo'["runner"]
  <2>1. <<f, h>> \in DOMAIN orch
    BY DEF TypeOK, Fields!Word
  <2>2. CASE <<f, h>> = <<g, w>>
    BY <1>1, <2>1, <2>2
  <2>3. CASE <<f, h>> # <<g, w>>
    <3>1. orch'[<<f, h>>] = orch[<<f, h>>]
      BY <1>1, <2>1, <2>3
    <3>2. <<<<f, h>>, r[f]>> # s
      BY <1>1, <2>3
    <3> QED  BY <1>2, <3>1, <3>2 DEF Storing
  <2> QED  BY <2>2, <2>3
<1> QED  BY <1>2, <1>3 DEF Storing

LEMMA EndStoring ==
  ASSUME NEW a, Storing(a), todo["runner"] = {}
  PROVE  Fields!Holds(InfoOf(a))
BY DEF Storing, Fields!Holds, InfoOf, Field

(* One pod more: its agent, if it has one, is the last.                    *)
LEMMA LastAgentStep ==
  ASSUME NEW n \in Nat
  PROVE  /\ pods[n + 1] \in OcmAgent => LastAgent(n + 1) = {pods[n + 1]}
         /\ pods[n + 1] \notin OcmAgent => LastAgent(n + 1) = LastAgent(n)
<1> DEFINE Last(m) == {j \in 1 .. m :
             pods[j] \in OcmAgent /\ \A l \in j + 1 .. m : pods[l] \notin OcmAgent}
<1>1. ASSUME pods[n + 1] \in OcmAgent
      PROVE  Last(n + 1) = {n + 1}
  BY <1>1
<1>2. ASSUME pods[n + 1] \notin OcmAgent
      PROVE  Last(n + 1) = Last(n)
  BY <1>2
<1> QED  BY <1>1, <1>2 DEF LastAgent

LEMMA LastAgentIsOne ==
  ASSUME TypeOK
  PROVE  /\ LastAgent(0) = {}
         /\ \A n \in Nat : LastAgent(n) \subseteq OcmAgent
         /\ LastAgent(Len(pods)) \subseteq Candidates("ocm")
BY PodsType DEF LastAgent, Candidates

LEMMA CycleInvKept ==
  ASSUME CycleInv,
         UNCHANGED <<orch, pc, todo, at, left, json, iAmTheLeader, worldVars, undisturbed>>
  PROVE  CycleInv'
<1>1. /\ \A p : Leaves(p)' = Leaves(p)
      /\ \A n : LastAgent(n)' = LastAgent(n)
      /\ \A k, n : Prevails(k, n)' = Prevails(k, n)
  BY DEF Stores, Candidates, Leaves, LastAgent, Prevails
<1>2. Called' = Called /\ Scanned' = Scanned
  BY DEF Called, Scanned
<1>3. /\ \A a : Storing(a)' = Storing(a)
      /\ \A a : Fields!Holds(InfoOf(a))' = Fields!Holds(InfoOf(a))
  BY DEF Storing, Fields!Holds
<1>4. CalledPrevail' = CalledPrevail
  BY <1>1, <1>2, <1>3 DEF CalledPrevail
<1>5. LastAgent(Scanned)' = LastAgent(Scanned)
  BY <1>1, <1>2
<1>6. BetweenInv' /\ LookInv' /\ ParseInv'
  BY <1>4 DEF CycleInv, BetweenInv, LookInv, ParseInv
<1>7. StoreInv'
  BY <1>3 DEF CycleInv, StoreInv
<1>8. ScanInv'
  BY <1>2, <1>3, <1>4, <1>5 DEF CycleInv, ScanInv
<1> QED  BY <1>6, <1>7, <1>8 DEF CycleInv

LEMMA CycleInvStep ==
  ASSUME TypeOK, PcInv, QuietInv, CycleInv, [Next]_vars
  PROVE  CycleInv'
<1> SUFFICES ASSUME undisturbed'
             PROVE  CycleInv'
  BY DEF CycleInv, BetweenInv, LookInv, ParseInv, StoreInv, ScanInv
<1>1. CASE BeginCycle
  <2>1. pc'["runner"] = "call" /\ at' = 1 /\ Called' = 0
    BY <1>1 DEF BeginCycle, Goto, TypeOK, Thread, Called
  <2>2. \A k \in DOMAIN Providers : ~Prevails(k, Called)'
    BY <2>1, ProvidersType DEF Prevails
  <2> QED
    BY <2>1, <2>2 DEF CycleInv, BetweenInv, LookInv, ParseInv, StoreInv, ScanInv,
                      CalledPrevail
<1>2. CASE UNCHANGED vars
  BY <1>2, CycleInvKept DEF vars
<1>3. ASSUME undisturbed, ThreadStep("runner")
      PROVE  CycleInv'
  <2> DEFINE t == "runner"
  <2>0. Provider(t) = Providers[at] /\ UNCHANGED <<iAmTheLeader, worldVars>>
    BY <1>3 DEF Provider, ThreadStep, Call, ListAgents, ScanPod, ReadNuvlaFile,
                Parse, StoreWord, Stored
  <2>a. /\ \A p : Stores(p)' = Stores(p)
        /\ \A p : Leaves(p)' = Leaves(p)
        /\ \A n : LastAgent(n)' = LastAgent(n)
        /\ \A k, n : Prevails(k, n)' = Prevails(k, n)
    BY <2>0 DEF Stores, Candidates, Leaves, LastAgent, Prevails
  <2>b. ASSUME CalledPrevail, UNCHANGED <<at, orch>>,
               pc[t] # "rest", pc'[t] # "rest"
        PROVE  CalledPrevail'
    BY <2>a, <2>b DEF CalledPrevail, Called, Fields!Holds
  <2>1. CASE Call(t)
    <3>1. CASE Providers[at] = "ocm" /\ ~iAmTheLeader
      <4>1. ~Stores(Providers[at])
        BY <3>1 DEF Stores
      <4> QED  BY <1>3, <2>0, <2>1, <3>1, <4>1, ReturnWithoutStoring DEF Call
    <3>2. CASE ~(Providers[at] = "ocm" /\ ~iAmTheLeader)
      <4>1. pc["runner"] = "call" /\ pc'["runner"] = "look" /\ UNCHANGED <<at, orch>>
        BY <2>0, <2>1, <3>2 DEF Call, Goto, TypeOK, Thread
      <4>2. BetweenInv' /\ LookInv'
        BY <1>3, <2>0, <2>b, <3>2, <4>1 DEF CycleInv, BetweenInv, LookInv
      <4> QED  BY <4>1, <4>2 DEF CycleInv, ParseInv, StoreInv, ScanInv
    <3> QED  BY <3>1, <3>2
  <2>2. CASE ListAgents(t)
    <3>1. /\ pc[t] = "look" /\ pc'[t] = "scan" /\ Providers[at] = "ocm"
          /\ todo[t] = {} /\ UNCHANGED <<todo, at, orch>>
      BY <2>0, <2>2 DEF ListAgents, Goto, TypeOK, Thread, PcInv
    <3>2. left'[t] = pods /\ pods' = pods
      BY <2>0, <2>2 DEF ListAgents, TypeOK, Thread
    <3>3. Scanned' = 0
      BY <3>2, PodsType DEF Scanned
    <3>4. CalledPrevail'
      BY <1>3, <2>b, <3>1 DEF CycleInv, BetweenInv
    <3>5. \A j \in DOMAIN left'[t] : left'[t][j] = pods'[0 + j]
      BY <3>2, PodsType
    <3>6. LastAgent(0)' = {}
      BY <2>a, LastAgentIsOne
    <3>7. ScanInv'
      BY <3>1, <3>3, <3>4, <3>5, <3>6 DEF ScanInv
    <3> QED
      BY <1>3, <2>0, <3>1, <3>7 DEF CycleInv, BetweenInv, LookInv, ParseInv, StoreInv
  <2>7. CASE ScanPod(t)
    <3>1. /\ pc[t] = "scan" /\ todo[t] = {} /\ UNCHANGED <<pc, at, orch>>
          /\ left[t] \in Seq(OcmPod) /\ left[t] # << >>
          /\ left'[t] = Tail(left[t]) /\ pods' = pods
      BY <2>0, <2>7 DEF ScanPod, TypeOK, Thread
    <3>2. PICK n \in Nat :
            /\ n = Scanned
            /\ \A j \in DOMAIN left[t] : left[t][j] = pods[n + j]
            /\ \A a \in LastAgent(n) : Storing(a)
            /\ LastAgent(n) = {} => CalledPrevail
      <4>1. Len(left[t]) \in Nat /\ Len(pods) \in Nat
        BY <3>1, TailType, PodsType
      <4>2. Scanned \in Nat
        BY <1>3, <3>1, <4>1 DEF CycleInv, ScanInv, Scanned
      <4> QED  BY <1>3, <3>1, <4>2 DEF CycleInv, ScanInv
    <3>3. Scanned' = n + 1
      <4>1. /\ Len(left[t]) \in Nat /\ Len(pods) \in Nat
            /\ Len(left'[t]) = Len(left[t]) - 1
        BY <3>1, TailType, PodsType
      <4>2. Scanned' = Len(pods) - Len(left'[t])
        BY <3>1 DEF Scanned
      <4>3. n = Len(pods) - Len(left[t])
        BY <3>2 DEF Scanned
      <4> QED  BY <4>1, <4>2, <4>3
    <3>4. \A j \in DOMAIN left'[t] : left'[t][j] = pods'[(n + 1) + j]
      <4>1. ASSUME NEW j \in DOMAIN Tail(left[t])
            PROVE  Tail(left[t])[j] = pods[(n + 1) + j]
        <5>1. j + 1 \in DOMAIN left[t] /\ Tail(left[t])[j] = left[t][j + 1]
          BY <3>1, TailType
        <5>2. j \in Nat
          BY <3>1, TailType
        <5>3. n + (j + 1) = (n + 1) + j
          BY <3>2, <5>2
        <5> QED  BY <3>2, <5>1, <5>3
      <4> QED  BY <3>1, <4>1
    <3>5. Head(left[t]) = pods[n + 1]
      BY <3>1, <3>2, TailType
    <3>6. ASSUME pods[n + 1] \in OcmAgent
          PROVE  ScanInv'
      <4>1. todo'[t] = Fields!Assign(InfoOf(pods[n + 1]))
        BY <2>7, <3>5, <3>6, AgentIsNoFault
           DEF ScanPod, OcmFaults, Described, Agent, TypeOK, Thread
      <4>2. LastAgent(n + 1)' = {pods[n + 1]}
        BY <2>a, <3>2, <3>6, LastAgentStep
      <4>3. \A a \in LastAgent(n + 1)' : Storing(a)'
        BY <3>6, <4>1, <4>2, BeginStoring DEF Described, Agent
      <4> QED  BY <3>2, <3>3, <3>4, <4>2, <4>3 DEF ScanInv
    <3>7. ASSUME pods[n + 1] \notin OcmAgent
          PROVE  ScanInv'
      <4>1. UNCHANGED todo
        BY <2>7, <3>5, <3>7 DEF ScanPod
      <4>2. LastAgent(n + 1)' = LastAgent(n)
        BY <2>a, <3>2, <3>7, LastAgentStep
      <4>3. \A a \in LastAgent(n) : Storing(a)'
        BY <3>1, <3>2, <4>1 DEF Storing
      <4>4. LastAgent(n) = {} => CalledPrevail'
        BY <2>b, <3>1, <3>2
      <4> QED  BY <3>1, <3>2, <3>3, <3>4, <4>1, <4>2, <4>3, <4>4 DEF ScanInv
    <3>8. ScanInv'
      BY <3>6, <3>7
    <3> QED
      BY <1>3, <2>0, <3>1, <3>8 DEF CycleInv, BetweenInv, LookInv, ParseInv, StoreInv
  <2>3. CASE ReadNuvlaFile(t)
    <3> DEFINE here == files[Providers[at]]
    <3>1. pc[t] = "look" /\ Providers[at] # "ocm" /\ UNCHANGED orch
      BY <2>0, <2>3 DEF ReadNuvlaFile, NuvlaProvider
    <3>2. Stores(Providers[at]) <=> here # "absent"
      BY <3>1 DEF Stores, Candidates
    <3>3. CASE here = "absent"
      <4>1. Return(t)
        BY <2>0, <2>3, <3>3 DEF ReadNuvlaFile
      <4> QED  BY <1>3, <2>0, <3>1, <3>2, <3>3, <4>1, ReturnWithoutStoring
    <3>4. CASE here # "absent"
      <4>1. pc'[t] = "parse" /\ json' = here /\ UNCHANGED at
        BY <2>0, <2>3, <3>4 DEF ReadNuvlaFile, Goto, TypeOK, Thread
      <4>2. ParseInv'
        BY <2>0, <4>1 DEF ParseInv
      <4> QED  BY <4>1, <4>2 DEF CycleInv, BetweenInv, LookInv, StoreInv, ScanInv
    <3> QED  BY <3>3, <3>4
  <2>4. CASE Parse(t)
    <3>1. pc[t] = "parse" /\ json = files[Providers[at]] /\ Stores(Providers[at])
      BY <1>3, <2>4 DEF Parse, CycleInv, ParseInv, PcInv, Stores, Candidates
    <3>2. CASE json \in Described
      <4>1. /\ todo'[t] = Fields!Assign(InfoOf(json))
            /\ pc'[t] = "store"
            /\ UNCHANGED at
        BY <2>4, <3>2, AgentIsNoFault DEF Parse, Goto, TypeOK, Thread
      <4>2. \A a \in Described : a = json => Storing(a)'
        BY <4>1, BeginStoring
      <4>3. StoreInv'
        BY <2>0, <3>1, <3>2, <4>1, <4>2 DEF StoreInv
      <4> QED  BY <4>1, <4>3 DEF CycleInv, BetweenInv, LookInv, ParseInv, ScanInv
    <3>3. CASE json = "malformed" /\ Return(t)
      <4>1. ASSUME NEW k \in DOMAIN Providers, Prevails(k, at)
            PROVE  Leaves(Providers[k]) = {}
        <5>1. k = at
          BY <3>1, <4>1, LastPrevails, ProvidersType DEF TypeOK
        <5> QED  BY <3>1, <3>3, <5>1, AgentIsNoFault DEF Leaves, PcInv
      <4> QED  BY <2>0, <2>4, <3>1, <3>3, <4>1, ReturnCycle DEF Parse
    <3>4. CASE UNCHANGED <<pc, at>>
      BY <1>3, <2>0, <2>4, <3>1, <3>4
         DEF Parse, CycleInv, BetweenInv, LookInv, ParseInv, StoreInv, ScanInv
    <3> QED  BY <2>4, <3>2, <3>3, <3>4 DEF Parse
  <2>5. CASE StoreWord(t)
    <3>1. PICK s \in todo[t] : /\ orch' = [orch EXCEPT ![s[1]] = s[2]]
                               /\ todo' = [todo EXCEPT ![t] = @ \ {s}]
      BY <2>5 DEF StoreWord, Fields!Store
    <3>2. /\ pc[t] \in {"scan", "parse", "store"}
          /\ UNCHANGED <<pc, at, left, json>>
      BY <2>5, <3>1 DEF StoreWord, PcInv, Thread
    <3>3. ParseInv' /\ LookInv'
      BY <1>3, <2>0, <3>2 DEF CycleInv, ParseInv, LookInv
    <3>4. \A a \in Described : Storing(a) => Storing(a)'
      BY <3>1, KeepStoring
    <3>5. StoreInv'
      BY <1>3, <2>0, <3>2, <3>4 DEF CycleInv, StoreInv
    <3>6. ASSUME pc[t] = "scan"
          PROVE  ScanInv'
      <4>1. /\ Scanned >= 0
            /\ \A j \in DOMAIN left[t] : left[t][j] = pods[Scanned + j]
            /\ \A a \in LastAgent(Scanned) : Storing(a)
            /\ LastAgent(Scanned) # {}
        BY <1>3, <3>1, <3>6 DEF CycleInv, ScanInv
      <4>2. Scanned' = Scanned /\ pods' = pods
        BY <2>0, <3>2 DEF Scanned
      <4>3. LastAgent(Scanned)' = LastAgent(Scanned)
        BY <2>a, <4>2
      <4>4. LastAgent(Scanned) \subseteq Described
        BY DEF LastAgent, Described, Agent
      <4> QED  BY <3>2, <3>4, <4>1, <4>2, <4>3, <4>4 DEF ScanInv
    <3> QED
      BY <3>2, <3>3, <3>5, <3>6 DEF CycleInv, BetweenInv, ScanInv
  <2>6. CASE Stored(t)
    <3>1. todo[t] = {} /\ Return(t) /\ UNCHANGED orch /\ pc[t] # "rest"
      BY <2>6 DEF Stored
    <3>2. CASE pc[t] = "store"
      <4>1. /\ files[Providers[at]] \in Described
            /\ Fields!Holds(InfoOf(files[Providers[at]]))
        BY <1>3, <3>1, <3>2, EndStoring DEF CycleInv, StoreInv
      <4>2. Stores(Providers[at]) /\ Leaves(Providers[at]) = {files[Providers[at]]}
        BY <3>2, <4>1, AgentIsNoFault DEF Stores, Candidates, Leaves, PcInv
      <4>3. ASSUME NEW k \in DOMAIN Providers, Prevails(k, at)
            PROVE  k = at
        BY <4>2, <4>3, LastPrevails, ProvidersType DEF TypeOK
      <4> QED  BY <2>0, <3>1, <4>1, <4>2, <4>3, ReturnCycle
    <3>3. CASE pc[t] = "scan" /\ left[t] = << >>
      <4>1. Providers[at] = "ocm" /\ iAmTheLeader
        BY <1>3, <3>3 DEF PcInv, CycleInv, LookInv
      <4>2. Scanned = Len(pods)
        BY <3>3, PodsType DEF Scanned
      <4>3. /\ \A a \in LastAgent(Len(pods)) : Fields!Holds(InfoOf(a))
            /\ LastAgent(Len(pods)) = {} => CalledPrevail
        BY <1>3, <3>1, <3>3, <4>2, EndStoring DEF CycleInv, ScanInv
      <4>4. LastAgent(Len(pods)) # {} => Stores(Providers[at])
        BY <4>1, LastAgentIsOne DEF Stores
      <4>5. ASSUME NEW k \in DOMAIN Providers, Prevails(k, at),
                   NEW a \in Leaves(Providers[k])
            PROVE  Fields!Holds(InfoOf(a))
        <5>1. CASE k = at
          BY <4>1, <4>3, <4>5, <5>1 DEF Leaves
        <5>2. CASE k # at
          <6>1. ~Stores(Providers[at])
            BY <4>5, <5>2, LastPrevails, ProvidersType DEF TypeOK
          <6> QED  BY <3>1, <4>3, <4>4, <4>5, <5>2, <6>1, CalledToo
        <5> QED  BY <5>1, <5>2
      <4> QED  BY <2>0, <3>1, <4>5, ReturnCycle
    <3> QED  BY <2>6, <3>2, <3>3 DEF Stored
  <2> QED
    BY <1>3, <2>1, <2>2, <2>3, <2>4, <2>5, <2>6, <2>7 DEF ThreadStep
<1> QED  BY <1>1, <1>2, <1>3, UndisturbedStep

(* The parts of the inductive invariant hold together.                     *)
LEMMA InitInv == Init => IInv
BY InitType DEF Init, IInv, PcInv, QuietInv, CycleInv, BetweenInv, LookInv,
                ParseInv, StoreInv, ScanInv, Thread

LEMMA NextInv == IInv /\ [Next]_vars => IInv'
BY TypeStep, PcInvStep, QuietInvStep, CycleInvStep DEF IInv

LEMMA InductiveInvariant == Spec => []IInv
BY InitInv, NextInv, PTL DEF Spec

LEMMA CycleDone == IInv => UndisturbedCycle
BY DEF IInv, CycleInv, BetweenInv, CalledPrevail, UndisturbedCycle, Called

(* Whatever a race, a malformed file or an earlier world has left in the   *)
(* fields, one undisturbed cycle of the runner puts right.                 *)
THEOREM CycleRestores == Spec => []UndisturbedCycle
BY InductiveInvariant, CycleDone, PTL

-----------------------------------------------------------------------------
(* The leader's data.                                                      *)

LEMMA TypeAlone ==
  \A s \in Fields!Assign([Type |-> "nuvla"]) : s[2] = "nuvla"
BY DEF Fields!Assign

LEMMA NuvlaIsNotOcm ==
  /\ \A v \in {"", "nuvla"} \cup NuvlaAgent : v \notin OcmData
  /\ \A a \in NuvlaAgent \cup {"blank"} :
       \A s \in Fields!Assign(InfoOf(a)) : s[2] \notin OcmData
  /\ \A s \in Fields!Assign([Type |-> "nuvla"]) : s[2] \notin OcmData
<1>1. \A v \in {"", "nuvla"} \cup NuvlaAgent : v \notin OcmData
  BY OrchAssumption DEF OcmData, Agent
<1>2. ASSUME NEW a \in NuvlaAgent \cup {"blank"}, NEW s \in Fields!Assign(InfoOf(a))
      PROVE  s[2] \in {"", "nuvla"} \cup NuvlaAgent
  <2>1. PICK f \in Field, h \in Half : s = <<<<f, h>>, InfoOf(a)[f]>>
    BY <1>2, AssignedWords DEF Agent, Described
  <2>2. TypeOf(a) = "nuvla" /\ NameOf(a) \in {""} \cup NuvlaAgent
    BY AgentIsNoFault, OrchAssumption DEF TypeOf, NameOf, Agent
  <2>3. InfoOf(a)[f] \in {"nuvla", NameOf(a)}
    <3>1. CASE f = "Type"  BY <2>2, <3>1 DEF InfoOf
    <3>2. CASE f \in {"AgentId", "AgentName"}  BY <3>2 DEF InfoOf
    <3> QED  BY <3>1, <3>2 DEF Field
  <2> QED  BY <2>1, <2>2, <2>3
<1> QED  BY <1>1, <1>2, TypeAlone

LEMMA NotElectedStep ==
  ASSUME TypeOK, PcInv, OcmOnlyIfElected, NotElectedInv, [Next]_vars
  PROVE  OcmOnlyIfElected' /\ NotElectedInv'
<1> SUFFICES ASSUME pc'["listener"] = "off"
             PROVE  OcmOnlyIfElected' /\ NotElectedInv'
  BY DEF OcmOnlyIfElected, NotElectedInv
<1> USE DEF TypeOK, PcInv, OcmOnlyIfElected, NotElectedInv, Thread
<1>1. CASE BeginCycle  BY <1>1 DEF BeginCycle, Goto
<1>2. CASE OnStartedLeading  BY <1>2 DEF OnStartedLeading, Goto
<1>3. CASE OnStoppedLeading  BY <1>3 DEF OnStoppedLeading
<1>4. ASSUME ThreadStep("runner")
      PROVE  OcmOnlyIfElected' /\ NotElectedInv'
  <2>0. Provider("runner") = Providers[at]
    BY DEF Provider
  <2>1. CASE Call("runner")  BY <2>0, <2>1 DEF Call, Return, Goto
  <2>2. CASE ListAgents("runner")
    <3>1. pc["listener"] # "off"
      BY <2>0, <2>2 DEF ListAgents
    <3>2. pc'["listener"] = pc["listener"]
      BY <2>2 DEF ListAgents, Return, Goto
    <3> QED  BY <3>1, <3>2
  <2>7. CASE ScanPod("runner")
    <3>1. pc["listener"] # "off" /\ UNCHANGED pc
      BY <2>7 DEF ScanPod
    <3> QED  BY <3>1
  <2>3. CASE ReadNuvlaFile("runner")
    BY <2>3, NuvlaIsNotOcm DEF ReadNuvlaFile, Return, Goto
  <2>4. CASE Parse("runner")
    <3>1. json \in Described => json \in NuvlaAgent \cup {"blank"}
      BY AgentIsNoFault DEF OcmFaults
    <3> QED  BY <2>4, <3>1, NuvlaIsNotOcm DEF Parse, Return, Goto
  <2>5. CASE StoreWord("runner")  BY <2>5 DEF StoreWord, Fields!Store
  <2>6. CASE Stored("runner")  BY <2>6 DEF Stored, Return, Goto
  <2> QED
    BY <1>4, <2>1, <2>2, <2>3, <2>4, <2>5, <2>6, <2>7 DEF ThreadStep
<1>5. ASSUME ThreadStep("listener")
      PROVE  FALSE
  <2>1. pc["listener"] # "off" \/ todo["listener"] # {}
    BY <1>5 DEF ThreadStep, Call, ListAgents, ScanPod, ReadNuvlaFile, Parse, StoreWord,
                Stored
  <2>2. pc["listener"] # "off"
    BY <2>1
  <2>3. \/ UNCHANGED pc
        \/ \E l \in {"call", "look", "scan", "parse", "store", "rest"} :
             pc' = [pc EXCEPT !["listener"] = l]
    BY <1>5 DEF ThreadStep, Call, ListAgents, ScanPod, ReadNuvlaFile, Parse, StoreWord,
                Stored, Return, Goto
  <2> QED  BY <2>2, <2>3
<1>6. CASE Change  BY <1>6 DEF Change
<1>7. CASE UNCHANGED vars
  BY <1>7 DEF vars
<1> QED  BY <1>1, <1>2, <1>3, <1>4, <1>5, <1>6, <1>7 DEF Next

(* The listener does not become idle again.                                *)
LEMMA ElectionIsFinal ==
  ASSUME TypeOK, [Next]_vars, pc'["listener"] = "off"
  PROVE  pc["listener"] = "off"
BY DEF TypeOK, Thread, Next, BeginCycle, OnStartedLeading, OnStoppedLeading,
       ThreadStep, Call, ListAgents, ScanPod, ReadNuvlaFile, Parse, StoreWord, Stored,
       Return, Goto, Change, vars

LEMMA NotElectedInit == Init => OcmOnlyIfElected /\ NotElectedInv
BY NuvlaIsNotOcm DEF Init, Fields!Init, OcmOnlyIfElected, NotElectedInv, Thread

(* A process that was never elected has no data of an OCM agent, to        *)
(* publish or on the way.                                                  *)
THEOREM OnlyElectedHasOcm == Spec => []OcmOnlyIfElected
<1>1. TypeOK /\ PcInv /\ OcmOnlyIfElected /\ NotElectedInv /\ [Next]_vars
        => OcmOnlyIfElected' /\ NotElectedInv'
  BY NotElectedStep
<1>2. IInv => TypeOK /\ PcInv
  BY DEF IInv
<1> QED  BY <1>1, <1>2, NotElectedInit, InductiveInvariant, PTL DEF Spec

-----------------------------------------------------------------------------
(* What empties a label.                                                   *)

LEMMA OnlyBlankIsEmpty ==
  ASSUME NEW a \in Described, NEW s \in Fields!Assign(InfoOf(a)), s[2] = ""
  PROVE  a = "blank"
<1>1. PICK f \in Field, h \in Half : s = <<<<f, h>>, InfoOf(a)[f]>>
  BY AssignedWords
<1>2. CASE f = "Type"
  BY <1>1, <1>2 DEF InfoOf, TypeOf
<1>3. CASE f \in {"AgentId", "AgentName"}
  <2>1. InfoOf(a)[f] = NameOf(a)
    <3>1. CASE f = "AgentId"  BY <3>1 DEF InfoOf
    <3>2. CASE f = "AgentName"  BY <3>2 DEF InfoOf
    <3> QED  BY <1>3, <3>1, <3>2
  <2>2. NameOf(a) = ""
    BY <1>1, <2>1
  <2> QED  BY <2>2, OrchAssumption DEF NameOf, Described
<1> QED  BY <1>2, <1>3 DEF Field

(* The empty string is stored only for a blank file, which the listener    *)
(* does not read.                                                          *)
LEMMA FilledInvStep ==
  ASSUME TypeOK, PcInv, FilledInv, [Next]_vars
  PROVE  FilledInv'
<1> USE DEF TypeOK, PcInv, FilledInv, StoresBlank, Thread
<1>1. CASE BeginCycle
  BY <1>1 DEF BeginCycle, Goto
<1>2. CASE OnStartedLeading \/ OnStoppedLeading
  BY <1>2 DEF OnStartedLeading, OnStoppedLeading, Goto
<1>3. ASSUME NEW t \in Thread, ThreadStep(t)
      PROVE  FilledInv'
  <2>1. CASE Call(t) \/ Stored(t)
    <3>1. todo[t] = {} /\ UNCHANGED <<todo, json>>
      BY <2>1 DEF Call, Stored
    <3>2. \E l : pc' = [pc EXCEPT ![t] = l]
      BY <2>1 DEF Call, Stored, Return, Goto
    <3> QED  BY <3>1, <3>2
  <2>2. CASE ListAgents(t)
    <3>1. pc[t] = "look" /\ todo[t] = {} /\ UNCHANGED <<todo, json>>
      BY <2>2 DEF ListAgents
    <3>2. pc' = [pc EXCEPT ![t] = "scan"]
      BY <2>2 DEF ListAgents, Goto
    <3> QED  BY <3>1, <3>2
  <2>6. CASE ScanPod(t)
    <3>1. pc[t] = "scan" /\ todo[t] = {} /\ UNCHANGED <<pc, json>>
      BY <2>6 DEF ScanPod
    <3>2. CASE UNCHANGED todo
      BY <3>1, <3>2
    <3>3. CASE \E a \in OcmAgent : todo' = [todo EXCEPT ![t] = Fields!Assign(InfoOf(a))]
      <4>1. PICK a \in OcmAgent : todo' = [todo EXCEPT ![t] = Fields!Assign(InfoOf(a))]
        BY <3>3
      <4>2. \A s \in Fields!Assign(InfoOf(a)) : s[2] # ""
        BY OnlyBlankIsEmpty, AgentIsNoFault DEF Described, Agent
      <4> QED  BY <3>1, <4>1, <4>2
    <3> QED  BY <2>6, <3>2, <3>3 DEF ScanPod
  <2>3. CASE ReadNuvlaFile(t)
    <3>1. t = "runner" /\ pc[t] = "look" /\ todo[t] = {}
      BY <2>3 DEF ReadNuvlaFile, Provider, NuvlaProvider
    <3> QED  BY <2>3, <3>1, TypeAlone DEF ReadNuvlaFile, Return, Goto
  <2>4. CASE Parse(t)
    <3>1. t = "runner" /\ pc[t] = "parse" /\ todo[t] = {} /\ UNCHANGED json
      BY <2>4 DEF Parse
    <3>2. CASE UNCHANGED todo
      BY <3>1, <3>2
    <3>3. CASE json \in Described /\ Goto(t, "store")
               /\ todo' = [todo EXCEPT ![t] = Fields!Assign(InfoOf(json))]
      BY <3>1, <3>3, OnlyBlankIsEmpty DEF Goto
    <3> QED  BY <2>4, <3>2, <3>3 DEF Parse
  <2>5. CASE StoreWord(t)
    BY <2>5 DEF StoreWord
  <2> QED
    BY <1>3, <2>1, <2>2, <2>3, <2>4, <2>5, <2>6 DEF ThreadStep
<1>4. CASE Change  BY <1>4 DEF Change
<1>5. CASE UNCHANGED vars
  BY <1>5 DEF vars
<1> QED  BY <1>1, <1>2, <1>3, <1>4, <1>5 DEF Next

(* Of all that a provider may find, only a file without an id takes from   *)
(* the fields what an earlier cycle has stored.                            *)
THEOREM LabelsAreKept == Spec => OnlyBlankEmpties
<1>1. Init => FilledInv
  BY DEF Init, FilledInv, Thread
<1>2. TypeOK /\ PcInv /\ FilledInv /\ [Next]_vars => FilledInv'
  BY FilledInvStep
<1>3. TypeOK /\ PcInv /\ FilledInv /\ [Next]_vars
        => [StoresBlank \/ \A w \in DOMAIN orch : orch'[w] = "" => orch[w] = ""]_orch
  <2> SUFFICES ASSUME TypeOK, FilledInv, [Next]_vars, orch' # orch,
                      NEW w \in DOMAIN orch, orch'[w] = "", orch[w] # ""
               PROVE  StoresBlank
    OBVIOUS
  <2>1. PICK t \in Thread : StoreWord(t)
    BY DEF Next, ThreadStep, BeginCycle, OnStartedLeading, OnStoppedLeading,
           Call, ListAgents, ScanPod, ReadNuvlaFile, Parse, Stored, Change, vars
  <2>2. PICK s \in todo[t] : orch' = [orch EXCEPT ![s[1]] = s[2]]
    BY <2>1 DEF StoreWord, Fields!Store
  <2>3. s[2] = ""
    BY <2>2
  <2> QED  BY <2>2, <2>3 DEF FilledInv, Thread
<1>4. IInv => TypeOK /\ PcInv
  BY DEF IInv
<1> QED
  BY <1>1, <1>2, <1>3, <1>4, InductiveInvariant, PTL DEF Spec, OnlyBlankEmpties

-----------------------------------------------------------------------------
(* The collector, while it is scraped.                                     *)

(* All that a scrape does to the collector is, possibly, to end its        *)
(* process.                                                                *)
LEMMA ScrapeLeavesCollector ==
  ASSUME Scrape
  PROVE  /\ UNCHANGED <<orch, pc, todo, at, left, json, iAmTheLeader, worldVars,
                        undisturbed>>
         /\ process' \in {process, "crashed"}
BY DEF Scrape, BeginScrape, ReadField, vars

LEMMA ScrapeKeepsInv == IInv /\ Scrape => IInv'
<1> SUFFICES ASSUME IInv, Scrape
             PROVE  IInv'
  OBVIOUS
<1>1. TypeOK'
  BY ScrapeLeavesCollector DEF IInv, TypeOK
<1>2. PcInv' /\ QuietInv'
  BY ScrapeLeavesCollector DEF IInv, PcInv, QuietInv
<1>3. CycleInv'
  BY ScrapeLeavesCollector, CycleInvKept DEF IInv
<1> QED  BY <1>1, <1>2, <1>3 DEF IInv

LEMMA ScrapedInvariant == ScrapeSpec => []IInv
<1>1. ScrapeInit => IInv
  BY InitInv DEF ScrapeInit
<1>2. IInv /\ [ScrapeNext]_scrapeSpecVars => IInv'
  BY NextInv, ScrapeKeepsInv DEF ScrapeNext, scrapeSpecVars
<1> QED  BY <1>1, <1>2, PTL DEF ScrapeSpec

(* A scrape, which may end the process, disturbs no cycle of the runner.   *)
THEOREM ScrapedCycleRestores == ScrapeSpec => []UndisturbedCycle
BY ScrapedInvariant, CycleDone, PTL

(* What a load makes of the two words of a field is one of them, or torn.  *)
LEMMA LoadType ==
  ASSUME TypeOK, NEW f \in Field
  PROVE  /\ Fields!Load(f) \in Value \cup {"torn"}
         /\ \/ Fields!Load(f) = "torn"
            \/ \E w \in Fields!Word : Fields!Load(f) = orch[w]
<1>1. <<f, "len">> \in Fields!Word
  BY WordsAssumption DEF Fields!Word
<1> QED  BY <1>1 DEF TypeOK, Fields!Load

(* What a scrape holds is what the fields may hold, or torn.               *)
THEOREM ScrapeTypeInvariant == ScrapeSpec => []ScrapeTypeOK
<1>1. ScrapeInit => ScrapeTypeOK
  BY InitType DEF ScrapeInit, ScrapeTypeOK, Value
<1>2. ScrapeTypeOK /\ IInv' /\ [ScrapeNext]_scrapeSpecVars => ScrapeTypeOK'
  <2> SUFFICES ASSUME ScrapeTypeOK, IInv', [ScrapeNext]_scrapeSpecVars
               PROVE  ScrapeTypeOK'
    OBVIOUS
  <2>0. TypeOK /\ TypeOK'
    BY DEF ScrapeTypeOK, IInv
  <2>1. CASE UNCHANGED scrapeVars
    BY <2>0, <2>1 DEF ScrapeTypeOK, scrapeVars
  <2>2. CASE BeginScrape
    BY <2>0, <2>2 DEF BeginScrape, ScrapeTypeOK, Value
  <2>3. ASSUME NEW f \in Field, ReadField(f)
        PROVE  ScrapeTypeOK'
    BY <2>0, <2>3, LoadType DEF ReadField, ScrapeTypeOK, scrapeVars
  <2> QED
    BY <2>1, <2>2, <2>3 DEF ScrapeNext, Scrape, scrapeSpecVars
<1> QED  BY <1>1, <1>2, ScrapedInvariant, PTL DEF ScrapeSpec

(* A sample, too, has data of an OCM agent only in a process that was      *)
(* elected: a load never makes it up of two stores of other values.        *)
THEOREM OnlyElectedPublishesOcm == ScrapeSpec => []SampleOnlyIfElected
<1> DEFINE Unelected == OcmOnlyIfElected /\ NotElectedInv
<1>1. ScrapeInit => Unelected /\ SampleOnlyIfElected
  BY NotElectedInit, NuvlaIsNotOcm DEF ScrapeInit, SampleOnlyIfElected
<1>2. /\ IInv /\ ScrapeTypeOK /\ Unelected /\ SampleOnlyIfElected
      /\ [ScrapeNext]_scrapeSpecVars
      => Unelected' /\ SampleOnlyIfElected'
  <2> SUFFICES ASSUME IInv, ScrapeTypeOK, Unelected, SampleOnlyIfElected,
                      [ScrapeNext]_scrapeSpecVars
               PROVE  Unelected' /\ SampleOnlyIfElected'
    OBVIOUS
  <2>0. TypeOK /\ PcInv
    BY DEF IInv
  <2>1. CASE [Next]_vars /\ UNCHANGED scrapeVars
    <3>1. Unelected'
      BY <2>0, <2>1, NotElectedStep
    <3>2. pc'["listener"] = "off" => pc["listener"] = "off"
      BY <2>0, <2>1, ElectionIsFinal
    <3> QED  BY <2>1, <3>1, <3>2 DEF SampleOnlyIfElected, scrapeVars
  <2>2. CASE Scrape
    <3>1. UNCHANGED <<orch, pc, todo, at, iAmTheLeader>>
      BY <2>2, ScrapeLeavesCollector
    <3>2. Unelected'
      BY <3>1 DEF OcmOnlyIfElected, NotElectedInv
    <3>3. CASE BeginScrape
      BY <3>1, <3>2, <3>3, NuvlaIsNotOcm DEF BeginScrape, SampleOnlyIfElected
    <3>4. ASSUME NEW g \in Field, ReadField(g)
          PROVE  SampleOnlyIfElected'
      <4>1. pc["listener"] = "off" => Fields!Load(g) \notin OcmData
        <5>1. "torn" \notin OcmData
          BY OrchAssumption DEF OcmData, Agent
        <5> QED  BY <2>0, <5>1, LoadType DEF OcmOnlyIfElected
      <4>2. got' = got \/ got' = [got EXCEPT ![g] = Fields!Load(g)]
        BY <3>4 DEF ReadField, scrapeVars
      <4> QED  BY <3>1, <4>1, <4>2 DEF SampleOnlyIfElected, ScrapeTypeOK
    <3> QED  BY <2>2, <3>2, <3>3, <3>4 DEF Scrape
  <2> QED  BY <2>1, <2>2 DEF ScrapeNext, scrapeSpecVars
<1> QED
  BY <1>1, <1>2, ScrapedInvariant, ScrapeTypeInvariant, PTL DEF ScrapeSpec
=============================================================================
