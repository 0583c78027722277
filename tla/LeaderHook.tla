----------------------------- MODULE LeaderHook -----------------------------
(***************************************************************************)
(* One exporter process from the start of serveCommand to its end          *)
(* (main.go): main, which sets up the providers, may be kept from going on *)
(* by any of them, and answers a SIGTERM only at its end; the election     *)
(* goroutine, which it starts before it registers the listener that the    *)
(* election calls; the OnStartedLeading goroutine; the two collectors that *)
(* only the leader fills; the server of the metrics.  None of them         *)
(* synchronises with another.                                              *)
(*                                                                         *)
(* The elector's own steps are reduced to winning and losing; module       *)
(* LeaderElection has them.  A collection is what ProvideOCMOrchInfo or    *)
(* ProvideVNetInfo does: read the gate, then call the API and store.  A    *)
(* runner without the providers of Kubernetes finds no gate to read; here  *)
(* it finds the gate shut.                                                 *)
(***************************************************************************)

VARIABLES
  mainPc,        \* the next statement of serveCommand
  electorPc,     \* the election goroutine, "off" also without Kubernetes
  hookPc,        \* the OnStartedLeading goroutine
  hookAt,        \* the collector its listener is at
  listeners,     \* KubernetesProvider.leaderElectionListeners
  iAmTheLeader,  \* KubernetesProvider.iAmTheLeader
  runner,        \* the goroutine of each AsyncCollectorRunner
  collected,     \* the leader's provider has run to its end on the collector
  server,        \* the goroutine of serveMetrics
  inbox,         \* ch holds a signal
  sent,          \* history: the process was sent a SIGTERM
  process

mainVars  == <<mainPc, listeners>>
hookVars  == <<hookPc, hookAt>>
dataVars  == <<runner, collected>>
shellVars == <<server, inbox, sent>>

vars == <<mainVars, electorPc, hookVars, iAmTheLeader, dataVars, shellVars,
          process>>

(* The runners main calls oicr and vncr.                                   *)
Collector == {"oicr", "vncr"}

MainPc    == {"k8s", "start", "append", "store", "docker", "serve", "wait",
              "cancelled"} \cup Collector
ElectorPc == {"off", "acquire", "lead", "stopping", "stopped"}
HookPc    == {"off", "flag", "range", "gate", "fetch", "done"}
RunnerPc  == {"off", "first", "gate", "fetch", "sleep"}

TypeOK ==
  /\ mainPc \in MainPc
  /\ electorPc \in ElectorPc
  /\ hookPc \in HookPc
  /\ hookAt \in Collector
  /\ listeners \in {"empty", "nil", "set"}
  /\ iAmTheLeader \in BOOLEAN
  /\ runner \in [Collector -> RunnerPc]
  /\ collected \in [Collector -> BOOLEAN]
  /\ server \in {"off", "starting", "up", "failed"}
  /\ inbox \in BOOLEAN
  /\ sent \in BOOLEAN
  /\ process \in {"up", "exited", "crashed"}

(* signal.Notify has been called; before it, a SIGTERM ends any process.   *)
Init ==
  /\ mainPc = "k8s"
  /\ electorPc = "off"
  /\ hookPc = "off"
  /\ hookAt = "oicr"
  /\ listeners = "empty"
  /\ iAmTheLeader = FALSE
  /\ runner = [c \in Collector |-> "off"]
  /\ collected = [c \in Collector |-> FALSE]
  /\ server = "off"
  /\ inbox = FALSE
  /\ sent = FALSE
  /\ process = "up"

-----------------------------------------------------------------------------
(* main.                                                                   *)

(* InizializeKubernetesProvider, if it is enabled.  Not in a cluster: go   *)
(* on without.  Anything else that is wrong, a failed call included, is    *)
(* log.Fatal.  Nothing bounds the time of the call.                        *)
InitKubernetes ==
  /\ mainPc = "k8s"
  /\ \/ mainPc' \in {"start", "docker"} /\ UNCHANGED process
     \/ process' = "exited" /\ UNCHANGED mainPc
  /\ UNCHANGED <<listeners, electorPc, hookVars, iAmTheLeader, dataVars, shellVars>>

(* kubernetesProvider.Start: the election is under way from here on.       *)
StartProvider ==
  /\ mainPc = "start"
  /\ mainPc' = "append"
  /\ electorPc' = "acquire"
  /\ UNCHANGED <<listeners, hookVars, iAmTheLeader, dataVars, shellVars, process>>

(* OnLeaderElected appends to the slice in two stores, unsynchronised with *)
(* the goroutine that ranges over it: first the new length, then the       *)
(* listener itself.                                                        *)
AppendListener ==
  /\ mainPc = "append"
  /\ mainPc' = "store"
  /\ listeners' = "nil"
  /\ UNCHANGED <<electorPc, hookVars, iAmTheLeader, dataVars, shellVars, process>>

StoreListener ==
  /\ mainPc = "store"
  /\ mainPc' = "docker"
  /\ listeners' = "set"
  /\ UNCHANGED <<electorPc, hookVars, iAmTheLeader, dataVars, shellVars, process>>

(* InizializeDockerProvider, if it is enabled: the daemon answers, or it   *)
(* does not and is not asked again.  Nothing bounds the time of the call,  *)
(* and the election is going on.                                           *)
InitDocker ==
  /\ mainPc = "docker"
  /\ mainPc' = "oicr"
  /\ UNCHANGED <<listeners, electorPc, hookVars, iAmTheLeader, dataVars, shellVars,
                 process>>

(* The collectors start only after the listener is registered.             *)
StartCollector(c) ==
  /\ mainPc = c
  /\ mainPc' = IF c = "oicr" THEN "vncr" ELSE "serve"
  /\ runner' = [runner EXCEPT ![c] = "first"]
  /\ UNCHANGED <<listeners, electorPc, hookVars, iAmTheLeader, collected, shellVars,
                 process>>

(* go serveMetrics(logger), after all collectors.                          *)
StartServer ==
  /\ mainPc = "serve"
  /\ mainPc' = "wait"
  /\ server' = "starting"
  /\ UNCHANGED <<listeners, electorPc, hookVars, iAmTheLeader, dataVars, inbox,
                 sent, process>>

(* <-ch, cancel()                                                          *)
Cancel ==
  /\ mainPc = "wait"
  /\ inbox
  /\ mainPc' = "cancelled"
  /\ inbox' = FALSE
  /\ UNCHANGED <<listeners, electorPc, hookVars, iAmTheLeader, dataVars, server,
                 sent, process>>

(* wg.Wait() returns at once: nothing was ever added to the WaitGroup.     *)
MainReturn ==
  /\ mainPc = "cancelled"
  /\ process' = "exited"
  /\ UNCHANGED <<mainVars, electorPc, hookVars, iAmTheLeader, dataVars, shellVars>>

-----------------------------------------------------------------------------
(* The server and the signal.                                              *)

(* ListenAndServe: it serves, or it returns an error (the address is       *)
(* taken), which is printed, and the process goes on without it.           *)
Listen ==
  /\ server = "starting"
  /\ server' \in {"up", "failed"}
  /\ UNCHANGED <<mainVars, electorPc, hookVars, iAmTheLeader, dataVars, inbox,
                 sent, process>>

(* Faulty: ch is made without a buffer, so that a signal is dropped unless *)
(* main is waiting for it.                                                 *)
SignalUnbuffered ==
  /\ sent' = TRUE
  /\ inbox' = (mainPc = "wait")
  /\ UNCHANGED <<mainVars, electorPc, hookVars, iAmTheLeader, dataVars, server,
                 process>>

(* SIGTERM, at any time and any number of times.  ch has room for one.     *)
Signal ==
  /\ sent' = TRUE
  /\ inbox' = TRUE
  /\ UNCHANGED <<mainVars, electorPc, hookVars, iAmTheLeader, dataVars, server,
                 process>>

-----------------------------------------------------------------------------
(* The election goroutine.                                                 *)

(* The lease is won: OnStartedLeading runs in a goroutine of its own.      *)
Win ==
  /\ electorPc = "acquire"
  /\ electorPc' = "lead"
  /\ hookPc' = "flag"
  /\ UNCHANGED <<mainVars, hookAt, iAmTheLeader, dataVars, shellVars, process>>

(* Renewal failed, or the context was cancelled (which also ends a         *)
(* candidate).                                                             *)
Lose ==
  /\ electorPc = "lead" \/ (electorPc = "acquire" /\ mainPc = "cancelled")
  /\ electorPc' = "stopping"
  /\ UNCHANGED <<mainVars, hookVars, iAmTheLeader, dataVars, shellVars, process>>

(* The listeners ignore FALSE.                                             *)
OnStoppedLeading ==
  /\ electorPc = "stopping"
  /\ electorPc' = "stopped"
  /\ iAmTheLeader' = FALSE
  /\ UNCHANGED <<mainVars, hookVars, dataVars, shellVars, process>>

Exit ==
  /\ electorPc = "stopped"
  /\ process' = "exited"
  /\ UNCHANGED <<mainVars, electorPc, hookVars, iAmTheLeader, dataVars, shellVars>>

-----------------------------------------------------------------------------
(* The OnStartedLeading goroutine.                                         *)

(* Faulty: the flag is forgotten.                                          *)
SetFlagForgotten ==
  /\ hookPc = "flag"
  /\ hookPc' = "range"
  /\ UNCHANGED <<mainVars, electorPc, hookAt, iAmTheLeader, dataVars, shellVars,
                 process>>

SetFlag ==
  /\ hookPc = "flag"
  /\ hookPc' = "range"
  /\ iAmTheLeader' = TRUE
  /\ UNCHANGED <<mainVars, electorPc, hookAt, dataVars, shellVars, process>>

(* Faulty: the listeners are not called.                                   *)
RangeOverNone ==
  /\ hookPc = "range"
  /\ hookPc' = "done"
  /\ UNCHANGED <<mainVars, electorPc, hookAt, iAmTheLeader, dataVars, shellVars,
                 process>>

(* The range reads the slice as it is now: before the append there is      *)
(* nothing to call, between its two stores there is a nil function, whose  *)
(* call panics.                                                            *)
RangeListeners ==
  /\ hookPc = "range"
  /\ \/ listeners = "empty" /\ hookPc' = "done" /\ UNCHANGED process
     \/ listeners = "nil" /\ process' = "crashed" /\ UNCHANGED hookPc
     \/ listeners = "set" /\ hookPc' = "gate" /\ UNCHANGED process
  /\ UNCHANGED <<mainVars, electorPc, hookAt, iAmTheLeader, dataVars, shellVars>>

(* Faulty: the listener runs past its last provider.                       *)
HookNextPastEnd ==
  /\ hookPc' = "gate"
  /\ hookAt' = IF hookAt = "oicr" THEN "vncr" ELSE "end"

(* The listener is at its next provider, or returns after the second.      *)
HookNext ==
  IF hookAt = "oicr" THEN hookPc' = "gate" /\ hookAt' = "vncr"
                     ELSE hookPc' = "done" /\ UNCHANGED hookAt

(* The provider the listener calls reads the gate again.                   *)
HookGate ==
  /\ hookPc = "gate"
  /\ IF iAmTheLeader THEN hookPc' = "fetch" /\ UNCHANGED hookAt ELSE HookNext
  /\ UNCHANGED <<mainVars, electorPc, iAmTheLeader, dataVars, shellVars, process>>

HookCollect ==
  /\ hookPc = "fetch"
  /\ collected' = [collected EXCEPT ![hookAt] = TRUE]
  /\ HookNext
  /\ UNCHANGED <<mainVars, electorPc, iAmTheLeader, runner, shellVars, process>>

-----------------------------------------------------------------------------
(* The goroutine of a collector: run the providers, sleep, repeat.         *)

(* Faulty: the gate is not read.                                           *)
RunnerUngated(c) ==
  /\ runner[c] \in {"first", "gate"}
  /\ runner' = [runner EXCEPT ![c] = "fetch"]
  /\ UNCHANGED <<mainVars, electorPc, hookVars, iAmTheLeader, collected, shellVars,
                 process>>

RunnerGate(c) ==
  /\ runner[c] \in {"first", "gate"}
  /\ runner' = [runner EXCEPT ![c] = IF iAmTheLeader THEN "fetch" ELSE "sleep"]
  /\ UNCHANGED <<mainVars, electorPc, hookVars, iAmTheLeader, collected, shellVars,
                 process>>

RunnerCollect(c) ==
  /\ runner[c] = "fetch"
  /\ runner' = [runner EXCEPT ![c] = "sleep"]
  /\ collected' = [collected EXCEPT ![c] = TRUE]
  /\ UNCHANGED <<mainVars, electorPc, hookVars, iAmTheLeader, shellVars, process>>

(* time.Sleep(c.Interval) is over.                                         *)
RunnerWake(c) ==
  /\ runner[c] = "sleep"
  /\ runner' = [runner EXCEPT ![c] = "gate"]
  /\ UNCHANGED <<mainVars, electorPc, hookVars, iAmTheLeader, collected, shellVars,
                 process>>

-----------------------------------------------------------------------------
(* What main does without waiting for anybody.                             *)
MainGoesOn ==
  \/ StartProvider \/ AppendListener \/ StoreListener
  \/ (\E c \in Collector : StartCollector(c)) \/ StartServer
  \/ Cancel \/ MainReturn

Main == InitKubernetes \/ InitDocker \/ MainGoesOn

Elector == Win \/ Lose \/ OnStoppedLeading \/ Exit

Hook == SetFlag \/ RangeListeners \/ HookGate \/ HookCollect

Runner(c) == RunnerGate(c) \/ RunnerCollect(c) \/ RunnerWake(c)

Next ==
  /\ process = "up"
  /\ Main \/ Listen \/ Signal \/ Elector \/ Hook \/ \E c \in Collector : Runner(c)

Spec == Init /\ [][Next]_vars

(* Every goroutine that can run is scheduled, and a collecting API call    *)
(* returns.  No fairness for the calls that initialise Kubernetes and      *)
(* Docker, which have no timeout, for RunnerWake (an interval may be as    *)
(* long as one likes) or for signals.                                      *)
Fairness ==
  /\ WF_vars(process = "up" /\ MainGoesOn)
  /\ WF_vars(process = "up" /\ Listen)
  /\ \A c \in Collector :
       WF_vars(process = "up" /\ (RunnerGate(c) \/ RunnerCollect(c)))
  /\ WF_vars(process = "up" /\ Hook)

FairSpec == Spec /\ Fairness

-----------------------------------------------------------------------------
(* Properties.                                                             *)

(* "after the leader has been elected, run the following collectors that   *)
(* did not run [before] because the leader was not elected yet"            *)
(* (main.go:177-179).  Although main registers the listener after it       *)
(* starts the election, no election is missed: once the hook is done, a    *)
(* leader's collector has collected, or its first run is still to read the *)
(* gate or is past it.  No collector is left to its interval.              *)
NoMissedElection ==
  hookPc = "done" /\ iAmTheLeader =>
    \A c \in Collector : collected[c] \/ runner[c] \in {"off", "first", "fetch"}

(* Cluster-level data is collected only in a process whose                 *)
(* OnStartedLeading has set the flag.                                      *)
CollectsOnlyIfElected ==
  \A c \in Collector :
    collected[c] \/ runner[c] = "fetch" => hookPc \notin {"off", "flag"}

(* A leader collects, and serves what it has collected, without waiting    *)
(* for any interval, unless it stops leading or its process ends first.    *)
(* There are two exceptions, in which it stays leader and publishes        *)
(* nothing: a Docker daemon that does not answer keeps main from starting  *)
(* the collectors, and a server that cannot listen is given up.            *)
LeaderPublishes ==
  \/ <>[](mainPc = "docker")
  \/ \A c \in Collector :
       electorPc = "lead" ~> \/ collected[c] /\ server = "up"
                             \/ server = "failed"
                             \/ electorPc # "lead" \/ process # "up"

(* A SIGTERM ends the process however early it comes, and however many of  *)
(* them come: it waits in the channel until main has started everything.   *)
(* Only a call without a timeout that never returns keeps main from it.    *)
TermEndsProcess ==
  \/ <>[](mainPc \in {"k8s", "docker"})
  \/ sent ~> process # "up"

(* The process leads at most once, and opens its gate only for the term it *)
(* has won: the elector, the goroutine of the hook and main are, to each   *)
(* other, what LeaderElection says of each of its pods.                    *)
Up == process = "up"

Stage ==
  CASE ~Up \/ electorPc = "off" -> "none"
    [] Up /\ electorPc = "acquire"  -> "candidate"
    [] Up /\ electorPc = "lead"     -> "leader"
    [] Up /\ electorPc = "stopping" -> "leaving"
    [] Up /\ electorPc = "stopped"  -> "left"

Term == INSTANCE PodTerm WITH
  stage <- Stage, pending <- Up /\ hookPc = "flag", gate <- Up /\ iAmTheLeader,
  cancelled <- Up /\ mainPc = "cancelled"

OneTerm == Term!Spec

(* A SIGTERM is not lost, however early it comes: as long as the process   *)
(* is up the signal waits in the channel, or main has got it and returns.  *)
SignalKept == sent /\ Up => inbox \/ mainPc = "cancelled"

(* The inductive strengthening of both invariants: how far main has come   *)
(* when a goroutine runs, and what the hook has done so far.               *)
StartOrderInv ==
  /\ electorPc = "off" => listeners = "empty"
  /\ electorPc # "off" =>
       /\ mainPc \notin {"k8s", "start"}
       /\ listeners = "empty" <=> mainPc = "append"
       /\ listeners = "nil" <=> mainPc = "store"
  /\ mainPc \in {"append", "store"} => electorPc # "off"
  /\ \A c \in Collector :
       runner[c] # "off" =>
         /\ mainPc \notin {"k8s", "start"}
         /\ electorPc # "off" => listeners = "set"

ElectedInv ==
  /\ electorPc \in {"off", "acquire"} => hookPc = "off"
  /\ hookPc \in {"off", "flag"} =>
       /\ ~iAmTheLeader
       /\ \A c \in Collector : ~collected[c] /\ runner[c] # "fetch"

HookInv ==
  /\ hookPc \in {"off", "flag", "range"} => hookAt = "oicr"
  /\ hookPc \in {"gate", "fetch"} /\ hookAt = "vncr" /\ iAmTheLeader =>
       collected["oicr"]

IInv == TypeOK /\ StartOrderInv /\ ElectedInv /\ HookInv /\ NoMissedElection
=============================================================================
