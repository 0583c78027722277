--------------------------- MODULE LeaderElection ---------------------------
(***************************************************************************)
(* The election of the one exporter pod that publishes the cluster-level   *)
(* metrics (provider_k8s.go, leaderElectionControlLoop), for every pod of  *)
(* the cluster at once.  Each pod runs the elector of client-go on one     *)
(* shared Lease object, sets iAmTheLeader from the elector's callbacks,    *)
(* and is a process that main (main.go, serveCommand) may end and the      *)
(* kubelet starts again under the same POD_NAME.                           *)
(*                                                                         *)
(* The elector's code is not in this repository: its steps are modelled    *)
(* from the LeaderElectionConfig the repository hands it.  A call to the   *)
(* API server is split at the point where the server commits it, because   *)
(* the answer may be late, lost, or outlived by the process.               *)
(*                                                                         *)
(* Time is counted in ticks of RetryPeriod's unit.  A deadline that is due *)
(* is served before the next tick; every other delay is unbounded, that of *)
(* the answer to an acquisition included: no deadline is configured for it *)
(* and the clientset has no timeout.                                       *)
(***************************************************************************)
EXTENDS Integers

CONSTANTS
  Pod,            \* the exporter pods, by POD_NAME (the lock's Identity)
  NoPod,          \* the empty HolderIdentity of a released lease
  LeaseDuration,  \* a lease not renewed for this long may be taken over
  RenewDeadline,  \* the leader gives up after failing to renew this long
  RetryPeriod     \* pause between two renewals

(* LeaseDuration 60s, RenewDeadline 15s and RetryPeriod 5s satisfy this:   *)
(* the answer to a renewal may come as late as RenewDeadline after the     *)
(* server committed it, the next renewal starts RetryPeriod later, and     *)
(* fails for at most RenewDeadline.                                        *)
ASSUME DurationsAssumption ==
  /\ LeaseDuration \in Nat
  /\ RenewDeadline \in Nat
  /\ RetryPeriod \in Nat
  /\ 2 * RenewDeadline + RetryPeriod < LeaseDuration

ASSUME PodAssumption == NoPod \notin Pod

VARIABLES
  holder,        \* HolderIdentity of the Lease object
  leaseAge,      \* ticks since the lease was last written, up to LeaseDuration
  phase,         \* where each pod's elector is
  timer,         \* ticks the elector has spent in a timed phase
  renewed,       \* the server committed a renewal in this renew loop
  late,          \* history: leads by an answer that came too late, and has
                 \* not renewed the lease, which may be another's, since
  starting,      \* the OnStartedLeading goroutine is spawned, not yet run
  iAmTheLeader,  \* KubernetesProvider.iAmTheLeader
  cancelled      \* main received SIGTERM and called cancel()

vars == <<holder, leaseAge, phase, timer, renewed, late, starting,
          iAmTheLeader, cancelled>>

leaseVars   == <<holder, leaseAge>>
loopVars    == <<renewed, late>>
electorVars == <<phase, timer, loopVars>>
flagVars    == <<starting, iAmTheLeader>>

(* "off"       no process                                                  *)
(* "acquire"   in le.acquire, between two attempts                         *)
(* "acquired"  the server made this pod holder, the answer is under way    *)
(* "sleep"     leader, waiting RetryPeriod for the next renew loop         *)
(* "renew"     leader, in a renew loop, from its victory on                *)
(* "release"   left the renew loops, in le.release (ReleaseOnCancel)       *)
(* "stopping"  about to run OnStoppedLeading                               *)
(* "exiting"   OnStoppedLeading is about to call os.Exit(0)                *)
Phase == {"off", "acquire", "acquired", "sleep", "renew", "release",
          "stopping", "exiting"}

TimedPhase == {"sleep", "renew"}

(* In office: the pod knows it won the lease and has not given it up.      *)
Renewing(i) == phase[i] \in {"sleep", "renew"}

Leaving(i) == phase[i] \in {"release", "stopping", "exiting"}

TypeOK ==
  /\ holder \in Pod \cup {NoPod}
  /\ leaseAge \in 0 .. LeaseDuration
  /\ phase \in [Pod -> Phase]
  /\ timer \in [Pod -> 0 .. LeaseDuration]
  /\ renewed \in [Pod -> BOOLEAN]
  /\ late \in [Pod -> BOOLEAN]
  /\ starting \in [Pod -> BOOLEAN]
  /\ iAmTheLeader \in [Pod -> BOOLEAN]
  /\ cancelled \in [Pod -> BOOLEAN]

Init ==
  /\ holder = NoPod
  /\ leaseAge = 0
  /\ phase = [i \in Pod |-> "off"]
  /\ timer = [i \in Pod |-> 0]
  /\ renewed = [i \in Pod |-> FALSE]
  /\ late = [i \in Pod |-> FALSE]
  /\ starting = [i \in Pod |-> FALSE]
  /\ iAmTheLeader = [i \in Pod |-> FALSE]
  /\ cancelled = [i \in Pod |-> FALSE]

-----------------------------------------------------------------------------
(* Steps of the elector, shared.                                           *)

Enter(i, p) ==
  /\ phase' = [phase EXCEPT ![i] = p]
  /\ timer' = [timer EXCEPT ![i] = 0]

(* Faulty: an identity all pods share, like kp.namespace.                  *)
IdentityShared(i) == CHOOSE p \in Pod : TRUE

(* LockConfig.Identity: the pod's name, which it keeps over restarts.      *)
Identity(i) == i

(* tryAcquireOrRenew gets past its checks: the lease is free, it bears     *)
(* this pod's name (perhaps from an earlier process of the pod), or it has *)
(* expired.                                                                *)
Takeable(i) == holder \in {Identity(i), NoPod} \/ leaseAge >= LeaseDuration

WriteLease(i) == holder' = Identity(i) /\ leaseAge' = 0

EndLoop(i) ==
  /\ renewed' = [renewed EXCEPT ![i] = FALSE]
  /\ late' = [late EXCEPT ![i] = FALSE]

(* The process is gone, and with it everything it kept in memory.          *)
EndProcess(i) ==
  /\ Enter(i, "off")
  /\ EndLoop(i)
  /\ starting' = [starting EXCEPT ![i] = FALSE]
  /\ iAmTheLeader' = [iAmTheLeader EXCEPT ![i] = FALSE]
  /\ cancelled' = [cancelled EXCEPT ![i] = FALSE]
  /\ UNCHANGED leaseVars

-----------------------------------------------------------------------------
(* KubernetesProvider.Start: the control loop enters le.Run, le.acquire.   *)
StartProvider(i) ==
  /\ phase[i] = "off"
  /\ Enter(i, "acquire")
  /\ UNCHANGED <<leaseVars, loopVars, flagVars, cancelled>>

(* The API server commits this pod's attempt to become the holder.         *)
Acquire(i) ==
  /\ phase[i] = "acquire"
  /\ Takeable(i)
  /\ WriteLease(i)
  /\ Enter(i, "acquired")
  /\ UNCHANGED <<loopVars, flagVars, cancelled>>

(* The answer is lost: the pod does not know that it holds the lease.      *)
LoseAnswer(i) ==
  /\ phase[i] = "acquired"
  /\ Enter(i, "acquire")
  /\ UNCHANGED <<leaseVars, loopVars, flagVars, cancelled>>

(* The answer to the acquisition comes too late: the lease is another's    *)
(* already, or may become so before this pod's first renew loop is over.   *)
TooLate(i) ==
  holder # Identity(i) \/ leaseAge >= LeaseDuration - RenewDeadline

(* The answer arrives, after any delay: the pod is the leader.  Run spawns *)
(* the goroutine of OnStartedLeading and enters the first renew loop.      *)
StartLeading(i) ==
  /\ phase[i] = "acquired"
  /\ Enter(i, "renew")
  /\ late' = [late EXCEPT ![i] = TooLate(i)]
  /\ starting' = [starting EXCEPT ![i] = TRUE]
  /\ UNCHANGED <<leaseVars, renewed, iAmTheLeader, cancelled>>

(* The next renew loop begins, RetryPeriod after the last one succeeded.   *)
BeginRenew(i) ==
  /\ phase[i] = "sleep"
  /\ timer[i] >= RetryPeriod
  /\ Enter(i, "renew")
  /\ UNCHANGED <<leaseVars, loopVars, flagVars, cancelled>>

(* The API server commits a renewal.                                       *)
Renew(i) ==
  /\ phase[i] = "renew"
  /\ Takeable(i)
  /\ WriteLease(i)
  /\ renewed' = [renewed EXCEPT ![i] = TRUE]
  /\ late' = [late EXCEPT ![i] = FALSE]
  /\ UNCHANGED <<phase, timer, flagVars, cancelled>>

(* The leader learns that a renewal of this loop succeeded.                *)
RenewSucceeded(i) ==
  /\ phase[i] = "renew"
  /\ renewed[i]
  /\ Enter(i, "sleep")
  /\ EndLoop(i)
  /\ UNCHANGED <<leaseVars, flagVars, cancelled>>

(* The renew loop failed for RenewDeadline: renew() returns and releases.  *)
GiveUp(i) ==
  /\ phase[i] = "renew"
  /\ timer[i] >= RenewDeadline
  /\ Enter(i, "release")
  /\ EndLoop(i)
  /\ UNCHANGED <<leaseVars, flagVars, cancelled>>

(* The context is cancelled: a leader goes on to release the lease, a      *)
(* candidate (even one whose attempt was committed) returns from acquire.  *)
StopOnCancel(i) ==
  /\ cancelled[i]
  /\ \/ Renewing(i) /\ Enter(i, "release")
     \/ phase[i] \in {"acquire", "acquired"} /\ Enter(i, "stopping")
  /\ EndLoop(i)
  /\ UNCHANGED <<leaseVars, flagVars, cancelled>>

(* ReleaseOnCancel: the API server commits the update that empties the     *)
(* holder.  The update fails on a lease somebody else wrote meanwhile.     *)
Release(i) ==
  /\ phase[i] = "release"
  /\ holder = Identity(i)
  /\ holder' = NoPod
  /\ leaseAge' = 0
  /\ UNCHANGED <<electorVars, flagVars, cancelled>>

(* release() returns, whether its update was committed or not; the call    *)
(* has no deadline.  Run goes on to its deferred OnStoppedLeading.         *)
ReleaseReturned(i) ==
  /\ phase[i] = "release"
  /\ Enter(i, "stopping")
  /\ UNCHANGED <<leaseVars, loopVars, flagVars, cancelled>>

-----------------------------------------------------------------------------
(* The callbacks of provider_k8s.go.                                       *)

(* OnStartedLeading runs in a goroutine of its own: nothing orders it      *)
(* before the elector's next steps, OnStoppedLeading included.             *)
OnStartedLeading(i) ==
  /\ starting[i]
  /\ starting' = [starting EXCEPT ![i] = FALSE]
  /\ iAmTheLeader' = [iAmTheLeader EXCEPT ![i] = TRUE]
  /\ UNCHANGED <<leaseVars, electorVars, cancelled>>

(* OnStoppedLeading up to os.Exit: deferred, so it also runs in a process  *)
(* that never led.  The listeners do nothing with FALSE.                   *)
OnStoppedLeading(i) ==
  /\ phase[i] = "stopping"
  /\ Enter(i, "exiting")
  /\ iAmTheLeader' = [iAmTheLeader EXCEPT ![i] = FALSE]
  /\ UNCHANGED <<leaseVars, loopVars, starting, cancelled>>

(* Faulty: the control loop is entered again instead of os.Exit.           *)
ExitToAcquire(i) ==
  /\ phase[i] = "exiting"
  /\ Enter(i, "acquire")
  /\ UNCHANGED <<leaseVars, loopVars, flagVars, cancelled>>

(* Faulty: os.Exit is missing; the control loop is over, main waits on.    *)
ExitForgotten(i) == phase[i] = "exiting" /\ UNCHANGED vars

(* OnStoppedLeading ends the process: os.Exit(0).                          *)
Exit(i) ==
  /\ phase[i] = "exiting"
  /\ EndProcess(i)

-----------------------------------------------------------------------------
(* The process, as main runs it and as its environment ends it.            *)

(* main receives SIGTERM and calls cancel().                               *)
Cancel(i) ==
  /\ phase[i] # "off"
  /\ ~cancelled[i]
  /\ cancelled' = [cancelled EXCEPT ![i] = TRUE]
  /\ UNCHANGED <<leaseVars, electorVars, flagVars>>

(* main returns: nothing ever joins the WaitGroup, so wg.Wait() does not   *)
(* wait for the elector to release the lease.                              *)
MainReturn(i) ==
  /\ cancelled[i]
  /\ EndProcess(i)

(* The process dies: the node fails, or a goroutine panics.                *)
Crash(i) ==
  /\ phase[i] # "off"
  /\ EndProcess(i)

-----------------------------------------------------------------------------
(* Time.                                                                   *)

(* Something of pod i must happen before time goes on: its timed phase is  *)
(* over, or a spawned goroutine is ready to run.                           *)
Due(i) ==
  \/ phase[i] = "sleep" /\ timer[i] >= RetryPeriod
  \/ phase[i] = "renew" /\ timer[i] >= RenewDeadline
  \/ starting[i]

(* The age of a lease counts while it has a holder, up to LeaseDuration.   *)
Tick ==
  /\ \A i \in Pod : ~Due(i)
  /\ leaseAge' = IF holder = NoPod \/ leaseAge = LeaseDuration
                   THEN leaseAge ELSE leaseAge + 1
  /\ timer' = [i \in Pod |->
                 IF phase[i] \in TimedPhase THEN timer[i] + 1 ELSE timer[i]]
  /\ UNCHANGED <<holder, phase, loopVars, flagVars, cancelled>>

-----------------------------------------------------------------------------
ElectorStep(i) ==
  \/ StartProvider(i) \/ Acquire(i) \/ LoseAnswer(i) \/ StartLeading(i)
  \/ BeginRenew(i) \/ Renew(i) \/ RenewSucceeded(i) \/ GiveUp(i)
  \/ StopOnCancel(i) \/ Release(i) \/ ReleaseReturned(i)
  \/ OnStoppedLeading(i) \/ Cancel(i)

ProcessEnds(i) == Exit(i) \/ MainReturn(i) \/ Crash(i)

PodStep(i) == ElectorStep(i) \/ OnStartedLeading(i) \/ ProcessEnds(i)

Next == Tick \/ \E i \in Pod : PodStep(i)

Spec == Init /\ [][Next]_vars

(* A cluster without any running exporter is given one.                    *)
StartSome == (\A i \in Pod : phase[i] = "off") /\ \E i \in Pod : StartProvider(i)

(* What the goroutines of a pod do without waiting for anybody else.       *)
GoOn(i) ==
  \/ BeginRenew(i) \/ RenewSucceeded(i) \/ GiveUp(i)
  \/ StopOnCancel(i) \/ ReleaseReturned(i)
  \/ OnStartedLeading(i) \/ OnStoppedLeading(i) \/ Exit(i)

(* SIGTERMs and crashes, of any number, end.                               *)
StopsEnd == <>[][\A i \in Pod : ~Cancel(i) /\ ~Crash(i)]_vars

(* The runtime schedules every goroutine, and the API server, called again *)
(* and again, answers in the end.  Nothing is assumed of renewals, nor     *)
(* that a pod that ended comes back while another runs.                    *)
Fairness ==
  /\ StopsEnd
  /\ WF_vars(Tick)
  /\ WF_vars(StartSome)
  /\ SF_vars(\E i \in Pod : Acquire(i))
  /\ SF_vars(\E i \in Pod : StartLeading(i))
  /\ \A i \in Pod : WF_vars(GoOn(i))

FairSpec == Spec /\ Fairness

-----------------------------------------------------------------------------
(* Properties.                                                             *)

(* Two pods are in office only while one of them is a latecomer: it learnt *)
(* of its victory when the lease was not its own any more, or about to     *)
(* expire, and is in its first renew loop, which ends after RenewDeadline. *)
(* The handover by expiry relies on the durations of provider_k8s.go:      *)
(* 362-364: a leader that cannot renew, even one whose last renewal was    *)
(* answered late, leaves before another pod takes over.  Nothing bounds    *)
(* the answer to an acquisition.                                           *)
AtMostOneInOffice ==
  \A i, j \in Pod :
    Renewing(i) /\ Renewing(j) /\ i # j =>
      \E k \in {i, j} : late[k] /\ timer[k] <= RenewDeadline

(* Two pods have iAmTheLeader set at the same time only while one of them  *)
(* is on its way out or a latecomer, and a pod that was never told that it *)
(* won the lease never has it set.  The README's "one leader instance that *)
(* export cluster level metrics" (README.md:76) holds but for that.        *)
OverlapOnlyWhileLeaving ==
  /\ \A i \in Pod : iAmTheLeader[i] => Renewing(i) \/ Leaving(i)
  /\ \A i, j \in Pod :
       iAmTheLeader[i] /\ iAmTheLeader[j] /\ i # j =>
         \E k \in {i, j} : Leaving(k) \/ late[k]

(* The inductive strengthening of AtMostOneInOffice: a pod in office that  *)
(* is no latecomer is still the holder, because the lease it wrote cannot  *)
(* have reached LeaseDuration yet.                                         *)
SleepInv(i) ==
  phase[i] = "sleep" =>
    holder = i /\ timer[i] <= RetryPeriod /\ leaseAge <= RenewDeadline + timer[i]

RenewInv(i) ==
  phase[i] = "renew" =>
    /\ timer[i] <= RenewDeadline
    /\ renewed[i] => holder = i /\ leaseAge <= timer[i]
    /\ ~renewed[i] /\ ~late[i] =>
         holder = i /\ leaseAge < LeaseDuration - RenewDeadline + timer[i]

LoopInv(i) ==
  /\ renewed[i] \/ late[i] => phase[i] = "renew"
  /\ late[i] => ~renewed[i]

LeaseInv == \A i \in Pod : SleepInv(i) /\ RenewInv(i) /\ LoopInv(i)

(* The inductive strengthening of OverlapOnlyWhileLeaving: the pending     *)
(* OnStartedLeading goroutine, too, belongs to a pod that won the lease.   *)
FlagInv ==
  \A i \in Pod : iAmTheLeader[i] \/ starting[i] => Renewing(i) \/ Leaving(i)

IInv == TypeOK /\ LeaseInv /\ FlagInv

(* Whatever ends the leader (a crash, a SIGTERM whose release is cut off   *)
(* by the return of main, lost answers), some pod opens its gate again.    *)
EventuallyLed == []<>(\E i \in Pod : iAmTheLeader[i])

(* The pods in office, over time, are a run of SingleLeader: who is in     *)
(* office and no latecomer is the leader, whose office passes from pod to  *)
(* pod with a vacancy in between.                                          *)
Renewers == {i \in Pod : Renewing(i) /\ ~late[i]}

Latecomers == {i \in Pod : late[i]}

OfficeOf(S) == IF S = {} THEN NoPod ELSE CHOOSE i \in S : TRUE

Office == INSTANCE SingleLeader WITH
  leader <- OfficeOf(Renewers), latecomers <- Latecomers

ImplementsSingleLeader == Office!Spec

(* Each pod leads at most once in the life of a process, and opens its     *)
(* gate only for the term it has won; it gives up a candidacy only when it *)
(* is cancelled.                                                           *)
Stage(i) ==
  CASE phase[i] = "off"                     -> "none"
    [] phase[i] \in {"acquire", "acquired"} -> "candidate"
    [] Renewing(i)                          -> "leader"
    [] phase[i] \in {"release", "stopping"} -> "leaving"
    [] phase[i] = "exiting"                 -> "left"

Term(i) == INSTANCE PodTerm WITH
  stage <- Stage(i), pending <- starting[i], gate <- iAmTheLeader[i],
  cancelled <- cancelled[i]

OneTermEach ==
  /\ \A i \in Pod : Term(i)!Init
  /\ [][\A i \in Pod : [Term(i)!Next]_(Term(i)!vars)]_vars
=============================================================================
