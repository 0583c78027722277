---------------------------- MODULE SingleLeader ----------------------------
(***************************************************************************)
(* What the leader election promises, with no clock, no lease and no       *)
(* message.  At any time at most one exporter pod is the leader, and a pod *)
(* becomes the leader only after its predecessor has left; README.md:76    *)
(* asks for "one leader instance that export cluster level metrics".       *)
(* Beside the leader there may be latecomers, who take themselves for      *)
(* leaders because the news of a victory reached them too late: each of    *)
(* them withdraws, or becomes the leader when there is none, and no leader *)
(* turns into a latecomer.                                                 *)
(***************************************************************************)
CONSTANTS Pod, NoPod

VARIABLES leader, latecomers

vars == <<leader, latecomers>>

Init == leader = NoPod /\ latecomers = {}

(* A pod, a latecomer perhaps, takes the vacant office.                    *)
TakeOffice(i) ==
  /\ leader = NoPod
  /\ leader' = i
  /\ latecomers' = latecomers \ {i}

(* The leader leaves: it gave up, was stopped, or crashed.                 *)
LeaveOffice ==
  /\ leader # NoPod
  /\ leader' = NoPod
  /\ UNCHANGED latecomers

(* A pod that is not the leader is told that it is.                        *)
ComeLate(i) ==
  /\ i # leader
  /\ latecomers' = latecomers \cup {i}
  /\ UNCHANGED leader

Withdraw(i) ==
  /\ latecomers' = latecomers \ {i}
  /\ UNCHANGED leader

Next ==
  LeaveOffice \/ \E i \in Pod : TakeOffice(i) \/ ComeLate(i) \/ Withdraw(i)

Spec == Init /\ [][Next]_vars
=============================================================================
