------------------------------ MODULE PodTerm -------------------------------
(***************************************************************************)
(* What the election promises to the process it runs in, with no lease, no *)
(* clock and no listener: one life of a process is one term at most.  It   *)
(* is a candidate, may win once, leaves, and ends; the goroutine that the  *)
(* victory spawns opens the gate (iAmTheLeader) once, at any time before   *)
(* the end.  LeaderElection promises it for each of its pods, LeaderHook   *)
(* for its one process: the elector the hook is modelled with is no other  *)
(* than the one that the election is proved about.                         *)
(***************************************************************************)
VARIABLES
  stage,      \* "none", "candidate", "leader", "leaving", "left"
  pending,    \* the goroutine that opens the gate has not run yet
  gate,       \* iAmTheLeader
  cancelled   \* main has called cancel()

vars == <<stage, pending, gate, cancelled>>

Init ==
  /\ stage = "none"
  /\ ~pending
  /\ ~gate
  /\ ~cancelled

Enter ==
  /\ stage = "none" /\ ~pending /\ ~gate
  /\ stage' = "candidate"
  /\ UNCHANGED <<pending, gate, cancelled>>

(* Nothing of an earlier term is there to be won again.                    *)
Win ==
  /\ stage = "candidate" /\ ~pending /\ ~gate
  /\ stage' = "leader"
  /\ pending' = TRUE
  /\ UNCHANGED <<gate, cancelled>>

OpenGate ==
  /\ pending
  /\ pending' = FALSE
  /\ gate' = TRUE
  /\ UNCHANGED <<stage, cancelled>>

(* A candidate gives up only when it is told to.                           *)
Leave ==
  /\ stage = "leader" \/ (stage = "candidate" /\ cancelled)
  /\ stage' = "leaving"
  /\ UNCHANGED <<pending, gate, cancelled>>

(* The gate is shut; a goroutine that is late may open it again.           *)
ShutGate ==
  /\ stage = "leaving"
  /\ stage' = "left"
  /\ gate' = FALSE
  /\ UNCHANGED <<pending, cancelled>>

Cancel ==
  /\ cancelled' = TRUE
  /\ UNCHANGED <<stage, pending, gate>>

End ==
  /\ stage' = "none"
  /\ pending' = FALSE
  /\ gate' = FALSE
  /\ cancelled' = FALSE

Next == Enter \/ Win \/ OpenGate \/ Leave \/ ShutGate \/ Cancel \/ End

Spec == Init /\ [][Next]_vars
=============================================================================
