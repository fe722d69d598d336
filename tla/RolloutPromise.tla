---------------------------- MODULE RolloutPromise ----------------------------
(***************************************************************************)
(* What rollingRestart (pkg/drain/rollout.go) promises about one workload, *)
(* with nothing about generations, revisions, selectors or polls:          *)
(*                                                                         *)
(*   - it restarts the workload once, and waits;                           *)
(*   - it reports success only at a moment when no pod from before the     *)
(*     restart is left, and none comes back while it has not failed;       *)
(*   - it may fail at any time, and then promises nothing about the pods.  *)
(*                                                                         *)
(* Rollout.tla, the polls of a lagging status, implements it; so does each *)
(* goroutine of WorkloadRunner.tla, which works with no more detail.       *)
(***************************************************************************)

VARIABLES
  restart,      \* "none", "waiting", "done" or "failed"
  outdated      \* the workload has pods from before the restart

vars == <<restart, outdated>>

Init == restart = "none" /\ outdated = FALSE

\* The pod template is patched.
Begin ==
  /\ restart = "none" /\ restart' = "waiting"
  /\ outdated' \in BOOLEAN

\* Pods are replaced, or created from what the controller has seen so far.
PodsChange ==
  /\ restart \in {"waiting", "failed"}
  /\ outdated' \in BOOLEAN
  /\ UNCHANGED restart

Succeed ==
  /\ restart = "waiting" /\ ~outdated
  /\ restart' = "done"
  /\ UNCHANGED outdated

\* A patch that is refused may have been applied all the same; a restart that is
\* over may be followed by pods that stay on the node.
Fail ==
  /\ restart # "failed" /\ restart' = "failed"
  /\ outdated' \in BOOLEAN
  /\ restart = "done" => UNCHANGED outdated

Next == Begin \/ PodsChange \/ Succeed \/ Fail

Spec == Init /\ [][Next]_vars
================================================================================
