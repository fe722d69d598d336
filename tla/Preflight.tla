------------------------------- MODULE Preflight -------------------------------
(***************************************************************************)
(* What the pre-flight checks (pkg/drain/preflight.go) find out about one  *)
(* workload from its spec.  A finding is a risk or, like the note about a  *)
(* StatefulSet's order, only a note.  The notes about workload names and   *)
(* about disruption budgets, which change nothing, are left out.           *)
(***************************************************************************)
EXTENDS Naturals

\* How a workload replaces its pods.  A paused Deployment and a StatefulSet
\* with a partition above zero count as strategies of their own.
StrategiesOf(kind) ==
  CASE kind = "Deployment" -> {"RollingUpdate", "Recreate", "Paused"}
    [] kind = "StatefulSet" -> {"RollingUpdate", "OnDelete", "Partitioned"}
Strategies == StrategiesOf("Deployment") \cup StrategiesOf("StatefulSet")

singleReplica(replicas) == {f \in {"SingleReplica"} : replicas = 1}

preflightDeployment(replicas, strategy) ==
  singleReplica(replicas) \cup ({"Recreate", "Paused"} \cap {strategy})

preflightStatefulSet(replicas, strategy) ==
  singleReplica(replicas) \cup {f \in {"Ordered"} : replicas # 1}
    \cup ({"OnDelete", "Partitioned"} \cap {strategy})

inspected(kind, replicas, strategy) ==
  IF kind = "Deployment" THEN preflightDeployment(replicas, strategy)
  ELSE preflightStatefulSet(replicas, strategy)

risks(found) == found \ {"Ordered"}

\* The risks whose message says that the restart will not get to every pod.
NotRolledOut == {"Paused", "OnDelete", "Partitioned"}
================================================================================
