------------------------------ MODULE TargetNode ------------------------------
(***************************************************************************)
(* What one drain sees of the cluster: the node it drains, the pods on it, *)
(* and the identity of the workloads those pods belong to.  All of it is   *)
(* kept by the API server and its controllers, outside the repository; it  *)
(* is modelled from the calls in pkg/drain/node.go, rollout.go and         *)
(* eviction.go.                                                            *)
(*                                                                         *)
(* The pods a workload has on the node are one unit, named after it; every *)
(* other pod is named by itself.  A unit is absent, running with the       *)
(* current revision ("new") or one a restart has outdated ("old"), being   *)
(* deleted ("terminating"), or in a terminal phase ("terminal").           *)
(***************************************************************************)
EXTENDS Naturals

CONSTANTS
  Workloads,        \* Deployments and StatefulSets that may have pods here
  OtherPods,        \* DaemonSet, Job, static and standalone pods
  Owners,           \* [PodNames -> SUBSET kinds], the kinds in ownerReferences
  MaxUid            \* [Workloads -> Nat], bound: how often each may be created

PodNames == Workloads \cup OtherPods

VARIABLES
  unsched,          \* node.spec.unschedulable
  pods,             \* [PodNames -> PodCondition]
  spec              \* [Workloads -> [uid, gen]], metadata of the live object

clusterVars == <<unsched, pods, spec>>

PodCondition == {"none", "new", "old", "terminating", "terminal"}
Identity == [uid : Nat, gen : Nat]

ClusterTypeOK ==
  /\ unsched \in BOOLEAN
  /\ pods \in [PodNames -> PodCondition]
  /\ spec \in [Workloads -> Identity]

\* Non-terminal pods are on the node; those being deleted count.
HasPods(p) == pods[p] \in {"new", "old", "terminating"}

(***************************************************************************)
(* The cluster's own steps.                                                *)
(***************************************************************************)
\* A pod is bound to the node: by the scheduler if the node is schedulable, by
\* the DaemonSet controller in any case.
PodScheduled(p) ==
  /\ ~unsched \/ "DaemonSet" \in Owners[p]
  /\ pods[p] = "none"
  /\ pods' = [pods EXCEPT ![p] = "new"]
  /\ UNCHANGED <<unsched, spec>>

\* The controller replaces an outdated pod; the replacement runs elsewhere or
\* arrives here by PodScheduled.
PodReplaced(p) ==
  /\ pods[p] = "old"
  /\ pods' = [pods EXCEPT ![p] = "terminating"]
  /\ UNCHANGED <<unsched, spec>>

\* A Job's pod completes.
PodCompletes(p) ==
  /\ "Job" \in Owners[p]
  /\ pods[p] = "new"
  /\ pods' = [pods EXCEPT ![p] = "terminal"]
  /\ UNCHANGED <<unsched, spec>>

\* The kubelet has stopped a deleted pod and its object goes away.
PodRemoved(p) ==
  /\ pods[p] = "terminating"
  /\ pods' = [pods EXCEPT ![p] = "none"]
  /\ UNCHANGED <<unsched, spec>>

\* Somebody deletes the workload and creates it again under the same name.
WorkloadRecreated(w) ==
  /\ spec[w].uid < MaxUid[w]
  /\ spec' = [spec EXCEPT ![w] = [uid |-> @.uid + 1, gen |-> 1]]
  /\ pods' = [pods EXCEPT ![w] = IF HasPods(w) THEN "terminating" ELSE @]
  /\ UNCHANGED unsched

ClusterStep ==
  \/ \E p \in PodNames :
       PodScheduled(p) \/ PodReplaced(p) \/ PodCompletes(p) \/ PodRemoved(p)
  \/ \E w \in Workloads : WorkloadRecreated(w)

(***************************************************************************)
(* Effects of the drain's API calls.                                       *)
(***************************************************************************)
\* The restart patch changes the pod template: a new generation, and every pod
\* now running is of an outdated revision.
RestartApplied(w) ==
  /\ spec' = [spec EXCEPT ![w].gen = @ + 1]
  /\ pods' = [pods EXCEPT ![w] = IF @ = "new" THEN "old" ELSE @]
  /\ UNCHANGED unsched

\* The controller reports w's rollout complete: no outdated pod is left running,
\* although some may still be terminating.
RolloutComplete(w) == pods[w] # "old"

\* The pod is marked for deletion.
DeletionStarted(p) ==
  /\ pods' = [pods EXCEPT ![p] = "terminating"]
  /\ UNCHANGED <<unsched, spec>>

\* The node patch of cordon and uncordon.
NodePatched(b) ==
  /\ unsched' = b
  /\ UNCHANGED <<pods, spec>>
================================================================================
