---------------------------- MODULE EvictionPolicy ----------------------------
(***************************************************************************)
(* Which of the pods left on a node are evicted, which are only waited     *)
(* for and which stop the drain: the three selections evictRemaining makes *)
(* from one list of pods (pkg/drain/eviction.go).                          *)
(*                                                                         *)
(* A pod is a record: the kinds in its ownerReferences, whether it is a    *)
(* mirror (static) pod, whether it has an emptyDir volume, whether its     *)
(* deletionTimestamp is set and whether its phase is terminal.  The flags  *)
(* are skipDS (--ignore-daemonsets), force and emptyDir                    *)
(* (--delete-emptydir-data).                                               *)
(***************************************************************************)
EvictionPods ==
  [owners : SUBSET {"ReplicaSet", "StatefulSet", "DaemonSet", "Job"},
   mirror : BOOLEAN, emptyDir : BOOLEAN, deleting : BOOLEAN, terminal : BOOLEAN]

EvictionFlags == [skipDS : BOOLEAN, force : BOOLEAN, emptyDir : BOOLEAN]

isDaemonSetPod(p) == "DaemonSet" \in p.owners

isJobPod(p) == "Job" \in p.owners

isStandalone(p) == p.owners = {}

\* DaemonSet pods stay when the operator has asked for that.
skippedDaemonSet(p, f) == isDaemonSetPod(p) /\ f.skipDS

\* Mutant of isBlocked: emptyDir pods no longer stop the drain.
isBlockedUnlessData(p, f) ==
  /\ ~p.deleting
  /\ ~p.terminal
  /\ ~p.mirror
  /\ ~skippedDaemonSet(p, f)
  /\ \/ isStandalone(p) /\ ~f.force
     \/ isJobPod(p) /\ ~f.force

\* blockedEvictionPods: the pod stops the drain, because evicting it loses
\* something and the operator has not agreed to that.
isBlocked(p, f) ==
  /\ ~p.deleting
  /\ ~p.terminal
  /\ ~p.mirror
  /\ ~skippedDaemonSet(p, f)
  /\ \/ isStandalone(p) /\ ~f.force
     \/ isJobPod(p) /\ ~f.force
     \/ p.emptyDir /\ ~f.emptyDir /\ ~f.force

\* filterEvictable: the pod is evicted, or force-deleted.
isEvictable(p, f) ==
  /\ ~p.deleting
  /\ ~p.terminal
  /\ ~p.mirror
  /\ ~skippedDaemonSet(p, f)
  /\ ~(p.emptyDir /\ ~f.emptyDir /\ ~f.force)
  /\ ~(isStandalone(p) /\ ~f.force)
  /\ ~(isJobPod(p) /\ ~f.force)

\* podsPendingDeletion: the pod is on its way out already and is waited for.
isPending(p, f) ==
  /\ p.deleting
  /\ ~p.terminal
  /\ ~p.mirror
  /\ ~skippedDaemonSet(p, f)
================================================================================
