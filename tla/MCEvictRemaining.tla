--------------------------- MODULE MCEvictRemaining ---------------------------
(* A cordoned node with one pod of every kind evictRemaining tells apart. *)
EXTENDS EvictRemaining, TLC

CONSTANTS
  web,      \* a Deployment's pods, with an emptyDir volume
  db,       \* a StatefulSet's pod
  job, bare, ds, static

MCOwners ==
  web :> {"ReplicaSet"} @@ db :> {"StatefulSet"} @@ job :> {"Job"}
    @@ bare :> {} @@ ds :> {"DaemonSet"} @@ static :> {"Node"}
MCMaxUid == [w \in Workloads |-> 1]

\* What is left on the node: groups of pods whose treatment interacts, all
\* running or one of them already terminating.
MCInitialPods ==
  UNION { { [p \in PodNames |-> IF p = going THEN "terminating"
                                ELSE IF p \in group THEN "new" ELSE "none"] :
              going \in (group \ {static}) \cup {NoPod} } :
            group \in {{}, {web, db}, {web, ds}, {web, bare, static}, {db, job}} }

flags(dry, skip, force, data, forceDelete) ==
  [dryRun |-> dry, skipDS |-> skip, force |-> force, emptyDir |-> data,
   forceDelete |-> forceDelete]

\* RunResolved turns --force-delete-standalone into --force as well.
MCOptions ==
  { flags(FALSE, TRUE,  FALSE, FALSE, FALSE),
    flags(FALSE, TRUE,  FALSE, TRUE,  FALSE),
    flags(FALSE, FALSE, TRUE,  FALSE, FALSE),
    flags(FALSE, TRUE,  TRUE,  FALSE, TRUE),
    flags(TRUE,  TRUE,  TRUE,  TRUE,  FALSE) }
================================================================================
