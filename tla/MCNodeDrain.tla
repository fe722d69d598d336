------------------------------ MODULE MCNodeDrain ------------------------------
(* Two sessions on a node with two workloads and a standalone pod. *)
EXTENDS NodeDrain, TLC

CONSTANTS web, db, bare

MCOwners == web :> {"ReplicaSet"} @@ db :> {"StatefulSet"} @@ bare :> {}
MCPriority == web :> 100 @@ db :> 200
MCMaxUid == [w \in Workloads |-> 2]

default ==
  [maxC |-> 1, resume |-> FALSE, context |-> "this", dryRun |-> FALSE, uncordon |-> FALSE,
   strict |-> FALSE, skip |-> {}, only |-> {}, skipDS |-> TRUE, force |-> FALSE,
   emptyDir |-> FALSE, forceDelete |-> FALSE]

MCOptions ==
  { [default EXCEPT !.dryRun = TRUE],
    [default EXCEPT !.maxC = 2, !.resume = TRUE, !.uncordon = TRUE, !.force = TRUE],
    [default EXCEPT !.resume = TRUE, !.context = "unset", !.force = TRUE],
    [default EXCEPT !.maxC = 0, !.skip = {web}],
    [default EXCEPT !.only = {web}, !.strict = TRUE, !.uncordon = TRUE] }

MCInitialNodePods ==
  { [p \in PodNames |-> IF p \in here THEN "new" ELSE "none"] :
      here \in {{web, db}, {web, bare}} }

file(node, context, entries) ==
  [readable |-> TRUE, node |-> node, context |-> context, entries |-> entries]
none == [w \in Workloads |-> NoEntry]

\* web as it is now: the entry of a drain that discovered web after another one of
\* its invocation had restarted it.  The entry of db has no identity.
webIsDone ==
  file("this", "this", [none EXCEPT ![web] = [uid |-> 2, gen |-> 2], ![db] = LegacyEntry])

\* The files: none, another node's, the one above, and another context's with an entry
\* for any generation of web.  Entries that are outdated the sessions write themselves.
MCInitialFiles ==
  { CP!newCheckpoint,
    file("other", "this", none),
    webIsDone,
    file("this", "other", [none EXCEPT ![web] = [uid |-> 2, gen |-> 0]]) }

MCWebNotYetHere == {[p \in PodNames |-> IF p = db THEN "new" ELSE "none"]}

\* Options of the runs that each look for one behaviour.
MCUncordonOnFailure == {[default EXCEPT !.uncordon = TRUE]}
MCSkipWeb == {[default EXCEPT !.skip = {web}]}
MCResume == {[default EXCEPT !.resume = TRUE]}
MCNoFile == {CP!newCheckpoint}
MCWebIsDone == {webIsDone}
================================================================================
