------------------------------- MODULE MCPrepare -------------------------------
(* A Deployment with an old and a new ReplicaSet and a StatefulSet, with four *)
(* pods of theirs and one of nobody's.                                        *)
EXTENDS Prepare, TLC

CONSTANTS a, b      \* interchangeable pods

MCDeploymentOf == [web1 |-> "web", web2 |-> "web"]
MCOwnerOf ==
  (a :> "web2") @@ (b :> "web2") @@ [old |-> "web1", db0 |-> "db", job |-> Other]
MCOrphans == {"web1"}
MCDeployments == {"web"}
MCStatefulSets == {"db"}
MCManners ==
  [web |-> {[replicas |-> 2, strategy |-> "RollingUpdate"],
            [replicas |-> 2, strategy |-> "Paused"]},
   db |-> {[replicas |-> 2, strategy |-> "RollingUpdate"],
           [replicas |-> 1, strategy |-> "RollingUpdate"],
           [replicas |-> 2, strategy |-> "OnDelete"]}]
MCSkips == {{}, {"web"}}

\* Layers that set nothing, one option, an invalid value or several.
MCLayers ==
  {<<>>, [preflight |-> "strict"], [preflight |-> "off"], [preflight |-> "bogus"],
   [nodeConcurrency |-> -1], [ignoreDaemonsets |-> FALSE],
   [preflight |-> "warn", nodeConcurrency |-> 0, ignoreDaemonsets |-> TRUE]}
MCCommandLines == MCLayers \cup {[nodeConcurrency |-> 0, ignoreDaemonsets |-> FALSE]}
AliasCommandLines == {<<>>, [skipDaemonSets |-> FALSE], [skipDaemonSets |-> TRUE]}

Interchangeable == Permutations({a, b})
================================================================================
