--------------------------- MODULE MCWorkloadRunner ---------------------------
(* Three workloads of two priority levels, every concurrency that differs for
   three workloads, and the checkpoint files an earlier run may have left. *)
EXTENDS WorkloadRunner, TLC

CONSTANTS api, web, db

MCWorkloads == {api, web, db}
MCOwners == [w \in MCWorkloads |-> {"ReplicaSet"}]
MCPriority == api :> 100 @@ web :> 100 @@ db :> 200
MCMaxUid == [w \in MCWorkloads |-> IF w = db THEN 3 ELSE 2]

MCOptions ==
  [maxC : {0, 1, 2}, resume : BOOLEAN, context : {"this"}, dryRun : {FALSE}]
    \cup [maxC : {2}, resume : {FALSE}, context : {"this"}, dryRun : {TRUE}]
    \cup [maxC : {2}, resume : {TRUE}, context : {"unset"}, dryRun : {FALSE}]

MCInitialFiles ==
  LET file(node, readable, entries) ==
        [readable |-> readable, node |-> node, context |-> "this",
         entries |-> entries]
      none == [w \in MCWorkloads |-> NoEntry]
  IN  { CP!newCheckpoint,
        file("this", TRUE, [none EXCEPT ![api] = [uid |-> 2, gen |-> 2],
                                        ![db] = LegacyEntry]),
        file("this", TRUE, [none EXCEPT ![api] = [uid |-> 1, gen |-> 0],
                                        ![web] = [uid |-> 2, gen |-> 1]]),
        file("other", TRUE, none),
        file("this", FALSE, none) }
================================================================================
