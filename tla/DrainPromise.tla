------------------------------ MODULE DrainPromise ------------------------------
(***************************************************************************)
(* What the drain of one node promises about its workloads, with nothing   *)
(* about batches, goroutines, checkpoints or other nodes:                  *)
(*                                                                         *)
(*   - it decides once what to restart, and then works that down;          *)
(*   - a workload is struck off only while none of its pods is on the node;*)
(*   - before the first restart it may leave out what the record of an     *)
(*     earlier drain has as done, pods or no pods;                         *)
(*   - the eviction begins only when nothing is left to restart, and       *)
(*     success comes only after it;                                        *)
(*   - it may fail, or be killed, at any point.                            *)
(*                                                                         *)
(* NodeDrain.tla implements it in each session, and so does the coarser    *)
(* drain of each node in MultiNode.tla.                                    *)
(***************************************************************************)
CONSTANT Workloads

VARIABLES
  stage,        \* "idle", "looking", "restarting", "evicting", "ok", "failed"
  found,        \* workloads the drain is to restart
  left,         \* those it has not struck off yet
  here,         \* workloads with pods on the node
  kept,         \* the node has accepted no new pods since the restarts began
  record        \* what the record has as done; an input, which any step may change

vars == <<stage, found, left, here, kept>>

Init ==
  /\ stage = "idle" /\ found = {} /\ left = {} /\ kept = FALSE
  /\ here \in SUBSET Workloads

\* The drain has read what is on the node; it may change meanwhile.
Look ==
  /\ stage = "idle" /\ stage' = "looking"
  /\ found' \in SUBSET Workloads /\ left' = found'
  /\ UNCHANGED <<here, kept>>

Cordon ==
  /\ stage = "looking" /\ stage' = "restarting"
  /\ kept' \in BOOLEAN
  /\ UNCHANGED <<found, left, here>>

StrikeOff ==
  /\ stage = "restarting"
  /\ left' \in SUBSET left /\ (left \ left') \cap here = {}
  /\ UNCHANGED <<stage, found, here, kept>>

Evict ==
  /\ stage = "restarting" /\ left = {} /\ stage' = "evicting"
  /\ UNCHANGED <<found, left, here, kept>>

\* What the record covers is no longer the drain's to restart.
TakeOver ==
  /\ stage = "restarting" /\ left = found
  /\ found' \in SUBSET found /\ found \ found' \subseteq record
  /\ left' \in SUBSET found' /\ (found' \ left') \cap here = {}
  /\ UNCHANGED <<stage, here, kept>>

\* The last pods to leave may be gone by then.
Succeed ==
  /\ stage = "evicting" /\ stage' = "ok"
  /\ here' \in SUBSET here
  /\ UNCHANGED <<found, left, kept>>

Forget == found' = {} /\ left' = {} /\ kept' = FALSE

Fail ==
  /\ stage \in {"idle", "looking", "restarting", "evicting"} /\ stage' = "failed"
  /\ Forget /\ UNCHANGED here

\* The node is drained once more.
Again ==
  /\ stage \in {"ok", "failed"} /\ stage' = "idle"
  /\ Forget /\ UNCHANGED here

\* Pods leave, and new ones come unless the node is kept free of them.
PodsChange ==
  /\ here' \in SUBSET Workloads
  /\ kept => here' \subseteq here
  /\ kept' \in {kept, FALSE}
  /\ UNCHANGED <<stage, found, left>>

Next ==
  \/ Look \/ Cordon \/ StrikeOff \/ TakeOver \/ Evict \/ Succeed \/ Fail \/ Again
    \/ PodsChange

Spec == Init /\ [][Next]_vars

\* Nothing that was struck off comes back to a node kept free of new pods; when the
\* drain succeeds, that is all it was to restart.
StruckOffStaysAway == kept => (found \ left) \cap here = {}

SuccessMeansAllAway == stage = "ok" /\ kept => found \cap here = {}
================================================================================
