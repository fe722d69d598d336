------------------------------ MODULE Checkpoint ------------------------------
(***************************************************************************)
(* The checkpoint of pkg/drain/checkpoint.go and checkpoint_resume.go: the *)
(* workloads an interrupted drain need not restart again.                  *)
(*                                                                         *)
(* A checkpoint is a record: the node and the kube context it was written  *)
(* for ("unset", "this" or "other" than the drain reading it), whether its *)
(* file can be read and parsed at all, and per workload what was recorded: *)
(* nothing, a legacy entry without an identity, or the identity the        *)
(* workload had when it was discovered.  A uid or a generation of 0 is one *)
(* that is not set.  A missing file and an empty checkpoint are the same   *)
(* thing, as they are to LoadCheckpoint.                                   *)
(*                                                                         *)
(* context is the drain's own CheckpointContext: "this", or "unset" when   *)
(* the kubeconfig names none.                                              *)
(***************************************************************************)
CONSTANTS
  Workloads,
  NoEntry,          \* the workload is not in the checkpoint
  LegacyEntry       \* only the Completed map has it

newCheckpoint ==
  [readable |-> TRUE, node |-> "unset", context |-> "unset",
   entries |-> [w \in Workloads |-> NoEntry]]

\* cp.NodeName = ..., cp.Context = ...: the drain makes the checkpoint its own.
Claimed(cp, context) == [cp EXCEPT !.node = "this", !.context = context]

\* Mutant of MarkDone: each save starts from an empty checkpoint.
MarkDoneAlone(cp, context, w, id) ==
  Claimed([newCheckpoint EXCEPT !.entries[w] = id], context)

\* MarkDoneAt, after which the checkpoint is written out as a whole.
MarkDone(cp, context, w, id) == Claimed([cp EXCEPT !.entries[w] = id], context)

IsDone(cp, w) == cp.entries[w] # NoEntry

\* Mutant of validateCheckpoint: a checkpoint of any node will do.
validateContextOnly(cp, context) == cp.context = "other" => context = "unset"

\* validateCheckpoint: refuse a checkpoint of another node, or of another kube
\* context if the drain has one itself.
validateCheckpoint(cp, context) ==
  /\ cp.node # "other"
  /\ cp.context = "other" => context = "unset"

\* Mutant of checkpointCanSkip: an entry is trusted whatever it says.
skipWhenDone(cp, w, id, hasPods) == IsDone(cp, w)

\* A uid or generation that either side has not set is no reason to distrust.
Agree(a, b) == a = 0 \/ b = 0 \/ a = b

\* checkpointCanSkip: trust an entry that agrees with the object and generation
\* discovered now; trust a legacy entry only if no pod is left on the node.
checkpointCanSkip(cp, w, id, hasPods) ==
  /\ IsDone(cp, w)
  /\ IF cp.entries[w] = LegacyEntry
       THEN ~hasPods
       ELSE Agree(cp.entries[w].uid, id.uid) /\ Agree(cp.entries[w].gen, id.gen)
================================================================================
