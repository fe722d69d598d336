---------------------------- MODULE WorkloadRunner ----------------------------
(***************************************************************************)
(* Drainer.runWorkloads (pkg/drain/workload_runner.go) of one node: the    *)
(* discovered workloads are sorted by priority, those the checkpoint       *)
(* covers are dropped, and the rest are restarted in batches of            *)
(* --max-concurrency goroutines.  A goroutine patches its workload, waits  *)
(* for the rollout, waits for the workload's pods to leave the node and    *)
(* then saves the checkpoint.  The first error in a batch cancels its      *)
(* siblings; the next batch starts only after every goroutine of the       *)
(* batch has returned nil.                                                 *)
(*                                                                         *)
(* The sequential path of the code (--max-concurrency=1) is the batch of   *)
(* one: its loop has the same steps in the same order.                     *)
(***************************************************************************)
EXTENDS DrainRun, Integers, Sequences, FiniteSets, SequencesExt

CONSTANTS
  Priority,         \* [Workloads -> Int], the drain-priority annotation
  NoEntry, LegacyEntry,
  InitialFiles      \* checkpoint files an earlier version may have left

CP == INSTANCE Checkpoint

CheckpointFiles ==
  [readable : BOOLEAN,
   node : {"unset", "this", "other"}, context : {"unset", "this", "other"},
   entries : [Workloads -> Identity \cup {NoEntry, LegacyEntry}]]

ASSUME RunnerAssumption ==
  /\ IsFiniteSet(Workloads)
  /\ \A o \in Options : o.maxC \in Nat /\ o.context \in {"unset", "this"}
  /\ InitialFiles \subseteq CheckpointFiles

\* parseDrainPriority gives a number, negative ones included.
ASSUME PriorityAssumption == Priority \in [Workloads -> Int]

\* No entry looks like a missing one.
ASSUME EntryAssumption == NoEntry \notin Identity \cup {LegacyEntry}

VARIABLES
  workloads,        \* the slice runWorkloads works through
  snap,             \* identity of each workload as discovered
  cpFile,           \* the checkpoint file
  cp,               \* the checkpoint in memory
  rpc,              \* where runWorkloads is
  runErr,           \* it returned an error
  batchStart,       \* loop variable of the batch loop, from 0
  wpc,              \* where the goroutine of each workload is
  gctxErr,          \* the current batch's context has been cancelled
  moved             \* history: <<workload, identity>> rolled out and off the node

runnerVars ==
  <<workloads, snap, cpFile, cp, rpc, runErr, batchStart, wpc, gctxErr, moved>>

\* Goroutines at these points are still running.
Running == {"patch", "rollout", "vacate", "save"}
WorkerPoints == {"idle"} \cup Running \cup {"done", "failed"}

(***************************************************************************)
(* sort.SliceStable by priority: ascending, discovery order among equals.  *)
(* Only the positions in keep are kept; the set has one member, the sorted *)
(* slice.                                                                  *)
(***************************************************************************)
Precedes(s, i, j) ==
  \/ Priority[s[i]] < Priority[s[j]]
  \/ Priority[s[i]] = Priority[s[j]] /\ i < j

\* s, rearranged by p.
Rearranged(s, p) == [i \in DOMAIN p |-> s[p[i]]]

Rearrangements(keep) == Bijection(1 .. Cardinality(keep), keep)

\* The elements of s at the positions in keep, in the order they have in s: a
\* filter over a slice.  Mutant of SortByPriority: discovery order is kept.
InOrder(s, keep) ==
  {Rearranged(s, p) :
     p \in {q \in Rearrangements(keep) :
             \A i, j \in DOMAIN q : i < j => q[i] < q[j]}}

SortByPriority(s, keep) ==
  {Rearranged(s, p) :
     p \in {q \in Rearrangements(keep) :
             \A i, j \in DOMAIN q : i < j => Precedes(s, q[i], q[j])}}

\* Mutant of BatchSize: --max-concurrency=0 is not treated as "unlimited".
BatchSizeRaw == opts.maxC

\* Mutant of BatchSize: the limit is off by one.
BatchSizePlusOne == IF opts.maxC <= 0 THEN Len(workloads) ELSE opts.maxC + 1

\* --max-concurrency=0 puts all workloads into one batch.
BatchSize == IF opts.maxC <= 0 THEN Len(workloads) ELSE opts.maxC

\* workloads[batchStart:end], end being cut off at the length of the slice.
BatchIndices ==
  {i \in DOMAIN workloads : batchStart < i /\ i <= batchStart + BatchSize}

Batch == {workloads[i] : i \in BatchIndices}

(***************************************************************************)
(* runWorkloads up to its loop: sort, and with --resume drop what the      *)
(* checkpoint lets it skip.                                                *)
(***************************************************************************)
ReturnRunner(err) == rpc' = "returned" /\ runErr' = err

EnterLoop == rpc' = "loop" /\ batchStart' = 0 /\ UNCHANGED runErr

\* Nothing was discovered: return nil before looking at the checkpoint.
BeginNothing ==
  /\ rpc = "begin"
  /\ workloads = <<>>
  /\ ReturnRunner(FALSE)
  /\ UNCHANGED <<clusterVars, workloads, snap, cpFile, cp, batchStart, wpc,
                 gctxErr, moved>>

BeginFresh ==
  /\ rpc = "begin"
  /\ workloads # <<>>
  /\ ~opts.resume
  /\ cp' = CP!Claimed(CP!newCheckpoint, opts.context)
  /\ workloads' \in SortByPriority(workloads, DOMAIN workloads)
  /\ EnterLoop
  /\ UNCHANGED <<clusterVars, snap, cpFile, wpc, gctxErr, moved>>

\* The positions checkpointCanSkip does not drop.
toRestart ==
  {i \in DOMAIN workloads :
     LET w == workloads[i]
     IN  ~CP!checkpointCanSkip(cpFile, w, snap[w], HasPods(w))}

BeginResumed ==
  /\ rpc = "begin"
  /\ workloads # <<>>
  /\ opts.resume
  /\ cpFile.readable
  /\ CP!validateCheckpoint(cpFile, opts.context)
  /\ cp' = CP!Claimed(cpFile, opts.context)
  /\ workloads' \in SortByPriority(workloads, toRestart)
  /\ EnterLoop
  /\ UNCHANGED <<clusterVars, snap, cpFile, wpc, gctxErr, moved>>

\* The file cannot be parsed or is another node's, or looking for the pods of
\* a legacy entry fails.
BeginError ==
  /\ rpc = "begin"
  /\ workloads # <<>>
  /\ opts.resume
  /\ \/ ~cpFile.readable
     \/ ~CP!validateCheckpoint(cpFile, opts.context)
     \/ \E i \in DOMAIN workloads : cpFile.entries[workloads[i]] = LegacyEntry
  /\ ReturnRunner(TRUE)
  /\ UNCHANGED <<clusterVars, workloads, snap, cpFile, cp, batchStart,
                 wpc, gctxErr, moved>>

(***************************************************************************)
(* The batch loop.                                                         *)
(***************************************************************************)
LoopEnds ==
  /\ rpc = "loop"
  /\ batchStart >= Len(workloads)
  /\ ReturnRunner(FALSE)
  /\ UNCHANGED <<clusterVars, workloads, snap, cpFile, cp, batchStart,
                 wpc, gctxErr, moved>>

\* errgroup.WithContext and one g.Go per workload of the batch.
StartBatch ==
  /\ rpc = "loop"
  /\ batchStart < Len(workloads)
  /\ wpc' = [w \in Workloads |-> IF w \in Batch THEN "patch" ELSE wpc[w]]
  /\ gctxErr' = FALSE
  /\ rpc' = "batch"
  /\ UNCHANGED <<clusterVars, workloads, snap, cpFile, cp, runErr,
                 batchStart, moved>>

\* Mutant of BatchReturned: the batch is left when one goroutine has finished.
AnyReturned == \E w \in Batch : wpc[w] \notin Running

\* g.Wait() has returned: every goroutine of the batch has.
BatchReturned == \A w \in Batch : wpc[w] \notin Running

\* Mutant of BatchFailed: the error g.Wait returns is dropped.
BatchErrorIgnored == FALSE

BatchFailed == \E w \in Batch : wpc[w] = "failed"

NextBatch ==
  /\ rpc = "batch"
  /\ BatchReturned
  /\ ~BatchFailed
  /\ batchStart' = batchStart + BatchSize
  /\ rpc' = "loop"
  /\ UNCHANGED <<clusterVars, workloads, snap, cpFile, cp, runErr, wpc,
                 gctxErr, moved>>

FailBatch ==
  /\ rpc = "batch"
  /\ BatchReturned
  /\ BatchFailed
  /\ ReturnRunner(TRUE)
  /\ UNCHANGED <<clusterVars, workloads, snap, cpFile, cp, batchStart,
                 wpc, gctxErr, moved>>

(***************************************************************************)
(* The goroutine of one workload: rollingRestart(gctx, w), then saveCP(w). *)
(***************************************************************************)
Advance(w, label) == wpc' = [wpc EXCEPT ![w] = label]

Cancelled == ctxErr \/ gctxErr

\* rollingRestart returns at once in a dry run, and saveCP does nothing.
DryRunRestart(w) ==
  /\ wpc[w] = "patch"
  /\ opts.dryRun
  /\ Advance(w, "done")
  /\ UNCHANGED <<clusterVars, workloads, snap, cpFile, cp, rpc, runErr,
                 batchStart, gctxErr, moved>>

RestartPatched(w) ==
  /\ wpc[w] = "patch"
  /\ ~opts.dryRun
  /\ ~Cancelled
  /\ RestartApplied(w)
  /\ Advance(w, "rollout")
  /\ UNCHANGED <<workloads, snap, cpFile, cp, rpc, runErr, batchStart,
                 gctxErr, moved>>

\* Mutant of RolloutDone: the pods are not waited for after the rollout.
RolloutSaves(w) ==
  /\ wpc[w] = "rollout"
  /\ ~Cancelled
  /\ RolloutComplete(w)
  /\ Advance(w, "save")
  /\ UNCHANGED <<clusterVars, workloads, snap, cpFile, cp, rpc, runErr,
                 batchStart, gctxErr, moved>>

\* Mutant of RolloutDone: the patch is taken for the rollout.
RolloutUnverified(w) ==
  /\ wpc[w] = "rollout"
  /\ ~Cancelled
  /\ Advance(w, "vacate")
  /\ UNCHANGED <<clusterVars, workloads, snap, cpFile, cp, rpc, runErr,
                 batchStart, gctxErr, moved>>

\* waitForDeploymentRollout or waitForStatefulSetRollout returns nil.
RolloutDone(w) ==
  /\ wpc[w] = "rollout"
  /\ ~Cancelled
  /\ RolloutComplete(w)
  /\ Advance(w, "vacate")
  /\ UNCHANGED <<clusterVars, workloads, snap, cpFile, cp, rpc, runErr,
                 batchStart, gctxErr, moved>>

\* waitForPodsOffNode sees no non-terminal pod of w on the node.
PodsOffNode(w) ==
  /\ wpc[w] = "vacate"
  /\ ~Cancelled
  /\ ~HasPods(w)
  /\ moved' = moved \cup {<<w, snap[w]>>}
  /\ Advance(w, "save")
  /\ UNCHANGED <<clusterVars, workloads, snap, cpFile, cp, rpc, runErr,
                 batchStart, gctxErr>>

\* rollingRestart returns an error: the patch is refused, the rollout fails or
\* takes too long, the pods stay, or the context has ended.  A patch whose
\* answer is lost may have been applied.  errgroup keeps the first error and
\* cancels the siblings.
RestartFails(w) ==
  /\ ~opts.dryRun
  /\ wpc[w] \in {"patch", "rollout", "vacate"}
  /\ \/ wpc[w] = "patch" /\ ~Cancelled /\ RestartApplied(w)
     \/ UNCHANGED clusterVars
  /\ Advance(w, "failed")
  /\ gctxErr' = TRUE
  /\ UNCHANGED <<workloads, snap, cpFile, cp, rpc, runErr, batchStart,
                 moved>>

\* saveCP, under cpMu: mark w in the shared checkpoint and write it to a
\* temporary file that replaces the old one.  Failing to write is only logged.
SaveCP(w) ==
  /\ wpc[w] = "save"
  /\ cp' = CP!MarkDone(cp, opts.context, w, snap[w])
  /\ cpFile' \in {cp', cpFile}
  /\ Advance(w, "done")
  /\ UNCHANGED <<clusterVars, workloads, snap, rpc, runErr, batchStart,
                 gctxErr, moved>>

Worker(w) ==
  \/ DryRunRestart(w)
  \/ RestartPatched(w)
  \/ RolloutDone(w)
  \/ PodsOffNode(w)
  \/ RestartFails(w)
  \/ SaveCP(w)

RunnerLoop ==
  BeginNothing \/ BeginFresh \/ BeginResumed \/ BeginError \/ LoopEnds \/ StartBatch
    \/ NextBatch \/ FailBatch

RunnerStep ==
  /\ RunnerLoop \/ (\E w \in Workloads : Worker(w))
  /\ UNCHANGED runVars

(***************************************************************************)
(* runWorkloads on its own: called once on a cordoned node, with the       *)
(* discovered workloads in any order.                                      *)
(***************************************************************************)
RecordedIn(file) ==
  {<<w, file.entries[w]>> : w \in {v \in Workloads :
                                     file.entries[v] \notin {NoEntry, LegacyEntry}}}

\* Checkpoints may be about objects and generations before these; 0 is "not set".
liveAtFirst == [w \in Workloads |-> [uid |-> 2, gen |-> 2]]

RunnerInit ==
  /\ unsched = TRUE
  /\ pods = [p \in PodNames |-> "new"]
  /\ spec = liveAtFirst
  /\ opts \in Options
  /\ workloads \in SetToSeqs(Workloads)
  /\ snap = spec
  /\ cpFile \in InitialFiles
  /\ cp = CP!newCheckpoint
  /\ rpc = "begin"
  /\ runErr = FALSE
  /\ batchStart = 0
  /\ wpc = [w \in Workloads |-> "idle"]
  /\ ctxErr = FALSE
  /\ protected = {}
  /\ gctxErr = FALSE
  /\ moved = RecordedIn(cpFile)

RunnerCtxEnds == rpc # "returned" /\ CtxEnds /\ UNCHANGED <<clusterVars, runnerVars>>

allRunnerVars == <<clusterVars, runVars, runnerVars>>

RunnerFinished == rpc = "returned" /\ UNCHANGED allRunnerVars

RunnerNext ==
  \/ RunnerStep
  \/ ClusterStep /\ UNCHANGED <<runVars, runnerVars>>
  \/ RunnerCtxEnds
  \/ RunnerFinished

RunnerSpec == RunnerInit /\ [][RunnerNext]_allRunnerVars

(***************************************************************************)
(* Goroutines run.  Every wait of a goroutine ends by itself: the rollout  *)
(* wait with --rollout-timeout, the pod wait with --pod-vacate-timeout, so *)
(* nothing is assumed about the cluster.                                   *)
(***************************************************************************)
RunnerFairSpec ==
  /\ RunnerSpec
  /\ WF_allRunnerVars(RunnerLoop /\ UNCHANGED runVars)
  /\ \A w \in Workloads : WF_allRunnerVars(Worker(w) /\ UNCHANGED runVars)

--------------------------------------------------------------------------------
RunnerTypeOK ==
  /\ ClusterTypeOK
  /\ RunTypeOK
  /\ workloads \in Seq(Workloads)
  /\ snap \in [Workloads -> Identity]
  /\ rpc \in {"idle", "begin", "loop", "batch", "returned"}
  /\ runErr \in BOOLEAN
  /\ batchStart \in Nat
  /\ wpc \in [Workloads -> WorkerPoints]
  /\ gctxErr \in BOOLEAN
  /\ {cp, cpFile} \subseteq CheckpointFiles

\* A workload's restart begins only after every workload of the earlier batches
\* has been restarted, moved off the node and saved; behind the current batch
\* nothing has begun.
BatchBarrier ==
  \A i \in DOMAIN workloads :
    /\ i <= batchStart => wpc[workloads[i]] = "done"
    /\ i > batchStart + BatchSize => wpc[workloads[i]] = "idle"

\* At most --max-concurrency restarts are under way at a time.
ConcurrencyLimit ==
  opts.maxC > 0 => Cardinality({w \in Workloads : wpc[w] \in Running}) <= opts.maxC

\* runWorkloads never returns while one of its goroutines is still patching,
\* waiting or saving: what follows it (eviction, or uncordon after a failure)
\* does not overlap with a restart.
QuietAfterReturn ==
  rpc = "returned" => \A w \in Workloads : wpc[w] \notin Running

\* runWorkloads returns nil only if every workload it was to restart has been.
SuccessMeansAllDone ==
  rpc = "returned" /\ ~runErr =>
    \A i \in DOMAIN workloads : wpc[workloads[i]] = "done"

\* A later priority level is not begun before the earlier ones are done.
TiersInOrder ==
  \A i, j \in DOMAIN workloads :
    /\ Priority[workloads[i]] < Priority[workloads[j]]
    /\ wpc[workloads[j]] # "idle"
    => wpc[workloads[i]] = "done"

\* With --max-concurrency=1 the priority annotation is a strict order.  README.md:463
\* claims it of any concurrency; TiersNeverReversed is what holds then.
SequentialPriorityOrder == opts.maxC = 1 => TiersInOrder

\* The checkpoint file never claims a workload (as discovered) that was not
\* rolled out and seen off the node.
CheckpointSound ==
  \A w \in Workloads :
    cpFile.entries[w] \notin {NoEntry, LegacyEntry}
      => <<w, cpFile.entries[w]>> \in moved

\* Saving one workload never loses another one's entry, although the goroutines
\* of a batch share the checkpoint and save in any order.
CheckpointNeverForgets ==
  [][\A w \in Workloads :
       /\ cpFile.entries[w] # NoEntry
       /\ opts.resume \/ wpc[w] = "done"
       => cpFile'.entries[w] # NoEntry]_allRunnerVars

\* runWorkloads returns, whatever the cluster does and however many goroutines
\* fail.
RunnerReturns == <>(rpc = "returned")

(***************************************************************************)
(* Each goroutine implements RolloutPromise, which Rollout.tla shows of    *)
(* the waits it stands for; a dry run leaves the workload alone.           *)
(***************************************************************************)
restartOf(w) ==
  IF opts.dryRun \/ wpc[w] \in {"idle", "patch"} THEN "none"
  ELSE IF wpc[w] = "rollout" THEN "waiting"
  ELSE IF wpc[w] = "failed" THEN "failed" ELSE "done"

Promise(w) ==
  INSTANCE RolloutPromise WITH restart <- restartOf(w), outdated <- (pods[w] = "old")

\* In every step, whatever its siblings do, the restart of each workload is one
\* restart, over only when no pod from before it runs on the node.
WorkersKeepPromise ==
  /\ \A w \in Workloads : Promise(w)!Init
  /\ [][\A w \in Workloads : [Promise(w)!Next]_(Promise(w)!vars)]_allRunnerVars
================================================================================
