------------------------------- MODULE NodeDrain -------------------------------
(***************************************************************************)
(* Drainer.Run (pkg/drain/drain.go, drain_phases.go, node.go): the drain   *)
(* of one node from validation to the final result, and the next one after *)
(* it failed, was killed or succeeded.  It composes the batches of         *)
(* WorkloadRunner and the last phase, EvictRemaining, over one cluster.    *)
(*                                                                         *)
(* A session is one execution of "kubectl safed drain <node>".  A killed   *)
(* session (the program handles no signal) leaves the cluster and the      *)
(* checkpoint file as they are and nothing else.                           *)
(***************************************************************************)
EXTENDS WorkloadRunner, EvictRemaining

CONSTANTS
  MaxSessions,      \* bound on the number of sessions
  MaxOperatorActs,  \* bound on kubectl cordon and uncordon by somebody else
  OperatorMayRace,  \* whether that may happen while a session runs
  InitialNodePods   \* pods on the node before the first session

\* No workload's pods are a DaemonSet's.
ASSUME NodeDrainAssumption ==
  /\ Options # {} /\ MaxSessions \in Nat
  /\ InitialNodePods \subseteq [PodNames -> PodCondition]
  /\ \A w \in Workloads : "DaemonSet" \notin Owners[w]

VARIABLES
  phase,            \* where Run is
  result,           \* what it returned: nil, an error, or killed
  snapUnsched,      \* node.Spec.Unschedulable as validateNode read it
  cordonedByUs,     \* what beginCordonedDrain returned
  session,          \* history: number of the session
  cordoner,         \* history: session that made the node unschedulable,
                    \*   0 if somebody else did or nobody
  discovered,       \* history: workloads discovery found
  touched,          \* history: the session has changed the cluster
  refused,          \* history: strict pre-flight checks found a risk
  lostPatch,        \* history: the answer to a node patch was an error
  stayed,           \* history: node unschedulable since runWorkloads began
  operatorActs      \* history: cordon and uncordon by somebody else

phaseVars == <<phase, result, snapUnsched, cordonedByUs>>
sessionHistory == <<discovered, touched, refused, lostPatch, stayed>>
drainVars == <<phaseVars, session, cordoner, sessionHistory, operatorActs>>

nodeDrainVars ==
  <<clusterVars, runVars, runnerVars, elsewhere, evictVars, drainVars>>

\* A session is under way at these points of Run.
Active == {"validate", "discover", "prepare", "cordon", "workloads", "evict",
           "cleanup", "deferred"}

Exit(r) == phase' = "exited" /\ result' = r

\* What a phase before the cordon leaves alone.
BeforeCordonFrame ==
  UNCHANGED <<clusterVars, cpFile, cp, rpc, runErr, batchStart, wpc, gctxErr,
              moved, elsewhere, evictVars, opts, ctxErr, cordonedByUs, session,
              cordoner, touched, lostPatch, stayed, operatorActs>>

(***************************************************************************)
(* A session begins: NewDrainer, Run.                                      *)
(***************************************************************************)
StartSession ==
  /\ phase \in {"idle", "exited"}
  /\ session < MaxSessions
  /\ session' = session + 1
  /\ opts' \in Options
  /\ ctxErr' = FALSE
  /\ protected' = {}
  /\ phase' = "validate"
  /\ result' = "none"
  /\ cordonedByUs' = FALSE
  /\ workloads' = <<>>
  /\ rpc' = "idle" /\ epc' = "idle"
  /\ runErr' = FALSE /\ evictErr' = FALSE
  /\ wpc' = [w \in Workloads |-> "idle"]
  /\ batchStart' = 0 /\ gctxErr' = FALSE /\ cp' = CP!newCheckpoint
  /\ todo' = {} /\ seen' = {} /\ current' = NoPod /\ interval' = 0
  /\ evicted' = {} /\ discovered' = {}
  /\ touched' = FALSE /\ refused' = FALSE /\ lostPatch' = FALSE /\ stayed' = FALSE
  /\ snapUnsched' = FALSE
  /\ snap' = [w \in Workloads |-> [uid |-> 0, gen |-> 0]]
  /\ UNCHANGED <<clusterVars, cpFile, moved, elsewhere, cordoner, operatorActs>>

(***************************************************************************)
(* Before the cordon: nothing but reads.                                   *)
(***************************************************************************)
\* validateNode: Get the node; what it says is used again by cordon.
ValidateNode ==
  /\ phase = "validate"
  /\ ~ctxErr
  /\ snapUnsched' = unsched
  /\ phase' = "discover"
  /\ UNCHANGED <<result, workloads, snap, protected, discovered, refused>>
  /\ BeforeCordonFrame

\* discoverWorkloads: the workloads with non-terminal pods on the node, in the
\* order the pods are listed, with their identity at this moment.
DiscoverWorkloads ==
  /\ phase = "discover"
  /\ ~ctxErr
  /\ LET found == {w \in Workloads : HasPods(w)}
     IN  /\ workloads' \in SetToSeqs(found)
         /\ discovered' = found
  /\ snap' = spec
  /\ phase' = "prepare"
  /\ UNCHANGED <<result, snapUnsched, protected, refused>>
  /\ BeforeCordonFrame

\* --skip-workload, or not in a --only-workload list.
filtered(w) == w \in opts.skip \/ (opts.only # {} /\ w \notin opts.only)

\* With --resume, the checkpoint can be loaded and is this node's.
checkpointUsable ==
  opts.resume => cpFile.readable /\ CP!validateCheckpoint(cpFile, opts.context)

\* prepareBeforeCordon: filter, pre-flight checks of what is left (they abort in
\* strict mode only), a look at the checkpoint.
PrepareBeforeCordon ==
  /\ phase = "prepare"
  /\ workloads' \in InOrder(workloads, {i \in DOMAIN workloads : ~filtered(workloads[i])})
  /\ protected' = {w \in discovered : filtered(w)}
  /\ \E risk \in BOOLEAN :
       refused' = (opts.strict /\ risk /\ workloads' # <<>>)
  /\ IF refused' \/ ~checkpointUsable
       THEN Exit("err")
       ELSE phase' = "cordon" /\ UNCHANGED result
  /\ UNCHANGED <<snapUnsched, snap, discovered>>
  /\ BeforeCordonFrame

\* The API server fails a read once too often, or the context has ended.
ReadFails ==
  /\ phase \in {"validate", "discover"}
  /\ Exit("err")
  /\ UNCHANGED <<snapUnsched, workloads, snap, protected, discovered, refused>>
  /\ BeforeCordonFrame

(***************************************************************************)
(* beginCordonedDrain.                                                     *)
(***************************************************************************)
BeginWorkloads ==
  /\ phase' = "workloads"
  /\ rpc' = "begin"
  /\ stayed' = unsched'

\* What beginning, failing and ending a session leave alone.
RunFrame ==
  UNCHANGED <<runVars, workloads, snap, cp, runErr, batchStart, wpc, gctxErr,
              moved, elsewhere, evictErr, todo, current, interval, seen, evicted,
              snapUnsched, session, discovered, refused, operatorActs>>

\* Mutant of needsCordon: the node as it was read does not matter.
alwaysCordons == ~opts.dryRun

\* Cordon unless the node was unschedulable when validateNode read it.
needsCordon == ~snapUnsched /\ ~opts.dryRun

CordonSkipped ==
  /\ phase = "cordon"
  /\ ~needsCordon
  /\ UNCHANGED <<clusterVars, cpFile, epc, result, cordonedByUs, cordoner, touched,
                 lostPatch>>
  /\ BeginWorkloads
  /\ RunFrame

\* The patch is idempotent: it succeeds on a node somebody has cordoned meanwhile.
Cordon ==
  /\ phase = "cordon"
  /\ needsCordon
  /\ ~ctxErr
  /\ NodePatched(TRUE)
  /\ cordonedByUs' = TRUE
  /\ cordoner' = IF unsched THEN cordoner ELSE session
  /\ touched' = TRUE
  /\ BeginWorkloads
  /\ UNCHANGED <<cpFile, epc, result, lostPatch>>
  /\ RunFrame

\* The patch returns an error, and nothing is scheduled to undo it, whether it
\* was applied or not.
CordonFails ==
  /\ phase = "cordon"
  /\ needsCordon
  /\ \/ UNCHANGED <<clusterVars, cordoner, touched, lostPatch>>
     \/ /\ ~ctxErr
        /\ NodePatched(TRUE)
        /\ cordoner' = IF unsched THEN cordoner ELSE session
        /\ touched' = TRUE
        /\ lostPatch' = TRUE
  /\ Exit("err")
  /\ UNCHANGED <<cpFile, rpc, epc, cordonedByUs, stayed>>
  /\ RunFrame

(***************************************************************************)
(* runWorkloads and evictRemaining, and what Run does with their results.  *)
(***************************************************************************)
RunWorkloads ==
  /\ phase = "workloads"
  /\ RunnerStep
  /\ touched' = (touched \/ spec' # spec)
  /\ UNCHANGED <<elsewhere, evictVars, phaseVars, session, cordoner, discovered,
                 refused, lostPatch, stayed, operatorActs>>

WorkloadsReturned ==
  /\ phase = "workloads"
  /\ rpc = "returned"
  /\ IF runErr
       THEN phase' = "deferred" /\ UNCHANGED epc
       ELSE phase' = "evict" /\ epc' = "list"
  /\ UNCHANGED <<clusterVars, cpFile, rpc, result, cordonedByUs, cordoner, touched,
                 lostPatch, stayed>>
  /\ RunFrame

Evict ==
  /\ phase = "evict"
  /\ EvictStep
  /\ touched' = (touched \/ evicted' # evicted)
  /\ UNCHANGED <<runnerVars, phaseVars, session, cordoner, discovered, refused,
                 lostPatch, stayed, operatorActs>>

EvictReturned ==
  /\ phase = "evict"
  /\ epc = "returned"
  /\ phase' = IF evictErr THEN "deferred" ELSE "cleanup"
  /\ UNCHANGED <<clusterVars, cpFile, rpc, epc, result, cordonedByUs, cordoner,
                 touched, lostPatch, stayed>>
  /\ RunFrame

\* The drain has succeeded: remove the checkpoint.  Failing to is only logged.
Cleanup ==
  /\ phase = "cleanup"
  /\ cpFile' \in IF opts.dryRun THEN {cpFile} ELSE {CP!newCheckpoint, cpFile}
  /\ Exit("ok")
  /\ UNCHANGED <<clusterVars, rpc, epc, cordonedByUs, cordoner, touched,
                 lostPatch, stayed>>
  /\ RunFrame

\* Mutant of undoesCordon: the flag is not looked at when workloads failed.
undoesCordonOnlyAfterEvict == cordonedByUs /\ opts.uncordon /\ ~runErr

undoesCordon == cordonedByUs /\ opts.uncordon

\* The deferred functions of Run, on every error after the cordon: with
\* --uncordon-on-failure undo the session's own cordon.  The patch has a context
\* of its own and may fail, or its answer may be lost.
DeferredOnError ==
  /\ phase = "deferred"
  /\ IF undoesCordon
       THEN \/ /\ NodePatched(FALSE)
               /\ cordoner' = 0
               /\ lostPatch' \in BOOLEAN
            \/ lostPatch' = TRUE /\ UNCHANGED <<clusterVars, cordoner>>
       ELSE UNCHANGED <<clusterVars, cordoner, lostPatch>>
  /\ stayed' = (stayed /\ unsched')
  /\ Exit("err")
  /\ UNCHANGED <<cpFile, rpc, epc, cordonedByUs, touched>>
  /\ RunFrame

(***************************************************************************)
(* Timeout, death, and everybody else.                                     *)
(***************************************************************************)
TimeoutExpires ==
  /\ phase \in Active
  /\ CtxEnds
  /\ UNCHANGED <<clusterVars, runnerVars, elsewhere, evictVars, drainVars>>

\* Ctrl-C or a crash: the goroutines and all memory are gone, no deferred
\* function runs.
Killed ==
  /\ phase \in Active
  /\ Exit("killed")
  /\ rpc' = "idle" /\ epc' = "idle"
  /\ wpc' = [w \in Workloads |-> "idle"]
  /\ cp' = CP!newCheckpoint
  /\ workloads' = <<>>
  /\ todo' = {} /\ seen' = {} /\ current' = NoPod
  /\ UNCHANGED <<clusterVars, runVars, snap, cpFile, runErr, batchStart, gctxErr,
                 moved, elsewhere, evictErr, interval, evicted, snapUnsched,
                 cordonedByUs, session, cordoner, sessionHistory, operatorActs>>

\* What happens to the cluster after the last session is not followed.
Watched == phase # "exited" \/ session < MaxSessions

\* Somebody runs kubectl cordon or kubectl uncordon.
OperatorActs ==
  /\ Watched
  /\ operatorActs < MaxOperatorActs
  /\ OperatorMayRace \/ phase \in {"idle", "exited"}
  /\ operatorActs' = operatorActs + 1
  /\ NodePatched(~unsched)
  /\ cordoner' = 0
  /\ stayed' = FALSE
  /\ UNCHANGED <<runVars, runnerVars, elsewhere, evictVars, phaseVars, session,
                 discovered, touched, refused, lostPatch>>

ClusterActs ==
  /\ Watched
  /\ ClusterStep
  /\ UNCHANGED <<runVars, runnerVars, elsewhere, evictVars, drainVars>>

NoMoreSessions ==
  /\ phase = "exited"
  /\ session = MaxSessions
  /\ UNCHANGED nodeDrainVars

DrainStep ==
  \/ StartSession
  \/ ValidateNode \/ DiscoverWorkloads \/ PrepareBeforeCordon \/ ReadFails
  \/ CordonSkipped \/ Cordon \/ CordonFails
  \/ RunWorkloads \/ WorkloadsReturned
  \/ Evict \/ EvictReturned
  \/ Cleanup \/ DeferredOnError

NodeDrainInit ==
  /\ unsched \in BOOLEAN
  /\ pods \in InitialNodePods
  /\ spec = liveAtFirst
  /\ opts \in {CHOOSE o \in Options : TRUE}
  /\ ctxErr = FALSE
  /\ protected = {}
  /\ workloads = <<>>
  /\ snap = [w \in Workloads |-> [uid |-> 0, gen |-> 0]]
  /\ cpFile \in InitialFiles
  /\ cp = CP!newCheckpoint
  /\ rpc = "idle" /\ runErr = FALSE /\ batchStart = 0
  /\ wpc = [w \in Workloads |-> "idle"]
  /\ gctxErr = FALSE
  /\ moved = RecordedIn(cpFile)
  /\ elsewhere = {}
  /\ epc = "idle" /\ evictErr = FALSE
  /\ todo = {} /\ current = NoPod /\ interval = 0 /\ seen = {} /\ evicted = {}
  /\ phase = "idle" /\ result = "none"
  /\ snapUnsched = FALSE /\ cordonedByUs = FALSE
  /\ session = 0 /\ cordoner = 0 /\ operatorActs = 0
  /\ discovered = {} /\ touched = FALSE /\ refused = FALSE
  /\ lostPatch = FALSE /\ stayed = FALSE

NodeDrainNext ==
  DrainStep \/ TimeoutExpires \/ Killed \/ OperatorActs \/ ClusterActs
    \/ NoMoreSessions

NodeDrainSpec == NodeDrainInit /\ [][NodeDrainNext]_nodeDrainVars

--------------------------------------------------------------------------------
NodeDrainTypeOK ==
  /\ RunnerTypeOK
  /\ EvictTypeOK
  /\ phase \in {"idle", "exited"} \cup Active
  /\ result \in {"none", "ok", "err", "killed"}
  /\ session \in 0 .. MaxSessions
  /\ cordoner \in 0 .. session
  /\ discovered \in SUBSET Workloads
  /\ \A b \in {snapUnsched, cordonedByUs, touched, refused, lostPatch, stayed} :
       b \in BOOLEAN

\* A dry run, a session strict pre-flight checks refuse, and a resumed session
\* whose checkpoint is unreadable or belongs to another node, or to another kube
\* context than the one the drain knows it is in, change nothing in the cluster:
\* they do not even cordon the node.  README.md:508 says so of any other context; a
\* drain that knows no context of its own accepts every one.
RefusedMeansUntouched ==
  touched => /\ ~opts.dryRun
             /\ ~refused
             /\ opts.resume => /\ cpFile.readable
                               /\ cpFile.node # "other"
                               /\ cpFile.context = "other" => opts.context = "unset"

\* With --uncordon-on-failure no failed session leaves its own cordon behind,
\* unless a node patch was answered with an error.
FailureUndoesOwnCordon ==
  phase = "exited" /\ result = "err" /\ opts.uncordon /\ ~lostPatch
    => cordoner # session

\* A session makes the node schedulable only if it is the one that made it
\* unschedulable (drain.go: "nodes that were already cordoned before the drain
\* started are left as-is").
OnlyOwnCordonUndone ==
  [][unsched /\ ~unsched' /\ operatorActs' = operatorActs
       => phase = "deferred" /\ cordoner = session]_nodeDrainVars

\* A checkpoint file names the object and generation discovered as w, as far as it
\* names any.
names(file, w) ==
  /\ file.entries[w] \notin {NoEntry, LegacyEntry}
  /\ CP!Agree(file.entries[w].uid, snap[w].uid)
  /\ CP!Agree(file.entries[w].gen, snap[w].gen)

\* The session leaves w to an earlier one: the checkpoint it read names w, or has it
\* without an identity, which is enough when w has no pods.
takenAsDone(w, hasPods) ==
  /\ opts.resume
  /\ \A i \in DOMAIN workloads : workloads[i] # w
  /\ names(cp, w) \/ (cp.entries[w] = LegacyEntry /\ ~hasPods)

\* When a session reports success on a node that stayed unschedulable, no pod is
\* left on the node but those that were not to be moved; and each workload it found
\* and was not to leave alone has been changed since and its restart seen through
\* to the end, unless the checkpoint it resumed from has the workload as done.
SuccessMeansDrained ==
  phase = "cleanup" /\ stayed /\ ~opts.dryRun =>
    /\ \A p \in PodNames : MayRemain(p)
    /\ \A w \in discovered \ protected :
         \/ wpc[w] = "done" /\ spec[w] # snap[w]
         \/ takenAsDone(w, FALSE)

\* While the node stays unschedulable, a workload that discovery found is handed to
\* the eviction API only if the checkpoint names the very object and generation that
\* was discovered, as far as it names them: every other one leaves by a restart.
OnlyTrustedEvicted ==
  phase \in {"evict", "cleanup"} /\ stayed =>
    \A w \in discovered : <<w, TRUE>> \in evicted => takenAsDone(w, TRUE)

\* A discovered workload the flags filter out is neither restarted nor evicted.
FilteredLeftAlone ==
  \A w \in discovered :
    filtered(w) /\ phase \notin {"idle", "validate", "discover", "prepare"}
      => wpc[w] = "idle" /\ <<w, TRUE>> \notin evicted

\* While a workload is being restarted no pod is handed to the eviction API: the
\* two ways of emptying the node never overlap.
PhasesApart ==
  (\E w \in Workloads : wpc[w] \in Running) =>
    phase = "workloads" /\ todo = {} /\ evicted = {}

\* No session sends a workload a second restart patch, whatever became of the first.
NoSecondRestart ==
  [][\A w \in Workloads :
       wpc[w] \notin {"idle", "patch"} /\ session' = session => wpc'[w] # "patch"
     ]_nodeDrainVars

(***************************************************************************)
(* Each session implements DrainPromise; a dry run only looks around.      *)
(***************************************************************************)
stageBar ==
  IF opts.dryRun \/ phase \in {"idle", "validate", "discover", "prepare"} THEN "idle"
  ELSE IF phase = "cordon" THEN "looking"
  ELSE IF phase = "workloads" THEN "restarting"
  ELSE IF phase \in {"evict", "cleanup"} THEN "evicting"
  ELSE IF phase = "exited" /\ result = "ok" THEN "ok" ELSE "failed"

\* What the checkpoint has as done is not the session's to restart.
foundBar ==
  IF stageBar \in {"idle", "failed"} THEN {}
  ELSE {w \in discovered \ protected : ~takenAsDone(w, TRUE)}

\* A workload is struck off when its pods have been seen to leave.
leftBar ==
  IF stageBar \in {"idle", "failed"} THEN {}
  ELSE {w \in Workloads : /\ \E i \in DOMAIN workloads : workloads[i] = w
                          /\ wpc[w] \notin {"save", "done"}}

keptBar == stageBar \in {"restarting", "evicting", "ok"} /\ stayed

\* The entries with an identity that agrees with what was discovered.
recordBar ==
  {w \in Workloads : opts.resume /\ checkpointUsable /\ names(cpFile, w)}

Session == INSTANCE DrainPromise WITH
  stage <- stageBar, found <- foundBar, left <- leftBar, kept <- keptBar,
  record <- recordBar,
  here <- {w \in Workloads : HasPods(w)}

\* Whatever fails and whenever it is killed, a session strikes a workload off only
\* with its pods off the node, leaves out only what the checkpoint has as done, and
\* evicts only when nothing is left to restart.
SessionsKeepPromise == Session!Spec

(***************************************************************************)
(* What the documentation says and the code does not do.                   *)
(***************************************************************************)
\* README.md, Workload filtering: "Filtered managed workloads are left untouched
\* by both rolling restart and conventional eviction."
FilteredUntouched ==
  \A w \in Workloads :
    filtered(w) => <<w, TRUE>> \notin evicted /\ wpc[w] \notin Running

\* README.md: the last phase is there to "evict any remaining pods (DaemonSets, Jobs,
\* standalones)"; a discovered workload leaves by its restart.  An entry the resume
\* filter trusts keeps the workload out of both the restarts and the filtered ones.
DiscoveredAreRolled ==
  stayed => \A w \in discovered : <<w, TRUE>> \notin evicted
================================================================================
