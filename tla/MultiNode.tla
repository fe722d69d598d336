------------------------------- MODULE MultiNode -------------------------------
(***************************************************************************)
(* RunResolved (internal/drainapp/app.go): the nodes named on the command  *)
(* line are drained in batches of --node-concurrency, and the drains of    *)
(* one invocation share a WorkloadCoordinator.  A call of Do is made by    *)
(* one drain for one workload, so Callers is Nodes \X Keys.                *)
(*                                                                         *)
(* One drain is as much of NodeDrain and WorkloadRunner as meets the other *)
(* drains: discovery, the cordon, batches of workloads, each restarted     *)
(* through the coordinator and then seen off the node, the eviction of     *)
(* the rest, and the uncordon of a drain that fails.  What is added is     *)
(* that a workload has pods on several nodes and the nodes not cordoned    *)
(* yet receive new ones.                                                   *)
(***************************************************************************)
EXTENDS Coordinator, Naturals, Sequences, FiniteSets

CONSTANTS
  NodeList,             \* the nodes of the command line, in order
  NodeConcurrencies,    \* values of --node-concurrency to consider
  MaxConcurrencies,     \* values of --max-concurrency to consider
  UncordonChoices,      \* values of --uncordon-on-failure to consider
  MayRun                \* bound: the <<node, workload>> the scheduler considers

Nodes == {NodeList[i] : i \in DOMAIN NodeList}

ASSUME MultiNodeAssumption ==
  /\ Callers = Nodes \X Keys
  /\ KeyOf = [c \in Callers |-> c[2]]
  /\ NodeConcurrencies \subseteq Nat /\ MaxConcurrencies \subseteq Nat
  /\ MayRun \subseteq Nodes \X Keys
  /\ NodeList \in Seq(Nodes)
  /\ \A i, j \in DOMAIN NodeList : NodeList[i] = NodeList[j] => i = j

VARIABLES
  nodeConcurrency, maxConcurrency, uncordonOnFailure,
  batchStart,       \* nodes drained in earlier batches
  result,           \* what RunResolved returns
  phase,            \* [Nodes -> where the node's drain is]
  left,             \* [Nodes -> workloads still to restart]
  batch,            \* [Nodes -> workloads of the drain's current batch]
  vacated,          \* [Callers -> outcome of the wait for the pods to leave]
  nodeCtxErr,       \* nodes whose drain's context has ended
  cordoned,         \* nodes that accept no new pods
  newPods, oldPods, \* <<node, workload>> with pods of the current or an earlier revision
  found             \* history: what each drain discovered

options == <<nodeConcurrency, maxConcurrency, uncordonOnFailure>>
podVars == <<newPods, oldPods>>
drainVars == <<phase, left, batch, vacated, nodeCtxErr, cordoned, found>>
multiVars == <<coordVars, options, batchStart, result, drainVars, podVars>>

Underway == {"discover", "cordon", "restart", "evict"}
Active == {n \in Nodes : phase[n] \in Underway}
OnNode(n) == {w \in Keys : <<n, w>> \in newPods \cup oldPods}

(***************************************************************************)
(* The cluster.                                                            *)
(***************************************************************************)
ClusterOnly == UNCHANGED <<coordVars, options, batchStart, result, drainVars>>

\* A new pod is bound to a node that is not cordoned.  A node whose drain has
\* failed is not followed any further.
PodScheduled(n, w) ==
  /\ result = "none" /\ phase[n] # "failed" /\ <<n, w>> \in MayRun
  /\ n \notin cordoned /\ newPods' = newPods \cup {<<n, w>>}
  /\ newPods' # newPods
  /\ ClusterOnly /\ UNCHANGED oldPods

\* The last outdated pod of w leaves n; its replacement runs on a node that is
\* not drained or arrives by PodScheduled.
PodReplaced(n, w) ==
  /\ result = "none" /\ <<n, w>> \in oldPods
  /\ oldPods' = oldPods \ {<<n, w>>}
  /\ ClusterOnly /\ UNCHANGED newPods

\* A restart patch outdates all pods of the workload, wherever they run.
PatchTakesEffect(c) ==
  LET outdated == {p \in newPods : c \in patchedBy' \ patchedBy /\ p[2] = KeyOf[c]}
  IN /\ newPods' = newPods \ outdated
     /\ oldPods' = oldPods \cup outdated

(***************************************************************************)
(* One drain's workloads.                                                  *)
(***************************************************************************)
Started(c) == c[2] \in batch[c[1]]
Errored(c) == vacated[c] = "err" \/ (pc[c] = "returned" /\ ret[c] = "err")
Settled(c) == vacated[c] # "none" \/ Errored(c)
Calls(n) == {<<n, w>> : w \in batch[n]}

\* A step of Do.  The rollout wait succeeds only when no outdated pod is left.
Coordinated(c) ==
  /\ Started(c) /\ Do(c)
  /\ PatchTakesEffect(c)
  /\ restartedBy' # restartedBy => \A n \in Nodes : <<n, KeyOf[c]>> \notin oldPods
  /\ UNCHANGED <<options, batchStart, result, drainVars>>

\* The context of a drain, or of the batch of its workloads, ends.
Cancelled(c) ==
  /\ Started(c)
  /\ c[1] \in nodeCtxErr \/ \E d \in Calls(c[1]) : Errored(d)
  /\ CancelCtx(c)
  /\ UNCHANGED <<options, batchStart, result, drainVars, podVars>>

Vacating(c) == Started(c) /\ pc[c] = "returned" /\ ret[c] = "ok" /\ vacated[c] = "none"

VacateReturns(c, r) ==
  /\ vacated' = [vacated EXCEPT ![c] = r]
  /\ UNCHANGED <<coordVars, options, batchStart, result, phase, left, batch,
                 nodeCtxErr, cordoned, found, podVars>>

\* Mutant of PodsOffNode: only the drain that restarted the workload waits.
RestarterPodsOffNode(c) ==
  /\ Vacating(c) /\ ~ctxErr[c]
  /\ c \in restartedBy => c[2] \notin OnNode(c[1])
  /\ VacateReturns(c, "ok")

\* waitForPodsOffNode, whoever restarted the workload.
PodsOffNode(c) ==
  /\ Vacating(c) /\ ~ctxErr[c]
  /\ c[2] \notin OnNode(c[1])
  /\ VacateReturns(c, "ok")

\* --pod-vacate-timeout, an API error or the end of the context.
VacateFails(c) == Vacating(c) /\ VacateReturns(c, "err")

(***************************************************************************)
(* One drain.                                                              *)
(***************************************************************************)
DrainStep(n) ==
  UNCHANGED <<coordVars, options, batchStart, result, vacated, nodeCtxErr>>

\* The error returned ends the drain; the deferred uncordon undoes its cordon.
FailDrain(n, wasCordoned) ==
  /\ phase' = [phase EXCEPT ![n] = "failed"]
  /\ cordoned' = IF wasCordoned /\ uncordonOnFailure THEN cordoned \ {n} ELSE cordoned
  /\ UNCHANGED <<left, batch, found, podVars>>

\* Discovery: the workloads with pods on the node now.
Discover(n) ==
  /\ phase[n] = "discover"
  /\ found' = [found EXCEPT ![n] = OnNode(n)]
  /\ left' = [left EXCEPT ![n] = OnNode(n)]
  /\ phase' = [phase EXCEPT ![n] = "cordon"]
  /\ DrainStep(n) /\ UNCHANGED <<batch, cordoned, podVars>>

CordonNode(n) ==
  /\ phase[n] = "cordon"
  /\ cordoned' = cordoned \cup {n}
  /\ phase' = [phase EXCEPT ![n] = "restart"]
  /\ DrainStep(n) /\ UNCHANGED <<left, batch, found, podVars>>

\* Validation, discovery, pre-flight or the cordon fails.
RefuseNode(n) ==
  /\ phase[n] \in {"discover", "cordon"}
  /\ FailDrain(n, FALSE) /\ DrainStep(n)

Least(a, b) == IF a <= b THEN a ELSE b
BatchSize(n) ==
  IF maxConcurrency = 0 THEN Cardinality(left[n])
  ELSE Least(maxConcurrency, Cardinality(left[n]))

\* The next batch, by a priority that is not modelled here.
StartBatch(n) ==
  /\ phase[n] = "restart" /\ batch[n] = {} /\ left[n] # {}
  /\ \E B \in SUBSET left[n] :
       Cardinality(B) = BatchSize(n) /\ batch' = [batch EXCEPT ![n] = B]
  /\ DrainStep(n) /\ UNCHANGED <<phase, left, cordoned, found, podVars>>

\* Mutant of BatchSettled: the errgroup is not waited for after an error.
BatchSettledOrFailed(n) ==
  \/ \A c \in Calls(n) : Settled(c)
  \/ \E c \in Calls(n) : Errored(c)

BatchSettled(n) == \A c \in Calls(n) : Settled(c)

\* g.Wait() and what follows it.
EndBatch(n) ==
  /\ phase[n] = "restart" /\ batch[n] # {} /\ BatchSettled(n)
  /\ IF \E c \in Calls(n) : Errored(c) THEN FailDrain(n, TRUE)
     ELSE /\ left' = [left EXCEPT ![n] = @ \ batch[n]]
          /\ batch' = [batch EXCEPT ![n] = {}]
          /\ UNCHANGED <<phase, cordoned, found, podVars>>
  /\ DrainStep(n)

AllRestarted(n) ==
  /\ phase[n] = "restart" /\ left[n] = {}
  /\ phase' = [phase EXCEPT ![n] = "evict"]
  /\ DrainStep(n) /\ UNCHANGED <<left, batch, cordoned, found, podVars>>

\* evictRemaining succeeds: nothing is left on the node (see EvictRemaining).
EvictOk(n) ==
  /\ phase[n] = "evict" /\ n \notin nodeCtxErr
  /\ newPods' = {p \in newPods : p[1] # n}
  /\ oldPods' = {p \in oldPods : p[1] # n}
  /\ phase' = [phase EXCEPT ![n] = "ok"]
  /\ DrainStep(n) /\ UNCHANGED <<left, batch, cordoned, found>>

EvictFails(n) == phase[n] = "evict" /\ FailDrain(n, TRUE) /\ DrainStep(n)

Drain(n) ==
  \/ Discover(n) \/ CordonNode(n) \/ RefuseNode(n)
  \/ StartBatch(n) \/ EndBatch(n) \/ AllRestarted(n)
  \/ EvictOk(n) \/ EvictFails(n)

(***************************************************************************)
(* RunResolved.                                                            *)
(***************************************************************************)
\* Mutant of NodeBatchSize: 0 is not replaced by the number of nodes.
NodeBatchSizeRaw == nodeConcurrency

NodeBatchSize == IF nodeConcurrency = 0 THEN Len(NodeList) ELSE nodeConcurrency

NodeBatch ==
  {NodeList[i] : i \in batchStart + 1 .. Least(batchStart + NodeBatchSize, Len(NodeList))}

StartDrain(n) ==
  /\ result = "none" /\ n \in NodeBatch /\ phase[n] = "queued"
  /\ phase' = [phase EXCEPT ![n] = "discover"]
  /\ UNCHANGED <<coordVars, options, batchStart, result, left, batch, vacated,
                 nodeCtxErr, cordoned, found, podVars>>

\* --timeout, or another drain of the batch has failed.  Before the restarts this
\* is a RefuseNode, after them an EvictFails.
NodeCtxEnds(n) ==
  /\ phase[n] = "restart" /\ n \notin nodeCtxErr
  /\ nodeCtxErr' = nodeCtxErr \cup {n}
  /\ UNCHANGED <<coordVars, options, batchStart, result, phase, left, batch, vacated,
                 cordoned, found, podVars>>

\* Mutant of NodeBatchReturned: a drain that has not begun counts as returned.
NodeBatchIdle == \A n \in NodeBatch : phase[n] \notin Underway

NodeBatchReturned == \A n \in NodeBatch : phase[n] \in {"ok", "failed"}

\* Mutant of NodeBatchFailed: only the last drain's error is returned.
LastDrainFailed ==
  phase[NodeList[Least(batchStart + NodeBatchSize, Len(NodeList))]] = "failed"
NodeBatchFailed == \E n \in NodeBatch : phase[n] = "failed"

\* g.Wait(): the first error is returned; the next batch follows.
NodeBatchEnds ==
  /\ result = "none" /\ batchStart < Len(NodeList) /\ NodeBatchReturned
  /\ IF NodeBatchFailed
     THEN result' = "err" /\ UNCHANGED batchStart
     ELSE batchStart' = batchStart + NodeBatchSize /\ UNCHANGED result
  /\ UNCHANGED <<coordVars, options, drainVars, podVars>>

AllBatchesDone ==
  /\ result = "none" /\ batchStart >= Len(NodeList)
  /\ result' = "ok"
  /\ UNCHANGED <<coordVars, options, batchStart, drainVars, podVars>>

(***************************************************************************)
(* The specification.                                                      *)
(***************************************************************************)
MultiInit ==
  /\ CoordInit
  /\ nodeConcurrency \in NodeConcurrencies /\ maxConcurrency \in MaxConcurrencies
  /\ uncordonOnFailure \in UncordonChoices
  /\ batchStart = 0 /\ result = "none"
  /\ phase = [n \in Nodes |-> "queued"]
  /\ left = [n \in Nodes |-> {}] /\ batch = [n \in Nodes |-> {}]
  /\ found = [n \in Nodes |-> {}]
  /\ vacated = [c \in Callers |-> "none"]
  /\ nodeCtxErr = {} /\ cordoned = {}
  /\ newPods = MayRun /\ oldPods = {}

CallerStep(c) == Coordinated(c) \/ PodsOffNode(c) \/ VacateFails(c)
RunResolved == NodeBatchEnds \/ AllBatchesDone \/ \E n \in Nodes : StartDrain(n)

MultiNext ==
  \/ \E c \in Callers : CallerStep(c) \/ Cancelled(c)
  \/ \E n \in Nodes : Drain(n) \/ NodeCtxEnds(n)
  \/ RunResolved
  \/ \E n \in Nodes, w \in Keys : PodScheduled(n, w) \/ PodReplaced(n, w)

MultiSpec == MultiInit /\ [][MultiNext]_multiVars

\* Goroutines are scheduled and every wait ends, at the latest by its timeout.
MultiFairSpec ==
  /\ MultiSpec
  /\ \A c \in Callers : WF_multiVars(CallerStep(c))
  /\ \A n \in Nodes : WF_multiVars(Drain(n))
  /\ WF_multiVars(RunResolved)

(***************************************************************************)
(* Properties.                                                             *)
(***************************************************************************)
\* Type invariant; a drain's batch is among what it has left, and that among
\* what it found.
MultiTypeOK ==
  /\ CoordTypeOK
  /\ batchStart \in Nat /\ result \in {"none", "ok", "err"}
  /\ phase \in [Nodes -> Underway \cup {"queued", "ok", "failed"}]
  /\ found \in [Nodes -> SUBSET Keys]
  /\ \A n \in Nodes : batch[n] \subseteq left[n] /\ left[n] \subseteq found[n]
  /\ vacated \in [Callers -> {"none", "ok", "err"}]
  /\ nodeCtxErr \subseteq Nodes /\ cordoned \subseteq Nodes
  /\ newPods \subseteq Nodes \X Keys /\ oldPods \subseteq Nodes \X Keys

\* When RunResolved returns nil, every node named is cordoned and empty, although
\* pods moved between the nodes while they were drained (app.go:159-184).
AllNodesEmptied ==
  result = "ok" => Nodes \subseteq cordoned /\ newPods = {} /\ oldPods = {}

\* A drain begins only when every drain of the earlier batches has succeeded
\* (app.go:168-182).
NodeBatchBarrier ==
  \A i \in DOMAIN NodeList :
    /\ i <= batchStart => phase[NodeList[i]] = "ok"
    /\ i > batchStart + NodeBatchSize => phase[NodeList[i]] = "queued"

\* When RunResolved returns, no drain and no call into the coordinator that it
\* started is still at work, so that nobody patches or holds a lock any more.
NothingLeftRunning ==
  result # "none" =>
    /\ Active = {}
    /\ \A c \in Callers : pc[c] \in {"lockFor", "returned"}

\* No pod of a workload the drain discovered meets the eviction API: by then the
\* workload has left the node, whichever drain restarted it, and its new pods
\* cannot come back (drain.go:105-106).
SharedWorkloadsLeft ==
  \A n \in Nodes : phase[n] = "evict" => found[n] \cap OnNode(n) = {}

\* When RunResolved returns nil, each workload some drain discovered has been
\* restarted exactly once, on however many of the nodes it was found.
EachRestartedOnce ==
  result = "ok" =>
    \A n \in Nodes : \A w \in found[n] :
      \E c \in Callers : {d \in restartedBy : KeyOf[d] = w} = {c}

\* RunResolved returns, whatever the cluster does.
MultiReturns == <>(result # "none")

(***************************************************************************)
(* The drain of each node implements DrainPromise, as the detailed one of  *)
(* NodeDrain does.                                                         *)
(***************************************************************************)
stageOf(n) ==
  IF phase[n] \in {"queued", "discover"} THEN "idle"
  ELSE IF phase[n] = "cordon" THEN "looking"
  ELSE IF phase[n] = "restart" THEN "restarting"
  ELSE IF phase[n] = "evict" THEN "evicting" ELSE phase[n]

foundOf(n) == IF stageOf(n) \in {"idle", "failed"} THEN {} ELSE found[n]
leftOf(n) == IF stageOf(n) \in {"idle", "failed"} THEN {} ELSE left[n]
keptOf(n) == stageOf(n) \in {"restarting", "evicting", "ok"} /\ n \in cordoned

DrainOf(n) == INSTANCE DrainPromise WITH
  Workloads <- Keys, stage <- stageOf(n), found <- foundOf(n), left <- leftOf(n),
  here <- OnNode(n), kept <- keptOf(n), record <- {}

\* In every step, whatever the other drains do to the workloads they share.
DrainsKeepPromise ==
  /\ \A n \in Nodes : DrainOf(n)!Init
  /\ [][\A n \in Nodes : [DrainOf(n)!Next]_(DrainOf(n)!vars)]_multiVars

================================================================================
