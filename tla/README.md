# A TLA+ model of kubectl-safed

`kubectl safed drain` empties a Kubernetes node without an outage: it cordons the node, restarts every Deployment and StatefulSet with pods on it by a rolling update, waits until their pods have left, and only then evicts what remains. This directory holds a model of that program, the configurations with which TLC checks it, and proofs that TLAPS checks.

Paths are relative to `src/`, the repository.

## 1. The system

### Components

| Component | Code | State it keeps | Operations | Correct when |
|---|---|---|---|---|
| Workload coordinator | `pkg/drain/coordinator.go` | a mutex per workload, the set of restarted workloads | `Do` | a workload shared by several nodes is restarted once; nobody is told it was when it was not; nobody waits for ever |
| Workload runner | `pkg/drain/workload_runner.go`, `rollingRestart` in `rollout.go` | the sorted slice, the batch, its goroutines, the checkpoint in memory | `runWorkloads`, `rollingRestart`, `saveCP` | batches do not overlap, the limit holds, one error stops everything, success means all were restarted |
| Checkpoint | `checkpoint.go`, `checkpoint_resume.go` | one JSON file per node and context | load, validate, `checkpointCanSkip`, `MarkDoneAt`, save, delete | it says only what is true and never loses an entry; a resumed drain skips only what it names as it is, or what has no pods |
| Conventional eviction | `eviction.go` | the listed pods, the retry delay | `evictRemaining`, `evictWithPDBRetry`, `waitForPodsDeleted` | nothing is evicted against the flags; success means an empty node; it ends |
| Drain of one node | `drain.go`, `drain_phases.go`, `node.go`, `workload_filter.go`, `run_state.go` | the phase, the node as first read, whether this run cordoned it, the protected workloads | `Drainer.Run` | refusal changes nothing; failure undoes its own cordon and no other; success means the node is drained |
| Rollout waiters | `rollout.go` | selectors cached between polls | `waitFor…Rollout`, `waitForPodsOffNode` | a rollout is complete only when the new generation is |
| Workload finder | `pkg/workload/workload.go` | caches of one discovery | `FindForNode`, retried by `discoverWorkloads` | every workload with a pod on the node is found once, and no other, whatever changes meanwhile |
| Pre-flight checks | `preflight.go` | the findings of one run | `runPreflight` | strict mode stops before any change if there is a risk and only then; what it does not announce, a restart gets done |
| Several nodes | `internal/drainapp/app.go` `RunResolved` | the batch of nodes, the shared coordinator | batches of drains | as the runner, one level up |
| Options and profiles | `pkg/config`, `ApplyConfig` in `app.go` | the options being made up | load, `ApplyConfig`, `ValidateOptions` | flags over profile over mode over defaults; nothing invalid gets through |
| Command line, client, events, printer, clock | `cmd/`, `pkg/k8s/`, `events.go`, `printer.go`, `clock.go` | none that results depend on | | |

### How they interact

`RunResolved` starts one `Drainer.Run` per node, in batches of `--node-concurrency`, as goroutines under one `errgroup`; they share a coordinator. `Run` calls the phases one after another in its own goroutine. `runWorkloads` starts one goroutine per workload of a batch; each calls `rollingRestart`, which goes through the coordinator, and then saves the checkpoint under a mutex. Everything else is shared through the API server: the node, its pods, the workloads, all of which others change at the same time. The checkpoint file is the only state that survives a process.

### What makes it hard

- *Concurrency*: the goroutines of a batch, and drains of several nodes.
- *Staleness*: the node, the workloads and the pods are each read once and used much later.
- *Failure*: any call may fail, an error may hide a patch that was applied, a goroutine's error cancels its siblings, `--timeout` may pass at any moment, and the process handles no signal, so Ctrl-C ends it anywhere.
- *Resumption*: a later run trusts a file about a cluster that has moved on.

`PROJECT.json` lists these hazards line by line, with the properties that would catch each going wrong or the reason why none does yet.

## 2. The modules

```
Options -------+
Finder --------+-> Prepare --> PrepareProofs
Preflight -----+
    +------------> Rollout --> RolloutProofs

RestartOnce  <-implements-  Coordinator  <-+- CoordinatorProofs <-+
                                           +- MultiNode         <-+- MultiProofs

TargetNode <- DrainRun <-+- WorkloadRunner (uses Checkpoint)     <-+- RunnerProofs <-+
                         +- EvictRemaining (uses EvictionPolicy) <-+- EvictProofs  <-+
                                                                   +- NodeDrain    <-+- NodeDrainProofs <- SessionProofs

RolloutPromise  <-implement-  Rollout, each goroutine of WorkloadRunner
DrainPromise    <-implement-  each session of NodeDrain, each drain of MultiNode
```

In the first group an arrow leads to the module that extends the others; in the next two it leads to the one that is used; the last names the abstract specifications and what implements them. Each `MC…` module gives the constants of one specification their values.

| Module | Models | Correspondence |
|---|---|---|
| `RestartOnce` | what the coordinator promises | no code of its own: which caller is restarting which workload, which workloads have been restarted, the outcome of each call |
| `RolloutPromise` | what the restart of one workload promises | no code of its own: the restart has not begun, is waited for, is done or has failed, and whether pods from before it are left |
| `DrainPromise` | what the drain of one node promises | no code of its own: its stage, the workloads it is to restart, those not yet struck off, those with pods on the node, whether the node has been kept free of new pods, and what the record of earlier drains has as done |
| `Coordinator` | `WorkloadCoordinator.Do` | `holder` is each key's `sync.Mutex`, `done` is `c.done`, `pc` the line a call is at. The sections under `c.mu` are single steps. `fn` is two steps, the patch and the end of the rollout wait |
| `TargetNode` | the node, its pods, the workloads' uid and generation | kept by the API server; external. The pods of one workload on the node are one unit, *new*, *old* (outdated by a restart), *terminating*, *terminal* or absent |
| `DrainRun` | what a Drainer's phases share | `d.opts`, the state of the context, `state.protectedWorkloads` |
| `Checkpoint` | the file's contents and the functions on it | node and context it was written for, either possibly unset; entry per workload: none, legacy (no identity), or the recorded uid and generation, where 0 is one not recorded and agrees with any, as the empty string and 0 do in `checkpointCanSkip`. The drain's own context may be unset too, and `validateCheckpoint` then accepts any |
| `WorkloadRunner` | `runWorkloads`, `rollingRestart`, `saveCP` | `workloads`, `batchStart`, `cp` are the code's variables, `wpc` the position of each goroutine, `gctxErr` the batch's context. One action per step of a goroutine: `RestartPatched`, `RolloutDone`, `PodsOffNode`, `SaveCP`, `RestartFails` |
| `EvictionPolicy` | `blockedEvictionPods`, `filterEvictable`, `podsPendingDeletion` | one predicate on a pod and the flags per function |
| `EvictRemaining` | `evictRemaining`, the retry loop, the final wait | `todo` is the rest of the loop's slice, `current` and `interval` the variables of `evictWithPDBRetry`, `seen` the map of `waitForPodsDeleted` |
| `Options` | flag defaults, `ApplyConfig`, `ApplyProfileValues`, `ValidateOptions`, loading of the config file | a layer is a record of the options it sets, as `config.Profile` with its pointer fields; `ApplyConfig` folds the layers over the options the flags left |
| `Finder` | `FindForNode` and the owner resolution below it, `retryTransient` around it | `fpc` is the position between two API calls, `left` the rest of the pod list, `ref` the reference about to be resolved, `rsCache` and `wlCache` the Finder's maps, `found` the result. `object` has the uid of the object that last had a name and whether it lives |
| `Preflight` | `preflightDeployment`, `preflightStatefulSet` | pure operators on a workload's replicas and strategy; a pause and a partition are strategies of their own |
| `Prepare` | `Run` in `app.go` and `Drainer.Run` up to the cordon | `stage` is the position; `inv` the command line and the file, `opts` the options made of them, `kept` the filtered workloads, `uninspected` the rest of `runPreflight`'s loop, `issues` its slice |
| `Rollout` | `restartDeployment`, `restartStatefulSet` and the waits for their rollouts | `wpc` is the position between two API calls, a poll being a Get, for a Deployment the list of ReplicaSets, and the list of pods. `cachedRevision` and `selector` are kept between polls, `complete` is the verdict on the object just read. `spec`, `view`, `pods` and `status` are the workload, what its controller works on, its pods, and what the controller has reported: the controllers are external |
| `MultiNode` | `RunResolved` over the coordinator | `batchStart` is the loop variable, `phase[n]` the position of node n's `Run`. A call of `Do` is a pair of node and workload. `newPods` and `oldPods` are the pods of each workload on each node |
| `NodeDrain` | `Drainer.Run`, several times in a row | `phase` is the position in `Run`; `snapUnsched` the node as `validateNode` read it; `cordonedByUs` the result of `beginCordonedDrain`. `StartSession` starts the program, `Killed` ends it without deferred functions |

Operators whose comment begins *Mutant of* are never used by a specification. Each is a plausible bug in the definition after it; putting it in that definition's place makes TLC report the property `PROJECT.json` pairs it with, which shows that the property depends on that piece of the code.

### Abstractions

- With one node `RunResolved` passes no coordinator and `Do` calls `fn` directly: that is how `WorkloadRunner` and `NodeDrain` have it. The coordinator's model has the concurrent callers, and what a drain that shares one leaves behind reaches `NodeDrain` as a checkpoint file: a drain that was spared a restart has saved the generation it discovered, which is still the live one. `NodeDrain` therefore starts from any checkpoint file, one with entries that name the live objects included.
- The sequential path of `runWorkloads` (`--max-concurrency=1`) is the batch of one: same steps, same order, same results.
- In `WorkloadRunner` and `MultiNode` a rollout wait may succeed once no outdated pod of the workload runs (on the node, on any node), and may fail or time out at any time. `Rollout` has what it looks at. `RolloutPromise` is the justification: the polls of `Rollout` implement it, and so does each goroutine of `WorkloadRunner`, so the coarse wait shows of the pods what the detailed one does.
- `Rollout` has one workload of any strategy, a Deployment surging by one pod unless it is `Recreate`, and ordered StatefulSets with a partition of 1 if any. One status update gives one consistent count of the pods. A pod being deleted is not counted, as by the controllers.
- `Options` has three of the seventeen scalar options, one of words, one that is a number and one with two flags; the code treats the rest in the same way. Name patterns, which add up rather than override, and duration and YAML syntax are left out.
- In `Finder` a ReplicaSet's name determines its Deployment, as the controller builds it from the Deployment's name and its template; a Deployment deleted and created again makes, or adopts, a ReplicaSet of the same name. Pods come and go only while a list is still to come.
- `Prepare` keeps of the options only the pre-flight mode once the node has been looked up. `--only-workload` leaves out the complement of what `--skip-workload` would. Whatever follows its stage *cordon* is `NodeDrain`'s.
- `MultiNode` keeps of one drain what other drains can observe. Its order of workloads within a drain, its checkpoint and its eviction are those of the other modules. `DrainPromise` ties the two together: each session of `NodeDrain` implements it, and each drain of `MultiNode`, in every step of any of them.
- In `NodeDrain` and `MultiNode` discovery is one step; `Finder` has its parts. Pods are matched with protected workloads by workload, not by label selector.
- An empty checkpoint path cannot come from the command line and is left out.
- Saving writes a temporary file and renames it, so the file is the old or the new one.
- In `NodeDrain` only the verdict of the pre-flight checks is kept; the findings that only print are nowhere.
- What the cluster does after the last session is not followed.

## 3. What is checked

Every run finishes on its whole state space. Symmetry is used in `prepare` and `flag_alias` only, between two pods of one ReplicaSet; both check safety.

| Run | Instance | Shows |
|---|---|---|
| `coordinator` | 3 callers of one workload and 1 of another | under any interleaving, cancellation and failure: `MutualExclusion`, `RestartedAtMostOnce`, `RepatchOnlyAfterFailure`, `OkMeansRestarted`, `EveryCallReturns`; `ImplementsRestartOnce` |
| `workload_runner` | 3 workloads at 2 priorities, `--max-concurrency` 0, 1 and 2, fresh, resumed and dry; 5 checkpoint files: none, one identity and one legacy entry, an entry of another generation, another node's, an unreadable one; one workload may be recreated | `BatchBarrier`, `ConcurrencyLimit`, `QuietAfterReturn`, `SuccessMeansAllDone`, `SequentialPriorityOrder`, `CheckpointSound`, `CheckpointNeverForgets`, `WorkersKeepPromise`, `RunnerReturns` |
| `evict_remaining` | groups of a Deployment's pod with data, a StatefulSet's, a Job's, a DaemonSet's, a static and a standalone one, each possibly terminating already; 5 sets of flags | `SuccessMeansEmptied`, `OnlyAllowedEvicted`, `BlockedStopsEviction`, `EvictReturns` |
| `node_drain` | 2 sessions, 2 workloads and a standalone pod, 5 sets of flags, one of them without a kube context, 4 checkpoint files: none, another node's, one that names a workload as it is and has the other without an identity, and another context's with an entry for any generation; one `kubectl cordon` or `uncordon` by somebody else while no session runs | `RefusedMeansUntouched`, `FailureUndoesOwnCordon`, `OnlyOwnCordonUndone`, `SuccessMeansDrained`, `OnlyTrustedEvicted`, `FilteredLeftAlone`, `SessionsKeepPromise` |
| `prepare` | a Deployment with an old and a new ReplicaSet, of which one may be orphaned, a StatefulSet, 4 pods of theirs and 1 of a Job; every combination of 8 command lines, 7 layers as defaults and as profile, 3 modes and an unknown one, a file that is missing, malformed or read; 3 changes of the cluster during discovery and the checks, 2 attempts | `OptionsAsDocumented`, `DiscoveryExact`, `StrictMeansNoRisk` |
| `rollout` | a Deployment and a StatefulSet of 0 to 2 replicas and of every strategy, old pods available, bad or missing; one other change of the template or of the replicas, before or after the restart | `SuccessMeansRolledOut`, `FailFastOnlyForNewPods`, `KeepsPromise`, `WaitEnds` |
| `multi_node` | 2 nodes, drained together or one after the other, 1 workload on both and 1 on the first, `--max-concurrency` 0 and 1, `--uncordon-on-failure` | `AllNodesEmptied`, `NodeBatchBarrier`, `NothingLeftRunning`, `SharedWorkloadsLeft`, `EachRestartedOnce`, `MultiReturns` |

### Bounds, and why they are enough

- *Coordinator.* Three callers of a key give a holder, one that waits and one that comes after the holder has failed or succeeded; the fourth shows that keys do not disturb each other. The proofs lift the bound for safety.
- *Runner.* With three workloads a limit of 2 gives a full batch and a last one that is cut short, and two priorities straddle the batches. `MaxUid` bounds recreations: one suffices for an entry about an object that is no more. The proofs lift the bounds.
- *Eviction.* Each group of pods combines treatments that meet in the code: protected by a controller or not, terminating while another is evicted, blocked among evictable ones. A base delay of 25 with a cap of 60 doubles past the cap at the second refusal.
- *Node.* Two sessions are the least in which the first can leave a cordon, a file and half a restart to the second. `MaxSessions`, `MaxOperatorActs` and `MaxUid` are the bounds. Uids and generations start at 2, so that an outdated entry is one a session has written or a file can hold, and 0 stays free for one that is not recorded. What a session saves is read by the next one, so the files at the start need only be those no session of this node writes. Somebody else's cordon *during* a session is left out here because it is a finding (below); `SuccessMeansDrained` and `OnlyTrustedEvicted` therefore speak of a node that stayed cordoned (`stayed`).
- *Rollout.* Two replicas and a surge pod are the least with which an old and a new pod can make up the expected count together (`MaxReplicas`). `MaxGen` = 3 is the old revision, the restart and one change by somebody else, which is what makes a cached selector stale. `OthersUpTo` keeps others from changing Deployments of two replicas, which would multiply the states and adds no new kind of interleaving: with one replica there already are a pod of each revision.
- *Preparation.* A wrong owner needs a chain of two reads and an object deleted and created again between them, which is three changes with a stale reference (`MaxChanges`, `MaxUid`); a stale cache needs a second attempt (`MaxAttempts`, 3 in the code). Two ReplicaSets of one Deployment are what the second cache is for, two pods of one ReplicaSet what the first is for. The layers contain each option alone, with a valid and an invalid value, and all of them.
- *Nodes.* Two nodes are enough for one drain to share, and one to be told that it shares, and for pods to move from one node that is drained to one that will be. The second workload of the first node makes a failing sibling and a second batch possible. `MayRun` says where the scheduler may place pods.

### Fairness

In `coordinator`, `workload_runner`, `evict_remaining` and `multi_node` weak fairness is assumed of the program's own steps, and only of those: goroutines are scheduled, a mutex that is free for good is obtained, and each wait ends at the latest with its timeout (`--rollout-timeout`, `--pod-vacate-timeout`, `--eviction-timeout`), which is an error step that is always possible. Nothing is assumed of the cluster: pods may stay for ever, budgets may refuse for ever. The one exception in the code is a rollout timeout of 0 together with a timeout of 0, which removes the bound at the user's request; that is outside these liveness claims. `NodeDrain` is checked for safety only.

`WaitEnds` asks the opposite question: whether the rollout wait ends *without* its timeout. There the controllers and kubelets are weakly fair, but no pod has to become ready rather than bad and nobody has to change anything, and the waiter's list calls are strongly fair: they may fail, only not each time. The property exempts what the code comments on, a StatefulSet that its controller cannot move past a bad old pod, and what pre-flight announces: that a restart does not get to every pod of a paused Deployment, an `OnDelete` or a partitioned StatefulSet. So it also shows that pre-flight forgets no such case, `Recreate` and a single replica being risks of another kind.

`Prepare` is checked for safety only: its reads have no timeout but the drain's, and without one a server that does not answer keeps it waiting.

### Findings

Five runs expect a violation. Each checks what a document or comment says and gives the trace in which the code does otherwise.

| Run | Statement | What happens |
|---|---|---|
| `cordon_race` | `node.go:16`, `drain.go:69`, `README.md:606`: only a cordon this run performed is undone | Ownership is decided by a node read before discovery and pre-flight. Somebody cordons the node in between, the patch succeeds, the drain fails and makes the node schedulable. |
| `resume_eviction` | `README.md:6`, `README.md:42`: workloads leave by rolling restarts, only DaemonSets, Jobs and standalone pods are evicted | A resumed drain skips a workload whose entry names its uid and generation without looking at its pods, and then evicts them. Such an entry is written in a multi-node drain by the node that was spared the restart: it discovered the workload after the other node's patch, and nothing raises the generation any more. `OnlyTrustedEvicted` is what does hold: nothing else that was discovered is evicted. |
| `fail_fast` | `rollout.go:142`: any pod matching the workload selector that is stuck ends the wait | Only the new ReplicaSet's pods are looked at. The comment in the function (`rollout.go:188`) says so and why, and `FailFastOnlyForNewPods` shows that the code keeps to it. |
| `filter_race` | `README.md:485`: filtered workloads are left untouched | Only discovered workloads become protected. A pod of a filtered workload that arrives between discovery and cordon is evicted. |
| `flag_alias` | `README.md:526`, `cmd/drain.go:103`: CLI flags always override scalar values | The hidden alias `--skip-daemon-sets` sets the same variable as `--ignore-daemonsets`, but only the latter is looked up when layers are applied. A profile or the config file's defaults override the value given with the alias. |

Three more statements are broader than what the code does; the properties state what does hold, and no run is spent on the difference.

- `README.md:508` and `docs/user-guide.md:272`: a checkpoint of another kube context is refused before the cordon. The contexts are compared only if the drain has one itself (`checkpoint_resume.go:14`). In a cluster, or with a kubeconfig without a current context, `--checkpoint-path` may name another context's file: the drain resumes from it, cordons, and overwrites the file's context. `RefusedMeansUntouched` has exactly this exception, and `node_drain` includes such sessions.
- `README.md:463`: priority tiers remain strictly ordered at any `--max-concurrency`. Batches are slices of the sorted list (`workload_runner.go:116`) and may span two priorities, whose restarts then overlap. `SequentialPriorityOrder` is for a concurrency of 1, and the theorem `RunnerTiersNeverReversed` for any.
- `drain.go:105`: restarts are shared by concurrent drains. The coordinator exists whenever several nodes are named (`app.go:102`) and remembers for the whole invocation, also when they are drained one by one. A workload restarted for the first node may put a new pod on the second; the second drain is told that it is done, nobody moves the pod, and the drain fails after `--pod-vacate-timeout`. `multi_node` has these behaviours; what it checks is that such a drain does not succeed (`SharedWorkloadsLeft`, `AllNodesEmptied`).

## 4. What is proved

Eight modules hold the proofs: one for each specification (`CoordinatorProofs`, `RunnerProofs`, `RolloutProofs`, `EvictProofs`, `PrepareProofs`, `MultiProofs`, `NodeDrainProofs`), and `SessionProofs` for what `NodeDrain` keeps of its parts from session to session. All are checked by tlapm to the last leaf, without any fact taken on trust. The assumptions they start from are those the modules state of their constants; TLC evaluates each of them on the instances above. Every safety property of every passing run is a theorem here, two of them under the hypothesis that excludes a finding; so are the type invariants, all but one of which no run checks because the proof covers every instance.

**Coordinator**, for every set of callers and keys (assumption `CoordinatorAssumption`: each caller has a key and `NoCaller` is not a caller). `CoordInvariant` proves `[]CoordInv`; from it follow the type invariant, `MutualExclusion`, `RestartedAtMostOnce`, `RepatchOnlyAfterFailure` and `OkMeansRestarted`. None of the last three is inductive alone: that a second restart cannot succeed needs that a workload is in `done` as soon as a restart has succeeded and the lock is free, that nobody inside `fn` works on a workload in `done`, and that the lock's holder and the callers' positions agree. These are `HolderInv`, `RetInv`, `DoneInv` and `HistoryInv`. `CoordImplementsRestartOnce` proves the refinement: initial states map to initial states, and each step to `Begin`, `Succeed`, `Fail`, `Share`, `GiveUp` or a stutter.

**Runner**, for every finite set of workloads, any integer priorities, any `--max-concurrency` and any checkpoint files (assumptions `RunnerAssumption`, `PriorityAssumption`, and `EntryAssumption`: the mark of a missing entry is neither an identity nor that of a legacy entry). `RunnerInvariant` proves `[]RunnerInv`, made of `RunnerTypeOK`, that the slice has no duplicates, `LoopInv` and `SoundInv`. `LoopInv` ties the loop variable to the goroutines: before the batch everything is done, behind it nothing has begun, and outside a batch nothing runs. That makes `BatchBarrier` and `SuccessMeansAllDone` inductive, and `QuietAfterReturn` and `ConcurrencyLimit` follow (the latter by counting: what runs lies in a window of at most `maxC` positions). `SoundInv` says of the checkpoint in memory what `CheckpointSound` says of the file, and that a goroutine about to save has seen its pods leave. The lemma `SortedSlice` covers the sort and the resume filter: neither invents a workload nor repeats one. On top of it,
- `RunnerSequentialPriorityOrder` and `RunnerTiersNeverReversed` need `SortedInv`, that the slice is sorted as soon as anything has begun (`SliceIsSorted`: the resume filter keeps the order), and `WholeInv`, that a batch begins as a whole. The second theorem is what holds of priorities under any concurrency, in place of the strict tiers that `README.md` claims: a workload may begin before an earlier tier is *done*, never before that tier has *begun*.
- `RunnerCheckpointNeverForgets` needs `KeptInv`: the checkpoint in memory, which each save writes out whole, has an entry of every goroutine that is done and, when resuming, of everything the file has.
- `RunnerKeepsPromise` shows that each goroutine implements `RolloutPromise`, whatever its siblings do. `FreshInv` is the fact needed: once its rollout wait is over a workload has no outdated pod, and gets none unless the goroutine fails.

**Rollout**, for workloads of any strategy and size, a controller that lags arbitrarily and others who change the workload at any time (assumption `RolloutAssumption`, which only types the constants). `RolloutInvariant` proves `[]RolloutInv`. Success is decided on a status that was written about an older view of the spec, and on pods selected by a revision remembered from an earlier poll, so that neither `SuccessMeansRolledOut` nor `FailFastOnlyForNewPods` is near to being inductive:
- `LagInv`: pods, status, view and spec each lag behind the next;
- `TargetInv`: what has caught up with the generation of the restart has its revision or a later one. This is why the comparison of `observedGeneration` with the generation the *patch* returned, rather than the one just read, is enough;
- `StatusInv`: what a status says of the pods stays true after it is out of date. A Deployment that reports only updated and available pods had no older ones, and creates none; a StatefulSet has none older than its `currentRevision`;
- `WaitInv`: a cached revision or selector is not older than the restart, and once a poll has found the rollout complete no pod from before the restart exists or can be created (`NoneBefore`).

A paused Deployment, which pre-flight announces, is outside: its template changes and its pods never do. `RolloutKeepsPromise` is the refinement of `RolloutPromise`.

**Eviction**, for any pods, owners and flags (assumption `EvictAssumption`: among others, the base delay is at most the cap). `EvictOnlyAllowed`, `EvictSuccessMeansEmptied` and `EvictBlockedStops` follow from `[]EvictInv`. `AllowedInv` carries the verdict of the selection from the list to the eviction that comes later. `EmptiedInv` says where each pod is while the phase is at work: still to be evicted and then waited for, waited for and no longer running, or one that may stay. Its base is the lemma `NonePassedOver`: if nothing blocks the drain, every pod of the node is evictable, pending or may remain, so that no pod falls between the three selections; `EvictSelectionsExact` says of the three predicates themselves that they are disjoint and leave out exactly the terminal, the mirror and the skipped DaemonSet's pods. That others delete, complete or recreate pods meanwhile cannot disturb it (`ClusterStepCalms`), because the node is cordoned. `BlockedInv` carries the check for blocked pods past the moment it is made: once the loop has begun no pod becomes blocked but a DaemonSet's, for which a cordon is no obstacle (`NoneNewlyBlocked`).

**Preparation**, for any owner chains, any values of the options and any number of changes (assumptions `OptionsAssumption`, `FinderAssumption`, `PrepareAssumption`).
- `PrepareOptionsDocumented` says that the fold over the layers gives what the documented precedence asks for. Its hypothesis `NoAlias` excludes the hidden alias, for which this is false: that is the finding `flag_alias`.
- `PrepareDiscoveryExact` rests on `DiscoveryInv`: what a cache holds was true of every object that has not been touched since the list (`CachesCurrent`), what has been found is in the cache (`FoundIsCached`), each pod behind the walk's position has its workload in the result (`NoneMissed`), each workload in the result is some listed pod's (`AllBelong`), and so is the reference about to be resolved (`RefBelongs`).
- `PrepareStrictMeansNoRisk` rests on `StrictInv`: the report has exactly the risks of the workloads that were inspected and have not changed since discovery.

**Several nodes**, for any list of nodes, none named twice, any workloads and any concurrency (assumption `MultiNodeAssumption`). `MultiImplementsCoordinator` shows that the drains of one invocation use the coordinator as `Coordinator` has it, so all its theorems hold between nodes too. `MultiInvariant` proves `CallInv` (a call of `Do` is where its node's drain says it is), `EmptyInv` (what a node's drain has restarted, shared or seen leave is not on the node any more), `NodeBatchBarrier` and `ResultInv`; `AllNodesEmptied`, `NothingLeftRunning` and `SharedWorkloadsLeft` follow. That pods move from a node that is drained to one that will be is the reason for `EmptyInv` to speak of each cordoned node by itself. Composed with the refinement of the coordinator, `MultiImplementsRestartOnce` says that the drains of one invocation together do what `RestartOnce` promises. `MultiEachRestartedOnce` draws the conclusion for the user: after success each workload found was restarted by exactly one of the drains. It needs `DroppedInv`: a drain waits only for pods of workloads it was told are restarted, and drops from its list only what it has seen leave. `MultiDrainsKeepPromise` is the refinement of `DrainPromise` by each node's drain in every step of any of them; a step of another drain moves pods of the shared workloads, which the promise allows because a cordoned node receives none (`OthersLeaveAlone`).

**Drain of one node**, for any number of sessions of any options, one after the other, wherever each fails or is killed, and whatever the cluster does during and between them (assumption `NodeDrainAssumption`: there are options, the initial pods are typed, and no workload is owned by a DaemonSet; of a checkpoint file from before nothing is assumed but its type). The invariant `DrainInv` composes those of the parts, `LoopInv` of the runner and `AllowedInv` and `EmptiedInv` of the eviction, with
- `PhaseInv`: each phase finds the variables of the others as they left them;
- `RefusedInv`: what is read before the cordon stops a session that must not change anything, and a dry run's goroutines never get past the patch;
- `CordonInv` and `OwnershipInv`: whose cordon is on the node, in general and if nobody else cordons during a session. `NodeDrainOnlyOwnCordonUndone` has the hypothesis that nobody does; without it the statement is false, which is the finding `cordon_race`;
- `OlderInv`: what discovery read of a workload is never newer than the object, and older once the session has patched it;
- `FilterInv`: a filtered workload is protected and not in the slice, all others are in the slice;
- `RolledInv`: on a node that stays unschedulable a workload that was restarted has no pod there, every other one is still in the slice or was dropped by the resume filter, and what is handed to the eviction was dropped on an entry that names it.

`SuccessMeansDrained` says of each workload more than that its pods are gone, which an eviction would achieve as well: it was patched in this session (its spec differs from the one discovered, by `OlderInv`) and the goroutine saw its rollout to the end, or the checkpoint has it as done. `names` and `takenAsDone` state what a checkpoint may be trusted for independently of `checkpointCanSkip`, so that a bug there breaks the properties.

What an entry with an identity is worth depends on who wrote it. The drain that restarted a workload recorded the generation discovery read, which its own patch then raised: that entry is outdated from the moment it is written, and a resumed drain leaves out what was done because discovery no longer finds its pods. The drain of another node of the same invocation may have discovered the workload after that patch and was spared the restart; its entry names the live object until somebody changes it, and a resumed drain takes it as done with pods on the node. `NodeDrainOnlyTrustedEvicted` is exact about that case, and the finding `resume_eviction` shows what it leads to.

**Sessions** (`SessionProofs`, same assumptions). `RunnerProofs` and `EvictProofs` speak of one call of `runWorkloads` or `evictRemaining`, on a cluster of its own. `SessionInvariant` adds `SoundInv` and `SortedInv` to `DrainInv`, and with it
- `SessionCheckpointSound`: over any number of sessions, wherever each fails or is killed, the file claims only workloads that were rolled out and seen off the node;
- `SessionPartsAsAlone`: what was proved of the parts alone holds of each session's;
- `SessionPhasesApart`: nothing is handed to the eviction API while a workload is being restarted;
- `SessionNoSecondRestart`: no session sends a workload a second restart patch, whatever became of the first;
- `SessionKeepsPromise`: each session implements `DrainPromise`. A session is mapped to its stage, the workloads it is to restart, and those whose goroutine has not seen their pods leave. The resume filter is the promise's step `TakeOver` (`ResumePromise`): what it leaves out with pods on the node is in `record`, the entries that name what was discovered, and what it leaves out otherwise has no pods there. `ListedInv` says that the slice never has more than discovery found;
- `PromiseIsSafe`: whatever implements `DrainPromise` has its two invariants. What was struck off stays away from a node that is kept free of new pods, and success means that all the drain was to restart, which is what it found less what the record covers, is away.

**Proved and not run**: `TiersNeverReversed`, `PhasesApart`, `NoSecondRestart`, `DrainsKeepPromise` and the type invariants of `Coordinator`, `WorkloadRunner`, `Rollout`, `EvictRemaining`, `MultiNode` and `NodeDrain` hold for every value of the constants and are left out of the runs, which keep one property for each question a bug in the code could answer differently.

**Only model-checked**: `EveryCallReturns`, `RunnerReturns`, `EvictReturns`, `WaitEnds` and `MultiReturns`, since proofs of liveness under fairness and of `ENABLED` are out of the prover's reach, and so is induction over data. The five findings are traces, which TLC gives. No module uses a `RECURSIVE` operator.

## 5. What is not modelled

- *Checkpoint file names.* Context and node are sanitised and joined by a hyphen; two pairs may give one name. In the models each drain has a file of its own, which may however be another's (`node`, `context` in `Checkpoint`).
- *Selection of nodes* by label, by field or as "all", which only yields the list `MultiNode` starts from, and *a node named twice*, whose two drains would share a checkpoint file and its temporary file.
- *Pre-flight notes that only print*: names that look stateful, and disruption budgets that would block an eviction.
- *Parsing* of durations, labels, YAML and workload keys: what comes out of it is a value of the option or an error.
- *Events and printing*: written beside each step, read by nobody in the program.
- *The Kubernetes client's construction* and *the end-to-end framework*: no state that the results depend on.

## 6. Plan

Done: `RestartOnce`, `Coordinator`, `RolloutPromise`, `DrainPromise`, `Checkpoint`, `WorkloadRunner`, `EvictionPolicy`, `EvictRemaining`, `NodeDrain`, `MultiNode`, `Rollout` with every strategy, `Finder`, `Preflight`, `Options` and `Prepare`, and the eight proof modules.

Left, most important first:

1. The lemmas that several proof modules state in forms of their own (a step of a goroutine is its own, the cluster's steps on a cordoned node) in one place, next to `TargetNode` and `DrainRun`.
2. An abstract specification of discovery, which `Prepare` implements and whose result is the step `Look` of `DrainPromise`.
3. The safety of `DrainPromise` and `RolloutPromise` carried over to each drain of `MultiNode`, as `PromiseIsSafe` does for `NodeDrain`.
4. `MultiNode` with a node named twice, whose two drains share a checkpoint file, and checkpoint file names as operators over small sets of contexts and nodes.
