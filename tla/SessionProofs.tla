----------------------------- MODULE SessionProofs -----------------------------
(***************************************************************************)
(* Proofs about the restarts and the checkpoint of NodeDrain: what         *)
(* RunnerProofs shows of one call of runWorkloads on a cluster of its own  *)
(* holds in every session of a drain, and the checkpoint file stays true   *)
(* from session to session, wherever one fails or is killed.               *)
(***************************************************************************)
EXTENDS NodeDrainProofs

(***************************************************************************)
(* The inductive invariant, next to DrainInv.                              *)
(***************************************************************************)
SessionInv == SoundInv /\ SortedInv

NoneBegun == \A w \in Workloads : wpc[w] = "idle"

\* Outside runWorkloads a step leaves the goroutines as they are or there are none
\* after it, and a checkpoint is left alone or emptied.
Outside ==
  /\ moved' = moved
  /\ cp' \in {cp, CP!newCheckpoint} /\ cpFile' \in {cpFile, CP!newCheckpoint}
  /\ \/ UNCHANGED <<wpc, snap, rpc, workloads>>
     \/ NoneBegun' /\ rpc' \in {"idle", "begin"}

\* Such a step keeps the invariant.
LEMMA OutsideKeeps ==
  ASSUME SessionInv, Outside
  PROVE  SessionInv'
<1>1. Sound(cp)' /\ Sound(cpFile)'
  BY EmptyFile DEF SessionInv, SoundInv, Sound, Outside
<1>2. SoundInv'
  BY <1>1 DEF SessionInv, SoundInv, Outside, NoneBegun
<1>3. SortedInv'
  BY DEF SessionInv, SortedInv, Sorted, Outside, NoneBegun
<1> QED
  BY <1>2, <1>3 DEF SessionInv

\* The phases before the cordon find no goroutine and leave none.
LEMMA BeforeIsOutside ==
  ASSUME DrainInv, BeforeCordonFrame, phase \in Before
  PROVE  Outside
BY DEF DrainInv, PhaseInv, BeforeCordonFrame, Outside, NoneBegun

\* Every step but those of runWorkloads is of that form.
LEMMA OthersAreOutside ==
  ASSUME DrainInv, [NodeDrainNext]_nodeDrainVars, ~RunWorkloads
  PROVE  Outside
<1>1. CASE StartSession \/ Killed
  BY <1>1 DEF StartSession, Killed, Outside, NoneBegun
<1>2. CASE ValidateNode \/ DiscoverWorkloads \/ PrepareBeforeCordon \/ ReadFails
  BY <1>2, BeforeIsOutside
     DEF ValidateNode, DiscoverWorkloads, PrepareBeforeCordon, ReadFails, Before
<1>3. CASE CordonSkipped \/ Cordon
  BY <1>3 DEF CordonSkipped, Cordon, BeginWorkloads, RunFrame, DrainInv, PhaseInv, Before,
              Outside, NoneBegun
<1>4. CASE CordonFails \/ WorkloadsReturned \/ EvictReturned \/ Cleanup \/ DeferredOnError
  BY <1>4 DEF CordonFails, WorkloadsReturned, EvictReturned, Cleanup, DeferredOnError,
              RunFrame, Outside
<1>5. CASE Evict \/ TimeoutExpires \/ OperatorActs \/ ClusterActs \/ UNCHANGED nodeDrainVars
  BY <1>5 DEF Evict, TimeoutExpires, OperatorActs, ClusterActs, nodeDrainVars, runnerVars,
              Outside
<1> QED
  BY <1>1, <1>2, <1>3, <1>4, <1>5 DEF NodeDrainNext, DrainStep, NoMoreSessions

\* Every step preserves the invariant.
LEMMA SessionStep ==
  DrainInv /\ SessionInv /\ [NodeDrainNext]_nodeDrainVars => SessionInv'
<1> SUFFICES ASSUME DrainInv, SessionInv, [NodeDrainNext]_nodeDrainVars
             PROVE  SessionInv'
  OBVIOUS
<1>1. CASE ~RunWorkloads
  BY <1>1, OthersAreOutside, OutsideKeeps
<1>2. CASE RunWorkloads
  <2>1. /\ RunnerTypeOK /\ LoopInv /\ SoundInv /\ SortedInv
        /\ RunnerStep /\ UNCHANGED runVars
    BY <1>2 DEF DrainInv, DrainTypes, NodeDrainTypeOK, SessionInv, RunWorkloads, RunnerStep
  <2>2. SortedInv'
    BY <2>1, SortedWithin
  <2>3. SoundInv'
    BY <2>1, LoopSound, WorkerSound DEF RunnerStep
  <2> QED
    BY <2>2, <2>3 DEF SessionInv
<1> QED
  BY <1>1, <1>2

(***************************************************************************)
(* A session under the mapping to DrainPromise.                            *)
(***************************************************************************)
\* Before the filter the slice holds nothing but what was discovered, and from there to
\* the loop nothing that is to be left alone.
ListedInv ==
  \A w \in Workloads : InSlice(w) =>
    /\ phase = "prepare" => w \in discovered
    /\ phase = "cordon" \/ rpc = "begin" => w \in discovered \ protected

\* Discovery and the filter make it so.
LEMMA ListedStep ==
  DrainInv /\ ListedInv /\ [NodeDrainNext]_nodeDrainVars => ListedInv'
<1> SUFFICES ASSUME DrainInv, ListedInv, [NodeDrainNext]_nodeDrainVars PROVE ListedInv'
  OBVIOUS
<1>1. CASE DiscoverWorkloads
  <2>1. /\ discovered' = {w \in Workloads : HasPods(w)}
        /\ workloads' \in SetToSeqs({w \in Workloads : HasPods(w)})
        /\ phase' = "prepare" /\ rpc' = rpc /\ phase = "discover"
    BY <1>1 DEF DiscoverWorkloads, BeforeCordonFrame
  <2>2. \A i \in DOMAIN workloads' : workloads'[i] \in discovered'
    BY <2>1, DiscoveredSlice
  <2>3. rpc' # "begin"
    BY <2>1 DEF DrainInv, PhaseInv
  <2> QED
    BY <2>1, <2>2, <2>3 DEF ListedInv, InSlice
<1>2. CASE PrepareBeforeCordon
  <2>1. /\ phase = "prepare" /\ phase' \in {"cordon", "exited"} /\ rpc' = rpc
        /\ workloads' \in
             InOrder(workloads, {i \in DOMAIN workloads : ~filtered(workloads[i])})
        /\ protected' = {w \in discovered : filtered(w)} /\ discovered' = discovered
    BY <1>2 DEF PrepareBeforeCordon, BeforeCordonFrame, Exit
  <2>2. workloads \in Seq(Workloads) /\ Distinct(workloads)
    BY DEF DrainInv, DrainTypes, NodeDrainTypeOK, RunnerTypeOK
  <2>3. \A j \in DOMAIN workloads' :
          \E i \in DOMAIN workloads :
            ~filtered(workloads[i]) /\ workloads'[j] = workloads[i]
    BY <2>1, <2>2, RearrangedSlice
  <2>4. \A w \in Workloads : InSlice(w)' => InSlice(w) /\ ~filtered(w)
    BY <2>3 DEF InSlice
  <2>5. rpc' # "begin"
    BY <2>1 DEF DrainInv, PhaseInv
  <2> QED
    BY <2>1, <2>4, <2>5 DEF ListedInv
<1>3. CASE RunWorkloads
  BY <1>3, RunWorkloadsFacts DEF ListedInv
<1>4. CASE phase' \notin {"prepare", "cordon"} /\ rpc' # "begin"
  BY <1>4 DEF ListedInv
<1>5. CASE CordonSkipped \/ Cordon
  <2>1. phase = "cordon" /\ phase' = "workloads"
        /\ UNCHANGED <<workloads, discovered, protected>>
    BY <1>5 DEF CordonSkipped, Cordon, BeginWorkloads, RunFrame, runVars
  <2> QED
    BY <2>1 DEF ListedInv, InSlice
<1>6. CASE UNCHANGED <<phase, rpc, workloads, discovered, protected>>
  BY <1>6 DEF ListedInv, InSlice
<1>7. CASE StartSession \/ ReadFails \/ CordonFails \/ WorkloadsReturned \/ EvictReturned
           \/ Cleanup \/ DeferredOnError \/ Killed
  <2>1. phase' \notin {"prepare", "cordon"}
    BY <1>7 DEF StartSession, ReadFails, CordonFails, WorkloadsReturned, EvictReturned,
                Cleanup, DeferredOnError, Killed, Exit
  <2>2. rpc' # "begin"
    BY <1>7 DEF StartSession, ReadFails, CordonFails, WorkloadsReturned, EvictReturned,
                Cleanup, DeferredOnError, Killed, BeforeCordonFrame, DrainInv, PhaseInv
  <2> QED
    BY <1>4, <2>1, <2>2
<1>8. CASE ValidateNode
  BY <1>4, <1>8 DEF ValidateNode, BeforeCordonFrame, DrainInv, PhaseInv
<1> QED
  BY <1>1, <1>2, <1>3, <1>5, <1>6, <1>7, <1>8
  DEF NodeDrainNext, DrainStep, Evict, EvictStep, TimeoutExpires, CtxEnds, OperatorActs,
      ClusterActs, NoMoreSessions, nodeDrainVars, phaseVars, drainVars, sessionHistory,
      runnerVars, runVars

PodsStayAway == \A w \in Workloads : Gone(w) => Gone(w)'

\* A step that leaves the plan alone can only be one of the pods.
LEMMA PlanUnchanged ==
  ASSUME UNCHANGED <<stageBar, foundBar, leftBar>>, keptBar' \in {keptBar, FALSE},
         keptBar => PodsStayAway
  PROVE  Session!Next
BY DEF Session!Next, Session!PodsChange, PodsStayAway, Gone

\* The plan is made of these variables.
LEMMA SamePlan ==
  ASSUME UNCHANGED <<stageBar, discovered, protected, workloads, wpc, opts, snap, cp>>
  PROVE  UNCHANGED <<foundBar, leftBar>>
BY TakenUnchanged DEF foundBar, leftBar

\* A session that has not succeeded may fail, and fails once.
LEMMA FailureIsFail ==
  ASSUME stageBar # "ok", stageBar' = "failed", UNCHANGED pods
  PROVE  [Session!Next]_(Session!vars)
<1>1. foundBar' = {} /\ leftBar' = {} /\ keptBar' = FALSE
  BY DEF foundBar, leftBar, keptBar
<1>2. {w \in Workloads : HasPods(w)}' = {w \in Workloads : HasPods(w)}
  BY DEF HasPods
<1>3. CASE stageBar = "failed"
  <2>1. foundBar = {} /\ leftBar = {} /\ keptBar = FALSE
    BY <1>3 DEF foundBar, leftBar, keptBar
  <2> QED
    BY <1>1, <1>2, <1>3, <2>1 DEF Session!vars
<1>4. CASE stageBar \in {"idle", "looking", "restarting", "evicting"}
  BY <1>1, <1>2, <1>4 DEF Session!Next, Session!Fail, Session!Forget
<1> QED
  BY <1>3, <1>4 DEF stageBar

\* As long as nothing is planned, anything is a step of the pods.
LEMMA NothingPlanned ==
  ASSUME stageBar \in {"idle", "failed"}, stageBar' = stageBar
  PROVE  Session!Next
BY PlanUnchanged DEF foundBar, leftBar, keptBar

\* A session begins, reads, and settles what it is to restart.
LEMMA BeforePromise ==
  ASSUME DrainInv, ListedInv,
         StartSession \/ ValidateNode \/ DiscoverWorkloads \/ PrepareBeforeCordon \/ ReadFails
  PROVE  [Session!Next]_(Session!vars)
<1>1. CASE StartSession
  <2>1. stageBar \in {"idle", "ok", "failed"} /\ stageBar' = "idle" /\ UNCHANGED pods
    BY <1>1 DEF StartSession, stageBar, clusterVars
  <2>2. foundBar' = {} /\ leftBar' = {} /\ keptBar' = FALSE
    BY <2>1 DEF foundBar, leftBar, keptBar
  <2>3. CASE stageBar = "idle"
    BY <2>1, <2>3, NothingPlanned
  <2>4. CASE stageBar \in {"ok", "failed"}
    BY <2>1, <2>2, <2>4 DEF Session!Next, Session!Again, Session!Forget, HasPods
  <2> QED
    BY <2>1, <2>3, <2>4
<1>2. CASE ValidateNode \/ DiscoverWorkloads
  BY <1>2, NothingPlanned DEF ValidateNode, DiscoverWorkloads, BeforeCordonFrame, stageBar
<1>3. CASE ReadFails \/ (PrepareBeforeCordon /\ phase' = "exited")
  <2>1. /\ stageBar = "idle" /\ UNCHANGED <<opts, pods>> /\ phase' = "exited" /\ result' = "err"
    BY <1>3
    DEF ReadFails, PrepareBeforeCordon, BeforeCordonFrame, stageBar, Exit, clusterVars
  <2>2. CASE opts.dryRun
    BY <2>1, <2>2, NothingPlanned DEF stageBar
  <2>3. CASE ~opts.dryRun
    BY <2>1, <2>3, FailureIsFail DEF stageBar
  <2> QED
    BY <2>2, <2>3
<1>4. CASE PrepareBeforeCordon /\ phase' = "cordon"
  <2>1. /\ stageBar = "idle" /\ UNCHANGED <<opts, pods, wpc, stayed, discovered>>
        /\ protected' = {w \in discovered : filtered(w)}
        /\ workloads' \in
             InOrder(workloads, {i \in DOMAIN workloads : ~filtered(workloads[i])})
        /\ phase = "prepare"
    BY <1>4 DEF PrepareBeforeCordon, BeforeCordonFrame, stageBar, clusterVars
  <2>2. CASE opts.dryRun
    BY <2>1, <2>2, NothingPlanned DEF stageBar
  <2>3. CASE ~opts.dryRun
    <3>1. stageBar' = "looking"
      BY <1>4, <2>1, <2>3 DEF stageBar
    <3>2. workloads \in Seq(Workloads) /\ Distinct(workloads)
      BY DEF DrainInv, DrainTypes, NodeDrainTypeOK, RunnerTypeOK
    <3>3. /\ \A j \in DOMAIN workloads' :
               \E i \in DOMAIN workloads :
                 ~filtered(workloads[i]) /\ workloads'[j] = workloads[i]
          /\ \A i \in DOMAIN workloads :
               ~filtered(workloads[i]) => \E j \in DOMAIN workloads' : workloads'[j] = workloads[i]
      BY <2>1, <3>2, RearrangedSlice
    <3>4. \A w \in Workloads : InSlice(w) <=> w \in discovered
      BY <2>1 DEF DrainInv, FilterInv, ListedInv
    <3>5. \A w \in Workloads : InSlice(w)' <=> InSlice(w) /\ ~filtered(w)
      BY <3>3 DEF InSlice
    <3>6. discovered' \ protected' = {w \in Workloads : InSlice(w)'}
      BY <2>1, <3>4, <3>5 DEF DrainInv, DrainTypes, NodeDrainTypeOK
    <3>7. leftBar' = {w \in Workloads : InSlice(w)'}
      <4>1. \A w \in Workloads : wpc'[w] = "idle"
        BY <2>1 DEF DrainInv, PhaseInv, Before
      <4> QED
        BY <3>1, <4>1 DEF leftBar, InSlice
    <3>8. foundBar' = leftBar' /\ foundBar' \in SUBSET Workloads
      <4>1. \A w \in Workloads : InSlice(w)' => ~takenAsDone(w, TRUE)'
        BY DEF takenAsDone, InSlice
      <4> QED
        BY <3>1, <3>6, <3>7, <4>1 DEF foundBar
    <3>9. keptBar' = FALSE /\ keptBar = FALSE
      BY <2>1, <3>1 DEF keptBar
    <3> QED
      BY <2>1, <3>1, <3>8, <3>9 DEF Session!Next, Session!Look, HasPods
  <2> QED
    BY <2>2, <2>3
<1> QED
  BY <1>1, <1>2, <1>3, <1>4 DEF PrepareBeforeCordon, Exit

\* The node is cordoned, or need not be.
LEMMA CordonPromise ==
  ASSUME DrainInv, CordonSkipped \/ Cordon \/ CordonFails
  PROVE  [Session!Next]_(Session!vars)
<1>1. /\ UNCHANGED <<opts, pods, wpc, discovered, protected, workloads, snap, cp>>
      /\ phase = "cordon"
  BY DEF CordonSkipped, Cordon, CordonFails, RunFrame, NodePatched, clusterVars, runVars
<1>2. CASE opts.dryRun
  <2>1. stageBar = "idle" /\ stageBar' = "idle"
    BY <1>1, <1>2 DEF stageBar
  <2> QED
    BY <2>1, NothingPlanned
<1>3. CASE CordonFails /\ ~opts.dryRun
  BY <1>1, <1>3, FailureIsFail DEF CordonFails, Exit, stageBar
<1>4. CASE (CordonSkipped \/ Cordon) /\ ~opts.dryRun
  <2>1. stageBar = "looking" /\ stageBar' = "restarting" /\ stayed' \in BOOLEAN
    <3>1. phase' = "workloads" /\ stayed' = unsched'
      BY <1>4 DEF CordonSkipped, Cordon, BeginWorkloads
    <3>2. unsched' \in BOOLEAN
      BY <1>4
      DEF CordonSkipped, Cordon, NodePatched, clusterVars, DrainInv, DrainTypes,
          NodeDrainTypeOK, TypesInv, ClusterTypeOK
    <3> QED
      BY <1>1, <1>4, <3>1, <3>2 DEF stageBar
  <2>2. UNCHANGED <<foundBar, leftBar>>
    BY <1>1, <2>1, TakenUnchanged DEF foundBar, leftBar
  <2>3. keptBar' \in BOOLEAN
    BY <2>1 DEF keptBar
  <2> QED
    BY <1>1, <2>1, <2>2, <2>3 DEF Session!Next, Session!Cordon, HasPods
<1> QED
  BY <1>2, <1>3, <1>4

\* Only the resume filter makes a difference to what is taken as done.
LEMMA TakenByRunner ==
  ASSUME RunnerTypeOK, LoopInv, RunnerStep, ~BeginResumed
  PROVE  \A w \in Workloads : takenAsDone(w, TRUE)' = takenAsDone(w, TRUE)
<1>1. UNCHANGED opts
  BY DEF RunnerStep, runVars
<1>2. CASE BeginFresh
  BY <1>1, <1>2 DEF BeginFresh, takenAsDone
<1>3. CASE RunnerLoop /\ ~BeginFresh
  BY <1>1, <1>3, TakenUnchanged
  DEF RunnerLoop, BeginNothing, BeginError, LoopEnds, StartBatch, NextBatch, FailBatch
<1>4. ASSUME NEW v \in Workloads, Worker(v)
      PROVE  \A w \in Workloads : takenAsDone(w, TRUE)' = takenAsDone(w, TRUE)
  BY <1>1, <1>4, WorkerKeepsTaken
<1> QED
  BY <1>2, <1>3, <1>4 DEF RunnerStep

\* The resume filter leaves out what the record has as done, and strikes off what has
\* a legacy entry and no pods.
LEMMA ResumePromise ==
  ASSUME DrainInv, ListedInv, BeginResumed, RunWorkloads, ~opts.dryRun
  PROVE  Session!Next
<1>1. /\ UNCHANGED <<unsched, opts, phase, discovered, protected, stayed, snap>>
      /\ phase = "workloads" /\ rpc = "begin"
      /\ RunnerTypeOK /\ LoopInv /\ RunnerStep /\ DrainTypes /\ FilterInv
      /\ cpFile \in CheckpointFiles /\ opts \in Options /\ discovered \in SUBSET Workloads
  BY RunWorkloadsFacts
  DEF RunWorkloads, BeginResumed, DrainInv, DrainTypes, NodeDrainTypeOK, RunnerTypeOK,
      RunTypeOK
<1>2. /\ UNCHANGED <<pods, wpc>> /\ \A w \in Workloads : wpc[w] = "idle"
      /\ opts.resume /\ checkpointUsable /\ cp'.entries = cpFile.entries
  BY <1>1, ClaimedFile DEF BeginResumed, checkpointUsable, LoopInv, clusterVars
<1>3. stageBar = "restarting" /\ stageBar' = "restarting" /\ keptBar' = keptBar
  BY <1>1 DEF stageBar, keptBar
<1>4. /\ leftBar = {w \in Workloads : InSlice(w)}
      /\ leftBar' = {w \in Workloads : InSlice(w)'}
  BY <1>2, <1>3 DEF leftBar, InSlice
<1>5. \A w \in Workloads : InSlice(w) <=> w \in discovered \ protected
  BY <1>1 DEF FilterInv, ListedInv
<1>6. foundBar = leftBar
  <2>1. \A w \in Workloads : InSlice(w) => ~takenAsDone(w, TRUE)
    BY DEF takenAsDone, InSlice
  <2> QED
    BY <1>1, <1>3, <1>4, <1>5, <2>1 DEF foundBar
<1>7. \A w \in Workloads :
        takenAsDone(w, TRUE)' <=> ~InSlice(w)' /\ names(cpFile, w)
  BY <1>1, <1>2 DEF takenAsDone, InSlice, names
<1>8. foundBar' = {w \in foundBar : ~takenAsDone(w, TRUE)'}
  BY <1>1, <1>3, <1>4, <1>5, <1>6 DEF foundBar
<1>9. foundBar \ foundBar' \subseteq recordBar
  BY <1>2, <1>4, <1>6, <1>7, <1>8 DEF recordBar
<1>10. \A w \in Workloads : InSlice(w)' => InSlice(w)
  BY <1>1, SliceFacts
<1>11. leftBar' \in SUBSET foundBar'
  BY <1>4, <1>6, <1>7, <1>8, <1>10
<1>12. ASSUME NEW w \in foundBar' \ leftBar' PROVE Gone(w)
  <2>1. w \in Workloads /\ InSlice(w) /\ ~InSlice(w)' /\ ~takenAsDone(w, TRUE)'
    BY <1>4, <1>6, <1>8, <1>12
  <2>2. ~BeginFresh /\ workloads' # workloads
    BY <2>1 DEF BeginFresh, BeginResumed, InSlice
  <2>3. CP!checkpointCanSkip(cpFile, w, snap[w], HasPods(w))
    BY <1>1, <2>1, <2>2, SliceFacts
  <2> QED
    BY <1>7, <2>1, <2>3, SkippedIsDropped
<1>13. (foundBar' \ leftBar') \cap {w \in Workloads : HasPods(w)} = {}
  BY <1>12 DEF Gone
<1> QED
  BY <1>2, <1>3, <1>6, <1>8, <1>9, <1>11, <1>13 DEF Session!Next, Session!TakeOver, HasPods

\* While the workloads are restarted one is struck off only when its pods have been
\* seen to leave, or by the resume filter.
LEMMA RestartsPromise ==
  ASSUME DrainInv, ListedInv, RunWorkloads
  PROVE  [Session!Next]_(Session!vars)
<1>0. /\ UNCHANGED <<unsched, opts, phase, discovered, protected, stayed>>
      /\ phase = "workloads" /\ rpc' # "begin"
      /\ RunnerTypeOK /\ LoopInv /\ RunnerStep /\ DrainTypes /\ ClusterTypeOK
      /\ wpc \in [Workloads -> WorkerPoints]
  <2>1. RunnerStep
    BY DEF RunWorkloads
  <2> QED
    BY <2>1, RunWorkloadsFacts
    DEF DrainInv, DrainTypes, NodeDrainTypeOK, RunnerTypeOK
<1>1. CASE opts.dryRun
  BY <1>0, <1>1, NothingPlanned DEF stageBar
<1>3. CASE ~opts.dryRun /\ BeginResumed
  BY <1>3, ResumePromise
<1>2. CASE ~opts.dryRun /\ ~BeginResumed
  <2>1. stageBar = "restarting" /\ stageBar' = "restarting"
    BY <1>0, <1>2 DEF stageBar
  <2>2. /\ foundBar' = foundBar /\ keptBar' = keptBar
        /\ leftBar = {w \in Workloads : InSlice(w) /\ wpc[w] \notin {"save", "done"}}
        /\ leftBar' = {w \in Workloads : InSlice(w)' /\ wpc'[w] \notin {"save", "done"}}
    <3>1. discovered \in SUBSET Workloads
      BY <1>0 DEF DrainTypes, NodeDrainTypeOK
    <3>2. foundBar' = foundBar
      BY <1>0, <1>2, <2>1, <3>1, TakenByRunner DEF foundBar
    <3> QED
      BY <1>0, <2>1, <3>2 DEF leftBar, keptBar, InSlice
  <2>3. PodsStayAway
    BY <1>0, RunnerStepFacts DEF PodsStayAway
  <2>4. CASE leftBar' = leftBar
    BY <2>1, <2>2, <2>3, <2>4, PlanUnchanged
  <2>5. CASE /\ UNCHANGED pods /\ leftBar' \in SUBSET leftBar
             /\ \A w \in leftBar \ leftBar' : Gone(w)
    <3>1. (leftBar \ leftBar') \cap {w \in Workloads : HasPods(w)} = {}
      BY <2>5 DEF Gone
    <3> QED
      BY <2>1, <2>2, <2>5, <3>1 DEF Session!Next, Session!StrikeOff, HasPods
  <2>6. CASE RunnerLoop
    <3>1. UNCHANGED pods
      BY <2>6, LoopCluster DEF clusterVars
    <3>2. \A w \in Workloads : wpc[w] \in {"save", "done"} <=> wpc'[w] \in {"save", "done"}
      <4>1. CASE StartBatch
        <5>1. \A w \in Batch : wpc[w] = "idle"
          BY <1>0, <4>1 DEF StartBatch, LoopInv, Batch, BatchIndices
        <5>2. \A w \in Workloads : wpc'[w] = IF w \in Batch THEN "patch" ELSE wpc[w]
          BY <4>1 DEF StartBatch
        <5> QED
          BY <5>1, <5>2
      <4>2. CASE UNCHANGED wpc
        BY <4>2
      <4> QED
        BY <2>6, <4>1, <4>2
        DEF RunnerLoop, BeginNothing, BeginFresh, BeginResumed, BeginError, LoopEnds,
            NextBatch, FailBatch
    <3>3. \A w \in Workloads : InSlice(w)' => InSlice(w)
      BY <1>0, SliceFacts
    <3>4. \A w \in Workloads : InSlice(w) => InSlice(w)'
      <4>1. CASE UNCHANGED workloads
        BY <4>1 DEF InSlice
      <4> QED
        BY <1>0, <1>2, <4>1, SliceFacts
    <3>5. leftBar' \in SUBSET leftBar /\ \A w \in leftBar \ leftBar' : Gone(w)
      BY <2>2, <3>2, <3>3, <3>4
    <3> QED
      BY <2>5, <3>1, <3>5
  <2>7. ASSUME NEW v \in Workloads, Worker(v)
        PROVE  [Session!Next]_(Session!vars)
    <3>1. \A w \in Workloads : InSlice(w)' = InSlice(w)
      BY <2>7, WorkerHasShape DEF WorkerShape, InSlice
    <3>2. \A w \in Workloads \ {v} : wpc'[w] = wpc[w]
      BY <1>0, <2>7, WorkerMoves
    <3>3. CASE wpc[v] = "vacate" /\ wpc'[v] = "save"
      <4>1. Gone(v) /\ UNCHANGED pods
        BY <1>0, <2>7, <3>3
        DEF Worker, DryRunRestart, RestartPatched, RolloutDone, PodsOffNode, RestartFails,
            SaveCP, Gone, clusterVars, Advance
      <4>2. leftBar' \in SUBSET leftBar /\ \A w \in leftBar \ leftBar' : Gone(w)
        BY <2>2, <3>1, <3>2, <3>3, <4>1
      <4> QED
        BY <2>5, <4>1, <4>2
    <3>4. CASE wpc[v] \in {"save", "done"} <=> wpc'[v] \in {"save", "done"}
      <4>1. \A w \in Workloads : wpc[w] \in {"save", "done"} <=> wpc'[w] \in {"save", "done"}
        BY <3>2, <3>4
      <4> QED
        BY <2>2, <2>4, <3>1, <4>1
    <3> QED
      BY <1>0, <1>2, <2>7, <3>3, <3>4, WorkerMoves
  <2> QED
    BY <1>0, <2>6, <2>7 DEF RunnerStep
<1> QED
  BY <1>1, <1>2, <1>3

\* What follows the restarts, and what everybody else does.
LEMMA RestPromise ==
  ASSUME DrainInv,
         \/ WorkloadsReturned \/ Evict \/ EvictReturned \/ Cleanup \/ DeferredOnError
         \/ TimeoutExpires \/ Killed \/ OperatorActs \/ ClusterActs
         \/ UNCHANGED nodeDrainVars
  PROVE  [Session!Next]_(Session!vars)
<1> USE DEF clusterVars, runVars, runnerVars, phaseVars, drainVars, sessionHistory
<1>0. /\ opts' = opts
      /\ DrainTypes /\ TypesInv /\ ClusterTypeOK
  BY DEF WorkloadsReturned, Evict, EvictStep, EvictReturned, Cleanup, DeferredOnError,
         TimeoutExpires, CtxEnds, Killed, OperatorActs, ClusterActs, RunFrame, nodeDrainVars,
         DrainInv, DrainTypes, TypesInv
<1>1. CASE opts.dryRun
  BY <1>0, <1>1, NothingPlanned DEF stageBar
<1>2. ASSUME ~opts.dryRun, WorkloadsReturned
      PROVE  [Session!Next]_(Session!vars)
  <2>1. /\ phase = "workloads" /\ rpc = "returned"
        /\ UNCHANGED <<pods, discovered, protected, workloads, wpc, stayed, snap, cp>>
    BY <1>2 DEF WorkloadsReturned, RunFrame
  <2>2. CASE runErr
    BY <1>0, <1>2, <2>1, <2>2, FailureIsFail DEF WorkloadsReturned, stageBar
  <2>3. CASE ~runErr
    <3>1. stageBar = "restarting" /\ stageBar' = "evicting"
      BY <1>0, <1>2, <2>1, <2>3 DEF WorkloadsReturned, stageBar
    <3>2. UNCHANGED <<foundBar, leftBar, keptBar>>
      BY <1>0, <2>1, <3>1, TakenUnchanged DEF foundBar, leftBar, keptBar
    <3>3. leftBar = {}
      BY <2>1, <2>3 DEF leftBar, DrainInv, LoopInv, SuccessMeansAllDone
    <3> QED
      BY <2>1, <3>1, <3>2, <3>3 DEF Session!Next, Session!Evict, HasPods
  <2> QED
    BY <2>2, <2>3
<1>3. ASSUME ~opts.dryRun, Evict
      PROVE  [Session!Next]_(Session!vars)
  <2>1. UNCHANGED <<phase, result, discovered, protected, workloads, wpc, stayed, snap, cp>>
        /\ PodsStayAway
    BY <1>0, <1>3, EvictStepFacts DEF Evict, PodsStayAway
  <2>2. stageBar' = stageBar
    BY <1>0, <2>1 DEF stageBar
  <2> QED
    BY <1>0, <2>1, <2>2, SamePlan, PlanUnchanged DEF keptBar
<1>4. ASSUME ~opts.dryRun, EvictReturned \/ Cleanup
      PROVE  [Session!Next]_(Session!vars)
  <2>1. /\ UNCHANGED <<pods, discovered, protected, workloads, wpc, stayed, snap, cp>>
        /\ \/ phase = "evict" /\ phase' \in {"deferred", "cleanup"}
           \/ phase = "cleanup" /\ phase' = "exited" /\ result' = "ok"
    BY <1>4 DEF EvictReturned, Cleanup, Exit, RunFrame
  <2>2. stageBar = "evicting" /\ stageBar' \in {"evicting", "failed", "ok"}
    BY <1>0, <1>4, <2>1 DEF stageBar
  <2>3. CASE stageBar' = "failed"
    BY <2>1, <2>2, <2>3, FailureIsFail
  <2>4. CASE stageBar' # "failed"
    <3>1. UNCHANGED <<foundBar, leftBar, keptBar>>
      BY <1>0, <2>1, <2>2, <2>4, TakenUnchanged DEF foundBar, leftBar, keptBar
    <3> QED
      BY <2>1, <2>2, <2>4, <3>1 DEF Session!Next, Session!Succeed, Session!vars, HasPods
  <2> QED
    BY <2>3, <2>4
<1>5. ASSUME ~opts.dryRun, DeferredOnError \/ Killed
      PROVE  [Session!Next]_(Session!vars)
  <2>1. /\ pods' = pods /\ phase \in Active
        /\ phase' = "exited" /\ result' \in {"err", "killed"}
    BY <1>5 DEF DeferredOnError, Killed, Exit, Active, NodePatched
  <2>2. stageBar # "ok"
    BY <2>1 DEF stageBar, Active
  <2>3. CASE phase \in {"idle", "validate", "discover", "prepare"}
    BY <1>0, <1>5, <2>1, <2>2, FailureIsFail DEF stageBar
  <2> QED
    BY <1>0, <1>5, <2>1, <2>2, FailureIsFail DEF stageBar
<1>6. ASSUME ~opts.dryRun, OperatorActs \/ ClusterActs
      PROVE  [Session!Next]_(Session!vars)
  <2>1. /\ UNCHANGED <<phase, result, discovered, protected, workloads, wpc, snap, cp>>
        /\ stayed' \in {stayed, FALSE} /\ (stayed => PodsStayAway)
    <3>1. CASE OperatorActs
      BY <3>1 DEF OperatorActs, NodePatched, PodsStayAway, Gone, HasPods
    <3>2. CASE ClusterActs
      BY <1>0, <3>2, ClusterStepFacts DEF ClusterActs, PodsStayAway, DrainInv, CordonInv
    <3> QED
      BY <1>6, <3>1, <3>2
  <2>2. stageBar' = stageBar
    BY <1>0, <2>1 DEF stageBar
  <2>3. keptBar' \in {keptBar, FALSE}
    <3>1. CASE stayed' = stayed
      BY <2>2, <3>1 DEF keptBar
    <3>2. CASE stayed' = FALSE
      BY <3>2 DEF keptBar
    <3> QED
      BY <2>1, <3>1, <3>2
  <2>4. keptBar => PodsStayAway
    BY <2>1 DEF keptBar
  <2> QED
    BY <1>0, <2>1, <2>2, <2>3, <2>4, SamePlan, PlanUnchanged
<1>7. ASSUME ~opts.dryRun, TimeoutExpires \/ UNCHANGED nodeDrainVars
      PROVE  [Session!Next]_(Session!vars)
  <2>1. UNCHANGED <<phase, result, discovered, protected, workloads, wpc, stayed, pods, snap, cp>>
    BY <1>7 DEF TimeoutExpires, CtxEnds, nodeDrainVars
  <2>2. stageBar' = stageBar
    BY <1>0, <2>1 DEF stageBar
  <2>3. PodsStayAway
    BY <2>1 DEF PodsStayAway, Gone, HasPods
  <2> QED
    BY <1>0, <2>1, <2>2, <2>3, SamePlan, PlanUnchanged DEF keptBar
<1> QED
  BY <1>1, <1>2, <1>3, <1>4, <1>5, <1>6, <1>7

(***************************************************************************)
(* The theorems.                                                           *)
(***************************************************************************)
\* Between sessions, after failures and crashes too, the invariant holds.
THEOREM SessionInvariant == NodeDrainSpec => [](DrainInv /\ SessionInv)
<1>1. NodeDrainInit => SessionInv
  <2> SUFFICES ASSUME NodeDrainInit PROVE SessionInv
    OBVIOUS
  <2>1. Sound(cp)
    BY EmptyFile DEF NodeDrainInit, Sound
  <2>2. Sound(cpFile)
    BY DEF NodeDrainInit, RecordedIn, Sound
  <2> QED
    BY <2>1, <2>2 DEF NodeDrainInit, SessionInv, SoundInv, SortedInv
<1> QED
  BY <1>1, SessionStep, NodeDrainInvariant, PTL DEF NodeDrainSpec

\* Whichever sessions have written it, and wherever they were killed, the checkpoint
\* file claims no workload that was not rolled out and seen off the node
\* (workload_runner.go: saveCP comes after rollingRestart).
THEOREM SessionCheckpointSound == NodeDrainSpec => []CheckpointSound
<1>1. SessionInv => CheckpointSound
  BY DEF SessionInv, SoundInv, Sound, CheckpointSound
<1> QED
  BY <1>1, SessionInvariant, PTL

\* What is proved of one call of runWorkloads and of one of evictRemaining holds of
\* each session's: the batches, --max-concurrency, the order of priorities with batches
\* of one, the results, and what may be evicted.
THEOREM SessionPartsAsAlone ==
  NodeDrainSpec => [](/\ BatchBarrier /\ ConcurrencyLimit /\ SequentialPriorityOrder
                      /\ QuietAfterReturn /\ SuccessMeansAllDone /\ OnlyAllowedEvicted)
<1>1. DrainInv => RunnerTypeOK /\ LoopInv /\ OnlyAllowedEvicted
  BY DEF DrainInv, DrainTypes, NodeDrainTypeOK, AllowedInv
<1>2. DrainInv => BatchBarrier /\ QuietAfterReturn /\ SuccessMeansAllDone
  BY <1>1 DEF LoopInv, QuietAfterReturn
<1>3. DrainInv => ConcurrencyLimit
  BY <1>1, RunningAreFew
<1>4. DrainInv /\ SessionInv => SequentialPriorityOrder
  BY <1>1, <1>2, SortedSequence DEF SessionInv
<1> QED
  BY <1>1, <1>2, <1>3, <1>4, SessionInvariant, PTL

\* Restarting and evicting never overlap (drain.go: Run calls evictRemaining after
\* runWorkloads has returned nil).
THEOREM SessionPhasesApart == NodeDrainSpec => []PhasesApart
<1>1. DrainInv => PhasesApart
  BY DEF DrainInv, LoopInv, PhaseInv, PhasesApart
<1> QED
  BY <1>1, NodeDrainInvariant, PTL

\* A session never sends a workload a second restart patch (workload_runner.go: a
\* workload is in one batch, and a batch is begun once).
THEOREM SessionNoSecondRestart == NodeDrainSpec => NoSecondRestart
<1>1. ASSUME DrainInv, [NodeDrainNext]_nodeDrainVars, NEW w \in Workloads,
             wpc[w] \notin {"idle", "patch"}, session' = session
      PROVE  wpc'[w] # "patch"
  <2>1. CASE StartSession \/ Killed
    BY <2>1 DEF StartSession, Killed
  <2>2. CASE UNCHANGED wpc
    BY <1>1, <2>2
  <2>3. CASE RunWorkloads
    <3>1. /\ RunnerTypeOK /\ LoopInv /\ RunnerStep
          /\ wpc \in [Workloads -> WorkerPoints]
      BY <1>1, <2>3 DEF DrainInv, DrainTypes, NodeDrainTypeOK, RunnerTypeOK, RunWorkloads
    <3>2. CASE StartBatch
      <4>1. \A v \in Batch : wpc[v] = "idle"
        BY <3>1, <3>2 DEF StartBatch, LoopInv, Batch, BatchIndices
      <4> QED
        BY <1>1, <3>2, <4>1 DEF StartBatch
    <3>3. CASE RunnerLoop /\ ~StartBatch
      BY <1>1, <3>3 DEF RunnerLoop, BeginNothing, BeginFresh, BeginResumed, BeginError,
                        LoopEnds, NextBatch, FailBatch
    <3>4. ASSUME NEW v \in Workloads, Worker(v) PROVE wpc'[w] # "patch"
      <4>1. OwnMove(v)
        BY <3>1, <3>4, WorkerMoveIsOwn
      <4> QED
        BY <1>1, <4>1 DEF OwnMove
    <3> QED
      BY <3>1, <3>2, <3>3, <3>4 DEF RunnerStep
  <2> QED
    BY <1>1, <2>1, <2>2, <2>3
    DEF NodeDrainNext, DrainStep, ValidateNode, DiscoverWorkloads, PrepareBeforeCordon,
        ReadFails, BeforeCordonFrame, CordonSkipped, Cordon, CordonFails, RunFrame,
        WorkloadsReturned, Evict, EvictReturned, Cleanup, DeferredOnError, TimeoutExpires,
        OperatorActs, ClusterActs, NoMoreSessions, nodeDrainVars, runnerVars
<1>2. DrainInv /\ [NodeDrainNext]_nodeDrainVars =>
        [\A w \in Workloads :
           wpc[w] \notin {"idle", "patch"} /\ session' = session => wpc'[w] # "patch"
         ]_nodeDrainVars
  BY <1>1
<1> QED
  BY <1>2, NodeDrainInvariant, PTL DEF NodeDrainSpec, NoSecondRestart

\* Each session keeps the promise of DrainPromise: it strikes a workload off only with
\* its pods off the node, leaves out only what the checkpoint has as done, and evicts
\* only when nothing is left to restart (drain.go, Run; workload_runner.go).
THEOREM SessionKeepsPromise == NodeDrainSpec => SessionsKeepPromise
<1>1. NodeDrainInit => ListedInv /\ Session!Init
  <2> SUFFICES ASSUME NodeDrainInit PROVE ListedInv /\ Session!Init
    OBVIOUS
  <2>1. phase = "idle" /\ rpc = "idle"
    BY DEF NodeDrainInit
  <2>2. stageBar = "idle"
    BY <2>1 DEF stageBar
  <2>3. foundBar = {} /\ leftBar = {} /\ keptBar = FALSE
    BY <2>2 DEF foundBar, leftBar, keptBar
  <2> QED
    BY <2>1, <2>2, <2>3 DEF ListedInv, Session!Init
<1>2. DrainInv /\ ListedInv /\ [NodeDrainNext]_nodeDrainVars =>
        [Session!Next]_(Session!vars)
  BY BeforePromise, CordonPromise, RestartsPromise, RestPromise
     DEF NodeDrainNext, DrainStep, NoMoreSessions
<1> QED
  BY <1>1, <1>2, ListedStep, NodeDrainInvariant, PTL
     DEF NodeDrainSpec, SessionsKeepPromise, Session!Spec

\* What keeps the promise has its safety: what was struck off stays away from a node
\* kept free of new pods, and success means that all of it is away.
THEOREM PromiseIsSafe ==
  SessionsKeepPromise => [](Session!StruckOffStaysAway /\ Session!SuccessMeansAllAway)
<1> DEFINE Inv ==
      /\ leftBar \in SUBSET foundBar /\ foundBar \in SUBSET Workloads
      /\ stageBar \in {"idle", "looking", "failed"} => keptBar = FALSE
      /\ stageBar = "looking" => leftBar = foundBar
      /\ stageBar \in {"evicting", "ok"} => leftBar = {}
      /\ stageBar \in {"idle", "failed"} => foundBar = {}
      /\ Session!StruckOffStaysAway
<1>1. Session!Init => Inv
  BY DEF Session!Init, Session!StruckOffStaysAway
<1>2. Inv /\ [Session!Next]_(Session!vars) => Inv'
  <2> SUFFICES ASSUME Inv, [Session!Next]_(Session!vars) PROVE Inv'
    OBVIOUS
  <2> USE DEF Session!StruckOffStaysAway
  <2>1. CASE Session!Look \/ Session!Cordon
    BY <2>1 DEF Session!Look, Session!Cordon
  <2>2. CASE Session!StrikeOff \/ Session!TakeOver
    BY <2>2 DEF Session!StrikeOff, Session!TakeOver
  <2>3. CASE Session!Evict \/ Session!Succeed
    BY <2>3 DEF Session!Evict, Session!Succeed
  <2>4. CASE Session!Fail \/ Session!Again
    BY <2>4 DEF Session!Fail, Session!Again, Session!Forget
  <2>5. CASE Session!PodsChange
    <3>1. UNCHANGED <<stageBar, foundBar, leftBar>> /\ keptBar' \in {keptBar, FALSE}
          /\ (keptBar => {w \in Workloads : HasPods(w)}' \subseteq {w \in Workloads : HasPods(w)})
      BY <2>5 DEF Session!PodsChange
    <3>2. CASE keptBar' = FALSE
      BY <3>1, <3>2
    <3>3. CASE keptBar' = keptBar
      BY <3>1, <3>3
    <3> QED
      BY <3>1, <3>2, <3>3
  <2>6. CASE UNCHANGED Session!vars
    BY <2>6 DEF Session!vars
  <2> QED
    BY <2>1, <2>2, <2>3, <2>4, <2>5, <2>6 DEF Session!Next
<1>3. Inv => Session!SuccessMeansAllAway
  BY DEF Session!SuccessMeansAllAway, Session!StruckOffStaysAway
<1> QED
  BY <1>1, <1>2, <1>3, PTL DEF SessionsKeepPromise, Session!Spec
================================================================================
