------------------------------ MODULE RunnerProofs ------------------------------
(***************************************************************************)
(* Proofs about WorkloadRunner for any finite set of workloads, any        *)
(* priorities, any --max-concurrency and any checkpoint file.              *)
(***************************************************************************)
EXTENDS WorkloadRunner, FiniteSetTheorems, TLAPS

USE RunnerAssumption

(***************************************************************************)
(* The inductive invariant.                                                *)
(***************************************************************************)
\* No workload is in the slice twice.
Distinct(s) == \A i, j \in DOMAIN s : s[i] = s[j] => i = j

\* What the loop variables say of every goroutine.
LoopInv ==
  /\ BatchBarrier
  /\ \A w \in Workloads :
       wpc[w] # "idle" => \E i \in DOMAIN workloads : workloads[i] = w
  /\ rpc = "begin" => batchStart = 0 /\ \A w \in Workloads : wpc[w] = "idle"
  /\ rpc = "loop" =>
       \A i \in DOMAIN workloads : i > batchStart => wpc[workloads[i]] = "idle"
  /\ rpc = "batch" => \A w \in Batch : wpc[w] # "idle"
  /\ rpc # "batch" => \A w \in Workloads : wpc[w] \notin Running
  /\ SuccessMeansAllDone

\* Every identity a checkpoint holds is one that was seen off the node.
Sound(f) ==
  \A w \in Workloads :
    f.entries[w] \notin {NoEntry, LegacyEntry} => <<w, f.entries[w]>> \in moved

SoundInv ==
  /\ Sound(cp)
  /\ Sound(cpFile)
  /\ \A w \in Workloads : wpc[w] = "save" => <<w, snap[w]>> \in moved

RunnerInv ==
  /\ RunnerTypeOK
  /\ Distinct(workloads)
  /\ LoopInv
  /\ SoundInv

\* Ascending priorities.
Sorted(s) == \A i, j \in DOMAIN s : i < j => Priority[s[i]] <= Priority[s[j]]

\* From the loop on, and as soon as anything has begun, the slice is sorted.
SortedInv ==
  rpc \in {"loop", "batch"} \/ (\E w \in Workloads : wpc[w] # "idle")
    => Sorted(workloads)

\* When runWorkloads has returned, its last batch has begun as a whole or not at all.
WholeInv ==
  /\ rpc # "idle"
  /\ rpc = "returned" => \A v, w \in Batch : wpc[v] = "idle" => wpc[w] = "idle"

\* A later priority level never begins before the earlier ones have begun,
\* whatever --max-concurrency is.
TiersNeverReversed ==
  \A i, j \in DOMAIN workloads :
    /\ Priority[workloads[i]] < Priority[workloads[j]]
    /\ wpc[workloads[j]] # "idle"
    => wpc[workloads[i]] # "idle"

\* The checkpoint in memory knows what this run has done and, when resuming,
\* all that the file knows.
KeptInv ==
  /\ \A w \in Workloads : wpc[w] \in {"rollout", "vacate", "save"} => ~opts.dryRun
  /\ \A w \in Workloads : wpc[w] = "done" /\ ~opts.dryRun => cp.entries[w] # NoEntry
  /\ opts.resume /\ rpc \in {"loop", "batch"} =>
       \A w \in Workloads : cpFile.entries[w] # NoEntry => cp.entries[w] # NoEntry

(***************************************************************************)
(* The sorted slice.                                                       *)
(***************************************************************************)
\* The positions of a slice, and those kept of them, can be counted.
LEMMA KeptIsFinite ==
  ASSUME NEW s \in Seq(Workloads), NEW keep \in SUBSET DOMAIN s
  PROVE  Cardinality(keep) \in Nat
<1>1. DOMAIN s = 1 .. Len(s) /\ Len(s) \in Nat
  OBVIOUS
<1>2. IsFiniteSet(DOMAIN s)
  BY <1>1, FS_Interval
<1>3. IsFiniteSet(keep)
  BY <1>2, FS_Subset
<1> QED
  BY <1>3, FS_CardinalityType

\* Sorting and dropping workloads neither invents one nor puts one in twice.
LEMMA SortedSlice ==
  ASSUME NEW s \in Seq(Workloads), Distinct(s), NEW keep \in SUBSET DOMAIN s,
         NEW t \in SortByPriority(s, keep)
  PROVE  t \in Seq(Workloads) /\ Distinct(t)
<1> DEFINE n == Cardinality(keep)
<1>1. n \in Nat
  BY KeptIsFinite
<1>2. PICK p \in Bijection(1 .. n, keep) : t = [i \in DOMAIN p |-> s[p[i]]]
  BY DEF SortByPriority, Rearranged, Rearrangements
<1> HIDE DEF n
<1>3. /\ p \in [1 .. n -> keep]
      /\ \A i, j \in 1 .. n : p[i] = p[j] => i = j
  BY <1>2 DEF Bijection, Injection, IsInjective
<1>4. \A i \in 1 .. n : p[i] \in DOMAIN s /\ s[p[i]] \in Workloads
  BY <1>3
<1>5. t = [i \in 1 .. n |-> s[p[i]]]
  BY <1>2, <1>3
<1>6. t \in Seq(Workloads) /\ DOMAIN t = 1 .. n
  BY <1>1, <1>4, <1>5
<1>7. Distinct(t)
  BY <1>3, <1>4, <1>5, <1>6 DEF Distinct
<1> QED
  BY <1>6, <1>7

\* It does sort: priorities ascend in the slice the loop works through.
LEMMA SliceIsSorted ==
  ASSUME NEW s \in Seq(Workloads), NEW keep \in SUBSET DOMAIN s,
         NEW t \in SortByPriority(s, keep)
  PROVE  Sorted(t)
<1> DEFINE n == Cardinality(keep)
<1>1. n \in Nat
  BY KeptIsFinite
<1>2. PICK p \in Bijection(1 .. n, keep) :
        /\ t = [i \in DOMAIN p |-> s[p[i]]]
        /\ \A i, j \in DOMAIN p : i < j => Precedes(s, p[i], p[j])
  BY DEF SortByPriority, Rearranged, Rearrangements
<1> HIDE DEF n
<1>3. p \in [1 .. n -> keep]
  BY <1>2 DEF Bijection, Injection
<1>4. \A i \in 1 .. n : t[i] = s[p[i]] /\ s[p[i]] \in Workloads
  BY <1>2, <1>3
<1>5. DOMAIN t = 1 .. n
  BY <1>2, <1>3
<1> SUFFICES ASSUME NEW i \in 1 .. n, NEW j \in 1 .. n, i < j
             PROVE  Priority[t[i]] <= Priority[t[j]]
  BY <1>5 DEF Sorted
<1>6. Priority[t[i]] \in Int /\ Priority[t[j]] \in Int
  BY <1>4, PriorityAssumption
<1>7. \/ Priority[t[i]] < Priority[t[j]]
      \/ Priority[t[i]] = Priority[t[j]]
  BY <1>2, <1>3, <1>4 DEF Precedes
<1> QED
  BY <1>6, <1>7

(***************************************************************************)
(* The initial states.                                                     *)
(***************************************************************************)
\* RunnerInit satisfies the inductive invariant.
LEMMA RunnerInitInv == RunnerInit => RunnerInv
<1> SUFFICES ASSUME RunnerInit PROVE RunnerInv
  OBVIOUS
<1>1. Cardinality(Workloads) \in Nat
  BY FS_CardinalityType
<1>2. workloads \in Seq(Workloads) /\ Distinct(workloads)
  BY <1>1 DEF RunnerInit, SetToSeqs, Distinct
<1>3. RunnerTypeOK
  <2>1. ClusterTypeOK /\ RunTypeOK
    BY DEF RunnerInit, liveAtFirst, ClusterTypeOK, RunTypeOK, PodCondition, Identity
  <2>2. {cp, cpFile} \subseteq CheckpointFiles
    BY DEF RunnerInit, CheckpointFiles, CP!newCheckpoint
  <2>3. snap \in [Workloads -> Identity]
    BY DEF RunnerInit, liveAtFirst, Identity
  <2> QED
    BY <1>2, <2>1, <2>2, <2>3 DEF RunnerInit, RunnerTypeOK, WorkerPoints, Running
<1>4. LoopInv
  <2>1. \A w \in Workloads : wpc[w] = "idle"
    BY DEF RunnerInit
  <2>2. \A i \in DOMAIN workloads : i \in Nat \ {0} /\ workloads[i] \in Workloads
    BY <1>2
  <2>3. batchStart = 0 /\ rpc = "begin"
    BY DEF RunnerInit
  <2> QED
    BY <2>1, <2>2, <2>3 DEF LoopInv, BatchBarrier, SuccessMeansAllDone, Running
<1>5. SoundInv
  <2>1. Sound(cpFile)
    <3> SUFFICES ASSUME NEW w \in Workloads,
                        cpFile.entries[w] \notin {NoEntry, LegacyEntry}
                 PROVE  <<w, cpFile.entries[w]>> \in moved
      BY DEF Sound
    <3> QED
      BY DEF RunnerInit, RecordedIn
  <2>2. Sound(cp)
    BY DEF RunnerInit, CP!newCheckpoint, Sound
  <2> QED
    BY <2>1, <2>2 DEF RunnerInit, SoundInv
<1> QED
  BY <1>2, <1>3, <1>4, <1>5 DEF RunnerInv

(***************************************************************************)
(* Types.                                                                  *)
(***************************************************************************)
\* A checkpoint stays one when the drain claims it.
LEMMA ClaimedFile ==
  ASSUME NEW f \in CheckpointFiles, opts \in Options
  PROVE  /\ CP!Claimed(f, opts.context) \in CheckpointFiles
         /\ CP!Claimed(f, opts.context).entries = f.entries
BY RunnerAssumption DEF CheckpointFiles, CP!Claimed

\* It stays one when the drain marks a workload done.
LEMMA MarkedFile ==
  ASSUME NEW f \in CheckpointFiles, NEW w \in Workloads, NEW id \in Identity,
         opts \in Options
  PROVE  /\ CP!MarkDone(f, opts.context, w, id) \in CheckpointFiles
         /\ CP!MarkDone(f, opts.context, w, id).entries = [f.entries EXCEPT ![w] = id]
BY RunnerAssumption DEF CheckpointFiles, CP!Claimed, CP!MarkDone

\* So is an empty one.
LEMMA EmptyFile ==
  /\ CP!newCheckpoint \in CheckpointFiles
  /\ \A w \in Workloads : CP!newCheckpoint.entries[w] = NoEntry
BY DEF CheckpointFiles, CP!newCheckpoint

\* A restart patch leaves the cluster well typed.
LEMMA RestartType ==
  ASSUME ClusterTypeOK, NEW w \in Workloads, RestartApplied(w)
  PROVE  ClusterTypeOK'
<1>1. w \in PodNames
  BY DEF PodNames
<1>2. pods' \in [PodNames -> PodCondition]
  BY <1>1 DEF ClusterTypeOK, RestartApplied, PodCondition
<1>3. spec' \in [Workloads -> Identity]
  BY DEF ClusterTypeOK, RestartApplied, Identity
<1> QED
  BY <1>2, <1>3 DEF ClusterTypeOK, RestartApplied

\* So do the cluster's own steps.
LEMMA ClusterType ==
  ASSUME ClusterTypeOK, ClusterStep
  PROVE  ClusterTypeOK'
<1>1. ASSUME NEW p \in PodNames,
             PodScheduled(p) \/ PodReplaced(p) \/ PodCompletes(p) \/ PodRemoved(p)
      PROVE  ClusterTypeOK'
  BY <1>1 DEF ClusterTypeOK, PodCondition, PodScheduled, PodReplaced, PodCompletes,
              PodRemoved
<1>2. ASSUME NEW w \in Workloads, WorkloadRecreated(w)
      PROVE  ClusterTypeOK'
  <2>1. pods' \in [PodNames -> PodCondition]
    BY <1>2 DEF ClusterTypeOK, PodCondition, WorkloadRecreated
  <2>2. spec' \in [Workloads -> Identity]
    BY <1>2 DEF ClusterTypeOK, Identity, WorkloadRecreated
  <2> QED
    BY <1>2, <2>1, <2>2 DEF ClusterTypeOK, WorkloadRecreated
<1> QED
  BY <1>1, <1>2 DEF ClusterStep

(***************************************************************************)
(* The steps of a goroutine have the same shape.                           *)
(***************************************************************************)
WorkerShape(w, label) ==
  /\ wpc[w] \in Running
  /\ label \in WorkerPoints \ {"idle"}
  /\ wpc' = [wpc EXCEPT ![w] = label]
  /\ UNCHANGED <<workloads, snap, rpc, runErr, batchStart>>

\* A goroutine's step moves that goroutine only, and it was running.
LEMMA WorkerHasShape ==
  ASSUME NEW w \in Workloads, Worker(w)
  PROVE  \E label : WorkerShape(w, label)
<1> USE DEF WorkerShape, Running, WorkerPoints, Advance, clusterVars
<1>1. ASSUME DryRunRestart(w) PROVE WorkerShape(w, "done")
  BY <1>1 DEF DryRunRestart
<1>2. ASSUME RestartPatched(w) PROVE WorkerShape(w, "rollout")
  BY <1>2 DEF RestartPatched
<1>3. ASSUME RolloutDone(w) PROVE WorkerShape(w, "vacate")
  BY <1>3 DEF RolloutDone
<1>4. ASSUME PodsOffNode(w) PROVE WorkerShape(w, "save")
  BY <1>4 DEF PodsOffNode
<1>5. ASSUME RestartFails(w) PROVE WorkerShape(w, "failed")
  BY <1>5 DEF RestartFails
<1>6. ASSUME SaveCP(w) PROVE WorkerShape(w, "done")
  BY <1>6 DEF SaveCP
<1> QED
  BY <1>1, <1>2, <1>3, <1>4, <1>5, <1>6 DEF Worker

\* Types and distinctness are kept by a goroutine's step.
LEMMA WorkerType ==
  ASSUME RunnerTypeOK, Distinct(workloads), NEW w \in Workloads, Worker(w),
         UNCHANGED runVars
  PROVE  RunnerTypeOK' /\ Distinct(workloads)'
<1>1. PICK label : WorkerShape(w, label)
  BY WorkerHasShape
<1>2. wpc' \in [Workloads -> WorkerPoints]
  BY <1>1 DEF WorkerShape, RunnerTypeOK
<1>3. ClusterTypeOK'
  <2>1. CASE RestartApplied(w)
    BY <2>1, RestartType DEF RunnerTypeOK
  <2>2. CASE UNCHANGED clusterVars
    BY <2>2 DEF RunnerTypeOK, ClusterTypeOK, clusterVars
  <2> QED
    BY <2>1, <2>2 DEF Worker, DryRunRestart, RestartPatched, RolloutDone,
                      PodsOffNode, RestartFails, SaveCP, clusterVars
<1>4. {cp', cpFile'} \subseteq CheckpointFiles
  <2>1. CASE SaveCP(w)
    <3>1. /\ cp \in CheckpointFiles /\ cpFile \in CheckpointFiles /\ snap[w] \in Identity
          /\ opts \in Options
      BY DEF RunnerTypeOK, RunTypeOK
    <3>2. CP!MarkDone(cp, opts.context, w, snap[w]) \in CheckpointFiles
      BY <3>1, MarkedFile
    <3> QED
      BY <2>1, <3>1, <3>2 DEF SaveCP
  <2>2. CASE UNCHANGED <<cp, cpFile>>
    BY <2>2 DEF RunnerTypeOK
  <2> QED
    BY <2>1, <2>2 DEF Worker, DryRunRestart, RestartPatched, RolloutDone,
                      PodsOffNode, RestartFails
<1>5. gctxErr' \in BOOLEAN
  BY DEF RunnerTypeOK, Worker, DryRunRestart, RestartPatched, RolloutDone,
         PodsOffNode, RestartFails, SaveCP
<1>6. RunTypeOK'
  BY DEF RunnerTypeOK, RunTypeOK, runVars
<1> QED
  BY <1>1, <1>2, <1>3, <1>4, <1>5, <1>6 DEF WorkerShape, RunnerTypeOK, Distinct

\* A goroutine moves only inside the current batch, and never back to idle.
LEMMA WorkerLoop ==
  ASSUME RunnerTypeOK, LoopInv, NEW w \in Workloads, Worker(w), UNCHANGED runVars
  PROVE  LoopInv'
<1>1. PICK label : WorkerShape(w, label)
  BY WorkerHasShape
<1>2. /\ wpc \in [Workloads -> WorkerPoints]
      /\ \A i \in DOMAIN workloads : i \in Nat /\ workloads[i] \in Workloads
  BY DEF RunnerTypeOK
<1>3. /\ UNCHANGED <<workloads, rpc, runErr, batchStart, opts, BatchSize, Batch>>
      /\ \A v \in Workloads : wpc'[v] = IF v = w THEN label ELSE wpc[v]
  BY <1>1, <1>2 DEF WorkerShape, runVars, BatchSize, Batch, BatchIndices
<1>4. rpc = "batch" /\ wpc[w] \notin {"idle", "done"} /\ label # "idle"
  BY <1>1 DEF LoopInv, WorkerShape, Running, WorkerPoints
<1>5. BatchBarrier'
  BY <1>2, <1>3, <1>4 DEF LoopInv, BatchBarrier
<1>6. \A v \in Workloads :
        wpc'[v] # "idle" => \E i \in DOMAIN workloads : workloads[i] = v
  BY <1>3, <1>4 DEF LoopInv
<1>7. \A v \in Batch : wpc'[v] # "idle"
  <2>1. Batch \subseteq Workloads
    BY <1>2 DEF Batch, BatchIndices
  <2> QED
    BY <1>3, <1>4, <2>1 DEF LoopInv
<1> QED
  BY <1>3, <1>4, <1>5, <1>6, <1>7 DEF LoopInv, SuccessMeansAllDone

\* A goroutine records its workload in the checkpoint only after it has seen the
\* workload's pods off the node.
LEMMA WorkerSound ==
  ASSUME RunnerTypeOK, SoundInv, NEW w \in Workloads, Worker(w), UNCHANGED runVars
  PROVE  SoundInv'
<1> USE DEF SoundInv, Sound
<1>1. opts' = opts
  BY DEF runVars
<1>2. wpc \in [Workloads -> WorkerPoints]
  BY DEF RunnerTypeOK
<1>3. ASSUME UNCHANGED <<cp, cpFile, snap, moved>>,
             NEW label, label # "save", wpc' = [wpc EXCEPT ![w] = label]
      PROVE  SoundInv'
  BY <1>1, <1>2, <1>3
<1>4. CASE DryRunRestart(w)
  BY <1>3, <1>4 DEF DryRunRestart, Advance
<1>5. CASE RestartPatched(w)
  BY <1>3, <1>5 DEF RestartPatched, Advance
<1>6. CASE RolloutDone(w)
  BY <1>3, <1>6 DEF RolloutDone, Advance
<1>7. CASE RestartFails(w)
  BY <1>3, <1>7 DEF RestartFails, Advance
<1>8. CASE PodsOffNode(w)
  <2>1. /\ moved' = moved \cup {<<w, snap[w]>>}
        /\ UNCHANGED <<cp, cpFile, snap>>
    BY <1>8 DEF PodsOffNode
  <2>2. \A v \in Workloads : wpc'[v] = "save" => v = w \/ wpc[v] = "save"
    BY <1>2, <1>8 DEF PodsOffNode, Advance
  <2> QED
    BY <2>1, <2>2
<1>9. CASE SaveCP(w)
  <2>1. cp \in CheckpointFiles /\ snap[w] \in Identity /\ opts \in Options
    BY DEF RunnerTypeOK, RunTypeOK
  <2>2. /\ cp'.entries = [cp.entries EXCEPT ![w] = snap[w]]
        /\ cp.entries \in [Workloads -> Identity \cup {NoEntry, LegacyEntry}]
    BY <1>9, <2>1, MarkedFile DEF SaveCP, CheckpointFiles
  <2>3. \A v \in Workloads :
          cp'.entries[v] = IF v = w THEN snap[w] ELSE cp.entries[v]
    BY <2>2
  <2>4. <<w, snap[w]>> \in moved /\ UNCHANGED <<moved, snap>>
    BY <1>9 DEF SaveCP
  <2>5. Sound(cp)'
    BY <2>3, <2>4
  <2>6. Sound(cpFile)'
    BY <1>9, <2>4, <2>5 DEF SaveCP
  <2>7. \A v \in Workloads : wpc'[v] = "save" => wpc[v] = "save"
    BY <1>2, <1>9 DEF SaveCP, Advance
  <2> QED
    BY <1>1, <2>4, <2>5, <2>6, <2>7
<1> QED
  BY <1>4, <1>5, <1>6, <1>7, <1>8, <1>9 DEF Worker

(***************************************************************************)
(* The steps of runWorkloads itself.                                       *)
(***************************************************************************)
\* The loop keeps the types and the slice free of duplicates.
LEMMA LoopType ==
  ASSUME RunnerTypeOK, Distinct(workloads), RunnerLoop, UNCHANGED runVars
  PROVE  RunnerTypeOK' /\ Distinct(workloads)'
<1>1. ClusterTypeOK' /\ RunTypeOK' /\ UNCHANGED <<snap, cpFile>>
  BY DEF RunnerTypeOK, ClusterTypeOK, RunTypeOK, clusterVars, runVars, RunnerLoop,
         BeginNothing, BeginFresh, BeginResumed, BeginError, LoopEnds, StartBatch,
         NextBatch, FailBatch
<1>2. workloads' \in Seq(Workloads) /\ Distinct(workloads)'
  <2>1. CASE UNCHANGED workloads
    BY <2>1 DEF RunnerTypeOK, Distinct
  <2>2. CASE BeginFresh
    <3>1. workloads' \in SortByPriority(workloads, DOMAIN workloads)
      BY <2>2 DEF BeginFresh
    <3> QED
      BY <3>1, SortedSlice DEF RunnerTypeOK, Distinct
  <2>3. CASE BeginResumed
    <3>1. workloads' \in SortByPriority(workloads, toRestart)
      BY <2>3 DEF BeginResumed
    <3>2. toRestart \in SUBSET DOMAIN workloads
      BY DEF toRestart
    <3> QED
      BY <3>1, <3>2, SortedSlice DEF RunnerTypeOK, Distinct
  <2> QED
    BY <2>1, <2>2, <2>3 DEF RunnerLoop, BeginNothing, BeginError, LoopEnds,
                            StartBatch, NextBatch, FailBatch
<1>3. cp' \in CheckpointFiles /\ cpFile \in CheckpointFiles
  <2>1. cp \in CheckpointFiles /\ cpFile \in CheckpointFiles /\ opts \in Options
    BY DEF RunnerTypeOK, RunTypeOK
  <2>2. CASE UNCHANGED cp
    BY <2>1, <2>2
  <2>3. CASE BeginFresh
    BY <2>1, <2>3, EmptyFile, ClaimedFile DEF BeginFresh
  <2>4. CASE BeginResumed
    BY <2>1, <2>4, ClaimedFile DEF BeginResumed
  <2> QED
    BY <2>2, <2>3, <2>4 DEF RunnerLoop, BeginNothing, BeginError, LoopEnds,
                            StartBatch, NextBatch, FailBatch
<1>4. wpc' \in [Workloads -> WorkerPoints] /\ gctxErr' \in BOOLEAN
  BY DEF RunnerTypeOK, WorkerPoints, Running, RunnerLoop, BeginNothing, BeginFresh,
         BeginResumed, BeginError, LoopEnds, StartBatch, NextBatch, FailBatch
<1>5. BatchSize \in Nat /\ batchStart \in Nat /\ runErr \in BOOLEAN
  BY DEF BatchSize, RunnerTypeOK, RunTypeOK
<1>6. /\ rpc' \in {"idle", "begin", "loop", "batch", "returned"}
      /\ runErr' \in BOOLEAN
      /\ batchStart' \in Nat
  <2> USE <1>5 DEF ReturnRunner, EnterLoop
  <2>1. CASE BeginNothing \/ BeginError \/ LoopEnds \/ FailBatch
    BY <2>1 DEF BeginNothing, BeginError, LoopEnds, FailBatch
  <2>2. CASE BeginFresh \/ BeginResumed
    BY <2>2 DEF BeginFresh, BeginResumed
  <2>3. CASE StartBatch \/ NextBatch
    BY <2>3 DEF StartBatch, NextBatch
  <2> QED
    BY <2>1, <2>2, <2>3 DEF RunnerLoop
<1> QED
  BY <1>1, <1>2, <1>3, <1>4, <1>6 DEF RunnerTypeOK

\* Positions of a slice are positive, and its elements are workloads.
LEMMA SlicePositions ==
  ASSUME NEW s \in Seq(Workloads)
  PROVE  /\ Len(s) \in Nat
         /\ \A i \in DOMAIN s : i \in Nat /\ 1 <= i /\ i <= Len(s) /\ s[i] \in Workloads
OBVIOUS

\* The loop starts goroutines in the next batch only, and leaves a batch only
\* when all of them have returned.
LEMMA LoopLoop ==
  ASSUME RunnerTypeOK, Distinct(workloads), LoopInv, RunnerLoop, UNCHANGED runVars,
         RunnerTypeOK'
  PROVE  LoopInv'
<1>1. /\ workloads \in Seq(Workloads) /\ workloads' \in Seq(Workloads)
      /\ wpc \in [Workloads -> WorkerPoints]
      /\ batchStart \in Nat
      /\ opts' = opts
      /\ BatchSize \in Nat
  BY DEF RunnerTypeOK, RunTypeOK, BatchSize, runVars
<1>2. Len(workloads) \in Nat
      /\ \A i \in DOMAIN workloads :
           i \in Nat /\ 1 <= i /\ i <= Len(workloads) /\ workloads[i] \in Workloads
  BY <1>1, SlicePositions
<1>3. CASE BeginNothing \/ BeginError
  <2>1. /\ rpc = "begin" /\ rpc' = "returned"
        /\ UNCHANGED <<workloads, wpc, batchStart>>
        /\ runErr' \/ workloads = <<>>
    BY <1>3 DEF BeginNothing, BeginError, ReturnRunner
  <2>2. UNCHANGED BatchSize
    BY <1>1, <2>1 DEF BatchSize
  <2>3. BatchBarrier'
    BY <2>1, <2>2 DEF LoopInv, BatchBarrier
  <2> QED
    BY <2>1, <2>3 DEF LoopInv, SuccessMeansAllDone, Running
<1>4. CASE BeginFresh \/ BeginResumed
  <2>1. /\ rpc = "begin" /\ rpc' = "loop" /\ batchStart' = 0 /\ UNCHANGED wpc
    BY <1>4 DEF BeginFresh, BeginResumed, EnterLoop
  <2>2. \A w \in Workloads : wpc'[w] = "idle"
    BY <2>1 DEF LoopInv
  <2>3. \A i \in DOMAIN workloads' : i \in Nat /\ 1 <= i /\ workloads'[i] \in Workloads
    BY <1>1, SlicePositions
  <2>4. BatchBarrier'
    BY <2>1, <2>2, <2>3 DEF BatchBarrier
  <2> QED
    BY <2>1, <2>2, <2>3, <2>4 DEF LoopInv, SuccessMeansAllDone, Running
<1>5. CASE LoopEnds
  <2>1. /\ rpc = "loop" /\ rpc' = "returned"
        /\ UNCHANGED <<workloads, wpc, batchStart>>
        /\ batchStart >= Len(workloads)
    BY <1>5 DEF LoopEnds, ReturnRunner
  <2>2. UNCHANGED BatchSize
    BY <1>1, <2>1 DEF BatchSize
  <2>3. BatchBarrier'
    BY <2>1, <2>2 DEF LoopInv, BatchBarrier
  <2>4. \A i \in DOMAIN workloads : wpc[workloads[i]] = "done"
    BY <1>1, <1>2, <2>1 DEF LoopInv, BatchBarrier
  <2> QED
    BY <2>1, <2>3, <2>4 DEF LoopInv, SuccessMeansAllDone
<1>6. CASE StartBatch
  <2>1. /\ rpc = "loop" /\ rpc' = "batch"
        /\ UNCHANGED <<workloads, batchStart>>
        /\ \A w \in Workloads : wpc'[w] = IF w \in Batch THEN "patch" ELSE wpc[w]
    BY <1>6 DEF StartBatch
  <2>2. UNCHANGED <<BatchSize, Batch>>
    BY <1>1, <2>1 DEF BatchSize, Batch, BatchIndices
  <2>3. \A i \in DOMAIN workloads :
          workloads[i] \in Batch <=> batchStart < i /\ i <= batchStart + BatchSize
    BY DEF Batch, BatchIndices, Distinct
  <2>4. BatchBarrier'
    <3>1. ASSUME NEW i \in DOMAIN workloads, i <= batchStart
          PROVE  wpc'[workloads[i]] = "done"
      <4>1. workloads[i] \notin Batch
        BY <1>1, <1>2, <2>3, <3>1
      <4> QED
        BY <1>2, <2>1, <3>1, <4>1 DEF LoopInv, BatchBarrier
    <3>2. ASSUME NEW i \in DOMAIN workloads, i > batchStart + BatchSize
          PROVE  wpc'[workloads[i]] = "idle"
      <4>1. workloads[i] \notin Batch /\ i > batchStart
        BY <1>1, <1>2, <2>3, <3>2
      <4> QED
        BY <1>2, <2>1, <4>1 DEF LoopInv
    <3> QED
      BY <2>1, <2>2, <3>1, <3>2 DEF BatchBarrier
  <2>5. Batch \subseteq Workloads
    BY <1>2 DEF Batch, BatchIndices
  <2>6. \A w \in Workloads :
          wpc'[w] # "idle" => \E i \in DOMAIN workloads : workloads[i] = w
    BY <2>1 DEF LoopInv, Batch, BatchIndices
  <2> QED
    BY <2>1, <2>2, <2>4, <2>5, <2>6 DEF LoopInv, SuccessMeansAllDone
<1>7. CASE NextBatch \/ FailBatch
  <2>1. /\ rpc = "batch" /\ BatchReturned
        /\ UNCHANGED <<workloads, wpc, opts>>
    BY <1>1, <1>7 DEF NextBatch, FailBatch
  <2>2. UNCHANGED BatchSize
    BY <2>1 DEF BatchSize
  <2>3. ASSUME NEW w \in Workloads PROVE wpc[w] \notin Running
    <3>1. CASE w \in Batch
      BY <2>1, <3>1 DEF BatchReturned
    <3>2. CASE \E i \in DOMAIN workloads : workloads[i] = w /\ i \notin BatchIndices
      BY <1>1, <1>2, <3>2 DEF LoopInv, BatchBarrier, BatchIndices, Running
    <3>3. CASE \A i \in DOMAIN workloads : workloads[i] # w
      BY <3>3 DEF LoopInv, Running
    <3> QED
      BY <3>1, <3>2, <3>3 DEF Batch
  <2>4. CASE FailBatch
    <3>1. rpc' = "returned" /\ runErr' /\ UNCHANGED batchStart
      BY <2>4 DEF FailBatch, ReturnRunner
    <3>2. BatchBarrier'
      BY <2>1, <2>2, <3>1 DEF LoopInv, BatchBarrier
    <3> QED
      BY <2>1, <2>3, <3>1, <3>2 DEF LoopInv, SuccessMeansAllDone
  <2>5. CASE NextBatch
    <3>1. rpc' = "loop" /\ batchStart' = batchStart + BatchSize /\ ~BatchFailed
      BY <2>5 DEF NextBatch
    <3>2. ASSUME NEW i \in DOMAIN workloads, i <= batchStart'
          PROVE  wpc[workloads[i]] = "done"
      <4>1. CASE i <= batchStart
        BY <4>1 DEF LoopInv, BatchBarrier
      <4>2. CASE batchStart < i
        <5>1. workloads[i] \in Batch /\ workloads[i] \in Workloads
          BY <1>2, <3>1, <3>2, <4>2 DEF Batch, BatchIndices
        <5>2. wpc[workloads[i]] \notin Running \cup {"idle", "failed"}
          BY <2>1, <2>3, <3>1, <5>1 DEF LoopInv, BatchFailed
        <5> QED
          BY <1>1, <5>1, <5>2 DEF WorkerPoints
      <4> QED
        BY <1>1, <1>2, <4>1, <4>2
    <3>3. ASSUME NEW i \in DOMAIN workloads, i > batchStart'
          PROVE  wpc[workloads[i]] = "idle"
      BY <3>1, <3>3 DEF LoopInv, BatchBarrier
    <3>4. BatchBarrier'
      <4>1. \A i \in DOMAIN workloads :
              i > batchStart' + BatchSize => i > batchStart'
        BY <1>1, <1>2, <3>1
      <4> QED
        BY <2>1, <2>2, <3>2, <3>3, <4>1 DEF BatchBarrier
    <3> QED
      BY <2>1, <2>3, <3>1, <3>3, <3>4 DEF LoopInv, SuccessMeansAllDone
  <2> QED
    BY <1>7, <2>4, <2>5
<1> QED
  BY <1>3, <1>4, <1>5, <1>6, <1>7 DEF RunnerLoop

\* The loop writes no checkpoint; the one it starts with is the file's or empty.
LEMMA LoopSound ==
  ASSUME RunnerTypeOK, SoundInv, RunnerLoop, UNCHANGED runVars
  PROVE  SoundInv'
<1> USE DEF SoundInv, Sound
<1>1. UNCHANGED <<cpFile, snap, moved>>
  BY DEF RunnerLoop, BeginNothing, BeginFresh, BeginResumed, BeginError, LoopEnds,
         StartBatch, NextBatch, FailBatch
<1>2. Sound(cp)'
  <2>1. CASE UNCHANGED cp
    BY <1>1, <2>1
  <2>2. CASE BeginFresh
    <3>1. \A w \in Workloads : cp'.entries[w] = NoEntry
      BY <2>2, EmptyFile, ClaimedFile DEF BeginFresh, RunnerTypeOK, RunTypeOK
    <3> QED
      BY <3>1
  <2>3. CASE BeginResumed
    <3>1. cp'.entries = cpFile.entries
      BY <2>3, ClaimedFile DEF BeginResumed, RunnerTypeOK, RunTypeOK
    <3> QED
      BY <1>1, <3>1
  <2> QED
    BY <2>1, <2>2, <2>3 DEF RunnerLoop, BeginNothing, BeginError, LoopEnds,
                            StartBatch, NextBatch, FailBatch
<1>3. \A w \in Workloads : wpc'[w] = "save" => wpc[w] = "save"
  BY DEF RunnerLoop, BeginNothing, BeginFresh, BeginResumed, BeginError, LoopEnds,
         StartBatch, NextBatch, FailBatch
<1> QED
  BY <1>1, <1>2, <1>3

(***************************************************************************)
(* Every step.                                                             *)
(***************************************************************************)
\* The inductive invariant looks at these variables only; where they stay and
\* the types are kept it is kept.
LEMMA OthersStep ==
  ASSUME RunnerInv, RunnerTypeOK', UNCHANGED <<opts, runnerVars>>
  PROVE  RunnerInv'
<1>1. UNCHANGED <<BatchSize, Batch>>
  BY DEF runnerVars, BatchSize, Batch, BatchIndices
<1>2. Distinct(workloads)'
  BY DEF RunnerInv, Distinct, runnerVars
<1>3. LoopInv'
  BY <1>1 DEF RunnerInv, LoopInv, BatchBarrier, SuccessMeansAllDone, runnerVars
<1>4. SoundInv'
  BY DEF RunnerInv, SoundInv, Sound, runnerVars
<1> QED
  BY <1>2, <1>3, <1>4 DEF RunnerInv

\* Every step of the specification preserves the inductive invariant.
LEMMA RunnerStepInv ==
  RunnerInv /\ [RunnerNext]_allRunnerVars => RunnerInv'
<1> SUFFICES ASSUME RunnerInv, [RunnerNext]_allRunnerVars
             PROVE  RunnerInv'
  OBVIOUS
<1>1. CASE RunnerStep
  <2>1. CASE RunnerLoop
    <3>1. RunnerTypeOK' /\ Distinct(workloads)'
      BY <1>1, <2>1, LoopType DEF RunnerInv, RunnerStep
    <3>2. LoopInv'
      BY <1>1, <2>1, <3>1, LoopLoop DEF RunnerInv, RunnerStep
    <3>3. SoundInv'
      BY <1>1, <2>1, LoopSound DEF RunnerInv, RunnerStep
    <3> QED
      BY <3>1, <3>2, <3>3 DEF RunnerInv
  <2>2. ASSUME NEW w \in Workloads, Worker(w)
        PROVE  RunnerInv'
    <3>1. RunnerTypeOK' /\ Distinct(workloads)'
      BY <1>1, <2>2, WorkerType DEF RunnerInv, RunnerStep
    <3>2. LoopInv'
      BY <1>1, <2>2, WorkerLoop DEF RunnerInv, RunnerStep
    <3>3. SoundInv'
      BY <1>1, <2>2, WorkerSound DEF RunnerInv, RunnerStep
    <3> QED
      BY <3>1, <3>2, <3>3 DEF RunnerInv
  <2> QED
    BY <1>1, <2>1, <2>2 DEF RunnerStep
<1>2. CASE ClusterStep /\ UNCHANGED <<runVars, runnerVars>>
  <2>1. ClusterTypeOK'
    BY <1>2, ClusterType DEF RunnerInv, RunnerTypeOK
  <2>2. RunnerTypeOK'
    BY <1>2, <2>1 DEF RunnerInv, RunnerTypeOK, RunTypeOK, runVars, runnerVars
  <2> QED
    BY <1>2, <2>2, OthersStep DEF runVars
<1>3. CASE RunnerCtxEnds
  <2>1. RunnerTypeOK'
    BY <1>3 DEF RunnerInv, RunnerTypeOK, RunTypeOK, ClusterTypeOK, clusterVars,
                runnerVars, RunnerCtxEnds, CtxEnds
  <2> QED
    BY <1>3, <2>1, OthersStep DEF RunnerCtxEnds, CtxEnds
<1>4. CASE UNCHANGED allRunnerVars
  <2>1. RunnerTypeOK'
    BY <1>4 DEF RunnerInv, RunnerTypeOK, RunTypeOK, ClusterTypeOK, clusterVars,
                runVars, runnerVars, allRunnerVars
  <2> QED
    BY <1>4, <2>1, OthersStep DEF allRunnerVars, runVars
<1> QED
  BY <1>1, <1>2, <1>3, <1>4 DEF RunnerNext, RunnerFinished

(***************************************************************************)
(* Order: the slice stays sorted.                                          *)
(***************************************************************************)
\* The slice is sorted before anything begins, and left alone afterwards.
LEMMA SortedWithin ==
  ASSUME RunnerTypeOK, LoopInv, SortedInv, RunnerStep
  PROVE  SortedInv'
<1> DEFINE Begun == rpc \in {"loop", "batch"} \/ \E w \in Workloads : wpc[w] # "idle"
<1>1. CASE workloads' = workloads /\ (Begun' => Begun)
  BY <1>1 DEF SortedInv, Sorted
<1>2. rpc = "begin" => \A w \in Workloads : wpc[w] = "idle"
  BY DEF LoopInv
<1>3. CASE BeginFresh \/ BeginResumed
  <2>1. /\ workloads \in Seq(Workloads) /\ toRestart \in SUBSET DOMAIN workloads
        /\ workloads' \in SortByPriority(workloads, DOMAIN workloads)
                            \cup SortByPriority(workloads, toRestart)
    BY <1>3 DEF RunnerTypeOK, BeginFresh, BeginResumed, toRestart
  <2>2. Sorted(workloads')
    BY <2>1, SliceIsSorted
  <2> QED
    BY <2>2 DEF SortedInv, Sorted
<1>4. CASE BeginNothing \/ BeginError
  BY <1>1, <1>2, <1>4 DEF BeginNothing, BeginError, ReturnRunner
<1>5. CASE LoopEnds \/ StartBatch \/ NextBatch \/ FailBatch
  BY <1>1, <1>5 DEF LoopEnds, StartBatch, NextBatch, FailBatch
<1>6. ASSUME NEW w \in Workloads, Worker(w)
      PROVE  SortedInv'
  <2>1. workloads' = workloads /\ wpc[w] # "idle"
    BY <1>6, WorkerHasShape DEF WorkerShape, Running
  <2> QED
    BY <1>1, <2>1
<1> QED
  BY <1>3, <1>4, <1>5, <1>6 DEF RunnerStep, RunnerLoop

\* Steps of others do not concern it.
LEMMA SortedStep ==
  RunnerInv /\ SortedInv /\ [RunnerNext]_allRunnerVars => SortedInv'
<1> SUFFICES ASSUME RunnerInv, SortedInv, [RunnerNext]_allRunnerVars
             PROVE  SortedInv'
  OBVIOUS
<1>1. CASE UNCHANGED runnerVars
  BY <1>1 DEF SortedInv, Sorted, runnerVars
<1> QED
  BY <1>1, SortedWithin
     DEF RunnerInv, RunnerNext, RunnerStep, RunnerCtxEnds, RunnerFinished, allRunnerVars

\* A batch is begun by one step.
LEMMA WholeStep ==
  RunnerInv /\ WholeInv /\ [RunnerNext]_allRunnerVars => WholeInv'
<1> SUFFICES ASSUME RunnerInv, WholeInv, [RunnerNext]_allRunnerVars
             PROVE  WholeInv'
  OBVIOUS
<1> USE DEF WholeInv
<1>1. CASE UNCHANGED <<opts, workloads, batchStart, rpc, wpc>>
  BY <1>1 DEF Batch, BatchIndices, BatchSize
<1>2. CASE rpc' \in {"begin", "loop", "batch"}
  BY <1>2
<1>3. ASSUME RunnerLoop, UNCHANGED runVars
      PROVE  WholeInv'
  <2>1. CASE BeginNothing \/ BeginError
    <3>1. UNCHANGED <<workloads, wpc>> /\ rpc = "begin" /\ rpc' = "returned"
      BY <2>1 DEF BeginNothing, BeginError, ReturnRunner
    <3>2. \A i \in DOMAIN workloads : wpc[workloads[i]] = "idle"
      BY <3>1, SlicePositions DEF RunnerInv, RunnerTypeOK, LoopInv
    <3> QED
      BY <3>1, <3>2 DEF Batch, BatchIndices
  <2>2. CASE LoopEnds
    <3>1. UNCHANGED <<workloads, batchStart>> /\ batchStart >= Len(workloads)
          /\ rpc' = "returned"
      BY <2>2 DEF LoopEnds, ReturnRunner
    <3>2. \A i \in DOMAIN workloads : ~(batchStart < i)
      BY <3>1, SlicePositions DEF RunnerInv, RunnerTypeOK
    <3> QED
      BY <3>1, <3>2 DEF Batch, BatchIndices
  <2>3. CASE FailBatch
    <3>1. rpc = "batch" /\ rpc' = "returned"
          /\ UNCHANGED <<opts, workloads, batchStart, wpc>>
      BY <1>3, <2>3 DEF FailBatch, ReturnRunner, runVars
    <3>2. \A w \in Batch : wpc[w] # "idle"
      BY <3>1 DEF RunnerInv, LoopInv
    <3> QED
      BY <3>1, <3>2 DEF Batch, BatchIndices, BatchSize
  <2>4. CASE BeginFresh \/ BeginResumed \/ StartBatch \/ NextBatch
    BY <1>2, <2>4 DEF BeginFresh, BeginResumed, EnterLoop, StartBatch, NextBatch
  <2> QED
    BY <1>3, <2>1, <2>2, <2>3, <2>4 DEF RunnerLoop
<1>4. ASSUME NEW w \in Workloads, Worker(w)
      PROVE  WholeInv'
  <2>1. rpc' = rpc /\ wpc[w] \in Running
    BY <1>4, WorkerHasShape DEF WorkerShape
  <2>2. rpc = "batch"
    BY <2>1 DEF RunnerInv, LoopInv
  <2> QED
    BY <1>2, <2>1, <2>2
<1> QED
  BY <1>1, <1>3, <1>4
     DEF RunnerNext, RunnerStep, RunnerCtxEnds, RunnerFinished, CtxEnds,
         runVars, runnerVars, allRunnerVars

\* In a sorted slice a workload of a later tier stands behind those of earlier ones.
LEMMA LaterTierBehind ==
  ASSUME RunnerTypeOK, Sorted(workloads),
         NEW i \in DOMAIN workloads, NEW j \in DOMAIN workloads,
         Priority[workloads[i]] < Priority[workloads[j]]
  PROVE  i < j
<1>1. /\ i \in Nat /\ j \in Nat
      /\ workloads[i] \in Workloads /\ workloads[j] \in Workloads
  BY SlicePositions DEF RunnerTypeOK
<1>2. Priority[workloads[i]] \in Int /\ Priority[workloads[j]] \in Int
  BY <1>1, PriorityAssumption
<1>3. j < i => Priority[workloads[j]] <= Priority[workloads[i]]
  BY DEF Sorted
<1> QED
  BY <1>1, <1>2, <1>3

\* With batches of one, an earlier tier is done before a later one begins.
LEMMA SortedSequence ==
  ASSUME RunnerTypeOK, BatchBarrier, SortedInv
  PROVE  SequentialPriorityOrder
<1> SUFFICES ASSUME opts.maxC = 1,
                    NEW i \in DOMAIN workloads, NEW j \in DOMAIN workloads,
                    Priority[workloads[i]] < Priority[workloads[j]],
                    wpc[workloads[j]] # "idle"
             PROVE  wpc[workloads[i]] = "done"
  BY DEF SequentialPriorityOrder, TiersInOrder
<1>1. /\ batchStart \in Nat /\ BatchSize = 1
      /\ i \in Nat /\ j \in Nat /\ workloads[j] \in Workloads
  BY SlicePositions DEF RunnerTypeOK, BatchSize
<1>2. i < j
  BY <1>1, LaterTierBehind DEF SortedInv
<1>3. j <= batchStart + 1
  BY <1>1 DEF BatchBarrier
<1> QED
  BY <1>1, <1>2, <1>3 DEF BatchBarrier

\* With larger ones, an earlier tier has begun by then.
LEMMA SortedTiers ==
  ASSUME RunnerInv, SortedInv, WholeInv
  PROVE  TiersNeverReversed
<1> SUFFICES ASSUME NEW i \in DOMAIN workloads, NEW j \in DOMAIN workloads,
                    Priority[workloads[i]] < Priority[workloads[j]],
                    wpc[workloads[j]] # "idle"
             PROVE  wpc[workloads[i]] # "idle"
  BY DEF TiersNeverReversed
<1>1. /\ batchStart \in Nat /\ BatchSize \in Nat
      /\ i \in Nat /\ j \in Nat /\ workloads[j] \in Workloads
      /\ rpc \in {"begin", "loop", "batch", "returned"}
  BY SlicePositions DEF RunnerInv, RunnerTypeOK, RunTypeOK, BatchSize, WholeInv
<1>2. i < j
  BY <1>1, LaterTierBehind DEF SortedInv, RunnerInv
<1>3. j <= batchStart + BatchSize
  BY <1>1 DEF RunnerInv, LoopInv, BatchBarrier
<1>4. CASE i <= batchStart
  BY <1>4 DEF RunnerInv, LoopInv, BatchBarrier
<1>5. CASE batchStart < i
  <2>1. workloads[i] \in Batch /\ workloads[j] \in Batch
    BY <1>1, <1>2, <1>3, <1>5 DEF Batch, BatchIndices
  <2>2. batchStart < j
    BY <1>1, <1>2, <1>5
  <2> QED
    BY <1>1, <2>1, <2>2 DEF RunnerInv, LoopInv, WholeInv
<1> QED
  BY <1>1, <1>4, <1>5

(***************************************************************************)
(* The checkpoint in memory covers the file it replaces.                   *)
(***************************************************************************)
\* What a save writes holds the entry of the workload and all there were before.
LEMMA SavedEntries ==
  ASSUME RunnerTypeOK, NEW w \in Workloads, SaveCP(w)
  PROVE  /\ cp'.entries[w] # NoEntry
         /\ \A v \in Workloads : cp.entries[v] # NoEntry => cp'.entries[v] # NoEntry
<1>1. cp \in CheckpointFiles /\ snap[w] \in Identity /\ opts \in Options
  BY DEF RunnerTypeOK, RunTypeOK
<1>2. /\ cp'.entries = [cp.entries EXCEPT ![w] = snap[w]]
      /\ cp.entries \in [Workloads -> Identity \cup {NoEntry, LegacyEntry}]
  <2>1. CP!MarkDone(cp, opts.context, w, snap[w]).entries = [cp.entries EXCEPT ![w] = snap[w]]
    BY <1>1, MarkedFile
  <2> QED
    BY <1>1, <2>1 DEF SaveCP, CheckpointFiles
<1>3. \A v \in Workloads : cp'.entries[v] = IF v = w THEN snap[w] ELSE cp.entries[v]
  BY <1>2
<1> QED
  BY <1>1, <1>3, EntryAssumption

\* A goroutine that ends without an error has saved, unless nothing is done at all.
LEMMA WorkerKeeps ==
  ASSUME RunnerInv, KeptInv, NEW w \in Workloads, Worker(w), opts' = opts
  PROVE  KeptInv'
<1> USE DEF KeptInv
<1>1. wpc \in [Workloads -> WorkerPoints] /\ RunnerTypeOK
  BY DEF RunnerInv, RunnerTypeOK
<1>2. rpc' = rpc
  BY WorkerHasShape DEF WorkerShape
<1>3. ASSUME UNCHANGED <<cp, cpFile>>, NEW label, wpc' = [wpc EXCEPT ![w] = label],
             label \in {"rollout", "vacate", "save", "done"} =>
               (label = "done" <=> opts.dryRun)
      PROVE  KeptInv'
  BY <1>1, <1>2, <1>3
<1>4. CASE DryRunRestart(w)
  BY <1>3, <1>4 DEF DryRunRestart, Advance
<1>5. CASE RestartPatched(w)
  BY <1>3, <1>5 DEF RestartPatched, Advance
<1>6. CASE RolloutDone(w)
  BY <1>3, <1>6 DEF RolloutDone, Advance
<1>7. CASE PodsOffNode(w)
  BY <1>3, <1>7 DEF PodsOffNode, Advance
<1>8. CASE RestartFails(w)
  BY <1>3, <1>8 DEF RestartFails, Advance
<1>9. CASE SaveCP(w)
  <2>1. /\ cpFile' \in {cp', cpFile}
        /\ \A v \in Workloads : wpc'[v] = IF v = w THEN "done" ELSE wpc[v]
    BY <1>1, <1>9 DEF SaveCP, Advance
  <2>2. /\ cp'.entries[w] # NoEntry
        /\ \A v \in Workloads : cp.entries[v] # NoEntry => cp'.entries[v] # NoEntry
    BY <1>1, <1>9, SavedEntries
  <2> QED
    BY <1>2, <2>1, <2>2
<1> QED
  BY <1>4, <1>5, <1>6, <1>7, <1>8, <1>9 DEF Worker

\* A resumed run begins with what the file holds.
LEMMA KeptStep ==
  RunnerInv /\ KeptInv /\ [RunnerNext]_allRunnerVars => KeptInv'
<1> SUFFICES ASSUME RunnerInv, KeptInv, [RunnerNext]_allRunnerVars
             PROVE  KeptInv'
  OBVIOUS
<1>1. CASE UNCHANGED <<opts, cp, cpFile, rpc, wpc>>
  BY <1>1 DEF KeptInv
<1>2. ASSUME RunnerLoop, opts' = opts
      PROVE  KeptInv'
  <2>1. CASE BeginFresh
    <3>1. /\ rpc = "begin" /\ UNCHANGED wpc /\ ~opts.resume
      BY <2>1 DEF BeginFresh
    <3> QED
      BY <1>2, <3>1 DEF KeptInv, RunnerInv, LoopInv
  <2>2. CASE BeginResumed
    <3>1. /\ rpc = "begin" /\ UNCHANGED <<wpc, cpFile>> /\ cp'.entries = cpFile.entries
      BY <2>2, ClaimedFile DEF BeginResumed, RunnerInv, RunnerTypeOK, RunTypeOK
    <3> QED
      BY <1>2, <3>1 DEF KeptInv, RunnerInv, LoopInv
  <2>3. CASE StartBatch
    <3>1. /\ UNCHANGED <<cp, cpFile>> /\ rpc = "loop"
          /\ \A w \in Workloads : wpc'[w] \in {"patch", wpc[w]}
      BY <2>3 DEF StartBatch
    <3> QED
      BY <1>2, <3>1 DEF KeptInv
  <2>4. CASE BeginNothing \/ BeginError \/ LoopEnds \/ NextBatch \/ FailBatch
    <3>1. /\ UNCHANGED <<cp, cpFile, wpc>>
          /\ rpc' = "returned" \/ rpc = "batch"
      BY <2>4 DEF BeginNothing, BeginError, LoopEnds, NextBatch, FailBatch, ReturnRunner
    <3> QED
      BY <1>2, <3>1 DEF KeptInv
  <2> QED
    BY <1>2, <2>1, <2>2, <2>3, <2>4 DEF RunnerLoop
<1> QED
  BY <1>1, <1>2, WorkerKeeps
     DEF RunnerNext, RunnerStep, RunnerCtxEnds, RunnerFinished, CtxEnds,
         runVars, runnerVars, allRunnerVars

\* The file is only replaced by a checkpoint that holds what it held.
LEMMA FileKept ==
  ASSUME RunnerInv, KeptInv, [RunnerNext]_allRunnerVars,
         NEW w \in Workloads, cpFile.entries[w] # NoEntry,
         opts.resume \/ wpc[w] = "done"
  PROVE  cpFile'.entries[w] # NoEntry
<1>1. CASE cpFile' = cpFile
  BY <1>1
<1>2. ASSUME NEW v \in Workloads, SaveCP(v)
      PROVE  cpFile'.entries[w] # NoEntry
  <2>1. wpc[v] = "save" /\ cpFile' \in {cp', cpFile}
    BY <1>2 DEF SaveCP
  <2>2. rpc = "batch" /\ ~opts.dryRun
    BY <2>1 DEF RunnerInv, LoopInv, KeptInv, Running
  <2>3. cp.entries[w] # NoEntry
    BY <2>2 DEF KeptInv
  <2>4. cp'.entries[w] # NoEntry
    BY <1>2, <2>3, SavedEntries DEF RunnerInv
  <2> QED
    BY <1>1, <2>1, <2>4
<1>3. RunnerLoop => cpFile' = cpFile
  BY DEF RunnerLoop, BeginNothing, BeginFresh, BeginResumed, BeginError, LoopEnds,
         StartBatch, NextBatch, FailBatch
<1>4. \A v \in Workloads : Worker(v) => SaveCP(v) \/ cpFile' = cpFile
  BY DEF Worker, DryRunRestart, RestartPatched, RolloutDone, PodsOffNode, RestartFails
<1> QED
  BY <1>1, <1>2, <1>3, <1>4
     DEF RunnerNext, RunnerStep, RunnerCtxEnds, RunnerFinished, runnerVars, allRunnerVars

\* A window of n positions has n elements.
LEMMA WindowSize ==
  ASSUME NEW a \in Nat, NEW n \in Nat, n > 0
  PROVE  IsFiniteSet(a + 1 .. a + n) /\ Cardinality(a + 1 .. a + n) = n
<1>1. a + 1 \in Int /\ a + n \in Int
  OBVIOUS
<1>2. /\ IsFiniteSet(a + 1 .. a + n)
      /\ Cardinality(a + 1 .. a + n) =
           IF a + 1 > a + n THEN 0 ELSE (a + n) - (a + 1) + 1
  BY <1>1, FS_Interval
<1>3. (IF a + 1 > a + n THEN 0 ELSE (a + n) - (a + 1) + 1) = n
  OBVIOUS
<1> QED
  BY <1>2, <1>3

\* The running goroutines have different positions in the current batch, so
\* there are at most --max-concurrency of them.
LEMMA RunningAreFew ==
  ASSUME RunnerTypeOK, LoopInv
  PROVE  ConcurrencyLimit
<1> SUFFICES ASSUME opts.maxC > 0
             PROVE  Cardinality({w \in Workloads : wpc[w] \in Running}) <= opts.maxC
  BY DEF ConcurrencyLimit
<1> DEFINE running == {w \in Workloads : wpc[w] \in Running}
           window == batchStart + 1 .. batchStart + opts.maxC
           position == [w \in running |->
                          CHOOSE i \in DOMAIN workloads : workloads[i] = w]
<1>1. /\ opts.maxC \in Nat /\ batchStart \in Nat
      /\ \A i \in DOMAIN workloads : i \in Nat
  BY DEF RunnerTypeOK, RunTypeOK
<1>2. BatchSize = opts.maxC
  BY <1>1 DEF BatchSize
<1>3. ASSUME NEW w \in running
      PROVE  position[w] \in window /\ workloads[position[w]] = w
  <2>1. \E i \in DOMAIN workloads : workloads[i] = w
    BY DEF LoopInv, Running
  <2>2. position[w] \in DOMAIN workloads /\ workloads[position[w]] = w
    BY <2>1
  <2>3. wpc[workloads[position[w]]] \notin {"idle", "done"}
    BY <2>2 DEF Running
  <2>4. batchStart < position[w] /\ position[w] <= batchStart + opts.maxC
    BY <1>1, <1>2, <2>2, <2>3 DEF LoopInv, BatchBarrier
  <2> QED
    BY <1>1, <2>2, <2>4
<1>4. position \in Injection(running, window)
  <2>1. position \in [running -> window]
    BY <1>3
  <2>2. ASSUME NEW v \in running, NEW w \in running, position[v] = position[w]
        PROVE  v = w
    BY <1>3, <2>2
  <2> HIDE DEF position
  <2> QED
    BY <2>1, <2>2 DEF Injection, IsInjective
<1>5. /\ IsFiniteSet(window)
      /\ Cardinality(window) = opts.maxC
  BY <1>1, WindowSize
<1> HIDE DEF running, window, position
<1>6. Cardinality(running) <= Cardinality(window)
  BY <1>4, <1>5, FS_Injection
<1> QED
  BY <1>5, <1>6 DEF running

(***************************************************************************)
(* The theorems.                                                           *)
(***************************************************************************)
\* The inductive invariant holds in every reachable state.
THEOREM RunnerInvariant == RunnerSpec => []RunnerInv
<1> QED
  BY RunnerInitInv, RunnerStepInv, PTL DEF RunnerSpec

\* runWorkloads' state is well typed, whatever checkpoint file it finds.
THEOREM RunnerTypeCorrect == RunnerSpec => []RunnerTypeOK
<1>1. RunnerInv => RunnerTypeOK
  BY DEF RunnerInv
<1> QED
  BY <1>1, RunnerInvariant, PTL

\* A batch never begins before the one before it is done, whatever the batch
\* size and however the goroutines interleave.
THEOREM RunnerBatchBarrier == RunnerSpec => []BatchBarrier
<1>1. RunnerInv => BatchBarrier
  BY DEF RunnerInv, LoopInv
<1> QED
  BY <1>1, RunnerInvariant, PTL

\* Never more than --max-concurrency restarts of a node are under way.
THEOREM RunnerConcurrencyLimit == RunnerSpec => []ConcurrencyLimit
<1>1. RunnerInv => ConcurrencyLimit
  BY RunningAreFew DEF RunnerInv
<1> QED
  BY <1>1, RunnerInvariant, PTL

\* When runWorkloads has returned, no goroutine it started is still at work.
THEOREM RunnerQuietAfterReturn == RunnerSpec => []QuietAfterReturn
<1>1. RunnerInv => QuietAfterReturn
  BY DEF RunnerInv, LoopInv, QuietAfterReturn
<1> QED
  BY <1>1, RunnerInvariant, PTL

\* A nil result means that every workload it was to restart was restarted.
THEOREM RunnerSuccessMeansAllDone == RunnerSpec => []SuccessMeansAllDone
<1>1. RunnerInv => SuccessMeansAllDone
  BY DEF RunnerInv, LoopInv
<1> QED
  BY <1>1, RunnerInvariant, PTL

\* The checkpoint file claims no workload that was not rolled out and seen off
\* the node, whatever file an earlier run left.
THEOREM RunnerCheckpointSound == RunnerSpec => []CheckpointSound
<1>1. RunnerInv => CheckpointSound
  BY DEF RunnerInv, SoundInv, Sound, CheckpointSound
<1> QED
  BY <1>1, RunnerInvariant, PTL

\* The slice is sorted from the loop on.
LEMMA RunnerSorted == RunnerSpec => [](SortedInv /\ WholeInv)
<1>1. RunnerInit => SortedInv /\ WholeInv
  BY DEF RunnerInit, SortedInv, WholeInv
<1> QED
  BY <1>1, SortedStep, WholeStep, RunnerInvariant, PTL DEF RunnerSpec

\* With --max-concurrency=1 the drain-priority annotation is a strict order, for
\* any priorities.
THEOREM RunnerSequentialPriorityOrder == RunnerSpec => []SequentialPriorityOrder
<1>1. RunnerInv /\ SortedInv => SequentialPriorityOrder
  BY SortedSequence DEF RunnerInv, LoopInv
<1> QED
  BY <1>1, RunnerSorted, RunnerInvariant, PTL

\* With any --max-concurrency a later priority level begins only together with
\* the earlier ones or after them.
THEOREM RunnerTiersNeverReversed == RunnerSpec => []TiersNeverReversed
<1>1. RunnerInv /\ SortedInv /\ WholeInv => TiersNeverReversed
  BY SortedTiers
<1> QED
  BY <1>1, RunnerSorted, RunnerInvariant, PTL

\* No save loses an entry: neither one of this run nor, when resuming, one of an
\* earlier run.
THEOREM RunnerCheckpointNeverForgets == RunnerSpec => CheckpointNeverForgets
<1>1. RunnerInit => KeptInv
  BY DEF RunnerInit, KeptInv
<1>2. RunnerInv /\ KeptInv /\ [RunnerNext]_allRunnerVars =>
        [\A w \in Workloads :
           /\ cpFile.entries[w] # NoEntry
           /\ opts.resume \/ wpc[w] = "done"
           => cpFile'.entries[w] # NoEntry]_allRunnerVars
  BY FileKept
<1> QED
  BY <1>1, <1>2, KeptStep, RunnerInvariant, PTL DEF RunnerSpec, CheckpointNeverForgets

(***************************************************************************)
(* Refinement: each step is, for each workload, a step of RolloutPromise,  *)
(* or it stutters.                                                         *)
(***************************************************************************)
\* Pods of an outdated revision run only while the rollout that is to replace them
\* is waited for, or after the restart has failed.
FreshInv ==
  \A w \in Workloads :
    /\ wpc[w] \in WorkerPoints
    /\ wpc[w] \notin {"rollout", "failed"} => pods[w] # "old"
    /\ wpc[w] \notin {"idle", "patch", "done"} => ~opts.dryRun

\* The cluster by itself outdates no pod.
LEMMA ClusterOutdatesNone ==
  ASSUME ClusterTypeOK, ClusterStep, NEW w \in Workloads, pods[w] # "old"
  PROVE  pods'[w] # "old"
<1>1. ASSUME NEW p \in PodNames,
             PodScheduled(p) \/ PodReplaced(p) \/ PodCompletes(p) \/ PodRemoved(p)
      PROVE  pods'[w] # "old"
  BY <1>1 DEF ClusterTypeOK, PodNames, PodScheduled, PodReplaced, PodCompletes, PodRemoved
<1>2. ASSUME NEW v \in Workloads, WorkloadRecreated(v)
      PROVE  pods'[w] # "old"
  BY <1>2 DEF ClusterTypeOK, PodNames, WorkloadRecreated
<1> QED
  BY <1>1, <1>2 DEF ClusterStep

\* How a goroutine's step moves it, and that it touches no other workload.
OwnMove(v) ==
  /\ \A w \in Workloads \ {v} : wpc'[w] = wpc[w] /\ pods'[w] = pods[w]
  /\ \/ opts.dryRun /\ wpc[v] = "patch" /\ wpc'[v] = "done" /\ pods'[v] = pods[v]
     \/ ~opts.dryRun /\ wpc[v] = "patch" /\ wpc'[v] = "rollout"
     \/ wpc[v] = "rollout" /\ wpc'[v] = "vacate" /\ pods[v] # "old" /\ pods'[v] = pods[v]
     \/ /\ <<wpc[v], wpc'[v]>> \in {<<"vacate", "save">>, <<"save", "done">>}
        /\ pods'[v] = pods[v]
     \/ ~opts.dryRun /\ wpc[v] \in {"patch", "rollout"} /\ wpc'[v] = "failed"
     \/ ~opts.dryRun /\ wpc[v] = "vacate" /\ wpc'[v] = "failed" /\ pods'[v] = pods[v]

\* Every goroutine's step is of that form.
LEMMA WorkerMoveIsOwn ==
  ASSUME RunnerTypeOK, NEW v \in Workloads, Worker(v)
  PROVE  OwnMove(v)
<1>1. wpc \in [Workloads -> WorkerPoints] /\ pods \in [PodNames -> PodCondition]
  BY DEF RunnerTypeOK, ClusterTypeOK
<1>2. v \in PodNames /\ \A w \in Workloads : w \in PodNames
  BY DEF PodNames
<1> USE <1>1, <1>2 DEF OwnMove, Advance, clusterVars
<1>3. CASE DryRunRestart(v)
  BY <1>3 DEF DryRunRestart
<1>4. CASE RestartPatched(v)
  BY <1>4 DEF RestartPatched, RestartApplied
<1>5. CASE RolloutDone(v)
  BY <1>5 DEF RolloutDone, RolloutComplete
<1>6. CASE PodsOffNode(v)
  BY <1>6 DEF PodsOffNode
<1>7. CASE RestartFails(v)
  BY <1>7 DEF RestartFails, RestartApplied
<1>8. CASE SaveCP(v)
  BY <1>8 DEF SaveCP
<1> QED
  BY <1>3, <1>4, <1>5, <1>6, <1>7, <1>8 DEF Worker

\* What a step of anybody else leaves alone: no goroutine moves but from idle to its
\* patch, and nothing is outdated that was not.
OthersMove ==
  \A w \in Workloads :
    /\ wpc'[w] = wpc[w] \/ (wpc[w] = "idle" /\ wpc'[w] = "patch")
    /\ pods[w] # "old" => pods'[w] # "old"

\* Every other step is of that form.
LEMMA OtherMoves ==
  ASSUME RunnerInv, [RunnerNext]_allRunnerVars
  PROVE  /\ opts' = opts
         /\ OthersMove \/ \E v \in Workloads : Worker(v)
<1>1. wpc \in [Workloads -> WorkerPoints] /\ ClusterTypeOK
  BY DEF RunnerInv, RunnerTypeOK
<1>2. ASSUME UNCHANGED <<wpc, pods>> PROVE OthersMove
  BY <1>2 DEF OthersMove
<1>3. ASSUME ClusterStep, UNCHANGED <<runVars, runnerVars>> PROVE OthersMove
  BY <1>1, <1>3, ClusterOutdatesNone DEF OthersMove, runVars, runnerVars
<1>4. ASSUME StartBatch PROVE OthersMove
  <2>1. /\ \A w \in Workloads : wpc'[w] = IF w \in Batch THEN "patch" ELSE wpc[w]
        /\ UNCHANGED pods
    BY <1>4 DEF StartBatch, clusterVars
  <2>2. \A w \in Batch : wpc[w] = "idle"
    BY <1>4 DEF StartBatch, RunnerInv, LoopInv, Batch, BatchIndices
  <2> QED
    BY <2>1, <2>2 DEF OthersMove
<1>5. RunnerLoop => StartBatch \/ UNCHANGED <<wpc, pods>>
  BY DEF RunnerLoop, BeginNothing, BeginFresh, BeginResumed, BeginError, LoopEnds,
         NextBatch, FailBatch, clusterVars
<1>6. opts' = opts
  BY DEF RunnerNext, RunnerStep, RunnerCtxEnds, RunnerFinished, CtxEnds, runVars,
         allRunnerVars
<1> QED
  BY <1>2, <1>3, <1>4, <1>5, <1>6
     DEF RunnerNext, RunnerStep, RunnerCtxEnds, RunnerFinished, clusterVars,
         allRunnerVars, runnerVars

\* Nothing but the patch outdates pods, and a rollout is over without any.
LEMMA FreshStep ==
  RunnerInv /\ FreshInv /\ [RunnerNext]_allRunnerVars => FreshInv'
<1> SUFFICES ASSUME RunnerInv, FreshInv, [RunnerNext]_allRunnerVars
             PROVE  FreshInv'
  OBVIOUS
<1>1. CASE OthersMove
  BY <1>1, OtherMoves DEF FreshInv, OthersMove, WorkerPoints, Running
<1>2. ASSUME NEW v \in Workloads, Worker(v)
      PROVE  FreshInv'
  <2>1. OwnMove(v)
    BY <1>2, WorkerMoveIsOwn DEF RunnerInv
  <2> QED
    BY <2>1, OtherMoves DEF FreshInv, OwnMove, WorkerPoints, Running
<1> QED
  BY <1>1, <1>2, OtherMoves

\* A step under the mapping.
LEMMA WorkerPromise ==
  ASSUME RunnerInv, FreshInv, FreshInv', [RunnerNext]_allRunnerVars,
         NEW w \in Workloads
  PROVE  [Promise(w)!Next]_(Promise(w)!vars)
<1> USE DEF restartOf, Promise!Next, Promise!vars, Promise!Begin, Promise!PodsChange,
            Promise!Succeed, Promise!Fail, FreshInv
<1>1. CASE OthersMove
  BY <1>1, OtherMoves DEF OthersMove
<1>2. ASSUME NEW v \in Workloads, Worker(v)
      PROVE  [Promise(w)!Next]_(Promise(w)!vars)
  <2>1. OwnMove(v) /\ opts' = opts
    BY <1>2, WorkerMoveIsOwn, OtherMoves DEF RunnerInv
  <2> QED
    BY <2>1 DEF OwnMove
<1> QED
  BY <1>1, <1>2, OtherMoves

\* Every goroutine keeps the promise that Rollout shows of the waits it stands for:
\* one restart, over only when no pod from before it runs on the node.
THEOREM RunnerKeepsPromise == RunnerSpec => WorkersKeepPromise
<1>1. RunnerInit => FreshInv /\ \A w \in Workloads : Promise(w)!Init
  BY DEF RunnerInit, FreshInv, Promise!Init, restartOf, PodNames, WorkerPoints
<1>2. RunnerInv /\ FreshInv /\ FreshInv' /\ [RunnerNext]_allRunnerVars =>
        [\A w \in Workloads : [Promise(w)!Next]_(Promise(w)!vars)]_allRunnerVars
  BY WorkerPromise
<1> QED
  BY <1>1, <1>2, FreshStep, RunnerInvariant, PTL DEF RunnerSpec, WorkersKeepPromise
================================================================================
