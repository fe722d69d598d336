------------------------------ MODULE MultiProofs ------------------------------
(***************************************************************************)
(* Proofs about MultiNode for any list of nodes without repetition, any    *)
(* workloads and any of the concurrency flags: what RunResolved promises   *)
(* when it returns, and that the drains use the coordinator as its own     *)
(* module has it, so that what is proved of it holds among them.           *)
(***************************************************************************)
EXTENDS MultiNode, CoordinatorProofs

(***************************************************************************)
(* The drains of one invocation make the steps of Coordinator.             *)
(***************************************************************************)
\* Every step of the nodes' drains is a step or a stutter of the coordinator.
LEMMA MultiStepCoordinates == [MultiNext]_multiVars => [CoordNext]_coordVars
<1> SUFFICES ASSUME [MultiNext]_multiVars PROVE [CoordNext]_coordVars
  OBVIOUS
<1>1. ASSUME NEW c \in Callers, CallerStep(c) \/ Cancelled(c) PROVE [CoordNext]_coordVars
  BY <1>1 DEF CallerStep, Coordinated, Cancelled, PodsOffNode, VacateFails, VacateReturns,
              CoordNext
<1>2. ASSUME NEW n \in Nodes, Drain(n) \/ NodeCtxEnds(n) PROVE UNCHANGED coordVars
  BY <1>2 DEF Drain, Discover, CordonNode, RefuseNode, StartBatch, EndBatch, AllRestarted,
              EvictOk, EvictFails, DrainStep, NodeCtxEnds
<1>3. CASE RunResolved
  BY <1>3 DEF RunResolved, NodeBatchEnds, AllBatchesDone, StartDrain
<1>4. ASSUME NEW n \in Nodes, NEW w \in Keys, PodScheduled(n, w) \/ PodReplaced(n, w)
      PROVE  UNCHANGED coordVars
  BY <1>4 DEF PodScheduled, PodReplaced, ClusterOnly
<1>5. CASE UNCHANGED multiVars
  BY <1>5 DEF multiVars
<1> QED
  BY <1>1, <1>2, <1>3, <1>4, <1>5 DEF MultiNext

\* Every behaviour of the drains of one invocation is one of the coordinator: the
\* batches, retries and failures of RunResolved call Do as Coordinator allows, so
\* its theorems hold between nodes (coordinator.go:21-64, app.go:159-191).
THEOREM MultiImplementsCoordinator == MultiSpec => CoordSpec
<1>1. MultiInit => CoordInit
  BY DEF MultiInit
<1> QED
  BY <1>1, MultiStepCoordinates, PTL DEF MultiSpec, CoordSpec

(***************************************************************************)
(* Types.                                                                  *)
(***************************************************************************)
\* What MultiTypeOK leaves out: the flags, the two functions it looks into, and that
\* there is a batch only between the cordon and the eviction.
MultiTypes ==
  /\ MultiTypeOK
  /\ nodeConcurrency \in NodeConcurrencies /\ maxConcurrency \in MaxConcurrencies
  /\ left \in [Nodes -> SUBSET Keys] /\ batch \in [Nodes -> SUBSET Keys]
  /\ \A n \in Nodes : phase[n] \notin {"restart", "failed"} => batch[n] = {}

\* A caller is a node and a workload.
LEMMA CallersArePairs ==
  \A c \in Callers : /\ c = <<c[1], c[2]>> /\ c[1] \in Nodes /\ c[2] \in Keys
                     /\ KeyOf[c] = c[2]
BY MultiNodeAssumption

\* The types hold at the start.
LEMMA MultiInitTypes == MultiInit => MultiTypes
<1> SUFFICES ASSUME MultiInit PROVE MultiTypes
  OBVIOUS
<1>1. CoordTypeOK
  BY CoordInitInv DEF MultiInit, CoordInv
<1> QED
  BY <1>1, MultiNodeAssumption DEF MultiInit, MultiTypes, MultiTypeOK, Underway

\* A patch outdates pods and moves none.
LEMMA PodTypes ==
  ASSUME MultiTypes, NEW c \in Callers, PatchTakesEffect(c)
  PROVE  /\ newPods' \subseteq Nodes \X Keys /\ oldPods' \subseteq Nodes \X Keys
         /\ newPods' \cup oldPods' = newPods \cup oldPods
BY DEF MultiTypes, MultiTypeOK, PatchTakesEffect

\* Every step keeps the types.
LEMMA MultiStepTypes ==
  ASSUME MultiTypes, CoordTypeOK', [MultiNext]_multiVars
  PROVE  MultiTypes'
<1> USE DEF MultiTypes, MultiTypeOK, Underway, options, podVars
<1>1. ASSUME NEW c \in Callers, Coordinated(c) PROVE MultiTypes'
  BY <1>1, PodTypes DEF Coordinated, drainVars
<1>2. ASSUME NEW c \in Callers, Cancelled(c) PROVE MultiTypes'
  BY <1>2 DEF Cancelled, drainVars
<1>3. ASSUME NEW c \in Callers, NEW r \in {"ok", "err"}, VacateReturns(c, r) PROVE MultiTypes'
  BY <1>3 DEF VacateReturns
<1>4. ASSUME NEW n \in Nodes, NEW b \in BOOLEAN, FailDrain(n, b), DrainStep(n),
             phase[n] \in Underway PROVE MultiTypes'
  BY <1>4 DEF FailDrain, DrainStep
<1>5. ASSUME NEW n \in Nodes, Discover(n) PROVE MultiTypes'
  <2>1. OnNode(n) \subseteq Keys
    BY DEF OnNode
  <2>2. batch[n] \subseteq OnNode(n)
    BY <1>5 DEF Discover
  <2> QED
    BY <1>5, <2>1, <2>2 DEF Discover, DrainStep
<1>6. ASSUME NEW n \in Nodes, CordonNode(n) \/ AllRestarted(n) PROVE MultiTypes'
  BY <1>6 DEF CordonNode, AllRestarted, DrainStep
<1>7. ASSUME NEW n \in Nodes, StartBatch(n) PROVE MultiTypes'
  BY <1>7 DEF StartBatch, DrainStep
<1>8. ASSUME NEW n \in Nodes, EndBatch(n) PROVE MultiTypes'
  <2>1. CASE FailDrain(n, TRUE)
    BY <1>4, <1>8, <2>1 DEF EndBatch
  <2>2. CASE ~FailDrain(n, TRUE)
    <3>1. /\ phase[n] = "restart"
          /\ left' = [left EXCEPT ![n] = left[n] \ batch[n]] /\ batch' = [batch EXCEPT ![n] = {}]
          /\ UNCHANGED <<phase, cordoned, found, newPods, oldPods, coordVars, options,
                         batchStart, result, vacated, nodeCtxErr>>
      BY <1>8, <2>2 DEF EndBatch, DrainStep
    <3>2. \A m \in Nodes : left'[m] \subseteq left[m] /\ batch'[m] \subseteq left'[m]
      BY <3>1
    <3>3. left' \in [Nodes -> SUBSET Keys] /\ batch' \in [Nodes -> SUBSET Keys]
      BY <3>1, <3>2
    <3>4. \A m \in Nodes : batch'[m] = {} \/ batch'[m] = batch[m]
      BY <3>1
    <3> QED
      BY <3>1, <3>2, <3>3, <3>4
  <2> QED
    BY <2>1, <2>2
<1>9. ASSUME NEW n \in Nodes, EvictOk(n) PROVE MultiTypes'
  BY <1>9 DEF EvictOk, DrainStep
<1>10. ASSUME NEW n \in Nodes, NodeCtxEnds(n) PROVE MultiTypes'
  BY <1>10 DEF NodeCtxEnds
<1>11. ASSUME NEW n \in Nodes, StartDrain(n) PROVE MultiTypes'
  BY <1>11 DEF StartDrain
<1>12. CASE NodeBatchEnds \/ AllBatchesDone
  <2>1. NodeBatchSize \in Nat
    BY MultiNodeAssumption DEF NodeBatchSize
  <2> QED
    BY <1>12, <2>1 DEF NodeBatchEnds, AllBatchesDone, drainVars
<1>13. ASSUME NEW n \in Nodes, NEW w \in Keys, PodScheduled(n, w) \/ PodReplaced(n, w)
       PROVE  MultiTypes'
  BY <1>13 DEF PodScheduled, PodReplaced, ClusterOnly, drainVars
<1>14. CASE UNCHANGED multiVars
  BY <1>14 DEF multiVars, drainVars
<1> QED
  BY <1>1, <1>2, <1>3, <1>4, <1>5, <1>6, <1>7, <1>8, <1>9, <1>10, <1>11, <1>12, <1>13, <1>14
  DEF MultiNext, CallerStep, PodsOffNode, VacateFails, Drain, RefuseNode, EvictFails, RunResolved

(***************************************************************************)
(* Batches of nodes.                                                       *)
(***************************************************************************)
\* How a step moves the drains and the loop of RunResolved.
LEMMA PhaseMoves ==
  ASSUME MultiTypes, [MultiNext]_multiVars
  PROVE  /\ \A m \in Nodes :
              \/ phase'[m] = phase[m]
              \/ phase[m] \in Underway /\ phase'[m] # "queued" /\ UNCHANGED <<batchStart, result>>
              \/ /\ m \in NodeBatch /\ result = "none" /\ UNCHANGED <<batchStart, result>>
                 /\ phase[m] = "queued" /\ phase'[m] = "discover"
         /\ \/ UNCHANGED <<batchStart, result>>
            \/ (NodeBatchEnds \/ AllBatchesDone) /\ UNCHANGED phase
         /\ UNCHANGED nodeConcurrency
<1> USE DEF MultiTypes, MultiTypeOK, Underway, options
<1>1. ASSUME NEW c \in Callers, CallerStep(c) \/ Cancelled(c)
      PROVE  UNCHANGED <<phase, batchStart, result, nodeConcurrency>>
  BY <1>1 DEF CallerStep, Coordinated, Cancelled, PodsOffNode, VacateFails, VacateReturns,
              drainVars
<1>2. ASSUME NEW n \in Nodes, Drain(n)
      PROVE  /\ phase[n] \in Underway /\ phase'[n] # "queued"
             /\ \A m \in Nodes \ {n} : phase'[m] = phase[m]
             /\ UNCHANGED <<batchStart, result, nodeConcurrency>>
  BY <1>2 DEF Drain, Discover, CordonNode, RefuseNode, StartBatch, EndBatch, AllRestarted,
              EvictOk, EvictFails, FailDrain, DrainStep
<1>3. ASSUME NEW n \in Nodes, StartDrain(n)
      PROVE  /\ n \in NodeBatch /\ result = "none" /\ phase[n] = "queued"
             /\ phase'[n] = "discover" /\ \A m \in Nodes \ {n} : phase'[m] = phase[m]
             /\ UNCHANGED <<batchStart, result, nodeConcurrency>>
  BY <1>3 DEF StartDrain
<1>4. ASSUME NEW n \in Nodes, NodeCtxEnds(n)
      PROVE  UNCHANGED <<phase, batchStart, result, nodeConcurrency>>
  BY <1>4 DEF NodeCtxEnds
<1>5. CASE NodeBatchEnds \/ AllBatchesDone
  BY <1>5 DEF NodeBatchEnds, AllBatchesDone, drainVars
<1>6. ASSUME NEW n \in Nodes, NEW w \in Keys, PodScheduled(n, w) \/ PodReplaced(n, w)
      PROVE  UNCHANGED <<phase, batchStart, result, nodeConcurrency>>
  BY <1>6 DEF PodScheduled, PodReplaced, ClusterOnly, drainVars
<1>7. CASE UNCHANGED multiVars
  BY <1>7 DEF multiVars, drainVars
<1> QED
  BY <1>1, <1>2, <1>3, <1>4, <1>5, <1>6, <1>7 DEF MultiNext, RunResolved

\* A node belongs to the current batch exactly by its place in the list.
LEMMA InBatch ==
  ASSUME MultiTypes, NEW i \in DOMAIN NodeList
  PROVE  /\ NodeBatchSize \in Nat /\ batchStart \in Nat /\ i \in 1..Len(NodeList)
         /\ NodeList[i] \in NodeBatch <=> i > batchStart /\ i <= batchStart + NodeBatchSize
<1>1. /\ NodeBatchSize \in Nat /\ batchStart \in Nat /\ Len(NodeList) \in Nat
      /\ DOMAIN NodeList = 1..Len(NodeList)
  BY MultiNodeAssumption DEF NodeBatchSize, MultiTypes, MultiTypeOK
<1>2. ASSUME i > batchStart, i <= batchStart + NodeBatchSize PROVE NodeList[i] \in NodeBatch
  BY <1>1, <1>2 DEF NodeBatch, Least
<1>3. ASSUME NodeList[i] \in NodeBatch PROVE i > batchStart /\ i <= batchStart + NodeBatchSize
  <2>1. PICK j \in batchStart + 1 .. Least(batchStart + NodeBatchSize, Len(NodeList)) :
          NodeList[i] = NodeList[j]
    BY <1>3 DEF NodeBatch
  <2>2. j \in DOMAIN NodeList /\ j > batchStart /\ j <= batchStart + NodeBatchSize
    BY <1>1, <2>1 DEF Least
  <2>3. i = j
    BY <2>1, <2>2, MultiNodeAssumption
  <2> QED
    BY <2>2, <2>3
<1> QED
  BY <1>1, <1>2, <1>3

\* A batch of nodes ends before the next one begins.
LEMMA BarrierStep ==
  ASSUME MultiTypes, NodeBatchBarrier, [MultiNext]_multiVars
  PROVE  NodeBatchBarrier'
<1> USE DEF NodeBatchBarrier
<1>1. \A i \in DOMAIN NodeList : NodeList[i] \in Nodes
  BY DEF Nodes
<1>2. NodeBatchSize' = NodeBatchSize
  BY PhaseMoves DEF NodeBatchSize
<1>3. CASE UNCHANGED <<batchStart, result>>
  BY <1>1, <1>2, <1>3, PhaseMoves, InBatch DEF Underway
<1>4. CASE AllBatchesDone
  BY <1>2, <1>4 DEF AllBatchesDone, drainVars
<1>5. CASE NodeBatchEnds
  <2>1. UNCHANGED phase
    BY <1>5 DEF NodeBatchEnds, drainVars
  <2>2. CASE NodeBatchFailed
    BY <1>2, <1>5, <2>1, <2>2 DEF NodeBatchEnds
  <2>3. CASE ~NodeBatchFailed
    <3>1. batchStart' = batchStart + NodeBatchSize
      BY <1>5, <2>3 DEF NodeBatchEnds
    <3>2. \A n \in NodeBatch : phase[n] = "ok"
      BY <1>5, <2>3 DEF NodeBatchEnds, NodeBatchReturned, NodeBatchFailed
    <3>3. ASSUME NEW i \in DOMAIN NodeList, i <= batchStart' PROVE phase[NodeList[i]] = "ok"
      BY <3>1, <3>2, <3>3, InBatch
    <3>4. ASSUME NEW i \in DOMAIN NodeList, i > batchStart' + NodeBatchSize'
          PROVE  phase[NodeList[i]] = "queued"
      BY <1>2, <3>1, <3>4, InBatch
    <3> QED
      BY <2>1, <3>3, <3>4
  <2> QED
    BY <2>2, <2>3
<1> QED
  BY <1>3, <1>4, <1>5, PhaseMoves

\* When RunResolved has returned no drain is under way, and if it succeeded all did.
ResultInv ==
  /\ result # "none" => Active = {}
  /\ result = "ok" => \A n \in Nodes : phase[n] = "ok"

\* The result is that of the nodes that were drained.
LEMMA ResultStep ==
  ASSUME MultiTypes, NodeBatchBarrier, ResultInv, [MultiNext]_multiVars
  PROVE  ResultInv'
<1> USE DEF ResultInv, Active, Underway
<1>1. CASE UNCHANGED <<batchStart, result>>
  BY <1>1, PhaseMoves
<1>2. CASE NodeBatchEnds
  <2>1. UNCHANGED phase /\ result' \in {"none", "err"} /\ NodeBatchReturned
    BY <1>2 DEF NodeBatchEnds, drainVars
  <2>2. ASSUME NEW n \in Nodes PROVE phase[n] \in {"ok", "failed", "queued"}
    <3>1. PICK i \in DOMAIN NodeList : n = NodeList[i]
      BY DEF Nodes
    <3> QED
      BY <2>1, <3>1, InBatch DEF NodeBatchReturned, NodeBatchBarrier
  <2> QED
    BY <2>1, <2>2
<1>3. CASE AllBatchesDone
  <2>1. UNCHANGED phase /\ batchStart >= Len(NodeList)
    BY <1>3 DEF AllBatchesDone, drainVars
  <2>2. ASSUME NEW n \in Nodes PROVE phase[n] = "ok"
    <3>1. PICK i \in DOMAIN NodeList : n = NodeList[i]
      BY DEF Nodes
    <3>2. i <= batchStart
      BY <2>1, InBatch, MultiNodeAssumption
    <3> QED
      BY <3>1, <3>2 DEF NodeBatchBarrier
  <2> QED
    BY <2>1, <2>2
<1> QED
  BY <1>1, <1>2, <1>3, PhaseMoves

(***************************************************************************)
(* Calls of the coordinator and batches of workloads.                      *)
(***************************************************************************)
\* A call is under way only while its drain restarts workloads and it is one of the
\* batch; a workload is seen off the node only after its call has returned.
CallInv ==
  \A c \in Callers :
    /\ vacated[c] # "none" =>
         pc[c] = "returned" /\ phase[c[1]] \notin {"queued", "discover", "cordon"}
    /\ pc[c] \notin {"lockFor", "returned"} => phase[c[1]] = "restart" /\ Started(c)
    /\ Started(c) /\ phase[c[1]] # "restart" => pc[c] = "returned"

\* When a node's batch of workloads is settled every call it made has returned.
LEMMA SettledReturned ==
  ASSUME CallInv, NEW n \in Nodes, BatchSettled(n)
  PROVE  \A c \in Callers : c[1] = n => pc[c] \in {"lockFor", "returned"}
                                       /\ (Started(c) => pc[c] = "returned")
<1> SUFFICES ASSUME NEW c \in Callers, c[1] = n
             PROVE  pc[c] \in {"lockFor", "returned"} /\ (Started(c) => pc[c] = "returned")
  OBVIOUS
<1>1. Started(c) => c \in Calls(n)
  BY CallersArePairs DEF Started, Calls
<1>2. Started(c) => pc[c] = "returned"
  BY <1>1 DEF CallInv, BatchSettled, Settled, Errored
<1> QED
  BY <1>2 DEF CallInv

\* A step of Do moves the position of its call only, and a call that has returned
\* does not move.
LEMMA DoMoves ==
  ASSUME MultiTypes, NEW c \in Callers, Do(c)
  PROVE  pc[c] # "returned" /\ \A d \in Callers \ {c} : pc'[d] = pc[d]
BY DEF Do, Fn, LockFor, Lock, CheckCtx, CheckDone, PatchOk, PatchError, RolloutOk,
       RolloutError, MarkDone, Unlock, Goto, Return, MultiTypes, MultiTypeOK, CoordTypeOK

\* A call is where its node's drain says it is.
LEMMA CallStep ==
  ASSUME MultiTypes, CallInv, [MultiNext]_multiVars
  PROVE  CallInv'
<1> USE CallersArePairs DEF MultiTypes, MultiTypeOK, Underway, Started
<1>1. ASSUME NEW c \in Callers, Coordinated(c) PROVE CallInv'
  <2>1. UNCHANGED <<phase, batch, vacated>>
    BY <1>1 DEF Coordinated, drainVars
  <2>2. /\ pc[c] # "returned" /\ phase[c[1]] = "restart" /\ Started(c)
        /\ \A d \in Callers \ {c} : pc'[d] = pc[d]
    BY <1>1, DoMoves DEF Coordinated, CallInv
  <2>3. vacated[c] = "none"
    BY <2>2 DEF CallInv
  <2> QED
    BY <2>1, <2>2, <2>3 DEF CallInv
<1>2. ASSUME NEW c \in Callers, Cancelled(c) PROVE CallInv'
  BY <1>2 DEF Cancelled, CancelCtx, drainVars, CallInv
<1>3. ASSUME NEW c \in Callers, NEW r \in {"ok", "err"}, Vacating(c), VacateReturns(c, r)
      PROVE  CallInv'
  <2>1. /\ UNCHANGED <<phase, batch, pc>> /\ pc[c] = "returned" /\ batch[c[1]] # {}
        /\ \A d \in Callers \ {c} : vacated'[d] = vacated[d]
    BY <1>3 DEF VacateReturns, Vacating, coordVars
  <2>2. phase[c[1]] \notin {"queued", "discover", "cordon"}
    BY <2>1
  <2> QED
    BY <2>1, <2>2 DEF CallInv
<1>4. ASSUME NEW n \in Nodes, UNCHANGED <<pc, vacated, batch>>,
             \A m \in Nodes \ {n} : phase'[m] = phase[m],
             phase[n] \in Underway \cup {"queued"},
             \/ BatchSettled(n) /\ phase'[n] = "failed"
             \/ batch[n] = {} /\ phase[n] # "restart"
                /\ (phase'[n] \in {"queued", "discover", "cordon"}
                       => phase[n] \in {"queued", "discover", "cordon"})
             \/ batch[n] = {} /\ phase'[n] = "evict"
      PROVE  CallInv'
  <2>1. CASE BatchSettled(n) /\ phase'[n] = "failed"
    BY <1>4, <2>1, SettledReturned DEF CallInv
  <2>2. CASE batch[n] = {} /\ ~(BatchSettled(n) /\ phase'[n] = "failed")
    <3>1. \A c \in Callers : c[1] = n => ~Started(c) /\ pc[c] \in {"lockFor", "returned"}
      BY <2>2 DEF CallInv
    <3> QED
      BY <1>4, <2>2, <3>1 DEF CallInv
  <2> QED
    BY <1>4, <2>1, <2>2
<1>5. ASSUME NEW n \in Nodes, Discover(n) \/ CordonNode(n) \/ RefuseNode(n) \/ AllRestarted(n)
                              \/ EvictOk(n) \/ EvictFails(n) \/ StartDrain(n)
      PROVE  CallInv'
  <2>1. /\ UNCHANGED <<pc, vacated, batch>> /\ \A m \in Nodes \ {n} : phase'[m] = phase[m]
        /\ phase[n] \in Underway \cup {"queued"}
    BY <1>5 DEF Discover, CordonNode, RefuseNode, AllRestarted, EvictOk, EvictFails, StartDrain,
                FailDrain, DrainStep, coordVars
  <2>2. batch[n] = {}
    BY <1>5 DEF Discover, CordonNode, RefuseNode, AllRestarted, EvictOk, EvictFails, StartDrain
  <2>3. \/ /\ phase[n] # "restart"
           /\ phase'[n] \in {"queued", "discover", "cordon"}
                => phase[n] \in {"queued", "discover", "cordon"}
        \/ phase'[n] = "evict"
    BY <1>5 DEF Discover, CordonNode, RefuseNode, AllRestarted, EvictOk, EvictFails, StartDrain,
                FailDrain
  <2> QED
    BY <1>4, <2>1, <2>2, <2>3
<1>6. ASSUME NEW n \in Nodes, StartBatch(n) PROVE CallInv'
  <2>1. /\ phase[n] = "restart" /\ batch[n] = {} /\ UNCHANGED <<phase, pc, vacated>>
        /\ \A m \in Nodes \ {n} : batch'[m] = batch[m]
    BY <1>6 DEF StartBatch, DrainStep, coordVars
  <2> QED
    BY <2>1 DEF CallInv
<1>7. ASSUME NEW n \in Nodes, EndBatch(n) PROVE CallInv'
  <2>1. phase[n] = "restart" /\ BatchSettled(n) /\ UNCHANGED <<pc, vacated>>
    BY <1>7 DEF EndBatch, DrainStep, coordVars
  <2>2. CASE FailDrain(n, TRUE)
    BY <1>4, <2>1, <2>2 DEF FailDrain
  <2>3. CASE ~FailDrain(n, TRUE)
    <3>1. UNCHANGED phase /\ \A m \in Nodes \ {n} : batch'[m] = batch[m]
      BY <1>7, <2>3 DEF EndBatch
    <3> QED
      BY <2>1, <3>1, SettledReturned DEF CallInv
  <2> QED
    BY <2>2, <2>3
<1>8. ASSUME UNCHANGED <<pc, vacated, batch, phase>> PROVE CallInv'
  BY <1>8 DEF CallInv
<1>9. ASSUME NEW n \in Nodes, NodeCtxEnds(n) PROVE CallInv'
  BY <1>8, <1>9 DEF NodeCtxEnds, coordVars
<1>10. CASE NodeBatchEnds \/ AllBatchesDone
  BY <1>8, <1>10 DEF NodeBatchEnds, AllBatchesDone, drainVars, coordVars
<1>11. ASSUME NEW n \in Nodes, NEW w \in Keys, PodScheduled(n, w) \/ PodReplaced(n, w)
       PROVE  CallInv'
  BY <1>8, <1>11 DEF PodScheduled, PodReplaced, ClusterOnly, drainVars, coordVars
<1>12. CASE UNCHANGED multiVars
  BY <1>8, <1>12 DEF multiVars, drainVars, coordVars
<1> QED
  BY <1>1, <1>2, <1>3, <1>5, <1>6, <1>7, <1>9, <1>10, <1>11, <1>12
  DEF MultiNext, CallerStep, PodsOffNode, VacateFails, Drain, RunResolved

(***************************************************************************)
(* The nodes empty.                                                        *)
(***************************************************************************)
\* From its cordon on a drain's node stays cordoned, and what it is done with does not
\* come back: the workloads no longer in the list, those seen off the node, at last all.
EmptyInv ==
  \A n \in Nodes :
    /\ phase[n] \in {"restart", "evict", "ok"} => n \in cordoned
    /\ phase[n] = "cordon" => left[n] = found[n]
    /\ phase[n] \in {"restart", "evict"} => (found[n] \ left[n]) \cap OnNode(n) = {}
    /\ phase[n] = "restart" => \A w \in Keys : vacated[<<n, w>>] = "ok" => w \notin OnNode(n)
    /\ phase[n] = "evict" => left[n] = {}
    /\ phase[n] = "ok" => OnNode(n) = {}

\* No pods come to a cordoned node.
LEMMA CordonedPodsOnlyLeave ==
  ASSUME MultiTypes, EmptyInv, UNCHANGED <<phase, left, vacated, cordoned, found>>,
         \A n \in cordoned : OnNode(n)' \subseteq OnNode(n)
  PROVE  EmptyInv'
<1> SUFFICES ASSUME NEW n \in Nodes
             PROVE  /\ phase[n] \in {"restart", "evict"} => (found[n] \ left[n]) \cap OnNode(n)' = {}
                    /\ phase[n] = "restart" =>
                         \A w \in Keys : vacated[<<n, w>>] = "ok" => w \notin OnNode(n)'
                    /\ phase[n] = "ok" => OnNode(n)' = {}
  BY DEF EmptyInv
<1>1. phase[n] \in {"restart", "evict", "ok"} => OnNode(n)' \subseteq OnNode(n)
  BY DEF EmptyInv
<1> QED
  BY <1>1 DEF EmptyInv

\* A drain's own step changes nothing of another node.
LEMMA OthersStayEmpty ==
  ASSUME MultiTypes, EmptyInv, NEW n \in Nodes, DrainStep(n),
         \A m \in Nodes \ {n} : /\ phase'[m] = phase[m] /\ left'[m] = left[m] /\ found'[m] = found[m]
                                /\ (m \in cordoned => m \in cordoned') /\ OnNode(m)' = OnNode(m)
  PROVE  \A m \in Nodes \ {n} :
           /\ phase'[m] \in {"restart", "evict", "ok"} => m \in cordoned'
           /\ phase'[m] = "cordon" => left'[m] = found'[m]
           /\ phase'[m] \in {"restart", "evict"} => (found'[m] \ left'[m]) \cap OnNode(m)' = {}
           /\ phase'[m] = "restart" =>
                \A w \in Keys : vacated'[<<m, w>>] = "ok" => w \notin OnNode(m)'
           /\ phase'[m] = "evict" => left'[m] = {}
           /\ phase'[m] = "ok" => OnNode(m)' = {}
<1>1. UNCHANGED vacated
  BY DEF DrainStep
<1> QED
  BY <1>1 DEF EmptyInv

\* What a node's drain restarted stays away from the node.
LEMMA EmptyStep ==
  ASSUME MultiTypes, CallInv, EmptyInv, [MultiNext]_multiVars
  PROVE  EmptyInv'
<1> USE DEF MultiTypes, MultiTypeOK, Underway
<1>1. ASSUME UNCHANGED <<phase, left, vacated, cordoned, found, newPods, oldPods>> PROVE EmptyInv'
  BY <1>1, CordonedPodsOnlyLeave DEF OnNode
<1>2. ASSUME NEW c \in Callers, Coordinated(c) PROVE EmptyInv'
  <2>1. UNCHANGED <<phase, left, vacated, cordoned, found>>
    BY <1>2 DEF Coordinated, drainVars
  <2>2. \A n : OnNode(n)' = OnNode(n)
    BY <1>2, PodTypes DEF Coordinated, OnNode
  <2> QED
    BY <2>1, <2>2, CordonedPodsOnlyLeave
<1>3. ASSUME NEW c \in Callers, Cancelled(c) PROVE EmptyInv'
  BY <1>1, <1>3 DEF Cancelled, drainVars, podVars
<1>4. ASSUME NEW c \in Callers, NEW r \in {"ok", "err"}, Vacating(c), VacateReturns(c, r),
             r = "ok" => c[2] \notin OnNode(c[1])
      PROVE  EmptyInv'
  <2>1. /\ UNCHANGED <<phase, left, cordoned, found>> /\ \A n : OnNode(n)' = OnNode(n)
        /\ vacated' = [vacated EXCEPT ![c] = r]
    BY <1>4 DEF VacateReturns, podVars, OnNode
  <2>2. c = <<c[1], c[2]>>
    BY CallersArePairs
  <2>3. \A n \in Nodes, w \in Keys : <<n, w>> \in Callers
    BY MultiNodeAssumption
  <2>4. \A n \in Nodes, w \in Keys :
          vacated'[<<n, w>>] = "ok" => vacated[<<n, w>>] = "ok" \/ w \notin OnNode(n)
    BY <1>4, <2>1, <2>2, <2>3
  <2> QED
    BY <2>1, <2>4 DEF EmptyInv
<1>5. ASSUME NEW n \in Nodes, NEW b \in BOOLEAN, FailDrain(n, b), DrainStep(n) PROVE EmptyInv'
  <2>1. phase'[n] = "failed"
    BY <1>5 DEF FailDrain
  <2>2. \A m \in Nodes \ {n} :
          /\ phase'[m] = phase[m] /\ left'[m] = left[m] /\ found'[m] = found[m]
          /\ (m \in cordoned => m \in cordoned') /\ OnNode(m)' = OnNode(m)
    BY <1>5 DEF FailDrain, podVars, OnNode
  <2> QED
    BY <1>5, <2>1, <2>2, OthersStayEmpty DEF EmptyInv
<1>6. ASSUME NEW n \in Nodes, Discover(n) \/ CordonNode(n) \/ StartBatch(n) \/ AllRestarted(n)
      PROVE  EmptyInv'
  <2>1. /\ \A m \in Nodes \ {n} :
             /\ phase'[m] = phase[m] /\ left'[m] = left[m] /\ found'[m] = found[m]
             /\ (m \in cordoned => m \in cordoned') /\ OnNode(m)' = OnNode(m)
        /\ OnNode(n)' = OnNode(n) /\ DrainStep(n) /\ UNCHANGED vacated
    BY <1>6 DEF Discover, CordonNode, StartBatch, AllRestarted, podVars, OnNode, DrainStep
  <2>2. CASE Discover(n)
    <3>1. phase'[n] = "cordon" /\ left'[n] = found'[n]
      BY <2>2 DEF Discover
    <3> QED
      BY <2>1, <3>1, OthersStayEmpty DEF EmptyInv
  <2>3. CASE CordonNode(n)
    <3>1. /\ phase[n] = "cordon" /\ phase'[n] = "restart" /\ n \in cordoned'
          /\ left'[n] = left[n] /\ found'[n] = found[n]
      BY <2>3 DEF CordonNode
    <3>2. \A w \in Keys : vacated[<<n, w>>] = "none"
      <4> SUFFICES ASSUME NEW w \in Keys PROVE vacated[<<n, w>>] = "none"
        OBVIOUS
      <4>1. <<n, w>> \in Callers /\ <<n, w>>[1] = n
        BY MultiNodeAssumption
      <4> QED
        BY <3>1, <4>1 DEF CallInv
    <3> QED
      BY <2>1, <3>1, <3>2, OthersStayEmpty DEF EmptyInv
  <2>4. CASE StartBatch(n)
    <3>1. /\ phase'[n] = phase[n] /\ left'[n] = left[n] /\ found'[n] = found[n]
          /\ cordoned' = cordoned
      BY <2>4 DEF StartBatch
    <3> QED
      BY <2>1, <3>1, OthersStayEmpty DEF EmptyInv
  <2>5. CASE AllRestarted(n)
    <3>1. /\ phase[n] = "restart" /\ phase'[n] = "evict" /\ left[n] = {}
          /\ left'[n] = left[n] /\ found'[n] = found[n] /\ cordoned' = cordoned
      BY <2>5 DEF AllRestarted
    <3> QED
      BY <2>1, <3>1, OthersStayEmpty DEF EmptyInv
  <2> QED
    BY <1>6, <2>2, <2>3, <2>4, <2>5
<1>7. ASSUME NEW n \in Nodes, EndBatch(n) PROVE EmptyInv'
  <2>1. CASE FailDrain(n, TRUE)
    BY <1>5, <1>7, <2>1 DEF EndBatch
  <2>2. CASE ~FailDrain(n, TRUE)
    <3>1. /\ phase[n] = "restart" /\ BatchSettled(n) /\ ~\E c \in Calls(n) : Errored(c)
          /\ left' = [left EXCEPT ![n] = left[n] \ batch[n]]
          /\ UNCHANGED <<phase, cordoned, found, podVars>> /\ DrainStep(n)
      BY <1>7, <2>2 DEF EndBatch
    <3>2. \A m : OnNode(m)' = OnNode(m)
      BY <3>1 DEF podVars, OnNode
    <3>3. ASSUME NEW w \in batch[n] PROVE w \notin OnNode(n)
      <4>1. <<n, w>> \in Calls(n) /\ <<n, w>> \in Callers /\ w \in Keys
        BY MultiNodeAssumption DEF Calls
      <4>2. vacated[<<n, w>>] = "ok"
        BY <3>1, <4>1 DEF BatchSettled, Settled, Errored
      <4> QED
        BY <3>1, <4>1, <4>2 DEF EmptyInv
    <3>4. left'[n] = left[n] \ batch[n] /\ UNCHANGED vacated
      BY <3>1 DEF DrainStep
    <3>5. (found[n] \ left'[n]) \cap OnNode(n) = {}
      BY <3>1, <3>3, <3>4 DEF EmptyInv
    <3> QED
      BY <3>1, <3>2, <3>4, <3>5, OthersStayEmpty DEF EmptyInv
  <2> QED
    BY <2>1, <2>2
<1>8. ASSUME NEW n \in Nodes, EvictOk(n) PROVE EmptyInv'
  <2>1. /\ phase[n] = "evict" /\ phase'[n] = "ok" /\ cordoned' = cordoned /\ OnNode(n)' = {}
        /\ DrainStep(n)
    BY <1>8 DEF EvictOk, OnNode
  <2>2. \A m \in Nodes \ {n} :
          /\ phase'[m] = phase[m] /\ left'[m] = left[m] /\ found'[m] = found[m]
          /\ (m \in cordoned => m \in cordoned') /\ OnNode(m)' = OnNode(m)
    BY <1>8 DEF EvictOk, OnNode
  <2> QED
    BY <2>1, <2>2, OthersStayEmpty DEF EmptyInv
<1>9. ASSUME NEW n \in Nodes, NodeCtxEnds(n) PROVE EmptyInv'
  BY <1>1, <1>9 DEF NodeCtxEnds, podVars
<1>10. ASSUME NEW n \in Nodes, StartDrain(n) PROVE EmptyInv'
  <2>1. /\ phase'[n] = "discover" /\ \A m \in Nodes \ {n} : phase'[m] = phase[m]
        /\ UNCHANGED <<left, vacated, cordoned, found>> /\ \A m : OnNode(m)' = OnNode(m)
    BY <1>10 DEF StartDrain, podVars, OnNode
  <2> QED
    BY <2>1 DEF EmptyInv
<1>11. CASE NodeBatchEnds \/ AllBatchesDone
  BY <1>1, <1>11 DEF NodeBatchEnds, AllBatchesDone, drainVars, podVars
<1>12. ASSUME NEW n \in Nodes, NEW w \in Keys, PodScheduled(n, w) \/ PodReplaced(n, w)
       PROVE  EmptyInv'
  <2>1. UNCHANGED <<phase, left, vacated, cordoned, found>>
    BY <1>12 DEF PodScheduled, PodReplaced, ClusterOnly, drainVars
  <2>2. \A m \in cordoned : OnNode(m)' \subseteq OnNode(m)
    BY <1>12 DEF PodScheduled, PodReplaced, OnNode
  <2> QED
    BY <2>1, <2>2, CordonedPodsOnlyLeave
<1>13. CASE UNCHANGED multiVars
  BY <1>1, <1>13 DEF multiVars, drainVars, podVars
<1>14. ASSUME NEW c \in Callers, PodsOffNode(c) \/ VacateFails(c) PROVE EmptyInv'
  BY <1>4, <1>14 DEF PodsOffNode, VacateFails
<1> QED
  BY <1>2, <1>3, <1>5, <1>6, <1>7, <1>8, <1>9, <1>10, <1>11, <1>12, <1>13, <1>14
  DEF MultiNext, CallerStep, Drain, RefuseNode, EvictFails, RunResolved

(***************************************************************************)
(* What a drain is done with has been restarted.                           *)
(***************************************************************************)
\* A drain waits for pods only of workloads it was told are restarted, and drops
\* from its list only those it has seen off the node.
DroppedInv ==
  /\ \A c \in Callers : vacated[c] = "ok" => ret[c] = "ok"
  /\ \A n \in Nodes :
       /\ phase[n] = "ok" => left[n] = {}
       /\ phase[n] \in {"restart", "evict", "ok"} =>
            \A w \in found[n] \ left[n] : vacated[<<n, w>>] = "ok"

\* Where no list grows and no drain advances it is kept.
LEMMA DroppedUnchanged ==
  ASSUME DroppedInv, UNCHANGED <<ret, vacated, found, left>>,
         \A n \in Nodes :
           \/ phase'[n] = phase[n]
           \/ phase'[n] \notin {"restart", "evict", "ok"}
           \/ phase'[n] = "restart" /\ left[n] = found[n]
           \/ phase'[n] \in {"evict", "ok"} /\ left[n] = {} /\ phase[n] \in {"restart", "evict"}
  PROVE  DroppedInv'
BY DEF DroppedInv

\* Every step keeps it.
LEMMA DroppedStep ==
  ASSUME MultiTypes, CallInv, EmptyInv, DroppedInv, [MultiNext]_multiVars
  PROVE  DroppedInv'
<1> USE CallersArePairs DEF MultiTypes, MultiTypeOK
<1>1. ASSUME NEW c \in Callers, Coordinated(c) PROVE DroppedInv'
  <2>1. UNCHANGED <<phase, left, found, vacated>> /\ Do(c)
    BY <1>1 DEF Coordinated, drainVars
  <2>2. vacated[c] = "none" /\ \A d \in Callers \ {c} : ret'[d] = ret[d]
    <3>1. pc[c] # "returned"
      BY <2>1, DoMoves
    <3> QED
      BY <2>1, <3>1 DEF CallInv, Do, Fn, LockFor, Lock, CheckCtx, CheckDone, PatchOk, PatchError,
                        RolloutOk, RolloutError, MarkDone, Unlock, Return, CoordTypeOK
  <2> QED
    BY <2>1, <2>2 DEF DroppedInv
<1>2. ASSUME NEW c \in Callers, NEW r \in {"ok", "err"}, Vacating(c), VacateReturns(c, r)
      PROVE  DroppedInv'
  <2>1. /\ UNCHANGED <<phase, left, found, ret>> /\ ret[c] = "ok" /\ vacated[c] = "none"
        /\ \A d \in Callers \ {c} : vacated'[d] = vacated[d]
    BY <1>2 DEF VacateReturns, Vacating, coordVars
  <2>2. \A d \in Callers : vacated[d] = "ok" => vacated'[d] = "ok"
    BY <2>1
  <2>3. \A n \in Nodes : \A w \in found[n] \ left[n] : <<n, w>> \in Callers
    BY MultiNodeAssumption
  <2> QED
    BY <2>1, <2>2, <2>3 DEF DroppedInv
<1>3. ASSUME NEW n \in Nodes, Discover(n) PROVE DroppedInv'
  <2>1. /\ phase'[n] = "cordon" /\ UNCHANGED <<ret, vacated>>
        /\ \A m \in Nodes \ {n} : phase'[m] = phase[m] /\ left'[m] = left[m] /\ found'[m] = found[m]
    BY <1>3 DEF Discover, DrainStep, coordVars
  <2> QED
    BY <2>1 DEF DroppedInv
<1>4. ASSUME NEW n \in Nodes, EndBatch(n), phase'[n] # "failed" PROVE DroppedInv'
  <2>1. /\ UNCHANGED <<ret, vacated, phase, found>> /\ BatchSettled(n)
        /\ \A c \in Calls(n) : ~Errored(c)
        /\ left' = [left EXCEPT ![n] = @ \ batch[n]]
    BY <1>4 DEF EndBatch, DrainStep, coordVars, FailDrain
  <2>2. \A w \in batch[n] : vacated[<<n, w>>] = "ok"
    BY <2>1, MultiNodeAssumption DEF BatchSettled, Settled, Errored, Calls
  <2> QED
    BY <2>1, <2>2 DEF DroppedInv
<1>5. ASSUME NEW n \in Nodes, UNCHANGED <<ret, vacated, found, left>>,
             CordonNode(n) \/ RefuseNode(n) \/ AllRestarted(n) \/ EvictOk(n) \/ EvictFails(n)
               \/ StartDrain(n) \/ StartBatch(n) \/ (EndBatch(n) /\ phase'[n] = "failed")
      PROVE  DroppedInv'
  <2>1. /\ \A m \in Nodes \ {n} : phase'[m] = phase[m]
        /\ \/ phase'[n] = phase[n]
           \/ phase'[n] \in {"discover", "failed"}
           \/ phase[n] = "cordon" /\ phase'[n] = "restart"
           \/ phase[n] = "restart" /\ phase'[n] = "evict" /\ left[n] = {}
           \/ phase[n] = "evict" /\ phase'[n] = "ok"
    BY <1>5 DEF CordonNode, RefuseNode, AllRestarted, EvictOk, EvictFails, StartDrain, StartBatch,
                EndBatch, FailDrain
  <2> QED
    BY <1>5, <2>1, DroppedUnchanged DEF EmptyInv
<1>6. ASSUME UNCHANGED <<ret, vacated, found, left, phase>> PROVE DroppedInv'
  BY <1>6, DroppedUnchanged
<1>7. ASSUME NEW c \in Callers, Cancelled(c) PROVE DroppedInv'
  BY <1>6, <1>7 DEF Cancelled, CancelCtx, drainVars
<1>8. CASE NodeBatchEnds \/ AllBatchesDone \/ (\E n \in Nodes : NodeCtxEnds(n))
            \/ (\E n \in Nodes, w \in Keys : PodScheduled(n, w) \/ PodReplaced(n, w))
            \/ UNCHANGED multiVars
  BY <1>6, <1>8
  DEF NodeBatchEnds, AllBatchesDone, NodeCtxEnds, PodScheduled, PodReplaced, ClusterOnly, multiVars,
      drainVars, coordVars
<1>9. ASSUME NEW n \in Nodes, Drain(n) \/ StartDrain(n) PROVE DroppedInv'
  <2>1. \/ Discover(n) \/ (EndBatch(n) /\ phase'[n] # "failed")
        \/ UNCHANGED <<ret, vacated, found, left>>
    BY <1>9 DEF Drain, CordonNode, RefuseNode, AllRestarted, EvictOk, EvictFails, StartDrain,
                StartBatch, EndBatch, FailDrain, DrainStep, coordVars
  <2> QED
    BY <1>3, <1>4, <1>5, <1>9, <2>1 DEF Drain
<1> QED
  BY <1>1, <1>2, <1>7, <1>8, <1>9
  DEF MultiNext, CallerStep, PodsOffNode, VacateFails, RunResolved

(***************************************************************************)
(* One node's drain under the mapping to DrainPromise.                     *)
(***************************************************************************)
\* What anybody else's step is to the drain of n: its own list is left alone, and
\* pods come to the node only as long as it is not cordoned.
LEMMA OthersLeaveAlone ==
  ASSUME MultiTypes, NEW n \in Nodes, [MultiNext]_multiVars, ~Drain(n)
  PROVE  /\ stageOf(n)' = stageOf(n) /\ left'[n] = left[n] /\ found'[n] = found[n]
         /\ n \in cordoned => OnNode(n)' \subseteq OnNode(n)
<1> USE DEF MultiTypes, MultiTypeOK, OnNode, stageOf
<1>1. ASSUME UNCHANGED <<phase, left, found, cordoned>>,
             n \in cordoned => OnNode(n)' \subseteq OnNode(n)
      PROVE  /\ stageOf(n)' = stageOf(n) /\ left'[n] = left[n] /\ found'[n] = found[n]
             /\ n \in cordoned => OnNode(n)' \subseteq OnNode(n)
  BY <1>1
<1>2. ASSUME NEW c \in Callers, CallerStep(c) \/ Cancelled(c)
      PROVE  /\ UNCHANGED <<phase, left, found, cordoned>>
             /\ n \in cordoned => OnNode(n)' \subseteq OnNode(n)
  BY <1>2, PodTypes
  DEF CallerStep, Coordinated, Cancelled, PodsOffNode, VacateFails, VacateReturns, drainVars,
      podVars
<1>3. ASSUME NEW m \in Nodes \ {n}, Drain(m)
      PROVE  /\ stageOf(n)' = stageOf(n) /\ left'[n] = left[n] /\ found'[n] = found[n]
             /\ OnNode(n)' \subseteq OnNode(n)
  BY <1>3
  DEF Drain, Discover, CordonNode, RefuseNode, StartBatch, EndBatch, AllRestarted, EvictOk,
      EvictFails, FailDrain, podVars
<1>4. ASSUME NEW m \in Nodes, StartDrain(m)
      PROVE  /\ stageOf(n)' = stageOf(n) /\ left'[n] = left[n] /\ found'[n] = found[n]
             /\ OnNode(n)' \subseteq OnNode(n)
  BY <1>4 DEF StartDrain, podVars
<1>5. ASSUME NEW m \in Nodes, NodeCtxEnds(m)
      PROVE  UNCHANGED <<phase, left, found, cordoned, newPods, oldPods>>
  BY <1>5 DEF NodeCtxEnds, podVars
<1>6. CASE NodeBatchEnds \/ AllBatchesDone \/ UNCHANGED multiVars
  BY <1>1, <1>6 DEF NodeBatchEnds, AllBatchesDone, multiVars, drainVars, podVars
<1>7. ASSUME NEW m \in Nodes, NEW w \in Keys, PodScheduled(m, w) \/ PodReplaced(m, w)
      PROVE  /\ UNCHANGED <<phase, left, found, cordoned>>
             /\ n \in cordoned => OnNode(n)' \subseteq OnNode(n)
  BY <1>7 DEF PodScheduled, PodReplaced, ClusterOnly, drainVars
<1> QED
  BY <1>1, <1>2, <1>3, <1>4, <1>5, <1>6, <1>7 DEF MultiNext, RunResolved

\* A node is kept free of new pods from the cordon to the end of a drain that does not
\* fail.
KeptInv ==
  \A n \in Nodes : keptOf(n) = (stageOf(n) \in {"restarting", "evicting", "ok"})

\* The node is cordoned all that time.
LEMMA KeptIsCordoned == MultiTypes /\ EmptyInv => KeptInv
<1> SUFFICES ASSUME MultiTypes, EmptyInv, NEW n \in Nodes
             PROVE  keptOf(n) = (stageOf(n) \in {"restarting", "evicting", "ok"})
  BY DEF KeptInv
<1>1. stageOf(n) \in {"restarting", "evicting", "ok"} => phase[n] \in {"restart", "evict", "ok"}
  BY DEF stageOf, MultiTypes, MultiTypeOK, Underway
<1>2. stageOf(n) \in {"restarting", "evicting", "ok"} => n \in cordoned
  BY <1>1 DEF EmptyInv
<1> QED
  BY <1>2 DEF keptOf

\* The drain's own steps.
LEMMA OwnPromise ==
  ASSUME MultiTypes, EmptyInv, EmptyInv', KeptInv, KeptInv', NEW n \in Nodes, Drain(n)
  PROVE  [DrainOf(n)!Next]_(DrainOf(n)!vars)
<1> USE DEF MultiTypes, MultiTypeOK, Underway
<1>1. keptOf(n) = (stageOf(n) \in {"restarting", "evicting", "ok"})
  BY DEF KeptInv
<1>2. keptOf(n)' = (stageOf(n)' \in {"restarting", "evicting", "ok"})
  BY DEF KeptInv
<1>3. CASE Discover(n)
  <2>1. /\ stageOf(n) = "idle" /\ stageOf(n)' = "looking" /\ OnNode(n)' = OnNode(n)
        /\ found'[n] = OnNode(n) /\ left'[n] = OnNode(n)
    BY <1>3 DEF Discover, stageOf, OnNode, podVars
  <2>2. foundOf(n)' = OnNode(n) /\ leftOf(n)' = OnNode(n) /\ OnNode(n) \in SUBSET Keys
    BY <2>1 DEF foundOf, leftOf, OnNode
  <2> QED
    BY <1>1, <1>2, <2>1, <2>2 DEF DrainOf!Next, DrainOf!Look
<1>4. CASE CordonNode(n)
  <2>1. /\ stageOf(n) = "looking" /\ stageOf(n)' = "restarting" /\ OnNode(n)' = OnNode(n)
        /\ found'[n] = found[n] /\ left'[n] = left[n]
    BY <1>4 DEF CordonNode, stageOf, OnNode, podVars
  <2>2. foundOf(n)' = foundOf(n) /\ leftOf(n)' = leftOf(n)
    BY <2>1 DEF foundOf, leftOf
  <2>3. keptOf(n)' \in BOOLEAN
    BY <1>2
  <2> QED
    BY <2>1, <2>2, <2>3 DEF DrainOf!Next, DrainOf!Cordon
<1>5. ASSUME FailDrain(n, TRUE) \/ FailDrain(n, FALSE), phase[n] \in Underway
      PROVE  [DrainOf(n)!Next]_(DrainOf(n)!vars)
  <2>1. /\ stageOf(n) \in {"idle", "looking", "restarting", "evicting"}
        /\ stageOf(n)' = "failed" /\ OnNode(n)' = OnNode(n)
    BY <1>5 DEF FailDrain, stageOf, OnNode, podVars
  <2>2. foundOf(n)' = {} /\ leftOf(n)' = {} /\ keptOf(n)' = FALSE
    BY <2>1 DEF foundOf, leftOf, keptOf
  <2> QED
    BY <2>1, <2>2 DEF DrainOf!Next, DrainOf!Fail, DrainOf!Forget
<1>6. CASE StartBatch(n)
  <2>1. /\ stageOf(n)' = stageOf(n) /\ OnNode(n)' = OnNode(n)
        /\ found'[n] = found[n] /\ left'[n] = left[n]
    BY <1>6 DEF StartBatch, stageOf, OnNode, podVars
  <2>2. foundOf(n)' = foundOf(n) /\ leftOf(n)' = leftOf(n) /\ keptOf(n)' = keptOf(n)
    BY <1>1, <1>2, <2>1 DEF foundOf, leftOf
  <2> QED
    BY <2>1, <2>2 DEF DrainOf!vars
<1>7. CASE EndBatch(n) /\ ~FailDrain(n, TRUE)
  <2>1. /\ stageOf(n) = "restarting" /\ stageOf(n)' = "restarting" /\ OnNode(n)' = OnNode(n)
        /\ found'[n] = found[n] /\ left'[n] = left[n] \ batch[n] /\ phase'[n] = "restart"
    BY <1>7 DEF EndBatch, stageOf, OnNode, podVars
  <2>2. /\ foundOf(n)' = foundOf(n) /\ keptOf(n)' = keptOf(n)
        /\ leftOf(n) = left[n] /\ leftOf(n)' = left'[n]
    BY <1>1, <1>2, <2>1 DEF foundOf, leftOf
  <2>3. (left[n] \ left'[n]) \cap OnNode(n) = {}
    BY <2>1 DEF EmptyInv
  <2> QED
    BY <2>1, <2>2, <2>3 DEF DrainOf!Next, DrainOf!StrikeOff
<1>8. CASE AllRestarted(n)
  <2>1. /\ stageOf(n) = "restarting" /\ stageOf(n)' = "evicting" /\ OnNode(n)' = OnNode(n)
        /\ found'[n] = found[n] /\ left'[n] = left[n] /\ left[n] = {}
    BY <1>8 DEF AllRestarted, stageOf, OnNode, podVars
  <2>2. foundOf(n)' = foundOf(n) /\ leftOf(n)' = leftOf(n) /\ leftOf(n) = {}
        /\ keptOf(n)' = keptOf(n)
    BY <1>1, <1>2, <2>1 DEF foundOf, leftOf
  <2> QED
    BY <2>1, <2>2 DEF DrainOf!Next, DrainOf!Evict
<1>9. CASE EvictOk(n)
  <2>1. /\ stageOf(n) = "evicting" /\ stageOf(n)' = "ok" /\ OnNode(n)' = {}
        /\ found'[n] = found[n] /\ left'[n] = left[n]
    BY <1>9 DEF EvictOk, stageOf, OnNode
  <2>2. foundOf(n)' = foundOf(n) /\ leftOf(n)' = leftOf(n) /\ keptOf(n)' = keptOf(n)
    BY <1>1, <1>2, <2>1 DEF foundOf, leftOf
  <2> QED
    BY <2>1, <2>2 DEF DrainOf!Next, DrainOf!Succeed
<1> QED
  BY <1>3, <1>4, <1>5, <1>6, <1>7, <1>8, <1>9 DEF Drain, RefuseNode, EvictFails, EndBatch

\* Every step keeps every drain's promise.
LEMMA DrainPromised ==
  ASSUME MultiTypes, MultiTypes', EmptyInv, EmptyInv', KeptInv, KeptInv',
         [MultiNext]_multiVars, NEW n \in Nodes
  PROVE  [DrainOf(n)!Next]_(DrainOf(n)!vars)
<1>1. CASE Drain(n)
  BY <1>1, OwnPromise
<1>2. CASE ~Drain(n)
  <2>1. /\ stageOf(n)' = stageOf(n) /\ left'[n] = left[n] /\ found'[n] = found[n]
        /\ n \in cordoned => OnNode(n)' \subseteq OnNode(n)
    BY <1>2, OthersLeaveAlone
  <2>2. foundOf(n)' = foundOf(n) /\ leftOf(n)' = leftOf(n)
    BY <2>1 DEF foundOf, leftOf
  <2>3. keptOf(n)' = keptOf(n)
    <3>1. keptOf(n) = (stageOf(n) \in {"restarting", "evicting", "ok"})
      BY DEF KeptInv
    <3>2. keptOf(n)' = (stageOf(n)' \in {"restarting", "evicting", "ok"})
      BY DEF KeptInv
    <3> QED
      BY <2>1, <3>1, <3>2
  <2>4. keptOf(n) => OnNode(n)' \subseteq OnNode(n)
    BY <2>1 DEF keptOf
  <2>5. OnNode(n)' \in SUBSET Keys
    BY DEF OnNode
  <2> QED
    BY <2>1, <2>2, <2>3, <2>4, <2>5 DEF DrainOf!Next, DrainOf!PodsChange
<1> QED
  BY <1>1, <1>2

(***************************************************************************)
(* The theorems.                                                           *)
(***************************************************************************)
MultiInv ==
  MultiTypes /\ NodeBatchBarrier /\ ResultInv /\ CallInv /\ EmptyInv

\* The invariant holds at the start.
LEMMA MultiInitInv == MultiInit => MultiInv
<1> SUFFICES ASSUME MultiInit PROVE MultiInv
  OBVIOUS
<1>1. MultiTypes
  BY MultiInitTypes
<1>2. NodeBatchBarrier
  <2>1. \A i \in DOMAIN NodeList : NodeList[i] \in Nodes /\ i \in 1..Len(NodeList)
    BY <1>1, InBatch DEF Nodes
  <2> QED
    BY <2>1 DEF MultiInit, NodeBatchBarrier
<1>3. ResultInv
  BY DEF MultiInit, ResultInv
<1>4. CallInv
  BY CallersArePairs DEF MultiInit, CoordInit, CallInv, Started
<1>5. EmptyInv
  BY DEF MultiInit, EmptyInv
<1> QED
  BY <1>1, <1>2, <1>3, <1>4, <1>5 DEF MultiInv

\* The inductive invariant holds in every reachable state.
THEOREM MultiInvariant == MultiSpec => []MultiInv
<1>1. MultiInv /\ CoordTypeOK' /\ [MultiNext]_multiVars => MultiInv'
  BY MultiStepTypes, BarrierStep, ResultStep, CallStep, EmptyStep DEF MultiInv
<1>2. MultiSpec => []CoordTypeOK
  BY MultiImplementsCoordinator, CoordTypeCorrect, PTL
<1> QED
  BY <1>1, <1>2, MultiInitInv, PTL DEF MultiSpec

\* The drains' state is well typed, and a batch is among what is left to restart, that
\* among what was found.
THEOREM MultiTypeCorrect == MultiSpec => []MultiTypeOK
<1>1. MultiInv => MultiTypeOK
  BY DEF MultiInv, MultiTypes
<1> QED
  BY <1>1, MultiInvariant, PTL

\* A drain begins only when all drains of the earlier batches have succeeded, for
\* any number of nodes and any --node-concurrency (app.go:168-182).
THEOREM MultiNodeBatchBarrier == MultiSpec => []NodeBatchBarrier
<1>1. MultiInv => NodeBatchBarrier
  BY DEF MultiInv
<1> QED
  BY <1>1, MultiInvariant, PTL

\* When RunResolved returns nil all its nodes are cordoned and empty (app.go:159-184).
THEOREM MultiAllNodesEmptied == MultiSpec => []AllNodesEmptied
<1>1. MultiInv => AllNodesEmptied
  <2> SUFFICES ASSUME MultiInv, result = "ok"
               PROVE  Nodes \subseteq cordoned /\ newPods = {} /\ oldPods = {}
    BY DEF AllNodesEmptied
  <2>1. \A n \in Nodes : n \in cordoned /\ OnNode(n) = {}
    BY DEF MultiInv, ResultInv, EmptyInv
  <2>2. newPods \cup oldPods \subseteq Nodes \X Keys
    BY DEF MultiInv, MultiTypes, MultiTypeOK
  <2>3. newPods \cup oldPods = {}
    <3> SUFFICES ASSUME NEW p \in newPods \cup oldPods PROVE FALSE
      OBVIOUS
    <3>1. PICK n \in Nodes, w \in Keys : p = <<n, w>>
      BY <2>2
    <3> QED
      BY <2>1, <3>1 DEF OnNode
  <2> QED
    BY <2>1, <2>3
<1> QED
  BY <1>1, MultiInvariant, PTL

\* When RunResolved returns nothing it started is still at work (app.go:176-182,
\* workload_runner.go:93-94).
THEOREM MultiNothingLeftRunning == MultiSpec => []NothingLeftRunning
<1>1. MultiInv => NothingLeftRunning
  <2> SUFFICES ASSUME MultiInv, result # "none"
               PROVE  Active = {} /\ \A c \in Callers : pc[c] \in {"lockFor", "returned"}
    BY DEF NothingLeftRunning
  <2>1. Active = {}
    BY DEF MultiInv, ResultInv
  <2>2. \A c \in Callers : phase[c[1]] # "restart"
    BY <2>1, CallersArePairs DEF Active, Underway
  <2> QED
    BY <2>1, <2>2 DEF MultiInv, CallInv
<1> QED
  BY <1>1, MultiInvariant, PTL

\* A workload the drain found has left its node before the eviction begins, whichever
\* drain restarted it (drain.go:105-106).
THEOREM MultiSharedWorkloadsLeft == MultiSpec => []SharedWorkloadsLeft
<1>1. MultiInv => SharedWorkloadsLeft
  BY DEF MultiInv, EmptyInv, SharedWorkloadsLeft
<1> QED
  BY <1>1, MultiInvariant, PTL

\* The drains of one invocation, pods moving between their nodes and all, keep the
\* promise of RestartOnce (coordinator.go:33-59).
THEOREM MultiImplementsRestartOnce == MultiSpec => ImplementsRestartOnce
BY MultiImplementsCoordinator, CoordImplementsRestartOnce, PTL

\* When RunResolved returns nil each workload found was restarted exactly once, on
\* however many of the nodes it had pods (drain.go:105-106).
THEOREM MultiEachRestartedOnce == MultiSpec => []EachRestartedOnce
<1>1. ASSUME MultiInv, DroppedInv, OkMeansRestarted, RestartedAtMostOnce, CoordTypeOK
      PROVE  EachRestartedOnce
  <2> SUFFICES ASSUME result = "ok", NEW n \in Nodes, NEW w \in found[n]
               PROVE  \E c \in Callers : {d \in restartedBy : KeyOf[d] = w} = {c}
    BY DEF EachRestartedOnce
  <2>1. w \in Keys /\ <<n, w>> \in Callers /\ KeyOf[<<n, w>>] = w
    BY <1>1, MultiNodeAssumption DEF MultiInv, MultiTypes, MultiTypeOK
  <2>2. phase[n] = "ok"
    BY <1>1 DEF MultiInv, ResultInv
  <2>3. ret[<<n, w>>] = "ok"
    BY <1>1, <2>1, <2>2 DEF DroppedInv
  <2>4. PICK c \in restartedBy : KeyOf[c] = w
    BY <1>1, <2>1, <2>3 DEF OkMeansRestarted
  <2>5. c \in Callers /\ \A d \in restartedBy : KeyOf[d] = w => d = c
    BY <1>1, <2>4 DEF RestartedAtMostOnce, CoordTypeOK
  <2> QED
    BY <2>4, <2>5
<1>2. MultiInit => DroppedInv
  BY CallersArePairs DEF MultiInit, DroppedInv
<1>3. MultiInv /\ DroppedInv /\ [MultiNext]_multiVars => DroppedInv'
  BY DroppedStep DEF MultiInv
<1>4. MultiSpec => [](OkMeansRestarted /\ RestartedAtMostOnce /\ CoordTypeOK)
  BY MultiImplementsCoordinator, CoordOkMeansRestarted, CoordRestartedAtMostOnce,
     CoordTypeCorrect, PTL
<1> QED
  BY <1>1, <1>2, <1>3, <1>4, MultiInvariant, PTL DEF MultiSpec

\* In every step the drain of each node keeps the promise that SessionProofs shows of
\* the detailed drain, whatever the others do to the workloads they share
\* (drain.go, Run; app.go:159-191).
THEOREM MultiDrainsKeepPromise == MultiSpec => DrainsKeepPromise
<1>1. MultiInit => \A n \in Nodes : DrainOf(n)!Init
  BY DEF MultiInit, stageOf, foundOf, leftOf, keptOf, OnNode, DrainOf!Init
<1>2. MultiInv => KeptInv
  BY KeptIsCordoned DEF MultiInv
<1>3. MultiInv /\ MultiInv' /\ KeptInv /\ KeptInv' /\ [MultiNext]_multiVars =>
        [\A n \in Nodes : [DrainOf(n)!Next]_(DrainOf(n)!vars)]_multiVars
  BY DrainPromised DEF MultiInv
<1> QED
  BY <1>1, <1>2, <1>3, MultiInvariant, PTL DEF MultiSpec, DrainsKeepPromise
================================================================================
