---------------------------- MODULE NodeDrainProofs ----------------------------
(***************************************************************************)
(* Proofs about NodeDrain: any number of sessions, one after the other, of *)
(* any options, on any pods, whatever the cluster does in between and      *)
(* wherever a session fails or is killed.                                  *)
(***************************************************************************)
EXTENDS NodeDrain, RunnerProofs, EvictProofs

(***************************************************************************)
(* The inductive invariant.                                                *)
(***************************************************************************)
\* Session phases by what they may assume.
Before == {"validate", "discover", "prepare", "cordon"}
After == {"workloads", "evict", "cleanup", "deferred"}

InSlice(w) == \E i \in DOMAIN workloads : workloads[i] = w

\* Each phase finds the variables of the others as they left them.
PhaseInv ==
  /\ phase \in Before \cup {"idle"} =>
       /\ rpc = "idle" /\ epc = "idle" /\ batchStart = 0
       /\ todo = {} /\ evicted = {} /\ ~touched /\ ~stayed
       /\ \A w \in Workloads : wpc[w] = "idle"
  /\ phase = "workloads" => rpc # "idle" /\ epc = "idle" /\ todo = {} /\ evicted = {}
  /\ phase # "workloads" => rpc \in {"idle", "returned"}
  /\ phase \in {"evict", "cleanup"} => rpc = "returned" /\ ~runErr
  /\ phase = "cleanup" => epc = "returned" /\ ~evictErr
  /\ phase = "idle" <=> session = 0

\* What is read before the cordon stops a session that must not change anything.
RefusedInv ==
  /\ phase \in After \cup {"cordon"} => ~refused /\ checkpointUsable
  /\ touched => ~opts.dryRun /\ ~refused /\ checkpointUsable
  /\ opts.dryRun => /\ epc \notin {"evict", "wait"}
                    /\ \A w \in Workloads : wpc[w] \in {"idle", "patch", "done"}
  /\ rpc \in {"loop", "batch"} => cp.readable /\ CP!validateCheckpoint(cp, opts.context)

\* Whose cordon is on the node.
CordonInv ==
  /\ phase \in Before => cordoner # session /\ ~cordonedByUs
  /\ cordoner = session /\ session > 0 /\ ~lostPatch /\ phase # "exited" => cordonedByUs
  /\ FailureUndoesOwnCordon
  /\ stayed => unsched

\* If nobody cordons or uncordons during a session, what it read stays true.
OwnershipInv ==
  ~OperatorMayRace =>
    /\ phase \in {"discover", "prepare", "cordon"} => snapUnsched = unsched
    /\ phase \in After /\ cordonedByUs => cordoner = session

OlderThan(a, b) == a.uid < b.uid \/ (a.uid = b.uid /\ a.gen < b.gen)
NotNewer(a, b) == a = b \/ OlderThan(a, b)

\* What was discovered is never newer than the object, and a workload whose patch
\* went through is newer than what was discovered.
OlderInv ==
  /\ \A w \in Workloads : NotNewer(snap[w], spec[w])
  /\ \A w \in Workloads :
       \/ wpc[w] \in {"rollout", "vacate", "save"}
       \/ wpc[w] = "done" /\ ~opts.dryRun
       => OlderThan(snap[w], spec[w])

\* Where the filtered workloads are, and where the others.
FilterInv ==
  /\ phase \in {"validate", "discover", "idle"} => discovered = {}
  /\ \A w \in discovered : filtered(w) => wpc[w] = "idle" /\ <<w, TRUE>> \notin evicted
  /\ phase \in After \cup {"cordon"} =>
       \A w \in discovered :
         filtered(w) => w \in protected /\ ~InSlice(w)
  /\ phase = "prepare" => \A w \in discovered : InSlice(w)
  /\ phase = "cordon" \/ rpc = "begin" => \A w \in discovered \ protected : InSlice(w)

Gone(w) == ~HasPods(w)

\* The checkpoint let the resume filter drop w: as it was discovered, or because its
\* pods have left.
Dropped(w) == takenAsDone(w, FALSE) /\ (Gone(w) \/ takenAsDone(w, TRUE))

\* On a node that stays unschedulable a workload that was restarted stays away, and
\* every other one that discovery found was dropped; only what was dropped is evicted.
RolledInv ==
  /\ stayed /\ ~opts.dryRun =>
       /\ \A w \in Workloads : wpc[w] \in {"save", "done"} => Gone(w)
       /\ \/ rpc \in {"loop", "batch"}
          \/ phase = "workloads" /\ rpc = "returned" /\ ~runErr
          \/ phase \in {"evict", "cleanup"}
          => \A w \in discovered \ protected : InSlice(w) \/ Dropped(w)
  /\ stayed /\ phase \in {"evict", "cleanup"} =>
       \A w \in discovered :
         w \in todo \/ <<w, TRUE>> \in evicted => takenAsDone(w, TRUE)
  /\ phase # "workloads" /\ stayed => \A w \in Workloads : wpc[w] # "patch"

\* While the node stays unschedulable the eviction empties it.
EvictPhaseInv == stayed /\ phase \in {"evict", "cleanup"} => EmptiedInv

DrainTypes == NodeDrainTypeOK /\ TypesInv /\ Distinct(workloads)

DrainInv ==
  /\ DrainTypes /\ LoopInv /\ PhaseInv /\ RefusedInv /\ CordonInv /\ OwnershipInv
  /\ OlderInv /\ FilterInv /\ RolledInv /\ AllowedInv /\ EvictPhaseInv

(***************************************************************************)
(* Slices.                                                                 *)
(***************************************************************************)
\* A rearrangement of some positions holds the elements at those, each once.
LEMMA RearrangedSlice ==
  ASSUME NEW s \in Seq(Workloads), Distinct(s), NEW keep \in SUBSET DOMAIN s,
         NEW t \in InOrder(s, keep) \cup SortByPriority(s, keep)
  PROVE  /\ t \in Seq(Workloads) /\ Distinct(t)
         /\ \A j \in DOMAIN t : \E i \in keep : t[j] = s[i]
         /\ \A i \in keep : \E j \in DOMAIN t : t[j] = s[i]
<1> DEFINE n == Cardinality(keep)
<1>1. n \in Nat
  BY KeptIsFinite
<1>2. PICK p \in Bijection(1 .. n, keep) : t = [i \in DOMAIN p |-> s[p[i]]]
  BY DEF SortByPriority, InOrder, Rearranged, Rearrangements
<1> HIDE DEF n
<1>3. /\ p \in [1 .. n -> keep]
      /\ \A i, j \in 1 .. n : p[i] = p[j] => i = j
      /\ \A k \in keep : \E i \in 1 .. n : p[i] = k
  BY <1>2 DEF Bijection, Injection, IsInjective, Surjection
<1>4. \A i \in 1 .. n : p[i] \in DOMAIN s /\ s[p[i]] \in Workloads
  BY <1>3
<1>5. t = [i \in 1 .. n |-> s[p[i]]]
  BY <1>2, <1>3
<1>6. t \in Seq(Workloads) /\ DOMAIN t = 1 .. n
  BY <1>1, <1>4, <1>5
<1>7. Distinct(t)
  BY <1>3, <1>4, <1>5, <1>6 DEF Distinct
<1> QED
  BY <1>3, <1>5, <1>6, <1>7

\* The discovered workloads in the order of the pod list, each once.
LEMMA DiscoveredSlice ==
  ASSUME NEW found \in SUBSET Workloads, NEW t \in SetToSeqs(found)
  PROVE  /\ t \in Seq(Workloads) /\ Distinct(t)
         /\ \A i \in DOMAIN t : t[i] \in found
         /\ \A w \in found : \E i \in DOMAIN t : t[i] = w
<1> DEFINE n == Cardinality(found)
<1>1. IsFiniteSet(found)
  BY RunnerAssumption, FS_Subset
<1>2. n \in Nat
  BY <1>1, FS_CardinalityType
<1>3. /\ t \in [1 .. n -> found]
      /\ \A i, j \in 1 .. n : i # j => t[i] # t[j]
  BY DEF SetToSeqs
<1>4. t \in Injection(1 .. n, found)
  BY <1>3 DEF Injection, IsInjective
<1>5. Cardinality(1 .. n) = n
  <2> HIDE DEF n
  <2>1. Cardinality(1 .. n) = IF 1 > n THEN 0 ELSE n - 1 + 1
    BY <1>2, FS_Interval
  <2> QED
    BY <1>2, <2>1
<1>6. t \in Surjection(1 .. n, found)
  BY <1>1, <1>4, <1>5, FS_Injection
<1>7. \A w \in found : \E i \in 1 .. n : t[i] = w
  BY <1>6 DEF Surjection
<1> HIDE DEF n
<1> QED
  BY <1>2, <1>3, <1>7 DEF Distinct

(***************************************************************************)
(* The initial states.                                                     *)
(***************************************************************************)
\* The invariant holds before the first session.
LEMMA DrainInitInv == NodeDrainInit => DrainInv
<1> SUFFICES ASSUME NodeDrainInit PROVE DrainInv
  OBVIOUS
<1>1. /\ phase = "idle" /\ rpc = "idle" /\ epc = "idle" /\ session = 0 /\ cordoner = 0
      /\ batchStart = 0 /\ workloads = <<>> /\ ~runErr /\ ~evictErr /\ result = "none"
      /\ todo = {} /\ seen = {} /\ evicted = {} /\ elsewhere = {} /\ current = NoPod
      /\ discovered = {} /\ protected = {} /\ interval = 0
      /\ ~touched /\ ~refused /\ ~stayed /\ ~lostPatch /\ ~cordonedByUs /\ ~snapUnsched
      /\ \A w \in Workloads : wpc[w] = "idle"
      /\ wpc \in [Workloads -> WorkerPoints]
      /\ runErr \in BOOLEAN /\ evictErr \in BOOLEAN /\ ctxErr \in BOOLEAN /\ gctxErr \in BOOLEAN
  BY DEF NodeDrainInit, WorkerPoints
<1>2. opts \in Options
  BY NodeDrainAssumption DEF NodeDrainInit
<1>3. ClusterTypeOK /\ RunTypeOK
  BY <1>1, <1>2, NodeDrainAssumption
  DEF NodeDrainInit, liveAtFirst, ClusterTypeOK, RunTypeOK, Identity
<1>4. {cp, cpFile} \subseteq CheckpointFiles
  BY RunnerAssumption, EmptyFile DEF NodeDrainInit
<1>5. RunnerTypeOK
  BY <1>1, <1>3, <1>4 DEF NodeDrainInit, RunnerTypeOK, Identity
<1>6. EvictTypeOK
  BY <1>1, EvictAssumption DEF EvictTypeOK
<1>7. DrainTypes
  <2>1. \A b \in {snapUnsched, cordonedByUs, touched, refused, lostPatch, stayed} :
          b \in BOOLEAN
    BY DEF NodeDrainInit
  <2>2. session \in 0 .. MaxSessions /\ cordoner \in 0 .. session
    BY <1>1, NodeDrainAssumption
  <2> QED
    BY <1>1, <1>3, <1>5, <1>6, <2>1, <2>2 DEF DrainTypes, NodeDrainTypeOK, TypesInv, Distinct
<1>8. LoopInv
  BY <1>1 DEF LoopInv, BatchBarrier, SuccessMeansAllDone, Running
<1>9. PhaseInv /\ RefusedInv /\ CordonInv /\ OwnershipInv
  BY <1>1 DEF PhaseInv, RefusedInv, CordonInv, OwnershipInv, FailureUndoesOwnCordon, Before,
              After
<1>10. OlderInv
  <2>1. \A w \in Workloads : snap[w].uid = 0 /\ spec[w].uid = 2
    BY DEF NodeDrainInit, liveAtFirst
  <2>2. \A w \in Workloads : OlderThan(snap[w], spec[w])
    <3> SUFFICES ASSUME NEW w \in Workloads PROVE OlderThan(snap[w], spec[w])
      OBVIOUS
    <3>1. snap[w].uid = 0 /\ spec[w].uid = 2
      BY <2>1
    <3>2. snap[w].uid < spec[w].uid
      BY <3>1
    <3> QED
      BY <3>2 DEF OlderThan
  <2> QED
    BY <1>1, <2>2 DEF OlderInv, NotNewer
<1>11. FilterInv /\ RolledInv
  BY <1>1 DEF FilterInv, RolledInv, After
<1>12. AllowedInv /\ EvictPhaseInv
  BY <1>1 DEF AllowedInv, OnlyAllowedEvicted, EvictPhaseInv
<1> QED
  BY <1>7, <1>8, <1>9, <1>10, <1>11, <1>12 DEF DrainInv

(***************************************************************************)
(* What a part of the invariant does not look at cannot disturb it.        *)
(***************************************************************************)
\* The loop, where its variables stay as they are.
LEMMA LoopUnchanged ==
  ASSUME LoopInv, UNCHANGED <<opts, workloads, rpc, runErr, batchStart, wpc>>
  PROVE  LoopInv'
<1>1. UNCHANGED <<BatchSize, Batch>>
  BY DEF BatchSize, Batch, BatchIndices
<1> QED
  BY <1>1 DEF LoopInv, BatchBarrier, SuccessMeansAllDone

\* So it is with what may be evicted,
LEMMA AllowedUnchanged ==
  ASSUME AllowedInv, UNCHANGED <<todo, evicted, protected, opts>>
  PROVE  AllowedInv'
BY DEF AllowedInv, OnlyAllowedEvicted, Allowed

\* with how old the objects are,
LEMMA OlderUnchanged ==
  ASSUME OlderInv, UNCHANGED <<snap, spec, wpc, opts>>
  PROVE  OlderInv'
BY DEF OlderInv

\* with what the resume filter dropped,
LEMMA TakenUnchanged ==
  ASSUME UNCHANGED <<opts, workloads, snap, cp>>
  PROVE  \A w, b : takenAsDone(w, b)' = takenAsDone(w, b)
BY DEF takenAsDone, names

\* and with what is left on the node.
LEMMA EmptiedUnchanged ==
  ASSUME EmptiedInv,
         UNCHANGED <<unsched, pods, epc, evictErr, todo, seen, protected, opts>>
  PROVE  EmptiedInv'
BY DEF EmptiedInv, SuccessMeansEmptied, MayRemain

(***************************************************************************)
(* Beginning a session and the phases that only read.                      *)
(***************************************************************************)
\* A session begins with everything in memory fresh.
LEMMA StartKeepsInv ==
  ASSUME DrainInv, StartSession
  PROVE  DrainInv'
<1> USE DEF DrainInv, DrainTypes, NodeDrainTypeOK, TypesInv, StartSession
<1>0. UNCHANGED <<unsched, pods, spec>>
  BY DEF clusterVars
<1>1. ClusterTypeOK' /\ RunTypeOK'
  BY <1>0 DEF ClusterTypeOK, RunTypeOK
<1>2. RunnerTypeOK'
  <2>1. {cp, cpFile}' \subseteq CheckpointFiles
    BY EmptyFile DEF RunnerTypeOK
  <2>2. snap' \in [Workloads -> Identity] /\ wpc' \in [Workloads -> WorkerPoints]
    BY DEF Identity, WorkerPoints
  <2>3. workloads' \in Seq(Workloads)
    OBVIOUS
  <2> QED
    BY <1>1, <2>1, <2>2, <2>3 DEF RunnerTypeOK
<1>3. EvictTypeOK' /\ epc' # "list"
  <2>1. /\ elsewhere' = elsewhere /\ epc' = "idle" /\ evictErr' = FALSE /\ interval' = 0
        /\ todo' = {} /\ seen' = {} /\ current' = NoPod /\ evicted' = {}
    OBVIOUS
  <2>2. elsewhere \in SUBSET PodNames
    BY DEF EvictTypeOK
  <2>3. evicted' \in SUBSET (PodNames \X BOOLEAN) /\ todo' \in SUBSET PodNames
    BY <2>1
  <2>4. interval' \in 0 .. MaxInterval
    BY <2>1, EvictAssumption
  <2> QED
    BY ONLY <2>1, <2>2, <2>3, <2>4 DEF EvictTypeOK
<1>4. DrainTypes'
  <2>1. session' \in 0 .. MaxSessions /\ cordoner' \in 0 .. session'
    BY NodeDrainAssumption
  <2>2. \A b \in {snapUnsched, cordonedByUs, touched, refused, lostPatch, stayed}' :
          b \in BOOLEAN
    OBVIOUS
  <2>3. /\ phase' = "validate" /\ result' = "none" /\ discovered' = {}
        /\ workloads' = <<>>
    OBVIOUS
  <2> QED
    BY ONLY <1>1, <1>2, <1>3, <2>1, <2>2, <2>3
    DEF Distinct, DrainTypes, NodeDrainTypeOK, TypesInv, Active
<1>5. LoopInv'
  BY <1>4 DEF LoopInv, BatchBarrier, SuccessMeansAllDone, Running
<1>6. PhaseInv' /\ AllowedInv' /\ EvictPhaseInv' /\ RolledInv' /\ FilterInv'
  BY DEF PhaseInv, Before, After, AllowedInv, OnlyAllowedEvicted, EvictPhaseInv, RolledInv,
         FilterInv, filtered
<1>7. RefusedInv' /\ CordonInv' /\ OwnershipInv'
  <2>1. session' # cordoner'
    OBVIOUS
  <2> QED
    BY <2>1 DEF RefusedInv, CordonInv, FailureUndoesOwnCordon, OwnershipInv, Before, After
<1>8. OlderInv'
  <2>1. \A w \in Workloads : NotNewer(snap[w], spec[w])'
    BY <1>1 DEF NotNewer, OlderThan, ClusterTypeOK, Identity
  <2> QED
    BY <2>1 DEF OlderInv
<1> QED
  BY <1>4, <1>5, <1>6, <1>7, <1>8

\* What the phases before the cordon leave as it was.
LEMMA ReadsOnly ==
  ASSUME DrainInv, BeforeCordonFrame, phase \in Before,
         snap' \in [Workloads -> Identity], workloads' \in Seq(Workloads), Distinct(workloads)',
         protected' \in SUBSET Workloads,
         {phase', phase} \subseteq Before \cup {"exited"},
         result' \in {"none", "ok", "err", "killed"},
         discovered' \in SUBSET Workloads, snapUnsched' \in BOOLEAN, refused' \in BOOLEAN
  PROVE  DrainTypes' /\ LoopInv' /\ AllowedInv' /\ EvictPhaseInv' /\ RolledInv' /\ PhaseInv'
<1> USE DEF DrainInv, BeforeCordonFrame, PhaseInv
<1>0. /\ UNCHANGED <<unsched, pods, spec, opts, ctxErr, elsewhere, epc, evictErr, todo, current,
                     interval, seen, evicted, cpFile, cp, rpc, runErr, batchStart, wpc, gctxErr,
                     session, cordoner, touched, lostPatch, stayed, cordonedByUs>>
      /\ rpc = "idle" /\ epc = "idle" /\ batchStart = 0 /\ todo = {} /\ evicted = {}
      /\ ~stayed /\ ~touched /\ session # 0
      /\ \A w \in Workloads : wpc[w] = "idle"
  BY DEF clusterVars, evictVars, Before
<1>1. ClusterTypeOK' /\ RunTypeOK'
  BY <1>0 DEF DrainTypes, TypesInv, ClusterTypeOK, RunTypeOK
<1>2. RunnerTypeOK'
  BY <1>0, <1>1 DEF DrainTypes, NodeDrainTypeOK, RunnerTypeOK
<1>3. EvictTypeOK'
  BY <1>0 DEF DrainTypes, NodeDrainTypeOK, EvictTypeOK
<1>4. DrainTypes'
  <2>1. session' \in 0 .. MaxSessions /\ cordoner' \in 0 .. session'
    BY <1>0 DEF DrainTypes, NodeDrainTypeOK
  <2>2. \A b \in {snapUnsched, cordonedByUs, touched, refused, lostPatch, stayed}' :
          b \in BOOLEAN
    BY <1>0 DEF DrainTypes, NodeDrainTypeOK
  <2> QED
    BY ONLY <1>0, <1>1, <1>2, <1>3, <2>1, <2>2, phase' \in Before \cup {"exited"},
            result' \in {"none", "ok", "err", "killed"}, discovered' \in SUBSET Workloads,
            Distinct(workloads)'
    DEF DrainTypes, NodeDrainTypeOK, TypesInv, Active, Before
<1>5. LoopInv'
  <2>1. \A i \in DOMAIN workloads' : i \in Nat \ {0} /\ workloads'[i] \in Workloads
    OBVIOUS
  <2> QED
    BY <1>0, <2>1 DEF LoopInv, BatchBarrier, SuccessMeansAllDone, Running
<1>6. AllowedInv' /\ EvictPhaseInv' /\ RolledInv'
  BY <1>0 DEF AllowedInv, OnlyAllowedEvicted, EvictPhaseInv, RolledInv
<1>7. PhaseInv'
  BY ONLY <1>0, phase' \in Before \cup {"exited"} DEF PhaseInv, Before
<1> QED
  BY <1>4, <1>5, <1>6, <1>7

\* The node is read, or a read fails.
LEMMA ReadsKeepInv ==
  ASSUME DrainInv, ValidateNode \/ ReadFails
  PROVE  DrainInv'
<1> USE DEF DrainInv
<1>1. /\ phase \in {"validate", "discover"} /\ phase' \in {"discover", "exited"}
      /\ UNCHANGED <<workloads, snap, protected, discovered, refused>>
      /\ BeforeCordonFrame
      /\ result' \in {"none", "ok", "err", "killed"} /\ snapUnsched' \in BOOLEAN
  BY DEF ValidateNode, ReadFails, Exit, DrainTypes, NodeDrainTypeOK, TypesInv, ClusterTypeOK
<1>2. /\ DrainTypes' /\ LoopInv' /\ AllowedInv' /\ EvictPhaseInv' /\ RolledInv' /\ PhaseInv'
  <2>1. /\ snap' \in [Workloads -> Identity] /\ workloads' \in Seq(Workloads)
        /\ Distinct(workloads)' /\ protected' \in SUBSET Workloads
        /\ discovered' \in SUBSET Workloads /\ refused' \in BOOLEAN
    BY <1>1 DEF DrainTypes, NodeDrainTypeOK, RunnerTypeOK, RunTypeOK, Distinct
  <2> QED
    BY <1>1, <2>1, ReadsOnly DEF Before
<1>3. /\ UNCHANGED <<unsched, spec, opts, epc, cpFile, cp, rpc, wpc, evicted, session, cordoner,
                     touched, lostPatch, stayed, cordonedByUs>>
      /\ rpc = "idle" /\ epc = "idle" /\ ~touched /\ ~stayed /\ evicted = {}
      /\ \A w \in Workloads : wpc[w] = "idle"
  BY <1>1 DEF BeforeCordonFrame, clusterVars, evictVars, PhaseInv, Before
<1>4. RefusedInv' /\ CordonInv'
  BY <1>1, <1>3 DEF RefusedInv, CordonInv, FailureUndoesOwnCordon, Before, After
<1>5. OwnershipInv'
  <2>1. phase' = "discover" => snapUnsched' = unsched'
    BY <1>3 DEF ValidateNode, ReadFails, Exit
  <2> QED
    BY <1>1, <2>1 DEF OwnershipInv, After
<1>6. OlderInv'
  BY <1>1, <1>3, OlderUnchanged
<1>7. FilterInv'
  BY <1>1, <1>3 DEF FilterInv, filtered, After
<1> QED
  BY <1>2, <1>4, <1>5, <1>6, <1>7

\* Discovery fills the slice and takes the identities.
LEMMA DiscoverKeepsInv ==
  ASSUME DrainInv, DiscoverWorkloads
  PROVE  DrainInv'
<1> USE DEF DrainInv
<1>1. /\ phase = "discover" /\ phase' = "prepare"
      /\ BeforeCordonFrame
      /\ snap' = spec /\ discovered' \in SUBSET Workloads
      /\ workloads' \in SetToSeqs(discovered')
      /\ UNCHANGED <<result, snapUnsched, protected, refused>>
  BY DEF DiscoverWorkloads
<1>2. /\ workloads' \in Seq(Workloads) /\ Distinct(workloads)'
      /\ \A w \in discovered' : InSlice(w)'
  BY <1>1, DiscoveredSlice DEF InSlice, Distinct
<1>3. DrainTypes' /\ LoopInv' /\ AllowedInv' /\ EvictPhaseInv' /\ RolledInv' /\ PhaseInv'
  <2>1. /\ snap' \in [Workloads -> Identity] /\ protected' \in SUBSET Workloads
        /\ refused' \in BOOLEAN /\ snapUnsched' \in BOOLEAN
        /\ result' \in {"none", "ok", "err", "killed"}
    BY <1>1 DEF DrainTypes, NodeDrainTypeOK, RunnerTypeOK, RunTypeOK, ClusterTypeOK
  <2> QED
    BY <1>1, <1>2, <2>1, ReadsOnly DEF Before
<1>4. /\ UNCHANGED <<unsched, spec, opts, epc, cpFile, cp, rpc, wpc, evicted, session, cordoner,
                     touched, lostPatch, stayed, cordonedByUs>>
      /\ rpc = "idle" /\ epc = "idle" /\ ~touched /\ ~stayed /\ evicted = {}
      /\ \A w \in Workloads : wpc[w] = "idle"
  BY <1>1 DEF BeforeCordonFrame, clusterVars, evictVars, PhaseInv, Before
<1>5. RefusedInv' /\ CordonInv' /\ OwnershipInv'
  BY <1>1, <1>4 DEF RefusedInv, CordonInv, FailureUndoesOwnCordon, OwnershipInv, Before, After
<1>6. OlderInv'
  BY <1>1, <1>4 DEF OlderInv, NotNewer
<1>7. FilterInv'
  BY <1>1, <1>2, <1>4 DEF FilterInv, After
<1> QED
  BY <1>3, <1>5, <1>6, <1>7

\* Filtering, pre-flight checks and the look at the checkpoint: whatever is left of the
\* slice is not filtered.
LEMMA PrepareKeepsInv ==
  ASSUME DrainInv, PrepareBeforeCordon
  PROVE  DrainInv'
<1> USE DEF DrainInv
<1> DEFINE keep == {i \in DOMAIN workloads : ~filtered(workloads[i])}
<1>1. /\ phase = "prepare" /\ phase' \in {"cordon", "exited"}
      /\ BeforeCordonFrame
      /\ workloads' \in InOrder(workloads, keep)
      /\ protected' = {w \in discovered : filtered(w)}
      /\ refused' \in BOOLEAN
      /\ phase' = "cordon" => ~refused' /\ checkpointUsable
      /\ UNCHANGED <<snapUnsched, snap, discovered>>
      /\ result' \in {"none", "ok", "err", "killed"}
  BY DEF PrepareBeforeCordon, Exit, DrainTypes, NodeDrainTypeOK
<1>2. /\ workloads' \in Seq(Workloads) /\ Distinct(workloads)'
      /\ \A j \in DOMAIN workloads' : \E i \in keep : workloads'[j] = workloads[i]
      /\ \A i \in keep : \E j \in DOMAIN workloads' : workloads'[j] = workloads[i]
  <2>1. workloads \in Seq(Workloads) /\ Distinct(workloads) /\ keep \in SUBSET DOMAIN workloads
    BY DEF DrainTypes, NodeDrainTypeOK, RunnerTypeOK
  <2> HIDE DEF keep
  <2> QED
    BY <1>1, <2>1, RearrangedSlice DEF Distinct
<1>3. /\ \A w \in discovered \ protected' : InSlice(w)'
      /\ \A w \in protected' : ~InSlice(w)'
  <2>1. ASSUME NEW w \in discovered \ protected' PROVE InSlice(w)'
    <3>1. PICK i \in DOMAIN workloads : workloads[i] = w
      BY <1>1 DEF FilterInv, InSlice
    <3>2. i \in keep
      BY <1>1, <3>1
    <3> QED
      BY <1>2, <3>1, <3>2 DEF InSlice
  <2>2. ASSUME NEW w \in protected', InSlice(w)' PROVE FALSE
    <3>1. PICK j \in DOMAIN workloads' : workloads'[j] = w
      BY <2>2 DEF InSlice
    <3>2. PICK i \in keep : workloads'[j] = workloads[i]
      BY <1>2, <3>1
    <3> QED
      BY <1>1, <3>1, <3>2
  <2> QED
    BY <2>1, <2>2
<1>4. DrainTypes' /\ LoopInv' /\ AllowedInv' /\ EvictPhaseInv' /\ RolledInv' /\ PhaseInv'
  <2>1. /\ snap' \in [Workloads -> Identity] /\ protected' \in SUBSET Workloads
        /\ snapUnsched' \in BOOLEAN /\ discovered' \in SUBSET Workloads
    BY <1>1 DEF DrainTypes, NodeDrainTypeOK, RunnerTypeOK
  <2> QED
    BY <1>1, <1>2, <2>1, ReadsOnly DEF Before
<1>5. /\ UNCHANGED <<unsched, spec, opts, epc, cpFile, cp, rpc, wpc, evicted, session, cordoner,
                     touched, lostPatch, stayed, cordonedByUs>>
      /\ rpc = "idle" /\ epc = "idle" /\ ~touched /\ ~stayed /\ evicted = {}
      /\ \A w \in Workloads : wpc[w] = "idle"
  BY <1>1 DEF BeforeCordonFrame, clusterVars, evictVars, PhaseInv, Before
<1>6. RefusedInv'
  <2>1. checkpointUsable' = checkpointUsable
    BY <1>5 DEF checkpointUsable
  <2> QED
    BY <1>1, <1>5, <2>1 DEF RefusedInv, After
<1>7. CordonInv' /\ OwnershipInv'
  BY <1>1, <1>5 DEF CordonInv, FailureUndoesOwnCordon, OwnershipInv, Before, After
<1>8. OlderInv'
  BY <1>1, <1>5, OlderUnchanged
<1>9. FilterInv'
  <2>1. \A w : filtered(w)' = filtered(w)
    BY <1>5 DEF filtered
  <2>2. discovered \in SUBSET Workloads
    BY DEF DrainTypes, NodeDrainTypeOK
  <2> QED
    BY <1>1, <1>3, <1>5, <2>1, <2>2 DEF FilterInv, After
<1> QED
  BY <1>4, <1>6, <1>7, <1>8, <1>9

(***************************************************************************)
(* From one phase to the next.                                             *)
(***************************************************************************)
\* The types after a step between two phases.
LEMMA BetweenTypes ==
  ASSUME DrainTypes, RunFrame, UNCHANGED <<pods, spec>>,
         unsched' \in BOOLEAN, rpc' \in {rpc, "begin"}, epc' \in {epc, "list"},
         epc' = "list" => current = NoPod,
         phase' \in {"exited"} \cup Active, result' \in {"none", "ok", "err", "killed"},
         cordoner' \in 0 .. session, cpFile' \in CheckpointFiles, cordonedByUs' \in BOOLEAN,
         touched' \in BOOLEAN, lostPatch' \in BOOLEAN, stayed' \in BOOLEAN
  PROVE  DrainTypes'
<1> USE DEF RunFrame
<1>0. UNCHANGED <<opts, ctxErr, protected, workloads, snap, cp, runErr, batchStart, wpc, gctxErr,
                  elsewhere, evictErr, todo, current, interval, seen, evicted, snapUnsched,
                  session, discovered, refused>>
  BY DEF runVars
<1>1. ClusterTypeOK' /\ RunTypeOK'
  BY <1>0 DEF DrainTypes, TypesInv, ClusterTypeOK, RunTypeOK
<1>2. RunnerTypeOK'
  BY <1>0, <1>1 DEF DrainTypes, NodeDrainTypeOK, RunnerTypeOK
<1>3. EvictTypeOK'
  BY <1>0 DEF DrainTypes, NodeDrainTypeOK, EvictTypeOK
<1>4. Distinct(workloads)'
  BY <1>0 DEF DrainTypes, Distinct
<1>5. snapUnsched' \in BOOLEAN /\ refused' \in BOOLEAN
  BY <1>0 DEF DrainTypes, NodeDrainTypeOK
<1>6. \A b \in {snapUnsched, cordonedByUs, touched, refused, lostPatch, stayed}' : b \in BOOLEAN
  BY <1>5
<1>7. session' = session /\ session \in 0 .. MaxSessions /\ discovered' \in SUBSET Workloads
  BY <1>0 DEF DrainTypes, NodeDrainTypeOK
<1>8. epc' = "list" => current' = NoPod
  BY <1>0
<1> QED
  BY ONLY <1>1, <1>2, <1>3, <1>4, <1>6, <1>7, <1>8, phase' \in {"exited"} \cup Active,
          result' \in {"none", "ok", "err", "killed"}, cordoner' \in 0 .. session
  DEF DrainTypes, NodeDrainTypeOK, TypesInv

\* The cordon phase ends with the node cordoned, left as it was, or an error.
LEMMA CordonKeepsInv ==
  ASSUME DrainInv, CordonSkipped \/ Cordon \/ CordonFails
  PROVE  DrainInv'
<1> USE DEF DrainInv
<1>1. /\ phase = "cordon" /\ rpc = "idle" /\ epc = "idle" /\ batchStart = 0 /\ todo = {}
      /\ evicted = {} /\ ~touched /\ ~stayed /\ cordoner # session /\ ~cordonedByUs
      /\ ~refused /\ checkpointUsable /\ session # 0
      /\ \A w \in Workloads : wpc[w] = "idle"
  BY DEF CordonSkipped, Cordon, CordonFails, PhaseInv, CordonInv, RefusedInv, Before, After
<1>2. /\ UNCHANGED <<pods, spec, opts, protected, workloads, snap, cp, cpFile, runErr, batchStart,
                     wpc, todo, evicted, session, discovered, refused, epc>>
      /\ RunFrame
  BY DEF CordonSkipped, Cordon, CordonFails, RunFrame, NodePatched, clusterVars, runVars
<1>3. \/ /\ phase' = "workloads" /\ rpc' = "begin" /\ result' = result /\ stayed' = unsched'
         /\ lostPatch' = lostPatch
         /\ \/ ~needsCordon /\ UNCHANGED <<unsched, cordonedByUs, cordoner, touched>>
            \/ /\ needsCordon /\ unsched' = TRUE /\ cordonedByUs' = TRUE /\ touched' = TRUE
               /\ cordoner' = IF unsched THEN cordoner ELSE session
      \/ /\ phase' = "exited" /\ rpc' = "idle" /\ result' = "err" /\ stayed' = stayed
         /\ needsCordon /\ cordonedByUs' = cordonedByUs
         /\ \/ UNCHANGED <<unsched, cordoner, touched, lostPatch>>
            \/ /\ unsched' = TRUE /\ touched' = TRUE /\ lostPatch' = TRUE
               /\ cordoner' = IF unsched THEN cordoner ELSE session
  BY <1>1 DEF CordonSkipped, Cordon, CordonFails, BeginWorkloads, NodePatched, Exit, clusterVars
<1>4. DrainTypes'
  <2>1. /\ session \in 0 .. MaxSessions /\ cordoner \in 0 .. session /\ unsched \in BOOLEAN
        /\ result \in {"none", "ok", "err", "killed"} /\ cpFile \in CheckpointFiles
        /\ cordonedByUs \in BOOLEAN /\ touched \in BOOLEAN /\ lostPatch \in BOOLEAN
        /\ stayed \in BOOLEAN
    BY DEF DrainTypes, NodeDrainTypeOK, TypesInv, ClusterTypeOK, RunnerTypeOK
  <2>2. unsched' \in BOOLEAN /\ cordoner' \in 0 .. session
    <3>1. session \in 0 .. session
      BY <2>1, NodeDrainAssumption
    <3>2. cordoner' \in {cordoner, session} /\ unsched' \in {unsched, TRUE}
      BY ONLY <1>3
    <3> QED
      BY ONLY <2>1, <3>1, <3>2
  <2>3. /\ rpc' \in {rpc, "begin"} /\ epc' \in {epc, "list"} /\ epc' # "list"
        /\ phase' \in {"exited"} \cup Active /\ result' \in {"none", "ok", "err", "killed"}
    BY <1>1, <1>2, <1>3, <2>1 DEF Active
  <2>4. /\ cpFile' \in CheckpointFiles /\ cordonedByUs' \in BOOLEAN /\ touched' \in BOOLEAN
        /\ lostPatch' \in BOOLEAN /\ stayed' \in BOOLEAN
    BY <1>2, <1>3, <2>1, <2>2
  <2> QED
    BY <1>2, <2>2, <2>3, <2>4, BetweenTypes
<1>5. LoopInv'
  <2>1. \A w \in Workloads : wpc'[w] = "idle"
    BY <1>1, <1>2
  <2>2. \A i \in DOMAIN workloads' : i \in Nat \ {0} /\ workloads'[i] \in Workloads
    BY <1>4 DEF DrainTypes, NodeDrainTypeOK, RunnerTypeOK
  <2> QED
    BY <1>1, <1>2, <1>3, <2>1, <2>2 DEF LoopInv, BatchBarrier, SuccessMeansAllDone, Running
<1>6. PhaseInv'
  BY <1>1, <1>2, <1>3 DEF PhaseInv, Before
<1>7. RefusedInv'
  <2>1. checkpointUsable'
    BY <1>1, <1>2 DEF checkpointUsable
  <2>2. touched' => ~opts'.dryRun
    BY <1>1, <1>2, <1>3 DEF needsCordon
  <2> QED
    BY <1>1, <1>2, <1>3, <2>1, <2>2 DEF RefusedInv
<1>8. CordonInv'
  <2>1. stayed' => unsched'
    BY <1>1, <1>3
  <2>2. phase' \notin Before
    BY <1>3 DEF Before
  <2> QED
    BY <1>1, <1>2, <1>3, <2>1, <2>2 DEF CordonInv, FailureUndoesOwnCordon
<1>9. OwnershipInv'
  BY <1>1, <1>2, <1>3 DEF OwnershipInv, needsCordon, After
<1>10. OlderInv'
  BY <1>1, <1>2, OlderUnchanged
<1>11. FilterInv'
  <2>1. \A w : filtered(w)' = filtered(w) /\ InSlice(w)' = InSlice(w)
    BY <1>2 DEF filtered, InSlice
  <2> QED
    BY <1>1, <1>2, <1>3, <2>1 DEF FilterInv, After
<1>12. RolledInv'
  BY <1>1, <1>2, <1>3 DEF RolledInv, DrainTypes, NodeDrainTypeOK
<1>13. AllowedInv'
  BY <1>2, AllowedUnchanged
<1>14. EvictPhaseInv'
  BY <1>3 DEF EvictPhaseInv
<1> QED
  BY <1>4, <1>5, <1>6, <1>7, <1>8, <1>9, <1>10, <1>11, <1>12, <1>13, <1>14

\* runWorkloads returns: the drain fails or goes on to evict the rest.
LEMMA WorkloadsReturnedKeepsInv ==
  ASSUME DrainInv, WorkloadsReturned
  PROVE  DrainInv'
<1> USE DEF DrainInv
<1>1. /\ phase = "workloads" /\ rpc = "returned" /\ epc = "idle" /\ todo = {} /\ evicted = {}
      /\ ~refused /\ checkpointUsable
  BY DEF WorkloadsReturned, PhaseInv, RefusedInv, After
<1>2. /\ UNCHANGED <<pods, spec, opts, protected, workloads, snap, cp, cpFile, runErr, batchStart,
                     wpc, todo, evicted, session, discovered, refused, rpc, unsched, cordoner,
                     touched, lostPatch, stayed, cordonedByUs, result, current, seen, evictErr>>
      /\ RunFrame
  BY DEF WorkloadsReturned, RunFrame, clusterVars, runVars
<1>3. \/ runErr /\ phase' = "deferred" /\ epc' = "idle"
      \/ ~runErr /\ phase' = "evict" /\ epc' = "list"
  BY <1>1 DEF WorkloadsReturned, DrainTypes, NodeDrainTypeOK, RunnerTypeOK
<1>4. DrainTypes'
  <2>1. current = NoPod
    BY <1>1 DEF DrainTypes, NodeDrainTypeOK, EvictTypeOK
  <2>2. /\ cordoner' \in 0 .. session /\ unsched' \in BOOLEAN /\ cpFile' \in CheckpointFiles
        /\ result' \in {"none", "ok", "err", "killed"} /\ cordonedByUs' \in BOOLEAN
        /\ touched' \in BOOLEAN /\ lostPatch' \in BOOLEAN /\ stayed' \in BOOLEAN
    BY <1>2 DEF DrainTypes, NodeDrainTypeOK, TypesInv, ClusterTypeOK, RunnerTypeOK
  <2> QED
    BY <1>1, <1>2, <1>3, <2>1, <2>2, BetweenTypes DEF Active
<1>5. LoopInv' /\ AllowedInv'
  BY <1>2, LoopUnchanged, AllowedUnchanged
<1>6. OlderInv'
  BY <1>1, <1>2, <1>3, OlderUnchanged
<1>7. PhaseInv' /\ CordonInv' /\ OwnershipInv'
  BY <1>1, <1>2, <1>3 DEF PhaseInv, CordonInv, FailureUndoesOwnCordon, OwnershipInv, Before,
                          After
<1>8. RefusedInv'
  BY <1>1, <1>2, <1>3 DEF RefusedInv, checkpointUsable
<1>9. FilterInv'
  <2>1. \A w : filtered(w)' = filtered(w) /\ InSlice(w)' = InSlice(w)
    BY <1>2 DEF filtered, InSlice
  <2> QED
    BY <1>1, <1>2, <1>3, <2>1 DEF FilterInv, After
<1>10. RolledInv'
  <2>1. \A w \in Workloads : Dropped(w)' = Dropped(w) /\ Gone(w)' = Gone(w)
    BY <1>2, TakenUnchanged DEF Dropped, Gone, HasPods
  <2>2. \A w : InSlice(w)' = InSlice(w)
    BY <1>2 DEF InSlice
  <2>3. \A w \in Workloads : wpc[w] # "patch"
    BY <1>1 DEF LoopInv, Running
  <2>4. discovered \in SUBSET Workloads
    BY DEF DrainTypes, NodeDrainTypeOK
  <2> QED
    BY <1>1, <1>2, <1>3, <2>1, <2>2, <2>3, <2>4 DEF RolledInv
<1>11. EvictPhaseInv'
  BY <1>1, <1>2, <1>3 DEF EvictPhaseInv, EmptiedInv, SuccessMeansEmptied, CordonInv,
                          DrainTypes, TypesInv, ClusterTypeOK
<1> QED
  BY <1>4, <1>5, <1>6, <1>7, <1>8, <1>9, <1>10, <1>11

\* evictRemaining returns, and the checkpoint is removed after a success.
LEMMA EndingKeepsInv ==
  ASSUME DrainInv, EvictReturned \/ Cleanup
  PROVE  DrainInv'
<1> USE DEF DrainInv
<1>1. /\ phase \in {"evict", "cleanup"} /\ rpc = "returned" /\ epc = "returned" /\ session # 0
      /\ ~refused /\ checkpointUsable
  BY DEF EvictReturned, Cleanup, PhaseInv, RefusedInv, After
<1>2. /\ UNCHANGED <<pods, spec, opts, protected, workloads, snap, cp, runErr, batchStart,
                     wpc, todo, evicted, session, discovered, refused, rpc, epc, unsched, cordoner,
                     touched, lostPatch, stayed, cordonedByUs, seen, evictErr>>
      /\ RunFrame
  BY DEF EvictReturned, Cleanup, RunFrame, clusterVars, runVars
<1>3. \/ /\ phase = "evict" /\ UNCHANGED <<cpFile, result>>
         /\ phase' = IF evictErr THEN "deferred" ELSE "cleanup"
      \/ /\ phase = "cleanup" /\ phase' = "exited" /\ result' = "ok"
         /\ cpFile' \in {CP!newCheckpoint, cpFile}
  BY DEF EvictReturned, Cleanup, Exit
<1>4. DrainTypes'
  <2>1. /\ cordoner' \in 0 .. session /\ unsched' \in BOOLEAN /\ cpFile \in CheckpointFiles
        /\ result \in {"none", "ok", "err", "killed"} /\ cordonedByUs' \in BOOLEAN
        /\ touched' \in BOOLEAN /\ lostPatch' \in BOOLEAN /\ stayed' \in BOOLEAN
    BY <1>2 DEF DrainTypes, NodeDrainTypeOK, TypesInv, ClusterTypeOK, RunnerTypeOK
  <2>2. cpFile' \in CheckpointFiles
    BY <1>3, <2>1, EmptyFile
  <2> QED
    BY <1>1, <1>2, <1>3, <2>1, <2>2, BetweenTypes DEF Active
<1>5. LoopInv' /\ AllowedInv'
  BY <1>2, LoopUnchanged, AllowedUnchanged
<1>6. OlderInv'
  BY <1>2, OlderUnchanged
<1>7. PhaseInv' /\ CordonInv' /\ OwnershipInv'
  BY <1>1, <1>2, <1>3 DEF PhaseInv, CordonInv, FailureUndoesOwnCordon, OwnershipInv, Before,
                          After
<1>8. RefusedInv'
  <2>1. checkpointUsable'
    BY <1>1, <1>2, <1>3 DEF checkpointUsable, CP!newCheckpoint, CP!validateCheckpoint
  <2> QED
    BY <1>1, <1>2, <1>3, <2>1 DEF RefusedInv
<1>9. FilterInv'
  <2>1. \A w : filtered(w)' = filtered(w) /\ InSlice(w)' = InSlice(w)
    BY <1>2 DEF filtered, InSlice
  <2> QED
    BY <1>1, <1>2, <1>3, <2>1 DEF FilterInv, After
<1>10. RolledInv'
  <2>1. \A w \in Workloads : Dropped(w)' = Dropped(w) /\ Gone(w)' = Gone(w)
    BY <1>2, TakenUnchanged DEF Dropped, Gone, HasPods
  <2>2. \A w : InSlice(w)' = InSlice(w)
    BY <1>2 DEF InSlice
  <2>3. \A w \in Workloads : takenAsDone(w, TRUE)' = takenAsDone(w, TRUE)
    BY <1>2, TakenUnchanged
  <2>4. discovered \in SUBSET Workloads
    BY DEF DrainTypes, NodeDrainTypeOK
  <2> QED
    BY <1>1, <1>2, <1>3, <2>1, <2>2, <2>3, <2>4 DEF RolledInv
<1>11. EvictPhaseInv'
  BY <1>2, <1>3, EmptiedUnchanged DEF EvictPhaseInv
<1> QED
  BY <1>4, <1>5, <1>6, <1>7, <1>8, <1>9, <1>10, <1>11

\* The deferred functions undo the session's own cordon and no other.
LEMMA DeferredKeepsInv ==
  ASSUME DrainInv, DeferredOnError
  PROVE  DrainInv'
<1> USE DEF DrainInv
<1>1. phase = "deferred" /\ session # 0 /\ ~refused /\ checkpointUsable
  BY DEF DeferredOnError, PhaseInv, RefusedInv, After
<1>2. /\ UNCHANGED <<pods, spec, opts, protected, workloads, snap, cp, cpFile, runErr, batchStart,
                     wpc, todo, evicted, session, discovered, refused, rpc, epc, touched,
                     cordonedByUs, seen, evictErr>>
      /\ phase' = "exited" /\ result' = "err"
      /\ RunFrame
  BY DEF DeferredOnError, RunFrame, NodePatched, Exit, clusterVars, runVars
<1>3. /\ stayed' = (stayed /\ unsched')
      /\ \/ undoesCordon /\ unsched' = FALSE /\ cordoner' = 0 /\ lostPatch' \in BOOLEAN
         \/ undoesCordon /\ lostPatch' = TRUE /\ UNCHANGED <<unsched, cordoner>>
         \/ ~undoesCordon /\ UNCHANGED <<unsched, cordoner, lostPatch>>
  BY DEF DeferredOnError, NodePatched, clusterVars
<1>4. /\ cordoner \in 0 .. session /\ unsched \in BOOLEAN /\ session \in 0 .. MaxSessions
      /\ stayed \in BOOLEAN /\ lostPatch \in BOOLEAN
  BY DEF DrainTypes, NodeDrainTypeOK, TypesInv, ClusterTypeOK
<1>5. DrainTypes'
  <2>1. cordoner' \in 0 .. session
    BY <1>3, <1>4, NodeDrainAssumption
  <2>2. /\ cpFile' \in CheckpointFiles /\ cordonedByUs' \in BOOLEAN /\ touched' \in BOOLEAN
    BY <1>2 DEF DrainTypes, NodeDrainTypeOK, RunnerTypeOK
  <2>3. unsched' \in BOOLEAN /\ lostPatch' \in BOOLEAN /\ stayed' \in BOOLEAN
    BY <1>3, <1>4
  <2>4. epc = "list" => current = NoPod
    BY DEF DrainTypes, TypesInv
  <2> QED
    BY <1>2, <2>1, <2>2, <2>3, <2>4, BetweenTypes
<1>6. LoopInv' /\ AllowedInv'
  BY <1>2, LoopUnchanged, AllowedUnchanged
<1>7. OlderInv'
  BY <1>1, <1>2, OlderUnchanged
<1>8. PhaseInv' /\ OwnershipInv' /\ EvictPhaseInv'
  BY <1>1, <1>2 DEF PhaseInv, OwnershipInv, EvictPhaseInv, Before, After
<1>9. CordonInv'
  <2>1. opts'.uncordon /\ ~lostPatch' => cordoner' # session'
    BY <1>1, <1>2, <1>3, <1>4 DEF CordonInv, undoesCordon
  <2>2. stayed' => unsched'
    BY <1>3, <1>4
  <2> QED
    BY <1>2, <2>1, <2>2 DEF CordonInv, FailureUndoesOwnCordon, Before
<1>10. RefusedInv'
  BY <1>1, <1>2 DEF RefusedInv, checkpointUsable, After
<1>11. FilterInv'
  <2>1. \A w : filtered(w)' = filtered(w)
    BY <1>2 DEF filtered
  <2> QED
    BY <1>1, <1>2, <2>1 DEF FilterInv, After, PhaseInv
<1>12. RolledInv'
  <2>1. \A w : Gone(w)' = Gone(w)
    BY <1>2 DEF Gone, HasPods
  <2> QED
    BY <1>1, <1>2, <1>3, <2>1 DEF RolledInv, PhaseInv
<1> QED
  BY <1>5, <1>6, <1>7, <1>8, <1>9, <1>10, <1>11, <1>12

(***************************************************************************)
(* Timeout, death, and everybody else.                                     *)
(***************************************************************************)
\* What is older than an object stays older when that gets newer.
LEMMA OlderStaysOlder ==
  ASSUME NEW a \in Identity, NEW b \in Identity, NEW c \in Identity, NotNewer(b, c)
  PROVE  /\ OlderThan(a, b) => OlderThan(a, c)
         /\ NotNewer(a, b) => NotNewer(a, c)
<1>1. /\ a.uid \in Nat /\ b.uid \in Nat /\ c.uid \in Nat
      /\ a.gen \in Nat /\ b.gen \in Nat /\ c.gen \in Nat
  BY DEF Identity
<1> QED
  BY <1>1 DEF OlderThan, NotNewer

\* What is older than the cluster's workloads stays so when those only get newer.
LEMMA OlderWhenNewer ==
  ASSUME OlderInv, DrainTypes, spec' \in [Workloads -> Identity],
         \A w \in Workloads : NotNewer(spec[w], spec'[w]),
         UNCHANGED <<snap, wpc, opts>>
  PROVE  OlderInv'
<1>1. snap \in [Workloads -> Identity] /\ spec \in [Workloads -> Identity]
  BY DEF DrainTypes, NodeDrainTypeOK, RunnerTypeOK, ClusterTypeOK
<1>2. \A w \in Workloads :
        /\ NotNewer(snap[w], spec'[w])
        /\ OlderThan(snap[w], spec[w]) => OlderThan(snap[w], spec'[w])
  BY <1>1, OlderStaysOlder DEF OlderInv
<1> QED
  BY <1>2 DEF OlderInv

\* The cluster's objects only get newer, and what is gone does not come back to a
\* node that is unschedulable.
LEMMA ClusterStepFacts ==
  ASSUME ClusterTypeOK, ClusterStep
  PROVE  /\ unsched' = unsched
         /\ \A w \in Workloads : NotNewer(spec[w], spec'[w])
         /\ unsched => \A w \in Workloads : Gone(w) => Gone(w)'
<1> USE DEF Gone, HasPods, PodNames
<1>1. ASSUME NEW p \in PodNames,
             PodScheduled(p) \/ PodReplaced(p) \/ PodCompletes(p) \/ PodRemoved(p)
      PROVE  /\ unsched' = unsched /\ spec' = spec
             /\ unsched => \A w \in Workloads : Gone(w) => Gone(w)'
  BY <1>1, NodeDrainAssumption
  DEF PodScheduled, PodReplaced, PodCompletes, PodRemoved, ClusterTypeOK
<1>2. ASSUME NEW v \in Workloads, WorkloadRecreated(v)
      PROVE  /\ unsched' = unsched
             /\ \A w \in Workloads : NotNewer(spec[w], spec'[w])
             /\ \A w \in Workloads : Gone(w) => Gone(w)'
  <2>1. spec[v].uid < spec'[v].uid /\ \A w \in Workloads \ {v} : spec'[w] = spec[w]
    BY <1>2 DEF WorkloadRecreated, ClusterTypeOK, Identity
  <2>2. \A w \in Workloads : NotNewer(spec[w], spec'[w])
    BY <2>1 DEF NotNewer, OlderThan
  <2>3. \A w \in Workloads : Gone(w) => Gone(w)'
    BY <1>2 DEF WorkloadRecreated, ClusterTypeOK
  <2> QED
    BY <1>2, <2>2, <2>3 DEF WorkloadRecreated
<1>3. \A w \in Workloads : NotNewer(spec[w], spec[w])
  BY DEF NotNewer
<1> QED
  BY <1>1, <1>2, <1>3 DEF ClusterStep

\* The cluster acts by itself.
LEMMA ClusterKeepsInv ==
  ASSUME DrainInv, ClusterActs
  PROVE  DrainInv'
<1> USE DEF DrainInv
<1>1. /\ UNCHANGED <<opts, ctxErr, protected, workloads, snap, cpFile, cp, rpc, runErr, batchStart,
                     wpc, gctxErr, elsewhere, epc, evictErr, todo, current, interval, seen,
                     evicted, phase, result, snapUnsched, cordonedByUs, session, cordoner,
                     discovered, touched, refused, lostPatch, stayed, operatorActs>>
      /\ ClusterStep
  BY DEF ClusterActs, runVars, runnerVars, evictVars, drainVars, phaseVars, sessionHistory
<1>2. /\ ClusterTypeOK' /\ unsched' = unsched
      /\ \A w \in Workloads : NotNewer(spec[w], spec'[w])
      /\ unsched => \A w \in Workloads : Gone(w) => Gone(w)'
  BY <1>1, ClusterStepFacts, ClusterType DEF DrainTypes, TypesInv
<1>3. DrainTypes'
  BY <1>1, <1>2 DEF DrainTypes, TypesInv, NodeDrainTypeOK, RunnerTypeOK, EvictTypeOK,
                    RunTypeOK, Distinct
<1>4. LoopInv' /\ AllowedInv'
  BY <1>1, LoopUnchanged, AllowedUnchanged
<1>5. PhaseInv' /\ CordonInv' /\ OwnershipInv'
  BY <1>1, <1>2 DEF PhaseInv, CordonInv, FailureUndoesOwnCordon, OwnershipInv
<1>6. RefusedInv' /\ FilterInv'
  BY <1>1 DEF RefusedInv, checkpointUsable, FilterInv, filtered, InSlice
<1>7. OlderInv'
  BY <1>1, <1>2, OlderWhenNewer DEF ClusterTypeOK
<1>8. RolledInv'
  <2>1. \A w : InSlice(w)' = InSlice(w)
    BY <1>1 DEF InSlice
  <2>2. discovered \in SUBSET Workloads
    BY DEF DrainTypes, NodeDrainTypeOK
  <2>3. stayed => \A w \in Workloads : Gone(w) => Gone(w)'
    BY <1>2 DEF CordonInv
  <2>4. \A w \in Workloads, b \in BOOLEAN : takenAsDone(w, b)' = takenAsDone(w, b)
    BY <1>1, TakenUnchanged
  <2>5. stayed => \A w \in Workloads : Dropped(w) => Dropped(w)'
    BY <2>3, <2>4 DEF Dropped
  <2> QED
    BY <1>1, <2>1, <2>2, <2>3, <2>4, <2>5 DEF RolledInv
<1>9. EvictPhaseInv'
  <2> SUFFICES ASSUME stayed, phase \in {"evict", "cleanup"} PROVE EmptiedInv'
    BY <1>1 DEF EvictPhaseInv
  <2>1. EvictInv
    BY DEF EvictInv, EvictPhaseInv, DrainTypes
  <2>2. EvictEnvironment
    BY DEF ClusterActs, EvictEnvironment
  <2> QED
    BY <2>1, <2>2, EnvironmentKeepsInv DEF EvictInv
<1> QED
  BY <1>3, <1>4, <1>5, <1>6, <1>7, <1>8, <1>9

\* The drain's context ends.
LEMMA TimeoutKeepsInv ==
  ASSUME DrainInv, TimeoutExpires
  PROVE  DrainInv'
<1> USE DEF DrainInv
<1>1. /\ UNCHANGED <<unsched, pods, spec, opts, protected, workloads, snap, cpFile, cp, rpc, runErr,
                     batchStart, wpc, gctxErr, elsewhere, epc, evictErr, todo, current, interval,
                     seen, evicted, phase, result, snapUnsched, cordonedByUs, session, cordoner,
                     discovered, touched, refused, lostPatch, stayed, operatorActs>>
      /\ ctxErr' = TRUE
  BY DEF TimeoutExpires, CtxEnds, clusterVars, runnerVars, evictVars, drainVars, phaseVars,
         sessionHistory
<1>2. DrainTypes'
  BY <1>1 DEF DrainTypes, TypesInv, NodeDrainTypeOK, RunnerTypeOK, EvictTypeOK,
              RunTypeOK, ClusterTypeOK, Distinct
<1>3. LoopInv' /\ AllowedInv' /\ OlderInv'
  BY <1>1, LoopUnchanged, AllowedUnchanged, OlderUnchanged
<1>4. PhaseInv' /\ CordonInv' /\ OwnershipInv'
  BY <1>1 DEF PhaseInv, CordonInv, FailureUndoesOwnCordon, OwnershipInv
<1>5. RefusedInv' /\ FilterInv'
  BY <1>1 DEF RefusedInv, checkpointUsable, FilterInv, filtered, InSlice
<1>6. RolledInv'
  <2>1. \A w \in Workloads, b \in BOOLEAN : takenAsDone(w, b)' = takenAsDone(w, b)
    BY <1>1, TakenUnchanged
  <2>2. \A w \in Workloads : Gone(w)' = Gone(w) /\ InSlice(w)' = InSlice(w)
    BY <1>1 DEF Gone, HasPods, InSlice
  <2>3. discovered \in SUBSET Workloads
    BY DEF DrainTypes, NodeDrainTypeOK
  <2> QED
    BY <1>1, <2>1, <2>2, <2>3 DEF RolledInv, Dropped
<1>7. EvictPhaseInv'
  BY <1>1, EmptiedUnchanged DEF EvictPhaseInv
<1> QED
  BY <1>2, <1>3, <1>4, <1>5, <1>6, <1>7

\* Somebody cordons or uncordons the node.
LEMMA OperatorKeepsInv ==
  ASSUME DrainInv, OperatorActs
  PROVE  DrainInv'
<1> USE DEF DrainInv
<1>1. /\ UNCHANGED <<pods, spec, opts, ctxErr, protected, workloads, snap, cpFile, cp, rpc, runErr,
                     batchStart, wpc, gctxErr, elsewhere, epc, evictErr, todo, current, interval,
                     seen, evicted, phase, result, snapUnsched, cordonedByUs, session,
                     discovered, touched, refused, lostPatch>>
      /\ unsched' = ~unsched /\ cordoner' = 0 /\ stayed' = FALSE
      /\ OperatorMayRace \/ phase \in {"idle", "exited"}
  BY DEF OperatorActs, NodePatched, runVars, runnerVars, evictVars, phaseVars
<1>2. cordoner' \in 0 .. session' /\ session \in Nat
  BY <1>1, NodeDrainAssumption DEF DrainTypes, NodeDrainTypeOK
<1>3. DrainTypes'
  <2>1. ClusterTypeOK' /\ RunTypeOK'
    BY <1>1 DEF DrainTypes, TypesInv, ClusterTypeOK, RunTypeOK
  <2>2. RunnerTypeOK' /\ EvictTypeOK' /\ Distinct(workloads)'
    BY <1>1, <2>1 DEF DrainTypes, NodeDrainTypeOK, RunnerTypeOK, EvictTypeOK, Distinct
  <2>3. \A b \in {snapUnsched, cordonedByUs, touched, refused, lostPatch, stayed}' :
          b \in BOOLEAN
    BY <1>1 DEF DrainTypes, NodeDrainTypeOK
  <2>4. /\ session' \in 0 .. MaxSessions /\ discovered' \in SUBSET Workloads
        /\ phase' \in {"idle", "exited"} \cup Active
        /\ result' \in {"none", "ok", "err", "killed"}
        /\ epc' = "list" => current' = NoPod
    BY <1>1 DEF DrainTypes, TypesInv, NodeDrainTypeOK
  <2> QED
    BY ONLY <1>2, <2>1, <2>2, <2>3, <2>4 DEF DrainTypes, TypesInv, NodeDrainTypeOK
<1>4. LoopInv' /\ AllowedInv' /\ OlderInv'
  BY <1>1, LoopUnchanged, AllowedUnchanged, OlderUnchanged
<1>5. session # 0 => cordoner' # session'
  BY <1>1
<1>6. PhaseInv' /\ CordonInv' /\ OwnershipInv'
  BY <1>1, <1>2, <1>5 DEF PhaseInv, CordonInv, FailureUndoesOwnCordon, OwnershipInv, Before,
                          After
<1>7. RefusedInv' /\ FilterInv'
  BY <1>1 DEF RefusedInv, checkpointUsable, FilterInv, filtered, InSlice
<1>8. RolledInv' /\ EvictPhaseInv'
  BY <1>1 DEF RolledInv, EvictPhaseInv
<1> QED
  BY <1>3, <1>4, <1>6, <1>7, <1>8

\* A session is killed: the cluster and the file are as they were.
LEMMA KilledKeepsInv ==
  ASSUME DrainInv, Killed
  PROVE  DrainInv'
<1> USE DEF DrainInv
<1>1. /\ UNCHANGED <<unsched, pods, spec, opts, ctxErr, protected, snap, cpFile, runErr,
                     batchStart, gctxErr, elsewhere, evictErr, interval, evicted, snapUnsched,
                     cordonedByUs, session, cordoner, discovered, touched, refused, lostPatch,
                     stayed>>
      /\ phase \in Active /\ phase' = "exited" /\ result' = "killed"
      /\ rpc' = "idle" /\ epc' = "idle" /\ workloads' = <<>> /\ cp' = CP!newCheckpoint
      /\ wpc' = [w \in Workloads |-> "idle"]
      /\ todo' = {} /\ seen' = {} /\ current' = NoPod
  BY DEF Killed, Exit, clusterVars, runVars, sessionHistory
<1>2. phase # "idle" /\ session # 0
  BY <1>1 DEF PhaseInv, Active
<1>3. DrainTypes'
  <2>1. ClusterTypeOK' /\ RunTypeOK'
    BY <1>1 DEF DrainTypes, TypesInv, ClusterTypeOK, RunTypeOK
  <2>2. wpc' \in [Workloads -> WorkerPoints] /\ workloads' \in Seq(Workloads)
    BY <1>1 DEF WorkerPoints
  <2>3. RunnerTypeOK'
    BY <1>1, <2>1, <2>2, EmptyFile DEF DrainTypes, NodeDrainTypeOK, RunnerTypeOK
  <2>4. EvictTypeOK'
    BY <1>1 DEF DrainTypes, NodeDrainTypeOK, EvictTypeOK
  <2>5. \A b \in {snapUnsched, cordonedByUs, touched, refused, lostPatch, stayed}' :
          b \in BOOLEAN
    BY <1>1 DEF DrainTypes, NodeDrainTypeOK
  <2>6. /\ session' \in 0 .. MaxSessions /\ cordoner' \in 0 .. session'
        /\ discovered' \in SUBSET Workloads
    BY <1>1 DEF DrainTypes, NodeDrainTypeOK
  <2> QED
    BY ONLY <1>1, <2>1, <2>3, <2>4, <2>5, <2>6
    DEF DrainTypes, TypesInv, NodeDrainTypeOK, Distinct
<1>4. LoopInv'
  BY <1>1 DEF LoopInv, BatchBarrier, SuccessMeansAllDone, Running
<1>5. AllowedInv'
  BY <1>1 DEF AllowedInv, OnlyAllowedEvicted
<1>6. OlderInv'
  BY <1>1 DEF OlderInv
<1>7. PhaseInv' /\ CordonInv' /\ OwnershipInv'
  BY <1>1, <1>2 DEF PhaseInv, CordonInv, FailureUndoesOwnCordon, OwnershipInv, Before, After
<1>8. RefusedInv'
  BY <1>1 DEF RefusedInv, checkpointUsable, After
<1>9. FilterInv'
  <2>1. \A w : filtered(w)' = filtered(w)
    BY <1>1 DEF filtered
  <2>2. discovered \in SUBSET Workloads
    BY DEF DrainTypes, NodeDrainTypeOK
  <2> QED
    BY <1>1, <2>1, <2>2 DEF FilterInv, After
<1>10. RolledInv' /\ EvictPhaseInv'
  BY <1>1 DEF RolledInv, EvictPhaseInv
<1> QED
  BY <1>3, <1>4, <1>5, <1>6, <1>7, <1>8, <1>9, <1>10

(***************************************************************************)
(* runWorkloads within the drain.                                          *)
(***************************************************************************)
\* A restart makes the workload newer and brings none of its pods back.
LEMMA RestartFacts ==
  ASSUME ClusterTypeOK, NEW v \in Workloads, RestartApplied(v)
  PROVE  /\ unsched' = unsched
         /\ OlderThan(spec[v], spec'[v])
         /\ \A w \in Workloads : NotNewer(spec[w], spec'[w])
         /\ \A w \in Workloads : Gone(w) => Gone(w)'
<1>1. /\ spec[v].gen < spec'[v].gen /\ spec[v].uid = spec'[v].uid
      /\ \A w \in Workloads \ {v} : spec'[w] = spec[w]
  BY DEF RestartApplied, ClusterTypeOK, Identity
<1>2. OlderThan(spec[v], spec'[v])
  BY <1>1 DEF OlderThan
<1>3. \A w \in Workloads : NotNewer(spec[w], spec'[w])
  BY <1>1, <1>2 DEF NotNewer
<1>4. \A w \in Workloads : Gone(w) => Gone(w)'
  BY DEF RestartApplied, ClusterTypeOK, Gone, HasPods, PodNames
<1> QED
  BY <1>2, <1>3, <1>4 DEF RestartApplied

\* What a step of the runner does to the cluster.
LEMMA WorkerCluster ==
  ASSUME NEW v \in Workloads, Worker(v)
  PROVE  /\ RestartApplied(v) \/ UNCHANGED clusterVars
         /\ opts.dryRun => UNCHANGED clusterVars
BY DEF Worker, DryRunRestart, RestartPatched, RolloutDone, PodsOffNode, RestartFails, SaveCP

\* The loop does nothing to the cluster.
LEMMA LoopCluster ==
  ASSUME RunnerLoop
  PROVE  UNCHANGED <<clusterVars, snap, cpFile, moved>> /\ rpc' \in {"returned", "loop", "batch"}
BY DEF RunnerLoop, BeginNothing, BeginFresh, BeginResumed, BeginError, LoopEnds,
       StartBatch, NextBatch, FailBatch, ReturnRunner, EnterLoop

\* A step of the runner only makes workloads newer and takes pods away.
LEMMA RunnerStepFacts ==
  ASSUME ClusterTypeOK, RunnerStep
  PROVE  /\ unsched' = unsched /\ snap' = snap
         /\ \A w \in Workloads : NotNewer(spec[w], spec'[w])
         /\ \A w \in Workloads : Gone(w) => Gone(w)'
         /\ opts.dryRun => spec' = spec
<1>1. CASE UNCHANGED clusterVars
  BY <1>1, WorkerHasShape, LoopCluster
  DEF clusterVars, NotNewer, Gone, HasPods, RunnerStep, WorkerShape
<1>2. CASE \E v \in Workloads : Worker(v) /\ RestartApplied(v)
  BY <1>2, RestartFacts, WorkerCluster, WorkerHasShape DEF clusterVars, WorkerShape
<1> QED
  BY <1>1, <1>2, WorkerCluster, LoopCluster DEF RunnerStep

\* The workloads of the slice after the sort are those of the slice before it that
\* the checkpoint does not cover.
LEMMA SliceFacts ==
  ASSUME DrainTypes, RunnerStep
  PROVE  /\ \A w \in Workloads : InSlice(w)' => InSlice(w)
         /\ \/ BeginFresh \/ workloads' = workloads
            \/ /\ BeginResumed
               /\ \A w \in Workloads : InSlice(w) /\ ~InSlice(w)' =>
                    CP!checkpointCanSkip(cpFile, w, snap[w], HasPods(w))
         /\ BeginFresh => \A w \in Workloads : InSlice(w) => InSlice(w)'
<1> USE DEF InSlice
<1>1. workloads \in Seq(Workloads) /\ Distinct(workloads)
  BY DEF DrainTypes, NodeDrainTypeOK, RunnerTypeOK
<1>2. CASE workloads' = workloads
  <2>1. \A w \in Workloads : InSlice(w)' = InSlice(w)
    BY <1>2
  <2> QED
    BY <1>2, <2>1
<1>3. CASE BeginFresh
  <2>1. workloads' \in SortByPriority(workloads, DOMAIN workloads)
    BY <1>3 DEF BeginFresh
  <2>2. /\ \A j \in DOMAIN workloads' : \E i \in DOMAIN workloads : workloads'[j] = workloads[i]
        /\ \A i \in DOMAIN workloads : \E j \in DOMAIN workloads' : workloads'[j] = workloads[i]
    BY <1>1, <2>1, RearrangedSlice
  <2> QED
    BY <1>3, <2>2
<1>4. CASE BeginResumed
  <2>1. workloads' \in SortByPriority(workloads, toRestart)
        /\ toRestart \in SUBSET DOMAIN workloads
    BY <1>4 DEF BeginResumed, toRestart
  <2>2. /\ \A j \in DOMAIN workloads' : \E i \in toRestart : workloads'[j] = workloads[i]
        /\ \A i \in toRestart : \E j \in DOMAIN workloads' : workloads'[j] = workloads[i]
    BY <1>1, <2>1, RearrangedSlice
  <2>3. ASSUME NEW i \in DOMAIN workloads, i \notin toRestart
        PROVE  CP!checkpointCanSkip(cpFile, workloads[i], snap[workloads[i]],
                                    HasPods(workloads[i]))
    BY <2>3 DEF toRestart
  <2>4. ~BeginFresh
    BY <1>4 DEF BeginFresh, BeginResumed
  <2> QED
    BY <1>4, <2>1, <2>2, <2>3, <2>4
<1> QED
  BY <1>2, <1>3, <1>4, WorkerHasShape
  DEF RunnerStep, RunnerLoop, BeginNothing, BeginError, LoopEnds, StartBatch, NextBatch,
      FailBatch, WorkerShape

\* How a goroutine moves on, and what it does to the checkpoint.
LEMMA WorkerMoves ==
  ASSUME RunnerTypeOK, NEW v \in Workloads, Worker(v)
  PROVE  /\ \A w \in Workloads \ {v} : wpc'[w] = wpc[w]
         /\ \/ wpc[v] = "patch" /\ opts.dryRun /\ wpc'[v] = "done"
            \/ wpc[v] = "patch" /\ ~opts.dryRun /\ RestartApplied(v) /\ wpc'[v] = "rollout"
            \/ wpc[v] = "rollout" /\ wpc'[v] = "vacate"
            \/ wpc[v] = "vacate" /\ Gone(v) /\ wpc'[v] = "save"
            \/ wpc[v] \in {"patch", "rollout", "vacate"} /\ ~opts.dryRun /\ wpc'[v] = "failed"
            \/ wpc[v] = "save" /\ wpc'[v] = "done"
         /\ \/ UNCHANGED <<cp, cpFile>>
            \/ /\ wpc[v] = "save" /\ UNCHANGED clusterVars
               /\ cp' = CP!MarkDone(cp, opts.context, v, snap[v])
               /\ cpFile' \in {cp', cpFile}
<1>1. wpc \in [Workloads -> WorkerPoints]
  BY DEF RunnerTypeOK
<1>2. CASE DryRunRestart(v)
  BY <1>1, <1>2 DEF DryRunRestart, Advance
<1>3. CASE RestartPatched(v)
  BY <1>1, <1>3 DEF RestartPatched, Advance
<1>4. CASE RolloutDone(v)
  BY <1>1, <1>4 DEF RolloutDone, Advance
<1>5. CASE PodsOffNode(v)
  BY <1>1, <1>5 DEF PodsOffNode, Advance, Gone
<1>6. CASE RestartFails(v)
  BY <1>1, <1>6 DEF RestartFails, Advance
<1>7. CASE SaveCP(v)
  BY <1>1, <1>7 DEF SaveCP, Advance
<1> QED
  BY <1>2, <1>3, <1>4, <1>5, <1>6, <1>7 DEF Worker

\* The loop only begins goroutines.
LEMMA LoopMoves ==
  ASSUME RunnerTypeOK, RunnerLoop
  PROVE  /\ \A w \in Workloads : wpc'[w] = wpc[w] \/ wpc'[w] = "patch"
         /\ \/ cp' = cp
            \/ BeginFresh /\ cp' = CP!Claimed(CP!newCheckpoint, opts.context)
            \/ BeginResumed /\ cp' = CP!Claimed(cpFile, opts.context)
<1>1. wpc \in [Workloads -> WorkerPoints]
  BY DEF RunnerTypeOK
<1> QED
  BY <1>1
  DEF RunnerLoop, BeginNothing, BeginFresh, BeginResumed, BeginError, LoopEnds, StartBatch,
      NextBatch, FailBatch

\* What runWorkloads leaves alone.
LEMMA RunWorkloadsFacts ==
  ASSUME DrainInv, RunWorkloads
  PROVE  /\ UNCHANGED <<unsched, snap, opts, ctxErr, protected, elsewhere, epc, evictErr, todo,
                        current, interval, seen, evicted, phase, result, snapUnsched,
                        cordonedByUs, session, cordoner, discovered, refused, lostPatch, stayed>>
         /\ RunnerTypeOK' /\ Distinct(workloads)' /\ LoopInv'
         /\ rpc \in {"begin", "loop", "batch"} /\ rpc' \in {"returned", "loop", "batch"}
         /\ phase = "workloads" /\ epc = "idle" /\ todo = {} /\ evicted = {}
         /\ touched' = (touched \/ spec' # spec)
<1>0. RunnerTypeOK /\ Distinct(workloads) /\ ClusterTypeOK /\ LoopInv
  BY DEF DrainInv, DrainTypes, NodeDrainTypeOK, TypesInv
<1>1. /\ UNCHANGED <<opts, ctxErr, protected, elsewhere, epc, evictErr, todo, current, interval,
                     seen, evicted, phase, result, snapUnsched, cordonedByUs, session, cordoner,
                     discovered, refused, lostPatch, stayed>>
      /\ phase = "workloads" /\ touched' = (touched \/ spec' # spec)
      /\ RunnerStep /\ UNCHANGED runVars
  BY DEF RunWorkloads, RunnerStep, runVars, evictVars, phaseVars
<1>2. UNCHANGED <<unsched, snap>>
  BY <1>0, <1>1, RunnerStepFacts
<1>3. RunnerTypeOK' /\ Distinct(workloads)' /\ LoopInv'
  BY <1>0, <1>1, WorkerType, LoopType, WorkerLoop, LoopLoop DEF RunnerStep
<1>4. rpc \in {"begin", "loop", "batch"} /\ rpc' \in {"returned", "loop", "batch"}
  <2>1. CASE RunnerLoop
    BY <2>1, LoopCluster
    DEF RunnerLoop, BeginNothing, BeginFresh, BeginResumed, BeginError, LoopEnds, StartBatch,
        NextBatch, FailBatch
  <2>2. ASSUME NEW v \in Workloads, Worker(v)
        PROVE  rpc = "batch" /\ rpc' = "batch"
    BY <1>0, <2>2, WorkerHasShape DEF WorkerShape, LoopInv
  <2> QED
    BY <1>1, <2>1, <2>2 DEF RunnerStep
<1>5. epc = "idle" /\ todo = {} /\ evicted = {}
  BY <1>1 DEF DrainInv, PhaseInv
<1> QED
  BY <1>1, <1>2, <1>3, <1>4, <1>5

\* The parts that are not about goroutines and the checkpoint.
LEMMA RunWorkloadsKeepsRest ==
  ASSUME DrainInv, RunWorkloads
  PROVE  DrainTypes' /\ LoopInv' /\ AllowedInv' /\ PhaseInv' /\ CordonInv' /\ OwnershipInv'
         /\ EvictPhaseInv'
<1>1. /\ UNCHANGED <<unsched, snap, opts, ctxErr, protected, elsewhere, epc, evictErr, todo,
                     current, interval, seen, evicted, phase, result, snapUnsched,
                     cordonedByUs, session, cordoner, discovered, refused, lostPatch, stayed>>
      /\ RunnerTypeOK' /\ Distinct(workloads)' /\ LoopInv'
      /\ rpc \in {"begin", "loop", "batch"} /\ rpc' \in {"returned", "loop", "batch"}
      /\ phase = "workloads" /\ epc = "idle" /\ todo = {} /\ evicted = {}
      /\ touched' = (touched \/ spec' # spec)
  BY RunWorkloadsFacts
<1>2. DrainTypes'
  <2>1. /\ EvictTypeOK' /\ session' \in 0 .. MaxSessions /\ cordoner' \in 0 .. session'
        /\ discovered' \in SUBSET Workloads
        /\ phase' \in {"idle", "exited"} \cup Active
        /\ result' \in {"none", "ok", "err", "killed"}
        /\ epc' # "list"
    BY <1>1 DEF DrainInv, DrainTypes, NodeDrainTypeOK, EvictTypeOK
  <2>2. \A b \in {snapUnsched, cordonedByUs, touched, refused, lostPatch, stayed}' :
          b \in BOOLEAN
    BY <1>1 DEF DrainInv, DrainTypes, NodeDrainTypeOK
  <2> QED
    BY ONLY <1>1, <2>1, <2>2 DEF DrainTypes, TypesInv, NodeDrainTypeOK, RunnerTypeOK
<1>3. AllowedInv'
  BY <1>1, AllowedUnchanged DEF DrainInv
<1>4. PhaseInv' /\ EvictPhaseInv'
  BY <1>1 DEF DrainInv, PhaseInv, EvictPhaseInv, Before
<1>5. CordonInv' /\ OwnershipInv'
  BY <1>1 DEF DrainInv, CordonInv, FailureUndoesOwnCordon, OwnershipInv
<1> QED
  BY <1>1, <1>2, <1>3, <1>4, <1>5

\* A restart patch makes its workload newer than it was discovered to be.
LEMMA RunWorkloadsKeepsOlder ==
  ASSUME DrainInv, RunWorkloads
  PROVE  OlderInv'
<1>1. UNCHANGED <<snap, opts>>
  BY RunWorkloadsFacts
<1>2. RunnerTypeOK /\ ClusterTypeOK /\ RunnerStep /\ RefusedInv /\ OlderInv
  BY DEF DrainInv, DrainTypes, TypesInv, NodeDrainTypeOK, RunWorkloads
<1>3. /\ snap \in [Workloads -> Identity] /\ spec \in [Workloads -> Identity]
      /\ spec' \in [Workloads -> Identity]
  <2>1. RunnerTypeOK'
    BY RunWorkloadsFacts
  <2> QED
    BY <1>2, <2>1 DEF RunnerTypeOK, ClusterTypeOK
<1>4. \A w \in Workloads : NotNewer(spec[w], spec'[w])
  BY <1>2, RunnerStepFacts
<1>5. \A w \in Workloads :
        /\ NotNewer(snap[w], spec'[w])
        /\ OlderThan(snap[w], spec[w]) => OlderThan(snap[w], spec'[w])
  BY <1>2, <1>3, <1>4, OlderStaysOlder DEF OlderInv
<1>6. CASE RunnerLoop
  <2>1. \A w \in Workloads : wpc'[w] = wpc[w] \/ wpc'[w] = "patch"
    BY <1>2, <1>6, LoopMoves
  <2> QED
    BY <1>1, <1>2, <1>5, <2>1 DEF OlderInv
<1>7. ASSUME NEW v \in Workloads, Worker(v)
      PROVE  OlderInv'
  <2>1. /\ \A w \in Workloads \ {v} : wpc'[w] = wpc[w]
        /\ \/ wpc'[v] \in {"vacate", "save", "done"} /\ wpc[v] \in {"rollout", "vacate", "save"}
           \/ wpc'[v] = "done" /\ opts.dryRun
           \/ wpc'[v] = "failed"
           \/ RestartApplied(v)
    BY <1>2, <1>7, WorkerMoves
  <2>2. RestartApplied(v) => OlderThan(snap[v], spec'[v])
    <3> SUFFICES ASSUME RestartApplied(v) PROVE OlderThan(snap[v], spec'[v])
      OBVIOUS
    <3>1. OlderThan(spec[v], spec'[v])
      BY <1>2, RestartFacts
    <3>2. NotNewer(snap[v], spec[v])
      BY <1>2 DEF OlderInv
    <3>3. /\ snap[v].uid \in Nat /\ spec[v].uid \in Nat /\ spec'[v].uid \in Nat
          /\ snap[v].gen \in Nat /\ spec[v].gen \in Nat /\ spec'[v].gen \in Nat
      BY <1>3 DEF Identity
    <3> QED
      BY <3>1, <3>2, <3>3 DEF OlderThan, NotNewer
  <2> QED
    BY <1>1, <1>2, <1>5, <2>1, <2>2 DEF OlderInv
<1> QED
  BY <1>2, <1>6, <1>7 DEF RunnerStep

\* A dry run patches nothing, and the checkpoint stays this drain's.
LEMMA RunWorkloadsKeepsRefused ==
  ASSUME DrainInv, RunWorkloads
  PROVE  RefusedInv'
<1>1. /\ UNCHANGED <<opts, phase, refused, epc>>
      /\ rpc' \in {"returned", "loop", "batch"} /\ phase = "workloads"
      /\ touched' = (touched \/ spec' # spec)
      /\ RunnerTypeOK'
  BY RunWorkloadsFacts
<1>2. /\ RunnerTypeOK /\ ClusterTypeOK /\ RunnerStep /\ RefusedInv /\ LoopInv
      /\ ~refused /\ checkpointUsable
      /\ cp \in CheckpointFiles /\ cpFile \in CheckpointFiles
      /\ wpc \in [Workloads -> WorkerPoints]
  BY <1>1 DEF DrainInv, DrainTypes, TypesInv, NodeDrainTypeOK, RunWorkloads, RefusedInv, After,
              RunnerTypeOK
<1>3. touched' => ~opts.dryRun
  BY <1>1, <1>2, RunnerStepFacts DEF RefusedInv
<1> DEFINE Usable(f) == f.readable /\ CP!validateCheckpoint(f, opts.context)
<1>4. ASSUME NEW f \in CheckpointFiles, f.readable
      PROVE  Usable(CP!Claimed(f, opts.context))
  <2>1. opts.context \in {"unset", "this"}
    BY <1>2, RunnerAssumption DEF RunnerTypeOK, RunTypeOK
  <2> QED
    BY <1>4, <2>1 DEF CheckpointFiles, CP!Claimed, CP!validateCheckpoint
<1>5. CASE RunnerLoop
  <2>1. /\ cpFile' = cpFile
        /\ \A w \in Workloads : wpc'[w] = wpc[w] \/ wpc'[w] = "patch"
    BY <1>2, <1>5, LoopCluster, LoopMoves
  <2>2. rpc' \in {"loop", "batch"} => Usable(cp')
    <3>1. CASE BeginFresh
      <4>1. CP!newCheckpoint.readable
        BY DEF CP!newCheckpoint
      <4> QED
        BY <1>4, <3>1, <4>1, EmptyFile DEF BeginFresh
    <3>2. CASE BeginResumed
      BY <1>2, <1>4, <3>2 DEF BeginResumed
    <3>3. CASE rpc \in {"loop", "batch"} /\ cp' = cp
      BY <1>2, <3>3 DEF RefusedInv
    <3>4. CASE rpc' = "returned"
      BY <3>4
    <3> QED
      BY <1>5, <3>1, <3>2, <3>3, <3>4
      DEF RunnerLoop, BeginNothing, BeginError, LoopEnds, StartBatch, NextBatch, FailBatch,
          ReturnRunner
  <2>3. checkpointUsable'
    BY <1>1, <1>2, <2>1 DEF checkpointUsable
  <2> QED
    BY <1>1, <1>2, <1>3, <2>1, <2>2, <2>3 DEF RefusedInv, After
<1>6. ASSUME NEW v \in Workloads, Worker(v)
      PROVE  RefusedInv'
  <2>1. rpc = "batch"
    BY <1>2, <1>6, WorkerHasShape DEF WorkerShape, LoopInv
  <2>2. Usable(cp)
    BY <1>2, <2>1 DEF RefusedInv
  <2>3. Usable(cp') /\ cpFile' \in {cp', cpFile}
    <3>1. CASE UNCHANGED <<cp, cpFile>>
      BY <2>2, <3>1
    <3>2. CASE /\ cp' = CP!MarkDone(cp, opts.context, v, snap[v])
               /\ cpFile' \in {cp', cpFile}
      <4>1. opts.context \in {"unset", "this"}
        BY <1>2, RunnerAssumption DEF RunnerTypeOK, RunTypeOK
      <4> QED
        BY <1>2, <2>2, <3>2, <4>1
        DEF CheckpointFiles, CP!MarkDone, CP!Claimed, CP!validateCheckpoint
    <3> QED
      BY <1>2, <1>6, <3>1, <3>2, WorkerMoves
  <2>4. checkpointUsable'
    BY <1>1, <1>2, <2>3 DEF checkpointUsable
  <2>5. opts.dryRun => \A w \in Workloads : wpc'[w] \in {"idle", "patch", "done"}
    BY <1>2, <1>6, WorkerMoves DEF RefusedInv
  <2> QED
    BY <1>1, <1>2, <1>3, <2>3, <2>4, <2>5 DEF RefusedInv, After
<1> QED
  BY <1>2, <1>5, <1>6 DEF RunnerStep

\* A workload that is not in the slice is not touched.
LEMMA RunWorkloadsKeepsFilter ==
  ASSUME DrainInv, RunWorkloads
  PROVE  FilterInv'
<1>1. /\ UNCHANGED <<opts, phase, discovered, protected, evicted>>
      /\ rpc' \in {"returned", "loop", "batch"} /\ phase = "workloads"
      /\ LoopInv'
  BY RunWorkloadsFacts
<1>2. /\ FilterInv /\ discovered \in SUBSET Workloads
      /\ \A w \in Workloads : InSlice(w)' => InSlice(w)
  BY SliceFacts DEF DrainInv, DrainTypes, NodeDrainTypeOK, RunWorkloads
<1>3. \A w : filtered(w)' = filtered(w)
  BY <1>1 DEF filtered
<1>4. \A w \in Workloads : ~InSlice(w)' => wpc'[w] = "idle"
  BY <1>1 DEF LoopInv, InSlice
<1> QED
  BY <1>1, <1>2, <1>3, <1>4 DEF FilterInv, After

\* A goroutine marks its own workload only: what was dropped stays dropped.
LEMMA WorkerKeepsTaken ==
  ASSUME RunnerTypeOK, LoopInv, NEW v \in Workloads, Worker(v), UNCHANGED opts
  PROVE  \A w \in Workloads, b \in BOOLEAN : takenAsDone(w, b)' = takenAsDone(w, b)
<1> SUFFICES ASSUME NEW w \in Workloads, NEW b \in BOOLEAN
             PROVE  takenAsDone(w, b)' = takenAsDone(w, b)
  OBVIOUS
<1>1. UNCHANGED <<workloads, snap>>
  BY WorkerHasShape DEF WorkerShape
<1>2. CASE w = v
  <2>1. \E i \in DOMAIN workloads : workloads[i] = w
    BY <1>2, WorkerMoves DEF LoopInv
  <2> QED
    BY <1>1, <2>1 DEF takenAsDone
<1>3. ASSUME w # v PROVE cp'.entries[w] = cp.entries[w]
  <2>1. CASE UNCHANGED cp
    BY <2>1
  <2>2. CASE cp' = CP!MarkDone(cp, opts.context, v, snap[v])
    <3>1. cp \in CheckpointFiles /\ snap[v] \in Identity /\ opts \in Options
      BY DEF RunnerTypeOK, RunTypeOK
    <3>2. /\ cp'.entries = [cp.entries EXCEPT ![v] = snap[v]]
          /\ cp.entries \in [Workloads -> Identity \cup {NoEntry, LegacyEntry}]
      BY <2>2, <3>1, MarkedFile DEF CheckpointFiles
    <3> QED
      BY <1>3, <3>2
  <2> QED
    BY <2>1, <2>2, WorkerMoves
<1> QED
  BY <1>1, <1>2, <1>3 DEF takenAsDone, names

\* What the checkpoint has as it was discovered may be dropped with its pods there,
\* and everything else only without.
LEMMA SkippedIsDropped ==
  ASSUME NEW f, NEW w \in Workloads, CP!checkpointCanSkip(f, w, snap[w], HasPods(w))
  PROVE  /\ names(f, w) \/ f.entries[w] = LegacyEntry
         /\ Gone(w) \/ names(f, w)
BY DEF CP!checkpointCanSkip, CP!IsDone, names, Gone

\* A workload that was restarted has left the node, and what was not to be restarted
\* was dropped.
LEMMA RunWorkloadsKeepsRolled ==
  ASSUME DrainInv, RunWorkloads
  PROVE  RolledInv'
<1>1. /\ UNCHANGED <<opts, phase, discovered, protected, evicted, todo, snap, stayed>>
      /\ rpc \in {"begin", "loop", "batch"}
      /\ rpc' \in {"returned", "loop", "batch"} /\ phase = "workloads"
      /\ LoopInv' /\ todo = {} /\ evicted = {}
  BY RunWorkloadsFacts
<1>2. /\ RunnerTypeOK /\ ClusterTypeOK /\ RunnerStep /\ DrainTypes /\ RolledInv /\ FilterInv
      /\ LoopInv /\ discovered \in SUBSET Workloads
      /\ cpFile \in CheckpointFiles /\ opts \in Options
  BY DEF DrainInv, DrainTypes, TypesInv, NodeDrainTypeOK, RunnerTypeOK, RunTypeOK, RunWorkloads
<1>3. \A w \in Workloads : Gone(w) => Gone(w)'
  BY <1>2, RunnerStepFacts
<1> SUFFICES ASSUME stayed, ~opts.dryRun
             PROVE  /\ \A w \in Workloads : wpc'[w] \in {"save", "done"} => Gone(w)'
                    /\ rpc' \in {"loop", "batch"} \/ (rpc' = "returned" /\ ~runErr') =>
                         \A w \in discovered \ protected : InSlice(w)' \/ Dropped(w)'
  BY <1>1 DEF RolledInv
<1>4. \A w \in Workloads : wpc'[w] \in {"save", "done"} => Gone(w)'
  <2>1. CASE RunnerLoop
    <3>1. \A w \in Workloads : wpc'[w] \in {"save", "done"} => wpc'[w] = wpc[w]
      BY <1>2, <2>1, LoopMoves
    <3> QED
      BY <1>2, <1>3, <3>1 DEF RolledInv
  <2>2. ASSUME NEW v \in Workloads, Worker(v), NEW w \in Workloads,
               wpc'[w] \in {"save", "done"}
        PROVE  Gone(w)'
    <3>1. wpc[w] \in {"save", "done"} \/ Gone(w)
      BY <1>2, <2>2, WorkerMoves
    <3> QED
      BY <1>2, <1>3, <3>1 DEF RolledInv
  <2> QED
    BY <1>2, <2>1, <2>2 DEF RunnerStep
<1>5. ASSUME NEW w \in discovered \ protected,
             rpc' \in {"loop", "batch"} \/ (rpc' = "returned" /\ ~runErr')
      PROVE  InSlice(w)' \/ Dropped(w)'
  <2>0. w \in Workloads /\ TRUE \in BOOLEAN /\ FALSE \in BOOLEAN
    BY <1>2
  <2>1. CASE BeginNothing \/ BeginFresh
    <3>1. InSlice(w)
      BY <1>2, <2>1 DEF FilterInv, BeginNothing, BeginFresh
    <3>2. InSlice(w)'
      BY <1>2, <2>0, <2>1, <3>1, SliceFacts DEF BeginNothing, InSlice
    <3> QED
      BY <3>2
  <2>2. CASE BeginResumed
    <3>1. InSlice(w)
      BY <1>2, <2>2 DEF FilterInv, BeginResumed
    <3>2. CASE ~InSlice(w)'
      <4>1. CP!checkpointCanSkip(cpFile, w, snap[w], HasPods(w))
        <5>1. BeginResumed /\ ~BeginFresh
          BY <2>2 DEF BeginFresh, BeginResumed
        <5> QED
          BY <1>2, <2>0, <3>1, <3>2, <5>1, SliceFacts DEF InSlice
      <4>2. cp'.entries = cpFile.entries /\ opts.resume
        BY <1>2, <2>2, ClaimedFile DEF BeginResumed
      <4>3. /\ names(cpFile, w) \/ cpFile.entries[w] = LegacyEntry
            /\ Gone(w) \/ names(cpFile, w)
        BY <2>0, <4>1, SkippedIsDropped
      <4>4. /\ takenAsDone(w, FALSE)'
            /\ names(cpFile, w) => takenAsDone(w, TRUE)'
        BY <1>1, <3>2, <4>2, <4>3 DEF takenAsDone, InSlice, names
      <4> QED
        BY <1>3, <2>0, <4>3, <4>4 DEF Dropped
    <3> QED
      BY <3>2
  <2>3. CASE LoopEnds \/ StartBatch \/ NextBatch
    <3>1. UNCHANGED <<workloads, cp>> /\ rpc \in {"loop", "batch"}
      BY <2>3 DEF LoopEnds, StartBatch, NextBatch
    <3>2. InSlice(w) \/ Dropped(w)
      BY <1>2, <3>1 DEF RolledInv
    <3>3. \A b \in BOOLEAN : takenAsDone(w, b)' = takenAsDone(w, b)
      BY <1>1, <2>0, <3>1, TakenUnchanged
    <3>4. InSlice(w)' = InSlice(w)
      BY <3>1 DEF InSlice
    <3> QED
      BY <1>3, <2>0, <3>2, <3>3, <3>4 DEF Dropped
  <2>4. CASE BeginError \/ FailBatch
    BY <1>5, <2>4 DEF BeginError, FailBatch, ReturnRunner
  <2>5. ASSUME NEW v \in Workloads, Worker(v)
        PROVE  InSlice(w)' \/ Dropped(w)'
    <3>1. rpc = "batch" /\ workloads' = workloads
      BY <1>2, <2>5, WorkerHasShape DEF WorkerShape, LoopInv
    <3>2. InSlice(w) \/ Dropped(w)
      BY <1>2, <3>1 DEF RolledInv
    <3>3. \A b \in BOOLEAN : takenAsDone(w, b)' = takenAsDone(w, b)
      BY <1>1, <1>2, <2>0, <2>5, WorkerKeepsTaken
    <3>4. InSlice(w)' = InSlice(w)
      BY <3>1 DEF InSlice
    <3> QED
      BY <1>3, <2>0, <3>2, <3>3, <3>4 DEF Dropped
  <2> QED
    BY <1>2, <2>1, <2>2, <2>3, <2>4, <2>5 DEF RunnerStep, RunnerLoop
<1> QED
  BY <1>4, <1>5

\* All of it together.
LEMMA RunWorkloadsKeepsInv ==
  ASSUME DrainInv, RunWorkloads
  PROVE  DrainInv'
BY RunWorkloadsKeepsRest, RunWorkloadsKeepsOlder, RunWorkloadsKeepsRefused,
   RunWorkloadsKeepsFilter, RunWorkloadsKeepsRolled
DEF DrainInv

(***************************************************************************)
(* evictRemaining within the drain.                                        *)
(***************************************************************************)
\* A pod is evicted only out of todo, and gets there only by the list; no pod that
\* is gone comes back.
LEMMA EvictStepFacts ==
  ASSUME TypesInv, EvictStep
  PROVE  /\ UNCHANGED <<unsched, spec, opts, ctxErr, protected, elsewhere>>
         /\ \A p \in todo' : p \in todo \/ (p \in evictable /\ ~opts.dryRun)
         /\ \A p \in PodNames : <<p, TRUE>> \in evicted' => <<p, TRUE>> \in evicted \/ p \in todo
         /\ \A w \in Workloads : Gone(w) => Gone(w)'
         /\ epc' \in {"evict", "wait"} => epc \in {"evict", "wait"} \/ ~opts.dryRun
         /\ evicted' # evicted => epc = "evict"
<1>0. /\ UNCHANGED <<opts, ctxErr, protected, elsewhere>>
      /\ ClusterTypeOK /\ current \in todo \cup {NoPod} /\ todo \in SUBSET PodNames
  BY DEF EvictStep, runVars, TypesInv, EvictTypeOK
<1>1. CASE UNCHANGED <<clusterVars, todo, evicted>> /\ epc' \in {epc, "returned"}
  BY <1>0, <1>1 DEF clusterVars, Gone, HasPods
<1>2. CASE ListPods
  BY <1>0, <1>2 DEF ListPods, clusterVars, Gone, HasPods
<1>3. ASSUME NEW p \in todo, ForceDelete(p)
      PROVE  /\ UNCHANGED <<unsched, spec, epc>> /\ todo' = todo \ {p} /\ epc = "evict"
             /\ evicted' = evicted \cup {<<p, TRUE>>}
             /\ \A w \in Workloads : Gone(w) => Gone(w)'
  BY <1>0, <1>3 DEF ForceDelete, Gone, HasPods, PodNames, ClusterTypeOK
<1>4. CASE EvictGranted
  <2>1. /\ UNCHANGED <<unsched, spec, epc>> /\ todo' = todo \ {current} /\ epc = "evict"
        /\ current \in todo
        /\ \E b \in BOOLEAN : evicted' = evicted \cup {<<current, b>>}
    BY <1>0, <1>4 DEF EvictGranted, DeletionStarted, Handled, clusterVars
  <2>2. \A w \in Workloads : Gone(w) => Gone(w)'
    BY <1>0, <1>4 DEF EvictGranted, DeletionStarted, clusterVars, Gone, HasPods, PodNames,
                      ClusterTypeOK
  <2> QED
    BY <1>0, <2>1, <2>2
<1>5. CASE EvictGone
  BY <1>0, <1>5 DEF EvictGone, Handled, clusterVars, Gone, HasPods
<1>6. CASE EvictLoopEnds
  BY <1>0, <1>6 DEF EvictLoopEnds, clusterVars, Gone, HasPods
<1>7. CASE \E p \in todo : ForceDelete(p)
  <2>1. PICK p \in todo : ForceDelete(p)
    BY <1>7
  <2>2. /\ UNCHANGED <<unsched, spec, epc>> /\ todo' = todo \ {p} /\ epc = "evict"
        /\ evicted' = evicted \cup {<<p, TRUE>>}
        /\ \A w \in Workloads : Gone(w) => Gone(w)'
    BY <1>3, <2>1
  <2> QED
    BY <1>0, <2>1, <2>2
<1> QED
  BY <1>1, <1>2, <1>4, <1>5, <1>6, <1>7
  DEF EvictStep, OwnEvictStep, AnsweredEvictStep, ListFails, ListDryRun, ListNothingLeft,
      BeginEvict, EvictFails, WaitDone, WaitFails, WaitSeesGone, EvictRefused, ReturnEvict

\* A workload whose pods have left is not on the list.
LEMMA GoneIsNotEvictable ==
  ASSUME ClusterTypeOK, NEW w \in Workloads, w \in evictable
  PROVE  ~Gone(w) /\ w \notin protected
<1>1. w \in PodNames /\ pods[w] \in PodCondition
  BY DEF PodNames, ClusterTypeOK
<1> QED
  BY <1>1
  DEF evictable, candidates, evictionView, Policy!isEvictable, Gone, HasPods, PodCondition

\* The eviction takes nothing that was discovered but what was dropped as discovered.
LEMMA EvictKeepsInv ==
  ASSUME DrainInv, Evict
  PROVE  DrainInv'
<1> USE DEF DrainInv
<1>1. /\ phase = "evict" /\ EvictStep
      /\ touched' = (touched \/ evicted' # evicted)
      /\ UNCHANGED <<workloads, snap, cpFile, cp, rpc, runErr, batchStart, wpc, gctxErr, phase,
                     result, snapUnsched, cordonedByUs, session, cordoner, discovered, refused,
                     lostPatch, stayed>>
  BY DEF Evict, runnerVars, phaseVars
<1>2. /\ TypesInv /\ RunnerTypeOK /\ discovered \in SUBSET Workloads
      /\ rpc = "returned" /\ ~runErr
  BY <1>1 DEF DrainTypes, NodeDrainTypeOK, PhaseInv
<1>3. /\ UNCHANGED <<unsched, spec, opts, ctxErr, protected, elsewhere>>
      /\ \A p \in todo' : p \in todo \/ (p \in evictable /\ ~opts.dryRun)
      /\ \A p \in PodNames : <<p, TRUE>> \in evicted' => <<p, TRUE>> \in evicted \/ p \in todo
      /\ \A w \in Workloads : Gone(w) => Gone(w)'
      /\ epc' \in {"evict", "wait"} => epc \in {"evict", "wait"} \/ ~opts.dryRun
      /\ evicted' # evicted => epc = "evict"
  BY <1>1, <1>2, EvictStepFacts
<1>4. TypesInv' /\ AllowedInv'
  BY <1>1, <1>2, StepKeepsTypes, StepKeepsAllowed
<1>5. DrainTypes'
  <2>1. RunnerTypeOK'
    BY <1>1, <1>2, <1>4 DEF RunnerTypeOK, TypesInv
  <2>2. \A b \in {snapUnsched, cordonedByUs, touched, refused, lostPatch, stayed}' :
          b \in BOOLEAN
    BY <1>1 DEF DrainTypes, NodeDrainTypeOK
  <2>3. /\ session' \in 0 .. MaxSessions /\ cordoner' \in 0 .. session'
        /\ discovered' \in SUBSET Workloads /\ Distinct(workloads)'
        /\ phase' \in {"idle", "exited"} \cup Active
        /\ result' \in {"none", "ok", "err", "killed"}
    BY <1>1 DEF DrainTypes, NodeDrainTypeOK, Distinct
  <2> QED
    BY ONLY <1>4, <2>1, <2>2, <2>3 DEF DrainTypes, NodeDrainTypeOK, TypesInv
<1>6. LoopInv'
  BY <1>1, <1>3, LoopUnchanged
<1>7. OlderInv'
  BY <1>1, <1>3, OlderUnchanged
<1>8. PhaseInv' /\ CordonInv' /\ OwnershipInv'
  BY <1>1, <1>3 DEF PhaseInv, CordonInv, FailureUndoesOwnCordon, OwnershipInv, Before
<1>9. RefusedInv'
  BY <1>1, <1>3 DEF RefusedInv, checkpointUsable, After
<1>10. FilterInv'
  <2>1. \A w : filtered(w)' = filtered(w) /\ InSlice(w)' = InSlice(w)
    BY <1>1, <1>3 DEF filtered, InSlice
  <2>2. ASSUME NEW w \in discovered, filtered(w)
        PROVE  <<w, TRUE>> \notin evicted'
    <3>1. w \in protected /\ w \in PodNames /\ <<w, TRUE>> \notin evicted
      BY <1>1, <1>2, <2>2 DEF FilterInv, After, PodNames
    <3>2. w \notin todo
      BY <3>1 DEF AllowedInv, Allowed
    <3> QED
      BY <1>3, <3>1, <3>2
  <2> QED
    BY <1>1, <1>3, <2>1, <2>2 DEF FilterInv, After
<1>11. RolledInv'
  <2>1. ASSUME stayed, NEW w \in discovered, w \in todo' \/ <<w, TRUE>> \in evicted'
        PROVE  takenAsDone(w, TRUE)'
    <3>1. w \in Workloads /\ w \in PodNames
      BY <1>2 DEF PodNames
    <3>2. w \in todo \/ <<w, TRUE>> \in evicted => takenAsDone(w, TRUE)
      BY <1>1, <2>1 DEF RolledInv
    <3>3. ASSUME w \in evictable, ~opts.dryRun
          PROVE  takenAsDone(w, TRUE)
      <4>1. ~Gone(w) /\ w \notin protected
        BY <1>2, <3>1, <3>3, GoneIsNotEvictable DEF TypesInv
      <4>2. InSlice(w) \/ Dropped(w)
        BY <1>1, <2>1, <3>3, <4>1 DEF RolledInv
      <4>3. InSlice(w) => wpc[w] = "done"
        BY <1>2 DEF LoopInv, SuccessMeansAllDone, InSlice
      <4> QED
        BY <2>1, <3>1, <3>3, <4>1, <4>2, <4>3 DEF RolledInv, Dropped
    <3>4. takenAsDone(w, TRUE)' = takenAsDone(w, TRUE)
      BY <1>1, <1>3, <3>1, TakenUnchanged
    <3> QED
      BY <1>3, <2>1, <3>1, <3>2, <3>3, <3>4
  <2>2. \A w \in Workloads, b \in BOOLEAN : takenAsDone(w, b)' = takenAsDone(w, b)
    BY <1>1, <1>3, TakenUnchanged
  <2>3. \A w \in Workloads : Dropped(w) => Dropped(w)'
    BY <1>3, <2>2 DEF Dropped
  <2>4. \A w : InSlice(w)' = InSlice(w)
    BY <1>1 DEF InSlice
  <2> QED
    BY <1>1, <1>2, <1>3, <2>1, <2>3, <2>4 DEF RolledInv
<1>12. EvictPhaseInv'
  <2> SUFFICES ASSUME stayed PROVE EmptiedInv'
    BY <1>1 DEF EvictPhaseInv
  <2>1. EvictInv
    BY <1>1, <1>2 DEF EvictInv, EvictPhaseInv
  <2> QED
    BY <1>1, <2>1, StepKeepsEmptied
<1> QED
  BY <1>4, <1>5, <1>6, <1>7, <1>8, <1>9, <1>10, <1>11, <1>12

(***************************************************************************)
(* Every step.                                                             *)
(***************************************************************************)
\* Nothing happens.
LEMMA NothingKeepsInv ==
  ASSUME DrainInv, UNCHANGED nodeDrainVars
  PROVE  DrainInv'
<1> USE DEF DrainInv
<1>1. UNCHANGED <<unsched, pods, spec, opts, ctxErr, protected, workloads, snap, cpFile, cp, rpc,
                  runErr, batchStart, wpc, gctxErr, elsewhere, epc, evictErr, todo, current,
                  interval, seen, evicted, phase, result, snapUnsched, cordonedByUs, session,
                  cordoner, discovered, touched, refused, lostPatch, stayed>>
  BY DEF nodeDrainVars, clusterVars, runVars, runnerVars, evictVars, drainVars, phaseVars,
         sessionHistory
<1>2. DrainTypes'
  BY <1>1 DEF DrainTypes, TypesInv, NodeDrainTypeOK, RunnerTypeOK, EvictTypeOK,
              RunTypeOK, ClusterTypeOK, Distinct
<1>3. LoopInv' /\ AllowedInv' /\ OlderInv'
  BY <1>1, LoopUnchanged, AllowedUnchanged, OlderUnchanged
<1>4. PhaseInv' /\ CordonInv' /\ OwnershipInv'
  BY <1>1 DEF PhaseInv, CordonInv, FailureUndoesOwnCordon, OwnershipInv
<1>5. RefusedInv' /\ FilterInv'
  BY <1>1 DEF RefusedInv, checkpointUsable, FilterInv, filtered, InSlice
<1>6. RolledInv'
  <2>1. \A w \in Workloads, b \in BOOLEAN : takenAsDone(w, b)' = takenAsDone(w, b)
    BY <1>1, TakenUnchanged
  <2>2. \A w \in Workloads : Gone(w)' = Gone(w) /\ InSlice(w)' = InSlice(w)
    BY <1>1 DEF Gone, HasPods, InSlice
  <2>3. discovered \in SUBSET Workloads
    BY DEF DrainTypes, NodeDrainTypeOK
  <2> QED
    BY <1>1, <2>1, <2>2, <2>3 DEF RolledInv, Dropped
<1>7. EvictPhaseInv'
  BY <1>1, EmptiedUnchanged DEF EvictPhaseInv
<1> QED
  BY <1>2, <1>3, <1>4, <1>5, <1>6, <1>7

\* Every step preserves the invariant.
LEMMA DrainNextInv == DrainInv /\ [NodeDrainNext]_nodeDrainVars => DrainInv'
<1> SUFFICES ASSUME DrainInv, [NodeDrainNext]_nodeDrainVars PROVE DrainInv'
  OBVIOUS
<1>1. CASE StartSession
  BY <1>1, StartKeepsInv
<1>2. CASE ValidateNode \/ ReadFails
  BY <1>2, ReadsKeepInv
<1>3. CASE DiscoverWorkloads
  BY <1>3, DiscoverKeepsInv
<1>4. CASE PrepareBeforeCordon
  BY <1>4, PrepareKeepsInv
<1>5. CASE CordonSkipped \/ Cordon \/ CordonFails
  BY <1>5, CordonKeepsInv
<1>6. CASE RunWorkloads
  BY <1>6, RunWorkloadsKeepsInv
<1>7. CASE WorkloadsReturned
  BY <1>7, WorkloadsReturnedKeepsInv
<1>8. CASE Evict
  BY <1>8, EvictKeepsInv
<1>9. CASE EvictReturned \/ Cleanup
  BY <1>9, EndingKeepsInv
<1>10. CASE DeferredOnError
  BY <1>10, DeferredKeepsInv
<1>11. CASE TimeoutExpires
  BY <1>11, TimeoutKeepsInv
<1>12. CASE Killed
  BY <1>12, KilledKeepsInv
<1>13. CASE OperatorActs
  BY <1>13, OperatorKeepsInv
<1>14. CASE ClusterActs
  BY <1>14, ClusterKeepsInv
<1>15. CASE NoMoreSessions \/ UNCHANGED nodeDrainVars
  BY <1>15, NothingKeepsInv DEF NoMoreSessions
<1> QED
  BY <1>1, <1>2, <1>3, <1>4, <1>5, <1>6, <1>7, <1>8, <1>9, <1>10, <1>11, <1>12, <1>13, <1>14,
     <1>15
  DEF NodeDrainNext, DrainStep

\* The operator's acts are a number.
Counted == operatorActs \in Nat

\* Only somebody else's cordon or uncordon adds to it.
LEMMA OperatorActsCounted == NodeDrainSpec => []Counted
<1> USE DEF Counted
<1>1. NodeDrainInit => Counted
  BY DEF NodeDrainInit
<1>2. ASSUME Counted, [NodeDrainNext]_nodeDrainVars
      PROVE  Counted'
  <2>1. CASE OperatorActs
    BY <1>2, <2>1 DEF OperatorActs
  <2>2. CASE UNCHANGED operatorActs
    BY <1>2, <2>2
  <2> QED
    BY <1>2, <2>1, <2>2
    DEF NodeDrainNext, DrainStep, StartSession, ValidateNode, DiscoverWorkloads,
        PrepareBeforeCordon, ReadFails, BeforeCordonFrame, CordonSkipped, Cordon, CordonFails,
        RunFrame, RunWorkloads, WorkloadsReturned, Evict, EvictReturned, Cleanup,
        DeferredOnError, TimeoutExpires, Killed, ClusterActs, NoMoreSessions, nodeDrainVars,
        drainVars
<1> HIDE DEF Counted
<1> QED
  BY <1>1, <1>2, PTL DEF NodeDrainSpec

(***************************************************************************)
(* The theorems.                                                           *)
(***************************************************************************)
\* The invariant holds in every state of every sequence of sessions.
THEOREM NodeDrainInvariant == NodeDrainSpec => []DrainInv
BY DrainInitInv, DrainNextInv, PTL DEF NodeDrainSpec

\* The drain of a node is well typed.
THEOREM NodeDrainTypeCorrect == NodeDrainSpec => []NodeDrainTypeOK
<1>1. DrainInv => NodeDrainTypeOK
  BY DEF DrainInv, DrainTypes
<1> QED
  BY <1>1, NodeDrainInvariant, PTL

\* A dry run, a refused session and one whose checkpoint is another node's, or of
\* another kube context than its own if it has one, leave the cluster as it was
\* (drain_phases.go: prepareBeforeCordon comes before cordon; checkpoint_resume.go:14).
THEOREM NodeDrainRefusedUntouched == NodeDrainSpec => []RefusedMeansUntouched
<1>1. DrainInv => RefusedMeansUntouched
  BY DEF DrainInv, RefusedInv, RefusedMeansUntouched, checkpointUsable, CP!validateCheckpoint
<1> QED
  BY <1>1, NodeDrainInvariant, PTL

\* A failed session takes its own cordon back if it was told to and no node patch
\* was answered with an error (drain.go, the deferred functions of Run).
THEOREM NodeDrainFailureUndoesOwnCordon == NodeDrainSpec => []FailureUndoesOwnCordon
<1>1. DrainInv => FailureUndoesOwnCordon
  BY DEF DrainInv, CordonInv
<1> QED
  BY <1>1, NodeDrainInvariant, PTL

\* If nobody cordons or uncordons while a session runs, a session uncordons the node
\* only if it is the one that cordoned it.
THEOREM NodeDrainOnlyOwnCordonUndone ==
  ASSUME OperatorMayRace = FALSE
  PROVE  NodeDrainSpec => OnlyOwnCordonUndone
<1>1. ASSUME DrainInv, Counted, [NodeDrainNext]_nodeDrainVars
      PROVE  [unsched /\ ~unsched' /\ operatorActs' = operatorActs
               => phase = "deferred" /\ cordoner = session]_nodeDrainVars
  <2> SUFFICES ASSUME unsched, ~unsched', operatorActs' = operatorActs
               PROVE  phase = "deferred" /\ cordoner = session
    OBVIOUS
  <2>1. CASE DeferredOnError
    BY <1>1, <2>1 DEF DeferredOnError, undoesCordon, DrainInv, OwnershipInv, After, clusterVars
  <2>2. CASE RunWorkloads
    BY <2>2, RunWorkloadsFacts, <1>1
  <2>3. CASE Evict
    BY <1>1, <2>3, EvictStepFacts DEF Evict, DrainInv, DrainTypes
  <2>4. CASE ClusterActs
    BY <1>1, <2>4, ClusterStepFacts DEF ClusterActs, DrainInv, DrainTypes, TypesInv
  <2>5. CASE OperatorActs
    <3>1. operatorActs' = operatorActs + 1
      BY <2>5 DEF OperatorActs
    <3> QED
      BY <1>1, <3>1 DEF Counted
  <2> QED
    BY <1>1, <2>1, <2>2, <2>3, <2>4, <2>5
    DEF NodeDrainNext, DrainStep, StartSession, ValidateNode, DiscoverWorkloads,
        PrepareBeforeCordon, ReadFails, BeforeCordonFrame, CordonSkipped, Cordon, CordonFails,
        NodePatched, WorkloadsReturned, EvictReturned, Cleanup, TimeoutExpires, Killed,
        NoMoreSessions, nodeDrainVars, clusterVars
<1> QED
  BY <1>1, NodeDrainInvariant, OperatorActsCounted, PTL DEF NodeDrainSpec, OnlyOwnCordonUndone

\* A drain that succeeds on a node that stayed unschedulable has emptied it of all
\* that was to leave; each workload it found and was not to leave alone has been
\* changed since and seen off, or the checkpoint has it as done.
THEOREM NodeDrainSuccessMeansDrained == NodeDrainSpec => []SuccessMeansDrained
<1>1. ASSUME DrainInv PROVE SuccessMeansDrained
  <2> SUFFICES ASSUME phase = "cleanup", stayed, ~opts.dryRun
               PROVE  /\ \A p \in PodNames : MayRemain(p)
                      /\ \A w \in discovered \ protected :
                           \/ wpc[w] = "done" /\ spec[w] # snap[w]
                           \/ takenAsDone(w, FALSE)
    BY DEF SuccessMeansDrained
  <2>1. rpc = "returned" /\ ~runErr /\ epc = "returned" /\ ~evictErr
    BY <1>1 DEF DrainInv, PhaseInv
  <2>2. \A p \in PodNames : MayRemain(p)
    BY <1>1, <2>1 DEF DrainInv, EvictPhaseInv, EmptiedInv, SuccessMeansEmptied
  <2>3. ASSUME NEW w \in discovered \ protected, InSlice(w)
        PROVE  wpc[w] = "done" /\ spec[w] # snap[w]
    <3>1. wpc[w] = "done"
      BY <1>1, <2>1, <2>3 DEF DrainInv, LoopInv, SuccessMeansAllDone, InSlice
    <3>2. w \in Workloads /\ snap \in [Workloads -> Identity]
      BY <1>1 DEF DrainInv, DrainTypes, NodeDrainTypeOK, RunnerTypeOK
    <3>3. OlderThan(snap[w], spec[w])
      BY <1>1, <3>1, <3>2 DEF DrainInv, OlderInv
    <3>4. snap[w].uid \in Nat /\ snap[w].gen \in Nat
      BY <3>2 DEF Identity
    <3> QED
      BY <3>1, <3>3, <3>4 DEF OlderThan
  <2>4. \A w \in discovered \ protected : InSlice(w) \/ takenAsDone(w, FALSE)
    BY <1>1 DEF DrainInv, RolledInv, Dropped
  <2> QED
    BY <2>2, <2>3, <2>4
<1> QED
  BY <1>1, NodeDrainInvariant, PTL

\* On a node that stays unschedulable the eviction gets no workload that discovery
\* found but one the checkpoint names as discovered (checkpoint_resume.go:22-34).
THEOREM NodeDrainOnlyTrustedEvicted == NodeDrainSpec => []OnlyTrustedEvicted
<1>1. DrainInv => OnlyTrustedEvicted
  BY DEF DrainInv, RolledInv, OnlyTrustedEvicted
<1> QED
  BY <1>1, NodeDrainInvariant, PTL

\* What discovery found and the flags filter out is neither restarted nor evicted.
THEOREM NodeDrainFilteredLeftAlone == NodeDrainSpec => []FilteredLeftAlone
<1>1. DrainInv => FilteredLeftAlone
  BY DEF DrainInv, FilterInv, FilteredLeftAlone
<1> QED
  BY <1>1, NodeDrainInvariant, PTL
================================================================================
