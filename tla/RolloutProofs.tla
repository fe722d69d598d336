----------------------------- MODULE RolloutProofs -----------------------------
(***************************************************************************)
(* Proofs about Rollout for any number of replicas, any number of changes  *)
(* by others, every strategy, and any interleaving of the controller, the  *)
(* kubelets and the waiter.                                                *)
(***************************************************************************)
EXTENDS Rollout, FiniteSetTheorems, TLAPS

USE RolloutAssumption

(***************************************************************************)
(* The inductive invariant.                                                *)
(***************************************************************************)
StatusTypeOK ==
  status \in [observedGeneration : 0..MaxGen, updated : Nat, ready : Nat,
              available : Nat, unavailable : Nat, updateRev : 0..MaxGen,
              currentRev : 0..MaxGen, current : Nat, stalled : 0..MaxGen]

\* Whatever lags behind is older: status behind view, pods behind view, view
\* behind spec.
LagInv ==
  /\ view.rev <= view.gen /\ spec.rev <= spec.gen
  /\ view.gen <= spec.gen /\ view.rev <= spec.rev
  /\ \A i \in Slots : pods[i].rev <= view.rev
  /\ status.observedGeneration <= view.gen
  /\ status.updateRev \in 1..view.rev
  /\ status.currentRev \in 1..view.rev
  /\ status.stalled <= view.rev

\* A spec, view or status that is not older than the restart has its revision or
\* a later one.
TargetInv ==
  /\ targetRev = targetGeneration /\ targetRev <= spec.rev
  /\ wpc = "patch" => targetRev = NoRev
  /\ view.gen >= targetGeneration => view.rev >= targetRev
  /\ status.observedGeneration >= targetGeneration => status.updateRev >= targetRev

Paused == strategy = "Paused"

\* What a status says of the pods, and still says after it is out of date: a
\* StatefulSet has no pod older than its current revision, a Deployment that
\* reports only updated and available pods has none older than those, and a
\* verdict that the rollout has stalled is about the revision worked towards.
StatusInv ==
  /\ kind = "StatefulSet" => \A i \in Existing : pods[i].rev >= status.currentRev
  /\ kind = "Deployment" /\ ~Paused
       /\ status.unavailable = 0 /\ status.updated = status.available
     => \A i \in Existing : pods[i].rev >= status.updateRev
  /\ ~Paused /\ status.stalled # NoRev => status.stalled = view.rev

\* No pod is older than r, and none that is will be created any more.
NoneBefore(r) ==
  /\ view.rev >= r
  /\ kind = "StatefulSet" => status.currentRev >= r
  /\ \A i \in Existing : pods[i].rev >= r

\* What the waiter remembers is about the restart or later: the revisions it has
\* seen, the pods a broad selector selects, its verdict.
WaitInv ==
  /\ wpc = "patch" => cachedRevision = NoRev /\ selector = NoRev /\ ~complete
  /\ wpc = "select" => kind = "Deployment"
  /\ ~Paused =>
       /\ cachedRevision # NoRev => cachedRevision >= targetRev
       /\ selector = Broad => kind = "Deployment" /\ NoneBefore(targetRev)
       /\ wpc \in {"select", "pods"} => seenRev # NoRev /\ seenRev >= targetRev
                                          /\ view.rev >= targetRev
       /\ wpc = "pods" => cachedRevision # NoRev
       /\ complete \/ wpc = "done" => NoneBefore(targetRev)
       /\ failedOn # NoRev => failedOn >= targetRev

RolloutInv ==
  RolloutTypeOK /\ StatusTypeOK /\ LagInv /\ TargetInv /\ StatusInv /\ WaitInv

(***************************************************************************)
(* Facts about single states.                                              *)
(***************************************************************************)
\* Sets of pods can be counted.
LEMMA SlotsFinite ==
  /\ IsFiniteSet(Slots)
  /\ \A S \in SUBSET Slots : IsFiniteSet(S) /\ Cardinality(S) \in Nat
<1>1. IsFiniteSet(Slots)
  BY FS_Interval DEF Slots
<1> QED
  BY <1>1, FS_Subset, FS_CardinalityType

\* There are two kinds, and only a Deployment is ever paused.
LEMMA KindFacts ==
  ASSUME RolloutTypeOK
  PROVE  /\ kind \in {"Deployment", "StatefulSet"}
         /\ Paused => kind = "Deployment" /\ Announced("Paused")
<1>1. kind \in {"Deployment", "StatefulSet"} /\ strategy \in StrategiesOf(kind)
  BY DEF RolloutTypeOK
<1>2. kind = "StatefulSet" => ~Paused
  BY <1>1 DEF StrategiesOf, Paused
<1>3. kind = "Deployment" /\ Paused => Announced("Paused")
  BY DEF Paused, Announced, inspected, preflightDeployment, risks
<1> QED
  BY <1>1, <1>2, <1>3

\* The numbers in a state are natural numbers.
LEMMA Numbers ==
  ASSUME RolloutTypeOK, StatusTypeOK
  PROVE  /\ spec.gen \in 1..MaxGen /\ spec.rev \in 1..MaxGen
         /\ view.gen \in 1..MaxGen /\ view.rev \in 1..MaxGen
         /\ targetGeneration \in Nat /\ targetRev \in Nat /\ MaxGen \in Nat
         /\ status.observedGeneration \in Nat /\ status.updateRev \in Nat
         /\ status.currentRev \in Nat /\ status.stalled \in Nat
         /\ status.updated \in Nat /\ status.available \in Nat
         /\ status.unavailable \in Nat
         /\ \A i \in Slots : pods[i].rev \in Nat
         /\ \A i \in Existing : pods[i].rev \in 1..MaxGen
         /\ \A i \in Slots \ Existing : pods[i].rev = NoRev
         /\ LatestRevision \in {1, view.rev}
         /\ ~Paused => LatestRevision = view.rev
BY DEF RolloutTypeOK, StatusTypeOK, Revisions, Existing, NoRev, LatestRevision, Paused

\* A pod that is created is not older than the status, nor newer than the view.
LEMMA CreatedRevision ==
  ASSUME RolloutTypeOK, StatusTypeOK, LagInv, NEW i \in Slots
  PROVE  /\ RevisionToCreate(i) \in 1..view.rev
         /\ kind = "StatefulSet" => RevisionToCreate(i) >= status.currentRev
         /\ kind = "Deployment" /\ ~Paused => RevisionToCreate(i) = view.rev
<1>1. LatestRevision \in 1..view.rev /\ (~Paused => LatestRevision = view.rev)
  BY Numbers
<1>2. RevisionToCreate(i) \in {status.currentRev, LatestRevision}
  BY DEF RevisionToCreate
<1>3. kind = "Deployment" => RevisionToCreate(i) = LatestRevision
  <2>1. kind = "Deployment" => strategy # "Partitioned"
    BY DEF RolloutTypeOK, StrategiesOf
  <2> QED
    BY <2>1 DEF RevisionToCreate, Partition, Slots
<1> QED
  BY <1>1, <1>2, <1>3, Numbers, KindFacts DEF LagInv

(***************************************************************************)
(* The steps, by what they change.                                         *)
(***************************************************************************)
\* A pod is created, started, broken or deleted.
PodStep(i) == CreatePod(i) \/ DeletePod(i) \/ PodStarts(i) \/ PodFails(i)

\* Nothing but pods changes, and each pod is one that was there or a new one.
PodsShape ==
  /\ UNCHANGED <<kind, strategy, spec, view, status, codeVars>> /\ wpc # "failed"
  /\ pods' \in [Slots -> [rev : Revisions, state : PodState \ {"absent"}]
                          \cup {[rev |-> NoRev, state |-> "absent"]}]
  /\ \A i \in Existing' : \/ i \in Existing /\ pods'[i].rev = pods[i].rev
                          \/ pods'[i].rev = RevisionToCreate(i)

\* Others change the spec; the template only to a revision of that generation.
SpecShape ==
  /\ UNCHANGED <<kind, strategy, view, pods, status, codeVars>> /\ wpc \in Running
  /\ spec'.gen = spec.gen + 1 /\ spec'.gen \in Revisions
  /\ spec'.rev \in {spec.rev, spec'.gen} /\ spec'.replicas \in 0..MaxReplicas
  /\ spec' \in [gen : Revisions, rev : Revisions, replicas : 0..MaxReplicas]

\* The controller writes its status.
StatusShape ==
  /\ UNCHANGED <<kind, strategy, spec, view, pods, codeVars>> /\ wpc # "failed"
  /\ \/ status' = Reported
     \/ ~Paused /\ status' = [Reported EXCEPT !.stalled = view.rev]

\* A pod's step has the first shape.
LEMMA PodStepShape ==
  ASSUME RolloutInv, NEW i \in Slots, PodStep(i)
  PROVE  PodsShape
<1>1. ASSUME NEW r, NEW st, External, UNCHANGED <<kind, strategy, spec, view, status>>,
             pods' = [pods EXCEPT ![i] = [rev |-> r, state |-> st]],
             \/ r = NoRev /\ st = "absent"
             \/ r \in Revisions /\ st \in PodState \ {"absent"}
                  /\ (r = RevisionToCreate(i) \/ (i \in Existing /\ r = pods[i].rev))
      PROVE  PodsShape
  <2>1. /\ pods' = [pods EXCEPT ![i] = [rev |-> r, state |-> st]]
        /\ UNCHANGED <<kind, strategy, spec, view, status, codeVars>> /\ wpc # "failed"
    BY <1>1 DEF External
  <2>2. pods \in [Slots -> [rev : Revisions, state : PodState \ {"absent"}]
                          \cup {[rev |-> NoRev, state |-> "absent"]}]
    BY DEF RolloutInv, RolloutTypeOK
  <2>3. pods' \in [Slots -> [rev : Revisions, state : PodState \ {"absent"}]
                          \cup {[rev |-> NoRev, state |-> "absent"]}]
    BY <1>1, <2>1, <2>2
  <2>4. \A j \in Slots : pods'[j] = IF j = i THEN [rev |-> r, state |-> st] ELSE pods[j]
    BY <2>1, <2>2
  <2>5. RevisionToCreate(i)' = RevisionToCreate(i)
    BY <2>1 DEF RevisionToCreate, Partition, LatestRevision
  <2>6. \A j \in Existing' : \/ j \in Existing /\ pods'[j].rev = pods[j].rev
                            \/ pods'[j].rev = RevisionToCreate(j)
    BY <1>1, <2>4 DEF Existing
  <2> QED
    BY <2>1, <2>3, <2>6 DEF PodsShape
<1>2. CASE CreatePod(i)
  <2>1. RevisionToCreate(i) \in Revisions
    BY CreatedRevision, Numbers DEF RolloutInv, LagInv, Revisions
  <2> QED
    BY <1>1, <1>2, <2>1 DEF CreatePod, SetPod, PodState
<1>3. CASE DeletePod(i)
  BY <1>1, <1>3 DEF DeletePod, SetPod
<1>4. ASSUME pods[i].state \in {"starting", "ready"}
      PROVE  i \in Existing /\ pods[i].rev \in Revisions
  BY <1>4 DEF RolloutInv, RolloutTypeOK, Existing
<1>5. CASE PodStarts(i)
  BY <1>1, <1>4, <1>5 DEF PodStarts, SetPod, PodState
<1>6. CASE PodFails(i)
  BY <1>1, <1>4, <1>6 DEF PodFails, SetPod, PodState
<1> QED
  BY <1>2, <1>3, <1>5, <1>6 DEF PodStep

\* A new generation of the spec.
LEMMA SpecTyped ==
  ASSUME RolloutTypeOK, NEW r \in {spec.rev, spec.gen + 1}, NEW n \in 0..MaxReplicas,
         NextSpec(r, n)
  PROVE  /\ spec'.gen = spec.gen + 1 /\ spec'.gen \in Revisions
         /\ spec'.rev = r /\ spec'.replicas = n
         /\ spec' \in [gen : Revisions, rev : Revisions, replicas : 0..MaxReplicas]
BY DEF RolloutTypeOK, NextSpec, Revisions

\* What others do has the second shape.
LEMMA OthersShape ==
  ASSUME RolloutTypeOK, OtherChangesTemplate \/ OtherScales
  PROVE  SpecShape
<1>1. spec.replicas \in 0..MaxReplicas
  BY DEF RolloutTypeOK
<1>2. CASE OtherChangesTemplate
  BY <1>1, <1>2, SpecTyped DEF OtherChangesTemplate, RoomForOthers, External, SpecShape
<1>3. CASE OtherScales
  <2>1. PICK n \in 0..MaxReplicas : NextSpec(spec.rev, n)
    BY <1>3 DEF OtherScales
  <2> QED
    BY <1>3, <2>1, SpecTyped DEF OtherScales, RoomForOthers, External, SpecShape
<1> QED
  BY <1>2, <1>3

\* The controller's reports have the third.
LEMMA ReportShape ==
  ASSUME SyncStatus \/ Stalls
  PROVE  StatusShape
BY DEF SyncStatus, Stalls, External, StatusShape, Paused

\* A report: it is typed, about the view, and its current revision is the one before
\* or the view's; for a StatefulSet the view's only if each pod has it.
LEMMA ReportFacts ==
  ASSUME RolloutInv, StatusShape
  PROVE  /\ StatusTypeOK'
         /\ status'.observedGeneration = view.gen /\ status'.updateRev = view.rev
         /\ \/ status'.currentRev = status.currentRev
            \/ /\ status'.currentRev = view.rev
               /\ kind = "StatefulSet" => Existing = OfRevision(view.rev)
         /\ \/ status'.stalled = status.stalled
            \/ ~Paused /\ status'.stalled = view.rev
         /\ status'.updated = Cardinality(OfRevision(view.rev))
         /\ status'.available = Cardinality(Available)
         /\ status'.unavailable = Cardinality(Existing \ Available)
<1>1. /\ Ready \in SUBSET Slots /\ Available \in SUBSET Slots
      /\ Existing \ Available \in SUBSET Slots
      /\ \A r : OfRevision(r) \in SUBSET Slots
  BY DEF Ready, Available, Existing, OfRevision
<1>2. /\ Cardinality(Ready) \in Nat /\ Cardinality(Available) \in Nat
      /\ Cardinality(Existing \ Available) \in Nat
      /\ \A r : Cardinality(OfRevision(r)) \in Nat
  BY <1>1, SlotsFinite
<1>3. /\ view.gen \in 0..MaxGen /\ view.rev \in 0..MaxGen
      /\ status.currentRev \in 0..MaxGen /\ status.stalled \in 0..MaxGen
  BY Numbers DEF RolloutInv, StatusTypeOK
<1>4. \/ CurrentRevision = status.currentRev
      \/ CurrentRevision = view.rev /\ (kind = "StatefulSet" => Existing = OfRevision(view.rev))
  BY DEF CurrentRevision, UpdatedEverywhere
<1>5. CurrentRevision \in 0..MaxGen
  BY <1>3, <1>4
<1>6. PICK v \in 0..MaxGen :
        /\ v = status.stalled \/ (~Paused /\ v = view.rev)
        /\ status' = [observedGeneration |-> view.gen,
                      updated |-> Cardinality(OfRevision(view.rev)),
                      ready |-> Cardinality(Ready),
                      available |-> Cardinality(Available),
                      unavailable |-> Cardinality(Existing \ Available),
                      updateRev |-> view.rev, currentRev |-> CurrentRevision,
                      current |-> Cardinality(OfRevision(CurrentRevision)),
                      stalled |-> v]
  <2>1. CASE status' = Reported
    BY <1>3, <2>1 DEF Reported
  <2>2. CASE ~Paused /\ status' = [Reported EXCEPT !.stalled = view.rev]
    BY <1>3, <2>2 DEF Reported
  <2> QED
    BY <2>1, <2>2 DEF StatusShape
<1>7. StatusTypeOK'
  BY <1>2, <1>3, <1>5, <1>6 DEF StatusTypeOK
<1> QED
  BY <1>4, <1>6, <1>7

\* Where no pod is unavailable and as many are available as are updated, all are.
LEMMA AllUpdated ==
  ASSUME Cardinality(Existing \ Available) = 0,
         Cardinality(OfRevision(view.rev)) = Cardinality(Available)
  PROVE  Existing = OfRevision(view.rev)
<1>1. /\ IsFiniteSet(Existing \ Available) /\ IsFiniteSet(Existing)
      /\ Available \subseteq Existing /\ OfRevision(view.rev) \subseteq Existing
  <2>1. Existing \ Available \in SUBSET Slots /\ Existing \in SUBSET Slots
    BY DEF Existing
  <2> QED
    BY <2>1, SlotsFinite DEF Existing, Available, OfRevision
<1>2. Existing = Available
  BY <1>1, FS_EmptySet
<1> QED
  BY <1>1, <1>2, FS_Subset

(***************************************************************************)
(* The cluster's steps preserve the invariant.                             *)
(***************************************************************************)
\* While spec and view only get younger and neither pods nor the current
\* revision go back behind r, there is none before r.
LEMMA NoneBeforeKept ==
  ASSUME RolloutInv, NEW r \in Nat, NoneBefore(r), UNCHANGED <<kind, strategy>>,
         view'.rev \in Nat, view'.rev >= view.rev,
         kind = "StatefulSet" => status'.currentRev >= r,
         \A i \in Existing' : pods'[i].rev >= r
  PROVE  NoneBefore(r)'
BY Numbers DEF RolloutInv, NoneBefore

\* The waiter's memory is about the restart or later as long as it is left alone
\* and nothing before the restart comes back.
LEMMA WaitKept ==
  ASSUME RolloutInv, UNCHANGED <<kind, strategy, codeVars>>,
         view'.rev \in Nat, view'.rev >= view.rev,
         ~Paused /\ NoneBefore(targetRev) => NoneBefore(targetRev)'
  PROVE  WaitInv'
<1>1. /\ WaitInv
      /\ view.rev \in Nat /\ targetRev \in Nat /\ Paused' = Paused
      /\ UNCHANGED <<wpc, targetRev, complete, seenRev, cachedRevision, selector, failedOn>>
  BY Numbers DEF RolloutInv, codeVars, Paused
<1> QED
  BY <1>1 DEF WaitInv, NoneBefore

\* What happens to pods: a new pod has the view's revision or the current one.
LEMMA PodsKeepInv ==
  ASSUME RolloutInv, PodsShape
  PROVE  RolloutInv'
<1>1. /\ UNCHANGED <<kind, strategy, spec, view, status, codeVars>>
      /\ UNCHANGED <<wpc, targetGeneration, complete, seenRev, cachedRevision, selector,
                     targetRev, failedOn>>
  BY DEF PodsShape, codeVars
<1>2. RolloutTypeOK' /\ StatusTypeOK'
  BY <1>1 DEF RolloutInv, RolloutTypeOK, StatusTypeOK, PodsShape
<1>3. \A i \in Existing' :
        /\ i \in Slots /\ pods'[i].rev \in Nat
        /\ \/ i \in Existing /\ pods'[i].rev = pods[i].rev
           \/ /\ pods'[i].rev \in 1..view.rev
              /\ kind = "StatefulSet" => pods'[i].rev >= status.currentRev
              /\ kind = "Deployment" /\ ~Paused => pods'[i].rev = view.rev
  <2> SUFFICES ASSUME NEW i \in Existing'
               PROVE  /\ i \in Slots /\ pods'[i].rev \in Nat
                      /\ \/ i \in Existing /\ pods'[i].rev = pods[i].rev
                         \/ /\ pods'[i].rev \in 1..view.rev
                            /\ kind = "StatefulSet" => pods'[i].rev >= status.currentRev
                            /\ kind = "Deployment" /\ ~Paused => pods'[i].rev = view.rev
    OBVIOUS
  <2>1. i \in Slots /\ pods'[i].rev \in Nat
    BY DEF PodsShape, Existing, Revisions, NoRev
  <2> QED
    BY <2>1, CreatedRevision DEF RolloutInv, PodsShape
<1>4. LagInv'
  <2>1. \A i \in Slots : pods'[i].rev <= view.rev
    <3>1. \A i \in Slots \ Existing' : pods'[i].rev = NoRev
      BY DEF PodsShape, Existing
    <3> QED
      BY <1>3, <3>1, Numbers DEF RolloutInv, LagInv, NoRev, Existing
  <2> QED
    BY <1>1, <2>1 DEF RolloutInv, LagInv
<1>5. TargetInv'
  BY <1>1 DEF RolloutInv, TargetInv
<1>6. StatusInv'
  <2>1. kind = "StatefulSet" => \A i \in Existing' : pods'[i].rev >= status.currentRev
    BY <1>3 DEF RolloutInv, StatusInv
  <2>2. kind = "Deployment" /\ ~Paused
          /\ status.unavailable = 0 /\ status.updated = status.available
        => \A i \in Existing' : pods'[i].rev >= status.updateRev
    BY <1>3, Numbers DEF RolloutInv, StatusInv, LagInv
  <2> QED
    BY <1>1, <2>1, <2>2 DEF RolloutInv, StatusInv, Paused
<1>7. WaitInv'
  <2>1. ASSUME ~Paused, NoneBefore(targetRev) PROVE NoneBefore(targetRev)'
    <3>1. \A i \in Existing' : pods'[i].rev >= targetRev
      BY <1>3, <2>1, Numbers, KindFacts DEF RolloutInv, NoneBefore
    <3> QED
      BY <1>1, <2>1, <3>1 DEF NoneBefore
  <2> QED
    BY <1>1, <2>1, WaitKept, Numbers DEF RolloutInv
<1> QED
  BY <1>2, <1>4, <1>5, <1>6, <1>7 DEF RolloutInv

\* What others do to the spec: everything but the spec is older than it.
LEMMA SpecKeepsInv ==
  ASSUME RolloutInv, SpecShape
  PROVE  RolloutInv'
<1>1. /\ UNCHANGED <<kind, strategy, view, pods, status, codeVars>>
      /\ UNCHANGED <<wpc, targetGeneration, complete, seenRev, cachedRevision, selector,
                     targetRev, failedOn>>
      /\ UNCHANGED <<Existing, Paused>>
  BY DEF SpecShape, codeVars, Existing, Paused
<1>2. /\ spec'.rev >= spec.rev /\ spec'.gen > spec.gen /\ spec'.rev <= spec'.gen
      /\ spec'.rev \in Nat /\ spec'.gen \in Nat
  BY Numbers DEF RolloutInv, SpecShape, LagInv
<1>3. RolloutTypeOK' /\ StatusTypeOK'
  <2>1. failedOn = NoRev
    BY DEF RolloutInv, RolloutTypeOK, SpecShape, Running
  <2> QED
    BY <1>1, <2>1 DEF RolloutInv, RolloutTypeOK, StatusTypeOK, SpecShape
<1>4. LagInv'
  BY <1>1, <1>2, Numbers DEF RolloutInv, LagInv
<1>5. TargetInv'
  BY <1>1, <1>2, Numbers DEF RolloutInv, TargetInv
<1>6. StatusInv'
  BY <1>1 DEF RolloutInv, StatusInv
<1>7. WaitInv'
  BY <1>1, WaitKept, Numbers DEF RolloutInv, NoneBefore
<1> QED
  BY <1>3, <1>4, <1>5, <1>6, <1>7 DEF RolloutInv

\* The controller takes up the spec: its view gets younger, and no verdict is left
\* about another revision.
LEMMA SeesKeepsInv ==
  ASSUME RolloutInv, ControllerSees
  PROVE  RolloutInv'
<1>1. /\ UNCHANGED <<kind, strategy, spec, pods, codeVars>> /\ view' = spec
      /\ UNCHANGED <<wpc, targetGeneration, complete, seenRev, cachedRevision, selector,
                     targetRev, failedOn>>
      /\ UNCHANGED <<Existing, Paused>>
  BY DEF ControllerSees, External, codeVars, Existing, Paused
<1>2. /\ \E v \in {status.stalled, NoRev} : status' = [status EXCEPT !.stalled = v]
      /\ ~Paused /\ status'.stalled # NoRev =>
           status'.stalled = status.stalled /\ view.rev = spec.rev
  BY DEF ControllerSees, Paused, RolloutInv, StatusTypeOK
<1>3. /\ StatusTypeOK'
      /\ status'.observedGeneration = status.observedGeneration
      /\ status'.updateRev = status.updateRev /\ status'.currentRev = status.currentRev
      /\ status'.updated = status.updated /\ status'.available = status.available
      /\ status'.unavailable = status.unavailable
      /\ status'.stalled \in {status.stalled, NoRev}
  BY <1>2 DEF RolloutInv, StatusTypeOK, NoRev
<1>4. RolloutTypeOK'
  BY <1>1 DEF RolloutInv, RolloutTypeOK
<1>5. LagInv'
  BY <1>1, <1>3, Numbers DEF RolloutInv, LagInv, NoRev
<1>6. TargetInv'
  BY <1>1, <1>3, Numbers DEF RolloutInv, TargetInv
<1>7. StatusInv'
  BY <1>1, <1>2, <1>3 DEF RolloutInv, StatusInv
<1>8. WaitInv'
  <2>1. view'.rev \in Nat /\ view'.rev >= view.rev
    BY <1>1, Numbers DEF RolloutInv, LagInv
  <2>2. NoneBefore(targetRev) => NoneBefore(targetRev)'
    BY <1>1, <1>3, <2>1, Numbers DEF RolloutInv, NoneBefore
  <2> QED
    BY <1>1, <2>1, <2>2, WaitKept
<1> QED
  BY <1>3, <1>4, <1>5, <1>6, <1>7, <1>8 DEF RolloutInv

\* The controller reports: what it says of the pods is true when it says so.
LEMMA StatusKeepsInv ==
  ASSUME RolloutInv, StatusShape
  PROVE  RolloutInv'
<1>1. /\ UNCHANGED <<kind, strategy, spec, view, pods, codeVars>>
      /\ UNCHANGED <<wpc, targetGeneration, complete, seenRev, cachedRevision, selector,
                     targetRev, failedOn>>
      /\ UNCHANGED <<Existing, Paused>>
  BY DEF StatusShape, codeVars, Existing, Paused
<1>2. RolloutTypeOK' /\ StatusTypeOK'
  BY <1>1, ReportFacts DEF RolloutInv, RolloutTypeOK
<1>3. status'.currentRev \in Nat /\ status'.currentRev >= status.currentRev
      /\ status'.currentRev \in 1..view.rev
  BY ReportFacts, Numbers DEF RolloutInv, LagInv
<1>4. LagInv'
  BY <1>1, <1>3, ReportFacts, Numbers DEF RolloutInv, LagInv
<1>5. TargetInv'
  BY <1>1, ReportFacts DEF RolloutInv, TargetInv
<1>6. StatusInv'
  <2>1. Existing = OfRevision(view.rev) => \A i \in Existing : pods[i].rev = view.rev
    BY DEF OfRevision
  <2>2. kind = "StatefulSet" => \A i \in Existing : pods[i].rev >= status'.currentRev
    BY <2>1, ReportFacts, Numbers DEF RolloutInv, StatusInv
  <2>3. status'.unavailable = 0 /\ status'.updated = status'.available
          => \A i \in Existing : pods[i].rev >= status'.updateRev
    BY <2>1, ReportFacts, AllUpdated, Numbers DEF RolloutInv
  <2>4. ~Paused /\ status'.stalled # NoRev => status'.stalled = view.rev
    BY ReportFacts DEF RolloutInv, StatusInv
  <2> QED
    BY <1>1, <2>2, <2>3, <2>4 DEF StatusInv
<1>7. WaitInv'
  <2>1. NoneBefore(targetRev) => NoneBefore(targetRev)'
    BY <1>1, <1>3, Numbers DEF RolloutInv, NoneBefore
  <2> QED
    BY <1>1, <2>1, WaitKept, Numbers DEF RolloutInv
<1> QED
  BY <1>2, <1>4, <1>5, <1>6, <1>7 DEF RolloutInv

(***************************************************************************)
(* The waiter's steps preserve the invariant.                              *)
(***************************************************************************)
\* They leave the workload alone, all but the restart.
LEMMA WaiterLooks ==
  ASSUME RolloutInv, UNCHANGED <<workloadVars, targetGeneration, targetRev>>,
         wpc' # "patch", RolloutTypeOK', WaitInv'
  PROVE  RolloutInv'
<1>1. UNCHANGED <<kind, strategy, spec, view, pods, status, targetGeneration, targetRev>>
  BY DEF workloadVars
<1>2. StatusTypeOK' /\ LagInv' /\ TargetInv'
  BY <1>1 DEF RolloutInv, StatusTypeOK, LagInv, TargetInv
<1>3. StatusInv'
  BY <1>1 DEF RolloutInv, StatusInv, Existing, Paused
<1> QED
  BY <1>2, <1>3 DEF RolloutInv

\* The restart is the youngest generation, so all the rest is older.
LEMMA RestartKeepsInv ==
  ASSUME RolloutInv, Restart
  PROVE  RolloutInv'
<1>1. /\ UNCHANGED <<kind, strategy, view, pods, status, complete, seenRev,
                     cachedRevision, selector, failedOn, Existing, Paused>>
      /\ wpc = "patch" /\ wpc' = "poll"
      /\ targetGeneration' = spec.gen + 1 /\ targetRev' = spec.gen + 1
  BY DEF Restart, Existing, Paused
<1>2. spec.replicas \in 0..MaxReplicas
  BY DEF RolloutInv, RolloutTypeOK
<1>3. /\ spec'.gen = spec.gen + 1 /\ spec'.rev = spec.gen + 1
      /\ spec' \in [gen : Revisions, rev : Revisions, replicas : 0..MaxReplicas]
      /\ spec.gen + 1 \in 0..MaxGen
  BY <1>2, SpecTyped DEF Restart, RolloutInv, Revisions
<1>4. /\ cachedRevision = NoRev /\ selector = NoRev /\ ~complete /\ failedOn = NoRev
  BY <1>1 DEF RolloutInv, WaitInv, RolloutTypeOK
<1>5. RolloutTypeOK' /\ StatusTypeOK'
  BY <1>1, <1>3, <1>4 DEF RolloutInv, RolloutTypeOK, StatusTypeOK, Running
<1>6. LagInv'
  BY <1>1, <1>3, Numbers DEF RolloutInv, LagInv
<1>7. TargetInv'
  BY <1>1, <1>3, Numbers DEF RolloutInv, TargetInv, LagInv
<1>8. StatusInv'
  BY <1>1 DEF RolloutInv, StatusInv
<1>9. WaitInv'
  BY <1>1, <1>4 DEF WaitInv, Broad, NoRev
<1> QED
  BY <1>5, <1>6, <1>7, <1>8, <1>9 DEF RolloutInv

\* A status the waiter accepts is about the restart's revision or a later one.
LEMMA ObservedFacts ==
  ASSUME RolloutInv, Observed
  PROVE  /\ status.updateRev >= targetRev /\ view.rev >= targetRev
         /\ ~Paused /\ status.stalled # NoRev => status.stalled >= targetRev
         /\ ~Paused /\ kind = "Deployment" => LatestRevision >= targetRev
<1>1. status.updateRev >= targetRev /\ view.rev >= targetRev
  BY Numbers DEF RolloutInv, Observed, TargetInv, LagInv
<1> QED
  BY <1>1, Numbers DEF RolloutInv, StatusInv

\* If it says that the rollout is complete, no pod from before is left, even if the
\* status is out of date by now.
LEMMA RolledFacts ==
  ASSUME RolloutInv, Observed, Rolled, ~Paused
  PROVE  NoneBefore(targetRev)
<1>1. CASE kind = "StatefulSet"
  <2>1. status.updateRev = status.currentRev
    BY <1>1 DEF Rolled
  <2>2. \A i \in Existing : pods[i].rev >= status.currentRev /\ i \in Slots
    BY <1>1 DEF RolloutInv, StatusInv, Existing
  <2> QED
    BY <2>1, <2>2, ObservedFacts, Numbers DEF NoneBefore, RolloutInv
<1>2. CASE kind = "Deployment"
  <2>1. status.unavailable = 0 /\ status.updated = status.available
    BY <1>2 DEF Rolled
  <2>2. \A i \in Existing : pods[i].rev >= status.updateRev /\ i \in Slots
    BY <1>2, <2>1 DEF RolloutInv, StatusInv, Existing
  <2> QED
    BY <1>2, <2>2, ObservedFacts, Numbers DEF NoneBefore, RolloutInv
<1> QED
  BY <1>1, <1>2, KindFacts DEF RolloutInv

\* What a Get has read.
LEMMA GetFacts ==
  ASSUME RolloutInv, Get
  PROVE  /\ wpc = "poll" /\ Observed
         /\ UNCHANGED <<kind, strategy, spec, view, pods, status, targetGeneration,
                        targetRev, Paused, Existing>>
         /\ complete' \in BOOLEAN
         /\ complete' /\ ~Paused => NoneBefore(targetRev)
         /\ seenRev' \in 0..MaxGen /\ cachedRevision \in 0..MaxGen
         /\ seenRev' # NoRev /\ (~Paused => seenRev' >= targetRev)
         /\ seenRev' = IF kind = "Deployment" THEN LatestRevision ELSE status.updateRev
<1>1. /\ wpc = "poll" /\ Observed /\ complete' = Rolled
      /\ UNCHANGED <<kind, strategy, spec, view, pods, status, targetGeneration,
                     targetRev, Paused, Existing>>
      /\ seenRev' = IF kind = "Deployment" THEN LatestRevision ELSE status.updateRev
  BY DEF Get, workloadVars, Paused, Existing
<1>2. Rolled \in BOOLEAN
  BY KindFacts DEF Rolled, RolloutInv
<1>3. seenRev' \in 0..MaxGen /\ cachedRevision \in 0..MaxGen /\ seenRev' # NoRev
  BY <1>1, Numbers DEF RolloutInv, StatusTypeOK, RolloutTypeOK, LagInv, NoRev
<1> QED
  BY <1>1, <1>2, <1>3, RolledFacts, ObservedFacts, KindFacts, Numbers DEF RolloutInv, NoRev

\* A Deployment is found stalled: the verdict is about the restart or later.
LEMMA GetStalledKeepsInv ==
  ASSUME RolloutInv, GetStalled
  PROVE  RolloutInv'
<1>1. /\ Get /\ status.stalled # NoRev /\ wpc' = "failed" /\ failedOn' = status.stalled
      /\ UNCHANGED <<cachedRevision, selector>>
  BY DEF GetStalled
<1>2. status.stalled \in 0..MaxGen /\ status.stalled <= spec.rev
  BY Numbers DEF RolloutInv, StatusTypeOK, LagInv
<1>3. RolloutTypeOK'
  BY <1>1, <1>2, GetFacts DEF RolloutInv, RolloutTypeOK
<1>4. NoneBefore(targetRev) => NoneBefore(targetRev)'
  BY <1>1, GetFacts DEF NoneBefore
<1>5. WaitInv'
  BY <1>1, <1>4, GetFacts, ObservedFacts DEF RolloutInv, WaitInv
<1> QED
  BY <1>1, <1>3, <1>5, WaiterLooks DEF Get

\* The revision that was read becomes the selector, or is about to be looked up.
LEMMA GetProgressKeepsInv ==
  ASSUME RolloutInv, GetProgress
  PROVE  RolloutInv'
<1>1. /\ Get /\ UNCHANGED failedOn
      /\ \/ /\ kind = "StatefulSet"
            /\ wpc' = "pods" /\ cachedRevision' = seenRev' /\ selector' = seenRev'
         \/ /\ kind = "Deployment" /\ UNCHANGED <<cachedRevision, selector>>
            /\ \/ wpc' = "pods" /\ seenRev' = cachedRevision
               \/ wpc' = "select"
  BY KindFacts DEF GetProgress, RolloutInv
<1>2. failedOn = NoRev
  BY <1>1 DEF Get, RolloutInv, RolloutTypeOK
<1>3. RolloutTypeOK'
  <2>1. selector' \in {cachedRevision', Broad}
    BY <1>1 DEF RolloutInv, RolloutTypeOK
  <2> QED
    BY <1>1, <1>2, <2>1, GetFacts DEF RolloutInv, RolloutTypeOK, Running
<1>4. NoneBefore(targetRev) => NoneBefore(targetRev)'
  BY <1>1, GetFacts DEF NoneBefore
<1>5. WaitInv'
  <2>1. selector' = Broad => selector = Broad
    BY <1>1, GetFacts DEF Broad
  <2>2. view.rev >= targetRev
    BY <1>1, GetFacts, ObservedFacts
  <2> QED
    BY <1>1, <1>2, <1>4, <2>1, <2>2, GetFacts DEF RolloutInv, WaitInv
<1> QED
  BY <1>1, <1>3, <1>5, WaiterLooks DEF Get

\* If the ReplicaSet is gone, so are the pods from before, and every pod will do.
LEMMA SelectPodsKeepsInv ==
  ASSUME RolloutInv, SelectPods
  PROVE  RolloutInv'
<1>1. /\ wpc = "select" /\ wpc' = "pods" /\ cachedRevision' = seenRev
      /\ selector' = seenRev \/ (ReplicaSetGone(seenRev) /\ selector' = Broad)
      /\ UNCHANGED <<workloadVars, targetGeneration, complete, seenRev, targetRev, failedOn>>
  BY DEF SelectPods
<1>2. UNCHANGED <<kind, strategy, spec, view, pods, status, Existing, Paused>>
  BY <1>1 DEF workloadVars, Existing, Paused
<1>3. RolloutTypeOK'
  BY <1>1, <1>2 DEF RolloutInv, RolloutTypeOK, Running
<1>4. NoneBefore(targetRev) => NoneBefore(targetRev)'
  BY <1>1, <1>2 DEF NoneBefore
<1>5. ~Paused /\ ReplicaSetGone(seenRev) => NoneBefore(targetRev)
  BY <1>1, KindFacts, Numbers
     DEF ReplicaSetGone, OfRevision, RolloutInv, WaitInv, NoneBefore
<1>6. WaitInv'
  <2>1. seenRev # Broad
    BY DEF Broad, RolloutInv, RolloutTypeOK
  <2> QED
    BY <1>1, <1>2, <1>4, <1>5, <2>1 DEF RolloutInv, WaitInv
<1> QED
  BY <1>1, <1>3, <1>6, WaiterLooks

\* A poll ends: its locals are forgotten, and a bad pod was a selected one.
LEMMA PollEnds ==
  ASSUME RolloutInv, NEW at \in {"poll", "done", "failed"}, EndPoll(at),
         wpc \in Running,
         wpc = "patch" => at = "failed",
         at = "done" => complete,
         \/ failedOn' = failedOn
         \/ /\ at = "failed" /\ failedOn' \in 1..MaxGen /\ failedOn' <= spec.rev
            /\ ~Paused => failedOn' >= targetRev
  PROVE  RolloutInv'
<1>1. /\ wpc' = at /\ complete' = FALSE /\ seenRev' = NoRev
      /\ UNCHANGED <<workloadVars, targetGeneration, cachedRevision, selector, targetRev>>
      /\ UNCHANGED <<kind, strategy, spec, view, pods, status, Existing, Paused>>
  BY DEF EndPoll, workloadVars, Existing, Paused
<1>2. failedOn = NoRev
  BY DEF RolloutInv, RolloutTypeOK, Running
<1>3. RolloutTypeOK'
  <2>1. /\ failedOn' \in 0..MaxGen
        /\ failedOn' # NoRev => wpc' = "failed" /\ failedOn' <= spec'.rev
    BY <1>1, <1>2 DEF NoRev
  <2>2. wpc' \in Running \cup {"done", "failed"} /\ seenRev' \in 0..MaxGen
    BY <1>1 DEF Running, NoRev
  <2> QED
    BY <1>1, <2>1, <2>2 DEF RolloutInv, RolloutTypeOK
<1>4. NoneBefore(targetRev) => NoneBefore(targetRev)'
  BY <1>1 DEF NoneBefore
<1>5. WaitInv'
  BY <1>1, <1>2, <1>4 DEF RolloutInv, WaitInv
<1> QED
  BY <1>1, <1>3, <1>5, WaiterLooks

\* A selected pod is not from before the restart.
LEMMA SelectedFacts ==
  ASSUME RolloutInv, wpc = "pods", NEW i \in Bad, Selected(i)
  PROVE  /\ pods[i].rev \in 1..MaxGen /\ pods[i].rev <= spec.rev
         /\ ~Paused => pods[i].rev >= targetRev
<1>1. i \in Existing /\ i \in Slots
  BY DEF Bad, Existing
<1>2. pods[i].rev \in 1..MaxGen /\ pods[i].rev <= spec.rev
  BY <1>1, Numbers DEF RolloutInv, LagInv
<1>3. ~Paused => pods[i].rev >= targetRev
  <2>1. ~Paused /\ selector = Broad => pods[i].rev >= targetRev
    BY <1>1 DEF RolloutInv, WaitInv, NoneBefore
  <2>2. ~Paused /\ pods[i].rev = selector => pods[i].rev >= targetRev
    BY <1>2, <2>1 DEF RolloutInv, WaitInv, RolloutTypeOK, NoRev
  <2> QED
    BY <2>1, <2>2 DEF Selected
<1> QED
  BY <1>2, <1>3

\* Every step of the specification preserves the inductive invariant.
LEMMA RolloutStepInv ==
  RolloutInv /\ [RolloutNext]_rolloutVars => RolloutInv'
<1> SUFFICES ASSUME RolloutInv, [RolloutNext]_rolloutVars
             PROVE  RolloutInv'
  OBVIOUS
<1>1. CASE \E i \in Slots : PodStep(i)
  BY <1>1, PodStepShape, PodsKeepInv
<1>2. CASE ControllerSees
  BY <1>2, SeesKeepsInv
<1>3. CASE SyncStatus \/ Stalls
  BY <1>3, ReportShape, StatusKeepsInv
<1>4. CASE OtherChangesTemplate \/ OtherScales
  BY <1>4, OthersShape, SpecKeepsInv DEF RolloutInv
<1>5. CASE Restart
  BY <1>5, RestartKeepsInv
<1>6. CASE GetStalled \/ GetProgress
  BY <1>6, GetStalledKeepsInv, GetProgressKeepsInv
<1>7. CASE SelectPods
  BY <1>7, SelectPodsKeepsInv
<1>8. CASE BadPodFound
  <2>1. PICK i \in Bad : Selected(i) /\ failedOn' = pods[i].rev
    BY <1>8 DEF BadPodFound
  <2>2. wpc = "pods" /\ EndPoll("failed")
    BY <1>8 DEF BadPodFound
  <2> QED
    BY <2>1, <2>2, SelectedFacts, PollEnds DEF Running
<1>9. CASE NoBadPod
  <2>1. wpc = "pods" /\ failedOn' = failedOn
        /\ \/ complete /\ EndPoll("done")
           \/ EndPoll("poll")
    BY <1>9 DEF NoBadPod
  <2> QED
    BY <2>1, PollEnds DEF Running
<1>10. CASE PollAgain
  BY <1>10, PollEnds DEF PollAgain, Running
<1>11. CASE WaitFails
  BY <1>11, PollEnds DEF WaitFails
<1>12. CASE UNCHANGED rolloutVars
  <2>1. /\ UNCHANGED <<workloadVars, targetGeneration, targetRev>>
        /\ UNCHANGED <<kind, strategy, spec, view, pods, status, wpc, targetGeneration,
                       complete, seenRev, cachedRevision, selector, targetRev, failedOn>>
    BY <1>12 DEF rolloutVars, workloadVars, codeVars
  <2> QED
    BY <2>1 DEF RolloutInv, RolloutTypeOK, StatusTypeOK, LagInv, TargetInv, StatusInv,
                WaitInv, NoneBefore, Existing, Paused
<1> QED
  BY <1>1, <1>2, <1>3, <1>4, <1>5, <1>6, <1>7, <1>8, <1>9, <1>10, <1>11, <1>12
     DEF RolloutNext, Controllers, Waiter, CheckPods, PodStep

\* The workload at rest satisfies the invariant.
LEMMA RolloutInitInv == RolloutInit => RolloutInv
<1> SUFFICES ASSUME RolloutInit PROVE RolloutInv
  OBVIOUS
<1>1. /\ kind \in Kinds /\ strategy \in StrategiesOf(kind)
      /\ spec.gen = 1 /\ spec.rev = 1 /\ view = spec
      /\ spec \in [gen : Revisions, rev : Revisions, replicas : 0..MaxReplicas]
  BY DEF RolloutInit, Revisions
<1>2. /\ pods \in [Slots -> [rev : Revisions, state : PodState \ {"absent"}]
                          \cup {[rev |-> NoRev, state |-> "absent"]}]
      /\ \A i \in Existing : pods[i].rev = 1
      /\ \A i \in Slots : pods[i].rev \in {0, 1}
  BY DEF RolloutInit, Revisions, PodState, NoRev, Existing
<1>3. /\ status \in [observedGeneration : {1}, updated : Nat, ready : Nat,
                      available : Nat, unavailable : Nat, updateRev : {1},
                      currentRev : {1}, current : Nat, stalled : {0, 1}]
  <2>1. PICK v \in {0, 1} :
          status = [observedGeneration |-> 1, updated |-> Cardinality(Existing),
                    ready |-> Cardinality(Ready), available |-> Cardinality(Available),
                    unavailable |-> Cardinality(Bad), updateRev |-> 1, currentRev |-> 1,
                    current |-> Cardinality(Existing), stalled |-> v]
    BY DEF RolloutInit, NoRev
  <2>2. /\ Cardinality(Existing) \in Nat /\ Cardinality(Ready) \in Nat
        /\ Cardinality(Available) \in Nat /\ Cardinality(Bad) \in Nat
    BY SlotsFinite DEF Existing, Ready, Available, Bad
  <2> QED
    BY <2>1, <2>2
<1>4. /\ wpc = "patch" /\ targetGeneration = 0 /\ complete = FALSE
      /\ seenRev = 0 /\ cachedRevision = 0 /\ selector = 0
      /\ targetRev = 0 /\ failedOn = 0
  BY DEF RolloutInit, NoRev
<1>5. RolloutTypeOK
  <2>1. /\ wpc \in Running \cup {"done", "failed"}
        /\ targetGeneration \in 0..MaxGen /\ targetRev \in 0..MaxGen
        /\ seenRev \in 0..MaxGen
        /\ cachedRevision \in 0..MaxGen /\ selector \in {cachedRevision, Broad}
        /\ failedOn \in 0..MaxGen /\ failedOn = NoRev
    BY <1>4 DEF Running, NoRev
  <2>2. complete \in BOOLEAN
    BY <1>4
  <2> QED
    BY <1>1, <1>2, <2>1, <2>2 DEF RolloutTypeOK
<1>6. StatusTypeOK
  BY <1>3 DEF StatusTypeOK
<1>7. LagInv /\ TargetInv /\ StatusInv
  BY <1>1, <1>2, <1>3, <1>4 DEF LagInv, TargetInv, StatusInv, NoRev
<1>8. WaitInv
  BY <1>4 DEF WaitInv, Broad, NoRev
<1> QED
  BY <1>5, <1>6, <1>7, <1>8 DEF RolloutInv

(***************************************************************************)
(* The theorems.                                                           *)
(***************************************************************************)
\* The inductive invariant holds in every reachable state.
THEOREM RolloutInvariant == RolloutSpec => []RolloutInv
<1> QED
  BY RolloutInitInv, RolloutStepInv, PTL DEF RolloutSpec

\* The state of the wait is well typed, and a verdict is about a revision that exists.
THEOREM RolloutTypeCorrect == RolloutSpec => []RolloutTypeOK
<1>1. RolloutInv => RolloutTypeOK
  BY DEF RolloutInv
<1> QED
  BY <1>1, RolloutInvariant, PTL

\* When the wait reports success no pod from before the restart is left, and none
\* comes back, for any number of replicas and of changes by others.
THEOREM RolloutSuccessMeansRolledOut == RolloutSpec => []SuccessMeansRolledOut
<1>1. RolloutInv => SuccessMeansRolledOut
  BY KindFacts DEF RolloutInv, WaitInv, NoneBefore, SuccessMeansRolledOut
<1> QED
  BY <1>1, RolloutInvariant, PTL

\* The wait never gives up because of a pod or a rollout from before the restart.
THEOREM RolloutFailFastOnlyForNewPods == RolloutSpec => []FailFastOnlyForNewPods
<1>1. RolloutInv => FailFastOnlyForNewPods
  BY KindFacts DEF RolloutInv, WaitInv, FailFastOnlyForNewPods
<1> QED
  BY <1>1, RolloutInvariant, PTL
(***************************************************************************)
(* Refinement: each step is a step of RolloutPromise, or it stutters.      *)
(***************************************************************************)
\* Before the patch nothing is outdated, and nothing is when the wait is over.
OutdatedInv ==
  /\ wpc \in Running \cup {"done", "failed"}
  /\ outdatedBar \in BOOLEAN
  /\ wpc \in {"patch", "done"} => outdatedBar = FALSE

\* It follows from the inductive invariant.
LEMMA OutdatedBar == RolloutInv => OutdatedInv
<1> SUFFICES ASSUME RolloutInv PROVE OutdatedInv
  OBVIOUS
<1>1. outdatedBar \in BOOLEAN
  BY DEF outdatedBar
<1>2. ASSUME wpc = "patch" PROVE outdatedBar = FALSE
  <2>1. targetRev = 0 /\ \A i \in Existing : pods[i].rev \in 1..MaxGen
    BY <1>2, Numbers DEF RolloutInv, TargetInv, NoRev
  <2>2. ~ \E i \in Existing : pods[i].rev < targetRev
    BY <2>1
  <2> QED
    BY <2>2 DEF outdatedBar
<1>3. ASSUME wpc = "done" PROVE outdatedBar = FALSE
  <2>1. Paused \/ \A i \in Existing : pods[i].rev >= targetRev
    BY <1>3 DEF RolloutInv, WaitInv, NoneBefore
  <2>2. targetRev \in Nat /\ \A i \in Existing : pods[i].rev \in Nat
    BY Numbers DEF RolloutInv, Existing
  <2>3. Announced("Paused") \/ ~ \E i \in Existing : pods[i].rev < targetRev
    BY <2>1, <2>2, KindFacts DEF RolloutInv
  <2> QED
    BY <2>3 DEF outdatedBar
<1> QED
  BY <1>1, <1>2, <1>3 DEF RolloutInv, RolloutTypeOK, OutdatedInv

\* How the wait moves: it ends by success only where it has looked at the pods, in a
\* step that changes none.
LEMMA WaitMoves ==
  ASSUME RolloutInv, RolloutNext
  PROVE  \/ wpc' = wpc
         \/ wpc = "patch" /\ wpc' \in {"poll", "failed"}
         \/ wpc \in {"poll", "select", "pods"}
              /\ wpc' \in {"poll", "select", "pods", "failed"}
         \/ wpc = "pods" /\ wpc' = "done" /\ outdatedBar' = outdatedBar
<1>1. Controllers \/ Stalls \/ OtherChangesTemplate \/ OtherScales
        \/ (\E i \in Slots : PodFails(i)) => wpc' = wpc
  BY DEF Controllers, ControllerSees, SyncStatus, Stalls, CreatePod, DeletePod, PodStarts,
         PodFails, SetPod, OtherChangesTemplate, OtherScales, External, codeVars
<1>2. Waiter /\ ~CheckPods =>
        \/ wpc = "patch" /\ wpc' = "poll"
        \/ wpc \in {"poll", "select"} /\ wpc' \in {"select", "pods", "failed"}
  BY DEF Waiter, Restart, GetStalled, GetProgress, Get, SelectPods
<1>3. CASE NoBadPod
  <2>1. wpc = "pods" /\ wpc' \in {"done", "poll"}
        /\ UNCHANGED <<kind, strategy, spec, pods, targetRev>>
    BY <1>3 DEF NoBadPod, EndPoll, workloadVars
  <2>2. outdatedBar' = outdatedBar
    BY <2>1 DEF outdatedBar, Existing, Announced
  <2> QED
    BY <2>1, <2>2
<1>4. BadPodFound \/ PollAgain \/ WaitFails =>
        \/ wpc = "patch" /\ wpc' = "failed"
        \/ wpc \in {"poll", "select", "pods"} /\ wpc' \in {"poll", "failed"}
  BY DEF BadPodFound, PollAgain, WaitFails, EndPoll, Running
<1> QED
  BY <1>1, <1>2, <1>3, <1>4 DEF RolloutNext, CheckPods

\* A step under the mapping.
LEMMA PromiseStep ==
  RolloutInv /\ OutdatedInv /\ OutdatedInv' /\ [RolloutNext]_rolloutVars
    => [Promise!Next]_(Promise!vars)
<1> SUFFICES ASSUME RolloutInv, OutdatedInv, OutdatedInv', [RolloutNext]_rolloutVars
             PROVE  [Promise!Next]_(Promise!vars)
  OBVIOUS
<1>1. /\ outdatedBar \in BOOLEAN /\ outdatedBar' \in BOOLEAN
      /\ wpc \in {"patch", "done"} => outdatedBar = FALSE
      /\ wpc' \in {"patch", "done"} => outdatedBar' = FALSE
      /\ wpc \in {"patch", "poll", "select", "pods", "done", "failed"}
  BY DEF OutdatedInv, Running
<1> USE DEF restartBar, Promise!Next, Promise!vars, Promise!Begin, Promise!PodsChange,
            Promise!Succeed, Promise!Fail
<1>3. CASE wpc' = wpc
  BY <1>1, <1>3
<1>4. CASE wpc = "patch" /\ wpc' \in {"poll", "failed"}
  BY <1>1, <1>4
<1>5. CASE /\ wpc \in {"poll", "select", "pods"}
           /\ wpc' \in {"poll", "select", "pods", "failed"}
  BY <1>1, <1>5
<1>6. CASE wpc = "pods" /\ wpc' = "done" /\ outdatedBar' = outdatedBar
  BY <1>1, <1>6
<1> QED
  BY <1>3, <1>4, <1>5, <1>6, WaitMoves DEF rolloutVars, codeVars

\* The polls of a lagging status keep the promise of one restart that is over only
\* when no pod from before it is left.
THEOREM RolloutKeepsPromise == RolloutSpec => KeepsPromise
<1>1. RolloutInit => Promise!Init
  BY RolloutInitInv, OutdatedBar DEF RolloutInit, OutdatedInv, Promise!Init, restartBar
<1>2. RolloutSpec => []OutdatedInv
  BY OutdatedBar, RolloutInvariant, PTL
<1> QED
  BY <1>1, <1>2, PromiseStep, RolloutInvariant, PTL DEF RolloutSpec, KeepsPromise, Promise!Spec
================================================================================
