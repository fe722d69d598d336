-------------------------------- MODULE Rollout --------------------------------
(***************************************************************************)
(* How rollingRestart (pkg/drain/rollout.go) finds out that the restart it *)
(* asked for is over: restartDeployment and restartStatefulSet patch the   *)
(* pod template, then waitForDeploymentRollout or waitForStatefulSetRollout*)
(* polls the status that the workload's controller writes.                 *)
(*                                                                         *)
(* There is one workload.  Its spec, the revision its controller works on, *)
(* its pods and its status are four things that lag behind one another,    *)
(* and others may change the spec at any time.  The controller is external *)
(* and modelled from the status fields the code reads.                     *)
(***************************************************************************)
EXTENDS Naturals, FiniteSets, Preflight

CONSTANTS
  Kinds,            \* the kinds of workload to consider
  MaxReplicas,      \* bound: replicas a workload may ask for
  MaxGen,           \* bound: generations of the workload
  OthersUpTo        \* bound: others change a workload of a kind up to this many replicas

ASSUME RolloutAssumption ==
  /\ Kinds \subseteq {"Deployment", "StatefulSet"}
  /\ MaxReplicas \in Nat
  /\ MaxGen \in Nat \ {0}
  /\ OthersUpTo \in [Kinds -> Nat]

Slots == 1..(MaxReplicas + 1)       \* a Deployment may run one pod too many
NoRev == 0                          \* no revision: an unset string, an absent pod
Broad == MaxGen + 1                 \* as a selector: every pod of the workload
Revisions == 1..MaxGen

VARIABLES
  kind,
  strategy,         \* how its controller replaces pods; nobody changes it
  spec,             \* [gen, rev, replicas]: rev is the gen that last changed the template
  view,             \* the spec its controller works on; also the revision annotation
  pods,             \* [Slots -> [rev, state]]; a StatefulSet's ordinals are the slots
  status,           \* what the controller last reported
  wpc,              \* where rollingRestart is
  targetGeneration, \* from the patch response
  complete,         \* what the poll in progress will answer unless a pod is bad
  seenRev,          \* the revision the poll in progress has read
  cachedRevision, selector,         \* kept between polls
  targetRev,        \* history: the revision of the restart
  failedOn          \* history: the revision a fail-fast verdict was about

codeVars == <<wpc, targetGeneration, complete, seenRev, cachedRevision, selector,
              targetRev, failedOn>>
workloadVars == <<kind, strategy, spec, view, pods, status>>
rolloutVars == <<workloadVars, codeVars>>

PodState == {"absent", "starting", "ready", "available", "bad"}
Running == {"patch", "poll", "select", "pods"}

Existing == {i \in Slots : pods[i].state # "absent"}
OfRevision(r) == {i \in Existing : pods[i].rev = r}
Ready == {i \in Slots : pods[i].state \in {"ready", "available"}}
Available == {i \in Slots : pods[i].state = "available"}
Bad == {i \in Slots : pods[i].state = "bad"}

\* The revision the controller works towards.  For a paused Deployment it makes no
\* new one: its ReplicaSet and its revision annotation stay the first.
LatestRevision == IF strategy = "Paused" THEN 1 ELSE view.rev
Partition == IF strategy = "Partitioned" THEN 1 ELSE 0

(***************************************************************************)
(* The controller and the kubelet.                                         *)
(***************************************************************************)
\* They are not followed once the wait has failed.
External == wpc # "failed" /\ UNCHANGED codeVars

SetPod(i, r, s) ==
  /\ pods' = [pods EXCEPT ![i] = [rev |-> r, state |-> s]]
  /\ External /\ UNCHANGED <<kind, strategy, spec, view, status>>

\* The controller takes up the spec.  For a new revision it creates the
\* ReplicaSet and drops the verdict that the old one has stalled.
ControllerSees ==
  /\ view # spec
  /\ view' = spec
  /\ status' = [status EXCEPT !.stalled = IF strategy = "Paused" \/ view.rev = spec.rev
                                             THEN @ ELSE NoRev]
  /\ External /\ UNCHANGED <<kind, strategy, spec, pods>>

\* A StatefulSet's ordinals below the partition keep the current revision.
RevisionToCreate(i) ==
  IF i <= Partition THEN status.currentRev ELSE LatestRevision

\* A Deployment surges by one pod; with Recreate the old pods go first.
CreatePod(i) ==
  /\ i \notin Existing /\ \A j \in 1..(i - 1) : j \in Existing
  /\ \/ /\ kind = "Deployment"
        /\ Cardinality(OfRevision(LatestRevision)) < view.replicas
        /\ IF strategy = "Recreate" THEN Existing = OfRevision(LatestRevision)
           ELSE Cardinality(Existing) <= view.replicas
     \/ kind = "StatefulSet" /\ i <= view.replicas
  /\ SetPod(i, RevisionToCreate(i), "starting")

\* A Deployment gives up an old pod that is unavailable or no longer needed; a
\* StatefulSet, while all of its pods are ready, the highest old ordinal down to
\* the partition.
DeletePod(i) ==
  /\ i \in Existing
  /\ \/ /\ kind = "Deployment" /\ pods[i].rev # LatestRevision
        /\ \/ i \notin Available \/ Cardinality(Available) > view.replicas
           \/ strategy = "Recreate"
     \/ kind = "Deployment" /\ Cardinality(OfRevision(LatestRevision)) > view.replicas
     \/ kind = "StatefulSet" /\ i > view.replicas
     \/ /\ kind = "StatefulSet" /\ strategy # "OnDelete" /\ i > Partition
        /\ 1..view.replicas \subseteq Ready /\ pods[i].rev # view.rev
        /\ \A j \in Existing : j > i => pods[j].rev = view.rev
  /\ SetPod(i, NoRev, "absent")

PodStarts(i) ==
  \/ pods[i].state = "starting" /\ SetPod(i, pods[i].rev, "ready")
  \/ /\ pods[i].state = "ready" /\ kind = "Deployment"    \* minReadySeconds later
     /\ SetPod(i, pods[i].rev, "available")

\* CrashLoopBackOff after a first exit, ImagePullBackOff or ErrImagePull.
PodFails(i) == pods[i].state = "starting" /\ SetPod(i, pods[i].rev, "bad")

\* The status that view and pods give.  A StatefulSet's current revision becomes
\* the update revision once every pod there is has it and is ready.
UpdatedEverywhere == Existing = OfRevision(view.rev) /\ Existing \subseteq Ready
CurrentRevision ==
  IF kind = "StatefulSet" /\ (~UpdatedEverywhere \/ strategy = "OnDelete")
  THEN status.currentRev ELSE view.rev
Reported ==
  [observedGeneration |-> view.gen,
   updated |-> Cardinality(OfRevision(view.rev)), ready |-> Cardinality(Ready),
   available |-> Cardinality(Available),
   unavailable |-> Cardinality(Existing \ Available),
   updateRev |-> view.rev, currentRev |-> CurrentRevision,
   current |-> Cardinality(OfRevision(CurrentRevision)), stalled |-> status.stalled]

SyncStatus ==
  /\ status' = Reported
  /\ status' # status
  /\ External /\ UNCHANGED <<kind, strategy, spec, view, pods>>

\* ProgressDeadlineExceeded: a Deployment with a pod that does not become available.
Stalls ==
  /\ kind = "Deployment" /\ strategy # "Paused"
  /\ status.stalled = NoRev /\ Existing # Available
  /\ status' = [Reported EXCEPT !.stalled = view.rev]
  /\ External /\ UNCHANGED <<kind, strategy, spec, view, pods>>

(***************************************************************************)
(* Others change the workload.                                             *)
(***************************************************************************)
\* A bumped generation.
NextSpec(rev, replicas) ==
  /\ spec.gen < MaxGen
  /\ spec' = [gen |-> spec.gen + 1, rev |-> rev, replicas |-> replicas]

\* The bound leaves a generation for the restart.
RoomForOthers ==
  /\ wpc \in Running /\ (wpc = "patch" => spec.gen + 1 < MaxGen)
  /\ spec.replicas <= OthersUpTo[kind]

OtherChangesTemplate ==
  /\ RoomForOthers /\ NextSpec(spec.gen + 1, spec.replicas)
  /\ External /\ UNCHANGED <<kind, strategy, view, pods, status>>

OtherScales ==
  /\ RoomForOthers
  /\ \E n \in 0..MaxReplicas : n # spec.replicas /\ NextSpec(spec.rev, n)
  /\ External /\ UNCHANGED <<kind, strategy, view, pods, status>>

(***************************************************************************)
(* rollingRestart.                                                         *)
(***************************************************************************)
\* The patch sets restartedAt in the pod template; its response carries the
\* generation.
Restart ==
  /\ wpc = "patch" /\ NextSpec(spec.gen + 1, spec.replicas)
  /\ targetGeneration' = spec.gen + 1 /\ targetRev' = spec.gen + 1
  /\ wpc' = "poll"
  /\ UNCHANGED <<kind, strategy, view, pods, status, complete, seenRev, cachedRevision,
                 selector, failedOn>>

\* Mutant of Observed: a gate that waits for one generation more.
ObservedLater == status.observedGeneration > targetGeneration

\* Mutant of Observed: the status of the generation before will do.
ObservedEarlier == status.observedGeneration + 1 >= targetGeneration

Observed == status.observedGeneration >= targetGeneration

\* Mutant of Rolled: a surplus pod is not noticed.
RolledDespiteSurge ==
  /\ status.updated = spec.replicas /\ status.ready = spec.replicas
  /\ status.observedGeneration >= spec.gen

Rolled ==
  CASE kind = "Deployment" ->
         /\ status.updated = spec.replicas /\ status.ready = spec.replicas
         /\ status.available = spec.replicas /\ status.unavailable = 0
         /\ status.observedGeneration >= spec.gen
    [] kind = "StatefulSet" ->
         /\ status.updateRev # NoRev /\ status.updateRev = status.currentRev
         /\ status.updated = spec.replicas /\ status.current = spec.replicas
         /\ status.ready = spec.replicas

\* One Get: spec, status and, for a Deployment, the revision annotation.
Get ==
  /\ wpc = "poll" /\ Observed
  /\ complete' = Rolled
  /\ seenRev' = IF kind = "Deployment" THEN LatestRevision ELSE status.updateRev
  /\ UNCHANGED <<workloadVars, targetGeneration, targetRev>>

\* A Deployment past its progress deadline fails the wait at once.
GetStalled ==
  /\ kind = "Deployment" /\ status.stalled # NoRev
  /\ Get
  /\ wpc' = "failed" /\ failedOn' = status.stalled
  /\ UNCHANGED <<cachedRevision, selector>>

\* A StatefulSet's selector follows from its update revision; a Deployment's is
\* looked up when the revision is not the cached one.
GetProgress ==
  /\ kind = "StatefulSet" \/ status.stalled = NoRev
  /\ Get
  /\ IF kind = "StatefulSet"
     THEN /\ wpc' = "pods" /\ cachedRevision' = seenRev' /\ selector' = seenRev'
     ELSE /\ wpc' = IF seenRev' = cachedRevision THEN "pods" ELSE "select"
          /\ UNCHANGED <<cachedRevision, selector>>
  /\ UNCHANGED failedOn

\* The ReplicaSet of a revision may be gone once a later one has replaced it.
ReplicaSetGone(r) ==
  r # LatestRevision /\ OfRevision(r) = {} /\ Existing = OfRevision(LatestRevision)

\* newReplicaSetSelector: the ReplicaSet of the revision, else every pod.
SelectPods ==
  /\ wpc = "select"
  /\ \/ selector' = seenRev
     \/ ReplicaSetGone(seenRev) /\ selector' = Broad
  /\ cachedRevision' = seenRev
  /\ wpc' = "pods"
  /\ UNCHANGED <<workloadVars, targetGeneration, complete, seenRev, targetRev, failedOn>>

Selected(i) == selector = Broad \/ pods[i].rev = selector

\* A poll ends, and its locals with it.
EndPoll(at) ==
  /\ wpc' = at
  /\ complete' = FALSE /\ seenRev' = NoRev
  /\ UNCHANGED <<workloadVars, targetGeneration, cachedRevision, selector, targetRev>>

\* findBadPodState lists the selected pods; only if none is bad does the verdict
\* on the status read before count.
BadPodFound ==
  /\ wpc = "pods"
  /\ \E i \in Bad : Selected(i) /\ failedOn' = pods[i].rev
  /\ EndPoll("failed")

NoBadPod ==
  /\ wpc = "pods"
  /\ \A i \in Bad : ~Selected(i)
  /\ EndPoll(IF complete THEN "done" ELSE "poll")
  /\ UNCHANGED failedOn

CheckPods == BadPodFound \/ NoBadPod

\* A transient API error: the next tick begins again.
PollAgain ==
  /\ wpc \in {"select", "pods"}
  /\ EndPoll("poll")
  /\ UNCHANGED failedOn

\* Any other API error, --rollout-timeout, or the end of the drain.
WaitFails ==
  /\ wpc \in Running
  /\ EndPoll("failed")
  /\ UNCHANGED failedOn

(***************************************************************************)
(* The specification.                                                      *)
(***************************************************************************)
\* Before the restart the workload is at rest: its status is that of its first
\* revision, whose pods may be missing or bad.
RolloutInit ==
  /\ kind \in Kinds /\ strategy \in StrategiesOf(kind)
  /\ \E n \in 0..MaxReplicas : spec = [gen |-> 1, rev |-> 1, replicas |-> n]
  /\ view = spec
  /\ pods \in [Slots -> [rev : {1}, state : {"available", "bad"}]
                          \cup {[rev |-> NoRev, state |-> "absent"]}]
  /\ \A i \in Slots : i \in Existing => i <= spec.replicas
  /\ \E s \in {NoRev} \cup {1 : i \in IF kind = "Deployment" THEN Bad ELSE {}} :
       status = [observedGeneration |-> 1, updated |-> Cardinality(Existing),
                 ready |-> Cardinality(Ready), available |-> Cardinality(Available),
                 unavailable |-> Cardinality(Bad), updateRev |-> 1, currentRev |-> 1,
                 current |-> Cardinality(Existing), stalled |-> s]
  /\ wpc = "patch" /\ targetGeneration = 0 /\ complete = FALSE
  /\ seenRev = NoRev /\ cachedRevision = NoRev /\ selector = NoRev
  /\ targetRev = NoRev /\ failedOn = NoRev

Controllers ==
  \/ ControllerSees \/ SyncStatus
  \/ \E i \in Slots : CreatePod(i) \/ DeletePod(i) \/ PodStarts(i)

Waiter == Restart \/ GetStalled \/ GetProgress \/ SelectPods \/ CheckPods

RolloutNext ==
  \/ Controllers \/ Waiter \/ PollAgain \/ WaitFails \/ Stalls
  \/ OtherChangesTemplate \/ OtherScales
  \/ \E i \in Slots : PodFails(i)

RolloutSpec == RolloutInit /\ [][RolloutNext]_rolloutVars

\* The controllers work, the waiter polls, and its calls do not fail for ever.
RolloutFairSpec ==
  /\ RolloutSpec
  /\ WF_rolloutVars(ControllerSees) /\ WF_rolloutVars(SyncStatus)
  /\ \A i \in Slots :
       /\ WF_rolloutVars(CreatePod(i)) /\ WF_rolloutVars(DeletePod(i))
       /\ WF_rolloutVars(PodStarts(i))
  /\ WF_rolloutVars(Restart) /\ WF_rolloutVars(GetStalled \/ GetProgress)
  /\ SF_rolloutVars(SelectPods) /\ SF_rolloutVars(CheckPods)

(***************************************************************************)
(* Properties.                                                             *)
(***************************************************************************)
\* Type invariant; the selector is Broad or that of the cached revision, and a
\* verdict is about a revision that exists.
RolloutTypeOK ==
  /\ kind \in Kinds /\ strategy \in StrategiesOf(kind)
  /\ spec \in [gen : Revisions, rev : Revisions, replicas : 0..MaxReplicas]
  /\ view \in [gen : Revisions, rev : Revisions, replicas : 0..MaxReplicas]
  /\ pods \in [Slots -> [rev : Revisions, state : PodState \ {"absent"}]
                          \cup {[rev |-> NoRev, state |-> "absent"]}]
  /\ wpc \in Running \cup {"done", "failed"}
  /\ targetGeneration \in 0..MaxGen /\ targetRev \in 0..MaxGen
  /\ complete \in BOOLEAN
  /\ seenRev \in 0..MaxGen /\ cachedRevision \in 0..MaxGen
  /\ selector \in {cachedRevision, Broad}
  /\ failedOn \in 0..MaxGen
  /\ failedOn # NoRev => wpc = "failed" /\ failedOn <= spec.rev

\* Pre-flight, which reads the same spec, has reported a risk of the workload.
Announced(risk) == risk \in risks(inspected(kind, spec.replicas, strategy))

\* When the wait reports success, every pod of the workload was created by the
\* restart or by a later change of the template, although the status it looked at
\* may lag behind the pods and others change the workload (rollout.go:132-143); a
\* paused Deployment, which pre-flight reports, may have been scaled to nothing.
SuccessMeansRolledOut ==
  wpc = "done" => (\A i \in Existing : pods[i].rev >= targetRev) \/ Announced("Paused")

\* The wait fails fast only because of the rollout it waits for, or a later one:
\* never because of a pod or a stalled rollout of the revision the restart
\* replaces (rollout.go:188 "so we only check new-revision pods and avoid
\* false-positives on old pods being replaced", 438; the doc comment at
\* rollout.go:140 says otherwise, see AnyBadPodFailsFast).
\* For a paused Deployment, which pre-flight reports, that is the only revision.
FailFastOnlyForNewPods ==
  failedOn # NoRev => failedOn >= targetRev \/ Announced("Paused")

\* What the doc comment of waitForDeploymentRollout says (rollout.go:140-143): it
\* fails fast on "Any pod matching the workload selector stuck in CrashLoopBackOff,
\* ImagePullBackOff, or ErrImagePull".  The code asks only the new revision's pods.
AnyBadPodFailsFast == [][kind = "Deployment" /\ NoBadPod => Bad = {}]_rolloutVars

\* Without any timeout the wait ends, with success or a bad pod, unless pre-flight
\* has reported that the restart will not get to every pod (preflight.go:190, 234,
\* 241) or a StatefulSet is blocked: its controller replaces no pod while one of
\* them, of an earlier revision, is bad (rollout.go:200, 300).
WaitEnds ==
  \/ <>(wpc \notin Running)
  \/ \E risk \in NotRolledOut : Announced(risk)
  \/ <>[](kind = "StatefulSet" /\ \E i \in Bad : pods[i].rev # view.rev)

(***************************************************************************)
(* The wait implements RolloutPromise.  A paused Deployment, which         *)
(* pre-flight reports, is outside it: its template changes, its pods never *)
(* do.                                                                     *)
(***************************************************************************)
restartBar ==
  IF wpc = "patch" THEN "none"
  ELSE IF wpc \in {"done", "failed"} THEN wpc ELSE "waiting"

outdatedBar == ~Announced("Paused") /\ \E i \in Existing : pods[i].rev < targetRev

Promise == INSTANCE RolloutPromise WITH restart <- restartBar, outdated <- outdatedBar

\* However status, view and pods lag behind the spec, a caller sees a restart that
\* is over only when no pod from before it is left, and it stays over
\* (rollout.go:132-143, 187-202).
KeepsPromise == Promise!Spec
================================================================================
