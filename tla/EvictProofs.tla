------------------------------ MODULE EvictProofs ------------------------------
(***************************************************************************)
(* Proofs about EvictRemaining for any set of pods, owners and flags: the  *)
(* eviction phase evicts only what the flags allow, and when it succeeds   *)
(* the node is empty, whatever others do to its pods meanwhile.            *)
(***************************************************************************)
EXTENDS EvictRemaining, TLAPS

USE EvictAssumption

(***************************************************************************)
(* The three selections.                                                   *)
(***************************************************************************)
\* A pod that may be evicted under the flags in force.
Allowed(p) ==
  /\ p \notin protected \cup MirrorPods
  /\ opts.force \/ (Owners[p] # {} /\ "Job" \notin Owners[p])
  /\ opts.force \/ opts.emptyDir \/ p \notin HasEmptyDir
  /\ ~opts.skipDS \/ "DaemonSet" \notin Owners[p]

\* Whatever the selection takes, the flags allow.
LEMMA EvictableIsAllowed == \A p \in evictable : p \in PodNames /\ Allowed(p)
BY DEF evictable, candidates, evictionView, Allowed, Policy!isEvictable,
       Policy!skippedDaemonSet, Policy!isDaemonSetPod, Policy!isStandalone, Policy!isJobPod

\* No pod falls between the selections: one that does not block the drain is to be
\* evicted, is on its way out, or may stay.
LEMMA NonePassedOver ==
  ASSUME blocked = {}
  PROVE  \A p \in PodNames : p \in evictable \cup pending \/ MayRemain(p)
<1> SUFFICES ASSUME NEW p \in PodNames, p \notin evictable, p \notin pending
             PROVE  MayRemain(p)
  OBVIOUS
<1>1. CASE p \notin candidates
  BY <1>1 DEF candidates, MayRemain
<1>2. CASE p \in candidates
  <2>1. ~Policy!isBlocked(evictionView(p), opts)
    BY <1>2 DEF blocked
  <2>2. ~Policy!isEvictable(evictionView(p), opts)
    BY <1>2 DEF evictable
  <2>3. ~Policy!isPending(evictionView(p), opts)
    BY <1>2 DEF pending
  <2> QED
    BY <2>1, <2>2, <2>3
    DEF evictionView, MayRemain, Policy!isBlocked, Policy!isEvictable, Policy!isPending,
        Policy!skippedDaemonSet, Policy!isDaemonSetPod, Policy!isStandalone, Policy!isJobPod
<1> QED
  BY <1>1, <1>2

\* What is only waited for is being deleted already.
LEMMA PendingIsTerminating == \A p \in pending : p \in PodNames /\ pods[p] = "terminating"
BY DEF pending, candidates, evictionView, Policy!isPending

(***************************************************************************)
(* The inductive invariant.                                                *)
(***************************************************************************)
AllowedInv ==
  /\ \A p \in todo : Allowed(p)
  /\ OnlyAllowedEvicted

\* The node stays cordoned; a pod that is handled does not run any more, unless a
\* DaemonSet has replaced it, and one that is not waited for may stay.
EmptiedInv ==
  /\ unsched = TRUE
  /\ epc \in {"evict", "wait"} =>
       \A p \in PodNames :
         \/ p \in todo /\ p \in seen
         \/ p \in seen /\ (pods[p] \notin {"new", "old"} \/ "DaemonSet" \in Owners[p])
         \/ MayRemain(p)
  /\ epc = "wait" => todo = {}
  /\ SuccessMeansEmptied

\* All that is known of the variables one by one.
TypesInv ==
  /\ ClusterTypeOK /\ RunTypeOK /\ EvictTypeOK
  /\ epc = "list" => current = NoPod

EvictInv == TypesInv /\ AllowedInv /\ EmptiedInv

\* The invariant holds when the phase begins.
LEMMA EvictInitInv == EvictInit => EvictInv
<1> SUFFICES ASSUME EvictInit PROVE EvictInv
  OBVIOUS
<1> USE DEF EvictInit
<1>1. ClusterTypeOK
  BY DEF ClusterTypeOK, Identity
<1>2. RunTypeOK
  BY DEF RunTypeOK
<1>3. EvictTypeOK
  <2>1. evicted \in SUBSET (PodNames \X BOOLEAN)
    OBVIOUS
  <2>2. elsewhere \in SUBSET PodNames /\ todo \in SUBSET PodNames /\ seen \in SUBSET PodNames
    OBVIOUS
  <2>3. current \in todo \cup {NoPod} /\ interval \in 0..MaxInterval
    OBVIOUS
  <2>4. epc \in {"idle", "list", "evict", "wait", "returned"} /\ evictErr \in BOOLEAN
    OBVIOUS
  <2> HIDE DEF EvictInit
  <2> QED
    BY <2>1, <2>2, <2>3, <2>4 DEF EvictTypeOK
<1>4. AllowedInv /\ EmptiedInv
  BY DEF AllowedInv, EmptiedInv, OnlyAllowedEvicted, SuccessMeansEmptied
<1> QED
  BY <1>1, <1>2, <1>3, <1>4 DEF EvictInv, TypesInv

(***************************************************************************)
(* What others do.                                                         *)
(***************************************************************************)
\* On a cordoned node a pod that does not run stays so, unless a DaemonSet brings
\* it back.
Calmed(p) ==
  \/ "DaemonSet" \in Owners[p]
  \/ /\ pods[p] \in {"none", "terminal"} => pods'[p] \in {"none", "terminal"}
     /\ pods[p] \notin {"new", "old"} => pods'[p] \notin {"new", "old"}

\* So it is with every step of others.
LEMMA ClusterStepCalms ==
  ASSUME ClusterTypeOK, unsched = TRUE,
         ClusterStep \/ \E p \in PodNames : DeletedByOthers(p)
  PROVE  ClusterTypeOK' /\ unsched' = TRUE /\ \A p \in PodNames : Calmed(p)
<1> USE DEF ClusterTypeOK, PodCondition, Calmed
<1>1. ASSUME NEW q \in PodNames, PodScheduled(q)
      PROVE  ClusterTypeOK' /\ unsched' = TRUE /\ \A p \in PodNames : Calmed(p)
  BY <1>1 DEF PodScheduled
<1>2. ASSUME NEW q \in PodNames, PodReplaced(q)
      PROVE  ClusterTypeOK' /\ unsched' = TRUE /\ \A p \in PodNames : Calmed(p)
  BY <1>2 DEF PodReplaced
<1>3. ASSUME NEW q \in PodNames, PodCompletes(q)
      PROVE  ClusterTypeOK' /\ unsched' = TRUE /\ \A p \in PodNames : Calmed(p)
  BY <1>3 DEF PodCompletes
<1>4. ASSUME NEW q \in PodNames, PodRemoved(q)
      PROVE  ClusterTypeOK' /\ unsched' = TRUE /\ \A p \in PodNames : Calmed(p)
  BY <1>4 DEF PodRemoved
<1>5. ASSUME NEW w \in Workloads, WorkloadRecreated(w)
      PROVE  ClusterTypeOK' /\ unsched' = TRUE /\ \A p \in PodNames : Calmed(p)
  BY <1>5 DEF WorkloadRecreated, HasPods, PodNames, Identity
<1>6. ASSUME NEW q \in PodNames, DeletedByOthers(q)
      PROVE  ClusterTypeOK' /\ unsched' = TRUE /\ \A p \in PodNames : Calmed(p)
  BY <1>6 DEF DeletedByOthers, DeletionStarted
<1> QED
  BY <1>1, <1>2, <1>3, <1>4, <1>5, <1>6 DEF ClusterStep

\* What others do preserves the invariant.
LEMMA EnvironmentKeepsInv ==
  ASSUME EvictInv, EvictEnvironment
  PROVE  EvictInv'
<1> USE DEF EvictInv, TypesInv, EvictTypeOK, RunTypeOK
<1>1. CASE /\ ClusterStep \/ \E p \in PodNames : DeletedByOthers(p)
           /\ UNCHANGED <<runVars, elsewhere, evictVars>>
  <2>1. ClusterTypeOK' /\ unsched' = TRUE /\ \A p \in PodNames : Calmed(p)
    BY <1>1, ClusterStepCalms DEF EmptiedInv
  <2>2. UNCHANGED <<opts, ctxErr, protected, elsewhere, epc, evictErr, todo, current,
                    interval, seen, evicted>>
    BY <1>1 DEF runVars, evictVars
  <2>3. TypesInv'
    BY <2>1, <2>2
  <2>4. AllowedInv'
    BY <2>2 DEF AllowedInv, OnlyAllowedEvicted, Allowed
  <2>5. EmptiedInv'
    BY <2>1, <2>2 DEF EmptiedInv, SuccessMeansEmptied, MayRemain, Calmed
  <2> QED
    BY <2>3, <2>4, <2>5
<1>2. CASE \E p \in PodNames : RecreatedElsewhere(p)
  <2>1. UNCHANGED <<unsched, pods, spec, opts, ctxErr, protected, epc, evictErr, todo,
                    current, interval, seen, evicted>>
    BY <1>2 DEF RecreatedElsewhere, clusterVars, runVars, evictVars
  <2>2. TypesInv'
    BY <1>2, <2>1 DEF RecreatedElsewhere, ClusterTypeOK
  <2>3. AllowedInv' /\ EmptiedInv'
    BY <2>1 DEF AllowedInv, OnlyAllowedEvicted, Allowed, EmptiedInv, SuccessMeansEmptied,
                MayRemain
  <2> QED
    BY <2>2, <2>3
<1>3. CASE CtxEnds /\ UNCHANGED <<clusterVars, elsewhere, evictVars>>
  <2>1. /\ UNCHANGED <<unsched, pods, spec, opts, protected, elsewhere, epc, evictErr, todo,
                       current, interval, seen, evicted>>
        /\ ctxErr' = TRUE
    BY <1>3 DEF CtxEnds, clusterVars, evictVars
  <2>2. TypesInv'
    BY <2>1 DEF ClusterTypeOK
  <2>3. AllowedInv' /\ EmptiedInv'
    BY <2>1 DEF AllowedInv, OnlyAllowedEvicted, Allowed, EmptiedInv, SuccessMeansEmptied,
                MayRemain
  <2> QED
    BY <2>2, <2>3
<1> QED
  BY <1>1, <1>2, <1>3 DEF EvictEnvironment

(***************************************************************************)
(* What evictRemaining does.                                               *)
(***************************************************************************)
\* The history grows by pairs of a pod and a flag.
LEMMA OneMoreEvicted ==
  ASSUME NEW E \in SUBSET (PodNames \X BOOLEAN), NEW p \in PodNames, NEW b \in BOOLEAN
  PROVE  E \cup {<<p, b>>} \in SUBSET (PodNames \X BOOLEAN)
<1>1. <<p, b>> \in PodNames \X BOOLEAN
  OBVIOUS
<1>2. {<<p, b>>} \in SUBSET (PodNames \X BOOLEAN)
  BY <1>1
<1> HIDE DEF PodNames
<1> QED
  BY <1>2

\* A step of the phase keeps the types.
LEMMA StepKeepsTypes ==
  ASSUME TypesInv, EvictStep
  PROVE  TypesInv'
<1> USE DEF TypesInv, EvictTypeOK, ClusterTypeOK, RunTypeOK, clusterVars, runVars,
            ReturnEvict, PodCondition
<1> UNCHANGED <<opts, ctxErr, protected, elsewhere>>
  BY DEF EvictStep
<1>1. CASE ListFails \/ ListDryRun \/ ListNothingLeft
  BY <1>1 DEF ListFails, ListDryRun, ListNothingLeft
<1>2. CASE ListPods
  BY <1>2, EvictableIsAllowed, PendingIsTerminating DEF ListPods, waitedFor
<1>3. ASSUME NEW p \in todo, ForceDelete(p)
      PROVE  TypesInv'
  <2>0. p \in PodNames /\ evicted' = evicted \cup {<<p, TRUE>>}
    BY <1>3 DEF ForceDelete
  <2>1. evicted' \in SUBSET (PodNames \X BOOLEAN)
    BY <2>0, OneMoreEvicted
  <2>2. pods' \in [PodNames -> PodCondition]
    BY <1>3 DEF ForceDelete
  <2> QED
    BY <1>3, <2>1, <2>2 DEF ForceDelete
<1>9. ASSUME NEW p \in todo, BeginEvict(p)
      PROVE  TypesInv'
  BY <1>9 DEF BeginEvict
<1>4. CASE EvictFails \/ EvictLoopEnds
  BY <1>4 DEF EvictFails, EvictLoopEnds
<1>5. CASE WaitDone \/ WaitFails \/ \E p \in seen : WaitSeesGone(p)
  BY <1>5 DEF WaitDone, WaitFails, WaitSeesGone
<1>6. CASE EvictGranted
  <2>1. current \in PodNames /\ current' = NoPod /\ todo' \in SUBSET PodNames
    BY <1>6 DEF EvictGranted, Handled
  <2>2. evicted' \in SUBSET (PodNames \X BOOLEAN)
    <3>1. \E b \in BOOLEAN : evicted' = evicted \cup {<<current, b>>}
      BY <1>6 DEF EvictGranted
    <3> QED
      BY <2>1, <3>1, OneMoreEvicted
  <2>3. ClusterTypeOK'
    BY <1>6, <2>1 DEF EvictGranted, DeletionStarted
  <2> QED
    BY <1>6, <2>1, <2>2, <2>3 DEF EvictGranted
<1>7. CASE EvictGone
  BY <1>7 DEF EvictGone, Handled
<1>8. CASE EvictRefused
  <2>1. nextInterval \in 0..MaxInterval
    BY DEF nextInterval
  <2> QED
    BY <1>8, <2>1 DEF EvictRefused
<1> QED
  BY <1>1, <1>2, <1>3, <1>4, <1>5, <1>6, <1>7, <1>8, <1>9
  DEF EvictStep, OwnEvictStep, AnsweredEvictStep

\* It evicts only what was selected, and that was allowed.
LEMMA StepKeepsAllowed ==
  ASSUME TypesInv, AllowedInv, EvictStep
  PROVE  AllowedInv'
<1> USE DEF TypesInv, EvictTypeOK, AllowedInv, OnlyAllowedEvicted, Allowed, runVars
<1> UNCHANGED <<opts, ctxErr, protected, elsewhere>>
  BY DEF EvictStep
<1>1. CASE UNCHANGED <<todo, evicted>>
  BY <1>1
<1>2. CASE ListPods
  BY <1>2, EvictableIsAllowed DEF ListPods
<1>3. ASSUME NEW p \in todo, ForceDelete(p)
      PROVE  AllowedInv'
  BY <1>3 DEF ForceDelete
<1>4. CASE EvictGranted
  BY <1>4 DEF EvictGranted, Handled
<1>5. CASE EvictGone
  BY <1>5 DEF EvictGone, Handled
<1> QED
  BY <1>1, <1>2, <1>3, <1>4, <1>5
  DEF EvictStep, OwnEvictStep, AnsweredEvictStep, ListFails, ListDryRun, ListNothingLeft,
      BeginEvict, EvictFails, EvictLoopEnds, WaitDone, WaitFails, WaitSeesGone, EvictRefused

\* It loses sight of no pod that must go.
LEMMA StepKeepsEmptied ==
  ASSUME EvictInv, EvictStep
  PROVE  EmptiedInv'
<1> USE DEF EvictInv, TypesInv, EvictTypeOK, EmptiedInv, SuccessMeansEmptied, MayRemain, runVars,
            clusterVars, ReturnEvict
<1> UNCHANGED <<opts, ctxErr, protected, elsewhere>>
  BY DEF EvictStep
<1>1. CASE ListFails \/ ListDryRun
  BY <1>1 DEF ListFails, ListDryRun
<1>2. CASE ListNothingLeft
  BY <1>2, NonePassedOver DEF ListNothingLeft
<1>3. CASE ListPods
  BY <1>3, NonePassedOver, PendingIsTerminating, EvictableIsAllowed
  DEF ListPods, waitedFor
<1>4. ASSUME NEW p \in todo, ForceDelete(p)
      PROVE  EmptiedInv'
  BY <1>4 DEF ForceDelete, ClusterTypeOK
<1>5. ASSUME NEW p \in todo, BeginEvict(p)
      PROVE  EmptiedInv'
  BY <1>5 DEF BeginEvict
<1>6. CASE EvictGranted
  <2>1. current \in PodNames /\ todo' = todo \ {current} /\ UNCHANGED <<epc, seen, unsched>>
    BY <1>6 DEF EvictGranted, Handled, DeletionStarted
  <2>2. /\ \A p \in PodNames \ {current} : pods'[p] = pods[p]
        /\ pods'[current] \notin {"new", "old"}
        /\ pods[current] \in {"none", "terminal"} => pods'[current] = pods[current]
    BY <1>6, <2>1 DEF EvictGranted, DeletionStarted, ClusterTypeOK, HasPods
  <2>3. epc = "evict"
    BY <1>6 DEF EvictGranted
  <2> HIDE DEF MayRemain
  <2>4. ASSUME NEW p \in PodNames
        PROVE  \/ p \in todo' /\ p \in seen'
               \/ p \in seen' /\ (pods'[p] \notin {"new", "old"} \/ "DaemonSet" \in Owners[p])
               \/ MayRemain(p)'
    BY <2>1, <2>2, <2>3 DEF MayRemain
  <2> QED
    BY <2>1, <2>3, <2>4
<1>7. CASE EvictGone
  BY <1>7 DEF EvictGone, Handled
<1>8. CASE EvictRefused
  BY <1>8 DEF EvictRefused
<1>9. CASE EvictFails
  BY <1>9 DEF EvictFails
<1>10. CASE EvictLoopEnds
  BY <1>10 DEF EvictLoopEnds
<1>11. ASSUME NEW p \in seen, WaitSeesGone(p)
       PROVE  EmptiedInv'
  BY <1>11 DEF WaitSeesGone, gone, ClusterTypeOK, PodCondition
<1>12. CASE WaitDone
  BY <1>12 DEF WaitDone
<1>13. CASE WaitFails
  BY <1>13 DEF WaitFails
<1> QED
  BY <1>1, <1>2, <1>3, <1>4, <1>5, <1>6, <1>7, <1>8, <1>9, <1>10, <1>11, <1>12, <1>13
  DEF EvictStep, OwnEvictStep, AnsweredEvictStep

\* Every step preserves the invariant.
LEMMA EvictNextInv == EvictInv /\ [EvictNext]_allEvictVars => EvictInv'
<1> SUFFICES ASSUME EvictInv, [EvictNext]_allEvictVars PROVE EvictInv'
  OBVIOUS
<1>1. CASE EvictStep
  BY <1>1, StepKeepsTypes, StepKeepsAllowed, StepKeepsEmptied DEF EvictInv
<1>2. CASE EvictEnvironment
  BY <1>2, EnvironmentKeepsInv
<1>3. CASE UNCHANGED allEvictVars
  BY <1>3
  DEF EvictInv, TypesInv, allEvictVars, clusterVars, runVars, evictVars, ClusterTypeOK, RunTypeOK,
      EvictTypeOK, AllowedInv, Allowed, OnlyAllowedEvicted, EmptiedInv, SuccessMeansEmptied,
      MayRemain
<1> QED
  BY <1>1, <1>2, <1>3 DEF EvictNext, EvictFinished

(***************************************************************************)
(* One blocking pod stops the eviction of all.                             *)
(***************************************************************************)
\* Once the list has been acted on, nothing blocks but what a DaemonSet has brought.
BlockedInv ==
  /\ epc = "list" => evicted = {}
  /\ epc \in {"evict", "wait"} => \A p \in blocked : "DaemonSet" \in Owners[p]
  /\ BlockedStopsEviction

\* No pod begins to block on a cordoned node, unless a DaemonSet brings it.
LEMMA NoneNewlyBlocked ==
  ASSUME ClusterTypeOK', UNCHANGED <<opts, protected>>, \A p \in PodNames : Calmed(p)
  PROVE  \A p \in blocked' : p \in blocked \/ "DaemonSet" \in Owners[p]
<1> SUFFICES ASSUME NEW p \in blocked', "DaemonSet" \notin Owners[p]
             PROVE  p \in blocked
  OBVIOUS
<1>1. p \in PodNames /\ p \notin protected /\ pods'[p] # "none"
  BY DEF blocked, candidates
<1>2. pods'[p] \notin {"terminating", "terminal"} /\ Policy!isBlocked(evictionView(p), opts)'
  BY DEF blocked, evictionView, Policy!isBlocked
<1>3. pods[p] \notin {"none", "terminating", "terminal"}
  BY <1>1, <1>2 DEF Calmed, ClusterTypeOK, PodCondition
<1>4. evictionView(p)' = evictionView(p)
  BY <1>2, <1>3 DEF evictionView
<1> QED
  BY <1>1, <1>2, <1>3, <1>4 DEF blocked, candidates, Policy!isBlocked,
     Policy!skippedDaemonSet, Policy!isDaemonSetPod, Policy!isStandalone, Policy!isJobPod

\* Nor does a step of the phase bring one.
LEMMA EvictStepCalms ==
  ASSUME TypesInv, EvictStep
  PROVE  \A p \in PodNames : Calmed(p)
<1> USE DEF TypesInv, EvictTypeOK, ClusterTypeOK, Calmed
<1>1. CASE UNCHANGED pods
  BY <1>1
<1>2. ASSUME NEW q \in todo, ForceDelete(q)
      PROVE  \A p \in PodNames : Calmed(p)
  BY <1>2 DEF ForceDelete
<1>3. CASE EvictGranted
  <2>1. CASE HasPods(current) /\ DeletionStarted(current)
    BY <2>1 DEF HasPods, DeletionStarted
  <2> QED
    BY <1>1, <1>3, <2>1 DEF EvictGranted, clusterVars
<1> QED
  BY <1>1, <1>2, <1>3
  DEF EvictStep, OwnEvictStep, AnsweredEvictStep, ListFails, ListDryRun, ListNothingLeft,
      ListPods, BeginEvict, EvictFails, EvictLoopEnds, WaitDone, WaitFails, WaitSeesGone,
      EvictRefused, EvictGone, clusterVars

\* The phase begins with nothing evicted and keeps the invariant.
LEMMA BlockedInitInv == EvictInit => BlockedInv
BY DEF EvictInit, BlockedInv, BlockedStopsEviction

LEMMA BlockedNextInv ==
  EvictInv /\ BlockedInv /\ [EvictNext]_allEvictVars => BlockedInv'
<1> SUFFICES ASSUME EvictInv, BlockedInv, [EvictNext]_allEvictVars
             PROVE  BlockedInv'
  OBVIOUS
<1> USE DEF BlockedInv, BlockedStopsEviction
<1>0. ClusterTypeOK'
  BY EvictNextInv DEF EvictInv, TypesInv
<1>1. CASE EvictStep
  <2>1. \A p \in blocked' : p \in blocked \/ "DaemonSet" \in Owners[p]
    BY <1>0, <1>1, EvictStepCalms, NoneNewlyBlocked DEF EvictInv, EvictStep, runVars
  <2>2. CASE epc = "list"
    <3>1. evicted' = {} /\ epc' # "list"
      BY <1>1, <2>2
      DEF EvictStep, OwnEvictStep, AnsweredEvictStep, ListFails, ListDryRun,
          ListNothingLeft, ListPods, ForceDelete, BeginEvict, EvictFails, EvictLoopEnds,
          WaitDone, WaitFails, EvictGranted, EvictGone, EvictRefused, WaitSeesGone,
          ReturnEvict
    <3>2. epc' = "evict" => blocked = {}
      BY <1>1, <2>2
      DEF EvictStep, OwnEvictStep, AnsweredEvictStep, ListFails, ListDryRun,
          ListNothingLeft, ListPods, ForceDelete, BeginEvict, EvictFails, EvictLoopEnds,
          WaitDone, WaitFails, EvictGranted, EvictGone, EvictRefused, WaitSeesGone,
          ReturnEvict
    <3>3. epc' # "wait"
      BY <1>1, <2>2
      DEF EvictStep, OwnEvictStep, AnsweredEvictStep, ListFails, ListDryRun,
          ListNothingLeft, ListPods, ForceDelete, BeginEvict, EvictFails, EvictLoopEnds,
          WaitDone, WaitFails, EvictGranted, EvictGone, EvictRefused, WaitSeesGone,
          ReturnEvict
    <3> HIDE DEF blocked
    <3> QED
      BY <2>1, <3>1, <3>2, <3>3
  <2>3. CASE epc # "list"
    <3>1. epc \in {"evict", "wait"} /\ epc' # "list"
      BY <1>1, <2>3
      DEF EvictStep, OwnEvictStep, AnsweredEvictStep, ListFails, ListDryRun,
          ListNothingLeft, ListPods, ForceDelete, BeginEvict, EvictFails, EvictLoopEnds,
          WaitDone, WaitFails, EvictGranted, EvictGone, EvictRefused, WaitSeesGone,
          ReturnEvict
    <3> QED
      BY <2>1, <3>1
  <2> QED
    BY <2>2, <2>3
<1>2. CASE EvictEnvironment
  <2>1. UNCHANGED <<epc, evicted, opts, protected>>
    BY <1>2 DEF EvictEnvironment, RecreatedElsewhere, CtxEnds, runVars, evictVars
  <2>2. \A p \in PodNames : Calmed(p)
    <3>1. CASE ClusterStep \/ \E p \in PodNames : DeletedByOthers(p)
      BY <3>1, ClusterStepCalms DEF EvictInv, TypesInv, EmptiedInv
    <3>2. CASE UNCHANGED pods
      BY <3>2 DEF Calmed
    <3> QED
      BY <1>2, <3>1, <3>2 DEF EvictEnvironment, RecreatedElsewhere, clusterVars
  <2>3. \A p \in blocked' : p \in blocked \/ "DaemonSet" \in Owners[p]
    BY <1>0, <2>1, <2>2, NoneNewlyBlocked
  <2> QED
    BY <2>1, <2>3
<1>3. CASE UNCHANGED allEvictVars
  <2>1. UNCHANGED <<epc, evicted, opts, protected>> /\ \A p \in PodNames : Calmed(p)
    BY <1>3 DEF allEvictVars, clusterVars, runVars, evictVars, Calmed
  <2>2. \A p \in blocked' : p \in blocked \/ "DaemonSet" \in Owners[p]
    BY <1>0, <2>1, NoneNewlyBlocked
  <2> QED
    BY <2>1, <2>2
<1> QED
  BY <1>1, <1>2, <1>3 DEF EvictNext, EvictFinished

(***************************************************************************)
(* The theorems.                                                           *)
(***************************************************************************)
\* The invariant holds in every state of the eviction phase.
THEOREM EvictInvariant == EvictSpec => []EvictInv
BY EvictInitInv, EvictNextInv, PTL DEF EvictSpec

\* The eviction phase is well typed, and its retry delay stays within its cap.
THEOREM EvictTypeCorrect == EvictSpec => []EvictTypeOK
<1>1. EvictInv => EvictTypeOK
  BY DEF EvictInv, TypesInv
<1> QED
  BY <1>1, EvictInvariant, PTL

\* Nothing is evicted against the flags, whatever the pods (eviction.go:183-220).
THEOREM EvictOnlyAllowed == EvictSpec => []OnlyAllowedEvicted
<1>1. EvictInv => OnlyAllowedEvicted
  BY DEF EvictInv, AllowedInv
<1> QED
  BY <1>1, EvictInvariant, PTL

\* One pod that needs a flag the operator has not given stops the eviction of all the
\* others, whatever arrives and goes meanwhile (eviction.go:43-45).
THEOREM EvictBlockedStops == EvictSpec => []BlockedStopsEviction
<1>1. BlockedInv => BlockedStopsEviction
  BY DEF BlockedInv
<1> QED
  BY <1>1, BlockedInitInv, BlockedNextInv, EvictInvariant, PTL DEF EvictSpec

\* Success means an empty node, whatever others do to its pods (eviction.go:22-94).
THEOREM EvictSuccessMeansEmptied == EvictSpec => []SuccessMeansEmptied
<1>1. EvictInv => SuccessMeansEmptied
  BY DEF EvictInv, EmptiedInv
<1> QED
  BY <1>1, EvictInvariant, PTL

\* The three selections made from one list of pods leave out only what may stay, and
\* no pod is in two of them (eviction.go: blockedEvictionPods, filterEvictable and
\* podsPendingDeletion are three functions with conditions of their own).
THEOREM EvictSelectionsExact ==
  ASSUME NEW p \in Policy!EvictionPods, NEW f \in Policy!EvictionFlags
  PROVE  /\ Policy!isBlocked(p, f) \/ Policy!isEvictable(p, f) \/ Policy!isPending(p, f)
              <=> ~(p.terminal \/ p.mirror \/ Policy!skippedDaemonSet(p, f))
         /\ ~(Policy!isBlocked(p, f) /\ Policy!isEvictable(p, f))
         /\ ~(Policy!isPending(p, f) /\ (Policy!isBlocked(p, f) \/ Policy!isEvictable(p, f)))
BY DEF Policy!isBlocked, Policy!isEvictable, Policy!isPending, Policy!EvictionPods,
       Policy!EvictionFlags
================================================================================
