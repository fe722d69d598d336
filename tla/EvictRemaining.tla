---------------------------- MODULE EvictRemaining ----------------------------
(***************************************************************************)
(* Drainer.evictRemaining (pkg/drain/eviction.go): the last phase of a     *)
(* drain.  One list of the node's pods is split by EvictionPolicy; each    *)
(* pod to evict is evicted through the eviction API, with retries while a  *)
(* PodDisruptionBudget refuses, or force-deleted if it is standalone; then *)
(* every pod that was evicted or already on its way out is waited for.     *)
(*                                                                         *)
(* The list's order is the API server's, so the next pod is any of those   *)
(* left.  Eviction names a pod by namespace and name.  A StatefulSet's pod *)
(* that is deleted meanwhile comes back under the same name on another     *)
(* node ("elsewhere").                                                     *)
(***************************************************************************)
EXTENDS DrainRun, FiniteSets

CONSTANTS
  HasEmptyDir,      \* pods with an emptyDir volume
  MirrorPods,       \* static pods
  BaseInterval,     \* --pdb-retry-interval
  MaxInterval,      \* the 60 s the backoff is capped at
  InitialPods,      \* what may be left on the node after the rolling restarts
  NoPod

ASSUME EvictAssumption ==
  /\ MaxInterval \in Nat /\ BaseInterval \in 0..MaxInterval
  /\ InitialPods \subseteq [PodNames -> PodCondition]
  /\ NoPod \notin PodNames

Policy == INSTANCE EvictionPolicy

VARIABLES
  elsewhere,        \* names that now belong to a pod on another node
  epc,              \* where evictRemaining is
  evictErr,         \* it returned an error
  todo,             \* evictable pods not handled yet
  current,          \* the pod evictWithPDBRetry is at work on
  interval,         \* its next retry delay
  seen,             \* pods waitForPodsDeleted still waits for
  evicted           \* history: <<pod, TRUE iff it was on this node>>

evictVars == <<epc, evictErr, todo, current, interval, seen, evicted>>

evictionView(p) ==
  [owners |-> Owners[p], mirror |-> p \in MirrorPods,
   emptyDir |-> p \in HasEmptyDir,
   deleting |-> pods[p] = "terminating", terminal |-> pods[p] = "terminal"]

\* Mutant of candidates: filtered workloads are not left out.
candidatesUnfiltered == {p \in PodNames : pods[p] # "none"}

\* excludeProtectedPods(pods on the node)
candidates == {p \in PodNames : pods[p] # "none"} \ protected

blocked == {p \in candidates : Policy!isBlocked(evictionView(p), opts)}
evictable == {p \in candidates : Policy!isEvictable(evictionView(p), opts)}
pending == {p \in candidates : Policy!isPending(evictionView(p), opts)}

ReturnEvict(err) == epc' = "returned" /\ evictErr' = err

(***************************************************************************)
(* The list and what follows from it.                                      *)
(***************************************************************************)
\* Listing fails (it is not retried), or a pod blocks the drain.
ListFails ==
  /\ epc = "list"
  /\ ReturnEvict(TRUE)
  /\ UNCHANGED <<clusterVars, todo, current, interval, seen, evicted>>

\* A dry run only says what it would do.
ListDryRun ==
  /\ epc = "list"
  /\ opts.dryRun
  /\ ReturnEvict(FALSE)
  /\ UNCHANGED <<clusterVars, todo, current, interval, seen, evicted>>

ListNothingLeft ==
  /\ epc = "list"
  /\ ~opts.dryRun
  /\ ~ctxErr
  /\ blocked = {} /\ evictable = {} /\ pending = {}
  /\ ReturnEvict(FALSE)
  /\ UNCHANGED <<clusterVars, todo, current, interval, seen, evicted>>

\* append(waiting, evictable...)
waitedFor == pending \cup evictable

\* Mutant of ListPods: the pods that may be evicted are, whatever blocks the rest.
ListPodsRegardless ==
  /\ epc = "list"
  /\ ~opts.dryRun
  /\ ~ctxErr
  /\ evictable \cup pending # {}
  /\ todo' = evictable
  /\ seen' = waitedFor
  /\ epc' = "evict"
  /\ UNCHANGED <<clusterVars, evictErr, current, interval, evicted>>

ListPods ==
  /\ epc = "list"
  /\ ~opts.dryRun
  /\ ~ctxErr
  /\ blocked = {}
  /\ evictable \cup pending # {}
  /\ todo' = evictable
  /\ seen' = waitedFor
  /\ epc' = "evict"
  /\ UNCHANGED <<clusterVars, evictErr, current, interval, evicted>>

(***************************************************************************)
(* The eviction loop.                                                      *)
(***************************************************************************)
forceDeletes(p) == opts.forceDelete /\ Owners[p] = {}

\* Delete with gracePeriodSeconds=0, past any budget; a missing pod is fine.
ForceDelete(p) ==
  /\ epc = "evict" /\ current = NoPod
  /\ p \in todo
  /\ forceDeletes(p)
  /\ ~ctxErr
  /\ pods' = [pods EXCEPT ![p] = "none"]
  /\ todo' = todo \ {p}
  /\ evicted' = evicted \cup {<<p, TRUE>>}
  /\ UNCHANGED <<unsched, spec, epc, evictErr, current, interval, seen>>

\* evictWithPDBRetry starts with the base interval.
BeginEvict(p) ==
  /\ epc = "evict" /\ current = NoPod
  /\ p \in todo
  /\ ~forceDeletes(p)
  /\ current' = p
  /\ interval' = BaseInterval
  /\ UNCHANGED <<clusterVars, epc, evictErr, todo, seen, evicted>>

Handled(p) == current' = NoPod /\ todo' = todo \ {p}

\* EvictV1 succeeds on the pod that has the name now.  Deleting a pod that has
\* completed meanwhile makes no difference to anybody.
EvictGranted ==
  /\ epc = "evict" /\ current # NoPod
  /\ ~ctxErr
  /\ \/ /\ HasPods(current)
        /\ DeletionStarted(current)
        /\ evicted' = evicted \cup {<<current, TRUE>>}
     \/ /\ pods[current] = "terminal"
        /\ evicted' = evicted \cup {<<current, TRUE>>}
        /\ UNCHANGED clusterVars
     \/ /\ pods[current] = "none" /\ current \in elsewhere
        /\ evicted' = evicted \cup {<<current, FALSE>>}
        /\ UNCHANGED clusterVars
  /\ Handled(current)
  /\ UNCHANGED <<epc, evictErr, interval, seen>>

\* EvictV1 says NotFound: somebody else has removed the pod.
EvictGone ==
  /\ epc = "evict" /\ current # NoPod
  /\ ~ctxErr
  /\ pods[current] = "none" /\ current \notin elsewhere
  /\ Handled(current)
  /\ UNCHANGED <<clusterVars, epc, evictErr, interval, seen, evicted>>

nextInterval == IF 2 * interval > MaxInterval THEN MaxInterval ELSE 2 * interval

\* A budget refuses (429) or the server is unavailable (503): wait and retry.
EvictRefused ==
  /\ epc = "evict" /\ current # NoPod
  /\ ~ctxErr
  /\ pods[current] # "none" \/ current \in elsewhere
  /\ interval' = nextInterval
  /\ UNCHANGED <<clusterVars, epc, evictErr, todo, current, seen, evicted>>

\* Mutant of EvictFails: the retries are bounded by the drain's context alone.
EvictFailsLate ==
  /\ epc = "evict"
  /\ current # NoPod \/ \E p \in todo : forceDeletes(p)
  /\ ctxErr
  /\ ReturnEvict(TRUE)
  /\ current' = NoPod
  /\ UNCHANGED <<clusterVars, todo, interval, seen, evicted>>

\* --eviction-timeout passes, the drain's context ends, or the call fails for
\* another reason; likewise for a force-delete.
EvictFails ==
  /\ epc = "evict"
  /\ current # NoPod \/ \E p \in todo : forceDeletes(p)
  /\ ReturnEvict(TRUE)
  /\ current' = NoPod
  /\ UNCHANGED <<clusterVars, todo, interval, seen, evicted>>

EvictLoopEnds ==
  /\ epc = "evict" /\ current = NoPod
  /\ todo = {}
  /\ epc' = "wait"
  /\ UNCHANGED <<clusterVars, evictErr, todo, current, interval, seen, evicted>>

(***************************************************************************)
(* waitForPodsDeleted.                                                     *)
(***************************************************************************)
\* The pod that was listed no longer exists, has another UID, or is terminal.
gone(p) == pods[p] # "terminating"

WaitSeesGone(p) ==
  /\ epc = "wait"
  /\ p \in seen
  /\ ~ctxErr
  /\ gone(p)
  /\ seen' = seen \ {p}
  /\ UNCHANGED <<clusterVars, epc, evictErr, todo, current, interval, evicted>>

WaitDone ==
  /\ epc = "wait"
  /\ seen = {}
  /\ ReturnEvict(FALSE)
  /\ UNCHANGED <<clusterVars, todo, current, interval, seen, evicted>>

\* --pod-vacate-timeout passes, the context ends, or a Get fails for good.
WaitFails ==
  /\ epc = "wait"
  /\ seen # {}
  /\ ReturnEvict(TRUE)
  /\ UNCHANGED <<clusterVars, todo, current, interval, seen, evicted>>

\* Steps the drain can take whatever the API server answers: each call may fail,
\* and each wait is cut off by its timer.
OwnEvictStep ==
  \/ ListFails \/ ListDryRun \/ ListNothingLeft \/ ListPods
  \/ \E p \in todo : ForceDelete(p) \/ BeginEvict(p)
  \/ EvictFails \/ EvictLoopEnds
  \/ WaitDone \/ WaitFails

\* Steps that depend on a budget's answer or on a pod being gone.
AnsweredEvictStep ==
  \/ EvictGranted \/ EvictGone \/ EvictRefused
  \/ \E p \in seen : WaitSeesGone(p)

EvictStep ==
  /\ OwnEvictStep \/ AnsweredEvictStep
  /\ UNCHANGED <<runVars, elsewhere>>

\* Well typed; the retry delay stays within its cap.
EvictTypeOK ==
  /\ elsewhere \in SUBSET PodNames
  /\ epc \in {"idle", "list", "evict", "wait", "returned"}
  /\ evictErr \in BOOLEAN
  /\ todo \in SUBSET PodNames
  /\ current \in todo \cup {NoPod}
  /\ interval \in 0..MaxInterval
  /\ seen \in SUBSET PodNames
  /\ evicted \in SUBSET (PodNames \X BOOLEAN)

(***************************************************************************)
(* evictRemaining on its own: called on a cordoned node.                   *)
(***************************************************************************)
EvictInit ==
  /\ unsched = TRUE
  /\ pods \in InitialPods
  /\ spec = [w \in Workloads |-> [uid |-> 1, gen |-> 1]]
  /\ opts \in Options
  /\ ctxErr = FALSE
  /\ protected \in SUBSET Workloads
  /\ elsewhere = {}
  /\ epc = "list"
  /\ evictErr = FALSE
  /\ todo = {}
  /\ current = NoPod
  /\ interval = 0
  /\ seen = {}
  /\ evicted = {}

\* The StatefulSet controller creates a pod that is gone from here again, under
\* its old name, on another node.
RecreatedElsewhere(p) ==
  /\ "StatefulSet" \in Owners[p]
  /\ pods[p] = "none"
  /\ p \notin elsewhere
  /\ elsewhere' = elsewhere \cup {p}
  /\ UNCHANGED <<clusterVars, runVars, evictVars>>

\* Somebody else deletes a pod of the node.
DeletedByOthers(p) ==
  /\ pods[p] = "new"
  /\ DeletionStarted(p)

EvictEnvironment ==
  \/ /\ ClusterStep \/ \E p \in PodNames : DeletedByOthers(p)
     /\ UNCHANGED <<runVars, elsewhere, evictVars>>
  \/ \E p \in PodNames : RecreatedElsewhere(p)
  \/ epc # "returned" /\ CtxEnds /\ UNCHANGED <<clusterVars, elsewhere, evictVars>>

allEvictVars == <<clusterVars, runVars, elsewhere, evictVars>>

EvictFinished == epc = "returned" /\ UNCHANGED allEvictVars

EvictNext == EvictStep \/ EvictEnvironment \/ EvictFinished

EvictSpec == EvictInit /\ [][EvictNext]_allEvictVars

(***************************************************************************)
(* The drain's goroutine runs, and its two timers go off: evictCtx ends    *)
(* after --eviction-timeout, the poll after --pod-vacate-timeout.  Nothing *)
(* is assumed about budgets or about pods going away.                      *)
(***************************************************************************)
EvictFairSpec ==
  /\ EvictSpec
  /\ WF_allEvictVars(OwnEvictStep /\ UNCHANGED <<runVars, elsewhere>>)

--------------------------------------------------------------------------------
\* What may still be on the node after a drain that reports success.
MayRemain(p) ==
  \/ pods[p] \in {"none", "terminal"}
  \/ p \in protected
  \/ p \in MirrorPods
  \/ "DaemonSet" \in Owners[p]

\* evictRemaining returns nil only when the node is empty: every pod it listed
\* was evicted or was going anyway, and has really gone.
SuccessMeansEmptied ==
  epc = "returned" /\ ~evictErr /\ ~opts.dryRun =>
    \A p \in PodNames : MayRemain(p)

\* No pod is evicted that the flags do not allow to be: a filtered workload's,
\* a static pod, a pod whose loss needs --force or --delete-emptydir-data.
OnlyAllowedEvicted ==
  \A p \in PodNames :
    \/ <<p, TRUE>> \notin evicted /\ <<p, FALSE>> \notin evicted
    \/ /\ p \notin protected \cup MirrorPods
       /\ opts.force \/ (Owners[p] # {} /\ "Job" \notin Owners[p])
       /\ opts.force \/ opts.emptyDir \/ p \notin HasEmptyDir
       /\ ~opts.skipDS \/ "DaemonSet" \notin Owners[p]

\* One pod that needs a flag the operator has not given stops the eviction of all
\* others: once a pod has been evicted none such is on the node, except a DaemonSet's
\* that has arrived since.
BlockedStopsEviction ==
  evicted # {} => \A p \in blocked : "DaemonSet" \in Owners[p]

\* evictRemaining returns even if a budget refuses for ever or a pod never goes.
EvictReturns == <>(epc = "returned")
================================================================================
