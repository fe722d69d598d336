-------------------------------- MODULE Finder --------------------------------
(***************************************************************************)
(* Discovery of the workloads of one node (pkg/workload/workload.go,       *)
(* retried as in discoverWorkloads): FindForNode lists the pods once and   *)
(* follows each pod's controller reference, with one API call at a time    *)
(* and two caches, through a cluster whose objects come and go under the   *)
(* same names.  References carry the uid of the object they mean.          *)
(***************************************************************************)
EXTENDS Naturals

CONSTANTS
  Deployments, StatefulSets,
  DeploymentOf,     \* [ReplicaSets -> Deployments]: whose template it is made from
  OwnerOf,          \* [pods -> ReplicaSets, StatefulSets or Other]: controller by name
  Other,            \* no controller, or one that is not restarted
  MaxUid,           \* bound: objects created under one name
  MaxChanges,       \* bound: steps of the cluster during a discovery
  MaxAttempts       \* 3 in retryTransient

ASSUME FinderAssumption ==
  /\ MaxUid \in Nat \ {0} /\ MaxAttempts \in Nat \ {0} /\ MaxChanges \in Nat
  /\ DeploymentOf \in [DOMAIN DeploymentOf -> Deployments]
  /\ OwnerOf \in [DOMAIN OwnerOf -> DOMAIN DeploymentOf \cup StatefulSets \cup {Other}]
  /\ Deployments \cap StatefulSets = {}
  /\ DOMAIN DeploymentOf \cap (Deployments \cup StatefulSets) = {}
  /\ Other \notin Deployments \cup StatefulSets \cup DOMAIN DeploymentOf

ReplicaSets == DOMAIN DeploymentOf
Workloads == Deployments \cup StatefulSets
Pods == DOMAIN OwnerOf
Uids == 1..MaxUid
NoUid == 0

VARIABLES
  object,           \* [names -> [uid, live]]: the last object of that name
  controller,       \* [ReplicaSets -> uid of the Deployment in its reference, or NoUid]
  pods,             \* [Pods -> [uid, phase]]: uid of the controller it refers to
  fpc,              \* where discovery is
  attempt,
  left,             \* pods of the list still to be looked at, with their reference
  ref,              \* the workload about to be read: [name, uid]
  rsCache, wlCache, found,
  listed, touched, changes   \* history: the list, and what has changed since

objectVars == <<object, controller, pods>>
finderVars == <<fpc, attempt, left, ref, rsCache, wlCache, found, listed>>
discoveryVars == <<objectVars, finderVars, touched, changes>>

NoRef == [name |-> Other, uid |-> NoUid]
Live(n, uid) == object[n] = [uid |-> uid, live |-> TRUE]

(***************************************************************************)
(* The cluster during discovery.                                           *)
(***************************************************************************)
Change(names) ==
  /\ changes < MaxChanges
  /\ changes' = changes + 1
  /\ touched' = touched \cup names
  /\ UNCHANGED finderVars

Deleted(n) ==
  /\ object[n].live
  /\ object' = [object EXCEPT ![n].live = FALSE]
  /\ Change({n}) /\ UNCHANGED <<controller, pods>>

\* Created again under the same name.  A ReplicaSet's name is that of its
\* Deployment and its template, so a new Deployment makes the same one.
Created(n) ==
  /\ ~object[n].live /\ object[n].uid < MaxUid
  /\ object' = [object EXCEPT ![n] = [uid |-> @.uid + 1, live |-> TRUE]]
  /\ IF n \in ReplicaSets
     THEN /\ object[DeploymentOf[n]].live
          /\ controller' = [controller EXCEPT ![n] = object[DeploymentOf[n]].uid]
     ELSE UNCHANGED controller
  /\ Change({n}) /\ UNCHANGED pods

\* A ReplicaSet that outlives its Deployment loses its reference and is taken
\* over by a Deployment created later.
Orphaned(r) ==
  /\ object[r].live /\ controller[r] # NoUid
  /\ ~Live(DeploymentOf[r], controller[r])
  /\ controller' = [controller EXCEPT ![r] = NoUid]
  /\ Change({r}) /\ UNCHANGED <<object, pods>>

Adopted(r) ==
  /\ object[r].live /\ controller[r] = NoUid /\ object[DeploymentOf[r]].live
  /\ controller' = [controller EXCEPT ![r] = object[DeploymentOf[r]].uid]
  /\ Change({r}) /\ UNCHANGED <<object, pods>>

\* Pods are read again only if a list is still to come.
MoreLists == fpc = "list" \/ attempt < MaxAttempts

PodEnds(p) ==
  /\ MoreLists /\ pods[p].phase = "active"
  /\ \E s \in {"terminal", "gone"} : pods' = [pods EXCEPT ![p].phase = s]
  /\ Change({}) /\ UNCHANGED <<object, controller>>

PodCreated(p) ==
  /\ MoreLists /\ pods[p].phase = "gone" /\ OwnerOf[p] # Other /\ object[OwnerOf[p]].live
  /\ pods' = [pods EXCEPT ![p] = [uid |-> object[OwnerOf[p]].uid, phase |-> "active"]]
  /\ Change({}) /\ UNCHANGED <<object, controller>>

ClusterChanges ==
  \/ \E n \in Workloads \cup ReplicaSets : Deleted(n) \/ Created(n)
  \/ \E r \in ReplicaSets : Orphaned(r) \/ Adopted(r)
  \/ \E p \in Pods : PodEnds(p) \/ PodCreated(p)

(***************************************************************************)
(* FindForNode.                                                            *)
(***************************************************************************)
\* Mutant of emptyCaches: the caches outlive an attempt.
keptCaches == rsCache' = rsCache /\ wlCache' = wlCache

emptyCaches == rsCache' = <<>> /\ wlCache' = <<>>

\* The list of the node's pods; terminal ones are passed over.
List ==
  /\ fpc = "list"
  /\ listed' = {[pod |-> p, uid |-> pods[p].uid] :
                  p \in {q \in Pods : pods[q].phase = "active"}}
  /\ left' = listed'
  /\ emptyCaches
  /\ found' = {} /\ touched' = {}
  /\ fpc' = "walk"
  /\ UNCHANGED <<objectVars, attempt, ref, changes>>

\* On with the walk; the pod just looked at is left behind.
Walk(rest) ==
  /\ left' = rest
  /\ fpc' = "walk" /\ ref' = NoRef
  /\ UNCHANGED <<objectVars, attempt, listed, touched, changes>>

With(cache, n, value) ==
  [m \in DOMAIN cache \cup {n} |-> IF m = n THEN value ELSE cache[m]]

\* Nothing to restart: the walk goes on with the next pod.
Unresolved(rest) == Walk(rest) /\ UNCHANGED <<wlCache, found>>

PassOver(l) ==
  /\ fpc = "walk" /\ l \in left /\ OwnerOf[l.pod] = Other
  /\ Unresolved(left \ {l}) /\ UNCHANGED rsCache

\* resolveReplicaSet: from the cache or the API server.  One that is not found,
\* is not the one the pod means, or has no Deployment resolves to nothing.
ReadReplicaSet(l) ==
  LET r == OwnerOf[l.pod]
      rs == IF r \in DOMAIN rsCache THEN rsCache[r]
            ELSE [uid |-> object[r].uid, controller |-> controller[r]]
  IN  /\ fpc = "walk" /\ l \in left /\ r \in ReplicaSets
      /\ IF r \in DOMAIN rsCache \/ object[r].live
         THEN /\ rsCache' = With(rsCache, r, rs)
              /\ IF rs.uid = l.uid /\ rs.controller # NoUid
                 THEN /\ ref' = [name |-> DeploymentOf[r], uid |-> rs.controller]
                      /\ left' = left \ {l}
                      /\ fpc' = "owner"
                      /\ UNCHANGED <<objectVars, attempt, wlCache, found, listed,
                                     touched, changes>>
                 ELSE Unresolved(left \ {l})
         ELSE Unresolved(left \ {l}) /\ UNCHANGED rsCache

\* resolveDeployment, resolveStatefulSet: what the cache holds is taken as it is,
\* a live object only if it is the one that is meant.
ReadWorkload(n, uid, rest) ==
  LET known == IF n \in DOMAIN wlCache THEN wlCache[n] ELSE uid
  IN  IF n \in DOMAIN wlCache \/ Live(n, uid)
      THEN /\ wlCache' = With(wlCache, n, known)
           /\ found' = IF \E w \in found : w.name = n THEN found
                       ELSE found \cup {[name |-> n, uid |-> known]}
           /\ Walk(rest)
      ELSE Unresolved(rest)

ReadDeployment ==
  /\ fpc = "owner" /\ ReadWorkload(ref.name, ref.uid, left) /\ UNCHANGED rsCache

ReadStatefulSet(l) ==
  /\ fpc = "walk" /\ l \in left /\ OwnerOf[l.pod] \in StatefulSets
  /\ ReadWorkload(OwnerOf[l.pod], l.uid, left \ {l}) /\ UNCHANGED rsCache

AllResolved ==
  /\ fpc = "walk" /\ left = {}
  /\ fpc' = "found"
  /\ UNCHANGED <<objectVars, attempt, left, ref, rsCache, wlCache, found, listed,
                 touched, changes>>

\* A call fails: a transient error starts the whole discovery again while there
\* are attempts, any other error or the end of the drain's context ends it.
CallFails ==
  /\ \/ fpc \in {"list", "owner"}
     \/ fpc = "walk" /\ left # {}
  /\ \/ attempt < MaxAttempts /\ fpc' = "list" /\ attempt' = attempt + 1
     \/ fpc' = "failed" /\ UNCHANGED attempt
  /\ left' = {} /\ ref' = NoRef /\ found' = {} /\ listed' = {}
  /\ UNCHANGED <<objectVars, rsCache, wlCache, touched, changes>>

FindForNode ==
  \/ List \/ ReadDeployment \/ AllResolved
  \/ \E l \in left : PassOver(l) \/ ReadReplicaSet(l) \/ ReadStatefulSet(l)

FinderInit ==
  /\ object = [n \in Workloads \cup ReplicaSets |-> [uid |-> 1, live |-> TRUE]]
  /\ controller = [r \in ReplicaSets |-> 1]
  /\ pods = [p \in Pods |-> [uid |-> 1, phase |-> "active"]]
  /\ fpc = "idle" /\ attempt = 1 /\ left = {} /\ ref = NoRef
  /\ rsCache = <<>> /\ wlCache = <<>> /\ found = {}
  /\ listed = {} /\ touched = {} /\ changes = 0

(***************************************************************************)
(* Properties.                                                             *)
(***************************************************************************)
\* The workload a listed pod belongs to, if its references hold now.
Owner(l) ==
  IF OwnerOf[l.pod] \in ReplicaSets
  THEN [name |-> DeploymentOf[OwnerOf[l.pod]], uid |-> controller[OwnerOf[l.pod]]]
  ELSE [name |-> OwnerOf[l.pod], uid |-> l.uid]
Chain(l) == {OwnerOf[l.pod], Owner(l).name}
Holds(l) ==
  /\ OwnerOf[l.pod] # Other /\ Live(OwnerOf[l.pod], l.uid)
  /\ Live(Owner(l).name, Owner(l).uid)

\* Discovery finds the workload of every listed pod whose owners stay as they were
\* from the list on, whatever happens to others meanwhile and however often it had
\* to start again; and it finds nothing else: a workload found is found once, is
\* the live one unless it has changed since, and one of its pods was listed
\* (workload.go:94-150, 177-216; drain_phases.go:34).
DiscoveryExact ==
  fpc = "found" =>
    /\ \A l \in listed : Holds(l) /\ Chain(l) \cap touched = {} => Owner(l) \in found
    /\ \A w \in found :
         /\ w.name \notin touched => Live(w.name, w.uid)
         /\ \A v \in found : v.name = w.name => v = w
         /\ \E l \in listed :
              /\ Owner(l).name = w.name
              /\ Chain(l) \cap touched = {} => Holds(l)
================================================================================
