----------------------------- MODULE PrepareProofs -----------------------------
(***************************************************************************)
(* Proofs about Prepare for any layers, workloads, specs and pods: what    *)
(* the options of a command that goes on are, what discovery finds in a    *)
(* cluster that changes under it, and what the pre-flight checks vouch for *)
(* when the node is cordoned.                                              *)
(***************************************************************************)
EXTENDS Prepare, TLAPS

(***************************************************************************)
(* The options.                                                            *)
(***************************************************************************)
\* --skip-daemon-sets, the old name of a flag, is not used.
NoAlias == \A flags \in CommandLines : DOMAIN flags \subseteq Scalars

\* The options that are modelled.
LEMMA ScalarNames == Scalars = {"preflight", "nodeConcurrency", "ignoreDaemonsets"}
BY DEF Scalars, builtIn

\* A choice of the least of some numbers is the least.
LEMMA LeastIsChosen ==
  ASSUME NEW S \in SUBSET Nat, NEW k \in S, \A j \in S : k <= j
  PROVE  (CHOOSE i \in S : \A j \in S : i <= j) = k
<1> DEFINE c == CHOOSE i \in S : \A j \in S : i <= j
<1>1. c \in S /\ \A j \in S : c <= j
  OBVIOUS
<1>2. c <= k /\ k <= c /\ c \in Nat /\ k \in Nat
  BY <1>1
<1> HIDE DEF c
<1>3. c = k
  BY <1>2
<1> QED
  BY <1>3 DEF c

\* Without the alias an option has its flag's value, or the built-in one.
LEMMA ParsedFlag ==
  ASSUME NEW flags, DOMAIN flags \subseteq Scalars, NEW o \in Scalars
  PROVE  /\ o \in DOMAIN flags => parsed(flags)[o] = flags[o]
         /\ o \notin DOMAIN flags => parsed(flags)[o] = builtIn[o]
         /\ {setsOption(f) : f \in DOMAIN flags} = DOMAIN flags
<1> DEFINE given == {f \in DOMAIN flags : setsOption(f) = o}
<1>1. \A f \in DOMAIN flags : setsOption(f) = f
  BY ScalarNames DEF setsOption
<1>2. given = {o} \cap DOMAIN flags
  BY <1>1
<1>3. parsed(flags)[o] =
        IF given = {} THEN builtIn[o] ELSE flags[CHOOSE f \in given : TRUE]
  BY DEF parsed
<1>4. o \in DOMAIN flags => given = {o} /\ (CHOOSE f \in given : TRUE) = o
  BY <1>2
<1>5. o \notin DOMAIN flags => given = {}
  BY <1>2
<1>6. {setsOption(f) : f \in DOMAIN flags} = DOMAIN flags
  BY <1>1
<1> HIDE DEF given
<1> QED
  BY <1>3, <1>4, <1>5, <1>6

\* Applying the layers one after the other gives every option the value that the
\* documented precedence names.
LEMMA LayersGiveDocumented ==
  ASSUME NEW i \in Invocations, DOMAIN i.flags \subseteq Scalars, NEW o \in Scalars
  PROVE  ApplyConfig(i)[o] = Documented(i, o)
<1> DEFINE changed == DOMAIN i.flags
           p == parsed(i.flags)
           l1 == defaultsLayer(i)
           l2 == modeLayer(i)
           l3 == profileLayer(i)
           a1 == ApplyProfileValues(p, changed, l1)
           a2 == ApplyProfileValues(a1, changed, l2)
           a3 == ApplyProfileValues(a2, changed, l3)
           setBy == {k \in 1..5 : o \in DOMAIN OnTop(i)[k]}
           top == CHOOSE k \in setBy : \A j \in setBy : k <= j
<1>1. ApplyConfig(i) = a3
  BY DEF ApplyConfig, layersInOrder
<1>2. /\ a1[o] = IF o \in DOMAIN l1 \ changed THEN l1[o] ELSE p[o]
      /\ a2[o] = IF o \in DOMAIN l2 \ changed THEN l2[o] ELSE a1[o]
      /\ a3[o] = IF o \in DOMAIN l3 \ changed THEN l3[o] ELSE a2[o]
  BY DEF ApplyProfileValues
<1>3. /\ OnTop(i)[2] = l3 /\ OnTop(i)[3] = l2 /\ OnTop(i)[4] = l1 /\ OnTop(i)[5] = builtIn
      /\ OnTop(i)[1] = [n \in {setsOption(f) : f \in changed} |-> p[n]]
  BY DEF OnTop
<1>4. DOMAIN OnTop(i)[1] = changed
  BY <1>3, ParsedFlag
<1>5. o \in changed => OnTop(i)[1][o] = p[o]
  BY <1>3, ParsedFlag
<1>6. setBy \in SUBSET Nat
  OBVIOUS
<1>7. Documented(i, o) = OnTop(i)[top][o]
  BY DEF Documented
<1>8. 5 \in setBy
  BY <1>3 DEF Scalars
<1>10. \A k \in 1..5 : k \in setBy <=> o \in DOMAIN OnTop(i)[k]
  OBVIOUS
<1>13. o \notin changed => p[o] = builtIn[o]
  BY ParsedFlag
<1> HIDE DEF a1, a2, a3, p, l1, l2, l3, setBy
<1>9. \A k \in setBy : k \in {1, 2, 3, 4, 5}
  BY DEF setBy
<1>11. CASE o \in changed
  <2>1. top = 1
    BY <1>4, <1>6, <1>9, <1>10, <1>11, LeastIsChosen
  <2> QED
    BY <1>1, <1>2, <1>5, <1>7, <1>11, <2>1
<1>12. CASE o \notin changed
  <2>1. 1 \notin setBy /\ p[o] = builtIn[o]
    BY <1>4, <1>10, <1>12, <1>13
  <2>2. CASE o \in DOMAIN l3
    <3>1. top = 2
      BY <1>3, <1>6, <1>9, <1>10, <2>1, <2>2, LeastIsChosen
    <3> QED
      BY <1>1, <1>2, <1>3, <1>7, <1>12, <2>2, <3>1
  <2>3. CASE o \notin DOMAIN l3 /\ o \in DOMAIN l2
    <3>1. top = 3
      BY <1>3, <1>6, <1>9, <1>10, <2>1, <2>3, LeastIsChosen
    <3> QED
      BY <1>1, <1>2, <1>3, <1>7, <1>12, <2>3, <3>1
  <2>4. CASE o \notin DOMAIN l3 /\ o \notin DOMAIN l2 /\ o \in DOMAIN l1
    <3>1. top = 4
      BY <1>3, <1>6, <1>9, <1>10, <2>1, <2>4, LeastIsChosen
    <3> QED
      BY <1>1, <1>2, <1>3, <1>7, <1>12, <2>4, <3>1
  <2>5. CASE o \notin DOMAIN l3 /\ o \notin DOMAIN l2 /\ o \notin DOMAIN l1
    <3>1. top = 5
      BY <1>3, <1>6, <1>8, <1>9, <1>10, <2>1, <2>5, LeastIsChosen
    <3> QED
      BY <1>1, <1>2, <1>3, <1>7, <1>12, <2>1, <2>5, <3>1
  <2> QED
    BY <2>2, <2>3, <2>4, <2>5
<1> QED
  BY <1>11, <1>12

OptionsInv ==
  /\ stage = "configure" => inv \in Invocations
  /\ OptionsAsDocumented

\* Options are set once, from the invocation, and kept.
LEMMA OptionsStep ==
  ASSUME NoAlias, OptionsInv, [PrepareNext]_allPrepareVars
  PROVE  OptionsInv'
<1>1. CASE Configure
  <2> USE <1>1 DEF Configure, acceptable
  <2>1. stage' # "configure" /\ inv' = inv
    OBVIOUS
  <2>2. SUFFICES ASSUME stage' = "resolve" PROVE OptionsAsDocumented'
    BY <2>1 DEF OptionsInv, OptionsAsDocumented
  <2>3. inv \in Invocations /\ ~configFails(inv) /\ opts' = ApplyConfig(inv)
    BY <2>2 DEF OptionsInv
  <2>4. DOMAIN inv.flags \subseteq Scalars
    BY <2>3 DEF NoAlias, Invocations
  <2>5. \A o \in Scalars : opts'[o] = Documented(inv', o)
    BY <2>1, <2>3, <2>4, LayersGiveDocumented
  <2>6. /\ inv.mode # "unknown"
        /\ inv.profile # None => inv.file = "read" /\ inv.profile \in DOMAIN inv.profiles
    BY <2>3, OptionsAssumption DEF configFails, loadFails, Invocations, BuiltinDrainModes
  <2> QED
    BY <2>1, <2>5, <2>6 DEF OptionsAsDocumented
<1>2. CASE ~Configure /\ stage' \notin {"configure", "resolve"}
  BY <1>2 DEF OptionsInv, OptionsAsDocumented
<1>3. CASE UNCHANGED allPrepareVars
  BY <1>3 DEF OptionsInv, OptionsAsDocumented, allPrepareVars, prepareVars
<1>4. ASSUME PrepareNext, ~Configure PROVE stage' \notin {"configure", "resolve"}
  BY <1>4 DEF PrepareNext, ResolveNode, DiscoverWorkloads, DiscoveryEnds, Verdict, Inspect,
              InspectFails, ClusterMoves, SpecChanged, prepareVars
<1> QED
  BY <1>1, <1>2, <1>3, <1>4

\* OptionsAsDocumented for any layers and command lines that do not use the old name
\* of a flag: flag, profile, mode and defaults are laid over one another in the
\* documented order, and unknown names are refused (app.go:293-343, 386-444).
THEOREM PrepareOptionsDocumented ==
  ASSUME NoAlias
  PROVE  PrepareSpec => []OptionsAsDocumented
<1>1. PrepareInit => OptionsInv
  BY DEF PrepareInit, OptionsInv, OptionsAsDocumented
<1>2. OptionsInv /\ [PrepareNext]_allPrepareVars => OptionsInv'
  BY OptionsStep
<1>3. OptionsInv => OptionsAsDocumented
  BY DEF OptionsInv
<1> QED
  BY <1>1, <1>2, <1>3, PTL DEF PrepareSpec

(***************************************************************************)
(* What the variables of discovery hold.                                   *)
(***************************************************************************)
ObjectTypes ==
  /\ object \in [Workloads \cup ReplicaSets -> [uid : Uids, live : BOOLEAN]]
  /\ controller \in [ReplicaSets -> Uids \cup {NoUid}]
  /\ pods \in [Pods -> [uid : Uids, phase : {"active", "terminal", "gone"}]]

WalkTypes ==
  /\ fpc \in {"idle", "list", "walk", "owner", "found", "failed"}
  /\ attempt \in 1..MaxAttempts
  /\ left \subseteq listed /\ listed \subseteq [pod : Pods, uid : Uids]
  /\ fpc \notin {"walk", "owner"} => left = {}
  /\ fpc = "owner" => ref \in [name : Deployments, uid : Uids]
  /\ DOMAIN rsCache \subseteq ReplicaSets
  /\ \A r \in DOMAIN rsCache : rsCache[r] \in [uid : Uids, controller : Uids \cup {NoUid}]
  /\ DOMAIN wlCache \subseteq Workloads
  /\ \A n \in DOMAIN wlCache : wlCache[n] \in Uids
  /\ found \subseteq [name : Workloads, uid : Uids]

FinderTypes == ObjectTypes /\ WalkTypes

\* The kinds of objects have different names.
LEMMA NamesApart ==
  /\ \A r \in ReplicaSets : DeploymentOf[r] \in Workloads /\ DeploymentOf[r] \in Deployments
  /\ \A p \in Pods : OwnerOf[p] \in ReplicaSets \cup StatefulSets \cup {Other}
  /\ Deployments \subseteq Workloads /\ StatefulSets \subseteq Workloads
  /\ ReplicaSets \cap Workloads = {} /\ Deployments \cap StatefulSets = {}
  /\ Other \notin Workloads \cup ReplicaSets
BY FinderAssumption DEF ReplicaSets, Workloads, Pods

\* Deleting an object keeps the types,
LEMMA DeletedTypes ==
  ASSUME FinderTypes, NEW n \in Workloads \cup ReplicaSets, Deleted(n)
  PROVE  FinderTypes'
<1>1. ObjectTypes'
  <2>1. object[n] \in [uid : Uids, live : BOOLEAN]
    BY DEF FinderTypes, ObjectTypes
  <2>2. [object[n] EXCEPT !.live = FALSE] \in [uid : Uids, live : BOOLEAN]
    BY <2>1
  <2>3. object' = [object EXCEPT ![n] = [object[n] EXCEPT !.live = FALSE]]
    BY DEF Deleted
  <2> QED
    BY <2>2, <2>3 DEF FinderTypes, ObjectTypes, Deleted
<1>2. WalkTypes'
  BY DEF FinderTypes, WalkTypes, Deleted, Change, finderVars
<1> QED
  BY <1>1, <1>2 DEF FinderTypes

\* creating one does,
LEMMA CreatedTypes ==
  ASSUME FinderTypes, NEW n \in Workloads \cup ReplicaSets, Created(n)
  PROVE  FinderTypes'
<1>1. object' \in [Workloads \cup ReplicaSets -> [uid : Uids, live : BOOLEAN]]
  <2>1. object[n].uid + 1 \in Uids
    BY FinderAssumption DEF FinderTypes, ObjectTypes, Created, Uids
  <2> QED
    BY <2>1 DEF FinderTypes, ObjectTypes, Created
<1>2. controller' \in [ReplicaSets -> Uids \cup {NoUid}]
  BY NamesApart DEF FinderTypes, ObjectTypes, Created
<1>3. WalkTypes'
  BY DEF FinderTypes, WalkTypes, Created, Change, finderVars
<1> QED
  BY <1>1, <1>2, <1>3 DEF FinderTypes, ObjectTypes, Created

\* and so does whatever the cluster does.
LEMMA ClusterTypes ==
  ASSUME FinderTypes, ClusterChanges
  PROVE  FinderTypes'
<1>1. ASSUME NEW r \in ReplicaSets, Orphaned(r) \/ Adopted(r) PROVE FinderTypes'
  <2>1. controller' \in [ReplicaSets -> Uids \cup {NoUid}]
    BY <1>1, NamesApart DEF FinderTypes, ObjectTypes, Orphaned, Adopted
  <2>2. WalkTypes'
    BY <1>1 DEF FinderTypes, WalkTypes, Orphaned, Adopted, Change, finderVars
  <2> QED
    BY <1>1, <2>1, <2>2 DEF FinderTypes, ObjectTypes, Orphaned, Adopted
<1>2. ASSUME NEW p \in Pods, PodEnds(p) \/ PodCreated(p) PROVE FinderTypes'
  <2>1. pods' \in [Pods -> [uid : Uids, phase : {"active", "terminal", "gone"}]]
    BY <1>2, NamesApart DEF FinderTypes, ObjectTypes, PodEnds, PodCreated
  <2>2. WalkTypes'
    BY <1>2 DEF FinderTypes, WalkTypes, PodEnds, PodCreated, Change, finderVars
  <2> QED
    BY <1>2, <2>1, <2>2 DEF FinderTypes, ObjectTypes, PodEnds, PodCreated
<1> QED
  BY <1>1, <1>2, DeletedTypes, CreatedTypes DEF ClusterChanges

\* Reading a workload, from the server or the cache, keeps the types.
LEMMA ReadWorkloadTypes ==
  ASSUME FinderTypes, NEW n \in Workloads, NEW uid \in Uids, NEW rest \in SUBSET left,
         ReadWorkload(n, uid, rest), UNCHANGED rsCache
  PROVE  FinderTypes'
<1>1. ObjectTypes'
  BY DEF FinderTypes, ObjectTypes, ReadWorkload, Walk, Unresolved, objectVars
<1>2. /\ fpc' = "walk" /\ left' = rest
      /\ UNCHANGED <<attempt, listed>>
  BY DEF ReadWorkload, Walk, Unresolved
<1>3. CASE UNCHANGED <<wlCache, found>>
  BY <1>1, <1>2, <1>3 DEF FinderTypes, WalkTypes
<1>4. CASE ~UNCHANGED <<wlCache, found>>
  <2> DEFINE known == IF n \in DOMAIN wlCache THEN wlCache[n] ELSE uid
  <2>1. known \in Uids
    BY DEF FinderTypes, WalkTypes
  <2>2. /\ wlCache' = With(wlCache, n, known)
        /\ found' \subseteq found \cup {[name |-> n, uid |-> known]}
    BY <1>4 DEF ReadWorkload, Unresolved
  <2>3. [name |-> n, uid |-> known] \in [name : Workloads, uid : Uids]
    BY <2>1
  <2> HIDE DEF known
  <2>4. /\ DOMAIN wlCache' \subseteq Workloads
        /\ \A m \in DOMAIN wlCache' : wlCache'[m] \in Uids
    <3>1. /\ DOMAIN wlCache' = DOMAIN wlCache \cup {n} /\ wlCache'[n] = known
          /\ \A m \in DOMAIN wlCache \ {n} : wlCache'[m] = wlCache[m]
      BY <2>2 DEF With
    <3> QED
      BY <2>1, <3>1 DEF FinderTypes, WalkTypes
  <2> QED
    BY <1>1, <1>2, <2>2, <2>3, <2>4 DEF FinderTypes, WalkTypes
<1> QED
  BY <1>3, <1>4

\* So does every step of the walk.
LEMMA FindTypes ==
  ASSUME FinderTypes, FindForNode \/ CallFails
  PROVE  FinderTypes'
<1>1. CASE List
  BY <1>1 DEF FinderTypes, ObjectTypes, WalkTypes, List, emptyCaches, objectVars
<1>2. CASE ReadDeployment
  BY <1>2, NamesApart, ReadWorkloadTypes DEF FinderTypes, WalkTypes, ReadDeployment
<1>3. CASE AllResolved
  BY <1>3 DEF FinderTypes, ObjectTypes, WalkTypes, AllResolved, objectVars
<1>4. ASSUME NEW l \in left, PassOver(l) PROVE FinderTypes'
  BY <1>4 DEF FinderTypes, ObjectTypes, WalkTypes, PassOver, Unresolved, Walk, objectVars
<1>5. ASSUME NEW l \in left, ReadReplicaSet(l) PROVE FinderTypes'
  <2> DEFINE r == OwnerOf[l.pod]
             rs == IF r \in DOMAIN rsCache THEN rsCache[r]
                   ELSE [uid |-> object[r].uid, controller |-> controller[r]]
  <2>1. r \in ReplicaSets
    BY <1>5 DEF ReadReplicaSet
  <2>2. rs \in [uid : Uids, controller : Uids \cup {NoUid}]
    BY <2>1 DEF FinderTypes, ObjectTypes, WalkTypes
  <2>3. rsCache' = rsCache \/ rsCache' = With(rsCache, r, rs)
    BY <1>5 DEF ReadReplicaSet
  <2>4. \/ Unresolved(left \ {l})
        \/ /\ rs.controller # NoUid /\ ref' = [name |-> DeploymentOf[r], uid |-> rs.controller]
           /\ left' = left \ {l} /\ fpc' = "owner"
           /\ UNCHANGED <<objectVars, attempt, wlCache, found, listed, touched, changes>>
    BY <1>5 DEF ReadReplicaSet
  <2> HIDE DEF r, rs
  <2>5. /\ DOMAIN rsCache' \subseteq ReplicaSets
        /\ \A q \in DOMAIN rsCache' :
             rsCache'[q] \in [uid : Uids, controller : Uids \cup {NoUid}]
    <3>1. CASE rsCache' = rsCache
      BY <3>1 DEF FinderTypes, WalkTypes
    <3>2. CASE rsCache' = With(rsCache, r, rs)
      <4>1. /\ DOMAIN rsCache' = DOMAIN rsCache \cup {r} /\ rsCache'[r] = rs
            /\ \A q \in DOMAIN rsCache \ {r} : rsCache'[q] = rsCache[q]
        BY <3>2 DEF With
      <4> QED
        BY <2>1, <2>2, <4>1 DEF FinderTypes, WalkTypes
    <3> QED
      BY <2>3, <3>1, <3>2
  <2>6. rs.controller # NoUid =>
          [name |-> DeploymentOf[r], uid |-> rs.controller] \in [name : Deployments, uid : Uids]
    BY <2>1, <2>2, NamesApart
  <2> QED
    BY <2>4, <2>5, <2>6
    DEF FinderTypes, ObjectTypes, WalkTypes, Unresolved, Walk, objectVars
<1>6. ASSUME NEW l \in left, ReadStatefulSet(l) PROVE FinderTypes'
  BY <1>6, NamesApart, ReadWorkloadTypes DEF FinderTypes, WalkTypes, ReadStatefulSet
<1>7. CASE CallFails
  BY <1>7, FinderAssumption DEF FinderTypes, ObjectTypes, WalkTypes, CallFails, objectVars
<1> QED
  BY <1>1, <1>2, <1>3, <1>4, <1>5, <1>6, <1>7 DEF FindForNode

(***************************************************************************)
(* Type correctness.                                                       *)
(***************************************************************************)
HasTypes(o) ==
  /\ o = [n \in Scalars |-> o[n]]
  /\ o["nodeConcurrency"] \in Int
  /\ o["ignoreDaemonsets"] \in BOOLEAN

\* A layer of well-typed values keeps the options well typed.
LEMMA LayerTypes ==
  ASSUME NEW o, HasTypes(o), NEW changed, NEW layer, Typed(layer)
  PROVE  HasTypes(ApplyProfileValues(o, changed, layer))
<1> DEFINE a == ApplyProfileValues(o, changed, layer)
<1>1. a = [n \in Scalars |-> IF n \in DOMAIN layer \ changed THEN layer[n] ELSE o[n]]
  BY DEF ApplyProfileValues
<1>2. a["nodeConcurrency"] \in Int
  BY <1>1, ScalarNames DEF HasTypes, Typed
<1>3. a["ignoreDaemonsets"] \in BOOLEAN
  BY <1>1, ScalarNames DEF HasTypes, Typed
<1>4. a = [n \in Scalars |-> a[n]]
  BY <1>1
<1> QED
  BY <1>2, <1>3, <1>4 DEF HasTypes

\* What the command line gives is well typed,
LEMMA ParsedTypes ==
  ASSUME NEW flags \in CommandLines
  PROVE  HasTypes(parsed(flags))
<1>1. Typed(flags)
  BY OptionsAssumption
<1> DEFINE given(o) == {f \in DOMAIN flags : setsOption(f) = o}
           c(o) == CHOOSE f \in given(o) : TRUE
<1>2. \A o \in Scalars : given(o) # {} => c(o) \in given(o)
  OBVIOUS
<1>3. \A o \in Scalars : \A f \in given(o) : f \in DOMAIN flags /\ setsOption(f) = o
  OBVIOUS
<1>4. \A o \in Scalars : parsed(flags)[o] = IF given(o) = {} THEN builtIn[o] ELSE flags[c(o)]
  BY DEF parsed
<1>5. parsed(flags) = [o \in Scalars |-> parsed(flags)[o]]
  BY DEF parsed
<1>9. \A f : setsOption(f) = f \/ (f = "skipDaemonSets" /\ setsOption(f) = "ignoreDaemonsets")
  BY DEF setsOption
<1> HIDE DEF given, c
<1>10. \A o \in Scalars : given(o) # {} =>
         /\ c(o) \in DOMAIN flags
         /\ c(o) = o \/ (c(o) = "skipDaemonSets" /\ o = "ignoreDaemonsets")
  BY <1>2, <1>3, <1>9
<1>7. parsed(flags)["nodeConcurrency"] \in Int
  <2> DEFINE o == "nodeConcurrency"
  <2>1. o \in Scalars /\ builtIn[o] \in Int
    BY ScalarNames DEF builtIn
  <2>2. ASSUME given(o) # {} PROVE flags[c(o)] \in Int
    BY <1>1, <1>10, <2>1, <2>2 DEF Typed
  <2>3. parsed(flags)[o] = builtIn[o] \/ (given(o) # {} /\ parsed(flags)[o] = flags[c(o)])
    BY <1>4, <2>1
  <2> QED
    BY <2>1, <2>2, <2>3
<1>8. parsed(flags)["ignoreDaemonsets"] \in BOOLEAN
  <2> DEFINE o == "ignoreDaemonsets"
  <2>1. o \in Scalars
    BY ScalarNames
  <2>4. builtIn[o] \in BOOLEAN
    BY DEF builtIn
  <2>2. ASSUME given(o) # {} PROVE flags[c(o)] \in BOOLEAN
    BY <1>1, <1>10, <2>1, <2>2 DEF Typed
  <2>3. parsed(flags)[o] = builtIn[o] \/ (given(o) # {} /\ parsed(flags)[o] = flags[c(o)])
    BY <1>4, <2>1
  <2> QED
    BY <2>2, <2>3, <2>4
<1> QED
  BY <1>5, <1>7, <1>8 DEF HasTypes

\* and so is what the layers make of it.
LEMMA ConfiguredTypes ==
  ASSUME NEW i \in Invocations, ~configFails(i)
  PROVE  HasTypes(ApplyConfig(i))
<1>1. Typed(defaultsLayer(i))
  BY OptionsAssumption DEF Invocations, defaultsLayer, Typed
<1>2. Typed(modeLayer(i))
  <2>1. \A m \in DOMAIN BuiltinDrainModes : Typed(BuiltinDrainModes[m])
    <3>1. Typed([preflight |-> "strict", nodeConcurrency |-> 1])
      BY DEF Typed
    <3>2. Typed([preflight |-> "warn", nodeConcurrency |-> 5])
      BY DEF Typed
    <3>3. Typed([preflight |-> "warn"])
      BY DEF Typed
    <3> QED
      BY <3>1, <3>2, <3>3 DEF BuiltinDrainModes
  <2>2. CASE i.mode = None
    BY <2>2 DEF modeLayer, Typed
  <2> QED
    BY <2>1, <2>2 DEF configFails, modeLayer
<1>3. Typed(profileLayer(i))
  <2>1. CASE i.profile = None
    BY <2>1 DEF profileLayer, Typed
  <2>2. CASE i.profile # None
    <3>1. i.profile \in DOMAIN i.profiles /\ i.profiles \in [{"own"} -> Layers] \cup {<<>>}
      BY <2>2 DEF configFails, Invocations
    <3>2. i.profiles \in [{"own"} -> Layers]
      BY <3>1
    <3> QED
      BY <2>2, <3>1, <3>2, OptionsAssumption DEF profileLayer
  <2> QED
    BY <2>1, <2>2
<1>4. HasTypes(parsed(i.flags))
  BY ParsedTypes DEF Invocations
<1> QED
  BY <1>1, <1>2, <1>3, <1>4, LayerTypes DEF ApplyConfig, layersInOrder

\* What the command's own variables hold.  Nothing is kept before discovery has ended,
\* and discovery is under way in its stage only.
OwnTypes ==
  /\ stage \in {"configure", "resolve", "discover", "inspect", "cordon", "risky", "refused"}
  /\ inv \in Invocations \cup {NoInvocation}
  /\ stage = "configure" => inv \in Invocations
  /\ opts \in [preflight : {"warn", "strict", "off"}, nodeConcurrency : Nat,
              ignoreDaemonsets : BOOLEAN]
  /\ uninspected \subseteq kept /\ kept \subseteq [name : Workloads, uid : Uids]
  /\ \A i \in issues : \E w \in kept : i.name = w.name
  /\ stage \in {"configure", "resolve", "discover"} => kept = {} /\ issues = {}
  /\ stage # "discover" => fpc = "idle"

SpecTypes == DOMAIN spec = Workloads /\ \A n \in Workloads : spec[n] \in Manners[n]

PrepareTypes == OwnTypes /\ SpecTypes /\ FinderTypes

\* The stronger types imply those the runs check.
LEMMA TypesSuffice == PrepareTypes => PrepareTypeOK
<1>1. OwnTypes => {i.name : i \in issues} \subseteq {w.name : w \in kept}
  BY DEF OwnTypes
<1> QED
  BY <1>1 DEF PrepareTypes, PrepareTypeOK, OwnTypes, SpecTypes, FinderTypes, ObjectTypes,
              WalkTypes

\* The types hold before the command is parsed.
LEMMA PrepareInitTypes == PrepareInit => PrepareTypes
<1> SUFFICES ASSUME PrepareInit PROVE PrepareTypes
  OBVIOUS
<1>1. 1 \in Uids /\ 1 \in 1..MaxAttempts
  BY FinderAssumption DEF Uids
<1>2. FinderTypes
  BY <1>1 DEF PrepareInit, FinderInit, FinderTypes, ObjectTypes, WalkTypes
<1>3. SpecTypes
  <2>1. \A n \in Workloads : (CHOOSE m \in Manners[n] : TRUE) \in Manners[n]
    BY PrepareAssumption
  <2> QED
    BY <2>1 DEF PrepareInit, SpecTypes
<1>4. opts \in [preflight : {"warn", "strict", "off"}, nodeConcurrency : Nat,
                ignoreDaemonsets : BOOLEAN]
  BY DEF PrepareInit, builtIn
<1>5. OwnTypes
  BY <1>4 DEF PrepareInit, FinderInit, OwnTypes
<1> QED
  BY <1>2, <1>3, <1>5 DEF PrepareTypes

\* They are about the discovery's variables only.
LEMMA FinderTypesKept == FinderTypes /\ UNCHANGED discoveryVars => FinderTypes'
BY DEF FinderTypes, ObjectTypes, WalkTypes, discoveryVars, objectVars, finderVars

\* Every step keeps the types.
LEMMA PrepareStepTypes ==
  ASSUME PrepareTypes, [PrepareNext]_allPrepareVars
  PROVE  PrepareTypes'
<1> USE DEF PrepareTypes
<1>1. CASE Configure
  <2>1. ASSUME stage' = "resolve"
        PROVE  opts' \in [preflight : {"warn", "strict", "off"}, nodeConcurrency : Nat,
                         ignoreDaemonsets : BOOLEAN]
    <3>1. /\ opts' = ApplyConfig(inv) /\ ~configFails(inv) /\ inv \in Invocations
          /\ ValidateOptions(opts')
      BY <1>1, <2>1 DEF Configure, acceptable, OwnTypes
    <3>2. HasTypes(opts')
      BY <3>1, ConfiguredTypes
    <3> QED
      BY <3>1, <3>2, ScalarNames DEF ValidateOptions, HasTypes
  <2>2. /\ stage' \in {"resolve", "refused"} /\ (stage' # "resolve" => opts' = opts)
        /\ UNCHANGED <<inv, spec, kept, uninspected, issues, discoveryVars, fpc>>
        /\ stage = "configure"
    BY <1>1 DEF Configure, discoveryVars, finderVars
  <2>3. OwnTypes'
    BY <2>1, <2>2 DEF OwnTypes
  <2> QED
    BY <2>2, <2>3, FinderTypesKept DEF SpecTypes
<1>2. CASE ResolveNode
  <2>1. opts' \in [preflight : {"warn", "strict", "off"}, nodeConcurrency : Nat,
                  ignoreDaemonsets : BOOLEAN]
    BY <1>2 DEF ResolveNode, builtIn, OwnTypes
  <2>2. OwnTypes'
    BY <1>2, <2>1 DEF ResolveNode, OwnTypes
  <2>3. 1 \in Uids
    BY FinderAssumption DEF Uids
  <2>4. controller' \in [ReplicaSets -> Uids \cup {NoUid}]
    BY <1>2, <2>3 DEF ResolveNode, FinderTypes, ObjectTypes
  <2>5. FinderTypes'
    BY <1>2, <2>4 DEF ResolveNode, OwnTypes, FinderTypes, ObjectTypes, WalkTypes
  <2> QED
    BY <1>2, <2>2, <2>5 DEF ResolveNode, SpecTypes
<1>3. CASE DiscoverWorkloads
  <2>1. FinderTypes'
    BY <1>3, FindTypes DEF DiscoverWorkloads
  <2> QED
    BY <1>3, <2>1 DEF DiscoverWorkloads, prepareVars, OwnTypes, SpecTypes
<1>4. CASE DiscoveryEnds
  <2>1. ObjectTypes'
    BY <1>4 DEF DiscoveryEnds, FinderTypes, ObjectTypes, objectVars
  <2>2. /\ DOMAIN rsCache' = {} /\ DOMAIN wlCache' = {} /\ found' = {} /\ listed' = {}
        /\ left' = {} /\ fpc' = "idle" /\ attempt' \in 1..MaxAttempts
    BY <1>4, FinderAssumption DEF DiscoveryEnds, FinderTypes, WalkTypes
  <2>3. FinderTypes'
    BY <2>1, <2>2 DEF FinderTypes, WalkTypes
  <2>4. SpecTypes'
    BY <1>4 DEF DiscoveryEnds, SpecTypes
  <2>5. /\ kept' \subseteq kept \cup found /\ uninspected' = kept'
        /\ stage' \in {"refused", "cordon", "inspect"}
        /\ issues = {} /\ issues' = {} /\ inv' = inv /\ opts' = opts /\ fpc' = "idle"
    BY <1>4 DEF DiscoveryEnds, OwnTypes
  <2>6. OwnTypes'
    BY <2>5 DEF OwnTypes, FinderTypes, WalkTypes
  <2> QED
    BY <2>3, <2>4, <2>6
<1>5. CASE Verdict
  <2>1. UNCHANGED <<inv, opts, spec, kept, uninspected, issues, discoveryVars, fpc>>
    BY <1>5 DEF Verdict, discoveryVars, finderVars
  <2>2. OwnTypes'
    BY <1>5, <2>1 DEF Verdict, OwnTypes
  <2> QED
    BY <2>1, <2>2, FinderTypesKept DEF SpecTypes
<1>6. ASSUME NEW w \in kept, Inspect(w) \/ InspectFails(w) PROVE PrepareTypes'
  <2>1. /\ stage = "inspect" /\ stage' \in {"inspect", "refused"}
        /\ uninspected' \subseteq uninspected
        /\ UNCHANGED <<inv, opts, spec, kept, discoveryVars, fpc>>
    BY <1>6 DEF Inspect, InspectFails, discoveryVars, finderVars
  <2>2. \A i \in issues' : i \in issues \/ i.name = w.name
    BY <1>6 DEF Inspect, InspectFails, noted
  <2>3. OwnTypes'
    BY <1>6, <2>1, <2>2 DEF OwnTypes
  <2> QED
    BY <2>1, <2>3, FinderTypesKept DEF SpecTypes
<1>7. CASE ClusterMoves
  <2>1. CASE stage = "discover" /\ ClusterChanges /\ UNCHANGED prepareVars
    <3>1. FinderTypes'
      BY <2>1, ClusterTypes
    <3> QED
      BY <2>1, <3>1 DEF prepareVars, OwnTypes, SpecTypes
  <2>2. ASSUME stage = "inspect", UNCHANGED prepareVars,
               NEW n \in Workloads, Deleted(n) \/ Created(n)
        PROVE  PrepareTypes'
    <3>1. FinderTypes'
      BY <2>2, DeletedTypes, CreatedTypes
    <3>2. fpc' = fpc
      BY <2>2 DEF Deleted, Created, Change, finderVars
    <3> QED
      BY <2>2, <3>1, <3>2 DEF prepareVars, OwnTypes, SpecTypes
  <2>3. ASSUME NEW n \in Workloads, SpecChanged(n) PROVE PrepareTypes'
    <3>1. FinderTypes'
      BY <2>3 DEF SpecChanged, Change, FinderTypes, ObjectTypes, WalkTypes, objectVars,
                  finderVars
    <3>2. SpecTypes'
      BY <2>3 DEF SpecChanged, SpecTypes
    <3>3. OwnTypes'
      BY <2>3 DEF SpecChanged, Change, finderVars, OwnTypes
    <3> QED
      BY <3>1, <3>2, <3>3
  <2> QED
    BY <1>7, <2>1, <2>2, <2>3 DEF ClusterMoves
<1>8. CASE UNCHANGED allPrepareVars
  <2>1. UNCHANGED <<prepareVars, discoveryVars, fpc>>
    BY <1>8 DEF allPrepareVars, discoveryVars, finderVars
  <2> QED
    BY <2>1, FinderTypesKept DEF prepareVars, OwnTypes, SpecTypes
<1> QED
  BY <1>1, <1>2, <1>3, <1>4, <1>5, <1>6, <1>7, <1>8 DEF PrepareNext

\* What the variables hold: in particular the options in effect have passed
\* ValidateOptions, wherever their values come from (app.go:194-237), and only a
\* workload that is to be restarted has findings.
THEOREM PrepareTypeCorrect == PrepareSpec => []PrepareTypeOK
<1>1. PrepareTypes /\ [PrepareNext]_allPrepareVars => PrepareTypes'
  BY PrepareStepTypes
<1> QED
  BY <1>1, PrepareInitTypes, TypesSuffice, PTL DEF PrepareSpec

(***************************************************************************)
(* What strict checks vouch for.                                           *)
(***************************************************************************)
Findings(w) == inspected(Kind(w.name), spec[w.name].replicas, spec[w.name].strategy)
Safe(w) == spec[w.name].replicas # 1 /\ spec[w.name].strategy = "RollingUpdate"

\* The checks find a risk exactly in what is not safe.
LEMMA SafeHasNoRisk ==
  ASSUME SpecTypes, NEW w \in [name : Workloads, uid : Uids]
  PROVE  Safe(w) <=> \A f \in Findings(w) : f = "Ordered"
<1> DEFINE n == w.name
           m == spec[n]
<1>1. m.replicas \in Nat /\ m.strategy \in StrategiesOf(Kind(n))
  BY PrepareAssumption DEF SpecTypes
<1>2. CASE Kind(n) = "Deployment"
  BY <1>1, <1>2 DEF Findings, Safe, inspected, preflightDeployment, singleReplica, StrategiesOf
<1>3. CASE Kind(n) = "StatefulSet"
  BY <1>1, <1>3 DEF Findings, Safe, inspected, preflightStatefulSet, singleReplica, StrategiesOf
<1> QED
  BY <1>2, <1>3 DEF Kind

\* Under strict every workload looked at has all its findings noted; and a finding is
\* one of a kept workload as it is now.  Both unless it has changed meanwhile.
StrictInv ==
  /\ stage = "inspect" /\ opts.preflight = "strict" =>
       \A w \in kept \ uninspected :
         \/ w.name \in touched
         \/ \A f \in Findings(w) : [name |-> w.name, finding |-> f] \in issues
  /\ \A i \in issues : \E w \in kept :
       i.name = w.name /\ (w.name \in touched \/ i.finding \in Findings(w))
  /\ StrictMeansNoRisk

\* A strict verdict lets no workload with a risk through.
LEMMA VerdictStrict ==
  ASSUME PrepareTypes, StrictInv, Verdict
  PROVE  StrictMeansNoRisk'
<1> USE DEF PrepareTypes, OwnTypes
<1>1. UNCHANGED <<opts, spec, kept, touched>> /\ stage = "inspect" /\ uninspected = {}
  BY DEF Verdict, discoveryVars
<1>2. riskFound <=> \E i \in issues : i.finding # "Ordered"
  BY DEF riskFound, risks
<1>3. ASSUME stage' = "cordon", opts.preflight = "strict", NEW w \in kept, w.name \notin touched
      PROVE  Safe(w)
  <2>1. \A f \in Findings(w) : [name |-> w.name, finding |-> f] \in issues
    BY <1>1, <1>3 DEF StrictInv
  <2>2. \A f \in Findings(w) : f = "Ordered"
    BY <1>2, <1>3, <2>1 DEF Verdict
  <2> QED
    BY <1>3, <2>2, SafeHasNoRisk
<1>4. ASSUME stage' = "risky"
      PROVE  opts.preflight = "strict" /\ \E w \in kept : w.name \in touched \/ ~Safe(w)
  <2>1. PICK i \in issues : i.finding # "Ordered"
    BY <1>2, <1>4 DEF Verdict
  <2>2. PICK w \in kept : w.name \in touched \/ i.finding \in Findings(w)
    BY <2>1 DEF StrictInv
  <2> QED
    BY <1>4, <2>1, <2>2, SafeHasNoRisk DEF Verdict
<1> QED
  BY <1>1, <1>3, <1>4 DEF StrictMeansNoRisk, Safe

\* An inspection adds what it saw to the report.
LEMMA InspectStrict ==
  ASSUME PrepareTypes, StrictInv, NEW w \in kept, Inspect(w) \/ InspectFails(w)
  PROVE  StrictInv'
<1>1. /\ stage = "inspect" /\ stage' \in {"inspect", "refused"}
      /\ uninspected' = uninspected \ {w}
      /\ UNCHANGED <<inv, opts, spec, kept, touched>>
  BY DEF Inspect, InspectFails, discoveryVars
<1>2. \A v : Findings(v)' = Findings(v)
  BY <1>1 DEF Findings
<1>3. CASE Inspect(w)
  <2>1. issues' = issues \cup {[name |-> w.name, finding |-> f] : f \in Findings(w)}
    BY <1>3 DEF Inspect, noted, Findings
  <2>2. \A i \in issues' : \E v \in kept :
          i.name = v.name /\ (v.name \in touched \/ i.finding \in Findings(v))
    BY <2>1 DEF StrictInv
  <2>3. stage' = "inspect" /\ opts'.preflight = "strict" =>
          \A v \in kept \ uninspected' :
            \/ v.name \in touched
            \/ \A f \in Findings(v) : [name |-> v.name, finding |-> f] \in issues'
    BY <1>1, <2>1 DEF StrictInv
  <2> QED
    BY <1>1, <1>2, <2>2, <2>3 DEF StrictInv, StrictMeansNoRisk
<1>4. CASE InspectFails(w)
  <2>1. issues' = issues /\ (opts.preflight = "strict" => stage' = "refused")
    BY <1>4 DEF InspectFails
  <2> QED
    BY <1>1, <1>2, <2>1 DEF StrictInv, StrictMeansNoRisk
<1> QED
  BY <1>3, <1>4

\* Every step keeps the report true to what was inspected.
LEMMA StrictStep ==
  ASSUME PrepareTypes, StrictInv, [PrepareNext]_allPrepareVars
  PROVE  StrictInv'
<1> USE DEF PrepareTypes
<1>1. ASSUME stage \in {"configure", "resolve", "discover"}, UNCHANGED <<kept, issues>>,
             stage' \in {"resolve", "discover", "refused"}
      PROVE  StrictInv'
  BY <1>1 DEF OwnTypes, StrictInv, StrictMeansNoRisk
<1>2. CASE Configure \/ ResolveNode
  BY <1>1, <1>2 DEF Configure, ResolveNode
<1>3. CASE DiscoverWorkloads
  BY <1>1, <1>3 DEF DiscoverWorkloads, prepareVars
<1>4. CASE DiscoveryEnds
  <2>1. /\ issues = {} /\ issues' = {} /\ kept' = uninspected'
        /\ stage' \in {"refused", "cordon", "inspect"}
        /\ stage' = "cordon" => opts'.preflight = "off"
    BY <1>4 DEF DiscoveryEnds, OwnTypes
  <2> QED
    BY <2>1 DEF StrictInv, StrictMeansNoRisk
<1>5. CASE Verdict
  <2>1. /\ UNCHANGED <<spec, kept, issues, touched>> /\ stage' \in {"risky", "cordon"}
        /\ \A v : Findings(v)' = Findings(v)
    BY <1>5 DEF Verdict, discoveryVars, Findings
  <2> QED
    BY <1>5, <2>1, VerdictStrict DEF StrictInv
<1>6. CASE \E w \in kept : Inspect(w) \/ InspectFails(w)
  BY <1>6, InspectStrict
<1>7. CASE ClusterMoves
  <2>1. CASE stage = "discover" /\ UNCHANGED prepareVars
    BY <1>1, <2>1 DEF prepareVars
  <2>2. ASSUME stage = "inspect", NEW n \in Workloads,
               SpecChanged(n) \/ ((Deleted(n) \/ Created(n)) /\ UNCHANGED prepareVars)
        PROVE  StrictInv'
    <3>1. /\ touched' = touched \cup {n}
          /\ UNCHANGED <<stage, opts, kept, uninspected, issues>>
          /\ \A v \in kept : v.name # n => spec'[v.name] = spec[v.name]
      BY <2>2 DEF SpecChanged, Deleted, Created, Change, prepareVars, OwnTypes, SpecTypes
    <3>2. \A v \in kept : v.name \in touched' \/ Findings(v)' = Findings(v)
      BY <3>1 DEF Findings
    <3> QED
      BY <2>2, <3>1, <3>2 DEF StrictInv, StrictMeansNoRisk
  <2> QED
    BY <1>7, <2>1, <2>2 DEF ClusterMoves
<1>8. CASE UNCHANGED allPrepareVars
  BY <1>8 DEF allPrepareVars, prepareVars, discoveryVars, StrictInv, StrictMeansNoRisk, Findings
<1> QED
  BY <1>2, <1>3, <1>4, <1>5, <1>6, <1>7, <1>8 DEF PrepareNext

\* StrictMeansNoRisk for any workloads, specs and filters: the workloads that reach
\* the cordon under --preflight=strict, and only those, are the ones without a risk,
\* but for what changed after discovery (preflight.go:69-160, drain_phases.go:54-61).
THEOREM PrepareStrictMeansNoRisk == PrepareSpec => []StrictMeansNoRisk
<1>1. PrepareInit => StrictInv
  BY DEF PrepareInit, StrictInv, StrictMeansNoRisk
<1>2. PrepareTypes /\ StrictInv /\ [PrepareNext]_allPrepareVars => (PrepareTypes /\ StrictInv)'
  BY PrepareStepTypes, StrictStep
<1>3. StrictInv => StrictMeansNoRisk
  BY DEF StrictInv
<1> QED
  BY <1>1, <1>2, <1>3, PrepareInitTypes, PTL DEF PrepareSpec

(***************************************************************************)
(* What discovery finds.                                                   *)
(***************************************************************************)
\* The caches hold what is there, but for what has changed since the list.
CachesCurrent ==
  /\ \A r \in DOMAIN rsCache \ touched :
       Live(r, rsCache[r].uid) /\ controller[r] = rsCache[r].controller
  /\ \A n \in DOMAIN wlCache \ touched : Live(n, wlCache[n])

FoundIsCached ==
  /\ \A w \in found : w.name \in DOMAIN wlCache /\ wlCache[w.name] = w.uid
  /\ \A n \in DOMAIN wlCache : [name |-> n, uid |-> wlCache[n]] \in found

Untouched(l) == Chain(l) \cap touched = {}

\* A pod left behind whose owners hold is resolved, or its Deployment is read next.
NoneMissed ==
  \A l \in listed \ left : Holds(l) /\ Untouched(l) =>
    Owner(l) \in found \/ (fpc = "owner" /\ Owner(l) = ref)

\* Some listed pod belongs to each workload found, and to the one about to be read.
AllBelong ==
  \A w \in found : \E l \in listed :
    Owner(l).name = w.name /\ (Untouched(l) => Holds(l))
RefBelongs ==
  fpc = "owner" => \E l \in listed :
    /\ OwnerOf[l.pod] \in ReplicaSets /\ Owner(l).name = ref.name
    /\ Untouched(l) => Live(OwnerOf[l.pod], l.uid) /\ Owner(l) = ref

DiscoveryInv ==
  fpc \in {"walk", "owner", "found"} =>
    CachesCurrent /\ FoundIsCached /\ NoneMissed /\ AllBelong /\ RefBelongs

\* At the end of the walk the invariant is the property.
LEMMA DiscoveryInvSuffices == FinderTypes /\ DiscoveryInv => DiscoveryExact
<1> SUFFICES ASSUME FinderTypes, DiscoveryInv, fpc = "found"
             PROVE  DiscoveryExact
  BY DEF DiscoveryExact
<1>1. left = {} /\ found \subseteq [name : Workloads, uid : Uids]
  BY DEF FinderTypes, WalkTypes
<1>2. \A l \in listed : Holds(l) /\ Chain(l) \cap touched = {} => Owner(l) \in found
  BY <1>1 DEF DiscoveryInv, NoneMissed, Untouched
<1>3. \A w \in found : w.name \notin touched => Live(w.name, w.uid)
  BY DEF DiscoveryInv, CachesCurrent, FoundIsCached
<1>4. \A v, w \in found : v.name = w.name => v = w
  BY <1>1 DEF DiscoveryInv, FoundIsCached
<1>5. \A w \in found : \E l \in listed :
        Owner(l).name = w.name /\ (Chain(l) \cap touched = {} => Holds(l))
  BY DEF DiscoveryInv, AllBelong, Untouched
<1> QED
  BY <1>2, <1>3, <1>4, <1>5 DEF DiscoveryExact

\* The cluster touches what it changes.
LEMMA ClusterTouches ==
  ASSUME FinderTypes, ClusterChanges
  PROVE  /\ UNCHANGED finderVars /\ touched \subseteq touched'
         /\ \A n \in (Workloads \cup ReplicaSets) \ touched' : object'[n] = object[n]
         /\ \A r \in ReplicaSets \ touched' : controller'[r] = controller[r]
<1> USE DEF FinderTypes, ObjectTypes, Change
<1>1. ASSUME NEW n \in Workloads \cup ReplicaSets, Deleted(n)
      PROVE  /\ UNCHANGED <<finderVars, controller>> /\ touched' = touched \cup {n}
             /\ \A m \in (Workloads \cup ReplicaSets) \ {n} : object'[m] = object[m]
  BY <1>1 DEF Deleted
<1>2. ASSUME NEW n \in Workloads \cup ReplicaSets, Created(n)
      PROVE  /\ UNCHANGED finderVars /\ touched' = touched \cup {n}
             /\ \A m \in (Workloads \cup ReplicaSets) \ {n} : object'[m] = object[m]
             /\ \A r \in ReplicaSets \ {n} : controller'[r] = controller[r]
  BY <1>2 DEF Created
<1>3. ASSUME NEW r \in ReplicaSets, Orphaned(r) \/ Adopted(r)
      PROVE  /\ UNCHANGED <<finderVars, object>> /\ touched' = touched \cup {r}
             /\ \A q \in ReplicaSets \ {r} : controller'[q] = controller[q]
  BY <1>3 DEF Orphaned, Adopted
<1>4. ASSUME NEW p \in Pods, PodEnds(p) \/ PodCreated(p)
      PROVE  UNCHANGED <<finderVars, object, controller>> /\ touched' = touched
  BY <1>4 DEF PodEnds, PodCreated
<1> QED
  BY <1>1, <1>2, <1>3, <1>4 DEF ClusterChanges

\* What the cluster changes is touched, and no claim is made about it.
LEMMA ClusterDiscovery ==
  ASSUME FinderTypes, DiscoveryInv, ClusterChanges
  PROVE  DiscoveryInv'
<1> SUFFICES ASSUME fpc \in {"walk", "owner", "found"} PROVE DiscoveryInv'
  BY ClusterTouches DEF DiscoveryInv, finderVars
<1>1. /\ UNCHANGED <<fpc, left, ref, rsCache, wlCache, found, listed>>
      /\ touched \subseteq touched'
      /\ \A n \in (Workloads \cup ReplicaSets) \ touched' : object'[n] = object[n]
      /\ \A r \in ReplicaSets \ touched' : controller'[r] = controller[r]
  BY ClusterTouches DEF finderVars
<1>2. CachesCurrent'
  BY <1>1 DEF DiscoveryInv, CachesCurrent, FinderTypes, WalkTypes, Live
<1>3. FoundIsCached'
  BY <1>1 DEF DiscoveryInv, FoundIsCached
<1>4. ASSUME NEW l \in listed
      PROVE  /\ Owner(l)'.name = Owner(l).name
             /\ Untouched(l)' =>
                  /\ Untouched(l) /\ Owner(l)' = Owner(l)
                  /\ (Holds(l)' <=> Holds(l))
                  /\ OwnerOf[l.pod] # Other =>
                       (Live(OwnerOf[l.pod], l.uid)' <=> Live(OwnerOf[l.pod], l.uid))
  <2>1. l.pod \in Pods
    BY DEF FinderTypes, WalkTypes
  <2>2. Owner(l)'.name = Owner(l).name
    BY DEF Owner
  <2>3. ASSUME Untouched(l)' PROVE Untouched(l) /\ OwnerOf[l.pod] \notin touched'
                                   /\ Owner(l).name \notin touched'
    BY <1>1, <2>2, <2>3 DEF Untouched, Chain
  <2>4. ASSUME Untouched(l)' PROVE Owner(l)' = Owner(l)
    BY <1>1, <2>3, <2>4 DEF Owner
  <2>5. OwnerOf[l.pod] = Other \/ (OwnerOf[l.pod] \in Workloads \cup ReplicaSets
                                  /\ Owner(l).name \in Workloads)
    BY <2>1, NamesApart DEF Owner
  <2>6. ASSUME Untouched(l)', OwnerOf[l.pod] # Other
        PROVE  \A n \in Chain(l) : object'[n] = object[n]
    BY <1>1, <2>3, <2>5, <2>6 DEF Chain
  <2> QED
    BY <2>2, <2>3, <2>4, <2>6 DEF Holds, Live, Chain
<1>5. NoneMissed'
  BY <1>1, <1>4 DEF DiscoveryInv, NoneMissed
<1>6. AllBelong'
  BY <1>1, <1>4 DEF DiscoveryInv, AllBelong
<1>7. RefBelongs'
  BY <1>1, <1>4, NamesApart DEF DiscoveryInv, RefBelongs
<1> QED
  BY <1>2, <1>3, <1>5, <1>6, <1>7 DEF DiscoveryInv

\* A workload is read: the pods that wait for it are all served.
LEMMA ReadWorkloadDiscovery ==
  ASSUME FinderTypes, DiscoveryInv, fpc \in {"walk", "owner"},
         NEW n \in Workloads, NEW uid \in Uids, NEW rest \in SUBSET left,
         ReadWorkload(n, uid, rest), UNCHANGED rsCache,
         \A l \in left \ rest : Owner(l) = [name |-> n, uid |-> uid],
         fpc = "owner" => ref = [name |-> n, uid |-> uid],
         \E l \in listed : Owner(l).name = n /\ (Untouched(l) /\ Live(n, uid) => Holds(l))
  PROVE  DiscoveryInv'
<1> DEFINE w == [name |-> n, uid |-> uid]
           known == IF n \in DOMAIN wlCache THEN wlCache[n] ELSE uid
<1>1. /\ fpc' = "walk" /\ left' = rest
      /\ UNCHANGED <<object, controller, listed, touched, rsCache>>
  BY DEF ReadWorkload, Walk, Unresolved, objectVars
<1>2. \A l : Owner(l)' = Owner(l) /\ (Holds(l)' <=> Holds(l)) /\ (Untouched(l)' <=> Untouched(l))
  BY <1>1 DEF Owner, Holds, Live, Untouched, Chain
<1>3. CachesCurrent /\ FoundIsCached /\ NoneMissed /\ AllBelong
  BY DEF DiscoveryInv
<1>4. \A l \in listed \ rest : Holds(l) /\ Untouched(l) => Owner(l) \in found \/ Owner(l) = w
  BY <1>3 DEF NoneMissed
<1>5. \A l : Owner(l) = w /\ Holds(l) /\ Untouched(l) => Live(n, uid) /\ n \notin touched
  BY DEF Holds, Untouched, Chain
<1>6. ASSUME found \subseteq found',
             Live(n, uid) /\ n \notin touched => w \in found'
      PROVE  NoneMissed'
  BY <1>1, <1>2, <1>4, <1>5, <1>6 DEF NoneMissed
<1>7. ASSUME UNCHANGED wlCache PROVE CachesCurrent'
  BY <1>1, <1>3, <1>7 DEF CachesCurrent, Live
<1>8. RefBelongs'
  BY <1>1 DEF RefBelongs
<1>9. CASE n \notin DOMAIN wlCache /\ ~Live(n, uid)
  <2>1. UNCHANGED <<wlCache, found>>
    BY <1>9 DEF ReadWorkload, Unresolved
  <2>2. FoundIsCached' /\ AllBelong'
    BY <1>1, <1>2, <1>3, <2>1 DEF FoundIsCached, AllBelong
  <2> QED
    BY <1>6, <1>7, <1>8, <1>9, <2>1, <2>2 DEF DiscoveryInv
<1>10. CASE n \in DOMAIN wlCache
  <2>1. wlCache' = With(wlCache, n, wlCache[n]) /\ found' = found
    <3>1. \E v \in found : v.name = n
      BY <1>3, <1>10 DEF FoundIsCached
    <3> QED
      BY <1>10, <3>1 DEF ReadWorkload
  <2>2. /\ DOMAIN wlCache' = DOMAIN wlCache
        /\ \A m \in DOMAIN wlCache : wlCache'[m] = wlCache[m]
    BY <1>10, <2>1 DEF With
  <2>3. CachesCurrent' /\ FoundIsCached' /\ AllBelong'
    BY <1>1, <1>2, <1>3, <2>1, <2>2 DEF CachesCurrent, FoundIsCached, AllBelong, Live
  <2>4. Live(n, uid) /\ n \notin touched => w \in found'
    <3>1. ASSUME Live(n, uid), Live(n, wlCache[n]) PROVE wlCache[n] = uid
      BY <3>1 DEF Live
    <3>2. n \notin touched => Live(n, wlCache[n])
      BY <1>3, <1>10 DEF CachesCurrent
    <3> QED
      BY <1>3, <1>10, <2>1, <3>1, <3>2 DEF FoundIsCached
  <2> QED
    BY <1>6, <1>8, <2>1, <2>3, <2>4 DEF DiscoveryInv
<1>11. CASE n \notin DOMAIN wlCache /\ Live(n, uid)
  <2>1. \A v \in found : v.name # n
    BY <1>3, <1>11 DEF FoundIsCached
  <2>2. wlCache' = With(wlCache, n, uid) /\ found' = found \cup {w}
    BY <1>11, <2>1 DEF ReadWorkload
  <2>3. /\ DOMAIN wlCache' = DOMAIN wlCache \cup {n} /\ wlCache'[n] = uid
        /\ \A m \in DOMAIN wlCache : wlCache'[m] = wlCache[m]
    BY <1>11, <2>2 DEF With
  <2>4. CachesCurrent'
    BY <1>1, <1>3, <1>11, <2>3 DEF CachesCurrent, Live
  <2>5. FoundIsCached'
    BY <1>3, <2>2, <2>3 DEF FoundIsCached
  <2>6. AllBelong'
    BY <1>1, <1>2, <1>3, <1>11, <2>2 DEF AllBelong
  <2> QED
    BY <1>6, <1>8, <2>2, <2>4, <2>5, <2>6 DEF DiscoveryInv
<1> QED
  BY <1>9, <1>10, <1>11

\* A ReplicaSet is read: a pod whose owners hold goes on to its Deployment.
LEMMA ReadReplicaSetDiscovery ==
  ASSUME FinderTypes, DiscoveryInv, NEW l \in left, ReadReplicaSet(l)
  PROVE  DiscoveryInv'
<1> DEFINE r == OwnerOf[l.pod]
           rs == IF r \in DOMAIN rsCache THEN rsCache[r]
                 ELSE [uid |-> object[r].uid, controller |-> controller[r]]
           next == [name |-> DeploymentOf[r], uid |-> rs.controller]
<1>1. /\ fpc = "walk" /\ fpc' \in {"walk", "owner"} /\ left' = left \ {l} /\ r \in ReplicaSets
      /\ UNCHANGED <<object, controller, listed, touched, wlCache, found>>
  BY DEF ReadReplicaSet, Unresolved, Walk, objectVars
<1>2. \A m : Owner(m)' = Owner(m) /\ (Holds(m)' <=> Holds(m)) /\ (Untouched(m)' <=> Untouched(m))
  BY <1>1 DEF Owner, Holds, Live, Untouched, Chain
<1>3. CachesCurrent /\ FoundIsCached /\ NoneMissed /\ AllBelong
  BY <1>1 DEF DiscoveryInv
<1>4. Owner(l) = [name |-> DeploymentOf[r], uid |-> controller[r]] /\ Owner(l).name \in Workloads
  BY <1>1, NamesApart DEF Owner
<1>5. r \in DOMAIN rsCache \/ object[r].live => r \in touched \/
        (Live(r, rs.uid) /\ rs.controller = controller[r])
  <2>1. object[r] \in [uid : Uids, live : BOOLEAN]
    BY <1>1 DEF FinderTypes, ObjectTypes
  <2>2. CASE r \in DOMAIN rsCache
    BY <1>3, <2>2 DEF CachesCurrent
  <2>3. CASE r \notin DOMAIN rsCache
    BY <2>1, <2>3 DEF Live
  <2> QED
    BY <2>2, <2>3
<1>6. /\ rsCache' = rsCache \/ (rsCache' = With(rsCache, r, rs)
                              /\ (r \in DOMAIN rsCache \/ object[r].live))
      /\ fpc' = "owner" => /\ rs.uid = l.uid /\ ref' = next
                          /\ (r \in DOMAIN rsCache \/ object[r].live)
      /\ fpc' = "walk" => \/ rs.uid # l.uid \/ rs.controller = NoUid
                         \/ ~(r \in DOMAIN rsCache \/ object[r].live)
  BY <1>1 DEF ReadReplicaSet, Unresolved, Walk
<1> HIDE DEF rs
<1>7. CachesCurrent'
  <2>1. CASE rsCache' = rsCache
    BY <1>1, <1>3, <2>1 DEF CachesCurrent, Live
  <2>2. CASE rsCache' # rsCache
    <3>1. /\ DOMAIN rsCache' = DOMAIN rsCache \cup {r} /\ rsCache'[r] = rs
          /\ \A q \in DOMAIN rsCache \ {r} : rsCache'[q] = rsCache[q]
      BY <1>6, <2>2 DEF With
    <3> QED
      BY <1>1, <1>3, <1>5, <1>6, <2>2, <3>1 DEF CachesCurrent, Live
  <2> QED
    BY <2>1, <2>2
<1>8. FoundIsCached' /\ AllBelong'
  BY <1>1, <1>2, <1>3 DEF FoundIsCached, AllBelong
<1>9. ASSUME Holds(l), Untouched(l) PROVE fpc' = "owner" /\ Owner(l) = ref'
  <2>1. /\ r \notin touched /\ Live(r, l.uid) /\ Live(DeploymentOf[r], controller[r])
    BY <1>4, <1>9 DEF Holds, Untouched, Chain
  <2>2. object[r].live /\ object[r].uid = l.uid
    BY <2>1 DEF Live
  <2>3. rs.uid = l.uid /\ rs.controller = controller[r]
    BY <1>5, <2>1, <2>2 DEF Live
  <2>4. controller[r] # NoUid
    <3>1. object[DeploymentOf[r]].uid \in Uids
      BY <1>1, NamesApart DEF FinderTypes, ObjectTypes
    <3> QED
      BY <2>1, <3>1 DEF Live, Uids, NoUid
  <2> QED
    BY <1>1, <1>4, <1>6, <2>2, <2>3, <2>4
<1>10. NoneMissed'
  BY <1>1, <1>2, <1>3, <1>9 DEF NoneMissed
<1>11. RefBelongs'
  <2> SUFFICES ASSUME fpc' = "owner" PROVE RefBelongs'
    BY DEF RefBelongs
  <2>1. ref' = next /\ Owner(l).name = ref'.name
    BY <1>4, <1>6
  <2>2. ASSUME Untouched(l) PROVE Live(r, l.uid) /\ Owner(l) = ref'
    BY <1>4, <1>5, <1>6, <2>1, <2>2 DEF Untouched, Chain
  <2>3. l \in listed
    BY DEF FinderTypes, WalkTypes
  <2> QED
    BY <1>1, <1>2, <2>1, <2>2, <2>3 DEF RefBelongs, Live
<1> QED
  BY <1>7, <1>8, <1>10, <1>11 DEF DiscoveryInv

\* The invariant looks at these variables only.
LEMMA DiscoveryKept ==
  ASSUME DiscoveryInv, fpc' = fpc \/ (fpc = "walk" /\ fpc' = "found"),
         UNCHANGED <<object, controller, left, ref, rsCache, wlCache, found, listed, touched>>
  PROVE  DiscoveryInv'
<1>1. \A m : Owner(m)' = Owner(m) /\ (Holds(m)' <=> Holds(m)) /\ (Untouched(m)' <=> Untouched(m))
  BY DEF Owner, Holds, Live, Untouched, Chain
<1>2. (fpc' \in {"walk", "owner", "found"} <=> fpc \in {"walk", "owner", "found"})
      /\ (fpc' = "owner" <=> fpc = "owner")
  OBVIOUS
<1>3. (CachesCurrent' <=> CachesCurrent) /\ (FoundIsCached' <=> FoundIsCached)
  BY DEF CachesCurrent, FoundIsCached, Live
<1>4. (NoneMissed' <=> NoneMissed) /\ (AllBelong' <=> AllBelong)
  BY <1>1, <1>2 DEF NoneMissed, AllBelong
<1>5. RefBelongs' <=> RefBelongs
  BY <1>1, <1>2 DEF RefBelongs, Live
<1> QED
  BY <1>2, <1>3, <1>4, <1>5 DEF DiscoveryInv

\* Every step of the walk preserves the invariant.
LEMMA FindDiscovery ==
  ASSUME FinderTypes, DiscoveryInv, FindForNode \/ CallFails
  PROVE  DiscoveryInv'
<1>1. CASE List
  BY <1>1 DEF List, emptyCaches, DiscoveryInv, CachesCurrent, FoundIsCached, NoneMissed,
              AllBelong, RefBelongs
<1>2. CASE ReadDeployment
  <2>1. /\ fpc = "owner" /\ ReadWorkload(ref.name, ref.uid, left) /\ UNCHANGED rsCache
        /\ ref \in [name : Deployments, uid : Uids] /\ ref.name \in Workloads
    BY <1>2, NamesApart DEF ReadDeployment, FinderTypes, WalkTypes
  <2>2. PICK l \in listed : /\ OwnerOf[l.pod] \in ReplicaSets /\ Owner(l).name = ref.name
                            /\ Untouched(l) => Live(OwnerOf[l.pod], l.uid) /\ Owner(l) = ref
    BY <2>1 DEF DiscoveryInv, RefBelongs
  <2>3. Untouched(l) /\ Live(ref.name, ref.uid) => Holds(l)
    BY <2>2, NamesApart DEF Holds
  <2> QED
    BY <2>1, <2>2, <2>3, ReadWorkloadDiscovery
<1>3. CASE AllResolved
  <2>1. /\ fpc = "walk" /\ fpc' = "found"
        /\ UNCHANGED <<object, controller, left, ref, rsCache, wlCache, found, listed, touched>>
    BY <1>3 DEF AllResolved, objectVars
  <2> QED
    BY <2>1, DiscoveryKept
<1>4. ASSUME NEW l \in left, PassOver(l) PROVE DiscoveryInv'
  <2>1. /\ fpc = "walk" /\ fpc' = "walk" /\ left' = left \ {l} /\ ~Holds(l)
        /\ UNCHANGED <<object, controller, rsCache, wlCache, found, listed, touched>>
    BY <1>4 DEF PassOver, Unresolved, Walk, objectVars, Holds
  <2>2. \A m : Owner(m)' = Owner(m) /\ (Holds(m)' <=> Holds(m))
               /\ (Untouched(m)' <=> Untouched(m))
    BY <2>1 DEF Owner, Holds, Live, Untouched, Chain
  <2>3. CachesCurrent' /\ FoundIsCached'
    BY <2>1 DEF DiscoveryInv, CachesCurrent, FoundIsCached, Live
  <2> QED
    BY <2>1, <2>2, <2>3 DEF DiscoveryInv, NoneMissed, AllBelong, RefBelongs
<1>5. ASSUME NEW l \in left, ReadReplicaSet(l) PROVE DiscoveryInv'
  BY <1>5, ReadReplicaSetDiscovery
<1>6. ASSUME NEW l \in left, ReadStatefulSet(l) PROVE DiscoveryInv'
  <2> DEFINE n == OwnerOf[l.pod]
  <2>1. /\ fpc = "walk" /\ ReadWorkload(n, l.uid, left \ {l}) /\ UNCHANGED rsCache
        /\ n \in StatefulSets /\ n \in Workloads /\ n # Other /\ n \notin ReplicaSets
        /\ l \in listed /\ l.uid \in Uids
    BY <1>6, NamesApart DEF ReadStatefulSet, FinderTypes, WalkTypes
  <2>2. Owner(l) = [name |-> n, uid |-> l.uid]
    BY <2>1 DEF Owner
  <2>3. Owner(l).name = n /\ (Untouched(l) /\ Live(n, l.uid) => Holds(l))
    BY <2>1, <2>2 DEF Holds
  <2>4. \A m \in left \ (left \ {l}) : Owner(m) = [name |-> n, uid |-> l.uid]
    BY <2>2
  <2> HIDE DEF n
  <2> QED
    BY <2>1, <2>3, <2>4, ReadWorkloadDiscovery
<1>7. CASE CallFails
  BY <1>7 DEF CallFails, DiscoveryInv
<1> QED
  BY <1>1, <1>2, <1>3, <1>4, <1>5, <1>6, <1>7 DEF FindForNode

\* Every step of the command does.
LEMMA DiscoveryStep ==
  ASSUME PrepareTypes, DiscoveryInv, [PrepareNext]_allPrepareVars
  PROVE  DiscoveryInv'
<1> USE DEF PrepareTypes
<1>1. ASSUME UNCHANGED discoveryVars PROVE DiscoveryInv'
  <2>1. UNCHANGED <<object, controller, fpc, left, ref, rsCache, wlCache, found, listed, touched>>
    BY <1>1 DEF discoveryVars, objectVars, finderVars
  <2> QED
    BY <2>1, DiscoveryKept
<1>2. ASSUME fpc' \in {"idle", "list"} PROVE DiscoveryInv'
  BY <1>2 DEF DiscoveryInv
<1>3. CASE Configure \/ Verdict \/ \E w \in kept : Inspect(w) \/ InspectFails(w)
  BY <1>1, <1>3 DEF Configure, Verdict, Inspect, InspectFails
<1>4. CASE ResolveNode \/ DiscoveryEnds
  BY <1>2, <1>4 DEF ResolveNode, DiscoveryEnds, OwnTypes
<1>5. CASE DiscoverWorkloads
  BY <1>5, FindDiscovery DEF DiscoverWorkloads
<1>6. CASE ClusterMoves
  <2>1. CASE stage = "discover" /\ ClusterChanges
    BY <2>1, ClusterDiscovery
  <2>2. CASE stage = "inspect" /\ \E n \in Workloads : SpecChanged(n) \/ Deleted(n) \/ Created(n)
    BY <1>2, <2>2 DEF SpecChanged, Deleted, Created, Change, finderVars, OwnTypes
  <2> QED
    BY <1>6, <2>1, <2>2 DEF ClusterMoves
<1> QED
  BY <1>1, <1>3, <1>4, <1>5, <1>6 DEF PrepareNext, allPrepareVars

\* DiscoveryExact for any pods, owners and workloads and any changes of the cluster:
\* the two caches never stand for what somebody has not touched, so the workload of
\* every listed pod whose owners stay is found, and none that no listed pod belongs
\* to (workload.go:94-150, 177-216).
THEOREM PrepareDiscoveryExact == PrepareSpec => []DiscoveryExact
<1>1. PrepareInit => DiscoveryInv
  BY DEF PrepareInit, FinderInit, DiscoveryInv
<1>2. PrepareTypes /\ DiscoveryInv /\ [PrepareNext]_allPrepareVars
        => (PrepareTypes /\ DiscoveryInv)'
  BY PrepareStepTypes, DiscoveryStep
<1>3. PrepareTypes /\ DiscoveryInv => DiscoveryExact
  BY DiscoveryInvSuffices DEF PrepareTypes
<1> QED
  BY <1>1, <1>2, <1>3, PrepareInitTypes, PTL DEF PrepareSpec
================================================================================
