-------------------------------- MODULE Prepare --------------------------------
(***************************************************************************)
(* Everything `safed drain` does before it changes a cluster, for one      *)
(* node: make up its options (internal/drainapp/app.go, Run), discover the *)
(* workloads (Finder), leave out the filtered ones and run the pre-flight  *)
(* checks on the others (pkg/drain/preflight.go), while the cluster goes   *)
(* on changing.  It ends at the cordon or refused.                         *)
(***************************************************************************)
EXTENDS Options, Preflight, Finder

CONSTANTS
  Manners,          \* [Workloads -> SUBSET [replicas, strategy]]: specs to consider
  Skips,            \* sets of workloads --skip-workload may name
  Orphans           \* ReplicaSets that may have no Deployment at first

VARIABLES
  stage,
  inv,              \* the invocation, until its options are made up
  opts,             \* the options in effect, of which preflight is used below
  spec,             \* [Workloads -> [replicas, strategy]]
  kept,             \* workloads to restart
  uninspected,      \* those the checks still have to look at
  issues            \* what they have found: [name, finding]

prepareVars == <<stage, inv, opts, spec, kept, uninspected, issues>>
allPrepareVars == <<prepareVars, discoveryVars>>

Kind(n) == IF n \in Deployments THEN "Deployment" ELSE "StatefulSet"
NoInvocation == <<>>

ASSUME PrepareAssumption ==
  \A n \in Workloads :
    /\ Manners[n] # {}
    /\ Manners[n] \subseteq [replicas : Nat, strategy : StrategiesOf(Kind(n))]

\* Mutant of acceptable: the options are validated as the command line gave them.
flagsAcceptable == ~configFails(inv) /\ ValidateOptions(parsed(inv.flags))

acceptable == ~configFails(inv) /\ ValidateOptions(ApplyConfig(inv))

\* ApplyConfig and ValidateOptions.
Configure ==
  /\ stage = "configure"
  /\ IF acceptable THEN stage' = "resolve" /\ opts' = ApplyConfig(inv)
     ELSE stage' = "refused" /\ UNCHANGED opts
  /\ UNCHANGED <<inv, spec, kept, uninspected, issues, discoveryVars>>

\* The client, ResolveNodeNames, ValidateTargets and validateNode: any may end the
\* command.  Some ReplicaSet may have lost the Deployment it was made for.  The
\* options not used below are dropped.
ResolveNode ==
  /\ stage = "resolve"
  /\ inv' = NoInvocation
  /\ opts' = [builtIn EXCEPT !.preflight = opts.preflight]
  /\ \/ stage' = "refused" /\ UNCHANGED <<fpc, controller>>
     \/ /\ stage' = "discover" /\ fpc' = "list"
        /\ \E orphans \in SUBSET Orphans :
             controller' = [r \in ReplicaSets |-> IF r \in orphans THEN NoUid ELSE 1]
  /\ UNCHANGED <<spec, kept, uninspected, issues, object, pods, attempt,
                 left, ref, rsCache, wlCache, found, listed, touched, changes>>

DiscoverWorkloads ==
  /\ stage = "discover"
  /\ FindForNode \/ CallFails
  /\ UNCHANGED prepareVars

\* filterWorkloads and the decision to run the checks.  Nothing has read a spec
\* before; what discovery kept for itself is not read again.
DiscoveryEnds ==
  /\ stage = "discover" /\ fpc \in {"found", "failed"}
  /\ IF fpc = "failed"
     THEN stage' = "refused" /\ UNCHANGED <<spec, kept>>
     ELSE /\ spec' \in {m \in [Workloads -> UNION {Manners[n] : n \in Workloads}] :
                          \A n \in Workloads : m[n] \in Manners[n]}
          /\ \E skip \in Skips : kept' = {w \in found : w.name \notin skip}
          /\ stage' = IF opts.preflight = "off" THEN "cordon" ELSE "inspect"
  /\ uninspected' = kept'
  /\ fpc' = "idle" /\ attempt' = 1
  /\ listed' = {} /\ found' = {} /\ rsCache' = <<>> /\ wlCache' = <<>>
  /\ UNCHANGED <<inv, opts, issues, objectVars, left, ref, touched, changes>>

\* Mutant of noted: the findings about one workload replace those before.
notedLast(n, fs) == {[name |-> n, finding |-> f] : f \in fs}

noted(n, fs) == issues \cup {[name |-> n, finding |-> f] : f \in fs}

\* runPreflight reads the kept workloads, by name, one after the other.
Inspect(w) ==
  /\ stage = "inspect" /\ w \in uninspected
  /\ object[w.name].live
  /\ issues' = noted(w.name,
                     inspected(Kind(w.name), spec[w.name].replicas, spec[w.name].strategy))
  /\ uninspected' = uninspected \ {w}
  /\ UNCHANGED <<stage, inv, opts, spec, kept, discoveryVars>>

\* One that is gone, or any error: only strict mode minds.
InspectFails(w) ==
  /\ stage = "inspect" /\ w \in uninspected
  /\ IF opts.preflight = "strict" THEN stage' = "refused" ELSE UNCHANGED stage
  /\ uninspected' = uninspected \ {w}
  /\ UNCHANGED <<inv, opts, spec, kept, issues, discoveryVars>>

riskFound == \E i \in issues : i.finding \in risks({i.finding})

Verdict ==
  /\ stage = "inspect" /\ uninspected = {}
  /\ stage' = IF opts.preflight = "strict" /\ riskFound THEN "risky" ELSE "cordon"
  /\ UNCHANGED <<inv, opts, spec, kept, uninspected, issues, discoveryVars>>

(***************************************************************************)
(* Everybody else.  The checks read nothing but workloads.                 *)
(***************************************************************************)
SpecChanged(n) ==
  /\ stage = "inspect" /\ object[n].live
  /\ \E m \in Manners[n] \ {spec[n]} : spec' = [spec EXCEPT ![n] = m]
  /\ Change({n})
  /\ UNCHANGED <<stage, inv, opts, kept, uninspected, issues, objectVars>>

ClusterMoves ==
  \/ stage = "discover" /\ ClusterChanges /\ UNCHANGED prepareVars
  \/ /\ stage = "inspect"
     /\ \E n \in Workloads :
          \/ SpecChanged(n)
          \/ (Deleted(n) \/ Created(n)) /\ UNCHANGED prepareVars

(***************************************************************************)
(* The specification.                                                      *)
(***************************************************************************)
PrepareInit ==
  /\ stage = "configure"
  /\ inv \in Invocations
  /\ opts = builtIn
  /\ spec = [n \in Workloads |-> CHOOSE m \in Manners[n] : TRUE]
  /\ kept = {} /\ uninspected = {} /\ issues = {}
  /\ FinderInit

PrepareNext ==
  \/ Configure \/ ResolveNode \/ DiscoverWorkloads \/ DiscoveryEnds \/ Verdict
  \/ \E w \in kept : Inspect(w) \/ InspectFails(w)
  \/ ClusterMoves

PrepareSpec == PrepareInit /\ [][PrepareNext]_allPrepareVars

(***************************************************************************)
(* Properties.                                                             *)
(***************************************************************************)
\* Type invariant.  The options in effect are valid ones, wherever they come from
\* (ValidateOptions, app.go:194-237).
PrepareTypeOK ==
  /\ stage \in {"configure", "resolve", "discover", "inspect", "cordon", "risky", "refused"}
  /\ inv \in Invocations \cup {NoInvocation}
  /\ opts \in [preflight : {"warn", "strict", "off"}, nodeConcurrency : Nat,
              ignoreDaemonsets : BOOLEAN]
  /\ \A n \in Workloads : spec[n] \in Manners[n]
  /\ uninspected \subseteq kept
  /\ kept \subseteq [name : Workloads, uid : Uids]
  /\ {i.name : i \in issues} \subseteq {w.name : w \in kept}
  /\ object \in [Workloads \cup ReplicaSets -> [uid : Uids, live : BOOLEAN]]
  /\ controller \in [ReplicaSets -> Uids \cup {NoUid}]
  /\ pods \in [Pods -> [uid : Uids, phase : {"active", "terminal", "gone"}]]
  /\ fpc \in {"idle", "list", "walk", "owner", "found", "failed"}
  /\ attempt \in 1..MaxAttempts
  /\ left \subseteq listed /\ listed \subseteq [pod : Pods, uid : Uids]

\* In a command that goes on each option has the value its documentation promises:
\* the flag's, else that of the profile, the mode, the config file's defaults, the
\* built-in one; and the mode or profile it asks for exists (app.go:293-343,
\* 386-444).
OptionsAsDocumented ==
  stage = "resolve" =>
    /\ inv.mode # "unknown"
    /\ inv.profile # None => inv.file = "read" /\ inv.profile \in DOMAIN inv.profiles
    /\ \A o \in Scalars : opts[o] = Documented(inv, o)

\* With --preflight=strict the cordon is reached only with workloads that a restart
\* replaces pod by pod without going down to none, unless they changed meanwhile;
\* and it is refused for a risk only because of a workload to be restarted, not
\* because of one that is left out (preflight.go:69-160, drain_phases.go:54-61).
StrictMeansNoRisk ==
  LET safe(w) == spec[w.name].replicas # 1 /\ spec[w.name].strategy = "RollingUpdate"
  IN  /\ stage = "cordon" /\ opts.preflight = "strict" =>
           \A w \in kept : w.name \in touched \/ safe(w)
      /\ stage = "risky" =>
           opts.preflight = "strict" /\ \E w \in kept : w.name \in touched \/ ~safe(w)
================================================================================
