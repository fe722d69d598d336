-------------------------------- MODULE Options --------------------------------
(***************************************************************************)
(* Where the value of an option comes from (internal/drainapp/app.go,      *)
(* pkg/config/config.go): flag defaults, the config file's defaults, a     *)
(* built-in mode, a named profile and the command line, laid over one      *)
(* another.  A layer is a record of the options it sets.                   *)
(*                                                                         *)
(* The scalar options are all treated alike; three stand for them: one     *)
(* whose values are words, one that is a number and one that has a second, *)
(* hidden flag.                                                            *)
(***************************************************************************)
EXTENDS Integers, Sequences

CONSTANTS
  Layers,           \* what a config section or a profile may set
  CommandLines,     \* the flags a user may give
  None              \* no mode, no profile

builtIn == [preflight |-> "warn", nodeConcurrency |-> 1, ignoreDaemonsets |-> TRUE]
Scalars == DOMAIN builtIn

\* A layer or a command line gives its options values of their Go types.
Typed(layer) ==
  /\ "nodeConcurrency" \in DOMAIN layer => layer.nodeConcurrency \in Int
  /\ \A flag \in {"ignoreDaemonsets", "skipDaemonSets"} \cap DOMAIN layer :
       layer[flag] \in BOOLEAN

ASSUME OptionsAssumption ==
  /\ None \notin {"own", "prod", "scaleDown", "debug", "unknown"}
  /\ \A layer \in Layers \cup CommandLines : Typed(layer)

\* --skip-daemon-sets is the old name of --ignore-daemonsets.
setsOption(flag) == IF flag = "skipDaemonSets" THEN "ignoreDaemonsets" ELSE flag

BuiltinDrainModes ==
  [prod |-> [preflight |-> "strict", nodeConcurrency |-> 1],
   scaleDown |-> [preflight |-> "warn", nodeConcurrency |-> 5],
   debug |-> [preflight |-> "warn"]]

\* One invocation.  The file holds a section of defaults and at most one profile,
\* "own"; it may be named explicitly (--config, KUBECTL_SAFED_CONFIG).
Invocations ==
  [flags : CommandLines, mode : DOMAIN BuiltinDrainModes \cup {"unknown", None},
   profile : {"own", None}, named : BOOLEAN, file : {"absent", "malformed", "read"},
   defaults : Layers, profiles : [{"own"} -> Layers] \cup {<<>>}]

\* The options as the command line leaves them, and which flags it changed.
parsed(flags) ==
  [o \in Scalars |->
     LET given == {f \in DOMAIN flags : setsOption(f) = o}
     IN  IF given = {} THEN builtIn[o] ELSE flags[CHOOSE f \in given : TRUE]]

\* A layer sets what no flag of that name has set.
ApplyProfileValues(opts, changed, layer) ==
  [o \in Scalars |-> IF o \in DOMAIN layer \ changed THEN layer[o] ELSE opts[o]]

\* Only a file nobody asked for may be missing.
loadFails(inv) ==
  \/ inv.file = "malformed"
  \/ inv.file = "absent" /\ (inv.named \/ inv.profile # None)

configFails(inv) ==
  \/ loadFails(inv)
  \/ inv.mode \notin DOMAIN BuiltinDrainModes \cup {None}
  \/ inv.profile \notin DOMAIN inv.profiles \cup {None}

defaultsLayer(inv) == IF inv.file = "read" THEN inv.defaults ELSE <<>>
modeLayer(inv) == IF inv.mode = None THEN <<>> ELSE BuiltinDrainModes[inv.mode]
profileLayer(inv) == IF inv.profile = None THEN <<>> ELSE inv.profiles[inv.profile]

\* Mutant of layersInOrder: the mode is applied on top of the profile.
modeLast(inv) == <<defaultsLayer(inv), profileLayer(inv), modeLayer(inv)>>
layersInOrder(inv) == <<defaultsLayer(inv), modeLayer(inv), profileLayer(inv)>>

ApplyConfig(inv) ==
  LET layers == layersInOrder(inv)
      over(opts, i) == ApplyProfileValues(opts, DOMAIN inv.flags, layers[i])
  IN  over(over(over(parsed(inv.flags), 1), 2), 3)

ValidateOptions(opts) ==
  /\ opts.preflight \in {"warn", "strict", "off"}
  /\ opts.nodeConcurrency >= 0

\* The rule the documentation gives: the value of the topmost layer that has one.
OnTop(inv) ==
  <<[o \in {setsOption(f) : f \in DOMAIN inv.flags} |-> parsed(inv.flags)[o]],
    profileLayer(inv), modeLayer(inv), defaultsLayer(inv), builtIn>>
Documented(inv, o) ==
  LET setBy == {i \in 1..5 : o \in DOMAIN OnTop(inv)[i]}
      top == CHOOSE i \in setBy : \A j \in setBy : i <= j
  IN  OnTop(inv)[top][o]
================================================================================
