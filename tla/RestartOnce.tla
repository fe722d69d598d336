------------------------------ MODULE RestartOnce ------------------------------
(***************************************************************************)
(* What a process-local restart coordinator promises to the drains that    *)
(* share it, with nothing about mutexes, maps or contexts:                 *)
(*                                                                         *)
(*   - at any moment at most one caller is restarting a given workload;    *)
(*   - once a restart of a workload has succeeded, none is begun again;    *)
(*   - a caller is told "ok" only for a workload whose restart succeeded,  *)
(*     whether it did the work itself or shares another caller's;          *)
(*   - a failed attempt concerns only the caller that made it.             *)
(*                                                                         *)
(* Coordinator.tla implements this specification.                          *)
(***************************************************************************)

CONSTANTS
  Callers,      \* calls of WorkloadCoordinator.Do
  Keys,         \* workload keys (kind/namespace/name)
  KeyOf,        \* the key each call is for
  NoCaller      \* stands for "nobody"

VARIABLES
  restarting,   \* [Keys -> Callers \cup {NoCaller}]
  restarted,    \* set of keys whose restart succeeded
  outcome       \* [Callers -> {"pending", "ok", "err"}]

vars == <<restarting, restarted, outcome>>

Init ==
  /\ restarting = [k \in Keys |-> NoCaller]
  /\ restarted = {}
  /\ outcome = [c \in Callers |-> "pending"]

\* A caller takes the restart of its workload upon itself.
Begin(c) ==
  /\ outcome[c] = "pending"
  /\ restarting[KeyOf[c]] = NoCaller
  /\ KeyOf[c] \notin restarted
  /\ restarting' = [restarting EXCEPT ![KeyOf[c]] = c]
  /\ UNCHANGED <<restarted, outcome>>

\* The restart it took upon itself succeeds.
Succeed(c) ==
  /\ restarting[KeyOf[c]] = c
  /\ restarting' = [restarting EXCEPT ![KeyOf[c]] = NoCaller]
  /\ restarted' = restarted \cup {KeyOf[c]}
  /\ outcome' = [outcome EXCEPT ![c] = "ok"]

\* The restart it took upon itself fails; the workload stays to be restarted.
Fail(c) ==
  /\ restarting[KeyOf[c]] = c
  /\ restarting' = [restarting EXCEPT ![KeyOf[c]] = NoCaller]
  /\ outcome' = [outcome EXCEPT ![c] = "err"]
  /\ UNCHANGED restarted

\* A caller learns that another one has already restarted the workload.
Share(c) ==
  /\ outcome[c] = "pending"
  /\ KeyOf[c] \in restarted
  /\ outcome' = [outcome EXCEPT ![c] = "ok"]
  /\ UNCHANGED <<restarting, restarted>>

\* A caller whose own drain was cancelled gives up without doing anything.
GiveUp(c) ==
  /\ outcome[c] = "pending"
  /\ restarting[KeyOf[c]] # c
  /\ outcome' = [outcome EXCEPT ![c] = "err"]
  /\ UNCHANGED <<restarting, restarted>>

Next ==
  \E c \in Callers : Begin(c) \/ Succeed(c) \/ Fail(c) \/ Share(c) \/ GiveUp(c)

Spec == Init /\ [][Next]_vars
================================================================================
