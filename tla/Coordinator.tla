------------------------------ MODULE Coordinator ------------------------------
(***************************************************************************)
(* WorkloadCoordinator (pkg/drain/coordinator.go): the object the drains   *)
(* of one kubectl-safed invocation share so that a workload with pods on   *)
(* several nodes is restarted once.                                        *)
(*                                                                         *)
(* A caller is one call of Do: one workload goroutine of one Drainer.  The *)
(* function it passes (pkg/drain/rollout.go, rollingRestart) sends the     *)
(* restart patch and then polls until the rollout has completed.           *)
(*                                                                         *)
(* The short critical sections under c.mu are atomic steps; the per-key    *)
(* mutex, held for the whole of Do, is modelled explicitly.                *)
(***************************************************************************)

CONSTANTS
  Callers,      \* calls of Do
  Keys,         \* workload keys: "kind/namespace/name"
  KeyOf,        \* the key each call is for
  NoCaller      \* holder of a mutex nobody holds

ASSUME CoordinatorAssumption ==
  /\ KeyOf \in [Callers -> Keys]
  /\ NoCaller \notin Callers

VARIABLES
  locks,        \* keys that have a mutex in c.locks
  holder,       \* [Keys -> Callers \cup {NoCaller}], who holds the key's mutex
  done,         \* c.done
  pc,           \* where each call of Do is
  ret,          \* what the call returns
  ctxErr,       \* [Callers -> BOOLEAN], ctx.Err() # nil for the caller
  patchedBy,    \* history: callers whose restart patch reached the API server
  restartedBy   \* history: callers whose fn returned nil

coordVars ==
  <<locks, holder, done, pc, ret, ctxErr, patchedBy, restartedBy>>

(***************************************************************************)
(* Control points of Do, in program order.  The caller holds the key's     *)
(* mutex from "ctxErr" to "unlock".                                        *)
(***************************************************************************)
InsideLock == {"ctxErr", "alreadyDone", "patch", "rollout", "markDone", "unlock"}
InsideFn   == {"patch", "rollout", "markDone"}
ControlPoints == {"lockFor", "lock"} \cup InsideLock \cup {"returned"}

CoordInit ==
  /\ locks = {}
  /\ holder = [k \in Keys |-> NoCaller]
  /\ done = {}
  /\ pc = [c \in Callers |-> "lockFor"]
  /\ ret = [c \in Callers |-> "none"]
  /\ ctxErr = [c \in Callers |-> FALSE]
  /\ patchedBy = {}
  /\ restartedBy = {}

Goto(c, label) == pc' = [pc EXCEPT ![c] = label]

\* Leave the body of Do with result r; the deferred Unlock is still to come.
Return(c, r) ==
  /\ Goto(c, "unlock")
  /\ ret' = [ret EXCEPT ![c] = r]

\* lockFor: under c.mu, look the key's mutex up or create it.
LockFor(c) ==
  /\ pc[c] = "lockFor"
  /\ locks' = locks \cup {KeyOf[c]}
  /\ Goto(c, "lock")
  /\ UNCHANGED <<holder, done, ret, ctxErr, patchedBy, restartedBy>>

\* Mutant of Lock: the caller goes on without having obtained the key's mutex.
LockNotTaken(c) ==
  /\ pc[c] = "lock"
  /\ Goto(c, "ctxErr")
  /\ UNCHANGED <<locks, holder, done, ret, ctxErr, patchedBy, restartedBy>>

\* lock.Lock(): blocks while another caller holds it, whatever ctx says.
Lock(c) ==
  /\ pc[c] = "lock"
  /\ holder[KeyOf[c]] = NoCaller
  /\ holder' = [holder EXCEPT ![KeyOf[c]] = c]
  /\ Goto(c, "ctxErr")
  /\ UNCHANGED <<locks, done, ret, ctxErr, patchedBy, restartedBy>>

\* Mutant of CheckCtx: the early return forgets the deferred Unlock.
CheckCtxNoUnlock(c) ==
  /\ pc[c] = "ctxErr"
  /\ IF ctxErr[c]
       THEN Goto(c, "returned") /\ ret' = [ret EXCEPT ![c] = "err"]
       ELSE Goto(c, "alreadyDone") /\ UNCHANGED ret
  /\ UNCHANGED <<locks, holder, done, ctxErr, patchedBy, restartedBy>>

\* if err := ctx.Err(); err != nil { return err }
CheckCtx(c) ==
  /\ pc[c] = "ctxErr"
  /\ IF ctxErr[c]
       THEN Return(c, "err")
       ELSE Goto(c, "alreadyDone") /\ UNCHANGED ret
  /\ UNCHANGED <<locks, holder, done, ctxErr, patchedBy, restartedBy>>

\* Mutant of CheckDone: c.done is never consulted.
CheckDoneIgnored(c) ==
  /\ pc[c] = "alreadyDone"
  /\ Goto(c, "patch")
  /\ UNCHANGED <<locks, holder, done, ret, ctxErr, patchedBy, restartedBy>>

\* Mutant of CheckDone: the key is marked done before fn has run.
CheckDoneClaims(c) ==
  /\ pc[c] = "alreadyDone"
  /\ IF KeyOf[c] \in done
       THEN Return(c, "ok") /\ UNCHANGED done
       ELSE Goto(c, "patch") /\ done' = done \cup {KeyOf[c]} /\ UNCHANGED ret
  /\ UNCHANGED <<locks, holder, ctxErr, patchedBy, restartedBy>>

\* Under c.mu: a workload some caller has restarted is not restarted again.
CheckDone(c) ==
  /\ pc[c] = "alreadyDone"
  /\ IF KeyOf[c] \in done
       THEN Return(c, "ok")
       ELSE Goto(c, "patch") /\ UNCHANGED ret
  /\ UNCHANGED <<locks, holder, done, ctxErr, patchedBy, restartedBy>>

\* Mutant of PatchOk: the mutex covers the patch but not the rollout wait.
PatchOkUnlocks(c) ==
  /\ pc[c] = "patch"
  /\ ~ctxErr[c]
  /\ patchedBy' = patchedBy \cup {c}
  /\ holder' = [holder EXCEPT ![KeyOf[c]] = NoCaller]
  /\ Goto(c, "rollout")
  /\ UNCHANGED <<locks, done, ret, ctxErr, restartedBy>>

\* fn, first half: the restart patch is accepted.
PatchOk(c) ==
  /\ pc[c] = "patch"
  /\ ~ctxErr[c]
  /\ patchedBy' = patchedBy \cup {c}
  /\ Goto(c, "rollout")
  /\ UNCHANGED <<locks, holder, done, ret, ctxErr, restartedBy>>

\* The patch call returns an error.  The API server may have applied the patch
\* all the same when only the answer was lost; a caller whose context has ended
\* does not send it.
PatchError(c) ==
  /\ pc[c] = "patch"
  /\ \E applied \in {FALSE, ~ctxErr[c]} :
       patchedBy' = IF applied THEN patchedBy \cup {c} ELSE patchedBy
  /\ Return(c, "err")
  /\ UNCHANGED <<locks, holder, done, ctxErr, restartedBy>>

\* fn, second half: the rollout wait sees a completed rollout.
RolloutOk(c) ==
  /\ pc[c] = "rollout"
  /\ ~ctxErr[c]
  /\ restartedBy' = restartedBy \cup {c}
  /\ Goto(c, "markDone")
  /\ UNCHANGED <<locks, holder, done, ret, ctxErr, patchedBy>>

\* The rollout fails, runs into the rollout timeout, or the context ends.
RolloutError(c) ==
  /\ pc[c] = "rollout"
  /\ Return(c, "err")
  /\ UNCHANGED <<locks, holder, done, ctxErr, patchedBy, restartedBy>>

\* Under c.mu: c.done[key] = struct{}{}.
MarkDone(c) ==
  /\ pc[c] = "markDone"
  /\ done' = done \cup {KeyOf[c]}
  /\ Return(c, "ok")
  /\ UNCHANGED <<locks, holder, ctxErr, patchedBy, restartedBy>>

\* The deferred lock.Unlock().
Unlock(c) ==
  /\ pc[c] = "unlock"
  /\ holder' = [holder EXCEPT ![KeyOf[c]] = NoCaller]
  /\ Goto(c, "returned")
  /\ UNCHANGED <<locks, done, ret, ctxErr, patchedBy, restartedBy>>

Fn(c) == PatchOk(c) \/ PatchError(c) \/ RolloutOk(c) \/ RolloutError(c)

Do(c) ==
  \/ LockFor(c)
  \/ Lock(c)
  \/ CheckCtx(c)
  \/ CheckDone(c)
  \/ Fn(c)
  \/ MarkDone(c)
  \/ Unlock(c)

\* A sibling of the caller failed, its drain's --timeout expired, or its node's
\* batch was cancelled.
CancelCtx(c) ==
  /\ pc[c] # "returned"
  /\ ~ctxErr[c]
  /\ ctxErr' = [ctxErr EXCEPT ![c] = TRUE]
  /\ UNCHANGED <<locks, holder, done, pc, ret, patchedBy, restartedBy>>

AllReturned == \A c \in Callers : pc[c] = "returned"

\* Every call has returned and the process goes on without the coordinator.
Finished ==
  /\ AllReturned
  /\ UNCHANGED coordVars

CoordNext == (\E c \in Callers : Do(c) \/ CancelCtx(c)) \/ Finished

CoordSpec == CoordInit /\ [][CoordNext]_coordVars

(***************************************************************************)
(* A goroutine that can run does run.  A rollout wait always ends, at the  *)
(* latest with --rollout-timeout.  Weak fairness of Lock is enough: every  *)
(* caller takes the mutex once, so it is free for good in the end.         *)
(***************************************************************************)
CoordFairSpec == CoordSpec /\ \A c \in Callers : WF_coordVars(Do(c))

--------------------------------------------------------------------------------
CoordTypeOK ==
  /\ locks \in SUBSET Keys
  /\ holder \in [Keys -> Callers \cup {NoCaller}]
  /\ done \in SUBSET Keys
  /\ pc \in [Callers -> ControlPoints]
  /\ ret \in [Callers -> {"none", "ok", "err"}]
  /\ ctxErr \in [Callers -> BOOLEAN]
  /\ patchedBy \in SUBSET Callers
  /\ restartedBy \in SUBSET Callers

\* No two drains are inside the restart of the same workload: the patch of one
\* never falls into the rollout another one is waiting for.
MutualExclusion ==
  \A c, d \in Callers :
    /\ c # d
    /\ KeyOf[c] = KeyOf[d]
    => ~(pc[c] \in InsideLock /\ pc[d] \in InsideLock)

\* One invocation completes the restart of a workload at most once, however
\* many nodes it has pods on.
RestartedAtMostOnce ==
  \A c, d \in restartedBy : KeyOf[c] = KeyOf[d] => c = d

\* A second restart patch for a workload goes out only after the attempt that
\* sent the first one has failed: while one restart is under way or has
\* succeeded nobody patches the workload again.
RepatchOnlyAfterFailure ==
  \A c, d \in patchedBy :
    /\ c # d
    /\ KeyOf[c] = KeyOf[d]
    => ret[c] = "err" \/ ret[d] = "err"

\* Do returns nil only if some caller's rollout of that workload completed: a
\* drain never goes on to wait for pods that nobody restarted.
OkMeansRestarted ==
  \A c \in Callers :
    ret[c] = "ok" => \E d \in restartedBy : KeyOf[d] = KeyOf[c]

\* Every call of Do returns: no caller waits forever for a mutex.
EveryCallReturns == \A c \in Callers : <>(pc[c] = "returned")

(***************************************************************************)
(* The coordinator implements RestartOnce: restarting a workload is being  *)
(* inside fn with its mutex held, and the outcome is known when the body   *)
(* of Do is left.                                                          *)
(***************************************************************************)
RestartingBy(k) ==
  IF holder[k] # NoCaller /\ pc[holder[k]] \in InsideFn THEN holder[k] ELSE NoCaller

OutcomeOf(c) == IF ret[c] = "none" THEN "pending" ELSE ret[c]

restartingBar == [k \in Keys |-> RestartingBy(k)]

outcomeBar == [c \in Callers |-> OutcomeOf(c)]

Promise == INSTANCE RestartOnce WITH
  restarting <- restartingBar, restarted <- done, outcome <- outcomeBar

\* The coordinator's steps are steps of the abstract promise or stutter.
ImplementsRestartOnce == Promise!Spec
================================================================================
