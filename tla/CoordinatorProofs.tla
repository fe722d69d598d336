--------------------------- MODULE CoordinatorProofs ---------------------------
(***************************************************************************)
(* Proofs about Coordinator for any set of callers and any set of          *)
(* workload keys: its safety invariants and that it implements             *)
(* RestartOnce.  The inductive invariant ties the three ways the code      *)
(* knows about a restart together: who holds the key's mutex, where that   *)
(* caller is in Do, and what c.done says.                                  *)
(***************************************************************************)
EXTENDS Coordinator, TLAPS

USE CoordinatorAssumption

(***************************************************************************)
(* The key's mutex is held exactly by the caller that is inside Do's body, *)
(* and nobody holds the mutex of another workload than its own.            *)
(***************************************************************************)
HolderInv ==
  /\ \A c \in Callers : pc[c] \in InsideLock <=> holder[KeyOf[c]] = c
  /\ \A k \in Keys : holder[k] # NoCaller => KeyOf[holder[k]] = k

\* A result exists exactly from the moment the body of Do is left.
RetInv ==
  \A c \in Callers : ret[c] = "none" <=> pc[c] \notin {"unlock", "returned"}

\* c.done and the callers' positions agree on which workloads are restarted.
DoneInv ==
  /\ \A k \in done : \E d \in restartedBy : KeyOf[d] = k
  /\ \A c \in Callers :
       /\ pc[c] \in InsideFn => KeyOf[c] \notin done
       /\ pc[c] = "markDone" => c \in restartedBy
       /\ ret[c] = "ok" => KeyOf[c] \in done

\* A completed restart is in c.done or about to be put there; a patch that was
\* sent belongs to a restart under way, a failed one or a completed one.
HistoryInv ==
  /\ \A c \in restartedBy : pc[c] = "markDone" \/ KeyOf[c] \in done
  /\ \A c \in patchedBy :
       pc[c] \in {"rollout", "markDone"} \/ ret[c] = "err" \/ KeyOf[c] \in done

CoordInv ==
  /\ CoordTypeOK
  /\ HolderInv
  /\ RetInv
  /\ DoneInv
  /\ HistoryInv
  /\ RestartedAtMostOnce
  /\ RepatchOnlyAfterFailure

\* The initial state satisfies the inductive invariant.
LEMMA CoordInitInv == CoordInit => CoordInv
<1> SUFFICES ASSUME CoordInit PROVE CoordInv
  OBVIOUS
<1> USE DEF CoordInit
<1>1. CoordTypeOK
  BY DEF CoordTypeOK, ControlPoints
<1>2. HolderInv
  BY DEF HolderInv, InsideLock
<1>3. RetInv
  BY DEF RetInv
<1>4. DoneInv
  BY DEF DoneInv, InsideFn
<1>5. HistoryInv /\ RestartedAtMostOnce /\ RepatchOnlyAfterFailure
  BY DEF HistoryInv, RestartedAtMostOnce, RepatchOnlyAfterFailure
<1> QED
  BY <1>1, <1>2, <1>3, <1>4, <1>5 DEF CoordInv

\* Every step keeps the types of the state.
LEMMA CoordTypeStep ==
  CoordTypeOK /\ [CoordNext]_coordVars => CoordTypeOK'
<1> SUFFICES ASSUME CoordTypeOK, [CoordNext]_coordVars PROVE CoordTypeOK'
  OBVIOUS
<1> USE DEF CoordTypeOK, ControlPoints, InsideLock, Goto, Return
<1>1. ASSUME NEW c \in Callers, LockFor(c) PROVE CoordTypeOK'
  BY <1>1 DEF LockFor
<1>2. ASSUME NEW c \in Callers, Lock(c) PROVE CoordTypeOK'
  BY <1>2 DEF Lock
<1>3. ASSUME NEW c \in Callers, CheckCtx(c) PROVE CoordTypeOK'
  BY <1>3 DEF CheckCtx
<1>4. ASSUME NEW c \in Callers, CheckDone(c) PROVE CoordTypeOK'
  BY <1>4 DEF CheckDone
<1>5. ASSUME NEW c \in Callers, Fn(c) PROVE CoordTypeOK'
  BY <1>5 DEF Fn, PatchOk, PatchError, RolloutOk, RolloutError
<1>6. ASSUME NEW c \in Callers, MarkDone(c) PROVE CoordTypeOK'
  BY <1>6 DEF MarkDone
<1>7. ASSUME NEW c \in Callers, Unlock(c) PROVE CoordTypeOK'
  BY <1>7 DEF Unlock
<1>8. ASSUME NEW c \in Callers, CancelCtx(c) PROVE CoordTypeOK'
  BY <1>8 DEF CancelCtx
<1>9. CASE UNCHANGED coordVars
  BY <1>9 DEF coordVars
<1> QED
  BY <1>1, <1>2, <1>3, <1>4, <1>5, <1>6, <1>7, <1>8, <1>9
     DEF CoordNext, Do, Finished

\* Holding the mutex and being inside Do exclude a second caller of the key.
LEMMA HolderIsAlone ==
  ASSUME HolderInv, NEW c \in Callers, NEW d \in Callers,
         pc[c] \in InsideLock, pc[d] \in InsideLock, KeyOf[c] = KeyOf[d]
  PROVE  c = d
  BY DEF HolderInv

\* Every step keeps the mutex with the caller inside Do, and a result appears
\* exactly when the body is left.
LEMMA HolderStep ==
  CoordInv /\ [CoordNext]_coordVars => HolderInv' /\ RetInv'
<1> SUFFICES ASSUME CoordInv, [CoordNext]_coordVars PROVE HolderInv' /\ RetInv'
  OBVIOUS
<1> USE DEF CoordInv, CoordTypeOK, HolderInv, RetInv, ControlPoints, InsideLock,
            Goto, Return
<1>1. ASSUME NEW c \in Callers, LockFor(c) PROVE HolderInv' /\ RetInv'
  BY <1>1 DEF LockFor
<1>2. ASSUME NEW c \in Callers, Lock(c) PROVE HolderInv' /\ RetInv'
  BY <1>2 DEF Lock
<1>3. ASSUME NEW c \in Callers, CheckCtx(c) PROVE HolderInv' /\ RetInv'
  BY <1>3 DEF CheckCtx
<1>4. ASSUME NEW c \in Callers, CheckDone(c) PROVE HolderInv' /\ RetInv'
  BY <1>4 DEF CheckDone
<1>5. ASSUME NEW c \in Callers, Fn(c) PROVE HolderInv' /\ RetInv'
  BY <1>5 DEF Fn, PatchOk, PatchError, RolloutOk, RolloutError
<1>6. ASSUME NEW c \in Callers, MarkDone(c) PROVE HolderInv' /\ RetInv'
  BY <1>6 DEF MarkDone
<1>7. ASSUME NEW c \in Callers, Unlock(c) PROVE HolderInv' /\ RetInv'
  BY <1>7 DEF Unlock
<1>8. ASSUME NEW c \in Callers, CancelCtx(c) PROVE HolderInv' /\ RetInv'
  BY <1>8 DEF CancelCtx
<1>9. CASE UNCHANGED coordVars
  BY <1>9 DEF coordVars
<1> QED
  BY <1>1, <1>2, <1>3, <1>4, <1>5, <1>6, <1>7, <1>8, <1>9
     DEF CoordNext, Do, Finished

\* Every step keeps c.done in agreement with the completed restarts and with
\* the callers inside fn.
LEMMA DoneStep ==
  CoordInv /\ [CoordNext]_coordVars => DoneInv'
<1> SUFFICES ASSUME CoordInv, [CoordNext]_coordVars PROVE DoneInv'
  OBVIOUS
<1> USE DEF CoordInv, CoordTypeOK, HolderInv, RetInv, DoneInv, ControlPoints,
            InsideLock, InsideFn, Goto, Return
<1>1. ASSUME NEW c \in Callers, LockFor(c) PROVE DoneInv'
  BY <1>1 DEF LockFor
<1>2. ASSUME NEW c \in Callers, Lock(c) PROVE DoneInv'
  BY <1>2 DEF Lock
<1>3. ASSUME NEW c \in Callers, CheckCtx(c) PROVE DoneInv'
  BY <1>3 DEF CheckCtx
<1>4. ASSUME NEW c \in Callers, CheckDone(c) PROVE DoneInv'
  BY <1>4 DEF CheckDone
<1>5. ASSUME NEW c \in Callers, Fn(c) PROVE DoneInv'
  BY <1>5 DEF Fn, PatchOk, PatchError, RolloutOk, RolloutError
<1>6. ASSUME NEW c \in Callers, MarkDone(c) PROVE DoneInv'
  <2>1. \A d \in Callers : d # c /\ KeyOf[d] = KeyOf[c] => pc[d] \notin InsideFn
    BY <1>6, HolderIsAlone DEF MarkDone
  <2> QED
    BY <1>6, <2>1 DEF MarkDone
<1>7. ASSUME NEW c \in Callers, Unlock(c) PROVE DoneInv'
  BY <1>7 DEF Unlock
<1>8. ASSUME NEW c \in Callers, CancelCtx(c) PROVE DoneInv'
  BY <1>8 DEF CancelCtx
<1>9. CASE UNCHANGED coordVars
  BY <1>9 DEF coordVars
<1> QED
  BY <1>1, <1>2, <1>3, <1>4, <1>5, <1>6, <1>7, <1>8, <1>9
     DEF CoordNext, Do, Finished

\* Every step keeps the history: one completed restart per workload, and a
\* second patch only after a failed attempt.
LEMMA HistoryStep ==
  CoordInv /\ [CoordNext]_coordVars
    => HistoryInv' /\ RestartedAtMostOnce' /\ RepatchOnlyAfterFailure'
<1> DEFINE Good == HistoryInv /\ RestartedAtMostOnce /\ RepatchOnlyAfterFailure
<1> SUFFICES ASSUME CoordInv, [CoordNext]_coordVars PROVE Good'
  OBVIOUS
<1> USE DEF CoordInv, CoordTypeOK, HolderInv, RetInv, DoneInv, HistoryInv,
            RestartedAtMostOnce, RepatchOnlyAfterFailure, ControlPoints,
            InsideLock, InsideFn, Goto, Return
<1>1. ASSUME NEW c \in Callers, LockFor(c) PROVE Good'
  BY <1>1 DEF LockFor
<1>2. ASSUME NEW c \in Callers, Lock(c) PROVE Good'
  BY <1>2 DEF Lock
<1>3. ASSUME NEW c \in Callers, CheckCtx(c) PROVE Good'
  BY <1>3 DEF CheckCtx
<1>4. ASSUME NEW c \in Callers, CheckDone(c) PROVE Good'
  BY <1>4 DEF CheckDone
<1>5. ASSUME NEW c \in Callers, Fn(c) PROVE Good'
  <2>1. \A d \in Callers : d # c /\ KeyOf[d] = KeyOf[c] => pc[d] \notin InsideFn
    BY <1>5, HolderIsAlone DEF Fn, PatchOk, PatchError, RolloutOk, RolloutError
  <2>2. CASE PatchOk(c)
    BY <2>1, <2>2 DEF PatchOk
  <2>3. CASE PatchError(c)
    BY <2>1, <2>3 DEF PatchError
  <2>4. CASE RolloutOk(c)
    BY <2>1, <2>4 DEF RolloutOk
  <2>5. CASE RolloutError(c)
    BY <2>1, <2>5 DEF RolloutError
  <2> QED
    BY <1>5, <2>2, <2>3, <2>4, <2>5 DEF Fn
<1>6. ASSUME NEW c \in Callers, MarkDone(c) PROVE Good'
  BY <1>6 DEF MarkDone
<1>7. ASSUME NEW c \in Callers, Unlock(c) PROVE Good'
  BY <1>7 DEF Unlock
<1>8. ASSUME NEW c \in Callers, CancelCtx(c) PROVE Good'
  BY <1>8 DEF CancelCtx
<1>9. CASE UNCHANGED coordVars
  BY <1>9 DEF coordVars
<1> QED
  BY <1>1, <1>2, <1>3, <1>4, <1>5, <1>6, <1>7, <1>8, <1>9
     DEF CoordNext, Do, Finished

\* The inductive invariant holds in every reachable state.
THEOREM CoordInvariant == CoordSpec => []CoordInv
<1>1. CoordInit => CoordInv
  BY CoordInitInv
<1>2. CoordInv /\ [CoordNext]_coordVars => CoordInv'
  BY CoordTypeStep, HolderStep, DoneStep, HistoryStep DEF CoordInv
<1> QED
  BY <1>1, <1>2, PTL DEF CoordSpec

\* The coordinator's state is always well typed, for any callers and keys.
THEOREM CoordTypeCorrect == CoordSpec => []CoordTypeOK
<1>1. CoordInv => CoordTypeOK
  BY DEF CoordInv
<1> QED
  BY <1>1, CoordInvariant, PTL

\* Two drains are never inside the restart of the same workload.
THEOREM CoordMutualExclusion == CoordSpec => []MutualExclusion
<1>1. CoordInv => MutualExclusion
  BY HolderIsAlone DEF CoordInv, MutualExclusion
<1> QED
  BY <1>1, CoordInvariant, PTL

\* However many drains share it, one invocation completes the restart of a
\* workload at most once.
THEOREM CoordRestartedAtMostOnce == CoordSpec => []RestartedAtMostOnce
<1>1. CoordInv => RestartedAtMostOnce
  BY DEF CoordInv
<1> QED
  BY <1>1, CoordInvariant, PTL

\* A second restart patch is sent only after the first attempt has failed.
THEOREM CoordRepatchOnlyAfterFailure == CoordSpec => []RepatchOnlyAfterFailure
<1>1. CoordInv => RepatchOnlyAfterFailure
  BY DEF CoordInv
<1> QED
  BY <1>1, CoordInvariant, PTL

\* Do returns nil only for a workload whose restart some caller completed.
THEOREM CoordOkMeansRestarted == CoordSpec => []OkMeansRestarted
<1>1. CoordInv => OkMeansRestarted
  BY DEF CoordInv, DoneInv, OkMeansRestarted
<1> QED
  BY <1>1, CoordInvariant, PTL

(***************************************************************************)
(* Refinement.  Each step of Do is a step of RestartOnce under the mapping *)
(* of Coordinator, or changes nothing that mapping can see.                *)
(***************************************************************************)
\* The coordinator starts as the abstract promise does.
LEMMA PromiseInit == CoordInit => Promise!Init
  BY DEF CoordInit, Promise!Init, restartingBar, outcomeBar, RestartingBy, OutcomeOf

\* Updating who restarts one workload updates one entry of the mapping.
LEMMA RestartingUpdate ==
  ASSUME NEW k \in Keys, NEW v, RestartingBy(k)' = v,
         \A j \in Keys : j # k => RestartingBy(j)' = RestartingBy(j)
  PROVE  restartingBar' = [restartingBar EXCEPT ![k] = v]
  BY DEF restartingBar

\* Likewise for the outcome of one call.
LEMMA OutcomeUpdate ==
  ASSUME NEW c \in Callers, NEW v, OutcomeOf(c)' = v,
         \A d \in Callers : d # c => OutcomeOf(d)' = OutcomeOf(d)
  PROVE  outcomeBar' = [outcomeBar EXCEPT ![c] = v]
  BY DEF outcomeBar

\* Each step of the coordinator is a step of the promise or a stutter.
LEMMA PromiseStep ==
  CoordInv /\ [CoordNext]_coordVars => [Promise!Next]_(Promise!vars)
<1> SUFFICES ASSUME CoordInv, [CoordNext]_coordVars
             PROVE  [Promise!Next]_(Promise!vars)
  OBVIOUS
<1> DEFINE Stutter == UNCHANGED <<restartingBar, done, outcomeBar>>
<1> USE DEF CoordInv, CoordTypeOK, HolderInv, RetInv, DoneInv, ControlPoints,
            InsideLock, InsideFn, Goto, Return, RestartingBy, OutcomeOf, restartingBar, outcomeBar
<1>1. ASSUME NEW c \in Callers, LockFor(c) PROVE Stutter
  BY <1>1 DEF LockFor
<1>2. ASSUME NEW c \in Callers, Lock(c) PROVE Stutter
  BY <1>2 DEF Lock
<1>3. ASSUME NEW c \in Callers, CheckCtx(c) PROVE Promise!GiveUp(c) \/ Stutter
  <2>1. CASE ctxErr[c]
    <3>1. /\ outcomeBar[c] = "pending"
          /\ restartingBar[KeyOf[c]] # c
      BY <1>3, <2>1 DEF CheckCtx
    <3>2. restartingBar' = restartingBar
      BY <1>3, <2>1 DEF CheckCtx
    <3>3. outcomeBar' = [outcomeBar EXCEPT ![c] = "err"]
      <4>1. OutcomeOf(c)' = "err"
        BY <1>3, <2>1 DEF CheckCtx
      <4>2. \A d \in Callers : d # c => OutcomeOf(d)' = OutcomeOf(d)
        BY <1>3, <2>1 DEF CheckCtx
      <4> QED
        BY <4>1, <4>2, OutcomeUpdate
    <3> QED
      BY <1>3, <3>1, <3>2, <3>3 DEF CheckCtx, Promise!GiveUp
  <2>2. CASE ~ctxErr[c]
    BY <1>3, <2>2 DEF CheckCtx
  <2> QED
    BY <2>1, <2>2
<1>4. ASSUME NEW c \in Callers, CheckDone(c)
      PROVE  Promise!Share(c) \/ Promise!Begin(c)
  <2>1. outcomeBar[c] = "pending" /\ restartingBar[KeyOf[c]] = NoCaller
    BY <1>4 DEF CheckDone
  <2>2. CASE KeyOf[c] \in done
    <3>1. restartingBar' = restartingBar
      BY <1>4, <2>2 DEF CheckDone
    <3>2. outcomeBar' = [outcomeBar EXCEPT ![c] = "ok"]
      <4>1. OutcomeOf(c)' = "ok"
        BY <1>4, <2>2 DEF CheckDone
      <4>2. \A d \in Callers : d # c => OutcomeOf(d)' = OutcomeOf(d)
        BY <1>4, <2>2 DEF CheckDone
      <4> QED
        BY <4>1, <4>2, OutcomeUpdate
    <3> QED
      BY <1>4, <2>1, <2>2, <3>1, <3>2 DEF CheckDone, Promise!Share
  <2>3. CASE KeyOf[c] \notin done
    <3>1. restartingBar' = [restartingBar EXCEPT ![KeyOf[c]] = c]
      <4>1. RestartingBy(KeyOf[c])' = c
        BY <1>4, <2>3 DEF CheckDone
      <4>2. \A d \in Keys : d # KeyOf[c] => RestartingBy(d)' = RestartingBy(d)
        BY <1>4, <2>3 DEF CheckDone
      <4> QED
        BY <4>1, <4>2, RestartingUpdate
    <3>2. outcomeBar' = outcomeBar
      BY <1>4, <2>3 DEF CheckDone
    <3> QED
      BY <1>4, <2>1, <2>3, <3>1, <3>2 DEF CheckDone, Promise!Begin
  <2> QED
    BY <2>2, <2>3
<1>5. ASSUME NEW c \in Callers, Fn(c) PROVE Promise!Fail(c) \/ Stutter
  <2>1. CASE PatchOk(c) \/ RolloutOk(c)
    BY <2>1 DEF PatchOk, RolloutOk
  <2>2. CASE PatchError(c) \/ RolloutError(c)
    <3>1. restartingBar[KeyOf[c]] = c
      BY <2>2 DEF PatchError, RolloutError
    <3>2. restartingBar' = [restartingBar EXCEPT ![KeyOf[c]] = NoCaller]
      <4>1. RestartingBy(KeyOf[c])' = NoCaller
        BY <2>2 DEF PatchError, RolloutError
      <4>2. \A d \in Keys : d # KeyOf[c] => RestartingBy(d)' = RestartingBy(d)
        BY <2>2 DEF PatchError, RolloutError
      <4> QED
        BY <4>1, <4>2, RestartingUpdate
    <3>3. outcomeBar' = [outcomeBar EXCEPT ![c] = "err"]
      <4>1. OutcomeOf(c)' = "err"
        BY <2>2 DEF PatchError, RolloutError
      <4>2. \A d \in Callers : d # c => OutcomeOf(d)' = OutcomeOf(d)
        BY <2>2 DEF PatchError, RolloutError
      <4> QED
        BY <4>1, <4>2, OutcomeUpdate
    <3> QED
      BY <2>2, <3>1, <3>2, <3>3 DEF PatchError, RolloutError, Promise!Fail
  <2> QED
    BY <1>5, <2>1, <2>2 DEF Fn
<1>6. ASSUME NEW c \in Callers, MarkDone(c) PROVE Promise!Succeed(c)
  <2>1. restartingBar[KeyOf[c]] = c
    BY <1>6 DEF MarkDone
  <2>2. restartingBar' = [restartingBar EXCEPT ![KeyOf[c]] = NoCaller]
    <3>1. RestartingBy(KeyOf[c])' = NoCaller
      BY <1>6 DEF MarkDone
    <3>2. \A d \in Keys : d # KeyOf[c] => RestartingBy(d)' = RestartingBy(d)
      BY <1>6 DEF MarkDone
    <3> QED
      BY <3>1, <3>2, RestartingUpdate
  <2>3. outcomeBar' = [outcomeBar EXCEPT ![c] = "ok"]
    <3>1. OutcomeOf(c)' = "ok"
      BY <1>6 DEF MarkDone
    <3>2. \A d \in Callers : d # c => OutcomeOf(d)' = OutcomeOf(d)
      BY <1>6 DEF MarkDone
    <3> QED
      BY <3>1, <3>2, OutcomeUpdate
  <2> QED
    BY <1>6, <2>1, <2>2, <2>3 DEF MarkDone, Promise!Succeed
<1>7. ASSUME NEW c \in Callers, Unlock(c) PROVE Stutter
  BY <1>7 DEF Unlock
<1>8. ASSUME NEW c \in Callers, CancelCtx(c) PROVE Stutter
  BY <1>8 DEF CancelCtx
<1>9. ASSUME UNCHANGED coordVars PROVE Stutter
  BY <1>9 DEF coordVars
<1> QED
  BY <1>1, <1>2, <1>3, <1>4, <1>5, <1>6, <1>7, <1>8, <1>9
     DEF CoordNext, Do, Finished, Promise!Next, Promise!vars

\* The coordinator keeps the promise RestartOnce makes to the drains that share
\* it, for any number of drains and workloads.
THEOREM CoordImplementsRestartOnce == CoordSpec => ImplementsRestartOnce
<1> QED
  BY CoordInvariant, PromiseInit, PromiseStep, PTL
     DEF CoordSpec, ImplementsRestartOnce, Promise!Spec

================================================================================
