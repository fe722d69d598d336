-------------------------------- MODULE DrainRun --------------------------------
(***************************************************************************)
(* What the phases of one Drainer share (pkg/drain/drain.go): the flags it *)
(* was created with, the context Run passes down, and runState.            *)
(***************************************************************************)
EXTENDS TargetNode

CONSTANT
  Options           \* the flags a drain may be given, a set of records

VARIABLES
  opts,             \* d.opts
  ctxErr,           \* ctx.Err() # nil: --timeout expired, or a sibling failed
  protected         \* state.protectedWorkloads

runVars == <<opts, ctxErr, protected>>

\* Some flags, and whether the context has ended, are known to every phase.
RunTypeOK ==
  /\ opts \in Options
  /\ ctxErr \in BOOLEAN
  /\ protected \in SUBSET Workloads

\* The bounded context ends: from now on API calls and waits return errors.
CtxEnds ==
  /\ ~ctxErr
  /\ ctxErr' = TRUE
  /\ UNCHANGED <<opts, protected>>
================================================================================
