------------------------------- MODULE MCRollout -------------------------------
(* Up to two replicas, and one change by somebody else before or after the    *)
(* restart.                                                                    *)
EXTENDS Rollout

MCOthersUpTo == [Deployment |-> 1, StatefulSet |-> 2]
MCKinds == {"Deployment", "StatefulSet"}
================================================================================
