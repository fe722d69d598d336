------------------------------ MODULE MCMultiNode ------------------------------
(* Two nodes, drained one after the other or together, one workload on both    *)
(* and one on the first.                                                        *)
EXTENDS MultiNode

CONSTANTS n1, n2, api, db

MCNodeList == <<n1, n2>>
MCKeys == {api, db}
MCMayRun == {<<n1, api>>, <<n2, api>>, <<n1, db>>}
MCCallers == {n1, n2} \X Keys
MCKeyOf == [c \in MCCallers |-> c[2]]
================================================================================
