----------------------------- MODULE MCCoordinator -----------------------------
(* Three drains share workload "web"; one of them also drains "db". *)
EXTENDS Coordinator, TLC

CONSTANTS c1, c2, c3, c4, web, db

MCCallers == {c1, c2, c3, c4}
MCKeys == {web, db}
MCKeyOf == c1 :> web @@ c2 :> web @@ c3 :> web @@ c4 :> db
================================================================================
