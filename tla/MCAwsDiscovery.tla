---------------------------- MODULE MCAwsDiscovery ----------------------------
(* AwsDiscovery for TLC: three resources listed by two region and type      *)
(* pairs, and executions that belong to one job or to two.                  *)
EXTENDS AwsDiscovery, TLC

CONSTANTS vm1, vm2, db1, ec2, rds, J1, J2, e1, e2, e3

PairOfItem == (vm1 :> ec2) @@ (vm2 :> ec2) @@ (db1 :> rds)

\* e1 and e2 are two attempts of one job.
Retried == (e1 :> J1) @@ (e2 :> J1) @@ (e3 :> J2)

\* Two attempts of one job and no other execution.
RetriedAlone == (e1 :> J1) @@ (e2 :> J1)
===============================================================================
