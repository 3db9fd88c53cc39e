----------------------------- MODULE MCOperations -----------------------------
(* The operators' commands for TLC: migrations, and backups with restore    *)
(* drills.  They share no state, and every property speaks of one of them:  *)
(* interleaving them would add states that no property tells apart.  So the *)
(* first to take a step is the one that goes on.  A behaviour in which that *)
(* is a backup is not fair to the runners, and the liveness of Migrations   *)
(* is checked on those in which it is a runner.                             *)
EXTENDS Migrations, BackupRestore, TLC

CONSTANTS p1, p2, p3, b1, d1, d2, d3

OperationsInit == Init /\ RecoveryInit

OperationsNext ==
  \/ RecoveryInit /\ Next /\ UNCHANGED recoveryVars
  \/ Init /\ RecoveryNext /\ UNCHANGED vars

OperationsSpec ==
  /\ OperationsInit
  /\ [][OperationsNext]_<<vars, recoveryVars>>
  /\ \A r \in Runners : WF_vars(Step(r))
===============================================================================
