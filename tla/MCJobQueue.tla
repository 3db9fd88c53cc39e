------------------------------ MODULE MCJobQueue ------------------------------
(* JobQueue for TLC: model values for jobs and workers.                    *)
EXTENDS JobQueue, TLC

CONSTANTS j1, j2, w1, w2
===============================================================================
