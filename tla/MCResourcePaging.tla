--------------------------- MODULE MCResourcePaging ---------------------------
(* ResourcePaging for TLC.                                                   *)
EXTENDS ResourcePaging, TLC

CONSTANTS x1, x2
===============================================================================
