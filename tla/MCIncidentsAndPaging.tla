------------------------- MODULE MCIncidentsAndPaging -------------------------
(* Two services of the API for TLC that share no table: AlertIncidents, with *)
(* two requests that have the key of an acknowledgement and one that        *)
(* resolves, and ResourcePaging.  As every property speaks of one of them,  *)
(* the first to take a step is the one that goes on; ListingEnds is checked *)
(* on the behaviours in which that is the listing, the only fair ones.      *)
EXTENDS AlertIncidents, ResourcePaging, TLC

CONSTANTS disk, cpu, n1, n2, n3, ack, res, t1, t2, t3, x1, x2

Actions == (ack :> "acknowledge") @@ (res :> "resolve")
Carries == (t1 :> ack) @@ (t2 :> ack) @@ (t3 :> res)

\* A listing leaves alerts and incidents as they were at first, where every
\* permutation is the identity: the symmetry merges no two states of it.
Symmetry == Permutations(Alerts) \cup Permutations(Incidents)

ServicesInit == Init /\ PagingInit

ServicesNext ==
  \/ PagingInit /\ Next /\ UNCHANGED pagingVars
  \/ Init /\ PagingNext /\ UNCHANGED vars

ServicesSpec ==
  /\ ServicesInit
  /\ [][ServicesNext]_<<vars, pagingVars>>
  /\ WF_pagingVars(List)
===============================================================================
