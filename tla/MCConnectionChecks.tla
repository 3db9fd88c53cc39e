-------------------------- MODULE MCConnectionChecks --------------------------
(* ConnectionChecks for TLC: addresses of three bits, of which the upper half *)
(* is allowed by a network that is not written in its normal form, and names  *)
(* that resolve to an allowed, a forbidden, both, an IPv6 or no address.      *)
EXTENDS ConnectionChecks, TLC

CONSTANTS e1, e2, j1, j2

Executes == (e1 :> j1) @@ (e2 :> j2)

ExecutesAlone == (e1 :> j1)

UpperHalf == {<<5, 1>>}

Found == { <<>>, << <<4, 6>> >>, << <<4, 1>> >>, << <<4, 7>>, <<4, 1>> >>, << <<6, 6>> >> }
===============================================================================
