------------------------------ MODULE MCApiServer -----------------------------
(* ApiServer for TLC: three requests with one token, one signed delivery and  *)
(* one key, the third with another body and name; each may take any route.    *)
EXTENDS ApiServer, TLC

CONSTANTS r1, r2, r3, n1, key, b1, b2, m1, m2, tok

Stamps   == [n \in Nonces |-> 1]
Carries  == [r \in Requests |-> n1]
KeysOf   == [r \in Requests |-> key]
BodiesOf == [r \in Requests |-> IF r = r3 THEN b2 ELSE b1]
NamesOf  == [r \in Requests |-> IF r = r3 THEN m2 ELSE m1]
Issues   == [t \in Tokens |-> 0]
Expiries == [t \in Tokens |-> 2]
Bears    == [r \in Requests |-> tok]
Clocks   == {-1}
Routing  == [r \in Requests |-> IF r = r3 THEN {"intake", "revoke"}
                               ELSE {"webhook", "intake", "metrics"}]

Symmetry == Permutations({r1, r2})
===============================================================================
