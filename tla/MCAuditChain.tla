----------------------------- MODULE MCAuditChain -----------------------------
(* AuditChain for TLC: model values for transactions and tenants.          *)
EXTENDS AuditChain, TLC

CONSTANTS x1, x2, x3, acme, globex

Symmetry == Permutations(Txs) \cup Permutations(Tenants)
===============================================================================
