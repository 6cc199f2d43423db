------------------------------ MODULE MCAccess ------------------------------
(* A small instance of TenantAccess. *)
EXTENDS TenantAccess, TLC

CONSTANTS A, B, k1, k2, p0, r1, r2, clerkA, bossB

MCKeys == (clerkA :> [tenant |-> A, roles |-> {"processor"}]) @@
          (bossB :> [tenant |-> B, roles |-> Role])
MCAmount == {-1, 0, 3}
MCArriving(tenant) ==
    IF tenant = A THEN {<<k1, -1, "EUR">>, <<k1, 3, "UNSPECIFIED">>}
    ELSE {<<k2, 3, "EUR">>}
MCWaiting == (r1 :> None) @@
             (r2 :> [tenant |-> A, concept |-> k2, amount |-> 3, currency |-> "UNSPECIFIED"])
MCSeedProducts == [p \in Product |-> IF p = p0 THEN B ELSE None]
MCSeedAliases == [t \in Tenant |-> [k \in Concept |-> IF t = B /\ k = k1 THEN p0 ELSE None]]
MCScore == {0, 1}

\* frequency, impact and uncertainty, each with the code's 1.0 + or 1.0 -
MCRank(n, value, score) == (1 + n) * (1 + value) * (2 - score)

Symmetric == Permutations(Caller)
=============================================================================
