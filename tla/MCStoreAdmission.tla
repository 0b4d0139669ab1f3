-------------------------- MODULE MCStoreAdmission --------------------------
EXTENDS StoreAdmission

CONSTANTS r1, r2, r3, r4, r5, r6, t1, t2, t3

Op(kind, t) == [kind |-> kind, tenant |-> t]

\* Two tenants at their cap with one more request each, a third that competes with
\* them for the pool, and a binding.
MCRequest == {r1, r2, r3, r4, r5, r6}
MCOp == [r \in MCRequest |->
           CASE r = r1 -> Op("read", t1)
             [] r = r2 -> Op("read", t1)
             [] r = r3 -> Op("read", t2)
             [] r = r4 -> Op("write", t2)
             [] r = r5 -> Op("read", t3)
             [] r = r6 -> Op("bind", t3)]
=============================================================================
