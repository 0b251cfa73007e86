---------------------------- MODULE MCTenantGate ----------------------------
EXTENDS TenantGate

CONSTANTS d1, d2, d3, i1, i2, r1, r2, sweep

\* d2 is the hardware of d1 again, in other hands.
MCImei == [d \in {d1, d2, d3} |-> IF d = d3 THEN i2 ELSE i1]
=============================================================================
