--------------------------- MODULE MCUsageOutbox ---------------------------
EXTENDS UsageOutbox

CONSTANTS small, large, flat

\* What STRIPE_INCLUDED says of the prices.
MCIncluded == [p \in {small, large, flat} |-> CASE p = small -> 0 [] p = large -> 1 [] OTHER -> None]
=============================================================================
