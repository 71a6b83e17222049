--------------------------- MODULE MCSubgraphSync ---------------------------
\* TLC instance of SubgraphSync: four items, two of which share a condition.
EXTENDS SubgraphSync

ShareCond == [i \in Ids |-> IF i = 4 THEN 1 ELSE i]
=============================================================================
