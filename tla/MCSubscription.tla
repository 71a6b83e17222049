--------------------------- MODULE MCSubscription ---------------------------
\* TLC instance of MarketChannel: the subscription moves, the books stand still (there
\* are no prices).
EXTENDS MarketChannel, TLC

CONSTANTS a1, a2, a3

ThreeAssets == {a1, a2, a3}
NoPrice     == {}

SubscriptionSpec ==
  Init /\ Sub!Init /\ [][Sub!Next /\ UNCHANGED vars]_<<vars, Sub!vars>> /\ Sub!Fairness
=============================================================================
