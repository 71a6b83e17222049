----------------------------- MODULE MCPipeline -----------------------------
\* TLC instance of Pipeline: two requeue workers (the code has four, all alike).
EXTENDS Pipeline, TLC

CONSTANTS q1, q2

TwoRequeue == {q1, q2}
=============================================================================
