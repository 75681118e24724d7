---------------------------- MODULE MCWebGameDeploy ----------------------------
EXTENDS WebGameDeploy

CONSTANTS p0, p1, p2

MCPins == {p0, p1, p2}
\* A promotion, its rollback, a rival of it, and a redeployment of one pin.
MCRequests == {[expected |-> p0, approved |-> p1, gen |-> 1],
               [expected |-> p1, approved |-> p0, gen |-> 1],
               [expected |-> p0, approved |-> p2, gen |-> 1],
               [expected |-> p1, approved |-> p1, gen |-> 2]}
=============================================================================
