--------------------------- MODULE MCWalkForward ---------------------------
EXTENDS WalkForward
=============================================================================
