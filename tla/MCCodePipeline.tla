--------------------------- MODULE MCCodePipeline --------------------------
EXTENDS CodePipeline, TLC

CONSTANTS c1, c2, c3
=============================================================================
