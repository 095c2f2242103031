--------------------------- MODULE MCJobRegistry ---------------------------
EXTENDS JobRegistry

CONSTANTS p1, p2, g1
=============================================================================
