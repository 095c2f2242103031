---------------------------- MODULE MCApiServer ----------------------------
EXTENDS ApiServer

CONSTANTS p1, p2, c1, d1, n1

\* The two posts are alike: p1 is the one that comes first.
InOrder == at[p1] = "idle" => at[p2] = "idle"
=============================================================================
