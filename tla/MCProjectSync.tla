--------------------------- MODULE MCProjectSync ---------------------------
EXTENDS ProjectSync, TLC

CONSTANTS r1, r2, r3, x, y, a, b, t, u

\* A directory, and a directory below it.
Whole == [root |-> "top", files |-> <<x, y>>]
Below == [root |-> "sub", files |-> <<y>>]

WholeDirs == {Whole}
Nested    == {Whole, Below}

OwnTitles  == [f \in {x, y} |-> IF f = x THEN t ELSE u]
SameTitles == [f \in {x, y} |-> t]

MCSymmetry == Permutations(Runs)
=============================================================================
