---------------------------- MODULE MCSinkWrite ----------------------------
(* A markdown section with a heading and a repeated sentence, and a source  *)
(* file of two lines of which one is an anchor, after an empty section.     *)
EXTENDS SinkWrite, TLC

CONSTANTS w1, w2, w3, w4, md, code, m1, m2

Section == [heading |-> "# h", code |-> FALSE, units |-> <<"a", "a">>, anchors |-> {}]
Empty   == [heading |-> "", code |-> FALSE, units |-> << >>, anchors |-> {}]
File    == [heading |-> "", code |-> TRUE, units |-> <<"x", "x">>, anchors |-> {2}]

MCChunksOf == (md :> <<Section>>) @@ (code :> <<Empty, File>>)

\* Every call has an id of its own / the ids of two calls collide.
MCOwnId    == [w \in Writes |-> w]
MCSharedId == [w \in Writes |-> IF w \in {w1, w2} THEN m1 ELSE m2]

MCSymmetry == Permutations(Writes)
MCPair     == Permutations({w1, w2})    \* with MCSharedId
=============================================================================
