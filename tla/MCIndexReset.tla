---------------------------- MODULE MCIndexReset ---------------------------
(* A markdown section and a source file that have the keyword "a" in common. *)
EXTENDS IndexReset, TLC

CONSTANTS w1, w2, w3, md, code, p1

Section == [heading |-> "# h", code |-> FALSE, units |-> <<"a">>, anchors |-> {}]

File    == [heading |-> "", code |-> TRUE, units |-> <<"x", "a">>, anchors |-> {2}]

MCChunksOf == (md :> <<Section>>) @@ (code :> <<File>>)
MCOwnId    == [w \in Writes |-> w]

\* The first call is made for a project, the others without one.
MCProjectOf == [w \in Writes |-> IF w = w1 THEN p1 ELSE NoRow]
=============================================================================
