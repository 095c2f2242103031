---------------------------- MODULE MCPipelines ----------------------------
(* All short texts, and longer ones over the classes that act together.    *)
EXTENDS Pipelines, TLC

CONSTANTS c1, c2, c3

Sequences(S, m, n) == UNION {[1..k -> S] : k \in m..n}

Plain(k) == [is |-> k, level |-> 0, title |-> ""]
Title(l) == [is |-> "heading", level |-> l, title |-> "a"]

AnyLine  == {Plain(k) : k \in Kinds \ {"heading"}} \cup {Title(1), Title(2)}
Fences   == {Title(1), Plain("fence"), Plain("text"), Plain("item"), Plain("blank")}
TableLines == {Plain("row"), Plain("separator"), Plain("itemrow"), Plain("item")}
MCPages  == Sequences(AnyLine, 0, 3) \cup Sequences(Fences, 4, 5) \cup Sequences(TableLines, 4, 4)

MCTexts  == Sequences(Runes, 0, 4) \cup Sequences({"letter", "space", "open", "stop"}, 5, 6)

\* A blank line is no declaration and no comment.
CodeLines == {l \in [anchor : BOOLEAN, parent : 0..3, blank : BOOLEAN, hash : BOOLEAN] :
                l.blank => ~l.anchor /\ ~l.hash}
MCSources == {s \in Sequences(CodeLines, 0, 3) : \A i \in DOMAIN s : s[i].parent < i}
               \cup {s \in Sequences({l \in CodeLines : l.anchor /\ ~l.hash}, 4, 4) :
                       \A i \in DOMAIN s : s[i].parent < i}

MCProses  == Sequences(Characters, 0, 4)
\* Spans that touch, lie over one another, or have one length.
Spans     == {[from |-> 1, to |-> 2], [from |-> 1, to |-> 3], [from |-> 2, to |-> 3],
              [from |-> 2, to |-> 4], [from |-> 3, to |-> 3]}
MCMatches == SUBSET Spans
=============================================================================
