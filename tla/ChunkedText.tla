---------------------------- MODULE ChunkedText ----------------------------
(***************************************************************************)
(* What the text pipelines of phloem (internal/phloem/domain) have in      *)
(* common: one request turns the text it carries into chunks, on variables *)
(* of its own, reading the text from front to back.                        *)
(***************************************************************************)
EXTENDS Integers, Sequences, FiniteSets

VARIABLES
  doc,     \* the request's text: a sequence of lines, of runes, ...
  stage,   \* the loop the request is in
  at,      \* where in doc it stands
  out      \* the chunks made so far, in order

textVars == <<doc, stage, at, out>>

\* The text is cut up, into sections, pieces, the lines of a source file or
\* sentences.
Done == stage \in {"sections", "pieces", "source", "sentences"}

Least(S)    == CHOOSE i \in S : \A j \in S : i <= j
Greatest(S) == CHOOSE i \in S : \A j \in S : i >= j
=============================================================================
