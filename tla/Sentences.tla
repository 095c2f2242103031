----------------------------- MODULE Sentences -----------------------------
(***************************************************************************)
(* How the sink cuts prose into L3 rows: maskForSentenceSplit              *)
(* (sink/splitmask.go) hides links, versions, file names and the like      *)
(* behind placeholders, splitSentencesEnglish (sink/writer.go) cuts what   *)
(* is left at sentence punctuation and puts the hidden text back, and      *)
(* expandSemanticL3Fragments cuts clauses for chunks that ask for it.      *)
(* What the eight regular expressions match is an input: any spans.        *)
(***************************************************************************)
EXTENDS ChunkedText

CONSTANTS
  Proses,      \* texts, as sequences of characters
  Matches      \* the sets of spans the expressions may match

Characters == {"letter", "space",
               "stop",       \* . ! ? and their CJK forms
               "clause"}     \* , | ;

Span == {s \in [from : Nat \ {0}, to : Nat] : s.from <= s.to}

ASSUME ProsesAssumption == Proses \subseteq Seq(Characters) /\ Matches \subseteq SUBSET Span

VARIABLES
  cand,      \* the candidate spans
  seen,      \* those looked at
  chosen,    \* the spans that are masked
  semantic   \* Chunk.SemanticL3Split, with sentences long enough for it

proseVars == <<textVars, cand, seen, chosen, semantic>>

ProseInit == /\ doc \in Proses
             /\ cand \in {m \in Matches : \A s \in m : s.to <= Len(doc)}
             /\ semantic \in BOOLEAN
             /\ stage = "mask" /\ at = 1 /\ out = << >>
             /\ seen = {} /\ chosen = {}

Length(s) == s.to - s.from + 1
Overlap(s, t) == s.from <= t.to /\ t.from <= s.to

-----------------------------------------------------------------------------
(* maskForSentenceSplit.                                                   *)

\* A longest candidate; sort.Slice orders those of one length in any way.
Longest == {s \in cand \ seen : \A t \in cand \ seen : Length(t) <= Length(s)}

\* Mutated form: a span is masked without a look at those masked before.
Mask_Overlapping == /\ stage = "mask"
                    /\ \E s \in Longest : seen' = seen \cup {s} /\ chosen' = chosen \cup {s}
                    /\ UNCHANGED <<textVars, cand, semantic>>

Mask == /\ stage = "mask"
        /\ \E s \in Longest :
             /\ seen' = seen \cup {s}
             /\ chosen' = IF \E t \in chosen : Overlap(s, t) THEN chosen ELSE chosen \cup {s}
        /\ UNCHANGED <<textVars, cand, semantic>>

MaskEnds == /\ stage = "mask" /\ seen = cand
            /\ stage' = "split"
            /\ UNCHANGED <<doc, at, out, cand, seen, chosen, semantic>>

-----------------------------------------------------------------------------
(* splitSentencesEnglish, and splitClauseFragments on what it returns.     *)

Masked(i) == \E s \in chosen : s.from <= i /\ i <= s.to

\* Mutated form: the sentence is cut before it is masked.
Cuts_Unmasked(i) == doc[i] = "stop" \/ (semantic /\ doc[i] = "clause")

\* Characters at which the text is cut and which it loses.  The clauses are
\* looked for when the masked text is back in its place.
Cuts(i) == \/ doc[i] = "stop" /\ ~Masked(i)
           \/ semantic /\ doc[i] = "clause"

EndOf(i) == IF \E j \in i..Len(doc) : Cuts(j)
            THEN Least({j \in i..Len(doc) : Cuts(j)}) - 1 ELSE Len(doc)

SplitSkip == /\ stage = "split" /\ at <= Len(doc)
             /\ Cuts(at)
             /\ at' = at + 1
             /\ UNCHANGED <<doc, stage, out, cand, seen, chosen, semantic>>

\* A part of white space only is left out.
SplitPart == /\ stage = "split" /\ at <= Len(doc)
             /\ ~Cuts(at)
             /\ out' = IF \A i \in at..EndOf(at) : doc[i] = "space" THEN out
                       ELSE Append(out, [from |-> at, to |-> EndOf(at)])
             /\ at' = EndOf(at) + 1
             /\ UNCHANGED <<doc, stage, cand, seen, chosen, semantic>>

SplitEnds == /\ stage = "split" /\ at > Len(doc)
             /\ stage' = "sentences"
             /\ UNCHANGED <<doc, at, out, cand, seen, chosen, semantic>>

ProseNext == Mask \/ MaskEnds \/ SplitSkip \/ SplitPart \/ SplitEnds

ProseSpec == ProseInit /\ [][ProseNext]_proseVars

-----------------------------------------------------------------------------
(* Properties.                                                             *)

\* The values of the variables of the two functions.
ProseTypeOK == /\ doc \in Seq(Characters) /\ stage \in {"mask", "split", "sentences"}
               /\ at \in Nat \ {0} /\ out \in Seq(Span)
               /\ cand \subseteq Span /\ seen \subseteq cand /\ chosen \subseteq cand
               /\ semantic \in BOOLEAN

\* Whatever order the sort gives spans of one length: masked spans do not
\* overlap, a match is left unmasked only where one at least as long lies over
\* it, no letter of the text is lost or comes out of place, and a masked span is
\* in one sentence from end to end unless clauses are cut.
SpansWhole == stage = "sentences" =>
  /\ \A s, t \in chosen : s # t => ~Overlap(s, t)
  /\ \A s \in cand : \E t \in chosen : Overlap(s, t) /\ Length(t) >= Length(s)
  /\ \A i \in DOMAIN doc : doc[i] = "letter" => \E n \in DOMAIN out :
       out[n].from <= i /\ i <= out[n].to
  /\ \A n \in DOMAIN out : n > 1 => out[n - 1].to < out[n].from
  /\ ~semantic => \A s \in chosen : \A n \in DOMAIN out :
       Overlap(s, out[n]) => out[n].from <= s.from /\ s.to <= out[n].to
=============================================================================
