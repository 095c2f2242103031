---------------------------- MODULE FixedChunks ----------------------------
(***************************************************************************)
(* ByFixedSizeChunker (internal/phloem/chunker/fixed.go), the chunker of   *)
(* the PDF pipeline (domain/pdf.go): pieces of at most MaxChars runes, cut *)
(* at the last place in the window where a sentence, a clause or a line    *)
(* ends.  A rune is known by its class; at counts the runes behind it.     *)
(***************************************************************************)
EXTENDS ChunkedText

CONSTANTS
  Texts,     \* contents, as sequences of runes
  MaxChars   \* the window; the default 1000 stands for 0 and less

Runes == {"letter", "space", "newline",
          "stop",      \* . ! ?
          "clause",    \* , | ;
          "close",     \* ) }
          "open",      \* ( {
          "hyphen"}
Spaces == {"space", "newline"}

ASSUME FixedAssumption == Texts \subseteq Seq(Runes) /\ MaxChars \in Nat \ {0}

VARIABLES cut    \* end: the runes before the end of the piece in hand

fixedVars == <<textVars, cut>>

Space(i) == i \in DOMAIN doc /\ doc[i] \in Spaces

\* The content after strings.TrimSpace.
Trimmed(t) == t = << >> \/ (t[1] \notin Spaces /\ t[Len(t)] \notin Spaces)

FixedInit == /\ doc \in {t \in Texts : Trimmed(t)}
             /\ stage = "window" /\ at = 0 /\ out = << >>
             /\ cut = 0

Limit == IF at + MaxChars > Len(doc) THEN Len(doc) ELSE at + MaxChars

-----------------------------------------------------------------------------
(* findLastSemanticBreak.                                                  *)

\* The piece may end behind rune e.
BreaksAfter(e) ==
  \/ doc[e] \in {"newline", "clause", "close"}
  \/ doc[e] = "stop" /\ (e = Len(doc) \/ Space(e + 1))
  \/ doc[e] = "hyphen" /\ e >= 2 /\ doc[e - 1] = "newline"
  \/ doc[e] = "space" /\ (e - at) * 2 >= Limit - at

\* The piece may end in front of rune e.
BreaksBefore(e) == doc[e] = "open" /\ e - 1 > at

\* The rest fits, or the search for a break begins at the window's end.
Window == /\ stage = "window" /\ at < Len(doc)
          /\ cut' = Limit
          /\ stage' = IF Limit < Len(doc) THEN "search" ELSE "cut"
          /\ UNCHANGED <<doc, at, out>>

SearchBack == /\ stage = "search" /\ cut > at
              /\ ~BreaksAfter(cut) /\ ~BreaksBefore(cut)
              /\ cut' = cut - 1
              /\ UNCHANGED <<doc, stage, at, out>>

FoundBreak == /\ stage = "search" /\ cut > at
              /\ BreaksAfter(cut) \/ BreaksBefore(cut)
              /\ cut' = IF BreaksAfter(cut) THEN cut ELSE cut - 1
              /\ stage' = "cut"
              /\ UNCHANGED <<doc, at, out>>

\* Mutated form: no cut at the window's end, the loop takes what is left.
NoBreak_Rest == /\ stage = "search" /\ cut = at
                /\ cut' = Len(doc)
                /\ stage' = "cut"
                /\ UNCHANGED <<doc, at, out>>

\* No break: a cut at the window's end.
NoBreak == /\ stage = "search" /\ cut = at
           /\ cut' = Limit
           /\ stage' = "cut"
           /\ UNCHANGED <<doc, at, out>>

-----------------------------------------------------------------------------
(* ByFixedSizeChunker.Chunks.                                              *)

\* The piece becomes a chunk; its text is trimmed at the end.
TakePiece == /\ stage = "cut"
             /\ out' = Append(out, [n |-> Len(out), from |-> at + 1, to |-> cut])
             /\ at' = cut
             /\ stage' = "skip"
             /\ UNCHANGED <<doc, cut>>

\* Mutated form: one rune is skipped whatever it is.
SkipSpace_Any == /\ stage = "skip" /\ at < Len(doc)
                 /\ at' = at + 1
                 /\ stage' = "window"
                 /\ UNCHANGED <<doc, out, cut>>

SkipSpace == /\ stage = "skip" /\ Space(at + 1)
             /\ at' = at + 1
             /\ UNCHANGED <<doc, stage, out, cut>>

SkipEnds == /\ stage = "skip" /\ ~Space(at + 1)
            /\ stage' = "window"
            /\ UNCHANGED <<doc, at, out, cut>>

PiecesEnd == /\ stage = "window" /\ at >= Len(doc)
             /\ stage' = "pieces"
             /\ UNCHANGED <<doc, at, out, cut>>

FixedNext == \/ Window \/ SearchBack \/ FoundBreak \/ NoBreak
             \/ TakePiece \/ SkipSpace \/ SkipEnds \/ PiecesEnd

FixedSpec == FixedInit /\ [][FixedNext]_fixedVars

-----------------------------------------------------------------------------
(* Properties.                                                             *)

Piece == [n : Nat, from : Nat, to : Nat]

\* The values of the chunker's variables.
FixedTypeOK == /\ doc \in Seq(Runes)
               /\ stage \in {"window", "search", "cut", "skip", "pieces"}
               /\ at \in 0..Len(doc) /\ cut \in 0..Len(doc)
               /\ out \in Seq(Piece)

InPiece(i, p) == p.from <= i /\ i <= p.to

\* No piece is empty or longer than MaxChars, pieces follow one another
\* without overlap under the ids s0, s1, ..., and all that is missing from them
\* is white space: the loop of fixed.go:45-80 moves on in every round, also
\* where a break is found right at the start of the window.
PiecesKept == stage = "pieces" =>
  /\ \A n \in DOMAIN out : /\ out[n].n = n - 1
                           /\ out[n].from <= out[n].to
                           /\ out[n].to - out[n].from < MaxChars
                           /\ n > 1 => out[n - 1].to < out[n].from
  /\ \A i \in DOMAIN doc :
       doc[i] \in Spaces \/ \E n \in DOMAIN out : InPiece(i, out[n])
=============================================================================
