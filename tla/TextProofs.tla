----------------------------- MODULE TextProofs -----------------------------
(***************************************************************************)
(* What three of the text pipelines keep, for every text: the chunks of    *)
(* fixed size of a PDF, the rows of a source file, and the sentences of    *)
(* prose with its masked spans.  Each is a state machine of its own on     *)
(* the variables of ChunkedText.                                           *)
(***************************************************************************)
EXTENDS FixedChunks, CodeChunks, Sentences, TLAPS, WellFoundedInduction

\* A set of naturals that is not empty has a least element.
LEMMA LeastIsLeast ==
  ASSUME NEW S, S \subseteq Nat, S # {}
  PROVE  Least(S) \in S /\ \A j \in S : Least(S) <= j
<1> DEFINE R == {ss \in Nat \X Nat : ss[1] < ss[2]}
<1>0. OpToRel(<, Nat) = R
  BY Zenon DEF OpToRel
<1>1. IsWellFoundedOn(R, Nat)
  BY <1>0, NatLessThanWellFounded, Zenon
<1>2. PICK i \in S : \A j \in S : <<j, i>> \notin R
  <2> HIDE DEF R
  <2> QED
    BY <1>1, WFMin, Zenon
<1>3. \A j \in S : i <= j
  <2> SUFFICES ASSUME NEW j \in S, j < i PROVE FALSE
    OBVIOUS
  <2>1. <<j, i>> \in R
    OBVIOUS
  <2> QED
    BY <2>1, <1>2
<1> QED
  BY <1>3 DEF Least

-----------------------------------------------------------------------------
(* Sentences.                                                              *)

\* No two masked spans overlap; each span looked at gave way to one at least as
\* long, or is masked itself; those not yet looked at are no longer.
MaskedApart == /\ chosen \subseteq seen
               /\ \A s, t \in chosen : s # t => ~Overlap(s, t)
               /\ \A s \in seen : \E t \in chosen : Overlap(s, t) /\ Length(t) >= Length(s)
               /\ \A t \in seen, s \in cand \ seen : Length(s) <= Length(t)
               /\ stage # "mask" => seen = cand

\* The parts follow one another, end before the cursor, and lie between cuts.
PartsBetweenCuts == \A n \in DOMAIN out :
  /\ out[n].from <= out[n].to /\ out[n].to < at
  /\ n > 1 => out[n - 1].to < out[n].from
  /\ out[n].from = 1 \/ Cuts(out[n].from - 1)
  /\ out[n].to = Len(doc) \/ Cuts(out[n].to + 1)

\* The letters the cursor has passed are in a part.
LettersKept == \A i \in 1..(at - 1) : doc[i] = "letter" =>
  \E n \in DOMAIN out : out[n].from <= i /\ i <= out[n].to

\* The cursor stands at a cut or behind one, or at an end of the text.
AtCut == /\ at <= Len(doc) + 1
         /\ at = 1 \/ at = Len(doc) + 1 \/ Cuts(at - 1) \/ Cuts(at)
         /\ stage = "mask" => at = 1 /\ out = << >>
         /\ stage = "sentences" => at = Len(doc) + 1

ProseInv == /\ ProseTypeOK /\ MaskedApart /\ PartsBetweenCuts /\ LettersKept /\ AtCut
            /\ \A s \in cand : s.to <= Len(doc)

LEMMA SpanFields ==
  \A s \in Span : s.from \in Nat \ {0} /\ s.to \in Nat /\ s.from <= s.to /\ Length(s) \in Nat
  BY DEF Span, Length

LEMMA PartFields ==
  ASSUME out \in Seq(Span)
  PROVE  \A k \in 1..Len(out) : out[k].from \in Nat \ {0} /\ out[k].to \in Nat
<1> SUFFICES ASSUME NEW k \in 1..Len(out) PROVE out[k].from \in Nat \ {0} /\ out[k].to \in Nat
  OBVIOUS
<1>1. out[k] \in Span
  OBVIOUS
<1> QED
  BY <1>1, SpanFields

\* A part ends at the end of the text or before the next cut.
LEMMA EndIsCut ==
  ASSUME ProseTypeOK, at <= Len(doc), ~Cuts(at)
  PROVE  /\ EndOf(at) \in at..Len(doc)
         /\ EndOf(at) = Len(doc) \/ Cuts(EndOf(at) + 1)
<1>0. at \in Nat \ {0} /\ Len(doc) \in Nat
  BY DEF ProseTypeOK
<1> DEFINE C == {j \in at..Len(doc) : Cuts(j)}
<1>1. CASE C = {}
  BY <1>0, <1>1 DEF EndOf
<1>2. CASE C # {}
  <2>1. Least(C) \in C
    BY <1>0, <1>2, LeastIsLeast
  <2>2. EndOf(at) = Least(C) - 1
    BY <1>2 DEF EndOf
  <2>3. Cuts(Least(C)) /\ Least(C) # at /\ Least(C) \in at..Len(doc)
    BY <2>1
  <2> HIDE DEF C
  <2>4. Least(C) - 1 \in at..Len(doc) /\ Least(C) - 1 + 1 = Least(C)
    BY <2>3, <1>0
  <2> QED
    BY <2>2, <2>3, <2>4
<1> QED
  BY <1>1, <1>2

LEMMA ProseInitInv == ProseInit => ProseInv
<1> SUFFICES ASSUME ProseInit PROVE ProseInv
  OBVIOUS
<1>1. doc \in Seq(Characters) /\ Len(doc) \in Nat /\ cand \in SUBSET Span
  BY ProsesAssumption DEF ProseInit
<1>2. out \in Seq(Span) /\ DOMAIN out = {} /\ Len(out) = 0
  BY DEF ProseInit
<1>3. ProseTypeOK
  BY <1>1, <1>2 DEF ProseTypeOK, ProseInit
<1>4. MaskedApart
  BY DEF ProseInit, MaskedApart
<1>5. PartsBetweenCuts /\ LettersKept /\ AtCut
  BY <1>1, <1>2 DEF ProseInit, PartsBetweenCuts, LettersKept, AtCut
<1>6. \A s \in cand : s.to <= Len(doc)
  BY DEF ProseInit
<1> QED
  BY <1>3, <1>4, <1>5, <1>6 DEF ProseInv

\* Masking the next span keeps what is said of the masked ones.
LEMMA MaskKeeps ==
  ASSUME ProseInv, Mask
  PROVE  /\ MaskedApart' /\ cand' = cand /\ seen' \subseteq cand /\ chosen' \subseteq cand
<1> USE DEF ProseInv
<1>1. PICK s \in Longest :
        /\ seen' = seen \cup {s}
        /\ chosen' = IF \E t \in chosen : Overlap(s, t) THEN chosen ELSE chosen \cup {s}
  BY DEF Mask
<1>2. /\ cand' = cand /\ stage' = "mask" /\ s \in cand \ seen
      /\ \A t \in cand \ seen : Length(t) <= Length(s)
  BY DEF Mask, textVars, Longest
<1>3. /\ chosen \subseteq seen /\ seen \subseteq cand /\ cand \subseteq Span
      /\ \A u, t \in chosen : u # t => ~Overlap(u, t)
      /\ \A u \in seen : \E t \in chosen : Overlap(u, t) /\ Length(t) >= Length(u)
      /\ \A t \in seen, u \in cand \ seen : Length(u) <= Length(t)
  BY DEF MaskedApart, ProseTypeOK
<1>4. \A u \in Span : Overlap(u, u) /\ Length(u) \in Nat /\ Length(u) >= Length(u)
  BY SpanFields DEF Overlap
<1>5. \A u, t \in Span : Overlap(u, t) <=> Overlap(t, u)
  BY DEF Overlap
<1>6. chosen' \subseteq seen' /\ seen' \subseteq cand /\ chosen \subseteq chosen'
  BY <1>1, <1>2, <1>3
<1>7. \A u, t \in chosen' : u # t => ~Overlap(u, t)
  <2>1. CASE \E t \in chosen : Overlap(s, t)
    BY <1>1, <1>3, <2>1
  <2>2. CASE ~ \E t \in chosen : Overlap(s, t)
    <3>1. chosen' = chosen \cup {s} /\ \A t \in chosen : ~Overlap(s, t) /\ ~Overlap(t, s)
      BY <1>1, <1>2, <1>3, <1>5, <2>2
    <3> QED
      BY <3>1, <1>3
  <2> QED
    BY <2>1, <2>2
<1>8. \A u \in seen' : \E t \in chosen' : Overlap(u, t) /\ Length(t) >= Length(u)
  <2>1. \A u \in seen : \E t \in chosen' : Overlap(u, t) /\ Length(t) >= Length(u)
    BY <1>3, <1>6
  <2>2. \E t \in chosen' : Overlap(s, t) /\ Length(t) >= Length(s)
    <3>1. CASE \E t \in chosen : Overlap(s, t)
      <4>1. PICK t \in chosen : Overlap(s, t)
        BY <3>1
      <4>2. Length(s) <= Length(t) /\ Length(s) \in Nat /\ Length(t) \in Nat
        BY <4>1, <1>2, <1>3, <1>4
      <4> QED
        BY <4>1, <4>2, <1>6
    <3>2. CASE ~ \E t \in chosen : Overlap(s, t)
      BY <3>2, <1>1, <1>2, <1>3, <1>4
    <3> QED
      BY <3>1, <3>2
  <2> QED
    BY <2>1, <2>2, <1>1
<1>9. \A t \in seen', u \in cand' \ seen' : Length(u) <= Length(t)
  BY <1>1, <1>2, <1>3
<1> QED
  BY <1>2, <1>6, <1>7, <1>8, <1>9 DEF MaskedApart

\* What is masked does not change once the text is cut.
LEMMA CutsStay ==
  ASSUME doc' = doc, chosen' = chosen, semantic' = semantic
  PROVE  \A i : Cuts(i)' <=> Cuts(i)
  BY DEF Cuts, Masked

\* Cutting the next part off.
LEMMA PartKeeps ==
  ASSUME ProseInv, SplitPart
  PROVE  ProseInv'
<1> USE DEF ProseInv
<1>0. /\ ProseTypeOK /\ at \in Nat \ {0} /\ Len(doc) \in Nat /\ at <= Len(doc) /\ ~Cuts(at)
      /\ out \in Seq(Span) /\ Len(out) \in Nat /\ DOMAIN out = 1..Len(out)
  BY DEF ProseTypeOK, SplitPart
<1>1. /\ doc' = doc /\ stage' = "split" /\ cand' = cand /\ seen' = seen /\ chosen' = chosen
      /\ semantic' = semantic /\ at' = EndOf(at) + 1
  BY DEF SplitPart
<1>2. EndOf(at) \in at..Len(doc) /\ (EndOf(at) = Len(doc) \/ Cuts(EndOf(at) + 1))
  BY <1>0, EndIsCut
<1> DEFINE e == EndOf(at)
           p == [from |-> at, to |-> e]
<1>3. p \in Span /\ p.from = at /\ p.to = e
  BY <1>0, <1>2 DEF Span
<1>4. at = 1 \/ Cuts(at - 1)
  BY <1>0 DEF AtCut
<1>5. (out' = out /\ \A i \in at..e : doc[i] = "space") \/ out' = Append(out, p)
  BY DEF SplitPart
<1>6. \A i : Cuts(i)' <=> Cuts(i)
  BY <1>1, CutsStay
<1> HIDE DEF p
<1>7. /\ e \in Nat /\ at <= e /\ e <= Len(doc) /\ at' = e + 1
  BY <1>0, <1>1, <1>2
<1>8. \A k \in 1..Len(out) : out[k].from \in Nat \ {0} /\ out[k].to \in Nat
  BY <1>0, PartFields
<1> HIDE DEF e
<1>9. MaskedApart' /\ (\A s \in cand : s.to <= Len(doc))'
  BY <1>1 DEF MaskedApart, Overlap, SplitPart
<1>10. AtCut'
  BY <1>1, <1>2, <1>6, <1>7, <1>0 DEF AtCut, e
<1>11. CASE out' = out /\ \A i \in at..e : doc[i] = "space"
  <2>1. ProseTypeOK'
    BY <1>0, <1>1, <1>7, <1>11 DEF ProseTypeOK
  <2>2. PartsBetweenCuts'
    <3>1. \A k \in DOMAIN out : out[k].to < at => out[k].to < at'
      BY <1>0, <1>7, <1>8
    <3> QED
      BY <1>1, <1>6, <1>11, <3>1 DEF PartsBetweenCuts
  <2>3. LettersKept'
    BY <1>0, <1>1, <1>7, <1>11 DEF LettersKept
  <2> QED
    BY <2>1, <2>2, <2>3, <1>9, <1>10
<1>12. CASE out' = Append(out, p)
  <2>1. /\ out' \in Seq(Span) /\ DOMAIN out' = 1..(Len(out) + 1)
        /\ out'[Len(out) + 1] = p
        /\ \A n \in DOMAIN out : out'[n] = out[n]
    BY <1>0, <1>3, <1>12
  <2>2. ProseTypeOK'
    BY <1>0, <1>1, <1>7, <2>1 DEF ProseTypeOK
  <2>3. PartsBetweenCuts'
    <3> SUFFICES ASSUME NEW n \in DOMAIN out'
                 PROVE  /\ out'[n].from <= out'[n].to /\ out'[n].to < at'
                        /\ n > 1 => out'[n - 1].to < out'[n].from
                        /\ out'[n].from = 1 \/ Cuts(out'[n].from - 1)
                        /\ out'[n].to = Len(doc) \/ Cuts(out'[n].to + 1)
      BY <1>1, <1>6 DEF PartsBetweenCuts
    <3>1. CASE n = Len(out) + 1
      <4>1. out'[n].from = at /\ out'[n].to = e
        BY <3>1, <2>1, <1>3
      <4>2. n > 1 => out'[n - 1].to < at
        BY <3>1, <2>1, <1>0 DEF PartsBetweenCuts
      <4> QED
        BY <4>1, <4>2, <1>0, <1>2, <1>4, <1>7 DEF e
    <3>2. CASE n \in 1..Len(out)
      <4>1. out'[n] = out[n] /\ (n > 1 => out'[n - 1] = out[n - 1])
        BY <3>2, <2>1, <1>0
      <4> QED
        BY <4>1, <3>2, <1>0, <1>7, <1>8 DEF PartsBetweenCuts
    <3> QED
      BY <3>1, <3>2, <2>1, <1>0
  <2>4. LettersKept'
    <3> SUFFICES ASSUME NEW i \in 1..e, doc[i] = "letter"
                 PROVE  \E n \in DOMAIN out' : out'[n].from <= i /\ i <= out'[n].to
      BY <1>0, <1>1, <1>7 DEF LettersKept
    <3>1. CASE i < at
      <4>1. PICK n \in DOMAIN out : out[n].from <= i /\ i <= out[n].to
        BY <3>1, <1>0 DEF LettersKept
      <4> QED
        BY <4>1, <2>1, <1>0
    <3>2. CASE i >= at
      BY <3>2, <2>1, <1>0, <1>3, <1>7
    <3> QED
      BY <3>1, <3>2, <1>0, <1>7
  <2> QED
    BY <2>2, <2>3, <2>4, <1>9, <1>10
<1> QED
  BY <1>5, <1>11, <1>12

LEMMA ProseStepInv == ProseInv /\ [ProseNext]_proseVars => ProseInv'
<1> SUFFICES ASSUME ProseInv, [ProseNext]_proseVars PROVE ProseInv'
  OBVIOUS
<1> USE DEF ProseInv
<1>0. /\ ProseTypeOK /\ at \in Nat \ {0} /\ Len(doc) \in Nat
      /\ out \in Seq(Span) /\ DOMAIN out = 1..Len(out)
  BY DEF ProseTypeOK
<1>1. CASE Mask
  <2>1. /\ doc' = doc /\ stage' = stage /\ at' = at /\ out' = out /\ semantic' = semantic
        /\ stage = "mask"
    BY <1>1 DEF Mask, textVars
  <2>2. MaskedApart' /\ cand' = cand /\ seen' \subseteq cand /\ chosen' \subseteq cand
    BY <1>1, MaskKeeps
  <2>3. at = 1 /\ out = << >>
    BY <2>1 DEF AtCut
  <2>4. PartsBetweenCuts' /\ LettersKept' /\ AtCut'
    BY <2>1, <2>3, <1>0 DEF PartsBetweenCuts, LettersKept, AtCut
  <2> QED
    BY <2>1, <2>2, <2>4 DEF ProseTypeOK
<1>2. CASE MaskEnds
  <2>1. /\ doc' = doc /\ stage' = "split" /\ at' = at /\ out' = out /\ semantic' = semantic
        /\ cand' = cand /\ seen' = seen /\ chosen' = chosen /\ seen = cand
    BY <1>2 DEF MaskEnds
  <2>2. \A i : Cuts(i)' <=> Cuts(i)
    BY <2>1, CutsStay
  <2>3. ProseTypeOK' /\ MaskedApart'
    BY <2>1 DEF ProseTypeOK, MaskedApart, Overlap
  <2>4. PartsBetweenCuts' /\ LettersKept' /\ AtCut'
    BY <2>1, <2>2 DEF PartsBetweenCuts, LettersKept, AtCut
  <2> QED
    BY <2>1, <2>3, <2>4
<1>3. CASE SplitSkip
  <2>1. /\ doc' = doc /\ stage' = "split" /\ at' = at + 1 /\ out' = out /\ semantic' = semantic
        /\ cand' = cand /\ seen' = seen /\ chosen' = chosen /\ stage = "split"
        /\ at <= Len(doc) /\ Cuts(at)
    BY <1>3 DEF SplitSkip
  <2>2. \A i : Cuts(i)' <=> Cuts(i)
    BY <2>1, CutsStay
  <2>3. ProseTypeOK' /\ MaskedApart'
    BY <2>1, <1>0 DEF ProseTypeOK, MaskedApart, Overlap
  <2>4. PartsBetweenCuts'
    BY <2>1, <2>2, <1>0, PartFields DEF PartsBetweenCuts
  <2>5. LettersKept'
    <3>1. doc[at] # "letter"
      BY <2>1 DEF Cuts
    <3> QED
      BY <2>1, <3>1, <1>0 DEF LettersKept
  <2>6. AtCut'
    BY <2>1, <2>2, <1>0 DEF AtCut
  <2> QED
    BY <2>1, <2>3, <2>4, <2>5, <2>6
<1>4. CASE SplitPart
  BY <1>4, PartKeeps
<1>5. CASE SplitEnds
  <2>1. /\ doc' = doc /\ stage' = "sentences" /\ at' = at /\ out' = out /\ semantic' = semantic
        /\ cand' = cand /\ seen' = seen /\ chosen' = chosen /\ stage = "split"
        /\ at > Len(doc)
    BY <1>5 DEF SplitEnds
  <2>2. \A i : Cuts(i)' <=> Cuts(i)
    BY <2>1, CutsStay
  <2>3. ProseTypeOK' /\ MaskedApart'
    BY <2>1 DEF ProseTypeOK, MaskedApart, Overlap
  <2>4. PartsBetweenCuts' /\ LettersKept'
    BY <2>1, <2>2 DEF PartsBetweenCuts, LettersKept
  <2>5. AtCut'
    BY <2>1, <2>2, <1>0 DEF AtCut
  <2> QED
    BY <2>1, <2>3, <2>4, <2>5
<1>6. CASE UNCHANGED proseVars
  <2>1. /\ doc' = doc /\ stage' = stage /\ at' = at /\ out' = out /\ semantic' = semantic
        /\ cand' = cand /\ seen' = seen /\ chosen' = chosen
    BY <1>6 DEF proseVars, textVars
  <2>2. \A i : Cuts(i)' <=> Cuts(i)
    BY <2>1, CutsStay
  <2> QED
    BY <2>1, <2>2 DEF ProseTypeOK, MaskedApart, Overlap, PartsBetweenCuts, LettersKept, AtCut
<1> QED
  BY <1>1, <1>2, <1>3, <1>4, <1>5, <1>6 DEF ProseNext

LEMMA ProseInvIsKept == ProseSpec => []ProseInv
  BY ProseInitInv, ProseStepInv, PTL DEF ProseSpec

\* When the text is in sentences.
LEMMA SpansHold == ProseInv => SpansWhole
<1> SUFFICES ASSUME ProseInv, stage = "sentences" PROVE SpansWhole
  BY DEF SpansWhole
<1> USE DEF ProseInv
<1>0. /\ Len(doc) \in Nat /\ at = Len(doc) + 1 /\ seen = cand /\ DOMAIN doc = 1..Len(doc)
      /\ out \in Seq(Span) /\ DOMAIN out = 1..Len(out) /\ chosen \subseteq Span
      /\ chosen \subseteq cand
  BY DEF AtCut, MaskedApart, ProseTypeOK
<1>1. \A s, t \in chosen : s # t => ~Overlap(s, t)
  BY DEF MaskedApart
<1>2. \A s \in cand : \E t \in chosen : Overlap(s, t) /\ Length(t) >= Length(s)
  BY <1>0 DEF MaskedApart
<1>3. \A i \in DOMAIN doc : doc[i] = "letter" => \E n \in DOMAIN out :
        out[n].from <= i /\ i <= out[n].to
  BY <1>0 DEF LettersKept
<1>4. \A n \in DOMAIN out : n > 1 => out[n - 1].to < out[n].from
  BY DEF PartsBetweenCuts
<1>5. ASSUME ~semantic, NEW s \in chosen, NEW n \in DOMAIN out, Overlap(s, out[n])
      PROVE  out[n].from <= s.from /\ s.to <= out[n].to
  <2>1. /\ s.from \in Nat \ {0} /\ s.to \in Nat /\ s.from <= s.to /\ s.to <= Len(doc)
        /\ out[n].from \in Nat \ {0} /\ out[n].to \in Nat
        /\ s.from <= out[n].to /\ out[n].from <= s.to
    BY <1>0, <1>5, SpanFields, PartFields DEF Overlap
  <2>2. \A i \in s.from..s.to : ~Cuts(i)
    BY <1>5, <2>1 DEF Cuts, Masked
  <2>3. /\ out[n].from = 1 \/ Cuts(out[n].from - 1)
        /\ out[n].to = Len(doc) \/ Cuts(out[n].to + 1)
    BY DEF PartsBetweenCuts
  <2>4. out[n].from <= s.from
    BY <2>1, <2>2, <2>3
  <2>5. s.to <= out[n].to
    BY <2>1, <2>2, <2>3, <1>0
  <2> QED
    BY <2>4, <2>5
<1> QED
  BY <1>1, <1>2, <1>3, <1>4, <1>5 DEF SpansWhole

\* Masked spans do not overlap and are left whole, and no letter is lost
\* (sink/splitmask.go, splitSentencesEnglish): for every text, whatever the
\* regular expressions match and in whatever order spans of one length come.
THEOREM SpansStayWhole == ProseSpec => []SpansWhole
  BY SpansHold, ProseInvIsKept, PTL

-----------------------------------------------------------------------------
(* CodeChunks.                                                             *)

\* The chunks follow one another, end before line e, and hold their lines' parents.
ChunksApart(e) == \A n \in DOMAIN out :
  /\ out[n] = ChunkOf(out[n].id, out[n].from, out[n].to)
  /\ out[n].from \in Nat \ {0} /\ out[n].to \in Nat
  /\ out[n].from <= out[n].to + 1 /\ out[n].to < e
  /\ \A m \in DOMAIN out : m < n => out[m].to < out[n].from

\* Every line before line e is in a chunk, but for blank lines in front.
LinesKept(e) == \A i \in 1..(e - 1) : ~Left(i) =>
  \E n \in DOMAIN out : i \in out[n].from..out[n].to

\* The cursor stands at a declaration unless it is at an end of the source.
AtTop == /\ at <= Len(doc) + 1
         /\ at = 1 \/ at = Len(doc) + 1 \/ Top(at)
         /\ IF at = 1 THEN out = << >> ELSE Tops # {}

\* What row n says of its line and its parent.
RowKept(n) ==
  LET r == rows[n]
      c == out[r.chunk]
      p == doc[r.line].parent IN
  /\ r.chunk \in DOMAIN out /\ r.line \in c.from..c.to
  /\ r.sort = 0 => doc[r.line].hash
  /\ r.sort # 0 =>
       /\ r.sort = r.line
       /\ IF p \in c.from..c.to
          THEN r.parent \in 1..(n - 1) /\ rows[r.parent].line = p /\ rows[r.parent].sort = p
          ELSE r.parent = 0

\* The chunks before chunk k have their rows, in order, and no other has.
RowsMade(k) ==
  /\ \A n \in DOMAIN rows : RowKept(n) /\ rows[n].chunk < k
  /\ \A c \in DOMAIN out : c < k => \A i \in out[c].from..out[c].to :
       \E n \in DOMAIN rows : rows[n].sort # 0 /\ rows[n].line = i
  /\ \A m, n \in DOMAIN rows : m < n /\ rows[m].sort # 0 /\ rows[n].sort # 0 =>
       rows[m].sort < rows[n].sort

Parents == \A i \in DOMAIN doc : doc[i].parent < i

SourceInv ==
  /\ CodeTypeOK /\ Parents
  /\ stage = "boundary" => rows = << >> /\ AtTop /\ ChunksApart(at) /\ LinesKept(at)
  /\ stage # "boundary" => ChunksApart(Len(doc) + 1) /\ LinesKept(Len(doc) + 1) /\ RowsMade(at)
  /\ stage = "source" => at > Len(out)

\* A line of the source.
LEMMA LineFields ==
  ASSUME doc \in Seq(SourceLine)
  PROVE  \A i \in 1..Len(doc) : doc[i].parent \in Nat
<1> SUFFICES ASSUME NEW i \in 1..Len(doc) PROVE doc[i].parent \in Nat
  OBVIOUS
<1>1. doc[i] \in SourceLine
  OBVIOUS
<1> QED
  BY <1>1 DEF SourceLine

\* A chunk of lines of the source is one.
LEMMA ChunkFields ==
  ASSUME doc \in Seq(SourceLine), NEW id \in {"f0", "f1", "pre", "fn"},
         NEW a \in Nat \ {0}, NEW b \in Nat, b <= Len(doc)
  PROVE  /\ ChunkOf(id, a, b) \in CodeChunk
         /\ ChunkOf(id, a, b).id = id /\ ChunkOf(id, a, b).from = a /\ ChunkOf(id, a, b).to = b
         /\ \A i \in 1..(b - a + 1) : ChunkOf(id, a, b).parents[i] = InChunk(a + i - 1, a, b)
<1> DEFINE f == [i \in 1..(b - a + 1) |-> InChunk(a + i - 1, a, b)]
<1>0. Len(doc) \in Nat
  OBVIOUS
<1>1. ASSUME NEW i \in 1..(b - a + 1) PROVE InChunk(a + i - 1, a, b) \in Nat
  <2>1. a + i - 1 \in 1..Len(doc)
    BY <1>0
  <2>2. doc[a + i - 1].parent \in Nat
    BY <2>1, LineFields
  <2> QED
    BY <2>2 DEF InChunk
<1>2. f \in Seq(Nat)
  <2>1. CASE b - a + 1 \in Nat
    <3>1. f \in [1..(b - a + 1) -> Nat]
      BY <1>1
    <3>2. \A k \in Nat : \A g \in [1..k -> Nat] : g \in Seq(Nat)
      OBVIOUS
    <3> HIDE DEF f
    <3> QED
      BY <3>1, <3>2, <2>1
  <2>2. CASE b - a + 1 \notin Nat
    <3>1. 1..(b - a + 1) = 1..0
      BY <2>2
    <3>2. f \in [1..0 -> Nat]
      BY <1>1, <3>1
    <3> QED
      BY <3>2
  <2> QED
    BY <2>1, <2>2
<1>3. ChunkOf(id, a, b) = [id |-> id, from |-> a, to |-> b, parents |-> f]
  BY DEF ChunkOf
<1> HIDE DEF f
<1>4. ChunkOf(id, a, b) \in CodeChunk
  BY <1>2, <1>3 DEF CodeChunk
<1> QED
  BY <1>3, <1>4 DEF f

\* The next declaration behind line i, or the end.
LEMMA NextTopBounds ==
  ASSUME doc \in Seq(SourceLine), NEW i \in Nat, i <= Len(doc)
  PROVE  /\ NextTop(i) \in (i + 1)..(Len(doc) + 1)
         /\ NextTop(i) = Len(doc) + 1 \/ Top(NextTop(i))
         /\ \A j \in Tops : j > i => NextTop(i) <= j
<1> DEFINE T == {j \in Tops : j > i}
<1>0. Tops \subseteq 1..Len(doc) /\ Len(doc) \in Nat
  BY DEF Tops
<1>1. CASE T = {}
  BY <1>0, <1>1 DEF NextTop
<1>2. CASE T # {}
  <2>1. T \subseteq Nat
    <3>1. 1..Len(doc) \subseteq Nat
      BY <1>0
    <3> QED
      BY <3>1, <1>0, Zenon
  <2>2. NextTop(i) = Least(T)
    BY <1>2 DEF NextTop
  <2>3. Least(T) \in T /\ \A j \in T : Least(T) <= j
    BY <1>2, <2>1, LeastIsLeast
  <2> QED
    BY <2>2, <2>3, <1>0 DEF Tops
<1> QED
  BY <1>1, <1>2

LEMMA SourceInitInv == CodeInit => SourceInv
<1> SUFFICES ASSUME CodeInit PROVE SourceInv
  OBVIOUS
<1>1. doc \in Seq(SourceLine) /\ Len(doc) \in Nat /\ Parents
  BY SourcesAssumption DEF CodeInit, Parents
<1>2. /\ out = << >> /\ rows = << >> /\ stage = "boundary" /\ at = 1
      /\ out \in Seq(CodeChunk) /\ rows \in Seq(Row) /\ DOMAIN out = {}
  BY DEF CodeInit
<1>3. CodeTypeOK
  BY <1>1, <1>2 DEF CodeTypeOK
<1> QED
  BY <1>1, <1>2, <1>3 DEF SourceInv, AtTop, ChunksApart, LinesKept

\* What is said of chunks and rows is said of these variables.
LEMMA SourceSame ==
  ASSUME doc' = doc, out' = out
  PROVE  /\ Parents' <=> Parents
         /\ Tops' = Tops /\ \A i : Top(i)' <=> Top(i)
         /\ \A e : ChunksApart(e)' <=> ChunksApart(e)
         /\ \A e : LinesKept(e)' <=> LinesKept(e)
         /\ rows' = rows => \A k : RowsMade(k)' <=> RowsMade(k)
<1>1. Parents' <=> Parents
  BY DEF Parents
<1>2. \A i : Top(i)' <=> Top(i)
  BY DEF Top
<1>3. Tops' = Tops
  BY <1>2 DEF Tops
<1>4. \A k, a, z : ChunkOf(k, a, z)' = ChunkOf(k, a, z)
  BY DEF ChunkOf, InChunk
<1>5. \A e : ChunksApart(e)' <=> ChunksApart(e)
  BY <1>4 DEF ChunksApart
<1>6. \A i : Left(i)' <=> Left(i)
  BY <1>3 DEF Left
<1>7. \A e : LinesKept(e)' <=> LinesKept(e)
  BY <1>6 DEF LinesKept
<1>8. rows' = rows => \A k : RowsMade(k)' <=> RowsMade(k)
  <2> SUFFICES ASSUME rows' = rows PROVE \A k : RowsMade(k)' <=> RowsMade(k)
    OBVIOUS
  <2>1. \A n : RowKept(n)' <=> RowKept(n)
    BY DEF RowKept
  <2> QED
    BY <2>1 DEF RowsMade
<1> QED
  BY <1>1, <1>2, <1>3, <1>5, <1>7, <1>8

\* Making the chunk of the lines at..b.
LEMMA ChunkAdded ==
  ASSUME SourceInv, stage = "boundary", doc' = doc,
         NEW b \in Nat, at <= b + 1, b <= Len(doc),
         NEW id \in {"f0", "f1", "pre", "fn"}, out' = Append(out, ChunkOf(id, at, b))
  PROVE  out' \in Seq(CodeChunk) /\ ChunksApart(b + 1)' /\ LinesKept(b + 1)'
<1>0. /\ doc \in Seq(SourceLine) /\ at \in Nat \ {0} /\ out \in Seq(CodeChunk)
      /\ Len(out) \in Nat /\ DOMAIN out = 1..Len(out) /\ ChunksApart(at) /\ LinesKept(at)
  BY DEF SourceInv, CodeTypeOK
<1> DEFINE c == ChunkOf(id, at, b)
<1>1. c \in CodeChunk /\ c.id = id /\ c.from = at /\ c.to = b
  BY <1>0, ChunkFields
<1>2. c = ChunkOf(c.id, c.from, c.to)
  BY <1>1
<1>3. out' = Append(out, c)
  OBVIOUS
<1> HIDE DEF c
<1>4. /\ out' \in Seq(CodeChunk) /\ DOMAIN out' = 1..(Len(out) + 1)
      /\ out'[Len(out) + 1] = c
      /\ \A n \in DOMAIN out : out'[n] = out[n]
  BY <1>0, <1>1, <1>3
<1>5. \A k, a, z : ChunkOf(k, a, z)' = ChunkOf(k, a, z)
  BY DEF ChunkOf, InChunk
<1>6. ChunksApart(b + 1)'
  <2> SUFFICES ASSUME NEW n \in DOMAIN out'
               PROVE  /\ out'[n] = ChunkOf(out'[n].id, out'[n].from, out'[n].to)
                      /\ out'[n].from \in Nat \ {0} /\ out'[n].to \in Nat
                      /\ out'[n].from <= out'[n].to + 1 /\ out'[n].to < b + 1
                      /\ \A m \in DOMAIN out' : m < n => out'[m].to < out'[n].from
    BY <1>5 DEF ChunksApart
  <2>1. CASE n = Len(out) + 1
    <3>1. \A m \in DOMAIN out' : m < n => m \in DOMAIN out
      BY <2>1, <1>0, <1>4
    <3>2. \A m \in DOMAIN out' : m < n => out'[m].to < at
      BY <3>1, <1>0, <1>4 DEF ChunksApart
    <3>3. out'[n] = c
      BY <2>1, <1>4
    <3> QED
      BY <3>2, <3>3, <1>0, <1>1, <1>2
  <2>2. CASE n \in 1..Len(out)
    <3>1. out'[n] = out[n] /\ \A m \in DOMAIN out' : m < n => m \in DOMAIN out /\ out'[m] = out[m]
      BY <2>2, <1>0, <1>4
    <3>2. /\ out[n] = ChunkOf(out[n].id, out[n].from, out[n].to)
          /\ out[n].from \in Nat \ {0} /\ out[n].to \in Nat
          /\ out[n].from <= out[n].to + 1 /\ out[n].to < at
          /\ \A m \in DOMAIN out : m < n => out[m].to < out[n].from
      BY <2>2, <1>0 DEF ChunksApart
    <3> QED
      BY <3>1, <3>2, <1>0
  <2> QED
    BY <2>1, <2>2, <1>0, <1>4
<1>7. LinesKept(b + 1)'
  <2> SUFFICES ASSUME NEW i \in 1..b, ~Left(i)
               PROVE  \E n \in DOMAIN out' : i \in out'[n].from..out'[n].to
    BY DEF LinesKept, Left, Tops, Top
  <2>1. CASE i < at
    <3>1. PICK n \in DOMAIN out : i \in out[n].from..out[n].to
      BY <2>1, <1>0 DEF LinesKept
    <3> QED
      BY <3>1, <1>0, <1>4
  <2>2. CASE i >= at
    BY <2>2, <1>0, <1>1, <1>4
  <2> QED
    BY <2>1, <2>2, <1>0
<1> QED
  BY <1>4, <1>6, <1>7

\* A step of buildCodeChunks.
LEMMA BoundaryKeeps ==
  ASSUME SourceInv, NoLines \/ NoTops \/ Preamble \/ Declaration \/ BoundaryEnd
  PROVE  SourceInv'
<1>0. /\ CodeTypeOK /\ Parents /\ doc \in Seq(SourceLine) /\ Len(doc) \in Nat
      /\ at \in Nat \ {0} /\ out \in Seq(CodeChunk) /\ rows \in Seq(Row)
  BY DEF SourceInv, CodeTypeOK
<1>1. /\ stage = "boundary" /\ doc' = doc /\ rows' = rows
      /\ stage' \in {"boundary", "rows"}
  BY DEF NoLines, NoTops, Preamble, Declaration, BoundaryEnd, Top
<1>2. rows = << >> /\ AtTop /\ ChunksApart(at) /\ LinesKept(at)
  BY <1>1 DEF SourceInv
<1>3. Parents' /\ Tops' = Tops /\ (\A i : Top(i)' <=> Top(i))
  BY <1>0, <1>1 DEF Parents, Tops, Top
<1>4. rows' \in Seq(Row) /\ RowsMade(1)'
  BY <1>0, <1>1, <1>2 DEF RowsMade
<1>5. Tops \subseteq 1..Len(doc)
  BY <1>0 DEF Tops
<1>6. ASSUME NEW b \in Nat, b <= Len(doc), at <= b + 1,
             NEW id \in {"f0", "f1", "pre", "fn"}, out' = Append(out, ChunkOf(id, at, b))
      PROVE  out' \in Seq(CodeChunk) /\ ChunksApart(b + 1)' /\ LinesKept(b + 1)'
  BY <1>1, <1>6, ChunkAdded
<1>7. ASSUME NEW id \in {"f0", "f1"}, out' = <<ChunkOf(id, 1, Len(doc))>>,
             Tops = {}, stage' = "rows", at' = at
      PROVE  SourceInv'
  <2>1. at = 1 /\ out = << >>
    BY <1>2, <1>7 DEF AtTop
  <2>2. out' = Append(out, ChunkOf(id, at, Len(doc)))
    BY <2>1, <1>7
  <2>3. out' \in Seq(CodeChunk) /\ ChunksApart(Len(doc) + 1)' /\ LinesKept(Len(doc) + 1)'
    <3>1. PICK b \in Nat : b = Len(doc)
      BY <1>0
    <3>2. out' \in Seq(CodeChunk) /\ ChunksApart(b + 1)' /\ LinesKept(b + 1)'
      BY <1>6, <2>1, <2>2, <3>1
    <3>3. b = Len(doc')
      BY <1>1, <3>1
    <3> QED
      BY <3>2, <3>3 DEF ChunksApart, LinesKept
  <2> QED
    BY <1>0, <1>1, <1>3, <1>4, <1>7, <2>1, <2>3 DEF SourceInv, CodeTypeOK
<1>8. CASE NoLines
  <2>1. doc = << >> /\ Len(doc) = 0 /\ Tops = {}
    BY <1>5, <1>8 DEF NoLines
  <2> QED
    BY <1>7, <1>8, <2>1 DEF NoLines
<1>9. CASE NoTops
  BY <1>7, <1>9 DEF NoTops
<1>10. CASE Preamble
  <2>1. /\ at = 1 /\ Tops # {} /\ ~Top(1) /\ out = << >> /\ at' = NextTop(1)
        /\ stage' = "boundary" /\ 1 <= Len(doc) /\ 1 \notin Tops
    BY <1>0, <1>1, <1>2, <1>5, <1>10 DEF Preamble, AtTop, Tops
  <2>2. /\ NextTop(1) \in 2..(Len(doc) + 1)
        /\ NextTop(1) = Len(doc) + 1 \/ Top(NextTop(1))
        /\ \A j \in Tops : j > 1 => NextTop(1) <= j
    <3> HIDE DEF Tops, Top
    <3>1. NextTop(1) \in (1 + 1)..(Len(doc) + 1)
      BY <1>0, <2>1, NextTopBounds
    <3> QED
      BY <1>0, <2>1, <3>1, NextTopBounds
  <2>3. PICK b \in Nat : b + 1 = NextTop(1) /\ b <= Len(doc) /\ b >= 1
    <3>1. NextTop(1) - 1 \in Nat
      BY <2>2, <1>0
    <3> QED
      BY <2>2, <3>1, <1>0
  <2>4. out' \in Seq(CodeChunk) /\ ChunksApart(b + 1)' /\ LinesKept(b + 1)'
    <3>1. CASE out' = Append(out, ChunkOf("pre", 1, NextTop(1) - 1))
      <4>1. NextTop(1) - 1 = b
        BY <2>3, <2>2
      <4> QED
        BY <1>6, <3>1, <4>1, <2>1, <2>3
    <3>2. CASE out' = out /\ \A i \in 1..(NextTop(1) - 1) : doc[i].blank
      <4>0. Tops \subseteq Nat
        <5>1. 1..Len(doc) \subseteq Nat
          BY <1>0
        <5> QED
          BY <5>1, <1>5, Zenon
      <4>1. Least(Tops) \in Tops /\ \A j \in Tops : Least(Tops) <= j
        BY <2>1, <4>0, LeastIsLeast
      <4>2. Least(Tops) > 1 /\ Least(Tops) \in 1..Len(doc)
        <5>1. \A j \in Tops : j \in 1..Len(doc) /\ j # 1
          BY <2>1, <1>5, Zenon
        <5> QED
          BY <4>1, <5>1, <1>0
      <4>3. NextTop(1) <= Least(Tops)
        BY <2>2, <4>1, <4>2
      <4>4. NextTop(1) \in Tops
        BY <2>2, <4>2, <4>3, <1>0 DEF Tops, Top
      <4>5. Least(Tops) = NextTop(1)
        BY <4>1, <4>2, <4>3, <4>4, <2>2, <1>0
      <4>6. \A i \in 1..b : Left(i)
        BY <3>2, <4>5, <2>1, <2>2, <2>3 DEF Left
      <4>7. \A i \in 1..b : Left(i)'
        BY <4>6, <1>1, <1>3 DEF Left
      <4>8. LinesKept(b + 1)'
        BY <4>7 DEF LinesKept
      <4> QED
        BY <3>2, <4>8, <2>1, <1>0 DEF ChunksApart
    <3> QED
      BY <3>1, <3>2, <1>10 DEF Preamble
  <2>5. at' = b + 1
    BY <2>1, <2>3
  <2>6. ChunksApart(at)' /\ LinesKept(at)'
    BY <2>4, <2>5 DEF ChunksApart, LinesKept
  <2>7. AtTop'
    BY <1>1, <1>3, <2>1, <2>2, <1>0 DEF AtTop
  <2>8. CodeTypeOK'
    BY <1>0, <1>1, <1>4, <2>1, <2>4, <2>5, <2>3 DEF CodeTypeOK
  <2> QED
    BY <1>1, <1>2, <1>3, <2>1, <2>6, <2>7, <2>8 DEF SourceInv
<1>11. CASE Declaration
  <2>1. /\ Top(at) /\ at <= Len(doc) /\ at \in Tops /\ stage' = "boundary" /\ at' = NextTop(at)
        /\ out' = Append(out, ChunkOf("fn", at, NextTop(at) - 1))
    BY <1>0, <1>11 DEF Declaration, Top, Tops
  <2>2. /\ NextTop(at) \in (at + 1)..(Len(doc) + 1)
        /\ NextTop(at) = Len(doc) + 1 \/ Top(NextTop(at))
    BY <1>0, <2>1, NextTopBounds
  <2>3. PICK b \in Nat : b + 1 = NextTop(at) /\ b <= Len(doc) /\ b >= at
    <3>1. NextTop(at) - 1 \in Nat
      BY <2>2, <1>0
    <3> QED
      BY <2>2, <3>1, <1>0
  <2>4. out' \in Seq(CodeChunk) /\ ChunksApart(b + 1)' /\ LinesKept(b + 1)'
    <3>1. NextTop(at) - 1 = b
      BY <2>3, <2>2
    <3> QED
      BY <1>6, <3>1, <2>1, <2>3, <1>0
  <2>5. at' = b + 1
    BY <2>1, <2>3
  <2>6. ChunksApart(at)' /\ LinesKept(at)'
    BY <2>4, <2>5 DEF ChunksApart, LinesKept
  <2>7. AtTop'
    BY <1>1, <1>3, <2>1, <2>2, <1>0 DEF AtTop
  <2>8. CodeTypeOK'
    BY <1>0, <1>1, <1>4, <2>1, <2>4, <2>5, <2>3 DEF CodeTypeOK
  <2> QED
    BY <1>1, <1>2, <1>3, <2>1, <2>6, <2>7, <2>8 DEF SourceInv
<1>12. CASE BoundaryEnd
  <2>1. at' = 1 /\ stage' = "rows" /\ out' = out /\ at = Len(doc) + 1
    BY <1>0, <1>2, <1>12 DEF BoundaryEnd, AtTop
  <2>2. ChunksApart(Len(doc) + 1)' /\ LinesKept(Len(doc) + 1)'
    BY <1>1, <1>2, <2>1, SourceSame
  <2> QED
    BY <1>0, <1>1, <1>3, <1>4, <2>1, <2>2 DEF SourceInv, CodeTypeOK
<1> QED
  BY <1>8, <1>9, <1>10, <1>11, <1>12

\* The row of a chunk's heading is of a line like a heading.
LEMMA TitleFields ==
  ASSUME NEW k \in DOMAIN out, out[k].from \in Nat \ {0}, out[k].to \in Nat, k \in Nat
  PROVE  /\ TitleRow(k) \in Seq(Row) /\ Len(TitleRow(k)) \in Nat
         /\ \A j \in 1..Len(TitleRow(k)) :
              /\ TitleRow(k)[j].chunk = k /\ TitleRow(k)[j].sort = 0
              /\ TitleRow(k)[j].line \in out[k].from..out[k].to
              /\ doc[TitleRow(k)[j].line].hash
<1> DEFINE H == Hashes(out[k])
<1>1. CASE H = {}
  BY <1>1 DEF TitleRow
<1>2. CASE H # {}
  <2>1. H \subseteq Nat /\ H \subseteq out[k].from..out[k].to /\ \A h \in H : doc[h].hash
    BY DEF Hashes
  <2>2. Least(H) \in H
    BY <1>2, <2>1, LeastIsLeast
  <2> DEFINE t == [chunk |-> k, line |-> Least(H), sort |-> 0, parent |-> 0]
  <2>3. TitleRow(k) = <<t>>
    BY <1>2 DEF TitleRow
  <2>4. t \in Row /\ t.chunk = k /\ t.line = Least(H) /\ t.sort = 0
    BY <2>1, <2>2 DEF Row
  <2> HIDE DEF t, H
  <2>5. \A s : s = <<t>> => s \in Seq(Row) /\ Len(s) = 1 /\ s[1] = t
    BY <2>4
  <2>6. TitleRow(k) \in Seq(Row) /\ Len(TitleRow(k)) = 1 /\ TitleRow(k)[1] = t
    BY <2>3, <2>5
  <2>7. t.line \in out[k].from..out[k].to /\ doc[t.line].hash
    BY <2>1, <2>2, <2>4
  <2> QED
    BY <2>4, <2>6, <2>7
<1> QED
  BY <1>1, <1>2

\* The rows of two sequences put behind a third.
LEMMA ThreeParts ==
  \A r, t \in Seq(Row), k \in Nat : \A l \in [1..k -> Row] : \A s : s = (r \o t) \o l =>
    /\ s \in Seq(Row) /\ DOMAIN s = 1..(Len(r) + Len(t) + k)
    /\ \A n \in 1..Len(r) : s[n] = r[n]
    /\ \A n \in 1..Len(t) : s[Len(r) + n] = t[n]
    /\ \A n \in 1..k : s[Len(r) + Len(t) + n] = l[n]
<1> SUFFICES ASSUME NEW r \in Seq(Row), NEW t \in Seq(Row), NEW k \in Nat,
                    NEW l \in [1..k -> Row], NEW s, s = (r \o t) \o l
             PROVE  /\ s \in Seq(Row) /\ DOMAIN s = 1..(Len(r) + Len(t) + k)
                    /\ \A n \in 1..Len(r) : s[n] = r[n]
                    /\ \A n \in 1..Len(t) : s[Len(r) + n] = t[n]
                    /\ \A n \in 1..k : s[Len(r) + Len(t) + n] = l[n]
  BY Zenon
<1>1. l \in Seq(Row) /\ Len(l) = k
  OBVIOUS
<1> DEFINE u == r \o t
<1>2. /\ u \in Seq(Row) /\ Len(u) = Len(r) + Len(t) /\ Len(r) \in Nat /\ Len(t) \in Nat
      /\ \A n \in 1..Len(r) : u[n] = r[n]
      /\ \A n \in 1..Len(t) : u[Len(r) + n] = t[n]
  OBVIOUS
<1>3. s = u \o l
  OBVIOUS
<1> HIDE DEF u
<1>4. /\ s \in Seq(Row) /\ Len(s) = Len(u) + k /\ DOMAIN s = 1..Len(s)
      /\ \A n \in 1..Len(u) : s[n] = u[n]
      /\ \A n \in 1..k : s[Len(u) + n] = l[n]
  <2>0. \A v, w \in Seq(Row) : v \o w \in Seq(Row) /\ Len(v \o w) = Len(v) + Len(w)
    OBVIOUS
  <2>1. s \in Seq(Row) /\ Len(s) = Len(u) + k /\ DOMAIN s = 1..Len(s)
    <3>1. s \in Seq(Row) /\ Len(s) = Len(u) + Len(l)
      BY <1>1, <1>2, <1>3, <2>0
    <3> QED
      BY <3>1, <1>1
  <2>2. \A n \in 1..Len(u) : s[n] = u[n]
    BY <1>1, <1>2, <1>3
  <2>3. ASSUME NEW n \in 1..k PROVE s[Len(u) + n] = l[n]
    <3>1. Len(u) + n \in 1..(Len(u) + Len(l)) /\ Len(u) + n > Len(u) /\ Len(u) + n - Len(u) = n
      BY <1>1, <1>2
    <3> QED
      BY <1>1, <1>2, <1>3, <3>1
  <2> QED
    BY <2>1, <2>2, <2>3
<1>5. \A n \in 1..Len(r) : n \in 1..Len(u)
  BY <1>2
<1>6. \A n \in 1..Len(t) : Len(r) + n \in 1..Len(u)
  BY <1>2
<1> QED
  BY <1>2, <1>4, <1>5, <1>6

\* The rows of the next chunk.
LEMMA InsertKeeps == ASSUME SourceInv, InsertRows PROVE SourceInv'
<1>0. /\ CodeTypeOK /\ Parents /\ doc \in Seq(SourceLine) /\ Len(doc) \in Nat
      /\ DOMAIN doc = 1..Len(doc) /\ at \in Nat \ {0} /\ out \in Seq(CodeChunk)
      /\ rows \in Seq(Row) /\ Len(rows) \in Nat /\ DOMAIN rows = 1..Len(rows)
      /\ DOMAIN out = 1..Len(out) /\ Len(out) \in Nat
  BY DEF SourceInv, CodeTypeOK
<1>1. /\ stage = "rows" /\ stage' = "rows" /\ at \in DOMAIN out /\ at' = at + 1
      /\ doc' = doc /\ out' = out
  BY DEF InsertRows
<1>2. ChunksApart(Len(doc) + 1) /\ LinesKept(Len(doc) + 1) /\ RowsMade(at)
  BY <1>1 DEF SourceInv
<1>c. PICK c, a, z, T, base, K :
        /\ c = out[at] /\ a = c.from /\ z = c.to /\ K = z - a + 1
        /\ T = TitleRow(at) /\ base = Len(rows) + Len(T)
  OBVIOUS
<1>d. K = z - a + 1
  BY <1>c
<1>b. base = Len(rows) + Len(T)
  BY <1>c
<1>l. PICK L : L = [i \in 1..K |-> LineRow(at, i, base)]
  OBVIOUS
<1>3. /\ c = ChunkOf(c.id, a, z) /\ a \in Nat \ {0} /\ z \in Nat /\ a <= z + 1 /\ z <= Len(doc)
      /\ \A m \in DOMAIN out : m < at => out[m].to < a
  <2>1. /\ out[at] = ChunkOf(out[at].id, out[at].from, out[at].to)
        /\ out[at].from \in Nat \ {0} /\ out[at].to \in Nat
        /\ out[at].from <= out[at].to + 1 /\ out[at].to < Len(doc) + 1
        /\ \A m \in DOMAIN out : m < at => out[m].to < out[at].from
    BY <1>1, <1>2 DEF ChunksApart
  <2>2. c = ChunkOf(c.id, a, z) /\ \A m \in DOMAIN out : m < at => out[m].to < a
    BY <2>1, <1>c
  <2>3. a \in Nat \ {0} /\ z \in Nat /\ a <= z + 1 /\ z < Len(doc) + 1
    BY <2>1, <1>c
  <2> QED
    BY <2>2, <2>3, <1>0
<1>4. c \in CodeChunk /\ c.id \in {"f0", "f1", "pre", "fn"}
  <2>1. c \in CodeChunk
    BY <1>c, <1>0, <1>1
  <2> QED
    BY <2>1 DEF CodeChunk
<1>5. \A i \in 1..K : c.parents[i] = InChunk(a + i - 1, a, z)
  <2>1. \A i \in 1..(z - a + 1) : ChunkOf(c.id, a, z).parents[i] = InChunk(a + i - 1, a, z)
    BY <1>0, <1>3, <1>4, ChunkFields
  <2> QED
    BY <2>1, <1>3, <1>c
<1>6. /\ T \in Seq(Row) /\ Len(T) \in Nat /\ base \in Nat /\ K \in Nat
      /\ \A j \in 1..Len(T) : /\ T[j].chunk = at /\ T[j].sort = 0 /\ T[j].line \in a..z
                              /\ doc[T[j].line].hash
  <2>1. /\ T \in Seq(Row) /\ Len(T) \in Nat
        /\ \A j \in 1..Len(T) : /\ T[j].chunk = at /\ T[j].sort = 0 /\ T[j].line \in a..z
                                /\ doc[T[j].line].hash
    BY <1>c, <1>0, <1>1, <1>3, TitleFields
  <2>2. Len(T) \in Nat /\ Len(rows) \in Nat
    BY <2>1, <1>0
  <2>3. base \in Nat
    BY <2>2, <1>b
  <2>4. K \in Nat
    <3>1. a \in Nat /\ z \in Nat /\ a <= z + 1
      BY <1>3
    <3> QED
      BY <3>1, <1>d
  <2> QED
    BY <2>1, <2>3, <2>4, Zenon
<1>7. ASSUME NEW i \in 1..K
      PROVE  LET r == LineRow(at, i, base)
                 p == doc[a + i - 1].parent IN
             /\ r \in Row /\ r.chunk = at /\ r.line = a + i - 1 /\ r.sort = a + i - 1
             /\ p \in Nat /\ p < a + i - 1
             /\ r.parent = IF p \in a..z THEN base + (p - a + 1) ELSE 0
  <2> DEFINE p == doc[a + i - 1].parent
             q == c.parents[i]
  <2>1. a + i - 1 \in 1..Len(doc) /\ a + i - 1 \in Nat /\ i \in Nat /\ i >= 1
    BY <1>d, <1>0, <1>3, <1>7
  <2>2. p \in Nat /\ p < a + i - 1
    BY <2>1, <1>0, LineFields DEF Parents
  <2>3. q = IF p \in a..z THEN p - a + 1 ELSE 0
    BY <1>5, <1>7 DEF InChunk
  <2>4. LineRow(at, i, base) = [chunk |-> at, line |-> a + i - 1, sort |-> a + i - 1,
                                parent |-> IF q \in 1..(i - 1) THEN base + q ELSE 0]
    BY <1>c DEF LineRow
  <2> HIDE DEF p, q
  <2>5. q \in 1..(i - 1) <=> p \in a..z
    BY <2>1, <2>2, <2>3, <1>3
  <2>6. (IF q \in 1..(i - 1) THEN base + q ELSE 0) = IF p \in a..z THEN base + (p - a + 1) ELSE 0
    BY <2>3, <2>5
  <2>7. (IF q \in 1..(i - 1) THEN base + q ELSE 0) \in Nat
    BY <1>6, <2>1
  <2> QED
    BY <2>1, <2>2, <2>4, <2>6, <2>7, <1>0 DEF Row, p
<1>8. rows' = rows \o T \o L
  BY <1>c, <1>l DEF InsertRows
<1>9. L \in [1..K -> Row]
  BY <1>7, <1>l
<1>10. \A i \in 1..K : L[i] = LineRow(at, i, base)
  BY <1>l
<1>11. /\ rows' \in Seq(Row) /\ DOMAIN rows' = 1..(base + K)
       /\ \A n \in 1..Len(rows) : rows'[n] = rows[n]
       /\ \A n \in 1..Len(T) : rows'[Len(rows) + n] = T[n]
       /\ \A n \in 1..K : rows'[base + n] = L[n]
  <2>1. PICK r, s : r = rows /\ s = rows'
    OBVIOUS
  <2>2. r \in Seq(Row) /\ T \in Seq(Row) /\ K \in Nat /\ s = r \o T \o L
    BY <1>0, <1>6, <1>8, <2>1
  <2>3. /\ s \in Seq(Row) /\ DOMAIN s = 1..(Len(r) + Len(T) + K)
        /\ \A n \in 1..Len(r) : s[n] = r[n]
        /\ \A n \in 1..Len(T) : s[Len(r) + n] = T[n]
        /\ \A n \in 1..K : s[Len(r) + Len(T) + n] = L[n]
    <3>1. r \in Seq(Row) /\ T \in Seq(Row) /\ K \in Nat
      BY <2>2
    <3>2. \A l \in [1..K -> Row] : \A q : q = (r \o T) \o l =>
            /\ q \in Seq(Row) /\ DOMAIN q = 1..(Len(r) + Len(T) + K)
            /\ \A n \in 1..Len(r) : q[n] = r[n]
            /\ \A n \in 1..Len(T) : q[Len(r) + n] = T[n]
            /\ \A n \in 1..K : q[Len(r) + Len(T) + n] = l[n]
      BY <3>1, ThreeParts, Zenon
    <3>3. s = (r \o T) \o L
      BY <2>2, Zenon
    <3> QED
      BY <3>2, <3>3, <1>9, Zenon
  <2> QED
    BY <2>1, <2>3, <1>b
<1>12. \A n \in DOMAIN rows' :
         \/ n \in 1..Len(rows)
         \/ n - Len(rows) \in 1..Len(T)
         \/ n > base /\ n - base \in 1..K
  <2> SUFFICES ASSUME NEW n \in 1..(base + K)
               PROVE  \/ n \in 1..Len(rows)
                      \/ n - Len(rows) \in 1..Len(T)
                      \/ n > base /\ n - base \in 1..K
    BY <1>11
  <2>1. Len(rows) \in Nat /\ Len(T) \in Nat /\ base \in Nat /\ K \in Nat
    BY <1>0, <1>6
  <2> QED
    BY <2>1, <1>b
<1>13. ASSUME NEW n \in 1..Len(rows) PROVE RowKept(n)' /\ rows'[n].chunk < at
  <2>1. RowKept(n) /\ rows[n].chunk < at /\ rows'[n] = rows[n]
    BY <1>0, <1>2, <1>11, <1>13 DEF RowsMade
  <2>2. \A m \in 1..(n - 1) : rows'[m] = rows[m]
    BY <1>0, <1>11, <1>13
  <2> QED
    BY <2>1, <2>2, <1>1 DEF RowKept
<1>14. ASSUME NEW n \in DOMAIN rows', n - Len(rows) \in 1..Len(T)
       PROVE  RowKept(n)' /\ rows'[n].chunk = at /\ rows'[n].sort = 0
  <2>1. rows'[n] = T[n - Len(rows)]
    <3>1. n \in Nat /\ Len(rows) + (n - Len(rows)) = n
      BY <1>0, <1>d, <1>6, <1>11
    <3> QED
      BY <3>1, <1>11, <1>14
  <2>2. /\ rows'[n].chunk = at /\ rows'[n].sort = 0 /\ doc[rows'[n].line].hash
        /\ rows'[n].line \in out[at].from..out[at].to
    BY <2>1, <1>6, <1>14, <1>c
  <2> QED
    BY <2>2, <1>1 DEF RowKept
<1>15. ASSUME NEW i \in 1..K
       PROVE  /\ RowKept(base + i)' /\ rows'[base + i].chunk = at
              /\ rows'[base + i].line = a + i - 1 /\ rows'[base + i].sort = a + i - 1
              /\ a + i - 1 # 0 /\ a + i - 1 \in a..z
  <2> DEFINE r == rows'[base + i]
             p == doc[a + i - 1].parent
  <2>1. /\ r.chunk = at /\ r.line = a + i - 1 /\ r.sort = a + i - 1
        /\ p \in Nat /\ p < a + i - 1
        /\ r.parent = IF p \in a..z THEN base + (p - a + 1) ELSE 0
    BY <1>7, <1>10, <1>11, <1>15
  <2>2. a + i - 1 # 0 /\ a + i - 1 \in a..z /\ i \in Nat
    BY <1>d, <1>3, <1>15
  <2>3. ASSUME p \in a..z
        PROVE  /\ r.parent \in 1..(base + i - 1) /\ rows'[r.parent].line = p
               /\ rows'[r.parent].sort = p
    <3> HIDE DEF p, r
    <3>1. p - a + 1 \in 1..K /\ r.parent = base + (p - a + 1) /\ p - a + 1 < i
      BY <1>d, <1>3, <2>1, <2>2, <2>3
    <3>2. rows'[base + (p - a + 1)] = LineRow(at, p - a + 1, base)
      BY <1>10, <1>11, <3>1
    <3>3. a + (p - a + 1) - 1 = p
      BY <1>3, <2>1
    <3>4. LineRow(at, p - a + 1, base).line = p /\ LineRow(at, p - a + 1, base).sort = p
      BY <1>7, <3>1, <3>3
    <3> QED
      BY <3>1, <3>2, <3>4, <1>6, <2>2
  <2>4. p \notin a..z => r.parent = 0
    BY <2>1
  <2>5. RowKept(base + i)'
    <3>1. r.chunk \in DOMAIN out' /\ r.line \in a..z /\ out'[r.chunk] = c /\ doc'[r.line].parent = p
      BY <1>1, <1>c, <2>1, <2>2
    <3> HIDE DEF p
    <3>2. r.sort # 0 /\ r.sort = r.line
      BY <2>1, <2>2
    <3> QED
      BY <3>1, <3>2, <2>3, <2>4, <1>c DEF RowKept
  <2> QED
    BY <2>1, <2>2, <2>5
<1>16. \A n \in DOMAIN rows' : RowKept(n)' /\ rows'[n].chunk < at + 1
  <2> SUFFICES ASSUME NEW n \in DOMAIN rows' PROVE RowKept(n)' /\ rows'[n].chunk < at + 1
    OBVIOUS
  <2>0. n \in Nat
    BY <1>d, <1>6, <1>11
  <2>1. CASE n \in 1..Len(rows)
    <3>1. rows[n].chunk \in Nat
      <4>1. rows[n] \in Row
        BY <2>1, <1>0
      <4> QED
        BY <4>1 DEF Row
    <3> QED
      BY <2>1, <3>1, <1>0, <1>11, <1>13
  <2>2. CASE n - Len(rows) \in 1..Len(T)
    BY <2>2, <1>0, <1>14
  <2>3. CASE n - base \in 1..K
    <3>1. base + (n - base) = n
      BY <1>6, <2>0
    <3> QED
      BY <2>3, <3>1, <1>0, <1>15
  <2> QED
    BY <2>1, <2>2, <2>3, <1>12
<1>17. ASSUME NEW d \in DOMAIN out, d < at + 1, NEW i \in out[d].from..out[d].to
       PROVE  \E n \in DOMAIN rows' : rows'[n].sort # 0 /\ rows'[n].line = i
  <2>1. CASE d < at
    <3>1. PICK n \in DOMAIN rows : rows[n].sort # 0 /\ rows[n].line = i
      BY <1>2, <1>17, <2>1 DEF RowsMade
    <3>2. n \in DOMAIN rows' /\ rows'[n] = rows[n]
      BY <1>b, <1>0, <1>6, <1>11, <3>1
    <3> QED
      BY <3>1, <3>2
  <2>2. CASE d = at
    <3>1. i - a + 1 \in 1..K /\ a + (i - a + 1) - 1 = i /\ i \in Nat
      <4>1. i \in a..z
        BY <1>c, <1>17, <2>2
      <4> QED
        BY <4>1, <1>d, <1>3
    <3>2. base + (i - a + 1) \in DOMAIN rows'
      BY <3>1, <1>6, <1>11
    <3> QED
      BY <3>1, <3>2, <1>15
  <2> QED
    BY <2>1, <2>2, <1>0, <1>17
<1>18. ASSUME NEW m \in DOMAIN rows', NEW n \in DOMAIN rows', m < n,
              rows'[m].sort # 0, rows'[n].sort # 0
       PROVE  rows'[m].sort < rows'[n].sort
  <2>0. m \in Nat /\ n \in Nat
    BY <1>d, <1>6, <1>11
  <2>1. \A k \in DOMAIN rows' : rows'[k].sort # 0 =>
          k \in 1..Len(rows) \/ (k > base /\ k - base \in 1..K)
    <3> SUFFICES ASSUME NEW k \in DOMAIN rows', k - Len(rows) \in 1..Len(T)
                 PROVE  rows'[k].sort = 0
      BY <1>12
    <3> QED
      BY <1>14
  <2>2. CASE n \in 1..Len(rows)
    <3>1. m \in 1..Len(rows) /\ rows'[m] = rows[m] /\ rows'[n] = rows[n]
      BY <1>0, <1>11, <1>18, <2>0, <2>2, <2>1, <1>6, <1>b
    <3> QED
      BY <3>1, <2>2, <1>0, <1>2, <1>18 DEF RowsMade
  <2>3. CASE n > base /\ n - base \in 1..K
    <3>1. base + (n - base) = n
      BY <1>6, <2>0
    <3>2. rows'[n].sort = a + (n - base) - 1
      BY <2>3, <3>1, <1>15
    <3>3. CASE m \in 1..Len(rows)
      <4>1. /\ rows[m] \in Row /\ RowKept(m) /\ rows[m].chunk < at /\ rows'[m] = rows[m]
        BY <3>3, <1>0, <1>2, <1>11 DEF RowsMade
      <4>2. /\ rows[m].sort = rows[m].line /\ rows[m].chunk \in DOMAIN out
            /\ rows[m].line \in out[rows[m].chunk].from..out[rows[m].chunk].to
        BY <4>1, <1>18 DEF RowKept
      <4>3. out[rows[m].chunk].to < a /\ out[rows[m].chunk].to \in Nat /\ out[rows[m].chunk].from \in Nat
        BY <4>1, <4>2, <1>2, <1>3 DEF ChunksApart
      <4> QED
        <5>1. rows'[m].sort < a
          BY <4>1, <4>2, <4>3, <1>3
        <5>2. rows'[m].sort \in Nat
          BY <4>1 DEF Row
        <5>3. n - base \in Nat /\ n - base >= 1
          BY <2>3
        <5> QED
          BY <5>1, <5>2, <5>3, <3>2, <1>3
    <3>4. CASE m > base /\ m - base \in 1..K
      <4>1. base + (m - base) = m
        BY <1>6, <2>0
      <4>2. rows'[m].sort = a + (m - base) - 1
        BY <3>4, <4>1, <1>15
      <4> QED
        BY <4>2, <3>2, <1>18, <2>0, <1>3, <1>6
    <3> QED
      BY <3>3, <3>4, <2>1, <1>18
  <2> QED
    BY <2>1, <2>2, <2>3, <1>18
<1>19. RowsMade(at)'
  BY <1>1, <1>16, <1>17, <1>18 DEF RowsMade
<1>20. CodeTypeOK'
  BY <1>0, <1>1, <1>11 DEF CodeTypeOK
<1> QED
  BY <1>1, <1>2, <1>0, <1>19, <1>20, SourceSame DEF SourceInv

LEMMA SourceStepInv == SourceInv /\ [CodeNext]_codeVars => SourceInv'
<1> SUFFICES ASSUME SourceInv, [CodeNext]_codeVars PROVE SourceInv'
  OBVIOUS
<1>1. CASE NoLines \/ NoTops \/ Preamble \/ Declaration \/ BoundaryEnd
  BY <1>1, BoundaryKeeps
<1>2. CASE InsertRows
  BY <1>2, InsertKeeps
<1>3. CASE RowsEnd
  <2>1. /\ doc' = doc /\ at' = at /\ out' = out /\ rows' = rows /\ stage = "rows"
        /\ stage' = "source" /\ at > Len(out)
    BY <1>3 DEF RowsEnd
  <2> QED
    BY <2>1, SourceSame DEF SourceInv, CodeTypeOK
<1>4. CASE UNCHANGED codeVars
  <2>1. doc' = doc /\ at' = at /\ out' = out /\ rows' = rows /\ stage' = stage
    BY <1>4 DEF codeVars, textVars
  <2> QED
    BY <2>1, SourceSame DEF SourceInv, CodeTypeOK, AtTop
<1> QED
  BY <1>1, <1>2, <1>3, <1>4 DEF CodeNext

LEMMA SourceInvIsKept == CodeSpec => []SourceInv
  BY SourceInitInv, SourceStepInv, PTL DEF CodeSpec

\* When the rows are written.
LEMMA SourceHolds == SourceInv => SourceKept
<1> SUFFICES ASSUME SourceInv, stage = "source" PROVE RowsInOrder /\ ParentsKept
  BY DEF SourceKept
<1>1. /\ ChunksApart(Len(doc) + 1) /\ LinesKept(Len(doc) + 1) /\ RowsMade(at) /\ at > Len(out)
      /\ Len(doc) \in Nat /\ DOMAIN doc = 1..Len(doc) /\ at \in Nat
      /\ Len(out) \in Nat /\ DOMAIN out = 1..Len(out) /\ rows \in Seq(Row)
  BY DEF SourceInv, CodeTypeOK
<1>2. \A n \in DOMAIN rows : RowKept(n)
  BY <1>1 DEF RowsMade
<1>3. \A i \in DOMAIN doc : ~Left(i) => \E n \in DOMAIN rows : rows[n].sort # 0 /\ rows[n].line = i
  <2> SUFFICES ASSUME NEW i \in DOMAIN doc, ~Left(i)
               PROVE  \E n \in DOMAIN rows : rows[n].sort # 0 /\ rows[n].line = i
    OBVIOUS
  <2>1. PICK c \in DOMAIN out : i \in out[c].from..out[c].to
    BY <1>1 DEF LinesKept
  <2>2. c < at
    BY <1>1
  <2> QED
    BY <2>1, <2>2, <1>1 DEF RowsMade
<1>4. \A m, n \in DOMAIN rows : m < n /\ rows[m].sort # 0 /\ rows[n].sort # 0 =>
        rows[m].sort < rows[n].sort
  BY <1>1 DEF RowsMade
<1>5. \A n \in DOMAIN rows : rows[n].sort = 0 => doc[rows[n].line].hash
  BY <1>2 DEF RowKept
<1>6. RowsInOrder
  BY <1>3, <1>4, <1>5 DEF RowsInOrder
<1>7. ParentsKept
  BY <1>2 DEF RowKept, ParentsKept
<1> QED
  BY <1>6, <1>7

\* The rows of a source file hold its lines in order and its tree (chunker/code.go,
\* insertCodeL3Lines): for every source and whatever hangs on what.
THEOREM SourceIsKept == CodeSpec => []SourceKept
  BY SourceHolds, SourceInvIsKept, PTL

-----------------------------------------------------------------------------
(* FixedChunks.                                                            *)

\* The pieces made so far follow one another and end before the cursor.
PiecesApart == \A n \in DOMAIN out :
  /\ out[n].n = n - 1
  /\ out[n].from <= out[n].to
  /\ out[n].to - out[n].from < MaxChars
  /\ out[n].to <= at
  /\ n > 1 => out[n - 1].to < out[n].from

\* What the cursor has passed is in a piece or is white space.
PassedKept == \A i \in 1..at : doc[i] \in Spaces \/ \E n \in DOMAIN out : InPiece(i, out[n])

\* The search stays in the window, and the cut it ends with is behind the cursor.
CutInWindow == /\ stage = "search" => at < Limit /\ at <= cut /\ cut <= Limit
               /\ stage = "cut" => at < cut /\ cut <= Limit
               /\ stage = "pieces" => at >= Len(doc)

FixedInv == FixedTypeOK /\ PiecesApart /\ PassedKept /\ CutInWindow

USE FixedAssumption

\* The window is behind the cursor as long as there is text, and no longer than
\* MaxChars.
LEMMA LimitBounds ==
  ASSUME FixedTypeOK
  PROVE  /\ Limit \in 0..Len(doc) /\ Limit <= at + MaxChars
         /\ at < Len(doc) => at < Limit
  BY DEF FixedTypeOK, Limit

LEMMA PieceBounds ==
  ASSUME out \in Seq(Piece)
  PROVE  \A k \in 1..Len(out) : out[k].to \in Nat /\ out[k].from \in Nat
<1> SUFFICES ASSUME NEW k \in 1..Len(out) PROVE out[k].to \in Nat /\ out[k].from \in Nat
  OBVIOUS
<1>1. out[k] \in Piece
  OBVIOUS
<1> QED
  BY <1>1 DEF Piece

\* At the start there are no pieces.
LEMMA InitInv == FixedInit => FixedInv
<1> SUFFICES ASSUME FixedInit PROVE FixedInv
  OBVIOUS
<1>1. doc \in Seq(Runes) /\ Len(doc) \in Nat
  BY DEF FixedInit
<1>2. out = << >> /\ at = 0 /\ cut = 0 /\ stage = "window"
  BY DEF FixedInit
<1>3. out \in Seq(Piece) /\ DOMAIN out = {}
  BY <1>2
<1>4. FixedTypeOK
  BY <1>1, <1>2, <1>3 DEF FixedTypeOK
<1> QED
  BY <1>2, <1>3, <1>4 DEF FixedInv, PiecesApart, PassedKept, CutInWindow

\* Every pass of the loops keeps the invariant.
LEMMA StepInv == FixedInv /\ [FixedNext]_fixedVars => FixedInv'
<1> SUFFICES ASSUME FixedInv, [FixedNext]_fixedVars PROVE FixedInv'
  OBVIOUS
<1> USE DEF FixedInv
<1>0. FixedTypeOK /\ Len(doc) \in Nat /\ at \in Nat
  BY DEF FixedTypeOK
<1>1. CASE Window
  <2>1. doc' = doc /\ at' = at /\ out' = out /\ Limit' = Limit
    BY <1>1 DEF Window, Limit
  <2> QED
    BY <1>0, <1>1, <2>1, LimitBounds
       DEF Window, FixedTypeOK, PiecesApart, PassedKept, CutInWindow, InPiece
<1>2. CASE SearchBack
  <2>1. doc' = doc /\ at' = at /\ out' = out /\ Limit' = Limit
    BY <1>2 DEF SearchBack, Limit
  <2> QED
    BY <1>0, <1>2, <2>1, LimitBounds
       DEF SearchBack, FixedTypeOK, PiecesApart, PassedKept, CutInWindow, InPiece
<1>3. CASE FoundBreak
  <2>1. doc' = doc /\ at' = at /\ out' = out /\ Limit' = Limit
    BY <1>3 DEF FoundBreak, Limit
  <2>2. cut' \in 0..Len(doc) /\ at < cut' /\ cut' <= Limit
    BY <1>0, <1>3, LimitBounds DEF FoundBreak, FixedTypeOK, CutInWindow, BreaksBefore
  <2> QED
    BY <1>0, <1>3, <2>1, <2>2
       DEF FoundBreak, FixedTypeOK, PiecesApart, PassedKept, CutInWindow, InPiece
<1>4. CASE NoBreak
  <2>1. doc' = doc /\ at' = at /\ out' = out /\ Limit' = Limit
    BY <1>4 DEF NoBreak, Limit
  <2> QED
    BY <1>0, <1>4, <2>1, LimitBounds
       DEF NoBreak, FixedTypeOK, PiecesApart, PassedKept, CutInWindow, InPiece
<1>5. CASE TakePiece
  <2> DEFINE p == [n |-> Len(out), from |-> at + 1, to |-> cut]
  <2>1. /\ doc' = doc /\ cut' = cut /\ at' = cut /\ stage' = "skip"
        /\ out' = Append(out, p)
    BY <1>5 DEF TakePiece
  <2>2. at < cut /\ cut <= Limit /\ cut \in 0..Len(doc) /\ Limit <= at + MaxChars
    BY <1>0, <1>5, LimitBounds DEF TakePiece, CutInWindow, FixedTypeOK
  <2>3. p \in Piece /\ out \in Seq(Piece) /\ Len(out) \in Nat
    BY <1>0, <2>2 DEF Piece, FixedTypeOK
  <2>4. FixedTypeOK'
    BY <1>0, <2>1, <2>2, <2>3 DEF FixedTypeOK
  <2>5. /\ DOMAIN out' = 1..(Len(out) + 1)
        /\ out'[Len(out) + 1] = p
        /\ \A n \in DOMAIN out : out'[n] = out[n] /\ n \in 1..Len(out)
    BY <2>1, <2>3
  <2>6. PiecesApart'
    <3> SUFFICES ASSUME NEW n \in DOMAIN out'
                 PROVE  /\ out'[n].n = n - 1
                        /\ out'[n].from <= out'[n].to
                        /\ out'[n].to - out'[n].from < MaxChars
                        /\ out'[n].to <= at'
                        /\ n > 1 => out'[n - 1].to < out'[n].from
      BY DEF PiecesApart
    <3>1. \A k \in 1..Len(out) : out[k].to \in Nat /\ out[k].from \in Nat
      BY PieceBounds, <2>3
    <3>2. CASE n = Len(out) + 1
      <4>1. out'[n] = p
        BY <3>2, <2>5
      <4>2. n > 1 => out'[n - 1].to <= at
        BY <3>2, <2>3, <2>5 DEF PiecesApart
      <4>3. p.n = Len(out) /\ p.from = at + 1 /\ p.to = cut
        OBVIOUS
      <4>4. n > 1 => n - 1 \in 1..Len(out) /\ out'[n - 1].to \in Nat
        BY <3>1, <3>2, <2>3, <2>5
      <4> HIDE DEF p
      <4>5. out'[n].n = n - 1
        BY <4>1, <4>3, <3>2, <2>3
      <4>6. /\ out'[n].from <= out'[n].to /\ out'[n].to <= at'
            /\ out'[n].to - out'[n].from < MaxChars
        BY <4>1, <4>3, <2>1, <2>2, <1>0, LimitBounds
      <4>7. n > 1 => out'[n - 1].to < out'[n].from
        BY <4>1, <4>2, <4>3, <4>4, <1>0
      <4> QED
        BY <4>5, <4>6, <4>7
    <3>3. CASE n \in 1..Len(out)
      <4>1. out'[n] = out[n] /\ (n > 1 => out'[n - 1] = out[n - 1])
        BY <3>3, <2>3, <2>5
      <4>2. /\ out[n].n = n - 1 /\ out[n].from <= out[n].to
            /\ out[n].to - out[n].from < MaxChars /\ out[n].to <= at
            /\ n > 1 => out[n - 1].to < out[n].from
        BY <3>3, <2>3 DEF PiecesApart
      <4>3. out[n].to \in Nat
        BY <3>1, <3>3
      <4> QED
        BY <4>1, <4>2, <4>3, <2>1, <2>2, <1>0
    <3> QED
      BY <3>2, <3>3, <2>3, <2>5
  <2>7. PassedKept'
    <3> SUFFICES ASSUME NEW i \in 1..cut, doc[i] \notin Spaces
                 PROVE  \E n \in DOMAIN out' : InPiece(i, out'[n])
      BY <2>1 DEF PassedKept, InPiece
    <3>1. CASE i <= at
      BY <3>1, <1>0, <2>2, <2>5, <2>3 DEF PassedKept, InPiece
    <3>2. CASE i > at
      <4>1. InPiece(i, p)
        BY <3>2, <1>0, <2>2 DEF InPiece
      <4> QED
        BY <4>1, <2>3, <2>5
    <3> QED
      BY <3>1, <3>2, <1>0, <2>2
  <2> QED
    BY <2>1, <2>4, <2>6, <2>7 DEF CutInWindow
<1>6. CASE SkipSpace
  <2>1. /\ doc' = doc /\ cut' = cut /\ at' = at + 1 /\ out' = out /\ stage' = "skip"
        /\ at + 1 \in DOMAIN doc /\ doc[at + 1] \in Spaces
    BY <1>6 DEF SkipSpace, Space
  <2>2. FixedTypeOK'
    BY <1>0, <2>1 DEF FixedTypeOK
  <2>3. PiecesApart'
    <3>1. \A k \in 1..Len(out) : out[k].to \in Nat
      BY <1>0, PieceBounds DEF FixedTypeOK
    <3>2. DOMAIN out = 1..Len(out)
      BY <1>0 DEF FixedTypeOK
    <3> QED
      BY <1>0, <2>1, <3>1, <3>2 DEF PiecesApart
  <2>4. PassedKept'
    BY <1>0, <2>1 DEF PassedKept, InPiece
  <2> QED
    BY <2>1, <2>2, <2>3, <2>4 DEF CutInWindow
<1>7. CASE SkipEnds
  BY <1>0, <1>7 DEF SkipEnds, FixedTypeOK, PiecesApart, PassedKept, CutInWindow, InPiece
<1>8. CASE PiecesEnd
  BY <1>0, <1>8 DEF PiecesEnd, FixedTypeOK, PiecesApart, PassedKept, CutInWindow, InPiece
<1>9. CASE UNCHANGED fixedVars
  BY <1>9 DEF fixedVars, textVars, FixedTypeOK, PiecesApart, PassedKept, CutInWindow,
              InPiece, Limit
<1> QED
  BY <1>1, <1>2, <1>3, <1>4, <1>5, <1>6, <1>7, <1>8, <1>9 DEF FixedNext

LEMMA InvIsKept == FixedSpec => []FixedInv
  BY InitInv, StepInv, PTL DEF FixedSpec

\* The chunker's variables keep their types: the cursor and the end of the piece
\* in hand (start and end in fixed.go:43-58) never leave the text, so that no
\* slice of it is out of range.
THEOREM FixedTypes == FixedSpec => []FixedTypeOK
  BY InvIsKept, PTL DEF FixedInv

\* When the text is in pieces.
LEMMA PiecesHold == FixedInv => PiecesKept
<1> SUFFICES ASSUME FixedInv, stage = "pieces" PROVE PiecesKept
  BY DEF PiecesKept
<1>1. at = Len(doc) /\ DOMAIN doc = 1..at
  BY DEF FixedInv, CutInWindow, FixedTypeOK
<1> QED
  BY <1>1 DEF FixedInv, PiecesKept, PiecesApart, PassedKept

\* No rune that is not white space is lost or doubled, no piece is empty or too
\* long, and they are numbered in their order: for every content and every
\* MaxChars (fixed.go:24-91).
THEOREM PiecesAreKept == FixedSpec => []PiecesKept
  BY PiecesHold, InvIsKept, PTL
=============================================================================
