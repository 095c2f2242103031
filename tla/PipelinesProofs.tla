-------------------------- MODULE PipelinesProofs --------------------------
(***************************************************************************)
(* The pipelines side by side: the shared parser of the code pipeline, for *)
(* any number of requests served one after the other; the markdown         *)
(* pipeline, for every document; and, with what TextProofs says of the     *)
(* other three, the types and the answers of whichever runs.               *)
(***************************************************************************)
EXTENDS Pipelines, TextProofs, FiniteSetTheorems, SequenceTheorems

-----------------------------------------------------------------------------
(* The shared parser.                                                      *)

\* One request is between its first and its last step.
OneAtATime == \A q, r \in Requests : pc[q] \in Steps /\ pc[r] \in Steps => q = r

\* What a request has left in the parser, and read of it.
InTurn(r) ==
  /\ pc[r] \in Steps => lang[r] \in Langs
  /\ pc[r] = "settext" => shared.len = LenOf[lang[r]]
  /\ pc[r] \in {"toc", "lines"} => /\ shared.text = lang[r] /\ shared.len = LenOf[lang[r]]
                                   /\ got[r].text \in {"", lang[r]}
                                   /\ got[r].len \in {0, LenOf[lang[r]]}
  /\ pc[r] \in {"idle", "setlen", "settext"} =>
       got[r].text = "" /\ got[r].len = 0 /\ toc[r] = "" /\ lines[r] = ""

\* OwnLanguage of one request.
Own(r) == /\ toc[r] # "" => toc[r] = lang[r]
          /\ lines[r] # "" => lines[r] = lang[r]
          /\ pc[r] = "failed" => broke[r]

ParserInv == TypeOK /\ OneAtATime /\ \A r \in Requests : InTurn(r) /\ Own(r)

LEMMA LangLengths ==
  /\ LenOf["python"] = 6 /\ LenOf["go"] = 2 /\ LenOf["typescript"] = 10
  /\ \A l \in Langs : LenOf[l] \in {2, 6, 10} /\ l # ""
  BY DEF LenOf, Langs

LEMMA ParserInit == Init => ParserInv
  <1> SUFFICES ASSUME Init PROVE ParserInv
    OBVIOUS
  <1>1. Empty \in Words /\ Empty.text = "" /\ Empty.len = 0
    BY DEF Empty, Words
  <1>2. TypeOK
    BY <1>1, LangLengths DEF Init, TypeOK, Words, Langs
  <1>3. OneAtATime
    BY DEF Init, OneAtATime, Steps
  <1>4. \A r \in Requests : InTurn(r) /\ Own(r)
    BY <1>1 DEF Init, InTurn, Own, Steps
  <1> QED
    BY <1>2, <1>3, <1>4 DEF ParserInv

\* The types hold for requests side by side too.
ParserTypes == TypeOK /\ \A r \in Requests : pc[r] \in Steps => lang[r] \in Langs

LEMMA TypeStep == ParserTypes /\ [Next]_vars => ParserTypes'
  <1> SUFFICES ASSUME ParserTypes, [Next]_vars PROVE ParserTypes'
    OBVIOUS
  <1>0. TypeOK /\ \A r \in Requests : pc[r] \in Steps => lang[r] \in Langs
    BY DEF ParserTypes
  <1> USE <1>0 DEF TypeOK, GoTo, Steps
  <1>1. ASSUME NEW r \in Requests, Process(r) PROVE TypeOK'
    <2>1. CASE Begin(r)
      <3>1. PICK named \in Langs \cup {""}, title \in Langs \cup {"other"} :
              lang' = [lang EXCEPT ![r] = Language(named, title)]
        BY <2>1 DEF Begin
      <3>2. Language(named, title) \in Langs
        BY DEF Language, Langs
      <3> QED
        BY <2>1, <3>1, <3>2 DEF Begin
    <2>2. CASE SetLen(r)
      <3>1. LenOf[lang[r]] \in {2, 6, 10}
        BY <2>2, LangLengths DEF SetLen
      <3>2. [shared EXCEPT !.len = LenOf[lang[r]]] \in Words
        BY <3>1 DEF Words
      <3> QED
        BY <2>2, <3>2 DEF SetLen
    <2>3. CASE SetText(r)
      BY <2>3 DEF SetText, Words
    <2>4. CASE LoadText(r)
      BY <2>4 DEF LoadText, Words
    <2>5. CASE LoadLen(r)
      <3>1. [got[r] EXCEPT !.len = shared.len] \in Words
        BY DEF Words
      <3>2. got' = [got EXCEPT ![r] = [got[r] EXCEPT !.len = shared.len]]
        BY <2>5 DEF LoadLen
      <3> QED
        BY <2>5, <3>1, <3>2 DEF LoadLen
    <2>6. CASE ParseToc(r) \/ ParseLines(r)
      <3>1. Empty \in Words
        BY DEF Empty, Words
      <3>2. got[r].text \in Langs \cup {""}
        BY DEF Words
      <3>3. CASE ParseToc(r)
        BY <3>1, <3>2, <3>3 DEF ParseToc
      <3>4. CASE ParseLines(r)
        BY <3>1, <3>2, <3>4 DEF ParseLines
      <3> QED
        BY <2>6, <3>3, <3>4
    <2>7. CASE ParseFails(r)
      BY <2>7 DEF ParseFails, Whole
    <2>8. CASE Sink(r)
      BY <2>8 DEF Sink
    <2> QED
      BY <1>1, <2>1, <2>2, <2>3, <2>4, <2>5, <2>6, <2>7, <2>8 DEF Process
  <1>2. ASSUME NEW r \in Requests, Process(r), NEW q \in Requests, pc'[q] \in Steps
        PROVE  lang'[q] \in Langs
    <2>1. CASE Begin(r)
      <3>1. PICK named \in Langs \cup {""}, title \in Langs \cup {"other"} :
              lang' = [lang EXCEPT ![r] = Language(named, title)]
        BY <2>1 DEF Begin
      <3>2. Language(named, title) \in Langs
        BY DEF Language, Langs
      <3>3. q # r => pc'[q] = pc[q] /\ lang'[q] = lang[q]
        BY <2>1, <3>1 DEF Begin
      <3> QED
        BY <1>2, <3>1, <3>2, <3>3
    <2>2. CASE ~Begin(r)
      <3>1. lang' = lang /\ pc[q] \in Steps
        BY <1>2, <2>2 DEF Process, SetLen, SetText, LoadText, LoadLen, ParseToc, ParseLines,
                          ParseFails, Sink
      <3> QED
        BY <3>1
    <2> QED
      BY <2>1, <2>2
  <1>3. CASE UNCHANGED vars
    BY <1>3 DEF ParserTypes, vars
  <1> QED
    BY <1>1, <1>2, <1>3 DEF Next, ParserTypes

\* A step of Process is of the one request in its turn.
LEMMA OneStep ==
  ASSUME ~Concurrent, ParserInv, NEW r \in Requests, Process(r)
  PROVE  /\ \A q \in Requests : q # r => /\ pc'[q] = pc[q] /\ lang'[q] = lang[q]
                                         /\ got'[q] = got[q] /\ toc'[q] = toc[q]
                                         /\ lines'[q] = lines[q] /\ broke'[q] = broke[q]
                                         /\ pc[q] \notin Steps
  <1>1. TypeOK /\ OneAtATime
    BY DEF ParserInv
  <1>2. \A q \in Requests : q # r => pc[q] \notin Steps
    BY <1>1 DEF Process, Begin, SetLen, SetText, LoadText, LoadLen, ParseToc, ParseLines,
                ParseFails, Sink, OneAtATime, Steps
  <1>3. CASE Begin(r)
    BY <1>1, <1>2, <1>3 DEF Begin, GoTo, TypeOK
  <1>4. CASE SetLen(r) \/ SetText(r) \/ LoadText(r) \/ LoadLen(r)
    BY <1>1, <1>2, <1>4 DEF SetLen, SetText, LoadText, LoadLen, GoTo, TypeOK
  <1>5. CASE ParseToc(r) \/ ParseLines(r) \/ ParseFails(r) \/ Sink(r)
    BY <1>1, <1>2, <1>5 DEF ParseToc, ParseLines, ParseFails, Sink, GoTo, TypeOK
  <1> QED
    BY <1>3, <1>4, <1>5 DEF Process

\* The request in its turn finds in the parser what it has put there.
LEMMA OwnStep ==
  ASSUME ~Concurrent, ParserInv, NEW r \in Requests, Process(r)
  PROVE  InTurn(r)' /\ Own(r)'
  <1>0. TypeOK /\ InTurn(r) /\ Own(r) /\ got[r] \in Words /\ shared \in Words
    BY DEF ParserInv, TypeOK
  <1> USE DEF TypeOK, GoTo
  <1>1. CASE Begin(r)
    <2>1. PICK named \in Langs \cup {""}, title \in Langs \cup {"other"} :
            lang' = [lang EXCEPT ![r] = Language(named, title)]
      BY <1>1 DEF Begin
    <2>2. Language(named, title) \in Langs
      BY DEF Language, Langs
    <2>3. /\ pc'[r] = "setlen" /\ pc[r] = "idle" /\ lang'[r] \in Langs
          /\ UNCHANGED <<got, toc, lines>>
      BY <1>0, <1>1, <2>1, <2>2 DEF Begin
    <2> QED
      BY <1>0, <2>3 DEF InTurn, Own, Steps
  <1>2. CASE SetLen(r)
    <2>1. shared'.len = LenOf[lang[r]] /\ pc'[r] = "settext" /\ UNCHANGED <<lang, got, toc, lines>>
      BY <1>0, <1>2 DEF SetLen, Words
    <2> QED
      BY <1>0, <1>2, <2>1 DEF SetLen, InTurn, Own, Steps
  <1>3. CASE SetText(r)
    <2>1. /\ shared'.text = lang[r] /\ shared'.len = shared.len /\ pc'[r] = "toc"
          /\ UNCHANGED <<lang, got, toc, lines>>
      BY <1>0, <1>3 DEF SetText, Words
    <2> QED
      BY <1>0, <1>3, <2>1 DEF SetText, InTurn, Own, Steps
  <1>4. CASE LoadText(r) \/ LoadLen(r)
    <2>1. /\ UNCHANGED <<shared, pc, lang, toc, lines, broke>> /\ pc[r] \in {"toc", "lines"}
          /\ shared.text = lang[r] /\ shared.len = LenOf[lang[r]]
      BY <1>0, <1>4 DEF LoadText, LoadLen, InTurn
    <2>2. got'[r].text \in {"", lang[r]} /\ got'[r].len \in {0, LenOf[lang[r]]}
      <3>1. got[r].text \in {"", lang[r]} /\ got[r].len \in {0, LenOf[lang[r]]}
        BY <1>0, <2>1 DEF InTurn
      <3>2. CASE LoadText(r)
        <4>1. got'[r] = [got[r] EXCEPT !.text = shared.text]
          BY <1>0, <3>2 DEF LoadText
        <4>2. got'[r].text = shared.text /\ got'[r].len = got[r].len
          BY <1>0, <4>1 DEF Words
        <4> QED
          BY <2>1, <3>1, <4>2
      <3>3. CASE LoadLen(r)
        <4>1. got'[r] = [got[r] EXCEPT !.len = shared.len]
          BY <1>0, <3>3 DEF LoadLen
        <4>2. got'[r].len = shared.len /\ got'[r].text = got[r].text
          BY <1>0, <4>1 DEF Words
        <4> QED
          BY <2>1, <3>1, <4>2
      <3> QED
        BY <1>4, <3>2, <3>3
    <2> QED
      BY <1>0, <2>1, <2>2 DEF InTurn, Own, Steps
  <1>5. CASE ParseToc(r) \/ ParseLines(r) \/ ParseFails(r)
    <2>1. /\ got[r].text = lang[r] /\ got[r].len = LenOf[lang[r]] /\ Whole(r)
          /\ pc[r] \in {"toc", "lines"} /\ UNCHANGED <<shared, lang>>
          /\ shared.text = lang[r] /\ shared.len = LenOf[lang[r]]
          /\ Empty.text = "" /\ Empty.len = 0
      BY <1>0, <1>5 DEF ParseToc, ParseLines, ParseFails, Loaded, Whole, InTurn, Empty
    <2>2. CASE ParseToc(r)
      <3>1. /\ pc'[r] = "lines" /\ got'[r] = Empty /\ toc'[r] = lang[r] /\ lines' = lines
        BY <1>0, <2>1, <2>2 DEF ParseToc
      <3> QED
        BY <1>0, <2>1, <3>1 DEF InTurn, Own, Steps
    <2>3. CASE ParseLines(r)
      <3>1. /\ pc'[r] = "sink" /\ got'[r] = Empty /\ lines'[r] = lang[r] /\ toc' = toc
        BY <1>0, <2>1, <2>3 DEF ParseLines
      <3> QED
        BY <1>0, <2>1, <3>1 DEF InTurn, Own, Steps
    <2>4. CASE ParseFails(r)
      <3>1. pc'[r] = "failed" /\ broke'[r] /\ UNCHANGED <<toc, lines>>
        BY <1>0, <2>1, <2>4 DEF ParseFails
      <3> QED
        BY <1>0, <2>1, <3>1 DEF InTurn, Own, Steps
    <2> QED
      BY <1>5, <2>2, <2>3, <2>4
  <1>6. CASE Sink(r)
    BY <1>0, <1>6 DEF Sink, InTurn, Own, Steps
  <1> QED
    BY <1>1, <1>2, <1>3, <1>4, <1>5, <1>6 DEF Process

LEMMA ParserStepInv == ~Concurrent /\ ParserInv /\ [Next]_vars => ParserInv'
  <1> SUFFICES ASSUME ~Concurrent, ParserInv, [Next]_vars PROVE ParserInv'
    OBVIOUS
  <1>1. TypeOK'
    BY TypeStep DEF ParserInv, InTurn, ParserTypes, Steps
  <1>2. ASSUME NEW r \in Requests, Process(r) PROVE OneAtATime' /\ \A q \in Requests : InTurn(q)' /\ Own(q)'
    <2>1. \A q \in Requests : q # r => pc'[q] \notin Steps
      BY <1>2, OneStep
    <2>2. OneAtATime'
      BY <2>1 DEF OneAtATime
    <2>3. ASSUME NEW q \in Requests, q # r PROVE InTurn(q)' /\ Own(q)'
      <3>1. /\ pc'[q] = pc[q] /\ lang'[q] = lang[q] /\ got'[q] = got[q] /\ toc'[q] = toc[q]
            /\ lines'[q] = lines[q] /\ broke'[q] = broke[q] /\ pc[q] \notin Steps
        BY <1>2, <2>3, OneStep
      <3>2. InTurn(q) /\ Own(q)
        BY DEF ParserInv
      <3>3. Own(q)'
        BY <3>1, <3>2, Zenon DEF Own
      <3>4. pc[q] \notin {"setlen", "settext", "toc", "lines"}
        BY <3>1 DEF Steps
      <3>5. InTurn(q)'
        BY <3>1, <3>2, <3>4 DEF InTurn
      <3> QED
        BY <3>3, <3>5
    <2> QED
      BY <1>2, <2>2, <2>3, OwnStep
  <1>3. CASE UNCHANGED vars
    BY <1>1, <1>3 DEF ParserInv, OneAtATime, InTurn, Own, vars
  <1> QED
    BY <1>1, <1>2, <1>3 DEF Next, ParserInv

\* As long as one request is served at a time, what other requests left in the one
\* parser of the pipeline does not show (domain/code.go:29-34; the
\* run code_shared shows what happens to requests side by side).
THEOREM SerialOwnLanguage == ASSUME ~Concurrent PROVE Spec => []OwnLanguage
  <1>1. ParserInv => OwnLanguage
    BY DEF ParserInv, Own, OwnLanguage
  <1>2. ParserInv /\ [Next]_vars => ParserInv'
    BY ParserStepInv
  <1> QED
    BY <1>1, <1>2, ParserInit, PTL DEF Spec

-----------------------------------------------------------------------------
(* Markdown: the headings and their tree.                                  *)

\* h lists the lines of the headings among the first n lines, which are the tree's.
Reads(h, n) ==
  /\ \A k \in DOMAIN tree : /\ h[k] \in 1..n /\ Heading(h[k])
                            /\ doc[h[k]].level = tree[k].level /\ doc[h[k]].title = tree[k].title
  /\ \A j, k \in DOMAIN tree : j < k => h[j] < h[k]
  /\ \A i \in 1..n : Heading(i) => \E k \in DOMAIN tree : h[k] = i

\* How far the document is read, and how many headings are found in it again.
ReadUpTo == IF stage = "toc" THEN at - 1 ELSE Len(doc)
Located  == IF stage \in {"toc", "flatten"} THEN 0
            ELSE IF stage = "locate" THEN sec - 1 ELSE Len(tree)

\* The lines found again are those the headings were read from.
HeadingsRead == \E h \in [DOMAIN tree -> DOMAIN doc] :
  Reads(h, ReadUpTo) /\ \A k \in DOMAIN flat : k <= Located => flat[k].line = h[k]

\* A heading's parent comes before it, and before it or the parent of what is between.
TreeShape == \A k \in DOMAIN tree :
  /\ tree[k].parent < k
  /\ \A j \in DOMAIN tree : tree[k].parent < j /\ j < k => tree[j].parent >= tree[k].parent

\* The stack goes from the roots to the last heading, and nothing after a node of
\* it hangs on a node before.
StackShape == /\ stack[1] = 0 /\ stack[Len(stack)] = Len(tree)
              /\ \A m \in DOMAIN stack : /\ stack[m] <= Len(tree)
                                         /\ \A l \in DOMAIN stack : l < m => stack[l] < stack[m]
              /\ \A m \in DOMAIN stack, j \in DOMAIN tree : j > stack[m] => tree[j].parent >= stack[m]

\* Of the nodes numbered after those visited, each hangs on one of the same kind or
\* on a node whose children are being visited, whose visited children are the others.
TrailShape ==
  /\ \A m \in DOMAIN trail : /\ trail[m].of <= Len(flat) /\ trail[m].seen <= Len(flat)
                             /\ \A l \in DOMAIN trail : l < m => trail[l].of < trail[m].of
                             /\ \A k \in Kids(trail[m].of) : k <= Len(flat) => k <= trail[m].seen
  /\ \A j \in DOMAIN tree : j > Len(flat) =>
       tree[j].parent > Len(flat) \/ \E m \in DOMAIN trail : tree[j].parent = trail[m].of

\* The nodes are visited in the order of their numbers.
InNodeOrder == /\ \A k \in DOMAIN flat : flat[k].node = k
               /\ stage = "toc" => flat = << >> /\ trail = << >>
               /\ stage = "flatten" => TrailShape /\ Len(flat) <= Len(tree)
               /\ stage \notin {"toc", "flatten"} => Len(flat) = Len(tree)

\* Where the search for the next heading begins.
SearchFrom == stage = "locate" =>
  /\ sec \in 1..(Len(flat) + 1)
  /\ at = IF sec = 1 THEN 1 ELSE flat[sec - 1].line + 1

-----------------------------------------------------------------------------
(* Markdown: the sections and their blocks.                                *)

Building == stage \in {"section", "scan", "code", "table", "ordered", "sections"}
Scanning == stage \in {"scan", "code", "table", "ordered"}

\* The first line of the section in hand, and the first line not yet looked at.
First == IF sec = 0 THEN 1 ELSE IF sec <= Len(flat) THEN flat[sec].line ELSE Len(doc) + 1
Reach == IF Scanning THEN at ELSE First

\* No chunk is made before the sections begin.
NothingYet == /\ ~Building => out = << >> /\ block = {}
              /\ stage \in {"toc", "flatten"} => sec = 0
              /\ ~Scanning => prose = {} /\ derived = << >>
              /\ stage \notin {"code", "table", "ordered"} => block = {}

\* The scanner is in the section in hand, behind its heading.
InSection ==
  /\ Building => sec <= Len(flat) + 1 /\ (stage = "sections" => sec = Len(flat) + 1)
  /\ Scanning => /\ sec <= Len(flat) /\ First <= at /\ at <= Len(doc) + 1
                 /\ sec > 0 => First < at /\ First \in prose
                 /\ \A i \in 1..(at - 1) : First <= i /\ Heading(i) => i = First /\ sec > 0

\* The lines of the chunks made, of the section in hand and of its blocks.
LinesOnce ==
  /\ \A n \in DOMAIN out : \A i \in out[n].lines : i \in DOMAIN doc /\ i < First
  /\ \A m, n \in DOMAIN out : m # n => out[m].lines \cap out[n].lines = {}
  /\ \A i \in prose \cup block : First <= i /\ i < Reach
  /\ prose \cap block = {}
  /\ \A n \in DOMAIN derived : \A i \in derived[n].lines :
       /\ i \in DOMAIN doc /\ First <= i /\ i < Reach
       /\ i \notin prose /\ i \notin block
  /\ \A m, n \in DOMAIN derived : m # n => derived[m].lines \cap derived[n].lines = {}

TextKept == Building => \A i \in DOMAIN doc : i < Reach /\ ~Blank(i) =>
  \/ i \in prose \cup block
  \/ \E n \in DOMAIN derived : i \in derived[n].lines
  \/ \E n \in DOMAIN out : i \in out[n].lines

\* The first of the lines S stands above a separator that is also one of them.
Headed(S) == \E m \in S : Table(m) /\ m + 1 \in S /\ \A j \in S : m <= j

\* The lines of a table begin with its head.
TablesHeaded == /\ \A n \in DOMAIN out : out[n].type = "table" => Headed(out[n].lines)
                /\ \A n \in DOMAIN derived : derived[n].type = "table" => Headed(derived[n].lines)
                /\ stage = "table" => Headed(block)

\* A chunk's id is one its counter or its section has given out.
Given(c) == \/ c.id.of \in Types /\ c.id.n <= count[c.id.of]
            \/ c.id.of = "s" /\ c.id.n + 1 < sec
            \/ c.id.of = "root" /\ sec > 0

IdsOnce ==
  /\ \A n \in DOMAIN out : Given(out[n])
  /\ \A m, n \in DOMAIN out : m # n => out[m].id # out[n].id
  /\ \A n \in DOMAIN out : out[n].parent # NoId => \E m \in 1..(n - 1) : out[m].id = out[n].parent
  /\ \A n \in DOMAIN derived : /\ derived[n].id.of \in Types
                               /\ derived[n].id.n <= count[derived[n].id.of]
                               /\ derived[n].parent = Main.id
                               /\ \A m \in DOMAIN out : out[m].id # derived[n].id
  /\ \A m, n \in DOMAIN derived : m # n => derived[m].id # derived[n].id

\* The sections behind have their chunks.
SectionsMade == Building => \A k \in DOMAIN flat : k < sec =>
  \E n \in DOMAIN out : out[n].id = Id("s", k - 1) /\ flat[k].line \in out[n].lines

WikiInv == /\ WikiTypeOK /\ at <= Len(doc) + 1
           /\ HeadingsRead /\ TreeShape /\ StackShape /\ InNodeOrder /\ SearchFrom
           /\ NothingYet /\ InSection /\ LinesOnce /\ TextKept /\ TablesHeaded
           /\ IdsOnce /\ SectionsMade

-----------------------------------------------------------------------------
\* A bounded set of naturals that is not empty has a greatest element.
LEMMA GreatestExists ==
  ASSUME NEW S, S \subseteq Nat, S # {}, NEW n \in Nat, \A i \in S : i <= n
  PROVE  \E i \in S : \A j \in S : j <= i
<1> DEFINE T == {m \in Nat : \E i \in S : m = n - i}
<1>1. T \subseteq Nat /\ T # {}
  <2>1. PICK i \in S : TRUE
    OBVIOUS
  <2>2. n - i \in T
    BY <2>1
  <2> QED
    BY <2>2
<1>2. Least(T) \in T /\ \A m \in T : Least(T) <= m
  <2> HIDE DEF T
  <2> QED
    BY <1>1, LeastIsLeast
<1>3. PICK i \in S : Least(T) = n - i
  BY <1>2
<1>4. \A j \in S : n - j \in T
  OBVIOUS
<1>5. \A j \in S : j <= i
  <2> SUFFICES ASSUME NEW j \in S PROVE j <= i
    OBVIOUS
  <2>1. n - i <= n - j
    BY <1>2, <1>3, <1>4
  <2> QED
    BY <2>1
<1> QED
  BY <1>5

\* The parts of the typed sequences.
LEMMA NodeTypes ==
  ASSUME WikiTypeOK
  PROVE  /\ Len(tree) \in Nat /\ DOMAIN tree = 1..Len(tree) /\ Len(flat) \in Nat
         /\ DOMAIN flat = 1..Len(flat) /\ Len(trail) \in Nat /\ DOMAIN trail = 1..Len(trail)
         /\ \A k \in DOMAIN tree : tree[k].parent \in Nat
         /\ \A k \in DOMAIN flat : flat[k].node \in Nat /\ flat[k].line \in Nat
         /\ \A m \in DOMAIN trail : trail[m].of \in Nat /\ trail[m].seen \in Nat
<1> DEFINE Node == [level : 0..6, title : STRING, parent : Nat]
           Item == [node : Nat, line : Nat, path : Seq(Nat)]
           Frame == [of : Nat, seen : Nat]
<1>1. tree \in Seq(Node) /\ flat \in Seq(Item) /\ trail \in Seq(Frame)
  BY DEF WikiTypeOK
<1>2. /\ \A x \in Node : x.parent \in Nat
      /\ \A x \in Item : x.node \in Nat /\ x.line \in Nat
      /\ \A x \in Frame : x.of \in Nat /\ x.seen \in Nat
  OBVIOUS
<1> HIDE DEF Node, Item, Frame
<1>3. /\ \A k \in DOMAIN tree : tree[k] \in Node
      /\ \A k \in DOMAIN flat : flat[k] \in Item
      /\ \A k \in DOMAIN trail : trail[k] \in Frame
  BY <1>1
<1> QED
  BY <1>1, <1>2, <1>3

\* Popping the stack leaves a slice on it.
LEMMA KeptOnStack ==
  ASSUME stack \in Seq(Nat), stack # << >>
  PROVE  Kept \in 1..Len(stack)
<1> DEFINE S == {k \in 1..Len(stack) : Stops(k)}
<1>1. Len(stack) \in Nat \ {0}
  BY EmptySeq
<1>2. 1 \in S /\ S \subseteq Nat /\ \A k \in S : k <= Len(stack)
  BY <1>1 DEF Stops
<1>3. PICK k \in S : \A j \in S : j <= k
  <2> HIDE DEF S
  <2> QED
    BY <1>1, <1>2, GreatestExists
<1>4. k \in 1..Len(stack) /\ Stops(k) /\ \A j \in (k + 1)..Len(stack) : ~Stops(j)
  <2>1. ASSUME NEW j \in (k + 1)..Len(stack), Stops(j) PROVE FALSE
    <3>1. j \in S
      BY <2>1, <1>1
    <3>2. j <= k
      BY <3>1, <1>3
    <3> QED
      BY <3>2, <1>1
  <2> QED
    BY <2>1
<1> QED
  BY <1>4 DEF Kept

\* Reading a heading.
LEMMA HeadingRead ==
  ASSUME WikiInv, TocHeading
  PROVE  /\ HeadingsRead' /\ TreeShape' /\ StackShape'
         /\ tree' \in Seq([level : 0..6, title : STRING, parent : Nat])
         /\ stack' \in Seq(Nat) /\ stack' # << >>
<1> USE DEF WikiInv
<1> DEFINE N == Len(tree)
           p == stack[Kept]
           new == [level |-> doc[at].level, title |-> doc[at].title, parent |-> p]
           Node == [level : 0..6, title : STRING, parent : Nat]
<1>0. /\ tree \in Seq(Node) /\ stack \in Seq(Nat) /\ stack # << >> /\ doc \in Seq(Line)
      /\ at \in Nat \ {0} /\ at <= Len(doc) /\ Len(doc) \in Nat
      /\ flat = << >> /\ stage = "toc" /\ stage' = "toc" /\ UNCHANGED <<doc, flat, sec>>
      /\ tree' = Append(tree, new) /\ at' = at + 1
      /\ stack' = Append(SubSeq(stack, 1, Kept), N + 1) /\ Heading(at)
  BY DEF WikiTypeOK, TocHeading, InNodeOrder, secVars
<1>1. Kept \in 1..Len(stack) /\ Len(stack) \in Nat /\ p \in Nat /\ N \in Nat
  BY <1>0, KeptOnStack
<1>2. doc[at] \in Line
  BY <1>0
<1>3. new \in Node /\ new.parent = p /\ new.level = doc[at].level /\ new.title = doc[at].title
  BY <1>1, <1>2 DEF Line
<1> HIDE DEF new, Node
<1>4. /\ tree' \in Seq(Node) /\ Len(tree') = N + 1 /\ DOMAIN tree' = 1..(N + 1) /\ DOMAIN tree = 1..N
      /\ tree'[N + 1] = new
      /\ \A k \in 1..N : tree'[k] = tree[k]
  BY <1>0, <1>3
<1> DEFINE low == SubSeq(stack, 1, Kept)
<1>5. low \in Seq(Nat) /\ Len(low) = Kept /\ \A m \in 1..Kept : low[m] = stack[m]
  BY <1>0, <1>1
<1> HIDE DEF low
<1>6. /\ stack' \in Seq(Nat) /\ Len(stack') = Kept + 1 /\ DOMAIN stack' = 1..(Kept + 1)
      /\ stack'[Kept + 1] = N + 1
      /\ \A m \in 1..Kept : stack'[m] = stack[m]
  <2>1. stack' = Append(low, N + 1)
    BY <1>0 DEF low
  <2>2. N + 1 \in Nat /\ Kept \in Nat
    BY <1>1
  <2>3. /\ stack' \in Seq(Nat) /\ Len(stack') = Kept + 1 /\ DOMAIN stack' = 1..(Kept + 1)
        /\ stack'[Kept + 1] = N + 1
        /\ \A m \in 1..Kept : stack'[m] = low[m]
    BY <2>1, <2>2, <1>5
  <2> QED
    BY <2>3, <1>5
<1>7. HeadingsRead'
  <2>1. PICK h \in [DOMAIN tree -> DOMAIN doc] : Reads(h, at - 1)
    BY <1>0 DEF HeadingsRead, ReadUpTo
  <2>2. /\ \A k \in 1..N : /\ h[k] \in 1..(at - 1) /\ Heading(h[k])
                           /\ doc[h[k]].level = tree[k].level /\ doc[h[k]].title = tree[k].title
        /\ \A j, k \in 1..N : j < k => h[j] < h[k]
        /\ \A i \in 1..(at - 1) : Heading(i) => \E k \in 1..N : h[k] = i
    BY <2>1, <1>4 DEF Reads
  <2>3. PICK g \in [1..(N + 1) -> DOMAIN doc] :
          g = [k \in 1..(N + 1) |-> IF k = N + 1 THEN at ELSE h[k]]
    <3>1. \A k \in 1..(N + 1) : (IF k = N + 1 THEN at ELSE h[k]) \in DOMAIN doc
      <4>1. at \in DOMAIN doc /\ \A k \in 1..N : h[k] \in DOMAIN doc
        <5>1. at \in DOMAIN doc
          BY <1>0
        <5>2. \A k \in 1..N : h[k] \in DOMAIN doc
          BY <1>4, <2>1
        <5> QED
          BY <5>1, <5>2
      <4> QED
        BY <4>1, <1>1
    <3> QED
      BY <3>1
  <2>4. g[N + 1] = at /\ \A k \in 1..N : g[k] = h[k]
    BY <1>1, <2>3
  <2>5. \A i : Heading(i)' <=> Heading(i)
    BY <1>0 DEF Heading, Is
  <2>6. Reads(g, at - 1)'
    <3>1. ASSUME NEW k \in 1..(N + 1)
          PROVE  /\ g[k] \in 1..at /\ Heading(g[k])
                 /\ doc[g[k]].level = tree'[k].level /\ doc[g[k]].title = tree'[k].title
      <4>1. CASE k = N + 1
        BY <4>1, <2>4, <1>0, <1>3, <1>4
      <4>2. CASE k \in 1..N
        <5>1. g[k] = h[k] /\ tree'[k] = tree[k] /\ h[k] \in 1..(at - 1)
          BY <4>2, <2>2, <2>4, <1>4
        <5> QED
          BY <5>1, <4>2, <2>2, <1>0
      <4> QED
        BY <4>1, <4>2, <1>1
    <3>2. \A j, k \in 1..(N + 1) : j < k => g[j] < g[k]
      <4> SUFFICES ASSUME NEW j \in 1..(N + 1), NEW k \in 1..(N + 1), j < k PROVE g[j] < g[k]
        OBVIOUS
      <4>1. j \in 1..N /\ g[j] = h[j] /\ h[j] \in 1..(at - 1)
        BY <2>2, <2>4, <1>1
      <4>2. CASE k = N + 1
        BY <4>1, <4>2, <2>4, <1>0
      <4>3. CASE k \in 1..N
        BY <4>1, <4>3, <2>2, <2>4
      <4> QED
        BY <4>2, <4>3, <1>1
    <3>3. ASSUME NEW i \in 1..at, Heading(i) PROVE \E k \in 1..(N + 1) : g[k] = i
      <4>1. CASE i = at
        BY <4>1, <2>4, <1>1
      <4>2. CASE i \in 1..(at - 1)
        BY <4>2, <3>3, <2>2, <2>4, <1>1
      <4> QED
        BY <4>1, <4>2, <1>0
    <3>4. doc' = doc /\ DOMAIN tree' = 1..(N + 1) /\ at' - 1 = at
      BY <1>0, <1>4
    <3>5. /\ \A k \in DOMAIN tree' : /\ g[k] \in 1..at /\ Heading(g[k])'
                 /\ doc[g[k]].level = tree'[k].level /\ doc[g[k]].title = tree'[k].title
          /\ \A j, k \in DOMAIN tree' : j < k => g[j] < g[k]
      BY <3>1, <3>2, <3>4, <2>5
    <3>6. \A i \in 1..at : Heading(i)' => \E k \in DOMAIN tree' : g[k] = i
      BY <3>3, <3>4, <2>5
    <3> QED
      BY <3>4, <3>5, <3>6 DEF Reads
  <2>7. ReadUpTo' = at' - 1 /\ DOMAIN flat' = {} /\ g \in [DOMAIN tree' -> DOMAIN doc']
    BY <1>0, <1>4, <2>3 DEF ReadUpTo
  <2> QED
    BY <2>6, <2>7 DEF HeadingsRead
<1>8. /\ stack[1] = 0 /\ stack[Len(stack)] = N
      /\ \A m \in 1..Len(stack) : /\ stack[m] \in Nat /\ stack[m] <= N
                                  /\ \A l \in 1..Len(stack) : l < m => stack[l] < stack[m]
      /\ \A m \in 1..Len(stack), j \in 1..N : j > stack[m] => tree[j].parent >= stack[m]
  <2>1. DOMAIN stack = 1..Len(stack) /\ \A m \in 1..Len(stack) : stack[m] \in Nat
    BY <1>0
  <2> QED
    BY <2>1, <1>4 DEF StackShape
<1>9. p <= N
  BY <1>1, <1>8
<1>10. TreeShape'
  <2> SUFFICES ASSUME NEW k \in 1..(N + 1)
               PROVE  /\ tree'[k].parent < k
                      /\ \A j \in 1..(N + 1) : tree'[k].parent < j /\ j < k =>
                           tree'[j].parent >= tree'[k].parent
    BY <1>4 DEF TreeShape
  <2>1. CASE k \in 1..N
    <3>1. tree'[k] = tree[k] /\ \A j \in 1..N : tree'[j] = tree[j]
      BY <2>1, <1>4
    <3>2. /\ tree[k].parent < k
          /\ \A j \in 1..N : tree[k].parent < j /\ j < k => tree[j].parent >= tree[k].parent
      BY <2>1, <1>4 DEF TreeShape
    <3> QED
      BY <3>1, <3>2, <2>1, <1>1
  <2>2. CASE k = N + 1
    <3>1. tree'[k].parent = p
      BY <2>2, <1>3, <1>4
    <3>2. \A j \in 1..N : p < j => tree'[j].parent >= p
      BY <1>1, <1>4, <1>8
    <3>3. \A j \in 1..(N + 1) : j < k => j \in 1..N
      BY <2>2, <1>1
    <3> QED
      BY <3>1, <3>2, <3>3, <2>2, <1>1, <1>9
  <2> QED
    BY <2>1, <2>2, <1>1
<1>11. StackShape'
  <2>0. Kept \in Nat \ {0} /\ Kept <= Len(stack) /\ Len(tree') = N + 1
    BY <1>1, <1>4
  <2>1. stack'[1] = 0 /\ stack'[Len(stack')] = Len(tree')
    BY <1>1, <1>6, <1>8, <2>0
  <2>2. ASSUME NEW m \in 1..(Kept + 1)
        PROVE  stack'[m] <= N + 1 /\ \A l \in 1..(Kept + 1) : l < m => stack'[l] < stack'[m]
    <3>0. \A l \in 1..(Kept + 1) : l < m => l \in 1..Kept /\ l \in 1..Len(stack) /\ stack'[l] = stack[l]
      BY <2>0, <1>1, <1>6
    <3>1. CASE m \in 1..Kept
      <4>1. stack'[m] = stack[m] /\ m \in 1..Len(stack)
        BY <3>1, <1>1, <1>6, <2>0
      <4> QED
        BY <4>1, <3>0, <1>8, <1>1
    <3>2. CASE m = Kept + 1
      <4>1. stack'[m] = N + 1
        BY <3>2, <1>6
      <4>2. \A l \in 1..Len(stack) : stack[l] \in Nat /\ stack[l] <= N
        BY <1>8
      <4> QED
        BY <4>1, <4>2, <3>0, <1>1
    <3> QED
      BY <3>1, <3>2, <2>0
  <2>3. ASSUME NEW m \in 1..(Kept + 1), NEW j \in 1..(N + 1), j > stack'[m]
        PROVE  tree'[j].parent >= stack'[m]
    <3>1. m \in 1..Kept
      BY <2>0, <2>3, <1>1, <1>6
    <3>2. stack'[m] = stack[m] /\ m \in 1..Len(stack)
      BY <3>1, <2>0, <1>1, <1>6
    <3>3. CASE j \in 1..N
      BY <2>3, <3>2, <3>3, <1>4, <1>8
    <3>4. CASE j = N + 1
      <4>1. tree'[j].parent = p
        BY <3>4, <1>3, <1>4
      <4>2. stack[m] <= p
        BY <3>1, <2>0, <1>1, <1>8
      <4> QED
        BY <4>1, <4>2, <3>2
    <3> QED
      BY <3>3, <3>4, <1>1
  <2> QED
    BY <2>0, <2>1, <2>2, <2>3, <1>4, <1>6 DEF StackShape
<1>12. tree' \in Seq([level : 0..6, title : STRING, parent : Nat])
  BY <1>4 DEF Node
<1>13. stack' # << >>
  BY <1>1, <1>6
<1> QED
  BY <1>6, <1>7, <1>10, <1>11, <1>12, <1>13

\* Reading on over lines that are no headings.
LEMMA ReadOn ==
  ASSUME UNCHANGED <<doc, tree>>, NEW h, NEW n \in Nat, NEW m \in Nat, Reads(h, n), n <= m,
         \A i \in (n + 1)..m : ~Heading(i), ReadUpTo' = m
  PROVE  Reads(h, ReadUpTo)'
<1>1. /\ \A k \in DOMAIN tree : /\ h[k] \in 1..m /\ Heading(h[k])
             /\ doc[h[k]].level = tree[k].level /\ doc[h[k]].title = tree[k].title
      /\ \A j, k \in DOMAIN tree : j < k => h[j] < h[k]
  BY DEF Reads
<1>2. \A i \in 1..m : i \in 1..n \/ i \in (n + 1)..m
  OBVIOUS
<1>3. \A i \in 1..m : Heading(i) => \E k \in DOMAIN tree : h[k] = i
  BY <1>2 DEF Reads
<1>4. \A i : Heading(i)' <=> Heading(i)
  BY DEF Heading, Is
<1>5. /\ \A k \in DOMAIN tree' : /\ h[k] \in 1..ReadUpTo' /\ Heading(h[k])'
             /\ doc'[h[k]].level = tree'[k].level /\ doc'[h[k]].title = tree'[k].title
      /\ \A j, k \in DOMAIN tree' : j < k => h[j] < h[k]
  BY <1>1, <1>4
<1>6. \A i \in 1..ReadUpTo' : Heading(i)' => \E k \in DOMAIN tree' : h[k] = i
  BY <1>3, <1>4
<1> QED
  BY <1>5, <1>6 DEF Reads

\* A line that is no heading, and the steps from one loop to the next.
LEMMA StagesKeepTree ==
  ASSUME WikiInv, TocLine \/ TocEnd \/ FlattenEnds \/ LocateEnds
  PROVE  HeadingsRead' /\ TreeShape' /\ StackShape' /\ InNodeOrder' /\ SearchFrom'
<1> USE DEF WikiInv
<1>0. /\ at \in Nat \ {0} /\ Len(doc) \in Nat
      /\ DOMAIN flat = 1..Len(flat) /\ Len(flat) \in Nat /\ DOMAIN tree = 1..Len(tree)
      /\ Len(tree) \in Nat /\ at <= Len(doc) + 1
  BY DEF WikiTypeOK
<1>1. UNCHANGED <<doc, tree, stack, flat>>
  BY DEF TocLine, TocEnd, FlattenEnds, LocateEnds, tocVars, secVars
<1>2. TreeShape' /\ StackShape'
  BY <1>1 DEF TreeShape, StackShape
<1>3. PICK h \in [DOMAIN tree -> DOMAIN doc] :
        Reads(h, ReadUpTo) /\ \A k \in DOMAIN flat : k <= Located => flat[k].line = h[k]
  BY DEF HeadingsRead
<1>4. ASSUME Reads(h, ReadUpTo)', \A k \in DOMAIN flat : k <= Located' => flat[k].line = h[k]
      PROVE  HeadingsRead'
  BY <1>1, <1>4 DEF HeadingsRead
<1>5. CASE TocLine
  <2>1. stage = "toc" /\ stage' = "toc" /\ at' = at + 1 /\ at <= Len(doc) /\ ~Heading(at) /\ trail' = trail
    BY <1>5 DEF TocLine, tocVars
  <2>2. Reads(h, at - 1) /\ ReadUpTo' = at
    BY <1>0, <1>3, <2>1 DEF ReadUpTo
  <2>3. Reads(h, ReadUpTo)'
    <3>1. \A i \in ((at - 1) + 1)..at : ~Heading(i)
      BY <1>0, <2>1
    <3> QED
      BY <1>0, <1>1, <2>2, <3>1, ReadOn
  <2>4. flat = << >>
    BY <2>1 DEF InNodeOrder
  <2> QED
    BY <1>1, <1>2, <1>4, <2>1, <2>3, <2>4 DEF InNodeOrder, SearchFrom
<1>6. CASE TocEnd
  <2>1. /\ stage = "toc" /\ stage' = "flatten" /\ at' = at /\ at > Len(doc)
        /\ trail' = <<[of |-> 0, seen |-> 0]>>
    BY <1>6 DEF TocEnd
  <2>2. Reads(h, Len(doc)) /\ ReadUpTo' = Len(doc)
    <3>1. ReadUpTo = Len(doc)
      BY <1>0, <2>1 DEF ReadUpTo
    <3> QED
      BY <1>1, <1>3, <2>1, <3>1 DEF ReadUpTo
  <2>3. Reads(h, ReadUpTo)'
    BY <1>0, <1>1, <2>2, ReadOn
  <2>4. flat = << >>
    BY <2>1 DEF InNodeOrder
  <2>5. DOMAIN trail' = {1} /\ trail'[1].of = 0 /\ trail'[1].seen = 0
    BY <2>1
  <2>6. TrailShape'
    <3>1. \A j \in DOMAIN tree : tree[j].parent \in Nat
      BY NodeTypes
    <3>2. DOMAIN flat = {} /\ Len(flat) = 0 /\ Len(flat') = 0
      BY <1>1, <2>4
    <3>3. \A j \in DOMAIN tree' : tree'[j].parent > Len(flat') \/ tree'[j].parent = 0
      BY <1>1, <3>1, <3>2
    <3>4. \A k \in Kids(0)' : k > 0
      BY <1>0, <1>1 DEF Kids
    <3> QED
      BY <2>5, <3>2, <3>3, <3>4 DEF TrailShape
  <2> QED
    BY <1>0, <1>1, <1>2, <1>4, <2>1, <2>3, <2>4, <2>6 DEF InNodeOrder, SearchFrom
<1>7. CASE FlattenEnds
  <2>1. stage = "flatten" /\ stage' = "locate" /\ at' = 1 /\ sec' = 1 /\ trail = << >> /\ trail' = trail
    BY <1>7 DEF FlattenEnds, tocVars
  <2>2. Reads(h, ReadUpTo)'
    <3>1. ReadUpTo = Len(doc) /\ ReadUpTo' = Len(doc)
      BY <1>1, <2>1 DEF ReadUpTo
    <3> QED
      BY <1>0, <1>1, <1>3, <3>1, ReadOn
  <2>3. Located' = 0
    BY <2>1 DEF Located
  <2>4. Len(flat) = Len(tree)
    <3>1. TrailShape /\ Len(flat) <= Len(tree)
      BY <2>1 DEF InNodeOrder
    <3>0. Len(flat) \in Nat /\ Len(tree) \in Nat
      BY <1>0
    <3>2. CASE Len(flat) < Len(tree)
      <4>1. Len(flat) + 1 \in DOMAIN tree
        BY <1>0, <3>2
      <4>2. tree[Len(flat) + 1].parent > Len(flat)
        BY <1>0, <2>1, <3>1, <4>1 DEF TrailShape
      <4>3. tree[Len(flat) + 1].parent < Len(flat) + 1
        BY <4>1 DEF TreeShape
      <4>4. tree[Len(flat) + 1].parent \in Nat
        BY <4>1, NodeTypes
      <4> QED
        BY <3>0, <4>2, <4>3, <4>4
    <3>3. Len(flat) <= Len(tree)
      BY <3>1
    <3> QED
      BY <3>0, <3>2, <3>3
  <2>5. HeadingsRead'
    BY <1>0, <1>4, <2>2, <2>3
  <2>6. InNodeOrder' /\ SearchFrom'
    BY <1>0, <1>1, <2>1, <2>4 DEF InNodeOrder, SearchFrom
  <2> QED
    BY <1>2, <2>5, <2>6
<1>8. CASE LocateEnds
  <2>1. stage = "locate" /\ stage' = "section" /\ trail' = trail /\ sec > Len(flat)
    BY <1>8 DEF LocateEnds, tocVars
  <2>2. Reads(h, ReadUpTo)'
    <3>1. ReadUpTo = Len(doc) /\ ReadUpTo' = Len(doc)
      BY <1>1, <2>1 DEF ReadUpTo
    <3> QED
      BY <1>0, <1>1, <1>3, <3>1, ReadOn
  <2>3. Len(flat) = Len(tree)
    BY <2>1 DEF InNodeOrder
  <2>4. \A k \in DOMAIN flat : flat[k].line = h[k]
    BY <1>0, <1>3, <2>1, <2>3 DEF Located, WikiTypeOK
  <2>5. HeadingsRead'
    BY <1>4, <2>2, <2>4
  <2>6. InNodeOrder' /\ SearchFrom'
    BY <1>1, <2>1, <2>3 DEF InNodeOrder, SearchFrom
  <2> QED
    BY <1>2, <2>5, <2>6
<1> QED
  BY <1>5, <1>6, <1>7, <1>8

\* Visiting the next heading: it is the one numbered after those visited.
LEMMA NodeVisited ==
  ASSUME WikiInv, Visit
  PROVE  /\ HeadingsRead' /\ TreeShape' /\ StackShape' /\ InNodeOrder' /\ SearchFrom'
         /\ flat' \in Seq([node : Nat, line : Nat, path : Seq(Nat)])
         /\ trail' \in Seq([of : Nat, seen : Nat])
<1> USE DEF WikiInv
<1> DEFINE Item == [node : Nat, line : Nat, path : Seq(Nat)]
           Frame == [of : Nat, seen : Nat]
<1>0. /\ stage = "flatten" /\ stage' = "flatten" /\ trail # << >> /\ Unvisited # {}
      /\ UNCHANGED <<doc, tree, stack, at, sec>>
      /\ flat \in Seq(Item) /\ trail \in Seq(Frame)
  BY DEF Visit, secVars, WikiTypeOK
<1>1. PICK L : L = Len(trail)
  OBVIOUS
<1>2. PICK n : n = Len(flat)
  OBVIOUS
<1>3. PICK k : k = Least(Unvisited)
  OBVIOUS
<1>4. PICK o : o = trail[L].of
  OBVIOUS
<1>5. L \in Nat \ {0} /\ n \in Nat /\ DOMAIN trail = 1..L /\ DOMAIN flat = 1..n
  BY <1>0, <1>1, <1>2, EmptySeq
<1>6. /\ \A j \in DOMAIN tree : tree[j].parent \in Nat
      /\ \A m \in 1..L : trail[m].of \in Nat /\ trail[m].seen \in Nat
      /\ DOMAIN tree = 1..Len(tree) /\ Len(tree) \in Nat
  BY <1>1, NodeTypes
<1>7. /\ \A m \in 1..L : /\ trail[m].of <= n /\ trail[m].seen <= n
                         /\ \A l \in 1..L : l < m => trail[l].of < trail[m].of
                         /\ \A j \in Kids(trail[m].of) : j <= n => j <= trail[m].seen
      /\ \A j \in DOMAIN tree : j > n => tree[j].parent > n \/ \E m \in 1..L : tree[j].parent = trail[m].of
      /\ n <= Len(tree)
      /\ \A j \in 1..n : flat[j].node = j
  BY <1>0, <1>1, <1>2, <1>5 DEF InNodeOrder, TrailShape
<1>8. /\ k \in Unvisited /\ \A j \in Unvisited : k <= j
  <2>1. Unvisited \subseteq Nat
    BY <1>6 DEF Unvisited, Kids
  <2> QED
    BY <1>0, <1>3, <2>1, LeastIsLeast
<1>9. /\ k \in DOMAIN tree /\ tree[k].parent = o /\ k > trail[L].seen /\ k \in Nat
      /\ \A j \in DOMAIN tree : tree[j].parent = o /\ j > trail[L].seen => k <= j
  BY <1>1, <1>4, <1>6, <1>8 DEF Unvisited, Kids, Innermost
<1>10. k > n
  <2>1. k \in Kids(trail[L].of)
    BY <1>4, <1>9 DEF Kids
  <2> QED
    BY <2>1, <1>5, <1>6, <1>7, <1>9
<1>11. k = n + 1
  <2>1. CASE k > n + 1
    <3>1. n + 1 \in DOMAIN tree
      BY <2>1, <1>5, <1>6, <1>9
    <3>2. tree[n + 1].parent \in Nat /\ tree[n + 1].parent < n + 1
      BY <3>1, <1>6 DEF TreeShape
    <3>3. PICK m \in 1..L : tree[n + 1].parent = trail[m].of
      <4>1. ~(tree[n + 1].parent > n)
        BY <3>2, <1>5
      <4>2. n + 1 > n
        BY <1>5
      <4> QED
        BY <3>1, <4>1, <4>2, <1>7
    <3>4. o < n + 1 /\ o \in Nat
      BY <1>4, <1>5, <1>6, <1>7
    <3>5. tree[n + 1].parent >= o
      BY <2>1, <3>1, <3>4, <1>9 DEF TreeShape
    <3>6. trail[m].of <= o
      BY <1>4, <1>5, <1>6, <1>7
    <3>7. tree[n + 1].parent = o
      BY <3>2, <3>3, <3>4, <3>5, <3>6
    <3>8. n + 1 > trail[L].seen
      BY <1>5, <1>6, <1>7
    <3> QED
      BY <2>1, <3>1, <3>7, <3>8, <1>5, <1>9
  <2> QED
    BY <2>1, <1>5, <1>9, <1>10
<1>12. PICK seen1 : seen1 = [trail EXCEPT ![L].seen = k]
  OBVIOUS
<1>13. PICK item : item = [node |-> k, line |-> 0, path |-> [i \in DOMAIN trail |-> seen1[i].seen]]
  OBVIOUS
<1>14. PICK frame : frame = [of |-> k, seen |-> 0]
  OBVIOUS
<1>15. flat' = Append(flat, item) /\ trail' = Append(seen1, frame)
  BY <1>1, <1>3, <1>12, <1>13, <1>14 DEF Visit
<1>16. /\ seen1 \in Seq(Frame) /\ Len(seen1) = L
       /\ \A m \in 1..L : /\ seen1[m].of = trail[m].of
                          /\ m # L => seen1[m].seen = trail[m].seen
       /\ seen1[L].seen = k
  <2>0. \A x \in Frame : [x EXCEPT !.seen = k] \in Frame /\ [x EXCEPT !.seen = k].of = x.of
                          /\ [x EXCEPT !.seen = k].seen = k
    BY <1>9
  <2> HIDE DEF Frame
  <2>1. L \in 1..L /\ trail[L] \in Frame
    BY <1>0, <1>1, <1>5
  <2>2. PICK f : f = [trail[L] EXCEPT !.seen = k]
    OBVIOUS
  <2>3. f \in Frame /\ f.of = trail[L].of /\ f.seen = k
    BY <2>0, <2>1, <2>2
  <2>4. seen1 = [trail EXCEPT ![L] = f]
    BY <1>12, <2>2
  <2>5. seen1 \in Seq(Frame) /\ Len(seen1) = L
    BY <1>0, <1>1, <2>1, <2>3, <2>4, ExceptSeq
  <2>6. \A m \in 1..L : seen1[m] = IF m = L THEN f ELSE trail[m]
    BY <1>5, <2>4
  <2> QED
    BY <2>1, <2>3, <2>5, <2>6
<1>17. item \in Item /\ item.node = n + 1 /\ item.line = 0
  <2>1. \A i \in 1..L : seen1[i].seen \in Nat
    BY <1>5, <1>6, <1>9, <1>16
  <2>2. [i \in 1..L |-> seen1[i].seen] \in Seq(Nat)
    BY <1>5, <2>1
  <2>3. [i \in DOMAIN trail |-> seen1[i].seen] \in Seq(Nat)
    BY <1>5, <2>2
  <2> QED
    BY <1>9, <1>11, <1>13, <2>3
<1>18. frame \in Frame /\ frame.of = n + 1 /\ frame.seen = 0
  BY <1>9, <1>11, <1>14
<1> HIDE DEF Item, Frame
<1>19. /\ flat' \in Seq(Item) /\ Len(flat') = n + 1 /\ DOMAIN flat' = 1..(n + 1)
       /\ flat'[n + 1] = item /\ \A j \in 1..n : flat'[j] = flat[j]
  BY <1>0, <1>2, <1>15, <1>17
<1>20. /\ trail' \in Seq(Frame) /\ DOMAIN trail' = 1..(L + 1)
       /\ trail'[L + 1] = frame /\ \A m \in 1..L : trail'[m] = seen1[m]
  BY <1>15, <1>16, <1>18
<1>21. TreeShape' /\ StackShape'
  BY <1>0 DEF TreeShape, StackShape
<1>22. HeadingsRead'
  <2>1. PICK h \in [DOMAIN tree -> DOMAIN doc] : Reads(h, ReadUpTo)
    BY DEF HeadingsRead
  <2>2. ReadUpTo = Len(doc) /\ ReadUpTo' = Len(doc) /\ Located' = 0 /\ Len(doc) \in Nat
    BY <1>0 DEF ReadUpTo, Located, WikiTypeOK
  <2>3. Reads(h, ReadUpTo)'
    BY <1>0, <2>1, <2>2, ReadOn
  <2>4. \A j \in DOMAIN flat' : ~(j <= Located')
    BY <1>19, <2>2
  <2> QED
    BY <1>0, <2>3, <2>4 DEF HeadingsRead
<1>23. \A j \in DOMAIN flat' : flat'[j].node = j
  BY <1>5, <1>7, <1>17, <1>19
<1>25. ASSUME NEW m \in 1..(L + 1)
       PROVE  /\ trail'[m].of <= n + 1 /\ trail'[m].seen <= n + 1
              /\ \A l \in 1..(L + 1) : l < m => trail'[l].of < trail'[m].of
              /\ \A j \in Kids(trail'[m].of) : j <= n + 1 => j <= trail'[m].seen
  <2>0. \A l \in 1..(L + 1) : l < m => l \in 1..L /\ trail'[l].of = trail[l].of
    BY <1>5, <1>16, <1>20
  <2>1. CASE m = L + 1
    <3>1. trail'[m].of = n + 1 /\ trail'[m].seen = 0
      BY <2>1, <1>18, <1>20
    <3>2. \A l \in 1..L : trail[l].of < n + 1
      <4>1. \A l \in 1..L : trail[l].of \in Nat /\ trail[l].of <= n
        BY <1>6, <1>7
      <4> QED
        BY <4>1, <1>5
    <3>3. \A j \in Kids(n + 1) : j > n + 1
      BY <1>5, <1>6 DEF Kids, TreeShape
    <3>4. Kids(n + 1) \subseteq Nat
      BY <1>6 DEF Kids
    <3> QED
      BY <2>0, <3>1, <3>2, <3>3, <3>4, <1>5
  <2>2. CASE m \in 1..L
    <3>1. trail'[m].of = trail[m].of /\ trail[m].of \in Nat
      BY <2>2, <1>6, <1>16, <1>20
    <3>2. trail'[m].of <= n + 1
      BY <2>2, <3>1, <1>5, <1>7
    <3>3. \A l \in 1..(L + 1) : l < m => trail'[l].of < trail'[m].of
      BY <2>0, <2>2, <3>1, <1>7
    <3>4. Kids(trail[m].of) \subseteq Nat
      BY <1>6 DEF Kids
    <3>5. CASE m = L
      <4>1. trail'[m].seen = n + 1
        BY <2>2, <3>5, <1>11, <1>16, <1>20
      <4> QED
        BY <3>1, <3>2, <3>3, <4>1, <1>5
    <3>6. CASE m # L
      <4>1. trail'[m].seen = trail[m].seen /\ trail[m].seen \in Nat
        BY <2>2, <3>6, <1>6, <1>16, <1>20
      <4>2. trail[m].of < o
        BY <2>2, <3>6, <1>4, <1>5, <1>7
      <4>3. n + 1 \notin Kids(trail[m].of)
        BY <4>2, <3>1, <1>9, <1>11 DEF Kids
      <4>4. \A j \in Kids(trail[m].of) : j <= n + 1 => j <= n
        BY <4>3, <3>4, <1>5
      <4>5. \A j \in Kids(trail[m].of) : j <= n + 1 => j <= trail[m].seen
        BY <4>4, <2>2, <1>7
      <4>6. trail[m].seen <= n
        BY <2>2, <1>7
      <4> QED
        BY <3>1, <3>2, <3>3, <4>1, <4>5, <4>6, <1>5
    <3> QED
      BY <3>5, <3>6
  <2> QED
    BY <2>1, <2>2, <1>5
<1>26. ASSUME NEW j \in DOMAIN tree, j > n + 1
       PROVE  tree[j].parent > n + 1 \/ \E m \in 1..(L + 1) : tree[j].parent = trail'[m].of
  <2>1. tree[j].parent > n \/ \E m \in 1..L : tree[j].parent = trail[m].of
    BY <1>26, <1>5, <1>6, <1>7
  <2>2. tree[j].parent \in Nat
    BY <1>6
  <2>3. CASE tree[j].parent > n
    <3>1. tree[j].parent = n + 1 \/ tree[j].parent > n + 1
      BY <2>2, <2>3, <1>5
    <3>2. trail'[L + 1].of = n + 1 /\ L + 1 \in 1..(L + 1)
      BY <1>5, <1>18, <1>20
    <3> QED
      BY <3>1, <3>2
  <2>4. CASE \E m \in 1..L : tree[j].parent = trail[m].of
    <3>1. PICK m \in 1..L : tree[j].parent = trail[m].of
      BY <2>4
    <3>2. trail'[m].of = trail[m].of /\ m \in 1..(L + 1)
      BY <1>5, <1>16, <1>20
    <3> QED
      BY <3>1, <3>2
  <2> QED
    BY <2>1, <2>3, <2>4
<1>27. TrailShape'
  <2>1. \A m \in 1..(L + 1) : \A j \in {k1 \in DOMAIN tree : tree[k1].parent = trail'[m].of} :
          j <= n + 1 => j <= trail'[m].seen
    BY <1>25 DEF Kids
  <2>2. DOMAIN tree' = DOMAIN tree /\ tree' = tree
    BY <1>0
  <2> QED
    BY <1>19, <1>20, <1>25, <1>26, <2>1, <2>2 DEF TrailShape, Kids
<1>28. Len(flat') <= Len(tree')
  BY <1>0, <1>6, <1>9, <1>11, <1>19
<1>29. InNodeOrder' /\ SearchFrom'
  BY <1>0, <1>23, <1>27, <1>28 DEF InNodeOrder, SearchFrom
<1> QED
  BY <1>19, <1>20, <1>21, <1>22, <1>29 DEF Item, Frame

\* Going back to the slice that holds the node.
LEMMA VisitLeft ==
  ASSUME WikiInv, VisitEnds
  PROVE  /\ HeadingsRead' /\ TreeShape' /\ StackShape' /\ InNodeOrder' /\ SearchFrom'
         /\ trail' \in Seq([of : Nat, seen : Nat])
<1> USE DEF WikiInv
<1> DEFINE Frame == [of : Nat, seen : Nat]
<1>0. /\ stage = "flatten" /\ stage' = "flatten" /\ trail # << >> /\ Unvisited = {}
      /\ UNCHANGED <<doc, tree, stack, at, sec, flat>>
      /\ trail \in Seq(Frame) /\ trail' = SubSeq(trail, 1, Len(trail) - 1)
      /\ TrailShape /\ Len(flat) <= Len(tree)
  BY DEF VisitEnds, secVars, WikiTypeOK, InNodeOrder
<1> HIDE DEF Frame
<1>1. PICK L : L = Len(trail)
  OBVIOUS
<1>2. L \in Nat \ {0} /\ DOMAIN trail = 1..L /\ L - 1 \in Nat
  BY <1>0, <1>1, EmptySeq
<1>3. /\ trail' \in Seq(Frame) /\ DOMAIN trail' = 1..(L - 1)
      /\ \A m \in 1..(L - 1) : trail'[m] = trail[m]
  BY <1>0, <1>1, <1>2
<1>4. Len(flat) \in Nat /\ DOMAIN tree \subseteq Nat
  BY NodeTypes
<1>5. trail[L].seen \in Nat /\ trail[L].seen <= Len(flat)
  BY <1>0, <1>2, NodeTypes DEF TrailShape
<1>6. ASSUME NEW j \in DOMAIN tree, j > Len(flat), ~(tree[j].parent > Len(flat))
      PROVE  \E m \in 1..(L - 1) : tree[j].parent = trail'[m].of
  <2>1. PICK m \in 1..L : tree[j].parent = trail[m].of
    BY <1>0, <1>2, <1>6 DEF TrailShape
  <2>2. m # L
    <3>1. CASE m = L
      <4>1. j \in Kids(trail[L].of) /\ j > trail[L].seen
        BY <1>4, <1>5, <1>6, <2>1, <3>1 DEF Kids
      <4> QED
        BY <4>1, <1>0, <1>1 DEF Unvisited, Innermost
    <3> QED
      BY <3>1
  <2> QED
    BY <2>1, <2>2, <1>2, <1>3
<1>7. \A m \in 1..(L - 1) : m \in 1..L
  BY <1>2
<1>8. TrailShape'
  <2>1. \A m \in 1..(L - 1) :
          /\ trail'[m].of <= Len(flat) /\ trail'[m].seen <= Len(flat)
          /\ \A l \in 1..(L - 1) : l < m => trail'[l].of < trail'[m].of
          /\ \A k \in Kids(trail'[m].of) : k <= Len(flat) => k <= trail'[m].seen
    BY <1>0, <1>2, <1>3, <1>7 DEF TrailShape
  <2>2. \A j \in DOMAIN tree : j > Len(flat) =>
          tree[j].parent > Len(flat) \/ \E m \in 1..(L - 1) : tree[j].parent = trail'[m].of
    BY <1>6
  <2> QED
    BY <1>0, <1>3, <2>1, <2>2 DEF TrailShape, Kids
<1>9. TreeShape' /\ StackShape' /\ InNodeOrder' /\ SearchFrom'
  BY <1>0, <1>8 DEF TreeShape, StackShape, InNodeOrder, SearchFrom
<1>10. HeadingsRead'
  <2>1. PICK h \in [DOMAIN tree -> DOMAIN doc] : Reads(h, ReadUpTo)
    BY DEF HeadingsRead
  <2>2. ReadUpTo = Len(doc) /\ ReadUpTo' = Len(doc) /\ Located' = 0 /\ Len(doc) \in Nat
    BY <1>0 DEF ReadUpTo, Located, WikiTypeOK
  <2>3. Reads(h, ReadUpTo)'
    BY <1>0, <2>1, <2>2, ReadOn
  <2>4. \A j \in DOMAIN flat' : ~(j <= Located')
    BY <1>0, <2>2, NodeTypes
  <2> QED
    BY <1>0, <2>3, <2>4 DEF HeadingsRead
<1> QED
  BY <1>3, <1>9, <1>10 DEF Frame

\* Looking a heading up again finds the line it was read from.
LEMMA HeadingFound ==
  ASSUME WikiInv, Locate
  PROVE  /\ HeadingsRead' /\ TreeShape' /\ StackShape' /\ InNodeOrder' /\ SearchFrom'
         /\ flat' \in Seq([node : Nat, line : Nat, path : Seq(Nat)])
         /\ at' \in Nat \ {0} /\ at' <= Len(doc) + 1 /\ sec' \in Nat
<1> USE DEF WikiInv
<1> DEFINE Item == [node : Nat, line : Nat, path : Seq(Nat)]
<1>0. /\ stage = "locate" /\ stage' = "locate" /\ sec <= Len(flat) /\ sec' = sec + 1
      /\ UNCHANGED <<doc, tree, stack, trail>>
      /\ sec \in Nat \ {0} /\ Len(flat) = Len(tree) /\ flat \in Seq(Item)
      /\ at = IF sec = 1 THEN 1 ELSE flat[sec - 1].line + 1
  BY DEF Locate, tocVars, WikiTypeOK, SearchFrom, InNodeOrder
<1>1. PICK h \in [DOMAIN tree -> DOMAIN doc] :
        Reads(h, ReadUpTo) /\ \A k \in DOMAIN flat : k <= Located => flat[k].line = h[k]
  BY DEF HeadingsRead
<1>2. /\ DOMAIN tree = 1..Len(tree) /\ Len(tree) \in Nat /\ DOMAIN flat = 1..Len(flat)
      /\ Len(doc) \in Nat /\ DOMAIN doc = 1..Len(doc) /\ at \in Nat \ {0}
  BY NodeTypes DEF WikiTypeOK
<1>3. sec \in DOMAIN tree /\ sec \in DOMAIN flat /\ ReadUpTo = Len(doc)
  BY <1>0, <1>2 DEF ReadUpTo
<1>4. /\ \A k \in DOMAIN tree : /\ h[k] \in 1..Len(doc) /\ Heading(h[k])
                                /\ doc[h[k]].level = tree[k].level /\ doc[h[k]].title = tree[k].title
      /\ \A j, k \in DOMAIN tree : j < k => h[j] < h[k]
      /\ \A i \in 1..Len(doc) : Heading(i) => \E k \in DOMAIN tree : h[k] = i
  BY <1>1, <1>3 DEF Reads
<1>5. \A k \in 1..(sec - 1) : k \in DOMAIN tree /\ flat[k].line = h[k]
  <2>1. Located = sec - 1
    BY <1>0 DEF Located
  <2>2. \A k \in 1..(sec - 1) : k \in DOMAIN tree /\ k \in DOMAIN flat /\ k <= sec - 1
    BY <1>0, <1>2
  <2>3. \A k \in DOMAIN flat : k <= sec - 1 => flat[k].line = h[k]
    BY <1>1, <2>1
  <2> QED
    BY <2>2, <2>3
<1>6. flat[sec].node = sec
  BY <1>3 DEF InNodeOrder
<1>7. at = IF sec = 1 THEN 1 ELSE h[sec - 1] + 1
  <2>1. sec # 1 => sec - 1 \in 1..(sec - 1)
    BY <1>0
  <2>2. sec # 1 => flat[sec - 1].line = h[sec - 1]
    BY <2>1, <1>5
  <2> QED
    BY <1>0, <2>2
<1>8. h[sec] \in at..Len(doc)
  <2>1. CASE sec = 1
    BY <2>1, <1>3, <1>4, <1>7
  <2>2. CASE sec # 1
    <3>1. sec - 1 \in DOMAIN tree /\ sec - 1 < sec
      BY <2>2, <1>0, <1>3, <1>5
    <3>2. h[sec - 1] < h[sec] /\ h[sec] \in 1..Len(doc) /\ h[sec - 1] \in 1..Len(doc)
      BY <3>1, <1>3, <1>4
    <3> QED
      BY <3>2, <2>2, <1>2, <1>7
  <2> QED
    BY <2>1, <2>2
<1>9. h[sec] \in Found(sec)
  BY <1>3, <1>4, <1>6, <1>8 DEF Found
<1>10. \A i \in Found(sec) : h[sec] <= i
  <2> SUFFICES ASSUME NEW i \in Found(sec) PROVE h[sec] <= i
    OBVIOUS
  <2>1. i \in at..Len(doc) /\ i \in 1..Len(doc) /\ Heading(i)
    BY <1>2 DEF Found
  <2>2. PICK k \in DOMAIN tree : h[k] = i
    BY <2>1, <1>4
  <2>3. CASE k < sec
    <3>1. k \in 1..(sec - 1) /\ sec # 1 /\ sec - 1 \in DOMAIN tree
      BY <2>3, <1>0, <1>2, <1>3
    <3>2. h[k] <= h[sec - 1]
      <4>1. k < sec - 1 \/ k = sec - 1
        <5>1. sec \in Nat /\ k \in Nat
          BY <1>0, <1>2
        <5> QED
          BY <5>1, <2>3
      <4>2. h[sec - 1] \in 1..Len(doc) /\ h[k] \in 1..Len(doc)
        BY <3>1, <1>4
      <4> QED
        BY <4>1, <4>2, <3>1, <1>4
    <3>3. h[sec - 1] \in Nat /\ h[k] \in Nat
      BY <3>1, <1>2, <1>4
    <3> QED
      BY <2>1, <2>2, <3>1, <3>2, <3>3, <1>7
  <2>4. CASE k >= sec
    <3>1. k = sec \/ sec < k
      BY <2>4, <1>0, <1>2
    <3>2. h[sec] \in Nat /\ h[k] \in Nat
      BY <1>2, <1>3, <1>4
    <3> QED
      BY <2>2, <3>1, <3>2, <1>3, <1>4
  <2> QED
    BY <2>3, <2>4, <1>0, <1>2
<1>11. Found(sec) # {} /\ Least(Found(sec)) = h[sec]
  <2>1. Found(sec) \subseteq Nat
    BY <1>2 DEF Found
  <2>2. Least(Found(sec)) \in Found(sec) /\ Least(Found(sec)) <= h[sec]
    BY <2>1, <1>9, LeastIsLeast
  <2>3. h[sec] <= Least(Found(sec))
    BY <2>2, <1>10
  <2>4. Least(Found(sec)) \in Nat /\ h[sec] \in Nat
    BY <2>1, <2>2, <1>9
  <2> QED
    BY <2>2, <2>3, <2>4, <1>9
<1>12. PICK l : l = h[sec]
  OBVIOUS
<1>13. l \in 1..Len(doc) /\ l \in Nat /\ l # 0
  BY <1>2, <1>3, <1>4, <1>12
<1>14. flat' = [flat EXCEPT ![sec].line = l] /\ at' = l + 1
  BY <1>11, <1>12, <1>13 DEF Locate
<1>15. /\ flat' \in Seq(Item) /\ DOMAIN flat' = DOMAIN flat /\ Len(flat') = Len(flat)
       /\ flat'[sec].line = l /\ flat'[sec].node = flat[sec].node
       /\ \A k \in DOMAIN flat : k # sec => flat'[k] = flat[k]
  <2>0. \A x \in Item : /\ [x EXCEPT !.line = l] \in Item /\ [x EXCEPT !.line = l].line = l
                        /\ [x EXCEPT !.line = l].node = x.node
    BY <1>13
  <2> HIDE DEF Item
  <2>1. flat[sec] \in Item
    BY <1>0, <1>3
  <2>2. PICK f : f = [flat[sec] EXCEPT !.line = l]
    OBVIOUS
  <2>3. f \in Item /\ f.line = l /\ f.node = flat[sec].node
    BY <2>0, <2>1, <2>2
  <2>4. flat' = [flat EXCEPT ![sec] = f]
    BY <1>14, <2>2
  <2>5. flat' \in Seq(Item) /\ Len(flat') = Len(flat) /\ DOMAIN flat' = DOMAIN flat
    BY <1>0, <1>2, <1>3, <2>3, <2>4, ExceptSeq
  <2>6. \A k \in DOMAIN flat : flat'[k] = IF k = sec THEN f ELSE flat[k]
    BY <2>4
  <2> QED
    BY <1>3, <2>3, <2>5, <2>6
<1>16. HeadingsRead'
  <2>1. ReadUpTo' = Len(doc) /\ Located' = sec
    BY <1>0 DEF ReadUpTo, Located
  <2>2. Reads(h, ReadUpTo)'
    <3>1. Reads(h, Len(doc)) /\ Len(doc) \in Nat /\ UNCHANGED <<doc, tree>>
      BY <1>0, <1>1, <1>2, <1>3
    <3> QED
      BY <2>1, <3>1, ReadOn
  <2>3. ASSUME NEW k \in DOMAIN flat, k <= sec PROVE flat'[k].line = h[k]
    <3>1. CASE k = sec
      BY <3>1, <1>12, <1>15
    <3>2. CASE k # sec
      <4>1. k \in 1..(sec - 1)
        BY <2>3, <3>2, <1>0, <1>2
      <4> QED
        BY <4>1, <3>2, <1>5, <1>15
    <3> QED
      BY <3>1, <3>2
  <2> QED
    BY <1>0, <1>1, <1>15, <2>1, <2>2, <2>3 DEF HeadingsRead
<1>17. InNodeOrder'
  <2>1. \A k \in DOMAIN flat' : flat'[k].node = k
    BY <1>15 DEF InNodeOrder
  <2> QED
    BY <2>1, <1>0, <1>15 DEF InNodeOrder
<1>18. SearchFrom'
  <2>1. sec \in Nat \ {0} /\ sec <= Len(flat) /\ Len(flat) \in Nat /\ sec' = sec + 1
    BY <1>0, <1>2
  <2>2. Len(flat') = Len(flat)
    BY <1>15
  <2>3. sec + 1 \in 1..(Len(flat) + 1) /\ sec + 1 # 1 /\ (sec + 1) - 1 = sec
    BY <2>1
  <2>4. sec' \in 1..(Len(flat) + 1) /\ sec' # 1 /\ sec' - 1 = sec /\ Len(flat') = Len(flat)
    BY <2>1, <2>2, <2>3
  <2>5. at' = flat'[sec' - 1].line + 1
    BY <2>4, <1>14, <1>15
  <2> QED
    BY <2>4, <2>5 DEF SearchFrom
<1>19. TreeShape' /\ StackShape'
  BY <1>0 DEF TreeShape, StackShape
<1>20. at' \in Nat \ {0} /\ at' <= Len(doc) + 1
  BY <1>2, <1>13, <1>14
<1>21. sec' \in Nat
  BY <1>0
<1> QED
  BY <1>15, <1>16, <1>17, <1>18, <1>19, <1>20, <1>21

-----------------------------------------------------------------------------
(* Markdown: the sections.                                                 *)

\* Until the sections begin there is nothing to say of chunks.
LEMMA NoChunksYet ==
  ASSUME WikiInv, WikiTypeOK', ~Building, UNCHANGED <<out, prose, block, derived>>,
         ~Building' \/ (stage' = "section" /\ sec' = 0),
         stage' \in {"toc", "flatten"} => sec' = 0
  PROVE  /\ NothingYet' /\ InSection' /\ LinesOnce' /\ TextKept' /\ TablesHeaded'
         /\ IdsOnce' /\ SectionsMade'
<1>1. /\ out' = << >> /\ prose' = {} /\ block' = {} /\ derived' = << >>
      /\ ~Scanning' /\ stage' # "sections" /\ stage' # "table"
      /\ stage' \notin {"code", "table", "ordered"}
  BY DEF WikiInv, NothingYet, Building, Scanning
<1>2. NothingYet'
  BY <1>1 DEF NothingYet
<1>3. InSection'
  <2>1. Len(flat') + 1 >= 0 \/ ~Building'
    BY <1>1 DEF WikiInv, InSection
  <2> QED
    BY <1>1 DEF InSection
<1>4. LinesOnce' /\ TablesHeaded' /\ IdsOnce'
  BY <1>1 DEF LinesOnce, TablesHeaded, Headed, IdsOnce
<1>5. TextKept'
  <2>1. Building' => First' = 1 /\ Reach' = 1
    BY <1>1 DEF First, Reach, Building
  <2>2. \A i \in DOMAIN doc' : i \in Nat \ {0}
    BY DEF WikiTypeOK
  <2>3. Building' => \A i \in DOMAIN doc' : ~(i < Reach')
    BY <2>1, <2>2
  <2> QED
    BY <2>3 DEF TextKept
<1>6. SectionsMade'
  <2>1. Building' => sec' = 0
    BY DEF Building
  <2>2. \A k \in DOMAIN flat' : k \in Nat \ {0}
    <3>1. flat' \in Seq([node : Nat, line : Nat, path : Seq(Nat)])
      BY DEF WikiTypeOK
    <3>2. \A S : flat' \in Seq(S) => \A k \in DOMAIN flat' : k \in Nat \ {0}
      OBVIOUS
    <3> QED
      BY <3>1, <3>2, Zenon
  <2> QED
    BY <2>1, <2>2 DEF SectionsMade
<1> QED
  BY <1>2, <1>3, <1>4, <1>5, <1>6

\* Where the sections begin.
LEMMA SectionLines ==
  ASSUME WikiInv, Building
  PROVE  /\ Len(doc) \in Nat /\ DOMAIN doc = 1..Len(doc)
         /\ Len(flat) \in Nat /\ DOMAIN flat = 1..Len(flat) /\ sec \in Nat
         /\ \A k \in 1..Len(flat) : flat[k].line \in 1..Len(doc) /\ Heading(flat[k].line)
         /\ \A j, k \in 1..Len(flat) : j < k => flat[j].line < flat[k].line
         /\ \A i \in 1..Len(doc) : Heading(i) => \E k \in 1..Len(flat) : flat[k].line = i
         /\ First \in 1..(Len(doc) + 1)
<1> USE DEF WikiInv
<1>1. stage \notin {"toc", "flatten", "locate"} /\ ReadUpTo = Len(doc) /\ Located = Len(tree)
  BY DEF Building, ReadUpTo, Located
<1>2. /\ Len(doc) \in Nat /\ DOMAIN doc = 1..Len(doc) /\ sec \in Nat
      /\ Len(flat) \in Nat /\ DOMAIN flat = 1..Len(flat) /\ DOMAIN tree = 1..Len(flat)
      /\ Len(tree) = Len(flat)
  BY <1>1, NodeTypes DEF WikiTypeOK, InNodeOrder
<1>3. PICK h \in [DOMAIN tree -> DOMAIN doc] :
        Reads(h, ReadUpTo) /\ \A k \in DOMAIN flat : k <= Located => flat[k].line = h[k]
  BY DEF HeadingsRead
<1>4. \A k \in 1..Len(flat) : flat[k].line = h[k]
  BY <1>1, <1>2, <1>3
<1>5. /\ \A k \in 1..Len(flat) : h[k] \in 1..Len(doc) /\ Heading(h[k])
      /\ \A j, k \in 1..Len(flat) : j < k => h[j] < h[k]
      /\ \A i \in 1..Len(doc) : Heading(i) => \E k \in 1..Len(flat) : h[k] = i
  BY <1>1, <1>2, <1>3 DEF Reads
<1>6. /\ \A k \in 1..Len(flat) : flat[k].line \in 1..Len(doc) /\ Heading(flat[k].line)
      /\ \A j, k \in 1..Len(flat) : j < k => flat[j].line < flat[k].line
      /\ \A i \in 1..Len(doc) : Heading(i) => \E k \in 1..Len(flat) : flat[k].line = i
  BY <1>4, <1>5
<1>7. First \in 1..(Len(doc) + 1)
  BY <1>2, <1>6 DEF First
<1> QED
  BY <1>2, <1>6, <1>7

\* As long as only the sections are worked at, what is said of the tree stays.
LEMMA TreeStays ==
  ASSUME WikiInv, Building, Building', UNCHANGED <<doc, tree, stack, trail, flat>>
  PROVE  HeadingsRead' /\ TreeShape' /\ StackShape' /\ InNodeOrder' /\ SearchFrom'
<1> USE DEF WikiInv
<1>1. /\ stage \notin {"toc", "flatten", "locate"} /\ stage' \notin {"toc", "flatten", "locate"}
      /\ ReadUpTo = Len(doc) /\ ReadUpTo' = Len(doc) /\ Located = Len(tree) /\ Located' = Len(tree)
  BY DEF Building, ReadUpTo, Located
<1>2. PICK h \in [DOMAIN tree -> DOMAIN doc] :
        Reads(h, ReadUpTo) /\ \A k \in DOMAIN flat : k <= Located => flat[k].line = h[k]
  BY DEF HeadingsRead
<1>3. Reads(h, ReadUpTo)'
  <2>1. Len(doc) \in Nat /\ Reads(h, Len(doc))
    BY <1>1, <1>2 DEF WikiTypeOK
  <2> QED
    BY <1>1, <2>1, ReadOn
<1>4. \A k \in DOMAIN flat' : k <= Located' => flat'[k].line = h[k]
  BY <1>1, <1>2
<1>5. HeadingsRead'
  BY <1>2, <1>3, <1>4 DEF HeadingsRead
<1> QED
  BY <1>1, <1>5 DEF TreeShape, StackShape, InNodeOrder, SearchFrom

\* The section in hand ends where the next one begins.
LEMMA NextSection ==
  ASSUME WikiInv, Scanning, ~Inside(at)
  PROVE  /\ sec + 1 <= Len(flat) => flat[sec + 1].line = at
         /\ sec + 1 > Len(flat) => at = Len(doc) + 1
<1> USE DEF WikiInv
<1>0. Building
  BY DEF Building, Scanning
<1>1. /\ Len(doc) \in Nat /\ Len(flat) \in Nat /\ sec \in Nat
      /\ \A k \in 1..Len(flat) : flat[k].line \in 1..Len(doc) /\ Heading(flat[k].line)
      /\ \A j, k \in 1..Len(flat) : j < k => flat[j].line < flat[k].line
      /\ \A i \in 1..Len(doc) : Heading(i) => \E k \in 1..Len(flat) : flat[k].line = i
      /\ at \in Nat \ {0} /\ First \in Nat
  BY <1>0, SectionLines DEF WikiTypeOK
<1>2. /\ sec <= Len(flat) /\ First <= at /\ at <= Len(doc) + 1
      /\ sec > 0 => First < at
      /\ \A i \in 1..(at - 1) : First <= i /\ Heading(i) => i = First /\ sec > 0
  BY DEF InSection
<1>3. sec > 0 => sec \in 1..Len(flat) /\ First = flat[sec].line
  BY <1>1, <1>2 DEF First
<1>4. sec = 0 => First = 1
  BY DEF First
<1>5. sec + 1 <= Len(flat) => flat[sec + 1].line >= at
  <2>1. CASE sec + 1 <= Len(flat) /\ flat[sec + 1].line < at
    <3>1. sec + 1 \in 1..Len(flat) /\ flat[sec + 1].line \in 1..(at - 1) /\ Heading(flat[sec + 1].line)
      BY <2>1, <1>1
    <3>2. First <= flat[sec + 1].line /\ (sec > 0 => First # flat[sec + 1].line)
      <4>1. CASE sec = 0
        BY <4>1, <3>1, <1>1, <1>4
      <4>2. CASE sec > 0
        <5>1. flat[sec].line < flat[sec + 1].line
          BY <4>2, <3>1, <1>1, <1>3
        <5> QED
          BY <5>1, <4>2, <3>1, <1>1, <1>3
      <4> QED
        BY <4>1, <4>2, <1>1
    <3> QED
      BY <3>1, <3>2, <1>2
  <2>2. sec + 1 <= Len(flat) => flat[sec + 1].line \in Nat
    <3>1. sec + 1 <= Len(flat) => sec + 1 \in 1..Len(flat)
      BY <1>1
    <3> QED
      BY <3>1, <1>1
  <2> QED
    BY <2>1, <2>2, <1>1
<1>6. CASE at > Len(doc)
  <2>1. at = Len(doc) + 1
    BY <1>1, <1>2, <1>6
  <2>2. ~(sec + 1 <= Len(flat))
    <3>1. sec + 1 <= Len(flat) => flat[sec + 1].line \in 1..Len(doc)
      <4>1. sec + 1 <= Len(flat) => sec + 1 \in 1..Len(flat)
        BY <1>1
      <4> QED
        BY <4>1, <1>1
    <3> QED
      BY <3>1, <2>1, <1>1, <1>5
  <2> QED
    BY <2>1, <2>2
<1>7. CASE at <= Len(doc)
  <2>1. at \in 1..Len(doc) /\ Heading(at)
    BY <1>1, <1>7 DEF Inside
  <2>2. PICK k \in 1..Len(flat) : flat[k].line = at
    BY <2>1, <1>1
  <2>3. k > sec
    <3>1. CASE sec > 0 /\ k <= sec
      <4>1. k = sec \/ k < sec
        BY <3>1, <1>1
      <4>2. flat[k].line <= flat[sec].line
        BY <4>1, <3>1, <1>1, <1>3
      <4>3. flat[sec].line < at
        BY <3>1, <1>2, <1>3
      <4>4. flat[sec].line \in Nat
        BY <3>1, <1>1, <1>3
      <4> QED
        BY <2>2, <4>2, <4>3, <4>4, <1>1
    <3> QED
      BY <3>1, <1>1
  <2>4. sec + 1 \in 1..Len(flat) /\ (k = sec + 1 \/ sec + 1 < k)
    BY <2>2, <2>3, <1>1
  <2>5. flat[sec + 1].line <= at
    BY <2>2, <2>4, <1>1
  <2>6. flat[sec + 1].line = at
    BY <2>4, <2>5, <1>1, <1>5
  <2> QED
    BY <2>4, <2>6, <1>1
<1> QED
  BY <1>1, <1>6, <1>7

\* The values of the variables that a step of the sections changes.
LEMMA BlockTypes ==
  ASSUME WikiTypeOK, NEW t \in Types, NEW ls, ls \subseteq Nat
  PROVE  /\ Block(t, ls) \in Chunk /\ Block(t, ls).lines = Filled(ls)
         /\ Block(t, ls).type = t /\ Block(t, ls).id = Id(t, count[t] + 1)
         /\ Block(t, ls).parent = Main.id
         /\ count[t] \in Nat
<1>1. count[t] \in Nat /\ sec \in Nat
  BY DEF WikiTypeOK
<1>2. Id(t, count[t] + 1) \in Ids
  BY <1>1 DEF Id, Ids
<1>3. (IF sec = 0 THEN Id("root", 0) ELSE Id("s", sec - 1)) \in Ids
  BY <1>1 DEF Id, Ids
<1>4. Filled(ls) \in SUBSET Nat
  BY DEF Filled
<1> QED
  BY <1>1, <1>2, <1>3, <1>4 DEF Block, Chunk, Main

LEMMA MainTypes ==
  ASSUME WikiTypeOK
  PROVE  /\ Main \in Chunk /\ Main.lines = prose /\ Main.type = "heading" /\ Main.parent = NoId
         /\ Main.id = IF sec = 0 THEN Id("root", 0) ELSE Id("s", sec - 1)
<1>1. sec \in Nat /\ prose \in SUBSET Nat
  BY DEF WikiTypeOK
<1>2. (IF sec = 0 THEN Id("root", 0) ELSE Id("s", sec - 1)) \in Ids /\ NoId \in Ids
  BY <1>1 DEF Id, Ids, NoId
<1> QED
  BY <1>1, <1>2 DEF Chunk, Main

\* The parts of the chunks.
LEMMA ChunkParts ==
  ASSUME WikiTypeOK
  PROVE  /\ Len(out) \in Nat /\ DOMAIN out = 1..Len(out)
         /\ Len(derived) \in Nat /\ DOMAIN derived = 1..Len(derived)
         /\ \A n \in DOMAIN out : out[n] \in Chunk
         /\ \A n \in DOMAIN derived : derived[n] \in Chunk
  BY DEF WikiTypeOK

\* Ids are equal if their parts are.
LEMMA IdParts ==
  /\ \A of, n : Id(of, n).of = of /\ Id(of, n).n = n
  /\ NoId.of = "none"
  BY DEF Id, NoId

\* An id once given stays given.
LEMMA GivenStays ==
  ASSUME WikiTypeOK, sec' \in Nat, sec <= sec', \A t \in Types : count'[t] \in Nat /\ count[t] <= count'[t],
         NEW n \in DOMAIN out, Given(out[n]), out'[n] = out[n]
  PROVE  Given(out[n])'
<1>1. PICK i : i = out[n].id
  OBVIOUS
<1>2. i.n \in Nat
  <2>1. \A x \in Ids : x.n \in Nat
    BY DEF Ids
  <2>2. \A x \in Chunk : x.id \in Ids
    BY DEF Chunk
  <2> QED
    BY <1>1, <2>1, <2>2, ChunkParts
<1>3. \A t \in Types : count[t] \in Nat
  BY DEF WikiTypeOK
<1>4. sec \in Nat
  BY DEF WikiTypeOK
<1>5. out'[n].id = i
  BY <1>1
<1>6. CASE i.of \in Types /\ i.n <= count[i.of]
  <2>1. i.n <= count'[i.of]
    BY <1>2, <1>3, <1>6
  <2> QED
    BY <1>5, <1>6, <2>1 DEF Given
<1>7. CASE i.of = "s" /\ i.n + 1 < sec
  <2>1. i.n + 1 < sec'
    BY <1>2, <1>4, <1>7
  <2> QED
    BY <1>5, <1>7, <2>1 DEF Given
<1>8. CASE i.of = "root" /\ sec > 0
  <2>1. sec' > 0
    BY <1>4, <1>8
  <2> QED
    BY <1>5, <1>8, <2>1 DEF Given
<1> QED
  BY <1>1, <1>6, <1>7, <1>8 DEF Given

\* The introduction and the sections are begun.
LEMMA SectionBegun ==
  ASSUME WikiInv, BeginIntro \/ BeginSection \/ SectionsEnd
  PROVE  WikiInv'
<1> USE DEF WikiInv
<1>0. /\ stage = "section" /\ UNCHANGED <<doc, tree, stack, trail, flat, block, derived, count>>
      /\ Building /\ ~Scanning
  BY DEF BeginIntro, BeginSection, SectionsEnd, tocVars, secVars, Building, Scanning
<1>1. /\ Len(doc) \in Nat /\ DOMAIN doc = 1..Len(doc) /\ Len(flat) \in Nat /\ sec \in Nat
      /\ DOMAIN flat = 1..Len(flat)
      /\ \A k \in 1..Len(flat) : flat[k].line \in 1..Len(doc) /\ Heading(flat[k].line)
      /\ \A j, k \in 1..Len(flat) : j < k => flat[j].line < flat[k].line
      /\ \A i \in 1..Len(doc) : Heading(i) => \E k \in 1..Len(flat) : flat[k].line = i
      /\ at \in Nat \ {0} /\ First \in Nat /\ First \in 1..(Len(doc) + 1)
  <2>1. at \in Nat \ {0}
    BY DEF WikiTypeOK
  <2>2. Len(doc) \in Nat /\ First \in 1..(Len(doc) + 1)
    BY <1>0, SectionLines
  <2>3. First \in Nat
    BY <2>2
  <2> QED
    BY <1>0, <2>1, <2>3, SectionLines
<1>2. prose = {} /\ block = {} /\ derived = << >> /\ Reach = First /\ sec <= Len(flat) + 1
  BY <1>0 DEF NothingYet, Reach, InSection
<1>3. \A i : (Heading(i)' <=> Heading(i)) /\ (Blank(i)' <=> Blank(i)) /\ (Table(i)' <=> Table(i))
  BY <1>0 DEF Heading, Blank, Table, Pipe, Is
<1>4. /\ \A n \in DOMAIN out : \A i \in out[n].lines : i \in DOMAIN doc /\ i < First
      /\ \A m, n \in DOMAIN out : m # n => out[m].lines \cap out[n].lines = {}
      /\ \A i \in DOMAIN doc : i < First /\ ~Blank(i) => \E n \in DOMAIN out : i \in out[n].lines
      /\ \A n \in DOMAIN out : out[n].type = "table" => Headed(out[n].lines)
  BY <1>0, <1>2 DEF LinesOnce, TextKept, TablesHeaded, Headed
<1>5. CASE BeginIntro /\ HasIntro
  <2>1. stage' = "scan" /\ at' = 1 /\ sec' = 0 /\ sec = 0 /\ out' = out /\ prose' = prose
    BY <1>5 DEF BeginIntro
  <2>2. Building' /\ Scanning' /\ First' = 1 /\ First = 1 /\ Reach' = 1
    BY <2>1 DEF Building, Scanning, First, Reach
  <2>3. WikiTypeOK' /\ at' <= Len(doc') + 1
    BY <1>0, <1>1, <2>1 DEF WikiTypeOK, WikiStages
  <2>4. HeadingsRead' /\ TreeShape' /\ StackShape' /\ InNodeOrder' /\ SearchFrom'
    BY <1>0, <2>2, TreeStays
  <2>5. NothingYet' /\ InSection'
    BY <1>0, <1>1, <1>2, <2>1, <2>2 DEF NothingYet, InSection
  <2>6. LinesOnce' /\ TextKept' /\ TablesHeaded'
    BY <1>0, <1>1, <1>2, <1>3, <1>4, <2>1, <2>2 DEF LinesOnce, TextKept, TablesHeaded, Headed
  <2>7. IdsOnce' /\ SectionsMade'
    BY <1>0, <1>1, <1>2, <2>1, <2>2 DEF IdsOnce, SectionsMade, Given
  <2> QED
    BY <2>3, <2>4, <2>5, <2>6, <2>7
<1>6. CASE BeginIntro /\ ~HasIntro
  <2>1. stage' = stage /\ at' = at /\ sec' = 1 /\ sec = 0 /\ out' = out /\ prose' = prose
    BY <1>6 DEF BeginIntro
  <2>2. Building' /\ ~Scanning' /\ First = 1 /\ Reach' = First'
    BY <1>0, <2>1 DEF Building, Scanning, First, Reach
  <2>3. First' = IF 1 <= Len(flat) THEN flat[1].line ELSE Len(doc) + 1
    BY <1>0, <2>1 DEF First
  <2>4. WikiTypeOK' /\ at' <= Len(doc') + 1
    BY <1>0, <1>1, <2>1 DEF WikiTypeOK, WikiStages
  <2>5. HeadingsRead' /\ TreeShape' /\ StackShape' /\ InNodeOrder' /\ SearchFrom'
    BY <1>0, <2>2, TreeStays
  <2>6. NothingYet' /\ InSection'
    BY <1>0, <1>1, <1>2, <2>1, <2>2 DEF NothingYet, InSection
  <2>7. \A i \in DOMAIN doc : i < First' => Blank(i)
    <3> SUFFICES ASSUME NEW i \in DOMAIN doc, i < First', ~Blank(i) PROVE FALSE
      OBVIOUS
    <3>1. PICK j \in 1..i : Heading(j)
      BY <1>6 DEF HasIntro
    <3>2. PICK k \in 1..Len(flat) : flat[k].line = j
      <4>1. j \in 1..Len(doc)
        BY <1>1
      <4> QED
        BY <3>1, <4>1, <1>1
    <3>3. 1 \in 1..Len(flat) /\ (k = 1 \/ 1 < k)
      BY <1>1
    <3>4. flat[1].line \in Nat /\ flat[1].line <= j
      BY <3>2, <3>3, <1>1
    <3>5. First' = flat[1].line
      BY <2>3, <3>3, <1>1
    <3> QED
      BY <3>4, <3>5, <1>1
  <2>8. LinesOnce' /\ TextKept' /\ TablesHeaded'
    <3>1. \A n \in DOMAIN out : \A i \in out[n].lines : i \in DOMAIN doc /\ i < First'
      BY <1>1, <1>4, <2>2
    <3>2. First' = Reach' /\ stage' # "table"
      BY <1>0, <2>1, <2>2
    <3> QED
      BY <1>0, <1>2, <1>3, <1>4, <2>1, <2>7, <3>1, <3>2 DEF LinesOnce, TextKept, TablesHeaded, Headed
  <2>9. IdsOnce'
    <3>1. \A n \in DOMAIN out : Given(out[n])'
      <4> SUFFICES ASSUME NEW n \in DOMAIN out PROVE Given(out[n])'
        OBVIOUS
      <4>1. \A t \in Types : count'[t] \in Nat /\ count[t] <= count'[t]
        BY <1>0 DEF WikiTypeOK
      <4>2. sec' \in Nat /\ sec <= sec' /\ out'[n] = out[n] /\ Given(out[n])
        BY <2>1 DEF IdsOnce
      <4> QED
        BY <4>1, <4>2, GivenStays
    <3> QED
      BY <1>2, <1>0, <2>1, <3>1 DEF IdsOnce
  <2>10. SectionsMade'
    BY <1>0, <1>1, <2>1 DEF SectionsMade
  <2> QED
    BY <2>4, <2>5, <2>6, <2>8, <2>9, <2>10
<1>7. CASE BeginSection
  <2>1. sec \in 1..Len(flat) /\ First = flat[sec].line /\ First \in 1..Len(doc) /\ Heading(First)
    BY <1>1, <1>7 DEF BeginSection, First
  <2>2. stage' = "scan" /\ at' = First + 1 /\ prose' = {First} /\ sec' = sec /\ out' = out
    BY <1>1, <1>7, <2>1 DEF BeginSection
  <2>3. Building' /\ Scanning' /\ First' = First /\ Reach' = First + 1
    BY <1>0, <2>2 DEF Building, Scanning, First, Reach
  <2>4. WikiTypeOK' /\ at' <= Len(doc') + 1
    <3>1. at' \in Nat \ {0} /\ at' <= Len(doc) + 1 /\ prose' \subseteq DOMAIN doc
      BY <1>1, <2>1, <2>2
    <3> QED
      BY <1>0, <2>2, <3>1 DEF WikiTypeOK, WikiStages
  <2>5. HeadingsRead' /\ TreeShape' /\ StackShape' /\ InNodeOrder' /\ SearchFrom'
    BY <1>0, <2>3, TreeStays
  <2>6. NothingYet'
    BY <1>2, <1>0, <2>2, <2>3 DEF NothingYet
  <2>7. InSection'
    <3>1. \A i \in 1..(at' - 1) : First <= i => i = First
      BY <1>1, <2>2
    <3>2. sec > 0 /\ sec <= Len(flat) /\ sec <= Len(flat) + 1 /\ First < at' /\ First <= at'
          /\ at' <= Len(doc) + 1
      BY <1>1, <2>1, <2>2
    <3> QED
      BY <1>0, <2>2, <2>3, <3>1, <3>2 DEF InSection
  <2>8. LinesOnce' /\ TextKept' /\ TablesHeaded'
    <3>1. \A i \in DOMAIN doc : i < First + 1 => i < First \/ i = First
      BY <1>1
    <3>2. LinesOnce'
      BY <1>0, <1>1, <1>2, <1>4, <2>1, <2>2, <2>3 DEF LinesOnce
    <3>3. TextKept'
      BY <1>0, <1>2, <1>3, <1>4, <2>2, <2>3, <3>1 DEF TextKept
    <3>4. TablesHeaded'
      BY <1>0, <1>2, <1>3, <1>4, <2>2 DEF TablesHeaded, Headed
    <3> QED
      BY <3>2, <3>3, <3>4
  <2>9. IdsOnce' /\ SectionsMade'
    BY <1>0, <1>1, <1>2, <2>2, <2>3 DEF IdsOnce, SectionsMade, Given
  <2> QED
    BY <2>4, <2>5, <2>6, <2>7, <2>8, <2>9
<1>8. CASE SectionsEnd
  <2>1. stage' = "sections" /\ sec > Len(flat) /\ UNCHANGED <<at, out, sec, prose>>
    BY <1>8 DEF SectionsEnd, secVars
  <2>2. Building' /\ ~Scanning' /\ First' = First /\ Reach' = First
    BY <1>0, <2>1 DEF Building, Scanning, First, Reach
  <2>3. WikiTypeOK' /\ at' <= Len(doc') + 1
    BY <1>0, <1>1, <2>1 DEF WikiTypeOK, WikiStages
  <2>4. HeadingsRead' /\ TreeShape' /\ StackShape' /\ InNodeOrder' /\ SearchFrom'
    BY <1>0, <2>2, TreeStays
  <2>5. NothingYet' /\ InSection'
    BY <1>0, <1>1, <1>2, <2>1, <2>2 DEF NothingYet, InSection
  <2>6. LinesOnce' /\ TextKept' /\ TablesHeaded'
    BY <1>0, <1>1, <1>2, <1>3, <1>4, <2>1, <2>2 DEF LinesOnce, TextKept, TablesHeaded, Headed
  <2>7. IdsOnce' /\ SectionsMade'
    BY <1>0, <1>1, <1>2, <2>1, <2>2 DEF IdsOnce, SectionsMade, Given
  <2> QED
    BY <2>3, <2>4, <2>5, <2>6, <2>7
<1> QED
  BY <1>5, <1>6, <1>7, <1>8

\* What the scanner of a section relies on.
LEMMA ScanFacts ==
  ASSUME WikiInv, Scanning
  PROVE  /\ Building /\ Len(doc) \in Nat /\ DOMAIN doc = 1..Len(doc)
         /\ sec \in Nat /\ Len(flat) \in Nat /\ sec <= Len(flat) /\ DOMAIN flat = 1..Len(flat)
         /\ at \in Nat \ {0} /\ at <= Len(doc) + 1 /\ First \in Nat /\ First <= at /\ First >= 1
         /\ sec > 0 => First < at /\ First \in prose
         /\ \A i \in 1..(at - 1) : First <= i /\ Heading(i) => i = First /\ sec > 0
         /\ Reach = at /\ prose \subseteq DOMAIN doc /\ block \subseteq DOMAIN doc
<1> USE DEF WikiInv
<1>1. Building /\ Reach = at
  BY DEF Building, Scanning, Reach
<1>2. at \in Nat \ {0} /\ prose \subseteq DOMAIN doc /\ block \subseteq DOMAIN doc
  BY DEF WikiTypeOK
<1>3. First \in 1..(Len(doc) + 1) /\ Len(doc) \in Nat
  BY <1>1, SectionLines
<1>4. First \in Nat /\ First >= 1
  BY <1>3
<1> QED
  BY <1>1, <1>2, <1>4, SectionLines DEF InSection

\* The lines passed in a step of the scanner, which are no headings.
Passed == {i \in DOMAIN doc : at <= i /\ i < at'}
Passes == /\ at' \in Nat \ {0} /\ at <= at' /\ at' <= Len(doc) + 1
          /\ \A i \in Passed : ~Heading(i)

\* They go to the section's own text or to the block in hand.
Taken ==
  /\ Passes
  /\ prose \subseteq prose' /\ prose' \subseteq prose \cup Passed
  /\ block \subseteq block' /\ block' \subseteq block \cup Passed
  /\ \A i \in Passed : ~(i \in prose' /\ i \in block') /\ (~Blank(i) => i \in prose' \cup block')
  /\ stage' = "scan" => block' = {}
  /\ stage' = "table" => Headed(block')

LEMMA LinesTaken ==
  ASSUME WikiInv, Scanning, Scanning', stage' \in WikiStages, Taken,
         UNCHANGED <<doc, tree, stack, trail, flat, out, sec, derived, count>>
  PROVE  WikiInv'
<1> USE DEF WikiInv
<1>p. /\ at' \in Nat \ {0} /\ at <= at' /\ at' <= Len(doc) + 1
      /\ \A i \in Passed : i \in DOMAIN doc /\ at <= i /\ i < at' /\ ~Heading(i)
  BY DEF Taken, Passes, Passed
<1>t. /\ prose \subseteq prose' /\ prose' \subseteq prose \cup Passed
      /\ block \subseteq block' /\ block' \subseteq block \cup Passed
      /\ \A i \in Passed : ~(i \in prose' /\ i \in block') /\ (~Blank(i) => i \in prose' \cup block')
      /\ stage' = "scan" => block' = {}
      /\ stage' = "table" => Headed(block')
  BY DEF Taken
<1>l. \A i \in DOMAIN doc : i < at' => i < at \/ i \in Passed
  <2>1. at \in Nat /\ at' \in Nat /\ \A i \in DOMAIN doc : i \in Nat
    BY <1>p DEF WikiTypeOK
  <2> QED
    BY <2>1 DEF Passed
<1>0. /\ Building /\ Len(doc) \in Nat /\ DOMAIN doc = 1..Len(doc)
      /\ sec \in Nat /\ Len(flat) \in Nat /\ sec <= Len(flat)
      /\ at \in Nat \ {0} /\ at <= Len(doc) + 1 /\ First \in Nat /\ First <= at /\ First >= 1
      /\ sec > 0 => First < at /\ First \in prose
      /\ \A i \in 1..(at - 1) : First <= i /\ Heading(i) => i = First /\ sec > 0
      /\ Reach = at
  BY ScanFacts
<1>1. Building' /\ First' = First /\ Reach' = at'
  BY DEF Building, Scanning, First, Reach
<1>2. \A i : (Heading(i)' <=> Heading(i)) /\ (Blank(i)' <=> Blank(i)) /\ (Table(i)' <=> Table(i))
  BY DEF Heading, Blank, Table, Pipe, Is
<1>3. prose' \subseteq DOMAIN doc /\ block' \subseteq DOMAIN doc
  BY <1>p, <1>t, ScanFacts
<1>4. WikiTypeOK' /\ at' <= Len(doc') + 1
  BY <1>3, <1>p DEF WikiTypeOK
<1>5. HeadingsRead' /\ TreeShape' /\ StackShape' /\ InNodeOrder' /\ SearchFrom'
  BY <1>0, <1>1, TreeStays
<1>6. NothingYet'
  BY <1>1, <1>t DEF NothingYet, Scanning
<1>7. InSection'
  <2>1. \A i \in 1..(at' - 1) : First <= i /\ Heading(i) => i = First /\ sec > 0
    <3>1. \A i \in 1..(at' - 1) : i \in DOMAIN doc /\ i < at' /\ (i < at => i \in 1..(at - 1))
      <4>1. at' \in Nat /\ at \in Nat /\ at' <= Len(doc) + 1 /\ Len(doc) \in Nat
        BY <1>0, <1>p
      <4>2. \A a, b, n \in Nat : a <= n + 1 =>
              \A i \in 1..(a - 1) : i \in 1..n /\ i < a /\ (i < b => i \in 1..(b - 1))
        OBVIOUS
      <4>3. \A i \in 1..(at' - 1) : i \in 1..Len(doc) /\ i < at' /\ (i < at => i \in 1..(at - 1))
        BY <4>1, <4>2
      <4> QED
        BY <4>3, <1>0
    <3> QED
      BY <3>1, <1>0, <1>p, <1>l
  <2>2. First <= at' /\ (sec > 0 => First < at' /\ First \in prose') /\ sec <= Len(flat) + 1
    BY <1>0, <1>p, <1>t
  <2>3. stage' # "sections"
    BY DEF Scanning
  <2>4. \A i \in 1..(at' - 1) : First' <= i /\ Heading(i)' => i = First' /\ sec' > 0
    BY <1>1, <1>2, <2>1
  <2> QED
    BY <1>0, <1>1, <1>p, <2>2, <2>3, <2>4 DEF InSection
<1>8. LinesOnce'
  <2>1. \A i \in prose' \cup block' : First <= i /\ i < at'
    <3>1. \A i \in prose \cup block : First <= i /\ i < at /\ i \in Nat
      BY <1>0, ScanFacts DEF LinesOnce
    <3>2. \A i \in Passed : First <= i /\ i < at'
      BY <1>0, <1>p
    <3>3. \A i \in prose \cup block : First <= i /\ i < at'
      BY <1>0, <1>p, <3>1
    <3> QED
      BY <3>2, <3>3, <1>t
  <2>0. \A i \in Passed : ~(i < at)
    BY <1>0, <1>p
  <2>2. prose' \cap block' = {}
    <3>1. \A i \in prose \cup block : i \notin Passed /\ ~(i \in prose /\ i \in block)
      BY <1>0, <2>0 DEF LinesOnce
    <3> QED
      BY <3>1, <1>t
  <2>3. \A n \in DOMAIN derived : \A i \in derived[n].lines :
          /\ i \in DOMAIN doc /\ First <= i /\ i < at
          /\ i \notin prose /\ i \notin block
    BY <1>0 DEF LinesOnce
  <2>7. \A i \in DOMAIN doc : i < at => i < at'
    BY <1>0, <1>p
  <2>4. \A n \in DOMAIN derived : \A i \in derived[n].lines :
          i < at' /\ i \notin prose' /\ i \notin block'
    BY <2>0, <2>3, <2>7, <1>t
  <2>5. \A m, n \in DOMAIN derived : m # n => derived[m].lines \cap derived[n].lines = {}
    BY DEF LinesOnce
  <2>6. /\ \A n \in DOMAIN out : \A i \in out[n].lines : i \in DOMAIN doc /\ i < First
        /\ \A m, n \in DOMAIN out : m # n => out[m].lines \cap out[n].lines = {}
    BY DEF LinesOnce
  <2> QED
    BY <1>1, <2>1, <2>2, <2>3, <2>4, <2>5, <2>6 DEF LinesOnce
<1>9. TextKept'
  <2>1. \A i \in DOMAIN doc : i < at' /\ ~Blank(i) =>
          \/ i \in prose' \cup block'
          \/ \E n \in DOMAIN derived : i \in derived[n].lines
          \/ \E n \in DOMAIN out : i \in out[n].lines
    <3> SUFFICES ASSUME NEW i \in DOMAIN doc, i < at', ~Blank(i), i \notin prose' \cup block'
                 PROVE  \/ \E n \in DOMAIN derived : i \in derived[n].lines
                        \/ \E n \in DOMAIN out : i \in out[n].lines
      OBVIOUS
    <3>1. i < at
      BY <1>l, <1>t
    <3> QED
      BY <3>1, <1>0, <1>t DEF TextKept
  <2> QED
    BY <1>1, <1>2, <2>1 DEF TextKept
<1>10. TablesHeaded'
  BY <1>2, <1>t DEF TablesHeaded, Headed
<1>11. IdsOnce'
  <2>1. Main.id' = Main.id
    BY DEF Main
  <2>2. \A n \in DOMAIN out : Given(out[n])'
    BY DEF Given, IdsOnce
  <2> QED
    BY <2>1, <2>2 DEF IdsOnce
<1>12. SectionsMade'
  BY <1>0, <1>1 DEF SectionsMade
<1> QED
  BY <1>4, <1>5, <1>6, <1>7, <1>8, <1>9, <1>10, <1>11, <1>12

\* They go, with the lines of the block in hand, to a chunk of their own.
Derives(t, ls) ==
  /\ Passes
  /\ Emit(t, ls)
  /\ prose' = prose /\ block' = {} /\ stage' = "scan"
  /\ block \subseteq ls /\ ls \subseteq block \cup Passed
  /\ \A i \in Passed : ~Blank(i) => i \in ls
  /\ t = "table" => Headed(ls)

LEMMA LinesDerived ==
  ASSUME WikiInv, Scanning, NEW t \in Types, NEW ls, Derives(t, ls),
         UNCHANGED <<doc, tree, stack, trail, flat, out, sec>>
  PROVE  WikiInv'
<1> USE DEF WikiInv
<1>p. /\ at' \in Nat \ {0} /\ at <= at' /\ at' <= Len(doc) + 1
      /\ \A i \in Passed : i \in DOMAIN doc /\ at <= i /\ i < at' /\ ~Heading(i)
  BY DEF Derives, Passes, Passed
<1>t. /\ prose' = prose /\ block' = {} /\ stage' = "scan"
      /\ block \subseteq ls /\ ls \subseteq block \cup Passed
      /\ \A i \in Passed : ~Blank(i) => i \in ls
      /\ t = "table" => Headed(ls)
  BY DEF Derives
<1>l. \A i \in DOMAIN doc : i < at' => i < at \/ i \in Passed
  <2>1. at \in Nat /\ at' \in Nat /\ \A i \in DOMAIN doc : i \in Nat
    BY <1>p DEF WikiTypeOK
  <2> QED
    BY <2>1 DEF Passed
<1>0. /\ Building /\ Len(doc) \in Nat /\ DOMAIN doc = 1..Len(doc)
      /\ sec \in Nat /\ Len(flat) \in Nat /\ sec <= Len(flat)
      /\ at \in Nat \ {0} /\ at <= Len(doc) + 1 /\ First \in Nat /\ First <= at /\ First >= 1
      /\ sec > 0 => First < at /\ First \in prose
      /\ \A i \in 1..(at - 1) : First <= i /\ Heading(i) => i = First /\ sec > 0
      /\ Reach = at
  BY ScanFacts
<1>1. Building' /\ Scanning' /\ First' = First /\ Reach' = at'
  BY <1>t DEF Building, Scanning, First, Reach
<1>2. \A i : (Heading(i)' <=> Heading(i)) /\ (Blank(i)' <=> Blank(i)) /\ (Table(i)' <=> Table(i))
  BY DEF Heading, Blank, Table, Pipe, Is
<1>3. ls \subseteq DOMAIN doc /\ ls \subseteq Nat
  BY <1>p, <1>t, <1>0, ScanFacts
\* The new chunk.
<1>4. PICK c : c = Block(t, ls)
  OBVIOUS
<1>5. PICK d : d = Len(derived)
  OBVIOUS
<1>6. /\ c \in Chunk /\ c.lines = Filled(ls) /\ c.type = t /\ c.id = Id(t, count[t] + 1)
      /\ c.parent = Main.id /\ count[t] \in Nat
  BY <1>3, <1>4, BlockTypes
<1>7. derived' = Append(derived, c) /\ count' = [count EXCEPT ![t] = count[t] + 1]
  BY <1>4 DEF Derives, Emit
<1>8. d \in Nat /\ derived \in Seq(Chunk) /\ DOMAIN derived = 1..d
  BY <1>5 DEF WikiTypeOK
<1>9. /\ derived' \in Seq(Chunk) /\ DOMAIN derived' = 1..(d + 1) /\ derived'[d + 1] = c
      /\ \A n \in 1..d : derived'[n] = derived[n]
  <2> HIDE DEF Chunk
  <2> QED
    BY <1>5, <1>6, <1>7, <1>8
<1>10. \A n \in 1..(d + 1) : n \in 1..d \/ n = d + 1
  BY <1>8
<1>11. count \in [Types -> Nat] /\ count' \in [Types -> Nat]
  BY <1>6, <1>7 DEF WikiTypeOK
<1>12. WikiTypeOK' /\ at' <= Len(doc') + 1
  BY <1>p, <1>t, <1>9, <1>11 DEF WikiTypeOK, WikiStages
<1>13. HeadingsRead' /\ TreeShape' /\ StackShape' /\ InNodeOrder' /\ SearchFrom'
  BY <1>0, <1>1, TreeStays
<1>14. NothingYet'
  BY <1>1, <1>t DEF NothingYet
<1>15. InSection'
  <2>1. \A i \in 1..(at' - 1) : First <= i /\ Heading(i) => i = First /\ sec > 0
    <3>1. \A i \in 1..(at' - 1) : i \in DOMAIN doc /\ i < at' /\ (i < at => i \in 1..(at - 1))
      <4>1. at' \in Nat /\ at \in Nat /\ at' <= Len(doc) + 1 /\ Len(doc) \in Nat
        BY <1>0, <1>p
      <4>2. \A a, b, n \in Nat : a <= n + 1 =>
              \A i \in 1..(a - 1) : i \in 1..n /\ i < a /\ (i < b => i \in 1..(b - 1))
        OBVIOUS
      <4>3. \A i \in 1..(at' - 1) : i \in 1..Len(doc) /\ i < at' /\ (i < at => i \in 1..(at - 1))
        BY <4>1, <4>2
      <4> QED
        BY <4>3, <1>0
    <3> QED
      BY <3>1, <1>0, <1>p, <1>l
  <2>2. First <= at' /\ (sec > 0 => First < at' /\ First \in prose') /\ sec <= Len(flat) + 1
    BY <1>0, <1>p, <1>t
  <2>3. \A i \in 1..(at' - 1) : First' <= i /\ Heading(i)' => i = First' /\ sec' > 0
    BY <1>1, <1>2, <2>1
  <2> QED
    BY <1>0, <1>1, <1>p, <1>t, <2>2, <2>3 DEF InSection
\* What is in the new chunk was in the block in hand or not yet looked at.
<1>16. /\ \A i \in c.lines : i \in ls /\ ~Blank(i) /\ (i \in block \/ i \in Passed)
       /\ \A i \in ls : ~Blank(i) => i \in c.lines
  BY <1>t, <1>6 DEF Filled
<1>17. /\ \A i \in prose \cup block : First <= i /\ i < at
       /\ prose \cap block = {}
       /\ \A n \in 1..d : \A i \in derived[n].lines :
            i \in DOMAIN doc /\ First <= i /\ i < at /\ i \notin prose /\ i \notin block
       /\ \A m, n \in 1..d : m # n => derived[m].lines \cap derived[n].lines = {}
       /\ \A n \in DOMAIN out : \A i \in out[n].lines : i \in DOMAIN doc /\ i < First
       /\ \A m, n \in DOMAIN out : m # n => out[m].lines \cap out[n].lines = {}
  BY <1>0, <1>8 DEF LinesOnce
<1>18. \A i \in Passed : ~(i < at) /\ First <= i
  BY <1>0, <1>p
<1>19. \A i \in DOMAIN doc : i < at => i < at'
  BY <1>0, <1>p
<1>20. /\ \A i \in c.lines : i \in DOMAIN doc /\ First <= i /\ i < at' /\ i \notin prose
       /\ \A n \in 1..d : derived[n].lines \cap c.lines = {}
  <2>1. \A i \in c.lines : i \in DOMAIN doc /\ First <= i /\ i < at' /\ i \notin prose
    BY <1>p, <1>3, <1>16, <1>17, <1>18, <1>19
  <2>2. ASSUME NEW n \in 1..d, NEW i \in derived[n].lines, i \in c.lines PROVE FALSE
    BY <2>2, <1>16, <1>17, <1>18
  <2> QED
    BY <2>1, <2>2
<1>21. LinesOnce'
  <2>1. \A i \in prose' \cup block' : First <= i /\ i < at'
    BY <1>t, <1>17, <1>19, ScanFacts
  <2>2. ASSUME NEW n \in 1..(d + 1), NEW i \in derived'[n].lines
        PROVE  i \in DOMAIN doc /\ First <= i /\ i < at' /\ i \notin prose' /\ i \notin block'
    <3>1. CASE n \in 1..d
      BY <2>2, <3>1, <1>t, <1>9, <1>17, <1>19
    <3>2. CASE n = d + 1
      BY <2>2, <3>2, <1>t, <1>9, <1>20
    <3> QED
      BY <3>1, <3>2, <1>10
  <2>3. ASSUME NEW m \in 1..(d + 1), NEW n \in 1..(d + 1), m # n
        PROVE  derived'[m].lines \cap derived'[n].lines = {}
    <3>1. CASE m \in 1..d /\ n \in 1..d
      BY <2>3, <3>1, <1>9, <1>17
    <3>2. CASE m \in 1..d /\ n = d + 1
      BY <3>2, <1>9, <1>20
    <3>3. CASE m = d + 1 /\ n \in 1..d
      BY <3>3, <1>9, <1>20
    <3> QED
      BY <2>3, <3>1, <3>2, <3>3, <1>10
  <2>4. prose' \cap block' = {}
    BY <1>t
  <2> QED
    BY <1>1, <1>9, <1>17, <2>1, <2>2, <2>3, <2>4 DEF LinesOnce
<1>22. TextKept'
  <2> SUFFICES ASSUME NEW i \in DOMAIN doc, i < at', ~Blank(i), i \notin prose
               PROVE  \/ \E n \in 1..(d + 1) : i \in derived'[n].lines
                      \/ \E n \in DOMAIN out : i \in out[n].lines
    BY <1>1, <1>2, <1>9, <1>t DEF TextKept
  <2>1. CASE i \in ls
    <3>1. i \in derived'[d + 1].lines /\ d + 1 \in 1..(d + 1)
      BY <2>1, <1>8, <1>9, <1>16
    <3> QED
      BY <3>1
  <2>2. CASE i \notin ls
    <3>1. i < at /\ i \notin block
      BY <2>2, <1>l, <1>t
    <3>2. CASE \E n \in 1..d : i \in derived[n].lines
      <4>1. PICK n \in 1..d : i \in derived[n].lines
        BY <3>2
      <4>2. n \in 1..(d + 1) /\ i \in derived'[n].lines
        BY <4>1, <1>8, <1>9
      <4> QED
        BY <4>2
    <3> QED
      BY <3>1, <3>2, <1>0, <1>8 DEF TextKept
  <2> QED
    BY <2>1, <2>2
<1>23. TablesHeaded'
  <2>1. ASSUME NEW n \in 1..(d + 1), derived'[n].type = "table"
        PROVE  Headed(derived'[n].lines)
    <3>1. CASE n \in 1..d
      BY <2>1, <3>1, <1>8, <1>9 DEF TablesHeaded
    <3>2. CASE n = d + 1
      <4>1. Headed(ls)
        BY <2>1, <3>2, <1>t, <1>6, <1>9
      <4>2. PICK m \in ls : Table(m) /\ m + 1 \in ls /\ \A j \in ls : m <= j
        BY <4>1 DEF Headed
      <4>3. ~Blank(m) /\ ~Blank(m + 1)
        BY <4>2 DEF Table, Pipe, Blank, Is
      <4>4. Headed(c.lines)
        BY <4>2, <4>3, <1>16 DEF Headed
      <4> QED
        BY <3>2, <4>4, <1>9
    <3> QED
      BY <3>1, <3>2, <1>10
  <2>2. \A n \in DOMAIN out : out[n].type = "table" => Headed(out[n].lines)
    BY DEF TablesHeaded
  <2> QED
    BY <1>2, <1>9, <1>t, <2>1, <2>2 DEF TablesHeaded, Headed
<1>24. SectionsMade'
  BY <1>0, <1>1 DEF SectionsMade
<1>25. /\ c.id.of = t /\ c.id.n = count[t] + 1 /\ count'[t] = count[t] + 1
       /\ \A u \in Types : count[u] \in Nat /\ count'[u] \in Nat /\ count[u] <= count'[u]
  <2>1. \A u \in Types : count[u] \in Nat /\ (u # t => count'[u] = count[u])
    BY <1>7 DEF WikiTypeOK
  <2>2. count'[t] = count[t] + 1
    BY <1>7 DEF WikiTypeOK
  <2> QED
    BY <1>6, <2>1, <2>2, IdParts
<1>26. \A u \in Types : u # "s" /\ u # "root"
  BY DEF Types
<1>27. ASSUME NEW m \in DOMAIN out, out[m].id = c.id PROVE FALSE
  <2>1. Given(out[m])
    BY DEF IdsOnce
  <2>2. out[m].id.of = t /\ out[m].id.n = count[t] + 1
    BY <1>25, <1>27
  <2>3. count[t] + 1 <= count[t]
    BY <2>1, <2>2, <1>26 DEF Given
  <2> QED
    BY <2>3, <1>6
<1>28. /\ \A n \in 1..d : /\ derived[n].id.of \in Types
                          /\ derived[n].id.n <= count[derived[n].id.of]
                          /\ derived[n].parent = Main.id
                          /\ \A m \in DOMAIN out : out[m].id # derived[n].id
       /\ \A m, n \in 1..d : m # n => derived[m].id # derived[n].id
  BY <1>8 DEF IdsOnce
<1>29. ASSUME NEW n \in 1..d, derived[n].id = c.id PROVE FALSE
  <2>1. count[t] + 1 <= count[t]
    BY <1>25, <1>28, <1>29
  <2> QED
    BY <2>1, <1>6
<1>30. \A n \in 1..d : derived[n].id.n \in Nat
  <2>1. \A x \in Chunk : x.id.n \in Nat
    BY DEF Chunk, Ids
  <2> QED
    BY <2>1, <1>8
<1>31. IdsOnce'
  <2>1. Main.id' = Main.id
    BY <1>p, <1>t DEF Main
  <2>2. ASSUME NEW n \in DOMAIN out PROVE Given(out[n])'
    BY <1>0, <1>25, GivenStays DEF IdsOnce
  <2>3. ASSUME NEW n \in 1..(d + 1)
        PROVE  /\ derived'[n].id.of \in Types
               /\ derived'[n].id.n <= count'[derived'[n].id.of]
               /\ derived'[n].parent = Main.id
               /\ \A m \in DOMAIN out : out[m].id # derived'[n].id
    <3>1. CASE n \in 1..d
      <4>1. derived'[n] = derived[n] /\ derived[n].id.of \in Types
        BY <3>1, <1>9, <1>28
      <4>2. derived[n].id.n <= count'[derived[n].id.of]
        <5>1. PICK u \in Types : u = derived[n].id.of
          BY <4>1
        <5>2. derived[n].id.n <= count[u] /\ derived[n].id.n \in Nat
          BY <3>1, <5>1, <1>28, <1>30
        <5>3. derived[n].id.n <= count'[u]
          BY <5>2, <1>25
        <5> QED
          BY <5>1, <5>3
      <4> QED
        BY <3>1, <4>1, <4>2, <1>28
    <3>2. CASE n = d + 1
      <4>1. derived'[n] = c
        BY <3>2, <1>9
      <4>2. c.id.n <= count'[c.id.of]
        BY <1>25
      <4> QED
        BY <4>1, <4>2, <1>6, <1>25, <1>27
    <3> QED
      BY <3>1, <3>2, <1>10
  <2>4. ASSUME NEW m \in 1..(d + 1), NEW n \in 1..(d + 1), m # n
        PROVE  derived'[m].id # derived'[n].id
    <3>1. CASE m \in 1..d /\ n \in 1..d
      BY <2>4, <3>1, <1>9, <1>28
    <3>2. CASE m \in 1..d /\ n = d + 1
      BY <3>2, <1>9, <1>29
    <3>3. CASE m = d + 1 /\ n \in 1..d
      BY <3>3, <1>9, <1>29
    <3> QED
      BY <2>4, <3>1, <3>2, <3>3, <1>10
  <2>5. /\ \A m, n \in DOMAIN out : m # n => out[m].id # out[n].id
        /\ \A n \in DOMAIN out : out[n].parent # NoId =>
             \E m \in 1..(n - 1) : out[m].id = out[n].parent
    BY DEF IdsOnce
  <2> QED
    BY <1>9, <2>1, <2>2, <2>3, <2>4, <2>5 DEF IdsOnce
<1> QED
  BY <1>12, <1>13, <1>14, <1>15, <1>21, <1>22, <1>23, <1>24, <1>31

\* A sequence with an element and a second sequence after it.
LEMMA JoinedParts ==
  ASSUME NEW S, NEW a \in Seq(S), NEW x \in S, NEW b \in Seq(S), NEW w, w = Append(a, x) \o b
  PROVE  /\ w \in Seq(S) /\ Len(w) = Len(a) + 1 + Len(b) /\ DOMAIN w = 1..(Len(a) + 1 + Len(b))
         /\ \A n \in 1..Len(a) : w[n] = a[n]
         /\ w[Len(a) + 1] = x
         /\ \A n \in 1..Len(b) : w[Len(a) + 1 + n] = b[n]
<1>1. PICK u : u = Append(a, x)
  OBVIOUS
<1>2. /\ u \in Seq(S) /\ Len(u) = Len(a) + 1 /\ u[Len(a) + 1] = x /\ \A n \in 1..Len(a) : u[n] = a[n]
      /\ Len(a) \in Nat /\ Len(b) \in Nat
  BY <1>1
<1>3. w = u \o b
  BY <1>1
<1>4. /\ w \in Seq(S) /\ Len(w) = Len(u) + Len(b)
      /\ \A i \in 1..(Len(u) + Len(b)) : w[i] = IF i <= Len(u) THEN u[i] ELSE b[i - Len(u)]
  <2>1. \A s1, s2 \in Seq(S) : /\ s1 \o s2 \in Seq(S) /\ Len(s1 \o s2) = Len(s1) + Len(s2)
          /\ \A i \in 1..(Len(s1) + Len(s2)) :
               (s1 \o s2)[i] = IF i <= Len(s1) THEN s1[i] ELSE s2[i - Len(s1)]
    BY ConcatProperties, Zenon
  <2>2. u \in Seq(S) /\ b \in Seq(S)
    BY <1>2
  <2>3. /\ u \o b \in Seq(S) /\ Len(u \o b) = Len(u) + Len(b)
        /\ \A i \in 1..(Len(u) + Len(b)) : (u \o b)[i] = IF i <= Len(u) THEN u[i] ELSE b[i - Len(u)]
    BY <2>1, <2>2, Zenon
  <2> QED
    BY <2>3, <1>3, Zenon
<1>5. PICK o \in Nat : o = Len(a)
  BY <1>2
<1>6. PICK d \in Nat : d = Len(b)
  BY <1>2
<1>7. /\ w \in Seq(S) /\ Len(w) = o + 1 + d
      /\ \A i \in 1..(o + 1 + d) : w[i] = IF i <= o + 1 THEN u[i] ELSE b[i - (o + 1)]
  BY <1>2, <1>4, <1>5, <1>6
<1>8. DOMAIN w = 1..(o + 1 + d)
  BY <1>7
<1>9. \A n \in 1..o : n \in 1..(o + 1 + d) /\ n <= o + 1
  OBVIOUS
<1>10. o + 1 \in 1..(o + 1 + d)
  OBVIOUS
<1>11. \A n \in 1..d : /\ o + 1 + n \in 1..(o + 1 + d) /\ ~(o + 1 + n <= o + 1)
                       /\ (o + 1 + n) - (o + 1) = n
  OBVIOUS
<1>12. /\ \A n \in 1..o : w[n] = a[n]
       /\ w[o + 1] = x
  BY <1>2, <1>5, <1>7, <1>9, <1>10
<1>13. \A n \in 1..d : w[o + 1 + n] = b[n]
  BY <1>7, <1>11
<1> QED
  BY <1>5, <1>6, <1>7, <1>8, <1>12, <1>13

\* The end of a section: its chunk and its blocks go to the others.
LEMMA SectionEnded ==
  ASSUME WikiInv, EndSection
  PROVE  WikiInv'
<1> USE DEF WikiInv
<1>0. /\ stage = "scan" /\ ~Inside(at) /\ out' = Append(out, Main) \o derived
      /\ stage' = "section" /\ sec' = sec + 1 /\ prose' = {} /\ derived' = << >>
      /\ UNCHANGED <<doc, at, tree, stack, trail, flat, block, count>>
      /\ Scanning /\ Building /\ Building' /\ ~Scanning'
  BY DEF EndSection, tocVars, Scanning, Building
<1>1. /\ Len(doc) \in Nat /\ DOMAIN doc = 1..Len(doc)
      /\ sec \in Nat /\ Len(flat) \in Nat /\ sec <= Len(flat) /\ DOMAIN flat = 1..Len(flat)
      /\ at \in Nat \ {0} /\ at <= Len(doc) + 1 /\ First \in Nat /\ First <= at /\ First >= 1
      /\ sec > 0 => First < at /\ First \in prose
      /\ Reach = at
  BY <1>0, ScanFacts
<1>2. First' = at /\ Reach' = at
  BY <1>0, <1>1, NextSection DEF First, Reach
<1>3. block = {}
  BY <1>0 DEF NothingYet
<1>4. \A i : (Heading(i)' <=> Heading(i)) /\ (Blank(i)' <=> Blank(i)) /\ (Table(i)' <=> Table(i))
  BY <1>0 DEF Heading, Blank, Table, Pipe, Is
<1>5. PICK c : c = Main
  OBVIOUS
<1>6. PICK o : o = Len(out)
  OBVIOUS
<1>7. PICK d : d = Len(derived)
  OBVIOUS
<1>8. /\ c \in Chunk /\ c.lines = prose /\ c.type = "heading" /\ c.parent = NoId
      /\ c.id = IF sec = 0 THEN Id("root", 0) ELSE Id("s", sec - 1)
  BY <1>5, MainTypes
<1>9. /\ o \in Nat /\ d \in Nat /\ out \in Seq(Chunk) /\ derived \in Seq(Chunk)
      /\ DOMAIN out = 1..o /\ DOMAIN derived = 1..d
      /\ \A n \in 1..o : out[n] \in Chunk
  BY <1>6, <1>7 DEF WikiTypeOK
\* The chunks there are then.
<1>10. /\ out' \in Seq(Chunk) /\ Len(out') = o + 1 + d /\ DOMAIN out' = 1..(o + 1 + d)
       /\ \A n \in 1..o : out'[n] = out[n]
       /\ out'[o + 1] = c
       /\ \A n \in 1..d : out'[o + 1 + n] = derived[n]
  <2> HIDE DEF Chunk
  <2>1. out' = Append(out, c) \o derived
    BY <1>0, <1>5
  <2> QED
    BY <2>1, <1>6, <1>7, <1>8, <1>9, JoinedParts
<1>11. \A n \in 1..(o + 1 + d) : n \in 1..o \/ n = o + 1 \/ \E k \in 1..d : n = o + 1 + k
  <2> SUFFICES ASSUME NEW n \in 1..(o + 1 + d), n > o + 1 PROVE \E k \in 1..d : n = o + 1 + k
    BY <1>9
  <2>1. n - (o + 1) \in 1..d /\ n = o + 1 + (n - (o + 1))
    BY <1>9
  <2> QED
    BY <2>1
<1>12. WikiTypeOK' /\ at' <= Len(doc') + 1
  BY <1>0, <1>1, <1>10 DEF WikiTypeOK, WikiStages
<1>13. HeadingsRead' /\ TreeShape' /\ StackShape' /\ InNodeOrder' /\ SearchFrom'
  BY <1>0, TreeStays
<1>14. NothingYet' /\ InSection'
  BY <1>0, <1>1, <1>3 DEF NothingYet, InSection
<1>15. /\ \A i \in prose : i \in DOMAIN doc /\ First <= i /\ i < at
       /\ \A n \in 1..d : \A i \in derived[n].lines :
            i \in DOMAIN doc /\ First <= i /\ i < at /\ i \notin prose
       /\ \A m, n \in 1..d : m # n => derived[m].lines \cap derived[n].lines = {}
       /\ \A n \in 1..o : \A i \in out[n].lines : i \in DOMAIN doc /\ i < First
       /\ \A m, n \in 1..o : m # n => out[m].lines \cap out[n].lines = {}
  BY <1>0, <1>1, <1>9, ScanFacts DEF LinesOnce
<1>16. \A i \in DOMAIN doc : /\ ~(i < First /\ First <= i)
                             /\ i < First => i < at
  BY <1>1
<1>17. LinesOnce'
  <2>1. ASSUME NEW n \in 1..(o + 1 + d), NEW i \in out'[n].lines PROVE i \in DOMAIN doc /\ i < at
    <3>1. CASE n \in 1..o
      BY <2>1, <3>1, <1>10, <1>15, <1>16
    <3>2. CASE n = o + 1
      BY <2>1, <3>2, <1>8, <1>10, <1>15
    <3>3. CASE \E k \in 1..d : n = o + 1 + k
      <4>1. PICK k \in 1..d : n = o + 1 + k
        BY <3>3
      <4>2. i \in derived[k].lines
        BY <2>1, <4>1, <1>10
      <4> QED
        BY <4>2, <1>15
    <3> QED
      BY <3>1, <3>2, <3>3, <1>11
  <2>2. /\ \A m \in 1..o : out[m].lines \cap prose = {}
        /\ \A m \in 1..o, k \in 1..d : out[m].lines \cap derived[k].lines = {}
        /\ \A k \in 1..d : prose \cap derived[k].lines = {}
    BY <1>15, <1>16
  <2>3. ASSUME NEW m \in 1..(o + 1 + d), NEW n \in 1..(o + 1 + d), m < n
        PROVE  out'[m].lines \cap out'[n].lines = {}
    <3>1. CASE n \in 1..o
      <4>1. m \in 1..o /\ m # n
        BY <2>3, <3>1, <1>9
      <4> QED
        BY <3>1, <4>1, <1>10, <1>15
    <3>2. CASE n = o + 1
      <4>1. m \in 1..o
        BY <2>3, <3>2, <1>9
      <4> QED
        BY <3>2, <4>1, <2>2, <1>8, <1>10
    <3>3. CASE \E k \in 1..d : n = o + 1 + k
      <4>1. PICK k \in 1..d : n = o + 1 + k
        BY <3>3
      <4>2. out'[n].lines = derived[k].lines
        BY <4>1, <1>10
      <4>3. CASE m \in 1..o
        BY <4>2, <4>3, <2>2, <1>10
      <4>4. CASE m = o + 1
        BY <4>2, <4>4, <2>2, <1>8, <1>10
      <4>5. CASE \E l \in 1..d : m = o + 1 + l
        <5>1. PICK l \in 1..d : m = o + 1 + l
          BY <4>5
        <5>2. l # k /\ out'[m].lines = derived[l].lines
          BY <2>3, <4>1, <5>1, <1>9, <1>10
        <5> QED
          BY <4>2, <5>2, <1>15
      <4> QED
        BY <4>3, <4>4, <4>5, <1>11
    <3> QED
      BY <3>1, <3>2, <3>3, <1>11
  <2>4. \A m, n \in 1..(o + 1 + d) : m # n => out'[m].lines \cap out'[n].lines = {}
    <3> SUFFICES ASSUME NEW m \in 1..(o + 1 + d), NEW n \in 1..(o + 1 + d), m # n
                 PROVE  out'[m].lines \cap out'[n].lines = {}
      OBVIOUS
    <3>1. m < n \/ n < m
      BY <1>9
    <3>2. out'[m].lines \cap out'[n].lines = out'[n].lines \cap out'[m].lines
      OBVIOUS
    <3> QED
      BY <3>1, <3>2, <2>3
  <2>5. DOMAIN derived' = {} /\ prose' = {} /\ block' = {}
    BY <1>0, <1>3
  <2> QED
    BY <1>0, <1>2, <1>10, <2>1, <2>4, <2>5 DEF LinesOnce
<1>18. TextKept'
  <2> SUFFICES ASSUME NEW i \in DOMAIN doc, i < at, ~Blank(i)
               PROVE  \E n \in 1..(o + 1 + d) : i \in out'[n].lines
    BY <1>0, <1>2, <1>4, <1>10 DEF TextKept
  <2>1. CASE i \in prose
    <3>1. o + 1 \in 1..(o + 1 + d) /\ i \in out'[o + 1].lines
      BY <2>1, <1>8, <1>9, <1>10
    <3> QED
      BY <3>1
  <2>2. CASE \E n \in 1..d : i \in derived[n].lines
    <3>1. PICK n \in 1..d : i \in derived[n].lines
      BY <2>2
    <3>2. o + 1 + n \in 1..(o + 1 + d) /\ i \in out'[o + 1 + n].lines
      BY <3>1, <1>9, <1>10
    <3> QED
      BY <3>2
  <2>3. CASE \E n \in 1..o : i \in out[n].lines
    <3>1. PICK n \in 1..o : i \in out[n].lines
      BY <2>3
    <3>2. n \in 1..(o + 1 + d) /\ i \in out'[n].lines
      BY <3>1, <1>9, <1>10
    <3> QED
      BY <3>2
  <2> QED
    BY <2>1, <2>2, <2>3, <1>0, <1>1, <1>3, <1>9 DEF TextKept
<1>19. TablesHeaded'
  <2>1. ASSUME NEW n \in 1..(o + 1 + d), out'[n].type = "table"
        PROVE  Headed(out'[n].lines)
    <3>1. CASE n \in 1..o
      BY <2>1, <3>1, <1>9, <1>10 DEF TablesHeaded
    <3>2. CASE n = o + 1
      BY <2>1, <3>2, <1>8, <1>10
    <3>3. CASE \E k \in 1..d : n = o + 1 + k
      <4>1. PICK k \in 1..d : n = o + 1 + k
        BY <3>3
      <4>2. out'[n] = derived[k] /\ k \in DOMAIN derived
        BY <4>1, <1>9, <1>10
      <4> QED
        BY <2>1, <4>2 DEF TablesHeaded
    <3> QED
      BY <3>1, <3>2, <3>3, <1>11
  <2>2. DOMAIN derived' = {} /\ stage' # "table"
    BY <1>0
  <2> QED
    BY <1>4, <1>10, <2>1, <2>2 DEF TablesHeaded, Headed
\* The ids: no chunk before had this section's.
<1>20. \A u \in Types : u # "s" /\ u # "root"
  BY DEF Types
<1>21. /\ c.id # NoId /\ ((c.id.of = "root" /\ sec = 0) \/ (c.id.of = "s" /\ sec > 0 /\ c.id.n = sec - 1))
  BY <1>1, <1>8, IdParts
<1>22. c.id.of \notin Types
  BY <1>20, <1>21
<1>23. /\ \A n \in 1..o : Given(out[n])
       /\ \A m, n \in 1..o : m # n => out[m].id # out[n].id
       /\ \A n \in 1..o : out[n].parent # NoId => \E m \in 1..(n - 1) : out[m].id = out[n].parent
       /\ \A n \in 1..d : /\ derived[n].id.of \in Types
                          /\ derived[n].id.n <= count[derived[n].id.of]
                          /\ derived[n].parent = c.id
                          /\ \A m \in 1..o : out[m].id # derived[n].id
       /\ \A m, n \in 1..d : m # n => derived[m].id # derived[n].id
  BY <1>5, <1>9 DEF IdsOnce
<1>24. ASSUME NEW n \in 1..o, out[n].id = c.id PROVE FALSE
  <2>1. Given(out[n])
    BY <1>23
  <2>2. CASE c.id.of = "root" /\ sec = 0
    BY <2>1, <2>2, <1>20, <1>24 DEF Given
  <2>3. CASE c.id.of = "s" /\ sec > 0 /\ c.id.n = sec - 1
    <3>1. out[n].id.n + 1 < sec
      BY <2>1, <2>3, <1>20, <1>24 DEF Given
    <3> QED
      BY <3>1, <2>3, <1>1, <1>24
  <2> QED
    BY <2>2, <2>3, <1>21
<1>25. \A n \in 1..d : derived[n].id # c.id
  BY <1>22, <1>23
<1>26. IdsOnce'
  <2>1. ASSUME NEW n \in 1..(o + 1 + d) PROVE Given(out[n])'
    <3>1. CASE n \in 1..o
      <4>1. \A t \in Types : count'[t] \in Nat /\ count[t] <= count'[t]
        BY <1>0 DEF WikiTypeOK
      <4>2. sec' \in Nat /\ sec <= sec' /\ n \in DOMAIN out /\ out'[n] = out[n] /\ Given(out[n])
        BY <3>1, <1>0, <1>1, <1>9, <1>10, <1>23
      <4>3. Given(out[n])'
        BY <4>1, <4>2, GivenStays
      <4> QED
        BY <4>3
    <3>2. CASE n = o + 1
      <4>1. out'[n] = c
        BY <3>2, <1>10
      <4>2. (c.id.of = "root" /\ sec' > 0) \/ (c.id.of = "s" /\ c.id.n + 1 < sec')
        BY <1>0, <1>1, <1>21
      <4> QED
        BY <4>1, <4>2 DEF Given
    <3>3. CASE \E k \in 1..d : n = o + 1 + k
      <4>1. PICK k \in 1..d : n = o + 1 + k
        BY <3>3
      <4>2. out'[n] = derived[k] /\ count' = count
        BY <4>1, <1>0, <1>10
      <4>3. derived[k].id.of \in Types /\ derived[k].id.n <= count[derived[k].id.of]
        BY <1>23
      <4> QED
        BY <4>2, <4>3 DEF Given
    <3> QED
      BY <3>1, <3>2, <3>3, <1>11
  <2>2. ASSUME NEW m \in 1..(o + 1 + d), NEW n \in 1..(o + 1 + d), m < n
        PROVE  out'[m].id # out'[n].id
    <3>1. CASE n \in 1..o
      <4>1. m \in 1..o /\ m # n
        BY <2>2, <3>1, <1>9
      <4> QED
        BY <3>1, <4>1, <1>10, <1>23
    <3>2. CASE n = o + 1
      <4>1. m \in 1..o
        BY <2>2, <3>2, <1>9
      <4> QED
        BY <3>2, <4>1, <1>10, <1>24
    <3>3. CASE \E k \in 1..d : n = o + 1 + k
      <4>1. PICK k \in 1..d : n = o + 1 + k
        BY <3>3
      <4>2. out'[n] = derived[k]
        BY <4>1, <1>10
      <4>3. CASE m \in 1..o
        BY <4>2, <4>3, <1>10, <1>23
      <4>4. CASE m = o + 1
        BY <4>2, <4>4, <1>10, <1>25
      <4>5. CASE \E l \in 1..d : m = o + 1 + l
        <5>1. PICK l \in 1..d : m = o + 1 + l
          BY <4>5
        <5>2. l # k /\ out'[m] = derived[l]
          BY <2>2, <4>1, <5>1, <1>9, <1>10
        <5> QED
          BY <4>2, <5>2, <1>23
      <4> QED
        BY <4>3, <4>4, <4>5, <1>11
    <3> QED
      BY <3>1, <3>2, <3>3, <1>11
  <2>3. \A m, n \in 1..(o + 1 + d) : m # n => out'[m].id # out'[n].id
    <3> SUFFICES ASSUME NEW m \in 1..(o + 1 + d), NEW n \in 1..(o + 1 + d), m # n
                 PROVE  out'[m].id # out'[n].id
      OBVIOUS
    <3>1. m < n \/ n < m
      BY <1>9
    <3> QED
      BY <3>1, <2>2
  <2>4. ASSUME NEW n \in 1..(o + 1 + d), out'[n].parent # NoId
        PROVE  \E m \in 1..(n - 1) : out'[m].id = out'[n].parent
    <3>1. CASE n \in 1..o
      <4>1. out'[n] = out[n]
        BY <3>1, <1>10
      <4>2. PICK m \in 1..(n - 1) : out[m].id = out[n].parent
        BY <3>1, <4>1, <2>4, <1>23
      <4>3. m \in 1..o
        BY <3>1, <1>9
      <4> QED
        BY <4>1, <4>2, <4>3, <1>10
    <3>2. CASE n = o + 1
      BY <2>4, <3>2, <1>8, <1>10
    <3>3. CASE \E k \in 1..d : n = o + 1 + k
      <4>1. PICK k \in 1..d : n = o + 1 + k
        BY <3>3
      <4>2. out'[n].parent = c.id /\ out'[o + 1].id = c.id
        BY <4>1, <1>10, <1>23
      <4>3. o + 1 \in 1..(n - 1)
        BY <4>1, <1>9
      <4> QED
        BY <4>2, <4>3
    <3> QED
      BY <3>1, <3>2, <3>3, <1>11
  <2>5. DOMAIN derived' = {} /\ DOMAIN out' = 1..(o + 1 + d)
    BY <1>0, <1>10
  <2>6. (\A n \in DOMAIN out : Given(out[n]))'
    BY <2>1, <2>5
  <2> QED
    BY <2>3, <2>4, <2>5, <2>6 DEF IdsOnce
<1>27. SectionsMade'
  <2> SUFFICES ASSUME NEW k \in 1..Len(flat), k < sec + 1
               PROVE  \E n \in 1..(o + 1 + d) :
                        out'[n].id = Id("s", k - 1) /\ flat[k].line \in out'[n].lines
    BY <1>0, <1>1, <1>10 DEF SectionsMade
  <2>1. CASE k < sec
    <3>1. PICK n \in 1..o : out[n].id = Id("s", k - 1) /\ flat[k].line \in out[n].lines
      BY <2>1, <1>0, <1>1, <1>9 DEF SectionsMade
    <3>2. n \in 1..(o + 1 + d) /\ out'[n] = out[n]
      BY <1>9, <1>10
    <3> QED
      BY <3>1, <3>2
  <2>2. CASE k = sec
    <3>1. sec > 0 /\ First = flat[k].line
      BY <2>2, <1>1 DEF First
    <3>2. c.id = Id("s", k - 1) /\ flat[k].line \in c.lines
      BY <2>2, <3>1, <1>1, <1>8
    <3>3. o + 1 \in 1..(o + 1 + d)
      BY <1>9
    <3> QED
      BY <3>2, <3>3, <1>10
  <2> QED
    BY <2>1, <2>2, <1>1
<1> QED
  BY <1>12, <1>13, <1>14, <1>17, <1>18, <1>19, <1>26, <1>27

\* A step that goes over the line in hand.
LEMMA OverLine ==
  ASSUME WikiInv, Scanning, Inside(at), at' = at + 1
  PROVE  Passes /\ Passed = {at} /\ at \in DOMAIN doc
<1>1. /\ Len(doc) \in Nat /\ DOMAIN doc = 1..Len(doc) /\ at \in Nat \ {0}
      /\ at <= Len(doc) /\ ~Heading(at)
  BY ScanFacts DEF Inside
<1>2. at \in DOMAIN doc /\ at' \in Nat \ {0} /\ at <= at' /\ at' <= Len(doc) + 1
  BY <1>1
<1>3. \A i \in DOMAIN doc : at <= i /\ i < at + 1 <=> i = at
  BY <1>1
<1>4. Passed = {at}
  BY <1>2, <1>3 DEF Passed
<1> QED
  BY <1>1, <1>2, <1>4 DEF Passes

\* A step that goes over no line.
LEMMA OverNoLine ==
  ASSUME WikiInv, Scanning, at' = at
  PROVE  Passes /\ Passed = {}
<1>1. /\ Len(doc) \in Nat /\ DOMAIN doc = 1..Len(doc) /\ at \in Nat \ {0} /\ at <= Len(doc) + 1
  BY ScanFacts
<1>2. \A i \in DOMAIN doc : ~(at <= i /\ i < at)
  BY <1>1
<1>3. Passed = {}
  BY <1>2 DEF Passed
<1> QED
  BY <1>1, <1>3 DEF Passes

\* The scanner's steps.
LEMMA LineScanned ==
  ASSUME WikiInv,
         \/ Prose \/ ImageLine \/ OpenFence \/ OpenTable \/ OpenList
         \/ BlockLine \/ CloseFence \/ EndBlock
  PROVE  WikiInv'
<1>1. stage = "scan" => block = {}
  BY DEF WikiInv, NothingYet
<1>2. stage = "table" => Headed(block)
  BY DEF WikiInv, TablesHeaded
<1>3. \A i : (Pipe(i) \/ Is(i, {"separator"})) => i \in DOMAIN doc /\ ~Heading(i) /\ Pipe(i)
  BY DEF Pipe, Heading, Is
<1>4. stage \in {"code", "table", "ordered"} => stage # "scan" /\ stage \in Types /\ stage \in WikiStages
  BY DEF Types, WikiStages
<1>5. CASE Prose
  <2>1. /\ Scanning /\ Inside(at) /\ at' = at + 1 /\ prose' = prose \cup Filled({at})
        /\ UNCHANGED <<doc, stage, out, tree, stack, trail, flat, sec, block, derived, count>>
        /\ stage = "scan"
    BY <1>5 DEF Prose, Scanning, tocVars
  <2>2. Passes /\ Passed = {at}
    BY <2>1, OverLine
  <2>3. \A i : (Filled({at}) \subseteq {at}) /\ (i \in {at} /\ ~Blank(i) => i \in Filled({at}))
    BY DEF Filled
  <2>4. Taken
    BY <1>1, <2>1, <2>2, <2>3 DEF Taken
  <2>5. Scanning' /\ stage' \in WikiStages
    BY <2>1 DEF Scanning, WikiStages
  <2> QED
    BY <2>1, <2>4, <2>5, LinesTaken
<1>6. CASE ImageLine
  <2>1. /\ Scanning /\ Inside(at) /\ at' = at + 1 /\ Emit("image", {at})
        /\ UNCHANGED <<doc, stage, out, tree, stack, trail, flat, sec, prose, block>>
        /\ stage = "scan"
    BY <1>6 DEF ImageLine, Scanning, tocVars
  <2>2. Passes /\ Passed = {at}
    BY <2>1, OverLine
  <2>3. Derives("image", {at}) /\ "image" \in Types
    BY <1>1, <2>1, <2>2 DEF Derives, Types
  <2> QED
    BY <2>1, <2>3, LinesDerived
<1>7. CASE OpenFence
  <2>1. /\ Scanning /\ Inside(at) /\ at' = at + 1 /\ block' = {at} /\ stage' = "code"
        /\ UNCHANGED <<doc, out, tree, stack, trail, flat, sec, prose, derived, count>>
        /\ stage = "scan"
    BY <1>7 DEF OpenFence, Scanning, tocVars
  <2>2. Passes /\ Passed = {at}
    BY <2>1, OverLine
  <2>3. at \notin prose
    <3>1. \A i \in prose : i < at
      BY <2>1, ScanFacts DEF WikiInv, LinesOnce
    <3>2. at \in Nat
      BY <2>1, ScanFacts
    <3> QED
      BY <3>1, <3>2
  <2>4. Taken
    BY <1>1, <2>1, <2>2, <2>3 DEF Taken
  <2>5. Scanning' /\ stage' \in WikiStages
    BY <2>1 DEF Scanning, WikiStages
  <2> QED
    BY <2>1, <2>4, <2>5, LinesTaken
<1>8. CASE OpenTable
  <2>1. /\ Scanning /\ Inside(at) /\ at' = at + 2 /\ block' = {at, at + 1} /\ stage' = "table"
        /\ UNCHANGED <<doc, out, tree, stack, trail, flat, sec, prose, derived, count>>
        /\ stage = "scan" /\ Table(at) /\ Pipe(at) /\ Is(at + 1, {"separator"})
    BY <1>8 DEF OpenTable, Table, Scanning, tocVars
  <2>2. /\ Len(doc) \in Nat /\ DOMAIN doc = 1..Len(doc) /\ at \in Nat \ {0}
        /\ at \in DOMAIN doc /\ at + 1 \in DOMAIN doc
        /\ ~Heading(at) /\ ~Heading(at + 1) /\ Pipe(at) /\ Pipe(at + 1)
    BY <2>1, <1>3, ScanFacts
  <2>3. \A i \in DOMAIN doc : at <= i /\ i < at + 2 <=> i = at \/ i = at + 1
    BY <2>2
  <2>4. Passed = {at, at + 1}
    BY <2>1, <2>2, <2>3 DEF Passed
  <2>5. Passes
    <3>1. at' \in Nat \ {0} /\ at <= at' /\ at' <= Len(doc) + 1
      BY <2>1, <2>2
    <3> QED
      BY <3>1, <2>2, <2>4 DEF Passes
  <2>6. at \notin prose /\ at + 1 \notin prose
    <3>1. \A i \in prose : i < at
      BY <2>1, ScanFacts DEF WikiInv, LinesOnce
    <3> QED
      BY <3>1, <2>2
  <2>9. Headed({at, at + 1})
    BY <2>1, <2>2 DEF Headed
  <2>7. Taken
    BY <1>1, <2>1, <2>2, <2>4, <2>5, <2>6, <2>9 DEF Taken
  <2>8. Scanning' /\ stage' \in WikiStages
    BY <2>1 DEF Scanning, WikiStages
  <2> QED
    BY <2>1, <2>7, <2>8, LinesTaken
<1>9. CASE OpenList
  <2>1. /\ Scanning /\ at' = at /\ block' = {} /\ stage' = "ordered"
        /\ UNCHANGED <<doc, out, tree, stack, trail, flat, sec, prose, derived, count>>
        /\ stage = "scan"
    BY <1>9 DEF OpenList, Scanning, tocVars
  <2>2. Passes /\ Passed = {}
    BY <2>1, OverNoLine
  <2>3. Taken
    BY <1>1, <2>1, <2>2 DEF Taken
  <2>4. Scanning' /\ stage' \in WikiStages
    BY <2>1 DEF Scanning, WikiStages
  <2> QED
    BY <2>1, <2>3, <2>4, LinesTaken
<1>10. CASE BlockLine
  <2>1. /\ Scanning /\ at' = at + 1 /\ block' = block \cup {at}
        /\ UNCHANGED <<doc, stage, out, tree, stack, trail, flat, sec, prose, derived, count>>
        /\ stage \in {"code", "table", "ordered"} /\ ~Ends(at)
    BY <1>10 DEF BlockLine, Scanning, tocVars
  <2>2. Inside(at) /\ (stage = "table" => Pipe(at))
    BY <2>1 DEF Ends, ListStops
  <2>3. Passes /\ Passed = {at}
    BY <2>1, <2>2, OverLine
  <2>4. at \notin prose
    <3>1. \A i \in prose : i < at
      BY <2>1, ScanFacts DEF WikiInv, LinesOnce
    <3>2. at \in Nat
      BY <2>1, ScanFacts
    <3> QED
      BY <3>1, <3>2
  <2>7. stage = "table" => Headed(block')
    <3>1. \A i \in block : i < at /\ i \in Nat
      BY <2>1, ScanFacts DEF WikiInv, LinesOnce
    <3>2. at \in Nat
      BY <2>1, ScanFacts
    <3>3. ASSUME Headed(block) PROVE Headed(block')
      <4>1. PICK m \in block : Table(m) /\ m + 1 \in block /\ \A j \in block : m <= j
        BY <3>3 DEF Headed
      <4>2. m <= at
        BY <3>1, <3>2, <4>1
      <4> QED
        BY <2>1, <4>1, <4>2 DEF Headed
    <3> QED
      BY <1>2, <3>3
  <2>5. Taken
    BY <1>4, <2>1, <2>2, <2>3, <2>4, <2>7 DEF Taken
  <2>6. Scanning' /\ stage' \in WikiStages
    BY <1>4, <2>1 DEF Scanning
  <2> QED
    BY <2>1, <2>5, <2>6, LinesTaken
<1>11. CASE CloseFence
  <2>1. /\ Scanning /\ Inside(at) /\ at' = at + 1 /\ Emit("code", block \cup {at})
        /\ stage' = "scan" /\ block' = {}
        /\ UNCHANGED <<doc, out, tree, stack, trail, flat, sec, prose>>
    BY <1>11 DEF CloseFence, Scanning, tocVars
  <2>2. Passes /\ Passed = {at}
    BY <2>1, OverLine
  <2>3. Derives("code", block \cup {at}) /\ "code" \in Types
    BY <2>1, <2>2 DEF Derives, Types
  <2> QED
    BY <2>1, <2>3, LinesDerived
<1>12. CASE EndBlock
  <2>1. /\ Scanning /\ at' = at /\ stage' = "scan" /\ block' = {}
        /\ IF block = {} THEN UNCHANGED <<derived, count>> ELSE Emit(stage, block)
        /\ UNCHANGED <<doc, out, tree, stack, trail, flat, sec, prose>>
        /\ stage \in {"code", "table", "ordered"}
    BY <1>12 DEF EndBlock, Scanning, tocVars
  <2>2. Passes /\ Passed = {}
    BY <2>1, OverNoLine
  <2>3. CASE block = {}
    <3>1. Taken
      BY <2>1, <2>2, <2>3 DEF Taken
    <3>2. Scanning' /\ stage' \in WikiStages /\ UNCHANGED <<derived, count>>
      BY <2>1, <2>3 DEF Scanning, WikiStages
    <3> QED
      BY <2>1, <3>1, <3>2, LinesTaken
  <2>4. CASE block # {}
    <3>1. Emit(stage, block)
      BY <2>1, <2>4
    <3>2. Derives(stage, block)
      BY <1>2, <2>1, <2>2, <3>1 DEF Derives
    <3> QED
      BY <1>4, <2>1, <3>2, LinesDerived
  <2> QED
    BY <2>3, <2>4
<1> QED
  BY <1>5, <1>6, <1>7, <1>8, <1>9, <1>10, <1>11, <1>12

-----------------------------------------------------------------------------
(* Markdown: every step.                                                   *)

\* The steps before the sections.
LEMMA TreeBuilt ==
  ASSUME WikiInv,
         \/ TocLine \/ TocHeading \/ TocEnd \/ Visit \/ VisitEnds \/ FlattenEnds
         \/ Locate \/ LocateEnds
  PROVE  WikiInv'
<1> DEFINE Frame == [of : Nat, seen : Nat]
<1>1. /\ ~Building /\ UNCHANGED <<doc, out, prose, block, derived, count>>
      /\ ~Building' \/ (stage' = "section" /\ sec' = 0)
      /\ stage' \in WikiStages
      /\ stage \in {"toc", "flatten"} => sec = 0
  BY DEF TocLine, TocHeading, TocEnd, Visit, VisitEnds, FlattenEnds, Locate, LocateEnds, Building,
         tocVars, secVars, WikiInv, NothingYet, WikiStages
<1>2. stage' \in {"toc", "flatten"} => sec' = 0
  BY <1>1 DEF TocLine, TocHeading, TocEnd, Visit, VisitEnds, FlattenEnds, Locate, LocateEnds, secVars
<1>3. WikiTypeOK /\ at <= Len(doc) + 1 /\ Len(doc) \in Nat /\ at \in Nat \ {0}
  BY DEF WikiInv, WikiTypeOK
<1>4. /\ WikiTypeOK' /\ at' <= Len(doc') + 1
      /\ HeadingsRead' /\ TreeShape' /\ StackShape' /\ InNodeOrder' /\ SearchFrom'
  <2>1. CASE TocLine
    <3>1. UNCHANGED <<stage, tree, stack, trail, flat, sec>> /\ at' = at + 1 /\ at <= Len(doc)
      BY <2>1 DEF TocLine, tocVars, secVars
    <3>2. WikiTypeOK' /\ at' <= Len(doc') + 1
      BY <1>1, <1>3, <3>1 DEF WikiTypeOK
    <3> QED
      BY <2>1, <3>2, StagesKeepTree
  <2>2. CASE TocHeading
    <3>1. UNCHANGED <<stage, trail, flat, sec>> /\ at' = at + 1 /\ at <= Len(doc) /\ stage = "toc"
      BY <2>2 DEF TocHeading, secVars
    <3>2. /\ HeadingsRead' /\ TreeShape' /\ StackShape'
          /\ tree' \in Seq([level : 0..6, title : STRING, parent : Nat])
          /\ stack' \in Seq(Nat) /\ stack' # << >>
      BY <2>2, HeadingRead
    <3>3. WikiTypeOK' /\ at' <= Len(doc') + 1
      BY <1>1, <1>3, <3>1, <3>2 DEF WikiTypeOK
    <3>4. InNodeOrder' /\ SearchFrom'
      BY <3>1 DEF WikiInv, InNodeOrder, SearchFrom
    <3> QED
      BY <3>2, <3>3, <3>4
  <2>3. CASE TocEnd
    <3>1. UNCHANGED <<tree, stack, flat, at, sec>> /\ trail' = <<[of |-> 0, seen |-> 0]>>
      BY <2>3 DEF TocEnd, secVars
    <3>2. trail' \in Seq(Frame)
      <4>1. [of |-> 0, seen |-> 0] \in Frame
        OBVIOUS
      <4> HIDE DEF Frame
      <4>2. \A x \in Frame : <<x>> \in Seq(Frame)
        OBVIOUS
      <4> QED
        BY <3>1, <4>1, <4>2
    <3>3. WikiTypeOK' /\ at' <= Len(doc') + 1
      BY <1>1, <1>3, <3>1, <3>2 DEF WikiTypeOK
    <3> QED
      BY <2>3, <3>3, StagesKeepTree
  <2>4. CASE Visit
    <3>1. UNCHANGED <<tree, stack, at, sec>>
      BY <2>4 DEF Visit, secVars
    <3>2. /\ HeadingsRead' /\ TreeShape' /\ StackShape' /\ InNodeOrder' /\ SearchFrom'
          /\ flat' \in Seq([node : Nat, line : Nat, path : Seq(Nat)])
          /\ trail' \in Seq([of : Nat, seen : Nat])
      BY <2>4, NodeVisited
    <3> QED
      BY <1>1, <1>3, <3>1, <3>2 DEF WikiTypeOK
  <2>5. CASE VisitEnds
    <3>1. UNCHANGED <<tree, stack, flat, at, sec>>
      BY <2>5 DEF VisitEnds, secVars
    <3>2. /\ HeadingsRead' /\ TreeShape' /\ StackShape' /\ InNodeOrder' /\ SearchFrom'
          /\ trail' \in Seq([of : Nat, seen : Nat])
      BY <2>5, VisitLeft
    <3> QED
      BY <1>1, <1>3, <3>1, <3>2 DEF WikiTypeOK
  <2>6. CASE FlattenEnds
    <3>1. UNCHANGED <<tree, stack, trail, flat>> /\ at' = 1 /\ sec' = 1
      BY <2>6 DEF FlattenEnds, tocVars
    <3>2. WikiTypeOK' /\ at' <= Len(doc') + 1
      BY <1>1, <1>3, <3>1 DEF WikiTypeOK
    <3> QED
      BY <2>6, <3>2, StagesKeepTree
  <2>7. CASE Locate
    <3>1. UNCHANGED <<tree, stack, trail>>
      BY <2>7 DEF Locate, tocVars
    <3>2. /\ HeadingsRead' /\ TreeShape' /\ StackShape' /\ InNodeOrder' /\ SearchFrom'
          /\ flat' \in Seq([node : Nat, line : Nat, path : Seq(Nat)])
          /\ at' \in Nat \ {0} /\ at' <= Len(doc) + 1 /\ sec' \in Nat
      BY <2>7, HeadingFound
    <3> QED
      BY <1>1, <1>3, <3>1, <3>2 DEF WikiTypeOK
  <2>8. CASE LocateEnds
    <3>1. UNCHANGED <<tree, stack, trail, flat, at>> /\ sec' = 0
      BY <2>8 DEF LocateEnds, tocVars
    <3>2. WikiTypeOK' /\ at' <= Len(doc') + 1
      BY <1>1, <1>3, <3>1 DEF WikiTypeOK
    <3> QED
      BY <2>8, <3>2, StagesKeepTree
  <2> QED
    BY <2>1, <2>2, <2>3, <2>4, <2>5, <2>6, <2>7, <2>8
<1>5. /\ NothingYet' /\ InSection' /\ LinesOnce' /\ TextKept' /\ TablesHeaded'
      /\ IdsOnce' /\ SectionsMade'
  BY <1>1, <1>2, <1>4, NoChunksYet
<1> QED
  BY <1>4, <1>5 DEF WikiInv

LEMMA WikiStepInv == WikiInv /\ [WikiNext]_wikiVars => WikiInv'
<1> SUFFICES ASSUME WikiInv, [WikiNext]_wikiVars PROVE WikiInv'
  OBVIOUS
<1>1. CASE WikiNext
  BY <1>1, TreeBuilt, SectionBegun, LineScanned, SectionEnded DEF WikiNext
<1>2. CASE UNCHANGED wikiVars
  <2>1. UNCHANGED <<doc, stage, at, out, tree, stack, trail, flat, sec, prose, block, derived, count>>
    BY <1>2 DEF wikiVars, textVars, tocVars, secVars
  <2>2. WikiTypeOK' /\ at' <= Len(doc') + 1 /\ TreeShape' /\ StackShape'
    BY <2>1 DEF WikiInv, WikiTypeOK, TreeShape, StackShape
  <2>3. HeadingsRead'
    <3>1. ReadUpTo' = ReadUpTo /\ Located' = Located
      BY <2>1 DEF ReadUpTo, Located
    <3>2. PICK h \in [DOMAIN tree -> DOMAIN doc] :
            Reads(h, ReadUpTo) /\ \A k \in DOMAIN flat : k <= Located => flat[k].line = h[k]
      BY DEF WikiInv, HeadingsRead
    <3>3. \A i : Heading(i)' <=> Heading(i)
      BY <2>1 DEF Heading, Is
    <3>4. Reads(h, ReadUpTo)'
      BY <2>1, <3>1, <3>2, <3>3 DEF Reads
    <3> QED
      BY <2>1, <3>1, <3>2, <3>4 DEF HeadingsRead
  <2>4. InNodeOrder'
    BY <2>1 DEF WikiInv, InNodeOrder, TrailShape, Kids
  <2>5. SearchFrom' /\ NothingYet'
    BY <2>1 DEF WikiInv, SearchFrom, NothingYet, Building, Scanning
  <2>6. /\ First' = First /\ Reach' = Reach /\ (Scanning' <=> Scanning) /\ (Building' <=> Building)
        /\ \A i : (Heading(i)' <=> Heading(i)) /\ (Blank(i)' <=> Blank(i)) /\ (Table(i)' <=> Table(i))
        /\ Main.id' = Main.id
    BY <2>1 DEF First, Reach, Scanning, Building, Heading, Blank, Table, Pipe, Is, Main
  <2>7. InSection' /\ LinesOnce' /\ TextKept' /\ TablesHeaded' /\ SectionsMade'
    BY <2>1, <2>6 DEF WikiInv, InSection, LinesOnce, TextKept, TablesHeaded, Headed, SectionsMade
  <2>8. IdsOnce'
    BY <2>1, <2>6 DEF WikiInv, IdsOnce, Given
  <2> QED
    BY <2>2, <2>3, <2>4, <2>5, <2>7, <2>8 DEF WikiInv
<1> QED
  BY <1>1, <1>2

LEMMA WikiInitInv == WikiInit => WikiInv
<1> SUFFICES ASSUME WikiInit PROVE WikiInv
  OBVIOUS
<1>0. /\ doc \in Seq(Line) /\ stage = "toc" /\ at = 1 /\ out = << >>
      /\ tree = << >> /\ stack = <<0>> /\ trail = << >> /\ flat = << >>
      /\ sec = 0 /\ prose = {} /\ block = {} /\ derived = << >>
      /\ count = [t \in Types |-> 0]
  BY PagesAssumption DEF WikiInit
<1>1. Len(doc) \in Nat /\ at <= Len(doc) + 1
  BY <1>0
<1>2. stack \in Seq(Nat) /\ stack # << >> /\ Len(stack) = 1 /\ DOMAIN stack = {1}
  BY <1>0
<1>3. \A S : << >> \in Seq(S)
  OBVIOUS
<1>4. WikiTypeOK
  BY <1>0, <1>2, <1>3 DEF WikiTypeOK, WikiStages
<1>5. ~Building /\ ~Scanning
  BY <1>0 DEF Building, Scanning
<1>6. DOMAIN tree = {} /\ DOMAIN flat = {} /\ DOMAIN out = {} /\ DOMAIN derived = {} /\ Len(tree) = 0
  BY <1>0
<1>7. HeadingsRead
  <2>1. ReadUpTo = 0
    BY <1>0 DEF ReadUpTo
  <2>2. PICK h : h = [k \in {} |-> 1]
    OBVIOUS
  <2>3. h \in [DOMAIN tree -> DOMAIN doc]
    BY <1>6, <2>2
  <2>4. Reads(h, ReadUpTo)
    BY <1>6, <2>1 DEF Reads
  <2> QED
    BY <1>6, <2>3, <2>4 DEF HeadingsRead
<1>8. TreeShape /\ StackShape /\ InNodeOrder /\ SearchFrom
  BY <1>0, <1>2, <1>6 DEF TreeShape, StackShape, InNodeOrder, SearchFrom
<1>9. NothingYet /\ InSection /\ TextKept /\ SectionsMade
  BY <1>0, <1>5 DEF NothingYet, InSection, TextKept, SectionsMade
<1>10. LinesOnce /\ TablesHeaded /\ IdsOnce
  BY <1>0, <1>6 DEF LinesOnce, TablesHeaded, Headed, IdsOnce
<1> QED
  BY <1>1, <1>4, <1>7, <1>8, <1>9, <1>10 DEF WikiInv

LEMMA WikiInvIsKept == WikiSpec => []WikiInv
  BY WikiInitInv, WikiStepInv, PTL DEF WikiSpec

\* When the sections are made.
LEMMA LinesHold == WikiInv => EachLineOnce
<1> SUFFICES ASSUME WikiInv, stage = "sections"
             PROVE  /\ \A i \in DOMAIN doc : ~Blank(i) => \E n \in DOMAIN out :
                         /\ i \in out[n].lines
                         /\ i \in TitleLine(out[n]) \cup RowLines(out[n]) \/ Unrowed(i, out[n])
                    /\ \A m, n \in DOMAIN out : m # n => out[m].lines \cap out[n].lines = {}
  BY DEF EachLineOnce
<1>1. /\ Building /\ ~Scanning /\ prose = {} /\ block = {} /\ derived = << >>
      /\ sec = Len(flat) + 1
  BY DEF Building, Scanning, WikiInv, NothingYet, InSection
<1>2. Reach = Len(doc) + 1 /\ \A i \in DOMAIN doc : i < Len(doc) + 1
  <2>1. Len(flat) \in Nat /\ Len(doc) \in Nat /\ DOMAIN doc = 1..Len(doc)
    BY <1>1, SectionLines
  <2> QED
    BY <1>1, <2>1 DEF Reach, First
<1>3. \A i \in DOMAIN doc : ~Blank(i) => \E n \in DOMAIN out : i \in out[n].lines
  BY <1>1, <1>2 DEF WikiInv, TextKept
<1>4. ASSUME NEW n \in DOMAIN out, NEW i \in out[n].lines
      PROVE  i \in TitleLine(out[n]) \cup RowLines(out[n]) \/ Unrowed(i, out[n])
  <2>1. CASE Heading(i)
    BY <2>1, <1>4 DEF TitleLine
  <2>2. CASE Unrowed(i, out[n])
    BY <2>2
  <2>3. CASE ~Heading(i) /\ ~Unrowed(i, out[n])
    <3>1. out[n].type \in Types \cup {"heading"} /\ out[n].lines \subseteq Nat
      <4>1. out \in Seq(Chunk) /\ n \in DOMAIN out
        BY DEF WikiInv, WikiTypeOK
      <4>2. out[n] \in Chunk
        <5> HIDE DEF Chunk
        <5> QED
          BY <4>1
      <4> QED
        BY <4>2 DEF Chunk
    <3>2. CASE out[n].type = "code"
      BY <2>3, <3>2, <1>4 DEF Unrowed, RowLines
    <3>3. CASE out[n].type = "image"
      BY <3>3, <1>4 DEF RowLines
    <3>4. CASE out[n].type = "table"
      <4>1. PICK m \in out[n].lines :
              Table(m) /\ m + 1 \in out[n].lines /\ \A j \in out[n].lines : m <= j
        BY <3>4 DEF WikiInv, TablesHeaded, Headed
      <4>2. Is(m + 1, {"separator"}) /\ m \in Nat /\ i \in Nat
        BY <3>1, <4>1, <1>4 DEF Table
      <4>3. i # m
        BY <2>3, <3>4, <4>1 DEF Unrowed
      <4>4. PICK j \in out[n].lines : ~(i <= j \/ (i = j + 1 /\ Is(i, {"separator"})))
        BY <2>3, <3>4 DEF Unrowed
      <4>5. i # m + 1
        <5>1. ASSUME i = m + 1 PROVE FALSE
          <6>1. Is(i, {"separator"}) /\ ~(i <= j) /\ i # j + 1 /\ m <= j /\ j \in Nat
            BY <3>1, <4>1, <4>2, <4>4, <5>1
          <6> QED
            BY <4>2, <5>1, <6>1
        <5> QED
          BY <5>1
      <4>6. m < m + 1 /\ m + 1 < i
        <5>1. m <= i
          BY <4>1, <1>4
        <5> QED
          BY <4>2, <4>3, <4>5, <5>1
      <4> QED
        BY <3>4, <4>1, <4>6, <1>4 DEF RowLines
    <3>5. CASE out[n].type \in {"heading", "ordered"}
      <4>1. ~Is(i, {"heading", "tag"})
        BY <2>3, <3>5 DEF Unrowed, Heading, Is
      <4> QED
        BY <3>5, <4>1, <1>4 DEF RowLines
    <3> QED
      BY <3>1, <3>2, <3>3, <3>4, <3>5 DEF Types
  <2> QED
    BY <2>1, <2>2, <2>3
<1>5. \A m, n \in DOMAIN out : m # n => out[m].lines \cap out[n].lines = {}
  BY DEF WikiInv, LinesOnce
<1> QED
  BY <1>3, <1>4, <1>5

\* No text is lost between the sections or stored twice, whatever the document:
\* expandStructuredBlocks gives every line of a section that is not blank to one
\* block or to the section's own chunk.
THEOREM LinesServed == WikiSpec => []EachLineOnce
  BY WikiInvIsKept, LinesHold, PTL

LEMMA SectionsHold == WikiInv => SectionsInOrder
<1> SUFFICES ASSUME WikiInv, stage = "sections"
             PROVE  SectionPerHeading /\ ParentsFirst
  BY DEF SectionsInOrder
<1>1. Building /\ sec = Len(flat) + 1
  BY DEF Building, WikiInv, InSection
<1>2. /\ Len(doc) \in Nat /\ DOMAIN doc = 1..Len(doc)
      /\ Len(flat) \in Nat /\ DOMAIN flat = 1..Len(flat)
      /\ \A k \in 1..Len(flat) : flat[k].line \in 1..Len(doc) /\ Heading(flat[k].line)
      /\ \A j, k \in 1..Len(flat) : j < k => flat[j].line < flat[k].line
      /\ \A i \in 1..Len(doc) : Heading(i) => \E k \in 1..Len(flat) : flat[k].line = i
  BY <1>1, SectionLines
<1>3. Len(flat) = Cardinality({i \in DOMAIN doc : Heading(i)})
  <2> DEFINE Headings == {i \in DOMAIN doc : Heading(i)}
             g == [k \in 1..Len(flat) |-> flat[k].line]
  <2>1. g \in Bijection(1..Len(flat), Headings)
    <3>1. g \in [1..Len(flat) -> Headings]
      BY <1>2
    <3>2. \A j, k \in 1..Len(flat) : g[j] = g[k] => j = k
      <4> SUFFICES ASSUME NEW j \in 1..Len(flat), NEW k \in 1..Len(flat), j # k PROVE g[j] # g[k]
        OBVIOUS
      <4>1. j < k \/ k < j
        BY <1>2
      <4>2. flat[j].line # flat[k].line
        BY <4>1, <1>2
      <4> QED
        BY <4>2
    <3>3. \A i \in Headings : \E k \in 1..Len(flat) : g[k] = i
      BY <1>2
    <3> HIDE DEF g, Headings
    <3> QED
      BY <3>1, <3>2, <3>3 DEF Bijection, Injection, Surjection, IsInjective
  <2>2. Cardinality(Headings) = Len(flat)
    <3> HIDE DEF g, Headings
    <3>1. ExistsBijection(1..Len(flat), Headings)
      BY <2>1 DEF ExistsBijection
    <3> QED
      BY <3>1, <1>2, FS_CountingElements
  <2> QED
    BY <2>2
<1>4. ASSUME NEW k \in DOMAIN flat
      PROVE  /\ Heading(flat[k].line)
             /\ \E n \in DOMAIN out : out[n].id = Id("s", k - 1) /\ flat[k].line \in out[n].lines
             /\ k > 1 => flat[k - 1].line < flat[k].line
  <2>1. k \in 1..Len(flat) /\ k < sec /\ (k > 1 => k - 1 \in 1..Len(flat) /\ k - 1 < k)
    BY <1>1, <1>2
  <2>2. \E n \in DOMAIN out : out[n].id = Id("s", k - 1) /\ flat[k].line \in out[n].lines
    BY <1>1, <2>1 DEF WikiInv, SectionsMade
  <2> QED
    BY <1>2, <2>1, <2>2
<1>5. SectionPerHeading
  BY <1>3, <1>4 DEF SectionPerHeading
<1>6. ParentsFirst
  BY DEF WikiInv, IdsOnce, ParentsFirst
<1> QED
  BY <1>5, <1>6

\* Each heading of a document is found again as its own section, in document
\* order, and the chunks are stored parent first under ids of their own: the order
\* in which FlattenTOC visits the tree is the document's.
THEOREM SectionsStand == WikiSpec => []SectionsInOrder
  BY WikiInvIsKept, SectionsHold, PTL
-----------------------------------------------------------------------------
(* The pipelines side by side.                                             *)

\* Each route has loops of its own.
Routed == /\ route \in {"wiki", "pdf", "code", "prose", "parser"}
          /\ route = "wiki" => WikiInv
          /\ route = "pdf" => FixedInv
          /\ route = "code" => SourceInv
          /\ route = "prose" => ProseInv
          /\ route = "parser" => stage = "none"

LEMMA RouteBegun == PipelinesInit => ParserTypes /\ Routed
<1> SUFFICES ASSUME PipelinesInit PROVE ParserTypes /\ Routed
  OBVIOUS
<1>1. ParserTypes
  <2>1. TypeOK
    BY ParserInit DEF PipelinesInit, ParserInv
  <2>2. \A r \in Requests : pc[r] \notin Steps
    BY DEF PipelinesInit, Init, Steps
  <2> QED
    BY <2>1, <2>2 DEF ParserTypes
<1>2. Routed
  BY WikiInitInv, InitInv, SourceInitInv, ProseInitInv DEF PipelinesInit, Routed, TextIdle
<1> QED
  BY <1>1, <1>2

LEMMA RouteKept ==
  ParserTypes /\ Routed /\ [PipelinesNext]_pipelineVars => ParserTypes' /\ Routed'
<1> SUFFICES ASSUME ParserTypes, Routed, [PipelinesNext]_pipelineVars
             PROVE  ParserTypes' /\ Routed'
  OBVIOUS
<1>1. /\ route' = route
      /\ [Next]_vars
      /\ route = "wiki" => [WikiNext]_wikiVars
      /\ route = "pdf" => [FixedNext]_fixedVars
      /\ route = "code" => [CodeNext]_codeVars
      /\ route = "prose" => [ProseNext]_proseVars
      /\ route = "parser" => UNCHANGED stage
  BY DEF PipelinesNext, WikiStep, FixedStep, CodeStep, ProseStep, ParserStep, pipelineVars,
         wikiVars, textVars, fixedVars, codeVars, proseVars
<1>2. ParserTypes'
  BY <1>1, TypeStep
<1>3. /\ route = "wiki" => WikiInv'
      /\ route = "pdf" => FixedInv'
      /\ route = "code" => SourceInv'
      /\ route = "prose" => ProseInv'
  BY <1>1, WikiStepInv, StepInv, SourceStepInv, ProseStepInv DEF Routed
<1> QED
  BY <1>1, <1>2, <1>3 DEF Routed

LEMMA RoutesKept == PipelinesSpec => [](ParserTypes /\ Routed)
  BY RouteBegun, RouteKept, PTL DEF PipelinesSpec

\* Whatever runs, and for requests served side by side too, the variables keep
\* their types: no cursor of the chunkers (heading.go, structured.go, fixed.go,
\* code.go, splitmask.go) leaves its text.
THEOREM PipelinesTypes == PipelinesSpec => []PipelinesTypeOK
<1>1. ParserTypes /\ Routed => PipelinesTypeOK
  BY DEF ParserTypes, Routed, PipelinesTypeOK, WikiInv, FixedInv, SourceInv, ProseInv
<1> QED
  BY <1>1, RoutesKept, PTL

\* The stages tell the pipelines apart, so that what each of them makes of its text
\* holds whichever runs.
THEOREM AnswersKept ==
  PipelinesSpec => [](EachLineOnce /\ SectionsInOrder /\ PiecesKept /\ SourceKept /\ SpansWhole)
<1>1. Routed => EachLineOnce /\ SectionsInOrder /\ PiecesKept /\ SourceKept /\ SpansWhole
  <2> SUFFICES ASSUME Routed
               PROVE  EachLineOnce /\ SectionsInOrder /\ PiecesKept /\ SourceKept /\ SpansWhole
    OBVIOUS
  <2>1. CASE route = "wiki"
    <3>1. EachLineOnce /\ SectionsInOrder /\ stage \in WikiStages
      BY <2>1, LinesHold, SectionsHold DEF Routed, WikiInv, WikiTypeOK
    <3> QED
      BY <3>1 DEF WikiStages, PiecesKept, SourceKept, SpansWhole
  <2>2. CASE route = "pdf"
    <3>1. PiecesKept /\ stage \in {"window", "search", "cut", "skip", "pieces"}
      BY <2>2, PiecesHold DEF Routed, FixedInv, FixedTypeOK
    <3> QED
      BY <3>1 DEF EachLineOnce, SectionsInOrder, SourceKept, SpansWhole
  <2>3. CASE route = "code"
    <3>1. SourceKept /\ stage \in {"boundary", "rows", "source"}
      BY <2>3, SourceHolds DEF Routed, SourceInv, CodeTypeOK
    <3> QED
      BY <3>1 DEF EachLineOnce, SectionsInOrder, PiecesKept, SpansWhole
  <2>4. CASE route = "prose"
    <3>1. SpansWhole /\ stage \in {"mask", "split", "sentences"}
      BY <2>4, SpansHold DEF Routed, ProseInv, ProseTypeOK
    <3> QED
      BY <3>1 DEF EachLineOnce, SectionsInOrder, PiecesKept, SourceKept
  <2>5. CASE route = "parser"
    BY <2>5 DEF Routed, EachLineOnce, SectionsInOrder, PiecesKept, SourceKept, SpansWhole
  <2> QED
    BY <2>1, <2>2, <2>3, <2>4, <2>5 DEF Routed
<1> QED
  BY <1>1, RoutesKept, PTL
=============================================================================
