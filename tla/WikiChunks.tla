----------------------------- MODULE WikiChunks -----------------------------
(***************************************************************************)
(* Ingesting markdown (internal/phloem/domain/wiki.go): the table of       *)
(* contents (toc/markdown.go, toc/toc.go), one chunk per heading           *)
(* (chunker/heading.go) and the lists, tables, code blocks and images      *)
(* taken out of it as chunks of their own (chunker/structured.go).  A line *)
(* of the document is known by what the code's regular expressions say of  *)
(* it, a chunk by the numbers of its lines that are not blank.             *)
(***************************************************************************)
EXTENDS ChunkedText

CONSTANTS Pages   \* the markdown documents

Kinds == {"blank", "text",
          "tag",         \* begins with # and is no heading, like #todo
          "heading", "fence", "image",
          "row",         \* has a |
          "separator",   \* the second row of a table
          "item",        \* an item of an ordered list
          "itemrow"}     \* an item that has a |

Line == [is : Kinds, level : 0..6, title : STRING]

ASSUME PagesAssumption == Pages \subseteq Seq(Line)

VARIABLES
  tree,     \* the headings in document order, each with its parent's number
  stack,    \* numbers of the nodes whose Children slices are on Parse's stack
  trail,    \* FlattenTOC: the slices being visited, outermost first
  flat,     \* the headings in FlattenTOC's order, with path and line
  sec,      \* the section in hand: 0 the introduction, else an index of flat
  prose,    \* lines of the section that stay in its chunk
  block,    \* the lines of the block in hand
  derived,  \* the section's blocks so far
  count     \* blockCounters

tocVars  == <<tree, stack, trail>>
secVars  == <<sec, prose, block, derived, count>>
wikiVars == <<textVars, tocVars, flat, secVars>>

Types == {"ordered", "table", "code", "image"}
NoId  == [of |-> "none", n |-> 0]
Id(of, n) == [of |-> of, n |-> n]

WikiInit == /\ doc \in Pages
            /\ stage = "toc" /\ at = 1 /\ out = << >>
            /\ tree = << >> /\ stack = <<0>> /\ trail = << >> /\ flat = << >>
            /\ sec = 0 /\ prose = {} /\ block = {} /\ derived = << >>
            /\ count = [t \in Types |-> 0]

Is(i, kinds) == i \in DOMAIN doc /\ doc[i].is \in kinds
Heading(i)   == Is(i, {"heading"})
Blank(i)     == Is(i, {"blank"})

-----------------------------------------------------------------------------
(* MarkdownTOCParser.Parse.                                                *)

Kids(n) == {k \in DOMAIN tree : tree[k].parent = n}    \* node 0 is roots

\* The loop that pops the stack stops at its k-th slice.
Stops(k) == \/ k = 1
            \/ Kids(stack[k]) = {}
            \/ tree[Greatest(Kids(stack[k]))].level < doc[at].level

Kept == CHOOSE k \in 1..Len(stack) : Stops(k) /\ \A j \in (k + 1)..Len(stack) : ~Stops(j)

TocLine == /\ stage = "toc" /\ at <= Len(doc)
           /\ ~Heading(at)
           /\ at' = at + 1
           /\ UNCHANGED <<doc, stage, out, tocVars, flat, secVars>>

TocHeading ==
  /\ stage = "toc" /\ at <= Len(doc)
  /\ Heading(at)
  /\ tree' = Append(tree, [level |-> doc[at].level, title |-> doc[at].title,
                           parent |-> stack[Kept]])
  /\ stack' = Append(SubSeq(stack, 1, Kept), Len(tree) + 1)
  /\ at' = at + 1
  /\ UNCHANGED <<doc, stage, out, trail, flat, secVars>>

TocEnd == /\ stage = "toc" /\ at > Len(doc)
          /\ stage' = "flatten"
          /\ trail' = <<[of |-> 0, seen |-> 0]>>
          /\ UNCHANGED <<doc, at, out, tree, stack, flat, secVars>>

-----------------------------------------------------------------------------
(* FlattenTOC: visit is called for a slice and loops over it.              *)

Innermost == trail[Len(trail)]
Unvisited == {k \in Kids(Innermost.of) : k > Innermost.seen}

Visit ==
  /\ stage = "flatten" /\ trail # << >>
  /\ Unvisited # {}
  /\ LET k == Least(Unvisited)
         seen == [trail EXCEPT ![Len(trail)].seen = k] IN
     /\ flat' = Append(flat, [node |-> k, line |-> 0,
                              path |-> [i \in DOMAIN trail |-> seen[i].seen]])
     /\ trail' = Append(seen, [of |-> k, seen |-> 0])
  /\ UNCHANGED <<doc, stage, at, out, tree, stack, secVars>>

VisitEnds ==
  /\ stage = "flatten" /\ trail # << >>
  /\ Unvisited = {}
  /\ trail' = SubSeq(trail, 1, Len(trail) - 1)
  /\ UNCHANGED <<doc, stage, at, out, tree, stack, flat, secVars>>

FlattenEnds == /\ stage = "flatten" /\ trail = << >>
               /\ stage' = "locate"
               /\ at' = 1 /\ sec' = 1
               /\ UNCHANGED <<doc, out, tocVars, flat, prose, block, derived, count>>

-----------------------------------------------------------------------------
(* ByHeadingChunker.Chunks: where the sections begin.                      *)

\* Lines from searchFrom on that have the level and the title of item k.
Found(k) == {i \in at..Len(doc) : /\ Heading(i)
                                  /\ doc[i].level = tree[flat[k].node].level
                                  /\ doc[i].title = tree[flat[k].node].title}

\* Mutated form: every search starts at the top of the document.
Locate_FromTop ==
  /\ stage = "locate" /\ sec <= Len(flat)
  /\ flat' = [flat EXCEPT ![sec].line = IF Found(sec) = {} THEN 0 ELSE Least(Found(sec))]
  /\ sec' = sec + 1
  /\ UNCHANGED <<doc, stage, at, out, tocVars, prose, block, derived, count>>

\* A heading that is not found gets no text and leaves searchFrom alone.
Locate ==
  /\ stage = "locate" /\ sec <= Len(flat)
  /\ LET line == IF Found(sec) = {} THEN 0 ELSE Least(Found(sec)) IN
     /\ flat' = [flat EXCEPT ![sec].line = line]
     /\ at' = IF line = 0 THEN at ELSE line + 1
  /\ sec' = sec + 1
  /\ UNCHANGED <<doc, stage, out, tocVars, prose, block, derived, count>>

LocateEnds == /\ stage = "locate" /\ sec > Len(flat)
              /\ stage' = "section"
              /\ sec' = 0
              /\ UNCHANGED <<doc, at, out, tocVars, flat, prose, block, derived, count>>

\* There is text before the first heading.
HasIntro == \E i \in DOMAIN doc : ~Blank(i) /\ \A j \in 1..i : ~Heading(j)

\* The chunk of the section in hand.
Main == [id |-> IF sec = 0 THEN Id("root", 0) ELSE Id("s", sec - 1),
         parent |-> NoId, type |-> "heading", lines |-> prose]

\* The introduction is the chunk "root", and no chunk if it is blank.
BeginIntro ==
  /\ stage = "section" /\ sec = 0
  /\ IF HasIntro THEN stage' = "scan" /\ at' = 1 /\ sec' = 0
                 ELSE sec' = 1 /\ UNCHANGED <<stage, at>>
  /\ UNCHANGED <<doc, out, tocVars, flat, prose, block, derived, count>>

BeginSection ==
  /\ stage = "section" /\ sec \in DOMAIN flat
  /\ IF flat[sec].line = 0
     THEN out' = Append(out, Main) /\ sec' = sec + 1 /\ UNCHANGED <<stage, at, prose>>
     ELSE /\ stage' = "scan"
          /\ at' = flat[sec].line + 1
          /\ prose' = {flat[sec].line}
          /\ UNCHANGED <<out, sec>>
  /\ UNCHANGED <<doc, tocVars, flat, block, derived, count>>

SectionsEnd == /\ stage = "section" /\ sec > Len(flat)
               /\ stage' = "sections"
               /\ UNCHANGED <<doc, at, out, tocVars, flat, secVars>>

-----------------------------------------------------------------------------
(* expandStructuredBlocks: the lines of one section.                       *)

Inside(i)   == i <= Len(doc) /\ ~Heading(i)     \* the section reaches to line i
Pipe(i)     == Is(i, {"row", "separator", "itemrow"})
Fence(i)    == Is(i, {"fence"})
Image(i)    == Is(i, {"image"})
Table(i)    == Pipe(i) /\ Is(i + 1, {"separator"})
ListItem(i) == Is(i, {"item", "itemrow"}) /\ ~Table(i)

Filled(S) == {i \in S : ~Blank(i)}

Block(t, lines) == [id |-> Id(t, count[t] + 1), type |-> t, lines |-> Filled(lines),
                    parent |-> IF sec = 0 THEN Id("root", 0) ELSE Id("s", sec - 1)]

\* The block is a chunk of its own under the section's.
Emit(t, lines) == /\ derived' = Append(derived, Block(t, lines))
                  /\ count' = [count EXCEPT ![t] = @ + 1]

Prose == /\ stage = "scan" /\ Inside(at)
         /\ ~Fence(at) /\ ~Image(at) /\ ~Table(at) /\ ~ListItem(at)
         /\ prose' = prose \cup Filled({at})
         /\ at' = at + 1
         /\ UNCHANGED <<doc, stage, out, tocVars, flat, sec, block, derived, count>>

ImageLine == /\ stage = "scan" /\ Inside(at) /\ Image(at)
             /\ Emit("image", {at})
             /\ at' = at + 1
             /\ UNCHANGED <<doc, stage, out, tocVars, flat, sec, prose, block>>

OpenFence == /\ stage = "scan" /\ Inside(at) /\ Fence(at)
             /\ stage' = "code" /\ block' = {at} /\ at' = at + 1
             /\ UNCHANGED <<doc, out, tocVars, flat, sec, prose, derived, count>>

OpenTable == /\ stage = "scan" /\ Inside(at) /\ Table(at)
             /\ stage' = "table" /\ block' = {at, at + 1} /\ at' = at + 2
             /\ UNCHANGED <<doc, out, tocVars, flat, sec, prose, derived, count>>

\* The inner loop reads the first item again.
OpenList == /\ stage = "scan" /\ Inside(at) /\ ListItem(at)
            /\ stage' = "ordered" /\ block' = {}
            /\ UNCHANGED <<doc, at, out, tocVars, flat, sec, prose, derived, count>>

\* Mutated form: a row with a | ends the list, also where it is its first item.
ListStops_AtRow(i) == ~Inside(i) \/ Blank(i) \/ Fence(i) \/ Image(i) \/ Pipe(i)

\* A list goes on over lines that are no items, up to these.
ListStops(i) == ~Inside(i) \/ Blank(i) \/ Fence(i) \/ Image(i) \/ Table(i)

\* Line i is no line of the block in hand.
Ends(i) == \/ stage = "code" /\ ~Inside(i)
           \/ stage = "table" /\ (~Inside(i) \/ Blank(i) \/ ~Pipe(i))
           \/ stage = "ordered" /\ ListStops(i)

BlockLine == /\ stage \in {"code", "table", "ordered"} /\ ~Ends(at)
             /\ ~(stage = "code" /\ Fence(at))
             /\ block' = block \cup {at} /\ at' = at + 1
             /\ UNCHANGED <<doc, stage, out, tocVars, flat, sec, prose, derived, count>>

CloseFence == /\ stage = "code" /\ Inside(at) /\ Fence(at)
              /\ Emit("code", block \cup {at})
              /\ stage' = "scan" /\ block' = {} /\ at' = at + 1
              /\ UNCHANGED <<doc, out, tocVars, flat, sec, prose>>

\* A list without lines makes no chunk.
EndBlock == /\ stage \in {"code", "table", "ordered"} /\ Ends(at)
            /\ IF block = {} THEN UNCHANGED <<derived, count>> ELSE Emit(stage, block)
            /\ stage' = "scan" /\ block' = {}
            /\ UNCHANGED <<doc, at, out, tocVars, flat, sec, prose>>

\* Mutated form: the blocks come before the section's own chunk.
EndSection_BlocksFirst ==
  /\ stage = "scan" /\ ~Inside(at)
  /\ out' = Append(out \o derived, Main)
  /\ stage' = "section" /\ sec' = sec + 1 /\ prose' = {} /\ derived' = << >>
  /\ UNCHANGED <<doc, at, tocVars, flat, block, count>>

EndSection == /\ stage = "scan" /\ ~Inside(at)
              /\ out' = Append(out, Main) \o derived
              /\ stage' = "section" /\ sec' = sec + 1 /\ prose' = {} /\ derived' = << >>
              /\ UNCHANGED <<doc, at, tocVars, flat, block, count>>

WikiNext == \/ TocLine \/ TocHeading \/ TocEnd
            \/ Visit \/ VisitEnds \/ FlattenEnds
            \/ Locate \/ LocateEnds
            \/ BeginIntro \/ BeginSection \/ SectionsEnd
            \/ Prose \/ ImageLine \/ OpenFence \/ OpenTable \/ OpenList
            \/ BlockLine \/ CloseFence \/ EndBlock \/ EndSection

WikiSpec == WikiInit /\ [][WikiNext]_wikiVars

-----------------------------------------------------------------------------
(* What the sink makes of a chunk's lines (sink/writer.go:237-357).        *)

\* The line whose text is the title row of the chunk.
TitleLine(c) == {i \in c.lines : Heading(i)}

\* Mutated form: the rows of a table begin a line too late.
RowLines_FromFourth(c) ==
  CASE c.type = "code"  -> {i \in c.lines : ~Fence(i)}
    [] c.type = "image" -> c.lines
    [] c.type = "table" -> LET rows == {i \in c.lines :
                                         \E j, k, m \in c.lines : j < k /\ k < m /\ m < i}
                           IN IF rows = {} THEN c.lines ELSE rows
    [] OTHER -> {i \in c.lines : ~Is(i, {"heading", "tag"})}

\* The lines of the L3 rows: code without its fences, a table without its
\* head, prose and lists without any line that begins with #.
RowLines(c) ==
  CASE c.type = "code"  -> {i \in c.lines : ~Fence(i)}
    [] c.type = "image" -> c.lines
    [] c.type = "table" -> LET rows == {i \in c.lines : \E j, k \in c.lines : j < k /\ k < i}
                           IN IF rows = {} THEN c.lines ELSE rows
    [] OTHER -> {i \in c.lines : ~Is(i, {"heading", "tag"})}

\* Lines of chunk c the rows do without: the fences of code, the head of a table
\* (its first line and the separator below it), and lines like #todo in prose.
Unrowed(i, c) ==
  \/ c.type = "code" /\ Fence(i)
  \/ c.type = "table" /\ \A j \in c.lines : i <= j \/ (i = j + 1 /\ Is(i, {"separator"}))
  \/ c.type \in {"heading", "ordered"} /\ Is(i, {"tag"})

-----------------------------------------------------------------------------
(* Properties.                                                             *)

Ids    == [of : Types \cup {"none", "root", "s"}, n : Nat]
Chunk  == [id : Ids, parent : Ids, type : Types \cup {"heading"}, lines : SUBSET Nat]
WikiStages == {"toc", "flatten", "locate", "section", "scan", "code", "table",
               "ordered", "sections"}

\* The values of the variables of Parse, FlattenTOC and the two chunkers.
WikiTypeOK ==
  /\ doc \in Seq(Line) /\ stage \in WikiStages /\ at \in Nat \ {0}
  /\ out \in Seq(Chunk) /\ derived \in Seq(Chunk)
  /\ tree \in Seq([level : 0..6, title : STRING, parent : Nat])
  /\ stack \in Seq(Nat) /\ stack # << >>
  /\ trail \in Seq([of : Nat, seen : Nat])
  /\ flat \in Seq([node : Nat, line : Nat, path : Seq(Nat)])
  /\ sec \in Nat /\ prose \subseteq DOMAIN doc /\ block \subseteq DOMAIN doc
  /\ count \in [Types -> Nat]

\* Every line that is not blank is in one chunk and in no second one, and it
\* reaches that chunk's title row or L3 rows unless it is a fence of code, one of
\* the two lines at the head of a table, or in prose a line like #todo: no text is
\* lost or stored twice between the section boundaries of heading.go, the block
\* scanner of structured.go and the rows of writer.go, those of tables included.
EachLineOnce == stage = "sections" =>
  /\ \A i \in DOMAIN doc : ~Blank(i) => \E n \in DOMAIN out :
       /\ i \in out[n].lines
       /\ i \in TitleLine(out[n]) \cup RowLines(out[n]) \/ Unrowed(i, out[n])
  /\ \A m, n \in DOMAIN out : m # n => out[m].lines \cap out[n].lines = {}

\* Each heading has a section of its own that begins with it, s0, s1, ... in
\* document order, also where titles repeat: FlattenTOC numbers the headings,
\* and extractMarkdownSections looks them up again by level and title.
SectionPerHeading ==
  /\ Len(flat) = Cardinality({i \in DOMAIN doc : Heading(i)})
  /\ \A k \in DOMAIN flat : /\ Heading(flat[k].line)
                            /\ \E n \in DOMAIN out : /\ out[n].id = Id("s", k - 1)
                                                     /\ flat[k].line \in out[n].lines
                            /\ k > 1 => flat[k - 1].line < flat[k].line

\* The section ids of a document are different, and a block comes after the
\* chunk it names as its parent, without which Write, which goes over the
\* chunks once, would store it with no parent_id.
ParentsFirst ==
  /\ \A m, n \in DOMAIN out : m # n => out[m].id # out[n].id
  /\ \A n \in DOMAIN out : out[n].parent # NoId =>
       \E m \in 1..(n - 1) : out[m].id = out[n].parent

\* The sections and blocks of a document stand as its headings do, under ids by
\* which each finds its heading and its parent.
SectionsInOrder == stage = "sections" => SectionPerHeading /\ ParentsFirst
=============================================================================
