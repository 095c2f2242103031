----------------------------- MODULE CodeChunks -----------------------------
(***************************************************************************)
(* Ingesting code (domain/code.go): buildCodeChunks (chunker/code.go) cuts *)
(* the parser's lines at the top-level declarations, insertCodeL3Lines     *)
(* (sink/writer.go) makes an L3 row of each line and links it to its       *)
(* parent, and restore_content_for_l1 (flows/xylem_flow/restorer.py) reads *)
(* the source back from the rows.                                          *)
(***************************************************************************)
EXTENDS ChunkedText

CONSTANTS Sources   \* what the parser says of the lines of source files

\* parent is the number of the line that the line hangs on, 0 for none.
SourceLine == [anchor : BOOLEAN, parent : Nat, blank : BOOLEAN,
               hash : BOOLEAN]    \* reads like a markdown heading: "# note"

\* The parser hangs a line on an anchor above it.
ASSUME SourcesAssumption == /\ Sources \subseteq Seq(SourceLine)
                            /\ \A s \in Sources : \A i \in DOMAIN s : s[i].parent < i

VARIABLES rows    \* the L3 rows, in the order they are inserted

codeVars == <<textVars, rows>>

Top(i) == i \in DOMAIN doc /\ doc[i].anchor /\ doc[i].parent = 0
Tops   == {i \in DOMAIN doc : Top(i)}

CodeInit == /\ doc \in Sources
            /\ stage = "boundary" /\ at = 1 /\ out = << >>
            /\ rows = << >>

-----------------------------------------------------------------------------
(* buildCodeChunks.                                                        *)

\* The line behind the chunk that begins at line i.
NextTop(i) == IF \E j \in Tops : j > i THEN Least({j \in Tops : j > i}) ELSE Len(doc) + 1

\* ParentIdx of line i in the chunk from..to, counted from 1; 0 for none.
InChunk(i, from, to) == LET p == doc[i].parent IN IF p \in from..to THEN p - from + 1 ELSE 0

\* Mutated form: parents keep the numbers they have in the file.
ChunkOf_Absolute(id, from, to) ==
  [id |-> id, from |-> from, to |-> to,
   parents |-> [i \in 1..(to - from + 1) |-> doc[from + i - 1].parent]]

ChunkOf(id, from, to) ==
  [id |-> id, from |-> from, to |-> to,
   parents |-> [i \in 1..(to - from + 1) |-> InChunk(from + i - 1, from, to)]]

\* No lines: one chunk of the whole text, without lines.
NoLines == /\ stage = "boundary" /\ doc = << >>
           /\ out' = <<ChunkOf("f0", 1, 0)>>
           /\ stage' = "rows"
           /\ UNCHANGED <<doc, at, rows>>

NoTops == /\ stage = "boundary" /\ doc # << >> /\ Tops = {}
          /\ out' = <<ChunkOf("f1", 1, Len(doc))>>
          /\ stage' = "rows"
          /\ UNCHANGED <<doc, at, rows>>

\* Mutated form: the lines before the first declaration make no chunk.
Preamble_Dropped == /\ stage = "boundary" /\ Tops # {} /\ at = 1 /\ ~Top(1)
                    /\ at' = NextTop(1)
                    /\ UNCHANGED <<doc, stage, out, rows>>

\* The lines before the first declaration, if one of them is not blank.
Preamble == /\ stage = "boundary" /\ Tops # {} /\ at = 1 /\ ~Top(1)
            /\ out' = IF \A i \in 1..(NextTop(1) - 1) : doc[i].blank THEN out
                      ELSE Append(out, ChunkOf("pre", 1, NextTop(1) - 1))
            /\ at' = NextTop(1)
            /\ UNCHANGED <<doc, stage, rows>>

Declaration == /\ stage = "boundary" /\ Top(at)
               /\ out' = Append(out, ChunkOf("fn", at, NextTop(at) - 1))
               /\ at' = NextTop(at)
               /\ UNCHANGED <<doc, stage, rows>>

BoundaryEnd == /\ stage = "boundary" /\ Tops # {} /\ at > Len(doc)
               /\ stage' = "rows" /\ at' = 1
               /\ UNCHANGED <<doc, out, rows>>

-----------------------------------------------------------------------------
(* DefaultSink.Write: the rows of chunk at.                                *)

\* extractFirstMarkdownHeadingLine: it is asked of code as of any other text.
Hashes(c) == {i \in c.from..c.to : doc[i].hash}

\* The title row has sort_order 0; chunk and parent number the chunk and the row.
TitleRow(n) == IF Hashes(out[n]) = {} THEN << >>
               ELSE <<[chunk |-> n, line |-> Least(Hashes(out[n])), sort |-> 0, parent |-> 0]>>

\* A line's row hangs on its parent's row if that is inserted before it.
LineRow(n, i, base) ==
  LET p == out[n].parents[i] IN
  [chunk |-> n, line |-> out[n].from + i - 1, sort |-> out[n].from + i - 1,
   parent |-> IF p \in 1..(i - 1) THEN base + p ELSE 0]

InsertRows ==
  /\ stage = "rows" /\ at \in DOMAIN out
  /\ LET base == Len(rows) + Len(TitleRow(at)) IN
     rows' = rows \o TitleRow(at)
               \o [i \in 1..(out[at].to - out[at].from + 1) |-> LineRow(at, i, base)]
  /\ at' = at + 1
  /\ UNCHANGED <<doc, stage, out>>

RowsEnd == /\ stage = "rows" /\ at > Len(out)
           /\ stage' = "source"
           /\ UNCHANGED <<doc, at, out, rows>>

CodeNext == \/ NoLines \/ NoTops \/ Preamble \/ Declaration \/ BoundaryEnd
            \/ InsertRows \/ RowsEnd

CodeSpec == CodeInit /\ [][CodeNext]_codeVars

-----------------------------------------------------------------------------
(* Properties.                                                             *)

CodeChunk == [id : {"f0", "f1", "pre", "fn"}, from : Nat, to : Nat, parents : Seq(Nat)]
Row == [chunk : Nat, line : Nat, sort : Nat, parent : Nat]

\* The values of the variables of the chunker and the sink.
CodeTypeOK == /\ doc \in Seq(SourceLine) /\ stage \in {"boundary", "rows", "source"}
              /\ at \in Nat \ {0}
              /\ out \in Seq(CodeChunk) /\ rows \in Seq(Row)

\* Lines that are in no chunk: blank lines before the first declaration.
Left(i) == Tops # {} /\ i < Least(Tops) /\ \A j \in 1..(Least(Tops) - 1) : doc[j].blank

\* Reading the rows by sort_order, as restore_content_for_l1 does, gives each
\* line of the source once and in its place but for blank lines in front, and
\* before them once more one line per chunk that has a line like a heading.
RowsInOrder ==
  LET lines == {n \in DOMAIN rows : rows[n].sort # 0} IN
  /\ \A i \in DOMAIN doc : ~Left(i) => \E n \in lines : rows[n].line = i
  /\ \A m, n \in lines : m < n => rows[m].sort < rows[n].sort
  /\ \A n \in DOMAIN rows \ lines : doc[rows[n].line].hash

\* A row's parent is the row of the line the parser named, inserted before it,
\* in the same chunk; only a line whose parent is in another chunk has none.
ParentsKept == \A n \in DOMAIN rows : rows[n].sort # 0 =>
  LET p == doc[rows[n].line].parent
      c == out[rows[n].chunk] IN
  IF p \in c.from..c.to
  THEN /\ rows[n].parent \in 1..(n - 1)
       /\ rows[rows[n].parent].line = p /\ rows[rows[n].parent].sort = p
  ELSE rows[n].parent = 0

\* The rows of a source file hold its lines and its tree: the way of a line
\* through the numbering of the file, of its chunk and of the rows ends where
\* it began.
SourceKept == stage = "source" => RowsInOrder /\ ParentsKept
=============================================================================
