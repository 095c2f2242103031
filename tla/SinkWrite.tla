----------------------------- MODULE SinkWrite -----------------------------
(***************************************************************************)
(* DefaultSink.Write (internal/phloem/sink/writer.go): how one document    *)
(* reaches PostgreSQL (documents, knowledge_l1/l2/l3) and then Qdrant.     *)
(* Every statement commits by itself, no transaction and no lock spans     *)
(* two of them, and calls of several requests run side by side.            *)
(*                                                                         *)
(* A row is named by the call that inserted it: call w inserts at most one *)
(* L1 row (w), L2 row <<w, i>> for its i-th chunk, and L3 row <<w, i, k>>  *)
(* for that chunk's k-th unit, k = 0 being the chunk's heading line.       *)
(***************************************************************************)
EXTENDS Integers, Sequences, FiniteSets

CONSTANTS
  Writes,      \* calls of Write; a retry is a call of its own
  Titles,      \* pairs of title and source_type
  Contents,    \* documents' contents; two contents have two l2_child_hashes
  ChunksOf,    \* [Contents -> the chunks the chunker makes of the content]
  Mids,        \* machine ids
  MidOf,       \* [Writes -> Mids], the id each call took from the generator
  Faults,      \* what may fail: "pg", "pgread", "embed", "qdrant", "crash"
  Concurrent,  \* FALSE if one call runs at a time
  NoRow        \* not a call: a NULL current_l1_id, a document not named

Chunk == [heading : STRING, code : BOOLEAN, units : Seq(STRING), anchors : SUBSET Nat]

ASSUME SinkAssumption ==
  /\ ChunksOf \in [Contents -> Seq(Chunk)]
  /\ MidOf \in [Writes -> Mids]
  /\ Faults \subseteq {"pg", "pgread", "embed", "qdrant", "crash"}
  /\ Concurrent \in BOOLEAN
  /\ NoRow \notin Writes /\ NoRow \notin Mids /\ NoRow \notin Titles

Request == [title : Titles, content : Contents]
NoRequest == [title |-> NoRow, content |-> NoRow]

VARIABLES
  version,   \* [Mids -> documents.version], 0 where there is no row
  current,   \* [Mids -> documents.current_l1_id]
  l1,        \* knowledge_l1 in created_at order: the calls that inserted a row
  l2,        \* knowledge_l2
  l3,        \* knowledge_l3
  points1,   \* L1 points in Qdrant
  points3,   \* L3 points in Qdrant
  noted,     \* L3 rows whose qdrant_point_id is set
  pc,        \* [Writes -> the statement the call is about to run]
  req,       \* [Writes -> Request or NoRequest]
  chunkAt,   \* [Writes -> index of the chunk being written]
  unitAt,    \* [Writes -> index of its next unit]
  todo,      \* [Writes -> l3Items: L3 rows still to be embedded, in order]
  answer     \* [Writes -> [via, doc]]: how the call was answered

tables == <<version, current, l1, l2, l3, points1, points3, noted>>
local  == <<req, chunkAt, unitAt, todo>>
vars   == <<tables, pc, local, answer>>

Steps  == {"title", "machine", "upsert", "l1", "current", "chunk", "heading",
           "unit", "point1", "point3", "note"}
Active == {w \in Writes : pc[w] \in Steps}

Init == /\ version = [m \in Mids |-> 0] /\ current = [m \in Mids |-> NoRow]
        /\ l1 = << >> /\ l2 = {} /\ l3 = {}
        /\ points1 = {} /\ points3 = {} /\ noted = {}
        /\ pc = [w \in Writes |-> "idle"]
        /\ req = [w \in Writes |-> NoRequest]
        /\ chunkAt = [w \in Writes |-> 1]
        /\ unitAt = [w \in Writes |-> 1]
        /\ todo = [w \in Writes |-> << >>]
        /\ answer = [w \in Writes |-> [via |-> "none", doc |-> NoRow]]

GoTo(w, step) == pc' = [pc EXCEPT ![w] = step]

Answer(w, via, doc) == /\ GoTo(w, "done")
                       /\ answer' = [answer EXCEPT ![w] = [via |-> via, doc |-> doc]]

Chunks(w) == ChunksOf[req[w].content]
ThisChunk(w) == Chunks(w)[chunkAt[w]]      \* the chunk w is writing

-----------------------------------------------------------------------------
(* Is the content there already?                                           *)

\* A pipeline takes a machine id, chunks the content and calls Write.
Begin(w) == /\ pc[w] = "idle"
            /\ Concurrent \/ Active = {}
            /\ \E r \in Request : req' = [req EXCEPT ![w] = r]
            /\ GoTo(w, "title")
            /\ UNCHANGED <<tables, chunkAt, unitAt, todo, answer>>

\* k is the index of the newest L1 row of title t.
Newest(k, t) == /\ req[l1[k]].title = t
                /\ \A j \in DOMAIN l1 : j > k => req[l1[j]].title # t

\* The newest L1 row of the title has the call's content hash.
TitleIsAt(w, k) == /\ Newest(k, req[w].title)
                   /\ req[l1[k]].content = req[w].content

\* Mutated form: the same content under another title counts.
SkipByTitle_AnyTitle(w) ==
  /\ pc[w] = "title"
  /\ \E k \in DOMAIN l1 : req[l1[k]].content = req[w].content /\ Answer(w, "title", MidOf[l1[k]])
  /\ UNCHANGED <<tables, local>>

\* The title query finds the content: Write returns that row's document.
SkipByTitle(w) ==
  /\ pc[w] = "title"
  /\ \E k \in DOMAIN l1 : TitleIsAt(w, k) /\ Answer(w, "title", MidOf[l1[k]])
  /\ UNCHANGED <<tables, local>>

\* Mutated form: the query sorts the other way and finds the oldest row.
MissTitle_Oldest(w) ==
  /\ pc[w] = "title"
  /\ \A k \in DOMAIN l1 : req[l1[k]] = req[w] =>
       \E j \in 1..(k - 1) : req[l1[j]].title = req[w].title
  /\ GoTo(w, "machine")
  /\ UNCHANGED <<tables, local, answer>>

\* No row, another content, or a query that failed: go on.
MissTitle(w) ==
  /\ pc[w] = "title"
  /\ "pgread" \in Faults \/ \A k \in DOMAIN l1 : ~TitleIsAt(w, k)
  /\ GoTo(w, "machine")
  /\ UNCHANGED <<tables, local, answer>>

\* COALESCE(current_l1_id, the newest L1 row) of document m is v.
IsHead(v, m) ==
  IF current[m] # NoRow THEN v = current[m]
  ELSE \E k \in DOMAIN l1 : /\ l1[k] = v /\ MidOf[v] = m
                            /\ \A j \in DOMAIN l1 : j > k => MidOf[l1[j]] # m

\* Mutated form: the head's content is not compared.
HeadIsThere_AnyContent(w) == /\ version[MidOf[w]] > 0
                             /\ \E v \in Writes : /\ IsHead(v, MidOf[w])
                                                  /\ \E e \in l2 : e[1] = v
                                                  /\ \E e \in l3 : e[1] = v

\* The head of the call's machine id has its content, an L2 and an L3 row.
HeadIsThere(w) == /\ version[MidOf[w]] > 0
                  /\ \E v \in Writes : /\ IsHead(v, MidOf[w])
                                       /\ req[v].content = req[w].content
                                       /\ \E e \in l2 : e[1] = v
                                       /\ \E e \in l3 : e[1] = v

SkipByHead(w) == /\ pc[w] = "machine"
                 /\ HeadIsThere(w)
                 /\ Answer(w, "head", MidOf[w])
                 /\ UNCHANGED <<tables, local>>

MissHead(w) == /\ pc[w] = "machine"
               /\ "pgread" \in Faults \/ ~HeadIsThere(w)
               /\ GoTo(w, "upsert")
               /\ UNCHANGED <<tables, local, answer>>

-----------------------------------------------------------------------------
(* The rows, from the document down.                                       *)

\* INSERT version 1, or on a conflict of machine_id version + 1.
UpsertDoc(w) ==
  /\ pc[w] = "upsert"
  /\ version' = [version EXCEPT ![MidOf[w]] = @ + 1]
  /\ GoTo(w, "l1")
  /\ UNCHANGED <<current, l1, l2, l3, points1, points3, noted, local, answer>>

InsertL1(w) == /\ pc[w] = "l1"
               /\ l1' = Append(l1, w)
               /\ GoTo(w, "current")
               /\ UNCHANGED <<version, current, l2, l3, points1, points3, noted, local, answer>>

SetCurrent(w) == /\ pc[w] = "current"
                 /\ current' = [current EXCEPT ![MidOf[w]] = w]
                 /\ GoTo(w, "chunk")
                 /\ UNCHANGED <<version, l1, l2, l3, points1, points3, noted, local, answer>>

\* Mutated form: the counter of the units starts at 0.
InsertL2_FromZero(w) ==
  /\ pc[w] = "chunk"
  /\ chunkAt[w] <= Len(Chunks(w))
  /\ l2' = l2 \cup {<<w, chunkAt[w]>>}
  /\ unitAt' = [unitAt EXCEPT ![w] = 0]
  /\ GoTo(w, IF ThisChunk(w).heading = "" THEN "unit" ELSE "heading")
  /\ UNCHANGED <<version, current, l1, l3, points1, points3, noted, req, chunkAt, todo, answer>>

\* The L2 row of the next chunk.  Its section_id is new to this L1 row.
InsertL2(w) ==
  /\ pc[w] = "chunk"
  /\ chunkAt[w] <= Len(Chunks(w))
  /\ l2' = l2 \cup {<<w, chunkAt[w]>>}
  /\ unitAt' = [unitAt EXCEPT ![w] = 1]
  /\ GoTo(w, IF ThisChunk(w).heading = "" THEN "unit" ELSE "heading")
  /\ UNCHANGED <<version, current, l1, l3, points1, points3, noted, req, chunkAt, todo, answer>>

InsertHeading(w) ==
  /\ pc[w] = "heading"
  /\ l3' = l3 \cup {<<w, chunkAt[w], 0>>}
  /\ GoTo(w, "unit")
  /\ UNCHANGED <<version, current, l1, l2, points1, points3, noted, local, answer>>

\* A sentence is skipped if the chunk has an L3 row of the same text; lines
\* of code carry their line number in the hash and never are.
IsRepeat(w, k) == /\ ~ThisChunk(w).code
                  /\ \/ /\ <<w, chunkAt[w], 0>> \in l3
                        /\ ThisChunk(w).heading = ThisChunk(w).units[k]
                     \/ \E j \in 1..(k - 1) : /\ <<w, chunkAt[w], j>> \in l3
                                              /\ ThisChunk(w).units[j] = ThisChunk(w).units[k]

DropUnit(w) == LET k == unitAt[w] IN
  /\ pc[w] = "unit"
  /\ k <= Len(ThisChunk(w).units)
  /\ IsRepeat(w, k)
  /\ unitAt' = [unitAt EXCEPT ![w] = k + 1]
  /\ UNCHANGED <<tables, pc, req, chunkAt, todo, answer>>

\* Mutated form: the row is queued for embedding whether or not it is stored.
InsertUnit_QueueOnly(w) == LET k == unitAt[w] IN
  /\ pc[w] = "unit"
  /\ k <= Len(ThisChunk(w).units)
  /\ ~IsRepeat(w, k)
  /\ l3' = IF ThisChunk(w).code /\ k \notin ThisChunk(w).anchors THEN l3
           ELSE l3 \cup {<<w, chunkAt[w], k>>}
  /\ todo' = [todo EXCEPT ![w] = Append(@, <<w, chunkAt[w], k>>)]
  /\ unitAt' = [unitAt EXCEPT ![w] = k + 1]
  /\ UNCHANGED <<version, current, l1, l2, points1, points3, noted, pc, req, chunkAt, answer>>

\* Sentences are all embedded, of the lines of code only the anchors.
InsertUnit(w) == LET k == unitAt[w] IN
  /\ pc[w] = "unit"
  /\ k <= Len(ThisChunk(w).units)
  /\ ~IsRepeat(w, k)
  /\ l3' = l3 \cup {<<w, chunkAt[w], k>>}
  /\ todo' = IF ThisChunk(w).code /\ k \notin ThisChunk(w).anchors THEN todo
             ELSE [todo EXCEPT ![w] = Append(@, <<w, chunkAt[w], k>>)]
  /\ unitAt' = [unitAt EXCEPT ![w] = k + 1]
  /\ UNCHANGED <<version, current, l1, l2, points1, points3, noted, pc, req, chunkAt, answer>>

\* Mutated form: the loop goes to the next chunk one unit early.
EndChunk_Early(w) ==
  /\ pc[w] = "unit"
  /\ unitAt[w] >= Len(ThisChunk(w).units)
  /\ chunkAt' = [chunkAt EXCEPT ![w] = @ + 1]
  /\ GoTo(w, "chunk")
  /\ UNCHANGED <<tables, req, unitAt, todo, answer>>

\* l3_child_hash is written, an error of that ignored, and the loop goes on.
EndChunk(w) ==
  /\ pc[w] = "unit"
  /\ unitAt[w] > Len(ThisChunk(w).units)
  /\ chunkAt' = [chunkAt EXCEPT ![w] = @ + 1]
  /\ GoTo(w, "chunk")
  /\ UNCHANGED <<tables, req, unitAt, todo, answer>>

EndRows(w) == /\ pc[w] = "chunk"
              /\ chunkAt[w] > Len(Chunks(w))
              /\ GoTo(w, "point1")
              /\ UNCHANGED <<tables, local, answer>>

-----------------------------------------------------------------------------
(* The points.                                                             *)

PutL1(w) == /\ pc[w] = "point1"
            /\ points1' = points1 \cup {w}
            /\ GoTo(w, "point3")
            /\ UNCHANGED <<version, current, l1, l2, l3, points3, noted, local, answer>>

\* The embedder failed: a warning, no point, and the call goes on.
SkipL1(w) == /\ pc[w] = "point1"
             /\ "embed" \in Faults
             /\ GoTo(w, "point3")
             /\ UNCHANGED <<tables, local, answer>>

PutL3(w) == /\ pc[w] = "point3"
            /\ todo[w] # << >>
            /\ points3' = points3 \cup {Head(todo[w])}
            /\ GoTo(w, "note")
            /\ UNCHANGED <<version, current, l1, l2, l3, points1, noted, local, answer>>

SkipL3(w) == /\ pc[w] = "point3"
             /\ todo[w] # << >>
             /\ "embed" \in Faults
             /\ todo' = [todo EXCEPT ![w] = Tail(@)]
             /\ UNCHANGED <<tables, pc, req, chunkAt, unitAt, answer>>

\* UPDATE knowledge_l3 SET qdrant_point_id; an error is ignored.
Note(w) == /\ pc[w] = "note" /\ todo[w] # << >>
           /\ \/ noted' = noted \cup {Head(todo[w])}
              \/ "pg" \in Faults /\ noted' = noted
           /\ todo' = [todo EXCEPT ![w] = Tail(@)]
           /\ GoTo(w, "point3")
           /\ UNCHANGED <<version, current, l1, l2, l3, points1, points3, req, chunkAt,
                         unitAt, answer>>

\* Mutated form: the loop over l3Items stops one item early.
Finish_Early(w) == /\ pc[w] = "point3"
                   /\ Len(todo[w]) <= 1
                   /\ Answer(w, "full", MidOf[w])
                   /\ UNCHANGED <<tables, local>>

Finish(w) == /\ pc[w] = "point3"
             /\ todo[w] = << >>
             /\ Answer(w, "full", MidOf[w])
             /\ UNCHANGED <<tables, local>>

\* A statement or an upsert fails, or the request's context is cancelled: the
\* call answers with an error and leaves the rows and points it has written.
\* At "title" it is ensurePipelineVersion that fails.
Fail(w) ==
  /\ \/ "pg" \in Faults
        /\ pc[w] \in {"title", "upsert", "l1", "current", "heading"}
     \/ "pg" \in Faults /\ pc[w] = "chunk" /\ chunkAt[w] <= Len(Chunks(w))
     \/ "pg" \in Faults /\ pc[w] = "unit" /\ unitAt[w] <= Len(ThisChunk(w).units)
     \/ "qdrant" \in Faults /\ pc[w] = "point1"
     \/ "qdrant" \in Faults /\ pc[w] = "point3" /\ todo[w] # << >>
  /\ Answer(w, "error", NoRow)
  /\ UNCHANGED <<tables, local>>

\* The process dies: nobody is answered.
Crash == /\ "crash" \in Faults
         /\ Active # {}
         /\ pc' = [w \in Writes |-> IF w \in Active THEN "dead" ELSE pc[w]]
         /\ UNCHANGED <<tables, local, answer>>

Write(w) == \/ SkipByTitle(w) \/ MissTitle(w) \/ SkipByHead(w) \/ MissHead(w)
            \/ UpsertDoc(w) \/ InsertL1(w) \/ SetCurrent(w) \/ InsertL2(w)
            \/ InsertHeading(w) \/ InsertUnit(w) \/ DropUnit(w) \/ EndChunk(w)
            \/ EndRows(w) \/ PutL1(w) \/ SkipL1(w) \/ PutL3(w) \/ SkipL3(w)
            \/ Note(w) \/ Finish(w) \/ Fail(w)

Next == (\E w \in Writes : Begin(w) \/ Write(w)) \/ Crash

Spec == Init /\ [][Next]_vars

-----------------------------------------------------------------------------
(* Properties.                                                             *)

L2Rows == Writes \X Nat
L3Rows == Writes \X Nat \X Nat
Answers == [via : {"none", "title", "head", "full", "error"}, doc : Mids \cup {NoRow}]

\* The values every variable ranges over: the tables' columns and the
\* local variables of Write.
TypeOK == /\ version \in [Mids -> Nat]
          /\ current \in [Mids -> Writes \cup {NoRow}]
          /\ l1 \in Seq(Writes)
          /\ l2 \subseteq L2Rows
          /\ l3 \subseteq L3Rows
          /\ points1 \subseteq Writes
          /\ points3 \subseteq L3Rows
          /\ noted \subseteq L3Rows
          /\ pc \in [Writes -> Steps \cup {"idle", "done", "dead"}]
          /\ req \in [Writes -> Request \cup {NoRequest}]
          /\ \A w \in Writes : req[w] = NoRequest <=> pc[w] = "idle"
          /\ chunkAt \in [Writes -> Nat \ {0}]
          /\ unitAt \in [Writes -> Nat \ {0}]
          /\ todo \in [Writes -> Seq(L3Rows)]
          /\ answer \in [Writes -> Answers]

InL1(w) == \E k \in DOMAIN l1 : l1[k] = w

\* Unit k of the i-th chunk has an L3 row of its text; a line of code its own.
UnitStored(w, i, k) ==
  LET c == Chunks(w)[i] IN
  \/ <<w, i, k>> \in l3
  \/ /\ ~c.code
     /\ \/ <<w, i, 0>> \in l3 /\ c.heading = c.units[k]
        \/ \E j \in 1..(k - 1) : <<w, i, j>> \in l3 /\ c.units[j] = c.units[k]

ChunkStored(w, i) == LET c == Chunks(w)[i] IN
                     /\ <<w, i>> \in l2
                     /\ c.heading # "" => <<w, i, 0>> \in l3
                     /\ \A k \in 1..Len(c.units) : UnitStored(w, i, k)

\* Everything the content consists of has its row.
Stored(w) == /\ version[MidOf[w]] > 0
             /\ InL1(w)
             /\ \A i \in 1..Len(Chunks(w)) : ChunkStored(w, i)

Ok(w) == answer[w].via \in {"title", "head", "full"}

\* A call that went all the way and answered ok has stored its document, L1
\* row, and every chunk and unit, whatever failed or ran beside it.
FullAnswerStored == \A w \in Writes : answer[w].via = "full" => Stored(w)

\* The document id of an ok answer names a document that holds a complete
\* revision of what was asked (the skip decisions of writer.go:74-127).
OkMeansStored == \A w \in Writes : Ok(w) =>
  \E v \in Writes : /\ MidOf[v] = answer[w].doc
                    /\ req[v] = req[w]
                    /\ Stored(v)

\* Without embedder errors an ok answer of a full pass means that the L1 point
\* and a point for every sentence and anchor line are in Qdrant.
FullAnswerSearchable == \A w \in Writes : answer[w].via = "full" =>
  /\ w \in points1
  /\ \A e \in l3 : /\ e[1] = w /\ e[3] > 0
                   /\ ~Chunks(w)[e[2]].code \/ e[3] \in Chunks(w)[e[2]].anchors
                   => e \in points3

\* A point in Qdrant always leads to its rows: the retriever joins a hit's
\* l3_id with L3, L2, L1 and documents and drops hits without them.
PointsHaveRows ==
  /\ points1 \subseteq {l1[k] : k \in DOMAIN l1}
  /\ noted \subseteq points3
  /\ points3 \subseteq l3
  /\ \A e \in l3 : <<e[1], e[2]>> \in l2
  /\ \A e \in l2 : InL1(e[1])
  /\ \A k \in DOMAIN l1 : version[MidOf[l1[k]]] > 0

\* Two L1 rows of one title and content have a row of that title with another
\* content between them (IMP-01: an unchanged document makes no new rows).
NoDuplicates == \A j, k \in DOMAIN l1 : j < k /\ req[l1[j]] = req[l1[k]] =>
  \E m \in (j + 1)..(k - 1) : /\ req[l1[m]].title = req[l1[j]].title
                             /\ req[l1[m]].content # req[l1[j]].content

\* current_l1_id points to a revision of its own document, and a skip answers
\* with a document that has a revision of the content asked for.
RevisionsBelong ==
  /\ \A m \in Mids : current[m] # NoRow => InL1(current[m]) /\ MidOf[current[m]] = m
  /\ \A w \in Writes : answer[w].via \in {"title", "head"} =>
       \E k \in DOMAIN l1 : /\ MidOf[l1[k]] = answer[w].doc
                           /\ req[l1[k]].content = req[w].content

\* The promise to the callers.
Told(a) == CASE a.via = "none" -> "nothing"
             [] a.via \in {"title", "head"} -> "same"
             [] a.via = "full" -> "new"
             [] a.via = "error" -> "failed"

told == [w \in Writes |-> Told(answer[w])]

Promise == INSTANCE RevisionLog WITH
  Calls <- Writes, Requests <- Request, NoRequest <- NoRequest,
  log <- l1, asked <- req, told <- told

\* Calls one after the other keep the revision log's promise: a call makes a
\* revision only if the newest one of its title differs, and says which.
PromiseKept == Promise!Spec

-----------------------------------------------------------------------------
(* The inductive invariants.                                               *)

HasDoc == Steps \ {"title", "machine", "upsert"}   \* past the upsert
HasL1  == HasDoc \ {"l1"}                          \* past the L1 insert

\* What call w has written when it stands at its step.
DocWritten(w) == pc[w] \in HasDoc => version[MidOf[w]] > 0

L1Written(w) == /\ pc[w] \in HasL1 => InL1(w)
                /\ pc[w] \in {"idle", "title", "machine", "upsert", "l1"} => ~InL1(w)

L2Written(w) == pc[w] \in {"heading", "unit"} => /\ chunkAt[w] <= Len(Chunks(w))
                                                /\ <<w, chunkAt[w]>> \in l2

ChunksWritten(w) == pc[w] \in {"chunk", "heading", "unit"} =>
  \A i \in 1..Len(Chunks(w)) : i < chunkAt[w] => ChunkStored(w, i)

UnitsWritten(w) == pc[w] = "unit" =>
  /\ ThisChunk(w).heading # "" => <<w, chunkAt[w], 0>> \in l3
  /\ \A k \in 1..Len(ThisChunk(w).units) : k < unitAt[w] => UnitStored(w, chunkAt[w], k)

AllWritten(w) == pc[w] \in {"point1", "point3", "note"} =>
  \A i \in 1..Len(Chunks(w)) : ChunkStored(w, i)

TodoWritten(w) == /\ \A n \in DOMAIN todo[w] : todo[w][n] \in l3
                  /\ pc[w] = "note" => todo[w] # << >> /\ Head(todo[w]) \in points3

NotStarted(w) ==
  /\ pc[w] \in {"idle", "title", "machine", "upsert", "l1", "current"} => chunkAt[w] = 1
  /\ pc[w] = "heading" => unitAt[w] = 1

NotAnswered(w) == pc[w] # "done" => answer[w].via = "none"

Progress(w) == /\ NotAnswered(w) /\ DocWritten(w) /\ L1Written(w) /\ L2Written(w)
               /\ ChunksWritten(w) /\ UnitsWritten(w) /\ AllWritten(w)
               /\ TodoWritten(w) /\ NotStarted(w)

IInv == TypeOK /\ PointsHaveRows /\ FullAnswerStored /\ \A w \in Writes : Progress(w)

\* For calls one after the other.
OneActive == \A v, w \in Active : v = w

NewestExists == \A j \in DOMAIN l1 : \E k \in DOMAIN l1 : k >= j /\ Newest(k, req[l1[j]].title)

\* Between its title query and its L1 row the call's content stays unpublished.
StillNew(w) == pc[w] \in {"machine", "upsert", "l1"} =>
  \A k \in DOMAIN l1 : ~TitleIsAt(w, k)

\* For calls whose machine ids are their own: no document before the upsert.
NoDocYet(w) == pc[w] \in {"idle", "title", "machine", "upsert"} => version[MidOf[w]] = 0

OwnIds == \A v, w \in Writes : MidOf[v] = MidOf[w] => v = w

SerialInv == OneActive /\ NewestExists /\ NoDuplicates /\ \A w \in Writes : StillNew(w)
=============================================================================
