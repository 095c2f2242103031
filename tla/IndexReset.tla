----------------------------- MODULE IndexReset -----------------------------
(***************************************************************************)
(* The stores that calls of Write (SinkWrite) share, with what else acts   *)
(* on them: POST /api/index/reset, whose process                           *)
(* (flows/xylem_flow/index_reset.py) deletes the rows, of everything or of *)
(* one project, in a transaction and then the points; and the Tuber        *)
(* (tuberGetOrCreate in sink/writer.go), which gives the keywords of a     *)
(* sentence ids out of Redis and keyword_so before its point is written.   *)
(* Writes go on while the reset runs.                                      *)
(***************************************************************************)
EXTENDS SinkWrite

CONSTANTS
  Projects,     \* rows of projects
  ProjectOf,    \* [Writes -> Projects \cup {NoRow}], project_id of the request
  StoreFaults   \* what may fail: "reset", "keyword", "redis"

ASSUME StoreAssumption ==
  /\ OwnIds
  /\ NoRow \notin Projects /\ ProjectOf \in [Writes -> Projects \cup {NoRow}]
  /\ StoreFaults \subseteq {"reset", "keyword", "redis"}

VARIABLES
  stage,       \* the step of the reset: "idle", "rows", "points", "create", "over"
  scope,       \* the project it deletes, or "all"
  half,        \* TRUE if it deleted on one side and failed on the other
  gone,        \* projects whose row is deleted
  collection,  \* TRUE if Qdrant has the collection
  words,       \* keyword_so
  cached,      \* keywords in Redis
  keys,        \* <<l3, keyword>>: the keyword_ids of the L3 points
  tuber,       \* [Writes -> the step of tuberGetOrCreate]
  wiped,       \* history: calls whose document was deleted
  beside,      \* history: calls that ran beside a reset
  lost         \* history: keywords that were in keyword_so at a full reset

resetVars == <<stage, scope, half, gone>>
history   == <<wiped, beside, lost>>
tuberVars == <<words, cached, tuber>>
storeVars == <<vars, resetVars, collection, tuberVars, keys, history>>

StoreInit == /\ Init
             /\ stage = "idle" /\ scope = "all" /\ half = FALSE /\ gone = {}
             /\ collection = TRUE
             /\ words = {} /\ cached = {} /\ keys = {}
             /\ tuber = [w \in Writes |-> "ask"]
             /\ wiped = {} /\ beside = {} /\ lost = {}

Resetting == stage \in {"rows", "points", "create"}
InScope(w) == scope = "all" \/ ProjectOf[w] = scope

-----------------------------------------------------------------------------
(* The reset.                                                              *)

\* POST /api/index/reset; a dry run counts and changes nothing.
BeginReset == /\ stage = "idle"
              /\ \E s \in Projects \cup {"all"} : scope' = s
              /\ stage' = "rows"
              /\ beside' = beside \cup Active
              /\ UNCHANGED <<vars, half, gone, collection, tuberVars, keys, wiped, lost>>

Doomed == {w \in Writes : version[MidOf[w]] > 0 /\ InScope(w)}
Spared(w) == w \notin Doomed

\* The ways to list the L1 rows that stay in the order they have: there is one.
Kept == {k \in DOMAIN l1 : Spared(l1[k])}
InOrder == {at \in [1..Cardinality(Kept) -> Kept] : \A m, n \in DOMAIN at : m < n => at[m] < at[n]}

\* reset_postgres commits: the documents in scope, what hangs on them, and the
\* projects; the keywords only with everything else.
DeleteRows ==
  /\ stage = "rows"
  /\ version' = [m \in Mids |-> IF \E w \in Doomed : MidOf[w] = m THEN 0 ELSE version[m]]
  /\ current' = [m \in Mids |-> IF \E w \in Doomed : MidOf[w] = m THEN NoRow ELSE current[m]]
  /\ \E at \in InOrder : l1' = [n \in DOMAIN at |-> l1[at[n]]]
  /\ l2' = {e \in l2 : Spared(e[1])} /\ l3' = {e \in l3 : Spared(e[1])}
  /\ noted' = {e \in noted : Spared(e[1])}
  /\ gone' = IF scope = "all" THEN Projects ELSE gone \cup {scope}
  /\ words' = IF scope = "all" THEN {} ELSE words
  /\ lost' = IF scope = "all" THEN lost \cup words ELSE lost
  /\ wiped' = wiped \cup Doomed
  /\ stage' = "points"
  /\ UNCHANGED <<points1, points3, pc, local, answer, scope, half, collection, cached, keys,
                 tuber, beside>>

\* The transaction fails; main catches the error and goes on to the points.
RowsFail == /\ stage = "rows" /\ "reset" \in StoreFaults
            /\ stage' = "points" /\ half' = TRUE
            /\ UNCHANGED <<vars, scope, gone, collection, tuberVars, keys, history>>

\* Mutated form: the filter by project_id is left out.
DeletePoints_All ==
  /\ stage = "points" /\ scope # "all"
  /\ points1' = {} /\ points3' = {} /\ keys' = {}
  /\ stage' = "over"
  /\ UNCHANGED <<version, current, l1, l2, l3, noted, pc, local, answer, scope, half, gone,
                 collection, tuberVars, history>>

\* reset_qdrant for one project: the points that carry its id.
DeletePoints ==
  /\ stage = "points" /\ scope # "all"
  /\ points1' = {w \in points1 : ~InScope(w)}
  /\ points3' = {e \in points3 : ~InScope(e[1])}
  /\ keys' = {k \in keys : ~InScope(k[1][1])}
  /\ stage' = "over"
  /\ UNCHANGED <<version, current, l1, l2, l3, noted, pc, local, answer, scope, half, gone,
                 collection, tuberVars, history>>

\* For all of them the collection is deleted ...
DropCollection ==
  /\ stage = "points" /\ scope = "all"
  /\ collection' = FALSE
  /\ points1' = {} /\ points3' = {} /\ keys' = {}
  /\ stage' = "create"
  /\ UNCHANGED <<version, current, l1, l2, l3, noted, pc, local, answer, scope, half, gone,
                 tuberVars, history>>

\* ... and created again.
CreateCollection == /\ stage = "create"
                    /\ collection' = TRUE
                    /\ stage' = "over"
                    /\ UNCHANGED <<vars, scope, half, gone, tuberVars, keys, history>>

\* The collection is not found, Qdrant fails, or the process is killed when its
\* ten minutes are over.
ResetStops == /\ Resetting /\ "reset" \in StoreFaults
              /\ half' = (half # (stage = "points"))
              /\ stage' = "over"
              /\ UNCHANGED <<vars, scope, gone, collection, tuberVars, keys, history>>

Reset == DeleteRows \/ RowsFail \/ DeletePoints \/ DropCollection \/ CreateCollection \/ ResetStops

-----------------------------------------------------------------------------
(* The Tuber: the keyword of the L3 row that is to be embedded.            *)

Upserting(w) == pc[w] = "point3" /\ todo[w] # << >>

\* extractKeywords: a text stands for its keyword.
Word(w) == LET e == Head(todo[w]) IN Chunks(w)[e[2]].units[e[3]]

TuberTo(w, step) == tuber' = [tuber EXCEPT ![w] = step]
KeyReady(w) == Upserting(w) /\ tuber[w] \in {"known", "unknown"}

\* Redis has the id, or it does not answer.
AskRedis(w) == /\ Upserting(w) /\ tuber[w] = "ask"
               /\ \/ Word(w) \in cached /\ TuberTo(w, "known")
                  \/ /\ Word(w) \notin cached \/ "redis" \in StoreFaults
                     /\ TuberTo(w, "insert")
               /\ UNCHANGED <<vars, resetVars, collection, words, cached, keys, history>>

\* Mutated form: an error of the INSERT is not looked at.
InsertWord_NoError(w) ==
  /\ Upserting(w) /\ tuber[w] = "insert"
  /\ words' = words \cup {Word(w)} \/ ("keyword" \in StoreFaults /\ UNCHANGED words)
  /\ TuberTo(w, "cache")
  /\ UNCHANGED <<vars, resetVars, collection, cached, keys, history>>

\* INSERT, or on a conflict UPDATE, since the id is made from the keyword; on
\* an error the point goes without the keyword.
InsertWord(w) == /\ Upserting(w) /\ tuber[w] = "insert"
                 /\ \/ words' = words \cup {Word(w)} /\ TuberTo(w, "cache")
                    \/ "keyword" \in StoreFaults /\ TuberTo(w, "unknown") /\ UNCHANGED words
                 /\ UNCHANGED <<vars, resetVars, collection, cached, keys, history>>

CacheWord(w) == /\ Upserting(w) /\ tuber[w] = "cache"
                /\ \/ cached' = cached \cup {Word(w)}
                   \/ "redis" \in StoreFaults /\ UNCHANGED cached
                /\ TuberTo(w, "known")
                /\ UNCHANGED <<vars, resetVars, collection, words, keys, history>>

-----------------------------------------------------------------------------
(* Write, on stores that a reset may have emptied.                         *)

BeginWrite(w) == /\ Begin(w)
                 /\ beside' = IF Resetting THEN beside \cup {w} ELSE beside
                 /\ UNCHANGED <<resetVars, collection, tuberVars, keys, wiped, lost>>

\* A row that the next INSERT refers to is deleted: documents and
\* knowledge_l1 refer to projects, the rows below to those above.
Dangling(w) ==
  \/ pc[w] = "upsert" /\ ProjectOf[w] \in gone
  \/ /\ w \in wiped
     /\ \/ pc[w] \in {"l1", "heading"}
        \/ pc[w] = "chunk" /\ chunkAt[w] <= Len(Chunks(w))
        \/ pc[w] = "unit" /\ unitAt[w] <= Len(ThisChunk(w).units)

\* The foreign key refuses the row, or Qdrant the point.
Refused(w) == /\ Dangling(w) \/ (~collection /\ (pc[w] = "point1" \/ KeyReady(w)))
              /\ Answer(w, "error", NoRow)
              /\ UNCHANGED <<tables, local>>

\* UPDATE finds no row, which is no error.
UpdateNothing(w) == /\ w \in wiped /\ pc[w] \in {"current", "note"}
                    /\ GoTo(w, IF pc[w] = "current" THEN "chunk" ELSE "point3")
                    /\ todo' = IF pc[w] = "note" THEN [todo EXCEPT ![w] = Tail(@)] ELSE todo
                    /\ UNCHANGED <<tables, req, chunkAt, unitAt, answer>>

\* A step of Write on what is there; the L3 points are below.
WholeStep(w) == /\ ~Dangling(w)
                /\ ~(w \in wiped /\ pc[w] \in {"current", "note"})
                /\ ~collection => pc[w] # "point1"
                /\ \/ ~Upserting(w) /\ Write(w)
                   \/ tuber[w] = "ask" /\ SkipL3(w)
                   \/ KeyReady(w) /\ Fail(w)

RowStep(w) == /\ WholeStep(w) \/ Refused(w) \/ UpdateNothing(w)
              /\ UNCHANGED <<resetVars, collection, tuberVars, keys, history>>

PutPoint(w) == /\ KeyReady(w) /\ collection
               /\ PutL3(w)
               /\ keys' = IF tuber[w] = "known" THEN keys \cup {<<Head(todo[w]), Word(w)>>}
                          ELSE keys
               /\ TuberTo(w, "ask")
               /\ UNCHANGED <<resetVars, collection, words, cached, history>>

StoreWrite(w) == RowStep(w) \/ AskRedis(w) \/ InsertWord(w) \/ CacheWord(w) \/ PutPoint(w)

StoreNext == \/ \E w \in Writes : BeginWrite(w) \/ StoreWrite(w)
             \/ BeginReset \/ Reset

\* Each call runs on a goroutine of its own, the database, the embedder and
\* Qdrant answer or fail within the request's deadline, and the reset's process
\* is killed at its own.
StoreSpec == /\ StoreInit /\ [][StoreNext]_storeVars
             /\ WF_storeVars(Reset)
             /\ \A w \in Writes : WF_storeVars(StoreWrite(w))

-----------------------------------------------------------------------------
(* Properties.                                                             *)

Keywords == UNION {{c.units[k] : k \in 1..Len(c.units)} :
                     c \in UNION {{ChunksOf[d][i] : i \in 1..Len(ChunksOf[d])} : d \in Contents}}

\* The values of the reset's, the Tuber's and the history variables.
StoreTypeOK == /\ TypeOK
               /\ stage \in {"idle", "rows", "points", "create", "over"}
               /\ scope \in Projects \cup {"all"} /\ half \in BOOLEAN
               /\ gone \subseteq Projects /\ collection \in BOOLEAN
               /\ words \subseteq Keywords /\ cached \subseteq Keywords
               /\ lost \subseteq Keywords
               /\ keys \subseteq L3Rows \X Keywords
               /\ tuber \in [Writes -> {"ask", "insert", "cache", "known", "unknown"}]
               /\ wiped \subseteq Writes /\ beside \subseteq Writes

\* Of a call that was answered and did not run beside the reset, the rows that name
\* a point and the points are the same.
AnsweredMatch == \A w \in Writes \ beside : pc[w] = "done" =>
  {e \in noted : e[1] = w} = {e \in points3 : e[1] = w}

\* A point without its row comes from a call whose document was deleted under it.
PointsOwned == /\ \A w \in points1 : InL1(w) \/ w \in wiped \cap beside
               /\ \A e \in points3 : e \in l3 \/ e[1] \in wiped \cap beside

\* When no reset is running and none broke off between rows and points, both stores
\* agree, also where the reset was for another project.
PointsMatchRows == ~Resetting /\ ~half => AnsweredMatch /\ PointsOwned

\* A keyword id in a point names a row of keyword_so, or one that was there until
\* a full reset; Redis, which the reset does not clear, is never ahead of the
\* table, whatever fails and whoever asks at the same time.
KeywordsResolve == \A k \in keys : k[2] \in words \cup lost

\* An ok answer is made good: a revision of what was asked for is complete under
\* the document named, or a reset has deleted it.
MadeGood(w) == Ok(w) => \E v \in Writes : /\ MidOf[v] = answer[w].doc /\ req[v] = req[w]
                                          /\ Stored(v) \/ v \in wiped

\* As long as PostgreSQL does not fail every call is answered, also on the
\* remains of a reset, and what it is told comes true if it is not yet, like "it
\* is there" while another call is still writing.
EveryWriteSettled == \A w \in Writes : w \in Active ~> pc[w] = "done" /\ MadeGood(w)
=============================================================================
