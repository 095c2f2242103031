# Formal verification of gopedia

gopedia ingests markdown, PDF and source files into PostgreSQL and Qdrant, and
answers questions over them. This directory holds TLA+ models of it, the TLC runs
that check them on small instances, and TLAPS proofs of what matters most, for
every value of the constants. Paths below are relative to the repository
(`src/` in `PROJECT.json`).

Check a model with `tlc -config X.cfg M.tla`, a proof with `tlapm M.tla`.

## 1. The system

| Component | Source | State | Operations | Hard behaviour | What makes it correct | Modelled in |
|---|---|---|---|---|---|---|
| Identity generator | `core/identity_so/idgen.go` | last ms, sequence, mutex | `GetMachineID` | sequence overflow spins with the mutex held; restarts; clock set back | ids unique, ordered by age, calls return | `IdGen` |
| Sink | `internal/phloem/sink/writer.go` | `documents`, `knowledge_l1/l2/l3`, Qdrant points | `Write` | dozens of statements that commit one by one, no transaction; failures, crashes, retries, side by side calls, a reset below them | ok means stored; no duplicates; points lead to rows | `SinkWrite`, `IndexReset` |
| Sentence splitting | `sink/splitmask.go`, `writer.go` 688-822 | none | mask, cut, unmask | spans that overlap | no masked span (link, URL, number, ...) is cut, unless a sentence is cut again into clauses (`semantic`), which masks nothing; no letter lost | `Sentences` |
| Keyword Tuber | `writer.go` 462-480, 824-883 | Redis, `keyword_so` | `tuberGetOrCreate` | read, insert, cache over two stores | an id in a point has its keyword | `IndexReset` |
| Index reset | `flows/xylem_flow/index_reset.py` | the sink's tables and points | reset of all or of one project | PostgreSQL, then Qdrant, errors swallowed, beside running writes | rows and points agree | `IndexReset` |
| Job registry | `internal/api/jobs.go` | `jobs`, `idempotency`, mutex; memory only | POST, GET, `runIngestJob` | fields read after the unlock; retries; restarts | one ingest per key; polls consistent; jobs end | `JobRegistry` |
| HTTP API | `internal/api/*.go` | the server's life, requests in flight | routes, `Run`, `startPhloemGRPC` | HTTP before gRPC; the process exits when a port is taken | answers are true, requests are answered | `ApiServer` |
| Python runner | `internal/runner/python.go` | one subprocess per request | `RunModule` | deadlines and clients that leave race the answer | a process ends with its request | `ApiServer` |
| Answer agent | `flows/xylem_flow/answer_agent.py` | the conversation | `run` | rounds of model and tools, arguments of any shape | turns in order, the loop ends | `AnswerAgent` |
| Project service, ingest runner | `internal/phloem/server.go`, `property/root_props/{run,markdown_loader}.py` | `projects.content_hash` | `RegisterProject`, `IngestMarkdown`, `FinalizeProject` | several processes over the same files; files edited; runs that stop half way | a skip leaves nothing to store; a finished run has stored all | `ProjectSync` |
| Code pipeline | `domain/code.go`, `toc/code.go`, `chunker/code.go`, `writer.go` 895-955 | language of the shared parser | `Process`, `buildCodeChunks` | one parser, many requests, no lock; parents by line and by chunk | own language; source and parents kept | `CodePipeline`, `CodeChunks` |
| Wiki pipeline, TOC parser, section chunker | `domain/wiki.go`, `toc/{markdown,toc}.go`, `chunker/{heading,structured}.go` | none after a request | `Parse`, `FlattenTOC`, `Chunks` | boundaries, empty sections, blocks in blocks | no line lost or doubled; order kept; ends | `WikiChunks` |
| PDF pipeline, fixed-size chunker | `domain/pdf.go`, `chunker/fixed.go` | none | `Chunks` | breaks at a window's edge | nothing lost, progress | `FixedChunks` |
| Pipeline registry | `internal/phloem/registry.go` | a map, filled at start | `Get` | none | - | - |
| Retriever, restorer | `flows/xylem_flow/{retriever,restorer,graph_context,tree}.py` | none (one request) | reads | hits without rows | - | - |
| TypeDB sync | `core/ontology_so/*.py` | TypeDB | sync | best-effort mirror | - | - |
| Embedder, NLP worker, code parser | `embedder/*.go`, `python/nlp_worker`, `flows/code_parser` | none | - | external processes | - | their failures only |

How they interact: `run.py` registers the project, then calls the gRPC server
file by file; the server picks a pipeline, which takes an id from the generator,
parses, chunks, and calls `DefaultSink.Write`. `FinalizeProject` reads what the
sink stored. The HTTP API starts a Python process per request (`run.py`, the
reset, search, restore, the agent), directly or as a job. PostgreSQL, Qdrant and
Redis are the only state that outlives a process.

The full list of hazards, each at its line with the properties aimed at it, is
in `PROJECT.json`.

## 2. The modules

| Module | What it is |
|---|---|
| `IdGen` | the generator, its callers, the wall clock, restarts |
| `SinkWrite` | `Write`, one action per statement or upsert |
| `RevisionLog` | abstract: a call adds a revision only if the newest one of its title differs, and says which |
| `IndexReset` | extends `SinkWrite`: the reset and the Tuber on the same stores |
| `JobRegistry` | POST, GET, the job's goroutine, restarts of the server |
| `JobLifecycle` | abstract: queued, running, completed or failed, once; one job per key |
| `AnswerAgent` | the agent's loop, the model being the environment |
| `ApiServer` | composes `JobRegistry` and `AnswerAgent` with the server, its routes and their processes |
| `ProjectSync` | `run.py` against register, ingest and finalize |
| `CodePipeline` | the shared parser and its two-word language |
| `ChunkedText` | what the text algorithms share: a text, a stage, a cursor, an output |
| `WikiChunks`, `FixedChunks`, `CodeChunks`, `Sentences` | the text algorithms, one action per pass of a loop |
| `Pipelines` | composes `CodePipeline` and the four text modules: each request takes one route |
| `IdGenProofs`, `SinkWriteProofs`, `ProjectSyncProofs`, `JobRegistryProofs`, `ApiServerProofs`, `IndexResetProofs` | theorems about the module of that name |
| `TextProofs` | theorems about `FixedChunks`, `CodeChunks` and `Sentences` |
| `PipelinesProofs` | theorems about `CodePipeline`, `WikiChunks` and their composition in `Pipelines` |
| `MC...` | instances for TLC |

Definitions named `X_Something` are mutated forms of action `X`, each a
plausible bug: they stand right before `X`, are used by no specification, and
show that a property notices the bug.

### IdGen

State: the fields of `Generator`, one per process, the mutex holder where it is
held across steps (the spin of lines 58-60), and the history of ids. `NewMs`,
`SameMs`, `Exhausted`, `SpinEnd` are the branches of lines 50-71; a call that
does not spin runs under the mutex from start to end and is one step. `Pack` is
the shift-and-or of the last lines with the widths as constants. The clock is
the environment: it ticks, and may be set back once, by any amount. `Restart`
takes longer than the millisecond of the last id. Bounds: `MaxMs`, `MaxIssued`;
`SeqMax = 1` lets the sequence run out on the third call of a millisecond, two
workers and two goroutines let calls overlap within and across processes.

The code compares `nowMs == lastMs`, so a clock that is set back repeats ids.
`UniqueIds` and `AgeOrder` therefore speak of the time before the clock is set back; `WorkersDisjoint` and `TypeOK` hold after it too.

### SinkWrite

State: the tables' rows, named by the call that inserted them, the points, and
each call's position. Every statement is a step of its own and commits, as in
the code: two calls interleave between any two statements, and a crash or error
leaves what was written. The two skip decisions are `SkipByTitle` (lines 73-87)
and `SkipByHead` (90-127); a query that fails counts as a miss, as in the code
(`"pgread"`). `Faults` names what may fail. `InsertUnit` stands for the bodies of
`insertL3Sentences` and the code-line branch: sentences of one text are stored
once per chunk, lines always, and lines are embedded only if they are anchors.

Abstracted: hashes (two contents have two), the splitting of text into units
(`ChunksOf`; see `Sentences` and `CodeChunks`), summaries, a server without
PostgreSQL or Qdrant, `pipeline_version` (its failure is `Fail` at `"title"`). A
statement that commits but whose answer is lost is the statement followed by
`Fail`. Section ids are taken as unique within a document; `SectionsInOrder`
and `PiecesKept` show that the chunkers provide this.

Bounds: two contents (a section with a heading and a repeated sentence; an
empty section before a file of two lines with one anchor) reach every branch;
two titles tell "same content" from "same title"; four serial calls allow
write, change, change back, retry; three calls side by side, two with one
machine id, allow a race and a bystander.

### IndexReset

Extends `SinkWrite`: calls run on stores that a reset empties under them, and
before a point is written the Tuber asks Redis, inserts into `keyword_so` and
caches, a step each. The reset deletes rows in one transaction, then the points:
by a filter for a project, and for everything by dropping the collection and
creating it again. `RowsFail` and `ResetStops` are its failures; both are
swallowed by `main`, so the second phase runs after a failed first one. What the
foreign keys of `postgres_ddl.sql` do is in `Dangling` and `Refused` (an insert
under a deleted row fails), `UpdateNothing` (an update of a deleted row is no
error) and `DeleteRows` (cascades). History variables name the calls that ran
beside a reset (`beside`), whose document it took (`wiped`), and the keywords it
deleted (`lost`); the properties use them to say where they make no promise.

Bounds: one reset; two calls with a keyword in common, one of a project and one
without; Qdrant, Redis, `keyword_so` and both phases of the reset may fail.

### JobRegistry

State: `jobs`, `idem` (both under `reg.mu`), the steps of each request and of
each job's goroutine. The code takes the lock for the writes, but POST (line 69)
and GET (lines 103-131) read the job's fields after they let go of it, so every
read is a step, and `Status`, a Go string of two words, is written and read
word by word. A request stores its words in program order, as on amd64, and
loads them in any order. `Key` is `idempotencyKeyForIngest`: the header, or else
the path. `Spec`
is one life of a server; `Crash` empties the maps, while clients keep what they were
told, and is a part of `ApiServer`'s `Exit`. The
subprocess either ends well, ends badly, or is killed after 30 minutes: one of
`ChildExits`' two outcomes. (`cmd.Run` may wait longer for grandchildren that
hold its pipes; that is left out.) Bounds: two POSTs share or do not share a
key, header and path keys mixed, and one client polls between all steps.

### AnswerAgent and ApiServer

`AnswerAgent` is `run` of `answer_agent.py`: the model answers, fails, or asks for
one or more tools; tools run in order and add their result to the conversation;
two of them end the run; arguments of the wrong shape raise an exception that
nothing catches in `run`; after `MaxRounds` the run ends. A `talk` entry keeps
what the properties need of a message: its round, whether it is the model's or
the k-th result, and of how many.

`ApiServer` has one action per route (`Health`, `HealthDeps`, `Search`, `Restore`,
`Ask`, `ResetIndex`, `Ingest`), with its refusals and its process, next to the
jobs of `JobRegistry`. `Serve` and `Listen` are apart because HTTP is served while
`startPhloemGRPC` is still dialling; `Exit` is its `os.Exit(1)`, or a kill: requests
are lost, jobs forgotten (`Crash` of `JobRegistry`), and running processes become
`strays`. A process ends by itself (`ChildEnds`) or with its context (`Deadline`),
and the handler answers what `RunModule` returned (`Respond`). Routes share
nothing but the server's life, hence one request next to two jobs suffices.
`Api.cfg` has no polls (the run `jobs` has), and its `CONSTRAINT InOrder` lets the
first of the two like posts come first. `MaxRounds = 2` and `MaxTools = 2` (the
code has 8 rounds and no bound on tools) allow a second round after several
tools; the theorems hold for any.

### ProjectSync

State: the files, the documents in order of creation, `projects.content_hash`
as the set of documents it was computed from, and the step of each run. One run
is `run.py` from registering to finalizing; `Write` is told in four steps (title
query, L1 row, `current_l1_id`, rest), enough for the hash, which counts only
documents with a head. A failing register leaves a run without a project; a
failing file ends it; a failing finalize does not. `run.py` always sends
machine id 0, so an explicit machine id is left out, and so are domain routing
and TypeDB. `rows.Err` is not checked in `computeProjectContentHash`, so a read
that breaks off gives a prefix (`Seen`). Bounds: a directory of two files and a
directory below it give two projects that claim the same file; two contents
and edits give stale reads. `Overlap` says which runs the environment starts side by
side: two of any root (`sync_finish`), three of which those of different roots
overlap (`sync_roots`), or one after the other (`sync_edited`). What a skip promises is
stated of the step in which `RegisterProject` decides (`ToldToSkip`), so that an edit
made later cannot count against it.

### CodePipeline

State: `CodeTOCParser.Lang` as two words and what each request read of it. The
language is stored by `Process` (line 34) and loaded twice by the parser, once
for the table of contents and once by the chunker.

### The text algorithms

Each works on a `doc` of classes of lines or characters and not on text, moves a
cursor, and is at a `stage`; a pass of a loop is an action, so that "the loop
ends" is a liveness property and not a shape of the model.

* `WikiChunks`: `Parse` builds a tree with the stack of lines 14-38,
  `FlattenTOC` walks it, `Locate` finds each heading in the text again by its level
  and title from the last one on, and `expandStructuredBlocks` takes lists, tables,
  images and fences out of a section. Lines are of the kinds the code tells apart
  (heading, a line such as `#todo` that is none, fence, table row and separator, list
  item, an item that looks like a row, image, blank, text).
* `FixedChunks`: windows of `MaxChars` runes, the search back for the end of a line,
  sentence or clause, the trimmed piece, the skipped spaces; pieces do not overlap. Runes are the
  classes `findLastSemanticBreak` tells apart.
* `CodeChunks`: the preamble and each top declaration as a chunk, parents renumbered
  from file to chunk, then the rows `writer.go` makes of them.
* `Sentences`: which of the overlapping matches are masked, and where cuts fall.

Bounds (`MCPipelines`): all documents of up to three lines of any kind, of four
and five lines over fences and lists, of four over tables; all texts of up to
four runes, and of six over the classes that interact, with windows of three;
sources of up to four lines with any parents above them; every set of five spans that touch,
overlap, or have one length. A boundary of each algorithm involves two
neighbouring blocks or windows and the end of the text, which these reach.

## 3. The runs

| Run | Shows | Distinct states |
|---|---|---|
| `idgen` | unique, ordered ids through overflow and restarts; workers apart even when the clock is set back; every call returns | 230k |
| `sink_serial` | serial calls implement `RevisionLog`; ok means stored; nothing stored twice | 450k |
| `sink_faults` | side by side, with errors and crashes: full answers are complete and searchable, points have rows, revisions belong to their document | 1.2M |
| `jobs` | one job and one subprocess per key; `JobLifecycle`; polls consistent, never going back | 270k |
| `sync_finish` | side by side, edits and every fault, broken-off reads included: a finished run has stored all it read, and a run is told to skip only after such a run of its root | 580k |
| `sync_roots` | nested roots side by side, with failures and kills: a skip leaves nothing to store; a project is settled when all went well | 280k |
| `pipelines` | no line, rune or source line lost or doubled; order and ids; masked spans whole; parents right; every loop ends | all short documents |
| `store` | calls beside a reset that may fail half way: rows and points agree again, keyword ids resolve, every call is settled | 343k |
| `api` | answers are what the process did; the agent's turns; keys resolve across restarts; every request and job ends with the lock free | 137k |
| `sink_retry` | violated: a retry after a half-written document is answered ok | |
| `sync_edited` | violated: an edited directory is skipped as up to date | |
| `code_shared` | violated: concurrent code requests take each other's language | |

Deadlock checking is off everywhere: callers, requests and runs are finite and
may all be done.

**Fairness.** `IdGen`: the clock goes on (weak), the holder of the mutex runs
(weak), and a waiter is served in the end (strong), since Go's mutex hands
over to the longest waiter after one millisecond. `IndexReset`: each call of
`Write` runs on a goroutine, and its statements answer or fail before the
request's deadline; the reset's process is killed at its own: weak fairness of
each. `ApiServer`: a handler's context ends and `RunModule` then returns (weak,
`Conclude`); strong fairness of the jobs' handlers and goroutines, which wait for
a mutex others take again and again (same argument as above), and whose
subprocess is killed when its time is over. `Pipelines`: a request is one
goroutine that runs its loops (weak). Nothing is assumed of Python, of the model
behind the agent, of clients, and of gRPC coming up; crashes, resets and faults
are never fair. The other runs check safety without fairness.

## 4. Proofs

TLAPS checks, for every number of processes, calls, contents, runs and files:

* `IdGenProofs`: `TypeCorrect`, `Disjoint` (no assumption beyond the field widths);
  `Uniqueness`, `OrderedByAge` (distinct worker numbers; until the clock is set back). The packing arithmetic is `FieldsApart` and `PackOrder`.
  Uniqueness is not inductive: `IInv` adds that no generator is ahead of the clock
  (`NotAhead`) and that every id of a worker lies behind what its generator will
  give next (`AllBehind`), also when the generator has just been restarted and
  remembers nothing. `FieldInv`, the part that does not speak of order, needs no
  assumption on the clock.
* `SinkWriteProofs`: `TypeCorrect`, `FullAnswers` (`FullAnswerStored`),
  `PointsResolve` (`PointsHaveRows`) and `RevisionsAreNamed` (`RevisionsBelong`)
  for any faults and any concurrency; `FullAnswersSearchable` if the embedder does
  not fail; `SerialNoDuplicates` and `KeepsPromise` for serial calls without
  failing reads; `OkAnswersStored` (`OkMeansStored`) for serial calls with ids of
  their own if no statement fails and nothing crashes, so what `sink_retry`
  violates is due to failing statements alone: `OverStored` says that a call that
  is over and has its L1 row has all its rows. `IInv` says what a call has written when it stands at each
  statement (`Progress`); `SearchInv` adds that each row to be embedded has its
  point or waits in `l3Items`, and `SerialInv` that between a call's title query
  and its L1 row nobody publishes its content (`StillNew`).
* `ProjectSyncProofs`: `TypeCorrect`, `FinishedRuns` (`FinishedMeansStored`) and
  `SkipsFollowRuns` (`SkipAfterFullRun`) for any faults, edits and concurrency: by
  `HashInv` a stored hash, and one a run compares with, stands for a run of that root
  that has sent all its files, whatever part of the documents it names.
  `SkippedRuns` (`SkipMeansStored`) is for files that are not edited and roots that are
  always ingested with one command line, any faults and concurrency: wider than the
  runs. `QuietProjects` (`QuietMeansSettled`) is for runs of which no two of one root are
  under way at once, those of different roots being free, and reads that do not break
  off (`"pgread"`, which leaves `computeProjectContentHash` with a prefix of the
  documents); register, ingest and finalize may fail as they like. `QuietInv` says
  that, unless a run has failed, only a project whose run has begun to write may be
  unsettled, and that the hash each run has in hand is that of its project.
* `JobRegistryProofs`: all five properties of the run `jobs`, for any number of
  posts, polls and keys, in one life of the server: `JobTypes`, `KeysRunOnce`, `FinalPolls`, the
  action property `PollsForward`, and the refinement `KeepsPromise`. The
  invariant `LifeInv` ties a goroutine's step to the job's two status words and
  its end (what may be read at which step), and each copy a request has made to a
  state the job has passed, so that a word loaded late is still one of the past.
* `ApiServerProofs`: `ApiTypes`, `RepliesAreTrue`, `AgentTurns`, `KeysAreResolved`.
  `ApiInv` is `JobInv`, the part of `LifeInv` on lock, keys and steps, which the
  composition keeps, together with
  where a request stands when its process has ended, and the shape of the
  conversation at each phase of the agent: in `"tools"` what is pending is what the
  last model message lacks, and in `"chat"` nothing is.
* `IndexResetProofs`: `KeywordIdsResolve` (`KeywordsResolve`) for any resets and
  faults. `KeyInv` says that whatever Redis holds, and whatever a call has
  inserted or been told, is in `keyword_so` or was there until a full reset.
  `StoreTypeCorrect` (`StoreTypeOK`) and `PointsOwnedOutsideReset` (the second half of
  `PointsMatchRows`) hold for any faults too; `StoresAgree` (`PointsMatchRows`) needs
  that no PostgreSQL statement fails (`"pg"`): the code ignores an error of the `UPDATE`
  that notes a point's id in its row. A reset that breaks off stays allowed: what it
  leaves is `half`. Deleting L1 rows is told by the order of those kept (`Kept`,
  `InOrder`), not by `SelectSeq`, whose facts need induction over data. `KeptInv` ties each
  point to its row, or to the reset that has deleted the row and not yet the
  point, or to a call that ran beside it; `MatchInv` says which row names which point
  at each statement of `Write`.
* `TextProofs`: `FixedTypes` and `PiecesAreKept` (`PiecesKept`) for any window and
  any text; `SourceIsKept` (`SourceKept`) for any source whose lines hang on lines
  above them (`SourcesAssumption`, as `flows/code_parser` gives them);
  `SpansStayWhole` (`SpansWhole`) for any text, any matches and any order among
  spans of one length. `FixedInv` says that the pieces so far lie apart, that the
  runes passed are kept or spaces, and where the end of the window may stand.
  `SourceInv` says the like of the chunks of lines and, once rows are made, that
  the chunks before the cursor have theirs, in order and with their parents.
  `ProseInv` says that every span looked at gave way to a masked one at least as
  long, that those still to come are no longer, and that a part lies between two
  cuts; a masked span has no cut in it, hence lies in one part.
* `PipelinesProofs`: `SerialOwnLanguage`: serial requests read their own
  language. What `code_shared` violates is therefore due to concurrency alone.
  `LinesServed` (`EachLineOnce`) and `SectionsStand` (`SectionsInOrder`) for any markdown
  document; `PipelinesTypes` (`PipelinesTypeOK`) for whatever runs, code requests side
  by side included; `AnswersKept`, the five statements about the text of the run
  `pipelines` under its own specification. The last four need no hypothesis but the
  assumptions on the constants.

`WikiInv`, the invariant for markdown, follows the phases of the pipeline. While the tree
is built, some enumeration `h` of the heading lines read so far is the tree's order
(`Reads`), a node comes after its parent, and parents do not cross: whatever lies
between a node and its parent hangs on that parent or on something after it
(`TreeShape`; `StackShape` for the nodes a later heading may hang on). From this follows
that `FlattenTOC`, which only looks at children, visits the nodes in document order
(`InNodeOrder`, `TrailShape`), and then, by induction along `Locate`, that looking for each
heading by level and title from behind the last one finds the very line it
came from, also where titles repeat (`SearchFrom`, `HeadingsRead`). The argument covers every
tree the stack could build, also if its loop popped (see section 5). While the sections are made,
each line behind the cursor is in one chunk, in the section's text, in the block in hand or in one of
the section's blocks (`LinesOnce`, `TextKept`); a step of the scanner either takes the
lines it passes or makes a block of them (`Taken`, `Derives`), so that the eight
steps share two lemmas. `NextSection` shows that the scanner, which ends at any heading,
ends where the next section was located. `TablesHeaded` says that a table's chunk begins with
its head and separator, the only two lines of it that reach no row (`Unrowed`).

Only model-checked: everything temporal under fairness (`EveryCallReturns`,
`EveryWriteSettled`, `EveryRequestServed`, `ChunkingEnds`), which is out of the
prover's reach. Every other property of the passing runs is stated by a theorem.
Induction over data, as in a tree or a nested list, is out of the prover's reach;
for this reason the algorithms are state machines with loop invariants and not
recursive operators, and no module declares one.

## 5. What the models show beyond the properties

Disagreements between code and documentation that a run demonstrates are in
`PROJECT.json` under `findings`. Others were met on the way; each can be
reproduced with the constants named, or read off the lines given:

* `IdGen`: a clock set back repeats ids (`UniqueIds` without its premise).
* `SinkWrite`, two calls with `Concurrent = TRUE` and no faults: both miss the
  title query and store the document twice (`NoDuplicates`); nothing in the
  schema prevents it.
* `SinkWrite`: every request draws a new machine id, so a changed document
  becomes a second document and never a second version, although
  `writer.go:88` speaks of a version bump.
* `SinkWrite` with a failing embedder (`FullAnswerSearchable` without its restriction on
  `Faults`): `writer.go:391` skips the item with a warning, the call answers ok, and the
  document stays unsearchable in part, since later calls find its title and skip.
* `IndexReset` without the premise `~half`: the reset deletes rows and fails on the
  points, or the other way round, prints the error and is answered as success
  (`index_reset.py:157-163`). Points lost this way do not come back with the next
  ingest, which finds the title and skips.
* `IndexReset` for calls in `beside`: a document written while the reset is between
  its phases keeps its rows and loses its points, and is skipped from then on.
* `index_reset.py:133` creates the collection with vectors of the local model's
  size; with OpenAI embeddings later upserts fail, and `EnsureQdrantCollection`
  creates it only if it is missing.
* After a full reset Redis still holds the ids of keywords that `keyword_so` has
  lost (`lost` in `KeywordsResolve`); no service reads `keyword_ids` so far.
* `WikiChunks`: the loop of `toc/markdown.go:32` tests the top of the stack, which is
  always an empty list of children, and never pops: each heading becomes a child
  of the one before, so section paths are chains of all earlier headings, against
  `toc/toc.go:16`. The order of sections and their ids do not depend on it.
* `WikiChunks`: a line like `# x` within a fence counts as a heading and splits the
  fence; `chunker/heading.go:20` says a section goes up to the next heading of its
  level or above, and line 111 ends it at any heading.
* `CodeChunks`: a comment that looks like a markdown heading (`# ...` in Python)
  becomes a heading row of its chunk in addition to its line, so restoring by sort
  order gives it twice (`restorer.py:262` says
  "100% source fidelity").
* `WikiChunks`: a line such as `#todo` in prose is neither heading nor text to the
  sink and reaches no L3 row (`Unrowed`).
* `JobRegistry`: a retry with the same key after a restart starts the ingest again
  (`OneRunPerKey` is per process), the keys being in memory only.
* `JobRegistry`: a poll can read the final status before the result or failure
  is set, and the text of one status with the length of another.
* `JobRegistry`: `project_id` of the body is never passed on (`RunModule`); a path
  key is permanent, so a path without header is ingested once per process.
* `ApiServer`: a request may be answered by Phloem's absence although the health of
  dependencies said `ok`, since that check only makes a client
  (`health_deps.go:87`); processes of a server that exits run on as strays.
* `AnswerAgent`: eight rounds of 120 seconds exceed the ten minutes of
  `/api/answer`; a tool whose SQL fails leaves its connection in an aborted
  transaction, and later tools of the run fail with it; the answer on an error of
  the model differs from the docstring at `answer_agent.py:270`.
* `ProjectSync` with a command line for a single file of a directory: the
  directory's project is finalized, and the rest of it skipped as up to date.
* `ProjectSync` with two files of one title: each ingest of the unchanged
  directory stores both again.
* `ProjectSync`: a read of `computeProjectContentHash` that breaks off is not noticed
  (`server.go:171`) and stores the hash of the first documents; the next run then sends
  all files again. So does the run after two runs of one root side by side, the slower
  of which may store the older hash.
* `ProjectSync`, nested roots: a run whose files another project holds is told
  its hash was stored when none was.

## 6. Not modelled, and why

* Pipeline registry: a map filled at start; the two functions with a race,
  `GetOrDefault` and `SetDefaultDomain`, have no callers. No server registers the
  PDF pipeline, so requests of that domain are refused; `FixedChunks` models it as
  it would run.
* Retriever, restorer, graph context, tree: one process per request that only
  reads; ranking and text assembly keep no state. That a hit has its rows, which
  they rely on, is `PointsHaveRows` and `PointsMatchRows`.
* TypeDB sync: a mirror behind an environment variable that nothing reads back.
* Embedder, NLP worker, code parser: functions behind a process boundary; their
  failures are in `SinkWrite`, `Pipelines` and `CodePipeline`.
* An explicit machine id of `RegisterProject`: no client in the repository sends
  one. `toc.go` of `internal/phloem`: no caller.
* Generated protobuf code, deployment files, command line and environment parsing:
  no state or no core logic. The shape of JSON answers (`search_shape.go`) is
  formatting.

## 7. Plan

Done: the modules, runs and proofs above. What could follow:

1. Proofs that need fewer hypotheses: `StoresAgree` with failing statements, for the calls
   whose `UPDATE` went through.
2. A retriever and restorer that read the tables of `IndexReset` in several
   queries while a write or a reset runs.
3. An explicit machine id in `ProjectSync`.
