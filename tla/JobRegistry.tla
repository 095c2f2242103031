---------------------------- MODULE JobRegistry ----------------------------
(***************************************************************************)
(* Asynchronous ingest jobs (internal/api/jobs.go): POST /api/ingest/jobs  *)
(* registers a job under an idempotency key and starts a goroutine that    *)
(* runs the ingest subprocess; GET /api/jobs/{id} reports on it.  The maps *)
(* are read and written under reg.mu, and so are the writes to a job; but  *)
(* POST and GET read the fields of a job after they have released reg.mu.  *)
(* A Go string is two words, so Status is read and written in two steps.   *)
(***************************************************************************)
EXTENDS Integers, FiniteSets

CONSTANTS
  Posts,      \* POST requests; a retry is a request of its own
  Polls,      \* clients that poll, each one GET after the other
  Headers,    \* Idempotency-Key headers
  NoHeader,   \* no header sent
  Paths,      \* the "path" of the body
  Projects,   \* the "project_id" of the body
  NoJob       \* no job

ASSUME JobAssumption == /\ NoHeader \notin Headers
                        /\ NoJob \notin Posts /\ NoJob \notin Paths
                        /\ Posts \cap Polls = {}

VARIABLES
  jobs,   \* reg.jobs; a job is named by the POST that created it
  idem,   \* reg.idempotency
  mu,     \* who holds reg.mu across steps: a job's goroutine, or NoJob
  at,     \* [Posts \cup Polls -> the step of the request]
  ask,    \* [Posts -> the request body and header]
  got,    \* [Posts \cup Polls -> what the request has read so far]
  go,     \* [Posts -> step of the goroutine of the job, or "none"]
  ran,    \* history: [Posts -> the arguments its subprocess was started with]
  seen    \* history: [Polls -> the last answer], NoAnswer before

vars == <<jobs, idem, mu, at, ask, got, go, ran, seen>>

Status == {"queued", "running", "completed", "failed"}
LenOf == [queued |-> 6, running |-> 7, completed |-> 9, failed |-> 6]

\* idempotencyKeyForIngest: the header's key, or one made from the path.
Key(r) == IF r.header # NoHeader THEN <<"hk", r.header>> ELSE <<"path", r.path>>
IdemKeys == ({"hk"} \X Headers) \cup ({"path"} \X Paths)

Bodies == [header : Headers \cup {NoHeader}, path : Paths, project : Projects]
NoBody == [header |-> NoHeader, path |-> NoJob, project |-> NoJob]

\* What a subprocess is given of a body.
Arguments == [header : Headers \cup {NoHeader}, path : Paths, project : {NoJob}]

Absent == [text |-> "", len |-> 0, ended |-> FALSE, result |-> FALSE, failure |-> FALSE]
Queued == [Absent EXCEPT !.text = "queued", !.len = LenOf["queued"]]
Nothing == [job |-> NoJob, text |-> "", len |-> 0, ended |-> FALSE, result |-> FALSE,
            failure |-> FALSE]

Init == /\ jobs = [j \in Posts |-> Absent]
        /\ idem = [k \in IdemKeys |-> NoJob]
        /\ mu = NoJob
        /\ at = [r \in Posts \cup Polls |-> "idle"]
        /\ ask = [p \in Posts |-> NoBody]
        /\ got = [r \in Posts \cup Polls |-> Nothing]
        /\ go = [j \in Posts |-> "none"]
        /\ ran = [j \in Posts |-> NoBody]
        /\ seen = [g \in Polls |-> Nothing]

Exists(j) == j # NoJob /\ jobs[j] # Absent

To(r, step) == at' = [at EXCEPT ![r] = step]

-----------------------------------------------------------------------------
(* POST /api/ingest/jobs.                                                  *)

\* Mutated form: a body without a path is let through.
Post_NoPath(p) == /\ at[p] = "idle"
                  /\ \E b \in Bodies \cup {NoBody} : ask' = [ask EXCEPT ![p] = b]
                  /\ To(p, "lookup")
                  /\ UNCHANGED <<jobs, idem, mu, got, go, ran, seen>>

Post(p) == /\ at[p] = "idle"
           /\ \E b \in Bodies : ask' = [ask EXCEPT ![p] = b]
           /\ To(p, "lookup")
           /\ UNCHANGED <<jobs, idem, mu, got, go, ran, seen>>

\* The key is known: the job's pointer is taken, the lock released.
JoinJob(p) == /\ at[p] = "lookup" /\ mu = NoJob
              /\ Exists(idem[Key(ask[p])])
              /\ got' = [got EXCEPT ![p].job = idem[Key(ask[p])]]
              /\ To(p, "status")
              /\ UNCHANGED <<jobs, idem, mu, ask, go, ran, seen>>

\* Mutated form: the key is not remembered.
CreateJob_NoKey(p) ==
  /\ at[p] = "lookup" /\ mu = NoJob
  /\ ~Exists(idem[Key(ask[p])])
  /\ jobs' = [jobs EXCEPT ![p] = Queued]
  /\ got' = [got EXCEPT ![p] = [Nothing EXCEPT !.job = p, !.text = "queued", !.len = 6]]
  /\ go' = [go EXCEPT ![p] = "start"]
  /\ To(p, "done")
  /\ UNCHANGED <<idem, mu, ask, ran, seen>>

\* A new job and its key enter the maps together and its goroutine starts.
CreateJob(p) ==
  /\ at[p] = "lookup" /\ mu = NoJob
  /\ ~Exists(idem[Key(ask[p])])
  /\ jobs' = [jobs EXCEPT ![p] = Queued]
  /\ idem' = [idem EXCEPT ![Key(ask[p])] = p]
  /\ got' = [got EXCEPT ![p] = [Nothing EXCEPT !.job = p, !.text = "queued", !.len = 6]]
  /\ go' = [go EXCEPT ![p] = "start"]
  /\ To(p, "done")
  /\ UNCHANGED <<mu, ask, ran, seen>>

-----------------------------------------------------------------------------
(* Reading a job's fields, no lock held.                                   *)

\* The two words of Status, in the order the compiler and processor choose.
ReadStatus(r) ==
  /\ at[r] = "status"
  /\ LET j == jobs[got[r].job] IN
     \/ got[r].text = "" /\ got' = [got EXCEPT ![r].text = j.text]
     \/ got[r].len = 0 /\ got' = [got EXCEPT ![r].len = j.len]
  /\ UNCHANGED <<jobs, idem, mu, at, ask, go, ran, seen>>

\* Both words are there: POST has its answer, GET reads on.
StatusRead(r) ==
  /\ at[r] = "status" /\ got[r].text # "" /\ got[r].len # 0
  /\ To(r, IF r \in Posts THEN "done" ELSE "ended")
  /\ UNCHANGED <<jobs, idem, mu, ask, got, go, ran, seen>>

-----------------------------------------------------------------------------
(* GET /api/jobs/{id}.                                                     *)

\* A client polls a job it was told of, or any other id: not found.
Poll(g, p) ==
  /\ at[g] = "idle" /\ mu = NoJob
  /\ at[p] = "done" /\ got[p].job # NoJob
  /\ IF Exists(got[p].job)
     THEN /\ got' = [got EXCEPT ![g] = [Nothing EXCEPT !.job = got[p].job]]
          /\ To(g, "status")
          /\ UNCHANGED seen
     ELSE /\ seen' = [seen EXCEPT ![g] = [Nothing EXCEPT !.job = got[p].job]]
          /\ UNCHANGED <<at, got>>
  /\ UNCHANGED <<jobs, idem, mu, ask, go, ran>>

ReadEnded(g) == /\ at[g] = "ended"
                /\ got' = [got EXCEPT ![g].ended = jobs[got[g].job].ended]
                /\ To(g, "result")
                /\ UNCHANGED <<jobs, idem, mu, ask, go, ran, seen>>

ReadResult(g) == /\ at[g] = "result"
                 /\ got' = [got EXCEPT ![g].result = jobs[got[g].job].result]
                 /\ To(g, "failure")
                 /\ UNCHANGED <<jobs, idem, mu, ask, go, ran, seen>>

\* The last field; the answer goes out and the client may poll again.
ReadFailure(g) == /\ at[g] = "failure"
                  /\ seen' = [seen EXCEPT ![g] = [got[g] EXCEPT !.failure = jobs[got[g].job].failure]]
                  /\ got' = [got EXCEPT ![g] = Nothing]
                  /\ To(g, "idle")
                  /\ UNCHANGED <<jobs, idem, mu, ask, go, ran>>

-----------------------------------------------------------------------------
(* runIngestJob.                                                           *)

Step(j, from, to) == go[j] = from /\ go' = [go EXCEPT ![j] = to]

\* Under the lock Status becomes "running": first the one word ...
RunBegin(j) == /\ Step(j, "start", "starting")
               /\ mu = NoJob /\ mu' = j
               /\ jobs' = [jobs EXCEPT ![j].len = LenOf["running"]]
               /\ UNCHANGED <<idem, at, ask, got, ran, seen>>

\* ... then the other; the lock is released and the subprocess started, with
\* the path as its only argument.
RunModule(j) == /\ Step(j, "starting", "child")
                /\ mu' = NoJob
                /\ jobs' = [jobs EXCEPT ![j].text = "running"]
                /\ ran' = [ran EXCEPT ![j] = [ask[j] EXCEPT !.project = NoJob]]
                /\ UNCHANGED <<idem, at, ask, got, seen>>

\* Mutated form: EndedAt is not set.
ChildExits_NoEnd(j) ==
  /\ mu = NoJob /\ mu' = j
  /\ Step(j, "child", "ok") \/ Step(j, "child", "err")
  /\ UNCHANGED <<jobs, idem, at, ask, got, ran, seen>>

\* The subprocess ends, fails, or is killed after 30 minutes; EndedAt is set.
ChildExits(j) == /\ mu = NoJob /\ mu' = j
                 /\ Step(j, "child", "ok") \/ Step(j, "child", "err")
                 /\ jobs' = [jobs EXCEPT ![j].ended = TRUE]
                 /\ UNCHANGED <<idem, at, ask, got, ran, seen>>

EndLen(j) == /\ \/ Step(j, "ok", "oklen") /\ jobs' = [jobs EXCEPT ![j].len = LenOf["completed"]]
                \/ Step(j, "err", "errlen") /\ jobs' = [jobs EXCEPT ![j].len = LenOf["failed"]]
             /\ UNCHANGED <<idem, mu, at, ask, got, ran, seen>>

EndText(j) == /\ \/ Step(j, "oklen", "okend") /\ jobs' = [jobs EXCEPT ![j].text = "completed"]
                 \/ Step(j, "errlen", "errend") /\ jobs' = [jobs EXCEPT ![j].text = "failed"]
              /\ UNCHANGED <<idem, mu, at, ask, got, ran, seen>>

\* Mutated form: the function returns with the lock held.
RunEnd_KeepsLock(j) ==
  /\ \/ Step(j, "okend", "over") /\ jobs' = [jobs EXCEPT ![j].result = TRUE]
     \/ Step(j, "errend", "over") /\ jobs' = [jobs EXCEPT ![j].failure = TRUE]
  /\ UNCHANGED <<idem, mu, at, ask, got, ran, seen>>

\* Mutated form: the finished job is taken out of the map.
RunEnd_Evicts(j) ==
  /\ Step(j, "okend", "over") \/ Step(j, "errend", "over")
  /\ jobs' = [jobs EXCEPT ![j] = Absent]
  /\ mu' = NoJob
  /\ UNCHANGED <<idem, at, ask, got, ran, seen>>

\* Result or Failure is set and the lock released.
RunEnd(j) ==
  /\ \/ Step(j, "okend", "over") /\ jobs' = [jobs EXCEPT ![j].result = TRUE]
     \/ Step(j, "errend", "over") /\ jobs' = [jobs EXCEPT ![j].failure = TRUE]
  /\ mu' = NoJob
  /\ UNCHANGED <<idem, at, ask, got, ran, seen>>

Run(j) == RunBegin(j) \/ RunModule(j) \/ ChildExits(j) \/ EndLen(j) \/ EndText(j) \/ RunEnd(j)

-----------------------------------------------------------------------------
\* The server dies and starts with empty maps (in ApiServer).  Clients keep what
\* they were told; requests under way get no answer.
Crash == /\ jobs' = [j \in Posts |-> Absent]
         /\ idem' = [k \in IdemKeys |-> NoJob]
         /\ mu' = NoJob
         /\ at' = [r \in Posts \cup Polls |->
                     IF r \in Polls THEN "idle"
                     ELSE IF at[r] \in {"lookup", "status"} THEN "lost" ELSE at[r]]
         /\ got' = [r \in Posts \cup Polls |-> IF at[r] = "done" THEN got[r] ELSE Nothing]
         /\ go' = [j \in Posts |-> "none"]
         /\ UNCHANGED <<ask, ran, seen>>

Handle(p) == JoinJob(p) \/ CreateJob(p) \/ ReadStatus(p) \/ StatusRead(p)

Read(g) == ReadStatus(g) \/ StatusRead(g) \/ ReadEnded(g) \/ ReadResult(g) \/ ReadFailure(g)

Next == \/ \E p \in Posts : Post(p) \/ Handle(p) \/ Run(p)
        \/ \E g \in Polls : Read(g) \/ \E p \in Posts : Poll(g, p)

Spec == Init /\ [][Next]_vars

-----------------------------------------------------------------------------
(* Properties.                                                             *)

Fields == [text : Status \cup {""}, len : {0, 6, 7, 9}, ended : BOOLEAN, result : BOOLEAN,
           failure : BOOLEAN]
Reads == [job : Posts \cup {NoJob}, text : Status \cup {""}, len : {0, 6, 7, 9},
          ended : BOOLEAN, result : BOOLEAN, failure : BOOLEAN]

\* The values every variable ranges over: the fields of ingestJob and of the
\* two maps.
TypeOK == /\ jobs \in [Posts -> Fields]
          /\ idem \in [IdemKeys -> Posts \cup {NoJob}]
          /\ mu \in Posts \cup {NoJob}
          /\ at \in [Posts \cup Polls -> {"idle", "lookup", "status", "ended", "result",
                                          "failure", "done", "lost"}]
          /\ ask \in [Posts -> Bodies \cup {NoBody}]
          /\ \A p \in Posts : /\ ask[p] \in Bodies \/ at[p] \in {"idle", "lost"}
                             /\ at[p] \notin {"ended", "result", "failure"}
          /\ ran \in [Posts -> Arguments \cup {NoBody}]
          /\ got \in [Posts \cup Polls -> Reads]
          /\ go \in [Posts -> {"none", "start", "starting", "child", "ok", "err", "oklen",
                               "errlen", "okend", "errend", "over"}]
          /\ seen \in [Polls -> Reads]

\* A key never names a job that is not there: the handler would go on without
\* the lock and release it twice, which kills the server (jobs.go:66-82).
KeysResolve == \A k \in IdemKeys : idem[k] # NoJob => Exists(idem[k])

\* One key, one ingest: two subprocesses are never started for one key.
OneRunPerKey == \A i, j \in Posts :
  ran[i] # NoBody /\ ran[j] # NoBody /\ Key(ran[i]) = Key(ran[j]) => i = j

\* A poll that reports a final state also reports when it ended, and never an
\* outcome of the other kind.
FinalPollHasEnd == \A g \in Polls : seen[g].text \in {"completed", "failed"} =>
  /\ seen[g].ended
  /\ seen[g].text = "completed" => ~seen[g].failure
  /\ seen[g].text = "failed" => ~seen[g].result

Rank == [queued |-> 1, running |-> 2, completed |-> 3, failed |-> 3]

\* A client that polls one job never sees it go back.
PollsGoForward == [][\A g \in Polls :
  seen[g].job # NoJob /\ seen'[g].job = seen[g].job
  => /\ seen'[g].text # ""
     /\ Rank[seen[g].text] <= Rank[seen'[g].text]
     /\ seen[g].text \in {"completed", "failed"} => seen'[g].text = seen[g].text]_vars

-----------------------------------------------------------------------------
(* The inductive invariant.                                                *)

Has(j, text, len, ended) == jobs[j].text = text /\ jobs[j].len = len /\ jobs[j].ended = ended

\* What the fields of job j are at each step of its goroutine.
InStep(j) ==
  /\ go[j] = "none"     => jobs[j] = Absent
  /\ go[j] = "start"    => Has(j, "queued", 6, FALSE)
  /\ go[j] = "starting" => Has(j, "queued", 7, FALSE)
  /\ go[j] = "child"    => Has(j, "running", 7, FALSE)
  /\ go[j] \in {"ok", "err"} => Has(j, "running", 7, TRUE)
  /\ go[j] = "oklen"    => Has(j, "running", 9, TRUE)
  /\ go[j] = "errlen"   => Has(j, "running", 6, TRUE)
  /\ go[j] = "okend"    => Has(j, "completed", 9, TRUE)
  /\ go[j] = "errend"   => Has(j, "failed", 6, TRUE)
  /\ go[j] = "over"     => \/ Has(j, "completed", 9, TRUE) /\ jobs[j].result
                           \/ Has(j, "failed", 6, TRUE) /\ jobs[j].failure
  /\ jobs[j].result  => go[j] = "over" /\ jobs[j].text = "completed"
  /\ jobs[j].failure => go[j] = "over" /\ jobs[j].text = "failed"

Reading == {"status", "ended", "result", "failure"}

\* A job is where its goroutine is, and there if its POST is over; a POST on the
\* way has no job of its own, and the goroutine that holds the lock is in it.
JobsFollow ==
  /\ \A j \in Posts :
       /\ InStep(j)
       /\ go[j] # "none" => at[j] = "done" /\ ask[j] \in Bodies
  /\ \A r \in Posts \cup Polls :
       at[r] \in Reading =>
         got[r].job \in Posts /\ jobs[got[r].job] # Absent

\* Within the life of a server: a key names the job that was asked for with it.
KeysOwn == \A j \in Posts :
  /\ go[j] # "none" => idem[Key(ask[j])] = j
  /\ ran[j] # NoBody => go[j] # "none" /\ Key(ran[j]) = Key(ask[j])

Final == {"completed", "failed"}
Behind(a, b) == Rank[a] <= Rank[b] /\ (a \in Final => a = b)

\* What a poll has read of a job so far is true of it, or was.
ReadsTrue == \A g \in Polls : LET j == jobs[got[g].job] IN
  /\ at[g] \in Reading =>
       /\ got[g].text = "" \/ Behind(got[g].text, j.text)
       /\ got[g].result => j.result
       /\ ~got[g].failure
  /\ at[g] \in {"ended", "result", "failure"} => got[g].text # ""
  /\ at[g] \in {"result", "failure"} /\ got[g].text \in Final => got[g].ended
  /\ at[g] = "status" => ~got[g].result

\* Within the life of a server: a job that a POST was answered with is there.
JobsTold == \A p \in Posts :
  at[p] = "done" => got[p].job \in Posts /\ jobs[got[p].job] # Absent

\* Within the life of a server: what was answered stays behind what is read next.
AnswersBehind == \A g \in Polls : seen[g].job # NoJob =>
  /\ seen[g].text # "" /\ jobs[seen[g].job] # Absent
  /\ Behind(seen[g].text, jobs[seen[g].job].text)
  /\ at[g] \in Reading /\ got[g].job = seen[g].job /\ got[g].text # ""
       => Behind(seen[g].text, got[g].text)

JobInv == /\ TypeOK /\ KeysResolve /\ FinalPollHasEnd
          /\ JobsFollow /\ ReadsTrue

LifeInv == JobInv /\ KeysOwn /\ JobsTold /\ AnswersBehind

-----------------------------------------------------------------------------
\* The promise to clients, over the word of Status that says its text.
Lifecycle == INSTANCE JobLifecycle WITH
  Jobs <- Posts, Keys <- IdemKeys, NoJob <- NoJob,
  state <- [j \in Posts |-> IF jobs[j] = Absent THEN "none" ELSE jobs[j].text],
  given <- idem

\* As long as it lives the registry keeps the promise.
PromiseKept == Lifecycle!Spec
=============================================================================
