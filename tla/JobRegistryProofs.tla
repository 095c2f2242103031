------------------------- MODULE JobRegistryProofs -------------------------
(***************************************************************************)
(* Proofs about the job registry, for any number of POSTs, clients,        *)
(* headers and paths.                                                      *)
(***************************************************************************)
EXTENDS JobRegistry, TLAPS

USE JobAssumption DEF Reading

GoSteps == {"none", "start", "starting", "child", "ok", "err", "oklen", "errlen", "okend",
            "errend", "over"}

-----------------------------------------------------------------------------
(* What the steps of a goroutine have in common.                           *)

\* From the fields a to the fields b.
Forward(a, b) == /\ a.text # "" /\ b.text # ""
                 /\ Behind(a.text, b.text)
                 /\ a.result => b.result

\* A step of the life of a job.
OneOn(s, t) == s = t \/ <<s, t>> \in {<<"queued", "running">>, <<"running", "completed">>,
                                      <<"running", "failed">>}

\* Each step of a goroutine takes its job from one step to the next: the fields
\* of no other job are touched, and Status only goes forward.
LEMMA RunMoves ==
  ASSUME JobInv, NEW j \in Posts, Run(j)
  PROVE  /\ UNCHANGED <<idem, at, ask, got, seen>>
         /\ go[j] # "none" /\ mu' \in Posts \cup {NoJob}
         /\ go' = [go EXCEPT ![j] = go'[j]] /\ go'[j] \in GoSteps \ {"none"}
         /\ jobs' = [jobs EXCEPT ![j] = jobs'[j]] /\ jobs'[j] \in Fields
         /\ InStep(j)'
         /\ Forward(jobs[j], jobs'[j]) /\ OneOn(jobs[j].text, jobs'[j].text)
         /\ \/ ran' = ran
            \/ ran' = [ran EXCEPT ![j] = [ask[j] EXCEPT !.project = NoJob]]
  <1>0. /\ TypeOK /\ InStep(j) /\ go \in [Posts -> GoSteps] /\ jobs \in [Posts -> Fields]
        /\ mu \in Posts \cup {NoJob}
    BY DEF JobInv, JobsFollow, TypeOK, GoSteps
  <1>1. CASE RunBegin(j)
    <2>1. CASE Step(j, "start", "starting")
      <3>1. go[j] = "start" /\ go'[j] = "starting" /\ go' = [go EXCEPT ![j] = go'[j]]
        BY <1>0, <2>1 DEF Step
      <3>2. Has(j, "queued", 6, FALSE) /\ ~jobs[j].result /\ ~jobs[j].failure
        BY <1>0, <3>1 DEF InStep
      <3>3. jobs' = [jobs EXCEPT ![j].len = 7]
        BY <1>1, <3>1 DEF RunBegin, Step, LenOf
      <3>4. jobs'[j] \in Fields /\ jobs' = [jobs EXCEPT ![j] = jobs'[j]]
        BY <1>0, <3>3 DEF Fields, Status
      <3>5. Has(j, "queued", 7, FALSE)' /\ jobs'[j].result = FALSE /\ jobs'[j].failure = FALSE
        BY <1>0, <3>2, <3>3 DEF Fields, Has
      <3>6. InStep(j)'
        BY <3>1, <3>5 DEF InStep, Has
      <3>7. Forward(jobs[j], jobs'[j]) /\ OneOn(jobs[j].text, jobs'[j].text)
        BY <3>2, <3>5 DEF Forward, Behind, Rank, Final, Has, OneOn
      <3>8. UNCHANGED <<idem, at, ask, got, seen>> /\ mu' \in Posts \cup {NoJob}
        BY <1>0, <1>1 DEF RunBegin
      <3>9. ran' = ran \/ ran' = [ran EXCEPT ![j] = [ask[j] EXCEPT !.project = NoJob]]
        BY <1>1 DEF RunBegin
      <3> QED
        BY <3>1, <3>4, <3>6, <3>7, <3>8, <3>9 DEF GoSteps
    <2> QED
      BY <1>1, <2>1 DEF RunBegin
  <1>2. CASE RunModule(j)
    <2>1. CASE Step(j, "starting", "child")
      <3>1. go[j] = "starting" /\ go'[j] = "child" /\ go' = [go EXCEPT ![j] = go'[j]]
        BY <1>0, <2>1 DEF Step
      <3>2. Has(j, "queued", 7, FALSE) /\ ~jobs[j].result /\ ~jobs[j].failure
        BY <1>0, <3>1 DEF InStep
      <3>3. jobs' = [jobs EXCEPT ![j].text = "running"]
        BY <1>2, <3>1 DEF RunModule, Step, LenOf
      <3>4. jobs'[j] \in Fields /\ jobs' = [jobs EXCEPT ![j] = jobs'[j]]
        BY <1>0, <3>3 DEF Fields, Status
      <3>5. Has(j, "running", 7, FALSE)' /\ jobs'[j].result = FALSE /\ jobs'[j].failure = FALSE
        BY <1>0, <3>2, <3>3 DEF Fields, Has
      <3>6. InStep(j)'
        BY <3>1, <3>5 DEF InStep, Has
      <3>7. Forward(jobs[j], jobs'[j]) /\ OneOn(jobs[j].text, jobs'[j].text)
        BY <3>2, <3>5 DEF Forward, Behind, Rank, Final, Has, OneOn
      <3>8. UNCHANGED <<idem, at, ask, got, seen>> /\ mu' \in Posts \cup {NoJob}
        BY <1>0, <1>2 DEF RunModule
      <3>9. ran' = ran \/ ran' = [ran EXCEPT ![j] = [ask[j] EXCEPT !.project = NoJob]]
        BY <1>2 DEF RunModule
      <3> QED
        BY <3>1, <3>4, <3>6, <3>7, <3>8, <3>9 DEF GoSteps
    <2> QED
      BY <1>2, <2>1 DEF RunModule
  <1>3. CASE ChildExits(j)
    <2>1. CASE Step(j, "child", "ok")
      <3>1. go[j] = "child" /\ go'[j] = "ok" /\ go' = [go EXCEPT ![j] = go'[j]]
        BY <1>0, <2>1 DEF Step
      <3>2. Has(j, "running", 7, FALSE) /\ ~jobs[j].result /\ ~jobs[j].failure
        BY <1>0, <3>1 DEF InStep
      <3>3. jobs' = [jobs EXCEPT ![j].ended = TRUE]
        BY <1>3, <3>1 DEF ChildExits, Step, LenOf
      <3>4. jobs'[j] \in Fields /\ jobs' = [jobs EXCEPT ![j] = jobs'[j]]
        BY <1>0, <3>3 DEF Fields, Status
      <3>5. Has(j, "running", 7, TRUE)' /\ jobs'[j].result = FALSE /\ jobs'[j].failure = FALSE
        BY <1>0, <3>2, <3>3 DEF Fields, Has
      <3>6. InStep(j)'
        BY <3>1, <3>5 DEF InStep, Has
      <3>7. Forward(jobs[j], jobs'[j]) /\ OneOn(jobs[j].text, jobs'[j].text)
        BY <3>2, <3>5 DEF Forward, Behind, Rank, Final, Has, OneOn
      <3>8. UNCHANGED <<idem, at, ask, got, seen>> /\ mu' \in Posts \cup {NoJob}
        BY <1>0, <1>3 DEF ChildExits
      <3>9. ran' = ran \/ ran' = [ran EXCEPT ![j] = [ask[j] EXCEPT !.project = NoJob]]
        BY <1>3 DEF ChildExits
      <3> QED
        BY <3>1, <3>4, <3>6, <3>7, <3>8, <3>9 DEF GoSteps
    <2>2. CASE Step(j, "child", "err")
      <3>1. go[j] = "child" /\ go'[j] = "err" /\ go' = [go EXCEPT ![j] = go'[j]]
        BY <1>0, <2>2 DEF Step
      <3>2. Has(j, "running", 7, FALSE) /\ ~jobs[j].result /\ ~jobs[j].failure
        BY <1>0, <3>1 DEF InStep
      <3>3. jobs' = [jobs EXCEPT ![j].ended = TRUE]
        BY <1>3, <3>1 DEF ChildExits, Step, LenOf
      <3>4. jobs'[j] \in Fields /\ jobs' = [jobs EXCEPT ![j] = jobs'[j]]
        BY <1>0, <3>3 DEF Fields, Status
      <3>5. Has(j, "running", 7, TRUE)' /\ jobs'[j].result = FALSE /\ jobs'[j].failure = FALSE
        BY <1>0, <3>2, <3>3 DEF Fields, Has
      <3>6. InStep(j)'
        BY <3>1, <3>5 DEF InStep, Has
      <3>7. Forward(jobs[j], jobs'[j]) /\ OneOn(jobs[j].text, jobs'[j].text)
        BY <3>2, <3>5 DEF Forward, Behind, Rank, Final, Has, OneOn
      <3>8. UNCHANGED <<idem, at, ask, got, seen>> /\ mu' \in Posts \cup {NoJob}
        BY <1>0, <1>3 DEF ChildExits
      <3>9. ran' = ran \/ ran' = [ran EXCEPT ![j] = [ask[j] EXCEPT !.project = NoJob]]
        BY <1>3 DEF ChildExits
      <3> QED
        BY <3>1, <3>4, <3>6, <3>7, <3>8, <3>9 DEF GoSteps
    <2> QED
      BY <1>3, <2>1, <2>2 DEF ChildExits
  <1>4. CASE EndLen(j)
    <2>1. CASE Step(j, "ok", "oklen")
      <3>1. go[j] = "ok" /\ go'[j] = "oklen" /\ go' = [go EXCEPT ![j] = go'[j]]
        BY <1>0, <2>1 DEF Step
      <3>2. Has(j, "running", 7, TRUE) /\ ~jobs[j].result /\ ~jobs[j].failure
        BY <1>0, <3>1 DEF InStep
      <3>3. jobs' = [jobs EXCEPT ![j].len = 9]
        BY <1>4, <3>1 DEF EndLen, Step, LenOf
      <3>4. jobs'[j] \in Fields /\ jobs' = [jobs EXCEPT ![j] = jobs'[j]]
        BY <1>0, <3>3 DEF Fields, Status
      <3>5. Has(j, "running", 9, TRUE)' /\ jobs'[j].result = FALSE /\ jobs'[j].failure = FALSE
        BY <1>0, <3>2, <3>3 DEF Fields, Has
      <3>6. InStep(j)'
        BY <3>1, <3>5 DEF InStep, Has
      <3>7. Forward(jobs[j], jobs'[j]) /\ OneOn(jobs[j].text, jobs'[j].text)
        BY <3>2, <3>5 DEF Forward, Behind, Rank, Final, Has, OneOn
      <3>8. UNCHANGED <<idem, at, ask, got, seen>> /\ mu' \in Posts \cup {NoJob}
        BY <1>0, <1>4 DEF EndLen
      <3>9. ran' = ran \/ ran' = [ran EXCEPT ![j] = [ask[j] EXCEPT !.project = NoJob]]
        BY <1>4 DEF EndLen
      <3> QED
        BY <3>1, <3>4, <3>6, <3>7, <3>8, <3>9 DEF GoSteps
    <2>2. CASE Step(j, "err", "errlen")
      <3>1. go[j] = "err" /\ go'[j] = "errlen" /\ go' = [go EXCEPT ![j] = go'[j]]
        BY <1>0, <2>2 DEF Step
      <3>2. Has(j, "running", 7, TRUE) /\ ~jobs[j].result /\ ~jobs[j].failure
        BY <1>0, <3>1 DEF InStep
      <3>3. jobs' = [jobs EXCEPT ![j].len = 6]
        BY <1>4, <3>1 DEF EndLen, Step, LenOf
      <3>4. jobs'[j] \in Fields /\ jobs' = [jobs EXCEPT ![j] = jobs'[j]]
        BY <1>0, <3>3 DEF Fields, Status
      <3>5. Has(j, "running", 6, TRUE)' /\ jobs'[j].result = FALSE /\ jobs'[j].failure = FALSE
        BY <1>0, <3>2, <3>3 DEF Fields, Has
      <3>6. InStep(j)'
        BY <3>1, <3>5 DEF InStep, Has
      <3>7. Forward(jobs[j], jobs'[j]) /\ OneOn(jobs[j].text, jobs'[j].text)
        BY <3>2, <3>5 DEF Forward, Behind, Rank, Final, Has, OneOn
      <3>8. UNCHANGED <<idem, at, ask, got, seen>> /\ mu' \in Posts \cup {NoJob}
        BY <1>0, <1>4 DEF EndLen
      <3>9. ran' = ran \/ ran' = [ran EXCEPT ![j] = [ask[j] EXCEPT !.project = NoJob]]
        BY <1>4 DEF EndLen
      <3> QED
        BY <3>1, <3>4, <3>6, <3>7, <3>8, <3>9 DEF GoSteps
    <2> QED
      BY <1>4, <2>1, <2>2 DEF EndLen
  <1>5. CASE EndText(j)
    <2>1. CASE Step(j, "oklen", "okend")
      <3>1. go[j] = "oklen" /\ go'[j] = "okend" /\ go' = [go EXCEPT ![j] = go'[j]]
        BY <1>0, <2>1 DEF Step
      <3>2. Has(j, "running", 9, TRUE) /\ ~jobs[j].result /\ ~jobs[j].failure
        BY <1>0, <3>1 DEF InStep
      <3>3. jobs' = [jobs EXCEPT ![j].text = "completed"]
        BY <1>5, <3>1 DEF EndText, Step, LenOf
      <3>4. jobs'[j] \in Fields /\ jobs' = [jobs EXCEPT ![j] = jobs'[j]]
        BY <1>0, <3>3 DEF Fields, Status
      <3>5. Has(j, "completed", 9, TRUE)' /\ jobs'[j].result = FALSE /\ jobs'[j].failure = FALSE
        BY <1>0, <3>2, <3>3 DEF Fields, Has
      <3>6. InStep(j)'
        BY <3>1, <3>5 DEF InStep, Has
      <3>7. Forward(jobs[j], jobs'[j]) /\ OneOn(jobs[j].text, jobs'[j].text)
        BY <3>2, <3>5 DEF Forward, Behind, Rank, Final, Has, OneOn
      <3>8. UNCHANGED <<idem, at, ask, got, seen>> /\ mu' \in Posts \cup {NoJob}
        BY <1>0, <1>5 DEF EndText
      <3>9. ran' = ran \/ ran' = [ran EXCEPT ![j] = [ask[j] EXCEPT !.project = NoJob]]
        BY <1>5 DEF EndText
      <3> QED
        BY <3>1, <3>4, <3>6, <3>7, <3>8, <3>9 DEF GoSteps
    <2>2. CASE Step(j, "errlen", "errend")
      <3>1. go[j] = "errlen" /\ go'[j] = "errend" /\ go' = [go EXCEPT ![j] = go'[j]]
        BY <1>0, <2>2 DEF Step
      <3>2. Has(j, "running", 6, TRUE) /\ ~jobs[j].result /\ ~jobs[j].failure
        BY <1>0, <3>1 DEF InStep
      <3>3. jobs' = [jobs EXCEPT ![j].text = "failed"]
        BY <1>5, <3>1 DEF EndText, Step, LenOf
      <3>4. jobs'[j] \in Fields /\ jobs' = [jobs EXCEPT ![j] = jobs'[j]]
        BY <1>0, <3>3 DEF Fields, Status
      <3>5. Has(j, "failed", 6, TRUE)' /\ jobs'[j].result = FALSE /\ jobs'[j].failure = FALSE
        BY <1>0, <3>2, <3>3 DEF Fields, Has
      <3>6. InStep(j)'
        BY <3>1, <3>5 DEF InStep, Has
      <3>7. Forward(jobs[j], jobs'[j]) /\ OneOn(jobs[j].text, jobs'[j].text)
        BY <3>2, <3>5 DEF Forward, Behind, Rank, Final, Has, OneOn
      <3>8. UNCHANGED <<idem, at, ask, got, seen>> /\ mu' \in Posts \cup {NoJob}
        BY <1>0, <1>5 DEF EndText
      <3>9. ran' = ran \/ ran' = [ran EXCEPT ![j] = [ask[j] EXCEPT !.project = NoJob]]
        BY <1>5 DEF EndText
      <3> QED
        BY <3>1, <3>4, <3>6, <3>7, <3>8, <3>9 DEF GoSteps
    <2> QED
      BY <1>5, <2>1, <2>2 DEF EndText
  <1>6. CASE RunEnd(j)
    <2>1. CASE Step(j, "okend", "over")
      <3>1. go[j] = "okend" /\ go'[j] = "over" /\ go' = [go EXCEPT ![j] = go'[j]]
        BY <1>0, <2>1 DEF Step
      <3>2. Has(j, "completed", 9, TRUE) /\ ~jobs[j].result /\ ~jobs[j].failure
        BY <1>0, <3>1 DEF InStep
      <3>3. jobs' = [jobs EXCEPT ![j].result = TRUE]
        BY <1>6, <3>1 DEF RunEnd, Step, LenOf
      <3>4. jobs'[j] \in Fields /\ jobs' = [jobs EXCEPT ![j] = jobs'[j]]
        BY <1>0, <3>3 DEF Fields, Status
      <3>5. Has(j, "completed", 9, TRUE)' /\ jobs'[j].result = TRUE /\ jobs'[j].failure = FALSE
        BY <1>0, <3>2, <3>3 DEF Fields, Has
      <3>6. InStep(j)'
        BY <3>1, <3>5 DEF InStep, Has
      <3>7. Forward(jobs[j], jobs'[j]) /\ OneOn(jobs[j].text, jobs'[j].text)
        BY <3>2, <3>5 DEF Forward, Behind, Rank, Final, Has, OneOn
      <3>8. UNCHANGED <<idem, at, ask, got, seen>> /\ mu' \in Posts \cup {NoJob}
        BY <1>0, <1>6 DEF RunEnd
      <3>9. ran' = ran \/ ran' = [ran EXCEPT ![j] = [ask[j] EXCEPT !.project = NoJob]]
        BY <1>6 DEF RunEnd
      <3> QED
        BY <3>1, <3>4, <3>6, <3>7, <3>8, <3>9 DEF GoSteps
    <2>2. CASE Step(j, "errend", "over")
      <3>1. go[j] = "errend" /\ go'[j] = "over" /\ go' = [go EXCEPT ![j] = go'[j]]
        BY <1>0, <2>2 DEF Step
      <3>2. Has(j, "failed", 6, TRUE) /\ ~jobs[j].result /\ ~jobs[j].failure
        BY <1>0, <3>1 DEF InStep
      <3>3. jobs' = [jobs EXCEPT ![j].failure = TRUE]
        BY <1>6, <3>1 DEF RunEnd, Step, LenOf
      <3>4. jobs'[j] \in Fields /\ jobs' = [jobs EXCEPT ![j] = jobs'[j]]
        BY <1>0, <3>3 DEF Fields, Status
      <3>5. Has(j, "failed", 6, TRUE)' /\ jobs'[j].result = FALSE /\ jobs'[j].failure = TRUE
        BY <1>0, <3>2, <3>3 DEF Fields, Has
      <3>6. InStep(j)'
        BY <3>1, <3>5 DEF InStep, Has
      <3>7. Forward(jobs[j], jobs'[j]) /\ OneOn(jobs[j].text, jobs'[j].text)
        BY <3>2, <3>5 DEF Forward, Behind, Rank, Final, Has, OneOn
      <3>8. UNCHANGED <<idem, at, ask, got, seen>> /\ mu' \in Posts \cup {NoJob}
        BY <1>0, <1>6 DEF RunEnd
      <3>9. ran' = ran \/ ran' = [ran EXCEPT ![j] = [ask[j] EXCEPT !.project = NoJob]]
        BY <1>6 DEF RunEnd
      <3> QED
        BY <3>1, <3>4, <3>6, <3>7, <3>8, <3>9 DEF GoSteps
    <2> QED
      BY <1>6, <2>1, <2>2 DEF RunEnd
  <1> QED
    BY <1>1, <1>2, <1>3, <1>4, <1>5, <1>6 DEF Run

\* A job that is there stays there, and goes forward.
Onward == \A j \in Posts : jobs[j] # Absent =>
  /\ jobs'[j] # Absent /\ Forward(jobs[j], jobs'[j])

\* A job that is there has a Status that names one.
LEMMA JobsText ==
  ASSUME JobInv, NEW j \in Posts
  PROVE  /\ jobs[j] # Absent <=> go[j] # "none"
         /\ jobs[j] # Absent => jobs[j].text \in Status
         /\ Absent.text = "" /\ ~Absent.result
  <1>1. InStep(j) /\ go[j] \in GoSteps
    BY DEF JobInv, JobsFollow, TypeOK, GoSteps
  <1>2. Absent.text = "" /\ ~Absent.result
    BY DEF Absent
  <1> QED
    BY <1>1, <1>2 DEF InStep, Has, Status, GoSteps

\* Behind orders the values of Status.
LEMMA BehindOrders ==
  /\ \A a \in Status : Behind(a, a) /\ a # ""
  /\ \A a, b, c \in Status : Behind(a, b) /\ Behind(b, c) => Behind(a, c)
  /\ \A a, b \in Status : Behind(a, b) /\ a \in Final => a = b
  <1> SUFFICES ASSUME NEW a \in Status, NEW b \in Status, NEW c \in Status
               PROVE  /\ Behind(a, a) /\ a # ""
                      /\ Behind(a, b) /\ Behind(b, c) => Behind(a, c)
                      /\ Behind(a, b) /\ a \in Final => a = b
    OBVIOUS
  <1>1. /\ Rank["queued"] = 1 /\ Rank["running"] = 2
        /\ Rank["completed"] = 3 /\ Rank["failed"] = 3
    BY DEF Rank
  <1>2. \A s \in Status : s = "queued" \/ s = "running" \/ s = "completed" \/ s = "failed"
    BY DEF Status
  <1>3. Behind(a, a) /\ a # ""
    <2>1. Rank[a] \in Int
      BY <1>1, <1>2
    <2>3. a # ""
      BY <1>2
    <2>2. \A n \in Int : n <= n
      OBVIOUS
    <2> QED
      BY <2>1, <2>2, <2>3 DEF Behind
  <1>4. ASSUME Behind(a, b), Behind(b, c) PROVE Behind(a, c)
    <2>1. Rank[a] \in Int /\ Rank[b] \in Int /\ Rank[c] \in Int
      BY <1>1, <1>2
    <2> QED
      BY <1>4, <2>1 DEF Behind
  <1>5. ASSUME Behind(a, b), a \in Final PROVE a = b
    BY <1>5 DEF Behind
  <1> QED
    BY <1>3, <1>4, <1>5

LEMMA BehindGoesOn ==
  ASSUME NEW a \in Status \cup {""}, NEW b \in Status, NEW c \in Status,
         a = "" \/ Behind(a, b), Behind(b, c)
  PROVE  a = "" \/ Behind(a, c)
  BY BehindOrders

\* One field of what a request has read is set.
LEMMA ReadsSet ==
  ASSUME NEW a \in Reads
  PROVE  /\ \A x \in Posts : [a EXCEPT !.job = x] \in Reads /\ [a EXCEPT !.job = x].job = x
         /\ \A x \in Status \cup {""} : /\ [a EXCEPT !.text = x] \in Reads
                                       /\ [a EXCEPT !.text = x].job = a.job
         /\ \A x \in {0, 6, 7, 9} : /\ [a EXCEPT !.len = x] \in Reads
                                  /\ [a EXCEPT !.len = x].job = a.job
         /\ \A x \in BOOLEAN : /\ [a EXCEPT !.ended = x] \in Reads
                              /\ [a EXCEPT !.ended = x].job = a.job
         /\ \A x \in BOOLEAN : /\ [a EXCEPT !.result = x] \in Reads
                              /\ [a EXCEPT !.result = x].job = a.job
         /\ \A x \in BOOLEAN : [a EXCEPT !.failure = x] \in Reads
  BY DEF Reads

\* What a reading step leaves in got.
LEMMA ReadingGets ==
  ASSUME JobInv, NEW r \in Posts \cup Polls
  PROVE  /\ ReadStatus(r) \/ ReadEnded(r) \/ ReadResult(r) =>
              got'[r] \in Reads /\ got'[r].job = got[r].job
         /\ at[r] \in Reading =>
              jobs[got[r].job] \in Fields
         /\ ReadFailure(r) /\ r \in Polls => seen'[r] \in Reads
  <1>0. /\ got[r] \in Reads /\ got \in [Posts \cup Polls -> Reads]
        /\ seen \in [Polls -> Reads]
    BY DEF JobInv, TypeOK
  <1>1. at[r] \in Reading => jobs[got[r].job] \in Fields
    BY DEF JobInv, TypeOK, JobsFollow
  <1> DEFINE j == jobs[got[r].job]
  <1>2. ASSUME j \in Fields
        PROVE  /\ j.text \in Status \cup {""} /\ j.len \in {0, 6, 7, 9}
               /\ j.ended \in BOOLEAN /\ j.result \in BOOLEAN /\ j.failure \in BOOLEAN
    BY <1>2 DEF Fields
  <1>3. ASSUME ReadStatus(r) PROVE got'[r] \in Reads /\ got'[r].job = got[r].job
    <2>1. j \in Fields
      BY <1>1, <1>3 DEF ReadStatus
    <2>2. j.text \in Status \cup {""} /\ j.len \in {0, 6, 7, 9}
      BY <1>2, <2>1
    <2>3. CASE got'[r] = [got[r] EXCEPT !.text = j.text]
      BY <1>0, <2>2, <2>3 DEF Reads
    <2>4. CASE got'[r] = [got[r] EXCEPT !.len = j.len]
      BY <1>0, <2>2, <2>4 DEF Reads
    <2> QED
      BY <1>0, <1>3, <2>3, <2>4 DEF ReadStatus
  <1>4. ASSUME ReadEnded(r) PROVE got'[r] \in Reads /\ got'[r].job = got[r].job
    <2>1. j \in Fields
      BY <1>1, <1>4 DEF ReadEnded
    <2>2. j.ended \in BOOLEAN
      BY <1>2, <2>1
    <2>3. got'[r] = [got[r] EXCEPT !.ended = j.ended]
      BY <1>0, <1>4 DEF ReadEnded
    <2> QED
      BY <1>0, <2>2, <2>3 DEF Reads
  <1>5. ASSUME ReadResult(r) PROVE got'[r] \in Reads /\ got'[r].job = got[r].job
    <2>1. j \in Fields
      BY <1>1, <1>5 DEF ReadResult
    <2>2. j.result \in BOOLEAN
      BY <1>2, <2>1
    <2>3. got'[r] = [got[r] EXCEPT !.result = j.result]
      BY <1>0, <1>5 DEF ReadResult
    <2> QED
      BY <1>0, <2>2, <2>3 DEF Reads
  <1>6. ASSUME ReadFailure(r), r \in Polls PROVE seen'[r] \in Reads
    <2>1. j \in Fields
      BY <1>1, <1>6 DEF ReadFailure
    <2>2. j.failure \in BOOLEAN
      BY <1>2, <2>1
    <2>3. seen'[r] = [got[r] EXCEPT !.failure = j.failure]
      BY <1>0, <1>6 DEF ReadFailure
    <2> QED
      BY <1>0, <2>2, <2>3 DEF Reads
  <1> QED
    BY <1>1, <1>3, <1>4, <1>5, <1>6

\* Every step but a crash.
LEMMA NextCases ==
  ASSUME [Next]_vars
  PROVE  \/ \E p \in Posts : Post(p) \/ JoinJob(p) \/ CreateJob(p) \/ Run(p)
         \/ \E r \in Posts \cup Polls : ReadStatus(r) \/ StatusRead(r)
         \/ \E g \in Polls : \/ ReadEnded(g) \/ ReadResult(g) \/ ReadFailure(g)
                             \/ \E p \in Posts : Poll(g, p)
         \/ UNCHANGED vars
  BY DEF Next, Handle, Read

LEMMA StepOnward == JobInv /\ [Next]_vars => Onward
  <1> SUFFICES ASSUME JobInv, [Next]_vars, NEW i \in Posts, jobs[i] # Absent
               PROVE  jobs'[i] # Absent /\ Forward(jobs[i], jobs'[i])
    BY DEF Onward
  <1>1. jobs[i].text \in Status /\ go[i] # "none" /\ jobs \in [Posts -> Fields]
    BY JobsText DEF JobInv, TypeOK
  <1>2. Forward(jobs[i], jobs[i])
    BY <1>1, BehindOrders DEF Forward
  <1>3. CASE jobs'[i] = jobs[i]
    BY <1>2, <1>3
  <1>4. ASSUME NEW j \in Posts, Run(j), jobs'[i] # jobs[i]
        PROVE  jobs'[i] # Absent /\ Forward(jobs[i], jobs'[i])
    <2>1. i = j
      BY <1>1, <1>4, RunMoves
    <2>2. Forward(jobs[i], jobs'[i])
      BY <1>4, <2>1, RunMoves
    <2> QED
      BY <2>2, JobsText DEF Forward
  <1>5. ASSUME NEW p \in Posts, CreateJob(p) PROVE jobs'[i] = jobs[i]
    <2>1. p # i
      BY <1>1, <1>5 DEF CreateJob, JobInv, JobsFollow
    <2> QED
      BY <1>1, <1>5, <2>1 DEF CreateJob
  <1> QED
    BY NextCases, <1>3, <1>4, <1>5
       DEF Post, JoinJob, ReadStatus, StatusRead, ReadEnded, ReadResult, ReadFailure, Poll, vars

-----------------------------------------------------------------------------
(* The invariant holds at the start and is kept by every step.             *)

LEMMA InitInv == Init => LifeInv
  <1> SUFFICES ASSUME Init PROVE LifeInv
    OBVIOUS
  <1>1. Absent \in Fields /\ Absent.text = "" /\ ~Absent.result /\ ~Absent.failure
    BY DEF Absent, Fields, Status
  <1>2. Nothing \in Reads /\ Nothing.text = "" /\ Nothing.job = NoJob
    BY DEF Nothing, Reads, Status
  <1>3. TypeOK
    BY <1>1, <1>2 DEF Init, TypeOK
  <1>4. KeysResolve
    BY DEF Init, KeysResolve
  <1>5. FinalPollHasEnd
    BY <1>2 DEF Init, FinalPollHasEnd
  <1>6. JobsFollow
    BY <1>1 DEF Init, JobsFollow, InStep
  <1>7. ReadsTrue
    BY DEF Init, ReadsTrue
  <1>8. KeysOwn /\ JobsTold /\ AnswersBehind
    BY <1>2 DEF Init, KeysOwn, JobsTold, AnswersBehind
  <1> QED
    BY <1>3, <1>4, <1>5, <1>6, <1>7, <1>8 DEF LifeInv, JobInv

LEMMA TypeStep == JobInv /\ [Next]_vars => TypeOK'
  <1> SUFFICES ASSUME JobInv, [Next]_vars PROVE TypeOK'
    OBVIOUS
  <1>0. TypeOK /\ JobsFollow
    BY DEF JobInv
  <1>1. ASSUME NEW p \in Posts, Post(p) PROVE TypeOK'
    BY <1>0, <1>1 DEF TypeOK, Post, To
  <1>2. ASSUME NEW p \in Posts, JoinJob(p) PROVE TypeOK'
    <2>1. idem[Key(ask[p])] \in Posts
      <3>1. ask[p] \in Bodies
        BY <1>0, <1>2 DEF TypeOK, JoinJob
      <3>2. Key(ask[p]) \in IdemKeys
        BY <3>1 DEF Key, IdemKeys, Bodies
      <3> QED
        BY <1>0, <1>2, <3>2 DEF TypeOK, JoinJob, Exists
    <2>2. got' \in [Posts \cup Polls -> Reads]
      <3>1. [got[p] EXCEPT !.job = idem[Key(ask[p])]] \in Reads
        BY <1>0, <2>1, ReadsSet DEF TypeOK
      <3> QED
        BY <1>0, <1>2, <3>1 DEF TypeOK, JoinJob
    <2> QED
      BY <1>0, <1>2, <2>2 DEF TypeOK, JoinJob, To
  <1>3. ASSUME NEW p \in Posts, CreateJob(p) PROVE TypeOK'
    <2>1. Queued \in Fields /\ [Nothing EXCEPT !.job = p, !.text = "queued", !.len = 6] \in Reads
      BY DEF Queued, Fields, Absent, LenOf, Nothing, Reads, Status
    <2>2. jobs' \in [Posts -> Fields] /\ got' \in [Posts \cup Polls -> Reads]
      BY <1>0, <1>3, <2>1 DEF TypeOK, CreateJob
    <2> QED
      BY <1>0, <1>3, <2>2 DEF TypeOK, CreateJob, To
  <1>4. ASSUME NEW j \in Posts, Run(j) PROVE TypeOK'
    <2>1. ask[j] \in Bodies
      <3>1. go[j] # "none"
        BY <1>4, RunMoves
      <3> QED
        BY <1>0, <3>1 DEF JobsFollow
    <2>2. [ask[j] EXCEPT !.project = NoJob] \in Arguments
      BY <2>1 DEF Bodies, Arguments
    <2>3. ran' \in [Posts -> Arguments \cup {NoBody}]
      BY <1>0, <1>4, <2>2, RunMoves DEF TypeOK
    <2> QED
      BY <1>0, <1>4, <2>3, RunMoves DEF TypeOK, GoSteps
  <1>5. ASSUME NEW r \in Posts \cup Polls, ReadStatus(r) PROVE TypeOK'
    <2>1. got'[r] \in Reads
      BY <1>5, ReadingGets
    <2>2. got' = [got EXCEPT ![r] = got'[r]]
      BY <1>0, <1>5 DEF ReadStatus, TypeOK
    <2> QED
      BY <1>0, <1>5, <2>1, <2>2 DEF TypeOK, ReadStatus
  <1>6. ASSUME NEW r \in Posts \cup Polls, StatusRead(r) PROVE TypeOK'
    BY <1>0, <1>6 DEF TypeOK, StatusRead, To
  <1>7. ASSUME NEW g \in Polls PROVE /\ ReadEnded(g) => TypeOK'
                                     /\ ReadResult(g) => TypeOK'
                                     /\ ReadFailure(g) => TypeOK'
    <2>1. Nothing \in Reads
      BY DEF Nothing, Reads
    <2>2. ReadEnded(g) \/ ReadResult(g) => got'[g] \in Reads
      BY ReadingGets
    <2>3. ReadFailure(g) => seen'[g] \in Reads
      BY ReadingGets
    <2>5. ASSUME ReadEnded(g) PROVE TypeOK'
      BY <1>0, <2>2, <2>5 DEF TypeOK, ReadEnded, To
    <2>6. ASSUME ReadResult(g) PROVE TypeOK'
      BY <1>0, <2>2, <2>6 DEF TypeOK, ReadResult, To
    <2>7. ASSUME ReadFailure(g) PROVE TypeOK'
      BY <1>0, <2>1, <2>3, <2>7 DEF TypeOK, ReadFailure, To
    <2> QED
      BY <2>5, <2>6, <2>7
  <1>8. ASSUME NEW g \in Polls, NEW p \in Posts, Poll(g, p) PROVE TypeOK'
    <2>1. got[p].job \in Posts
      <3>1. got[p] \in Reads /\ got[p].job # NoJob
        BY <1>0, <1>8 DEF TypeOK, Poll
      <3> QED
        BY <3>1 DEF Reads
    <2>2. [Nothing EXCEPT !.job = got[p].job] \in Reads
      BY <2>1 DEF Nothing, Reads
    <2> QED
      BY <1>0, <1>8, <2>2 DEF TypeOK, Poll, To
  <1>9. CASE UNCHANGED vars
    BY <1>0, <1>9 DEF TypeOK, vars
  <1> QED
    BY NextCases, <1>1, <1>2, <1>3, <1>4, <1>5, <1>6, <1>7, <1>8, <1>9

\* A key is stored together with its job, and no job is ever taken out.
LEMMA KeysStep == JobInv /\ [Next]_vars => KeysResolve'
  <1> SUFFICES ASSUME JobInv, [Next]_vars, NEW k \in IdemKeys, idem'[k] # NoJob
               PROVE  Exists(idem[k])'
    BY DEF KeysResolve, IdemKeys
  <1>1. Onward /\ idem \in [IdemKeys -> Posts \cup {NoJob}] /\ jobs \in [Posts -> Fields]
    BY StepOnward DEF JobInv, TypeOK
  <1>2. CASE idem' = idem
    BY <1>1, <1>2 DEF JobInv, KeysResolve, Exists, Onward
  <1>3. ASSUME NEW p \in Posts, CreateJob(p) PROVE Exists(idem[k])'
    <2>1. CASE idem'[k] = p
      <3>1. jobs'[p] = Queued
        BY <1>1, <1>3 DEF CreateJob
      <3>2. Queued # Absent
        BY DEF Queued, Absent
      <3> QED
        BY <2>1, <3>1, <3>2 DEF Exists
    <2>2. CASE idem'[k] = idem[k]
      BY <1>1, <2>2 DEF JobInv, KeysResolve, Exists, Onward
    <2> QED
      BY <1>1, <1>3, <2>1, <2>2 DEF CreateJob
  <1> QED
    BY NextCases, <1>2, <1>3, RunMoves
       DEF Post, JoinJob, ReadStatus, StatusRead, ReadEnded, ReadResult, ReadFailure, Poll, vars

\* What a goroutine has done is in its job's fields; whoever reads a job reads one
\* that is there.
LEMMA FollowStep == JobInv /\ [Next]_vars => JobsFollow'
  <1> SUFFICES ASSUME JobInv, [Next]_vars PROVE JobsFollow'
    OBVIOUS
  <1> DEFINE Holds(r) == at[r] \in Reading => got[r].job \in Posts /\ jobs[got[r].job] # Absent
             Own(j) == InStep(j) /\ (go[j] # "none" => at[j] = "done" /\ ask[j] \in Bodies)
  <1>0. /\ TypeOK /\ Onward
        /\ \A j \in Posts : Own(j)
        /\ \A r \in Posts \cup Polls : Holds(r)
    BY StepOnward DEF JobInv, JobsFollow
  <1>1. \A r \in Posts \cup Polls : at'[r] = at[r] /\ got'[r].job = got[r].job => Holds(r)'
    BY <1>0 DEF Onward
  <1>2. \A r \in Posts \cup Polls : at'[r] \notin Reading => Holds(r)'
    OBVIOUS
  <1>3. ASSUME NEW j \in Posts, jobs'[j] = jobs[j], go'[j] = go[j], ask'[j] = ask[j],
               at'[j] = at[j] \/ (go[j] = "none")
        PROVE  Own(j)'
    BY <1>0, <1>3 DEF InStep, Has
  <1> SUFFICES (\A j \in Posts : Own(j)') /\ (\A r \in Posts \cup Polls : Holds(r)')
    BY DEF JobsFollow
  <1>4. ASSUME NEW p \in Posts, Post(p)
        PROVE  (\A j \in Posts : Own(j)') /\ (\A r \in Posts \cup Polls : Holds(r)')
    <2>1. go[p] = "none"
      BY <1>0, <1>4 DEF Post
    <2>2. /\ at' = [at EXCEPT ![p] = "lookup"] /\ ask' = [ask EXCEPT ![p] = ask'[p]]
          /\ jobs' = jobs /\ got' = got /\ go' = go
      BY <1>0, <1>4 DEF Post, To, TypeOK
    <2>3. /\ \A j \in Posts : j # p => at'[j] = at[j] /\ ask'[j] = ask[j]
          /\ \A r \in Posts \cup Polls : at'[r] = at[r] \/ at'[r] = "lookup"
      <3>1. /\ at \in [Posts \cup Polls -> {"idle", "lookup", "status", "ended", "result",
                                            "failure", "done", "lost"}]
            /\ DOMAIN at = Posts \cup Polls
        BY <1>0 DEF TypeOK
      <3>2. \A j \in Posts : j # p => ask'[j] = ask[j]
        BY <1>4 DEF Post
      <3> QED
        BY <2>2, <3>1, <3>2
    <2>4. \A j \in Posts : Own(j)'
      BY <1>0, <1>3, <2>1, <2>2, <2>3 DEF InStep, Has
    <2> QED
      BY <1>1, <1>2, <2>2, <2>3, <2>4
  <1>5. ASSUME NEW p \in Posts, JoinJob(p)
        PROVE  (\A j \in Posts : Own(j)') /\ (\A r \in Posts \cup Polls : Holds(r)')
    <2>1. go[p] = "none"
      BY <1>0, <1>5 DEF JoinJob
    <2>2. ask[p] \in Bodies
      BY <1>0, <1>5 DEF JoinJob, TypeOK
    <2>3. Key(ask[p]) \in IdemKeys
      BY <2>2 DEF Key, IdemKeys, Bodies
    <2>4. idem[Key(ask[p])] \in Posts /\ jobs[idem[Key(ask[p])]] # Absent
      BY <1>0, <1>5, <2>3 DEF JoinJob, Exists, TypeOK
    <2>5. got'[p].job = idem[Key(ask[p])] /\ jobs' = jobs
      <3>1. got[p] \in Reads /\ got'[p] = [got[p] EXCEPT !.job = idem[Key(ask[p])]]
        BY <1>0, <1>5 DEF JoinJob, TypeOK
      <3> QED
        <4>1. [got[p] EXCEPT !.job = idem[Key(ask[p])]].job = idem[Key(ask[p])]
          BY <2>4, <3>1, ReadsSet
        <4> QED
          BY <1>5, <3>1, <4>1 DEF JoinJob
    <2>6. \A j \in Posts : Own(j)'
      BY <1>0, <1>3, <1>5, <2>1 DEF JoinJob, To, TypeOK
    <2>7. \A r \in Posts \cup Polls : r # p => at'[r] = at[r] /\ got'[r] = got[r]
      BY <1>0, <1>5 DEF JoinJob, To, TypeOK
    <2>8. Holds(p)'
      BY <2>4, <2>5
    <2> QED
      BY <1>1, <2>6, <2>7, <2>8
  <1>6. ASSUME NEW p \in Posts, CreateJob(p)
        PROVE  (\A j \in Posts : Own(j)') /\ (\A r \in Posts \cup Polls : Holds(r)')
    <2>1. /\ at'[p] = "done" /\ go'[p] = "start" /\ ask' = ask /\ jobs'[p] = Queued
          /\ \A r \in Posts \cup Polls : r # p => at'[r] = at[r] /\ got'[r] = got[r]
          /\ \A j \in Posts : j # p => go'[j] = go[j] /\ jobs'[j] = jobs[j]
      BY <1>0, <1>6 DEF CreateJob, To, TypeOK
    <2>2. ask[p] \in Bodies
      BY <1>0, <1>6 DEF CreateJob, TypeOK
    <2>3. /\ Queued.text = "queued" /\ Queued.len = 6 /\ Queued.ended = FALSE
          /\ Queued.result = FALSE /\ Queued.failure = FALSE
      BY DEF Queued, Absent, LenOf
    <2>4. Own(p)'
      BY <2>1, <2>2, <2>3 DEF InStep, Has
    <2>5. \A j \in Posts : Own(j)'
      BY <1>3, <2>1, <2>4
    <2> QED
      BY <1>1, <1>2, <2>1, <2>5
  <1>7. ASSUME NEW p \in Posts, Run(p)
        PROVE  (\A j \in Posts : Own(j)') /\ (\A r \in Posts \cup Polls : Holds(r)')
    <2>1. /\ at' = at /\ ask' = ask /\ got' = got /\ go[p] # "none"
          /\ go' = [go EXCEPT ![p] = go'[p]] /\ jobs' = [jobs EXCEPT ![p] = jobs'[p]]
          /\ InStep(p)'
      BY <1>7, RunMoves
    <2>2. \A j \in Posts : j # p => go'[j] = go[j] /\ jobs'[j] = jobs[j]
      BY <1>0, <2>1 DEF TypeOK
    <2>3. \A j \in Posts : Own(j)'
      BY <1>0, <1>3, <2>1, <2>2
    <2> QED
      BY <1>1, <2>1, <2>3
  <1>8. ASSUME NEW r \in Posts \cup Polls, ReadStatus(r) \/ StatusRead(r)
        PROVE  (\A j \in Posts : Own(j)') /\ (\A s \in Posts \cup Polls : Holds(s)')
    <2>1. /\ jobs' = jobs /\ go' = go /\ ask' = ask
          /\ \A s \in Posts \cup Polls : s # r => at'[s] = at[s] /\ got'[s] = got[s]
          /\ at[r] = "status"
      BY <1>0, <1>8 DEF ReadStatus, StatusRead, To, TypeOK
    <2>2. got'[r].job = got[r].job
      BY <1>8, ReadingGets DEF StatusRead
    <2>3. r \in Posts => go[r] = "none"
      BY <1>0, <2>1
    <2>4. \A j \in Posts : Own(j)'
      BY <1>3, <2>1, <2>3
    <2>5. Holds(r)'
      BY <1>0, <2>1, <2>2
    <2> QED
      BY <1>1, <2>1, <2>4, <2>5
  <1>9. ASSUME NEW g \in Polls, \/ ReadEnded(g) \/ ReadResult(g) \/ ReadFailure(g)
                                \/ \E p \in Posts : Poll(g, p)
        PROVE  (\A j \in Posts : Own(j)') /\ (\A r \in Posts \cup Polls : Holds(r)')
    <2>1. /\ jobs' = jobs /\ go' = go /\ ask' = ask
          /\ \A r \in Posts \cup Polls : r # g => at'[r] = at[r] /\ got'[r] = got[r]
      BY <1>0, <1>9 DEF ReadEnded, ReadResult, ReadFailure, Poll, To, TypeOK
    <2>2. \A j \in Posts : Own(j)'
      BY <1>3, <2>1
    <2>3. Holds(g)'
      <3>1. CASE ReadFailure(g)
        BY <1>0, <1>2, <3>1 DEF ReadFailure, To, TypeOK
      <3>2. CASE ReadEnded(g) \/ ReadResult(g)
        <4>1. got'[g].job = got[g].job /\ at[g] \in Reading
          BY <3>2, ReadingGets DEF ReadEnded, ReadResult
        <4> QED
          BY <1>0, <2>1, <4>1
      <3>3. ASSUME NEW p \in Posts, Poll(g, p) PROVE Holds(g)'
        <4>1. got[p].job \in Posts
          <5>1. got[p] \in Reads /\ got[p].job # NoJob
            BY <1>0, <3>3 DEF TypeOK, Poll
          <5> QED
            BY <5>1 DEF Reads
        <4>2. CASE Exists(got[p].job)
          <5>1. got'[g].job = got[p].job
            <6>1. got'[g] = [Nothing EXCEPT !.job = got[p].job]
              BY <1>0, <3>3, <4>2 DEF Poll, TypeOK
            <6> QED
              BY <6>1 DEF Nothing
          <5> QED
            BY <2>1, <4>1, <4>2, <5>1 DEF Exists
        <4>3. CASE ~Exists(got[p].job)
          BY <1>1, <3>3, <4>3 DEF Poll
        <4> QED
          BY <4>2, <4>3
      <3> QED
        BY <1>9, <3>1, <3>2, <3>3
    <2> QED
      BY <1>1, <2>1, <2>2, <2>3
  <1>10. CASE UNCHANGED vars
    BY <1>0, <1>1, <1>3, <1>10 DEF vars
  <1> QED
    BY NextCases, <1>4, <1>5, <1>6, <1>7, <1>8, <1>9, <1>10

\* The fields a reading step leaves alone, and the one it sets.
LEMMA FieldsGot ==
  ASSUME JobInv, NEW g \in Polls
  PROVE  /\ ReadStatus(g) =>
              /\ got'[g].ended = got[g].ended /\ got'[g].result = got[g].result
              /\ got'[g].failure = got[g].failure
              /\ \/ got'[g].text = got[g].text
                 \/ got[g].text = "" /\ got'[g].text = jobs[got[g].job].text
         /\ ReadEnded(g) =>
              /\ got'[g].text = got[g].text /\ got'[g].result = got[g].result
              /\ got'[g].failure = got[g].failure
              /\ got'[g].ended = jobs[got[g].job].ended
         /\ ReadResult(g) =>
              /\ got'[g].text = got[g].text /\ got'[g].ended = got[g].ended
              /\ got'[g].failure = got[g].failure
              /\ got'[g].result = jobs[got[g].job].result
         /\ ReadFailure(g) =>
              /\ seen'[g].text = got[g].text /\ seen'[g].ended = got[g].ended
              /\ seen'[g].job = got[g].job /\ seen'[g].result = got[g].result
              /\ seen'[g].failure = jobs[got[g].job].failure
  <1>1. got[g] \in Reads /\ got \in [Posts \cup Polls -> Reads] /\ seen \in [Polls -> Reads]
    BY DEF JobInv, TypeOK
  <1> DEFINE j == jobs[got[g].job]
  <1>2. ASSUME ReadStatus(g)
        PROVE  \/ got'[g] = [got[g] EXCEPT !.text = j.text] /\ got[g].text = ""
               \/ got'[g] = [got[g] EXCEPT !.len = j.len]
    BY <1>1, <1>2 DEF ReadStatus
  <1>3. ReadEnded(g) => got'[g] = [got[g] EXCEPT !.ended = j.ended]
    BY <1>1 DEF ReadEnded
  <1>4. ReadResult(g) => got'[g] = [got[g] EXCEPT !.result = j.result]
    BY <1>1 DEF ReadResult
  <1>5. ReadFailure(g) => seen'[g] = [got[g] EXCEPT !.failure = j.failure]
    BY <1>1 DEF ReadFailure
  <1>6. ASSUME ReadStatus(g)
        PROVE  /\ got'[g].ended = got[g].ended /\ got'[g].result = got[g].result
               /\ got'[g].failure = got[g].failure
               /\ \/ got'[g].text = got[g].text
                  \/ got[g].text = "" /\ got'[g].text = j.text
    <2>1. CASE got'[g] = [got[g] EXCEPT !.text = j.text] /\ got[g].text = ""
      BY <1>1, <2>1 DEF Reads
    <2>2. CASE got'[g] = [got[g] EXCEPT !.len = j.len]
      BY <1>1, <2>2 DEF Reads
    <2> QED
      BY <1>2, <1>6, <2>1, <2>2
  <1>7. ReadEnded(g) =>
          /\ got'[g].text = got[g].text /\ got'[g].result = got[g].result
          /\ got'[g].failure = got[g].failure /\ got'[g].ended = j.ended
    BY <1>1, <1>3 DEF Reads
  <1>8. ReadResult(g) =>
          /\ got'[g].text = got[g].text /\ got'[g].ended = got[g].ended
          /\ got'[g].failure = got[g].failure /\ got'[g].result = j.result
    BY <1>1, <1>4 DEF Reads
  <1>9. ReadFailure(g) =>
          /\ seen'[g].text = got[g].text /\ seen'[g].ended = got[g].ended
          /\ seen'[g].job = got[g].job /\ seen'[g].result = got[g].result
          /\ seen'[g].failure = j.failure
    BY <1>1, <1>5 DEF Reads
  <1> QED
    BY <1>6, <1>7, <1>8, <1>9

\* Only the poll itself moves what a client has read and been answered.
LEMMA PollKeeps ==
  ASSUME JobInv, [Next]_vars, NEW g \in Polls
  PROVE  \/ ReadStatus(g) \/ StatusRead(g) \/ ReadEnded(g) \/ ReadResult(g) \/ ReadFailure(g)
         \/ \E p \in Posts : Poll(g, p)
         \/ (at'[g] = at[g] /\ got'[g] = got[g] /\ seen'[g] = seen[g])
  <1>1. TypeOK /\ g \notin Posts
    BY DEF JobInv
  <1>2. \A p \in Posts : Run(p) => at'[g] = at[g] /\ got'[g] = got[g] /\ seen'[g] = seen[g]
    BY RunMoves
  <1>3. ASSUME NEW p \in Posts, Post(p) \/ JoinJob(p) \/ CreateJob(p)
        PROVE  at'[g] = at[g] /\ got'[g] = got[g] /\ seen'[g] = seen[g]
    BY <1>1, <1>3 DEF Post, JoinJob, CreateJob, To, TypeOK
  <1>4. ASSUME NEW r \in Posts \cup Polls, r # g, \/ ReadStatus(r) \/ StatusRead(r) \/ ReadEnded(r)
                                                  \/ ReadResult(r) \/ ReadFailure(r)
                                                  \/ \E p \in Posts : Poll(r, p)
        PROVE  at'[g] = at[g] /\ got'[g] = got[g] /\ seen'[g] = seen[g]
    BY <1>1, <1>4 DEF ReadStatus, StatusRead, ReadEnded, ReadResult, ReadFailure, Poll, To, TypeOK
  <1>5. UNCHANGED vars => at'[g] = at[g] /\ got'[g] = got[g] /\ seen'[g] = seen[g]
    BY DEF vars
  <1> QED
    BY NextCases, <1>2, <1>3, <1>4, <1>5

\* A poll begins with nothing read, or is told that the job is not there.
LEMMA PollBegins ==
  ASSUME JobInv, NEW g \in Polls, NEW p \in Posts, Poll(g, p)
  PROVE  \/ /\ Exists(got[p].job)
            /\ at'[g] = "status" /\ seen'[g] = seen[g] /\ jobs' = jobs
            /\ got'[g].job = got[p].job /\ got'[g].text = ""
            /\ ~got'[g].result /\ ~got'[g].failure
         \/ /\ ~Exists(got[p].job) /\ at[p] = "done"
            /\ at'[g] = at[g] /\ got'[g] = got[g] /\ jobs' = jobs
            /\ at[g] = "idle" /\ seen'[g].text = ""
  <1>1. /\ got \in [Posts \cup Polls -> Reads] /\ seen \in [Polls -> Reads]
        /\ TypeOK
    BY DEF JobInv, TypeOK, Poll, To
  <1>2. CASE Exists(got[p].job)
    <2>1. got'[g] = [Nothing EXCEPT !.job = got[p].job] /\ seen' = seen /\ jobs' = jobs
      BY <1>1, <1>2 DEF Poll
    <2>2. at'[g] = "status"
      BY <1>2 DEF Poll, To, JobInv, TypeOK
    <2> QED
      BY <1>2, <2>1, <2>2 DEF Nothing
  <1>3. CASE ~Exists(got[p].job)
    <2>1. seen'[g] = [Nothing EXCEPT !.job = got[p].job] /\ got' = got /\ at' = at /\ jobs' = jobs
      BY <1>1, <1>3 DEF Poll
    <2> QED
      BY <1>3, <2>1 DEF Nothing, Poll
  <1> QED
    BY <1>2, <1>3

\* A job whose Status is final has ended, with the outcome of that Status.
LEMMA FinalJob ==
  ASSUME JobInv, NEW j \in Posts, jobs[j].text \in Final
  PROVE  /\ jobs[j].ended
         /\ jobs[j].text = "completed" => ~jobs[j].failure
         /\ jobs[j].text = "failed" => ~jobs[j].result
  <1>1. InStep(j) /\ go[j] \in GoSteps /\ Absent.text = ""
    BY DEF JobInv, JobsFollow, TypeOK, GoSteps, Absent
  <1>2. go[j] \in {"okend", "errend", "over"}
    BY <1>1 DEF InStep, Has, GoSteps, Final
  <1> QED
    BY <1>1, <1>2 DEF InStep, Has

\* What has been read of a job is still true of it after the step.
LEMMA ReadsStep == JobInv /\ [Next]_vars => ReadsTrue'
  <1> SUFFICES ASSUME JobInv, [Next]_vars, NEW g \in Polls
               PROVE LET j == jobs[got[g].job] IN
                     (/\ at[g] \in Reading => /\ got[g].text = "" \/ Behind(got[g].text, j.text)
                                              /\ got[g].result => j.result
                                              /\ ~got[g].failure
                      /\ at[g] \in {"ended", "result", "failure"} => got[g].text # ""
                      /\ at[g] \in {"result", "failure"} /\ got[g].text \in Final => got[g].ended
                      /\ at[g] = "status" => ~got[g].result)'
    BY DEF ReadsTrue
  <1> DEFINE j == jobs[got[g].job]
             A == at[g] \in Reading => /\ got[g].text = "" \/ Behind(got[g].text, j.text)
                                       /\ got[g].result => j.result
                                       /\ ~got[g].failure
             B == at[g] \in {"ended", "result", "failure"} => got[g].text # ""
             C == at[g] \in {"result", "failure"} /\ got[g].text \in Final => got[g].ended
             D == at[g] = "status" => ~got[g].result
  <1>0. /\ A /\ B /\ C /\ D /\ TypeOK /\ Onward /\ TypeOK'
        /\ at[g] \in Reading => got[g].job \in Posts /\ jobs[got[g].job] # Absent
    BY StepOnward, TypeStep DEF JobInv, ReadsTrue, JobsFollow
  <1>1. CASE at'[g] = at[g] /\ got'[g] = got[g]
    <2>1. B' /\ C' /\ D'
      BY <1>0, <1>1
    <2>2. ASSUME at[g] \in Reading PROVE A'
      <3>1. Forward(j, j') /\ j.text \in Status
        <4>1. j' = jobs'[got[g].job]
          BY <1>1
        <4> QED
          BY <1>0, <2>2, <4>1, JobsText DEF Onward
      <3>2. j'.text \in Status /\ got[g].text \in Status \cup {""}
        <4>1. jobs'[got[g].job] \in Fields /\ got[g] \in Reads
          BY <1>0, <2>2 DEF TypeOK
        <4>2. j'.text \in Status \cup {""}
          BY <1>1, <4>1 DEF Fields
        <4> QED
          BY <3>1, <4>1, <4>2 DEF Forward, Reads
      <3>3. (got[g].text = "" \/ Behind(got[g].text, j.text)) /\ (got[g].result => j.result)
            /\ ~got[g].failure
        BY <1>0, <2>2
      <3>4. got[g].text = "" \/ Behind(got[g].text, j'.text)
        <4>1. Behind(j.text, j'.text)
          BY <3>1 DEF Forward
        <4> QED
          BY <3>1, <3>2, <3>3, <4>1, BehindGoesOn
      <3> QED
        BY <1>1, <3>1, <3>3, <3>4 DEF Forward
    <2> QED
      BY <1>1, <2>1, <2>2
  <1>2. CASE ReadStatus(g)
    <2>1. at'[g] = at[g] /\ at[g] = "status" /\ jobs' = jobs /\ got'[g].job = got[g].job
      BY <1>2, ReadingGets DEF ReadStatus
    <2>2. j.text \in Status /\ j' = j
      BY <1>0, <2>1, JobsText
    <2> QED
      BY <1>0, <1>2, <2>1, <2>2, FieldsGot, BehindOrders
  <1>3. CASE StatusRead(g)
    <2>1. at'[g] = "ended" /\ at[g] = "status" /\ jobs' = jobs /\ got' = got /\ got[g].text # ""
      BY <1>0, <1>3 DEF StatusRead, To, TypeOK
    <2> QED
      BY <1>0, <2>1
  <1>4. CASE ReadEnded(g)
    <2>1. at'[g] = "result" /\ at[g] = "ended" /\ jobs' = jobs /\ got'[g].job = got[g].job
      BY <1>0, <1>4, ReadingGets DEF ReadEnded, To, TypeOK
    <2>2. got[g].text \in Final => j.ended
      BY <1>0, <2>1, FinalJob DEF Behind
    <2> QED
      BY <1>0, <1>4, <2>1, <2>2, FieldsGot
  <1>5. CASE ReadResult(g)
    <2>1. at'[g] = "failure" /\ at[g] = "result" /\ jobs' = jobs /\ got'[g].job = got[g].job
      BY <1>0, <1>5, ReadingGets DEF ReadResult, To, TypeOK
    <2> QED
      BY <1>0, <1>5, <2>1, FieldsGot
  <1>6. CASE ReadFailure(g)
    BY <1>0, <1>6 DEF ReadFailure, To, TypeOK
  <1>7. ASSUME NEW p \in Posts, Poll(g, p) PROVE A' /\ B' /\ C' /\ D'
    <2>1. CASE ~Exists(got[p].job)
      BY <1>1, <1>7, <2>1, PollBegins
    <2>2. CASE Exists(got[p].job)
      BY <1>7, <2>2, PollBegins
    <2> QED
      BY <2>1, <2>2
  <1> QED
    BY <1>1, <1>2, <1>3, <1>4, <1>5, <1>6, <1>7, PollKeeps

\* An answer with a final Status has the end and the outcome that go with it.
LEMMA PollStep == JobInv /\ [Next]_vars => FinalPollHasEnd'
  <1> SUFFICES ASSUME JobInv, [Next]_vars, NEW g \in Polls, seen'[g].text \in {"completed", "failed"}
               PROVE  /\ seen'[g].ended
                      /\ seen'[g].text = "completed" => ~seen'[g].failure
                      /\ seen'[g].text = "failed" => ~seen'[g].result
    BY DEF FinalPollHasEnd
  <1>1. CASE seen'[g] = seen[g]
    BY <1>1 DEF JobInv, FinalPollHasEnd
  <1>2. CASE ReadFailure(g)
    <2> DEFINE j == jobs[got[g].job]
    <2>1. /\ got[g].job \in Posts /\ got[g].text = seen'[g].text
          /\ got[g].text \in Final /\ Behind(got[g].text, j.text)
          /\ got[g].result => j.result
          /\ got[g].ended
      <3>1. got[g].text = seen'[g].text /\ at[g] = "failure"
        BY <1>2, FieldsGot DEF ReadFailure
      <3> QED
        BY <3>1 DEF JobInv, ReadsTrue, JobsFollow, Final
    <2>2. j.text = got[g].text
      BY <2>1 DEF Behind
    <2>3. /\ j.text = "completed" => ~j.failure
          /\ j.text = "failed" => ~j.result
      BY <2>1, <2>2, FinalJob
    <2> QED
      BY <1>2, <2>1, <2>2, <2>3, FieldsGot
  <1>3. \A p \in Posts : Poll(g, p) => seen'[g] = seen[g] \/ seen'[g].text = ""
    BY PollBegins
  <1>4. ReadStatus(g) \/ StatusRead(g) \/ ReadEnded(g) \/ ReadResult(g) => seen'[g] = seen[g]
    BY DEF ReadStatus, StatusRead, ReadEnded, ReadResult
  <1> QED
    BY <1>1, <1>2, <1>3, <1>4, PollKeeps

LEMMA JobInvStep == JobInv /\ [Next]_vars => JobInv'
  BY TypeStep, KeysStep, FollowStep, ReadsStep, PollStep DEF JobInv

\* A restart with empty maps keeps it too.
LEMMA CrashStep == JobInv /\ Crash => JobInv'
  <1> SUFFICES ASSUME JobInv, Crash PROVE JobInv'
    OBVIOUS
  <1>0. TypeOK /\ Nothing \in Reads /\ Absent \in Fields /\ ~Absent.result /\ ~Absent.failure
    BY DEF JobInv, Nothing, Reads, Absent, Fields
  <1>1. \A r \in Posts \cup Polls : /\ r \in Polls => at'[r] = "idle"
                                    /\ at'[r] \notin Reading
    BY <1>0 DEF Crash, TypeOK
  <1>2. TypeOK'
    BY <1>0 DEF Crash, TypeOK
  <1>3. KeysResolve' /\ FinalPollHasEnd'
    BY DEF Crash, KeysResolve, JobInv, FinalPollHasEnd
  <1>4. JobsFollow'
    BY <1>0, <1>1 DEF Crash, JobsFollow, InStep
  <1>5. ReadsTrue'
    BY <1>1 DEF ReadsTrue
  <1> QED
    BY <1>2, <1>3, <1>4, <1>5 DEF JobInv

-----------------------------------------------------------------------------
(* The life of one server.                                                 *)

\* Only a POST moves what it asked and the key it asked with.
LEMMA KeysOwnStep == LifeInv /\ [Next]_vars => KeysOwn'
  <1> SUFFICES ASSUME LifeInv, [Next]_vars PROVE KeysOwn'
    OBVIOUS
  <1>0. TypeOK /\ JobInv /\ KeysOwn /\ JobsFollow
    BY DEF LifeInv, JobInv
  <1>1. CASE UNCHANGED <<idem, ask, go, ran>>
    BY <1>0, <1>1 DEF KeysOwn
  <1>2. ASSUME NEW p \in Posts, Post(p) PROVE KeysOwn'
    <2>1. go[p] = "none" /\ ran[p] = NoBody
      BY <1>0, <1>2 DEF Post, JobsFollow, KeysOwn
    <2>2. /\ UNCHANGED <<idem, go, ran>>
          /\ \A j \in Posts : j # p => ask'[j] = ask[j]
      BY <1>0, <1>2 DEF Post, TypeOK
    <2> QED
      BY <1>0, <2>1, <2>2 DEF KeysOwn
  <1>3. ASSUME NEW p \in Posts, CreateJob(p) PROVE KeysOwn'
    <2> DEFINE k == Key(ask[p])
    <2>1. k \in IdemKeys
      <3>1. ask[p] \in Bodies
        BY <1>0, <1>3 DEF CreateJob, TypeOK
      <3> QED
        BY <3>1 DEF Key, IdemKeys, Bodies
    <2>2. /\ idem' = [idem EXCEPT ![k] = p] /\ ask' = ask /\ ran' = ran
          /\ go'[p] = "start" /\ \A j \in Posts : j # p => go'[j] = go[j]
          /\ ~Exists(idem[k]) /\ go[p] = "none"
      BY <1>0, <1>3 DEF CreateJob, TypeOK, JobsFollow
    <2>3. idem'[k] = p /\ \A l \in IdemKeys : l # k => idem'[l] = idem[l]
      BY <1>0, <2>1, <2>2 DEF TypeOK
    <2>4. ASSUME NEW j \in Posts, j # p, go[j] # "none" PROVE idem'[Key(ask[j])] = j
      <3>1. idem[Key(ask[j])] = j /\ Exists(j)
        BY <1>0, <2>4, JobsText DEF KeysOwn, Exists
      <3>2. Key(ask[j]) \in IdemKeys
        <4>1. ask[j] \in Bodies
          BY <1>0, <2>4 DEF JobsFollow
        <4> QED
          BY <4>1 DEF Key, IdemKeys, Bodies
      <3>3. Key(ask[j]) # k
        BY <2>2, <3>1
      <3> QED
        BY <2>3, <3>1, <3>2, <3>3
    <2>5. \A j \in Posts : go'[j] # "none" => idem'[Key(ask'[j])] = j
      BY <2>2, <2>3, <2>4
    <2>6. \A j \in Posts : ran'[j] # NoBody => go'[j] # "none" /\ Key(ran'[j]) = Key(ask'[j])
      BY <1>0, <2>2 DEF KeysOwn
    <2> QED
      BY <2>5, <2>6 DEF KeysOwn, Key
  <1>4. ASSUME NEW p \in Posts, Run(p) PROVE KeysOwn'
    <2>1. /\ UNCHANGED <<idem, ask>> /\ go[p] # "none" /\ go'[p] # "none"
          /\ \A j \in Posts : j # p => go'[j] = go[j] /\ ran'[j] = ran[j]
          /\ ran'[p] = ran[p] \/ ran'[p] = [ask[p] EXCEPT !.project = NoJob]
      BY <1>0, <1>4, RunMoves DEF TypeOK
    <2>2. Key([ask[p] EXCEPT !.project = NoJob]) = Key(ask[p])
      <3>1. ask[p] \in Bodies
        BY <1>0, <2>1 DEF JobsFollow
      <3> QED
        BY <3>1 DEF Key, Bodies
    <2>3. \A j \in Posts : go'[j] # "none" => idem'[Key(ask'[j])] = j
      BY <1>0, <2>1 DEF KeysOwn
    <2>4. \A j \in Posts : ran'[j] # NoBody => go'[j] # "none" /\ Key(ran'[j]) = Key(ask'[j])
      BY <1>0, <2>1, <2>2 DEF KeysOwn
    <2> QED
      BY <2>3, <2>4 DEF KeysOwn, Key
  <1> QED
    BY NextCases, <1>1, <1>2, <1>3, <1>4
       DEF JoinJob, ReadStatus, StatusRead, ReadEnded, ReadResult, ReadFailure, Poll, vars

LEMMA ToldStep == LifeInv /\ [Next]_vars => JobsTold'
  <1> SUFFICES ASSUME LifeInv, [Next]_vars, NEW p \in Posts, at'[p] = "done"
               PROVE  got'[p].job \in Posts /\ jobs'[got'[p].job] # Absent
    BY DEF JobsTold
  <1>0. TypeOK /\ JobInv /\ JobsTold /\ JobsFollow /\ Onward /\ p \notin Polls
    BY StepOnward DEF LifeInv, JobInv
  <1>1. CASE at'[p] = at[p] /\ got'[p] = got[p]
    BY <1>0, <1>1 DEF JobsTold, Onward
  <1>2. CASE JoinJob(p) \/ ReadStatus(p) \/ Post(p)
    BY <1>0, <1>2 DEF JoinJob, ReadStatus, Post, To, TypeOK
  <1>3. CASE CreateJob(p)
    <2>1. got'[p] = [Nothing EXCEPT !.job = p, !.text = "queued", !.len = 6] /\ jobs'[p] = Queued
      BY <1>0, <1>3 DEF CreateJob, TypeOK
    <2>2. got'[p].job = p /\ Queued # Absent
      BY <2>1 DEF Nothing, Queued, Absent
    <2> QED
      BY <2>1, <2>2
  <1>4. CASE StatusRead(p)
    BY <1>0, <1>4 DEF StatusRead, JobsFollow
  <1>5. \A r \in Posts : Run(r) => at'[p] = at[p] /\ got'[p] = got[p]
    BY <1>0, RunMoves
  <1>6. ASSUME NEW r \in Posts \cup Polls, r # p,
               \/ Post(r) \/ JoinJob(r) \/ CreateJob(r) \/ ReadStatus(r) \/ StatusRead(r)
               \/ ReadEnded(r) \/ ReadResult(r) \/ ReadFailure(r)
               \/ \E q \in Posts : Poll(r, q)
        PROVE  at'[p] = at[p] /\ got'[p] = got[p]
    BY <1>0, <1>6 DEF Post, JoinJob, CreateJob, ReadStatus, StatusRead, ReadEnded, ReadResult,
                      ReadFailure, Poll, To, TypeOK
  <1>7. UNCHANGED vars => at'[p] = at[p] /\ got'[p] = got[p]
    BY DEF vars
  <1> QED
    BY <1>0, NextCases, <1>1, <1>2, <1>3, <1>4, <1>5, <1>6, <1>7

\* What a client was told stays behind the job it is about, and behind what the
\* client reads of that job next.
LEMMA AnswersStep == LifeInv /\ [Next]_vars => AnswersBehind'
  <1> SUFFICES ASSUME LifeInv, [Next]_vars, NEW g \in Polls, seen'[g].job # NoJob
               PROVE  /\ seen'[g].text # "" /\ jobs'[seen'[g].job] # Absent
                      /\ Behind(seen'[g].text, jobs'[seen'[g].job].text)
                      /\ at'[g] \in Reading /\ got'[g].job = seen'[g].job /\ got'[g].text # ""
                           => Behind(seen'[g].text, got'[g].text)
    BY DEF AnswersBehind, Behind
  <1> DEFINE j == seen[g].job
             Same == seen'[g] = seen[g]
             Mid == at'[g] \in Reading /\ got'[g].job = seen'[g].job /\ got'[g].text # ""
                      => Behind(seen'[g].text, got'[g].text)
             Aim == /\ seen'[g].text # "" /\ jobs'[seen'[g].job] # Absent
                    /\ Behind(seen'[g].text, jobs'[seen'[g].job].text)
  <1>0. /\ TypeOK /\ TypeOK' /\ JobInv /\ Onward
        /\ seen[g].job # NoJob =>
             /\ seen[g].text # "" /\ jobs[j] # Absent /\ Behind(seen[g].text, jobs[j].text)
             /\ at[g] \in Reading /\ got[g].job = j /\ got[g].text # ""
                  => Behind(seen[g].text, got[g].text)
    BY StepOnward, TypeStep DEF LifeInv, AnswersBehind, JobInv
  <1>1. ASSUME Same PROVE Aim
    <2>1. seen[g] \in Reads /\ j # NoJob
      BY <1>0, <1>1 DEF TypeOK
    <2>2. j \in Posts /\ seen[g].text \in Status
      BY <1>0, <2>1 DEF Reads
    <2>3. /\ jobs[j].text \in Status /\ jobs'[j] # Absent /\ Behind(jobs[j].text, jobs'[j].text)
          /\ jobs'[j].text # ""
      BY <1>0, <2>1, <2>2, JobsText DEF Onward, Forward
    <2>4. jobs'[j].text \in Status
      <3>1. jobs'[j] \in Fields
        BY <1>0, <2>2 DEF TypeOK
      <3> QED
        BY <2>3, <3>1 DEF Fields
    <2>5. Behind(seen[g].text, jobs'[j].text)
      <3>1. Behind(seen[g].text, jobs[j].text) /\ seen[g].text # ""
        BY <1>0, <2>1
      <3> QED
        BY <2>2, <2>3, <2>4, <3>1, BehindGoesOn
    <2> QED
      BY <1>0, <1>1, <2>1, <2>3, <2>5
  <1>2. CASE at'[g] = at[g] /\ got'[g] = got[g] /\ Same
    <2>1. Mid
      BY <1>0, <1>2
    <2> QED
      BY <1>1, <1>2, <2>1
  <1>3. CASE ReadStatus(g)
    <2>1. Same /\ at[g] = "status" /\ got'[g].job = got[g].job
      BY <1>0, <1>3, ReadingGets DEF ReadStatus
    <2>2. \/ got'[g].text = got[g].text
          \/ got'[g].text = jobs[got[g].job].text
      BY <1>0, <1>3, FieldsGot
    <2>3. Mid
      BY <1>0, <2>1, <2>2
    <2> QED
      BY <1>1, <2>1, <2>3
  <1>4. CASE StatusRead(g) \/ ReadEnded(g) \/ ReadResult(g)
    <2>1. Same /\ at[g] \in Reading
      BY <1>4 DEF StatusRead, ReadEnded, ReadResult
    <2>2. got'[g].job = got[g].job /\ got'[g].text = got[g].text
      BY <1>0, <1>4, ReadingGets, FieldsGot DEF StatusRead
    <2>3. Mid
      BY <1>0, <2>1, <2>2
    <2> QED
      BY <1>1, <2>1, <2>3
  <1>5. CASE ReadFailure(g)
    <2>1. /\ seen'[g].text = got[g].text /\ seen'[g].job = got[g].job
          /\ at[g] = "failure" /\ at'[g] = "idle" /\ jobs' = jobs
      BY <1>0, <1>5, FieldsGot DEF ReadFailure, To, TypeOK
    <2>2. /\ got[g].text # "" /\ jobs[got[g].job] # Absent
          /\ Behind(got[g].text, jobs[got[g].job].text)
      BY <1>0, <2>1 DEF JobInv, ReadsTrue, JobsFollow
    <2> QED
      BY <2>1, <2>2
  <1>6. ASSUME NEW p \in Posts, Poll(g, p) PROVE Aim /\ Mid
    <2>1. Exists(got[p].job)
      <3>1. at[p] = "done"
        BY <1>6 DEF Poll
      <3> QED
        BY <3>1 DEF LifeInv, JobsTold, Exists
    <2>2. Same /\ got'[g].text = ""
      BY <1>0, <1>6, <2>1, PollBegins
    <2> QED
      BY <1>1, <2>2
  <1> QED
    BY <1>0, <1>2, <1>3, <1>4, <1>5, <1>6, PollKeeps

LEMMA LifeInvStep == LifeInv /\ [Next]_vars => LifeInv'
  <1>1. LifeInv /\ [Next]_vars => JobInv'
    BY JobInvStep DEF LifeInv
  <1> QED
    BY <1>1, KeysOwnStep, ToldStep, AnswersStep DEF LifeInv

THEOREM LifeInvariant == Spec => []LifeInv
  BY InitInv, LifeInvStep, PTL DEF Spec

-----------------------------------------------------------------------------
(* Theorems.                                                               *)

\* Type correctness.
THEOREM JobTypes == Spec => []TypeOK
  <1>1. LifeInv => TypeOK
    BY DEF LifeInv, JobInv
  <1> QED
    BY <1>1, LifeInvariant, PTL

\* One subprocess for a key, however many retries arrive at the same time
\* (registerJob under reg.mu, jobs.go:60-110).
THEOREM KeysRunOnce == Spec => []OneRunPerKey
  <1>1. LifeInv => OneRunPerKey
    BY DEF LifeInv, KeysOwn, OneRunPerKey
  <1> QED
    BY <1>1, LifeInvariant, PTL

\* A final answer is a whole one: the end time is there, and no outcome of the
\* other kind, although GET reads the fields without the lock (jobs.go:113-135).
THEOREM FinalPolls == Spec => []FinalPollHasEnd
  <1>1. LifeInv => FinalPollHasEnd
    BY DEF LifeInv, JobInv
  <1> QED
    BY <1>1, LifeInvariant, PTL

\* A client that polls never sees its job go back.
THEOREM PollsForward == Spec => PollsGoForward
  <1> DEFINE Ahead(g) == seen[g].job # NoJob /\ seen'[g].job = seen[g].job
                         => /\ seen'[g].text # ""
                            /\ Rank[seen[g].text] <= Rank[seen'[g].text]
                            /\ seen[g].text \in {"completed", "failed"}
                                 => seen'[g].text = seen[g].text
  <1>1. ASSUME LifeInv, LifeInv', [Next]_vars, NEW g \in Polls, seen[g].job # NoJob,
               seen'[g].job = seen[g].job
        PROVE  seen'[g].text # "" /\ Behind(seen[g].text, seen'[g].text)
    <2>1. JobInv /\ seen[g] \in Reads /\ seen[g].text # "" /\ seen'[g].text # ""
      BY <1>1 DEF LifeInv, JobInv, AnswersBehind, TypeOK
    <2>2. CASE seen'[g] = seen[g]
      <3>1. seen[g].text \in Status
        BY <2>1 DEF Reads
      <3> QED
        BY <2>1, <2>2, <3>1, BehindOrders
    <2>3. CASE ReadFailure(g)
      <3>1. seen'[g].text = got[g].text /\ seen'[g].job = got[g].job /\ at[g] = "failure"
        BY <2>1, <2>3, FieldsGot DEF ReadFailure
      <3> QED
        BY <1>1, <2>1, <3>1 DEF LifeInv, AnswersBehind
    <2>4. \A p \in Posts : Poll(g, p) => seen'[g] = seen[g] \/ seen'[g].text = ""
      BY <2>1, PollBegins
    <2>5. ReadStatus(g) \/ StatusRead(g) \/ ReadEnded(g) \/ ReadResult(g) => seen'[g] = seen[g]
      BY DEF ReadStatus, StatusRead, ReadEnded, ReadResult
    <2> QED
      BY <1>1, <2>1, <2>2, <2>3, <2>4, <2>5, PollKeeps
  <1>2. LifeInv /\ LifeInv' /\ [Next]_vars => [\A g \in Polls : Ahead(g)]_vars
    BY <1>1 DEF Behind, Final
  <1> QED
    BY <1>2, LifeInvariant, PTL DEF Spec, PollsGoForward

\* The registry implements the promise of JobLifecycle: a job is created once for
\* a key and runs through its life in order.
THEOREM KeepsPromise == Spec => PromiseKept
  <1> DEFINE state == [j \in Posts |-> IF jobs[j] = Absent THEN "none" ELSE jobs[j].text]
  <1>1. Init => Lifecycle!Init
    BY DEF Init, Lifecycle!Init
  <1>2. ASSUME LifeInv, [Next]_vars PROVE [Lifecycle!Next]_<<state, idem>>
    <2>0. TypeOK /\ JobInv /\ JobsFollow
      BY <1>2 DEF LifeInv, JobInv
    <2>1. CASE UNCHANGED <<jobs, idem>>
      BY <2>1
    <2>2. ASSUME NEW p \in Posts, CreateJob(p) PROVE Lifecycle!Next
      <3> DEFINE k == Key(ask[p])
      <3>1. k \in IdemKeys
        <4>1. ask[p] \in Bodies
          BY <2>0, <2>2 DEF CreateJob, TypeOK
        <4> QED
          BY <4>1 DEF Key, IdemKeys, Bodies
      <3>2. idem[k] = NoJob
        BY <2>0, <2>2, <3>1 DEF CreateJob, JobInv, KeysResolve
      <3>3. jobs[p] = Absent
        BY <2>0, <2>2 DEF CreateJob, JobsFollow, InStep
      <3>4. Queued.text = "queued" /\ Queued # Absent
        BY DEF Queued, Absent
      <3>5. jobs' = [jobs EXCEPT ![p] = Queued] /\ idem' = [idem EXCEPT ![k] = p]
        BY <2>2 DEF CreateJob
      <3>6. state' = [state EXCEPT ![p] = "queued"]
        BY <2>0, <3>4, <3>5 DEF TypeOK
      <3>7. PICK l \in IdemKeys : l = k
        BY <3>1
      <3>8. Lifecycle!Create(p, l)
        BY <3>2, <3>3, <3>5, <3>6, <3>7 DEF Lifecycle!Create
      <3> HIDE DEF state
      <3> QED
        BY <3>8 DEF Lifecycle!Next
    <2>3. ASSUME NEW p \in Posts, Run(p) PROVE [Lifecycle!Next]_<<state, idem>>
      <3>1. /\ idem' = idem /\ jobs' = [jobs EXCEPT ![p] = jobs'[p]]
            /\ OneOn(jobs[p].text, jobs'[p].text)
            /\ jobs[p].text # "" /\ jobs'[p].text # ""
        BY <2>0, <2>3, RunMoves DEF Forward
      <3>2. jobs[p] # Absent /\ jobs'[p] # Absent
        <4>1. Absent.text = ""
          BY DEF Absent
        <4> QED
          BY <3>1, <4>1
      <3>3. state[p] = jobs[p].text /\ state' = [state EXCEPT ![p] = jobs'[p].text]
        <4>1. jobs \in [Posts -> Fields]
          BY <2>0 DEF TypeOK
        <4>2. \A i \in Posts : i # p => jobs'[i] = jobs[i]
          BY <3>1, <4>1
        <4> QED
          BY <3>2, <4>1, <4>2
      <3>4. CASE jobs'[p].text = jobs[p].text
        BY <3>1, <3>3, <3>4
      <3>5. CASE jobs'[p].text # jobs[p].text
        <4>1. \/ Lifecycle!Move(p, "queued", "running")
              \/ Lifecycle!Move(p, "running", "completed")
              \/ Lifecycle!Move(p, "running", "failed")
          BY <3>1, <3>3, <3>5 DEF OneOn, Lifecycle!Move
        <4> QED
          BY <4>1 DEF Lifecycle!Next
      <3> QED
        BY <3>4, <3>5
    <2> QED
      BY <1>2, NextCases, <2>1, <2>2, <2>3
         DEF Post, JoinJob, ReadStatus, StatusRead, ReadEnded, ReadResult, ReadFailure, Poll, vars
  <1> QED
    BY <1>1, <1>2, LifeInvariant, PTL DEF Spec, PromiseKept, Lifecycle!Spec
=============================================================================
