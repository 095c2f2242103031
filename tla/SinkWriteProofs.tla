-------------------------- MODULE SinkWriteProofs --------------------------
(***************************************************************************)
(* Proofs about the sink, for any number of calls, contents and faults.    *)
(***************************************************************************)
EXTENDS SinkWrite, TLAPS

\* Init establishes the invariant.
LEMMA InitInv == Init => IInv
<1> SUFFICES ASSUME Init PROVE IInv
  OBVIOUS
<1>1. TypeOK
  BY SinkAssumption DEF Init, TypeOK, NoRequest, Request, Steps, Answers, L2Rows, L3Rows
<1>2. PointsHaveRows
  BY DEF Init, PointsHaveRows, InL1
<1>3. FullAnswerStored
  BY DEF Init, FullAnswerStored
<1>4. \A w \in Writes : Progress(w)
  BY DEF Init, Progress, DocWritten, L1Written, L2Written, ChunksWritten, UnitsWritten,
         AllWritten, TodoWritten, NotStarted, NotAnswered, HasDoc, HasL1, Steps, InL1
<1> QED
  BY <1>1, <1>2, <1>3, <1>4 DEF IInv

\* Every step keeps the types.
LEMMA TypeStep == TypeOK /\ [Next]_vars => TypeOK'
<1> SUFFICES ASSUME TypeOK, [Next]_vars PROVE TypeOK'
  OBVIOUS
<1> USE SinkAssumption
<1>1. ASSUME NEW w \in Writes, Begin(w) PROVE TypeOK'
  BY <1>1 DEF TypeOK, Begin, GoTo, tables, Steps, Request, NoRequest
<1>2. ASSUME NEW w \in Writes, Write(w) PROVE TypeOK'
  <2> USE DEF TypeOK, GoTo, Answer, tables, local, Steps
  <2> MidOf[w] \in Mids
    OBVIOUS
  <2> DEFINE row == <<w, chunkAt[w], unitAt[w]>>
  <2>a. /\ <<w, chunkAt[w]>> \in L2Rows /\ <<w, chunkAt[w], 0>> \in L3Rows
        /\ row \in L3Rows
    BY DEF L2Rows, L3Rows
  <2>b. todo[w] # << >> => Head(todo[w]) \in L3Rows /\ Tail(todo[w]) \in Seq(L3Rows)
    OBVIOUS
  <2>1. CASE SkipByTitle(w)
    <3>1. PICK k \in DOMAIN l1 : Answer(w, "title", MidOf[l1[k]])
      BY <2>1 DEF SkipByTitle
    <3>2. [via |-> "title", doc |-> MidOf[l1[k]]] \in Answers
      BY DEF Answers
    <3> QED
      BY <2>1, <3>1, <3>2 DEF SkipByTitle
  <2>2. CASE MissTitle(w)
    BY <2>2 DEF MissTitle
  <2>3. CASE SkipByHead(w)
    <3>1. [via |-> "head", doc |-> MidOf[w]] \in Answers
      BY DEF Answers
    <3> QED
      BY <2>3, <3>1 DEF SkipByHead
  <2>4. CASE MissHead(w)
    BY <2>4 DEF MissHead
  <2>5. CASE UpsertDoc(w)
    BY <2>5 DEF UpsertDoc
  <2>6. CASE InsertL1(w)
    BY <2>6 DEF InsertL1
  <2>7. CASE SetCurrent(w)
    BY <2>7 DEF SetCurrent
  <2>8. CASE InsertL2(w)
    <3> DEFINE step == IF ThisChunk(w).heading = "" THEN "unit" ELSE "heading"
    <3>1. step \in Steps /\ step # "idle"
      OBVIOUS
    <3>2. pc' = [pc EXCEPT ![w] = step] /\ pc[w] # "idle"
      BY <2>8 DEF InsertL2
    <3> HIDE DEF step
    <3>3. unitAt' = [unitAt EXCEPT ![w] = 1] /\ l2' = l2 \cup {<<w, chunkAt[w]>>}
      BY <2>8 DEF InsertL2
    <3>4. l2' \subseteq L2Rows
      BY <3>3, <2>a
    <3>5. unitAt' \in [Writes -> Nat \ {0}]
      BY <3>3
    <3>6. /\ pc' \in [Writes -> Steps \cup {"idle", "done", "dead"}]
          /\ \A v \in Writes : pc'[v] = "idle" <=> pc[v] = "idle"
      BY <3>1, <3>2
    <3> QED
      BY <2>8, <3>4, <3>5, <3>6 DEF InsertL2
  <2>9. CASE InsertHeading(w)
    BY <2>9, <2>a DEF InsertHeading
  <2>10. CASE InsertUnit(w)
    <3>1. Append(todo[w], row) \in Seq(L3Rows)
      BY <2>a
    <3>2. todo' = todo \/ todo' = [todo EXCEPT ![w] = Append(@, row)]
      BY <2>10 DEF InsertUnit
    <3>3. todo' \in [Writes -> Seq(L3Rows)]
      BY <3>1, <3>2
    <3>4. unitAt' = [unitAt EXCEPT ![w] = unitAt[w] + 1] /\ l3' = l3 \cup {row}
      BY <2>10 DEF InsertUnit
    <3>5. l3' \subseteq L3Rows
      BY <3>4, <2>a
    <3>6. unitAt' \in [Writes -> Nat \ {0}]
      BY <3>4
    <3> QED
      BY <2>10, <3>3, <3>5, <3>6 DEF InsertUnit
  <2>11. CASE DropUnit(w)
    BY <2>11 DEF DropUnit
  <2>12. CASE EndChunk(w)
    BY <2>12 DEF EndChunk
  <2>13. CASE EndRows(w)
    BY <2>13 DEF EndRows
  <2>14. CASE PutL1(w)
    BY <2>14 DEF PutL1
  <2>15. CASE SkipL1(w)
    BY <2>15 DEF SkipL1
  <2>16. CASE PutL3(w)
    BY <2>16, <2>b DEF PutL3
  <2>17. CASE SkipL3(w)
    BY <2>17, <2>b DEF SkipL3
  <2>18. CASE Note(w)
    <3>1. todo[w] # << >>
      BY <2>18 DEF Note
    <3>2. noted' \subseteq L3Rows
      BY <2>18, <2>b, <3>1 DEF Note
    <3> QED
      BY <2>18, <2>b, <3>1, <3>2 DEF Note
  <2>19. CASE Finish(w)
    <3>1. [via |-> "full", doc |-> MidOf[w]] \in Answers
      BY DEF Answers
    <3> QED
      BY <2>19, <3>1 DEF Finish
  <2>20. CASE Fail(w)
    <3>1. [via |-> "error", doc |-> NoRow] \in Answers
      BY DEF Answers
    <3>2. pc[w] # "idle"
      BY <2>20 DEF Fail
    <3> QED
      BY <2>20, <3>1, <3>2 DEF Fail
  <2> QED
    BY <1>2, <2>1, <2>2, <2>3, <2>4, <2>5, <2>6, <2>7, <2>8, <2>9, <2>10, <2>11, <2>12,
       <2>13, <2>14, <2>15, <2>16, <2>17, <2>18, <2>19, <2>20 DEF Write
<1>3. CASE Crash
  BY <1>3 DEF TypeOK, Crash, tables, local, Active, Steps
<1>4. CASE UNCHANGED vars
  BY <1>4 DEF TypeOK, vars, tables, local
<1> QED
  BY <1>1, <1>2, <1>3, <1>4 DEF Next

-----------------------------------------------------------------------------
(* Rows are never taken away, and a call's request is fixed when it begins. *)

Grows == /\ l2 \subseteq l2' /\ l3 \subseteq l3' /\ points3 \subseteq points3'
         /\ \A w \in Writes : InL1(w) => InL1(w)'
         /\ \A m \in Mids : version[m] > 0 => version'[m] > 0
         /\ \A w \in Writes : pc[w] # "idle" => req'[w] = req[w]

\* Every step only adds rows.
LEMMA OnlyGrows == TypeOK /\ [Next]_vars => Grows
<1> SUFFICES ASSUME TypeOK, [Next]_vars PROVE Grows
  OBVIOUS
<1> USE SinkAssumption DEF TypeOK
<1>1. ASSUME l1' = l1 PROVE \A w \in Writes : InL1(w) => InL1(w)'
  BY <1>1 DEF InL1
<1>2. ASSUME NEW w \in Writes, Begin(w) PROVE Grows
  BY <1>2, <1>1 DEF Grows, Begin, tables
<1>3. ASSUME NEW w \in Writes, Write(w) PROVE Grows
  <2>1. CASE InsertL1(w)
    <3>1. \A k \in DOMAIN l1 : k \in DOMAIN l1' /\ l1'[k] = l1[k]
      <4>1. l1 \in Seq(Writes) /\ l1' = Append(l1, w)
        BY <2>1 DEF InsertL1
      <4> HIDE SinkAssumption DEF TypeOK
      <4>2. QED
        BY <4>1
    <3> QED
      BY <2>1, <3>1 DEF InsertL1, Grows, local, InL1
  <2>2. CASE UpsertDoc(w)
    BY <2>2, <1>1 DEF UpsertDoc, Grows, local
  <2>3. CASE InsertL2(w) \/ InsertHeading(w) \/ InsertUnit(w) \/ DropUnit(w) \/ EndChunk(w)
    BY <2>3, <1>1 DEF InsertL2, InsertHeading, InsertUnit, DropUnit, EndChunk, Grows, tables, local
  <2>4. CASE PutL1(w) \/ PutL3(w) \/ SkipL3(w) \/ Note(w) \/ SetCurrent(w)
    BY <2>4, <1>1 DEF PutL1, PutL3, SkipL3, Note, SetCurrent, Grows, tables, local
  <2>5. CASE \/ SkipByTitle(w) \/ MissTitle(w) \/ SkipByHead(w) \/ MissHead(w) \/ EndRows(w)
             \/ SkipL1(w) \/ Finish(w) \/ Fail(w)
    BY <2>5, <1>1 DEF SkipByTitle, MissTitle, SkipByHead, MissHead, EndRows, SkipL1, Finish,
       Fail, Grows, tables, local
  <2> QED
    BY <1>3, <2>1, <2>2, <2>3, <2>4, <2>5 DEF Write
<1>4. CASE Crash
  BY <1>4, <1>1 DEF Crash, Grows, tables, local
<1>5. CASE UNCHANGED vars
  BY <1>5, <1>1 DEF vars, Grows, tables, local
<1> QED
  BY <1>2, <1>3, <1>4, <1>5 DEF Next

\* What is stored for a call that has begun stays stored.
LEMMA StoredStays ==
  ASSUME TypeOK, Grows, NEW w \in Writes, pc[w] # "idle"
  PROVE  /\ Chunks(w)' = Chunks(w)
         /\ \A i, k : UnitStored(w, i, k) => UnitStored(w, i, k)'
         /\ \A i : ChunkStored(w, i) => ChunkStored(w, i)'
         /\ Stored(w) => Stored(w)'
<1>1. Chunks(w)' = Chunks(w)
  BY DEF Chunks, Grows
<1>2. \A i, k : UnitStored(w, i, k) => UnitStored(w, i, k)'
  BY <1>1 DEF UnitStored, Grows
<1>3. \A i : ChunkStored(w, i) => ChunkStored(w, i)'
  BY <1>1, <1>2 DEF ChunkStored, Grows
<1>4. Stored(w) => Stored(w)'
  <2>1. MidOf[w] \in Mids
    BY SinkAssumption
  <2> QED
    BY <1>1, <1>3, <2>1 DEF Stored, Grows
<1> QED
  BY <1>1, <1>2, <1>3, <1>4

-----------------------------------------------------------------------------
(* How far each call has come.                                             *)

\* A call that stays at its step, or ends, keeps what it has written.
LEMMA StandingProgress ==
  ASSUME TypeOK, Grows, NEW v \in Writes, Progress(v), NotAnswered(v)',
         pc'[v] = pc[v] \/ pc'[v] \in {"done", "dead"},
         chunkAt'[v] = chunkAt[v], unitAt'[v] = unitAt[v], todo'[v] = todo[v],
         InL1(v)' => InL1(v)
  PROVE  Progress(v)'
<1> USE SinkAssumption DEF Progress
<1>1. TodoWritten(v)'
  BY DEF TodoWritten, Grows
<1>2. DocWritten(v)' /\ L1Written(v)'
  BY DEF DocWritten, L1Written, Grows, HasDoc, HasL1, Steps
<1>a. NotStarted(v)'
  BY DEF NotStarted
<1>3. CASE pc[v] = "idle" \/ pc'[v] \in {"done", "dead"}
  BY <1>1, <1>2, <1>3, <1>a DEF L2Written, ChunksWritten, UnitsWritten, AllWritten
<1>4. CASE pc[v] # "idle" /\ pc'[v] = pc[v]
  <2>1. /\ Chunks(v)' = Chunks(v)
        /\ \A i, k : UnitStored(v, i, k) => UnitStored(v, i, k)'
        /\ \A i : ChunkStored(v, i) => ChunkStored(v, i)'
    BY <1>4, StoredStays
  <2>2. ThisChunk(v)' = ThisChunk(v)
    BY <2>1 DEF ThisChunk
  <2>3. L2Written(v)'
    BY <1>4, <2>1 DEF L2Written, Grows
  <2>4. ChunksWritten(v)'
    BY <1>4, <2>1 DEF ChunksWritten
  <2>5. UnitsWritten(v)'
    BY <1>4, <2>1, <2>2 DEF UnitsWritten, Grows
  <2>6. AllWritten(v)'
    BY <1>4, <2>1 DEF AllWritten
  <2> QED
    BY <1>1, <1>2, <1>a, <2>3, <2>4, <2>5, <2>6
<1> QED
  BY <1>3, <1>4

\* The other calls stand still while one takes a step.
LEMMA OthersStand ==
  ASSUME TypeOK, Grows, NEW w \in Writes, Begin(w) \/ Write(w), NEW v \in Writes \ {w},
         Progress(v)
  PROVE  Progress(v)'
<1> USE DEF TypeOK
<1>1. /\ pc'[v] = pc[v] /\ chunkAt'[v] = chunkAt[v] /\ unitAt'[v] = unitAt[v]
      /\ todo'[v] = todo[v] /\ answer'[v] = answer[v]
  <2>1. CASE Begin(w)
    BY <2>1 DEF Begin, GoTo
  <2>2. CASE \/ SkipByTitle(w) \/ MissTitle(w) \/ SkipByHead(w) \/ MissHead(w) \/ UpsertDoc(w)
             \/ InsertL1(w) \/ SetCurrent(w) \/ InsertHeading(w) \/ EndRows(w) \/ PutL1(w)
             \/ SkipL1(w) \/ PutL3(w) \/ Finish(w) \/ Fail(w)
    BY <2>2 DEF SkipByTitle, MissTitle, SkipByHead, MissHead, UpsertDoc, InsertL1, SetCurrent,
       InsertHeading, EndRows, PutL1, SkipL1, PutL3, Finish, Fail, GoTo, Answer, local
  <2>3. CASE InsertL2(w) \/ DropUnit(w) \/ EndChunk(w)
    BY <2>3 DEF InsertL2, DropUnit, EndChunk, GoTo
  <2>4. CASE InsertUnit(w) \/ SkipL3(w) \/ Note(w)
    BY <2>4 DEF InsertUnit, SkipL3, Note, GoTo
  <2> QED
    BY <2>1, <2>2, <2>3, <2>4 DEF Write
<1>2. InL1(v)' => InL1(v)
  <2>1. CASE l1' = l1
    BY <2>1 DEF InL1
  <2>2. CASE InsertL1(w)
    <3>1. l1' = Append(l1, w)
      BY <2>2 DEF InsertL1
    <3>2. l1 \in Seq(Writes)
      BY DEF TypeOK
    <3>3. Len(l1') = Len(l1) + 1 /\ DOMAIN l1' = 1..Len(l1')
      BY <3>1, <3>2
    <3>4. l1'[Len(l1) + 1] = w /\ \A k \in 1..Len(l1) : l1'[k] = l1[k]
      BY <3>1, <3>2
    <3>5. Len(l1) \in Nat /\ DOMAIN l1 = 1..Len(l1)
      BY <3>2
    <3>6. \A k \in DOMAIN l1' : l1'[k] = w \/ (k \in DOMAIN l1 /\ l1'[k] = l1[k])
      <4>1. SUFFICES ASSUME NEW k \in DOMAIN l1'
                     PROVE  l1'[k] = w \/ (k \in DOMAIN l1 /\ l1'[k] = l1[k])
        OBVIOUS
      <4>2. k = Len(l1) + 1 \/ k \in 1..Len(l1)
        BY <3>3, <3>5
      <4> QED
        BY <4>2, <3>4, <3>5
    <3> QED
      BY <3>6 DEF InL1
  <2> QED
    BY <2>1, <2>2 DEF Begin, Write, SkipByTitle, MissTitle, SkipByHead, MissHead, UpsertDoc,
       SetCurrent, InsertL2, InsertHeading, InsertUnit, DropUnit, EndChunk, EndRows, PutL1,
       SkipL1, PutL3, SkipL3, Note, Finish, Fail, tables
<1>3. NotAnswered(v)'
  BY <1>1 DEF Progress, NotAnswered
<1> HIDE DEF TypeOK
<1> QED
  BY <1>1, <1>2, <1>3, StandingProgress

\* The call that takes the step has come one step further.
LEMMA ActorAdvances ==
  ASSUME TypeOK, TypeOK', Grows, NEW w \in Writes, Begin(w) \/ Write(w), Progress(w)
  PROVE  Progress(w)'
<1> USE SinkAssumption
<1> DEFINE Same == l1' = l1 /\ chunkAt' = chunkAt /\ unitAt' = unitAt /\ todo' = todo
<1>0. PICK c \in Nat \ {0}, u \in Nat \ {0} : c = chunkAt[w] /\ u = unitAt[w]
  BY DEF TypeOK
<1>a. Same => (InL1(w)' <=> InL1(w))
  BY DEF InL1
<1>b. pc[w] # "idle" => /\ Chunks(w)' = Chunks(w)
                        /\ \A i, k : UnitStored(w, i, k) => UnitStored(w, i, k)'
                        /\ \A i : ChunkStored(w, i) => ChunkStored(w, i)'
  BY StoredStays
<1>c. w \in DOMAIN pc /\ w \in DOMAIN chunkAt /\ w \in DOMAIN unitAt /\ w \in DOMAIN todo
      /\ c = chunkAt[w] /\ u = unitAt[w] /\ todo[w] \in Seq(L3Rows)
  BY <1>0 DEF TypeOK
<1>d. TodoWritten(w) /\ todo'[w] = todo[w] /\ pc'[w] # "note" => TodoWritten(w)'
  BY DEF TodoWritten, Grows
<1>e. ASSUME pc[w] # "idle"
      PROVE  Len(Chunks(w)) \in Nat /\ (c <= Len(Chunks(w)) => Len(ThisChunk(w).units) \in Nat)
  <2>1. req[w] \in Request
    BY <1>e DEF TypeOK
  <2>2. Chunks(w) \in Seq(Chunk)
    BY <2>1 DEF Chunks, Request
  <2>3. c <= Len(Chunks(w)) => ThisChunk(w) \in Chunk
    BY <2>2, <1>c DEF ThisChunk
  <2> QED
    BY <2>2, <2>3 DEF Chunk
<1>1. ASSUME SkipByTitle(w) \/ SkipByHead(w) \/ Finish(w) \/ Fail(w) PROVE Progress(w)'
  <2>1. pc'[w] = "done" /\ Same
    BY <1>1, <1>c DEF SkipByTitle, SkipByHead, Finish, Fail, Answer, GoTo, tables, local
  <2>2. NotAnswered(w)'
    BY <2>1 DEF NotAnswered
  <2> QED
    BY <2>1, <2>2, <1>a, StandingProgress
<1>2. ASSUME Begin(w) \/ MissTitle(w) \/ MissHead(w) PROVE Progress(w)'
  <2>1. /\ pc[w] \in {"idle", "title", "machine"} /\ pc'[w] \in {"title", "machine", "upsert"}
        /\ Same /\ answer' = answer
    BY <1>2, <1>c DEF Begin, MissTitle, MissHead, GoTo, tables, local
  <2> QED
    BY <2>1, <1>a, <1>d DEF Progress, NotAnswered, DocWritten, L1Written, L2Written,
       ChunksWritten, UnitsWritten, AllWritten, NotStarted, HasDoc, HasL1, Steps
<1>3. ASSUME UpsertDoc(w) PROVE Progress(w)'
  <2>1. /\ pc[w] = "upsert" /\ pc'[w] = "l1" /\ Same /\ answer' = answer
        /\ version'[MidOf[w]] > 0
    BY <1>3, <1>c DEF UpsertDoc, GoTo, local, TypeOK
  <2> QED
    BY <2>1, <1>a, <1>d DEF Progress, NotAnswered, DocWritten, L1Written, L2Written,
       ChunksWritten, UnitsWritten, AllWritten, NotStarted, HasDoc, HasL1, Steps
<1>4. ASSUME InsertL1(w) PROVE Progress(w)'
  <2>1. /\ pc[w] = "l1" /\ pc'[w] = "current" /\ answer' = answer /\ todo' = todo
        /\ chunkAt' = chunkAt /\ l1' = Append(l1, w) /\ version' = version
    BY <1>4, <1>c DEF InsertL1, GoTo, local
  <2>2. l1'[Len(l1) + 1] = w /\ Len(l1) + 1 \in DOMAIN l1'
    BY <2>1 DEF TypeOK
  <2>3. InL1(w)'
    BY <2>2 DEF InL1
  <2> QED
    BY <2>1, <2>3, <1>d DEF Progress, NotAnswered, DocWritten, L1Written, L2Written,
       ChunksWritten, UnitsWritten, AllWritten, NotStarted, HasDoc, HasL1, Steps
<1>5. ASSUME SetCurrent(w) PROVE Progress(w)'
  <2>1. /\ pc[w] = "current" /\ pc'[w] = "chunk" /\ Same /\ answer' = answer
        /\ version' = version
    BY <1>5, <1>c DEF SetCurrent, GoTo, local
  <2> QED
    BY <2>1, <1>a, <1>d DEF Progress, NotAnswered, DocWritten, L1Written, L2Written,
       ChunksWritten, UnitsWritten, AllWritten, NotStarted, HasDoc, HasL1, Steps
<1>6. ASSUME InsertL2(w) PROVE Progress(w)'
  <2>1. /\ pc[w] = "chunk" /\ answer' = answer /\ todo' = todo
        /\ chunkAt' = chunkAt /\ l1' = l1 /\ version' = version /\ l2' = l2 \cup {<<w, c>>}
        /\ unitAt'[w] = 1 /\ c <= Len(Chunks(w))
    BY <1>6, <1>c DEF InsertL2
  <2>2. pc'[w] = IF ThisChunk(w).heading = "" THEN "unit" ELSE "heading"
    BY <1>6, <1>c DEF InsertL2, GoTo
  <2>3. ThisChunk(w)' = ThisChunk(w) /\ Chunks(w)' = Chunks(w)
    BY <2>1, <1>b DEF ThisChunk
  <2>a. Len(ThisChunk(w).units) \in Nat
    BY <2>1, <1>c, <1>e
  <2>4. L2Written(w)' /\ UnitsWritten(w)'
    <3>1. L2Written(w)'
      BY <2>1, <2>3, <1>c DEF L2Written
    <3>2. pc'[w] = "unit" => ThisChunk(w).heading = ""
      BY <2>2
    <3>3. \A k \in 1..Len(ThisChunk(w).units) : ~(k < 1)
      BY <2>a
    <3> QED
      BY <2>1, <2>3, <3>1, <3>2, <3>3 DEF UnitsWritten
  <2>5. ChunksWritten(w)'
    BY <2>1, <2>3, <1>b DEF ChunksWritten, Progress
  <2>6. L1Written(w)' /\ DocWritten(w)' /\ AllWritten(w)' /\ NotStarted(w)' /\ NotAnswered(w)'
    BY <2>1, <2>2 DEF Progress, L1Written, DocWritten, AllWritten, NotStarted, NotAnswered, InL1,
       HasDoc, HasL1, Steps
  <2> QED
    BY <2>1, <2>2, <2>4, <2>5, <2>6, <1>d DEF Progress
<1>7. ASSUME InsertHeading(w) PROVE Progress(w)'
  <2>1. /\ pc[w] = "heading" /\ pc'[w] = "unit" /\ Same /\ answer' = answer
        /\ version' = version /\ l3' = l3 \cup {<<w, c, 0>>} /\ l2' = l2
    BY <1>7, <1>c DEF InsertHeading, GoTo, local
  <2>2. ThisChunk(w)' = ThisChunk(w) /\ Chunks(w)' = Chunks(w) /\ u = 1
    BY <2>1, <1>b, <1>c DEF ThisChunk, Progress, NotStarted
  <2>a. Len(ThisChunk(w).units) \in Nat
    BY <2>1, <1>c, <1>e DEF Progress, L2Written
  <2>3. L2Written(w)' /\ UnitsWritten(w)'
    BY <2>1, <2>2, <2>a, <1>c DEF L2Written, UnitsWritten, Progress
  <2>4. ChunksWritten(w)'
    BY <2>1, <2>2, <1>b DEF ChunksWritten, Progress
  <2>5. L1Written(w)' /\ DocWritten(w)' /\ AllWritten(w)' /\ NotStarted(w)' /\ NotAnswered(w)'
    BY <2>1 DEF Progress, L1Written, DocWritten, AllWritten, NotStarted, NotAnswered, InL1,
       HasDoc, HasL1, Steps
  <2> QED
    BY <2>1, <2>3, <2>4, <2>5, <1>d DEF Progress
<1>8. ASSUME InsertUnit(w) \/ DropUnit(w) PROVE Progress(w)'
  <2>1. /\ pc[w] = "unit" /\ pc'[w] = "unit" /\ answer' = answer /\ chunkAt' = chunkAt
        /\ version' = version /\ l1' = l1 /\ l2' = l2
        /\ unitAt' = [unitAt EXCEPT ![w] = u + 1]
    BY <1>8, <1>c DEF InsertUnit, DropUnit, tables
  <2>2. ThisChunk(w)' = ThisChunk(w) /\ Chunks(w)' = Chunks(w)
    BY <2>1, <1>b DEF ThisChunk
  <2>3. UnitStored(w, c, u)'
    <3>1. CASE InsertUnit(w)
      BY <3>1, <2>1, <1>c DEF InsertUnit, UnitStored
    <3>2. CASE DropUnit(w)
      <4>1. IsRepeat(w, u) /\ l3' = l3
        BY <3>2, <1>c DEF DropUnit, tables
      <4>2. UnitStored(w, c, u)
        BY <4>1, <1>c DEF IsRepeat, UnitStored, ThisChunk
      <4> QED
        BY <4>2, <2>1, <1>b
    <3> QED
      BY <1>8, <3>1, <3>2
  <2>4. UnitsWritten(w)'
    <3>1. unitAt'[w] = u + 1
      BY <2>1, <1>c
    <3>2. ASSUME NEW k \in 1..Len(ThisChunk(w).units), k < u + 1
          PROVE  UnitStored(w, c, k)'
      <4>1. k \in Int
        BY <2>1, <1>c, <1>e DEF Progress, L2Written
      <4>2. k < u \/ k = u
        BY <3>2, <4>1, <1>c
      <4>3. CASE k < u
        BY <4>3, <2>1, <1>b, <1>c DEF UnitsWritten, Progress
      <4> QED
        BY <4>2, <4>3, <2>3
    <3>3. ThisChunk(w).heading # "" => <<w, c, 0>> \in l3'
      BY <2>1, <1>c DEF Progress, UnitsWritten, Grows
    <3> QED
      BY <2>1, <2>2, <3>1, <3>2, <3>3, <1>c DEF UnitsWritten
  <2>5. ChunksWritten(w)' /\ L2Written(w)'
    BY <2>1, <2>2, <1>b DEF ChunksWritten, L2Written, Progress
  <2>6. TodoWritten(w)'
    <3>1. CASE todo'[w] = todo[w]
      BY <3>1, <2>1, <1>d DEF Progress
    <3>2. CASE InsertUnit(w) /\ todo'[w] = Append(todo[w], <<w, c, u>>)
      <4>1. \A n \in DOMAIN todo'[w] : todo'[w][n] = <<w, c, u>>
                                       \/ (n \in DOMAIN todo[w] /\ todo'[w][n] = todo[w][n])
        BY <3>2, <1>c
      <4> QED
        BY <3>2, <4>1, <2>1 DEF InsertUnit, TodoWritten, Progress
    <3> QED
      BY <1>8, <3>1, <3>2, <1>c DEF InsertUnit, DropUnit
  <2>7. L1Written(w)' /\ DocWritten(w)' /\ AllWritten(w)' /\ NotStarted(w)' /\ NotAnswered(w)'
    BY <2>1 DEF Progress, L1Written, DocWritten, AllWritten, NotStarted, NotAnswered, InL1,
       HasDoc, HasL1, Steps
  <2> QED
    BY <2>4, <2>5, <2>6, <2>7 DEF Progress
<1>9. ASSUME EndChunk(w) PROVE Progress(w)'
  <2>1. /\ pc[w] = "unit" /\ pc'[w] = "chunk" /\ l1' = l1 /\ l2' = l2 /\ answer' = answer
        /\ todo' = todo /\ version' = version /\ chunkAt'[w] = c + 1
        /\ u > Len(ThisChunk(w).units)
    BY <1>9, <1>c DEF EndChunk, GoTo, tables
  <2>2. ChunkStored(w, c)
    <3>2. Len(ThisChunk(w).units) \in Nat
      BY <2>1, <1>c, <1>e DEF Progress, L2Written
    <3>3. \A k \in 1..Len(ThisChunk(w).units) : k < u
      BY <2>1, <3>2, <1>c
    <3>4. \A k \in 1..Len(ThisChunk(w).units) : UnitStored(w, c, k)
      BY <2>1, <3>3, <1>c DEF Progress, UnitsWritten
    <3> QED
      BY <2>1, <3>4, <1>c DEF ChunkStored, ThisChunk, Progress, UnitsWritten, L2Written
  <2>3. ChunksWritten(w)'
    <3>1. ASSUME NEW i \in 1..Len(Chunks(w)), i < c + 1
          PROVE  ChunkStored(w, i)'
      <4>1. i < c \/ i = c
        BY <3>1, <1>c
      <4> QED
        BY <4>1, <2>1, <2>2, <1>b, <1>c DEF Progress, ChunksWritten
    <3> QED
      BY <3>1, <2>1, <1>b DEF ChunksWritten
  <2>4. L1Written(w)' /\ DocWritten(w)' /\ AllWritten(w)' /\ NotStarted(w)' /\ NotAnswered(w)'
        /\ L2Written(w)' /\ UnitsWritten(w)'
    BY <2>1 DEF Progress, L1Written, DocWritten, AllWritten, NotStarted, NotAnswered, InL1,
       HasDoc, HasL1, Steps, L2Written, UnitsWritten
  <2> QED
    BY <2>1, <2>3, <2>4, <1>d DEF Progress
<1>10. ASSUME EndRows(w) PROVE Progress(w)'
  <2>1. /\ pc[w] = "chunk" /\ pc'[w] = "point1" /\ Same /\ answer' = answer /\ version' = version
        /\ c > Len(Chunks(w))
    BY <1>10, <1>c DEF EndRows, GoTo, tables, local
  <2>2. Len(Chunks(w)) \in Nat
    BY <2>1, <1>e
  <2>3. AllWritten(w)'
    BY <2>1, <2>2, <1>b, <1>c DEF AllWritten, Progress, ChunksWritten
  <2> QED
    BY <2>1, <2>3, <1>a, <1>d DEF Progress, NotAnswered, DocWritten, L1Written, L2Written,
       ChunksWritten, UnitsWritten, NotStarted, HasDoc, HasL1, Steps
<1>11. ASSUME PutL1(w) \/ SkipL1(w) \/ PutL3(w) \/ SkipL3(w) \/ Note(w) PROVE Progress(w)'
  <2>1. /\ pc[w] \in {"point1", "point3", "note"} /\ pc'[w] \in {"point3", "note"}
        /\ l1' = l1 /\ l3' = l3 /\ answer' = answer /\ version' = version /\ chunkAt' = chunkAt
    BY <1>11, <1>c DEF PutL1, SkipL1, PutL3, SkipL3, Note, GoTo, tables, local
  <2>2. AllWritten(w)'
    BY <2>1, <1>b DEF AllWritten, Progress
  <2>3. TodoWritten(w)'
    <3>1. CASE PutL1(w) \/ SkipL1(w)
      BY <3>1, <1>c, <1>d DEF PutL1, SkipL1, GoTo, tables, local, Progress
    <3>2. CASE PutL3(w)
      BY <3>2, <1>c DEF PutL3, local, Progress, TodoWritten
    <3>3. CASE SkipL3(w) \/ Note(w)
      <4>1. todo'[w] = Tail(todo[w]) /\ todo[w] # << >> /\ pc'[w] = "point3"
        BY <3>3, <1>c DEF SkipL3, Note, GoTo
      <4>2. \A n \in DOMAIN Tail(todo[w]) : n + 1 \in DOMAIN todo[w]
                                            /\ Tail(todo[w])[n] = todo[w][n + 1]
        BY <4>1, <1>c
      <4> QED
        BY <4>1, <4>2, <2>1 DEF Progress, TodoWritten
    <3> QED
      BY <1>11, <3>1, <3>2, <3>3
  <2> QED
    BY <2>1, <2>2, <2>3 DEF Progress, NotAnswered, DocWritten, L1Written, L2Written, InL1,
       ChunksWritten, UnitsWritten, NotStarted, HasDoc, HasL1, Steps
<1> QED
  BY <1>1, <1>2, <1>3, <1>4, <1>5, <1>6, <1>7, <1>8, <1>9, <1>10, <1>11 DEF Write

-----------------------------------------------------------------------------
(* The invariant.                                                          *)

\* Every step keeps points above rows and rows above rows.
LEMMA RowsStep ==
  ASSUME IInv, TypeOK', Grows, [Next]_vars
  PROVE  PointsHaveRows'
<1> USE SinkAssumption
<1>1. ASSUME l1' = l1
      PROVE  \A w : InL1(w)' <=> InL1(w)
  BY <1>1 DEF InL1
<1>2. CASE UNCHANGED tables
  BY <1>1, <1>2 DEF tables, IInv, PointsHaveRows
<1>3. ASSUME NEW w \in Writes, Write(w) PROVE PointsHaveRows'
  <2> Progress(w)
    BY DEF IInv
  <2>1. CASE UpsertDoc(w)
    <3>1. \A k \in DOMAIN l1 : l1[k] \in Writes
      BY DEF IInv, TypeOK
    <3>2. \A k \in DOMAIN l1 : version'[MidOf[l1[k]]] > 0
      BY <3>1 DEF IInv, PointsHaveRows, Grows
    <3> QED
      BY <2>1, <1>1, <3>2 DEF UpsertDoc, IInv, PointsHaveRows
  <2>2. CASE InsertL1(w)
    <3>1. /\ version[MidOf[w]] > 0 /\ version' = version /\ l1' = Append(l1, w)
          /\ points1' = points1 /\ points3' = points3 /\ noted' = noted /\ l2' = l2 /\ l3' = l3
      BY <2>2 DEF InsertL1, Progress, DocWritten, HasDoc, Steps
    <3>2. l1 \in Seq(Writes)
      BY DEF IInv, TypeOK
    <3>3. \A k \in DOMAIN l1' : l1'[k] = w \/ (k \in DOMAIN l1 /\ l1'[k] = l1[k])
      BY <3>1, <3>2
    <3>4. \A k \in DOMAIN l1 : k \in DOMAIN l1' /\ l1'[k] = l1[k]
      BY <3>1, <3>2
    <3>5. \A e \in l2 : InL1(e[1])'
      BY <3>4 DEF InL1, IInv, PointsHaveRows
    <3>6. points1 \subseteq {l1'[k] : k \in DOMAIN l1'}
      BY <3>4 DEF IInv, PointsHaveRows
    <3>7. \A k \in DOMAIN l1' : version[MidOf[l1'[k]]] > 0
      BY <3>1, <3>3 DEF IInv, PointsHaveRows
    <3> QED
      BY <3>1, <3>5, <3>6, <3>7 DEF IInv, PointsHaveRows
  <2>3. CASE SetCurrent(w)
    BY <2>3, <1>1 DEF SetCurrent, IInv, PointsHaveRows
  <2>4. CASE InsertL2(w)
    <3>1. InL1(w)
      BY <2>4 DEF InsertL2, Progress, L1Written, HasL1, HasDoc, Steps
    <3>2. l2' = l2 \cup {<<w, chunkAt[w]>>} /\ l1' = l1 /\ l3' = l3
      BY <2>4 DEF InsertL2
    <3>3. \A e \in l2' : InL1(e[1])'
      BY <1>1, <3>1, <3>2 DEF IInv, PointsHaveRows
    <3>4. \A e \in l3' : <<e[1], e[2]>> \in l2'
      BY <3>2 DEF IInv, PointsHaveRows
    <3> QED
      BY <2>4, <3>2, <3>3, <3>4 DEF InsertL2, IInv, PointsHaveRows
  <2>5. CASE InsertHeading(w)
    <3>1. <<w, chunkAt[w]>> \in l2
      BY <2>5 DEF InsertHeading, Progress, L2Written
    <3>2. l3' = l3 \cup {<<w, chunkAt[w], 0>>} /\ l2' = l2
      BY <2>5 DEF InsertHeading
    <3>3. ASSUME NEW e \in l3' PROVE <<e[1], e[2]>> \in l2'
      <4>1. CASE e \in l3
        BY <4>1, <3>2 DEF IInv, PointsHaveRows
      <4>2. CASE e = <<w, chunkAt[w], 0>>
        <5>1. e[1] = w /\ e[2] = chunkAt[w]
          BY <4>2
        <5> QED
          BY <5>1, <3>1, <3>2
      <4> QED
        BY <4>1, <4>2, <3>2
    <3> QED
      BY <2>5, <1>1, <3>2, <3>3 DEF InsertHeading, IInv, PointsHaveRows
  <2>6. CASE InsertUnit(w)
    <3>1. <<w, chunkAt[w]>> \in l2
      BY <2>6 DEF InsertUnit, Progress, L2Written
    <3> QED
      BY <2>6, <1>1, <3>1 DEF InsertUnit, IInv, PointsHaveRows
  <2>7. CASE PutL1(w)
    <3>1. w \in {l1[k] : k \in DOMAIN l1}
      BY <2>7 DEF PutL1, Progress, L1Written, InL1, HasL1, HasDoc, Steps
    <3> QED
      BY <2>7, <1>1, <3>1 DEF PutL1, IInv, PointsHaveRows
  <2>8. CASE PutL3(w)
    <3>1. todo[w] \in Seq(L3Rows) /\ todo[w] # << >>
      BY <2>8 DEF PutL3, IInv, TypeOK
    <3>2. Head(todo[w]) \in l3
      BY <3>1 DEF Progress, TodoWritten
    <3> QED
      BY <2>8, <1>1, <3>2 DEF PutL3, IInv, PointsHaveRows
  <2>9. CASE Note(w)
    BY <2>9, <1>1 DEF Note, IInv, PointsHaveRows, Progress, TodoWritten
  <2>10. CASE UNCHANGED tables
    BY <1>2, <2>10
  <2> QED
    BY <1>3, <2>1, <2>2, <2>3, <2>4, <2>5, <2>6, <2>7, <2>8, <2>9, <2>10 DEF Write,
       SkipByTitle, MissTitle, SkipByHead, MissHead, DropUnit, EndChunk, EndRows, SkipL1,
       SkipL3, Finish, Fail, tables
<1> QED
  BY <1>2, <1>3 DEF Next, Begin, Crash, vars

\* Every step keeps the invariant.
LEMMA StepInv == IInv /\ [Next]_vars => IInv'
<1> SUFFICES ASSUME IInv, [Next]_vars PROVE IInv'
  OBVIOUS
<1>1. TypeOK /\ TypeOK' /\ Grows
  BY TypeStep, OnlyGrows DEF IInv
<1>2. PointsHaveRows'
  BY <1>1, RowsStep
<1>3. \A v \in Writes : Progress(v)'
  <2>1. ASSUME NEW w \in Writes, Begin(w) \/ Write(w), NEW v \in Writes
        PROVE  Progress(v)'
    <3>1. Progress(v)
      BY DEF IInv
    <3> QED
      BY <1>1, <2>1, <3>1, OthersStand, ActorAdvances
  <2>2. ASSUME Crash \/ UNCHANGED vars, NEW v \in Writes
        PROVE  Progress(v)'
    <3>1. /\ pc'[v] = pc[v] \/ pc'[v] \in {"done", "dead"}
          /\ chunkAt' = chunkAt /\ unitAt' = unitAt /\ todo' = todo /\ l1' = l1
          /\ answer' = answer
          /\ pc[v] = "done" <=> pc'[v] = "done"
      <4>1. CASE UNCHANGED vars
        BY <4>1 DEF vars, tables, local
      <4>2. CASE Crash
        <5>1. pc'[v] = IF pc[v] \in Steps THEN "dead" ELSE pc[v]
          BY <4>2 DEF Crash, Active
        <5>2. "done" \notin Steps
          BY DEF Steps
        <5> QED
          BY <4>2, <5>1, <5>2 DEF Crash, tables, local
      <4> QED
        BY <2>2, <4>1, <4>2
    <3>2. NotAnswered(v)' /\ (InL1(v)' => InL1(v))
      BY <3>1 DEF NotAnswered, InL1, IInv, Progress
    <3>3. Progress(v)
      BY DEF IInv
    <3> QED
      BY <1>1, <3>1, <3>2, <3>3, StandingProgress
  <2> QED
    BY <2>1, <2>2 DEF Next
<1>4. FullAnswerStored'
  <2> SUFFICES ASSUME NEW v \in Writes, answer'[v].via = "full" PROVE Stored(v)'
    BY DEF FullAnswerStored
  <2>1. answer[v].via = "full" \/ Finish(v)
    <3>1. CASE answer' = answer
      BY <3>1
    <3>2. ASSUME NEW w \in Writes, Write(w), answer' # answer
          PROVE  answer[v].via = "full" \/ Finish(v)
      <4>1. SkipByTitle(w) \/ SkipByHead(w) \/ Finish(w) \/ Fail(w)
        BY <3>2 DEF Write, MissTitle, MissHead, UpsertDoc, InsertL1, SetCurrent, InsertL2,
           InsertHeading, InsertUnit, DropUnit, EndChunk, EndRows, PutL1, SkipL1, PutL3, SkipL3,
           Note
      <4>2. answer \in [Writes -> Answers]
        BY <1>1 DEF TypeOK
      <4>3. CASE Finish(w)
        BY <4>2, <4>3 DEF Finish, Answer
      <4>4. CASE SkipByTitle(w)
        <5>1. PICK k \in DOMAIN l1 : Answer(w, "title", MidOf[l1[k]])
          BY <4>4 DEF SkipByTitle
        <5> QED
          BY <4>2, <5>1 DEF Answer
      <4>5. CASE SkipByHead(w)
        BY <4>2, <4>5 DEF SkipByHead, Answer
      <4>6. CASE Fail(w)
        BY <4>2, <4>6 DEF Fail, Answer
      <4> QED
        BY <4>1, <4>3, <4>4, <4>5, <4>6
    <3> QED
      BY <3>1, <3>2 DEF Next, Begin, Crash, vars
  <2>2. CASE answer[v].via = "full"
    <3>1. pc[v] # "idle" /\ Stored(v)
      BY <2>2 DEF IInv, FullAnswerStored, Progress, NotAnswered
    <3> QED
      BY <1>1, <3>1, StoredStays
  <2>3. CASE Finish(v)
    <3>1. pc[v] = "point3"
      BY <2>3 DEF Finish
    <3>2. Stored(v)
      BY <3>1 DEF IInv, Progress, DocWritten, L1Written, AllWritten, Stored, HasL1, HasDoc, Steps
    <3> QED
      BY <1>1, <3>1, <3>2, StoredStays
  <2> QED
    BY <2>1, <2>2, <2>3
<1> QED
  BY <1>1, <1>2, <1>3, <1>4 DEF IInv

\* The invariant holds in every reachable state.
LEMMA InvHolds == Spec => []IInv
  BY InitInv, StepInv, PTL DEF Spec

\* TypeOK for every number of calls and every content.
THEOREM TypeCorrect == Spec => []TypeOK
  BY InvHolds, PTL DEF IInv

\* A full pass that answered ok has stored every row, whatever failed or ran
\* beside it.
THEOREM FullAnswers == Spec => []FullAnswerStored
  BY InvHolds, PTL DEF IInv

\* Every point in Qdrant leads to its rows, at every moment.
THEOREM PointsResolve == Spec => []PointsHaveRows
  BY InvHolds, PTL DEF IInv

-----------------------------------------------------------------------------
(* Calls one after the other.                                              *)

Serial == ~Concurrent /\ "pgread" \notin Faults

\* A step other than an L1 insert leaves the revisions as they are.
LEMMA RevisionsStay ==
  ASSUME IInv, [Next]_vars, l1' = l1
  PROVE  \A k \in DOMAIN l1 : req'[l1[k]] = req[l1[k]]
<1>1. Grows
  BY OnlyGrows DEF IInv
<1>2. ASSUME NEW k \in DOMAIN l1 PROVE l1[k] \in Writes /\ pc[l1[k]] # "idle"
  BY DEF IInv, TypeOK, Progress, L1Written, InL1
<1> QED
  BY <1>1, <1>2 DEF Grows

\* Only the insert of an L1 row changes the list of revisions.
LEMMA OnlyInsertL1 ==
  ASSUME [Next]_vars
  PROVE  l1' = l1 \/ \E w \in Writes : InsertL1(w)
BY DEF Next, Write, Begin, Crash, vars, SkipByTitle, MissTitle, SkipByHead, MissHead, UpsertDoc,
   SetCurrent, InsertL2, InsertHeading, InsertUnit, DropUnit, EndChunk, EndRows, PutL1, SkipL1,
   PutL3, SkipL3, Note, Finish, Fail, tables

\* One call at a time stays one call at a time.
LEMMA OneActiveStep ==
  ASSUME Serial, IInv, IInv', OneActive, [Next]_vars
  PROVE  OneActive'
<1> SUFFICES ASSUME NEW v \in Writes, NEW w \in Writes, pc'[v] \in Steps, pc'[w] \in Steps
             PROVE  v = w
  BY DEF OneActive, Active
<1>0. pc \in [Writes -> Steps \cup {"idle", "done", "dead"}]
  BY DEF IInv, TypeOK
<1>1. ASSUME NEW u \in Writes, Begin(u) PROVE v = w
  BY <1>0, <1>1 DEF Begin, GoTo, Active, Serial
<1>2. ASSUME NEW u \in Writes, Write(u) PROVE v = w
  <2>1. pc[u] \in Steps /\ \A x \in Writes : x # u => pc'[x] = pc[x]
    BY <1>0, <1>2 DEF Write, SkipByTitle, MissTitle, SkipByHead, MissHead, UpsertDoc, InsertL1,
       SetCurrent, InsertL2, InsertHeading, InsertUnit, DropUnit, EndChunk, EndRows, PutL1,
       SkipL1, PutL3, SkipL3, Note, Finish, Fail, GoTo, Answer, Steps
  <2>2. pc[v] \in Steps /\ pc[w] \in Steps
    BY <2>1
  <2> QED
    BY <2>2 DEF OneActive, Active
<1>3. CASE Crash
  BY <1>3 DEF Crash, Active, Steps
<1>4. CASE UNCHANGED vars
  BY <1>4 DEF vars, OneActive, Active
<1> QED
  BY <1>1, <1>2, <1>3, <1>4 DEF Next

\* A new L1 row does not repeat the newest one of its title.
LEMMA InsertL1Serial ==
  ASSUME IInv, SerialInv, NEW w \in Writes, InsertL1(w)
  PROVE  NoDuplicates' /\ NewestExists'
<1>0. PICK n : n = Len(l1) + 1
  OBVIOUS
<1>1. /\ l1 \in Seq(Writes) /\ l1' = Append(l1, w) /\ req' = req
      /\ pc[w] = "l1"
  BY DEF IInv, TypeOK, InsertL1, local
<1>2. /\ Len(l1) \in Nat /\ DOMAIN l1 = 1..Len(l1) /\ DOMAIN l1' = 1..n
      /\ \A k \in DOMAIN l1 : l1'[k] = l1[k]
      /\ l1'[n] = w /\ n = Len(l1) + 1
  BY <1>0, <1>1
<1>3. \A k \in DOMAIN l1 : ~TitleIsAt(w, k)
  BY <1>1 DEF SerialInv, StillNew
<1>4. NoDuplicates'
  <2> SUFFICES ASSUME NEW j \in DOMAIN l1', NEW k \in DOMAIN l1', j < k, req'[l1'[j]] = req'[l1'[k]]
               PROVE  \E m \in (j + 1)..(k - 1) :
                        /\ req'[l1'[m]].title = req'[l1'[j]].title
                        /\ req'[l1'[m]].content # req'[l1'[j]].content
    BY DEF NoDuplicates
  <2>0. j \in 1..n /\ k \in 1..n /\ req' = req
    BY <1>1, <1>2
  <2>1. CASE k <= Len(l1)
    <3>1. j \in DOMAIN l1 /\ k \in DOMAIN l1
      BY <2>0, <2>1, <1>2
    <3>2. req[l1[j]] = req[l1[k]]
      BY <2>0, <3>1, <1>2
    <3>3. PICK m \in (j + 1)..(k - 1) : /\ req[l1[m]].title = req[l1[j]].title
                                       /\ req[l1[m]].content # req[l1[j]].content
      BY <3>1, <3>2 DEF SerialInv, NoDuplicates
    <3>4. m \in DOMAIN l1
      BY <3>3, <2>1, <1>2
    <3> QED
      BY <2>0, <3>1, <3>3, <3>4, <1>2
  <2>2. CASE k = n
    <3>1. j \in DOMAIN l1 /\ req[l1[j]] = req[w]
      BY <2>0, <2>2, <1>2
    <3>2. PICK m \in DOMAIN l1 : m >= j /\ Newest(m, req[l1[j]].title)
      BY <3>1 DEF SerialInv, NewestExists
    <3>3. req[l1[m]].title = req[l1[j]].title /\ req[l1[m]].content # req[l1[j]].content
      BY <3>1, <3>2, <1>3 DEF TitleIsAt, Newest
    <3>4. m # j
      BY <3>3
    <3>5. m \in (j + 1)..(k - 1)
      BY <3>1, <3>2, <3>4, <2>2, <1>2
    <3> QED
      BY <2>0, <3>1, <3>3, <3>5, <1>2
  <2> QED
    BY <2>0, <2>1, <2>2, <1>2
<1>5. NewestExists'
  <2> SUFFICES ASSUME NEW j \in 1..n
               PROVE  \E k \in 1..n : k >= j /\ Newest(k, req[l1[j]].title)'
    BY <1>1, <1>2 DEF NewestExists
  <2>1. CASE req[l1'[j]].title = req[w].title
    <3>1. \A i \in 1..n : ~(i > n)
      BY <1>2
    <3>2. Newest(n, req[l1[j]].title)'
      BY <2>1, <3>1, <1>1, <1>2 DEF Newest
    <3>3. n \in 1..n /\ n >= j
      BY <1>2
    <3> QED
      BY <3>2, <3>3
  <2>2. CASE req[l1'[j]].title # req[w].title
    <3>1. j \in DOMAIN l1
      BY <2>2, <1>2
    <3>2. PICK k \in DOMAIN l1 : k >= j /\ Newest(k, req[l1[j]].title)
      BY <3>1 DEF SerialInv, NewestExists
    <3>3. \A i \in 1..n : i > k => req[l1'[i]].title # req[l1[j]].title
      <4> TAKE i \in 1..n
      <4>1. CASE i = n
        BY <4>1, <2>2, <3>1, <1>2
      <4>2. CASE i # n
        <5>1. i \in DOMAIN l1
          BY <4>2, <1>2
        <5> QED
          BY <5>1, <3>2, <1>2 DEF Newest
      <4> QED
        BY <4>1, <4>2
    <3>4. Newest(k, req[l1[j]].title)'
      BY <3>1, <3>2, <3>3, <1>1, <1>2 DEF Newest
    <3>5. k \in 1..n
      BY <3>2, <1>2
    <3> QED
      BY <3>2, <3>4, <3>5
  <2> QED
    BY <2>1, <2>2
<1> QED
  BY <1>4, <1>5

\* Every step of a serial run keeps the serial invariant.
LEMMA SerialStep == Serial /\ IInv /\ IInv' /\ SerialInv /\ [Next]_vars => SerialInv'
<1> SUFFICES ASSUME Serial, IInv, IInv', SerialInv, [Next]_vars PROVE SerialInv'
  OBVIOUS
<1>1. OneActive'
  BY OneActiveStep DEF SerialInv
<1>2. NoDuplicates' /\ NewestExists'
  <2>1. CASE l1' = l1
    <3>1. \A k \in DOMAIN l1 : req'[l1[k]] = req[l1[k]]
      BY <2>1, RevisionsStay
    <3>2. \A k \in DOMAIN l1 : \A j, t : req'[l1[j]] = req[l1[j]] => (Newest(k, t)' <=> Newest(k, t))
      BY <2>1, <3>1 DEF Newest
    <3>3. NewestExists'
      BY <2>1, <3>1, <3>2 DEF SerialInv, NewestExists
    <3>4. NoDuplicates'
      <4>1. l1 \in Seq(Writes)
        BY DEF IInv, TypeOK
      <4>2. \A j, k \in DOMAIN l1 : \A m \in (j + 1)..(k - 1) : m \in DOMAIN l1
        BY <4>1
      <4> QED
        BY <2>1, <3>1, <4>2 DEF SerialInv, NoDuplicates
    <3> QED
      BY <3>3, <3>4
  <2>2. CASE l1' # l1
    BY <2>2, OnlyInsertL1, InsertL1Serial
  <2> QED
    BY <2>1, <2>2
<1>3. ASSUME NEW v \in Writes, pc'[v] \in {"machine", "upsert", "l1"}
      PROVE  \A k \in DOMAIN l1' : ~TitleIsAt(v, k)'
  <2>0. pc \in [Writes -> Steps \cup {"idle", "done", "dead"}]
    BY DEF IInv, TypeOK
  <2>1. CASE MissTitle(v)
    BY <2>1 DEF MissTitle, Serial, TitleIsAt, Newest, tables, local
  <2>2. CASE ~MissTitle(v)
    <3>1. pc[v] \in {"machine", "upsert", "l1"}
      <4>1. ASSUME NEW w \in Writes, Begin(w) \/ Write(w)
            PROVE  pc[v] \in {"machine", "upsert", "l1"}
        BY <4>1, <1>3, <2>0, <2>2 DEF Begin, Write, SkipByTitle, MissTitle, SkipByHead, MissHead,
           UpsertDoc, InsertL1, SetCurrent, InsertL2, InsertHeading, InsertUnit, DropUnit,
           EndChunk, EndRows, PutL1, SkipL1, PutL3, SkipL3, Note, Finish, Fail, GoTo, Answer
      <4>2. CASE Crash \/ UNCHANGED vars
        BY <4>2, <1>3 DEF Crash, vars
      <4> QED
        BY <4>1, <4>2 DEF Next
    <3>2. v \in Active
      BY <3>1 DEF Active, Steps
    <3>3. l1' = l1
      <4>1. ASSUME NEW w \in Writes, InsertL1(w) PROVE FALSE
        <5>1. w = v
          BY <4>1, <3>2 DEF InsertL1, Active, Steps, SerialInv, OneActive
        <5> QED
          BY <4>1, <5>1, <1>3, <2>0 DEF InsertL1, GoTo
      <4> QED
        BY <4>1, OnlyInsertL1
    <3>4. req' = req
      <4>1. ASSUME NEW w \in Writes, Begin(w) PROVE FALSE
        BY <4>1, <3>2 DEF Begin, Serial
      <4> QED
        BY <4>1 DEF Next, Write, Crash, vars, SkipByTitle, MissTitle, SkipByHead, MissHead,
           UpsertDoc, InsertL1, SetCurrent, InsertL2, InsertHeading, InsertUnit, DropUnit,
           EndChunk, EndRows, PutL1, SkipL1, PutL3, SkipL3, Note, Finish, Fail, local
    <3> QED
      BY <3>1, <3>3, <3>4 DEF SerialInv, StillNew, TitleIsAt, Newest
  <2> QED
    BY <2>1, <2>2
<1> QED
  BY <1>1, <1>2, <1>3 DEF SerialInv, StillNew

\* Init establishes the serial invariant.
LEMMA InitSerial == Init => SerialInv
BY DEF Init, SerialInv, OneActive, Active, Steps, NewestExists, NoDuplicates, StillNew

\* Calls one after the other, whose title query does not fail: an unchanged
\* document makes no second revision, whatever else fails, and whoever crashes.
THEOREM SerialNoDuplicates == ASSUME Serial PROVE Spec => []NoDuplicates
<1>1. IInv /\ SerialInv /\ [Next]_vars => SerialInv'
  BY StepInv, SerialStep
<1> QED
  BY InvHolds, InitSerial, <1>1, PTL DEF Spec, SerialInv

\* A call whose id is its own finds no document under it.
LEMMA OwnIdStep ==
  ASSUME OwnIds, IInv, [Next]_vars, NEW v \in Writes, NoDocYet(v)
  PROVE  NoDocYet(v)'
<1> USE SinkAssumption
<1>1. pc \in [Writes -> Steps \cup {"idle", "done", "dead"}] /\ version \in [Mids -> Nat]
  BY DEF IInv, TypeOK
<1>2. ASSUME NEW w \in Writes, UpsertDoc(w) PROVE NoDocYet(v)'
  <2>1. w # v => MidOf[w] # MidOf[v]
    BY DEF OwnIds
  <2> QED
    BY <1>1, <1>2, <2>1 DEF UpsertDoc, GoTo, NoDocYet
<1>3. ASSUME version' = version PROVE NoDocYet(v)'
  <2>1. ASSUME NEW w \in Writes, Begin(w) \/ Write(w), ~UpsertDoc(w)
        PROVE  pc'[v] \in {"idle", "title", "machine", "upsert"}
               => pc[v] \in {"idle", "title", "machine", "upsert"}
    BY <1>1, <2>1 DEF Begin, Write, SkipByTitle, MissTitle, SkipByHead, MissHead, InsertL1,
       SetCurrent, InsertL2, InsertHeading, InsertUnit, DropUnit, EndChunk, EndRows, PutL1,
       SkipL1, PutL3, SkipL3, Note, Finish, Fail, GoTo, Answer
  <2>2. ASSUME Crash \/ UNCHANGED vars
        PROVE  pc'[v] \in {"idle", "title", "machine", "upsert"}
               => pc[v] \in {"idle", "title", "machine", "upsert"}
    BY <2>2 DEF Crash, vars
  <2> QED
    BY <1>2, <1>3, <2>1, <2>2 DEF NoDocYet, Next
<1> QED
  BY <1>2, <1>3 DEF Next, Write, Begin, Crash, vars, SkipByTitle, MissTitle, SkipByHead, MissHead,
     InsertL1, SetCurrent, InsertL2, InsertHeading, InsertUnit, DropUnit, EndChunk, EndRows,
     PutL1, SkipL1, PutL3, SkipL3, Note, Finish, Fail, tables

\* Each step of a serial run is a step of the revision log, or none.
LEMMA StepRefines ==
  ASSUME Serial, IInv, IInv', SerialInv, \A w \in Writes : NoDocYet(w), [Next]_vars
  PROVE  [Promise!Next]_<<l1, req, told>>
<1> USE SinkAssumption
<1>1. CASE l1' = l1 /\ req' = req /\ answer' = answer
  BY <1>1 DEF told
<1>2. ASSUME NEW w \in Writes, Begin(w) PROVE Promise!Ask(w)
  <2>1. req[w] = NoRequest
    BY <1>2 DEF Begin, IInv, TypeOK
  <2>2. l1' = l1 /\ told' = told /\ \E r \in Request : req' = [req EXCEPT ![w] = r]
    BY <1>2 DEF Begin, tables, told
  <2> QED
    BY <2>1, <2>2 DEF Promise!Ask
<1>3. ASSUME NEW w \in Writes, InsertL1(w) PROVE Promise!Publish(w)
  <2>1. pc[w] = "l1" /\ l1' = Append(l1, w) /\ req' = req /\ told' = told
    BY <1>3 DEF InsertL1, local, told
  <2>2. req[w] # NoRequest /\ told[w] = "nothing" /\ ~InL1(w)
    BY <2>1 DEF IInv, TypeOK, Progress, L1Written, NotAnswered, told, Told
  <2>3. ~Promise!UpToDate(w)
    BY <2>1 DEF SerialInv, StillNew, TitleIsAt, Newest, Promise!UpToDate, Promise!Newest
  <2> QED
    BY <2>1, <2>2, <2>3 DEF Promise!Publish, InL1
<1>4. ASSUME NEW w \in Writes, SkipByTitle(w) \/ SkipByHead(w) \/ Finish(w) \/ Fail(w)
      PROVE  Promise!Tell(w)
  <2>1. /\ l1' = l1 /\ req' = req /\ pc[w] \in {"title", "machine", "point3"} \cup Steps
        /\ answer \in [Writes -> Answers]
    BY <1>4 DEF SkipByTitle, SkipByHead, Finish, Fail, tables, local, IInv, TypeOK, Steps
  <2>2. req[w] # NoRequest /\ told[w] = "nothing"
    BY <2>1 DEF IInv, TypeOK, Progress, NotAnswered, told, Told, Steps
  <2>3. ASSUME NEW via \in {"title", "head", "full", "error"}, NEW doc,
               answer' = [answer EXCEPT ![w] = [via |-> via, doc |-> doc]]
        PROVE  told' = [told EXCEPT ![w] = Told([via |-> via, doc |-> doc])]
    <3>1. answer'[w] = [via |-> via, doc |-> doc] /\ \A v \in Writes : v # w => answer'[v] = answer[v]
      BY <2>1, <2>3
    <3>2. told' = [v \in Writes |-> Told(answer'[v])]
      BY DEF told, Told
    <3> QED
      BY <3>1, <3>2 DEF told
  <2>4. CASE SkipByTitle(w)
    <3>1. PICK k \in DOMAIN l1 : TitleIsAt(w, k) /\ Answer(w, "title", MidOf[l1[k]])
      BY <2>4 DEF SkipByTitle
    <3>2. Promise!UpToDate(w)
      BY <3>1 DEF TitleIsAt, Newest, Promise!UpToDate, Promise!Newest
    <3>3. told' = [told EXCEPT ![w] = "same"]
      BY <2>3, <3>1 DEF Answer, Told
    <3> QED
      BY <2>1, <2>2, <3>2, <3>3 DEF Promise!Tell
  <2>5. CASE SkipByHead(w)
    BY <2>5 DEF SkipByHead, HeadIsThere, NoDocYet
  <2>6. CASE Finish(w)
    <3>1. InL1(w)
      BY <2>6 DEF Finish, IInv, Progress, L1Written, HasL1, HasDoc, Steps
    <3>2. told' = [told EXCEPT ![w] = "new"]
      BY <2>3, <2>6 DEF Finish, Answer, Told
    <3> QED
      BY <2>1, <2>2, <3>1, <3>2 DEF Promise!Tell, InL1
  <2>7. CASE Fail(w)
    <3>1. told' = [told EXCEPT ![w] = "failed"]
      BY <2>3, <2>7 DEF Fail, Answer, Told
    <3> QED
      BY <2>1, <2>2, <3>1 DEF Promise!Tell
  <2> QED
    BY <1>4, <2>4, <2>5, <2>6, <2>7
<1> QED
  BY <1>1, <1>2, <1>3, <1>4 DEF Next, Write, Crash, vars, MissTitle, MissHead, UpsertDoc,
     SetCurrent, InsertL2, InsertHeading, InsertUnit, DropUnit, EndChunk, EndRows, PutL1,
     SkipL1, PutL3, SkipL3, Note, tables, local, Promise!Next

\* Calls one after the other, each with an id of its own, implement the
\* revision log.
THEOREM KeepsPromise == ASSUME Serial, OwnIds PROVE Spec => PromiseKept
<1>1. Init => Promise!Init
  BY DEF Init, Promise!Init, told, Told
<1>2. Init => \A v \in Writes : NoDocYet(v)
  BY SinkAssumption DEF Init, NoDocYet
<1>3. IInv /\ (\A v \in Writes : NoDocYet(v)) /\ [Next]_vars => (\A v \in Writes : NoDocYet(v))'
  BY OwnIdStep
<1>4. IInv /\ SerialInv /\ [Next]_vars => SerialInv'
  BY StepInv, SerialStep
<1>5. IInv /\ IInv' /\ SerialInv /\ (\A v \in Writes : NoDocYet(v)) /\ [Next]_vars
      => [Promise!Next]_<<l1, req, told>>
  BY StepRefines
<1> QED
  BY InvHolds, InitSerial, <1>1, <1>2, <1>3, <1>4, <1>5, PTL DEF Spec, PromiseKept, Promise!Spec

-----------------------------------------------------------------------------
(* The revisions a document and an answer name.                            *)

\* Revisions keep their place and their content.
LEMMA RevisionsKeep ==
  ASSUME IInv, [Next]_vars
  PROVE  /\ \A k \in DOMAIN l1 : /\ k \in DOMAIN l1' /\ l1'[k] = l1[k]
                                 /\ l1[k] \in Writes /\ req'[l1[k]] = req[l1[k]]
         /\ \A w \in Writes : InL1(w) => InL1(w)'
<1>1. Grows /\ l1 \in Seq(Writes)
  BY OnlyGrows DEF IInv, TypeOK
<1>2. \A k \in DOMAIN l1 : l1[k] \in Writes /\ pc[l1[k]] # "idle"
  BY <1>1 DEF IInv, TypeOK, Progress, L1Written, InL1
<1>3. \A k \in DOMAIN l1 : k \in DOMAIN l1' /\ l1'[k] = l1[k]
  <2>1. ASSUME NEW w \in Writes, InsertL1(w) PROVE l1' = Append(l1, w)
    BY <2>1 DEF InsertL1
  <2>2. ASSUME NEW w \in Writes, l1' = Append(l1, w), NEW k \in DOMAIN l1
        PROVE  k \in DOMAIN l1' /\ l1'[k] = l1[k]
    BY <1>1, <2>2
  <2> QED
    BY <2>1, <2>2, OnlyInsertL1
<1> QED
  BY <1>1, <1>2, <1>3 DEF Grows

\* current_l1_id is set to the row just inserted, or stays.
LEMMA CurrentStep ==
  ASSUME IInv, IInv', RevisionsBelong, [Next]_vars, NEW m \in Mids, current'[m] # NoRow
  PROVE  InL1(current[m])' /\ MidOf[current'[m]] = m
<1> USE SinkAssumption
<1>1. current \in [Mids -> Writes \cup {NoRow}] /\ pc \in [Writes -> Steps \cup {"idle", "done", "dead"}]
  BY DEF IInv, TypeOK
<1>2. CASE current' = current
  <2>1. InL1(current[m]) /\ MidOf[current[m]] = m /\ current[m] \in Writes
    BY <1>1, <1>2 DEF RevisionsBelong
  <2>2. InL1(current[m]) => \E k \in DOMAIN l1' : l1'[k] = current[m]
    BY <2>1, RevisionsKeep DEF InL1
  <2> QED
    BY <1>2, <2>1, <2>2 DEF InL1
<1>3. ASSUME NEW w \in Writes, SetCurrent(w) PROVE InL1(current[m])' /\ MidOf[current'[m]] = m
  <2>1. current' = [current EXCEPT ![MidOf[w]] = w] /\ l1' = l1 /\ pc[w] = "current"
    BY <1>3 DEF SetCurrent
  <2>2. CASE m = MidOf[w]
    <3>1. InL1(w)
      BY <2>1 DEF IInv, Progress, L1Written, HasL1, HasDoc, Steps
    <3>2. current'[m] = w
      BY <1>1, <2>1, <2>2
    <3> QED
      BY <2>1, <2>2, <3>1, <3>2 DEF InL1
  <2>3. CASE m # MidOf[w]
    <3>1. current'[m] = current[m]
      BY <1>1, <2>1, <2>3
    <3> QED
      BY <2>1, <3>1 DEF RevisionsBelong, InL1
  <2> QED
    BY <2>2, <2>3
<1> QED
  BY <1>2, <1>3 DEF Next, Write, Begin, Crash, vars, SkipByTitle, MissTitle, SkipByHead, MissHead,
     UpsertDoc, InsertL1, InsertL2, InsertHeading, InsertUnit, DropUnit, EndChunk, EndRows, PutL1,
     SkipL1, PutL3, SkipL3, Note, Finish, Fail, tables

\* The document of a skip has a revision of the content asked for.
LEMMA SkipStep ==
  ASSUME IInv, RevisionsBelong, [Next]_vars, NEW v \in Writes,
         answer'[v].via \in {"title", "head"}
  PROVE  \E k \in DOMAIN l1' : /\ MidOf[l1'[k]] = answer'[v].doc
                               /\ req'[l1'[k]].content = req'[v].content
<1> USE SinkAssumption
<1>1. /\ answer \in [Writes -> Answers] /\ Grows
      /\ \A k \in DOMAIN l1 : /\ k \in DOMAIN l1' /\ l1'[k] = l1[k]
                              /\ l1[k] \in Writes /\ req'[l1[k]] = req[l1[k]]
  BY RevisionsKeep, OnlyGrows DEF IInv, TypeOK
<1>2. CASE answer'[v] = answer[v]
  <2>1. pc[v] # "idle"
    BY <1>2 DEF IInv, Progress, NotAnswered
  <2>2. req'[v] = req[v]
    BY <1>1, <2>1 DEF Grows
  <2>3. PICK k \in DOMAIN l1 : MidOf[l1[k]] = answer[v].doc /\ req[l1[k]].content = req[v].content
    BY <1>2 DEF RevisionsBelong
  <2> QED
    BY <1>1, <1>2, <2>2, <2>3
<1>3. CASE SkipByTitle(v)
  <2>1. PICK k \in DOMAIN l1 : TitleIsAt(v, k) /\ Answer(v, "title", MidOf[l1[k]])
    BY <1>3 DEF SkipByTitle
  <2>2. answer'[v].doc = MidOf[l1[k]] /\ req' = req
    BY <1>1, <1>3, <2>1 DEF Answer, SkipByTitle, local
  <2> QED
    BY <1>1, <2>1, <2>2 DEF TitleIsAt
<1>4. CASE SkipByHead(v)
  <2>1. answer'[v].doc = MidOf[v] /\ req' = req /\ HeadIsThere(v)
    BY <1>1, <1>4 DEF SkipByHead, Answer, local
  <2>2. PICK u \in Writes : IsHead(u, MidOf[v]) /\ req[u].content = req[v].content
    BY <2>1 DEF HeadIsThere
  <2>3. PICK k \in DOMAIN l1 : l1[k] = u /\ MidOf[u] = MidOf[v]
    <3>1. CASE current[MidOf[v]] # NoRow
      <4>1. MidOf[v] \in Mids
        OBVIOUS
      <4>2. u = current[MidOf[v]] /\ InL1(u) /\ MidOf[u] = MidOf[v]
        BY <2>2, <3>1, <4>1 DEF IsHead, RevisionsBelong
      <4> QED
        BY <4>2 DEF InL1
    <3>2. CASE current[MidOf[v]] = NoRow
      BY <2>2, <3>2 DEF IsHead
    <3> QED
      BY <3>1, <3>2
  <2> QED
    BY <1>1, <2>1, <2>2, <2>3
<1>5. ASSUME NEW w \in Writes, Finish(w) \/ Fail(w), w = v PROVE FALSE
  BY <1>1, <1>5 DEF Finish, Fail, Answer
<1>6. ASSUME NEW w \in Writes, SkipByTitle(w) \/ SkipByHead(w) \/ Finish(w) \/ Fail(w), w # v
      PROVE  answer'[v] = answer[v]
  BY <1>1, <1>6 DEF SkipByTitle, SkipByHead, Finish, Fail, Answer
<1>7. answer' = answer \/ \E w \in Writes : SkipByTitle(w) \/ SkipByHead(w) \/ Finish(w) \/ Fail(w)
  BY DEF Next, Write, Begin, Crash, vars, MissTitle, MissHead, UpsertDoc, InsertL1, SetCurrent,
     InsertL2, InsertHeading, InsertUnit, DropUnit, EndChunk, EndRows, PutL1, SkipL1, PutL3,
     SkipL3, Note
<1> QED
  BY <1>2, <1>3, <1>4, <1>5, <1>6, <1>7

\* current_l1_id and skip answers name revisions that are there, whatever fails and
\* however many calls run side by side.
THEOREM RevisionsAreNamed == Spec => []RevisionsBelong
<1>1. Init => RevisionsBelong
  BY DEF Init, RevisionsBelong
<1>2. IInv /\ IInv' /\ RevisionsBelong /\ [Next]_vars => RevisionsBelong'
  <2> SUFFICES ASSUME IInv, IInv', RevisionsBelong, [Next]_vars PROVE RevisionsBelong'
    OBVIOUS
  <2>1. \A m \in Mids : current'[m] # NoRow => InL1(current[m])' /\ MidOf[current'[m]] = m
    BY CurrentStep
  <2>2. \A v \in Writes : answer'[v].via \in {"title", "head"} =>
          \E k \in DOMAIN l1' : /\ MidOf[l1'[k]] = answer'[v].doc
                                /\ req'[l1'[k]].content = req'[v].content
    BY SkipStep
  <2> QED
    BY <2>1, <2>2 DEF RevisionsBelong
<1> QED
  BY InvHolds, <1>1, <1>2, PTL DEF Spec

-----------------------------------------------------------------------------
(* What a full answer promises to the retriever.                           *)

\* Row e belongs to w and is one Write embeds: a sentence or an anchor line.
Embeds(w, e) == /\ e[1] = w /\ e[3] > 0
                /\ ~Chunks(w)[e[2]].code \/ e[3] \in Chunks(w)[e[2]].anchors

\* Every such row has its point or waits in l3Items.
Queued(w) == \A e \in l3 : Embeds(w, e) =>
  e \in points3 \/ \E n \in DOMAIN todo[w] : todo[w][n] = e

Searchable(w) == /\ pc[w] \in Steps => Queued(w)
                 /\ pc[w] \in {"point3", "note"} => w \in points1

SearchInv == FullAnswerSearchable /\ \A w \in Writes : Searchable(w)

\* A call that has not begun has no rows.
LEMMA IdleHasNoRows ==
  ASSUME IInv, NEW w \in Writes, pc[w] = "idle", NEW e \in l3
  PROVE  e[1] # w
<1>1. ~InL1(w)
  BY DEF IInv, Progress, L1Written
<1>2. <<e[1], e[2]>> \in l2
  BY DEF IInv, PointsHaveRows
<1>3. InL1(e[1])
  BY <1>2 DEF IInv, PointsHaveRows
<1> QED
  BY <1>1, <1>3

\* A step of one call leaves the rows, the queue and the answer of another.
LEMMA OthersRows ==
  ASSUME IInv, NEW w \in Writes, Begin(w) \/ Write(w), NEW v \in Writes, v # w
  PROVE  /\ pc'[v] = pc[v] /\ todo'[v] = todo[v] /\ answer'[v] = answer[v]
         /\ \A e \in l3' : e[1] = v => e \in l3
         /\ points1 \subseteq points1' /\ points3 \subseteq points3'
<1> USE DEF IInv, TypeOK
<1>1. CASE Begin(w)
  BY <1>1 DEF Begin, GoTo, tables
<1>2. CASE InsertHeading(w)
  <2>1. l3' = l3 \cup {<<w, chunkAt[w], 0>>}
    BY <1>2 DEF InsertHeading
  <2> QED
    BY <1>2, <2>1 DEF InsertHeading, GoTo, local
<1>3. CASE InsertUnit(w)
  <2>1. l3' = l3 \cup {<<w, chunkAt[w], unitAt[w]>>}
    BY <1>3 DEF InsertUnit
  <2>2. todo'[v] = todo[v]
    BY <1>3 DEF InsertUnit
  <2> QED
    BY <1>3, <2>1, <2>2 DEF InsertUnit
<1>4. CASE \/ SkipByTitle(w) \/ MissTitle(w) \/ SkipByHead(w) \/ MissHead(w) \/ UpsertDoc(w)
           \/ InsertL1(w) \/ SetCurrent(w) \/ EndRows(w) \/ PutL1(w) \/ SkipL1(w) \/ PutL3(w)
           \/ Finish(w) \/ Fail(w)
  BY <1>4 DEF SkipByTitle, MissTitle, SkipByHead, MissHead, UpsertDoc, InsertL1, SetCurrent,
     EndRows, PutL1, SkipL1, PutL3, Finish, Fail, GoTo, Answer, local, tables
<1>5. CASE DropUnit(w) \/ EndChunk(w) \/ SkipL3(w)
  BY <1>5 DEF DropUnit, EndChunk, SkipL3, GoTo, tables
<1>6. CASE InsertL2(w) \/ Note(w)
  BY <1>6 DEF InsertL2, Note, GoTo
<1> QED
  BY <1>1, <1>2, <1>3, <1>4, <1>5, <1>6 DEF Write

\* The call that takes the step keeps its own rows queued.
LEMMA ActorQueues ==
  ASSUME "embed" \notin Faults, IInv, IInv', NEW w \in Writes, Searchable(w),
         Begin(w) \/ Write(w)
  PROVE  Searchable(w)'
<1> DEFINE k == unitAt[w]
<1>1. /\ pc \in [Writes -> Steps \cup {"idle", "done", "dead"}]
      /\ todo \in [Writes -> Seq(L3Rows)] /\ todo[w] \in Seq(L3Rows)
      /\ unitAt \in [Writes -> Nat \ {0}] /\ answer \in [Writes -> Answers]
  BY DEF IInv, TypeOK
<1>2. pc[w] # "idle" => Chunks(w)' = Chunks(w)
  BY OnlyGrows DEF IInv, Grows, Next, Chunks
<1>3. ASSUME l3' = l3, points3 \subseteq points3', pc[w] \in Steps, Queued(w),
             \A n \in DOMAIN todo[w] : \/ todo[w][n] \in points3'
                                       \/ \E j \in DOMAIN todo'[w] : todo'[w][j] = todo[w][n]
      PROVE  Queued(w)'
  <2>1. \A e : Embeds(w, e)' <=> Embeds(w, e)
    BY <1>2, <1>3 DEF Embeds, Steps
  <2> QED
    BY <1>3, <2>1 DEF Queued
<1>4. CASE Begin(w)
  <2>1. pc[w] = "idle" /\ pc'[w] = "title" /\ l3' = l3
    BY <1>1, <1>4 DEF Begin, GoTo, tables
  <2>2. \A e \in l3' : e[1] # w
    BY <2>1, IdleHasNoRows
  <2> QED
    BY <2>1, <2>2 DEF Searchable, Queued, Embeds
<1>5. CASE \/ SkipByTitle(w) \/ SkipByHead(w) \/ Finish(w) \/ Fail(w)
  <2>1. pc'[w] = "done"
    BY <1>1, <1>5 DEF SkipByTitle, SkipByHead, Finish, Fail, Answer, GoTo
  <2> QED
    BY <2>1 DEF Searchable, Steps
<1>6. CASE \/ MissTitle(w) \/ MissHead(w) \/ UpsertDoc(w) \/ InsertL1(w) \/ SetCurrent(w)
           \/ InsertL2(w) \/ DropUnit(w) \/ EndChunk(w) \/ EndRows(w)
  <2>1. /\ pc[w] \in Steps /\ pc'[w] \notin {"point3", "note"}
        /\ l3' = l3 /\ points3' = points3 /\ todo' = todo
    BY <1>1, <1>6 DEF MissTitle, MissHead, UpsertDoc, InsertL1, SetCurrent, InsertL2, DropUnit,
       EndChunk, EndRows, GoTo, Steps, tables, local
  <2> QED
    BY <1>3, <2>1 DEF Searchable
<1>7. CASE InsertHeading(w)
  <2>1. /\ pc[w] = "heading" /\ pc'[w] = "unit" /\ points3' = points3 /\ todo' = todo
        /\ l3' = l3 \cup {<<w, chunkAt[w], 0>>}
    BY <1>1, <1>7 DEF InsertHeading, GoTo, local
  <2>2. \A e \in l3' : Embeds(w, e)' => e \in l3 /\ Embeds(w, e)
    BY <1>2, <2>1 DEF Embeds
  <2> QED
    BY <2>1, <2>2 DEF Searchable, Queued, Steps
<1>8. CASE InsertUnit(w)
  <2> DEFINE row == <<w, chunkAt[w], k>>
  <2>1. /\ pc[w] = "unit" /\ pc'[w] = "unit" /\ points3' = points3
        /\ l3' = l3 \cup {row}
        /\ todo'[w] = todo[w] \/ todo'[w] = Append(todo[w], row)
    BY <1>1, <1>8 DEF InsertUnit
  <2>2. Embeds(w, row) => todo'[w] = Append(todo[w], row)
    BY <1>1, <1>8 DEF InsertUnit, Embeds, ThisChunk
  <2>3. \A e : Embeds(w, e)' <=> Embeds(w, e)
    BY <1>2, <2>1 DEF Embeds
  <2>4. row \in L3Rows
    BY <2>1 DEF IInv, TypeOK
  <2> HIDE DEF row
  <2>5. /\ \A n \in DOMAIN todo[w] : n \in DOMAIN todo'[w] /\ todo'[w][n] = todo[w][n]
        /\ Embeds(w, row) => \E n \in DOMAIN todo'[w] : todo'[w][n] = row
    <3>1. CASE todo'[w] = todo[w]
      <4>1. Embeds(w, row) => Append(todo[w], row) = todo[w]
        BY <2>2, <3>1
      <4>2. Len(Append(todo[w], row)) = Len(todo[w]) + 1 /\ Len(todo[w]) \in Nat
        BY <1>1, <2>4
      <4>3. ~Embeds(w, row)
        BY <4>1, <4>2
      <4> QED
        BY <3>1, <4>3
    <3>2. CASE todo'[w] = Append(todo[w], row)
      <4>1. /\ DOMAIN Append(todo[w], row) = 1..(Len(todo[w]) + 1)
            /\ DOMAIN todo[w] = 1..Len(todo[w]) /\ Len(todo[w]) \in Nat
        BY <1>1, <2>4
      <4>2. /\ Append(todo[w], row)[Len(todo[w]) + 1] = row
            /\ \A n \in 1..Len(todo[w]) : Append(todo[w], row)[n] = todo[w][n]
        BY <1>1, <2>4
      <4>3. \A n \in 1..Len(todo[w]) : n \in 1..(Len(todo[w]) + 1)
        BY <4>1
      <4>4. Len(todo[w]) + 1 \in 1..(Len(todo[w]) + 1)
        BY <4>1
      <4> QED
        BY <3>2, <4>1, <4>2, <4>3, <4>4
    <3> QED
      BY <2>1, <3>1, <3>2
  <2> QED
    BY <2>1, <2>3, <2>5 DEF Searchable, Queued, Steps
<1>9. CASE PutL1(w)
  <2>1. /\ pc[w] = "point1" /\ w \in points1' /\ l3' = l3 /\ points3' = points3 /\ todo' = todo
    BY <1>9 DEF PutL1, local
  <2> QED
    BY <1>3, <2>1 DEF Searchable, Steps
<1>10. CASE PutL3(w)
  <2>1. /\ pc[w] = "point3" /\ points1' = points1 /\ l3' = l3 /\ points3 \subseteq points3'
        /\ todo' = todo
    BY <1>10 DEF PutL3, local
  <2> QED
    BY <1>3, <2>1 DEF Searchable, Steps
<1>11. CASE Note(w)
  <2>1. /\ pc[w] = "note" /\ points1' = points1 /\ l3' = l3 /\ points3' = points3
        /\ todo[w] # << >> /\ todo'[w] = Tail(todo[w])
    BY <1>1, <1>11 DEF Note
  <2>2. Head(todo[w]) \in points3
    BY <2>1 DEF IInv, Progress, TodoWritten
  <2>3. ASSUME NEW n \in DOMAIN todo[w]
        PROVE  \/ todo[w][n] \in points3'
               \/ \E j \in DOMAIN todo'[w] : todo'[w][j] = todo[w][n]
    <3>1. CASE n = 1
      BY <2>1, <2>2, <3>1, <1>1
    <3>2. CASE n # 1
      <4>1. n - 1 \in DOMAIN Tail(todo[w]) /\ Tail(todo[w])[n - 1] = todo[w][n]
        BY <1>1, <2>1, <2>3, <3>2
      <4> QED
        BY <2>1, <4>1
    <3> QED
      BY <3>1, <3>2
  <2> QED
    BY <1>3, <2>1, <2>3 DEF Searchable, Steps
<1>12. CASE SkipL1(w) \/ SkipL3(w)
  BY <1>12 DEF SkipL1, SkipL3
<1> QED
  BY <1>4, <1>5, <1>6, <1>7, <1>8, <1>9, <1>10, <1>11, <1>12 DEF Write

\* One step of a call keeps every full answer searchable.
LEMMA SearchStep ==
  ASSUME "embed" \notin Faults, IInv, IInv', SearchInv, [Next]_vars
  PROVE  SearchInv'
<1>1. ASSUME NEW w \in Writes, Begin(w) \/ Write(w) PROVE SearchInv'
  <2>1. ASSUME NEW v \in Writes, v # w, pc[v] # "idle"
        PROVE  \A e \in l3' : Embeds(v, e)' => e \in l3 /\ Embeds(v, e)
    <3>1. Chunks(v)' = Chunks(v)
      BY <1>1, <2>1, OnlyGrows DEF IInv, Grows, Next, Chunks
    <3> QED
      BY <1>1, <2>1, <3>1, OthersRows DEF Embeds
  <2>2. ASSUME NEW v \in Writes PROVE Searchable(v)'
    <3>1. CASE v = w
      BY <1>1, <3>1, ActorQueues DEF SearchInv
    <3>2. CASE v # w
      <4>1. /\ pc'[v] = pc[v] /\ todo'[v] = todo[v]
            /\ points1 \subseteq points1' /\ points3 \subseteq points3'
        BY <1>1, <3>2, OthersRows
      <4>2. pc[v] \in Steps => pc[v] # "idle"
        BY DEF Steps
      <4> QED
        BY <2>1, <3>2, <4>1, <4>2 DEF SearchInv, Searchable, Queued
    <3> QED
      BY <3>1, <3>2
  <2>3. ASSUME NEW v \in Writes, answer'[v].via = "full"
        PROVE  v \in points1' /\ \A e \in l3' : Embeds(v, e)' => e \in points3'
    <3>1. CASE answer'[v] = answer[v]
      <4>1. pc[v] = "done"
        BY <2>3, <3>1 DEF IInv, Progress, NotAnswered
      <4>2. v # w
        BY <1>1, <4>1 DEF Begin, Write, SkipByTitle, MissTitle, SkipByHead, MissHead, UpsertDoc,
           InsertL1, SetCurrent, InsertL2, InsertHeading, InsertUnit, DropUnit, EndChunk,
           EndRows, PutL1, SkipL1, PutL3, SkipL3, Note, Finish, Fail
      <4>3. points1 \subseteq points1' /\ points3 \subseteq points3'
        BY <1>1, <4>2, OthersRows
      <4> QED
        BY <2>1, <2>3, <3>1, <4>1, <4>2, <4>3 DEF SearchInv, FullAnswerSearchable, Embeds
    <3>2. CASE answer'[v] # answer[v]
      <4>1. v = w
        BY <1>1, <3>2, OthersRows
      <4>2. Finish(w)
        <5>1. answer \in [Writes -> Answers]
          BY DEF IInv, TypeOK
        <5>2. ~SkipByTitle(w) /\ ~SkipByHead(w) /\ ~Fail(w)
          BY <2>3, <4>1, <5>1 DEF SkipByTitle, SkipByHead, Fail, Answer
        <5> QED
          BY <1>1, <3>2, <4>1, <5>2 DEF Begin, Write, MissTitle, MissHead, UpsertDoc, InsertL1,
             SetCurrent, InsertL2, InsertHeading, InsertUnit, DropUnit, EndChunk, EndRows,
             PutL1, SkipL1, PutL3, SkipL3, Note
      <4>3. /\ pc[w] = "point3" /\ todo[w] = << >> /\ l3' = l3 /\ req' = req
            /\ points1' = points1 /\ points3' = points3
        BY <4>2 DEF Finish, tables, local
      <4>4. Queued(w) /\ w \in points1
        BY <4>3 DEF SearchInv, Searchable, Steps
      <4>5. \A e \in l3 : Embeds(w, e) => e \in points3
        BY <4>3, <4>4 DEF Queued
      <4>6. \A e : Embeds(w, e)' <=> Embeds(w, e)
        BY <4>3 DEF Embeds, Chunks
      <4> QED
        BY <4>1, <4>3, <4>4, <4>5, <4>6
    <3> QED
      BY <3>1, <3>2
  <2> QED
    BY <2>2, <2>3 DEF SearchInv, FullAnswerSearchable, Embeds
<1>2. ASSUME UNCHANGED <<tables, local, answer>>,
             \A w \in Writes : pc'[w] = pc[w] \/ pc'[w] = "dead"
      PROVE  SearchInv'
  <2>1. \A w \in Writes : Searchable(w)'
    BY <1>2 DEF SearchInv, Searchable, Queued, Embeds, Chunks, tables, local, Steps
  <2>2. FullAnswerSearchable'
    BY <1>2 DEF SearchInv, FullAnswerSearchable, Chunks, tables, local
  <2> QED
    BY <2>1, <2>2 DEF SearchInv
<1>3. CASE Crash
  BY <1>2, <1>3 DEF Crash, IInv, TypeOK
<1>4. CASE UNCHANGED vars
  BY <1>2, <1>4 DEF vars
<1> QED
  BY <1>1, <1>3, <1>4 DEF Next

\* Without embedder errors a full answer has its L1 point and a point for every sentence and
\* anchor line, whatever else fails and however many calls run side by side.
THEOREM FullAnswersSearchable ==
  ASSUME "embed" \notin Faults PROVE Spec => []FullAnswerSearchable
<1>1. Init => SearchInv
  BY DEF Init, SearchInv, FullAnswerSearchable, Searchable, Queued, Steps
<1>2. IInv /\ IInv' /\ SearchInv /\ [Next]_vars => SearchInv'
  BY SearchStep
<1>3. SearchInv => FullAnswerSearchable
  BY DEF SearchInv
<1> QED
  BY InvHolds, <1>1, <1>2, <1>3, PTL DEF Spec

-----------------------------------------------------------------------------
(* What an ok answer promises, if the rows can be written.                 *)

\* A retry finds whole revisions: statements do not fail and nothing crashes.
WholeRows == "pg" \notin Faults /\ "crash" \notin Faults

\* A call that is over and has its L1 row has all its rows.
OverStored(w) == pc[w] \in {"done", "dead"} /\ InL1(w) => Stored(w)

\* Calls that are over keep their answers and their rows.
LEMMA OverStays ==
  ASSUME IInv, [Next]_vars, NEW v \in Writes, pc[v] \in {"done", "dead"}
  PROVE  /\ pc'[v] = pc[v] /\ answer'[v] = answer[v] /\ req'[v] = req[v]
         /\ InL1(v)' => InL1(v)
         /\ Stored(v) => Stored(v)'
<1>1. /\ pc \in [Writes -> Steps \cup {"idle", "done", "dead"}] /\ answer \in [Writes -> Answers]
      /\ l1 \in Seq(Writes) /\ TypeOK
  BY DEF IInv, TypeOK
<1>2. pc[v] # "idle" /\ pc[v] \notin Steps
  BY DEF Steps
<1>3. Grows
  BY <1>1, OnlyGrows
<1>4. req'[v] = req[v] /\ (Stored(v) => Stored(v)')
  BY <1>1, <1>2, <1>3, StoredStays DEF Grows
<1>5. ASSUME NEW w \in Writes, Begin(w) \/ Write(w) PROVE w # v
  BY <1>2, <1>5 DEF Begin, Write, SkipByTitle, MissTitle, SkipByHead, MissHead, UpsertDoc,
     InsertL1, SetCurrent, InsertL2, InsertHeading, InsertUnit, DropUnit, EndChunk, EndRows,
     PutL1, SkipL1, PutL3, SkipL3, Note, Finish, Fail, Steps
<1>6. pc'[v] = pc[v] /\ answer'[v] = answer[v]
  <2>1. ASSUME NEW w \in Writes, Begin(w) \/ Write(w)
        PROVE  pc'[v] = pc[v] /\ answer'[v] = answer[v]
    BY <2>1, <1>5, OthersRows
  <2>2. CASE Crash
    BY <2>2, <1>1, <1>2 DEF Crash, Active
  <2> QED
    BY <2>1, <2>2 DEF Next, vars
<1>7. InL1(v)' => InL1(v)
  <2>1. CASE l1' = l1
    BY <2>1 DEF InL1
  <2>2. ASSUME NEW w \in Writes, InsertL1(w) PROVE InL1(v)' => InL1(v)
    <3>1. l1' = Append(l1, w) /\ w # v
      BY <2>2, <1>2 DEF InsertL1, Steps
    <3>2. \A k \in DOMAIN Append(l1, w) :
            Append(l1, w)[k] = w \/ (k \in DOMAIN l1 /\ Append(l1, w)[k] = l1[k])
      BY <1>1
    <3> QED
      BY <3>1, <3>2 DEF InL1
  <2> QED
    BY <2>1, <2>2, OnlyInsertL1
<1> QED
  BY <1>4, <1>6, <1>7

\* A call that ends leaves its rows whole, or none.
LEMMA EndStored ==
  ASSUME WholeRows, IInv, NEW w \in Writes,
         SkipByTitle(w) \/ SkipByHead(w) \/ Finish(w) \/ Fail(w), InL1(w)
  PROVE  Stored(w)
<1>1. pc[w] \in {"point1", "point3"}
  BY DEF WholeRows, SkipByTitle, SkipByHead, Finish, Fail, IInv, Progress, L1Written
<1>2. version[MidOf[w]] > 0 /\ \A i \in 1..Len(Chunks(w)) : ChunkStored(w, i)
  BY <1>1 DEF IInv, Progress, DocWritten, AllWritten, HasDoc, Steps
<1> QED
  BY <1>2 DEF Stored

LEMMA OverStep ==
  ASSUME WholeRows, IInv, IInv', [Next]_vars, NEW v \in Writes, OverStored(v)
  PROVE  OverStored(v)'
<1> SUFFICES ASSUME pc'[v] \in {"done", "dead"}, InL1(v)' PROVE Stored(v)'
  BY DEF OverStored
<1>0. pc \in [Writes -> Steps \cup {"idle", "done", "dead"}]
  BY DEF IInv, TypeOK
<1>1. CASE pc[v] \in {"done", "dead"}
  BY <1>1, OverStays DEF OverStored
<1>2. CASE pc[v] \notin {"done", "dead"}
  <2>1. SkipByTitle(v) \/ SkipByHead(v) \/ Finish(v) \/ Fail(v)
    <3>1. ASSUME NEW w \in Writes, Begin(w) \/ Write(w), w # v PROVE FALSE
      BY <1>2, <3>1, OthersRows
    <3>2. ~Crash
      BY DEF Crash, WholeRows
    <3>3. Begin(v) \/ Write(v)
      BY <1>2, <3>1, <3>2 DEF Next, vars
    <3> QED
      BY <1>0, <1>2, <3>3 DEF Begin, Write, MissTitle, MissHead, UpsertDoc, InsertL1, SetCurrent,
         InsertL2, InsertHeading, InsertUnit, DropUnit, EndChunk, EndRows, PutL1, SkipL1, PutL3,
         SkipL3, Note, GoTo
  <2>2. l1' = l1 /\ pc[v] # "idle"
    BY <2>1 DEF SkipByTitle, SkipByHead, Finish, Fail, tables
  <2>3. Stored(v)
    BY <2>1, <2>2, EndStored DEF InL1
  <2> QED
    BY <2>2, <2>3, OnlyGrows, StoredStays DEF IInv
<1> QED
  BY <1>1, <1>2

\* Whoever is told ok finds a whole revision of what was asked for.
LEMMA OkStep ==
  ASSUME Serial, IInv, IInv', SerialInv, OkMeansStored, [Next]_vars,
         \A v \in Writes : NoDocYet(v) /\ OverStored(v), NEW w \in Writes, Ok(w)'
  PROVE  \E v \in Writes : /\ MidOf[v] = answer'[w].doc
                           /\ req'[v] = req'[w]
                           /\ Stored(v)'
<1> USE SinkAssumption
<1>0. /\ pc \in [Writes -> Steps \cup {"idle", "done", "dead"}] /\ answer \in [Writes -> Answers]
      /\ l1 \in Seq(Writes) /\ TypeOK /\ Grows
      /\ \A v \in Writes : req[v] = NoRequest <=> pc[v] = "idle"
      /\ req \in [Writes -> Request \cup {NoRequest}]
  BY OnlyGrows DEF IInv, TypeOK
<1>1. ASSUME NEW v \in Writes, Stored(v) PROVE Stored(v)' /\ req'[v] = req[v] /\ pc[v] # "idle"
  <2>1. pc[v] # "idle"
    BY <1>1 DEF Stored, IInv, Progress, L1Written
  <2> QED
    BY <1>0, <1>1, <2>1, StoredStays DEF Grows
<1>2. CASE answer'[w] = answer[w]
  <2>1. pc[w] = "done" /\ Ok(w)
    BY <1>2 DEF IInv, Progress, NotAnswered, Ok
  <2>2. req'[w] = req[w]
    BY <1>0, <2>1 DEF Grows
  <2>3. PICK v \in Writes : MidOf[v] = answer[w].doc /\ req[v] = req[w] /\ Stored(v)
    BY <2>1 DEF OkMeansStored
  <2> QED
    BY <1>1, <1>2, <2>2, <2>3
<1>3. CASE SkipByTitle(w)
  <2>1. PICK k \in DOMAIN l1 : TitleIsAt(w, k) /\ Answer(w, "title", MidOf[l1[k]])
    BY <1>3 DEF SkipByTitle
  <2>2. answer'[w].doc = MidOf[l1[k]] /\ req' = req /\ pc[w] = "title"
    BY <1>0, <1>3, <2>1 DEF Answer, SkipByTitle, local
  <2>3. l1[k] \in Writes /\ InL1(l1[k])
    BY <1>0 DEF InL1
  <2>4. pc[l1[k]] \in {"done", "dead"}
    <3>1. pc[l1[k]] # "idle" /\ l1[k] # w
      BY <2>2, <2>3 DEF IInv, Progress, L1Written
    <3>2. w \in Active
      BY <2>2 DEF Active, Steps
    <3>3. l1[k] \notin Active
      BY <3>1, <3>2 DEF SerialInv, OneActive
    <3> QED
      BY <1>0, <2>3, <3>1, <3>3 DEF Active
  <2>5. Stored(l1[k])
    BY <2>3, <2>4 DEF OverStored
  <2>6. req[l1[k]] = req[w]
    <3>1. req[l1[k]] \in Request /\ req[w] \in Request
      BY <1>0, <2>2, <2>3, <2>4
    <3>2. \A r, q \in Request : r.title = q.title /\ r.content = q.content => r = q
      BY DEF Request
    <3>3. req[l1[k]].title = req[w].title /\ req[l1[k]].content = req[w].content
      BY <2>1 DEF TitleIsAt, Newest
    <3> QED
      BY <3>1, <3>2, <3>3
  <2> QED
    BY <1>1, <2>2, <2>3, <2>5, <2>6
<1>4. CASE SkipByHead(w)
  BY <1>4 DEF SkipByHead, HeadIsThere, NoDocYet
<1>5. CASE Finish(w)
  <2>1. pc[w] = "point3" /\ answer'[w].doc = MidOf[w] /\ answer'[w].via = "full"
    BY <1>0, <1>5 DEF Finish, Answer
  <2>2. Stored(w)'
    BY <2>1 DEF IInv, FullAnswerStored
  <2> QED
    BY <2>1, <2>2
<1>6. CASE Fail(w)
  BY <1>0, <1>6 DEF Fail, Answer, Ok
<1>7. answer'[w] = answer[w] \/ SkipByTitle(w) \/ SkipByHead(w) \/ Finish(w) \/ Fail(w)
  <2>1. ASSUME NEW v \in Writes, Begin(v) \/ Write(v), v # w PROVE answer'[w] = answer[w]
    BY <2>1, OthersRows
  <2>2. CASE Begin(w) \/ Write(w)
    BY <2>2 DEF Begin, Write, MissTitle, MissHead, UpsertDoc, InsertL1, SetCurrent, InsertL2,
       InsertHeading, InsertUnit, DropUnit, EndChunk, EndRows, PutL1, SkipL1, PutL3, SkipL3, Note
  <2> QED
    BY <2>1, <2>2 DEF Next, Crash, vars
<1> QED
  BY <1>2, <1>3, <1>4, <1>5, <1>6, <1>7

\* Calls one after the other with ids of their own: if reads and writes of PostgreSQL do
\* not fail and nothing crashes, an ok answer means that the document is stored whole,
\* whatever becomes of its points.
THEOREM OkAnswersStored ==
  ASSUME Serial, OwnIds, WholeRows PROVE Spec => []OkMeansStored
<1> DEFINE Apart == \A v \in Writes : NoDocYet(v) /\ OverStored(v)
<1>1. Init => SerialInv /\ Apart /\ OkMeansStored
  BY SinkAssumption, InitSerial DEF Init, NoDocYet, OverStored, InL1, OkMeansStored, Ok
<1>2. IInv /\ IInv' /\ SerialInv /\ [Next]_vars => SerialInv'
  BY SerialStep
<1>3. IInv /\ IInv' /\ Apart /\ [Next]_vars => Apart'
  BY OwnIdStep, OverStep
<1>4. IInv /\ IInv' /\ SerialInv /\ Apart /\ OkMeansStored /\ [Next]_vars => OkMeansStored'
  <2> SUFFICES ASSUME IInv, IInv', SerialInv, Apart, OkMeansStored, [Next]_vars
               PROVE  OkMeansStored'
    OBVIOUS
  <2>1. \A w \in Writes : Ok(w)' => \E v \in Writes : /\ MidOf[v] = answer'[w].doc
                                                     /\ req'[v] = req'[w]
                                                     /\ Stored(v)'
    BY OkStep
  <2> QED
    BY <2>1 DEF OkMeansStored
<1> HIDE DEF Apart
<1> QED
  BY InvHolds, <1>1, <1>2, <1>3, <1>4, PTL DEF Spec
=============================================================================
