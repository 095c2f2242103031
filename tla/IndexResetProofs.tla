-------------------------- MODULE IndexResetProofs --------------------------
(***************************************************************************)
(* Rows, points and keyword ids while a reset works on the stores below    *)
(* the calls of Write, for any number of calls and any contents: the ids   *)
(* of the Tuber, the types, and that rows and points agree again.          *)
(***************************************************************************)
EXTENDS IndexReset, SinkWriteProofs, FiniteSetTheorems

\* The types the argument needs of the calls' local variables.
LocalOK == /\ pc \in [Writes -> Steps \cup {"idle", "done", "dead"}]
           /\ DOMAIN todo = Writes
           /\ tuber \in [Writes -> {"ask", "insert", "cache", "known", "unknown"}]

\* A keyword that the table has, or had at a full reset.
Known == words \cup lost

\* Between "ask" and the point the call stands before the same L3 row; what it
\* takes for known is known.
AtWord(w) ==
  /\ tuber[w] # "ask" => pc[w] = "done" \/ Upserting(w)
  /\ Upserting(w) /\ tuber[w] \in {"cache", "known"} => Word(w) \in Known

\* The invariant: KeywordsResolve, of Redis as well, and of every call on its way.
KeyInv == /\ LocalOK /\ KeywordsResolve
          /\ cached \subseteq Known
          /\ \A w \in Writes : AtWord(w)

LEMMA KeyInit == StoreInit => KeyInv
  BY DEF StoreInit, Init, KeyInv, LocalOK, KeywordsResolve, AtWord, Upserting, Known

\* A step of Write moves only the call whose step it is, and not what it asks.
LEMMA WriteMoves ==
  ASSUME LocalOK, NEW w \in Writes, Write(w)
  PROVE  /\ pc[w] \in Steps /\ req' = req
         /\ pc' \in [Writes -> Steps \cup {"idle", "done", "dead"}] /\ DOMAIN todo' = Writes
         /\ \A v \in Writes : v # w => pc'[v] = pc[v] /\ todo'[v] = todo[v]
  <1> USE DEF LocalOK, GoTo, Answer, local, Steps
  <1>1. CASE \/ SkipByTitle(w) \/ MissTitle(w) \/ SkipByHead(w) \/ MissHead(w) \/ UpsertDoc(w)
             \/ InsertL1(w) \/ SetCurrent(w) \/ InsertHeading(w) \/ EndRows(w) \/ PutL1(w)
             \/ SkipL1(w) \/ PutL3(w) \/ Finish(w) \/ Fail(w)
    BY <1>1 DEF SkipByTitle, MissTitle, SkipByHead, MissHead, UpsertDoc, InsertL1, SetCurrent,
                InsertHeading, EndRows, PutL1, SkipL1, PutL3, Finish, Fail
  <1>2. CASE InsertL2(w)
    BY <1>2 DEF InsertL2
  <1>3. CASE DropUnit(w) \/ EndChunk(w)
    BY <1>3 DEF DropUnit, EndChunk
  <1>4. CASE InsertUnit(w)
    BY <1>4 DEF InsertUnit
  <1>5. CASE SkipL3(w) \/ Note(w)
    BY <1>5 DEF SkipL3, Note
  <1> QED
    BY <1>1, <1>2, <1>3, <1>4, <1>5 DEF Write

\* A call nobody moved, while the known keywords did not become fewer.
LEMMA Stands ==
  ASSUME NEW v \in Writes, AtWord(v), pc'[v] = pc[v], todo'[v] = todo[v], req' = req,
         tuber'[v] = tuber[v], Known \subseteq Known'
  PROVE  AtWord(v)'
  <1>1. (Upserting(v)' <=> Upserting(v)) /\ (Word(v)' = Word(v))
    BY DEF Upserting, Word, Chunks
  <1> QED
    BY <1>1 DEF AtWord

\* The reset moves keywords from the table to the lost ones, and no call.
LEMMA ResetKeeps ==
  ASSUME KeyInv, BeginReset \/ Reset
  PROVE  KeyInv'
  <1>1. /\ UNCHANGED <<pc, local, tuber, cached>>
        /\ Known \subseteq Known' /\ keys' \subseteq keys
    BY DEF BeginReset, Reset, DeleteRows, RowsFail, DeletePoints, DropCollection,
           CreateCollection, ResetStops, vars, tuberVars, history, Known
  <1>2. \A w \in Writes : AtWord(w)'
    BY <1>1, Stands DEF KeyInv, local
  <1>3. LocalOK'
    BY <1>1 DEF KeyInv, LocalOK, local
  <1> QED
    BY <1>1, <1>2, <1>3 DEF KeyInv, KeywordsResolve, Known

\* The rows and the L1 point are written while no keyword is asked for.
LEMMA RowStepKeeps ==
  ASSUME KeyInv, NEW w \in Writes, BeginWrite(w) \/ RowStep(w)
  PROVE  KeyInv'
  <1>0. LocalOK /\ AtWord(w)
    BY DEF KeyInv
  <1>1. UNCHANGED <<words, lost, cached, tuber, keys>>
    BY DEF BeginWrite, RowStep, tuberVars, history
  <1>2. /\ pc' \in [Writes -> Steps \cup {"idle", "done", "dead"}] /\ DOMAIN todo' = Writes
        /\ \A v \in Writes : v # w => /\ pc'[v] = pc[v] /\ todo'[v] = todo[v]
                                      /\ req'[v] = req[v]
        /\ tuber[w] = "ask" \/ pc'[w] = "done"
    <2>1. CASE BeginWrite(w)
      <3>1. pc[w] = "idle" /\ tuber[w] = "ask"
        BY <1>0, <2>1 DEF BeginWrite, Begin, AtWord, Upserting
      <3> QED
        BY <1>0, <2>1, <3>1 DEF BeginWrite, Begin, GoTo, LocalOK, Steps
    <2>2. CASE Refused(w)
      BY <1>0, <2>2 DEF Refused, Answer, GoTo, local, LocalOK
    <2>3. CASE UpdateNothing(w)
      <3>1. tuber[w] = "ask"
        BY <1>0, <2>3 DEF UpdateNothing, AtWord, Upserting
      <3> QED
        BY <1>0, <2>3, <3>1 DEF UpdateNothing, GoTo, LocalOK, Steps
    <2>4. CASE WholeStep(w)
      <3>1. Write(w)
        BY <2>4 DEF WholeStep, Write
      <3>2. tuber[w] = "ask" \/ pc'[w] = "done"
        <4>1. CASE ~Upserting(w)
          BY <1>0, <3>1, <4>1, WriteMoves DEF AtWord, Steps
        <4>2. CASE Fail(w)
          BY <1>0, <4>2 DEF Fail, Answer, GoTo, LocalOK
        <4> QED
          BY <2>4, <4>1, <4>2 DEF WholeStep
      <3> QED
        BY <1>0, <3>1, <3>2, WriteMoves
    <2> QED
      BY <2>1, <2>2, <2>3, <2>4 DEF RowStep
  <1>3. ASSUME NEW v \in Writes, v # w PROVE AtWord(v)'
    <2>1. (Upserting(v)' <=> Upserting(v)) /\ (Word(v)' = Word(v))
      BY <1>2, <1>3 DEF Upserting, Word, Chunks
    <2> QED
      BY <1>1, <1>2, <1>3, <2>1 DEF AtWord, KeyInv, Known
  <1>4. AtWord(w)'
    BY <1>1, <1>2 DEF AtWord, Upserting
  <1>5. \A v \in Writes : AtWord(v)'
    BY <1>3, <1>4
  <1> QED
    BY <1>1, <1>2, <1>5 DEF KeyInv, KeywordsResolve, Known, LocalOK

\* tuberGetOrCreate: what Redis has is known, what INSERT stored is known, and only
\* then Redis and the point get it.
LEMMA TuberKeeps ==
  ASSUME KeyInv, NEW w \in Writes, AskRedis(w) \/ InsertWord(w) \/ CacheWord(w)
  PROVE  KeyInv'
  <1>0. LocalOK /\ AtWord(w) /\ Upserting(w)
    BY DEF KeyInv, AskRedis, InsertWord, CacheWord
  <1>1. /\ UNCHANGED <<pc, req, todo, keys, lost>> /\ words \subseteq words'
        /\ \A v \in Writes : v # w => tuber'[v] = tuber[v]
        /\ tuber' \in [Writes -> {"ask", "insert", "cache", "known", "unknown"}]
    BY <1>0 DEF AskRedis, InsertWord, CacheWord, TuberTo, LocalOK, vars, local, history
  <1>2. (Upserting(w)' <=> Upserting(w)) /\ (Word(w)' = Word(w))
    BY <1>1 DEF Upserting, Word, Chunks
  <1>3. AtWord(w)' /\ cached' \subseteq Known'
    <2>1. CASE AskRedis(w)
      BY <1>0, <1>1, <1>2, <2>1 DEF AskRedis, TuberTo, LocalOK, AtWord, KeyInv, Known
    <2>2. CASE InsertWord(w)
      BY <1>0, <1>1, <1>2, <2>2 DEF InsertWord, TuberTo, LocalOK, AtWord, KeyInv, Known
    <2>3. CASE CacheWord(w)
      <3>1. Word(w) \in Known
        BY <1>0, <2>3 DEF CacheWord, AtWord
      <3> QED
        BY <1>0, <1>1, <1>2, <2>3, <3>1 DEF CacheWord, TuberTo, LocalOK, AtWord, KeyInv, Known
    <2> QED
      BY <2>1, <2>2, <2>3
  <1>4. ASSUME NEW v \in Writes, v # w PROVE AtWord(v)'
    BY <1>1, <1>4, Stands DEF KeyInv, Known
  <1>5. \A v \in Writes : AtWord(v)'
    BY <1>3, <1>4
  <1> QED
    BY <1>0, <1>1, <1>3, <1>5 DEF KeyInv, KeywordsResolve, Known, LocalOK

\* The point gets the keyword id that is known, and the call asks for the next.
LEMMA PutKeeps ==
  ASSUME KeyInv, NEW w \in Writes, PutPoint(w)
  PROVE  KeyInv'
  <1>0. LocalOK /\ AtWord(w) /\ Upserting(w) /\ Write(w)
    BY DEF KeyInv, PutPoint, KeyReady, Write
  <1>1. /\ UNCHANGED <<words, cached, lost>>
        /\ \A v \in Writes : v # w => tuber'[v] = tuber[v]
        /\ tuber' \in [Writes -> {"ask", "insert", "cache", "known", "unknown"}]
        /\ tuber'[w] = "ask"
    BY <1>0 DEF PutPoint, TuberTo, LocalOK, history
  <1>2. \A k \in keys' : k \in keys \/ k[2] \in Known
    BY <1>0 DEF PutPoint, AtWord
  <1>3. AtWord(w)'
    BY <1>1 DEF AtWord
  <1>4. ASSUME NEW v \in Writes, v # w PROVE AtWord(v)'
    BY <1>0, <1>1, <1>4, WriteMoves, Stands DEF KeyInv, Known
  <1>5. \A v \in Writes : AtWord(v)'
    BY <1>3, <1>4
  <1> QED
    BY <1>0, <1>1, <1>2, <1>5, WriteMoves DEF KeyInv, KeywordsResolve, Known, LocalOK

LEMMA KeyStep == KeyInv /\ [StoreNext]_storeVars => KeyInv'
  <1> SUFFICES ASSUME KeyInv, [StoreNext]_storeVars PROVE KeyInv'
    OBVIOUS
  <1>1. CASE UNCHANGED storeVars
    <2>1. UNCHANGED <<pc, req, todo, tuber, words, lost, cached, keys>>
      BY <1>1 DEF storeVars, vars, local, tuberVars, history
    <2>2. \A w \in Writes : AtWord(w)'
      BY <2>1, Stands DEF KeyInv, Known
    <2> QED
      BY <2>1, <2>2 DEF KeyInv, KeywordsResolve, Known, LocalOK
  <1>2. ASSUME NEW w \in Writes, BeginWrite(w) \/ StoreWrite(w) PROVE KeyInv'
    BY <1>2, RowStepKeeps, TuberKeeps, PutKeeps DEF StoreWrite
  <1> QED
    BY <1>1, <1>2, ResetKeeps DEF StoreNext

\* Every keyword id in a point names a row of keyword_so, or one that a full reset
\* deleted: Redis is never ahead of the table (tuberGetOrCreate, writer.go:848-888).
THEOREM KeywordIdsResolve == StoreSpec => []KeywordsResolve
  <1>1. KeyInv => KeywordsResolve
    BY DEF KeyInv
  <1> QED
    BY KeyInit, KeyStep, <1>1, PTL DEF StoreSpec
-----------------------------------------------------------------------------
(* Types.                                                                  *)

\* What a call has put in l3Items: units of its own content.
TodoUnits(w) == \A n \in DOMAIN todo[w] :
  /\ todo[w][n][1] = w
  /\ todo[w][n][2] \in 1..Len(Chunks(w))
  /\ todo[w][n][3] \in 1..Len(Chunks(w)[todo[w][n][2]].units)

\* A call is at a unit of a chunk it has, and asks for nothing before it begins.
CallTyped(w) == /\ pc[w] \in {"heading", "unit"} => chunkAt[w] <= Len(Chunks(w))
                /\ pc[w] = "idle" => todo[w] = << >>
                /\ pc[w] = "note" => todo[w] # << >>
                /\ TodoUnits(w)

TypeInv == StoreTypeOK /\ \A w \in Writes : CallTyped(w)

LEMMA TypeInit == StoreInit => TypeInv
  <1> SUFFICES ASSUME StoreInit PROVE TypeInv
    OBVIOUS
  <1>1. TypeOK
    BY InitInv DEF StoreInit, IInv
  <1>2. StoreTypeOK
    BY <1>1 DEF StoreInit, StoreTypeOK
  <1>3. \A w \in Writes : CallTyped(w)
    BY DEF StoreInit, Init, CallTyped, TodoUnits
  <1> QED
    BY <1>2, <1>3 DEF TypeInv

\* The chunks of a call that has begun.
LEMMA ChunksTyped ==
  ASSUME TypeOK, NEW w \in Writes, pc[w] # "idle"
  PROVE  /\ req[w].content \in Contents
         /\ Chunks(w) \in Seq(Chunk)
         /\ \A i \in 1..Len(Chunks(w)) : Chunks(w)[i].units \in Seq(STRING)
  <1>1. req[w] \in Request
    BY DEF TypeOK
  <1>2. req[w].content \in Contents
    BY <1>1 DEF Request
  <1>3. Chunks(w) \in Seq(Chunk)
    BY <1>2, SinkAssumption DEF Chunks
  <1>4. \A c \in Chunk : c.units \in Seq(STRING)
    BY DEF Chunk
  <1> QED
    BY <1>2, <1>3, <1>4

\* The keyword of the unit that is next is one of the contents' keywords.
LEMMA WordTyped ==
  ASSUME TypeInv, NEW w \in Writes, Upserting(w)
  PROVE  /\ Word(w) \in Keywords /\ Head(todo[w]) \in L3Rows
         /\ Head(todo[w]) = todo[w][1] /\ 1 \in DOMAIN todo[w]
  <1>1. /\ TypeOK /\ CallTyped(w) /\ pc[w] # "idle"
        /\ todo[w] \in Seq(L3Rows) /\ todo[w] # << >>
    BY DEF TypeInv, StoreTypeOK, Upserting, TypeOK
  <1>2. /\ Head(todo[w]) = todo[w][1] /\ 1 \in DOMAIN todo[w]
        /\ Head(todo[w]) \in L3Rows
    BY <1>1
  <1> DEFINE e == Head(todo[w])
             c == Chunks(w)[e[2]]
  <1>3. e[2] \in 1..Len(Chunks(w)) /\ e[3] \in 1..Len(c.units)
    BY <1>1, <1>2 DEF CallTyped, TodoUnits
  <1>4. req[w].content \in Contents
    BY <1>1, ChunksTyped
  <1>5. c \in {ChunksOf[req[w].content][i] : i \in 1..Len(ChunksOf[req[w].content])}
    BY <1>3 DEF Chunks
  <1>6. c \in UNION {{ChunksOf[d][i] : i \in 1..Len(ChunksOf[d])} : d \in Contents}
    BY <1>4, <1>5
  <1>7. Word(w) \in {c.units[k] : k \in 1..Len(c.units)}
    BY <1>3 DEF Word
  <1> HIDE DEF e, c
  <1>8. Word(w) \in Keywords
    BY <1>6, <1>7 DEF Keywords
  <1> QED
    BY <1>2, <1>8

\* The rows that stay are listed, and no others.
LEMMA KeptRows ==
  ASSUME TypeOK, NEW at \in InOrder, l1' = [n \in DOMAIN at |-> l1[at[n]]]
  PROVE  /\ l1' \in Seq(Writes)
         /\ \A w \in Writes : InL1(w)' <=> InL1(w) /\ Spared(w)
  <1> DEFINE c == Cardinality(Kept)
  <1>1. /\ l1 \in Seq(Writes) /\ DOMAIN l1 = 1..Len(l1) /\ Len(l1) \in Nat
        /\ \A k \in DOMAIN l1 : l1[k] \in Writes
    BY DEF TypeOK
  <1>2. Kept \subseteq 1..Len(l1) /\ \A k \in Kept : k \in DOMAIN l1 /\ Spared(l1[k])
    BY <1>1 DEF Kept
  <1>3. IsFiniteSet(Kept)
    <2>1. IsFiniteSet(1..Len(l1))
      <3>1. 1 \in Int /\ Len(l1) \in Int
        BY <1>1
      <3> QED
        BY <3>1, FS_Interval
    <2>2. Kept \in SUBSET (1..Len(l1))
      BY <1>2
    <2> QED
      BY <2>1, <2>2, FS_Subset
  <1>4. c \in Nat
    BY <1>3, FS_CardinalityType
  <1>5. /\ at \in [1..c -> Kept] /\ DOMAIN at = 1..c
        /\ \A m, n \in 1..c : m < n => at[m] < at[n]
    BY DEF InOrder
  <1>6. at \in Injection(1..c, Kept)
    <2> HIDE DEF c
    <2>1. \A m, n \in 1..c : at[m] = at[n] => m = n
      <3> SUFFICES ASSUME NEW m \in 1..c, NEW n \in 1..c, at[m] = at[n], m # n PROVE FALSE
        OBVIOUS
      <3>1. m < n \/ n < m
        BY <1>4
      <3>2. at[m] \in Kept
        BY <1>5
      <3>3. at[m] \in Int
        <4>1. at[m] \in 1..Len(l1)
          BY <1>2, <3>2, Zenon
        <4> QED
          BY <4>1
      <3> QED
        BY <1>5, <3>1, <3>3
    <2> QED
      BY <1>5, <2>1 DEF Injection, IsInjective
  <1>7. IsFiniteSet(1..c) /\ Cardinality(1..c) = c
    <2>1. 1 \in Int /\ c \in Int /\ (1 > c => c = 0)
      BY <1>4
    <2> HIDE DEF c
    <2> QED
      BY <1>4, <2>1, FS_Interval
  <1>8. at \in Surjection(1..c, Kept)
    BY <1>3, <1>6, <1>7, FS_Injection
  <1>9. \A k \in Kept : \E n \in 1..c : at[n] = k
    BY <1>8 DEF Surjection
  <1> HIDE DEF c
  <1>10. l1' \in Seq(Writes) /\ DOMAIN l1' = 1..c
    <2>1. \A n \in 1..c : at[n] \in DOMAIN l1
      BY <1>2, <1>5
    <2>2. l1' = [n \in 1..c |-> l1[at[n]]]
      BY <1>5
    <2>3. l1' \in [1..c -> Writes]
      BY <1>1, <2>1, <2>2
    <2> QED
      BY <1>4, <2>3
  <1>11. ASSUME NEW w \in Writes PROVE InL1(w)' <=> InL1(w) /\ Spared(w)
    <2>1. InL1(w)' <=> \E n \in 1..c : l1[at[n]] = w
      BY <1>5, <1>10 DEF InL1
    <2>2. (\E n \in 1..c : l1[at[n]] = w) <=> \E k \in Kept : l1[k] = w
      BY <1>5, <1>9
    <2>3. (\E k \in Kept : l1[k] = w) <=> InL1(w) /\ Spared(w)
      BY DEF Kept, InL1
    <2> QED
      BY <2>1, <2>2, <2>3
  <1> QED
    BY <1>10, <1>11
\* A call whose local variables nobody changed.
LEMMA TypedStays ==
  ASSUME NEW v \in Writes, CallTyped(v), pc'[v] = pc[v], todo'[v] = todo[v],
         chunkAt'[v] = chunkAt[v], req'[v] = req[v]
  PROVE  CallTyped(v)'
  <1>1. Chunks(v)' = Chunks(v)
    BY DEF Chunks
  <1> QED
    BY <1>1 DEF CallTyped, TodoUnits

\* What is left of l3Items when its first row is taken.
LEMMA TodoShrinks ==
  ASSUME NEW v \in Writes, TodoUnits(v), todo[v] \in Seq(L3Rows), Chunks(v)' = Chunks(v),
         todo'[v] = todo[v] \/ (todo[v] # << >> /\ todo'[v] = Tail(todo[v]))
  PROVE  TodoUnits(v)'
  <1>1. CASE todo'[v] = todo[v]
    BY <1>1 DEF TodoUnits
  <1>2. CASE todo[v] # << >> /\ todo'[v] = Tail(todo[v])
    <2>1. ASSUME NEW n \in DOMAIN todo'[v]
          PROVE  n + 1 \in DOMAIN todo[v] /\ todo'[v][n] = todo[v][n + 1]
      BY <1>2
    <2>2. ASSUME NEW n \in DOMAIN todo'[v]
          PROVE  /\ todo'[v][n][1] = v
                 /\ todo'[v][n][2] \in 1..Len(Chunks(v))
                 /\ todo'[v][n][3] \in 1..Len(Chunks(v)[todo'[v][n][2]].units)
      <3>1. PICK m \in DOMAIN todo[v] : todo'[v][n] = todo[v][m]
        BY <2>1
      <3> QED
        BY <3>1 DEF TodoUnits
    <2> QED
      BY <2>2 DEF TodoUnits
  <1> QED
    BY <1>1, <1>2

\* A step of Write as it is in SinkWrite.
LEMMA WriteTyped ==
  ASSUME TypeInv, NEW w \in Writes, Begin(w) \/ Write(w)
  PROVE  TypeOK' /\ \A v \in Writes : CallTyped(v)'
  <1>0. /\ TypeOK /\ CallTyped(w)
        /\ pc \in [Writes -> Steps \cup {"idle", "done", "dead"}]
        /\ todo \in [Writes -> Seq(L3Rows)] /\ chunkAt \in [Writes -> Nat \ {0}]
        /\ req \in [Writes -> Request \cup {NoRequest}]
        /\ unitAt \in [Writes -> Nat \ {0}]
    BY DEF TypeInv, StoreTypeOK, TypeOK
  <1>1. TypeOK'
    BY <1>0, TypeStep DEF Next
  <1> USE DEF GoTo, Answer, local
  <1>2. ASSUME NEW v \in Writes, v # w PROVE CallTyped(v)'
    <2>1. pc'[v] = pc[v] /\ todo'[v] = todo[v] /\ chunkAt'[v] = chunkAt[v] /\ req'[v] = req[v]
      <3>1. CASE Begin(w)
        BY <1>0, <1>2, <3>1 DEF Begin
      <3>2. CASE \/ SkipByTitle(w) \/ MissTitle(w) \/ SkipByHead(w) \/ MissHead(w)
                 \/ UpsertDoc(w) \/ InsertL1(w) \/ SetCurrent(w) \/ InsertHeading(w)
                 \/ EndRows(w) \/ PutL1(w) \/ SkipL1(w) \/ PutL3(w) \/ Finish(w) \/ Fail(w)
        BY <1>0, <1>2, <3>2 DEF SkipByTitle, MissTitle, SkipByHead, MissHead, UpsertDoc,
           InsertL1, SetCurrent, InsertHeading, EndRows, PutL1, SkipL1, PutL3, Finish, Fail
      <3>3. CASE InsertL2(w) \/ DropUnit(w) \/ EndChunk(w) \/ SkipL3(w) \/ Note(w)
        BY <1>0, <1>2, <3>3 DEF InsertL2, DropUnit, EndChunk, SkipL3, Note
      <3>4. CASE InsertUnit(w)
        BY <1>0, <1>2, <3>4 DEF InsertUnit
      <3> QED
        BY <3>1, <3>2, <3>3, <3>4 DEF Write
    <2> QED
      BY <2>1, TypedStays DEF TypeInv
  <1>3. CallTyped(w)'
    <2>1. CASE Begin(w)
      <3>1. pc'[w] = "title" /\ todo'[w] = << >>
        BY <1>0, <2>1 DEF Begin, CallTyped
      <3> QED
        BY <3>1 DEF CallTyped, TodoUnits
    <2>2. CASE Write(w)
      <3>1. pc[w] \in Steps /\ req' = req
        BY <1>0, <2>2, WriteMoves DEF LocalOK, TypeInv, StoreTypeOK
      <3>2. Chunks(w)' = Chunks(w) /\ pc[w] # "idle"
        BY <3>1 DEF Chunks, Steps
      <3>3. ASSUME todo'[w] = todo[w] \/ (todo[w] # << >> /\ todo'[w] = Tail(todo[w]))
            PROVE  TodoUnits(w)'
        BY <1>0, <3>2, <3>3, TodoShrinks DEF CallTyped
      <3>4. CASE \/ SkipByTitle(w) \/ MissTitle(w) \/ SkipByHead(w) \/ MissHead(w)
                 \/ UpsertDoc(w) \/ InsertL1(w) \/ SetCurrent(w) \/ EndRows(w) \/ PutL1(w)
                 \/ SkipL1(w) \/ PutL3(w) \/ Finish(w) \/ Fail(w)
        <4>1. /\ pc'[w] \notin {"heading", "unit", "idle"} /\ todo'[w] = todo[w]
              /\ pc'[w] = "note" => todo[w] # << >>
          BY <1>0, <3>4 DEF SkipByTitle, MissTitle, SkipByHead, MissHead, UpsertDoc,
             InsertL1, SetCurrent, EndRows, PutL1, SkipL1, PutL3, Finish, Fail
        <4> QED
          BY <3>3, <4>1 DEF CallTyped
      <3>5. CASE InsertHeading(w) \/ DropUnit(w) \/ InsertL2(w)
        <4>1. /\ todo'[w] = todo[w] /\ chunkAt'[w] = chunkAt[w] /\ pc'[w] \notin {"idle", "note"}
              /\ chunkAt[w] <= Len(Chunks(w))
          BY <1>0, <3>2, <3>5 DEF InsertHeading, DropUnit, InsertL2, CallTyped
        <4> QED
          BY <3>2, <3>3, <4>1 DEF CallTyped
      <3>6. CASE EndChunk(w) \/ SkipL3(w) \/ Note(w)
        <4>1. /\ pc'[w] \notin {"heading", "unit", "idle", "note"}
              /\ todo'[w] = todo[w] \/ (todo[w] # << >> /\ todo'[w] = Tail(todo[w]))
          BY <1>0, <3>6 DEF EndChunk, SkipL3, Note
        <4> QED
          BY <3>3, <4>1 DEF CallTyped
      <3>7. CASE InsertUnit(w)
        <4> DEFINE row == <<w, chunkAt[w], unitAt[w]>>
        <4>1. /\ pc[w] = "unit" /\ pc'[w] = "unit" /\ chunkAt'[w] = chunkAt[w]
              /\ unitAt[w] <= Len(ThisChunk(w).units)
              /\ chunkAt[w] <= Len(Chunks(w))
          BY <1>0, <3>7 DEF InsertUnit, CallTyped
        <4>2. todo'[w] = todo[w] \/ todo'[w] = Append(todo[w], row)
          BY <1>0, <3>7 DEF InsertUnit
        <4>3. CASE todo'[w] = Append(todo[w], row)
          <5>1. row \in L3Rows /\ todo[w] \in Seq(L3Rows)
            BY <1>0 DEF L3Rows
          <5>2. row[1] = w /\ row[2] = chunkAt[w] /\ row[3] = unitAt[w]
            OBVIOUS
          <5> HIDE DEF row
          <5>3. \A n \in DOMAIN Append(todo[w], row) :
                  \/ n \in DOMAIN todo[w] /\ Append(todo[w], row)[n] = todo[w][n]
                  \/ Append(todo[w], row)[n] = row
            BY <5>1
          <5>4. chunkAt[w] \in 1..Len(Chunks(w)) /\ unitAt[w] \in 1..Len(Chunks(w)[chunkAt[w]].units)
            <6>1. chunkAt[w] \in Nat \ {0} /\ unitAt[w] \in Nat \ {0}
              BY <1>0
            <6>2. Len(Chunks(w)) \in Nat
              BY <1>0, <3>2, ChunksTyped
            <6>3. chunkAt[w] \in 1..Len(Chunks(w))
              BY <4>1, <6>1, <6>2
            <6>4. Len(Chunks(w)[chunkAt[w]].units) \in Nat
              BY <1>0, <3>2, <6>3, ChunksTyped
            <6> QED
              BY <4>1, <6>1, <6>3, <6>4 DEF ThisChunk
          <5>5. ASSUME NEW n \in DOMAIN todo'[w]
                PROVE  /\ todo'[w][n][1] = w
                       /\ todo'[w][n][2] \in 1..Len(Chunks(w))
                       /\ todo'[w][n][3] \in 1..Len(Chunks(w)[todo'[w][n][2]].units)
            <6>1. CASE todo'[w][n] = row
              BY <5>2, <5>4, <6>1
            <6>2. CASE n \in DOMAIN todo[w] /\ todo'[w][n] = todo[w][n]
              BY <1>0, <6>2 DEF CallTyped, TodoUnits
            <6> QED
              BY <4>3, <5>3, <6>1, <6>2
          <5>6. TodoUnits(w)'
            BY <3>2, <5>5 DEF TodoUnits
          <5> QED
            BY <3>2, <4>1, <5>6 DEF CallTyped
        <4>4. CASE todo'[w] = todo[w]
          BY <3>2, <3>3, <4>1, <4>4 DEF CallTyped
        <4> QED
          BY <4>2, <4>3, <4>4
      <3> QED
        BY <2>2, <3>4, <3>5, <3>6, <3>7 DEF Write
    <2> QED
      BY <2>1, <2>2
  <1> QED
    BY <1>1, <1>2, <1>3

\* What Refused and UpdateNothing do to the variables of Write.
LEMMA RemainsTyped ==
  ASSUME TypeInv, NEW w \in Writes, Refused(w) \/ UpdateNothing(w)
  PROVE  TypeOK' /\ \A v \in Writes : CallTyped(v)'
  <1>0. /\ TypeOK /\ CallTyped(w) /\ pc[w] \in Steps
        /\ pc \in [Writes -> Steps \cup {"idle", "done", "dead"}]
        /\ todo \in [Writes -> Seq(L3Rows)] /\ answer \in [Writes -> Answers]
        /\ \A v \in Writes : req[v] = NoRequest <=> pc[v] = "idle"
    BY DEF TypeInv, StoreTypeOK, TypeOK, Refused, Dangling, KeyReady, Upserting, UpdateNothing, Steps
  <1>1. CASE Refused(w)
    <2>1. [via |-> "error", doc |-> NoRow] \in Answers
      BY DEF Answers
    <2>2. pc' = [pc EXCEPT ![w] = "done"] /\ UNCHANGED <<tables, local>>
      BY <1>1 DEF Refused, Answer, GoTo
    <2>3. answer' \in [Writes -> Answers]
      BY <1>0, <1>1, <2>1 DEF Refused, Answer
    <2>4. /\ pc' \in [Writes -> Steps \cup {"idle", "done", "dead"}]
          /\ \A v \in Writes : pc'[v] = "idle" <=> pc[v] = "idle"
      BY <1>0, <2>2 DEF Steps
    <2>5. TypeOK'
      BY <1>0, <2>2, <2>3, <2>4 DEF TypeOK, tables, local
    <2>6. \A v \in Writes : TodoUnits(v)'
      BY <2>2 DEF TypeInv, CallTyped, TodoUnits, Chunks, local
    <2>7. \A v \in Writes : pc'[v] = pc[v] \/ pc'[v] = "done"
      BY <1>0, <2>2
    <2> QED
      BY <2>2, <2>5, <2>6, <2>7 DEF TypeInv, CallTyped, Chunks, local
  <1>2. CASE UpdateNothing(w)
    <2>1. PICK step \in {"chunk", "point3"} : pc' = [pc EXCEPT ![w] = step]
      BY <1>2 DEF UpdateNothing, GoTo
    <2>2. UNCHANGED <<tables, req, chunkAt, unitAt, answer>>
      BY <1>2 DEF UpdateNothing
    <2>3. /\ pc' \in [Writes -> Steps \cup {"idle", "done", "dead"}]
          /\ \A v \in Writes : pc'[v] = "idle" <=> pc[v] = "idle"
          /\ \A v \in Writes : pc'[v] = pc[v] \/ pc'[v] \in {"chunk", "point3"}
      BY <1>0, <2>1 DEF Steps
    <2>4. todo' = todo \/ (todo[w] # << >> /\ todo' = [todo EXCEPT ![w] = Tail(@)])
      BY <1>0, <1>2 DEF UpdateNothing, CallTyped
    <2>5. todo' \in [Writes -> Seq(L3Rows)]
      <3>1. todo[w] # << >> => Tail(todo[w]) \in Seq(L3Rows)
        BY <1>0
      <3> QED
        BY <1>0, <2>4, <3>1
    <2>6. TypeOK'
      BY <1>0, <2>2, <2>3, <2>5 DEF TypeOK, tables
    <2>7. ASSUME NEW v \in Writes PROVE CallTyped(v)'
      <3>1. TodoUnits(v) /\ todo[v] \in Seq(L3Rows) /\ Chunks(v)' = Chunks(v)
        BY <1>0, <2>2 DEF TypeInv, CallTyped, Chunks
      <3>2. todo'[v] = todo[v] \/ (todo[v] # << >> /\ todo'[v] = Tail(todo[v]))
        BY <1>0, <2>4
      <3>3. TodoUnits(v)'
        BY <3>1, <3>2, TodoShrinks
      <3>4. todo[v] = << >> => todo'[v] = << >>
        BY <3>2
      <3>6. pc'[v] = "note" => v # w /\ todo'[v] = todo[v]
        BY <1>0, <2>1, <2>4
      <3>7. chunkAt'[v] = chunkAt[v]
        BY <2>2
      <3> QED
        BY <2>3, <3>1, <3>3, <3>4, <3>6, <3>7 DEF TypeInv, CallTyped
    <2> QED
      BY <2>6, <2>7
  <1> QED
    BY <1>1, <1>2
\* The reset takes rows and points away and moves no call.
LEMMA DeletedTyped ==
  ASSUME TypeInv, DeleteRows
  PROVE  TypeInv'
  <1>0. StoreTypeOK /\ TypeOK
    BY DEF TypeInv, StoreTypeOK
  <1>1. l1' \in Seq(Writes)
    BY <1>0, KeptRows DEF DeleteRows
  <1>2. version' \in [Mids -> Nat] /\ current' \in [Mids -> Writes \cup {NoRow}]
    BY <1>0 DEF DeleteRows, TypeOK
  <1>3. l2' \subseteq L2Rows /\ l3' \subseteq L3Rows /\ noted' \subseteq L3Rows
    BY <1>0 DEF DeleteRows, TypeOK
  <1>4. UNCHANGED <<points1, points3, pc, local, answer>>
    BY DEF DeleteRows
  <1>5. TypeOK'
    BY <1>0, <1>1, <1>2, <1>3, <1>4 DEF TypeOK, local
  <1>6. \A v \in Writes : CallTyped(v)'
    BY <1>4, TypedStays DEF TypeInv, local
  <1>7. gone' \subseteq Projects /\ wiped' \subseteq Writes
    BY <1>0 DEF DeleteRows, StoreTypeOK, Doomed
  <1>8. StoreTypeOK'
    BY <1>0, <1>5, <1>7 DEF DeleteRows, StoreTypeOK
  <1> QED
    BY <1>6, <1>8 DEF TypeInv

LEMMA ResetTyped ==
  ASSUME TypeInv, BeginReset \/ Reset
  PROVE  TypeInv'
  <1>0. StoreTypeOK /\ TypeOK
    BY DEF TypeInv, StoreTypeOK
  <1>1. CASE ~DeleteRows
    <2>1. /\ UNCHANGED <<version, current, l1, l2, l3, noted, pc, local, answer, words, cached,
                         tuber, gone, wiped, lost>>
          /\ points1' \subseteq points1 /\ points3' \subseteq points3 /\ keys' \subseteq keys
          /\ beside' \subseteq beside \cup Active
          /\ stage' \in {"rows", "points", "create", "over"}
          /\ scope' \in Projects \cup {"all"} /\ half' \in BOOLEAN /\ collection' \in BOOLEAN
      <3>1. CASE BeginReset
        BY <1>0, <3>1 DEF BeginReset, StoreTypeOK, vars, tables, tuberVars
      <3>2. CASE RowsFail \/ CreateCollection \/ ResetStops
        BY <1>0, <3>2 DEF RowsFail, CreateCollection, ResetStops, StoreTypeOK, vars, tables,
                          tuberVars, history
      <3>3. CASE DeletePoints \/ DropCollection
        BY <1>0, <3>3 DEF DeletePoints, DropCollection, StoreTypeOK, tuberVars, history
      <3> QED
        BY <1>1, <3>1, <3>2, <3>3 DEF Reset
    <2>2. TypeOK'
      BY <1>0, <2>1 DEF TypeOK, local
    <2>3. \A v \in Writes : CallTyped(v)'
      BY <2>1, TypedStays DEF TypeInv, local
    <2>4. StoreTypeOK'
      BY <1>0, <2>1, <2>2 DEF StoreTypeOK, Active
    <2> QED
      BY <2>3, <2>4 DEF TypeInv
  <1> QED
    BY <1>1, DeletedTyped

LEMMA TuberTyped ==
  ASSUME TypeInv, NEW w \in Writes, AskRedis(w) \/ InsertWord(w) \/ CacheWord(w)
  PROVE  TypeInv'
  <1>0. StoreTypeOK /\ Word(w) \in Keywords
    BY WordTyped DEF TypeInv, AskRedis, InsertWord, CacheWord
  <1>1. UNCHANGED <<vars, resetVars, collection, keys, history>>
    BY DEF AskRedis, InsertWord, CacheWord
  <1>2. /\ words' \subseteq words \cup {Word(w)} /\ cached' \subseteq cached \cup {Word(w)}
        /\ tuber' \in [Writes -> {"ask", "insert", "cache", "known", "unknown"}]
    BY <1>0 DEF AskRedis, InsertWord, CacheWord, TuberTo, StoreTypeOK
  <1>3. TypeOK'
    BY <1>0, <1>1 DEF StoreTypeOK, TypeOK, vars, tables, local
  <1>4. \A v \in Writes : CallTyped(v)'
    BY <1>1, TypedStays DEF TypeInv, vars, local
  <1>5. StoreTypeOK'
    BY <1>0, <1>1, <1>2, <1>3 DEF StoreTypeOK, resetVars, history
  <1> QED
    BY <1>4, <1>5 DEF TypeInv

LEMMA CallStepTyped ==
  ASSUME TypeInv, NEW w \in Writes, BeginWrite(w) \/ RowStep(w) \/ PutPoint(w)
  PROVE  TypeInv'
  <1>0. StoreTypeOK
    BY DEF TypeInv
  <1>1. TypeOK' /\ \A v \in Writes : CallTyped(v)'
    <2>1. CASE BeginWrite(w)
      BY <2>1, WriteTyped DEF BeginWrite
    <2>2. CASE PutPoint(w)
      BY <2>2, WriteTyped DEF PutPoint, Write
    <2>3. CASE WholeStep(w)
      BY <2>3, WriteTyped DEF WholeStep, Write
    <2> QED
      BY <2>1, <2>2, <2>3, RemainsTyped DEF RowStep
  <1>2. CASE PutPoint(w)
    <2>1. Word(w) \in Keywords /\ Head(todo[w]) \in L3Rows
      BY <1>2, WordTyped DEF PutPoint, KeyReady
    <2>2. keys' \subseteq keys \cup {<<Head(todo[w]), Word(w)>>}
      BY <1>2 DEF PutPoint
    <2>3. keys' \subseteq L3Rows \X Keywords
      BY <1>0, <2>1, <2>2 DEF StoreTypeOK
    <2>4. tuber' \in [Writes -> {"ask", "insert", "cache", "known", "unknown"}]
      BY <1>0, <1>2 DEF PutPoint, TuberTo, StoreTypeOK
    <2>5. StoreTypeOK'
      BY <1>0, <1>1, <1>2, <2>3, <2>4 DEF PutPoint, StoreTypeOK, resetVars, history
    <2> QED
      BY <1>1, <2>5 DEF TypeInv
  <1>3. CASE BeginWrite(w) \/ RowStep(w)
    <2>1. /\ UNCHANGED <<resetVars, collection, tuberVars, keys, wiped, lost>>
          /\ beside' \subseteq beside \cup {w}
      BY <1>3 DEF BeginWrite, RowStep, history
    <2>2. StoreTypeOK'
      BY <1>0, <1>1, <2>1 DEF StoreTypeOK, resetVars, tuberVars
    <2> QED
      BY <1>1, <2>2 DEF TypeInv
  <1> QED
    BY <1>2, <1>3

LEMMA StoreTypeStep == TypeInv /\ [StoreNext]_storeVars => TypeInv'
  <1> SUFFICES ASSUME TypeInv, [StoreNext]_storeVars PROVE TypeInv'
    OBVIOUS
  <1>1. CASE UNCHANGED storeVars
    <2>1. UNCHANGED <<vars, resetVars, collection, tuberVars, keys, history>>
      BY <1>1 DEF storeVars
    <2>2. TypeOK'
      BY <2>1 DEF TypeInv, StoreTypeOK, TypeOK, vars, tables, local
    <2>3. \A v \in Writes : CallTyped(v)'
      BY <2>1, TypedStays DEF TypeInv, vars, local
    <2>4. StoreTypeOK'
      BY <2>1, <2>2 DEF TypeInv, StoreTypeOK, resetVars, tuberVars, history
    <2> QED
      BY <2>3, <2>4 DEF TypeInv
  <1>2. ASSUME NEW w \in Writes, BeginWrite(w) \/ StoreWrite(w) PROVE TypeInv'
    BY <1>2, CallStepTyped, TuberTyped DEF StoreWrite
  <1> QED
    BY <1>1, <1>2, ResetTyped DEF StoreNext

\* Rows, points, keywords and what every call still has to do keep their types while
\* a reset and the Tuber work on the same stores: a call never asks for the keyword
\* of a unit that is not there, also on the remains of its document.
THEOREM StoreTypeCorrect == StoreSpec => []StoreTypeOK
  <1>1. TypeInv => StoreTypeOK
    BY DEF TypeInv
  <1> QED
    BY TypeInit, StoreTypeStep, <1>1, PTL DEF StoreSpec
-----------------------------------------------------------------------------
(* Points and rows.                                                        *)

\* The reset has deleted on one side and not yet on the other; on both, or neither.
Cut  == stage = "points" /\ ~half
Even == half <=> stage = "points"

\* The rows of w that name a point are those that have one; a row whose point was
\* just put is about to.
Matched(w) == /\ \A e \in points3 : e[1] = w /\ e \notin noted =>
                   pc[w] = "note" /\ e = Head(todo[w])
              /\ \A e \in noted : e[1] = w => e \in points3
              /\ pc[w] = "note" => Head(todo[w]) \in points3

\* While the deletion is cut in two, the calls in its scope have no rows.
MatchInv == \A w \in Writes \ beside :
  /\ Even => Matched(w)
  /\ Cut => IF InScope(w) THEN \A e \in noted : e[1] # w ELSE Matched(w)

\* Its points may be without their rows.
Orphan(w) == w \in wiped \cap beside \/ (Cut /\ InScope(w))

PointsKept == Even \/ Cut => /\ \A w \in points1 : InL1(w) \/ Orphan(w)
                             /\ \A e \in points3 : e \in l3 \/ Orphan(e[1])

\* What a call has written is there unless it was deleted under it, and that
\* happens to no call but one that runs beside the reset.
CallKept(w) ==
  /\ pc[w] \in {"idle", "title", "machine", "upsert"} => version[MidOf[w]] = 0 /\ w \notin wiped
  /\ pc[w] \in Steps /\ (w \in wiped \/ Resetting) => w \in beside
  /\ w \notin wiped => /\ pc[w] \in HasDoc => version[MidOf[w]] > 0
                       /\ pc[w] \in HasL1 => InL1(w)
                       /\ \A n \in DOMAIN todo[w] : todo[w][n] \in l3

RowsHaveDoc == \A e \in l3 : version[MidOf[e[1]]] > 0

KeptInv == /\ stage \in {"idle", "rows"} => ~half
           /\ RowsHaveDoc /\ PointsKept
           /\ \A w \in Writes : CallKept(w)

LEMMA KeptInit == StoreInit => KeptInv /\ MatchInv
  <1> SUFFICES ASSUME StoreInit PROVE KeptInv /\ MatchInv
    OBVIOUS
  <1>1. /\ stage = "idle" /\ half = FALSE /\ wiped = {} /\ beside = {} /\ Init
        /\ pc = [w \in Writes |-> "idle"] /\ todo = [w \in Writes |-> << >>]
        /\ version = [m \in Mids |-> 0]
        /\ l3 = {} /\ points1 = {} /\ points3 = {} /\ noted = {}
    BY DEF StoreInit, Init
  <1>2. \A w \in Writes : pc[w] = "idle" /\ todo[w] = << >> /\ version[MidOf[w]] = 0
    BY <1>1, SinkAssumption
  <1>3. \A w \in Writes : CallKept(w)
    BY <1>1, <1>2 DEF CallKept, HasDoc, HasL1, Steps
  <1>4. \A w \in Writes : Matched(w)
    BY <1>1, <1>2 DEF Matched
  <1>5. ~Cut
    BY <1>1 DEF Cut
  <1> QED
    BY <1>1, <1>3, <1>4, <1>5 DEF KeptInv, RowsHaveDoc, PointsKept, MatchInv

\* A step that left what belongs to call v as it was.
Leaves(v) == /\ pc'[v] = pc[v] /\ todo'[v] = todo[v]
             /\ version'[MidOf[v]] = version[MidOf[v]]
             /\ InL1(v)' <=> InL1(v)
             /\ v \in points1' <=> v \in points1
             /\ \A e : e[1] = v => /\ e \in l3' <=> e \in l3
                                   /\ e \in points3' <=> e \in points3
                                   /\ e \in noted' <=> e \in noted

\* A step of a call: where it stands in the reset and which calls were hit stays.
CallStep(w) == BeginWrite(w) \/ RowStep(w) \/ PutPoint(w)

LEMMA CallStepFrame ==
  ASSUME NEW w \in Writes, CallStep(w)
  PROVE  /\ UNCHANGED <<stage, scope, half, wiped>>
         /\ beside \subseteq beside' /\ beside' \subseteq beside \cup {w}
         /\ Cut' <=> Cut
         /\ Even' <=> Even
         /\ Resetting' <=> Resetting
         /\ \A v : InScope(v)' <=> InScope(v)
  <1>1. /\ UNCHANGED <<stage, scope, half, wiped>>
        /\ beside \subseteq beside' /\ beside' \subseteq beside \cup {w}
    BY DEF CallStep, BeginWrite, RowStep, PutPoint, resetVars, history
  <1> QED
    BY <1>1 DEF Cut, Even, Resetting, InScope

\* The next row to be embedded is the call's own.
LEMMA HeadIsOwn ==
  ASSUME TypeInv, NEW w \in Writes, todo[w] # << >>
  PROVE  /\ Head(todo[w]) = todo[w][1] /\ 1 \in DOMAIN todo[w] /\ Head(todo[w])[1] = w
         /\ Head(todo[w]) \in L3Rows
         /\ \A n \in DOMAIN Tail(todo[w]) :
              n + 1 \in DOMAIN todo[w] /\ Tail(todo[w])[n] = todo[w][n + 1]
  <1>1. todo[w] \in Seq(L3Rows) /\ TodoUnits(w)
    BY DEF TypeInv, StoreTypeOK, TypeOK, CallTyped
  <1>2. Head(todo[w]) = todo[w][1] /\ 1 \in DOMAIN todo[w] /\ Head(todo[w]) \in L3Rows
    BY <1>1
  <1>3. \A n \in DOMAIN Tail(todo[w]) :
          n + 1 \in DOMAIN todo[w] /\ Tail(todo[w])[n] = todo[w][n + 1]
    BY <1>1
  <1> QED
    BY <1>1, <1>2, <1>3 DEF TodoUnits

\* A call leaves what belongs to the others: the machine ids are their own.
LEMMA OthersLeft ==
  ASSUME TypeInv, NEW w \in Writes, CallStep(w), NEW v \in Writes, v # w
  PROVE  Leaves(v)
  <1>0. /\ TypeOK /\ pc \in [Writes -> Steps \cup {"idle", "done", "dead"}]
        /\ todo \in [Writes -> Seq(L3Rows)] /\ l1 \in Seq(Writes)
        /\ version \in [Mids -> Nat] /\ LocalOK
    BY DEF TypeInv, StoreTypeOK, TypeOK, LocalOK
  <1>1. MidOf[v] # MidOf[w]
    BY StoreAssumption DEF OwnIds
  <1>2. pc'[v] = pc[v] /\ todo'[v] = todo[v]
    <2>1. CASE BeginWrite(w)
      BY <1>0, <2>1 DEF BeginWrite, Begin, GoTo
    <2>2. CASE Refused(w)
      BY <1>0, <2>2 DEF Refused, Answer, GoTo, local
    <2>3. CASE UpdateNothing(w)
      BY <1>0, <2>3 DEF UpdateNothing, GoTo
    <2>4. CASE Write(w)
      BY <1>0, <2>4, WriteMoves
    <2> QED
      BY <2>1, <2>2, <2>3, <2>4 DEF CallStep, RowStep, WholeStep, PutPoint, Write
  <1>3. CASE UNCHANGED tables
    BY <1>2, <1>3 DEF Leaves, tables, InL1
  <1>4. CASE UpsertDoc(w)
    <2>1. version'[MidOf[v]] = version[MidOf[v]]
      BY <1>0, <1>1, <1>4 DEF UpsertDoc
    <2> QED
      BY <1>2, <1>4, <2>1 DEF UpsertDoc, Leaves, InL1
  <1>5. CASE InsertL1(w)
    <2>1. l1' = Append(l1, w)
      BY <1>5 DEF InsertL1
    <2>2. InL1(v)' <=> InL1(v)
      <3>1. /\ \A k \in DOMAIN l1 : k \in DOMAIN Append(l1, w) /\ Append(l1, w)[k] = l1[k]
            /\ \A k \in DOMAIN Append(l1, w) : k \in DOMAIN l1 \/ Append(l1, w)[k] = w
        BY <1>0
      <3> QED
        BY <2>1, <3>1 DEF InL1
    <2> QED
      BY <1>2, <1>5, <2>2 DEF InsertL1, Leaves
  <1>6. CASE SetCurrent(w) \/ InsertL2(w)
    BY <1>2, <1>6 DEF SetCurrent, InsertL2, Leaves, InL1
  <1>7. CASE InsertHeading(w) \/ InsertUnit(w)
    <2>1. PICK k : l3' = l3 \cup {<<w, chunkAt[w], k>>}
      BY <1>7 DEF InsertHeading, InsertUnit
    <2>2. \A e : e[1] = v => (e \in l3' <=> e \in l3)
      BY <2>1
    <2> QED
      BY <1>2, <1>7, <2>2 DEF InsertHeading, InsertUnit, Leaves, InL1
  <1>8. CASE PutL1(w)
    BY <1>2, <1>8 DEF PutL1, Leaves, InL1
  <1>9. CASE PutL3(w) \/ Note(w)
    <2>1. Head(todo[w])[1] = w
      BY <1>9, HeadIsOwn DEF PutL3, Note
    <2>2. \A e : e[1] = v => /\ e \in points3' <=> e \in points3
                             /\ e \in noted' <=> e \in noted
      BY <1>9, <2>1 DEF PutL3, Note
    <2> QED
      BY <1>2, <1>9, <2>2 DEF PutL3, Note, Leaves, InL1
  <1>10. ASSUME Begin(w) \/ Refused(w) \/ UpdateNothing(w) PROVE UNCHANGED tables
    BY <1>10 DEF Begin, Refused, UpdateNothing
  <1>11. ASSUME \/ SkipByTitle(w) \/ MissTitle(w) \/ SkipByHead(w) \/ MissHead(w)
                \/ DropUnit(w) \/ EndChunk(w) \/ EndRows(w) \/ SkipL1(w) \/ SkipL3(w)
                \/ Finish(w) \/ Fail(w)
         PROVE  UNCHANGED tables
    BY <1>11 DEF SkipByTitle, MissTitle, SkipByHead, MissHead, DropUnit, EndChunk, EndRows,
                 SkipL1, SkipL3, Finish, Fail
  <1>12. CASE Write(w)
    BY <1>3, <1>4, <1>5, <1>6, <1>7, <1>8, <1>9, <1>11, <1>12 DEF Write
  <1>13. \/ Begin(w) \/ Refused(w) \/ UpdateNothing(w) \/ Write(w)
    BY DEF CallStep, BeginWrite, RowStep, WholeStep, PutPoint, Write
  <1> QED
    BY <1>3, <1>10, <1>12, <1>13
\* What the step of a call promises: it adds rows only while its document is there,
\* and points only for rows that are, or were until they were deleted under it.
Writer(w) == /\ CallKept(w)'
             /\ InL1(w) => InL1(w)'
             /\ \A e : e[1] = w => /\ e \in l3 => e \in l3'
                                   /\ e \in l3' => version'[MidOf[w]] > 0
             /\ w \in points1' => w \in points1 \/ InL1(w)' \/ w \in wiped \cap beside'
             /\ \A e \in points3' : e[1] = w =>
                  e \in points3 \/ e \in l3' \/ w \in wiped \cap beside'

LEMMA CallerWrites ==
  ASSUME TypeInv, NEW w \in Writes, CallKept(w), RowsHaveDoc, CallStep(w)
  PROVE  Writer(w)
  <1>0. /\ TypeOK /\ pc \in [Writes -> Steps \cup {"idle", "done", "dead"}]
        /\ todo \in [Writes -> Seq(L3Rows)] /\ l1 \in Seq(Writes)
        /\ version \in [Mids -> Nat] /\ MidOf[w] \in Mids
    BY SinkAssumption DEF TypeInv, StoreTypeOK, TypeOK
  <1>f. /\ wiped' = wiped /\ beside \subseteq beside'
        /\ Resetting' <=> Resetting
    BY CallStepFrame
  <1>m. \A e \in l3 : e[1] = w => version[MidOf[w]] > 0
    BY DEF RowsHaveDoc
  <1> USE DEF GoTo, Answer
  <1> DEFINE Before == {"title", "machine", "upsert"}
             Shrinks == todo'[w] = todo[w] \/ (todo[w] # << >> /\ todo'[w] = Tail(todo[w]))
  \* Steps that add no row.
  <1>1. ASSUME UNCHANGED <<version, l1, l3>>, Shrinks,
               pc'[w] = "done" \/ (pc[w] \in Steps /\ pc'[w] \in Steps),
               pc'[w] \in Before => pc[w] \in Before,
               pc'[w] \in HasDoc => pc[w] \in HasDoc,
               pc'[w] \in HasL1 => pc[w] \in HasL1
        PROVE  /\ CallKept(w)' /\ (InL1(w)' <=> InL1(w))
               /\ \A e : e[1] = w => /\ e \in l3' <=> e \in l3
                                     /\ e \in l3' => version'[MidOf[w]] > 0
    <2>1. ASSUME w \notin wiped, NEW n \in DOMAIN todo'[w] PROVE todo'[w][n] \in l3
      <3>1. PICK m \in DOMAIN todo[w] : todo'[w][n] = todo[w][m]
        <4>1. CASE todo'[w] = todo[w]
          BY <2>1, <4>1
        <4>2. CASE todo[w] # << >> /\ todo'[w] = Tail(todo[w])
          <5>1. n + 1 \in DOMAIN todo[w] /\ todo'[w][n] = todo[w][n + 1]
            BY <2>1, <4>2, HeadIsOwn
          <5> QED
            BY <5>1
        <4> QED
          BY <1>1, <4>1, <4>2
      <3> QED
        BY <2>1, <3>1 DEF CallKept
    <2>2. pc'[w] \in Steps => pc[w] \in Steps
      BY <1>1 DEF Steps
    <2>3. InL1(w)' <=> InL1(w)
      BY <1>1 DEF InL1
    <2>4. CallKept(w)'
      BY <1>1, <1>f, <2>1, <2>2, <2>3 DEF CallKept, Steps, HasDoc, HasL1
    <2> QED
      BY <1>1, <1>m, <2>3, <2>4
  <1>2. ASSUME UNCHANGED tables, Shrinks,
               pc'[w] = "done" \/ (pc[w] \in Steps /\ pc'[w] \in Steps),
               pc'[w] \in Before => pc[w] \in Before,
               pc'[w] \in HasDoc => pc[w] \in HasDoc,
               pc'[w] \in HasL1 => pc[w] \in HasL1
        PROVE  Writer(w)
    <2>1. UNCHANGED <<version, l1, l3, points1, points3>>
      BY <1>2 DEF tables
    <2> HIDE DEF Shrinks, Before
    <2> QED
      BY <1>1, <1>2, <2>1 DEF Writer
  <1>3. CASE BeginWrite(w)
    <2>1. /\ pc[w] = "idle" /\ pc'[w] = "title" /\ UNCHANGED <<tables, todo>>
          /\ Resetting => w \in beside'
      BY <1>0, <1>3 DEF BeginWrite, Begin
    <2>2. CallKept(w)'
      BY <1>f, <2>1 DEF CallKept, tables, HasDoc, HasL1, Steps, InL1
    <2> QED
      BY <1>m, <2>1, <2>2 DEF Writer, tables, InL1
  <1>4. CASE Refused(w) \/ UpdateNothing(w)
    <2>1. pc[w] = "note" => todo[w] # << >>
      BY DEF TypeInv, CallTyped
    <2>2. /\ UNCHANGED tables /\ Shrinks
          /\ pc'[w] = "done" \/ (pc[w] \in {"current", "note"} /\ pc'[w] \in {"chunk", "point3"})
      BY <1>0, <1>4, <2>1 DEF Refused, UpdateNothing, local
    <2> HIDE DEF Shrinks
    <2> QED
      BY <1>2, <2>2 DEF HasDoc, HasL1, Steps
  <1>5. CASE WholeStep(w) \/ PutPoint(w)
    <2>0. pc[w] \in {"l1", "heading"} \/ (pc[w] = "unit" /\ unitAt[w] <= Len(ThisChunk(w).units))
            => w \notin wiped
      BY <1>5 DEF WholeStep, Dangling, PutPoint, KeyReady, Upserting
    <2>1. CASE \/ SkipByTitle(w) \/ MissTitle(w) \/ SkipByHead(w) \/ MissHead(w) \/ EndChunk(w)
               \/ DropUnit(w) \/ EndRows(w) \/ SkipL1(w) \/ SkipL3(w) \/ Finish(w) \/ Fail(w)
      <3>1. /\ UNCHANGED tables /\ Shrinks
            /\ \/ pc'[w] = "done"
               \/ pc[w] = "title" /\ pc'[w] = "machine"
               \/ pc[w] = "machine" /\ pc'[w] = "upsert"
               \/ pc[w] \in {"chunk", "unit", "point1", "point3"} /\ pc'[w] \in {"chunk", "unit", "point1", "point3"}
        BY <1>0, <2>1 DEF SkipByTitle, MissTitle, SkipByHead, MissHead, EndChunk, DropUnit,
           EndRows, SkipL1, SkipL3, Finish, Fail, local
      <3> HIDE DEF Shrinks
      <3> QED
        BY <1>2, <3>1 DEF HasDoc, HasL1, Steps
    <2>2. CASE UpsertDoc(w)
      <3>1. /\ pc[w] = "upsert" /\ pc'[w] = "l1" /\ version'[MidOf[w]] > 0
            /\ UNCHANGED <<l1, l3, todo, points1, points3>>
        BY <1>0, <2>2 DEF UpsertDoc, local
      <3>2. CallKept(w)'
        BY <1>f, <3>1 DEF CallKept, HasDoc, HasL1, Steps
      <3> QED
        BY <3>1, <3>2 DEF Writer, InL1
    <2>3. CASE InsertL1(w)
      <3>1. /\ pc[w] = "l1" /\ pc'[w] = "current" /\ l1' = Append(l1, w)
            /\ UNCHANGED <<version, l3, todo, points1, points3>>
        BY <1>0, <2>3 DEF InsertL1, local
      <3>2. InL1(w)'
        <4>1. Len(l1) + 1 \in DOMAIN Append(l1, w) /\ Append(l1, w)[Len(l1) + 1] = w
          BY <1>0
        <4> QED
          BY <3>1, <4>1 DEF InL1
      <3>3. CallKept(w)'
        BY <1>f, <3>1, <3>2 DEF CallKept, HasDoc, HasL1, Steps
      <3> QED
        BY <1>m, <3>1, <3>2, <3>3 DEF Writer
    <2>4. CASE SetCurrent(w) \/ InsertL2(w)
      <3>1. /\ UNCHANGED <<version, l1, l3, points1, points3>> /\ Shrinks
            /\ pc[w] \in {"current", "chunk"} /\ pc'[w] \in {"chunk", "unit", "heading"}
        BY <1>0, <2>4 DEF SetCurrent, InsertL2, local
      <3> HIDE DEF Shrinks
      <3> QED
        BY <1>1, <3>1 DEF Writer, HasDoc, HasL1, Steps
    <2>5. CASE InsertHeading(w) \/ InsertUnit(w)
      <3>1. PICK k : l3' = l3 \cup {<<w, chunkAt[w], k>>}
        BY <2>5 DEF InsertHeading, InsertUnit
      <3>2. /\ pc[w] \in {"heading", "unit"} /\ pc'[w] = "unit" /\ w \notin wiped
            /\ UNCHANGED <<version, l1, points1, points3>>
        BY <1>0, <2>0, <2>5 DEF InsertHeading, InsertUnit
      <3>3. version[MidOf[w]] > 0 /\ InL1(w)
        BY <3>2 DEF CallKept, HasDoc, HasL1, Steps
      <3>4. \A n \in DOMAIN todo'[w] : todo'[w][n] \in l3'
        <4>1. CASE todo'[w] = todo[w]
          BY <3>1, <3>2, <4>1 DEF CallKept
        <4>2. CASE InsertUnit(w) /\ todo'[w] # todo[w]
          <5> DEFINE row == <<w, chunkAt[w], unitAt[w]>>
          <5>1. todo'[w] = Append(todo[w], row) /\ row \in l3'
            BY <1>0, <4>2 DEF InsertUnit
          <5>2. \A n \in DOMAIN Append(todo[w], row) :
                  \/ n \in DOMAIN todo[w] /\ Append(todo[w], row)[n] = todo[w][n]
                  \/ Append(todo[w], row)[n] = row
            <6>1. todo[w] \in Seq(L3Rows)
              BY <1>0
            <6> HIDE DEF row
            <6> QED
              BY <6>1
          <5> HIDE DEF row
          <5> QED
            BY <3>1, <3>2, <5>1, <5>2 DEF CallKept
        <4> QED
          BY <2>5, <4>1, <4>2 DEF InsertHeading, local
      <3>5. InL1(w)' <=> InL1(w)
        BY <3>2 DEF InL1
      <3>6. CallKept(w)'
        BY <1>f, <3>2, <3>3, <3>4, <3>5 DEF CallKept, HasDoc, HasL1, Steps
      <3> QED
        BY <3>1, <3>2, <3>3, <3>5, <3>6 DEF Writer
    <2>6. CASE PutL1(w) \/ PutL3(w) \/ Note(w)
      <3>1. /\ UNCHANGED <<version, l1, l3>> /\ Shrinks
            /\ pc[w] \in {"point1", "point3", "note"} /\ pc'[w] \in {"point3", "note"}
        BY <1>0, <2>6 DEF PutL1, PutL3, Note, local
      <3>2. /\ CallKept(w)' /\ (InL1(w)' <=> InL1(w))
            /\ \A e : e[1] = w => /\ e \in l3' <=> e \in l3
                                  /\ e \in l3' => version'[MidOf[w]] > 0
        <4> HIDE DEF Shrinks
        <4> QED
          BY <1>1, <3>1 DEF HasDoc, HasL1, Steps
      <3>3. w \in points1' => w \in points1 \/ InL1(w)' \/ w \in wiped \cap beside'
        BY <1>f, <2>6, <3>1, <3>2 DEF PutL1, PutL3, Note, CallKept, HasL1, HasDoc, Steps
      <3>4. \A e \in points3' : e \in points3 \/ e \in l3' \/ w \in wiped \cap beside'
        <4>1. CASE PutL3(w)
          <5>1. points3' = points3 \cup {Head(todo[w])} /\ todo[w] # << >>
            BY <4>1 DEF PutL3
          <5>2. Head(todo[w]) \in l3 \/ w \in wiped \cap beside'
            BY <1>f, <3>1, <5>1, HeadIsOwn DEF CallKept, Steps
          <5> QED
            BY <3>1, <5>1, <5>2
        <4> QED
          BY <2>6, <4>1 DEF PutL1, Note
      <3> QED
        BY <3>2, <3>3, <3>4 DEF Writer
    <2>7. Write(w)
      BY <1>5 DEF WholeStep, PutPoint, Write
    <2> QED
      BY <2>1, <2>2, <2>3, <2>4, <2>5, <2>6, <2>7 DEF Write
  <1> QED
    BY <1>3, <1>4, <1>5 DEF CallStep, RowStep
\* A call's step keeps what is between rows and points.
LEMMA CallKeeps ==
  ASSUME TypeInv, TypeInv', KeptInv, NEW w \in Writes, CallStep(w)
  PROVE  KeptInv'
  <1>0. /\ Writer(w) /\ \A v \in Writes : v # w => Leaves(v)
        /\ l3' \subseteq L3Rows /\ points1' \subseteq Writes /\ points3' \subseteq L3Rows
        /\ \A e \in L3Rows : e[1] \in Writes
    BY CallerWrites, OthersLeft DEF KeptInv, TypeInv, StoreTypeOK, TypeOK, L3Rows
  <1>f. /\ UNCHANGED <<stage, scope, half, wiped>> /\ beside \subseteq beside'
        /\ Cut' <=> Cut
        /\ Even' <=> Even
        /\ Resetting' <=> Resetting
        /\ \A v : InScope(v)' <=> InScope(v)
    BY CallStepFrame
  <1>1. RowsHaveDoc'
    <2> SUFFICES ASSUME NEW e \in l3' PROVE version'[MidOf[e[1]]] > 0
      BY DEF RowsHaveDoc
    <2>1. CASE e[1] = w
      BY <1>0, <2>1 DEF Writer
    <2>2. CASE e[1] # w
      BY <1>0, <2>2 DEF Leaves, KeptInv, RowsHaveDoc
    <2> QED
      BY <2>1, <2>2
  <1>2. ASSUME NEW v \in Writes PROVE CallKept(v)'
    <2>1. CASE v = w
      BY <1>0, <2>1 DEF Writer
    <2>2. CASE v # w
      <3>1. CallKept(v) /\ Leaves(v) /\ TodoUnits(v)
        BY <1>0, <2>2 DEF KeptInv, TypeInv, CallTyped
      <3>2. \A n \in DOMAIN todo[v] : todo[v][n] \in l3 => todo[v][n] \in l3'
        BY <3>1 DEF Leaves, TodoUnits
      <3> QED
        BY <1>f, <3>1, <3>2 DEF CallKept, Leaves
    <2> QED
      BY <2>1, <2>2
  <1>3. ASSUME NEW v \in Writes, Orphan(v) PROVE Orphan(v)'
    BY <1>f, <1>3 DEF Orphan
  <1>4. ASSUME Even' \/ Cut', NEW v \in points1' PROVE InL1(v)' \/ Orphan(v)'
    <2>1. \A u \in points1 : InL1(u) \/ Orphan(u)
      BY <1>4, <1>f DEF KeptInv, PointsKept
    <2>2. CASE v = w
      BY <1>0, <1>3, <1>f, <2>1, <2>2 DEF Writer, Orphan
    <2>3. CASE v # w
      BY <1>0, <1>3, <2>1, <2>3 DEF Leaves
    <2> QED
      BY <2>2, <2>3
  <1>5. ASSUME Even' \/ Cut', NEW e \in points3' PROVE e \in l3' \/ Orphan(e[1])'
    <2>1. \A d \in points3 : d \in l3 \/ Orphan(d[1])
      BY <1>5, <1>f DEF KeptInv, PointsKept
    <2>2. CASE e[1] = w
      BY <1>0, <1>3, <1>f, <2>1, <2>2 DEF Writer, Orphan
    <2>3. CASE e[1] # w
      BY <1>0, <1>3, <2>1, <2>3 DEF Leaves
    <2> QED
      BY <2>2, <2>3
  <1>6. stage' \in {"idle", "rows"} => ~half'
    BY <1>f DEF KeptInv
  <1> QED
    BY <1>1, <1>2, <1>4, <1>5, <1>6 DEF KeptInv, PointsKept

\* Without database errors Note does what it says.
LEMMA CallMatches ==
  ASSUME "pg" \notin Faults, TypeInv, KeptInv, MatchInv, NEW w \in Writes, CallStep(w)
  PROVE  MatchInv'
  <1>f. /\ UNCHANGED <<stage, scope, half, wiped>> /\ beside \subseteq beside'
        /\ Cut' <=> Cut
        /\ Even' <=> Even
        /\ Resetting' <=> Resetting
        /\ \A v : InScope(v)' <=> InScope(v)
    BY CallStepFrame
  <1>1. ASSUME NEW v \in Writes, v # w PROVE (Matched(v) => Matched(v)') /\ Leaves(v)
    <2>1. Leaves(v)
      BY <1>1, OthersLeft
    <2>2. pc[v] = "note" => Head(todo[v])[1] = v
      BY HeadIsOwn DEF TypeInv, CallTyped
    <2> QED
      BY <2>1, <2>2 DEF Matched, Leaves
  <1>2. ASSUME w \notin beside' PROVE ~Cut' /\ (Matched(w) => Matched(w)')
    <2>0. /\ pc \in [Writes -> Steps \cup {"idle", "done", "dead"}]
          /\ todo \in [Writes -> Seq(L3Rows)]
      BY DEF TypeInv, StoreTypeOK, TypeOK
    <2>1. CASE BeginWrite(w)
      <3>1. /\ ~Resetting /\ pc'[w] = "title" /\ pc[w] = "idle"
            /\ UNCHANGED <<points3, noted>>
        BY <1>2, <2>0, <2>1 DEF BeginWrite, Begin, GoTo, tables
      <3> QED
        BY <1>f, <3>1 DEF Matched, Cut, Resetting
    <2>2. CASE RowStep(w) \/ PutPoint(w)
      <3>1. pc[w] \in Steps
        BY <2>0, <2>2, WriteMoves DEF RowStep, WholeStep, PutPoint, KeyReady, Upserting, Refused,
           Dangling, UpdateNothing, Write, TypeInv, StoreTypeOK, LocalOK, Steps
      <3>2. w \notin wiped /\ ~Resetting
        BY <1>2, <1>f, <3>1 DEF KeptInv, CallKept
      <3>3. ~UpdateNothing(w)
        BY <3>2 DEF UpdateNothing
      <3>4. CASE PutL3(w)
        <4>1. /\ points3' = points3 \cup {Head(todo[w])} /\ noted' = noted
              /\ pc[w] = "point3" /\ pc'[w] = "note" /\ todo' = todo
          BY <2>0, <3>4 DEF PutL3, GoTo, local
        <4> QED
          BY <1>f, <3>2, <4>1 DEF Matched, Cut, Resetting
      <3>5. CASE Note(w)
        <4>1. /\ points3' = points3 /\ noted' = noted \cup {Head(todo[w])}
              /\ pc[w] = "note" /\ pc'[w] = "point3"
          BY <2>0, <3>5 DEF Note, GoTo
        <4> QED
          BY <1>f, <3>2, <4>1 DEF Matched, Cut, Resetting
      <3>6. CASE ~PutL3(w) /\ ~Note(w)
        <4>1. /\ UNCHANGED <<points3, noted>> /\ pc[w] # "note" /\ pc'[w] # "note"
          <5>1. CASE Refused(w)
            BY <2>0, <5>1 DEF Refused, Dangling, KeyReady, Upserting, Answer, GoTo, tables
          <5>2. CASE Write(w)
            <6> USE DEF GoTo, Answer, tables
            <6>1. CASE \/ SkipByTitle(w) \/ MissTitle(w) \/ SkipByHead(w) \/ MissHead(w)
                       \/ UpsertDoc(w) \/ InsertL1(w) \/ SetCurrent(w) \/ InsertL2(w)
                       \/ InsertHeading(w) \/ EndRows(w) \/ PutL1(w) \/ SkipL1(w)
              BY <2>0, <6>1 DEF SkipByTitle, MissTitle, SkipByHead, MissHead, UpsertDoc,
                 InsertL1, SetCurrent, InsertL2, InsertHeading, EndRows, PutL1, SkipL1
            <6>2. CASE \/ InsertUnit(w) \/ DropUnit(w) \/ EndChunk(w) \/ SkipL3(w)
                       \/ Finish(w) \/ Fail(w)
              BY <2>0, <6>2 DEF InsertUnit, DropUnit, EndChunk, SkipL3, Finish, Fail
            <6> QED
              BY <3>6, <5>2, <6>1, <6>2 DEF Write
          <5> QED
            BY <2>2, <3>3, <3>6, <5>1, <5>2 DEF RowStep, WholeStep, PutPoint, Write
        <4> QED
          BY <1>f, <3>2, <4>1 DEF Matched, Cut, Resetting
      <3> QED
        BY <3>4, <3>5, <3>6
    <2> QED
      BY <2>1, <2>2 DEF CallStep
  <1>3. ASSUME NEW v \in Writes \ beside'
        PROVE  /\ Even' => Matched(v)'
               /\ Cut' => IF InScope(v)' THEN \A e \in noted' : e[1] # v ELSE Matched(v)'
    <2>1. v \in Writes \ beside
      BY <1>f, <1>3
    <2>2. CASE v = w
      BY <1>2, <1>3, <1>f, <2>1, <2>2 DEF MatchInv
    <2>3. CASE v # w
      BY <1>1, <1>f, <2>1, <2>3 DEF MatchInv, Leaves
    <2> QED
      BY <2>2, <2>3
  <1> QED
    BY <1>3 DEF MatchInv
\* The documents in scope go with all that hangs on them.
LEMMA DeleteKeeps ==
  ASSUME TypeInv, KeptInv, DeleteRows
  PROVE  /\ KeptInv'
         /\ MatchInv => MatchInv'
  <1>0. /\ TypeOK /\ version \in [Mids -> Nat] /\ l3 \subseteq L3Rows
        /\ \A v \in Writes : MidOf[v] \in Mids
        /\ \A e \in L3Rows : e[1] \in Writes
        /\ points1 \subseteq Writes /\ points3 \subseteq L3Rows /\ noted \subseteq L3Rows
    BY SinkAssumption DEF TypeInv, StoreTypeOK, TypeOK, L3Rows
  <1>1. /\ stage = "rows" /\ stage' = "points" /\ ~half /\ UNCHANGED <<half, scope, beside>>
        /\ UNCHANGED <<points1, points3, pc, todo>>
        /\ wiped' = wiped \cup Doomed
        /\ l3' = {e \in l3 : Spared(e[1])} /\ noted' = {e \in noted : Spared(e[1])}
    BY DEF DeleteRows, local, KeptInv
  <1>2. /\ Resetting /\ Resetting' /\ Even /\ ~Cut /\ Cut' /\ ~Even'
        /\ \A v : InScope(v)' <=> InScope(v)
    BY <1>1 DEF Resetting, Even, Cut, InScope
  <1>3. ASSUME NEW v \in Writes
        PROVE  /\ Spared(v) => version'[MidOf[v]] = version[MidOf[v]]
               /\ version[MidOf[v]] = 0 => version'[MidOf[v]] = 0
               /\ version[MidOf[v]] > 0 /\ InScope(v) <=> ~Spared(v)
               /\ InL1(v)' <=> InL1(v) /\ Spared(v)
    <2>1. version'[MidOf[v]] = IF \E u \in Doomed : MidOf[u] = MidOf[v] THEN 0 ELSE version[MidOf[v]]
      BY <1>0 DEF DeleteRows
    <2>2. (\E u \in Doomed : MidOf[u] = MidOf[v]) <=> v \in Doomed
      BY StoreAssumption DEF OwnIds, Doomed
    <2>3. InL1(v)' <=> InL1(v) /\ Spared(v)
      BY <1>0, KeptRows DEF DeleteRows
    <2>4. version[MidOf[v]] > 0 /\ InScope(v) <=> ~Spared(v)
      BY DEF Doomed, Spared
    <2> QED
      BY <2>1, <2>2, <2>3, <2>4 DEF Spared
  <1>4. RowsHaveDoc'
    BY <1>0, <1>1, <1>3 DEF KeptInv, RowsHaveDoc
  <1>5. ASSUME NEW v \in Writes PROVE CallKept(v)'
    <2>1. CallKept(v) /\ TodoUnits(v)
      BY DEF KeptInv, TypeInv, CallTyped
    <2>2. pc[v] \in {"idle", "title", "machine", "upsert"} =>
            version'[MidOf[v]] = 0 /\ v \notin wiped'
      BY <1>0, <1>1, <1>3, <2>1 DEF CallKept, Spared
    <2>3. pc[v] \in Steps => v \in beside
      BY <1>2, <2>1 DEF CallKept
    <2>4. v \notin wiped' => v \notin wiped /\ Spared(v)
      BY <1>1 DEF Spared
    <2>5. Spared(v) => \A n \in DOMAIN todo[v] : todo[v][n] \in l3 => todo[v][n] \in l3'
      BY <1>1, <2>1 DEF TodoUnits
    <2> QED
      BY <1>1, <1>3, <2>1, <2>2, <2>3, <2>4, <2>5 DEF CallKept
  <1>6. ASSUME NEW v \in Writes, InL1(v) \/ Orphan(v) PROVE InL1(v)' \/ Orphan(v)'
    <2>1. CASE v \in wiped \cap beside
      BY <1>1, <2>1 DEF Orphan
    <2>2. CASE InL1(v) /\ Spared(v)
      BY <1>3, <2>2
    <2>3. CASE ~Spared(v)
      BY <1>2, <1>3, <2>3 DEF Orphan
    <2> QED
      BY <1>2, <1>6, <2>1, <2>2, <2>3 DEF Orphan
  <1>7. ASSUME NEW e \in points3 PROVE e \in l3' \/ Orphan(e[1])'
    <2>1. e \in l3 \/ Orphan(e[1])
      BY <1>2 DEF KeptInv, PointsKept
    <2>2. CASE e \in l3 /\ Spared(e[1])
      BY <1>1, <2>2
    <2>3. CASE ~Spared(e[1])
      BY <1>0, <1>2, <1>3, <2>3 DEF Orphan
    <2>4. CASE Orphan(e[1])
      BY <1>1, <1>2, <2>4 DEF Orphan
    <2> QED
      BY <2>1, <2>2, <2>3, <2>4
  <1>8. KeptInv'
    BY <1>0, <1>1, <1>2, <1>4, <1>5, <1>6, <1>7 DEF KeptInv, PointsKept
  <1>9. ASSUME MatchInv, NEW v \in Writes \ beside
        PROVE  IF InScope(v)' THEN \A e \in noted' : e[1] # v ELSE Matched(v)'
    <2>1. Matched(v)
      BY <1>2, <1>9 DEF MatchInv
    <2>2. ASSUME InScope(v), NEW e \in noted', e[1] = v PROVE FALSE
      <3>1. e \in noted /\ e \in points3 /\ Spared(v)
        BY <1>1, <2>1, <2>2 DEF Matched
      <3>2. e \in l3
        BY <1>2, <2>2, <3>1 DEF KeptInv, PointsKept, Orphan
      <3>3. version[MidOf[v]] > 0
        BY <2>2, <3>2 DEF KeptInv, RowsHaveDoc
      <3> QED
        BY <1>3, <2>2, <3>1, <3>3
    <2>3. ASSUME ~InScope(v) PROVE Matched(v)'
      <3>1. Spared(v)
        BY <1>3, <2>3
      <3> QED
        BY <1>1, <2>1, <3>1 DEF Matched
    <2> QED
      BY <1>2, <2>2, <2>3
  <1> QED
    BY <1>1, <1>2, <1>8, <1>9 DEF MatchInv

\* The other steps of the reset take points away, of the calls in scope.
LEMMA ResetKeepsPoints ==
  ASSUME TypeInv, KeptInv, BeginReset \/ Reset
  PROVE  /\ KeptInv'
         /\ MatchInv => MatchInv'
  <1> SUFFICES ASSUME ~DeleteRows PROVE KeptInv' /\ (MatchInv => MatchInv')
    BY DeleteKeeps
  <1>1. /\ UNCHANGED <<version, l1, l3, noted, pc, todo, wiped>>
        /\ beside \subseteq beside'
        /\ stage' \notin {"idle"} /\ (stage' = "rows" => stage = "idle")
    BY DEF BeginReset, Reset, RowsFail, DeletePoints, DropCollection, CreateCollection,
           ResetStops, vars, tables, local, history
  <1>2. \A v \in Writes : CallKept(v)'
    <2>1. \A v \in Writes : pc[v] \in Steps /\ Resetting' => v \in beside'
      <3>1. CASE BeginReset
        BY <3>1 DEF BeginReset, Active
      <3>2. CASE Reset
        <4>1. Resetting
          BY <3>2, <1>1 DEF Reset, RowsFail, DeletePoints, DropCollection, CreateCollection,
             ResetStops, Resetting
        <4> QED
          BY <1>1, <4>1 DEF KeptInv, CallKept
      <3> QED
        BY <3>1, <3>2
    <2>2. \A v \in Writes : InL1(v)' <=> InL1(v)
      BY <1>1 DEF InL1
    <2> QED
      BY <1>1, <2>1, <2>2 DEF KeptInv, CallKept
  <1>3. RowsHaveDoc'
    BY <1>1 DEF KeptInv, RowsHaveDoc
  <1>4. CASE BeginReset \/ RowsFail \/ CreateCollection \/ ResetStops
    <2>1. /\ UNCHANGED <<points1, points3>>
          /\ Even' => Even
          /\ ~Cut'
          /\ stage' \in {"idle", "rows"} => ~half'
      <3>0. /\ half \in BOOLEAN /\ (stage \in {"idle", "rows"} => ~half)
            /\ stage \in {"idle", "rows", "points", "create", "over"}
        BY DEF KeptInv, TypeInv, StoreTypeOK
      <3>1. UNCHANGED <<points1, points3>>
        BY <1>4 DEF BeginReset, RowsFail, CreateCollection, ResetStops, vars, tables
      <3>2. CASE BeginReset
        BY <3>0, <3>1, <3>2 DEF BeginReset, Even, Cut
      <3>3. CASE RowsFail
        BY <3>0, <3>1, <3>3 DEF RowsFail, Even, Cut
      <3>4. CASE CreateCollection
        BY <3>0, <3>1, <3>4 DEF CreateCollection, Even, Cut
      <3>5. CASE ResetStops
        <4>1. /\ stage' = "over" /\ (half' <=> ~(half <=> stage = "points"))
          BY <3>0, <3>5 DEF ResetStops
        <4> QED
          BY <3>1, <4>1 DEF Even, Cut
      <3> QED
        BY <1>4, <3>2, <3>3, <3>4, <3>5
    <2>2. Even' => ~Cut
      BY <2>1 DEF Even, Cut
    <2>3. PointsKept'
      BY <1>1, <2>1, <2>2 DEF KeptInv, PointsKept, Orphan, InL1
    <2>4. \A v \in Writes : Matched(v) => Matched(v)'
      BY <1>1, <2>1 DEF Matched
    <2>5. MatchInv => MatchInv'
      BY <1>1, <2>1, <2>4 DEF MatchInv
    <2> QED
      BY <1>2, <1>3, <2>1, <2>3, <2>5 DEF KeptInv
  <1>5. CASE DeletePoints \/ DropCollection
    <2>1. /\ stage = "points" /\ stage' \in {"create", "over"} /\ UNCHANGED <<half, scope, beside>>
          /\ \A v \in points1' : v \in points1 /\ ~InScope(v)
          /\ \A e \in points3' : e \in points3 /\ ~InScope(e[1])
          /\ \A e \in points3 : ~InScope(e[1]) => e \in points3'
      BY <1>5 DEF DeletePoints, DropCollection, InScope, history
    <2>2. /\ ~Cut'
          /\ Even' => Cut
          /\ Resetting
      BY <2>1 DEF Even, Cut, Resetting
    <2>3. PointsKept'
      BY <1>1, <2>1, <2>2 DEF KeptInv, PointsKept, Orphan, InL1
    <2>4. ASSUME MatchInv, Even', NEW v \in Writes \ beside PROVE Matched(v)'
      <3>1. pc[v] # "note"
        BY <2>2, <2>4 DEF KeptInv, CallKept, Steps
      <3>2. IF InScope(v) THEN \A e \in noted : e[1] # v ELSE Matched(v)
        BY <2>2, <2>4 DEF MatchInv
      <3> QED
        BY <1>1, <2>1, <3>1, <3>2 DEF Matched
    <2> QED
      BY <1>2, <1>3, <2>1, <2>2, <2>3, <2>4 DEF KeptInv, MatchInv
  <1> QED
    BY <1>4, <1>5 DEF Reset

LEMMA KeptStep ==
  TypeInv /\ TypeInv' /\ KeptInv /\ [StoreNext]_storeVars =>
    /\ KeptInv'
    /\ "pg" \notin Faults /\ MatchInv => MatchInv'
  <1> SUFFICES ASSUME TypeInv, TypeInv', KeptInv, [StoreNext]_storeVars
               PROVE  KeptInv' /\ ("pg" \notin Faults /\ MatchInv => MatchInv')
    OBVIOUS
  <1>1. CASE UNCHANGED <<vars, resetVars, history>>
    <2>1. UNCHANGED <<version, l1, l3, points1, points3, noted, pc, todo, stage, scope, half,
                      wiped, beside>>
      BY <1>1 DEF vars, tables, local, resetVars, history
    <2>2. KeptInv'
      BY <2>1 DEF KeptInv, RowsHaveDoc, PointsKept, CallKept, InL1, Orphan, Cut, Even, InScope,
                  Resetting
    <2>3. MatchInv => MatchInv'
      BY <2>1 DEF MatchInv, Matched, Cut, Even, InScope
    <2> QED
      BY <2>2, <2>3
  <1>2. ASSUME NEW w \in Writes, BeginWrite(w) \/ StoreWrite(w)
        PROVE  CallStep(w) \/ UNCHANGED <<vars, resetVars, history>>
    BY <1>2 DEF StoreWrite, CallStep, AskRedis, InsertWord, CacheWord
  <1>3. UNCHANGED storeVars => UNCHANGED <<vars, resetVars, history>>
    BY DEF storeVars
  <1> QED
    BY <1>1, <1>2, <1>3, CallKeeps, CallMatches, ResetKeepsPoints DEF StoreNext

LEMMA KeptHolds == StoreSpec => [](TypeInv /\ KeptInv)
  BY TypeInit, StoreTypeStep, KeptInit, KeptStep, PTL DEF StoreSpec

\* A point never outlives its row without a reason: outside a reset that was cut short
\* the rows of every point are there, or its call ran while a reset deleted its document
\* (index_reset.py deletes the rows first and the points after them).
THEOREM PointsOwnedOutsideReset == StoreSpec => [](~Resetting /\ ~half => PointsOwned)
  <1>1. TypeInv /\ KeptInv => (~Resetting /\ ~half => PointsOwned)
    BY DEF KeptInv, PointsKept, PointsOwned, Orphan, Cut, Even, Resetting
  <1> QED
    BY KeptHolds, <1>1, PTL

\* The two stores agree on every call that was answered and met no reset, whatever else
\* fails: a qdrant_point_id stands for a point.  An UPDATE of it that fails is ignored by
\* the code, so the database is assumed not to fail.
THEOREM StoresAgree == ASSUME "pg" \notin Faults PROVE StoreSpec => []PointsMatchRows
  <1>1. StoreInit => MatchInv
    BY KeptInit
  <1>2. TypeInv /\ TypeInv' /\ KeptInv /\ MatchInv /\ [StoreNext]_storeVars => MatchInv'
    BY KeptStep
  <1>3. TypeInv /\ KeptInv /\ MatchInv => PointsMatchRows
    <2> SUFFICES ASSUME TypeInv, KeptInv, MatchInv, ~Resetting, ~half
                 PROVE  AnsweredMatch /\ PointsOwned
      BY DEF PointsMatchRows
    <2>1. Even /\ ~Cut
      BY DEF Even, Cut, Resetting
    <2>2. AnsweredMatch
      BY <2>1 DEF MatchInv, Matched, AnsweredMatch
    <2>3. PointsOwned
      BY <2>1 DEF KeptInv, PointsKept, PointsOwned, Orphan
    <2> QED
      BY <2>2, <2>3
  <1> QED
    BY KeptHolds, <1>1, <1>2, <1>3, PTL DEF StoreSpec
=============================================================================
