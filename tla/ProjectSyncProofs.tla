------------------------- MODULE ProjectSyncProofs -------------------------
(***************************************************************************)
(* Proofs about project ingestion, for any number of runs, files, contents *)
(* and roots, and whatever fails.                                          *)
(***************************************************************************)
EXTENDS ProjectSync, TLAPS

\* Documents stay as they are; at most they get a head.
Keeps == /\ Len(docs) \in Nat /\ Len(docs') \in Nat /\ Len(docs) <= Len(docs')
         /\ \A k \in 1..Len(docs) : /\ docs'[k].title = docs[k].title
                                    /\ docs'[k].content = docs[k].content
                                    /\ docs'[k].root = docs[k].root
                                    /\ docs[k].head => docs'[k].head

\* What a new document does to the table.
LEMMA InsertEffect ==
  ASSUME TypeOK, NEW r \in Runs, Begun(r), InsertL1(r)
  PROVE  /\ docs' \in Seq(Doc) /\ Len(docs') = Len(docs) + 1
         /\ docs'[Len(docs) + 1].title = Title(r)
         /\ docs'[Len(docs) + 1].content = Content(r)
         /\ docs'[Len(docs) + 1].head = FALSE
         /\ docs'[Len(docs) + 1].root \in {Root(r), NoRoot}
         /\ row' = [row EXCEPT ![r] = Len(docs) + 1]
         /\ \A k \in 1..Len(docs) : docs'[k] = docs[k]
         /\ Keeps
<1> USE SyncAssumption
<1>1. docs \in Seq(Doc) /\ read[r] \in Seq(Contents) /\ Len(read[r]) > 0 /\ known[r] \in BOOLEAN
      /\ Len(read[r]) <= Len(tgt[r].files) /\ tgt[r] \in Targets
  BY DEF TypeOK, Begun, InsertL1, InFile
<1>2. tgt[r].files \in Seq(Files) /\ tgt[r].root \in Roots
  BY <1>1
<1>3. Content(r) \in Contents /\ Title(r) \in Titles
  <2>1. Len(read[r]) \in 1..Len(read[r]) /\ Len(read[r]) \in 1..Len(tgt[r].files)
    BY <1>1, <1>2
  <2>2. Content(r) \in Contents
    BY <1>1, <2>1 DEF Content
  <2>3. File(r) \in Files
    BY <1>2, <2>1 DEF File
  <2> QED
    BY <2>2, <2>3 DEF Title
<1>4. /\ NewDoc(r) \in Doc /\ NewDoc(r).title = Title(r) /\ NewDoc(r).content = Content(r)
      /\ NewDoc(r).head = FALSE /\ NewDoc(r).root \in {Root(r), NoRoot}
  BY <1>2, <1>3 DEF NewDoc, Doc, Root
<1>5. docs' = Append(docs, NewDoc(r)) /\ row' = [row EXCEPT ![r] = Len(docs) + 1]
  BY DEF InsertL1
<1> HIDE DEF NewDoc
<1>6. /\ docs' \in Seq(Doc) /\ Len(docs') = Len(docs) + 1
      /\ docs'[Len(docs) + 1] = NewDoc(r)
      /\ \A k \in 1..Len(docs) : docs'[k] = docs[k]
  BY <1>1, <1>4, <1>5
<1>7. Keeps
  BY <1>1, <1>6 DEF Keeps
<1> QED
  BY <1>4, <1>5, <1>6, <1>7

\* What a head does to the table.
LEMMA HeadEffect ==
  ASSUME TypeOK, NEW r \in Runs, Begun(r), SetHead(r)
  PROVE  docs' \in Seq(Doc) /\ Len(docs') = Len(docs) /\ Keeps
<1>1. docs \in Seq(Doc) /\ row[r] \in 1..Len(docs)
  BY DEF TypeOK, Begun, SetHead
<1> DEFINE new == [docs[row[r]] EXCEPT !.head = TRUE]
<1>2. docs[row[r]] \in Doc
  BY <1>1
<1>3. /\ new \in Doc /\ new.title = docs[row[r]].title /\ new.content = docs[row[r]].content
      /\ new.root = docs[row[r]].root /\ new.head = TRUE
  BY <1>2 DEF Doc
<1>4. docs' = [docs EXCEPT ![row[r]] = new]
  BY DEF SetHead
<1> HIDE DEF new
<1>5. /\ docs' \in Seq(Doc) /\ Len(docs') = Len(docs)
      /\ \A k \in 1..Len(docs) : docs'[k] = IF k = row[r] THEN new ELSE docs[k]
  BY <1>1, <1>3, <1>4
<1>6. Keeps
  BY <1>1, <1>3, <1>5 DEF Keeps
<1> QED
  BY <1>5, <1>6

\* Steps that leave the table alone keep it.
LEMMA SameDocs == ASSUME docs \in Seq(Doc), docs' = docs PROVE Keeps
BY DEF Keeps

\* What is stored stays stored, and a project loses no document.
LEMMA KeepsStored ==
  ASSUME docs \in Seq(Doc), docs' \in Seq(Doc), Keeps
  PROVE  /\ \A f \in Files, c \in Contents : IsStored(f, c) => IsStored(f, c)'
         /\ \A p \in Roots : Project(p) \subseteq Project(p)'
<1>1. DOMAIN docs = 1..Len(docs) /\ DOMAIN docs' = 1..Len(docs')
  OBVIOUS
<1>2. \A k \in DOMAIN docs : k \in DOMAIN docs'
  BY <1>1 DEF Keeps
<1>3. ASSUME NEW f \in Files, NEW c \in Contents, IsStored(f, c) PROVE IsStored(f, c)'
  <2>1. PICK k \in DOMAIN docs : docs[k].title = TitleOf[f] /\ docs[k].content = c
    BY <1>3 DEF IsStored
  <2>2. k \in DOMAIN docs' /\ docs'[k].title = TitleOf[f] /\ docs'[k].content = c
    BY <1>1, <1>2, <2>1 DEF Keeps
  <2> QED
    BY <2>2 DEF IsStored
<1>4. ASSUME NEW p \in Roots PROVE Project(p) \subseteq Project(p)'
  BY <1>1, <1>2 DEF Project, Keeps
<1> QED
  BY <1>3, <1>4

\* Init establishes the invariant.
LEMMA InitInv == Init => IInv
<1> SUFFICES ASSUME Init PROVE IInv
  OBVIOUS
<1> USE SyncAssumption
<1>1. \A r \in Runs : /\ pc[r] = "idle" /\ tgt[r] = NoTarget /\ read[r] = << >>
                      /\ row[r] = 0 /\ known[r] = FALSE /\ calc[r] = {}
  BY DEF Init
<1>2. docs = << >> /\ docs \in Seq(Doc) /\ Len(docs) = 0
  BY DEF Init
<1>3. TypeOK
  BY <1>1, <1>2 DEF Init, TypeOK, NoTarget
<1>4. \A r \in Runs : Begun(r) /\ Progress(r) /\ CalcOK(r)
  BY <1>1 DEF Begun, Progress, CalcOK, InFile, AtEnd
<1> QED
  BY <1>3, <1>4 DEF IInv

-----------------------------------------------------------------------------
\* Every step keeps the documents.
LEMMA StepKeeps ==
  ASSUME IInv, [Next]_vars
  PROVE  docs' \in Seq(Doc) /\ Keeps
<1>0. TypeOK /\ docs \in Seq(Doc) /\ \A r \in Runs : Begun(r)
  BY DEF IInv, TypeOK
<1>1. CASE docs' = docs
  BY <1>0, <1>1, SameDocs
<1>2. ASSUME NEW r \in Runs, InsertL1(r) PROVE docs' \in Seq(Doc) /\ Keeps
  BY <1>0, <1>2, InsertEffect
<1>3. ASSUME NEW r \in Runs, SetHead(r) PROVE docs' \in Seq(Doc) /\ Keeps
  BY <1>0, <1>3, HeadEffect
<1>4. docs' = docs \/ \E r \in Runs : InsertL1(r) \/ SetHead(r)
  <2>1. ASSUME NEW r \in Runs, Go(r) PROVE docs' = docs \/ InsertL1(r) \/ SetHead(r)
    BY <2>1 DEF Go, Register, RegisterFails, ReadHash, Compare, ReadFile, SkipByTitle,
       MissTitle, EndFile, FileFails, EndFiles, Compute, WriteHash, FinalizeFails
  <2> QED
    BY <2>1 DEF Next, Start, Kill, Edit, vars
<1> QED
  BY <1>1, <1>2, <1>3, <1>4

\* Sizes and types a run's steps use.
LEMMA RunTypes ==
  ASSUME TypeOK, NEW r \in Runs, Begun(r)
  PROVE  /\ tgt[r].files \in Seq(Files) /\ Len(tgt[r].files) \in Nat
         /\ pc[r] # "idle" => tgt[r] \in Targets /\ Root(r) \in Roots
         /\ read[r] \in Seq(Contents) /\ Len(read[r]) \in Nat
         /\ Len(read[r]) <= Len(tgt[r].files)
         /\ \A n \in 1..Len(read[r]) : read[r][n] \in Contents /\ tgt[r].files[n] \in Files
<1> USE SyncAssumption
<1>1. tgt[r] \in Targets \/ tgt[r] = NoTarget
  BY DEF TypeOK
<1>2. tgt[r].files \in Seq(Files)
  <2>1. NoTarget.files = << >>
    BY DEF NoTarget
  <2>2. << >> \in Seq(Files)
    OBVIOUS
  <2>3. \A t \in Targets : t.files \in Seq(Files)
    OBVIOUS
  <2> QED
    BY <1>1, <2>1, <2>2, <2>3
<1>3. pc[r] # "idle" => tgt[r] \in Targets /\ Root(r) \in Roots
  BY DEF Begun, Root
<1>4. read[r] \in Seq(Contents) /\ Len(read[r]) <= Len(tgt[r].files)
  BY DEF TypeOK
<1>5. Len(read[r]) \in Nat /\ Len(tgt[r].files) \in Nat
  BY <1>2, <1>4
<1>6. \A n \in 1..Len(read[r]) : read[r][n] \in Contents /\ tgt[r].files[n] \in Files
  BY <1>2, <1>4, <1>5
<1> QED
  BY <1>2, <1>3, <1>4, <1>5, <1>6

\* A run that does not move keeps what holds of it.
LEMMA OtherRun ==
  ASSUME IInv, docs' \in Seq(Doc), Keeps, NEW q \in Runs,
         pc'[q] = pc[q], tgt'[q] = tgt[q], read'[q] = read[q], row'[q] = row[q],
         calc'[q] = calc[q]
  PROVE  Begun(q)' /\ Progress(q)' /\ CalcOK(q)'
<1>1. TypeOK /\ Begun(q) /\ Progress(q) /\ CalcOK(q) /\ docs \in Seq(Doc)
  BY DEF IInv, TypeOK
<1>2. Begun(q)'
  BY <1>1 DEF Begun
<1>3. \A m \in Nat : m <= Len(read[q]) /\ StoredUpTo(q, m) => StoredUpTo(q, m)'
  BY <1>1, RunTypes, KeepsStored DEF StoredUpTo
<1>4. Len(read[q]) > 0 => Len(read[q]) - 1 \in Nat
  BY <1>1, RunTypes
<1>5. Progress(q)'
  <2>1. ASSUME pc[q] \in {"title", "l1"} PROVE StoredUpTo(q, Len(read[q]) - 1)'
    BY <1>1, <1>3, <1>4, <2>1, RunTypes DEF Progress, Begun, InFile
  <2>2. ASSUME pc[q] \in {"file", "head", "rest"} \cup AtEnd PROVE StoredUpTo(q, Len(read[q]))'
    BY <1>1, <1>3, <2>2, RunTypes DEF Progress
  <2> QED
    BY <2>1, <2>2 DEF Progress
<1>6. CalcOK(q)'
  <2>1. SUFFICES ASSUME pc[q] = "write" PROVE (calc[q] \subseteq Project(Root(q)))'
    BY DEF CalcOK
  <2>2. Root(q) \in Roots /\ Root(q)' = Root(q)
    BY <1>1, <2>1, RunTypes DEF Root
  <2>3. calc[q] \subseteq Project(Root(q))
    BY <1>1, <2>1 DEF CalcOK
  <2>4. \A p \in Roots : Project(p) \subseteq Project(p)'
    BY <1>1, KeepsStored
  <2> QED
    BY <2>2, <2>3, <2>4 DEF Project
<1> QED
  BY <1>2, <1>5, <1>6

-----------------------------------------------------------------------------
\* What a server call sees of a project is some of its documents.
LEMMA SeenSome ==
  ASSUME docs \in Seq(Doc), NEW p \in Roots, NEW s \in Seen(p)
  PROVE  s \subseteq Project(p) /\ s \subseteq Nat \ {0}
<1>1. Project(p) \subseteq Nat \ {0}
  BY DEF Project
<1>2. s \subseteq Project(p)
  BY DEF Seen
<1> QED
  BY <1>1, <1>2

\* Every step keeps the types.
LEMMA TypeStep == ASSUME IInv, [Next]_vars PROVE TypeOK'
<1> USE SyncAssumption
<1>0. TypeOK /\ docs \in Seq(Doc) /\ \A r \in Runs : Begun(r) /\ CalcOK(r)
  BY DEF IInv, TypeOK
<1>k. /\ docs' \in Seq(Doc) /\ Len(docs) \in Nat /\ Len(docs') \in Nat /\ Len(docs) <= Len(docs')
      /\ \A p \in Roots : Project(p) \subseteq Project(p)'
  BY <1>0, StepKeeps, KeepsStored DEF Keeps
<1>h. ASSUME hash' = hash PROVE \A p \in Roots : (hash[p] \subseteq Project(p))'
  BY <1>0, <1>k, <1>h DEF TypeOK
<1>w. ASSUME row' = row PROVE row' \in [Runs -> 0..Len(docs')]
  BY <1>0, <1>k, <1>w DEF TypeOK
<1>1. ASSUME NEW r \in Runs, Start(r) PROVE TypeOK'
  <2>1. PICK t \in Targets : tgt' = [tgt EXCEPT ![r] = t]
    BY <1>1 DEF Start
  <2>2. t.files \in Seq(Files) /\ read[r] = << >>
    BY <1>0, <1>1 DEF Start, Begun
  <2>3. \A q \in Runs : (Len(read[q]) <= Len(tgt[q].files))'
    <3> TAKE q \in Runs
    <3>1. CASE q = r
      BY <1>0, <1>1, <2>1, <2>2, <3>1 DEF TypeOK, Start
    <3>2. CASE q # r
      BY <1>0, <1>1, <2>1, <3>2 DEF TypeOK, Start
    <3> QED
      BY <3>1, <3>2
  <2> QED
    BY <1>0, <1>k, <1>h, <1>w, <1>1, <2>1, <2>3 DEF TypeOK, Start, GoTo, Steps
<1>2. ASSUME NEW r \in Runs, Register(r) \/ RegisterFails(r) \/ SkipByTitle(r) \/ MissTitle(r)
             \/ EndFile(r) \/ FileFails(r) \/ EndFiles(r) \/ FinalizeFails(r) \/ Kill(r)
      PROVE  TypeOK'
  BY <1>0, <1>k, <1>h, <1>w, <1>2 DEF TypeOK, GoTo, Steps, Ends, Register, RegisterFails,
     SkipByTitle, MissTitle, EndFile, FileFails, EndFiles, FinalizeFails, Kill
<1>3. ASSUME NEW r \in Runs, ReadHash(r) PROVE TypeOK'
  <2>1. Root(r) \in Roots
    BY <1>0, <1>3, RunTypes DEF ReadHash
  <2>2. calc' = calc \/ calc' = [calc EXCEPT ![r] = hash[Root(r)]]
    BY <1>3 DEF ReadHash
  <2>3. calc' \in [Runs -> SUBSET (Nat \ {0})]
    BY <1>0, <2>1, <2>2 DEF TypeOK
  <2>4. pc' \in [Runs -> Steps \cup Ends \cup {"idle"}]
    BY <1>0, <1>3 DEF TypeOK, ReadHash, GoTo, Steps
  <2> QED
    BY <1>0, <1>k, <1>h, <1>w, <1>3, <2>3, <2>4 DEF TypeOK, ReadHash
<1>4. ASSUME NEW r \in Runs, Compare(r) PROVE TypeOK'
  <2>1. GoTo(r, "skipped") \/ GoTo(r, "file")
    BY <1>4 DEF Compare
  <2> QED
    BY <1>0, <1>k, <1>h, <1>w, <1>4, <2>1 DEF TypeOK, Compare, GoTo, Steps, Ends
<1>5. ASSUME NEW r \in Runs, ReadFile(r) PROVE TypeOK'
  <2> DEFINE f == tgt[r].files[Len(read[r]) + 1]
             longer == Append(read[r], disk[f])
  <2>1. Len(read[r]) + 1 \in 1..Len(tgt[r].files) /\ f \in Files
    BY <1>0, <1>5, RunTypes DEF ReadFile
  <2>2. disk[f] \in Contents
    BY <1>0, <2>1 DEF TypeOK
  <2>3. longer \in Seq(Contents) /\ Len(longer) = Len(read[r]) + 1
    BY <1>0, <2>2, RunTypes
  <2>4. read' = [read EXCEPT ![r] = longer]
    BY <1>5 DEF ReadFile
  <2> HIDE DEF longer, f
  <2>5. read' \in [Runs -> Seq(Contents)]
    BY <1>0, <2>3, <2>4 DEF TypeOK
  <2>6. \A q \in Runs : (Len(read[q]) <= Len(tgt[q].files))'
    BY <1>0, <1>5, <2>1, <2>3, <2>4 DEF TypeOK, ReadFile
  <2> QED
    BY <1>0, <1>k, <1>h, <1>w, <1>5, <2>5, <2>6 DEF TypeOK, ReadFile, GoTo, Steps
<1>6. ASSUME NEW r \in Runs, InsertL1(r) PROVE TypeOK'
  <2>1. Len(docs') = Len(docs) + 1 /\ row' = [row EXCEPT ![r] = Len(docs) + 1]
    BY <1>0, <1>6, InsertEffect
  <2>2. row' \in [Runs -> 0..Len(docs')]
    BY <1>0, <1>k, <2>1 DEF TypeOK
  <2> QED
    BY <1>0, <1>k, <1>h, <1>6, <2>2 DEF TypeOK, InsertL1, GoTo, Steps
<1>7. ASSUME NEW r \in Runs, SetHead(r) PROVE TypeOK'
  BY <1>0, <1>k, <1>h, <1>w, <1>7 DEF TypeOK, SetHead, GoTo, Steps
<1>8. ASSUME NEW r \in Runs, Compute(r) PROVE TypeOK'
  <2>1. Root(r) \in Roots
    BY <1>0, <1>8, RunTypes DEF Compute
  <2>2. PICK s \in Seen(Root(r)) : /\ calc' = [calc EXCEPT ![r] = s]
                                   /\ GoTo(r, IF s = {} THEN "stored" ELSE "write")
    BY <1>8 DEF Compute
  <2>3. s \in SUBSET (Nat \ {0})
    BY <1>0, <2>1, SeenSome
  <2>4. calc' \in [Runs -> SUBSET (Nat \ {0})]
    BY <1>0, <2>2, <2>3 DEF TypeOK
  <2>5. pc' \in [Runs -> Steps \cup Ends \cup {"idle"}]
    BY <1>0, <2>2 DEF TypeOK, GoTo, Steps, Ends
  <2> QED
    BY <1>0, <1>k, <1>h, <1>w, <1>8, <2>4, <2>5 DEF TypeOK, Compute
<1>9. ASSUME NEW r \in Runs, WriteHash(r) PROVE TypeOK'
  <2>1. Root(r) \in Roots /\ calc[r] \subseteq Project(Root(r)) /\ calc[r] \in SUBSET (Nat \ {0})
    BY <1>0, <1>9, RunTypes DEF WriteHash, CalcOK, TypeOK
  <2>2. hash' = [hash EXCEPT ![Root(r)] = calc[r]] /\ docs' = docs
    BY <1>9 DEF WriteHash
  <2>3. hash' \in [Roots -> SUBSET (Nat \ {0})]
    BY <1>0, <2>1, <2>2 DEF TypeOK
  <2>4. \A p \in Roots : hash'[p] \subseteq Project(p)
    BY <1>0, <2>1, <2>2 DEF TypeOK
  <2>5. \A p \in Roots : (hash[p] \subseteq Project(p))'
    BY <1>k, <2>4
  <2> QED
    BY <1>0, <1>k, <1>w, <1>9, <2>3, <2>5 DEF TypeOK, WriteHash, GoTo, Ends
<1>10. ASSUME NEW f \in Files, Edit(f) PROVE TypeOK'
  BY <1>0, <1>k, <1>h, <1>w, <1>10 DEF TypeOK, Edit
<1>11. CASE UNCHANGED vars
  BY <1>0, <1>k, <1>h, <1>w, <1>11 DEF TypeOK, vars
<1> QED
  BY <1>1, <1>2, <1>3, <1>4, <1>5, <1>6, <1>7, <1>8, <1>9, <1>10, <1>11 DEF Next, Go

-----------------------------------------------------------------------------
\* A run's own step keeps what holds of it, file by file.
LEMMA OwnStep ==
  ASSUME IInv, docs' \in Seq(Doc), Keeps, NEW r \in Runs, Start(r) \/ Go(r) \/ Kill(r)
  PROVE  Begun(r)' /\ Progress(r)' /\ CalcOK(r)'
<1> USE SyncAssumption
<1>0. TypeOK /\ Begun(r) /\ Progress(r) /\ CalcOK(r) /\ docs \in Seq(Doc)
  BY DEF IInv, TypeOK
<1>t. /\ pc \in [Runs -> Steps \cup Ends \cup {"idle"}] /\ DOMAIN tgt = Runs /\ DOMAIN read = Runs
      /\ DOMAIN row = Runs /\ DOMAIN calc = Runs
  BY <1>0 DEF TypeOK
<1>k. Len(read[r]) \in Nat /\ Len(tgt[r].files) \in Nat
  BY <1>0, RunTypes
\* What is stored of the first m files stays stored.
<1>s. ASSUME NEW m \in Nat, m <= Len(read[r]), StoredUpTo(r, m),
             tgt'[r] = tgt[r], \A n \in 1..m : read'[r][n] = read[r][n]
      PROVE  StoredUpTo(r, m)'
  <2>1. ASSUME NEW n \in 1..m PROVE IsStored(tgt[r].files[n], read[r][n])'
    <3>1. n \in 1..Len(read[r])
      BY <1>k, <1>s
    <3>2. PICK f \in Files, c \in Contents : f = tgt[r].files[n] /\ c = read[r][n]
      BY <1>0, <3>1, RunTypes
    <3>3. IsStored(f, c)
      BY <1>s, <3>2 DEF StoredUpTo
    <3>4. IsStored(f, c)'
      BY <1>0, <3>3, KeepsStored
    <3>5. tgt'[r].files[n] = f /\ read'[r][n] = c
      BY <1>s, <3>2
    <3> QED
      BY <3>4, <3>5 DEF IsStored
  <2> QED
    BY <2>1 DEF StoredUpTo
\* Steps that leave the run's progress alone.
<1>a. ASSUME tgt'[r] = tgt[r], read'[r] = read[r], row'[r] = row[r],
             NEW to, pc' = [pc EXCEPT ![r] = to], pc[r] # "idle", to # "write",
             \/ pc[r] \in {"register", "readhash"} /\ to \in {"readhash", "compare", "file"}
             \/ pc[r] = "compare" /\ to \in {"skipped", "file"}
             \/ pc[r] = "title" /\ to = "l1"
             \/ pc[r] = "rest" /\ to = "file"
             \/ pc[r] \in AtEnd /\ to \in AtEnd
             \/ to = "failed"
      PROVE  Begun(r)' /\ Progress(r)' /\ CalcOK(r)'
  <2>1. pc'[r] = to
    BY <1>t, <1>a
  <2>2. Begun(r)'
    BY <1>0, <1>a, <2>1 DEF Begun, InFile, AtEnd
  <2>3. CalcOK(r)'
    BY <1>a, <2>1 DEF CalcOK
  <2>4. ASSUME to = "l1" PROVE StoredUpTo(r, Len(read[r]) - 1)'
    <3>1. StoredUpTo(r, Len(read[r]) - 1) /\ Len(read[r]) - 1 \in Nat
      BY <1>0, <1>k, <1>a, <2>4 DEF Begun, Progress, InFile, AtEnd
    <3>2. StoredUpTo(r, Len(read[r]) - 1)'
      BY <1>k, <1>s, <1>a, <3>1
    <3> QED
      BY <3>2
  <2>5. ASSUME to \in {"file"} \cup AtEnd PROVE StoredUpTo(r, Len(read[r]))'
    <3>1. StoredUpTo(r, Len(read[r]))
      <4>1. CASE pc[r] \in {"register", "readhash", "compare"}
        <5>1. Len(read[r]) = 0
          BY <1>0, <4>1 DEF Begun
        <5> QED
          BY <5>1 DEF StoredUpTo
      <4>2. CASE pc[r] \notin {"register", "readhash", "compare"}
        BY <1>0, <1>a, <2>5, <4>2 DEF Progress, AtEnd
      <4> QED
        BY <4>1, <4>2
    <3>2. StoredUpTo(r, Len(read[r]))'
      BY <1>k, <1>s, <1>a, <3>1
    <3> QED
      BY <3>2
  <2>6. Progress(r)'
    BY <1>a, <2>1, <2>4, <2>5 DEF Progress, AtEnd
  <2> QED
    BY <2>2, <2>3, <2>6
<1>1. CASE Start(r)
  <2>1. PICK t \in Targets : tgt' = [tgt EXCEPT ![r] = t]
    BY <1>1 DEF Start
  <2>2. /\ pc'[r] = "register" /\ tgt'[r] = t /\ read'[r] = << >>
    BY <1>0, <1>t, <1>1, <2>1 DEF Start, GoTo, Begun
  <2> QED
    BY <2>1, <2>2 DEF Begun, Progress, CalcOK, InFile, AtEnd
<1>2. CASE Register(r)
  BY <1>a, <1>2 DEF Register, GoTo
<1>3. CASE RegisterFails(r)
  BY <1>a, <1>3 DEF RegisterFails, GoTo
<1>4. CASE ReadHash(r)
  BY <1>a, <1>4 DEF ReadHash, GoTo
<1>5. CASE Compare(r)
  <2>1. PICK to \in {"skipped", "file"} : GoTo(r, to)
    BY <1>5 DEF Compare
  <2> QED
    BY <1>a, <1>5, <2>1 DEF Compare, GoTo
<1>6. CASE ReadFile(r)
  <2> DEFINE longer == Append(read[r], disk[tgt[r].files[Len(read[r]) + 1]])
  <2>1. read'[r] = longer /\ pc'[r] = "title" /\ tgt'[r] = tgt[r]
    BY <1>t, <1>6 DEF ReadFile, GoTo
  <2>2. read[r] \in Seq(Contents) /\ tgt[r] \in Targets
    BY <1>0, <1>6, RunTypes DEF ReadFile
  <2>3. tgt[r].files[Len(read[r]) + 1] \in Files
    BY <1>k, <1>0, <1>6, RunTypes DEF ReadFile
  <2>4. /\ Len(longer) = Len(read[r]) + 1
        /\ \A n \in 1..Len(read[r]) : longer[n] = read[r][n]
    BY <1>0, <2>2, <2>3 DEF TypeOK
  <2> HIDE DEF longer
  <2>5. StoredUpTo(r, Len(read[r]))
    BY <1>0, <1>6 DEF Progress, ReadFile
  <2>6. PICK k \in Nat : k = Len(read[r])
    BY <1>k
  <2>7. StoredUpTo(r, k)'
    BY <1>s, <2>1, <2>4, <2>5, <2>6
  <2>8. (Len(read[r]) - 1)' = k
    BY <2>1, <2>4, <2>6
  <2>9. StoredUpTo(r, Len(read[r]) - 1)'
    BY <2>7, <2>8 DEF StoredUpTo
  <2> QED
    BY <2>1, <2>2, <2>4, <2>6, <2>9 DEF Begun, Progress, CalcOK, InFile, AtEnd
<1>7. CASE SkipByTitle(r)
  <2>1. PICK k \in DOMAIN docs : docs[k].title = Title(r) /\ docs[k].content = Content(r)
    BY <1>7 DEF SkipByTitle, TitleIsThere
  <2>2. IsStored(tgt[r].files[Len(read[r])], read[r][Len(read[r])])
    BY <2>1 DEF IsStored, Title, File, Content
  <2>3. StoredUpTo(r, Len(read[r]) - 1) /\ pc[r] = "title"
    BY <1>0, <1>7 DEF SkipByTitle, Progress
  <2>4. StoredUpTo(r, Len(read[r]))
    BY <1>k, <2>2, <2>3 DEF StoredUpTo
  <2>5. tgt'[r] = tgt[r] /\ read'[r] = read[r] /\ pc'[r] = "file"
    BY <1>t, <1>7 DEF SkipByTitle, GoTo
  <2>6. StoredUpTo(r, Len(read[r]))'
    <3>1. PICK m \in Nat : m = Len(read[r])
      BY <1>k
    <3>2. StoredUpTo(r, m)'
      BY <1>k, <1>s, <2>4, <2>5, <3>1
    <3> QED
      BY <2>5, <3>1, <3>2 DEF StoredUpTo
  <2> QED
    BY <1>0, <2>3, <2>5, <2>6 DEF Begun, Progress, CalcOK, InFile, AtEnd
<1>8. CASE MissTitle(r)
  BY <1>a, <1>8 DEF MissTitle, GoTo
<1>9. CASE InsertL1(r)
  <2>1. /\ Len(docs') = Len(docs) + 1 /\ row'[r] = Len(docs) + 1
        /\ docs'[Len(docs) + 1].title = Title(r) /\ docs'[Len(docs) + 1].content = Content(r)
    BY <1>0, <1>t, <1>9, InsertEffect
  <2>2. Len(docs) \in Nat /\ Len(docs) + 1 \in DOMAIN docs'
    BY <1>0, <2>1
  <2>3. tgt' = tgt /\ read' = read /\ pc'[r] = "head" /\ pc[r] = "l1"
    BY <1>t, <1>9 DEF InsertL1, GoTo
  <2>4. /\ docs'[Len(docs) + 1].title = TitleOf[tgt[r].files[Len(read[r])]]
        /\ docs'[Len(docs) + 1].content = read[r][Len(read[r])]
    BY <2>1 DEF Title, File, Content
  <2>5. IsStored(tgt[r].files[Len(read[r])], read[r][Len(read[r])])'
    BY <2>2, <2>3, <2>4 DEF IsStored
  <2>6. StoredUpTo(r, Len(read[r]) - 1) /\ Len(read[r]) > 0
    BY <1>0, <2>3 DEF Begun, Progress, InFile
  <2>7. PICK m \in Nat : m = Len(read[r]) - 1
    <3>1. Len(read[r]) - 1 \in Nat
      BY <1>k, <2>6
    <3> QED
      BY <3>1
  <2>8. StoredUpTo(r, m)'
    BY <1>k, <1>s, <2>3, <2>6, <2>7
  <2>9. StoredUpTo(r, Len(read[r]))'
    BY <1>k, <2>3, <2>5, <2>7, <2>8 DEF StoredUpTo
  <2> QED
    BY <1>0, <2>1, <2>2, <2>3, <2>6, <2>9 DEF Begun, Progress, CalcOK, InFile, AtEnd
<1>10. CASE SetHead(r)
  <2>1. tgt' = tgt /\ read' = read /\ row' = row /\ pc'[r] = "rest" /\ pc[r] = "head"
    BY <1>t, <1>10 DEF SetHead, GoTo
  <2>2. StoredUpTo(r, Len(read[r]))
    BY <1>0, <2>1 DEF Progress
  <2>3. PICK m \in Nat : m = Len(read[r])
    BY <1>k
  <2>4. StoredUpTo(r, m)'
    BY <1>k, <1>s, <2>1, <2>2, <2>3
  <2>5. StoredUpTo(r, Len(read[r]))'
    BY <2>1, <2>3, <2>4 DEF StoredUpTo
  <2> QED
    BY <1>0, <2>1, <2>5 DEF Begun, Progress, CalcOK, InFile, AtEnd
<1>11. CASE EndFile(r)
  BY <1>a, <1>11 DEF EndFile, GoTo
<1>12. CASE FileFails(r)
  BY <1>a, <1>12 DEF FileFails, GoTo
<1>13. CASE EndFiles(r)
  <2>1. PICK to \in {"compute", "done"} : GoTo(r, to)
    BY <1>13 DEF EndFiles
  <2>2. /\ tgt' = tgt /\ read' = read /\ row' = row /\ pc'[r] = to /\ pc[r] = "file"
        /\ Len(read[r]) = Len(tgt[r].files)
    BY <1>t, <1>13, <2>1 DEF EndFiles, GoTo
  <2>3. StoredUpTo(r, Len(read[r]))
    BY <1>0, <2>2 DEF Progress
  <2>4. PICK m \in Nat : m = Len(read[r])
    BY <1>k
  <2>5. StoredUpTo(r, m)'
    BY <1>k, <1>s, <2>2, <2>3, <2>4
  <2>6. StoredUpTo(r, Len(read[r]))'
    BY <2>2, <2>4, <2>5 DEF StoredUpTo
  <2> QED
    BY <1>0, <2>2, <2>6 DEF Begun, Progress, CalcOK, InFile, AtEnd
<1>14. CASE Compute(r)
  <2>1. PICK s \in Seen(Root(r)) : /\ calc' = [calc EXCEPT ![r] = s]
                                   /\ GoTo(r, IF s = {} THEN "stored" ELSE "write")
    BY <1>14 DEF Compute
  <2>2. /\ tgt' = tgt /\ read' = read /\ row' = row /\ docs' = docs /\ pc[r] = "compute"
        /\ calc'[r] = s /\ pc'[r] \in {"stored", "write"}
    BY <1>t, <1>14, <2>1 DEF Compute, GoTo
  <2>3. Root(r) \in Roots
    BY <1>0, <2>2, RunTypes
  <2>4. s \subseteq Project(Root(r))
    BY <1>0, <2>3, SeenSome
  <2>5. CalcOK(r)'
    BY <2>2, <2>4 DEF CalcOK, Root, Project
  <2>6. StoredUpTo(r, Len(read[r]))
    BY <1>0, <2>2 DEF Progress, AtEnd
  <2>7. StoredUpTo(r, Len(read[r]))'
    BY <2>2, <2>6 DEF StoredUpTo, IsStored
  <2> QED
    BY <1>0, <2>2, <2>5, <2>7 DEF Begun, Progress, InFile, AtEnd
<1>15. CASE WriteHash(r)
  <2>1. PICK to \in {"stored", "done"} : GoTo(r, to)
    BY <1>15 DEF WriteHash
  <2> QED
    BY <1>a, <1>15, <2>1 DEF WriteHash, GoTo, AtEnd
<1>16. CASE FinalizeFails(r)
  BY <1>a, <1>16 DEF FinalizeFails, GoTo, AtEnd
<1>17. CASE Kill(r)
  BY <1>a, <1>17 DEF Kill, GoTo, Steps
<1> QED
  BY <1>1, <1>2, <1>3, <1>4, <1>5, <1>6, <1>7, <1>8, <1>9, <1>10, <1>11, <1>12, <1>13, <1>14,
     <1>15, <1>16, <1>17 DEF Go

-----------------------------------------------------------------------------
\* A step moves one run; the others stand still.
LEMMA OneMoves ==
  ASSUME IInv, NEW r \in Runs, Start(r) \/ Go(r) \/ Kill(r), NEW q \in Runs, q # r
  PROVE  /\ pc'[q] = pc[q] /\ tgt'[q] = tgt[q] /\ read'[q] = read[q] /\ row'[q] = row[q]
         /\ calc'[q] = calc[q]
<1>0. /\ DOMAIN pc = Runs /\ DOMAIN tgt = Runs /\ DOMAIN read = Runs
      /\ DOMAIN row = Runs /\ DOMAIN calc = Runs
  BY DEF IInv, TypeOK
<1>1. CASE Start(r)
  BY <1>0, <1>1 DEF Start, GoTo
<1>2. CASE Register(r) \/ RegisterFails(r) \/ ReadHash(r) \/ Compare(r) \/ Kill(r)
  BY <1>0, <1>2 DEF Register, RegisterFails, ReadHash, Compare, Kill, GoTo
<1>3. CASE ReadFile(r) \/ SkipByTitle(r) \/ MissTitle(r) \/ InsertL1(r) \/ SetHead(r)
  BY <1>0, <1>3 DEF ReadFile, SkipByTitle, MissTitle, InsertL1, SetHead, GoTo
<1>4. CASE EndFile(r) \/ FileFails(r) \/ EndFiles(r) \/ Compute(r) \/ WriteHash(r)
           \/ FinalizeFails(r)
  BY <1>0, <1>4 DEF EndFile, FileFails, EndFiles, Compute, WriteHash, FinalizeFails, GoTo
<1> QED
  BY <1>1, <1>2, <1>3, <1>4 DEF Go

\* The invariant is inductive.
LEMMA StepInv == IInv /\ [Next]_vars => IInv'
<1> SUFFICES ASSUME IInv, [Next]_vars PROVE IInv'
  OBVIOUS
<1>1. TypeOK'
  BY TypeStep
<1>2. docs' \in Seq(Doc) /\ Keeps
  BY StepKeeps
<1>3. \A q \in Runs : (Begun(q) /\ Progress(q) /\ CalcOK(q))'
  <2>1. ASSUME NEW r \in Runs, Start(r) \/ Go(r) \/ Kill(r), NEW q \in Runs
        PROVE  Begun(q)' /\ Progress(q)' /\ CalcOK(q)'
    <3>1. CASE q = r
      BY <1>2, <2>1, <3>1, OwnStep
    <3>2. CASE q # r
      BY <1>2, <2>1, <3>2, OneMoves, OtherRun
    <3> QED
      BY <3>1, <3>2
  <2>2. ASSUME NEW f \in Files, Edit(f), NEW q \in Runs
        PROVE  Begun(q)' /\ Progress(q)' /\ CalcOK(q)'
    BY <1>2, <2>2, OtherRun DEF Edit
  <2>3. ASSUME UNCHANGED vars, NEW q \in Runs PROVE Begun(q)' /\ Progress(q)' /\ CalcOK(q)'
    BY <1>2, <2>3, OtherRun DEF vars
  <2> QED
    BY <2>1, <2>2, <2>3 DEF Next
<1> QED
  BY <1>1, <1>3 DEF IInv

\* The values of the variables, for any runs, files and faults (TypeOK).
THEOREM TypeCorrect == Spec => []TypeOK
<1>1. IInv => TypeOK
  BY DEF IInv
<1> QED
  BY <1>1, InitInv, StepInv, PTL DEF Spec

\* run.py 83-135 stops at the first file that fails: a run that comes to its
\* end has stored each file as it read it, whatever else goes on.
THEOREM FinishedRuns == Spec => []FinishedMeansStored
<1>1. IInv => FinishedMeansStored
  <2> SUFFICES ASSUME IInv, NEW r \in Runs, pc[r] \in {"done", "stored"}
               PROVE  /\ Len(read[r]) = Len(tgt[r].files)
                      /\ \A n \in DOMAIN read[r] : IsStored(tgt[r].files[n], read[r][n])
    BY DEF FinishedMeansStored
  <2>1. Begun(r) /\ Progress(r) /\ read[r] \in Seq(Contents)
    BY DEF IInv, TypeOK
  <2>2. DOMAIN read[r] = 1..Len(read[r])
    BY <2>1
  <2> QED
    BY <2>1, <2>2 DEF Begun, Progress, AtEnd, StoredUpTo
<1> QED
  BY <1>1, InitInv, StepInv, PTL DEF Spec

-----------------------------------------------------------------------------
(* What a skip rests on.                                                   *)

\* A run goes to the comparison only with a stored hash in hand.
LEMMA ToCompare ==
  ASSUME TypeOK, NEW r \in Runs, Start(r) \/ Go(r) \/ Kill(r), pc'[r] = "compare"
  PROVE  ReadHash(r)
<1>1. DOMAIN pc = Runs
  BY DEF TypeOK
<1>2. CASE Start(r) \/ Kill(r)
  BY <1>1, <1>2 DEF Start, Kill, GoTo
<1>3. CASE Go(r)
  BY <1>1, <1>3 DEF Go, Register, RegisterFails, Compare, ReadFile, SkipByTitle, MissTitle,
     InsertL1, SetHead, EndFile, FileFails, EndFiles, Compute, WriteHash, FinalizeFails, GoTo
<1> QED
  BY <1>2, <1>3

\* Only the comparison tells a run to skip.
LEMMA WhoSkips ==
  ASSUME IInv, [Next]_vars, NEW r \in Runs, ToldToSkip(r)
  PROVE  Compare(r) /\ pc[r] = "compare"
<1>1. TypeOK /\ DOMAIN pc = Runs
  BY DEF IInv, TypeOK
<1>2. ASSUME NEW q \in Runs, q # r, Start(q) \/ Go(q) \/ Kill(q) PROVE FALSE
  BY <1>2, OneMoves DEF ToldToSkip
<1>3. CASE Start(r) \/ Go(r) \/ Kill(r)
  <2>1. ~Start(r) /\ ~Kill(r)
    BY <1>1 DEF Start, Kill, GoTo, ToldToSkip
  <2>2. Compare(r)
    BY <1>1, <1>3, <2>1 DEF ToldToSkip, Go, Register, RegisterFails, ReadHash, ReadFile,
       SkipByTitle, MissTitle, InsertL1, SetHead, EndFile, FileFails, EndFiles, Compute, WriteHash,
       FinalizeFails, GoTo
  <2> QED
    BY <2>2 DEF Compare
<1> QED
  BY <1>2, <1>3 DEF Next, Edit, vars, ToldToSkip

\* A run that has come to its end stays there.
LEMMA StaySent ==
  ASSUME IInv, [Next]_vars, NEW p, SentAll(p)
  PROVE  SentAll(p)'
<1>1. PICK q \in Runs : Root(q) = p /\ pc[q] \in {"done", "stored"}
  BY DEF SentAll
<1>2. ~Start(q) /\ ~Go(q) /\ ~Kill(q)
  BY <1>1 DEF Start, Go, Kill, Register, RegisterFails, ReadHash, Compare, ReadFile, SkipByTitle,
     MissTitle, InsertL1, SetHead, EndFile, FileFails, EndFiles, Compute, WriteHash,
     FinalizeFails, Steps
<1>3. ASSUME NEW r \in Runs, r # q, Start(r) \/ Go(r) \/ Kill(r)
      PROVE  pc'[q] = pc[q] /\ tgt'[q] = tgt[q]
  BY <1>3, OneMoves
<1>4. pc'[q] = pc[q] /\ tgt'[q] = tgt[q]
  BY <1>2, <1>3 DEF Next, Edit, vars
<1> QED
  BY <1>1, <1>4 DEF SentAll, Root

\* A hash is stored by a run that comes to its end with that.
LEMMA HashStep == IInv /\ HashInv /\ [Next]_vars => HashInv'
<1> SUFFICES ASSUME IInv, HashInv, [Next]_vars PROVE HashInv'
  OBVIOUS
<1>0. TypeOK /\ DOMAIN pc = Runs /\ DOMAIN hash = Roots /\ \A r \in Runs : Begun(r)
  BY DEF IInv, TypeOK
<1>1. ASSUME NEW p \in Roots, hash'[p] # {} PROVE SentAll(p)'
  <2>1. CASE hash'[p] = hash[p]
    BY <1>1, <2>1, StaySent DEF HashInv
  <2>2. ASSUME NEW r \in Runs, WriteHash(r), hash'[p] # hash[p] PROVE SentAll(p)'
    <3>1. p = Root(r) /\ pc'[r] \in {"done", "stored"} /\ tgt' = tgt
      BY <1>0, <2>2 DEF WriteHash, GoTo
    <3> QED
      BY <3>1 DEF SentAll, Root
  <2>3. hash' = hash \/ \E r \in Runs : WriteHash(r)
    BY DEF Next, Start, Go, Kill, Edit, Register, RegisterFails, ReadHash, Compare, ReadFile,
       SkipByTitle, MissTitle, InsertL1, SetHead, EndFile, FileFails, EndFiles, Compute,
       FinalizeFails, vars
  <2> QED
    BY <2>1, <2>2, <2>3
<1>2. ASSUME NEW r \in Runs, pc'[r] = "compare" PROVE SentAll(Root(r))'
  <2>1. ASSUME pc[r] = "compare", tgt'[r] = tgt[r] PROVE SentAll(Root(r))'
    <3>1. SentAll(Root(r)) /\ Root(r)' = Root(r)
      BY <2>1 DEF HashInv, Root
    <3>2. PICK p : p = Root(r)
      OBVIOUS
    <3>3. SentAll(p)'
      BY <3>1, <3>2, StaySent
    <3> QED
      BY <3>1, <3>2, <3>3
  <2>2. CASE ReadHash(r)
    <3>1. hash[Root(r)] # {} /\ Root(r) \in Roots /\ tgt' = tgt
      BY <1>0, <1>2, <2>2, RunTypes DEF ReadHash, GoTo
    <3>2. PICK p \in Roots : p = Root(r)
      BY <3>1
    <3>3. SentAll(p)'
      BY <3>1, <3>2, StaySent DEF HashInv
    <3> QED
      BY <3>1, <3>2, <3>3 DEF Root
  <2>3. ASSUME NEW q \in Runs, q # r, Start(q) \/ Go(q) \/ Kill(q)
        PROVE  pc'[r] = pc[r] /\ tgt'[r] = tgt[r]
    BY <2>3, OneMoves
  <2>4. ASSUME Start(r) \/ Go(r) \/ Kill(r) PROVE ReadHash(r)
    BY <1>0, <1>2, <2>4, ToCompare
  <2> QED
    BY <1>2, <2>1, <2>2, <2>3, <2>4 DEF Next, Edit, vars
<1> QED
  BY <1>1, <1>2 DEF HashInv

\* server.go 120-127 and 132-155 with run.py 83-135: whatever fails, is edited or goes on
\* side by side, a run is told to skip only after another one of the same root has stored
\* all its files.
THEOREM SkipsFollowRuns == Spec => SkipAfterFullRun
<1>1. Init => HashInv
  BY DEF Init, HashInv
<1>2. ASSUME IInv, HashInv, [Next]_vars, NEW r \in Runs, ToldToSkip(r)
      PROVE  \E q \in Runs : /\ Root(q) = Root(r) /\ pc[q] \in {"done", "stored"}
                             /\ \A n \in DOMAIN tgt[q].files :
                                  n \in DOMAIN read[q] /\ IsStored(tgt[q].files[n], read[q][n])
  <2>1. SentAll(Root(r))
    BY <1>2, WhoSkips DEF HashInv
  <2>2. PICK q \in Runs : Root(q) = Root(r) /\ pc[q] \in {"done", "stored"}
    BY <2>1 DEF SentAll
  <2>3. TypeOK /\ Begun(q) /\ Progress(q)
    BY <1>2 DEF IInv
  <2>4. Len(read[q]) = Len(tgt[q].files) /\ StoredUpTo(q, Len(read[q]))
    BY <2>2, <2>3 DEF Begun, Progress, AtEnd
  <2>5. DOMAIN tgt[q].files = 1..Len(read[q]) /\ DOMAIN read[q] = 1..Len(read[q])
    BY <2>3, <2>4, RunTypes
  <2> QED
    BY <2>2, <2>4, <2>5 DEF StoredUpTo
<1>3. IInv /\ HashInv /\ [Next]_vars
      => [\A r \in Runs : ToldToSkip(r) =>
            \E q \in Runs : /\ Root(q) = Root(r) /\ pc[q] \in {"done", "stored"}
                            /\ \A n \in DOMAIN tgt[q].files :
                                 n \in DOMAIN read[q] /\ IsStored(tgt[q].files[n], read[q][n])]_vars
  BY <1>2
<1> QED
  BY <1>1, <1>3, HashStep, InitInv, StepInv, PTL DEF Spec, SkipAfterFullRun

-----------------------------------------------------------------------------
(* Runs of whole directories, no edits.                                    *)

\* No command line names the same root with other files.
OneTargetPerRoot == \A s, t \in Targets : s.root = t.root => s = t

\* Projects keep what is covered.
LEMMA KeepsCovered ==
  ASSUME IInv, docs' \in Seq(Doc), Keeps, disk' = disk, NEW p \in Roots, Covered(p)
  PROVE  Covered(p)'
<1> USE SyncAssumption
<1>1. ASSUME NEW t \in Targets, t.root = p, NEW n \in DOMAIN t.files
      PROVE  IsStored(t.files[n], disk[t.files[n]])'
  <2>1. PICK f \in Files : f = t.files[n]
    BY <1>1
  <2>2. disk[f] \in Contents /\ docs \in Seq(Doc)
    BY DEF IInv, TypeOK
  <2>3. PICK c \in Contents : c = disk[f]
    BY <2>2
  <2>4. IsStored(f, c)
    BY <1>1, <2>1, <2>3 DEF Covered
  <2>5. IsStored(f, c)'
    BY <2>2, <2>4, KeepsStored
  <2> QED
    BY <2>1, <2>3, <2>5 DEF IsStored
<1> QED
  BY <1>1 DEF Covered

\* A run that has sent all its files has covered its project.
LEMMA EndCovers ==
  ASSUME OneTargetPerRoot, IInv, SkipInv, NEW r \in Runs, pc[r] = "write"
  PROVE  Covered(Root(r))
<1>1. Begun(r) /\ Progress(r) /\ TypeOK
  BY DEF IInv
<1>2. Len(read[r]) = Len(tgt[r].files) /\ StoredUpTo(r, Len(read[r])) /\ tgt[r] \in Targets
  BY <1>1 DEF Begun, Progress, AtEnd
<1>3. read[r] \in Seq(Contents) /\ tgt[r].files \in Seq(Files) /\ Len(read[r]) \in Nat
  BY <1>1, RunTypes
<1>4. \A n \in DOMAIN tgt[r].files : IsStored(tgt[r].files[n], disk[tgt[r].files[n]])
  <2> TAKE n \in DOMAIN tgt[r].files
  <2>1. n \in 1..Len(read[r]) /\ n \in DOMAIN read[r]
    BY <1>2, <1>3
  <2>2. IsStored(tgt[r].files[n], read[r][n])
    BY <1>2, <2>1 DEF StoredUpTo
  <2>3. read[r][n] = disk[tgt[r].files[n]]
    BY <2>1 DEF SkipInv
  <2> QED
    BY <2>2, <2>3
<1>5. \A t \in Targets : t.root = Root(r) => t = tgt[r]
  BY <1>2 DEF OneTargetPerRoot, Root
<1> QED
  BY <1>4, <1>5 DEF Covered

\* The steps that bear on what a run that skips relies on.
LEMMA SkipStep ==
  ASSUME ~Edits, OneTargetPerRoot, IInv, SkipInv, [Next]_vars
  PROVE  SkipInv'
<1> USE SyncAssumption
<1>0. TypeOK /\ docs' \in Seq(Doc) /\ Keeps /\ \A r \in Runs : Begun(r)
  BY StepKeeps DEF IInv
<1>d. disk' = disk
  BY DEF Next, Start, Go, Kill, Edit, Register, RegisterFails, ReadHash, Compare, ReadFile,
     SkipByTitle, MissTitle, InsertL1, SetHead, EndFile, FileFails, EndFiles, Compute,
     WriteHash, FinalizeFails, vars
<1>c. \A p \in Roots : Covered(p) => Covered(p)'
  BY <1>0, <1>d, KeepsCovered
<1>1. ASSUME NEW r \in Runs, NEW n \in DOMAIN read'[r] PROVE read'[r][n] = disk'[tgt'[r].files[n]]
  <2>1. CASE read' = read /\ tgt'[r] = tgt[r]
    BY <1>1, <1>d, <2>1 DEF SkipInv
  <2>2. CASE Start(r)
    BY <1>0, <1>1, <2>2 DEF Start, Begun
  <2>3. CASE ReadFile(r)
    <3> DEFINE longer == Append(read[r], disk[tgt[r].files[Len(read[r]) + 1]])
    <3>1. read'[r] = longer /\ tgt'[r] = tgt[r]
      BY <1>0, <2>3 DEF ReadFile, TypeOK
    <3>2. read[r] \in Seq(Contents) /\ Len(read[r]) \in Nat
      BY <1>0, RunTypes
    <3>3. tgt[r].files[Len(read[r]) + 1] \in Files
      BY <1>0, <2>3, <3>2, RunTypes DEF ReadFile
    <3>4. disk[tgt[r].files[Len(read[r]) + 1]] \in Contents
      BY <1>0, <3>3 DEF TypeOK
    <3>5. /\ Len(longer) = Len(read[r]) + 1 /\ DOMAIN longer = 1..(Len(read[r]) + 1)
          /\ \A k \in 1..Len(read[r]) : longer[k] = read[r][k]
          /\ longer[Len(read[r]) + 1] = disk[tgt[r].files[Len(read[r]) + 1]]
      BY <3>2, <3>4
    <3> HIDE DEF longer
    <3>6. n \in 1..(Len(read[r]) + 1)
      BY <1>1, <3>1, <3>5
    <3>7. CASE n = Len(read[r]) + 1
      BY <1>d, <3>1, <3>5, <3>7
    <3>8. CASE n \in 1..Len(read[r])
      BY <1>d, <3>1, <3>2, <3>5, <3>8 DEF SkipInv
    <3> QED
      BY <3>2, <3>6, <3>7, <3>8
  <2>4. ASSUME NEW q \in Runs, q # r, Start(q) \/ Go(q) \/ Kill(q)
        PROVE  read'[r] = read[r] /\ tgt'[r] = tgt[r]
    BY <2>4, OneMoves
  <2>5. ASSUME Go(r) \/ Kill(r), ~ReadFile(r) PROVE read' = read /\ tgt'[r] = tgt[r]
    BY <2>5 DEF Go, Kill, Register, RegisterFails, ReadHash, Compare, SkipByTitle, MissTitle,
       InsertL1, SetHead, EndFile, FileFails, EndFiles, Compute, WriteHash, FinalizeFails
  <2>6. ASSUME NEW f \in Files, Edit(f) PROVE FALSE
    BY <2>6 DEF Edit
  <2>7. CASE read'[r] = read[r] /\ tgt'[r] = tgt[r]
    BY <1>1, <1>d, <2>7 DEF SkipInv
  <2> QED
    BY <2>1, <2>2, <2>3, <2>4, <2>5, <2>6, <2>7 DEF Next, vars
<1>2. ASSUME NEW p \in Roots, hash'[p] # {} PROVE Covered(p)'
  <2>1. CASE hash'[p] = hash[p]
    BY <1>c, <1>2, <2>1 DEF SkipInv
  <2>2. ASSUME NEW r \in Runs, WriteHash(r) PROVE Covered(p)'
    <3>1. CASE p = Root(r)
      BY <1>c, <2>2, <3>1, EndCovers DEF WriteHash
    <3>2. CASE p # Root(r)
      BY <1>0, <2>1, <2>2, <3>2 DEF WriteHash, TypeOK
    <3> QED
      BY <3>1, <3>2
  <2>3. hash' = hash \/ \E r \in Runs : WriteHash(r)
    BY DEF Next, Start, Go, Kill, Edit, Register, RegisterFails, ReadHash, Compare, ReadFile,
       SkipByTitle, MissTitle, InsertL1, SetHead, EndFile, FileFails, EndFiles, Compute,
       FinalizeFails, vars
  <2> QED
    BY <2>1, <2>2, <2>3
<1>3. ASSUME NEW r \in Runs, pc'[r] = "compare" PROVE Covered(Root(r))'
  <2>1. CASE pc[r] = pc'[r] /\ tgt'[r] = tgt[r]
    <3>1. Covered(Root(r)) /\ Root(r) \in Roots
      BY <1>0, <1>3, <2>1, RunTypes DEF SkipInv
    <3>2. Root(r)' = Root(r)
      BY <2>1 DEF Root
    <3> QED
      BY <1>c, <3>1, <3>2 DEF Covered
  <2>2. CASE ReadHash(r)
    <3>1. hash[Root(r)] # {} /\ Root(r) \in Roots /\ tgt' = tgt
      BY <1>0, <1>3, <2>2, RunTypes DEF ReadHash, GoTo, TypeOK
    <3>2. Covered(Root(r)) /\ Root(r)' = Root(r)
      BY <3>1 DEF SkipInv, Root
    <3> QED
      BY <1>c, <3>1, <3>2 DEF Covered
  <2>4. ASSUME NEW q \in Runs, q # r, Start(q) \/ Go(q) \/ Kill(q)
        PROVE  pc'[r] = pc[r] /\ tgt'[r] = tgt[r]
    BY <2>4, OneMoves
  <2>5. ASSUME Start(r) \/ Go(r) \/ Kill(r) PROVE ReadHash(r)
    BY <1>0, <1>3, <2>5, ToCompare
  <2>6. ASSUME NEW f \in Files, Edit(f) PROVE FALSE
    BY <2>6 DEF Edit
  <2> QED
    BY <2>1, <2>2, <2>4, <2>5, <2>6 DEF Next, vars
<1> QED
  BY <1>1, <1>2, <1>3 DEF SkipInv

\* server.go 120-127 with run.py 88-90: where nobody edits the files and each
\* root is always ingested whole, a run that skips has nothing left to store.
THEOREM SkippedRuns == ASSUME ~Edits, OneTargetPerRoot PROVE Spec => SkipMeansStored
<1>1. Init => SkipInv
  <2> SUFFICES ASSUME Init PROVE SkipInv
    OBVIOUS
  <2>1. \A r \in Runs : read[r] = << >> /\ pc[r] = "idle"
    BY DEF Init
  <2>2. \A p \in Roots : hash[p] = {}
    BY DEF Init
  <2> QED
    BY <2>1, <2>2 DEF SkipInv
<1>2. IInv /\ SkipInv /\ [Next]_vars => SkipInv'
  BY SkipStep
<1>3. ASSUME IInv, SkipInv, [Next]_vars, NEW r \in Runs, ToldToSkip(r),
             NEW n \in DOMAIN tgt[r].files
      PROVE  IsStored(tgt[r].files[n], disk[tgt[r].files[n]])
  <2>1. Covered(Root(r)) /\ tgt[r] \in Targets
    BY <1>3, WhoSkips DEF SkipInv, IInv, Begun
  <2> QED
    BY <1>3, <2>1 DEF Covered, Root
<1>4. IInv /\ SkipInv /\ [Next]_vars
      => [\A r \in Runs : ToldToSkip(r) =>
            \A n \in DOMAIN tgt[r].files : IsStored(tgt[r].files[n], disk[tgt[r].files[n]])]_vars
  BY <1>3
<1> QED
  BY <1>1, <1>2, <1>4, InitInv, StepInv, PTL DEF Spec, SkipMeansStored

-----------------------------------------------------------------------------
(* One run after the other over each root.                                 *)

\* The run has not changed its project yet.
Untouched == {"register", "readhash", "compare"}

\* Somebody failed, or did not hear that the hash was stored.
Broken == \E r \in Runs : pc[r] \in {"failed", "done"}

\* A project nobody has touched since its hash was stored has the hash it should.
Settled(p) == (\A r \in Active : Root(r) = p => pc[r] \in Untouched) => hash[p] = Project(p)

\* A run at work writes to its own project, and the hash it has in hand stays right.
OwnProject(r) ==
  /\ pc[r] = "head" => docs[row[r]].root \in {Root(r), NoRoot}
  /\ pc[r] = "write" => calc[r] = Project(Root(r))

QuietInv == /\ \A q, r \in Active : Root(q) = Root(r) => q = r
            /\ \A r \in Runs : OwnProject(r)
            /\ Broken \/ \A p \in Roots : Settled(p)

LEMMA QuietInit == Init => QuietInv
  <1> SUFFICES ASSUME Init PROVE QuietInv
    OBVIOUS
  <1>1. \A r \in Runs : pc[r] = "idle"
    BY DEF Init
  <1>2. \A p \in Roots : hash[p] = {} /\ Project(p) = {}
    BY DEF Init, Project
  <1> QED
    BY <1>1, <1>2 DEF QuietInv, Active, Steps, OwnProject, Settled

\* A new row has no head yet, and its head makes it one of the run's project.
LEMMA ProjectsStay ==
  ASSUME TypeOK, NEW r \in Runs, Begun(r), OwnProject(r), NEW p \in Roots,
         \/ docs' = docs \/ InsertL1(r) \/ (SetHead(r) /\ p # Root(r))
  PROVE  Project(p)' = Project(p)
  <1>0. docs \in Seq(Doc) /\ Len(docs) \in Nat /\ DOMAIN docs = 1..Len(docs)
    BY DEF TypeOK
  <1>1. CASE docs' = docs
    BY <1>1 DEF Project
  <1>2. CASE InsertL1(r)
    <2>1. /\ docs' \in Seq(Doc) /\ Len(docs') = Len(docs) + 1
          /\ docs'[Len(docs) + 1].head = FALSE
          /\ \A k \in 1..Len(docs) : docs'[k] = docs[k]
      BY <1>2, InsertEffect
    <2>2. DOMAIN docs' = 1..(Len(docs) + 1)
      BY <1>0, <2>1
    <2>3. \A k \in 1..(Len(docs) + 1) : k \in 1..Len(docs) \/ k = Len(docs) + 1
      BY <1>0
    <2>4. \A k \in 1..Len(docs) : k \in 1..(Len(docs) + 1)
      BY <1>0
    <2> QED
      BY <1>0, <2>1, <2>2, <2>3, <2>4 DEF Project
  <1>3. CASE SetHead(r) /\ p # Root(r)
    <2>1. /\ docs' = [docs EXCEPT ![row[r]].head = TRUE] /\ row[r] \in DOMAIN docs
          /\ docs[row[r]].root \in {Root(r), NoRoot} /\ NoRoot \notin Roots
      BY <1>0, <1>3, SyncAssumption DEF SetHead, OwnProject, TypeOK, Begun
    <2>2. docs[row[r]].root # p
      BY <1>3, <2>1
    <2>3. /\ DOMAIN docs' = DOMAIN docs
          /\ \A k \in DOMAIN docs : k # row[r] => docs'[k] = docs[k]
          /\ docs'[row[r]] = [docs[row[r]] EXCEPT !.head = TRUE]
      BY <2>1
    <2>4. docs[row[r]] \in Doc
      BY <1>0, <2>1
    <2>5. \A d \in Doc : [d EXCEPT !.head = TRUE].root = d.root
      BY DEF Doc
    <2>6. docs'[row[r]].root = docs[row[r]].root
      BY <2>3, <2>4, <2>5
    <2> QED
      BY <2>2, <2>3, <2>6 DEF Project
  <1> QED
    BY <1>1, <1>2, <1>3
\* The step of a run that the others of its root have waited for.
LEMMA QuietRun ==
  ASSUME Overlap # "all", "pgread" \notin Faults, IInv, QuietInv, NEW r \in Runs,
         Start(r) \/ Go(r) \/ Kill(r)
  PROVE  QuietInv'
  <1> USE SyncAssumption
  <1>0. /\ TypeOK /\ Begun(r) /\ OwnProject(r)
        /\ pc \in [Runs -> Steps \cup Ends \cup {"idle"}] /\ DOMAIN tgt = Runs
        /\ hash \in [Roots -> SUBSET (Nat \ {0})] /\ calc \in [Runs -> SUBSET (Nat \ {0})]
        /\ \A p \in Roots : hash[p] \subseteq Project(p)
    BY DEF IInv, QuietInv, TypeOK
  <1>1. pc[r] = "idle" \/ pc[r] \in Steps
    BY <1>0 DEF Start, Go, Kill, Register, RegisterFails, ReadHash, Compare, ReadFile, SkipByTitle,
       MissTitle, InsertL1, SetHead, EndFile, FileFails, EndFiles, Compute, WriteHash,
       FinalizeFails, Steps
  <1>m. ASSUME NEW q \in Runs, q # r
        PROVE  /\ pc'[q] = pc[q] /\ tgt'[q] = tgt[q] /\ row'[q] = row[q] /\ calc'[q] = calc[q]
               /\ Root(q)' = Root(q)
    BY <1>m, OneMoves DEF Root
  <1>s. pc[r] # "idle" => tgt' = tgt /\ Root(r)' = Root(r)
    BY DEF Root, Start, Go, Kill, Register, RegisterFails, ReadHash, Compare, ReadFile, SkipByTitle,
       MissTitle, InsertL1, SetHead, EndFile, FileFails, EndFiles, Compute, WriteHash, FinalizeFails
  <1>k. IInv /\ [Next]_vars
    BY DEF Next
  <1>d. docs' \in Seq(Doc) /\ Keeps
    BY <1>k, StepKeeps
  \* The runs under way still have roots of their own.
  <1>3. ASSUME NEW q \in Active', NEW u \in Active', Root(q)' = Root(u)' PROVE q = u
    <2>1. ASSUME NEW v \in Active', v # r PROVE v \in Active /\ v \in Runs /\ Root(v)' = Root(v)
      BY <1>m, <2>1 DEF Active
    <2>2. CASE pc[r] # "idle"
      <3>1. r \in Active /\ Root(r)' = Root(r)
        BY <1>1, <1>s, <2>2 DEF Active
      <3> QED
        BY <1>3, <2>1, <3>1 DEF QuietInv
    <2>3. CASE pc[r] = "idle"
      <3>1. Start(r)
        BY <2>3 DEF Go, Kill, Register, RegisterFails, ReadHash, Compare, ReadFile, SkipByTitle,
           MissTitle, InsertL1, SetHead, EndFile, FileFails, EndFiles, Compute, WriteHash,
           FinalizeFails, Steps
      <3>2. \A v \in Active : MayOverlap(Root(r)', Root(v))
        BY <1>0, <3>1 DEF Start, Root
      <3>3. \A v \in Active : Root(r)' # Root(v)
        BY <3>2 DEF MayOverlap
      <3> QED
        BY <1>3, <2>1, <3>3 DEF QuietInv
    <2> QED
      BY <2>2, <2>3
  <1>4. Broken => \E q \in Runs : q # r /\ pc[q] \in {"failed", "done"}
    BY <1>1 DEF Broken, Steps
  <1>5. Broken => Broken'
    BY <1>m, <1>4 DEF Broken
  \* What the run does to the hash and to the projects.
  <1>6. ASSUME NEW p \in Roots, \/ docs' = docs \/ InsertL1(r) \/ (SetHead(r) /\ p # Root(r))
        PROVE  Project(p)' = Project(p)
    BY <1>0, <1>6, ProjectsStay
  <1>7. ASSUME NEW p \in Roots PROVE Seen(p) = {Project(p)}
    BY DEF Seen
  <1>8. pc[r] # "idle" => Root(r) \in Roots /\ Root(r)' = Root(r)
    BY <1>0, <1>s, RunTypes
  \* The step leaves the projects of the other runs, and what they rest on, alone.
  <1>2. ASSUME NEW q \in Runs, q # r PROVE OwnProject(q)'
    <2>1. OwnProject(q) /\ Begun(q) /\ TypeOK
      BY DEF QuietInv, IInv
    <2>2. CASE pc[q] = "head"
      <3>1. row[q] \in 1..Len(docs)
        BY <2>1, <2>2 DEF Begun, TypeOK
      <3>2. docs'[row[q]].root = docs[row[q]].root
        BY <1>d, <3>1 DEF Keeps
      <3> QED
        BY <1>m, <1>2, <2>1, <2>2, <3>2 DEF OwnProject
    <2>3. CASE pc[q] = "write"
      <3>1. Root(q) \in Roots /\ q \in Active
        BY <2>1, <2>3, RunTypes DEF Active, Steps
      <3>2. docs' = docs \/ (pc[r] \in Steps /\ (InsertL1(r) \/ SetHead(r)))
        <4>1. CASE InsertL1(r) \/ SetHead(r)
          BY <4>1 DEF InsertL1, SetHead, Steps
        <4>2. CASE ~(InsertL1(r) \/ SetHead(r))
          BY <4>2 DEF Start, Go, Kill, Register, RegisterFails, ReadHash, Compare, ReadFile,
             SkipByTitle, MissTitle, EndFile, FileFails, EndFiles, Compute, WriteHash, FinalizeFails
        <4> QED
          BY <4>1, <4>2
      <3>3. pc[r] \in Steps => Root(q) # Root(r)
        BY <1>2, <3>1 DEF QuietInv, Active
      <3>4. PICK p \in Roots : p = Root(q)
        BY <3>1
      <3>5. Project(p)' = Project(p)
        BY <1>6, <3>2, <3>3, <3>4
      <3>6. calc[q] = Project(p)
        BY <2>1, <2>3, <3>4 DEF OwnProject
      <3> QED
        BY <1>m, <1>2, <2>3, <3>4, <3>5, <3>6 DEF OwnProject, Project
    <2>4. CASE pc[q] \notin {"head", "write"}
      BY <1>m, <1>2, <2>4 DEF OwnProject
    <2> QED
      BY <2>2, <2>3, <2>4
  \* A project that nobody touches, before and after.
  <1>9. ASSUME NEW p \in Roots, ~Broken, hash'[p] = hash[p], Project(p)' = Project(p),
               pc[r] \in Steps /\ Root(r) = p => pc[r] \in Untouched
        PROVE  Settled(p)'
    <2> SUFFICES ASSUME \A q \in Active' : Root(q)' = p => pc'[q] \in Untouched
                 PROVE  hash'[p] = Project(p)'
      BY DEF Settled
    <2>1. \A q \in Active : q # r => q \in Active' /\ Root(q)' = Root(q) /\ pc'[q] = pc[q]
      BY <1>m DEF Active
    <2>2. \A q \in Active : Root(q) = p => pc[q] \in Untouched
      BY <1>9, <2>1 DEF Active
    <2>3. hash[p] = Project(p)
      BY <1>9, <2>2 DEF QuietInv, Settled
    <2> QED
      BY <1>9, <2>3
  \* The project of the run itself, once it is touched.
  <1>10. ASSUME NEW p \in Roots, p = Root(r)', pc'[r] \in Steps \ Untouched
         PROVE  Settled(p)'
    BY <1>10 DEF Settled, Active
  <1>11. CASE Start(r) \/ Register(r) \/ RegisterFails(r) \/ ReadHash(r) \/ Compare(r)
    <2>1. /\ docs' = docs /\ hash' = hash
          /\ pc[r] \in {"idle", "register", "readhash", "compare"}
          /\ pc'[r] \in {"register", "readhash", "compare", "file", "skipped"}
      BY <1>0, <1>11 DEF Start, Register, RegisterFails, ReadHash, Compare, GoTo
    <2>2. ~Broken => \A p \in Roots : Settled(p)'
      BY <1>6, <1>9, <2>1 DEF Untouched, Steps
    <2>3. OwnProject(r)'
      BY <2>1 DEF OwnProject
    <2> QED
      BY <1>2, <1>3, <1>5, <2>2, <2>3 DEF QuietInv
  <1>12. ASSUME \/ docs' = docs \/ InsertL1(r) \/ SetHead(r),
                hash' = hash, pc[r] \in Steps, pc'[r] \in Steps \ Untouched, ~Broken,
                NEW p \in Roots
         PROVE  Settled(p)'
    <2>1. CASE p = Root(r)
      BY <1>8, <1>10, <1>12, <2>1 DEF Steps
    <2>2. CASE p # Root(r)
      BY <1>6, <1>9, <1>12, <2>2
    <2> QED
      BY <2>1, <2>2
  <1>13. CASE ReadFile(r) \/ SkipByTitle(r) \/ MissTitle(r) \/ InsertL1(r) \/ SetHead(r) \/ EndFile(r)
    <2>1. /\ pc[r] \in Steps /\ hash' = hash
          /\ pc'[r] \in {"title", "file", "l1", "head", "rest"}
          /\ pc'[r] = "head" => InsertL1(r)
          /\ docs' = docs \/ InsertL1(r) \/ SetHead(r)
      BY <1>0, <1>13 DEF ReadFile, SkipByTitle, MissTitle, InsertL1, SetHead, EndFile, GoTo, Steps
    <2>2. ~Broken => \A p \in Roots : Settled(p)'
      BY <1>12, <2>1 DEF Untouched, Steps
    <2>3. CASE InsertL1(r)
      <3>1. /\ docs'[Len(docs) + 1].root \in {Root(r), NoRoot}
            /\ row' = [row EXCEPT ![r] = Len(docs) + 1] /\ DOMAIN row = Runs
        BY <1>0, <2>3, InsertEffect DEF TypeOK
      <3>2. docs'[row'[r]].root \in {Root(r)', NoRoot}
        BY <1>8, <2>1, <3>1 DEF Steps
      <3>3. pc'[r] # "write"
        BY <2>1
      <3> QED
        BY <1>2, <1>3, <1>5, <2>2, <3>2, <3>3 DEF QuietInv, OwnProject
    <2>4. CASE ~InsertL1(r)
      BY <1>2, <1>3, <1>5, <2>1, <2>2, <2>4 DEF QuietInv, OwnProject
    <2> QED
      BY <2>3, <2>4
  <1>14. CASE FileFails(r) \/ FinalizeFails(r) \/ Kill(r) \/ (EndFiles(r) /\ pc'[r] = "done")
    <2>1. pc'[r] \in {"failed", "done"}
      BY <1>0, <1>14 DEF FileFails, FinalizeFails, Kill, GoTo
    <2> QED
      BY <1>2, <1>3, <2>1 DEF QuietInv, Broken, OwnProject
  <1>15. CASE EndFiles(r) /\ pc'[r] # "done"
    <2>1. pc[r] \in Steps /\ pc'[r] = "compute" /\ docs' = docs /\ hash' = hash
      BY <1>0, <1>15 DEF EndFiles, GoTo, Steps
    <2>2. ~Broken => \A p \in Roots : Settled(p)'
      BY <1>12, <2>1 DEF Untouched, Steps
    <2> QED
      BY <1>2, <1>3, <1>5, <2>1, <2>2 DEF QuietInv, OwnProject
  <1>16. CASE Compute(r)
    <2>1. /\ pc[r] = "compute" /\ docs' = docs /\ hash' = hash
          /\ Root(r) \in Roots /\ Root(r)' = Root(r)
      BY <1>8, <1>16 DEF Compute
    <2>2. /\ calc'[r] = Project(Root(r))
          /\ pc'[r] = IF Project(Root(r)) = {} THEN "stored" ELSE "write"
      BY <1>0, <1>7, <1>16, <2>1 DEF Compute, GoTo
    <2>3. \A p \in Roots : Project(p)' = Project(p)
      BY <1>6, <2>1
    <2>4. OwnProject(r)'
      BY <2>1, <2>2, <2>3 DEF OwnProject
    <2>5. ASSUME ~Broken, NEW p \in Roots PROVE Settled(p)'
      <3>1. CASE p = Root(r) /\ Project(p) = {}
        BY <1>0, <2>1, <2>3, <3>1 DEF Settled
      <3>2. CASE ~(p = Root(r) /\ Project(p) = {})
        BY <1>9, <1>10, <2>1, <2>2, <2>3, <2>5, <3>2 DEF Untouched, Steps
      <3> QED
        BY <3>1, <3>2
    <2> QED
      BY <1>2, <1>3, <1>5, <2>4, <2>5 DEF QuietInv
  <1>17. CASE WriteHash(r)
    <2>1. /\ pc[r] = "write" /\ docs' = docs /\ pc'[r] \in {"stored", "done"}
          /\ hash' = [hash EXCEPT ![Root(r)] = calc[r]] /\ Root(r) \in Roots
      BY <1>0, <1>8, <1>17 DEF WriteHash, GoTo
    <2>2. \A p \in Roots : Project(p)' = Project(p)
      BY <1>6, <2>1
    <2>3. hash'[Root(r)] = Project(Root(r))
      BY <1>0, <2>1 DEF OwnProject
    <2>4. ASSUME ~Broken, NEW p \in Roots PROVE Settled(p)'
      <3>1. CASE p = Root(r)
        BY <2>2, <2>3, <3>1 DEF Settled
      <3>2. CASE p # Root(r)
        BY <1>0, <1>9, <2>1, <2>2, <2>4, <3>2
      <3> QED
        BY <3>1, <3>2
    <2> QED
      BY <1>2, <1>3, <1>5, <2>1, <2>4 DEF QuietInv, OwnProject
  <1> QED
    BY <1>11, <1>13, <1>14, <1>15, <1>16, <1>17 DEF Go

\* Where the runs over a root do not overlap, whatever runs over other roots do with the
\* same files, and reads do not break off, a project's hash is that of its documents
\* whenever no run is under way, if none failed: the next run of it skips
\* (FinalizeProject after the last file, server.go; run.py 83-135).
THEOREM QuietProjects ==
  ASSUME Overlap # "all", "pgread" \notin Faults
  PROVE  Spec => []QuietMeansSettled
  <1>1. IInv /\ QuietInv /\ [Next]_vars => QuietInv'
    <2> SUFFICES ASSUME IInv, QuietInv, [Next]_vars PROVE QuietInv'
      OBVIOUS
    <2>1. CASE UNCHANGED vars \/ \E f \in Files : Edit(f)
      <3>1. UNCHANGED <<docs, hash, pc, tgt, row, calc>>
        BY <2>1 DEF vars, Edit
      <3> QED
        BY <3>1 DEF QuietInv, OwnProject, Broken, Settled, Active, Root, Project
    <2> QED
      BY <2>1, QuietRun DEF Next
  <1>2. QuietInv => QuietMeansSettled
    <2> SUFFICES ASSUME QuietInv, \A r \in Runs : pc[r] \in {"idle", "stored", "skipped"},
                        NEW p \in Roots
                 PROVE  hash[p] = Project(p)
      BY DEF QuietMeansSettled
    <2>1. ~Broken /\ Active = {}
      BY DEF Broken, Active, Steps
    <2> QED
      BY <2>1 DEF QuietInv, Settled
  <1> QED
    BY InitInv, StepInv, QuietInit, <1>1, <1>2, PTL DEF Spec
=============================================================================
