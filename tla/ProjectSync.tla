---------------------------- MODULE ProjectSync ----------------------------
(***************************************************************************)
(* Ingesting a directory or a file as a project (property/root_props/      *)
(* run.py against internal/phloem/server.go): a process registers the      *)
(* project of its root, is told whether it may skip, sends one file after  *)
(* the other, and has the project's content hash stored at the end.  Runs  *)
(* of several processes go side by side, and people edit the files.        *)
(*                                                                         *)
(* DefaultSink.Write is SinkWrite, told in four steps: the title query,    *)
(* the L1 row, current_l1_id, and the rest.  A document is named by the    *)
(* position of its L1 row.  The content hash is the set of documents it    *)
(* was computed from: each has a machine id and an l2_child_hash for good. *)
(***************************************************************************)
EXTENDS Integers, Sequences, FiniteSets

CONSTANTS
  Runs,        \* processes of run.py
  Roots,       \* project roots
  NoRoot,      \* no project: RegisterProject failed
  Files,       \* paths
  Targets,     \* command lines: the root, and the sorted files under the path
  Titles,      \* pairs of title and source_type
  TitleOf,     \* [Files -> Titles]: the stem of the path, or the path of code
  Contents,    \* contents of files
  Faults,      \* what may fail: "register", "pgread", "write", "finalize", "kill"
  Edits,       \* TRUE if files are edited
  Overlap      \* which runs go side by side: "none", those of different "roots", or "all"

ASSUME SyncAssumption ==
  /\ NoRoot \notin Roots
  /\ Targets \subseteq [root : Roots, files : Seq(Files)]
  /\ TitleOf \in [Files -> Titles]
  /\ Faults \subseteq {"register", "pgread", "write", "finalize", "kill"}
  /\ Edits \in BOOLEAN /\ Overlap \in {"none", "roots", "all"}

VARIABLES
  disk,    \* [Files -> Contents]
  docs,    \* the documents in created_at order of their L1 rows
  hash,    \* [Roots -> projects.content_hash], {} while NULL
  pc,      \* [Runs -> the next step of the run]
  tgt,     \* [Runs -> its command line, or NoTarget]
  known,   \* [Runs -> TRUE if the run has a project_id]
  read,    \* [Runs -> the contents of the files it has read, in order]
  row,     \* [Runs -> the document its Write is at]
  calc     \* [Runs -> the hash a server call has in hand for the run]

vars == <<disk, docs, hash, pc, tgt, known, read, row, calc>>

NoTarget == [root |-> NoRoot, files |-> << >>]
Doc == [title : Titles, content : Contents, root : Roots \cup {NoRoot}, head : BOOLEAN]

Ends   == {"done", "stored", "skipped", "failed"}
Steps  == {"register", "readhash", "compare", "file", "title", "l1", "head", "rest",
           "compute", "write"}
Active == {r \in Runs : pc[r] \in Steps}

Init == /\ disk \in [Files -> Contents]
        /\ docs = << >>
        /\ hash = [p \in Roots |-> {}]
        /\ pc = [r \in Runs |-> "idle"]
        /\ tgt = [r \in Runs |-> NoTarget]
        /\ known = [r \in Runs |-> FALSE]
        /\ read = [r \in Runs |-> << >>]
        /\ row = [r \in Runs |-> 0]
        /\ calc = [r \in Runs |-> {}]

GoTo(r, step) == pc' = [pc EXCEPT ![r] = step]

Root(r)    == tgt[r].root
File(r)    == tgt[r].files[Len(read[r])]       \* the file it has read last
Title(r)   == TitleOf[File(r)]
Content(r) == read[r][Len(read[r])]

-----------------------------------------------------------------------------
(* RegisterProject.                                                        *)

\* The environment starts a run over root p while one over root q is under way.
MayOverlap(p, q) == Overlap = "all" \/ (Overlap = "roots" /\ p # q)

Start(r) == /\ pc[r] = "idle"
            /\ \E t \in Targets : /\ \A q \in Active : MayOverlap(t.root, Root(q))
                                  /\ tgt' = [tgt EXCEPT ![r] = t]
            /\ GoTo(r, "register")
            /\ UNCHANGED <<disk, docs, hash, known, read, row, calc>>

\* The projects row is there, inserted or updated: its id goes with each file.
Register(r) == /\ pc[r] = "register"
               /\ known' = [known EXCEPT ![r] = TRUE]
               /\ GoTo(r, "readhash")
               /\ UNCHANGED <<disk, docs, hash, tgt, read, row, calc>>

\* The call fails; the run goes on without a project.
RegisterFails(r) == /\ "register" \in Faults
                    /\ pc[r] \in {"register", "readhash", "compare"}
                    /\ known' = [known EXCEPT ![r] = FALSE]
                    /\ GoTo(r, "file")
                    /\ UNCHANGED <<disk, docs, hash, tgt, read, row, calc>>

\* The stored hash; none, or a failed query, and nothing is compared.
ReadHash(r) ==
  /\ pc[r] = "readhash"
  /\ \/ /\ hash[Root(r)] # {}
        /\ calc' = [calc EXCEPT ![r] = hash[Root(r)]]
        /\ GoTo(r, "compare")
     \/ /\ hash[Root(r)] = {} \/ "pgread" \in Faults
        /\ GoTo(r, "file")
        /\ UNCHANGED calc
  /\ UNCHANGED <<disk, docs, hash, tgt, known, read, row>>

\* The documents of project p that have a head.
Project(p) == {k \in DOMAIN docs : docs[k].root = p /\ docs[k].head}

\* What computeProjectContentHash sees of p: a read that breaks off is not
\* noticed and gives the documents so far.
Seen(p) == {Project(p)} \cup
           IF "pgread" \in Faults THEN {{k \in Project(p) : k < n} : n \in DOMAIN docs} ELSE {}

\* The project's documents are those of the stored hash: up to date.
Compare(r) == /\ pc[r] = "compare"
              /\ \E s \in Seen(Root(r)) : GoTo(r, IF s = calc[r] THEN "skipped" ELSE "file")
              /\ UNCHANGED <<disk, docs, hash, tgt, known, read, row, calc>>

-----------------------------------------------------------------------------
(* One IngestMarkdown call per file.                                       *)

ReadFile(r) == /\ pc[r] = "file"
               /\ Len(read[r]) < Len(tgt[r].files)
               /\ LET f == tgt[r].files[Len(read[r]) + 1]
                  IN  read' = [read EXCEPT ![r] = Append(@, disk[f])]
               /\ GoTo(r, "title")
               /\ UNCHANGED <<disk, docs, hash, tgt, known, row, calc>>

\* The newest document of the title has the content.
TitleIsThere(t, c) == \E k \in DOMAIN docs :
  /\ docs[k].title = t /\ docs[k].content = c
  /\ \A j \in DOMAIN docs : j > k => docs[j].title # t

\* Mutated form: the title alone decides.
SkipByTitle_AnyContent(r) ==
  /\ pc[r] = "title"
  /\ \E k \in DOMAIN docs : docs[k].title = Title(r)
  /\ GoTo(r, "file")
  /\ UNCHANGED <<disk, docs, hash, tgt, known, read, row, calc>>

SkipByTitle(r) == /\ pc[r] = "title"
                  /\ TitleIsThere(Title(r), Content(r))
                  /\ GoTo(r, "file")
                  /\ UNCHANGED <<disk, docs, hash, tgt, known, read, row, calc>>

\* Another content, no document, or a failed query.
MissTitle(r) == /\ pc[r] = "title"
                /\ "pgread" \in Faults \/ ~TitleIsThere(Title(r), Content(r))
                /\ GoTo(r, "l1")
                /\ UNCHANGED <<disk, docs, hash, tgt, known, read, row, calc>>

NewDoc(r) == [title |-> Title(r), content |-> Content(r),
              root |-> IF known[r] THEN Root(r) ELSE NoRoot, head |-> FALSE]

InsertL1(r) == /\ pc[r] = "l1"
               /\ docs' = Append(docs, NewDoc(r))
               /\ row' = [row EXCEPT ![r] = Len(docs) + 1]
               /\ GoTo(r, "head")
               /\ UNCHANGED <<disk, hash, tgt, known, read, calc>>

SetHead(r) == /\ pc[r] = "head"
              /\ docs' = [docs EXCEPT ![row[r]].head = TRUE]
              /\ GoTo(r, "rest")
              /\ UNCHANGED <<disk, hash, tgt, known, read, row, calc>>

\* L2, L3 and the points are written; the call is answered with ok.
EndFile(r) == /\ pc[r] = "rest"
              /\ GoTo(r, "file")
              /\ UNCHANGED <<disk, docs, hash, tgt, known, read, row, calc>>

\* Mutated form: the run goes on to the next file.
FileFails_GoesOn(r) == /\ "write" \in Faults
                       /\ pc[r] \in {"title", "l1", "head", "rest"}
                       /\ GoTo(r, "file")
                       /\ UNCHANGED <<disk, docs, hash, tgt, known, read, row, calc>>

\* Mutated form: the project is finalized although a file has failed.
FileFails_Finalizes(r) == /\ "write" \in Faults
                          /\ pc[r] \in {"title", "l1", "head", "rest"}
                          /\ GoTo(r, IF known[r] THEN "compute" ELSE "failed")
                          /\ UNCHANGED <<disk, docs, hash, tgt, known, read, row, calc>>

\* The call fails somewhere: sys.exit(2).
FileFails(r) == /\ "write" \in Faults
                /\ pc[r] \in {"title", "l1", "head", "rest"}
                /\ GoTo(r, "failed")
                /\ UNCHANGED <<disk, docs, hash, tgt, known, read, row, calc>>

-----------------------------------------------------------------------------
(* FinalizeProject, and the end.                                           *)

EndFiles(r) == /\ pc[r] = "file"
               /\ Len(read[r]) = Len(tgt[r].files)
               /\ GoTo(r, IF known[r] THEN "compute" ELSE "done")
               /\ UNCHANGED <<disk, docs, hash, tgt, known, read, row, calc>>

\* No document, or a failed read: nothing is stored, and the answer is ok.
Compute(r) == /\ pc[r] = "compute"
              /\ \E s \in Seen(Root(r)) : /\ calc' = [calc EXCEPT ![r] = s]
                                          /\ GoTo(r, IF s = {} THEN "stored" ELSE "write")
              /\ UNCHANGED <<disk, docs, hash, tgt, known, read, row>>

\* Mutated form: the UPDATE has no WHERE.
WriteHash_AllRows(r) == /\ pc[r] = "write"
                        /\ hash' = [p \in Roots |-> calc[r]]
                        /\ GoTo(r, "stored")
                        /\ UNCHANGED <<disk, docs, tgt, known, read, row, calc>>

\* The answer may be lost.
WriteHash(r) == /\ pc[r] = "write"
                /\ hash' = [hash EXCEPT ![Root(r)] = calc[r]]
                /\ GoTo(r, "stored") \/ ("finalize" \in Faults /\ GoTo(r, "done"))
                /\ UNCHANGED <<disk, docs, tgt, known, read, row, calc>>

\* The call fails: a message, and the run ends all the same.
FinalizeFails(r) == /\ "finalize" \in Faults
                    /\ pc[r] \in {"compute", "write"}
                    /\ GoTo(r, "done")
                    /\ UNCHANGED <<disk, docs, hash, tgt, known, read, row, calc>>

\* The process is killed; the server gives up its call between two steps.
Kill(r) == /\ "kill" \in Faults
           /\ pc[r] \in Steps
           /\ GoTo(r, "failed")
           /\ UNCHANGED <<disk, docs, hash, tgt, known, read, row, calc>>

\* Somebody edits a file.
Edit(f) == /\ Edits
           /\ \E c \in Contents \ {disk[f]} : disk' = [disk EXCEPT ![f] = c]
           /\ UNCHANGED <<docs, hash, pc, tgt, known, read, row, calc>>

-----------------------------------------------------------------------------
Go(r) == \/ Register(r) \/ RegisterFails(r) \/ ReadHash(r) \/ Compare(r)
         \/ ReadFile(r) \/ SkipByTitle(r) \/ MissTitle(r) \/ InsertL1(r) \/ SetHead(r)
         \/ EndFile(r) \/ FileFails(r)
         \/ EndFiles(r) \/ Compute(r) \/ WriteHash(r) \/ FinalizeFails(r)

Next == \/ \E r \in Runs : Start(r) \/ Go(r) \/ Kill(r)
        \/ \E f \in Files : Edit(f)

Spec == Init /\ [][Next]_vars

-----------------------------------------------------------------------------
(* Properties.                                                             *)

\* The values of the variables; a hash names documents of its own project.
TypeOK == /\ disk \in [Files -> Contents]
          /\ docs \in Seq(Doc)
          /\ hash \in [Roots -> SUBSET (Nat \ {0})]
          /\ pc \in [Runs -> Steps \cup Ends \cup {"idle"}]
          /\ tgt \in [Runs -> Targets \cup {NoTarget}]
          /\ known \in [Runs -> BOOLEAN]
          /\ read \in [Runs -> Seq(Contents)]
          /\ \A r \in Runs : Len(read[r]) <= Len(tgt[r].files)
          /\ row \in [Runs -> 0..Len(docs)]
          /\ calc \in [Runs -> SUBSET (Nat \ {0})]
          /\ \A p \in Roots : hash[p] \subseteq Project(p)

\* Content c of file f has a document.
IsStored(f, c) == \E k \in DOMAIN docs : docs[k].title = TitleOf[f] /\ docs[k].content = c

\* A run that comes to its end has stored every file as it read it, whatever
\* other runs and editors did meanwhile: the first failure stops a run.
FinishedMeansStored == \A r \in Runs : pc[r] \in {"done", "stored"} =>
  /\ Len(read[r]) = Len(tgt[r].files)
  /\ \A n \in DOMAIN read[r] : IsStored(tgt[r].files[n], read[r][n])

\* The step in which RegisterProject tells run r that it may skip.
ToldToSkip(r) == pc[r] # "skipped" /\ pc'[r] = "skipped"

\* When a run is told to skip, its files, as they are at that moment, have been
\* stored: what is edited later is no concern of the answer.
SkipMeansStored == [][\A r \in Runs : ToldToSkip(r) =>
  \A n \in DOMAIN tgt[r].files : IsStored(tgt[r].files[n], disk[tgt[r].files[n]])]_vars

\* A run is told to skip only after a run over the same root has come to its
\* end with each of its files stored as it read it: no hash that a run which broke
\* off, a read that broke off, or another project left behind stands for less,
\* whatever runs side by side, fails or is edited.
SkipAfterFullRun == [][\A r \in Runs : ToldToSkip(r) =>
  \E q \in Runs : /\ Root(q) = Root(r) /\ pc[q] \in {"done", "stored"}
                  /\ \A n \in DOMAIN tgt[q].files :
                       n \in DOMAIN read[q] /\ IsStored(tgt[q].files[n], read[q][n])]_vars

\* With no run under way, and none that failed, each stored hash is that of
\* the project's documents: the next run of the project skips.
QuietMeansSettled == (\A r \in Runs : pc[r] \in {"idle", "stored", "skipped"}) =>
  \A p \in Roots : hash[p] = Project(p)

-----------------------------------------------------------------------------
(* What makes the properties inductive.                                    *)

InFile == {"title", "l1", "head", "rest"}              \* within one ingest call
AtEnd  == {"compute", "write", "done", "stored"}       \* all files are sent

\* The first m files run r read have their documents.
StoredUpTo(r, m) == \A n \in 1..m : IsStored(tgt[r].files[n], read[r][n])

Begun(r) == /\ pc[r] = "idle" => tgt[r] = NoTarget
            /\ pc[r] # "idle" => tgt[r] \in Targets
            /\ pc[r] \in {"idle", "register", "readhash", "compare"} => read[r] = << >>
            /\ pc[r] \in {"head", "rest"} => row[r] > 0
            /\ pc[r] \in InFile => Len(read[r]) > 0
            /\ pc[r] \in AtEnd => Len(read[r]) = Len(tgt[r].files)

Progress(r) ==
  /\ pc[r] \in {"title", "l1"} => StoredUpTo(r, Len(read[r]) - 1)
  /\ pc[r] \in {"file", "head", "rest"} \cup AtEnd => StoredUpTo(r, Len(read[r]))

\* What is written as a project's hash names its documents.
CalcOK(r) == pc[r] = "write" => calc[r] \subseteq Project(Root(r))

IInv == TypeOK /\ \A r \in Runs : Begun(r) /\ Progress(r) /\ CalcOK(r)

\* A run over root p has sent all its files.
SentAll(p) == \E q \in Runs : Root(q) = p /\ pc[q] \in {"done", "stored"}

\* A stored hash, and one in hand, is that of a run that has sent all its files.
HashInv == /\ \A p \in Roots : hash[p] # {} => SentAll(p)
           /\ \A r \in Runs : pc[r] = "compare" => SentAll(Root(r))

\* All the files of project p, as they are, have documents.
Covered(p) == \A t \in Targets : t.root = p =>
  \A n \in DOMAIN t.files : IsStored(t.files[n], disk[t.files[n]])

\* Without edits and with one command line per root.
SkipInv ==
  /\ \A r \in Runs : \A n \in DOMAIN read[r] : read[r][n] = disk[tgt[r].files[n]]
  /\ \A p \in Roots : hash[p] # {} => Covered(p)
  /\ \A r \in Runs : pc[r] = "compare" => Covered(Root(r))
=============================================================================
