---------------------------- MODULE CodePipeline ----------------------------
(***************************************************************************)
(* Ingesting source code (internal/phloem/domain/code.go): every request   *)
(* writes its language into the one parser the pipeline has, then runs the *)
(* parser twice, for the table of contents and, in the chunker, for the    *)
(* lines.  No lock guards CodeTOCParser.Lang.  A Go string is two words,   *)
(* stored one after the other and loaded in any order.                     *)
(***************************************************************************)
EXTENDS Integers, FiniteSets

CONSTANTS
  Requests,    \* calls of Process
  Concurrent   \* FALSE if one request is served at a time

ASSUME CodeAssumption == Concurrent \in BOOLEAN

Langs == {"python", "go", "typescript"}    \* what the parser's command line takes
LenOf == [python |-> 6, go |-> 2, typescript |-> 10]
Words == [text : Langs \cup {""}, len : {0, 2, 6, 10}]
Empty == [text |-> "", len |-> 0]

VARIABLES
  shared,   \* CodeTOCParser.Lang, started as "python"
  pc,       \* [Requests -> the next step of the request]
  lang,     \* [Requests -> the language found for the request], "" before
  got,      \* [Requests -> the words of Lang loaded so far]
  toc,      \* [Requests -> the language the table of contents was made with]
  lines,    \* [Requests -> the language the chunks were made with]
  broke     \* [Requests -> TRUE if a run of the parser itself failed]

vars == <<shared, pc, lang, got, toc, lines, broke>>

Steps == {"setlen", "settext", "toc", "lines", "sink"}

Init == /\ shared = [text |-> "python", len |-> LenOf["python"]]
        /\ pc = [r \in Requests |-> "idle"]
        /\ lang = [r \in Requests |-> ""]
        /\ got = [r \in Requests |-> Empty]
        /\ toc = [r \in Requests |-> ""]
        /\ lines = [r \in Requests |-> ""]
        /\ broke = [r \in Requests |-> FALSE]

GoTo(r, step) == pc' = [pc EXCEPT ![r] = step]

\* Mutated form: the switch has no default.
Language_NoDefault(named, title) == IF named # "" THEN named ELSE title

\* source_metadata["language"], or else what the title says: python if the
\* suffix is unknown.
Language(named, title) ==
  IF named # "" THEN named ELSE IF title = "other" THEN "python" ELSE title

\* Mutated form: only a language the request names is written to the parser.
Begin_NamedOnly(r) ==
  /\ pc[r] = "idle"
  /\ Concurrent \/ \A q \in Requests : pc[q] \notin Steps
  /\ \E named \in Langs \cup {""}, title \in Langs \cup {"other"} :
       /\ lang' = [lang EXCEPT ![r] = Language(named, title)]
       /\ GoTo(r, IF named = "" THEN "toc" ELSE "setlen")
  /\ UNCHANGED <<shared, got, toc, lines, broke>>

Begin(r) ==
  /\ pc[r] = "idle"
  /\ Concurrent \/ \A q \in Requests : pc[q] \notin Steps
  /\ \E named \in Langs \cup {""}, title \in Langs \cup {"other"} :
       lang' = [lang EXCEPT ![r] = Language(named, title)]
  /\ GoTo(r, "setlen")
  /\ UNCHANGED <<shared, got, toc, lines, broke>>

\* cp.Lang = lang
SetLen(r) == /\ pc[r] = "setlen"
             /\ shared' = [shared EXCEPT !.len = LenOf[lang[r]]]
             /\ GoTo(r, "settext")
             /\ UNCHANGED <<lang, got, toc, lines, broke>>

SetText(r) == /\ pc[r] = "settext"
              /\ shared' = [shared EXCEPT !.text = lang[r]]
              /\ GoTo(r, "toc")
              /\ UNCHANGED <<lang, got, toc, lines, broke>>

\* lang := p.Lang
LoadText(r) == /\ pc[r] \in {"toc", "lines"}
               /\ got[r].text = ""
               /\ got' = [got EXCEPT ![r].text = shared.text]
               /\ UNCHANGED <<shared, pc, lang, toc, lines, broke>>

LoadLen(r) == /\ pc[r] \in {"toc", "lines"}
              /\ got[r].len = 0
              /\ got' = [got EXCEPT ![r].len = shared.len]
              /\ UNCHANGED <<shared, pc, lang, toc, lines, broke>>

Loaded(r) == got[r].text # "" /\ got[r].len # 0
Whole(r)  == got[r].len = LenOf[got[r].text]     \* the words of one language

\* The parser's answer; its process knows no language made of words of two.
ParseToc(r) == /\ pc[r] = "toc" /\ Loaded(r) /\ Whole(r)
               /\ toc' = [toc EXCEPT ![r] = got[r].text]
               /\ got' = [got EXCEPT ![r] = Empty]
               /\ GoTo(r, "lines")
               /\ UNCHANGED <<shared, lang, lines, broke>>

ParseLines(r) == /\ pc[r] = "lines" /\ Loaded(r) /\ Whole(r)
                 /\ lines' = [lines EXCEPT ![r] = got[r].text]
                 /\ got' = [got EXCEPT ![r] = Empty]
                 /\ GoTo(r, "sink")
                 /\ UNCHANGED <<shared, lang, toc, broke>>

\* The process refuses the language, or fails for a reason of its own.
ParseFails(r) == /\ pc[r] \in {"toc", "lines"} /\ Loaded(r)
                 /\ broke' = [broke EXCEPT ![r] = Whole(r)]
                 /\ GoTo(r, "failed")
                 /\ UNCHANGED <<shared, lang, got, toc, lines>>

\* Sink.Write has the chunks (SinkWrite).
Sink(r) == /\ pc[r] = "sink"
           /\ GoTo(r, "stored")
           /\ UNCHANGED <<shared, lang, got, toc, lines, broke>>

Process(r) == \/ Begin(r) \/ SetLen(r) \/ SetText(r) \/ LoadText(r) \/ LoadLen(r)
              \/ ParseToc(r) \/ ParseLines(r) \/ ParseFails(r) \/ Sink(r)

Next == \E r \in Requests : Process(r)

Spec == Init /\ [][Next]_vars

-----------------------------------------------------------------------------
(* Properties.                                                             *)

\* The values of the variables; a language is always one the parser takes.
TypeOK == /\ shared \in Words
          /\ pc \in [Requests -> Steps \cup {"idle", "failed", "stored"}]
          /\ lang \in [Requests -> Langs \cup {""}]
          /\ got \in [Requests -> Words]
          /\ toc \in [Requests -> Langs \cup {""}]
          /\ lines \in [Requests -> Langs \cup {""}]
          /\ broke \in [Requests -> BOOLEAN]

\* A request's contents and its chunks are made with its own language, and
\* it is refused only where the parser fails: what other requests left in
\* the parser, or write to it, does not show.
OwnLanguage == \A r \in Requests :
  /\ toc[r] # "" => toc[r] = lang[r]
  /\ lines[r] # "" => lines[r] = lang[r]
  /\ pc[r] = "failed" => broke[r]
=============================================================================
