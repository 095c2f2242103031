----------------------------- MODULE Pipelines -----------------------------
(***************************************************************************)
(* The pipelines of internal/phloem/domain side by side.  A markdown, PDF  *)
(* or code request chunks its text on its own, and so does the sink with   *)
(* the prose of a chunk; what code requests share is the parser            *)
(* (CodePipeline).  One of them runs in a behaviour: nothing else is       *)
(* common to two of them.                                                  *)
(***************************************************************************)
EXTENDS CodePipeline, WikiChunks, FixedChunks, CodeChunks, Sentences

VARIABLES route   \* what runs

pipelineVars == <<vars, wikiVars, fixedVars, codeVars, proseVars, route>>

\* The variables of the pipelines that do not run.
WikiIdle  == /\ tree = << >> /\ stack = <<0>> /\ trail = << >> /\ flat = << >>
             /\ sec = 0 /\ prose = {} /\ block = {} /\ derived = << >>
             /\ count = [t \in Types |-> 0]
FixedIdle == cut = 0
CodeIdle  == rows = << >>
ProseIdle == cand = {} /\ seen = {} /\ chosen = {} /\ semantic = FALSE
TextIdle  == doc = << >> /\ stage = "none" /\ at = 1 /\ out = << >>

PipelinesInit ==
  /\ Init
  /\ \/ route = "wiki"   /\ WikiInit  /\ FixedIdle /\ CodeIdle  /\ ProseIdle
     \/ route = "pdf"    /\ FixedInit /\ WikiIdle  /\ CodeIdle  /\ ProseIdle
     \/ route = "code"   /\ CodeInit  /\ WikiIdle  /\ FixedIdle /\ ProseIdle
     \/ route = "prose"  /\ ProseInit /\ WikiIdle  /\ FixedIdle /\ CodeIdle
     \/ route = "parser" /\ TextIdle  /\ WikiIdle  /\ FixedIdle /\ CodeIdle /\ ProseIdle

WikiStep == /\ route = "wiki"
            /\ WikiNext
            /\ UNCHANGED <<vars, cut, rows, cand, seen, chosen, semantic, route>>

FixedStep == /\ route = "pdf"
             /\ FixedNext
             /\ UNCHANGED <<vars, tocVars, flat, secVars, rows, cand, seen, chosen, semantic, route>>

CodeStep == /\ route = "code"
            /\ CodeNext
            /\ UNCHANGED <<vars, tocVars, flat, secVars, cut, cand, seen, chosen, semantic, route>>

ProseStep == /\ route = "prose"
             /\ ProseNext
             /\ UNCHANGED <<vars, tocVars, flat, secVars, cut, rows, route>>

ParserStep == /\ route = "parser"
              /\ Next
              /\ UNCHANGED <<wikiVars, cut, rows, cand, seen, chosen, semantic, route>>

PipelinesNext == WikiStep \/ FixedStep \/ CodeStep \/ ProseStep \/ ParserStep

\* A request is one goroutine that runs its loops to their end.
PipelinesSpec == PipelinesInit /\ [][PipelinesNext]_pipelineVars /\ WF_pipelineVars(PipelinesNext)

-----------------------------------------------------------------------------
(* Properties.                                                             *)

\* Each pipeline's variables keep their types.
PipelinesTypeOK == /\ TypeOK
                   /\ route = "wiki" => WikiTypeOK
                   /\ route = "pdf" => FixedTypeOK
                   /\ route = "code" => CodeTypeOK
                   /\ route = "prose" => ProseTypeOK

\* No text sends a chunker, a splitter or the table of contents into a loop
\* without end: a list whose first line stops it, a break at the window's start,
\* white space only.
ChunkingEnds == route # "parser" ~> Done
=============================================================================
