----------------------------- MODULE AnswerAgent -----------------------------
(***************************************************************************)
(* The agent behind GET /api/answer (flows/xylem_flow/answer_agent.py): a  *)
(* process of its own for each request, in which the model is asked, runs  *)
(* of tools it asks for are added to the conversation, and it is asked     *)
(* again, MAX_ITERATIONS times at most.  Whatever the model says is an     *)
(* input.                                                                  *)
(***************************************************************************)
EXTENDS Integers, Sequences, FiniteSets

CONSTANTS
  Calls,       \* requests
  MaxRounds,   \* MAX_ITERATIONS
  MaxTools     \* bound: tool calls in one answer of the model

ASSUME AgentAssumption == MaxRounds \in Nat \ {0} /\ MaxTools \in Nat \ {0}

VARIABLES
  phase,     \* [Calls -> "off" | "chat" | "tools" | "ended" | "raised"]
  round,     \* [Calls -> iteration + 1]
  pending,   \* [Calls -> how many tool calls of its last message are still to run]
  talk       \* [Calls -> messages, after those of the system and the user]

agentVars == <<phase, round, pending, talk>>

\* A message: call = 0 is the model's with so many tool calls, call = k the
\* result of the k-th.
Message == [round : Nat, call : Nat, of : Nat]

AgentInit == /\ phase = [c \in Calls |-> "off"]
             /\ round = [c \in Calls |-> 1]
             /\ pending = [c \in Calls |-> 0]
             /\ talk = [c \in Calls |-> << >>]

End(c) == /\ phase' = [phase EXCEPT ![c] = "ended"]
          /\ UNCHANGED <<round, pending, talk>>

\* The model says text and no more, which is the answer, or nothing, or the
\* request to it fails: a result of run in any case.
ChatEnds(c) == phase[c] = "chat" /\ End(c)

\* The model asks for tools; which one a call names is seen when it is reached.
ChatTools(c) ==
  /\ phase[c] = "chat"
  /\ \E n \in 1..MaxTools :
       /\ pending' = [pending EXCEPT ![c] = n]
       /\ talk' = [talk EXCEPT ![c] = Append(@, [round |-> round[c], call |-> 0, of |-> n])]
  /\ phase' = [phase EXCEPT ![c] = "tools"]
  /\ UNCHANGED round

Asked(c) == phase[c] = "tools" /\ pending[c] > 0

\* Two tools, answer and not_found, end the run at once: the calls after them are
\* not run.
FinalTool(c) == Asked(c) /\ End(c)

\* Mutated form: only the first call of a message is run.
RunTool_FirstOnly(c) ==
  /\ Asked(c)
  /\ LET last == talk[c][Len(talk[c])] IN
     talk' = [talk EXCEPT ![c] = Append(@, [last EXCEPT !.call = @ + 1])]
  /\ pending' = [pending EXCEPT ![c] = 0]
  /\ UNCHANGED <<phase, round>>

\* Any other: its result is added, or its error, or that there is no such tool.
RunTool(c) ==
  /\ Asked(c)
  /\ LET last == talk[c][Len(talk[c])] IN
     talk' = [talk EXCEPT ![c] = Append(@, [last EXCEPT !.call = @ + 1])]
  /\ pending' = [pending EXCEPT ![c] = @ - 1]
  /\ UNCHANGED <<phase, round>>

\* Arguments that are no object, or not of the type a tool expects: get(),
\* strip() and int(top_k) are called outside of its try block.
ToolRaises(c) == /\ Asked(c)
                 /\ phase' = [phase EXCEPT ![c] = "raised"]
                 /\ UNCHANGED <<round, pending, talk>>

\* All calls are run: the model's turn, or the last round is over.
NextRound(c) ==
  /\ phase[c] = "tools" /\ pending[c] = 0
  /\ IF round[c] < MaxRounds
     THEN /\ round' = [round EXCEPT ![c] = @ + 1]
          /\ phase' = [phase EXCEPT ![c] = "chat"]
          /\ UNCHANGED <<pending, talk>>
     ELSE End(c)

Agent(c) == \/ ChatEnds(c) \/ ChatTools(c)
            \/ FinalTool(c) \/ RunTool(c) \/ ToolRaises(c) \/ NextRound(c)

-----------------------------------------------------------------------------
(* Properties.                                                             *)

AgentTypeOK == /\ phase \in [Calls -> {"off", "chat", "tools", "ended", "raised"}]
               /\ round \in [Calls -> 1..MaxRounds]
               /\ pending \in [Calls -> 0..MaxTools]
               /\ talk \in [Calls -> Seq(Message)]

\* Message m follows message l.
Follows(l, m) == IF l.call < l.of THEN m = [l EXCEPT !.call = @ + 1]
                 ELSE m.call = 0 /\ m.round = l.round + 1

\* Whatever the model asks for, the conversation it is given has each of its
\* tool calls followed by their results, one for each in their order and none
\* twice, and there are no more rounds than MAX_ITERATIONS: the loop of
\* answer_agent.py:282-348 ends.
AgentKeepsTurns == \A c \in Calls :
  /\ talk[c] # << >> => talk[c][1].call = 0 /\ talk[c][1].round = 1
  /\ \A i \in 2..Len(talk[c]) : Follows(talk[c][i - 1], talk[c][i])
  /\ phase[c] = "chat" /\ talk[c] # << >> =>
       LET last == talk[c][Len(talk[c])] IN last.call = last.of /\ last.round = round[c] - 1
  /\ Cardinality({i \in DOMAIN talk[c] : talk[c][i].call = 0}) <= MaxRounds
=============================================================================
