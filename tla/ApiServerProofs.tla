-------------------------- MODULE ApiServerProofs --------------------------
(***************************************************************************)
(* Proofs about the server, its handlers and the agent, for any number of  *)
(* requests, jobs and clients, any limit of rounds, and a server that may  *)
(* die and start again at any moment.                                      *)
(***************************************************************************)
EXTENDS ApiServer, JobRegistryProofs, FiniteSetTheorems

USE AgentAssumption

Last(c) == talk[c][Len(talk[c])]

\* The model's messages among those of the conversation.
Turns(c) == {i \in DOMAIN talk[c] : talk[c][i].call = 0}

\* The conversation: well formed, one turn of the model for every round, and the
\* last message says how many calls are still to be run.
Talk(c) ==
  /\ talk[c] # << >> => talk[c][1].call = 0 /\ talk[c][1].round = 1
  /\ \A i \in 2..Len(talk[c]) : Follows(talk[c][i - 1], talk[c][i])
  /\ IsFiniteSet(Turns(c))
  /\ Cardinality(Turns(c)) = IF talk[c] = << >> THEN 0 ELSE Last(c).round
  /\ IF talk[c] = << >> THEN round[c] = 1
     ELSE /\ Last(c).round <= round[c]
          /\ phase[c] = "chat" => Last(c).call = Last(c).of /\ Last(c).round = round[c] - 1
          /\ phase[c] = "tools" =>
               Last(c).call + pending[c] = Last(c).of /\ Last(c).round = round[c]

\* A request and its process; what is left of a process that is gone.
Call(c) ==
  /\ stage[c] = "idle" => /\ child[c] = "none" /\ kind[c] = "none" /\ reply[c] = "none"
                          /\ phase[c] = "off" /\ talk[c] = << >>
  /\ child[c] = "running" /\ phase[c] = "tools" => talk[c] # << >>
  /\ child[c] = "ok" /\ kind[c] = "agent" => phase[c] = "ended"

ServerTypeOK == /\ AgentTypeOK
                /\ life \in {"down", "up"} /\ grpc \in BOOLEAN
                /\ grpc => life = "up"
                /\ stage \in [Calls -> {"idle", "child", "answered", "lost"}]
                /\ kind \in [Calls -> {"none", "text", "json", "agent", "ingest"}]
                /\ child \in [Calls -> {"none", "running", "ok", "failed", "killed"}]
                /\ reply \in [Calls -> {"none", "refused", "failure", "payload"}]
                /\ strays \subseteq Calls

ApiInv == /\ JobInv /\ ServerTypeOK /\ RepliesTrue
          /\ \A c \in Calls : Talk(c) /\ Call(c)

LEMMA ApiInitInv == ApiInit => ApiInv
  <1> SUFFICES ASSUME ApiInit PROVE ApiInv
    OBVIOUS
  <1>1. JobInv
    BY InitInv DEF ApiInit, LifeInv
  <1>2. ServerTypeOK /\ RepliesTrue
    <2>1. << >> \in Seq(Message) /\ 1 \in 1..MaxRounds /\ 0 \in 0..MaxTools
      OBVIOUS
    <2>2. AgentTypeOK
      BY <2>1 DEF ApiInit, AgentInit, AgentTypeOK
    <2>3. RepliesTrue
      BY DEF ApiInit, RepliesTrue
    <2> QED
      BY <2>2, <2>3 DEF ApiInit, ServerTypeOK
  <1>3. ASSUME NEW c \in Calls PROVE Talk(c) /\ Call(c)
    <2>1. talk[c] = << >> /\ round[c] = 1 /\ stage[c] = "idle" /\ child[c] = "none"
          /\ reply[c] = "none" /\ phase[c] = "off" /\ kind[c] = "none"
      BY <1>3 DEF ApiInit, AgentInit
    <2>2. Turns(c) = {}
      BY <2>1 DEF Turns
    <2>3. IsFiniteSet(Turns(c)) /\ Cardinality(Turns(c)) = 0
      BY <2>2, FS_EmptySet
    <2> QED
      BY <2>1, <2>3 DEF Talk, Call
  <1> QED
    BY <1>1, <1>2, <1>3 DEF ApiInv

-----------------------------------------------------------------------------
(* The conversation.                                                       *)

\* Where the agent does not add a message.
LEMMA TalkStays ==
  ASSUME NEW c \in Calls, Talk(c), talk'[c] = talk[c], round'[c] = round[c],
         pending'[c] = pending[c],
         \/ phase'[c] = phase[c] \/ phase'[c] \in {"ended", "raised"} \/ talk[c] = << >>
  PROVE  Talk(c)'
  <1>1. Turns(c)' = Turns(c) /\ Last(c)' = Last(c)
    BY DEF Turns, Last
  <1> QED
    BY <1>1 DEF Talk, Follows

\* The process is gone, and its conversation with it.
LEMMA TalkGone ==
  ASSUME NEW c \in Calls, talk'[c] = << >>, round'[c] = 1
  PROVE  Talk(c)'
  <1>1. Turns(c)' = {}
    BY DEF Turns
  <1>2. IsFiniteSet(Turns(c)') /\ Cardinality(Turns(c)') = 0
    BY <1>1, FS_EmptySet
  <1> QED
    BY <1>2 DEF Talk

\* A message m is added that follows the last one.
LEMMA TalkGrows ==
  ASSUME NEW c \in Calls, Talk(c), AgentTypeOK, NEW m \in Message,
         talk'[c] = Append(talk[c], m),
         IF talk[c] = << >> THEN m.call = 0 /\ m.round = 1 ELSE Follows(Last(c), m)
  PROVE  /\ talk'[c] # << >> /\ Last(c)' = m
         /\ talk'[c][1].call = 0 /\ talk'[c][1].round = 1
         /\ \A i \in 2..Len(talk'[c]) : Follows(talk'[c][i - 1], talk'[c][i])
         /\ IsFiniteSet(Turns(c)')
         /\ Cardinality(Turns(c)') = m.round
  <1> DEFINE n == Len(talk[c])
  <1>0. /\ talk[c] \in Seq(Message) /\ n \in Nat
        /\ m.call \in Nat /\ m.round \in Nat /\ m.of \in Nat
    BY DEF AgentTypeOK, Message
  <1>1. /\ Len(talk'[c]) = n + 1 /\ talk'[c][n + 1] = m
        /\ \A i \in 1..n : talk'[c][i] = talk[c][i]
        /\ DOMAIN talk'[c] = 1..(n + 1) /\ DOMAIN talk[c] = 1..n
        /\ (talk[c] = << >> <=> n = 0)
    BY <1>0
  <1>2. talk'[c] # << >> /\ Last(c)' = m
    BY <1>0, <1>1 DEF Last
  <1>3. talk'[c][1].call = 0 /\ talk'[c][1].round = 1
    <2>1. CASE n = 0
      BY <1>1, <2>1
    <2>2. CASE n # 0
      BY <1>0, <1>1, <2>2 DEF Talk
    <2> QED
      BY <2>1, <2>2
  <1>4. ASSUME NEW i \in 2..(n + 1) PROVE Follows(talk'[c][i - 1], talk'[c][i])
    <2>1. CASE i \in 2..n
      <3>1. i - 1 \in 1..n /\ i \in 1..n
        BY <1>0, <2>1
      <3> QED
        BY <1>1, <2>1, <3>1 DEF Talk
    <2>2. CASE i = n + 1
      <3>1. n \in 1..n /\ talk[c] # << >> /\ i - 1 = n
        BY <1>0, <1>1, <1>4, <2>2
      <3> QED
        BY <1>1, <2>2, <3>1 DEF Last
    <2> QED
      BY <1>0, <1>4, <2>1, <2>2
  <1>5. CASE m.call = 0
    <2>1. Turns(c)' = Turns(c) \cup {n + 1}
      BY <1>0, <1>1, <1>5 DEF Turns
    <2>2. n + 1 \notin Turns(c)
      BY <1>0, <1>1 DEF Turns
    <2>3. IsFiniteSet(Turns(c)') /\ Cardinality(Turns(c)') = Cardinality(Turns(c)) + 1
      <3>1. IsFiniteSet(Turns(c))
        BY DEF Talk
      <3>2. /\ IsFiniteSet(Turns(c) \cup {n + 1})
            /\ Cardinality(Turns(c) \cup {n + 1}) = Cardinality(Turns(c)) + 1
        BY <2>2, <3>1, FS_AddElement
      <3> QED
        BY <2>1, <3>2
    <2>4. Cardinality(Turns(c)) + 1 = m.round
      <3>1. CASE talk[c] = << >>
        BY <3>1 DEF Talk
      <3>2. CASE talk[c] # << >>
        <4>1. Last(c) \in Message
          BY <1>0, <1>1, <3>2 DEF Last
        <4>2. ~(Last(c).call < Last(c).of)
          BY <1>5, <3>2, <4>1 DEF Follows, Message
        <4> QED
          BY <3>2, <4>2 DEF Follows, Talk
      <3> QED
        BY <3>1, <3>2
    <2> QED
      BY <1>1, <1>2, <1>3, <1>4, <2>3, <2>4
  <1>6. CASE m.call # 0
    <2>1. Turns(c)' = Turns(c)
      BY <1>0, <1>1, <1>6 DEF Turns
    <2>2. talk[c] # << >> /\ Last(c) \in Message
      BY <1>0, <1>1, <1>6 DEF Last
    <2>3. m = [Last(c) EXCEPT !.call = @ + 1]
      BY <1>6, <2>2 DEF Follows
    <2>4. m.round = Last(c).round
      BY <2>2, <2>3 DEF Message
    <2> QED
      BY <1>1, <1>2, <1>3, <1>4, <2>1, <2>2, <2>4 DEF Talk
  <1> QED
    BY <1>5, <1>6

\* Every step of the agent keeps the turns.
LEMMA AgentKeeps ==
  ASSUME AgentTypeOK, NEW c \in Calls, Talk(c), phase[c] = "tools" => talk[c] # << >>, Agent(c)
  PROVE  /\ AgentTypeOK' /\ Talk(c)'
         /\ phase'[c] = "tools" => talk'[c] # << >>
         /\ \A d \in Calls : d # c => /\ phase'[d] = phase[d] /\ round'[d] = round[d]
                                      /\ pending'[d] = pending[d] /\ talk'[d] = talk[d]
  <1> DEFINE Others == \A d \in Calls : d # c => /\ phase'[d] = phase[d] /\ round'[d] = round[d]
                                               /\ pending'[d] = pending[d] /\ talk'[d] = talk[d]
  <1>0. /\ phase \in [Calls -> {"off", "chat", "tools", "ended", "raised"}]
        /\ round \in [Calls -> 1..MaxRounds] /\ pending \in [Calls -> 0..MaxTools]
        /\ talk \in [Calls -> Seq(Message)]
    BY DEF AgentTypeOK
  <1>1. CASE \/ ChatEnds(c) \/ FinalTool(c) \/ ToolRaises(c)
             \/ (NextRound(c) /\ ~(round[c] < MaxRounds))
    <2>1. /\ UNCHANGED <<round, pending, talk>>
          /\ phase' = [phase EXCEPT ![c] = "ended"] \/ phase' = [phase EXCEPT ![c] = "raised"]
      BY <1>1 DEF ChatEnds, FinalTool, ToolRaises, NextRound, End
    <2>2. phase'[c] \in {"ended", "raised"} /\ Others /\ AgentTypeOK'
      BY <1>0, <2>1 DEF AgentTypeOK
    <2> QED
      BY <2>1, <2>2, TalkStays
  <1>2. CASE ChatTools(c)
    <2>1. PICK n \in 1..MaxTools :
            /\ pending' = [pending EXCEPT ![c] = n]
            /\ talk' = [talk EXCEPT ![c] = Append(@, [round |-> round[c], call |-> 0, of |-> n])]
      BY <1>2 DEF ChatTools
    <2> DEFINE m == [round |-> round[c], call |-> 0, of |-> n]
    <2>2. m \in Message /\ m.call = 0 /\ m.round = round[c] /\ m.of = n
      BY <1>0 DEF Message
    <2>3. /\ talk'[c] = Append(talk[c], m) /\ phase[c] = "chat" /\ phase'[c] = "tools"
          /\ round' = round /\ pending'[c] = n
      BY <1>0, <1>2, <2>1 DEF ChatTools
    <2>4. IF talk[c] = << >> THEN m.call = 0 /\ m.round = 1 ELSE Follows(Last(c), m)
      <3>1. CASE talk[c] = << >>
        BY <2>2, <3>1 DEF Talk
      <3>2. CASE talk[c] # << >>
        <4>1. Last(c) \in Message
          BY <1>0, <3>2 DEF Last
        <4>2. Last(c).call = Last(c).of /\ Last(c).round = round[c] - 1
          BY <2>3, <3>2 DEF Talk
        <4>3. ~(Last(c).call < Last(c).of) /\ m.round = Last(c).round + 1
          BY <1>0, <2>2, <4>1, <4>2 DEF Message
        <4> QED
          BY <2>2, <3>2, <4>3 DEF Follows
      <3> QED
        BY <3>1, <3>2
    <2>5. AgentTypeOK' /\ Others
      <3>1. Append(talk[c], m) \in Seq(Message)
        BY <1>0, <2>2
      <3> QED
        BY <1>0, <1>2, <2>1, <3>1 DEF AgentTypeOK, ChatTools
    <2> HIDE DEF m
    <2>6. /\ talk'[c] # << >> /\ Last(c)' = m
          /\ talk'[c][1].call = 0 /\ talk'[c][1].round = 1
          /\ \A i \in 2..Len(talk'[c]) : Follows(talk'[c][i - 1], talk'[c][i])
          /\ IsFiniteSet(Turns(c)')
          /\ Cardinality(Turns(c)') = m.round
      BY <2>2, <2>3, <2>4, TalkGrows
    <2>7. Last(c)'.round = round'[c] /\ Last(c)'.call + pending'[c] = Last(c)'.of
      BY <1>0, <2>2, <2>3, <2>6
    <2>8. Talk(c)'
      BY <1>0, <2>3, <2>6, <2>7 DEF Talk
    <2> QED
      BY <2>5, <2>6, <2>8
  <1>3. CASE RunTool(c)
    <2> DEFINE m == [Last(c) EXCEPT !.call = @ + 1]
    <2>1. /\ phase[c] = "tools" /\ pending[c] > 0 /\ talk[c] # << >>
          /\ UNCHANGED <<phase, round>>
          /\ talk' = [talk EXCEPT ![c] = Append(@, m)]
          /\ pending' = [pending EXCEPT ![c] = @ - 1]
      BY <1>3 DEF RunTool, Asked, Last
    <2>2. Last(c) \in Message
      BY <1>0, <2>1 DEF Last
    <2>3. /\ m \in Message /\ m.call = Last(c).call + 1 /\ m.round = Last(c).round
          /\ m.of = Last(c).of
      BY <2>2 DEF Message
    <2>4. Last(c).call + pending[c] = Last(c).of /\ Last(c).round = round[c]
      BY <2>1 DEF Talk
    <2>5. Follows(Last(c), m)
      <3>1. Last(c).call < Last(c).of
        BY <1>0, <2>1, <2>2, <2>4 DEF Message
      <3> QED
        BY <3>1 DEF Follows
    <2>6. talk'[c] = Append(talk[c], m) /\ pending'[c] = pending[c] - 1
      BY <1>0, <2>1
    <2>7. AgentTypeOK' /\ Others
      <3>1. Append(talk[c], m) \in Seq(Message)
        BY <1>0, <2>3
      <3>2. pending[c] - 1 \in 0..MaxTools
        BY <1>0, <2>1
      <3> QED
        BY <1>0, <2>1, <3>1, <3>2 DEF AgentTypeOK
    <2> HIDE DEF m
    <2>8. /\ talk'[c] # << >> /\ Last(c)' = m
          /\ talk'[c][1].call = 0 /\ talk'[c][1].round = 1
          /\ \A i \in 2..Len(talk'[c]) : Follows(talk'[c][i - 1], talk'[c][i])
          /\ IsFiniteSet(Turns(c)')
          /\ Cardinality(Turns(c)') = m.round
      BY <2>1, <2>3, <2>5, <2>6, TalkGrows
    <2>9. Last(c)'.round = round'[c] /\ Last(c)'.call + pending'[c] = Last(c)'.of
      <3>1. Last(c).call \in Nat /\ pending[c] \in Nat
        BY <1>0, <2>2 DEF Message
      <3> QED
        BY <2>1, <2>3, <2>4, <2>6, <2>8, <3>1
    <2>10. Talk(c)'
      BY <1>0, <2>1, <2>8, <2>9 DEF Talk
    <2> QED
      BY <2>7, <2>8, <2>10
  <1>4. CASE NextRound(c) /\ round[c] < MaxRounds
    <2>1. /\ phase[c] = "tools" /\ pending[c] = 0 /\ UNCHANGED <<pending, talk>>
          /\ round' = [round EXCEPT ![c] = @ + 1] /\ phase' = [phase EXCEPT ![c] = "chat"]
      BY <1>4 DEF NextRound
    <2>2. talk[c] # << >> /\ Last(c) \in Message
      BY <1>0, <2>1 DEF Last
    <2>3. Last(c).call = Last(c).of /\ Last(c).round = round[c]
      BY <2>1, <2>2 DEF Talk, Message
    <2>4. round'[c] = round[c] + 1 /\ phase'[c] = "chat" /\ round[c] \in Nat
      BY <1>0, <2>1
    <2>5. Turns(c)' = Turns(c) /\ Last(c)' = Last(c)
      BY <2>1 DEF Turns, Last
    <2>6. Talk(c)'
      BY <2>1, <2>2, <2>3, <2>4, <2>5 DEF Talk, Follows
    <2>7. AgentTypeOK' /\ Others
      BY <1>0, <1>4, <2>1 DEF AgentTypeOK
    <2> QED
      BY <2>4, <2>6, <2>7
  <1> QED
    BY <1>1, <1>2, <1>3, <1>4 DEF Agent

-----------------------------------------------------------------------------
(* The server.                                                             *)

Ends == {"none", "running", "ok", "failed", "killed"}

\* What RepliesTrue says of one request.
True(c) ==
  /\ child[c] = "running" => (stage[c] = "child" /\ life = "up") \/ c \in strays
  /\ reply[c] = "payload" => child[c] \in {"ok", "none"}
  /\ reply[c] = "payload" /\ kind[c] = "agent" => phase[c] = "ended"

\* All that is said of one request.
All(c) == Talk(c) /\ Call(c) /\ True(c)

LEMMA AllCalls == (\A c \in Calls : All(c)) <=> RepliesTrue /\ \A c \in Calls : Talk(c) /\ Call(c)
  BY DEF All, True, RepliesTrue

\* A request nobody touched while the server stayed up.
LEMMA Untouched ==
  ASSUME NEW c \in Calls, All(c), stage'[c] = stage[c], kind'[c] = kind[c], child'[c] = child[c],
         reply'[c] = reply[c], phase'[c] = phase[c], round'[c] = round[c],
         pending'[c] = pending[c], talk'[c] = talk[c],
         life = "up" => life' = "up", c \in strays => c \in strays'
  PROVE  All(c)'
  <1>1. Talk(c)'
    BY TalkStays DEF All
  <1>2. Call(c)' /\ True(c)'
    BY DEF All, Call, True
  <1> QED
    BY <1>1, <1>2 DEF All

\* The routes: an answer at once, or a process.
LEMMA ArriveCases ==
  ASSUME NEW c \in Calls, Arrive(c)
  PROVE  /\ life = "up" /\ stage[c] = "idle"
         /\ UNCHANGED <<vars, round, pending, talk, serveVars>>
         /\ \/ \E what \in {"payload", "refused", "failure"} : AnswerNow(c, what)
            \/ \E output \in {"text", "json", "agent", "ingest"} : StartChild(c, output)
  <1>1. life = "up" /\ stage[c] = "idle" /\ UNCHANGED <<vars, round, pending, talk, serveVars>>
    BY DEF Arrive
  <1> DEFINE Now == \E what \in {"payload", "refused", "failure"} : AnswerNow(c, what)
             Start == \E output \in {"text", "json", "agent", "ingest"} : StartChild(c, output)
  <1>2. CASE Health(c) \/ HealthDeps(c)
    BY <1>1, <1>2 DEF Health, HealthDeps
  <1>3. CASE Search(c)
    <2>1. PICK q \in BOOLEAN, number \in BOOLEAN, known \in BOOLEAN, json \in BOOLEAN :
            IF q /\ number /\ (json => known)
            THEN StartChild(c, IF json THEN "json" ELSE "text")
            ELSE AnswerNow(c, "refused")
      BY <1>3 DEF Search
    <2> QED
      BY <1>1, <2>1
  <1>4. CASE Restore(c)
    BY <1>1, <1>4 DEF Restore
  <1>5. CASE Ask(c) \/ ResetIndex(c)
    BY <1>1, <1>5 DEF Ask, ResetIndex
  <1>6. CASE Ingest(c)
    BY <1>1, <1>6 DEF Ingest
  <1> QED
    BY <1>1, <1>2, <1>3, <1>4, <1>5, <1>6 DEF Arrive

\* One request moves: nobody else does, and the server's life goes on.
LEMMA OneCall ==
  ASSUME ApiInv, NEW c \in Calls, Arrive(c) \/ AgentStep(c) \/ ChildEnds(c) \/ Conclude(c)
  PROVE  /\ UNCHANGED <<vars, life, grpc>> /\ ServerTypeOK'
         /\ \A d \in Calls : All(d)'
  <1>0. /\ ServerTypeOK /\ AgentTypeOK /\ All(c) /\ \A d \in Calls : All(d)
        /\ phase \in [Calls -> {"off", "chat", "tools", "ended", "raised"}]
        /\ round \in [Calls -> 1..MaxRounds] /\ pending \in [Calls -> 0..MaxTools]
        /\ talk \in [Calls -> Seq(Message)]
        /\ << >> \in Seq(Message) /\ 1 \in 1..MaxRounds /\ 0 \in 0..MaxTools
    BY AllCalls DEF ApiInv, ServerTypeOK, AgentTypeOK
  <1> DEFINE Apart == \A d \in Calls : d # c =>
               /\ stage'[d] = stage[d] /\ kind'[d] = kind[d] /\ child'[d] = child[d]
               /\ reply'[d] = reply[d] /\ phase'[d] = phase[d] /\ round'[d] = round[d]
               /\ pending'[d] = pending[d] /\ talk'[d] = talk[d]
               /\ (d \in strays => d \in strays')
  <1>1. SUFFICES ASSUME TRUE
                 PROVE  UNCHANGED <<vars, life, grpc>> /\ ServerTypeOK' /\ Apart /\ All(c)'
    BY <1>0, Untouched
  <1>2. CASE Arrive(c)
    <2>1. /\ life = "up" /\ stage[c] = "idle"
          /\ UNCHANGED <<vars, round, pending, talk, serveVars>>
          /\ child[c] = "none" /\ kind[c] = "none" /\ reply[c] = "none"
          /\ phase[c] = "off" /\ talk[c] = << >>
      BY <1>0, <1>2, ArriveCases DEF All, Call
    <2>2. Talk(c)'
      BY <1>0, <2>1, TalkStays DEF All
    <2>3. ASSUME NEW what \in {"payload", "refused", "failure"}, AnswerNow(c, what)
          PROVE  ServerTypeOK' /\ Apart /\ Call(c)' /\ True(c)'
      <3>1. ServerTypeOK' /\ Apart
        BY <1>0, <2>1, <2>3 DEF AnswerNow, ServerTypeOK, AgentTypeOK, serveVars
      <3>2. /\ stage'[c] = "answered" /\ child'[c] = "none" /\ talk'[c] = << >>
            /\ kind'[c] = "none" /\ phase'[c] = "off"
        BY <1>0, <2>1, <2>3 DEF AnswerNow, ServerTypeOK
      <3> QED
        BY <3>1, <3>2 DEF Call, True
    <2>4. ASSUME NEW output \in {"text", "json", "agent", "ingest"}, StartChild(c, output)
          PROVE  ServerTypeOK' /\ Apart /\ Call(c)' /\ True(c)'
      <3>1. ServerTypeOK' /\ Apart
        BY <1>0, <2>1, <2>4 DEF StartChild, ServerTypeOK, AgentTypeOK, serveVars
      <3>2. /\ stage'[c] = "child" /\ child'[c] = "running" /\ talk'[c] = << >>
            /\ reply'[c] = "none" /\ life' = "up" /\ phase'[c] \in {"off", "chat"}
        BY <1>0, <2>1, <2>4 DEF StartChild, ServerTypeOK, serveVars
      <3> QED
        BY <3>1, <3>2 DEF Call, True
    <2> QED
      BY <1>2, <2>1, <2>2, <2>3, <2>4, ArriveCases DEF serveVars, All
  <1>3. CASE AgentStep(c)
    <2>1. /\ stage[c] = "child" /\ child[c] = "running" /\ UNCHANGED <<vars, callVars, serveVars>>
          /\ phase[c] = "tools" => talk[c] # << >>
      BY <1>0, <1>3 DEF AgentStep, All, Call
    <2>2. /\ AgentTypeOK' /\ Talk(c)'
          /\ phase'[c] = "tools" => talk'[c] # << >>
          /\ \A d \in Calls : d # c => /\ phase'[d] = phase[d] /\ round'[d] = round[d]
                                       /\ pending'[d] = pending[d] /\ talk'[d] = talk[d]
      BY <1>0, <1>3, <2>1, AgentKeeps DEF AgentStep, All
    <2>3. ServerTypeOK' /\ Apart
      BY <1>0, <2>1, <2>2 DEF ServerTypeOK, callVars, serveVars
    <2>4. Call(c)' /\ True(c)'
      BY <1>0, <2>1, <2>2 DEF All, Call, True, callVars, serveVars
    <2> QED
      BY <2>1, <2>2, <2>3, <2>4 DEF serveVars, All
  <1>4. CASE ChildEnds(c) \/ Deadline(c)
    <2>1. /\ child[c] = "running" /\ UNCHANGED <<vars, stage, kind, reply, life, grpc, phase>>
          /\ \E end \in {"ok", "failed", "killed"} :
               /\ child' = [child EXCEPT ![c] = end]
               /\ end = "ok" /\ kind[c] = "agent" => phase[c] = "ended"
          /\ strays' = strays \ {c} \/ strays' = strays
          /\ talk' = [talk EXCEPT ![c] = << >>] /\ round' = [round EXCEPT ![c] = 1]
          /\ pending' = [pending EXCEPT ![c] = 0]
      BY <1>4 DEF ChildEnds, Deadline, Completes, Gone, serveVars
    <2>2. ServerTypeOK' /\ Apart
      BY <1>0, <2>1 DEF ServerTypeOK, AgentTypeOK
    <2>3. Talk(c)'
      BY <1>0, <2>1, TalkGone
    <2>4. /\ child'[c] \in {"ok", "failed", "killed"}
          /\ child'[c] = "ok" /\ kind[c] = "agent" => phase[c] = "ended"
          /\ stage[c] # "idle" /\ reply[c] # "payload"
      BY <1>0, <2>1 DEF ServerTypeOK, All, Call, True
    <2>5. Call(c)' /\ True(c)'
      BY <2>1, <2>4 DEF Call, True
    <2> QED
      BY <2>1, <2>2, <2>3, <2>5 DEF All
  <1>5. CASE Respond(c)
    <2>1. /\ UNCHANGED <<vars, agentVars, kind, child, serveVars>>
          /\ child[c] \in {"ok", "failed", "killed"}
          /\ stage' = [stage EXCEPT ![c] = "answered"]
          /\ \/ child[c] = "ok" /\ reply' = [reply EXCEPT ![c] = "payload"]
             \/ reply' = [reply EXCEPT ![c] = "failure"]
      BY <1>5 DEF Respond
    <2>2. ServerTypeOK' /\ Apart
      BY <1>0, <2>1 DEF ServerTypeOK, AgentTypeOK, agentVars, serveVars
    <2>3. Talk(c)'
      BY <1>0, <2>1, TalkStays DEF All, agentVars
    <2>4. Call(c)' /\ True(c)'
      BY <1>0, <2>1 DEF All, Call, True, agentVars, serveVars, ServerTypeOK
    <2> QED
      BY <2>1, <2>2, <2>3, <2>4 DEF serveVars, All
  <1> QED
    BY <1>2, <1>3, <1>4, <1>5 DEF Conclude

LEMMA ApiStep == ApiInv /\ [ApiNext]_apiVars => ApiInv'
  <1> SUFFICES ASSUME ApiInv, [ApiNext]_apiVars PROVE ApiInv'
    OBVIOUS
  <1>0. JobInv /\ ServerTypeOK /\ \A c \in Calls : All(c)
    BY AllCalls DEF ApiInv
  <1>1. SUFFICES ASSUME TRUE PROVE JobInv' /\ ServerTypeOK' /\ \A c \in Calls : All(c)'
    BY DEF ApiInv, All, True, RepliesTrue
  <1>2. ASSUME UNCHANGED vars PROVE JobInv'
    BY <1>0, <1>2, JobInvStep
  <1>3. ASSUME NEW c \in Calls, Arrive(c) \/ AgentStep(c) \/ ChildEnds(c) \/ Conclude(c)
        PROVE  JobInv' /\ ServerTypeOK' /\ \A d \in Calls : All(d)'
    BY <1>2, <1>3, OneCall
  <1>4. CASE Serve \/ Listen
    <2>1. UNCHANGED <<vars, agentVars, callVars, strays>> /\ (life = "up" => life' = "up")
      BY <1>4 DEF Serve, Listen
    <2>2. ServerTypeOK'
      BY <1>0, <1>4, <2>1 DEF Serve, Listen, ServerTypeOK, AgentTypeOK, agentVars, callVars
    <2>3. \A d \in Calls : All(d)'
      BY <1>0, <2>1, Untouched DEF agentVars, callVars
    <2> QED
      BY <1>2, <2>1, <2>2, <2>3
  <1>5. CASE Exit
    <2>1. /\ UNCHANGED <<agentVars, kind, child, reply>> /\ Crash
          /\ life' = "down" /\ grpc' = FALSE
          /\ stage' = [c \in Calls |-> IF stage[c] = "child" THEN "lost" ELSE stage[c]]
          /\ strays' = strays \cup {c \in Calls : child[c] = "running"}
      BY <1>5 DEF Exit
    <2>2. JobInv'
      BY <1>0, <2>1, CrashStep
    <2>3. ServerTypeOK'
      BY <1>0, <2>1 DEF ServerTypeOK, AgentTypeOK, agentVars
    <2>4. ASSUME NEW d \in Calls PROVE All(d)'
      <3>1. Talk(d)'
        BY <1>0, <2>1, <2>4, TalkStays DEF All, agentVars
      <3>2. Call(d)' /\ True(d)'
        BY <1>0, <2>1, <2>4 DEF All, Call, True, agentVars
      <3> QED
        BY <3>1, <3>2 DEF All
    <2> QED
      BY <2>2, <2>3, <2>4
  <1>6. ASSUME NEW p \in Posts, NewPost(p) \/ JobStep(p)
        PROVE  JobInv' /\ ServerTypeOK' /\ \A d \in Calls : All(d)'
    <2>1. Next /\ UNCHANGED <<agentVars, callVars, serveVars>>
      BY <1>6 DEF NewPost, JobStep, Next
    <2>2. ServerTypeOK'
      BY <1>0, <2>1 DEF ServerTypeOK, AgentTypeOK, agentVars, callVars, serveVars
    <2>3. \A d \in Calls : All(d)'
      BY <1>0, <2>1, Untouched DEF agentVars, callVars, serveVars
    <2> QED
      BY <1>0, <2>1, <2>2, <2>3, JobInvStep
  <1>7. CASE UNCHANGED apiVars
    <2>1. UNCHANGED <<vars, agentVars, callVars, serveVars>>
      BY <1>7 DEF apiVars
    <2>2. ServerTypeOK'
      BY <1>0, <2>1 DEF ServerTypeOK, AgentTypeOK, agentVars, callVars, serveVars
    <2>3. \A d \in Calls : All(d)'
      BY <1>0, <2>1, Untouched DEF agentVars, callVars, serveVars
    <2> QED
      BY <1>2, <2>1, <2>2, <2>3
  <1> QED
    BY <1>3, <1>4, <1>5, <1>6, <1>7 DEF ApiNext

LEMMA ApiInvariant == ApiSpec => []ApiInv
  BY ApiInitInv, ApiStep, PTL DEF ApiSpec

-----------------------------------------------------------------------------
(* Theorems.                                                               *)

\* Type correctness of the server with its jobs and the agent.
THEOREM ApiTypes == ApiSpec => []ApiTypeOK
  <1>1. ApiInv => ApiTypeOK
    BY DEF ApiInv, ServerTypeOK, ApiTypeOK, JobInv
  <1> QED
    BY <1>1, ApiInvariant, PTL

\* A payload is never made of a process that failed, was killed or is not over, and
\* no process runs that nobody waits for, but for those whose server died
\* (runner/python.go:35-67 and the handlers of api.go).
THEOREM RepliesAreTrue == ApiSpec => []RepliesTrue
  <1>1. ApiInv => RepliesTrue
    BY DEF ApiInv
  <1> QED
    BY <1>1, ApiInvariant, PTL

\* Whatever the model answers, in however many rounds, every tool call in the
\* conversation is followed by its result (answer_agent.py:282-348).
THEOREM AgentTurns == ApiSpec => []AgentKeepsTurns
  <1>1. ASSUME ApiInv PROVE AgentKeepsTurns
    <2>1. ASSUME NEW c \in Calls PROVE Cardinality(Turns(c)) <= MaxRounds
      <3>1. Talk(c) /\ talk[c] \in Seq(Message) /\ round[c] \in 1..MaxRounds
        BY <1>1, <2>1 DEF ApiInv, ServerTypeOK, AgentTypeOK
      <3>2. CASE talk[c] = << >>
        BY <3>1, <3>2 DEF Talk
      <3>3. CASE talk[c] # << >>
        <4>1. Last(c) \in Message
          BY <3>1, <3>3 DEF Last
        <4>2. Last(c).round \in Nat
          BY <4>1 DEF Message
        <4> QED
          BY <3>1, <3>3, <4>2 DEF Talk
      <3> QED
        BY <3>2, <3>3
    <2> QED
      BY <1>1, <2>1 DEF ApiInv, Talk, Last, Turns, AgentKeepsTurns
  <1> QED
    BY <1>1, ApiInvariant, PTL

\* No key names a job that is not there, also after a restart of the server.
THEOREM KeysAreResolved == ApiSpec => []KeysResolve
  <1>1. ApiInv => KeysResolve
    BY DEF ApiInv, JobInv
  <1> QED
    BY <1>1, ApiInvariant, PTL
=============================================================================
