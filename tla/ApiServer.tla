------------------------------ MODULE ApiServer ------------------------------
(***************************************************************************)
(* The server process (internal/api/api.go): its start, the goroutine that *)
(* serves Phloem's gRPC beside HTTP, the handlers that start one Python    *)
(* process per request (internal/runner/python.go) and wait for it, and    *)
(* next to them the jobs of JobRegistry.  The handlers share nothing but   *)
(* the life of the server.                                                 *)
(***************************************************************************)
EXTENDS JobRegistry, AnswerAgent

VARIABLES
  life,     \* "up" if HTTP is served, "down" if not
  grpc,     \* TRUE if Phloem is served on its port
  stage,     \* [Calls -> "idle" | "child" | "answered" | "lost"]
  kind,     \* [Calls -> what the route expects of its process], "none" before
  child,    \* [Calls -> the request's process: "none" | "running" | its end]
  reply,    \* [Calls -> "none" | "refused" | "failure" | "payload"]
  strays    \* processes whose server is gone

callVars  == <<stage, kind, child, reply>>
serveVars == <<life, grpc, strays>>
apiVars   == <<vars, agentVars, callVars, serveVars>>

ApiInit == /\ Init /\ AgentInit
           /\ life = "down" /\ grpc = FALSE
           /\ stage = [c \in Calls |-> "idle"]
           /\ kind = [c \in Calls |-> "none"]
           /\ child = [c \in Calls |-> "none"]
           /\ reply = [c \in Calls |-> "none"]
           /\ strays = {}

-----------------------------------------------------------------------------
(* Run and startPhloemGRPC.                                                *)

\* Run, at the first start and at any later one; while no go.mod is found or a
\* PostgreSQL that is configured does not answer, it stays down.  HTTP is served
\* while startPhloemGRPC is still dialling Qdrant and TypeDB, which may both fail.
Serve == /\ life = "down"
         /\ life' = "up"
         /\ UNCHANGED <<vars, agentVars, callVars, grpc, strays>>

Listen == /\ life = "up" /\ ~grpc
          /\ grpc' = TRUE
          /\ UNCHANGED <<vars, agentVars, callVars, life, strays>>

\* The port is taken or serving on it fails: os.Exit(1), whatever HTTP requests
\* are being handled; or the process is killed.  Python goes on.
Exit == /\ life = "up"
        /\ Crash
        /\ life' = "down" /\ grpc' = FALSE
        /\ stage' = [c \in Calls |-> IF stage[c] = "child" THEN "lost" ELSE stage[c]]
        /\ strays' = strays \cup {c \in Calls : child[c] = "running"}
        /\ UNCHANGED <<agentVars, kind, child, reply>>

-----------------------------------------------------------------------------
(* The handlers.                                                           *)

AnswerNow(c, what) ==
  /\ reply' = [reply EXCEPT ![c] = what]
  /\ stage' = [stage EXCEPT ![c] = "answered"]
  /\ UNCHANGED <<kind, child, phase>>

\* RunModule starts python -m with the handler's context; the agent's output and
\* that of a reset are read as JSON.
StartChild(c, output) ==
  /\ kind' = [kind EXCEPT ![c] = output]
  /\ child' = [child EXCEPT ![c] = "running"]
  /\ stage' = [stage EXCEPT ![c] = "child"]
  /\ phase' = IF output = "agent" THEN [phase EXCEPT ![c] = "chat"] ELSE phase
  /\ UNCHANGED reply

Health(c) == AnswerNow(c, "payload")

\* PostgreSQL, Qdrant and TypeDB are dialled, the gRPC client for Phloem is made
\* but not connected: what is found, the request is answered.
HealthDeps(c) == AnswerNow(c, "payload")

\* q is given, project_id is a number, detail or fields are known (format=json).
Search(c) == \E q, number, known, json \in BOOLEAN :
  IF q /\ number /\ (json => known)
  THEN StartChild(c, IF json THEN "json" ELSE "text")
  ELSE AnswerNow(c, "refused")

\* One of l1_id and l2_id, and a format that is known.
Restore(c) == \E l1, l2, known, json \in BOOLEAN :
  IF l1 # l2 /\ known THEN StartChild(c, IF json THEN "json" ELSE "text")
                      ELSE AnswerNow(c, "refused")

Ask(c) == \E q \in BOOLEAN :
  IF q THEN StartChild(c, "agent") ELSE AnswerNow(c, "refused")

\* A body that cannot be read is answered with a failure.
ResetIndex(c) == \E body \in BOOLEAN :
  IF body THEN StartChild(c, "json") ELSE AnswerNow(c, "failure")

\* run.py needs Phloem if the path has files to ingest.
Ingest(c) == \E body, path, files \in BOOLEAN :
  IF body /\ path THEN StartChild(c, IF files THEN "ingest" ELSE "text")
                  ELSE AnswerNow(c, IF body THEN "refused" ELSE "failure")

Arrive(c) ==
  /\ life = "up" /\ stage[c] = "idle"
  /\ \/ Health(c) \/ HealthDeps(c) \/ Search(c) \/ Restore(c)
     \/ Ask(c) \/ ResetIndex(c) \/ Ingest(c)
  /\ UNCHANGED <<vars, round, pending, talk, serveVars>>

-----------------------------------------------------------------------------
(* The process and its end.                                                *)

\* A stray's messages are not followed: it takes none that another cannot.
AgentStep(c) == /\ stage[c] = "child" /\ child[c] = "running" /\ kind[c] = "agent"
                /\ Agent(c)
                /\ UNCHANGED <<vars, callVars, serveVars>>

\* It prints its result and exits with 0: the agent when it has one, and run.py,
\* if the path has files to ingest, when Phloem takes them.
Completes(c) == /\ stage[c] = "child"
                /\ kind[c] = "agent" => phase[c] = "ended"
                /\ kind[c] = "ingest" => grpc

\* With the process goes its conversation; how far it came is kept.
Gone(c) == /\ round' = [round EXCEPT ![c] = 1]
           /\ pending' = [pending EXCEPT ![c] = 0]
           /\ talk' = [talk EXCEPT ![c] = << >>]
           /\ UNCHANGED phase

\* Anything else is another exit code: what cmd_answer catches of the agent, a
\* tool or a database that is not there, a stray printing to nobody.
ChildEnds(c) == /\ child[c] = "running"
                /\ \/ Completes(c) /\ child' = [child EXCEPT ![c] = "ok"]
                   \/ child' = [child EXCEPT ![c] = "failed"]
                /\ strays' = strays \ {c}
                /\ Gone(c)
                /\ UNCHANGED <<vars, stage, kind, reply, life, grpc>>

\* Mutated form: the handler does not wait for the process it gives up.
Deadline_NoWait(c) == /\ stage[c] = "child" /\ child[c] = "running"
                      /\ stage' = [stage EXCEPT ![c] = "answered"]
                      /\ reply' = [reply EXCEPT ![c] = "failure"]
                      /\ UNCHANGED <<vars, agentVars, kind, child, serveVars>>

\* The context ends, by its time limit or because the client has gone:
\* exec.CommandContext kills the process.
Deadline(c) == /\ stage[c] = "child" /\ child[c] = "running"
               /\ child' = [child EXCEPT ![c] = "killed"]
               /\ Gone(c)
               /\ UNCHANGED <<vars, stage, kind, reply, serveVars>>

Parsed == {"json", "agent"}

\* Mutated form: an output that can be read counts whatever the exit code.
Respond_AnyExit(c) ==
  /\ stage[c] = "child" /\ child[c] \in {"ok", "failed", "killed"}
  /\ \/ reply' = [reply EXCEPT ![c] = "payload"]
     \/ /\ child[c] # "ok" \/ kind[c] \in Parsed
        /\ reply' = [reply EXCEPT ![c] = "failure"]
  /\ stage' = [stage EXCEPT ![c] = "answered"]
  /\ UNCHANGED <<vars, agentVars, kind, child, serveVars>>

\* RunModule returns: an error is a failure, and so is output that should be
\* JSON and is not.
Respond(c) ==
  /\ stage[c] = "child"
  /\ \/ child[c] = "ok" /\ reply' = [reply EXCEPT ![c] = "payload"]
     \/ /\ child[c] \in {"failed", "killed"} \/ (child[c] = "ok" /\ kind[c] \in Parsed)
        /\ reply' = [reply EXCEPT ![c] = "failure"]
  /\ stage' = [stage EXCEPT ![c] = "answered"]
  /\ UNCHANGED <<vars, agentVars, kind, child, serveVars>>

JobStep(p) == /\ life = "up"
              /\ Handle(p) \/ Run(p)
              /\ UNCHANGED <<agentVars, callVars, serveVars>>

NewPost(p) == /\ life = "up"
              /\ Post(p)
              /\ UNCHANGED <<agentVars, callVars, serveVars>>

Conclude(c) == Deadline(c) \/ Respond(c)

ApiNext == \/ Serve \/ Listen \/ Exit
           \/ \E c \in Calls : Arrive(c) \/ AgentStep(c) \/ ChildEnds(c) \/ Conclude(c)
           \/ \E p \in Posts : NewPost(p) \/ JobStep(p)

\* Handlers and goroutines run, sync.Mutex starves nobody, a job's process is
\* killed when its 30 minutes are over; a handler's context ends, and RunModule
\* then returns.
ApiSpec == /\ ApiInit /\ [][ApiNext]_apiVars
           /\ \A c \in Calls : WF_apiVars(Conclude(c))
           /\ \A p \in Posts : SF_apiVars(JobStep(p))

-----------------------------------------------------------------------------
(* Properties.                                                             *)

\* The values of the server's variables.
ApiTypeOK == /\ TypeOK /\ AgentTypeOK
             /\ life \in {"down", "up"} /\ grpc \in BOOLEAN
             /\ grpc => life = "up"
             /\ stage \in [Calls -> {"idle", "child", "answered", "lost"}]
             /\ kind \in [Calls -> {"none", "text", "json", "agent", "ingest"}]
             /\ child \in [Calls -> {"none", "running", "ok", "failed", "killed"}]
             /\ reply \in [Calls -> {"none", "refused", "failure", "payload"}]
             /\ strays \subseteq Calls

\* A process runs only while a request waits for it, unless its server died
\* under it; a request whose process failed, was killed or has not come to its
\* end is never answered with a payload, and an answer of the agent is one it has
\* finished.
RepliesTrue == \A c \in Calls :
  /\ child[c] = "running" => (stage[c] = "child" /\ life = "up") \/ c \in strays
  /\ reply[c] = "payload" => child[c] \in {"ok", "none"}
  /\ reply[c] = "payload" /\ kind[c] = "agent" => phase[c] = "ended"

\* Every request is answered and every job ends with its lock free, whatever
\* Python does and whoever waits for the mutex, unless the server dies.
EveryRequestServed ==
  /\ \A c \in Calls : stage[c] = "child" ~> stage[c] \in {"answered", "lost"}
  /\ \A p \in Posts : at[p] = "lookup" ~>
       at[p] \in {"done", "lost"} /\ go[p] \in {"over", "none"} /\ mu # p
=============================================================================
