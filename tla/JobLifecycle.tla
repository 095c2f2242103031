---------------------------- MODULE JobLifecycle ----------------------------
(***************************************************************************)
(* What the job interface promises a client: a job is queued, then runs    *)
(* once, then is completed or failed for good; and everybody who asks with *)
(* the same idempotency key is given the same job.                         *)
(***************************************************************************)
CONSTANTS Jobs, Keys, NoJob

VARIABLES
  state,   \* [Jobs -> "none" | "queued" | "running" | "completed" | "failed"]
  given    \* [Keys -> the job the key stands for, or NoJob]

Init == state = [j \in Jobs |-> "none"] /\ given = [k \in Keys |-> NoJob]

Create(j, k) == /\ state[j] = "none" /\ given[k] = NoJob
                /\ state' = [state EXCEPT ![j] = "queued"]
                /\ given' = [given EXCEPT ![k] = j]

Move(j, from, to) == /\ state[j] = from
                     /\ state' = [state EXCEPT ![j] = to]
                     /\ UNCHANGED given

Next == \E j \in Jobs : \/ \E k \in Keys : Create(j, k)
                        \/ Move(j, "queued", "running")
                        \/ Move(j, "running", "completed")
                        \/ Move(j, "running", "failed")

Spec == Init /\ [][Next]_<<state, given>>
=============================================================================
