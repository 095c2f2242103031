---------------------------- MODULE RevisionLog ----------------------------
(***************************************************************************)
(* What the sink promises its callers about revisions, without tables: a   *)
(* call asks for one content under one title; either the newest revision   *)
(* of that title already holds the content and the call is told so, or it  *)
(* becomes a revision of its own.                                          *)
(***************************************************************************)
EXTENDS Integers, Sequences

CONSTANTS Calls, Requests, NoRequest

VARIABLES
  log,      \* the revisions, oldest first; each is the call that made it
  asked,    \* [Calls -> what the call asks for, or NoRequest]
  told      \* [Calls -> "nothing" | "new" | "same" | "failed"]

Newest(k, t) == /\ asked[log[k]].title = t
                /\ \A j \in DOMAIN log : j > k => asked[log[j]].title # t

\* The newest revision of the title that w asks for has w's content.
UpToDate(w) == \E k \in DOMAIN log : /\ Newest(k, asked[w].title)
                                     /\ asked[log[k]].content = asked[w].content

Init == log = << >> /\ asked = [w \in Calls |-> NoRequest] /\ told = [w \in Calls |-> "nothing"]

Ask(w) == /\ asked[w] = NoRequest
          /\ \E r \in Requests : asked' = [asked EXCEPT ![w] = r]
          /\ UNCHANGED <<log, told>>

Publish(w) == /\ asked[w] # NoRequest /\ told[w] = "nothing"
              /\ \A k \in DOMAIN log : log[k] # w
              /\ ~UpToDate(w)
              /\ log' = Append(log, w)
              /\ UNCHANGED <<asked, told>>

Tell(w) == /\ asked[w] # NoRequest /\ told[w] = "nothing"
           /\ \/ UpToDate(w) /\ told' = [told EXCEPT ![w] = "same"]
              \/ (\E k \in DOMAIN log : log[k] = w) /\ told' = [told EXCEPT ![w] = "new"]
              \/ told' = [told EXCEPT ![w] = "failed"]
           /\ UNCHANGED <<log, asked>>

Next == \E w \in Calls : Ask(w) \/ Publish(w) \/ Tell(w)

Spec == Init /\ [][Next]_<<log, asked, told>>
=============================================================================
