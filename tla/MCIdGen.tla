------------------------------ MODULE MCIdGen ------------------------------
(* Two processes, three milliseconds around the epoch, a two-value sequence. *)
EXTENDS IdGen, TLC

CONSTANTS g1, g2, c1, c2

\* g1's number is out of range and clamped to 0; g2 has number 1.
MCRawWorker == (g1 :> (0 - 5)) @@ (g2 :> 1)
=============================================================================
