-------------------------- MODULE MCLogSubscriptions --------------------------
(****************************************************************************)
(* LogSubscriptions for TLC: who starts which job.                          *)
(****************************************************************************)
EXTENDS LogSubscriptions, TLC

CONSTANTS j1, i1

\* One job with one initiator.
OneOnly == i1 :> j1
=============================================================================
