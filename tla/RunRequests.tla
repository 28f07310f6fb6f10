----------------------------- MODULE RunRequests -----------------------------
(****************************************************************************)
(* What the run queue promises to the rest of the node, and what module     *)
(* JobRuns takes for granted: every accepted call of Run is answered by one *)
(* execution of its run, executions of one run never overlap, and those of  *)
(* different runs have nothing to do with each other.  Module RunQueue      *)
(* implements it.                                                           *)
(****************************************************************************)
EXTENDS Naturals

CONSTANT Runs    \* the identifiers of job runs

VARIABLES
    requests,    \* for each run, the calls that have not been answered yet
    executing    \* the runs that are being executed

rvars == <<requests, executing>>

Init ==
    /\ requests = [r \in Runs |-> 0]
    /\ executing = {}

Request(r) ==
    /\ requests' = [requests EXCEPT ![r] = @ + 1]
    /\ UNCHANGED executing

Begin(r) ==
    /\ requests[r] > 0
    /\ r \notin executing
    /\ executing' = executing \cup {r}
    /\ UNCHANGED requests

\* An execution answers one call, so that a call which comes in the middle of
\* it makes for another one.
End(r) ==
    /\ r \in executing
    /\ executing' = executing \ {r}
    /\ requests' = [requests EXCEPT ![r] = @ - 1]

Next == \E r \in Runs : Request(r) \/ Begin(r) \/ End(r)

Spec == Init /\ [][Next]_rvars
=============================================================================
