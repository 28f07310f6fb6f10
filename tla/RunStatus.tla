------------------------------ MODULE RunStatus ------------------------------
(****************************************************************************)
(* The statuses of a job run and of its task runs, and the predicates on    *)
(* them (core/store/models/common.go).  The Go constants are strings, and   *)
(* RunStatusUnstarted is the empty one; here they keep readable names.      *)
(****************************************************************************)

PendingStatuses ==
    {"pending_bridge", "pending_confirmations", "pending_sleep", "pending_connection"}

RunStatuses ==
    {"unstarted", "in_progress", "errored", "completed", "cancelled"} \cup PendingStatuses

Pending(s) == s \in PendingStatuses

\* "Finished returns true if the status is final and can't be changed."
Finished(s) == s \in {"completed", "errored", "cancelled"}

\* A completed and a cancelled status are runnable, too.
Runnable(s) == s # "errored" /\ ~Pending(s)

\* Mutant: everything that has not failed can start.
CanStart_NotErrored(s) == s # "errored"

\* in_progress cannot start: only what is pending or was never started.
CanStart(s) == Pending(s) \/ s = "unstarted"

\* BridgeRunResult.UnmarshalJSON: whatever status an external adapter reports
\* in its JSON, one of these three is what the node sees.
BridgeResultStatuses == {"errored", "pending_bridge", "completed"}
==============================================================================
