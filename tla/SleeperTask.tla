----------------------------- MODULE SleeperTask -----------------------------
(****************************************************************************)
(* The sleeper task (core/services/sleeper_task.go): a goroutine that works *)
(* whenever it has been woken, with a channel of one token between it and   *)
(* those who wake it.  Its users leave what there is to do somewhere and    *)
(* then call WakeUp: the job subscriber stores the new head in the worker   *)
(* (job_subscriber.go OnNewHead), and Work reads it again for every run.    *)
(*                                                                          *)
(* What is left is a number here: the number of things left so far.         *)
(****************************************************************************)
EXTENDS Naturals

CONSTANTS
    Callers,    \* the goroutines that call WakeUp
    MaxLeft     \* bound on the things left to do

ASSUME MaxLeftAssumption == MaxLeft \in Nat

VARIABLES
    left,       \* the things left to do so far
    waking,     \* the callers that have left something and are about to call WakeUp
    queue,      \* the tokens in chQueue
    closed,     \* is chQueue closed
    worker,     \* where workerLoop is
    seen,       \* what the Work begun last has seen of left
    stop        \* where the call of Stop is

vars == <<left, waking, queue, closed, worker, seen, stop>>

\* The values the variables take; chQueue holds at most one token.
TypeOK ==
    /\ left \in 0 .. MaxLeft
    /\ waking \in SUBSET Callers
    /\ queue \in 0 .. 1
    /\ closed \in BOOLEAN
    /\ worker \in {"waiting", "woken", "working", "leaving", "done"}
    /\ seen \in 0 .. MaxLeft
    /\ stop \in {"ready", "waiting", "returned"}

Init ==
    /\ left = 0
    /\ waking = {}
    /\ queue = 0
    /\ closed = FALSE
    /\ worker = "waiting"
    /\ seen = 0
    /\ stop = "ready"

----------------------------------------------------------------------------
(* The callers.                                                             *)

\* Something is left for the worker.  The caller goes on to WakeUp.
Leave(c) ==
    /\ c \notin waking
    /\ stop = "ready"
    /\ left < MaxLeft
    /\ left' = left + 1
    /\ waking' = waking \cup {c}
    /\ UNCHANGED <<queue, closed, worker, seen, stop>>

\* Mutant: nobody is told while the worker is busy.
WakeUp_DropsIfBusy(c) ==
    /\ c \in waking
    /\ ~closed
    /\ waking' = waking \ {c}
    /\ queue' = IF worker = "waiting" THEN 1 ELSE queue
    /\ UNCHANGED <<left, closed, worker, seen, stop>>

\* A token goes into the channel unless there is one already.  On a closed
\* channel this panics; see Stop.
WakeUp(c) ==
    /\ c \in waking
    /\ ~closed
    /\ waking' = waking \ {c}
    /\ queue' = 1
    /\ UNCHANGED <<left, closed, worker, seen, stop>>

----------------------------------------------------------------------------
(* workerLoop.                                                              *)

\* The range statement takes a token.  A closed channel still gives its token.
Receive ==
    /\ worker = "waiting"
    /\ queue = 1
    /\ queue' = 0
    /\ worker' = "woken"
    /\ UNCHANGED <<left, waking, closed, seen, stop>>

BeginWork ==
    /\ worker = "woken"
    /\ worker' = "working"
    /\ seen' = left
    /\ UNCHANGED <<left, waking, queue, closed, stop>>

EndWork ==
    /\ worker = "working"
    /\ worker' = "waiting"
    /\ UNCHANGED <<left, waking, queue, closed, seen, stop>>

\* Mutant: the loop ends as soon as the channel is closed.
EndLoop_LeavesToken ==
    /\ worker = "waiting"
    /\ closed
    /\ worker' = "leaving"
    /\ UNCHANGED <<left, waking, queue, closed, seen, stop>>

\* The range statement ends on a closed and empty channel.
EndLoop ==
    /\ worker = "waiting"
    /\ closed
    /\ queue = 0
    /\ worker' = "leaving"
    /\ UNCHANGED <<left, waking, queue, closed, seen, stop>>

\* Mutant: chQueueDone is never closed.
LeaveLoop_NotTold ==
    /\ worker = "leaving"
    /\ worker' = "waiting"
    /\ UNCHANGED <<left, waking, queue, closed, seen, stop>>

\* The test of len(chQueue) after the loop never finds a token, for the range
\* statement has drained the channel; then chQueueDone is closed.
LeaveLoop ==
    /\ worker = "leaving"
    /\ worker' = "done"
    /\ UNCHANGED <<left, waking, queue, closed, seen, stop>>

----------------------------------------------------------------------------
(* Stop.  ChainlinkApplication.Stop calls it when the goroutine that wakes   *)
(* the task has ended (HeadTracker.Stop waits for it).                       *)

Stop ==
    /\ stop = "ready"
    /\ waking = {}
    /\ closed' = TRUE
    /\ stop' = "waiting"
    /\ UNCHANGED <<left, waking, queue, worker, seen>>

StopReturns ==
    /\ stop = "waiting"
    /\ worker = "done"
    /\ stop' = "returned"
    /\ UNCHANGED <<left, waking, queue, closed, worker, seen>>

----------------------------------------------------------------------------

WorkerStep == Receive \/ BeginWork \/ EndWork \/ EndLoop \/ LeaveLoop

Next ==
    \/ \E c \in Callers : Leave(c) \/ WakeUp(c)
    \/ WorkerStep
    \/ Stop
    \/ StopReturns

Spec == Init /\ [][Next]_vars

\* Goroutines run, and Work comes to an end.  Nobody has to leave anything, or
\* to call Stop.
Fairness ==
    /\ \A c \in Callers : WF_vars(WakeUp(c))
    /\ WF_vars(WorkerStep)
    /\ WF_vars(StopReturns)

FairSpec == Spec /\ Fairness

----------------------------------------------------------------------------
(* Properties.                                                              *)

\* What has been left and told is never overlooked: either the Work begun last
\* has seen it, or a token or a caller is still there to make for another Work.
\* WakeUp drops its token when there is one, and Receive takes it before Work
\* begins to read.
NothingOverlooked ==
    seen = left \/ waking # {} \/ queue = 1 \/ worker = "woken"

\* Stop does not return before everything left has been worked on.
StopWorksOff == stop = "returned" => seen = left

\* sleeper_task.go:22: "SleeperTask is guaranteed to call Work on the worker at
\* least once for every WakeUp call", read as a Work that begins after the call.
EveryWakeUpIsWorkedOn == \A n \in 1 .. MaxLeft : left = n ~> seen >= n

\* Stop returns: workerLoop finds the channel closed and drained, and says so.
StopEnds == stop = "waiting" ~> stop = "returned"
=============================================================================
