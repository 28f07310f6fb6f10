------------------------------- MODULE RunQueue -------------------------------
(****************************************************************************)
(* The run queue (core/services/run_queue.go), one lock section at a time.  *)
(* Module JobRuns takes a call of Run and the goroutine it may start as one *)
(* step; here any number of goroutines call Run, and Stop is called in the  *)
(* middle of it.                                                            *)
(*                                                                          *)
(* A call goes on as the goroutine it starts, so one program counter stands *)
(* for both.                                                                *)
(****************************************************************************)
EXTENDS Integers, FiniteSets

CONSTANTS
    Calls,   \* the calls of Run
    Runs     \* the identifiers of job runs

ASSUME CallsAssumption == IsFiniteSet(Calls)

VARIABLES
    pc,             \* where each call is
    runOf,          \* the run each call is for
    workers,        \* runQueue.workers, 0 for a run that is not in the map
    workersWg,      \* the counter of the wait group
    stopRequested,
    stop,           \* where the call of Stop is
    unserved        \* history: calls counted since their run was last begun

vars == <<pc, runOf, workers, workersWg, stopRequested, stop, unserved>>

\* The program counters of a goroutine that is responsible for its run.
Owners == {"first", "loop", "executing", "executed"}

PCs == {"ready", "checked", "returned", "finished", "done"} \cup Owners

TypeOK ==
    /\ pc \in [Calls -> PCs]
    /\ runOf \in [Calls -> Runs]
    /\ workers \in [Runs -> Nat]
    /\ workersWg \in Nat      \* sync: a negative WaitGroup counter panics
    /\ stopRequested \in BOOLEAN
    /\ stop \in {"ready", "waiting", "returned"}
    /\ unserved \in SUBSET Calls

Init ==
    /\ pc = [c \in Calls |-> "ready"]
    /\ runOf \in [Calls -> Runs]
    /\ workers = [r \in Runs |-> 0]
    /\ workersWg = 0
    /\ stopRequested = FALSE
    /\ stop = "ready"
    /\ unserved = {}

Go(c, from, to) == pc[c] = from /\ pc' = [pc EXCEPT ![c] = to]

----------------------------------------------------------------------------
(* Run.                                                                     *)

\* The first lock section: nothing is accepted once Stop has been called.
Check(c) ==
    /\ Go(c, "ready", IF stopRequested THEN "returned" ELSE "checked")
    /\ UNCHANGED <<runOf, workers, workersWg, stopRequested, stop, unserved>>

\* Mutant: every call starts a worker.
IncrementQueue_AlwaysFirst(c) ==
    /\ Go(c, "checked", "first")
    /\ workers' = [workers EXCEPT ![runOf[c]] = @ + 1]
    /\ unserved' = unserved \cup {c}
    /\ UNCHANGED <<runOf, workersWg, stopRequested, stop>>

\* The second one.  Stop may have been called in between.
IncrementQueue(c) ==
    /\ Go(c, "checked", IF workers[runOf[c]] = 0 THEN "first" ELSE "returned")
    /\ workers' = [workers EXCEPT ![runOf[c]] = @ + 1]
    /\ unserved' = unserved \cup {c}
    /\ UNCHANGED <<runOf, workersWg, stopRequested, stop>>

\* workersWg.Add and the go statement.
StartWorker(c) ==
    /\ Go(c, "first", "loop")
    /\ workersWg' = workersWg + 1
    /\ UNCHANGED <<runOf, workers, stopRequested, stop, unserved>>

----------------------------------------------------------------------------
(* The goroutine.                                                           *)

\* runExecutor.Execute begins: it loads the run now, so it does what all the
\* calls counted so far have asked for.
BeginExecute(c) ==
    /\ Go(c, "loop", "executing")
    /\ unserved' = {d \in unserved : runOf[d] # runOf[c]}
    /\ UNCHANGED <<runOf, workers, workersWg, stopRequested, stop>>

EndExecute(c) ==
    /\ Go(c, "executing", "executed")
    /\ UNCHANGED <<runOf, workers, workersWg, stopRequested, stop, unserved>>

\* Mutant: the worker leaves while a call is still counted.
DecrementQueue_OneTooFew(c) ==
    /\ Go(c, "executed", IF workers[runOf[c]] <= 2 THEN "finished" ELSE "loop")
    /\ workers' = [workers EXCEPT ![runOf[c]] = IF @ <= 2 THEN 0 ELSE @ - 1]
    /\ UNCHANGED <<runOf, workersWg, stopRequested, stop, unserved>>

\* Mutant: the entry of a finished run is left in the map.
DecrementQueue_KeepsEntry(c) ==
    /\ Go(c, "executed", IF workers[runOf[c]] <= 1 THEN "finished" ELSE "loop")
    /\ workers' = [workers EXCEPT ![runOf[c]] = IF @ <= 1 THEN 1 ELSE @ - 1]
    /\ UNCHANGED <<runOf, workersWg, stopRequested, stop, unserved>>

\* The worker leaves when the count comes down to nothing.
DecrementQueue(c) ==
    /\ Go(c, "executed", IF workers[runOf[c]] <= 1 THEN "finished" ELSE "loop")
    /\ workers' = [workers EXCEPT ![runOf[c]] = @ - 1]
    /\ UNCHANGED <<runOf, workersWg, stopRequested, stop, unserved>>

\* Mutant: the worker forgets to tell the wait group.
WorkerDone_NotCounted(c) ==
    /\ Go(c, "finished", "done")
    /\ UNCHANGED <<runOf, workers, workersWg, stopRequested, stop, unserved>>

\* The deferred workersWg.Done.
WorkerDone(c) ==
    /\ Go(c, "finished", "done")
    /\ workersWg' = workersWg - 1
    /\ UNCHANGED <<runOf, workers, stopRequested, stop, unserved>>

----------------------------------------------------------------------------
(* Stop.                                                                    *)

RequestStop ==
    /\ stop = "ready"
    /\ stop' = "waiting"
    /\ stopRequested' = TRUE
    /\ UNCHANGED <<pc, runOf, workers, workersWg, unserved>>

\* workersWg.Wait returns.
StopReturns ==
    /\ stop = "waiting"
    /\ workersWg = 0
    /\ stop' = "returned"
    /\ UNCHANGED <<pc, runOf, workers, workersWg, stopRequested, unserved>>

----------------------------------------------------------------------------

CallStep(c) ==
    \/ Check(c)
    \/ IncrementQueue(c)
    \/ StartWorker(c)
    \/ BeginExecute(c)
    \/ EndExecute(c)
    \/ DecrementQueue(c)
    \/ WorkerDone(c)

Next == RequestStop \/ StopReturns \/ \E c \in Calls : CallStep(c)

Spec == Init /\ [][Next]_vars

\* Every goroutine runs, Execute ends (each adapter has a timeout of its own),
\* and Wait wakes up.  Nobody has to call Run or Stop.
Fairness ==
    /\ WF_vars(StopReturns)
    /\ \A c \in Calls : WF_vars(pc[c] # "ready" /\ CallStep(c))

FairSpec == Spec /\ Fairness

----------------------------------------------------------------------------
(* Properties.                                                              *)

\* A run is never executed by two goroutines at a time, however calls for it
\* overlap with the end of an execution (decrementQueue and incrementQueue).
\* TestRunQueue_OneWorkerForSameRunTriggeredMultipleTimes sees one such order.
OneExecution ==
    \A c, d \in Calls :
        pc[c] = "executing" /\ pc[d] = "executing" /\ runOf[c] = runOf[d] => c = d

\* A call that has been counted is never forgotten: its run is still going to
\* be begun, by a worker that has not begun it yet or that will find another
\* call counted when it is done.
NoCallForgotten ==
    \A c \in unserved : \E d \in Calls :
        /\ runOf[d] = runOf[c]
        /\ \/ pc[d] \in {"first", "loop"}
           \/ pc[d] \in {"executing", "executed"} /\ workers[runOf[c]] > 1

\* The queue keeps the promise of RunRequests: its count of workers is the
\* count of requests, and a run is being executed while a worker is in Execute
\* or has not given its count back.
Requests == INSTANCE RunRequests WITH
    requests  <- workers,
    executing <- {runOf[c] : c \in {d \in Calls : pc[d] \in {"executing", "executed"}}}

ImplementsRunRequests == Requests!Spec

\* Each call that has been counted is followed by an execution of its run that
\* begins after it.
CountedCallIsServed == \A c \in Calls : c \in unserved ~> c \notin unserved

\* Stop comes to an end: no more calls are accepted, so the workers run dry.
StopEnds == stop = "waiting" ~> stop = "returned"

\* The workers come to an end of what they are given: each call's run, and Stop.
WorkersGoOn == CountedCallIsServed /\ StopEnds

\* run_queue.go:58: "Stop closes all open worker channels."
StoppedMeansNoWorkers ==
    stop = "returned" => \A c \in Calls : pc[c] \notin {"loop", "executing"}
=============================================================================
