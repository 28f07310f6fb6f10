------------------------------ MODULE JobRuns ------------------------------
(****************************************************************************)
(* The life of job runs in a Chainlink node: the run manager                *)
(* (core/services/run_manager.go), the run queue (run_queue.go), the run    *)
(* executor (run_executor.go), the optimistic locking of the job_runs table *)
(* (core/store/orm/orm.go), the head tracker callbacks that resume runs     *)
(* (job_subscriber.go, chainlink/application.go) and the HTTP handlers of   *)
(* external adapters and operators (core/web/job_runs_controller.go).       *)
(*                                                                          *)
(* Every actor loads a run, works on its copy and saves it.  A save goes    *)
(* through only if the row still carries the updated_at of the copy.        *)
(* updated_at is compared for equality only, so all there is to know about  *)
(* it is which copies are still fresh.  The executor acts on the outside    *)
(* world in between, so its copy is kept in full; what any other actor does *)
(* with a copy that is no longer fresh comes to nothing.                    *)
(****************************************************************************)
EXTENDS Adapters, Sequences, FiniteSets

CONSTANTS
    Runs,            \* the identifiers of job runs
    MaxHeight,       \* bound on the heights told apart
    MaxCancels,      \* bound on the cancel requests of an operator
    MaxDisconnects,  \* bound on lost connections to the Ethereum node
    MaxCrashes       \* bound on crashes of the node

ASSUME BoundsAssumption ==
    /\ MaxHeight \in Nat
    /\ MaxCancels \in Nat
    /\ MaxDisconnects \in Nat
    /\ MaxCrashes \in Nat

VARIABLES
    \* the database
    created,     \* the runs that have a row
    db,          \* the rows of job_runs and task_runs
    archived,    \* is the job (and with it each of its runs) soft deleted
    \* the memory of the node
    up,          \* is the process running
    fresh,       \* for each run, the actors whose copy has the row's updated_at
    toRun,       \* for each run, the calls of runQueue.Run about to be made
    workers,     \* runQueue.workers
    exec,        \* for each run, its executor goroutine
    resumer,     \* the passes of ResumeAllConfirming and ResumeAllConnecting
    wake,        \* is there a token in the channel of the jobResumer
    cancelling,  \* the runs an operator's Cancel has loaded
    answer,      \* for each run, the callback ResumePending is working on
    connected,   \* TxManager.Connected()
    height,      \* the last head handed to OnNewHead
    \* the outside world
    owed,        \* for each run, the tasks an external adapter has been asked for
    posts,       \* for each run and task, the requests posted to its adapter
    txs,         \* for each run, what its transactions carried
    \* counters that bound the behaviours
    spent

dbVars    == <<created, db, archived>>
queueVars == <<toRun, workers>>
nodeVars  == <<up, connected, height, wake>>
worldVars == <<owed, posts, txs>>
vars == <<dbVars, nodeVars, fresh, queueVars, exec, resumer, cancelling, answer,
          worldVars, spent>>

----------------------------------------------------------------------------
(* Types.                                                                   *)

Resumers == {"confirming", "connecting"}

Actors == Resumers \cup {"executor", "cancel", "bridge"}

NoRun == NewRun(NoHeight, TRUE)

NoAnswer == RunOutput("unstarted", NoData)

Executor ==
    [ pc   : {"idle", "load", "task", "save", "done"},
      run  : JobRun,
      next : 1 .. TaskCount + 1 ]

ExecutorAt(pc, run, next) == [pc |-> pc, run |-> run, next |-> next]

IdleExecutor == ExecutorAt("idle", NoRun, 1)

\* "select": the ids are known, "work": the rows of those ids are loaded.
Pass == [pc : {"idle", "select", "work"}, runs : SUBSET Runs]

IdlePass == [pc |-> "idle", runs |-> {}]

Spent == [cancels : 0 .. MaxCancels, disconnects : 0 .. MaxDisconnects,
          crashes : 0 .. MaxCrashes]

TypeOK ==
    /\ created \in SUBSET Runs
    /\ db \in [Runs -> JobRun]
    /\ archived \in BOOLEAN
    /\ up \in BOOLEAN
    /\ fresh \in [Runs -> SUBSET Actors]
    /\ toRun \in [Runs -> Nat]
    /\ workers \in [Runs -> Nat]
    /\ exec \in [Runs -> Executor]
    /\ resumer \in [Resumers -> Pass]
    /\ wake \in BOOLEAN
    /\ cancelling \in SUBSET Runs
    /\ answer \in [Runs -> RunOutputs]
    /\ connected \in BOOLEAN
    /\ height \in 0 .. MaxHeight
    /\ owed \in [Runs -> SUBSET Tasks]
    /\ posts \in [Runs -> [Tasks -> Nat]]
    /\ txs \in [Runs -> Seq(Data)]
    /\ spent \in Spent

Init ==
    /\ created = {}
    /\ db = [r \in Runs |-> NoRun]
    /\ archived = FALSE
    /\ up = TRUE
    /\ fresh = [r \in Runs |-> {}]
    /\ toRun = [r \in Runs |-> 0]
    /\ workers = [r \in Runs |-> 0]
    /\ exec = [r \in Runs |-> IdleExecutor]
    /\ resumer = [k \in Resumers |-> IdlePass]
    /\ wake = FALSE
    /\ cancelling = {}
    /\ answer = [r \in Runs |-> NoAnswer]
    /\ connected = FALSE
    /\ height = 0
    /\ owed = [r \in Runs |-> {}]
    /\ posts = [r \in Runs |-> [i \in Tasks |-> 0]]
    /\ txs = [r \in Runs |-> <<>>]
    /\ spent = [cancels |-> 0, disconnects |-> 0, crashes |-> 0]

----------------------------------------------------------------------------
(* Loading and saving.                                                      *)

\* FindJobRun: the copy of this actor is the row.
Load(r, a) == fresh' = [fresh EXCEPT ![r] = @ \cup {a}]

\* SaveJobRun of a copy that is still fresh: the row gets a new updated_at, and
\* the only copy that knows it is the one just saved.
Save(r, a, run) ==
    /\ a \in fresh[r]
    /\ db' = [db EXCEPT ![r] = run]
    /\ fresh' = [fresh EXCEPT ![r] = {a}]

\* The same by an actor that drops its copy afterwards.
SaveAndForget(r, a, run) ==
    /\ a \in fresh[r]
    /\ db' = [db EXCEPT ![r] = run]
    /\ fresh' = [fresh EXCEPT ![r] = {}]

\* OptimisticUpdateConflictError: nothing is written.
Conflict(r, a) == a \notin fresh[r] /\ UNCHANGED <<db, fresh>>

\* updateAndTrigger: the run is saved, and queued if it is in progress.  Both
\* are skipped by a conflict.
UpdateAndTrigger(r, a, run) ==
    \/ /\ SaveAndForget(r, a, run)
       /\ toRun' = [toRun EXCEPT ![r] = IF run.status = "in_progress" THEN @ + 1 ELSE @]
    \/ Conflict(r, a) /\ UNCHANGED toRun

----------------------------------------------------------------------------
(* RunManager.Create and CreateErrored.                                     *)

\* A run is created with the height of the log that started it, which may be
\* ahead of the head the node knows, or with none.  Nobody has loaded the new
\* row yet.
Create(r, h, valid) ==
    /\ up
    /\ ~archived
    /\ r \notin created
    /\ created' = created \cup {r}
    /\ db' = [db EXCEPT ![r] = NewRun(h, valid)]
    /\ fresh' = [fresh EXCEPT ![r] = {}]
    /\ toRun' = [toRun EXCEPT ![r] = IF Runnable(db'[r].status) THEN @ + 1 ELSE @]
    /\ UNCHANGED <<archived, nodeVars, workers, exec, resumer, cancelling,
                   answer, worldVars, spent>>

\* The job is looked up unscoped: an archived one gets an errored run, too.
CreateErrored(r) ==
    /\ up
    /\ r \notin created
    /\ created' = created \cup {r}
    /\ db' = [db EXCEPT ![r] = NewRun(NoHeight, FALSE)]
    /\ fresh' = [fresh EXCEPT ![r] = {}]
    /\ UNCHANGED <<archived, nodeVars, queueVars, exec, resumer, cancelling,
                   answer, worldVars, spent>>

ArchiveJob ==
    /\ up
    /\ ~archived
    /\ archived' = TRUE
    /\ UNCHANGED <<created, db, nodeVars, fresh, queueVars, exec, resumer,
                   cancelling, answer, worldVars, spent>>

----------------------------------------------------------------------------
(* RunQueue.Run, and the goroutine it starts.                               *)

\* Mutant: a call for a run that is being executed is dropped.
QueueRun_DropsIfBusy(r) ==
    /\ toRun[r] > 0
    /\ toRun' = [toRun EXCEPT ![r] = @ - 1]
    /\ workers' = [workers EXCEPT ![r] = 1]
    /\ exec' = IF workers[r] = 0 THEN [exec EXCEPT ![r] = ExecutorAt("load", NoRun, 1)] ELSE exec
    /\ UNCHANGED <<dbVars, nodeVars, fresh, resumer, cancelling, answer, worldVars, spent>>

\* Only the first of the calls for a run starts a goroutine; the others make
\* it execute the run again.  Module RunQueue takes this step apart.
QueueRun(r) ==
    /\ toRun[r] > 0
    /\ toRun' = [toRun EXCEPT ![r] = @ - 1]
    /\ workers' = [workers EXCEPT ![r] = @ + 1]
    /\ exec' = IF workers[r] = 0 THEN [exec EXCEPT ![r] = ExecutorAt("load", NoRun, 1)] ELSE exec
    /\ UNCHANGED <<dbVars, nodeVars, fresh, resumer, cancelling, answer, worldVars, spent>>

\* RunExecutor.Execute loads the run once.
ExecLoad(r) ==
    /\ exec[r].pc = "load"
    /\ exec' = [exec EXCEPT ![r] = ExecutorAt("task", db[r], 1)]
    /\ Load(r, "executor")
    /\ UNCHANGED <<dbVars, nodeVars, queueVars, resumer, cancelling, answer, worldVars, spent>>

\* The loop over the tasks is at task i of a copy that may go on.
AtTask(r, i) ==
    /\ exec[r].pc = "task"
    /\ exec[r].next = i
    /\ Runnable(exec[r].run.status)

\* The loop ends: the run is blocked or there are no more tasks.
ExecStop(r) ==
    /\ exec[r].pc = "task"
    /\ exec[r].next > TaskCount \/ ~Runnable(exec[r].run.status)
    /\ exec' = [exec EXCEPT ![r] = ExecutorAt("done", @.run, @.next)]
    /\ UNCHANGED <<dbVars, nodeVars, fresh, queueVars, resumer, cancelling, answer,
                   worldVars, spent>>

ExecSkip(r, i) ==
    /\ AtTask(r, i)
    /\ exec[r].run.task[i].status = "completed"
    /\ exec' = [exec EXCEPT ![r] = ExecutorAt("task", @.run, i + 1)]
    /\ UNCHANGED <<dbVars, nodeVars, fresh, queueVars, resumer, cancelling, answer,
                   worldVars, spent>>

\* Too few confirmations: the task waits, whatever its status was.
ExecPause(r, i) ==
    /\ AtTask(r, i)
    /\ exec[r].run.task[i].status # "completed"
    /\ ~meetsMinimumConfirmations(exec[r].run, i)
    /\ exec' = [exec EXCEPT ![r] =
                   ExecutorAt("save", PauseAt(@.run, i, "pending_confirmations"), i)]
    /\ UNCHANGED <<dbVars, nodeVars, fresh, queueVars, resumer, cancelling, answer,
                   worldVars, spent>>

\* What performing task i with this outcome did to the outside world.
Effect(r, i, effect, input) ==
    /\ posts' = [posts EXCEPT ![r][i] = IF effect = "post" THEN @ + 1 ELSE @]
    /\ owed' = [owed EXCEPT ![r] = IF effect = "post" THEN @ \cup {i} ELSE @]
    /\ txs' = [txs EXCEPT ![r] = IF effect = "send" THEN Append(@, input) ELSE @]

\* executeTask and the two ApplyOutput.  The adapter acts on the outside world
\* before its output is saved.
ExecPerform(r, i) ==
    /\ AtTask(r, i)
    /\ exec[r].run.task[i].status # "completed"
    /\ meetsMinimumConfirmations(exec[r].run, i)
    /\ \E o \in Perform(exec[r].run, i, connected) :
          /\ exec' = [exec EXCEPT ![r] = ExecutorAt("save", ApplyOutput(@.run, i, o.out), i)]
          /\ Effect(r, i, o.effect, TaskInput(exec[r].run, i))
    /\ UNCHANGED <<dbVars, nodeVars, fresh, queueVars, resumer, cancelling, answer, spent>>

\* Mutant: the loop goes on after a conflict.
ExecSave_IgnoresConflict(r) ==
    /\ exec[r].pc = "save"
    /\ Save(r, "executor", exec[r].run) \/ Conflict(r, "executor")
    /\ exec' = [exec EXCEPT ![r] = ExecutorAt("task", @.run, @.next + 1)]
    /\ UNCHANGED <<created, archived, nodeVars, queueVars, resumer, cancelling, answer,
                   worldVars, spent>>

\* A conflict makes Execute return nil: what the task has done is forgotten.
ExecSave(r) ==
    /\ exec[r].pc = "save"
    /\ \/ /\ Save(r, "executor", exec[r].run)
          /\ exec' = [exec EXCEPT ![r] = ExecutorAt("task", @.run, @.next + 1)]
       \/ /\ Conflict(r, "executor")
          /\ exec' = [exec EXCEPT ![r] = ExecutorAt("done", @.run, @.next)]
    /\ UNCHANGED <<created, archived, nodeVars, queueVars, resumer, cancelling, answer,
                   worldVars, spent>>

\* Mutant: the goroutine leaves, and takes the calls that came meanwhile with it.
ExecDone_TakesAll(r) ==
    /\ exec[r].pc = "done"
    /\ workers' = [workers EXCEPT ![r] = 0]
    /\ exec' = [exec EXCEPT ![r] = IdleExecutor]
    /\ fresh' = [fresh EXCEPT ![r] = @ \ {"executor"}]
    /\ UNCHANGED <<dbVars, nodeVars, toRun, resumer, cancelling, answer, worldVars, spent>>

\* decrementQueue: the goroutine goes on as long as calls are counted.
ExecDone(r) ==
    /\ exec[r].pc = "done"
    /\ workers' = [workers EXCEPT ![r] = @ - 1]
    /\ exec' = [exec EXCEPT ![r] =
                   IF workers[r] > 1 THEN ExecutorAt("load", NoRun, 1) ELSE IdleExecutor]
    /\ fresh' = [fresh EXCEPT ![r] = @ \ {"executor"}]
    /\ UNCHANGED <<dbVars, nodeVars, toRun, resumer, cancelling, answer, worldVars, spent>>

----------------------------------------------------------------------------
(* ResumeAllConfirming and ResumeAllConnecting.                             *)

\* Mutant: runs that wait for a connection only.
WaitingRuns_ConnectionOnly == {r \in created : db[r].status = "pending_connection"}

\* The first query of UnscopedJobRunsWithStatus plucks the ids.
WaitingRuns == {r \in created : db[r].status \in {"pending_connection", "pending_confirmations"}}

StartPass(k) == resumer' = [resumer EXCEPT ![k] = [pc |-> "select", runs |-> WaitingRuns]]

\* The second one loads the rows with those ids, whatever their status is now.
LoadBatch(k) ==
    /\ resumer[k].pc = "select"
    /\ resumer' = [resumer EXCEPT ![k] =
                      IF @.runs = {} THEN IdlePass ELSE [pc |-> "work", runs |-> @.runs]]
    /\ fresh' = [r \in Runs |-> IF r \in resumer[k].runs THEN fresh[r] \cup {k} ELSE fresh[r]]
    /\ UNCHANGED <<dbVars, nodeVars, queueVars, exec, cancelling, answer, worldVars, spent>>

\* The callback for one of the loaded runs.
WorkOn(k, r) ==
    /\ resumer[k].pc = "work"
    /\ r \in resumer[k].runs
    /\ resumer' = [resumer EXCEPT ![k] =
          IF @.runs = {r} THEN IdlePass ELSE [pc |-> "work", runs |-> @.runs \ {r}]]

\* The worker of the jobResumer reads the head it was woken for, or a later one
\* that OnNewHead has stored since.
ResumeAllConfirming ==
    /\ wake
    /\ resumer["confirming"].pc = "idle"
    /\ wake' = FALSE
    /\ StartPass("confirming")
    /\ UNCHANGED <<dbVars, up, connected, height, fresh, queueVars, exec, cancelling,
                   answer, worldVars, spent>>

ResumeConfirming(r, onMainChain) ==
    /\ WorkOn("confirming", r)
    /\ UpdateAndTrigger(r, "confirming", ConfirmingUpdate(db[r], height, onMainChain))
    /\ UNCHANGED <<created, archived, nodeVars, workers, exec, cancelling, answer,
                   worldVars, spent>>

ResumeConnecting(r) ==
    /\ WorkOn("connecting", r)
    /\ UpdateAndTrigger(r, "connecting", ConnectingUpdate(db[r]))
    /\ UNCHANGED <<created, archived, nodeVars, workers, exec, cancelling, answer,
                   worldVars, spent>>

----------------------------------------------------------------------------
(* The head tracker.  Its goroutine calls Connect, OnNewHead and Disconnect  *)
(* of each head trackable in turn.                                          *)

\* The transaction manager is connected first, ResumeAllConnecting comes last.
Connect ==
    /\ up
    /\ ~connected
    /\ resumer["connecting"].pc = "idle"
    /\ connected' = TRUE
    /\ StartPass("connecting")
    /\ UNCHANGED <<dbVars, up, height, wake, fresh, queueVars, exec, cancelling, answer,
                   worldVars, spent>>

Disconnect ==
    /\ connected
    /\ resumer["connecting"].pc = "idle"
    /\ spent.disconnects < MaxDisconnects
    /\ spent' = [spent EXCEPT !.disconnects = @ + 1]
    /\ connected' = FALSE
    /\ UNCHANGED <<dbVars, up, height, wake, fresh, queueVars, exec, resumer, cancelling,
                   answer, worldVars>>

\* jobSubscriber.OnNewHead: the head is stored for the worker, and the worker is
\* woken unless a token is in the channel already.  Heads keep coming when the
\* bound is reached, but they are not told apart any more.
OnNewHead ==
    /\ connected
    /\ resumer["connecting"].pc = "idle"
    /\ height' = IF height < MaxHeight THEN height + 1 ELSE height
    /\ wake' = TRUE
    /\ UNCHANGED <<dbVars, up, connected, fresh, queueVars, exec, resumer, cancelling,
                   answer, worldVars, spent>>

----------------------------------------------------------------------------
(* External adapters: JobRunsController.Update and ResumePending.           *)

\* Mutant: the wrong pending status is asked for.
AnswerArrives_WrongStatus(r, i, s) ==
    /\ up
    /\ answer[r] = NoAnswer
    /\ i \in owed[r]
    /\ s \in BridgeResultStatuses
    /\ db[r].status = "pending_connection"
    /\ answer' = [answer EXCEPT ![r] = RunOutput(s, IF s = "completed" THEN i ELSE NoData)]
    /\ Load(r, "bridge")
    /\ UNCHANGED <<dbVars, nodeVars, queueVars, exec, resumer, cancelling, worldVars, spent>>

\* An adapter that has been asked may answer at any time, and again.  The
\* answer is dropped unless the run is pending now.
AnswerArrives(r, i, s) ==
    /\ up
    /\ answer[r] = NoAnswer
    /\ i \in owed[r]
    /\ s \in BridgeResultStatuses
    /\ db[r].status = "pending_bridge"
    /\ answer' = [answer EXCEPT ![r] = RunOutput(s, IF s = "completed" THEN i ELSE NoData)]
    /\ Load(r, "bridge")
    /\ UNCHANGED <<dbVars, nodeVars, queueVars, exec, resumer, cancelling, worldVars, spent>>

ResumePending(r) ==
    /\ answer[r] # NoAnswer
    /\ UpdateAndTrigger(r, "bridge", PendingUpdate(db[r], answer[r]))
    /\ answer' = [answer EXCEPT ![r] = NoAnswer]
    /\ UNCHANGED <<created, archived, nodeVars, workers, exec, resumer, cancelling,
                   worldVars, spent>>

----------------------------------------------------------------------------
(* RunManager.Cancel.  It loads the run scoped, so not an archived one.     *)

CancelLoad(r) ==
    /\ up
    /\ ~archived
    /\ r \in created
    /\ r \notin cancelling
    /\ ~Finished(db[r].status)
    /\ spent.cancels < MaxCancels
    /\ spent' = [spent EXCEPT !.cancels = @ + 1]
    /\ cancelling' = cancelling \cup {r}
    /\ Load(r, "cancel")
    /\ UNCHANGED <<dbVars, nodeVars, queueVars, exec, resumer, answer, worldVars>>

Cancel(r) ==
    /\ r \in cancelling
    /\ cancelling' = cancelling \ {r}
    /\ \/ SaveAndForget(r, "cancel", CancelRun(db[r]))
       \/ Conflict(r, "cancel")
    /\ UNCHANGED <<created, archived, nodeVars, queueVars, exec, resumer, answer,
                   worldVars, spent>>

----------------------------------------------------------------------------
(* The process ends, in a crash or by Application.Stop, and starts again.   *)

Crash ==
    /\ up
    /\ spent.crashes < MaxCrashes
    /\ spent' = [spent EXCEPT !.crashes = @ + 1]
    /\ up' = FALSE
    /\ fresh' = [r \in Runs |-> {}]
    /\ toRun' = [r \in Runs |-> 0]
    /\ workers' = [r \in Runs |-> 0]
    /\ exec' = [r \in Runs |-> IdleExecutor]
    /\ resumer' = [k \in Resumers |-> IdlePass]
    /\ wake' = FALSE
    /\ cancelling' = {}
    /\ answer' = [r \in Runs |-> NoAnswer]
    /\ connected' = FALSE
    /\ UNCHANGED <<dbVars, height, worldVars>>

\* Mutant: a run that was interrupted is not looked for.
InterruptedRuns_SleepOnly == {r \in created : db[r].status = "pending_sleep"}

\* RunManager.ResumeAllInProgress hands these to the queue before anything else
\* can write the status of a run.
InterruptedRuns == {r \in created : db[r].status \in {"in_progress", "pending_sleep"}}

Start ==
    /\ ~up
    /\ up' = TRUE
    /\ workers' = [r \in Runs |-> IF r \in InterruptedRuns THEN 1 ELSE 0]
    /\ exec' = [r \in Runs |-> IF r \in InterruptedRuns
                               THEN ExecutorAt("load", NoRun, 1) ELSE IdleExecutor]
    /\ UNCHANGED <<dbVars, connected, height, wake, fresh, toRun, resumer, cancelling,
                   answer, worldVars, spent>>

----------------------------------------------------------------------------

ExecStep(r) ==
    \/ ExecLoad(r) \/ ExecStop(r) \/ ExecSave(r) \/ ExecDone(r)
    \/ \E i \in Tasks : ExecSkip(r, i) \/ ExecPause(r, i) \/ ExecPerform(r, i)

CreateStep(r) ==
    \/ \E h \in {NoHeight, height, height + 1}, valid \in BOOLEAN : Create(r, h, valid)
    \/ CreateErrored(r)

ResumeStep(r) ==
    \/ \E onMainChain \in BOOLEAN : ResumeConfirming(r, onMainChain)
    \/ ResumeConnecting(r)
    \/ ResumePending(r)

AnswerStep(r) == \E i \in Tasks, s \in BridgeResultStatuses : AnswerArrives(r, i, s)

RunStep(r) ==
    \/ CreateStep(r)
    \/ QueueRun(r)
    \/ ExecStep(r)
    \/ ResumeStep(r)
    \/ AnswerStep(r)
    \/ CancelLoad(r)
    \/ Cancel(r)

NodeStep ==
    \/ ArchiveJob
    \/ ResumeAllConfirming
    \/ \E k \in Resumers : LoadBatch(k)
    \/ Connect
    \/ Disconnect
    \/ OnNewHead
    \/ Crash
    \/ Start

Next == NodeStep \/ \E r \in Runs : RunStep(r)

Spec == Init /\ [][Next]_vars

----------------------------------------------------------------------------
(* Fairness.  Goroutines run as long as the process does, the process is     *)
(* started again after a crash, the head tracker reconnects                  *)
(* (HeadTracker.listenForNewHeads loops) and the chain grows.  An external   *)
(* adapter that got no 2xx answer to its result sends it again; that is a    *)
(* promise of the adapter, not of the node.                                  *)

Fairness ==
    /\ WF_vars(ResumeAllConfirming)
    /\ \A k \in Resumers : WF_vars(LoadBatch(k))
    /\ WF_vars(Connect)
    /\ WF_vars(OnNewHead)
    /\ WF_vars(Start)
    /\ \A r \in Runs :
          /\ WF_vars(QueueRun(r))
          /\ WF_vars(ExecStep(r))
          /\ WF_vars(ResumeStep(r))
          /\ WF_vars(Cancel(r))

AdaptersAnswer == \A r \in Runs, i \in Tasks : SF_vars(AnswerArrives(r, i, "completed"))

FairSpec == Spec /\ Fairness /\ AdaptersAnswer

----------------------------------------------------------------------------
(* Safety.                                                                  *)

\* A bridge adapter that is performed while its task is still pending says
\* in_progress (adapters/bridge.go:35), and the executor walks past the task.
Stranded(run) == \E i \in Tasks : Kind[i] = "bridge" /\ run.task[i].status = "in_progress"

\* No run is lost: while the node is up, a run that is stored as in progress
\* is being executed, or is counted for another execution, or is about to be
\* handed to the queue.  Nothing but a restart would ever pick it up otherwise,
\* whatever conflicts the executor, the resumers, operators and adapters get
\* into (RunQueue.Run, Execute's return on OptimisticUpdateConflictError,
\* updateAndTrigger).  The one exception is a stranded run.
InProgressIsQueued ==
    up => \A r \in created :
             db[r].status = "in_progress" /\ ~Stranded(db[r]) => toRun[r] + workers[r] > 0

\* The queue as the rest of the node sees it: a call counts from the moment the run
\* is saved for it, and a run is executed while its goroutine holds a copy.
Requests == INSTANCE RunRequests WITH
    requests  <- [r \in Runs |-> toRun[r] + workers[r]],
    executing <- {r \in Runs : exec[r].pc \notin {"idle", "load"}}

\* As long as the process runs, it uses its queue as RunRequests has it: nothing takes a
\* call away but the end of an execution, which takes one, none begins without a call,
\* and those of one run do not overlap, whatever conflicts make Execute return early
\* and whoever queues the run meanwhile (updateAndTrigger, Run and decrementQueue).
CallsAreAnswered == [][up /\ up' => Requests!Next \/ UNCHANGED Requests!rvars]_vars

\* A step of the executor of run r that asks the outside world for something.
Asks(r) == posts'[r] # posts[r] \/ txs'[r] # txs[r]

\* The result of task j is stored, or that of a bridge task which was stranded.
Settled(run, j) ==
    \/ run.task[j].status = "completed"
    \/ Kind[j] = "bridge" /\ run.task[j].status = "in_progress"

\* The node never asks the outside world for a step of a run before the result
\* of every earlier step is in the database (Execute saves after each task and
\* gives up on a conflict), whoever else has written the row since it was loaded.
EffectAfterSave ==
    [][\A r \in Runs : Asks(r) => \A j \in 1 .. exec[r].next - 1 : Settled(db[r], j)]_vars

LogIsConfirmed(r, i) ==
    \/ db[r].creation = NoHeight
    \/ db[r].creation > height /\ MinConfs[i] <= 1
    \/ blockConfirmations(height, db[r].creation) >= MinConfs[i]

\* No adapter is called for a run that was started by a log before the log has
\* the confirmations the task asks for, counted from the heads the node has
\* really seen (meetsMinimumConfirmations in runs.go, on whatever copy and
\* observed height the executor holds).
EffectsAreConfirmed ==
    [][\A r \in Runs : Asks(r) => LogIsConfirmed(r, exec[r].next)]_vars

\* A completed task keeps its status and its output: no stale copy, no late
\* answer of an adapter and no resumed run ever writes over it (the updated_at
\* condition of SaveJobRun).
CompletedTaskStays ==
    [][\A r \in created, i \in Tasks :
          db[r].task[i].status = "completed" => db'[r].task[i] = db[r].task[i]]_vars

----------------------------------------------------------------------------
(* What the comments of the code say and the code does not do.              *)

\* common.go:94: "Finished returns true if the status is final and can't be
\* changed."
FinishedIsFinal ==
    [][\A r \in created : Finished(db[r].status) => db'[r].status = db[r].status]_vars

\* job_run.go:110: "PreviousTaskRun returns the last task to be processed, if it
\* exists".  The executor asks it for the input of the task it is at.
PreviousTaskRunIsTheLastProcessed ==
    \A r \in Runs, i \in Tasks \ {1} :
        /\ AtTask(r, i)
        /\ exec[r].run.task[i].status # "completed"
        /\ \A j \in 1 .. i - 1 : exec[r].run.task[j].status = "completed"
        => PreviousTaskRun(exec[r].run) = i - 1

\* eth_tx.go:206: "If the input is not pending confirmations next time then it
\* may submit a new transaction.", the reason why a task that waits for the
\* confirmations of its transaction stays pending confirmations over a lost
\* connection.
NoSecondTransaction == \A r \in Runs : Len(txs[r]) <= 1

\* adapters/doc.go:59: "The EthTx adapter will write the data to the given address
\* and functionSelector."  So each task that is completed has sent a transaction
\* of its own, which is more than that some transaction of the run is safe.
CompletedTxWasSent ==
    \A r \in Runs :
        Cardinality({i \in Tasks : Kind[i] = "ethtx" /\ db[r].task[i].status = "completed"})
            <= Len(txs[r])

----------------------------------------------------------------------------
(* Liveness.                                                                *)

\* A run in progress gets on: it is finished, waits for something, or the node
\* is down (and is started again).
InProgressEnds == \A r \in Runs :
    (r \in created /\ db[r].status = "in_progress") ~> db[r].status # "in_progress"

\* A run that waits for the confirmations of the log that started it goes on
\* once they are there, although the head that brings the last of them may be
\* missed: ResumeAllConfirming does not see a run that the executor is about to
\* pause, and a crash loses a head that is stored for the worker.
WaitsForLog(r) ==
    /\ r \in created
    /\ db[r].status = "pending_confirmations"
    /\ NextTaskRun(db[r]) = 1
    /\ db[r].creation + MinConfs[1] - 1 <= MaxHeight

ConfirmedRunsGoOn == \A r \in Runs : WaitsForLog(r) ~> ~WaitsForLog(r)

\* An answer of an external adapter that is sent until it is accepted gets
\* through, however often it comes too early.
AnswersGetThrough == \A r \in Runs :
    (db[r].status = "pending_bridge") ~> (db[r].status # "pending_bridge")

\* No run is left standing: in progress, waiting for a log that is confirmed, or for
\* an adapter that repeats its answer.
RunsGoOn == InProgressEnds /\ ConfirmedRunsGoOn /\ AnswersGetThrough
============================================================================
