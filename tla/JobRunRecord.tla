---------------------------- MODULE JobRunRecord ----------------------------
(****************************************************************************)
(* One job run as a record, and the methods that change it in memory:       *)
(* core/store/models/job_run.go, core/services/runs.go and the part of      *)
(* core/services/run_manager.go that prepares a run for its next step.      *)
(* Nothing here is stored; module JobRuns says when a copy is loaded and    *)
(* when it is saved.                                                        *)
(*                                                                          *)
(* The JSON document a task produces is reduced to what its "result" key    *)
(* holds, for that is all the next task reads: nothing, the output of task  *)
(* number i, or the hash of an Ethereum transaction.                        *)
(****************************************************************************)
EXTENDS RunStatus, Integers

CONSTANTS
    TaskCount,   \* the number of tasks of the job
    MinConfs     \* the confirmations each task asks for

ASSUME TaskCountAssumption == TaskCount \in Nat \ {0}

Tasks == 1 .. TaskCount

ASSUME MinConfsAssumption == MinConfs \in [Tasks -> Nat]

NoData == 0
TxHash == TaskCount + 1
Data == 0 .. TaskCount + 1

\* models.Merge on the "result" key: a later document overrides an earlier one.
Merge(a, b) == IF b = NoData THEN a ELSE b

\* A run created by a web request or by cron has no creation height.
NoHeight == -1

TaskRun == [status : RunStatuses, data : Data]

JobRun ==
    [ status       : RunStatuses,
      task         : [Tasks -> TaskRun],
      request      : Data,           \* RunRequest.RequestParams
      creation     : Nat \cup {NoHeight},
      observed     : Nat \cup {NoHeight},
      finishedAt   : BOOLEAN ]       \* is FinishedAt set

----------------------------------------------------------------------------
(* Which task comes next.                                                   *)

Startable(run) == {i \in Tasks : CanStart(run.task[i].status)}

TasksRemain(run) == Startable(run) # {}

NextTaskRun(run) == CHOOSE i \in Startable(run) : \A j \in Startable(run) : i <= j

\* PreviousTaskRun is the task before the next one, if there is a next one.
\* 0 stands for nil.
PreviousTaskRun(run) == IF TasksRemain(run) THEN NextTaskRun(run) - 1 ELSE 0

----------------------------------------------------------------------------
(* The setters.                                                             *)

\* JobRun.setStatus.  FinishedAt is set and never cleared.
SetStatus(run, s) ==
    IF s = "completed" /\ TasksRemain(run)
    THEN [run EXCEPT !.status = "in_progress"]
    ELSE [run EXCEPT !.status = s, !.finishedAt = @ \/ Finished(s)]

SetTask(run, i, s) == [run EXCEPT !.task[i].status = s]

\* Both the task and the run are told to wait, FinishedAt is left alone.
PauseAt(run, i, s) == [SetTask(run, i, s) EXCEPT !.status = s]

\* TaskRun.ApplyOutput and then JobRun.ApplyOutput.  An error leaves the data
\* of the task as it was.
ApplyOutput(run, i, out) ==
    LET data == IF out.status = "errored" THEN run.task[i].data ELSE out.data
    IN  SetStatus([run EXCEPT !.task[i] = [status |-> out.status, data |-> data]],
                  out.status)

\* ApplyBridgeRunResult of the task and of the run.  Unlike ApplyOutput it
\* stores the data even of an error.
ApplyBridgeRunResult(run, i, result) ==
    SetStatus([run EXCEPT !.task[i] = result], result.status)

\* JobRun.Cancel.
CancelRun(run) ==
    SetStatus(IF TasksRemain(run) THEN SetTask(run, NextTaskRun(run), "cancelled") ELSE run,
              "cancelled")

----------------------------------------------------------------------------
(* Confirmations.                                                           *)

\* Mutant: the block of the log is counted twice.
blockConfirmations_TwiceCounted(current, creation) ==
    IF current - creation + 2 < 0 THEN 0 ELSE current - creation + 2

blockConfirmations(current, creation) ==
    IF current - creation + 1 < 0 THEN 0 ELSE current - creation + 1

\* NewRun leaves MinimumConfirmations invalid exactly when it has no height.
meetsMinimumConfirmations(run, i) ==
    \/ run.creation = NoHeight
    \/ run.observed = NoHeight
    \/ blockConfirmations(run.observed, run.creation) >= MinConfs[i]

\* validateOnMainChain looks for the receipt of the transaction that started
\* the run only if the task asks for confirmations.
ChecksMainChain(run, i) == run.creation # NoHeight /\ MinConfs[i] > 0

validateMinimumConfirmations(run, i, onMainChain) ==
    IF ~meetsMinimumConfirmations(run, i)
    THEN PauseAt(run, i, "pending_confirmations")
    ELSE IF ChecksMainChain(run, i) /\ ~onMainChain
    THEN SetStatus(SetTask(run, i, "errored"), "errored")
    ELSE [run EXCEPT !.status = "in_progress"]

----------------------------------------------------------------------------
(* What the three resume operations of the run manager write.               *)

\* ResumeAllConfirming, for one run.  The status of the task is not touched
\* when the run goes on.
ConfirmingUpdate(run, head, onMainChain) ==
    IF ~TasksRemain(run)
    THEN SetStatus(run, "errored")
    ELSE validateMinimumConfirmations([run EXCEPT !.observed = head],
                                      NextTaskRun(run), onMainChain)

\* ResumeAllConnecting, for one run.
ConnectingUpdate(run) ==
    IF ~TasksRemain(run)
    THEN SetStatus(run, "errored")
    ELSE PauseAt(run, NextTaskRun(run), "in_progress")

\* ResumePending.  The answer is also merged into the request parameters.
PendingUpdate(run, result) ==
    IF ~TasksRemain(run)
    THEN SetStatus(run, "errored")
    ELSE ApplyBridgeRunResult([run EXCEPT !.request = Merge(@, result.data)],
                              NextTaskRun(run), result)

\* NewRun followed by ValidateRun: a run whose adapters cannot be built, or
\* whose payment is below the cost, starts out errored.
NewRun(height, valid) ==
    LET run == [ status     |-> "in_progress",
                 task       |-> [i \in Tasks |-> [status |-> "unstarted", data |-> NoData]],
                 request    |-> NoData,
                 creation   |-> height,
                 observed   |-> height,
                 finishedAt |-> FALSE ]
    IN  IF valid THEN run ELSE SetStatus(run, "errored")
=============================================================================
